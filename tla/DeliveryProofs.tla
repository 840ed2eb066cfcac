--------------------------- MODULE DeliveryProofs ---------------------------
(***************************************************************************)
(* Seen from outside the program implements Delivery, and what an exit     *)
(* status of 0 says of the state main() ends in.                           *)
(***************************************************************************)
EXTENDS ProgramTypes

-----------------------------------------------------------------------------
(***************************************************************************)
(* The inductive invariant.                                                *)
(***************************************************************************)

\* The stages in which pass 2 walks the IR, and those from fopen to fclose.
Walking == stage \in LayoutStages \cup {"emit", "finalize"}
Opened == Walking \/ stage \in {"finish", "container", "close"}

\* The output is open and the parse was a success while there is work to do on it.
OpenForWork == Opened => out_file = "open" /\ exit_code = Running /\ parse_rc = 0

\* The container is the last thing written.
Unsealed == Opened /\ stage # "close" => finish_ok = FALSE

\* Pass 2 walks the IR that pass 1 left, and stays within one entry behind its end.
WithinIR == Walking => appended = Len(ir) /\ i <= Len(ir) + 1

\* pass2_run succeeds once, when the emission has left the last entry behind.
RunToTheEnd ==
  run_ok => i = appended + 1 /\ stage \in {"finalize", "finish", "container", "close", "exit"}

\* main() returns 0 when everything it called succeeded.
ZeroMeansSuccess ==
  exit_code = 0 =>
    /\ stage = "exit" /\ out_file = "closed" /\ parse_rc = 0
    /\ run_ok /\ final_ok /\ finish_ok

DeliveryInv ==
  TypeInv /\ OpenForWork /\ Unsealed /\ WithinIR /\ RunToTheEnd /\ ZeroMeansSuccess

-----------------------------------------------------------------------------
(***************************************************************************)
(* What each step does to the state an observer sees.                      *)
(***************************************************************************)

\* A step of pass 2 is one of the layout, an entry dealt with, or the end of the walk.
PassTwoMoves ==
  \/ /\ stage \in LayoutStages /\ stage' \in LayoutStages \cup {"emit"}
     /\ i' = 1 \/ (i <= Len(ir) /\ i' = i + 1 /\ stage' = stage)
     /\ UNCHANGED run_ok
  \/ stage = "emit" /\ stage' = "emit" /\ i <= Len(ir) /\ i' = i + 1 /\ UNCHANGED run_ok
  \/ stage = "emit" /\ stage' = "finalize" /\ UNCHANGED i /\ (run_ok' => i > Len(ir))

\* A step of pass 2 moves on in one of these ways; it drops no entry of the IR and leaves
\* the parser, the container and main alone.
LEMMA PassTwoStep ==
  ASSUME TypeInv, PassTwo
  PROVE  /\ PassTwoMoves /\ Len(ir') = Len(ir)
         /\ UNCHANGED <<pass1_vars, elf_vars, main_vars>>
<1> DEFINE Moves == PassTwoMoves /\ Len(ir') = Len(ir)
<1>1. ir \in Seq(Entry) /\ i \in Nat
  BY TypeParts DEF TypeInv, TypeOK1, GlobalsTypeOK, Pass2Types
<1>2. ASSUME DataLayout \/ TextLayout
      PROVE  Moves
  BY <1>1, <1>2 DEF DataLayout, TextLayout, AssignAddress, PassTwoMoves, LayoutStages
<1>3. ASSUME pass2_plan_choices \/ pass2_validate_compressed_ranges
      PROVE  Moves
  BY <1>1, <1>3 DEF pass2_plan_choices, pass2_validate_compressed_ranges, PassTwoMoves, LayoutStages
<1>4. ASSUME DataLayoutDone \/ PlanDone \/ TextLayoutDone \/ Relayout \/ RelayoutDone
      PROVE  Moves
  BY <1>1, <1>4 DEF DataLayoutDone, PlanDone, TextLayoutDone, Relayout, RelayoutDone, GoTo,
     PassTwoMoves, LayoutStages
<1>5. ASSUME RefuseSection \/ EmitDone
      PROVE  Moves
  BY <1>1, <1>5 DEF RefuseSection, EmitDone, Stop, layout_vars, sink_vars, PassTwoMoves
<1>6. ASSUME pass2_emit_align \/ pass2_emit_data \/ pass2_emit_instr
      PROVE  Moves
  <2>1. stage = "emit" /\ i <= Len(ir) /\ UNCHANGED ir
    BY <1>6 DEF pass2_emit_align, pass2_emit_data, pass2_emit_instr, AtEntry
  <2>2. \/ i' = i + 1 /\ UNCHANGED <<stage, run_ok>>
        \/ Stop(FALSE) /\ UNCHANGED i
    BY <1>6 DEF pass2_emit_align, pass2_emit_data, pass2_emit_instr, Write
  <2> QED
    BY <2>1, <2>2 DEF Stop, PassTwoMoves
<1>7. Moves
  BY <1>2, <1>3, <1>4, <1>5, <1>6, Zenon DEF PassTwo, Next2, Layout, Emission
<1> QED
  BY <1>7 DEF PassTwo

\* A step of out_finish seals the file or goes on.
ElfMoves ==
  /\ stage \in {"finish", "container"} /\ stage' \in {"container", "close"}
  /\ UNCHANGED finish_ok \/ (stage' = "close" /\ finish_ok' \in BOOLEAN)
  /\ UNCHANGED <<i, run_ok>>

\* A step of out_finish leaves the passes and main alone.
LEMMA ElfStep ==
  out_finish => ElfMoves /\ UNCHANGED <<pass1_vars, pass2_vars, main_vars>>
BY DEF out_finish, NextElf, FinishRaw, PlanFile, WritePart, PartFails, Finished, ElfMoves, pass2_vars

-----------------------------------------------------------------------------
(***************************************************************************)
(* The invariant is kept.                                                  *)
(***************************************************************************)

\* The parser starts with nothing opened.
LEMMA DeliveryInit == Init => DeliveryInv
<1> SUFFICES ASSUME Init
             PROVE  DeliveryInv
  OBVIOUS
<1>1. stage = "parse" /\ run_ok = FALSE /\ exit_code = Running
  BY DEF Init, Init1, Pass2Idle
<1> QED
  BY <1>1, TypeInvInit, RunningAssumption
  DEF DeliveryInv, OpenForWork, Unsealed, WithinIR, RunToTheEnd, ZeroMeansSuccess, Opened,
      Walking, LayoutStages

\* A step of the parser, and the ways to end before the output is opened.
LEMMA DeliveryBefore ==
  ASSUME DeliveryInv, TypeInv', PassOne \/ StringLost \/ GiveUp
  PROVE  DeliveryInv'
<1>1. stage \in {"parse", "parsed"} /\ stage' \in {"parse", "parsed", "exit"}
      /\ UNCHANGED <<pass2_vars, elf_vars>> /\ exit_code' \in {exit_code, 1}
  BY StagesPassOne DEF DeliveryInv, TypeInv, PassOne, StringLost, GiveUp, Reads, main_vars
<1>2. run_ok' = FALSE /\ exit_code' \in {Running, 1}
  BY <1>1 DEF DeliveryInv, TypeInv, OnlyParsed, Pass2Idle, pass2_vars
<1> QED
  BY <1>1, <1>2, RunningAssumption
  DEF DeliveryInv, OpenForWork, Unsealed, WithinIR, RunToTheEnd, ZeroMeansSuccess, Opened,
      Walking, LayoutStages

\* Opening the output.
LEMMA DeliveryOpen ==
  ASSUME DeliveryInv, TypeInv', OpenOutput
  PROVE  DeliveryInv'
<1>1. /\ stage = "parsed" /\ stage' = "data_layout" /\ parse_rc = 0 /\ out_file' = "open"
      /\ appended' = Len(ir) /\ UNCHANGED <<ir, pass1_vars, pass2_vars, elf_vars, exit_code>>
  BY DEF OpenOutput, ParsedOk, pass2_initialize
<1>2. i = 1 /\ run_ok = FALSE /\ exit_code = Running /\ finish_ok = FALSE
  BY <1>1 DEF DeliveryInv, TypeInv, OnlyParsed, Pass2Idle, ElfIdle
<1>3. i' = 1 /\ run_ok' = FALSE /\ exit_code' = Running /\ finish_ok' = FALSE /\ parse_rc' = 0
      /\ ir' = ir
  BY <1>1, <1>2 DEF pass1_vars, pass2_vars, elf_vars
<1>4. Len(ir) \in Nat
  <2>1. ir \in Seq(Entry)
    BY TypeParts DEF DeliveryInv, TypeInv, TypeOK1, GlobalsTypeOK
  <2> QED
    BY <2>1
<1> QED
  BY <1>1, <1>3, <1>4, RunningAssumption
  DEF DeliveryInv, OpenForWork, Unsealed, WithinIR, RunToTheEnd, ZeroMeansSuccess, Opened,
      Walking, LayoutStages

\* A step of pass 2.
LEMMA DeliveryPassTwo ==
  ASSUME DeliveryInv, TypeInv', PassTwo
  PROVE  DeliveryInv'
<1>1. PassTwoMoves /\ Len(ir') = Len(ir) /\ UNCHANGED <<pass1_vars, elf_vars, main_vars>>
  BY PassTwoStep DEF DeliveryInv
<1>2. UNCHANGED <<parse_rc, finish_ok, out_file, exit_code, appended, final_ok>>
  BY <1>1 DEF pass1_vars, elf_vars, main_vars
<1>3. Walking /\ Walking' /\ stage # "close" /\ stage' # "close" /\ stage' # "exit"
  BY <1>1 DEF PassTwoMoves, Walking, LayoutStages
<1>4. OpenForWork' /\ Unsealed'
  BY <1>2, <1>3, Zenon DEF DeliveryInv, OpenForWork, Unsealed, Opened
<1>5. appended = Len(ir) /\ i <= Len(ir) + 1 /\ exit_code = Running
  BY <1>3 DEF DeliveryInv, WithinIR, OpenForWork, Opened
<1>6. ZeroMeansSuccess'
  BY <1>2, <1>5, RunningAssumption DEF ZeroMeansSuccess
<1>7. i \in Nat /\ Len(ir) \in Nat
  <2>1. ir \in Seq(Entry) /\ Pass2Types
    BY TypeParts DEF DeliveryInv, TypeInv, TypeOK1, GlobalsTypeOK
  <2> QED
    BY <2>1 DEF Pass2Types
<1>8. appended' = Len(ir') /\ i' <= Len(ir') + 1
  BY <1>1, <1>2, <1>5, <1>7 DEF PassTwoMoves
<1>9. stage \in LayoutStages \cup {"emit"}
  BY <1>1 DEF PassTwoMoves
<1>10. run_ok = FALSE
  <2>1. ~run_ok
    BY <1>9 DEF DeliveryInv, RunToTheEnd, LayoutStages
  <2>2. run_ok \in BOOLEAN
    BY TypeParts DEF DeliveryInv, TypeInv, Pass2Types
  <2> QED
    BY <2>1, <2>2, Zenon
<1>11. RunToTheEnd'
  <2> SUFFICES ASSUME run_ok'
               PROVE  i' = appended' + 1 /\ stage' = "finalize"
    BY DEF RunToTheEnd
  <2>1. run_ok' # run_ok
    BY <1>10, Zenon
  <2>2. stage' = "finalize" /\ UNCHANGED i /\ i > Len(ir)
    BY <1>1, <2>1 DEF PassTwoMoves
  <2> QED
    BY <1>2, <1>5, <1>7, <2>2
<1> QED
  BY <1>3, <1>4, <1>6, <1>8, <1>11 DEF DeliveryInv, WithinIR

\* Freeing the IR, writing the container and closing the output.
LEMMA DeliveryEnd ==
  ASSUME DeliveryInv, TypeInv', pass2_finalize \/ out_finish \/ CloseOutput
  PROVE  DeliveryInv'
<1> USE DEF DeliveryInv
<1>1. CASE pass2_finalize
  <2>1. stage = "finalize" /\ stage' = "finish"
        /\ UNCHANGED <<pass1_vars, pass2_vars, elf_vars, out_file, exit_code, appended>>
    BY <1>1 DEF pass2_finalize
  <2>2. UNCHANGED <<parse_rc, i, run_ok, finish_ok, out_file, exit_code, appended>>
    BY <2>1 DEF pass1_vars, pass2_vars, elf_vars
  <2>3. Opened /\ Opened' /\ ~Walking' /\ exit_code = Running
    BY <2>1 DEF Opened, Walking, LayoutStages, OpenForWork
  <2> QED
    BY <2>1, <2>2, <2>3, RunningAssumption
    DEF OpenForWork, Unsealed, WithinIR, RunToTheEnd, ZeroMeansSuccess
<1>2. CASE out_finish
  <2>1. ElfMoves /\ UNCHANGED <<pass1_vars, main_vars>>
    BY <1>2, ElfStep
  <2>2. UNCHANGED <<parse_rc, i, run_ok, out_file, exit_code, appended>>
    BY <2>1 DEF ElfMoves, pass1_vars, main_vars
  <2>3. Opened /\ Opened' /\ ~Walking' /\ exit_code = Running
    BY <2>1 DEF ElfMoves, Opened, Walking, LayoutStages, OpenForWork
  <2>4. Unsealed'
    BY <2>1, <2>3 DEF ElfMoves, Unsealed
  <2> QED
    BY <2>1, <2>2, <2>3, <2>4, RunningAssumption
    DEF ElfMoves, OpenForWork, WithinIR, RunToTheEnd, ZeroMeansSuccess
<1>3. CASE CloseOutput
  <2>1. /\ stage = "close" /\ stage' = "exit" /\ out_file' = "closed"
        /\ UNCHANGED <<pass1_vars, pass2_vars, elf_vars, final_ok, appended>>
    BY <1>3 DEF CloseOutput
  <2>2. UNCHANGED <<parse_rc, i, run_ok, finish_ok, final_ok, appended>>
    BY <2>1 DEF pass1_vars, pass2_vars, elf_vars
  <2>3. exit_code' = 0 => run_ok /\ final_ok /\ finish_ok
    BY <1>3 DEF CloseOutput, Succeeds
  <2>4. parse_rc = 0
    BY <2>1 DEF OpenForWork, Opened
  <2>5. ~Opened' /\ ~Walking'
    BY <2>1 DEF Opened, Walking, LayoutStages
  <2>6. ZeroMeansSuccess'
    <3> SUFFICES ASSUME exit_code' = 0
                 PROVE  run_ok' /\ final_ok' /\ finish_ok'
      BY <2>1, <2>2, <2>4, Zenon DEF ZeroMeansSuccess
    <3> QED
      BY <2>2, <2>3, Zenon
  <2>7. RunToTheEnd'
    BY <2>1, <2>2 DEF RunToTheEnd
  <2> QED
    BY <2>5, <2>6, <2>7 DEF OpenForWork, Unsealed, WithinIR
<1> QED
  BY <1>1, <1>2, <1>3

\* The whole of main() keeps it.
LEMMA DeliveryStep == DeliveryInv /\ TypeInv' /\ [Next]_vars => DeliveryInv'
<1> SUFFICES ASSUME DeliveryInv, TypeInv', [Next]_vars
             PROVE  DeliveryInv'
  OBVIOUS
<1>1. CASE Next
  BY <1>1, DeliveryBefore, DeliveryOpen, DeliveryPassTwo, DeliveryEnd DEF Next
<1>2. CASE UNCHANGED vars
  <2>1. UNCHANGED <<stage, ir, i, run_ok, finish_ok, parse_rc, out_file, exit_code, appended,
                    final_ok>>
    BY <1>2 DEF vars, globals, pass1_vars, pass2_vars, elf_vars, main_vars
  <2> QED
    BY <2>1 DEF DeliveryInv, OpenForWork, Unsealed, WithinIR, RunToTheEnd, ZeroMeansSuccess,
       Opened, Walking
<1> QED
  BY <1>1, <1>2

\* The invariant holds in every state of the assembler.
LEMMA DeliveryInvariant == Spec => []DeliveryInv
<1>1. Init => DeliveryInv
  BY DeliveryInit
<1> QED
  BY <1>1, DeliveryStep, TypeInvariant, PTL DEF Spec

-----------------------------------------------------------------------------
(***************************************************************************)
(* The refinement: each step is one of Delivery or none.                   *)
(***************************************************************************)

\* What an observer sees of the source and of the entries dealt with.
SourceSeen == IF stage = "parse" THEN "unread" ELSE IF parse_rc = 0 THEN "good" ELSE "bad"
DeliveredSeen == IF out_file = "untouched" \/ stage \in LayoutStages THEN 0 ELSE i - 1

\* A step of Delivery, in the program's variables.
LEMMA SeenActions ==
  /\ Output!Read <=>
       /\ SourceSeen = "unread" /\ SourceSeen' \in {"good", "bad"}
       /\ exit_code' \in {Running, 1}
       /\ UNCHANGED <<out_file, appended, DeliveredSeen, finish_ok>>
  /\ Output!GiveUp <=>
       /\ SourceSeen # "unread" /\ out_file = "untouched"
       /\ exit_code = Running /\ exit_code' = 1
       /\ UNCHANGED <<SourceSeen, out_file, appended, DeliveredSeen, finish_ok>>
  /\ Output!Open <=>
       /\ SourceSeen = "good" /\ out_file = "untouched" /\ exit_code = Running
       /\ out_file' = "open" /\ appended' \in Nat
       /\ UNCHANGED <<SourceSeen, DeliveredSeen, finish_ok, exit_code>>
  /\ Output!Deliver <=>
       /\ out_file = "open" /\ ~finish_ok /\ DeliveredSeen < appended
       /\ DeliveredSeen' = DeliveredSeen + 1
       /\ UNCHANGED <<SourceSeen, out_file, appended, finish_ok, exit_code>>
  /\ Output!Seal <=>
       /\ out_file = "open" /\ ~finish_ok
       /\ finish_ok' = TRUE
       /\ UNCHANGED <<SourceSeen, out_file, appended, DeliveredSeen, exit_code>>
  /\ Output!Close <=>
       /\ out_file = "open" /\ out_file' = "closed"
       /\ exit_code' \in IF finish_ok /\ DeliveredSeen = appended THEN {0, 1} ELSE {1}
       /\ UNCHANGED <<SourceSeen, appended, DeliveredSeen, finish_ok>>
  /\ UNCHANGED Output!vars <=>
       UNCHANGED <<SourceSeen, out_file, appended, DeliveredSeen, finish_ok, exit_code>>
BY Zenon DEF Output!Read, Output!GiveUp, Output!Open, Output!Deliver, Output!Seal, Output!Close,
   Output!vars, SourceSeen, DeliveredSeen

Observed == Output!Next \/ UNCHANGED Output!vars

\* Reading the source, and giving up before anything was opened.
LEMMA SeenBefore ==
  DeliveryInv /\ (PassOne \/ StringLost \/ GiveUp) => Observed
<1> SUFFICES ASSUME DeliveryInv, PassOne \/ StringLost \/ GiveUp
             PROVE  Observed
  OBVIOUS
<1>1. stage \in {"parse", "parsed"} /\ out_file = "untouched" /\ exit_code = Running
  BY StagesPassOne
  DEF DeliveryInv, TypeInv, OnlyParsed, PassOne, StringLost, GiveUp, Reads
<1>2. UNCHANGED <<out_file, appended, finish_ok>> /\ DeliveredSeen = 0 /\ DeliveredSeen' = 0
  BY <1>1 DEF PassOne, StringLost, GiveUp, elf_vars, main_vars, DeliveredSeen
<1>3. CASE PassOne
  <2>1. stage = "parse" /\ stage' \in {"parse", "parsed"} /\ exit_code' = exit_code
    BY <1>3, StagesPassOne DEF DeliveryInv, TypeInv, PassOne, main_vars
  <2>2. SourceSeen = "unread" /\ SourceSeen' \in {"unread", "good", "bad"}
    BY <2>1 DEF SourceSeen
  <2>3. CASE SourceSeen' = "unread"
    BY <1>2, <2>1, <2>2, <2>3, SeenActions, Zenon DEF Observed
  <2>4. CASE SourceSeen' \in {"good", "bad"}
    BY <1>1, <1>2, <2>1, <2>2, <2>4, SeenActions, Zenon DEF Observed, Output!Next
  <2> QED
    BY <2>2, <2>3, <2>4
<1>4. CASE StringLost
  <2>1. SourceSeen = "unread" /\ SourceSeen' \in {"good", "bad"} /\ exit_code' = 1
    BY <1>4 DEF StringLost, Reads, SourceSeen
  <2> QED
    BY <1>2, <2>1, SeenActions, Zenon DEF Observed, Output!Next
<1>5. CASE GiveUp
  <2>1. SourceSeen # "unread" /\ SourceSeen' = SourceSeen /\ exit_code' = 1
    BY <1>5 DEF GiveUp, SourceSeen, pass1_vars
  <2> QED
    BY <1>1, <1>2, <2>1, SeenActions, Zenon DEF Observed, Output!Next
<1> QED
  BY <1>3, <1>4, <1>5

\* Opening the output.
LEMMA SeenOpen == DeliveryInv /\ OpenOutput => Observed
<1> SUFFICES ASSUME DeliveryInv, OpenOutput
             PROVE  Observed
  OBVIOUS
<1>1. /\ stage = "parsed" /\ stage' = "data_layout" /\ parse_rc = 0 /\ out_file' = "open"
      /\ appended' = Len(ir) /\ UNCHANGED <<parse_rc, finish_ok, exit_code>>
  BY DEF OpenOutput, ParsedOk, pass2_initialize, pass1_vars, elf_vars
<1>2. out_file = "untouched" /\ exit_code = Running
  BY <1>1 DEF DeliveryInv, TypeInv, OnlyParsed
<1>3. Len(ir) \in Nat
  <2>1. ir \in Seq(Entry)
    BY TypeParts DEF DeliveryInv, TypeInv, TypeOK1, GlobalsTypeOK
  <2> QED
    BY <2>1
<1>4. SourceSeen = "good" /\ SourceSeen' = SourceSeen /\ DeliveredSeen' = DeliveredSeen
  BY <1>1, <1>2 DEF SourceSeen, DeliveredSeen, LayoutStages
<1> QED
  BY <1>1, <1>2, <1>3, <1>4, SeenActions, Zenon DEF Observed, Output!Next

\* Pass 2 lays out unseen, and delivers entry after entry.
LEMMA SeenPassTwo == DeliveryInv /\ PassTwo => Observed
<1> SUFFICES ASSUME DeliveryInv, PassTwo
             PROVE  Observed
  OBVIOUS
<1>1. PassTwoMoves /\ UNCHANGED <<parse_rc, finish_ok, out_file, exit_code, appended>>
  BY PassTwoStep DEF DeliveryInv, pass1_vars, elf_vars, main_vars
<1>2. stage \in LayoutStages \cup {"emit"} /\ Walking /\ stage' # "parse" /\ stage # "parse"
      /\ stage # "close"
  BY <1>1 DEF PassTwoMoves, Walking, LayoutStages
<1>3. out_file = "open" /\ finish_ok = FALSE /\ appended = Len(ir)
  BY <1>2 DEF DeliveryInv, OpenForWork, Unsealed, WithinIR, Opened
<1>4. UNCHANGED SourceSeen
  BY <1>1, <1>2 DEF SourceSeen
<1>5. i \in Nat \ {0} /\ Len(ir) \in Nat
  <2>1. ir \in Seq(Entry) /\ Pass2Types
    BY TypeParts DEF DeliveryInv, TypeInv, TypeOK1, GlobalsTypeOK
  <2> QED
    BY <2>1 DEF Pass2Types
<1>6. CASE UNCHANGED DeliveredSeen
  BY <1>1, <1>4, <1>6, SeenActions, Zenon DEF Observed
<1>7. CASE DeliveredSeen < appended /\ DeliveredSeen' = DeliveredSeen + 1
  BY <1>1, <1>3, <1>4, <1>7, SeenActions, Zenon DEF Observed, Output!Next
<1>8. UNCHANGED DeliveredSeen
      \/ (DeliveredSeen < appended /\ DeliveredSeen' = DeliveredSeen + 1)
  BY <1>1, <1>3, <1>5 DEF PassTwoMoves, DeliveredSeen, LayoutStages
<1> QED
  BY <1>6, <1>7, <1>8

\* The end: the container is sealed or not, and the file is closed.
LEMMA SeenEnd == DeliveryInv /\ (pass2_finalize \/ out_finish \/ CloseOutput) => Observed
<1> SUFFICES ASSUME DeliveryInv, pass2_finalize \/ out_finish \/ CloseOutput
             PROVE  Observed
  OBVIOUS
<1>1. CASE pass2_finalize
  <2>1. stage = "finalize" /\ stage' = "finish"
        /\ UNCHANGED <<parse_rc, i, finish_ok, out_file, exit_code, appended>>
    BY <1>1 DEF pass2_finalize, pass1_vars, pass2_vars, elf_vars
  <2>2. UNCHANGED <<SourceSeen, DeliveredSeen>>
    BY <2>1 DEF SourceSeen, DeliveredSeen, LayoutStages
  <2> QED
    BY <2>1, <2>2, SeenActions, Zenon DEF Observed
<1>2. CASE out_finish
  <2>1. ElfMoves /\ UNCHANGED <<parse_rc, out_file, exit_code, appended>>
    BY <1>2, ElfStep DEF pass1_vars, main_vars
  <2>2. UNCHANGED <<SourceSeen, DeliveredSeen>>
    BY <2>1 DEF SourceSeen, DeliveredSeen, LayoutStages, ElfMoves
  <2>3. out_file = "open" /\ finish_ok = FALSE
    BY <2>1 DEF ElfMoves, DeliveryInv, OpenForWork, Unsealed, Opened
  <2>4. finish_ok' = finish_ok \/ finish_ok' = TRUE
    BY <2>1, <2>3, Zenon DEF ElfMoves
  <2>5. CASE finish_ok' = finish_ok
    BY <2>1, <2>2, <2>5, SeenActions, Zenon DEF Observed
  <2>6. CASE finish_ok' = TRUE
    BY <2>1, <2>2, <2>3, <2>6, SeenActions, Zenon DEF Observed, Output!Next
  <2> QED
    BY <2>4, <2>5, <2>6
<1>3. CASE CloseOutput
  <2>1. stage = "close" /\ stage' = "exit" /\ out_file' = "closed"
        /\ UNCHANGED <<parse_rc, i, finish_ok, appended>>
    BY <1>3 DEF CloseOutput, pass1_vars, pass2_vars, elf_vars
  <2>2. exit_code' = 1 \/ (exit_code' = 0 /\ run_ok /\ finish_ok)
    BY <1>3, Zenon DEF CloseOutput, Succeeds
  <2>3. out_file = "open"
    BY <2>1 DEF DeliveryInv, OpenForWork, Opened
  <2>4. UNCHANGED <<SourceSeen, DeliveredSeen>> /\ DeliveredSeen = i - 1
    BY <2>1, <2>3 DEF SourceSeen, DeliveredSeen, LayoutStages
  <2>5. run_ok => DeliveredSeen = appended
    <3>1. appended \in Nat /\ i \in Nat
      BY TypeParts DEF DeliveryInv, TypeInv, MainTypes, Pass2Types
    <3> QED
      BY <2>4, <3>1 DEF DeliveryInv, RunToTheEnd
  <2>6. exit_code' \in IF finish_ok /\ DeliveredSeen = appended THEN {0, 1} ELSE {1}
    BY <2>2, <2>5, Zenon
  <2> QED
    BY <2>1, <2>3, <2>4, <2>6, SeenActions, Zenon DEF Observed, Output!Next
<1> QED
  BY <1>1, <1>2, <1>3

\* The program implements Delivery: it opens the output for a source it accepted, walks
\* the IR once, seals the file at most once and claims success for a whole file only.
THEOREM DeliveryImplemented == Spec => ImplementsDelivery
<1>1. Init => Output!Init
  <2>1. Init => stage = "parse" /\ out_file = "untouched" /\ appended = 0 /\ finish_ok = FALSE
                /\ exit_code = Running
    BY DEF Init, Init1, ElfIdle
  <2> QED
    BY <2>1 DEF Output!Init
<1>2. DeliveryInv /\ [Next]_vars => [Output!Next]_(Output!vars)
  <2> SUFFICES ASSUME DeliveryInv, [Next]_vars
               PROVE  Observed
    BY DEF Observed
  <2>1. CASE UNCHANGED vars
    <3>1. UNCHANGED <<SourceSeen, out_file, appended, DeliveredSeen, finish_ok, exit_code>>
      BY <2>1 DEF vars, globals, pass1_vars, pass2_vars, elf_vars, main_vars, SourceSeen,
         DeliveredSeen
    <3> QED
      BY <3>1, SeenActions, Zenon DEF Observed
  <2> QED
    BY <2>1, SeenBefore, SeenOpen, SeenPassTwo, SeenEnd DEF Next
<1> QED
  BY <1>1, <1>2, DeliveryInvariant, PTL DEF Spec, ImplementsDelivery, Output!Spec
=============================================================================
