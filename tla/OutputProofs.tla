---------------------------- MODULE OutputProofs ----------------------------
(***************************************************************************)
(* What pass 2 writes, in which order, and what the container says of it.  *)
(***************************************************************************)
EXTENDS DeliveryProofs

-----------------------------------------------------------------------------
(***************************************************************************)
(* The steps of the emission.                                              *)
(***************************************************************************)

\* c is what the encoders make of entry i.
ChunkOfEntry(c) ==
  LET x == c_materialize(ir[i])
  IN /\ c \in Chunk /\ c.idx = i /\ c.sect = ir[i].sect /\ c.pos = out_len[c.sect]
     /\ \/ /\ ir[i].kind = "IR_DATA" /\ c.sect = "SEC_DATA" /\ c.size = ir[i].size
        \/ /\ ir[i].kind = "IR_INSTR" /\ c.size = IF is_c_fmt(x.fmt) THEN 2 ELSE 4
           /\ Emittable(x, ir[i].addr)
           /\ c.imm = Resolved(x, ir[i].addr).imm
           /\ c.bits = InstrBits(cfg, Resolved(x, ir[i].addr))

MarksSize(c) == c.size = 2 /\ c.sect = "SEC_TEXT" /\ cfg.out_fmt = "OUT_ELF"

\* An entry is written, an empty one is passed over, or the walk ends.
WritesChunk(c) ==
  /\ stage = "emit" /\ UNCHANGED <<stage, run_ok>>
  /\ i \in 1 .. Len(ir) /\ i' = i + 1
  /\ ChunkOfEntry(c)
  /\ chunks' = Append(chunks, c)
  /\ out_len' = [out_len EXCEPT ![c.sect] = @ + c.size]
  /\ has_rvc' = (has_rvc \/ MarksSize(c))

SkipsEntry ==
  /\ stage = "emit" /\ UNCHANGED <<stage, run_ok>>
  /\ i \in 1 .. Len(ir) /\ i' = i + 1
  /\ ir[i].kind = "IR_ALIGN" /\ ir[i].size = 0
  /\ UNCHANGED <<chunks, out_len, has_rvc>>

EndsWalk ==
  /\ stage = "emit" /\ stage' = "finalize"
  /\ UNCHANGED <<chunks, out_len, i>>
  /\ run_ok' => UNCHANGED has_rvc

EntersEntry ==
  /\ ~BackToData
  /\ out_section' = ir[i].sect
  /\ seen_text' = (seen_text \/ ir[i].sect = "SEC_TEXT")

\* Write appends one chunk and counts its bytes, or ends the pass with a failure.
LEMMA WriteStep ==
  ASSUME stage = "emit", NEW n, NEW w, NEW imm, Write(n, w, imm)
  PROVE  LET c == [idx |-> i, sect |-> ir[i].sect, pos |-> out_len[ir[i].sect],
                   size |-> n, bits |-> w, imm |-> imm]
         IN \/ /\ chunks' = Append(chunks, c)
               /\ out_len' = [out_len EXCEPT ![c.sect] = @ + c.size]
               /\ i' = i + 1 /\ UNCHANGED <<stage, run_ok>>
            \/ Stop(FALSE) /\ UNCHANGED <<chunks, out_len, i>>
BY DEF Write

\* What one step of the emission does to the output.
LEMMA EmissionStep ==
  ASSUME TypeInv, Emission
  PROVE  /\ UNCHANGED <<cfg, symtab, ir>>
         /\ \/ EndsWalk
            \/ SkipsEntry /\ EntersEntry
            \/ EntersEntry /\ \E c : WritesChunk(c)
<1>1. GlobalsTypeOK /\ ir \in Seq(Entry) /\ Pass2Types
  BY TypeParts DEF TypeInv, TypeOK1, GlobalsTypeOK
<1> DEFINE Moves == /\ UNCHANGED <<cfg, symtab, ir>>
                    /\ \/ EndsWalk
                       \/ SkipsEntry /\ EntersEntry
                       \/ EntersEntry /\ \E c : WritesChunk(c)
<1>2. ASSUME RefuseSection \/ EmitDone
      PROVE  Moves
  <2>1. /\ UNCHANGED <<cfg, symtab, ir, i, chunks, out_len, has_rvc>>
        /\ stage = "emit" /\ stage' = "finalize"
    BY <1>2 DEF RefuseSection, EmitDone, Stop, layout_vars, sink_vars
  <2> QED
    BY <2>1 DEF EndsWalk
<1>3. ASSUME NEW kind, AtEntry(kind)
      PROVE  /\ UNCHANGED <<cfg, symtab, ir>> /\ EntersEntry /\ stage = "emit"
             /\ i \in 1 .. Len(ir) /\ ir[i].kind = kind
             /\ EntryOK(cfg, ir[i]) /\ ir[i] \in Entry
             /\ ir[i].sect \in Sections /\ out_len[ir[i].sect] \in Nat /\ i \in Nat \ {0}
  <2>1. EntryOK(cfg, ir[i]) /\ ir[i] \in Entry /\ i \in 1 .. Len(ir)
    BY <1>3, AtEntryOK
  <2>2. ir[i].sect \in Sections
    BY <2>1 DEF Entry
  <2>3. out_len[ir[i].sect] \in Nat /\ i \in Nat \ {0}
    BY <1>1, <2>2 DEF Pass2Types
  <2> QED
    BY <1>3, <2>1, <2>2, <2>3 DEF AtEntry, EntersEntry
<1>4. ASSUME Stop(FALSE), UNCHANGED <<chunks, out_len, i>>, stage = "emit"
      PROVE  EndsWalk
  BY <1>4, Zenon DEF Stop, EndsWalk
<1>5. ASSUME pass2_emit_align
      PROVE  Moves
  <2>1. AtEntry("IR_ALIGN")
    BY <1>5 DEF pass2_emit_align
  <2>2. ir[i].size = 0
    BY <1>3, <2>1 DEF TypeInv, AlignsEmpty, LaidOnce
  <2>3. i' = i + 1 /\ UNCHANGED <<stage, run_ok, chunks, out_len, has_rvc>>
    BY <1>5, <2>2 DEF pass2_emit_align
  <2> QED
    BY <1>3, <2>1, <2>2, <2>3 DEF SkipsEntry
<1>6. ASSUME pass2_emit_data
      PROVE  Moves
  <2>1. AtEntry("IR_DATA") /\ UNCHANGED has_rvc
    BY <1>6 DEF pass2_emit_data
  <2> DEFINE w == ValueBits(ir[i].imm, ir[i].size)
             c == [idx |-> i, sect |-> ir[i].sect, pos |-> out_len[ir[i].sect],
                   size |-> ir[i].size, bits |-> w, imm |-> ir[i].imm]
  <2>2. \/ ir[i].sect = "SEC_DATA" /\ Write(ir[i].size, w, ir[i].imm)
        \/ Stop(FALSE) /\ UNCHANGED <<chunks, out_len, i>>
    BY <1>6 DEF pass2_emit_data
  <2>3. ir[i].size \in DataSizes /\ ir[i].imm \in Int
    BY <1>3, <2>1 DEF EntryOK, Entry
  <2>4. w \in SUBSET (0 .. 63)
    BY <2>3, ValueBitsType
  <2>5. CASE Stop(FALSE) /\ UNCHANGED <<chunks, out_len, i>>
    BY <1>3, <1>4, <2>1, <2>5
  <2>6. CASE /\ ir[i].sect = "SEC_DATA"
             /\ chunks' = Append(chunks, c)
             /\ out_len' = [out_len EXCEPT ![c.sect] = @ + c.size]
             /\ i' = i + 1 /\ UNCHANGED <<stage, run_ok>>
    <3> HIDE DEF w
    <3>1. c \in Chunk
      BY <1>3, <2>1, <2>3, <2>4 DEF Chunk, DataSizes
    <3>2. ChunkOfEntry(c)
      BY <1>3, <2>1, <2>6, <3>1 DEF ChunkOfEntry
    <3>3. has_rvc' = (has_rvc \/ MarksSize(c))
      <4>1. ~MarksSize(c)
        BY <2>6 DEF MarksSize
      <4>2. has_rvc \in BOOLEAN
        BY <1>1 DEF Pass2Types
      <4> QED
        BY <2>1, <4>1, <4>2, Zenon
    <3> HIDE DEF c
    <3>4. WritesChunk(c)
      BY <1>3, <2>1, <2>6, <3>2, <3>3 DEF WritesChunk
    <3> QED
      BY <1>3, <2>1, <3>4
  <2> QED
    BY <1>3, <2>1, <2>2, <2>5, <2>6, WriteStep
<1>7. ASSUME pass2_emit_instr
      PROVE  Moves
  <2> DEFINE x == c_materialize(ir[i])
             short == is_c_fmt(x.fmt)
             y == Resolved(x, ir[i].addr)
             n == IF short THEN 2 ELSE 4
             c == [idx |-> i, sect |-> ir[i].sect, pos |-> out_len[ir[i].sect],
                   size |-> n, bits |-> InstrBits(cfg, y), imm |-> y.imm]
  <2>1. AtEntry("IR_INSTR")
    BY <1>7 DEF pass2_emit_instr
  <2>2. \/ /\ Emittable(x, ir[i].addr) /\ Write(n, InstrBits(cfg, y), y.imm)
           /\ has_rvc' = (has_rvc \/ MarksRvc(short))
        \/ Stop(FALSE) /\ UNCHANGED <<chunks, out_len, i>>
    BY <1>7 DEF pass2_emit_instr
  <2>3. x \in Operands /\ ir[i].addr \in Word
    BY <1>3, <2>1, MaterializeType DEF Entry
  <2>4. y \in Operands
    BY <1>1, <2>3, ResolvedType
  <2>5. InstrBits(cfg, y) \in SUBSET (0 .. 63) /\ y.imm \in Int
    <3> HIDE DEF y
    <3> QED
      BY <2>4, InstrBitsType DEF Operands
  <2>6. CASE Stop(FALSE) /\ UNCHANGED <<chunks, out_len, i>>
    BY <1>3, <1>4, <2>1, <2>6
  <2>7. CASE /\ Emittable(x, ir[i].addr) /\ has_rvc' = (has_rvc \/ MarksRvc(short))
             /\ chunks' = Append(chunks, c)
             /\ out_len' = [out_len EXCEPT ![c.sect] = @ + c.size]
             /\ i' = i + 1 /\ UNCHANGED <<stage, run_ok>>
    <3>1. c \in Chunk
      <4> HIDE DEF x, y
      <4> QED
        BY <1>3, <2>1, <2>5 DEF Chunk
    <3>2. ChunkOfEntry(c)
      <4>1. c.idx = i /\ c.sect = ir[i].sect /\ c.pos = out_len[c.sect] /\ c.size = n
            /\ c.imm = y.imm /\ c.bits = InstrBits(cfg, y)
        OBVIOUS
      <4> HIDE DEF c
      <4> QED
        BY <1>3, <2>1, <2>7, <3>1, <4>1 DEF ChunkOfEntry
    <3>3. has_rvc' = (has_rvc \/ MarksSize(c))
      <4>1. MarksSize(c) <=> MarksRvc(short)
        <5> HIDE DEF x, y
        <5> QED
          BY DEF MarksSize, MarksRvc
      <4> QED
        BY <2>7, <4>1, Zenon
    <3> HIDE DEF c
    <3>4. WritesChunk(c)
      BY <1>3, <2>1, <2>7, <3>2, <3>3 DEF WritesChunk
    <3> QED
      BY <1>3, <2>1, <3>4
  <2>8. stage = "emit"
    BY <1>3, <2>1
  <2> HIDE DEF x, y
  <2> QED
    BY <2>2, <2>6, <2>7, <2>8, WriteStep
<1> QED
  BY <1>2, <1>5, <1>6, <1>7, Zenon DEF Emission

-----------------------------------------------------------------------------
(***************************************************************************)
(* The inductive invariant.                                                *)
(***************************************************************************)

\* Nothing is written before the layout is done.
NothingYet ==
  stage \in LayoutStages \cup {"parse", "parsed"} =>
    chunks = <<>> /\ has_rvc = FALSE /\ seen_text = FALSE

\* Once .text has been entered, .data is not entered again.
DataFirst == stage = "emit" /\ seen_text => out_section = "SEC_TEXT"

\* Two chunks, the earlier one first.
Before(c, d) ==
  /\ c.idx < d.idx
  /\ d.sect = "SEC_DATA" => c.sect = "SEC_DATA"
  /\ c.sect = d.sect => c.pos + c.size <= d.pos

InOrder == \A j, k \in DOMAIN chunks : j < k => Before(chunks[j], chunks[k])

\* What was written lies behind the point the walk has reached.
Behind ==
  \A k \in DOMAIN chunks :
    /\ chunks[k].idx < i
    /\ chunks[k].pos + chunks[k].size <= out_len[chunks[k].sect]
    /\ stage = "emit" /\ chunks[k].sect = "SEC_TEXT" => seen_text

\* The flag tells whether a compressed instruction went to .text, as long as every
\* write did what it should.
RvcKnown ==
  cfg.out_fmt = "OUT_ELF" /\ (stage = "emit" \/ run_ok) =>
    (has_rvc <=> \E k \in DOMAIN chunks : chunks[k].sect = "SEC_TEXT" /\ chunks[k].size = 2)

\* The file is a beginning of what out_finish planned, and all of it when that
\* succeeded.
FileIsPlan ==
  /\ \A k \in 1 .. Len(file) : file[k] = Parts[k]
  /\ Len(file) <= Len(Parts)
  /\ finish_ok /\ cfg.out_fmt = "OUT_ELF" => Len(file) = Len(Parts)

\* A raw output has no parts.
RawIsBare == cfg.out_fmt # "OUT_ELF" => file = <<>> /\ stage # "container"

OutputInv ==
  DeliveryInv /\ NothingYet /\ DataFirst /\ InOrder /\ Behind /\ RvcKnown /\ FileIsPlan
    /\ RawIsBare

-----------------------------------------------------------------------------
(***************************************************************************)
(* The invariant is kept.                                                  *)
(***************************************************************************)

\* An empty output satisfies it.
LEMMA EmptyOutput ==
  chunks = <<>> => InOrder /\ Behind
BY DEF InOrder, Behind

\* The types of the output, read off the type invariant.
LEMMA ChunksType == TypeInv => chunks \in Seq(Chunk) /\ i \in Nat /\ out_len \in [Sections -> Nat]
BY TypeParts DEF TypeInv, Pass2Types

\* A chunk behind the others keeps them in order.
LEMMA WritesInOrder ==
  ASSUME TypeInv, InOrder, Behind, DataFirst, NEW c, WritesChunk(c), EntersEntry
  PROVE  InOrder' /\ Behind' /\ DataFirst'
<1>1. chunks \in Seq(Chunk) /\ i \in Nat /\ out_len \in [Sections -> Nat]
  BY ChunksType
<1>2. c \in Chunk /\ c.sect \in Sections /\ c.pos = out_len[c.sect] /\ c.size \in Nat /\ c.size > 0
      /\ c.idx = i /\ c.pos \in Nat /\ c.sect = ir[i].sect
  BY <1>1 DEF WritesChunk, ChunkOfEntry, Chunk
<1>3. /\ Len(chunks) \in Nat /\ Len(chunks') = Len(chunks) + 1 /\ DOMAIN chunks' = 1 .. Len(chunks) + 1
      /\ DOMAIN chunks = 1 .. Len(chunks)
      /\ chunks'[Len(chunks) + 1] = c /\ \A k \in 1 .. Len(chunks) : chunks'[k] = chunks[k]
  BY <1>1, <1>2 DEF WritesChunk
<1>4. ASSUME NEW k \in 1 .. Len(chunks)
      PROVE  /\ chunks[k].idx \in Nat /\ chunks[k].sect \in Sections /\ chunks[k].pos \in Nat
             /\ chunks[k].size \in Nat /\ chunks[k].idx < i
             /\ chunks[k].pos + chunks[k].size <= out_len[chunks[k].sect]
             /\ chunks[k].sect = "SEC_TEXT" => seen_text
  <2>1. chunks[k] \in Chunk
    BY <1>1
  <2>2. stage = "emit"
    BY DEF WritesChunk
  <2>3. /\ chunks[k].idx \in Nat /\ chunks[k].sect \in Sections /\ chunks[k].pos \in Nat
        /\ chunks[k].size \in Nat
    BY <2>1 DEF Chunk
  <2>4. k \in DOMAIN chunks
    BY <1>1
  <2>5. /\ chunks[k].idx < i
        /\ chunks[k].pos + chunks[k].size <= out_len[chunks[k].sect]
        /\ chunks[k].sect = "SEC_TEXT" => seen_text
    BY <2>2, <2>4, Zenon DEF Behind
  <2> QED
    BY <2>3, <2>5
<1>5. ASSUME c.sect = "SEC_DATA"
      PROVE  ~seen_text
  <2>1. ir[i].sect = "SEC_DATA" /\ ~BackToData /\ stage = "emit"
    BY <1>2, <1>5 DEF EntersEntry, WritesChunk
  <2> SUFFICES ASSUME seen_text
               PROVE  FALSE
    OBVIOUS
  <2>2. out_section = "SEC_TEXT"
    BY <2>1, Zenon DEF DataFirst
  <2>3. EntersSection
    BY <2>1, <2>2 DEF EntersSection
  <2> QED
    BY <2>1, <2>3, Zenon DEF BackToData
<1>6. \A k \in 1 .. Len(chunks) : Before(chunks[k], c)
  BY <1>2, <1>4, <1>5 DEF Before, Sections
<1>7. InOrder'
  <2> SUFFICES ASSUME NEW j \in 1 .. Len(chunks) + 1, NEW k \in 1 .. Len(chunks) + 1, j < k
               PROVE  Before(chunks'[j], chunks'[k])
    BY <1>3 DEF InOrder
  <2>1. j \in 1 .. Len(chunks)
    BY <1>3
  <2>2. CASE k = Len(chunks) + 1
    BY <1>3, <1>6, <2>1, <2>2
  <2>3. CASE k # Len(chunks) + 1
    <3>1. k \in 1 .. Len(chunks)
      BY <1>3, <2>3
    <3> QED
      BY <1>3, <2>1, <3>1 DEF InOrder
  <2> QED
    BY <2>2, <2>3
<1>8. \A s \in Sections : out_len'[s] = IF s = c.sect THEN out_len[s] + c.size ELSE out_len[s]
  BY <1>1, <1>2 DEF WritesChunk
<1>9. i' = i + 1 /\ seen_text' = (seen_text \/ c.sect = "SEC_TEXT")
  BY <1>2, Zenon DEF WritesChunk, EntersEntry
<1>10. Behind'
  <2> SUFFICES ASSUME NEW k \in 1 .. Len(chunks) + 1
               PROVE  /\ chunks'[k].idx < i'
                      /\ chunks'[k].pos + chunks'[k].size <= out_len'[chunks'[k].sect]
                      /\ chunks'[k].sect = "SEC_TEXT" => seen_text'
    BY <1>3 DEF Behind
  <2>0. (seen_text => seen_text') /\ (c.sect = "SEC_TEXT" => seen_text') /\ i' = i + 1
    BY <1>9, Zenon
  <2>1. CASE k = Len(chunks) + 1
    <3>1. chunks'[k] = c
      BY <1>3, <2>1
    <3>2. out_len'[c.sect] = c.pos + c.size
      BY <1>2, <1>8
    <3>3. c.idx < i' /\ c.pos + c.size <= out_len'[c.sect]
      BY <1>1, <1>2, <2>0, <3>2
    <3> QED
      BY <2>0, <3>1, <3>3
  <2>2. CASE k # Len(chunks) + 1
    <3>1. k \in 1 .. Len(chunks) /\ chunks'[k] = chunks[k]
      BY <1>3, <2>2
    <3>2. out_len[chunks[k].sect] <= out_len'[chunks[k].sect]
      BY <1>1, <1>2, <1>4, <1>8, <3>1
    <3>3. chunks[k].pos + chunks[k].size <= out_len'[chunks[k].sect]
      <4>1. out_len'[chunks[k].sect] \in Nat /\ out_len[chunks[k].sect] \in Nat
        BY <1>1, <1>2, <1>4, <1>8, <3>1
      <4> QED
        BY <1>4, <3>1, <3>2, <4>1
    <3>4. chunks[k].idx < i'
      BY <1>1, <1>4, <2>0, <3>1
    <3>5. chunks[k].sect = "SEC_TEXT" => seen_text'
      BY <1>4, <2>0, <3>1, Zenon
    <3> QED
      BY <3>1, <3>3, <3>4, <3>5
  <2> QED
    BY <2>1, <2>2
<1>11. DataFirst'
  <2> SUFFICES ASSUME seen_text'
               PROVE  out_section' = "SEC_TEXT"
    BY DEF DataFirst
  <2>1. out_section' = c.sect
    BY <1>2 DEF EntersEntry
  <2>2. c.sect # "SEC_DATA"
    BY <1>2, <1>5, <1>9
  <2> QED
    BY <1>2, <2>1, <2>2 DEF Sections
<1> QED
  BY <1>7, <1>10, <1>11

\* Passing over an empty entry moves the walk only.
LEMMA SkipsInOrder ==
  ASSUME TypeInv, InOrder, Behind, DataFirst, SkipsEntry, EntersEntry, UNCHANGED ir
  PROVE  InOrder' /\ Behind' /\ DataFirst'
<1>1. chunks \in Seq(Chunk) /\ i \in Nat /\ stage = "emit" /\ stage' = "emit" /\ i' = i + 1
      /\ UNCHANGED <<chunks, out_len>>
  BY ChunksType DEF SkipsEntry
<1>2. InOrder'
  BY <1>1 DEF InOrder
<1>3. seen_text => seen_text'
  BY DEF EntersEntry
<1>4. Behind'
  <2> SUFFICES ASSUME NEW k \in DOMAIN chunks
               PROVE  /\ chunks[k].idx < i'
                      /\ chunks[k].pos + chunks[k].size <= out_len[chunks[k].sect]
                      /\ chunks[k].sect = "SEC_TEXT" => seen_text'
    BY <1>1 DEF Behind
  <2>1. chunks[k] \in Chunk
    BY <1>1
  <2>2. chunks[k].idx \in Nat
    BY <2>1 DEF Chunk
  <2> QED
    BY <1>1, <1>3, <2>2 DEF Behind
<1>5. DataFirst'
  <2> SUFFICES ASSUME seen_text'
               PROVE  out_section' = "SEC_TEXT"
    BY DEF DataFirst
  <2>1. ir[i].sect \in Sections
    <3>1. ir \in Seq(Entry) /\ i \in 1 .. Len(ir)
      BY TypeParts DEF TypeInv, TypeOK1, GlobalsTypeOK, SkipsEntry
    <3>2. ir[i] \in Entry
      BY <3>1
    <3> QED
      BY <3>2 DEF Entry
  <2>2. CASE ir[i].sect = "SEC_TEXT"
    BY <2>2 DEF EntersEntry
  <2>3. CASE ir[i].sect = "SEC_DATA"
    <3>1. seen_text
      BY <2>3, Zenon DEF EntersEntry
    <3>2. out_section = "SEC_TEXT"
      BY <1>1, <3>1, Zenon DEF DataFirst
    <3>3. EntersSection
      BY <2>3, <3>2 DEF EntersSection
    <3> QED
      BY <2>3, <3>1, <3>3, Zenon DEF EntersEntry, BackToData
  <2> QED
    BY <2>1, <2>2, <2>3 DEF Sections
<1> QED
  BY <1>2, <1>4, <1>5

\* The flag follows the chunks.
LEMMA WritesRvc ==
  ASSUME TypeInv, RvcKnown, NEW c, WritesChunk(c), UNCHANGED cfg
  PROVE  RvcKnown'
<1> SUFFICES ASSUME cfg.out_fmt = "OUT_ELF"
             PROVE  has_rvc' <=> \E k \in DOMAIN chunks' :
                                   chunks'[k].sect = "SEC_TEXT" /\ chunks'[k].size = 2
  BY DEF RvcKnown
<1> DEFINE Short(d) == d.sect = "SEC_TEXT" /\ d.size = 2
<1>1. chunks \in Seq(Chunk)
  BY ChunksType
<1>2. c \in Chunk
  BY DEF WritesChunk, ChunkOfEntry
<1>3. /\ Len(chunks) \in Nat /\ DOMAIN chunks' = 1 .. Len(chunks) + 1
      /\ DOMAIN chunks = 1 .. Len(chunks)
      /\ chunks'[Len(chunks) + 1] = c /\ \A k \in 1 .. Len(chunks) : chunks'[k] = chunks[k]
  BY <1>1, <1>2 DEF WritesChunk
<1>4. \A k \in 1 .. Len(chunks) + 1 : k \in 1 .. Len(chunks) \/ k = Len(chunks) + 1
  BY <1>3
<1>5. Len(chunks) + 1 \in 1 .. Len(chunks) + 1
      /\ \A k \in 1 .. Len(chunks) : k \in 1 .. Len(chunks) + 1
  BY <1>3
<1>6. (\E k \in DOMAIN chunks' : Short(chunks'[k]))
        <=> (\E k \in DOMAIN chunks : Short(chunks[k])) \/ Short(c)
  <2> HIDE DEF Short
  <2> QED
    BY <1>3, <1>4, <1>5, Zenon
<1>7. has_rvc <=> \E k \in DOMAIN chunks : Short(chunks[k])
  BY Zenon DEF RvcKnown, WritesChunk
<1>8. has_rvc' <=> has_rvc \/ Short(c)
  BY Zenon DEF WritesChunk, MarksSize
<1> QED
  BY <1>6, <1>7, <1>8, Zenon

\* Until out_finish writes there is no file to be wrong.
NoFileYet == DeliveryInv /\ stage \notin {"container", "close", "exit"} => FileIsPlan

\* NoFileYet holds in every state, so in the next one as well.
LEMMA FileNotYet == NoFileYet /\ NoFileYet'
<1>1. NoFileYet
  <2> SUFFICES ASSUME DeliveryInv, stage \notin {"container", "close", "exit"}
               PROVE  FileIsPlan
    BY DEF NoFileYet
  <2>1. file = <<>>
    BY DEF DeliveryInv, TypeInv, FileInProgress
  <2>2. Len(Parts) > 0
    BY TypeParts, PartsExist
    DEF DeliveryInv, TypeInv, TypeOK1, GlobalsTypeOK, Pass2Types, ElfTypes, SomeParts
  <2>3. Parts \in Seq({Parts[k] : k \in 1 .. Len(Parts)})
    BY TypeParts, PartsType
    DEF DeliveryInv, TypeInv, TypeOK1, GlobalsTypeOK, Pass2Types, ElfTypes
  <2>4. finish_ok = FALSE
    <3>1. stage \in Stages
      BY TypeParts DEF DeliveryInv, TypeInv, TypeOK1, GlobalsTypeOK
    <3>2. CASE stage \in {"parse", "parsed"}
      BY <3>2 DEF DeliveryInv, TypeInv, OnlyParsed, ElfIdle
    <3>3. CASE stage \notin {"parse", "parsed"}
      BY <3>1, <3>3 DEF DeliveryInv, Unsealed, Opened, Walking, LayoutStages, Stages
    <3> QED
      BY <3>2, <3>3
  <2>5. Len(file) = 0 /\ Len(Parts) \in Nat /\ ~finish_ok
    BY <2>1, <2>3, <2>4
  <2> QED
    BY <2>2, <2>5 DEF FileIsPlan
<1> QED
  BY <1>1, PTL

\* The plan has a length.
LengthKnown == TypeInv => Len(Parts) \in Nat

\* LengthKnown holds in every state, so in the next one as well.
LEMMA PartsLength == LengthKnown /\ LengthKnown'
<1>1. LengthKnown
  <2> SUFFICES ASSUME TypeInv
               PROVE  Len(Parts) \in Nat
    BY DEF LengthKnown
  <2>1. Parts \in Seq({Parts[k] : k \in 1 .. Len(Parts)})
    BY TypeParts, PartsType DEF TypeInv, TypeOK1, GlobalsTypeOK, Pass2Types, ElfTypes
  <2> QED
    BY <2>1
<1> QED
  BY <1>1, PTL

\* The plan and the file stay while nothing they depend on changes.
LEMMA PlanKept ==
  FileIsPlan /\ UNCHANGED <<cfg, out_len, lost, has_rvc, file, finish_ok>> => FileIsPlan'
BY PartsKept DEF FileIsPlan

\* A step of out_finish.
LEMMA OutputElf ==
  ASSUME OutputInv, DeliveryInv', out_finish
  PROVE  OutputInv'
<1> USE DEF OutputInv
<1>1. ElfMoves /\ UNCHANGED <<pass2_vars, cfg>>
  BY ElfStep DEF out_finish, NextElf, FinishRaw, PlanFile, WritePart, PartFails
<1>2. UNCHANGED <<i, out_section, seen_text, out_len, has_rvc, chunks, run_ok>>
  BY <1>1 DEF pass2_vars
<1>3. stage \in {"finish", "container"} /\ stage' \in {"container", "close"}
  BY <1>1 DEF ElfMoves
<1>4. InOrder' /\ Behind'
  BY <1>2, <1>3 DEF InOrder, Behind
<1>5. NothingYet' /\ DataFirst'
  BY <1>3 DEF NothingYet, DataFirst, LayoutStages
<1>6. RvcKnown'
  BY <1>1, <1>2, <1>3 DEF RvcKnown
<1>7. TypeInv /\ finish_ok = FALSE
  BY <1>3 DEF DeliveryInv, Unsealed, Opened
<1>8. FileIsPlan'
  <2>1. CASE FinishRaw
    <3>1. Parts' = Parts /\ UNCHANGED file /\ cfg'.out_fmt # "OUT_ELF"
      BY <1>1, <1>2, <2>1, PartsKept DEF FinishRaw
    <3> QED
      BY <3>1 DEF FileIsPlan
  <2>2. CASE PlanFile
    <3>1. file' = <<>> /\ finish_ok' = FALSE
      BY <1>7, <2>2 DEF PlanFile, TypeInv, FileInProgress
    <3>2. Len(file') < Len(Parts')
      <4>1. stage' = "container"
        BY <2>2 DEF PlanFile
      <4> QED
        BY <4>1 DEF DeliveryInv, TypeInv, FileInProgress
    <3>3. Len(file') = 0
      BY <3>1
    <3>4. \A k \in 1 .. Len(file') : file'[k] = Parts'[k]
      BY <3>3
    <3>5. Len(file') <= Len(Parts')
      <4>1. Len(Parts') > 0
        BY <3>2, <3>3
      <4>2. Len(Parts') > 0 => 0 <= Len(Parts')
        <5> DEFINE n == Len(Parts')
        <5>1. n \in Nat
          BY PartsLength DEF DeliveryInv, TypeInv, LengthKnown
        <5> HIDE DEF n
        <5>2. 0 <= n
          BY <5>1
        <5> QED
          BY <5>2 DEF n
      <4> QED
        BY <3>3, <4>1, <4>2
    <3> QED
      BY <3>1, <3>4, <3>5, Zenon DEF FileIsPlan
  <2>3. CASE WritePart \/ PartFails
    <3>1. Parts' = Parts /\ stage = "container" /\ (AddPart \/ UNCHANGED file)
      BY <1>1, <1>2, <2>3, PartsKept DEF WritePart, PartFails
    <3>2. Len(file') <= Len(Parts') /\ \A k \in 1 .. Len(file') : file'[k] = Parts'[k]
      <4>1. CASE AddPart
        BY <1>7, <3>1, <4>1, AddPartOK
      <4>2. CASE UNCHANGED file
        BY <3>1, <4>2 DEF FileIsPlan
      <4> QED
        BY <3>1, <4>1, <4>2
    <3>3. finish_ok' => Len(file') = Len(Parts')
      <4> SUFFICES ASSUME finish_ok'
                   PROVE  Len(file') = Len(Parts')
        OBVIOUS
      <4>1. finish_ok' # FALSE
        BY Zenon
      <4> QED
        BY <1>7, <2>3, <3>1, <4>1 DEF WritePart, PartFails, Finished
    <3> QED
      BY <3>2, <3>3, Zenon DEF FileIsPlan
  <2> QED
    BY <2>1, <2>2, <2>3 DEF out_finish, NextElf
<1>9. RawIsBare'
  BY <1>1, <1>3 DEF RawIsBare, out_finish, NextElf, FinishRaw, PlanFile, WritePart, PartFails, Finished
<1> QED
  BY <1>4, <1>5, <1>6, <1>8, <1>9

\* A step of the emission.
LEMMA OutputEmission ==
  ASSUME OutputInv, DeliveryInv', Emission, UNCHANGED elf_vars
  PROVE  OutputInv'
<1> USE DEF OutputInv
<1>1. TypeInv
  BY DEF DeliveryInv
<1>2. /\ UNCHANGED <<cfg, symtab, ir>>
      /\ \/ EndsWalk
         \/ SkipsEntry /\ EntersEntry
         \/ EntersEntry /\ \E c : WritesChunk(c)
  BY <1>1, EmissionStep
<1>3. stage = "emit" /\ stage' \in {"emit", "finalize"}
  BY <1>2 DEF EndsWalk, SkipsEntry, WritesChunk
<1>4. NothingYet' /\ FileIsPlan' /\ RawIsBare'
  BY <1>2, <1>3, FileNotYet DEF NothingYet, LayoutStages, NoFileYet, RawIsBare, elf_vars
<1>5. InOrder' /\ Behind' /\ DataFirst' /\ RvcKnown'
  <2>1. CASE EndsWalk
    <3>1. stage' = "finalize" /\ UNCHANGED <<chunks, out_len, i>>
      BY <2>1 DEF EndsWalk
    <3>2. InOrder' /\ Behind' /\ DataFirst'
      BY <3>1 DEF InOrder, Behind, DataFirst
    <3>3. RvcKnown'
      <4> SUFFICES ASSUME cfg.out_fmt = "OUT_ELF", run_ok'
                   PROVE  has_rvc' <=> \E k \in DOMAIN chunks :
                                         chunks[k].sect = "SEC_TEXT" /\ chunks[k].size = 2
        BY <1>2, <3>1 DEF RvcKnown
      <4>1. has_rvc' = has_rvc
        BY <2>1, Zenon DEF EndsWalk
      <4> QED
        BY <1>3, <4>1, Zenon DEF RvcKnown
    <3> QED
      BY <3>2, <3>3
  <2>2. CASE SkipsEntry /\ EntersEntry
    <3>1. InOrder' /\ Behind' /\ DataFirst'
      BY <1>1, <1>2, <2>2, SkipsInOrder
    <3>2. RvcKnown'
      BY <1>2, <2>2 DEF SkipsEntry, RvcKnown
    <3> QED
      BY <3>1, <3>2
  <2>3. ASSUME NEW c, WritesChunk(c), EntersEntry
        PROVE  InOrder' /\ Behind' /\ DataFirst' /\ RvcKnown'
    BY <1>1, <1>2, <2>3, WritesInOrder, WritesRvc
  <2> QED
    BY <1>2, <2>1, <2>2, <2>3
<1> QED
  BY <1>4, <1>5

\* A step of the layout writes nothing.
LEMMA OutputLayout ==
  ASSUME OutputInv, DeliveryInv', Layout, UNCHANGED elf_vars
  PROVE  OutputInv'
<1> USE DEF OutputInv
<1>1. /\ UNCHANGED <<cfg, sink_vars, run_ok>>
      /\ stage \in LayoutStages /\ stage' \in LayoutStages \cup {"emit"}
  BY DEF Layout, DataLayout, DataLayoutDone, pass2_plan_choices, PlanDone, TextLayout,
     TextLayoutDone, pass2_validate_compressed_ranges, Relayout, RelayoutDone, AssignAddress,
     GoTo, LayoutStages
<1>2. chunks = <<>> /\ has_rvc = FALSE /\ seen_text = FALSE
  BY <1>1 DEF NothingYet
<1>3. chunks' = <<>> /\ has_rvc' = FALSE /\ seen_text' = FALSE
  BY <1>1, <1>2 DEF sink_vars
<1>4. InOrder' /\ Behind' /\ NothingYet' /\ DataFirst'
  BY <1>3 DEF InOrder, Behind, NothingYet, DataFirst
<1>5. RvcKnown'
  <2>1. ~(\E k \in DOMAIN chunks' : chunks'[k].sect = "SEC_TEXT" /\ chunks'[k].size = 2)
    BY <1>3
  <2> QED
    BY <1>3, <2>1, Zenon DEF RvcKnown
<1>6. FileIsPlan' /\ RawIsBare'
  BY <1>1, FileNotYet DEF NoFileYet, LayoutStages, RawIsBare, elf_vars
<1> QED
  BY <1>4, <1>5, <1>6

\* The steps of main() between the passes leave the output alone.
LEMMA OutputMain ==
  ASSUME OutputInv, DeliveryInv',
         \/ PassOne \/ StringLost \/ GiveUp \/ OpenOutput \/ pass2_finalize \/ CloseOutput
         \/ UNCHANGED vars
  PROVE  OutputInv'
<1> USE DEF OutputInv
<1>1. /\ UNCHANGED <<i, out_section, seen_text, out_len, has_rvc, chunks, run_ok,
                     lost, file, finish_ok>>
      /\ stage' = "emit" => stage = "emit" /\ stage \notin {"close", "exit"}
      /\ stage' \in LayoutStages \cup {"parse", "parsed"} =>
           stage \in LayoutStages \cup {"parse", "parsed"}
  BY StagesPassOne
  DEF DeliveryInv, TypeInv, PassOne, StringLost, GiveUp, OpenOutput, pass2_finalize, CloseOutput,
      pass2_initialize, vars, globals, pass2_vars, elf_vars, LayoutStages, Reads
<1>2. InOrder' /\ Behind' /\ NothingYet' /\ DataFirst'
  BY <1>1 DEF InOrder, Behind, NothingYet, DataFirst
<1>3. RvcKnown' /\ FileIsPlan'
  <2>1. CASE UNCHANGED cfg
    BY <1>1, <2>1, PlanKept DEF RvcKnown
  <2>2. CASE cfg' # cfg
    <3>1. PassOne
      BY <2>2 DEF StringLost, GiveUp, OpenOutput, pass2_finalize, CloseOutput, vars, globals,
         pass2_initialize
    <3> QED
      BY <2>2, <3>1 DEF PassOne, Next1, Label, DotText, DotData, SetSection, Align, Space, Datum,
         Emitting, pass1_emit_instruction, pass1_emit_data, SyntaxError, EndOfFile, globals
  <2> QED
    BY <2>1, <2>2
<1>4. RawIsBare'
  <2>1. AllParsed /\ (stage = "parse" => file = <<>>)
    BY DEF DeliveryInv, TypeInv, FileInProgress
  <2>2. CASE PassOne
    <3>1. stage = "parse" /\ stage' \in {"parse", "parsed"}
      BY <2>1, <2>2, StagesPassOne DEF PassOne
    <3> QED
      BY <1>1, <2>1, <3>1 DEF RawIsBare
  <2>3. CASE StringLost \/ GiveUp \/ OpenOutput \/ pass2_finalize \/ CloseOutput \/ UNCHANGED vars
    <3>1. UNCHANGED cfg /\ (stage' = "container" => stage = "container")
      BY <2>3 DEF StringLost, GiveUp, OpenOutput, pass2_finalize, CloseOutput, pass2_initialize, vars,
         globals
    <3> QED
      BY <1>1, <3>1 DEF RawIsBare
  <2> QED
    BY <2>2, <2>3
<1> QED
  BY <1>2, <1>3, <1>4

\* The invariant holds in every state of the assembler.
LEMMA OutputInvariant == Spec => []OutputInv
<1>1. Init => OutputInv
  <2> SUFFICES ASSUME Init
               PROVE  OutputInv
    OBVIOUS
  <2>1. stage = "parse" /\ chunks = <<>> /\ has_rvc = FALSE /\ seen_text = FALSE /\ run_ok = FALSE
    BY DEF Init, Init1, Pass2Idle
  <2>2. DeliveryInv /\ FileIsPlan
    BY <2>1, DeliveryInit, FileNotYet DEF NoFileYet
  <2> QED
    BY <2>1, <2>2, EmptyOutput DEF OutputInv, NothingYet, DataFirst, RvcKnown, RawIsBare, Init, ElfIdle
<1>2. OutputInv /\ DeliveryInv' /\ [Next]_vars => OutputInv'
  <2> SUFFICES ASSUME OutputInv, DeliveryInv', [Next]_vars
               PROVE  OutputInv'
    OBVIOUS
  <2>1. CASE PassTwo
    BY <2>1, OutputEmission, OutputLayout DEF PassTwo, Next2
  <2>2. CASE out_finish
    BY <2>2, OutputElf
  <2> QED
    BY <2>1, <2>2, OutputMain DEF Next
<1> QED
  BY <1>1, <1>2, DeliveryInvariant, PTL DEF Spec

-----------------------------------------------------------------------------
(***************************************************************************)
(* What the plan of the file holds.                                        *)
(***************************************************************************)

\* p is a member of the sequence s.
Among(p, s) == \E k \in 1 .. Len(s) : s[k] = p

\* A member of a concatenation is a member of either part.
LEMMA AmongParts ==
  ASSUME NEW S, NEW s \in Seq(S), NEW t \in Seq(S), NEW p
  PROVE  Among(p, s \o t) <=> Among(p, s) \/ Among(p, t)
<1>1. /\ Len(s) \in Nat /\ Len(t) \in Nat /\ Len(s \o t) = Len(s) + Len(t)
      /\ \A k \in 1 .. Len(s) : (s \o t)[k] = s[k]
      /\ \A k \in 1 .. Len(t) : (s \o t)[k + Len(s)] = t[k]
  OBVIOUS
<1>2. ASSUME Among(p, s \o t)
      PROVE  Among(p, s) \/ Among(p, t)
  <2>1. PICK k \in 1 .. Len(s) + Len(t) : (s \o t)[k] = p
    BY <1>1, <1>2 DEF Among
  <2>2. CASE k <= Len(s)
    BY <1>1, <2>1, <2>2 DEF Among
  <2>3. CASE k > Len(s)
    <3>1. k - Len(s) \in 1 .. Len(t) /\ (k - Len(s)) + Len(s) = k
      BY <1>1, <2>3
    <3>2. t[k - Len(s)] = p
      BY <1>1, <2>1, <3>1
    <3> QED
      BY <3>1, <3>2 DEF Among
  <2> QED
    BY <1>1, <2>2, <2>3
<1>3. ASSUME Among(p, s)
      PROVE  Among(p, s \o t)
  BY <1>1, <1>3 DEF Among
<1>4. ASSUME Among(p, t)
      PROVE  Among(p, s \o t)
  <2>1. PICK k \in 1 .. Len(t) : t[k] = p
    BY <1>4 DEF Among
  <2>2. k + Len(s) \in 1 .. Len(s \o t)
    BY <1>1
  <2> QED
    BY <1>1, <2>1, <2>2 DEF Among
<1> QED
  BY <1>2, <1>3, <1>4

\* A section with bytes is among the sections out_finish finds.
LEMMA PresentHolds ==
  ASSUME out_len \in [Sections -> Nat], NEW s \in Sections, out_len[s] > 0
  PROVE  \E n \in 1 .. phnum : Present[n] = s
<1> DEFINE T == IF text_size > 0 THEN <<"SEC_TEXT">> ELSE <<>>
           D == IF data_size > 0 THEN <<"SEC_DATA">> ELSE <<>>
<1>1. T \in Seq(Sections) /\ D \in Seq(Sections)
  <2>1. <<>> \in Seq(Sections) /\ <<"SEC_TEXT">> \in Seq(Sections) /\ <<"SEC_DATA">> \in Seq(Sections)
    BY DEF Sections
  <2> QED
    BY <2>1
<1>2. Among(s, T) \/ Among(s, D)
  <2>1. CASE s = "SEC_TEXT"
    BY <2>1 DEF text_size, Among
  <2>2. CASE s = "SEC_DATA"
    BY <2>2 DEF data_size, Among
  <2> QED
    BY <2>1, <2>2 DEF Sections
<1>3. Present = T \o D
  BY DEF Present
<1> HIDE DEF T, D
<1>4. Among(s, Present)
  BY <1>1, <1>2, <1>3, AmongParts
<1> QED
  BY <1>4 DEF Among, phnum

\* The plan has one ELF header, and a part for each section that has bytes.
PlanIsWhole ==
  /\ Among(Header, Parts)
  /\ \A k \in 1 .. Len(Parts) : Parts[k].what = "ehdr" => Parts[k] = Header
  /\ \A s \in Sections : out_len[s] > 0 =>
       \E k \in 1 .. Len(Parts) : Parts[k].what = s /\ Parts[k].len = out_len[s]

\* The plan of the file is whole, for every pair of section sizes.
LEMMA PartsContent ==
  ASSUME cfg \in Options, out_len \in [Sections -> Nat], lost \in 0 .. 4
  PROVE  PlanIsWhole
<1> DEFINE C == [n \in 1 .. phnum |->
                   Part(Present[n], Offset(Present[n]), out_len[Present[n]], <<>>)]
           T == <<Part(".shstrtab", shstr_off, StrLen(Len(Names)), Stored)>>
           P == ProgramHeaders
           S == SectionHeaders
           H == <<Header>>
           Bodies == {p \in {C[n] : n \in 1 .. phnum} \cup {T[1], P[1]}
                       \cup {S[n] : n \in 1 .. shnum} : p.what # "ehdr"}
           All == Bodies \cup {Header}
<1>1. phnum \in 0 .. 2 /\ shnum \in 2 .. 4
  BY PlanTypes DEF shnum
<1>2. \A w, off, len, b : Part(w, off, len, b).what = w /\ Part(w, off, len, b).len = len
  BY DEF Part
<1>3. C \in Seq(Bodies) /\ Len(C) = phnum
  <2>1. ASSUME NEW n \in 1 .. phnum
        PROVE  C[n].what # "ehdr"
    <3>1. Present[n] \in Sections
      BY PresentType DEF phnum
    <3>2. C[n].what = Present[n]
      BY <1>2
    <3> QED
      BY <3>1, <3>2 DEF Sections
  <2>2. \A n \in 1 .. phnum : C[n] \in Bodies
    BY <2>1
  <2> HIDE DEF Bodies
  <2> QED
    BY <1>1, <2>2
<1>4. T \in Seq(Bodies)
  <2>1. T[1].what # "ehdr"
    BY <1>2
  <2>2. T[1] \in Bodies
    BY <2>1
  <2> HIDE DEF Bodies
  <2> QED
    BY <2>2
<1>5. P \in Seq(Bodies)
  <2>1. CASE phnum = 0
    BY <2>1 DEF ProgramHeaders
  <2>2. CASE phnum # 0
    <3>1. PICK b : P = <<Part("phdrs", ehdr_sz, phnum * phdr_sz, b)>>
      BY <2>2 DEF ProgramHeaders
    <3>2. P[1].what # "ehdr" /\ P = <<P[1]>>
      BY <1>2, <3>1
    <3>3. P[1] \in Bodies
      BY <3>2
    <3> HIDE DEF Bodies, P
    <3> QED
      BY <3>2, <3>3
  <2> QED
    BY <2>1, <2>2
<1>6. S \in Seq(Bodies)
  <2>1. ASSUME NEW n \in 1 .. shnum
        PROVE  S[n].what # "ehdr"
    <3>1. \E b : S[n] = Part("shdr", shoff + (n - 1) * shdr_sz, shdr_sz, b)
      BY DEF SectionHeaders
    <3> QED
      BY <1>2, <3>1
  <2>2. \A n \in 1 .. shnum : S[n] \in Bodies
    BY <2>1
  <2>3. S = [n \in 1 .. shnum |-> S[n]]
    BY DEF SectionHeaders
  <2> HIDE DEF Bodies, S
  <2> QED
    BY <1>1, <2>2, <2>3
<1>7. Header \in All /\ Among(Header, H) /\ Len(H) = 1
  BY DEF Among
<1>8. H \in Seq(All)
  BY <1>7
<1>9. Parts = C \o T \o P \o S \o H
  BY DEF Parts, Contents
<1>10. \A p \in All : p.what = "ehdr" => p = Header
  OBVIOUS
<1>11. ASSUME NEW s \in Sections, out_len[s] > 0
       PROVE  \E p : Among(p, C) /\ p.what = s /\ p.len = out_len[s]
  <2>1. PICK n \in 1 .. phnum : Present[n] = s
    BY <1>11, PresentHolds
  <2>2. C[n].what = s /\ C[n].len = out_len[s]
    BY <1>2, <2>1
  <2>3. Among(C[n], C)
    BY <1>3, <2>1 DEF Among
  <2> QED
    BY <2>2, <2>3
<1>12. Bodies \subseteq All
  OBVIOUS
<1> HIDE DEF C, T, P, S, H, Bodies, All
<1>13. C \in Seq(All) /\ T \in Seq(All) /\ P \in Seq(All) /\ S \in Seq(All)
  <2>1. \A q \in Seq(Bodies) : q \in Seq(All)
    BY <1>12
  <2> QED
    BY <1>3, <1>4, <1>5, <1>6, <2>1
<1>14. C \o T \in Seq(All)
  BY <1>13
<1>15. C \o T \o P \in Seq(All)
  BY <1>13, <1>14
<1>16. C \o T \o P \o S \in Seq(All)
  BY <1>13, <1>15
<1>17. Parts \in Seq(All)
  BY <1>8, <1>9, <1>16
<1>18. Among(Header, Parts)
  BY <1>7, <1>8, <1>9, <1>16, AmongParts
<1>19. \A p : Among(p, C) => Among(p, Parts)
  <2> TAKE p
  <2> HAVE Among(p, C)
  <2>1. Among(p, C \o T)
    BY <1>13, AmongParts
  <2>2. Among(p, C \o T \o P)
    BY <1>13, <1>14, <2>1, AmongParts
  <2>3. Among(p, C \o T \o P \o S)
    BY <1>13, <1>15, <2>2, AmongParts
  <2> QED
    BY <1>8, <1>9, <1>16, <2>3, AmongParts
<1>20. \A k \in 1 .. Len(Parts) : Parts[k].what = "ehdr" => Parts[k] = Header
  BY <1>10, <1>17
<1>21. \A s \in Sections : out_len[s] > 0 =>
         \E k \in 1 .. Len(Parts) : Parts[k].what = s /\ Parts[k].len = out_len[s]
  BY <1>11, <1>19 DEF Among
<1> QED
  BY <1>18, <1>20, <1>21 DEF PlanIsWhole

-----------------------------------------------------------------------------
(***************************************************************************)
(* What exit status 0 means.                                               *)
(***************************************************************************)

\* The planned parts are the parts of a completed ELF.
LEMMA FileIsWhole ==
  ASSUME OutputInv, exit_code = 0, cfg.out_fmt = "OUT_ELF"
  PROVE  /\ Len(file) = Len(Parts) /\ DOMAIN file = 1 .. Len(Parts)
         /\ \A k \in DOMAIN file : file[k] = Parts[k]
         /\ PlanIsWhole
<1>1. finish_ok
  BY DEF OutputInv, DeliveryInv, ZeroMeansSuccess
<1>2. Len(file) = Len(Parts)
  BY <1>1 DEF OutputInv, FileIsPlan
<1>3. DOMAIN file = 1 .. Len(file)
  BY TypeParts DEF OutputInv, DeliveryInv, TypeInv, FileInProgress
<1>4. PlanIsWhole
  BY PartsContent, TypeParts
  DEF OutputInv, DeliveryInv, TypeInv, TypeOK1, GlobalsTypeOK, Pass2Types, ElfTypes
<1> QED
  BY <1>2, <1>3, <1>4 DEF OutputInv, FileIsPlan

\* Exit status 0 means the output is whole, whatever the source, the options and the
\* page and segment addresses: every entry of the IR that pass 1 left was dealt with,
\* what was written is in source order without overlap, data before text, and the
\* ELF parts that out_finish (src/out.c) planned are all in the file, the bytes of
\* each section among them.
THEOREM ZeroIsComplete == Spec => []ExitZeroIsComplete
<1>1. OutputInv => ExitZeroIsComplete
  <2> SUFFICES ASSUME OutputInv, exit_code = 0
               PROVE  ExitZeroIsComplete
    BY DEF ExitZeroIsComplete
  <2>1. run_ok /\ final_ok /\ out_file = "closed" /\ parse_rc = 0 /\ i = appended + 1
    BY DEF OutputInv, DeliveryInv, ZeroMeansSuccess, RunToTheEnd
  <2>2. \A j, k \in DOMAIN chunks : j < k =>
         /\ chunks[j].idx < chunks[k].idx
         /\ chunks[k].sect = "SEC_DATA" => chunks[j].sect = "SEC_DATA"
         /\ chunks[j].sect = chunks[k].sect => chunks[j].pos + chunks[j].size <= chunks[k].pos
    BY DEF OutputInv, InOrder, Before
  <2>3. ASSUME cfg.out_fmt = "OUT_ELF"
        PROVE  /\ FileHeaders # {}
               /\ \A s \in Sections : out_len[s] > 0 =>
                    \E k \in DOMAIN file : file[k].what = s /\ file[k].len = out_len[s]
    <3>1. /\ DOMAIN file = 1 .. Len(Parts)
          /\ \A k \in DOMAIN file : file[k] = Parts[k]
          /\ PlanIsWhole
      BY <2>3, FileIsWhole
    <3>2. PICK k \in DOMAIN file : file[k] = Header
      BY <3>1 DEF PlanIsWhole, Among
    <3>3. Header.what = "ehdr"
      BY DEF Header, Part
    <3>4. FileHeaders # {}
      BY <3>2, <3>3 DEF FileHeaders, PartsOf
    <3> QED
      BY <3>1, <3>4 DEF PlanIsWhole
  <2> QED
    BY <2>1, <2>2, <2>3 DEF ExitZeroIsComplete
<1> QED
  BY <1>1, OutputInvariant, PTL

\* The RVC flag of the header of an ELF that was completed tells whether .text holds
\* a compressed instruction, although main() learns it instruction by instruction and
\* a run that failed half-way leaves a flag that nobody may trust.
THEOREM RvcFlagTold == Spec => []RvcFlagIsExact
<1>1. OutputInv => RvcFlagIsExact
  <2> SUFFICES ASSUME OutputInv, exit_code = 0, NEW eh \in FileHeaders
               PROVE  eh.rvc <=> \E k \in DOMAIN chunks :
                                    chunks[k].sect = "SEC_TEXT" /\ chunks[k].size = 2
    BY DEF RvcFlagIsExact
  <2>1. PICK n \in DOMAIN file : file[n].what = "ehdr" /\ eh = file[n].body
    BY DEF FileHeaders, PartsOf
  <2>2. cfg.out_fmt = "OUT_ELF"
    <3>1. cfg.out_fmt # "OUT_ELF" => file = <<>>
      BY DEF OutputInv, RawIsBare
    <3>2. DOMAIN <<>> = {}
      OBVIOUS
    <3> QED
      BY <2>1, <3>1, <3>2
  <2>3. file[n] = Header
    BY <2>1, <2>2, FileIsWhole DEF PlanIsWhole
  <2>4. Header.body.rvc = has_rvc
    BY DEF Header, Part
  <2>5. run_ok
    BY DEF OutputInv, DeliveryInv, ZeroMeansSuccess
  <2>6. has_rvc <=> \E k \in DOMAIN chunks : chunks[k].sect = "SEC_TEXT" /\ chunks[k].size = 2
    BY <2>2, <2>5, Zenon DEF OutputInv, RvcKnown
  <2>7. eh.rvc = has_rvc
    BY <2>1, <2>3, <2>4
  <2> QED
    BY <2>6, <2>7, Zenon
<1> QED
  BY <1>1, OutputInvariant, PTL
-----------------------------------------------------------------------------
(***************************************************************************)
(* Where the parts of the file are.                                        *)
(***************************************************************************)

RoundUp(x, a) == ((x + a - 1) \div a) * a

\* No offset that out_finish computes with align_up_u32 is too large for it, so the
\* rounding goes up.  align_up_u64 has no such bound.
FileFits ==
  /\ text_off = RoundUp(AfterHeaders, PageSize)
  /\ data_off = RoundUp(AfterText, PageSize)
  /\ shoff = RoundUp(shstr_off + StrLen(Len(Names)), IF is64 THEN 8 ELSE 4)

\* The file of a 64-bit target always fits.
LEMMA LongFileFits == is64 => FileFits
BY DEF FileFits, RoundUp, align_up, text_off, data_off, shoff

\* Rounding up gives a multiple, and not a smaller number.
LEMMA RoundUpMultiple ==
  \A a \in Nat \ {0} : \A x \in Nat : RoundUp(x, a) >= x /\ RoundUp(x, a) % a = 0
<1> TAKE a \in Nat \ {0}
<1> TAKE x \in Nat
<1>1. ((x + a - 1) \div a) * a >= x
  OBVIOUS
<1>2. \A q \in Nat : (q * a) % a = 0
  OBVIOUS
<1>3. (x + a - 1) \div a \in Nat
  OBVIOUS
<1> QED
  BY <1>1, <1>2, <1>3 DEF RoundUp

\* Which sections have a header, in which order.
LEMMA PresentOrder ==
  ASSUME out_len \in [Sections -> Nat]
  PROVE  /\ \A n \in 1 .. phnum : Present[n] \in Sections /\ out_len[Present[n]] > 0
         /\ \A n, m \in 1 .. phnum : n < m => Present[n] = "SEC_TEXT" /\ Present[m] = "SEC_DATA"
<1> DEFINE T == IF text_size > 0 THEN <<"SEC_TEXT">> ELSE <<>>
           D == IF data_size > 0 THEN <<"SEC_DATA">> ELSE <<>>
<1>1. T \in Seq(Sections) /\ D \in Seq(Sections)
  <2>1. <<>> \in Seq(Sections) /\ <<"SEC_TEXT">> \in Seq(Sections) /\ <<"SEC_DATA">> \in Seq(Sections)
    BY DEF Sections
  <2> QED
    BY <2>1
<1>2. /\ Len(T) \in 0 .. 1 /\ \A n \in 1 .. Len(T) : T[n] = "SEC_TEXT" /\ out_len[T[n]] > 0
      /\ Len(D) \in 0 .. 1 /\ \A n \in 1 .. Len(D) : D[n] = "SEC_DATA" /\ out_len[D[n]] > 0
  BY DEF text_size, data_size
<1>3. Present = T \o D
  BY DEF Present
<1> HIDE DEF T, D
<1>4. /\ Len(T \o D) = Len(T) + Len(D)
      /\ \A n \in 1 .. Len(T) : (T \o D)[n] = T[n]
      /\ \A n \in Len(T) + 1 .. Len(T) + Len(D) : (T \o D)[n] = D[n - Len(T)]
  BY <1>1
<1>5. phnum = Len(T) + Len(D)
  BY <1>3, <1>4 DEF phnum
<1>6. \A n \in 1 .. phnum :
        \/ n <= Len(T) /\ n = 1 /\ Present[n] = "SEC_TEXT" /\ out_len[Present[n]] > 0
        \/ n = Len(T) + 1 /\ Present[n] = "SEC_DATA" /\ out_len[Present[n]] > 0
  <2> TAKE n \in 1 .. phnum
  <2>1. CASE n <= Len(T)
    BY <1>2, <1>3, <1>4, <2>1
  <2>2. CASE n > Len(T)
    <3>1. n \in Len(T) + 1 .. Len(T) + Len(D) /\ n - Len(T) \in 1 .. Len(D) /\ n = Len(T) + 1
      BY <1>2, <1>5, <2>2
    <3>2. Present[n] = D[n - Len(T)]
      BY <1>3, <1>4, <3>1
    <3> QED
      BY <1>2, <3>1, <3>2
  <2> QED
    BY <1>2, <2>1, <2>2
<1>7. \A n \in 1 .. phnum : Present[n] \in Sections /\ out_len[Present[n]] > 0
  BY <1>6 DEF Sections
<1>8. \A n, m \in 1 .. phnum : n < m => Present[n] = "SEC_TEXT" /\ Present[m] = "SEC_DATA"
  BY <1>2, <1>5, <1>6
<1> QED
  BY <1>7, <1>8

\* The parts lie one behind the other: headers, .text, .data, names, section headers.
LEMMA Breakpoints ==
  ASSUME cfg \in Options, out_len \in [Sections -> Nat], lost \in 0 .. 4, FileFits
  PROVE  /\ AfterHeaders = ehdr_sz + phnum * phdr_sz /\ AfterHeaders \in Nat
         /\ AfterText \in Nat /\ AfterHeaders <= AfterText
         /\ text_size > 0 => AfterHeaders <= text_off /\ text_off + text_size = AfterText
         /\ AfterText <= shstr_off
         /\ data_size > 0 => AfterText <= data_off /\ data_off + data_size = shstr_off
         /\ shstr_off + StrLen(Len(Names)) <= shoff
         /\ text_off % PageSize = 0 /\ data_off % PageSize = 0
<1>1. /\ phnum \in 0 .. 2 /\ ehdr_sz \in Nat /\ phdr_sz \in Nat
      /\ text_size \in Nat /\ data_size \in Nat /\ text_off \in Nat /\ data_off \in Nat
      /\ shstr_off \in Nat /\ shoff \in Nat /\ StrLen(Len(Names)) \in Nat
  BY PlanTypes
<1>2. AfterHeaders = ehdr_sz + phnum * phdr_sz /\ AfterHeaders \in Nat
  BY <1>1 DEF AfterHeaders, phdr_sz
<1>3. text_off >= AfterHeaders /\ text_off % PageSize = 0
  BY <1>2, RoundUpMultiple, BaseAssumption DEF FileFits
<1>4. AfterText \in Nat /\ AfterText >= AfterHeaders
      /\ (text_size > 0 => text_off + text_size = AfterText)
  BY <1>1, <1>2, <1>3 DEF AfterText
<1>5. data_off >= AfterText /\ data_off % PageSize = 0
  BY <1>4, RoundUpMultiple, BaseAssumption DEF FileFits
<1>6. shstr_off >= AfterText /\ (data_size > 0 => data_off + data_size = shstr_off)
  BY <1>1, <1>4, <1>5 DEF shstr_off
<1>7. shoff >= shstr_off + StrLen(Len(Names))
  <2>1. shstr_off + StrLen(Len(Names)) \in Nat
    BY <1>1
  <2>2. \A a \in {4, 8} : RoundUp(shstr_off + StrLen(Len(Names)), a) >= shstr_off + StrLen(Len(Names))
    BY <2>1, RoundUpMultiple
  <2> QED
    BY <2>2 DEF FileFits
<1> QED
  BY <1>1, <1>2, <1>3, <1>4, <1>5, <1>6, <1>7

\* The file of a 32-bit target does when its sections leave room in 32 bits for the
\* headers, the names and what is skipped up to the next page.
LEMMA SmallFileFits ==
  ASSUME cfg \in Options, out_len \in [Sections -> Nat], lost \in 0 .. 4,
         text_size + data_size + 2 * PageSize + 256 < Mod32
  PROVE  FileFits
<1>1. /\ phnum \in 0 .. 2 /\ ehdr_sz \in 0 .. 64 /\ phdr_sz \in {32, 56}
      /\ text_size \in Nat /\ data_size \in Nat /\ PageSize \in Nat \ {0}
  BY PlanTypes, BaseAssumption DEF ehdr_sz, phdr_sz
<1>2. /\ AfterHeaders \in 0 .. 176 /\ StrLen(Len(Names)) \in 0 .. 24
  <2>1. phnum * phdr_sz \in 0 .. 112
    BY <1>1
  <2>2. AfterHeaders \in 0 .. 176
    BY <1>1, <2>1 DEF AfterHeaders
  <2>3. Len(Names) \in 2 .. 4
    <3>1. Len(Names) = phnum + 2
      BY PlanTypes
    <3> QED
      BY <1>1, <3>1
  <2>4. \A n \in 0 .. 4 : n <= Len(Names) => NameBytes(n) \in 0 .. 23
    <3> TAKE n \in 0 .. 4
    <3> HAVE n <= Len(Names)
    <3>1. n # 0 => 6 * n - 5 \in 1 .. 19
      OBVIOUS
    <3> QED
      BY <3>1 DEF NameBytes
  <2>5. StrLen(Len(Names)) \in Nat /\ StrLen(Len(Names)) <= 24
    <3>1. NameBytes(Len(Names)) \in 0 .. 23
      <4>1. Len(Names) \in 0 .. 4 /\ Len(Names) <= Len(Names)
        BY <2>3
      <4> QED
        BY <2>4, <4>1, Zenon
    <3>2. lost < Len(Names) => NameBytes(lost) \in 0 .. 23
      <4>1. lost < Len(Names) => lost <= Len(Names)
        BY <2>3
      <4> QED
        BY <2>4, <4>1, Zenon
    <3>3. StrLen(Len(Names)) \in Nat
      <4>1. Len(Names) \in 0 .. Len(Names)
        BY <2>3
      <4> QED
        BY <4>1, PlanTypes
    <3>4. StrLen(Len(Names)) = IF Len(Names) <= lost THEN 0
                               ELSE NameBytes(Len(Names)) - NameBytes(lost)
      BY DEF StrLen
    <3>5. CASE Len(Names) <= lost
      <4>1. StrLen(Len(Names)) = 0
        BY <3>4, <3>5
      <4> QED
        BY <4>1
    <3>6. CASE lost < Len(Names)
      <4>1. StrLen(Len(Names)) = NameBytes(Len(Names)) - NameBytes(lost)
        BY <2>3, <3>4, <3>6
      <4>2. \A x, y \in 0 .. 23 : x - y <= 24
        OBVIOUS
      <4>3. NameBytes(Len(Names)) \in 0 .. 23 /\ NameBytes(lost) \in 0 .. 23
        BY <3>1, <3>2, <3>6, Zenon
      <4>4. NameBytes(Len(Names)) - NameBytes(lost) <= 24
        BY <4>2, <4>3, Zenon
      <4> QED
        BY <3>3, <4>1, <4>4, Zenon
    <3>7. Len(Names) <= lost \/ lost < Len(Names)
      BY <2>3
    <3> QED
      BY <3>5, <3>6, <3>7, Zenon
  <2>6. \A n \in Nat : n <= 24 => n \in 0 .. 24
    OBVIOUS
  <2> QED
    BY <2>2, <2>5, <2>6, Zenon
<1>3. \A a \in Nat \ {0} : \A x \in Nat :
        x + a < Mod32 => align_up(x, a) = RoundUp(x, a) /\ RoundUp(x, a) < x + a
                         /\ RoundUp(x, a) \in Nat
  <2> TAKE a \in Nat \ {0}
  <2> TAKE x \in Nat
  <2> HAVE x + a < Mod32
  <2>1. Mod32 \in Nat
    BY WidthAssumption DEF Mod32
  <2>2. \A n \in Nat : n < Mod32 => U32(n) = n
    BY <2>1 DEF U32
  <2>3. RoundUp(x, a) \in Nat /\ RoundUp(x, a) < x + a
    BY DEF RoundUp
  <2>4. U32(x) = x
    BY <2>1, <2>2
  <2>5. RoundUp(x, a) < Mod32
    BY <2>1, <2>3
  <2>6. U32(RoundUp(x, a)) = RoundUp(x, a)
    BY <2>2, <2>3, <2>5
  <2> QED
    BY <2>3, <2>4, <2>6 DEF align_up, RoundUp
<1>4. Mod32 \in Nat
  BY WidthAssumption DEF Mod32
<1>5. /\ text_off = RoundUp(AfterHeaders, PageSize)
      /\ text_off \in Nat /\ text_off < AfterHeaders + PageSize
  <2>1. AfterHeaders + PageSize < Mod32 /\ AfterHeaders \in Nat
    BY <1>1, <1>2, <1>4
  <2>2. /\ align_up(AfterHeaders, PageSize) = RoundUp(AfterHeaders, PageSize)
        /\ RoundUp(AfterHeaders, PageSize) < AfterHeaders + PageSize
        /\ RoundUp(AfterHeaders, PageSize) \in Nat
    BY <1>1, <1>3, <2>1, Zenon
  <2> QED
    BY <2>2 DEF text_off
<1>6. AfterText \in Nat /\ AfterText < 177 + PageSize + text_size
  BY <1>1, <1>2, <1>5 DEF AfterText
<1>7. /\ data_off = RoundUp(AfterText, PageSize)
      /\ data_off \in Nat /\ data_off < AfterText + PageSize
  <2>1. AfterText + PageSize < Mod32
    BY <1>1, <1>4, <1>6
  <2> QED
    BY <1>1, <1>3, <1>6, <2>1 DEF data_off
<1>8. shstr_off \in Nat /\ shstr_off < 177 + 2 * PageSize + text_size + data_size
  BY <1>1, <1>6, <1>7 DEF shstr_off
<1>9. \A a \in {4, 8} : align_up(shstr_off + StrLen(Len(Names)), a)
                        = RoundUp(shstr_off + StrLen(Len(Names)), a)
  <2> TAKE a \in {4, 8}
  <2>1. shstr_off + StrLen(Len(Names)) \in Nat
        /\ shstr_off + StrLen(Len(Names)) + a < Mod32
    <3>1. StrLen(Len(Names)) \in Nat /\ StrLen(Len(Names)) <= 24 /\ a \in Nat /\ a <= 8
      <4>1. \A n \in 0 .. 24 : n \in Nat /\ n <= 24
        OBVIOUS
      <4>2. a \in Nat /\ a <= 8
        OBVIOUS
      <4> QED
        BY <1>2, <4>1, <4>2, Zenon
    <3> QED
      BY <1>1, <1>4, <1>8, <3>1
  <2>2. a \in Nat \ {0}
    OBVIOUS
  <2> QED
    BY <1>3, <2>1, <2>2, Zenon
<1> QED
  BY <1>5, <1>7, <1>9 DEF FileFits, shoff

\* Two sequences and one behind them.
LEMMA ConcatAt ==
  ASSUME NEW S, NEW s \in Seq(S), NEW t \in Seq(S)
  PROVE  /\ s \o t \in Seq(S) /\ Len(s \o t) = Len(s) + Len(t)
         /\ \A k \in 1 .. Len(s) : (s \o t)[k] = s[k]
         /\ \A k \in 1 .. Len(t) : (s \o t)[Len(s) + k] = t[k]
OBVIOUS

\* The n-th section header.
HeaderPart(n) ==
  Part("shdr", shoff + (n - 1) * shdr_sz, shdr_sz,
       IF n = 1 THEN SectionHeader(0, 0, 0, 0)
       ELSE IF n = shnum
       THEN SectionHeader(sh_name(".shstrtab"), 0, shstr_off, StrLen(Len(Names)))
       ELSE LET s == Present[n - 1]
            IN SectionHeader(sh_name(s), Base(s), Offset(s), out_len[s]))

SectionPart(n) == Part(Present[n], Offset(Present[n]), out_len[Present[n]], <<>>)
StringPart == Part(".shstrtab", shstr_off, StrLen(Len(Names)), Stored)
SegmentsPart == Part("phdrs", ehdr_sz, phnum * phdr_sz, [n \in 1 .. phnum |-> Segment(Present[n])])

\* How many parts come before the section headers.
Leading == phnum + 1 + (IF phnum = 0 THEN 0 ELSE 1)

\* Which part is where in the order in which they are written.
LEMMA PartsAt ==
  ASSUME cfg \in Options, out_len \in [Sections -> Nat], lost \in 0 .. 4
  PROVE  /\ phnum \in 0 .. 2 /\ shnum = phnum + 2 /\ Len(Parts) = Leading + shnum + 1
         /\ \A n \in 1 .. phnum : Parts[n] = SectionPart(n)
         /\ Parts[phnum + 1] = StringPart
         /\ phnum > 0 => Parts[phnum + 2] = SegmentsPart
         /\ \A n \in 1 .. shnum : Parts[Leading + n] = HeaderPart(n)
         /\ Parts[Len(Parts)] = Header
<1> DEFINE C == [n \in 1 .. phnum |->
                   Part(Present[n], Offset(Present[n]), out_len[Present[n]], <<>>)]
           T == <<StringPart>>
           P == ProgramHeaders
           S == SectionHeaders
           H == <<Header>>
           CT == C \o T
           CTP == CT \o P
           CTPS == CTP \o S
           All == {C[n] : n \in 1 .. phnum} \cup {StringPart, SegmentsPart, Header}
                     \cup {S[n] : n \in 1 .. shnum}
<1>1. phnum \in 0 .. 2 /\ shnum = phnum + 2 /\ shnum \in Nat
  BY PlanTypes DEF shnum
<1>2. Parts = CTPS \o H
  BY DEF Parts, Contents, StringPart
<1>3. /\ C \in Seq(All) /\ Len(C) = phnum
      /\ \A n \in 1 .. phnum : C[n] = SectionPart(n)
  <2>1. \A n \in 1 .. phnum : C[n] \in All /\ C[n] = SectionPart(n)
    BY DEF SectionPart
  <2> HIDE DEF All
  <2> QED
    BY <1>1, <2>1
<1>4. T \in Seq(All) /\ Len(T) = 1 /\ T[1] = StringPart
  <2>1. StringPart \in All
    OBVIOUS
  <2> HIDE DEF All
  <2> QED
    BY <2>1
<1>5. /\ P \in Seq(All) /\ Len(P) = IF phnum = 0 THEN 0 ELSE 1
      /\ phnum > 0 => P[1] = SegmentsPart
  <2>1. SegmentsPart \in All
    OBVIOUS
  <2>2. P = IF phnum = 0 THEN <<>> ELSE <<SegmentsPart>>
    BY DEF ProgramHeaders, SegmentsPart
  <2> HIDE DEF All, P
  <2> QED
    BY <1>1, <2>1, <2>2
<1>6. /\ S \in Seq(All) /\ Len(S) = shnum
      /\ \A n \in 1 .. shnum : S[n] = HeaderPart(n)
  <2>1. S = [n \in 1 .. shnum |-> HeaderPart(n)]
    BY DEF SectionHeaders, HeaderPart
  <2>2. \A n \in 1 .. shnum : S[n] \in All
    OBVIOUS
  <2> HIDE DEF All, S
  <2> QED
    BY <1>1, <2>1, <2>2
<1>7. H \in Seq(All) /\ Len(H) = 1 /\ H[1] = Header
  <2>1. Header \in All
    OBVIOUS
  <2> HIDE DEF All
  <2> QED
    BY <2>1
<1> HIDE DEF C, T, P, S, H, All

<1>8. /\ CT \in Seq(All) /\ Len(CT) = phnum + 1
      /\ \A n \in 1 .. phnum : CT[n] = C[n]
      /\ CT[phnum + 1] = T[1]
  <2>1. /\ CT \in Seq(All) /\ Len(CT) = Len(C) + Len(T)
        /\ \A n \in 1 .. Len(C) : CT[n] = C[n]
        /\ \A n \in 1 .. Len(T) : CT[Len(C) + n] = T[n]
    <3>1. C \in Seq(All) /\ T \in Seq(All)
      BY <1>3, <1>4
    <3> HIDE DEF CT
    <3>2. CT = C \o T
      BY DEF CT
    <3> QED
      BY <3>1, <3>2, ConcatAt
  <2> HIDE DEF CT
  <2> QED
    BY <1>1, <1>3, <1>4, <2>1
<1>9. Leading \in Nat
  BY <1>1 DEF Leading
<1>10. /\ CTP \in Seq(All) /\ Len(CTP) = Leading
       /\ \A n \in 1 .. phnum + 1 : CTP[n] = CT[n]
       /\ phnum > 0 => CTP[phnum + 2] = P[1]
  <2> HIDE DEF CT
  <2>1. /\ CTP \in Seq(All) /\ Len(CTP) = Len(CT) + Len(P)
        /\ \A n \in 1 .. Len(CT) : CTP[n] = CT[n]
        /\ \A n \in 1 .. Len(P) : CTP[Len(CT) + n] = P[n]
    <3>1. CT \in Seq(All) /\ P \in Seq(All)
      BY <1>5, <1>8
    <3> QED
      BY <3>1, ConcatAt
  <2> HIDE DEF CTP
  <2>2. phnum > 0 => 1 \in 1 .. Len(P) /\ (phnum + 1) + 1 = phnum + 2
    BY <1>1, <1>5
  <2> QED
    BY <1>1, <1>5, <1>8, <2>1, <2>2 DEF Leading
<1>11. /\ CTPS \in Seq(All) /\ Len(CTPS) = Leading + shnum
       /\ \A n \in 1 .. Leading : CTPS[n] = CTP[n]
       /\ \A n \in 1 .. shnum : CTPS[Leading + n] = S[n]
  <2> HIDE DEF CTP
  <2>1. /\ CTPS \in Seq(All) /\ Len(CTPS) = Len(CTP) + Len(S)
        /\ \A n \in 1 .. Len(CTP) : CTPS[n] = CTP[n]
        /\ \A n \in 1 .. Len(S) : CTPS[Len(CTP) + n] = S[n]
    <3>1. CTP \in Seq(All) /\ S \in Seq(All)
      BY <1>6, <1>10
    <3> QED
      BY <3>1, ConcatAt
  <2> HIDE DEF CTPS
  <2> QED
    BY <1>6, <1>10, <2>1
<1>12. /\ Len(Parts) = Leading + shnum + 1
       /\ \A n \in 1 .. Leading + shnum : Parts[n] = CTPS[n]
       /\ Parts[(Leading + shnum) + 1] = H[1]
  <2> HIDE DEF CTPS
  <2>1. /\ Len(Parts) = Len(CTPS) + Len(H)
        /\ \A n \in 1 .. Len(CTPS) : Parts[n] = CTPS[n]
        /\ \A n \in 1 .. Len(H) : Parts[Len(CTPS) + n] = H[n]
    <3>1. CTPS \in Seq(All) /\ H \in Seq(All)
      BY <1>7, <1>11
    <3> QED
      BY <1>2, <3>1, ConcatAt
  <2> QED
    BY <1>1, <1>7, <1>9, <1>11, <2>1
<1> HIDE DEF CT, CTP, CTPS
<1>13. phnum + 1 <= Leading /\ (phnum > 0 => phnum + 2 <= Leading)
  BY <1>1 DEF Leading
<1>14. \A n \in 1 .. phnum : Parts[n] = SectionPart(n)
  <2> TAKE n \in 1 .. phnum
  <2>1. n \in 1 .. phnum + 1 /\ n \in 1 .. Leading /\ n \in 1 .. Leading + shnum
    BY <1>1, <1>9, <1>13
  <2> QED
    BY <1>3, <1>8, <1>10, <1>11, <1>12, <2>1
<1>15. Parts[phnum + 1] = StringPart
  <2>1. phnum + 1 \in 1 .. phnum + 1 /\ phnum + 1 \in 1 .. Leading
        /\ phnum + 1 \in 1 .. Leading + shnum
    BY <1>1, <1>9, <1>13
  <2> QED
    BY <1>4, <1>8, <1>10, <1>11, <1>12, <2>1
<1>16. phnum > 0 => Parts[phnum + 2] = SegmentsPart
  <2> SUFFICES ASSUME phnum > 0
               PROVE  Parts[phnum + 2] = SegmentsPart
    OBVIOUS
  <2>1. phnum + 2 \in 1 .. Leading /\ phnum + 2 \in 1 .. Leading + shnum
    BY <1>1, <1>9, <1>13
  <2> QED
    BY <1>5, <1>10, <1>11, <1>12, <2>1
<1>17. \A n \in 1 .. shnum : Parts[Leading + n] = HeaderPart(n)
  <2> TAKE n \in 1 .. shnum
  <2>1. Leading + n \in 1 .. Leading + shnum
    BY <1>1, <1>9
  <2> QED
    BY <1>6, <1>11, <1>12, <2>1
<1> QED
  BY <1>1, <1>7, <1>12, <1>14, <1>15, <1>16, <1>17

\* Every part is one of those.
LEMMA PartKinds ==
  ASSUME cfg \in Options, out_len \in [Sections -> Nat], lost \in 0 .. 4,
         NEW k \in 1 .. Len(Parts)
  PROVE  \/ k \in 1 .. phnum /\ Parts[k] = SectionPart(k)
         \/ k = phnum + 1 /\ Parts[k] = StringPart
         \/ phnum > 0 /\ k = phnum + 2 /\ Parts[k] = SegmentsPart
         \/ \E n \in 1 .. shnum : k = Leading + n /\ Parts[k] = HeaderPart(n)
         \/ k = Len(Parts) /\ Parts[k] = Header
<1>1. /\ phnum \in 0 .. 2 /\ shnum = phnum + 2 /\ Len(Parts) = Leading + shnum + 1
      /\ \A n \in 1 .. phnum : Parts[n] = SectionPart(n)
      /\ Parts[phnum + 1] = StringPart
      /\ phnum > 0 => Parts[phnum + 2] = SegmentsPart
      /\ \A n \in 1 .. shnum : Parts[Leading + n] = HeaderPart(n)
      /\ Parts[Len(Parts)] = Header
  BY PartsAt
<1>2. Leading = IF phnum = 0 THEN phnum + 1 ELSE phnum + 2
  BY <1>1 DEF Leading
<1>3. \/ k \in 1 .. phnum
      \/ k = phnum + 1
      \/ phnum > 0 /\ k = phnum + 2
      \/ k - Leading \in 1 .. shnum /\ k = Leading + (k - Leading)
      \/ k = Len(Parts)
  BY <1>1, <1>2
<1>4. CASE k - Leading \in 1 .. shnum /\ k = Leading + (k - Leading)
  BY <1>1, <1>4
<1> QED
  BY <1>1, <1>3, <1>4

\* Which part of the file is for what: each kind has a stretch of it.
From(what) ==
  CASE what = "ehdr" -> 0
    [] what = "phdrs" -> ehdr_sz
    [] what = "SEC_TEXT" -> AfterHeaders
    [] what = "SEC_DATA" -> AfterText
    [] what = ".shstrtab" -> shstr_off
    [] what = "shdr" -> shoff
To(what) ==
  CASE what = "ehdr" -> ehdr_sz
    [] what = "phdrs" -> AfterHeaders
    [] what = "SEC_TEXT" -> AfterText
    [] what = "SEC_DATA" -> shstr_off
    [] what = ".shstrtab" -> shoff
    [] what = "shdr" -> shoff + shnum * shdr_sz

WithinZone(p) ==
  p.what \in PartNames /\ From(p.what) <= p.off /\ p.off + p.len <= To(p.what)

\* Every part lies in the stretch of its kind.
LEMMA PartsWithinZone ==
  ASSUME cfg \in Options, out_len \in [Sections -> Nat], lost \in 0 .. 4, FileFits,
         NEW k \in 1 .. Len(Parts)
  PROVE  WithinZone(Parts[k])
<1>1. /\ phnum \in 0 .. 2 /\ shnum = phnum + 2
      /\ ehdr_sz \in Nat /\ phdr_sz \in {32, 56} /\ shdr_sz \in {40, 64}
      /\ text_size \in Nat /\ data_size \in Nat /\ text_off \in Nat /\ data_off \in Nat
      /\ shstr_off \in Nat /\ shoff \in Nat /\ StrLen(Len(Names)) \in Nat
  BY PlanTypes, PartsAt DEF phdr_sz, shdr_sz
<1>2. /\ AfterHeaders = ehdr_sz + phnum * phdr_sz
      /\ text_size > 0 => AfterHeaders <= text_off /\ text_off + text_size = AfterText
      /\ data_size > 0 => AfterText <= data_off /\ data_off + data_size = shstr_off
      /\ shstr_off + StrLen(Len(Names)) <= shoff
  BY Breakpoints
<1>3. \A w, off, len, b : Part(w, off, len, b).what = w /\ Part(w, off, len, b).off = off
                          /\ Part(w, off, len, b).len = len
  BY DEF Part
<1>4. CASE k \in 1 .. phnum /\ Parts[k] = SectionPart(k)
  <2>1. Present[k] \in Sections /\ out_len[Present[k]] > 0
    BY <1>4, PresentOrder
  <2>2. Parts[k].what = Present[k] /\ Parts[k].off = Offset(Present[k])
        /\ Parts[k].len = out_len[Present[k]]
    BY <1>3, <1>4 DEF SectionPart
  <2>3. CASE Present[k] = "SEC_TEXT"
    BY <1>1, <1>2, <2>1, <2>2, <2>3 DEF WithinZone, From, To, PartNames, Offset, text_size
  <2>4. CASE Present[k] = "SEC_DATA"
    BY <1>1, <1>2, <2>1, <2>2, <2>4 DEF WithinZone, From, To, PartNames, Offset, data_size
  <2> QED
    BY <2>1, <2>3, <2>4 DEF Sections
<1>5. CASE Parts[k] = StringPart
  BY <1>1, <1>2, <1>3, <1>5 DEF StringPart, WithinZone, From, To, PartNames
<1>6. CASE Parts[k] = SegmentsPart
  <2>1. phnum * phdr_sz \in Nat /\ ehdr_sz + phnum * phdr_sz = AfterHeaders
    BY <1>1, <1>2
  <2>2. Parts[k].what = "phdrs" /\ Parts[k].off = ehdr_sz /\ Parts[k].len = phnum * phdr_sz
    BY <1>3, <1>6 DEF SegmentsPart
  <2>3. "phdrs" \in PartNames /\ From("phdrs") = ehdr_sz /\ To("phdrs") = AfterHeaders
    BY DEF From, To, PartNames
  <2> QED
    BY <1>1, <2>1, <2>2, <2>3 DEF WithinZone
<1>7. ASSUME NEW n \in 1 .. shnum, Parts[k] = HeaderPart(n)
      PROVE  WithinZone(Parts[k])
  <2>1. Parts[k].what = "shdr" /\ Parts[k].off = shoff + (n - 1) * shdr_sz
        /\ Parts[k].len = shdr_sz
    BY <1>3, <1>7 DEF HeaderPart
  <2>2. shoff <= shoff + (n - 1) * shdr_sz
        /\ shoff + (n - 1) * shdr_sz + shdr_sz <= shoff + shnum * shdr_sz
    BY <1>1, <1>7
  <2> QED
    BY <2>1, <2>2 DEF WithinZone, From, To, PartNames
<1>8. CASE Parts[k] = Header
  BY <1>1, <1>3, <1>8 DEF Header, WithinZone, From, To, PartNames
<1> QED
  BY <1>4, <1>5, <1>6, <1>7, <1>8, PartKinds

\* The bytes of p and q do not overlap.
Apart(p, q) == p.off + p.len <= q.off \/ q.off + q.len <= p.off

\* Parts of different kinds are apart, and so are two section headers; there is only
\* one part of any other kind.
LEMMA PartsApart ==
  ASSUME cfg \in Options, out_len \in [Sections -> Nat], lost \in 0 .. 4, FileFits,
         NEW j \in 1 .. Len(Parts), NEW k \in 1 .. Len(Parts), j < k
  PROVE  /\ Apart(Parts[j], Parts[k])
         /\ Parts[j].what = Parts[k].what => Parts[j].what = "shdr"
<1>1. /\ phnum \in 0 .. 2 /\ shnum = phnum + 2
      /\ ehdr_sz \in Nat /\ phdr_sz \in Nat /\ shdr_sz \in {40, 64}
      /\ shstr_off \in Nat /\ shoff \in Nat /\ StrLen(Len(Names)) \in Nat
      /\ Len(Parts) = Leading + shnum + 1
  <2>1. shdr_sz \in {40, 64}
    BY DEF shdr_sz
  <2>2. phnum \in 0 .. 2 /\ shnum = phnum + 2 /\ Len(Parts) = Leading + shnum + 1
    BY PartsAt
  <2>3. /\ ehdr_sz \in Nat /\ phdr_sz \in Nat /\ shstr_off \in Nat /\ shoff \in Nat
        /\ Len(Names) = phnum + 2 /\ \A n \in 0 .. Len(Names) : StrLen(n) \in Nat
    BY PlanTypes
  <2>4. Len(Names) \in 0 .. Len(Names)
    BY <2>2, <2>3
  <2> QED
    BY <2>1, <2>2, <2>3, <2>4
<1>2. /\ AfterHeaders \in Nat /\ AfterText \in Nat
      /\ ehdr_sz <= AfterHeaders /\ AfterHeaders <= AfterText /\ AfterText <= shstr_off
      /\ shstr_off <= shoff
  <2>1. /\ AfterHeaders = ehdr_sz + phnum * phdr_sz /\ AfterHeaders \in Nat
        /\ AfterText \in Nat /\ AfterHeaders <= AfterText /\ AfterText <= shstr_off
        /\ shstr_off + StrLen(Len(Names)) <= shoff
    BY Breakpoints
  <2>2. phnum * phdr_sz >= 0
    BY <1>1
  <2> QED
    BY <1>1, <2>1, <2>2
<1>3. /\ WithinZone(Parts[j]) /\ WithinZone(Parts[k])
      /\ Parts[j].off \in Nat /\ Parts[j].len \in Nat
      /\ Parts[k].off \in Nat /\ Parts[k].len \in Nat
  <2>1. PartIs(Parts[j]) /\ PartIs(Parts[k])
    BY PartsType
  <2> QED
    BY <2>1, PartsWithinZone DEF PartIs
<1>4. \A w, off, len, b : Part(w, off, len, b).what = w /\ Part(w, off, len, b).off = off
                          /\ Part(w, off, len, b).len = len
  BY DEF Part
<1>5. CASE Parts[j].what # Parts[k].what
  <2>1. \A v, w \in PartNames : v # w => To(v) <= From(w) \/ To(w) <= From(v)
    BY <1>1, <1>2 DEF From, To, PartNames, Sections
  <2>2. \A w \in PartNames : From(w) \in Nat /\ To(w) \in Nat
    <3>1. shoff + shnum * shdr_sz \in Nat
      BY <1>1
    <3> QED
      BY <1>1, <1>2, <3>1 DEF From, To, PartNames, Sections
  <2> DEFINE p == Parts[j]
             q == Parts[k]
  <2>3. /\ p.what \in PartNames /\ From(p.what) <= p.off /\ p.off + p.len <= To(p.what)
        /\ q.what \in PartNames /\ From(q.what) <= q.off /\ q.off + q.len <= To(q.what)
        /\ p.off \in Nat /\ p.len \in Nat /\ q.off \in Nat /\ q.len \in Nat
    BY <1>3, Zenon DEF WithinZone
  <2>4. To(p.what) <= From(q.what) \/ To(q.what) <= From(p.what)
    BY <1>5, <2>1, <2>3, Zenon
  <2>5. /\ From(p.what) \in Nat /\ To(p.what) \in Nat
        /\ From(q.what) \in Nat /\ To(q.what) \in Nat
    BY <2>2, <2>3, Zenon
  <2> HIDE DEF p, q
  <2>6. Apart(p, q)
    BY <2>3, <2>4, <2>5 DEF Apart
  <2> QED
    BY <1>5, <2>6 DEF p, q
<1>6. CASE Parts[j].what = Parts[k].what
  <2>1. \A n \in 1 .. shnum : \A m \in 1 .. shnum : n < m =>
          Apart(HeaderPart(n), HeaderPart(m)) /\ HeaderPart(n).what = "shdr"
    <3> TAKE n \in 1 .. shnum
    <3> TAKE m \in 1 .. shnum
    <3> HAVE n < m
    <3>1. shoff + (n - 1) * shdr_sz + shdr_sz <= shoff + (m - 1) * shdr_sz
      BY <1>1
    <3> QED
      BY <1>4, <3>1 DEF Apart, HeaderPart
  <2>2. \A n \in 1 .. shnum : HeaderPart(n).what = "shdr"
    BY <1>4 DEF HeaderPart
  <2>3. StringPart.what = ".shstrtab" /\ SegmentsPart.what = "phdrs" /\ Header.what = "ehdr"
    BY <1>4 DEF StringPart, SegmentsPart, Header
  <2>4. \A n \in 1 .. phnum : SectionPart(n).what = Present[n] /\ Present[n] \in Sections
    BY <1>4, PresentOrder DEF SectionPart
  <2>5. ~(j \in 1 .. phnum /\ k \in 1 .. phnum /\ Parts[j] = SectionPart(j)
            /\ Parts[k] = SectionPart(k))
    <3> SUFFICES ASSUME j \in 1 .. phnum, k \in 1 .. phnum, Parts[j] = SectionPart(j),
                        Parts[k] = SectionPart(k)
                 PROVE  FALSE
      OBVIOUS
    <3>1. Present[j] = "SEC_TEXT" /\ Present[k] = "SEC_DATA"
      BY PresentOrder
    <3> QED
      BY <1>6, <2>4, <3>1
  <2>6. ~(Parts[j] = StringPart /\ Parts[k] = StringPart /\ j = phnum + 1 /\ k = phnum + 1)
    BY <1>1
  <2>7. PICK n \in 1 .. shnum, m \in 1 .. shnum :
          /\ j = Leading + n /\ Parts[j] = HeaderPart(n)
          /\ k = Leading + m /\ Parts[k] = HeaderPart(m)
    <3>1. \/ j \in 1 .. phnum /\ Parts[j] = SectionPart(j)
          \/ j = phnum + 1 /\ Parts[j] = StringPart
          \/ phnum > 0 /\ j = phnum + 2 /\ Parts[j] = SegmentsPart
          \/ \E n \in 1 .. shnum : j = Leading + n /\ Parts[j] = HeaderPart(n)
          \/ j = Len(Parts) /\ Parts[j] = Header
      BY PartKinds
    <3>2. \/ k \in 1 .. phnum /\ Parts[k] = SectionPart(k)
          \/ k = phnum + 1 /\ Parts[k] = StringPart
          \/ phnum > 0 /\ k = phnum + 2 /\ Parts[k] = SegmentsPart
          \/ \E n \in 1 .. shnum : k = Leading + n /\ Parts[k] = HeaderPart(n)
          \/ k = Len(Parts) /\ Parts[k] = Header
      BY PartKinds
    <3>3. \A n \in 1 .. phnum : SectionPart(n).what \notin {".shstrtab", "phdrs", "ehdr", "shdr"}
      BY <2>4 DEF Sections
    <3>4. j # k
      OBVIOUS
    <3> QED
      BY <1>6, <2>2, <2>3, <2>5, <3>1, <3>2, <3>3, <3>4
  <2>8. n < m
    <3>1. Leading \in Nat
      BY <1>1 DEF Leading
    <3> QED
      BY <2>7, <3>1
  <2> QED
    BY <2>1, <2>7, <2>8
<1> QED
  BY <1>5, <1>6

-----------------------------------------------------------------------------
(***************************************************************************)
(* The string table.                                                       *)
(***************************************************************************)

\* Which names it has: the empty one, those of the sections that have bytes, its own.
LEMMA NamesAt ==
  ASSUME out_len \in [Sections -> Nat]
  PROVE  /\ phnum \in 0 .. 2 /\ Len(Names) = phnum + 2 /\ DOMAIN Names = 1 .. phnum + 2
         /\ Names[phnum + 2] = ".shstrtab"
         /\ \A n \in 1 .. phnum : Names[n + 1] = Present[n]
         /\ \A n, m \in 1 .. phnum + 2 : Names[n] = Names[m] => n = m
<1> DEFINE empty == ""
           N == {empty, "SEC_TEXT", "SEC_DATA", ".shstrtab"}
           A == <<empty>>
           B == <<".shstrtab">>
           AP == A \o Present
<1>1. /\ phnum \in 0 .. 2 /\ Len(Names) = phnum + 2 /\ Len(Present) = phnum
      /\ Present \in Seq(Sections)
  BY PresentType DEF phnum
<1>2. empty \notin {"SEC_TEXT", "SEC_DATA", ".shstrtab"}
  BY Zenon
<1>3. Names = <<empty>> \o Present \o B
  BY DEF Names
<1> HIDE DEF empty
<1>4. A \in Seq(N) /\ B \in Seq(N) /\ Len(A) = 1 /\ Len(B) = 1
      /\ A[1] = empty /\ B[1] = ".shstrtab"
  OBVIOUS
<1>5. Present \in Seq(N)
  <2>1. Sections \subseteq N
    BY DEF Sections
  <2> HIDE DEF N
  <2> QED
    BY <1>1, <2>1
<1>6. Names = AP \o B
  BY <1>3
<1> HIDE DEF N, A, B
<1>7. /\ AP \in Seq(N) /\ Len(AP) = phnum + 1 /\ AP[1] = empty
      /\ \A n \in 1 .. phnum : AP[n + 1] = Present[n]
  <2>1. /\ AP \in Seq(N) /\ Len(AP) = Len(A) + Len(Present)
        /\ \A k \in 1 .. Len(A) : AP[k] = A[k]
        /\ \A k \in 1 .. Len(Present) : AP[Len(A) + k] = Present[k]
    <3>1. A \in Seq(N) /\ Present \in Seq(N)
      BY <1>4, <1>5
    <3> QED
      BY <3>1, ConcatAt
  <2> HIDE DEF AP
  <2>2. Len(A) = 1 /\ A[1] = empty /\ Len(Present) = phnum /\ phnum \in 0 .. 2
    BY <1>1, <1>4
  <2>3. /\ Len(AP) = Len(A) + Len(Present)
        /\ \A k \in 1 .. Len(A) : AP[k] = A[k]
        /\ \A k \in 1 .. Len(Present) : AP[Len(A) + k] = Present[k]
    BY <2>1
  <2>4. AP[1] = empty /\ Len(AP) = phnum + 1
    BY <2>2, <2>3
  <2>5. \A n \in 1 .. phnum : AP[1 + n] = Present[n] /\ 1 + n = n + 1
    BY <2>2, <2>3
  <2>6. \A n \in 1 .. phnum : AP[n + 1] = Present[n]
    BY <2>5
  <2> QED
    BY <2>1, <2>4, <2>6
<1> HIDE DEF AP
<1>8. /\ Names \in Seq(N)
      /\ \A k \in 1 .. phnum + 1 : Names[k] = AP[k]
      /\ Names[phnum + 2] = ".shstrtab"
  <2>1. /\ Names \in Seq(N)
        /\ \A k \in 1 .. Len(AP) : Names[k] = AP[k]
        /\ \A k \in 1 .. Len(B) : Names[Len(AP) + k] = B[k]
    <3>1. AP \in Seq(N) /\ B \in Seq(N)
      BY <1>4, <1>7
    <3> QED
      BY <1>6, <3>1, ConcatAt
  <2>2. 1 \in 1 .. Len(B) /\ Len(AP) + 1 = phnum + 2
    <3>1. Len(B) = 1 /\ Len(AP) = phnum + 1 /\ phnum \in 0 .. 2
      BY <1>1, <1>4, <1>7
    <3> QED
      BY <3>1
  <2>3. Names[Len(AP) + 1] = ".shstrtab"
    BY <1>4, <2>1, <2>2
  <2> QED
    BY <1>7, <2>1, <2>2, <2>3
<1>9. Names[1] = empty /\ \A n \in 1 .. phnum : Names[n + 1] = Present[n]
  <2>1. 1 \in 1 .. phnum + 1 /\ \A n \in 1 .. phnum : n + 1 \in 1 .. phnum + 1
    BY <1>1
  <2> QED
    BY <1>7, <1>8, <2>1
<1>10. \A n, m \in 1 .. phnum + 2 : n < m => Names[n] # Names[m]
  <2> TAKE n, m \in 1 .. phnum + 2
  <2> HAVE n < m
  <2>1. /\ \A k \in 1 .. phnum : Present[k] \in Sections
        /\ \A j, k \in 1 .. phnum : j < k => Present[j] = "SEC_TEXT" /\ Present[k] = "SEC_DATA"
    BY PresentOrder
  <2>2. \/ n = 1
        \/ n - 1 \in 1 .. phnum /\ Names[n] = Present[n - 1]
    <3>1. n = 1 \/ (n - 1 \in 1 .. phnum /\ (n - 1) + 1 = n)
      BY <1>1
    <3> QED
      BY <1>9, <3>1
  <2>3. \/ m = phnum + 2
        \/ m - 1 \in 1 .. phnum /\ Names[m] = Present[m - 1]
    <3>1. m = phnum + 2 \/ (m - 1 \in 1 .. phnum /\ (m - 1) + 1 = m)
      BY <1>1
    <3> QED
      BY <1>9, <3>1
  <2>4. n - 1 < m - 1
    BY <1>1
  <2> QED
    BY <1>8, <1>9, <1>2, <2>1, <2>2, <2>3, <2>4 DEF Sections
<1>11. \A n, m \in 1 .. phnum + 2 : Names[n] = Names[m] => n = m
  <2> TAKE n, m \in 1 .. phnum + 2
  <2>1. n < m \/ m < n \/ n = m
    BY <1>1
  <2> QED
    BY <1>10, <2>1
<1>12. DOMAIN Names = 1 .. Len(Names)
  BY <1>8
<1> QED
  BY <1>1, <1>8, <1>9, <1>11, <1>12

\* Unless an append failed, each name is found where its header says.
LEMMA NamesFound ==
  ASSUME out_len \in [Sections -> Nat], lost = 0, NEW n \in 1 .. phnum + 2
  PROVE  /\ sh_name(Names[n]) \in DOMAIN Stored
         /\ Stored[sh_name(Names[n])] = Names[n]
<1>1. /\ phnum \in 0 .. 2 /\ Len(Names) = phnum + 2 /\ DOMAIN Names = 1 .. phnum + 2
      /\ \A j, k \in 1 .. phnum + 2 : Names[j] = Names[k] => j = k
  BY NamesAt
<1>2. \A j, k \in 1 .. phnum + 2 : StrLen(j - 1) = StrLen(k - 1) => j = k
  <2>1. \A j \in 1 .. phnum + 2 :
          StrLen(j - 1) = IF j = 1 THEN 0 ELSE 6 * (j - 1) - 5
    BY <1>1 DEF StrLen, NameBytes
  <2> QED
    BY <1>1, <2>1
<1>3. sh_name(Names[n]) = StrLen(n - 1)
  <2>1. (CHOOSE k \in DOMAIN Names : Names[k] = Names[n]) = n
    BY <1>1
  <2> QED
    BY <2>1 DEF sh_name
<1>4. lost + 1 .. Len(Names) = 1 .. phnum + 2
  BY <1>1
<1>5. (CHOOSE k \in 1 .. phnum + 2 : StrLen(k - 1) = StrLen(n - 1)) = n
  BY <1>2
<1>6. StrLen(n - 1) \in {StrLen(k - 1) : k \in 1 .. phnum + 2}
  OBVIOUS
<1> QED
  BY <1>3, <1>4, <1>5, <1>6 DEF Stored

-----------------------------------------------------------------------------
(***************************************************************************)
(* What can be read back from the file.                                    *)
(***************************************************************************)

\* A file that has the ELF header has every part.
LEMMA HeaderIsLast ==
  ASSUME OutputInv, FileHeaders # {}
  PROVE  /\ cfg \in Options /\ out_len \in [Sections -> Nat] /\ lost \in 0 .. 4
         /\ DOMAIN file = 1 .. Len(Parts) /\ \A k \in DOMAIN file : file[k] = Parts[k]
         /\ FileHeaders = {Header.body}
<1>1. cfg \in Options /\ out_len \in [Sections -> Nat] /\ lost \in 0 .. 4
  BY TypeParts
  DEF OutputInv, DeliveryInv, TypeInv, TypeOK1, GlobalsTypeOK, Pass2Types, ElfTypes
<1>2. /\ DOMAIN file = 1 .. Len(file) /\ Len(file) \in Nat
      /\ \A k \in 1 .. Len(file) : file[k] = Parts[k]
      /\ Len(file) <= Len(Parts)
  BY TypeParts DEF OutputInv, DeliveryInv, TypeInv, FileInProgress, FileIsPlan
<1>3. PICK k \in 1 .. Len(file) : file[k].what = "ehdr"
  BY <1>2 DEF FileHeaders, PartsOf
<1>4. /\ phnum \in 0 .. 2 /\ shnum = phnum + 2 /\ Len(Parts) = Leading + shnum + 1
      /\ Parts[Len(Parts)] = Header
  BY <1>1, PartsAt
<1>5. Leading \in Nat /\ Len(Parts) \in Nat
  BY <1>4 DEF Leading
<1>6. \A j \in 1 .. Len(Parts) : Parts[j].what = "ehdr" => j = Len(Parts)
  <2> SUFFICES ASSUME NEW j \in 1 .. Len(Parts), Parts[j].what = "ehdr"
               PROVE  j = Len(Parts)
    OBVIOUS
  <2>1. \A n \in 1 .. phnum : Present[n] # "ehdr"
    BY <1>1, PresentOrder DEF Sections
  <2>2. /\ \A n \in 1 .. phnum : SectionPart(n).what # "ehdr"
        /\ StringPart.what # "ehdr" /\ SegmentsPart.what # "ehdr"
        /\ \A n : HeaderPart(n).what # "ehdr"
    BY <2>1 DEF SectionPart, StringPart, SegmentsPart, HeaderPart, Part
  <2>3. \/ j \in 1 .. phnum /\ Parts[j] = SectionPart(j)
        \/ j = phnum + 1 /\ Parts[j] = StringPart
        \/ phnum > 0 /\ j = phnum + 2 /\ Parts[j] = SegmentsPart
        \/ \E n \in 1 .. shnum : j = Leading + n /\ Parts[j] = HeaderPart(n)
        \/ j = Len(Parts) /\ Parts[j] = Header
    BY <1>1, PartKinds
  <2> QED
    BY <2>2, <2>3
<1>7. Len(file) = Len(Parts)
  <2>1. k \in 1 .. Len(Parts) /\ Parts[k].what = "ehdr"
    BY <1>2, <1>3, <1>5
  <2>2. k = Len(Parts)
    BY <1>6, <2>1
  <2>3. \A a, b \in Nat : a <= b /\ b \in 1 .. a => a = b
    OBVIOUS
  <2>4. Len(Parts) \in 1 .. Len(file)
    BY <2>2
  <2> QED
    BY <1>2, <1>5, <2>3, <2>4
<1>8. FileHeaders = {Header.body}
  <2>1. Header.what = "ehdr"
    BY DEF Header, Part
  <2>2. Len(Parts) \in 1 .. Len(file)
    BY <1>4, <1>5, <1>7
  <2>3. PartsOf("ehdr") = {Len(Parts)}
    BY <1>2, <1>4, <1>6, <1>7, <2>1, <2>2 DEF PartsOf
  <2>4. file[Len(Parts)] = Header
    BY <1>2, <1>4, <2>2
  <2> QED
    BY <2>3, <2>4 DEF FileHeaders
<1> QED
  BY <1>1, <1>2, <1>7, <1>8

\* A part of the plan is in the file where the plan has it.
LEMMA PlannedInFile ==
  ASSUME DOMAIN file = 1 .. Len(Parts), \A k \in DOMAIN file : file[k] = Parts[k],
         NEW k \in 1 .. Len(Parts), NEW what, NEW off, NEW len, NEW body,
         Parts[k] = Part(what, off, len, body)
  PROVE  InFile(what, off, len)
<1>1. file[k].what = what /\ file[k].off = off /\ file[k].len = len
  BY DEF Part
<1> QED
  BY <1>1 DEF InFile

\* What each header refers to is there.
LEMMA HeadersTrue ==
  ASSUME OutputInv, FileHeaders # {}
  PROVE  /\ InFile("ehdr", 0, ehdr_sz)
         /\ phnum > 0 => InFile("phdrs", ehdr_sz, phnum * phdr_sz)
         /\ \A n \in 1 .. shnum : InFile("shdr", shoff + (n - 1) * shdr_sz, shdr_sz)
         /\ \A n \in 1 .. phnum : InFile(Present[n], Offset(Present[n]), out_len[Present[n]])
         /\ InFile(".shstrtab", shstr_off, StrLen(Len(Names)))
<1>1. /\ cfg \in Options /\ out_len \in [Sections -> Nat] /\ lost \in 0 .. 4
      /\ DOMAIN file = 1 .. Len(Parts) /\ \A k \in DOMAIN file : file[k] = Parts[k]
  BY HeaderIsLast
<1>2. /\ phnum \in 0 .. 2 /\ shnum = phnum + 2 /\ Len(Parts) = Leading + shnum + 1
      /\ \A n \in 1 .. phnum : Parts[n] = SectionPart(n)
      /\ Parts[phnum + 1] = StringPart
      /\ phnum > 0 => Parts[phnum + 2] = SegmentsPart
      /\ \A n \in 1 .. shnum : Parts[Leading + n] = HeaderPart(n)
      /\ Parts[Len(Parts)] = Header
  BY <1>1, PartsAt
<1>3. /\ Len(Parts) \in 1 .. Len(Parts) /\ phnum + 1 \in 1 .. Len(Parts)
      /\ phnum > 0 => phnum + 2 \in 1 .. Len(Parts)
      /\ \A n \in 1 .. shnum : Leading + n \in 1 .. Len(Parts)
      /\ \A n \in 1 .. phnum : n \in 1 .. Len(Parts)
  BY <1>2 DEF Leading
<1>4. InFile("ehdr", 0, ehdr_sz)
  BY <1>1, <1>2, <1>3, PlannedInFile DEF Header
<1>5. phnum > 0 => InFile("phdrs", ehdr_sz, phnum * phdr_sz)
  BY <1>1, <1>2, <1>3, PlannedInFile DEF SegmentsPart
<1>6. ASSUME NEW n \in 1 .. shnum
      PROVE  InFile("shdr", shoff + (n - 1) * shdr_sz, shdr_sz)
  <2>1. \E b : Parts[Leading + n] = Part("shdr", shoff + (n - 1) * shdr_sz, shdr_sz, b)
    BY <1>2 DEF HeaderPart
  <2> QED
    BY <1>1, <1>3, <2>1, PlannedInFile
<1>7. ASSUME NEW n \in 1 .. phnum
      PROVE  InFile(Present[n], Offset(Present[n]), out_len[Present[n]])
  BY <1>1, <1>2, <1>3, PlannedInFile DEF SectionPart
<1>8. InFile(".shstrtab", shstr_off, StrLen(Len(Names)))
  BY <1>1, <1>2, <1>3, PlannedInFile DEF StringPart
<1> QED
  BY <1>4, <1>5, <1>6, <1>7, <1>8

\* The n-th section header tells the name of what it is about.
LEMMA HeadersNamed ==
  ASSUME OutputInv, FileHeaders # {}, lost = 0, NEW n \in 2 .. phnum + 2, NEW sh,
         sh.name = sh_name(Names[n])
  PROVE  NameOf(sh) = Names[n]
<1>1. /\ cfg \in Options /\ out_len \in [Sections -> Nat] /\ lost \in 0 .. 4
      /\ DOMAIN file = 1 .. Len(Parts) /\ \A k \in DOMAIN file : file[k] = Parts[k]
  BY HeaderIsLast
<1>2. /\ phnum \in 0 .. 2 /\ shnum = phnum + 2 /\ Len(Parts) = Leading + shnum + 1
      /\ Parts[phnum + 1] = StringPart
  BY <1>1, PartsAt
<1>3. phnum + 1 \in 1 .. Len(Parts)
  BY <1>2 DEF Leading
<1>4. \A p \in {file[k] : k \in PartsOf(".shstrtab")} : p = StringPart
  <2> SUFFICES ASSUME NEW k \in 1 .. Len(Parts), Parts[k].what = ".shstrtab"
               PROVE  Parts[k] = StringPart
    BY <1>1 DEF PartsOf
  <2>1. \A m \in 1 .. phnum : Present[m] # ".shstrtab"
    BY <1>1, PresentOrder DEF Sections
  <2>2. /\ \A m \in 1 .. phnum : SectionPart(m).what # ".shstrtab"
        /\ SegmentsPart.what # ".shstrtab" /\ Header.what # ".shstrtab"
        /\ \A m : HeaderPart(m).what # ".shstrtab"
    BY <2>1 DEF SectionPart, Header, SegmentsPart, HeaderPart, Part
  <2>3. \/ k \in 1 .. phnum /\ Parts[k] = SectionPart(k)
        \/ k = phnum + 1 /\ Parts[k] = StringPart
        \/ phnum > 0 /\ k = phnum + 2 /\ Parts[k] = SegmentsPart
        \/ \E m \in 1 .. shnum : k = Leading + m /\ Parts[k] = HeaderPart(m)
        \/ k = Len(Parts) /\ Parts[k] = Header
    BY <1>1, PartKinds
  <2> QED
    BY <2>2, <2>3
<1>5. StringPart \in {file[k] : k \in PartsOf(".shstrtab")}
  <2>1. StringPart.what = ".shstrtab"
    BY DEF StringPart, Part
  <2> QED
    BY <1>1, <1>2, <1>3, <2>1 DEF PartsOf
<1>6. (CHOOSE p \in {file[k] : k \in PartsOf(".shstrtab")} : TRUE) = StringPart
  BY <1>4, <1>5
<1>7. StringPart.body = Stored
  BY DEF StringPart, Part
<1>8. sh.name \in DOMAIN Stored /\ Stored[sh.name] = Names[n]
  <2>1. n \in 1 .. phnum + 2
    BY <1>2
  <2> QED
    BY <1>1, <2>1, NamesFound
<1> QED
  BY <1>6, <1>7, <1>8, Zenon DEF NameOf

\* What is read back from a file that has the ELF header is what out_finish
\* (src/out.c) put into it: whatever the sections' sizes and the page size, everything
\* the headers refer to is where they say, under its name unless that was lost, and no
\* part was written over another, also when a later write failed.
THEOREM FileReadsBack == Spec => [](FileFits => ReadsBack)
<1>1. ASSUME OutputInv, FileFits
      PROVE  ReadsBack
  <2> SUFFICES ASSUME FileHeaders # {}
               PROVE  LET eh == Header.body
                      IN /\ \A j, k \in DOMAIN file : j < k => Apart(file[j], file[k])
                         /\ InFile("ehdr", 0, ehdr_sz)
                         /\ eh.phnum > 0 => InFile("phdrs", eh.phoff, eh.phnum * phdr_sz)
                         /\ \A n \in 0 .. eh.shnum - 1 :
                              InFile("shdr", eh.shoff + n * shdr_sz, shdr_sz)
                         /\ \A seg \in Segments :
                              InFile(IF seg.exec THEN "SEC_TEXT" ELSE "SEC_DATA",
                                     seg.offset, seg.filesz)
                         /\ \A k \in PartsOf("shdr") :
                              LET sh == file[k].body
                                  n == (file[k].off - eh.shoff) \div shdr_sz
                              IN n > 0 =>
                                   \E what \in Sections \cup {".shstrtab"} :
                                     /\ InFile(what, sh.offset, sh.size)
                                     /\ n = eh.shstrndx <=> what = ".shstrtab"
                                     /\ lost = 0 => NameOf(sh) = what
    BY <1>1, HeaderIsLast DEF ReadsBack, Apart
  <2> DEFINE eh == Header.body
  <2>1. /\ cfg \in Options /\ out_len \in [Sections -> Nat] /\ lost \in 0 .. 4
        /\ DOMAIN file = 1 .. Len(Parts) /\ \A k \in DOMAIN file : file[k] = Parts[k]
    BY <1>1, HeaderIsLast
  <2>2. /\ phnum \in 0 .. 2 /\ shnum = phnum + 2
        /\ shoff \in Nat /\ shdr_sz \in {40, 64}
    BY <2>1, PartsAt, PlanTypes DEF shdr_sz
  <2>3. /\ eh.phnum = phnum /\ eh.shnum = shnum /\ eh.shoff = shoff
        /\ eh.shstrndx = shnum - 1 /\ (phnum > 0 => eh.phoff = ehdr_sz)
    BY DEF Header, Part
  <2> HIDE DEF eh
  <2>4. \A j, k \in DOMAIN file : j < k => Apart(file[j], file[k])
    BY <1>1, <2>1, PartsApart
  <2>5. InFile("ehdr", 0, ehdr_sz)
    BY <1>1, HeadersTrue
  <2>6. eh.phnum > 0 => InFile("phdrs", eh.phoff, eh.phnum * phdr_sz)
    BY <1>1, <2>3, HeadersTrue
  <2>7. ASSUME NEW n \in 0 .. eh.shnum - 1
        PROVE  InFile("shdr", eh.shoff + n * shdr_sz, shdr_sz)
    <3>1. n + 1 \in 1 .. shnum /\ (n + 1) - 1 = n
      BY <2>2, <2>3
    <3> QED
      BY <1>1, <2>3, <3>1, HeadersTrue
  <2>8. ASSUME NEW k \in 1 .. Len(Parts)
        PROVE  /\ Parts[k].what = "phdrs" => Parts[k] = SegmentsPart
               /\ Parts[k].what = "shdr" => \E m \in 1 .. shnum : Parts[k] = HeaderPart(m)
    <3>1. \A m \in 1 .. phnum : Present[m] \notin {"phdrs", "shdr"}
      BY <2>1, PresentOrder DEF Sections
    <3>2. /\ \A m \in 1 .. phnum : SectionPart(m).what \notin {"phdrs", "shdr"}
          /\ SegmentsPart.what = "phdrs" /\ Header.what = "ehdr"
          /\ StringPart.what = ".shstrtab"
          /\ \A m : HeaderPart(m).what = "shdr"
      BY <3>1 DEF SectionPart, Header, SegmentsPart, HeaderPart, StringPart, Part
    <3>3. \/ k \in 1 .. phnum /\ Parts[k] = SectionPart(k)
          \/ k = phnum + 1 /\ Parts[k] = StringPart
          \/ phnum > 0 /\ k = phnum + 2 /\ Parts[k] = SegmentsPart
          \/ \E m \in 1 .. shnum : k = Leading + m /\ Parts[k] = HeaderPart(m)
          \/ k = Len(Parts) /\ Parts[k] = Header
      BY <2>1, PartKinds
    <3> QED
      BY <3>2, <3>3
  <2>9. ASSUME NEW seg \in Segments
        PROVE  InFile(IF seg.exec THEN "SEC_TEXT" ELSE "SEC_DATA", seg.offset, seg.filesz)
    <3>1. PICK n \in 1 .. phnum : seg = Segment(Present[n])
      <4>1. PICK k \in PartsOf("phdrs") : \E n \in DOMAIN file[k].body : seg = file[k].body[n]
        BY DEF Segments
      <4>2. file[k] = SegmentsPart
        BY <2>1, <2>8 DEF PartsOf
      <4>3. SegmentsPart.body = [m \in 1 .. phnum |-> Segment(Present[m])]
        BY DEF SegmentsPart, Part
      <4> QED
        BY <4>1, <4>2, <4>3
    <3>2. Present[n] = IF seg.exec THEN "SEC_TEXT" ELSE "SEC_DATA"
      BY <2>1, <3>1, PresentOrder DEF Segment, Sections
    <3>3. seg.offset = Offset(Present[n]) /\ seg.filesz = out_len[Present[n]]
      BY <3>1 DEF Segment
    <3> QED
      BY <1>1, <3>2, <3>3, HeadersTrue
  <2>10. ASSUME NEW k \in PartsOf("shdr"), (file[k].off - eh.shoff) \div shdr_sz > 0
         PROVE  \E what \in Sections \cup {".shstrtab"} :
                  /\ InFile(what, file[k].body.offset, file[k].body.size)
                  /\ (file[k].off - eh.shoff) \div shdr_sz = eh.shstrndx <=> what = ".shstrtab"
                  /\ lost = 0 => NameOf(file[k].body) = what
    <3>1. PICK m \in 1 .. shnum : file[k] = HeaderPart(m)
      BY <2>1, <2>8 DEF PartsOf
    <3>2. (file[k].off - eh.shoff) \div shdr_sz = m - 1
      <4>1. file[k].off = shoff + (m - 1) * shdr_sz
        BY <3>1 DEF HeaderPart, Part
      <4>2. \A d \in {40, 64} : ((shoff + (m - 1) * d) - shoff) \div d = m - 1
        BY <2>2
      <4> QED
        BY <2>2, <2>3, <4>1, <4>2
    <3>3. m \in 2 .. phnum + 2
      BY <2>2, <2>10, <3>2
    <3>4. /\ out_len \in [Sections -> Nat] /\ Names[phnum + 2] = ".shstrtab"
          /\ \A n \in 1 .. phnum : Names[n + 1] = Present[n]
      BY <2>1, NamesAt
    <3>5. CASE m = shnum
      <4>1. file[k].body = SectionHeader(sh_name(".shstrtab"), 0, shstr_off, StrLen(Len(Names)))
        BY <2>2, <3>1, <3>3, <3>5 DEF HeaderPart, Part
      <4>2. /\ file[k].body.name = sh_name(Names[m]) /\ Names[m] = ".shstrtab"
            /\ file[k].body.offset = shstr_off /\ file[k].body.size = StrLen(Len(Names))
        BY <2>2, <3>4, <3>5, <4>1 DEF SectionHeader
      <4>3. lost = 0 => NameOf(file[k].body) = ".shstrtab"
        BY <1>1, <3>3, <4>2, HeadersNamed
      <4> QED
        BY <1>1, <2>3, <3>2, <3>5, <4>2, <4>3, HeadersTrue
    <3>6. CASE m # shnum
      <4>1. m - 1 \in 1 .. phnum /\ (m - 1) + 1 = m /\ m - 1 # shnum - 1
        BY <2>2, <3>3, <3>6
      <4> DEFINE s == Present[m - 1]
      <4>2. file[k].body = SectionHeader(sh_name(s), Base(s), Offset(s), out_len[s])
        BY <2>2, <3>1, <3>3, <3>6 DEF HeaderPart, Part
      <4>3. s \in Sections
        BY <2>1, <4>1, PresentOrder
      <4>4. /\ file[k].body.name = sh_name(Names[m]) /\ Names[m] = s
            /\ file[k].body.offset = Offset(s) /\ file[k].body.size = out_len[s]
        BY <3>4, <4>1, <4>2 DEF SectionHeader
      <4>5. InFile(s, Offset(s), out_len[s])
        BY <1>1, <4>1, HeadersTrue
      <4> HIDE DEF s
      <4>6. lost = 0 => NameOf(file[k].body) = s
        BY <1>1, <3>3, <4>4, HeadersNamed
      <4>7. s # ".shstrtab"
        BY <4>3 DEF Sections
      <4>8. (file[k].off - eh.shoff) \div shdr_sz # eh.shstrndx
        BY <2>3, <3>2, <4>1
      <4> QED
        BY <4>3, <4>4, <4>5, <4>6, <4>7, <4>8
    <3> QED
      BY <3>5, <3>6
  <2> QED
    BY <2>4, <2>5, <2>6, <2>7, <2>9, <2>10 DEF eh
<1> QED
  BY <1>1, OutputInvariant, PTL

-----------------------------------------------------------------------------
(***************************************************************************)
(* What a loader maps.                                                     *)
(***************************************************************************)

\* The segments are those of the sections that have bytes.
LEMMA SegmentsAre ==
  ASSUME OutputInv, FileHeaders # {}
  PROVE  /\ \A seg \in Segments : \E n \in 1 .. phnum : seg = Segment(Present[n])
         /\ \A n \in 1 .. phnum : Segment(Present[n]) \in Segments
<1>1. /\ cfg \in Options /\ out_len \in [Sections -> Nat] /\ lost \in 0 .. 4
      /\ DOMAIN file = 1 .. Len(Parts) /\ \A k \in DOMAIN file : file[k] = Parts[k]
  BY HeaderIsLast
<1>2. /\ phnum \in 0 .. 2 /\ shnum = phnum + 2 /\ Len(Parts) = Leading + shnum + 1
      /\ phnum > 0 => Parts[phnum + 2] = SegmentsPart
  BY <1>1, PartsAt
<1>3. /\ SegmentsPart.body = [m \in 1 .. phnum |-> Segment(Present[m])]
      /\ SegmentsPart.what = "phdrs"
  BY DEF SegmentsPart, Part
<1>4. ASSUME NEW k \in PartsOf("phdrs")
      PROVE  file[k] = SegmentsPart
  <2>1. k \in 1 .. Len(Parts) /\ Parts[k].what = "phdrs" /\ file[k] = Parts[k]
    BY <1>1, <1>4 DEF PartsOf
  <2>2. \A m \in 1 .. phnum : Present[m] # "phdrs"
    BY <1>1, PresentOrder DEF Sections
  <2>3. /\ \A m \in 1 .. phnum : SectionPart(m).what # "phdrs"
        /\ StringPart.what # "phdrs" /\ Header.what # "phdrs"
        /\ \A m : HeaderPart(m).what # "phdrs"
    BY <2>2 DEF SectionPart, Header, StringPart, HeaderPart, Part
  <2>4. \/ k \in 1 .. phnum /\ Parts[k] = SectionPart(k)
        \/ k = phnum + 1 /\ Parts[k] = StringPart
        \/ phnum > 0 /\ k = phnum + 2 /\ Parts[k] = SegmentsPart
        \/ \E m \in 1 .. shnum : k = Leading + m /\ Parts[k] = HeaderPart(m)
        \/ k = Len(Parts) /\ Parts[k] = Header
    BY <1>1, <2>1, PartKinds
  <2> QED
    BY <2>1, <2>3, <2>4
<1>5. ASSUME NEW seg \in Segments
      PROVE  \E n \in 1 .. phnum : seg = Segment(Present[n])
  <2>1. PICK k \in PartsOf("phdrs") : \E n \in DOMAIN file[k].body : seg = file[k].body[n]
    BY DEF Segments
  <2> QED
    BY <1>3, <1>4, <2>1, ZenonT(60)
<1>6. ASSUME NEW n \in 1 .. phnum
      PROVE  Segment(Present[n]) \in Segments
  <2>1. phnum + 2 \in 1 .. Len(Parts) /\ phnum > 0
    BY <1>2 DEF Leading
  <2>2. phnum + 2 \in PartsOf("phdrs") /\ file[phnum + 2] = SegmentsPart
    BY <1>1, <1>2, <1>3, <2>1 DEF PartsOf
  <2>3. /\ n \in DOMAIN file[phnum + 2].body
        /\ file[phnum + 2].body[n] = Segment(Present[n])
    BY <1>3, <2>2
  <2> QED
    BY <2>2, <2>3 DEF Segments
<1> QED
  BY <1>5, <1>6

\* A byte that was written for an entry is mapped to the address of its section
\* plus its offset there, from the one place of the file where it is: what is loaded
\* is what was assembled, for every page size, every pair of bases and every pair of
\* section sizes that fit.
THEOREM ImageIsLoaded == Spec => [](FileFits => MemoryIsImage)
<1>1. ASSUME OutputInv, FileFits
      PROVE  MemoryIsImage
  <2> SUFFICES ASSUME text_size <= DataBase - TextBase, FileHeaders # {},
                      NEW k \in DOMAIN chunks,
                      NEW b \in chunks[k].pos .. chunks[k].pos + chunks[k].size - 1
               PROVE  LET s == chunks[k].sect
                      IN \E off \in OffsetsAt(Base(s) + b) :
                           /\ OffsetsAt(Base(s) + b) = {off}
                           /\ {n \in DOMAIN file : file[n].off <= off /\ off < file[n].off + file[n].len}
                                = {n \in PartsOf(s) : off - file[n].off = b}
                           /\ PartsOf(s) # {}
    BY DEF MemoryIsImage
  <2> DEFINE s == chunks[k].sect
             off == Offset(s) + b
  <2>1. /\ cfg \in Options /\ out_len \in [Sections -> Nat] /\ lost \in 0 .. 4
        /\ DOMAIN file = 1 .. Len(Parts) /\ \A n \in DOMAIN file : file[n] = Parts[n]
    BY <1>1, HeaderIsLast
  <2>2. s \in Sections /\ b \in Nat /\ b < out_len[s]
    <3>1. chunks[k] \in Chunk
      BY <1>1, ChunksType DEF OutputInv, DeliveryInv
    <3>2. chunks[k].pos + chunks[k].size <= out_len[s]
      BY <1>1 DEF OutputInv, Behind
    <3>3. s \in Sections /\ chunks[k].pos \in Nat /\ chunks[k].size \in Nat
      BY <3>1 DEF Chunk
    <3>4. out_len[s] \in Nat
      BY <2>1, <3>3
    <3> HIDE DEF s
    <3> QED
      BY <3>2, <3>3, <3>4
  <2> HIDE DEF s
  <2>3. PICK m \in 1 .. phnum : Present[m] = s
    BY <2>1, <2>2, PresentHolds
  <2>4. /\ text_off \in Nat /\ data_off \in Nat /\ text_size \in Nat /\ data_size \in Nat
        /\ Offset(s) \in Nat /\ Base(s) \in Nat /\ out_len[s] \in Nat
        /\ Offset(s) % PageSize = Base(s) % PageSize
    <3>1. /\ text_off \in Nat /\ data_off \in Nat /\ text_size \in Nat /\ data_size \in Nat
          /\ text_off % PageSize = 0 /\ data_off % PageSize = 0
      BY <1>1, <2>1, PlanTypes, Breakpoints
    <3> QED
      BY <2>1, <2>2, <3>1, BaseAssumption DEF Offset, Base
  <2>5. OffsetsAt(Base(s) + b) = {off}
    <3>1. /\ Segment(s) \in Segments
          /\ \A seg \in Segments : \E t \in Sections : seg = Segment(t)
      BY <1>1, <2>1, <2>3, SegmentsAre, PresentOrder
    <3>2. \A t \in Sections : /\ Segment(t).vaddr = Base(t) /\ Segment(t).offset = Offset(t)
                              /\ Segment(t).filesz = out_len[t]
      BY DEF Segment
    <3>3. \A t \in Sections :
            Base(t) <= Base(s) + b /\ Base(s) + b < Base(t) + out_len[t] => t = s
      BY <2>2, <2>4, BaseAssumption DEF Base, Sections, text_size
    <3>4. /\ Segment(s).vaddr <= Base(s) + b
          /\ Base(s) + b < Segment(s).vaddr + Segment(s).filesz
          /\ Segment(s).vaddr % PageSize = Segment(s).offset % PageSize
          /\ Segment(s).offset + ((Base(s) + b) - Segment(s).vaddr) = off
      <4>1. Offset(s) + ((Base(s) + b) - Base(s)) = off
        BY <2>2, <2>4
      <4> HIDE DEF off
      <4> QED
        BY <2>2, <2>4, <3>2, <4>1
    <3> HIDE DEF off
    <3>5. {seg \in Segments : /\ seg.vaddr <= Base(s) + b
                              /\ Base(s) + b < seg.vaddr + seg.filesz
                              /\ seg.vaddr % PageSize = seg.offset % PageSize} = {Segment(s)}
      BY <3>1, <3>2, <3>3, <3>4
    <3> QED
      BY <3>4, <3>5, Zenon DEF OffsetsAt
  <2>6. /\ m \in DOMAIN file /\ file[m].what = s /\ file[m].off = Offset(s)
        /\ file[m].len = out_len[s]
    <3>1. /\ phnum \in 0 .. 2 /\ shnum = phnum + 2 /\ Len(Parts) = Leading + shnum + 1
          /\ Parts[m] = SectionPart(m)
      BY <2>1, PartsAt
    <3>2. m \in 1 .. Len(Parts)
      BY <3>1 DEF Leading
    <3> QED
      BY <2>1, <2>3, <3>1, <3>2 DEF SectionPart, Part
  <2>7. ASSUME NEW n \in DOMAIN file, n # m
        PROVE  file[n].what # s /\ ~(file[n].off <= off /\ off < file[n].off + file[n].len)
    <3>1. Apart(file[n], file[m]) /\ file[n].what # file[m].what
      <4>1. n \in 1 .. Len(Parts) /\ m \in 1 .. Len(Parts)
        BY <2>1, <2>6
      <4>2. s # "shdr"
        BY <2>2 DEF Sections
      <4>3. CASE n < m
        BY <1>1, <2>1, <2>6, <4>1, <4>2, <4>3, PartsApart
      <4>4. CASE m < n
        <5>1. /\ Apart(file[m], file[n])
              /\ file[m].what = file[n].what => file[m].what = "shdr"
          BY <1>1, <2>1, <4>1, <4>4, PartsApart
        <5> QED
          BY <2>6, <4>2, <5>1 DEF Apart
      <4>5. n < m \/ m < n
        BY <2>7, <4>1
      <4> QED
        BY <4>3, <4>4, <4>5
    <3>2. file[n].off \in Nat /\ file[n].len \in Nat
      <4>1. PartIs(Parts[n])
        BY <2>1, PartsType
      <4> QED
        BY <2>1, <4>1 DEF PartIs
    <3> QED
      BY <2>2, <2>4, <2>6, <3>1, <3>2 DEF Apart
  <2>8. file[m].off <= off /\ off < file[m].off + file[m].len /\ off - file[m].off = b
    BY <2>2, <2>4, <2>6
  <2> HIDE DEF off
  <2>9. {n \in DOMAIN file : file[n].off <= off /\ off < file[n].off + file[n].len} = {m}
    BY <2>6, <2>7, <2>8
  <2>10. PartsOf(s) = {m}
    BY <2>6, <2>7 DEF PartsOf
  <2>11. {n \in PartsOf(s) : off - file[n].off = b} = {m}
    BY <2>8, <2>10
  <2> QED
    BY <2>5, <2>9, <2>10, <2>11 DEF s
<1> QED
  BY <1>1, OutputInvariant, PTL
=============================================================================
