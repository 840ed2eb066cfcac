# A TLA+ model of the RISC-V assembler

The assembler reads one source file, builds an intermediate representation
(pass 1), lays it out, optionally replaces instructions by compressed ones and
writes a raw or ELF file (pass 2). It is one sequential program; what makes it
hard is that three computations of the same layout (pass 1, the re-layout loop
of pass 2, the emitter) have to agree, that compression changes sizes while
labels keep the addresses they had, and that a failure anywhere has to reach
the exit status although three flags and several early returns carry it there.

Paths below are relative to `src/Assembler/src/` unless they start with `src/`.

## Inventory

| Component | State | Operations | Interacts with | Correct when |
|---|---|---|---|---|
| Lexer `assembler.l` | none of its own | tokens for the parser | parser | out of memory ends the program before the output is touched |
| Parser `assembler.y` | none of its own | one grammar action per statement | calls pass 1, `pass.c`, `ir.c`, `symtab.c`; raises `had_error` in `pass2.c` | every statement has exactly its effect, refused ones are noticed |
| Pass state `pass.c` | section, `pc_text`, `pc_data`, `text_entered`, option flags | current pc, advance, align, switch section | read by both passes | the two counters are independent |
| IR `ir.c` | growing array of entries | append, set or clear a compressed choice | filled by pass 1, edited and read by pass 2 | entries of a section follow each other without gaps |
| Symbol table `symtab.c` | chained hash table that grows | insert, resize (which inserts), search | filled by the parser, searched by pass 2 | a map in which the first definition stands, whatever size it has grown to |
| Pass 1 `pass1.c` | the table and the IR | emit instruction, datum, space | parser | label addresses are the addresses of the entries behind them |
| Compression rules `c_rules.c` | none | nineteen rules, first match wins | pass 2 | the choice means what the instruction meant |
| Pass 2 layout `pass2.c:149-353` | addresses, sizes and choices in the IR | assign addresses, plan, validate, re-layout (eight rounds at most) | IR, symbol table | ends, and ends at a fixed point |
| Pass 2 encoders `pass2.c:16-115, 356-1139` | two tables | accept or refuse operands, pack bits | emission | a compressed choice is never refused where the wide form is accepted; the word decodes to what the source says |
| Pass 2 emission `pass2.c:1142-1365` | current section, `seen_text`, `had_error` | one entry at a time | output writer | every entry is written once, where the layout put it |
| Output writer `out.c` | two byte vectors or a file, `has_rvc` | write, finish | driver | headers describe what was written, also when a write fails; what is loaded is what was assembled |
| Driver `main.c` | options, results of each step | runs the steps, computes the exit status | everything | status 0 means a whole output |
| Makefile, test driver, CI | | | | not part of the program |

There are no threads, signals or callbacks, and nothing survives a run.
Failure does happen: `malloc`, `calloc`, `realloc`, `fopen`, `fwrite` and
`fclose` may fail, and some of these failures are not reported to the caller.
`PROJECT.json` lists the hazards line by line.

## Modules

| Module | Models | Notes |
|---|---|---|
| `IR` | `include/ir.h`, `ir.c`, `uint32_t` and `int32_t` | opcodes, formats and relocations keep their C names; `HalfMod` is 2^31 in the program |
| `CRules` | `c_rules.c` | one predicate per rule, `c_try_map` is the chain |
| `Encode` | what `encode_*` and `require_*` of `pass2.c` accept | |
| `Bits` | both encoding tables and the packers of `pass2.c` | a word is the set of the positions of its ones; one operator per format |
| `ISA` | nothing of the code: the decoder of the RISC-V manual, 32-bit words and RVC | the reference `Bits` and `CRules` are checked against |
| `Grammar` | the records the grammar actions build | pseudo-instructions are expanded as their action does |
| `Globals` | state both passes share | `stage` is where `main` is |
| `Pass1` | `assembler.y`, `pass1.c`, `pass.c` | one action per statement; a statement that emits several entries puts them in `todo` and one action emits each |
| `Pass2` | layout, compression, emission | every loop of the source is an action for entry `i` and one that leaves the loop |
| `Elf` | `out_finish` and `write_at` of `out.c` | offsets, program and section headers, the string table; one action per write, which may fail |
| `Assembler` | `main.c` | composes `Pass1`, `Pass2` and `Elf`; the next-state relation is a disjunction of theirs and the steps of `main` |
| `Delivery` | what the program promises from outside | abstract specification that `Assembler` implements (`ImplementsDelivery`) |
| `SymTab` | `symtab.c` | the calls of `insert_sym` and `resize_symtab` to each other are a stack of activations |
| `SymMap` | what the passes take the table for | abstract specification that `SymTab` implements (`ImplementsMap`) |
| `Claims` | what comments, tests and the README say and the code does not do | |
| `MCPass1`, `MCAssembler`, `MCSelection`, `MCSymTab`, `MCClaims` | instances for TLC | |
| `Pass1Proofs` | theorems about pass 1 | see Proofs |
| `ProgramTypes`, `DeliveryProofs`, `OutputProofs`, `LayoutProofs`, `ChoiceProofs`, `EncodingProofs` | theorems about the whole program | each extends the one before it |
| `SymTabProofs` | theorems about the symbol table | |

Three kinds of variables do not exist in the program: `stage`, which stands for
the program counter of `main`; `i`, `pc`, `iter`, `changed` and the other
locals of the functions of pass 2; and the history variables `reported`,
`wrapped`, `label_def`, `chunks` and `appended`, which no action reads except to
extend them. `chunks` is what was written: for each entry its section, its
offset there, its size, its bits and the resolved immediate; `file` is the same
for the parts of an ELF. `starved` in `SymTab` remembers a failed allocation. An operator whose comment
says "mutant" is a wrong variant of its neighbour. The checks put it in the
neighbour's place to make sure that the property notices.

Choices of abstraction:

* A source file is a sequence of sets of statements, `Source`; TLC explores
  every file that takes one statement from each, and `eof` ends a file early.
  Constants such as `.ascii` characters are one representative each.
* `.align` with more than 31 shifts a 32-bit one too far, which C leaves
  undefined. `UndefinedAlign` holds what the machine may give.
* `AppendToIR` may lose the entry when memory may fail; a message is printed
  and the caller is not told. `Survivors` models `resize_symtab`, which loses an
  entry when its node cannot be allocated. `ResizeAt` is the number of labels
  from which a resize may happen (27, half of 53 slots). The real table resizes
  only at some of the sizes from there on; the model allows a loss at each of
  them. `SymTab` has the resize node by node, and `ImplementsMap` shows that it
  keeps to the map `SymMap`, whose `Lose` is the loss `Survivors` makes in one
  step. A failed allocation of the first table, after which the program
  dereferences NULL, is not modelled.
* In `Elf` a write that fails leaves the part out of the file or, when it is the
  seek back that fails, in it; bytes of a part are not told apart. Fields that
  are the same in every file (magic, machine, flags of a segment other than
  executable) are left out. `lost` is how many of the unchecked appends to
  `.shstrtab` failed; the vector allocates once, so those are the first ones.
* `Write` stands for the sinks. A failed write may leave part of the bytes in a
  raw file; the model does not record them, since the exit status is then 1.
* Entries are 1-based; the C loops are 0-based.

## Runs

| Run | Instance | Shows |
|---|---|---|
| `pass1` | files of up to five statements, 23 kinds (four for the first), two labels, six-bit counters, memory may fail, a table that may resize from two labels on | `TypeOK1`, `NoGaps`, `LabelsMarkEntries`, `FirstDefinitionWins` |
| `branches` | four of thirteen statements around one label: a compressible branch, one that is not, a jump, an explicit compressed branch, `la`, 300 bytes of `.space`, both sections; with and without auto-compression; addresses of ten bits | `LayoutMatchesEmission`, `BranchesReachLabels`, `RelayoutProgress`, and, without auto-compression, `LabelsMatchOutput` |
| `selection` | one instruction: every operation, registers and immediates on both sides of each bound of a rule, and every immediate with a single bit; RV32 and RV64 | `ChoiceMeansSame`, `CompressionIsSafe`, `EncodingIsFaithful` |
| `failures` | up to four statements with one for each refusal, four option sets, every failure allowed; pages of 16 bytes, sections loaded at 32 and 48 | `TypeOK`, `ExitZeroIsComplete`, `RvcFlagIsExact`, `ReadsBack`, `MemoryIsImage`, `ImplementsDelivery`, `Terminates` |
| `cascade` | seven branches to seven labels, each pushing the next out of range | `LayoutMatchesEmission` when all eight rounds are used |
| `symtab` | five labels, two values, a table of two slots that grows to 5 and 11; every allocation may fail | `SearchFindsAll`, `CountIsHonest`, `ImplementsMap`, `CallsReturn` |

Why the bounds are enough. Pass 1 treats each statement by itself, and what can
go wrong takes a switch of section, an entry and a label around it: at most
four statements. In pass 2 a layout error takes a label, something that moves,
and a branch, and a fourth statement lies between them. The rules and encoders
look at one instruction, so `selection` has only one but covers the boundaries;
a packer moves each bit of an immediate by itself, so immediates with one bit
show where every bit goes. The container depends on which of the two sections
are there and on whether a size is a multiple of the page, which four statements
and a page of 16 bytes give. The cascade needs as many branches as rounds and is
therefore written out. In `symtab` the failed allocations let the table get so
full that a resize nests in a resize, which needs four labels.

`HalfMod` is 32 in `pass1`, so that counters wrap, 512 in `branches`, so that
the address of a label may read as negative while a short branch still fits,
2^29 in `selection`, for the immediates of `lui`, and 2^20 elsewhere, larger than
any address there. `CHECK_DEADLOCK FALSE` is set because the program stops.

`Bits` and `Encode` were also compared with the compiled packers of `pass2.c` on
some 50 000 operand sets on RV32 and RV64, the misplaced offsets included: the
29 000 words accepted are the same, and the same operands are refused (apart
from the target tests that pass 2 makes before it packs).

Fairness is `WF_vars(Next)`: one thread runs from `main` to its return and no
call blocks. Only `Terminates` uses it. `SymTab` has weak fairness of `Step`, the
steps inside a call, for the same reason and for `CallsReturn` only; that another
call follows is not assumed. Nothing is assumed about which branch of a choice is
taken.

### Where code and claims differ

Each of these runs checks one property and finds it violated. What they show was
also seen by running the C routines, except `claim_range`, which is one assignment
in the code.

| Run | Quoted claim | What the code does |
|---|---|---|
| `claim_space` | test1.s:16, pass2.c:1290 | `ir_append_align` never sets `imm`, from which pass 2 recomputes the size, so `.space` and `.align` write nothing and the following labels are wrong |
| `claim_forward` | test11.s:83 | labels keep their uncompressed addresses, so a branch over a compressed instruction misses |
| `claim_fixed_point` | pass2.c:343 | nine cascading branches use up the eight rounds; the result is ignored and a stale layout is emitted |
| `claim_range` | pass2.c:131 | `pass2_initialize` clears the flag the parser raised, and the program exits with 0 without the refused statement |
| `claim_pair` | test13.s:32, src/README.md:170 | `la` of data ignores that the sections are loaded at different bases, and its low half uses the address of the `addi`, four too far |
| `claim_encoding` | test10.s:1, src/README.md:3 | see below |

What `claim_encoding` shows, and `EncodingIsFaithful` therefore leaves out
(`Misencoded`): bit 12 of `c.sub`, `c.xor`, `c.or` and `c.and` is 1, which makes
them `c.subw`, `c.addw` or reserved words; `c.subw` and `c.addw` have the bits of
`c.srai`; `c.ldsp` has no register; the offsets of `c.swsp` and `c.sdsp`, of
`c.beqz` and `c.bnez`, and of `c.j` and `c.jal` are not where the manual has them,
those of `c.sdsp`, `c.j` and `c.jal` with bits lost. Since the rules choose these
forms, auto-compression turns correct branches, jumps and subtractions into wrong
ones. Everything else that is accepted decodes to what the source says, offsets
of 2^32 and more in compressed loads and stores excepted (below; the `selection`
run has none).

Smaller divergences have no run. The entry point is not `_start` (src/README.md:29):
`main` passes entry 0, so `Header` takes the base of the first section there is,
that of `.data` when there is no `.text`. Instructions before any `.text` are
assembled although pass1.c:71 warns that none will be processed. A failed
`write_word_le` does not raise `had_error` although pass2.c:1230 says so (the
exit status is 1 all the same, which `ExitZeroIsComplete` checks). Section names
that were lost for lack of memory are not noticed and the exit status is 0
(`ReadsBack` asks for the names only when `lost = 0`). Segments overlap in memory
when `.text` is longer than a MiB, which `MemoryIsImage` has as its condition. A
label at 2^31 or above is refused as undefined. `encode_cltype`, `encode_cstype` and
`encode_csstype` test the upper bound of an offset after narrowing its 64 bits to
32 (pass2.c:727), which `ScaledU32` models: `c.lw x8, 4294967300(x9)` is accepted and
written with offset 4, although the message at pass2.c:731 says that the offset
must be 0..124.

`BranchesReachLabels` and `BranchesLandOnLabels` are two questions: the first,
which holds, is whether the emitted distance leads to the address the table
gives the label; the second, which does not, whether that address is still where
the labelled instruction is.

## Proofs

Every theorem holds for every source, number of labels, word width, option set,
hash function, page and base address and pattern of failures the assumptions
below admit; the runs show the same properties on small instances.

| Module | Theorems | Inductive invariant |
|---|---|---|
| `Pass1Proofs` | `TypeCorrect1`, `FirstDefinition`, `GaplessLayout`, `LabelPlacement` | `TypeOK1` as it stands, `LayoutInv` |
| `ProgramTypes` | `TypeInvariant`, `TypeCorrect` | `TypeInv` |
| `DeliveryProofs` | `DeliveryImplemented` (refinement of `Delivery`) | `DeliveryInv` |
| `OutputProofs` | `ZeroIsComplete`, `RvcFlagTold`, `FileReadsBack`, `ImageIsLoaded` | `OutputInv` |
| `LayoutProofs` | `OneLayout`, `BranchesReach`, `EachRoundDrops`, `LabelsMatch` | `PlacementInv`, `ProgressInv`, `OneLayoutInv` |
| `ChoiceProofs` | `ChoicesMeanSame`, `CompressingIsSafe` | `TypeInv` |
| `EncodingProofs` | `WordsDecode` | `WordsInv` |
| `SymTabProofs` | `TableInvariant`, `EveryLabelFound`, `CountHonest`, `MapImplemented` (refinement of `SymMap`) | `TableInv` |

The modules from `ProgramTypes` to `EncodingProofs` build on each other, and so do
the invariants up to `PlacementInv`: each is the one before it with more
conjuncts, and each module first says in one lemma what a step of pass 2 can do
to the state it speaks of (`PassTwoMoves`, `EmissionStep`) before it goes through
the conjuncts. `WordsInv` is `OutputInv` with one conjunct more.

**Pass 1.** `TypeOK1` needs arithmetic only (a sum of two words that wraps at
most once is a word, padding is less than the alignment) and the constructors of
the IR. For the layout, `LayoutInv == Clean => Gapless /\ InPlace /\
DefinedWithin`: `DefinedWithin`, no label is defined behind the end of the IR, is
the strengthening, since otherwise the next entry might not be the one a label
waits for. `CleanStep` shows that a step that leaves the parser clean does nothing
to the layout (`Quiet`), defines one label (`Defines`) or appends one entry at the
counter of its section (`Grows`); each conjunct survives each of the three.

**Types of the whole program.** `TypeOK` is not inductive. That the rewritten
operands are in range, that `c_try_map` was applied at all, and that the encoders
get what they can pack, depends on what an entry still says of its statement.
`EntriesOK` states it: an entry has the operands of an instruction of the grammar,
and a choice in it is the one `c_try_map` made of these operands (`ChosenByRule`),
with no more than its displacement changed and in range. `FileInProgress` keeps
the parts of an ELF file a beginning of the plan of `out_finish`, `AlignsEmpty`
says that the layout gave every `.align` no bytes, and `AllParsed` and
`OnlyParsed` say what the other half of the program has not touched yet.

**Choices.** `ChoiceMeansSame` and `CompressionIsSafe` are consequences of
`ChosenByRule`, so their proofs are about the rules: `ChoicesMeanSame` goes
through the nineteen rules and shows, by the decoder of the manual, that each
result expands to the operands it came from. `CompressingIsSafe` goes
through the tests of the encoders and shows that each one a choice fails is one
the wide form fails as well.

**Words.** `WordsDecode` is `EncodingIsFaithful` for every register and every
immediate, on condition that no compressed load or store the author wrote has an
offset of 2^32 or more (`OffsetsFit`); without it the property is false, for the
reason given above. A word is the set of the positions of its ones, so a packer
scatters bits and the decoder gathers them. `UnsignedReads` and `SignedIs` say
what gathered bits amount to: the remainder of the number by a power of two, and
the number itself when it is in the range its packer tests. They rest on
`PartialSums`, the decoder's sum over the bits from 0 to 20 one term at a time,
and on `NextRemainder`, what one bit more adds to a remainder; with at most 21 bits
in an immediate, `Stepwise` takes the place of an induction.
Then each format has a lemma of its own that finds every field in the word
(`RWord`, `IWord`, `SWord`, `BWord`, `JWord`, `UIWord`; `CRWord`, `CIWord`,
`CIPrimeWord`, `LwSpWord`, `CLSWord`) under what its encoder accepts (`Formed` and
the tests of `Encode`), put together in `WideWord` and `HalfWordMeans`. An entry
meets these conditions because it has the operands of the grammar (`EntryOK`) and
its word was only written once the encoder had accepted it: that is the
conjunct `ChunksEncoded` of `WordsInv`. `PlainWord` and `ChosenWord` conclude for
entries without and with a choice; the latter also needs `RuleFormed`, that each
rule builds operands the packers expect, and `EntryMeans` of `ChoiceProofs`.

**Delivery.** The refinement mapping hides all of pass 2 behind how many entries
were appended and how many are left. A step maps to a step of `Delivery` because
the IR keeps its length through pass 2 (`WithinIR`), the emission succeeds only
behind the last entry (`RunToTheEnd`), and a status of 0 is computed from flags
that were all set by success (`ZeroMeansSuccess`).

**Output.** `ExitZeroIsComplete` and `RvcFlagIsExact` relate the end of the run
to the whole list of chunks. `InOrder` keeps the chunks of a section one behind
the other, `Behind` keeps all of them before the entry and the length the walk
has reached, `DataFirst` explains why a section is never entered a second time,
`RvcKnown` holds the flag to the chunks, and `FileIsPlan` and `RawIsBare` say
what a successful `out_finish` left.

**The container.** `FileReadsBack` and `ImageIsLoaded` are about a file that has
its header. `out_finish` writes the header last, so such a file has every part
of the plan (`HeaderIsLast`); what the headers then say is looked up part by part.
The parts are found by their index (`PartsAt`, `PartKinds`), and each kind has a
stretch of the file to itself (`PartsWithinZone`), between the breakpoints
`Breakpoints` puts in order, so that no two overlap (`PartsApart`). `NamesAt`
follows the string table byte by byte for `NamesFound`. Both theorems have the
condition `FileFits`: no `align_up` narrowed its result. `LongFileFits` proves it
for every 64-bit file, `SmallFileFits` for each 32-bit one whose sections leave
room for two pages and the headers below 2^32; beyond that the addition in
`align_up` (out.c) wraps and both properties are false.

**Layout.** The layout computes addresses from the sizes it assigns, the emission
writes sizes it computes again, and nothing in the code compares the two.
`After(ir, s, n, v)` says that `v` is the address behind the entries of section
`s` before the n-th. `DataLaid` and `TextLaid` keep the layout's own counter
there, `WrittenLength` keeps the number of bytes written there, and `DataSized`
and `TextSized` say that the size assigned is the size that will be written:
for `.text` only until a choice is dropped and again in the next round, which is
why `LayoutMatchesEmission` is about a converged layout. `AfterUnique` then
makes the address and the offset equal. `ChoicesAimed` carries a validated
displacement through to its chunk (`BranchesReachLabels`). `ProgressInv` adds that
the plan counts its choices, from which `EachRoundDrops` follows with the
library's facts about cardinality.

`LabelsMatchOutput` joins the two passes. `OneLayoutInv` carries `LayoutInv` past
the parse: until something parts the layouts (`Undisturbed`), the IR that pass 1
leaves is laid out as `After` demands, so a round of `pass2_assign_addresses`
computes the addresses that are there and changes nothing (`AssignsSame`).

**Symbol table.** `insert_sym` and `resize_symtab` call each other, and a node is
in the new table, in the array that is being moved, or in the hand of an
activation. `TableInv` says of the stack of activations what each of them may be
(`Shape`), and of all those nodes together (`Live`) that no label has two
(`OneValueEach`). Each is in the bucket of its hash (`WellPlaced`, in `Sound`),
so a search finds it. `CountIsHonest` needs `Roomy`: until an allocation fails, a
table that is being filled has room for everything on its way to it, so no resize
starts within a resize and the counter is written only once. `MapStep` maps each
step to one of `SymMap`.

### Assumptions

The named `ASSUME`s, all of which TLC evaluates in the runs. Most give the types
of constants. The others:

* `WidthAssumption`, `ScaleAssumption`: `HalfMod`, 2^31 in the program, is above
  8, so that a word holds the largest datum, and a multiple of 4, so that
  narrowing to 32 bits keeps the alignment the encoders test.
* `BitAssumption`: `HalfMod` is at most 2^31, so that the largest int has 31 bits
  below its sign, which the packers of upper immediates rely on.
* `AlignAssumption`: an undefined shift gives a non-zero word, as a shift by the
  amount modulo 32, which the usual machines make of it, does.
* `RunningAssumption`: the mark for "has not returned" is not an exit status.
* `SizeAssumption`: the first table, 53 slots in the program, has at least two.
  `CountIsHonest` is false for a first table of one slot, as TLC shows.

### Only model-checked

`Terminates` and `CallsReturn` need fairness, which the prover does not reach. The
decoder in `ISA` is taken from the manual and has nothing to be proved against.
Every other property of the passing runs is stated by a theorem.

## Not modelled

Token spelling and number parsing (text processing); the IR listing and
messages, except that `reported` remembers whether one was printed; argument
parsing, the name of the output file and the exits before pass 1; functions that
nothing calls (`remove_sym`, `ir_force_32` and its like, `out_mark_rvc`); the
failed allocation of the first symbol table, after which the program dereferences
NULL; bytes within a part of a file that a failed write may leave behind; build
scripts. A branch to a number keeps that number under compression (pass2.c:223);
no document says what it should mean, so no property is stated about it.

## Plan

Done, in this order: the IR and its arithmetic; the grammar; pass 1 with its
invariants; the rules and acceptance tests; pass 2; `main`; the claims; type
correctness and the layout theorems of pass 1; the hash table and its map; the
packers against the manual; the ELF container; the abstract `Delivery`; an
instance whose addresses read as negative; the type invariant of the whole
program; the refinement of `Delivery`; the theorems about choices, output,
layout and the re-layout loop; the file read back and loaded; that
both passes lay out alike; the table and its refinement of `SymMap`; the words pass 2
writes against the manual.

Every property of the passing runs that a prover can reach is proved. What could
be added is the text the parser reads (the values of number tokens) and
`remove_sym`, once something calls it.
