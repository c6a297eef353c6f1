# RRISC toolchain: specifications, model checking and proofs

This directory holds TLA+ specifications of the RRISC toolchain (a 12-bit RISC
machine with simulators, assembler, linker, runtime library, Forth and a C
compiler), TLC configurations that check them on small instances, and proofs
that TLAPS checks for every value of the parameters.

`tlasany M.tla` parses a module, `tlc -config X.cfg M` runs a configuration,
`tlapm M.tla` checks the proofs of a module. `PROJECT.json` lists the runs, the
mutants that show each property can fail, the source lines of every definition,
the hazards and the findings.

## 1. The system and its parts

| Part | Source | State | Operations | What makes it correct |
|---|---|---|---|---|
| UART terminal | `pytools/terminal.py`, `sixbit.py`, port in `Sim/Terminal.hs` | receive FIFO of 16 characters, its lock, a reader thread, tty modes | reader: read a byte, translate, queue or drop; CPU: poll RXRDY/TXRDY, read RXBUF, write TXBUF | no character lost while the FIFO has room, none duplicated or reordered, no read of an empty FIFO after a successful poll, a waiting guest is served |
| UART of `sim2` | `sim2.c` 63-75, 137-159 | one prefetched word, the stdio buffer behind it | poll (select + fgetc), read | the same promise as the terminal |
| CPU, bus, memory | `pytools/sim.py`, `isa.py`; `sim2.c`; `Sim/{CPU,Bus,Memory}.hs`; `rtl.v` | eight registers (r0, r7 hardwired), T, pc, counters, RAM/ROM/IO banks | load, fetch, the instructions, halt, `--maxcycle` | the three simulators are the same machine; r0/r7 never change; words stay 12 bits wide |
| Linker | `pytools/link_core.py`, original in `Link.hs` | merged items, layout, symbol tables, set of grown branches, budget of rounds | merge, lay out, resolve, relax, emit | every reference is bound to its symbol's final address, every branch reaches, pieces do not overlap, it ends |
| Assembler | `pytools/asm.py`, `tools/src/RRISC/Asm/*` | macros, conditionals, include stack, statements with sizes and addresses, labels | preprocess, two passes, relaxation of branches and `skip_*`, encode | as for the linker, for flat images; the two implementations agree |
| Object files | `pytools/objfmt.py`, `asm_obj_emit.py`, `Obj/{Format,Emit}.hs` | records of a section | emit, render, parse | rendering and parsing are inverse; what a flat image would hold is what the linked object holds |
| Runtime library | `lib/librcc.s`, `crt0.s`, `io/*.s`, `macros/*.inc` | registers, stack | `__mul`, `__div`, `__mod`, ..., character I/O | arithmetic modulo 4096, documented sign rules, preserved registers |
| Soft float and decimal text | `lib/float/*.s`, `lib/itoa.s`, `pytools/float48.py` | 4-word values, frames of the routines, a text buffer | add, sub, mul, div, compare, conversions to and from words and text | agreement with `float48.py`, sums close to the exact sum, text that means the number, every call returns |
| Forth | `forth/*.s` | two stacks, dictionary, input buffer | word parsing, lookup, number conversion, interpreter loop, primitives | stack discipline, dictionary links, buffer bounds |
| Compiler `rcc` | `compiler/src`, `compiler/packages/rcc-ir`, `compiler/app` | AST, SSA blocks, TAC, frame layout | parse, check, lower to SSA, optimise, leave SSA, generate code | passes preserve meaning; frames and calls follow the ABI of `Arch.md` |
| Drivers and harness | `pytools/rras.py`, `rrld.py`, `rrsim.py`, `testsim.py`, `rrisc_toolchain.py`, `toolchain_checks.py`, `run_tests.py`, `tools/app`, `scripts` | command lines, temporary files | argument parsing, running the tools | process plumbing; not modelled |
| Fuzzer | `compiler/fuzzer` | random programs | generate, run, shrink | test tooling; not modelled |

How they interact: `rcc` prints assembly; `rras` turns it into object files or a
flat image; `rrld` links objects with `crt0` and the libraries; a simulator loads
the image, and the program talks to the UART registers 0o7770-0o7773 by polling.
The only real concurrency is in the simulator: the `terminal-rx` thread and the CPU
thread share the receive FIFO under a lock, and each device access of the guest is
a separate critical section. Elsewhere the hard behaviours are fixed points over
shifting addresses (relaxation), three implementations that must agree, and
protocols between hand-written assembly routines.

## 2. Modules

| Module | Models | Role |
|---|---|---|
| `Sixbit` | `pytools/sixbit.py` | the character code, as functions of code points |
| `RxLine` | - | abstract: what a receive line promises (in order, at most once, lost only behind a full FIFO, served) |
| `Terminal` | `pytools/terminal.py` with the guest of `lib/io/getchar.s` and `putchar.s` | typist, reader thread and guest as concurrent processes; implements `RxLine` with its liveness |
| `Sim2Uart` | the UART of `sim2.c` | same typist, the receiving half of the guest; implements `RxLine`'s safety, but not its progress |
| `Linker` | `pytools/link_core.py` | one action per loop iteration or per round's decision |
| `Isa` | `pytools/isa.py` | fields, encodings and the branch offset of a word |
| `Cpu` | `pytools/sim.py`: bus, banks, loader, step, loop | one action per instruction; what the other simulators have to implement |
| `Idioms` | the sequences of `Arch.md`, on `Cpu` | what a sequence of instructions computes, carried through T |
| `Sim2` | `sim2.c` without its UART | implements `Cpu` under a refinement mapping |
| `Librcc` | `lib/librcc.s` | the integer routines as loops over words |
| `Powers` | - | powers of two, for the shifts and the bits of several modules |
| `AsmExpr` | `_eval_expr` of `pytools/asm.py` | operands: expressions by levels of precedence, against a second reading from the definition |
| `Preproc` | `asm.py`, the stages `%include` to substitution | each stage a function from lines to lines or an error |
| `AsmLayout` | `asm.py`, layout, relaxation, encoder | sizes, addresses, growth of branches and the words of a statement, on the encodings of `Isa` |
| `ObjEmit` | `pytools/asm_obj_emit.py`, placeholders of `link_core.py` | a section's statements as records |
| `ObjText` | `pytools/objfmt.py` | an object file as lines of words, written and read back |
| `Assembler` | `assemble` and `assemble_object` | composes the five above; one action per stage, per round of relaxation, per writing and reading of the file |
| `Float48` | `pytools/float48.py` | reference: the format and the arithmetic as operators |
| `FloatLib` | `lib/float/__f*.s`, `__itof`, `__ftoi` | detailed: the routines label by label, checked against `Float48` and against exact arithmetic |
| `Decimal` | `lib/itoa.s`, `__ftoa.s`, `__atof.s` | the text routines, which call `itoa` and the routines of `FloatLib` |
| `MC*` | - | values of the constants for TLC |
| `TerminalProofs`, `LinkerProofs`, `CpuProofs`, `Sim2Proofs`, `LibrccProofs`, `AsmProofs`, `FloatProofs` | - | theorems and their proofs; `Sim2Proofs` has those of `Sim2` and of `Sim2Uart` |
| `AsmStages` | - | definitions the proofs about `Assembler` are stated with: what each stage hands on, its loops as sequences of intermediate results, the invariants `IInv` and `Laying` |
| `Lemmas` | - | facts several of them cite: induction over numbers in terms of sets, functions defined along an interval, folds along sequences, recursions that descend a measure, least elements, quotients, powers of two, and lines of characters (the front of a line, an append behind it, a member left out of its middle), parts of sequences, and stacks along a list of lines that open and close |

Every module also has operators named `X_Y`, marked "fault" in their comment:
a plausible wrong version of the definition `X` next to them. No specification
uses them. Put in the place of `X`, each breaks the property `PROJECT.json`
names beside it ("mutants"), which shows that the property says something about
the code.

### How state and actions correspond to the code

**Terminal.** `rx` is `_rx`, `hand` the local variable of `_reader` between
`os.read` and taking `_rx_lock`, `stdin` the bytes the kernel holds. `ReadByte`
is the read with the translation and the `continue` for bytes without a SIXBIT
value; `Queue` is the critical section, which appends or drops. `PollRx`,
`ReadRx`, `PollTx` and `WriteTx` are one device access each, since the lock is
taken for one access at a time: this is the grain at which the thread can come
between. `translate` is the command-line option; a preload replaces the thread,
as in the constructor. `typed`, `got` and `screen` are histories. The device reads
bytes and writes text: `screen` holds what arrives at the other end of stdout, where
a character above 127 is two bytes (`Utf8`, the encoding of the host's stream).

**Sim2Uart.** `have` and `val` are `uart_rx_have` and `uart_rx_val`; `stdio` is
what the C library has read ahead, which `select()` does not see. `PollFetch`
is `stdin_has_byte` and `fgetc` together, with nobody between them but the
kernel.

**Linker.** The Python functions call one another on lists that never change
after they are built, so a variable holds a list and an action is an iteration:
`Collect` is `collect_section_order`, `Merge` builds the merged items, `Layout`
is one item of `layout_section`, `ScanFails`, `Relax` and `Settle` are the ways a
round of `relax_loop` ends, `Emit` and `EmitFails` one item of the emission,
`Finish` the size check of the image. `relaxed` is the set of grown branches and
`budget` the rounds left. A cell of the image records its instruction,
immediate and origin instead of a packed word; the packing is module `Isa`.
Names are model strings and code words carry only their number.

**Cpu.** `reg`, `T`, `pc`, `data` (one function per bank), `cycles` and `retired`
are the fields of `CPU` and `Bus`. `Load` is `load_mem`; each `Exec*`, `Branch`,
`Jalr`, `Ror`, `Rol`, `Lwr`, `Swr`, `HaltStep` and `Unknown` is one branch of
`step` followed by the end of the loop of `run` (`Retire`: the counters and the
cycle limit). `FetchConflict` and `LwrConflict` are the exception of two banks
that drive one address; the pc has moved by then, and so it has in the model.
The io banks read 0 and ignore stores here: the device behind them is `Terminal`.

**Sim2.** The C program has one loop and two result variables; `Execute` mirrors
it, with `Value`, `NewT` and `NewPc` for what its branches compute and `Difference`
for the flag that the C code reads off bit 12 of an `int`. `ImplementsPython`
maps its variables to `Cpu`'s.

**Librcc.** A variable per register; an action is the straight-line code from a
label to the branch or return that ends it. `stack` holds the words between r6
and the caller's r6, so popping too much or in the wrong order shows.

**Assembler.** Lines are tokens instead of characters. The Python code passes
whole lists from stage to stage, so a stage is one action; relaxation, which
decides on state it then changes, is one action per round (`Relax`) and one per
finished chunk (`Settle`). `stmts` are the statements laid out, `chunk` the run
of statements of one section being relaxed, `rest` those to come, `rounds` and
`skips` the counters `_relax_branches_chunk` starts anew for every chunk. Loops over lists are folds (`Along`), the recursions over files, macros and
levels of precedence are recursive functions. Where Python would stop with an
exception the model refuses: a string directive without an operand, a
`.section` without a name, and a `.float`, whose operand is the four words it becomes, of another length. The
three places in which the code states how long a statement is are three
definitions (`Assign`, `StmtSize` and the words of `Encode`), which need not
agree. `Write` ends after any number of lines: `write_object_file` writes in place, so a
killed run leaves a prefix. `back` is what the linker then reads. There is a
`Finished` action, so that a deadlock would be a stage with nothing to do.

**FloatLib and Decimal.** A routine is straight-line code between labels; every
turn of a loop is an action. The three words of a significand are one number,
since `Idioms` shows that chains through T handle words as one; where the code
looks at single words (`LooksZero`, `High`, `NoWordIsZero`) so does the model.
Exponents are computed in one 12-bit register and wrap there (`ExpSpace`, a
parameter apart from the word size, so that the register can be scaled as the exponent is).
`call`/`pc` are the routine running and its label; `job`/`at` the text routine that
called it. The division by subtraction in `itoa` is its quotient and remainder.
A character is a number, digits their own values. `vanished` is a history.

## 3. The runs

| Run | Question | Instance | States |
|---|---|---|---|
| `terminal_line` | does every typed character reach the guest, once, in order, is it echoed, and is a waiting guest served? | 4 bytes (a carriage return, `@`, `a`, 200: one that is folded, one without a code, one whose case is, one above 127), FIFO of 2, 3 bytes ahead, 4 typed, both modes, preloads longer than the FIFO | 100 k |
| `sim2_line` | is `sim2`'s line safe, open and closed, does the guest get nothing that was not typed, and does input arrive once stdin is closed? | 2 bytes, 3 ahead, 4 typed, at most 5 words received, stdin closed at any time or never | 1 k |
| `sim2_stdio` | (violation) is typed input received while stdin stays open? | the same, never closed | - |
| `linker_link` | does every branch reach, every relocation bind, is the relaxation minimal, does the link end? | 64 words of space (fields of 3 bits), every job of one piece of up to 4 items, every job of two pieces of up to 2 items with equal names in one section or two, and six chosen jobs: a cascade with a call among its branches, addends, explicit offsets, three pieces, an image too large, an unpinned section | 80 k |
| `cpu_banks` | is the CPU right on banks that meet and overlap, and does the cycle limit stop it? | programs of 4 words whose first and last are any of 19 instructions, one of each kind, and whose second is a call, a store, a load or arithmetic (6), loaded from 0 and from 3 up; two power-up states, limit 7 | 47 k |
| `idioms_arch` | do the sequences of `Arch.md` (addition, shifts, comparison, load, call) and of the assembler (`or`, `xor`) compute what they say? | operands from the edges of a word (0, 1, 2047, 2048, 4095), in four registers, both values of T | 54 k |
| `sim2_agree` | is every run of `sim2` one of the Python machine? | every program of three instructions from 18, a call through its own link register among them, and a halt, banks that touch, two load addresses, limit 7 | 61 k |
| `librcc_all` | do the five routines compute C's arithmetic and come back? | every pair of operands of a five-bit word | 37 k |
| `asm_all` | are cycles refused and repetition accepted, do macros, conditionals and expressions mean what they say, do branches lead to their labels after growth, do objects link to the flat image, is a file that was cut off refused? | every sequence of up to 4 (some of 5) conditional lines, of up to 4 macro lines with every line calling the macro, includes among three files, some 870 expressions, layouts with a branch over a gap at its reach, just below and just above, statements of every kind, labels on the lines of `.section`, objects of up to 3 lines of 12 kinds and of 4 placed lines | 142 k |
| `asm_relaxed` | (violation) does every branch lead to its label whatever the sections? | two runs of sections with a branch each that must grow | - |
| `float_all` | does the runtime compute what its reference does, are sums close, do comparisons and conversions keep values, do texts mean numbers, does every call return? | 133 floats (8 exponents, 8 significands, both signs, the special values) in all pairs and five operations, all words, some 34,000 texts of blanks, sign, digits, point, digits; four-bit words, exponents to 15, base 3 | 1.27 M |
| `float_cancel` | (violation) is the larger magnitude first when signs differ? | one and one and a half, both signs | - |

**Bounds and why they suffice.** In `Terminal` the FIFO of 2 is filled, overrun
and drained within 4 typed bytes; whatever goes wrong at 16 goes wrong at 2,
since the code compares a length with a constant. `Linker` is parameterised by the
width of an immediate (`Imm`): at 8 instead of 64 a branch reaches 7 words, so
short jobs have branches at, one below and one above the limit on either side,
cascades and overlaps.
`Cpu` and `Sim2` use the real 12-bit word and encoding; programs are short,
because an instruction acts on a state and not on a history, and the power-up
states point registers at each kind of address. The limit of 7 cycles falls both
on and between the two cycles of a load. `Librcc` is parameterised by the number of
words; nothing in the code depends on twelve bits but the place of the sign.
Histories (`typed`, `got`, `sent`) are bounded by `MaxTyped` and `MaxGot`, the
pipe by `PipeSize`; these bounds appear only in guards of the typist and, for
`MaxGot`, where the end of file would deliver words for ever.
`Assembler` uses the real encoding and the real reach of 64; gaps of 58 to 63
words put branches on either side of it, and a second branch on the way decides.
`MaxRounds` is 2 instead of 20: sources that need one, two and three rounds are
among the inputs, so both ways out of the loop are taken. Sources nest two deep,
enough for a macro reached through another and for a conditional inside one that fails.
In `FloatLib` four bits a word keep what the code tells apart (a leading bit in
the first word, bits lost by alignment, a carry out of each word, differences
of one unit and of whole words, alignments beyond the significand of 12 bits);
the base 3 makes every whole number of a word up to two digits, fractions that do not end,
and is not a power of two, as 10 is not.

**Tolerances.** `SumsAreClose`: one unit in the last place. `FtoaWrites`: the digits written are
the fraction rounded down, short by less than one unit of the last digit and the
precision of a word. `AtofReads`: whole numbers exactly, fractions within
two units of the first word. Each is as tight as TLC lets it be at this size.

**Fairness.** The typist owes nothing. `Terminal` assumes weak fairness of the
reader thread and of the guest: they are two threads of one process, the host
schedules both, and `run()` gives way to the thread every 64 instructions; a lock
is held for a bounded time. `Sim2Uart`, `Cpu`, `Sim2`, `Linker`, `Librcc` and
`Decimal` are sequential programs that do not stop between steps: weak fairness of `Next` (of
the guest in `Sim2Uart`, of `TNext` in `Decimal`). `Assembler` states none: evaluating ENABLED of its
actions costs more than the rest of the check, and it needs none, since no stage
repeats but `Relax`, which `rounds` bounds, and the deadlock check shows that every other
state has a next one. Runs whose programs end have `CHECK_DEADLOCK FALSE`.

**Against the real code.** The translation was also compared by running both: 11,988
assembler sources through TLC's states and the Python assembler (same images,
objects and refusals), and 2,800 calls of the float routines at full size on
the Python simulator against an evaluation of the model's definitions, with no difference;
`itoa` for every word, `__ftoa` and `__atof` for 2,100 arguments inside
the bounds of `FtoaWrites` and `AtofReads`.

## 4. Proofs

| Theorem | For every |
|---|---|
| `TerminalProofs!TypeCorrect`: `[]TypeOK`, with the FIFO never above its depth | depth, set of bytes, modes, preloads |
| `TerminalProofs!NoPhantom`: a read after a successful poll finds a character | the same |
| `TerminalProofs!ImplementsLine`: the terminal implements `RxLine`'s safety | the same |
| `TerminalProofs!EchoFaithful`: within the FIFO's depth the screen shows the typed characters in order, each once, as SIXBIT folds them (`EchoedAsTyped`); in raw mode if all of them are below 128 (`SevenBit`) | the same |
| `Sim2Proofs!OnlyTyped`: every word the guest gets is one that was typed, but for zeros behind the last of them once stdin is closed | set of nonzero bytes, depth, bounds, `MayClose` |
| `Sim2Proofs!ImplementsLine`: sim2's UART implements `RxLine`'s safety | the same |
| `LinkerProofs!TypeCorrect`: `[]TypeOK` | set of link jobs, bases, field width |
| `LinkerProofs!ReachesWhenEmitted`: the layout that is emitted has no short branch out of reach | the same |
| `LinkerProofs!BranchesGoRight`: in a linked image every branch goes where its condition says (`BranchesReach`) | the same |
| `LinkerProofs!RelocationsBind`: every relocated word stands for its symbol's address in that image (`RelocsBind`) | the same |
| `LinkerProofs!SectionsWhole`: no section overwrites itself (`SectionsStayWhole`) | the same |
| `LinkerProofs!RelaxationIsLeast`: in one section of plain labels no branch is grown that could have stayed short (`SmallestRelaxation`) | the same |
| `CpuProofs!TypeCorrect`: registers, flag, pc and banks hold words, r0 and r7 their constants | banks, binaries, power-up states, start addresses, limits |
| `CpuProofs!RomKept`: no step of a running machine changes a ROM | the same |
| `CpuProofs!InTimeAlways`: the cycle counter passes the limit by at most one | the same |
| `CpuProofs!SequencesRight`: each sequence of `Idioms` computes what is said of it (`SequencesCompute`): the multi-word addition and shifts, compare and call of `Arch.md`, `or` and `xor` of `asm.py`; not the multi-word subtract, which is wrong (section 5) | memory that answers where the sequence lies (`Placed`), contents of the registers and T, limits |
| `Sim2Proofs!Agrees`: sim2 implements the Python machine (`ImplementsPython`) | banks that are `Apart`, binaries, start addresses, limits |
| `LibrccProofs!TypeCorrect`, `MultipliesRight`, `DividesUnsigned`, `DividesSigned`, `CallKept` | even word size, operands, register contents, stack and link |
| `AsmProofs!StagesHold`: every stage hands on what the next one relies on (`IInv`, below) | files, include graphs, macros, defines, source lines, rounds |
| `AsmProofs!CirclesAreRefused`: files that include one another and macros that call one another are refused, and nothing else is refused for that (`CyclesAreRefused`) | the same |
| `AsmProofs!ConditionalsAreNested`: a line is assembled if and only if every conditional around it holds, and what is accepted is balanced (`ConditionalsNest`) | the same |
| `AsmProofs!LabelsRise`: growing branches lets no label fall back, but behind a gap that the code forgets (`LabelsOnlyRise`) | the same |
| `AsmProofs!WordsStandApart`: no two statements of an image share a word, and every word of a statement is in the image (`WordsDoNotOverlap`) | the same, where a label on the line of a `.section` stands nowhere else, no `.org` leads back and, if a branch has grown, there is one section without `.align` and `.fill` of labels |
| `AsmProofs!CutObjectsAreWhole`: an object file cut off anywhere is refused or holds whole sections, in the order of the file (`SectionsComeWhole`) | the same |
| `FloatProofs!FloatsWellFormed`: the float routines call each other with well-formed floats and words and return such (`FloatInv`, `TextInv`) | width of a word, range of exponents, base, operands, texts |
| `FloatProofs!NumbersKept`: `__fcmp` orders floats as their values are ordered, `__itof` is exact, `__ftoi` cuts off the fraction (`KeepsValues`) | the same |
| `FloatProofs!SumsClose`: sums and differences are within one unit in the last place (`SumsAreClose`), but for `Reversed` and `Vanishes` (section 5) | the same |
| `FloatProofs!ReferenceAgrees`: `__fadd`, `__fsub`, `__fmul` and `__fdiv` compute what `float48.py` computes (`AgreesWithReference`), for operands of every kind, but for the differences listed with the property | the same |

*Terminal.* `TypeOK` is inductive, since it says that the thread's hand is full
exactly while it is about to queue; without that, `Queue` could append nothing.
`NoPhantomRead` is inductive on top: the thread only appends, and the guest is the
only one to take.

`ImplementsLine` maps the line to the FIFO, the thread's hand and the pipe, in that
order. Typing is `Send`, the thread's read is a stutter or, for a byte without a
character, `Discard`; queueing is a stutter or, when the FIFO is full,
`Lose(Len(rx) + 1)`; the guest's read is `Deliver`, which needs `NoPhantomRead`:
without it a read of the empty FIFO would be a step the line does not have.

`EchoFaithful` needs to know where every typed character is. `EchoInv` says so
while no more than `Depth` were typed: the guest has the first ones (`HeldInOrder`),
then come those in the FIFO and in the hand, then those in the pipe, at
increasing places among bytes that have no character (`PendingInOrder`); what
the guest has it has printed, but for one between its read of RXBUF and its
write of TXBUF (`ShownInOrder`). The FIFO cannot be full when the thread queues,
since it, the hand and what the guest holds are all typed.

*Sim2Uart.* The line is the prefetched character, stdio's buffer and the pipe.
`Shapes` says that a guest about to read is exactly one that polled a 1 and has
not read since. `AddsUp` counts: what was received, prefetched, read ahead and is
still in the pipe is what was sent, and a surplus exists only after the end of
file, where a poll answers 1 although there is nothing. Both are needed to tell a read that
delivers from one that returns the end of file's zero, which the mapping drops.

*Linker.* `TypeOK` is not inductive: the layout appends addresses without bound
unless one knows that it is at item `Len(addr) + 1`, and a link fails for want of
rounds only at the end of the budget. `PhaseInv` says this for each phase.
`ReachesWhenEmitted` adds `ReachInv`: from `Settle` on, `Far` is empty, and the
emission changes nothing that `Far` is made of. This is why the error "out of
range after relaxation" cannot happen, as the original's comment says.

*Image.* Three invariants on top. `ImageInv`: each cell of the image comes from an
item emitted so far, at its offset in that item's code, with the addresses of
the layout that is being emitted; a cell that bears an item's mark (`Intact`)
therefore holds that item's code. With `HighLow` (an upper and a lower immediate
make up the address they were cut from) this gives `BranchesReach` and `RelocsBind`.
`MergeInv`: the merged items come in the order of the section names, which are
distinct, so a section is contiguous. `LaidInv`: what is laid out of one section
lies one item behind the other. Together they give `SectionsStayWhole`.

*Relaxation.* `RelaxationIsLeast` is a fixed-point argument: a set of branches that
is enough includes every set relaxation has grown so far (`LeastInv`). If it
includes the grown ones, its layout is at least as wide between any two items
of the section as the current one (`SummedInv`: the addresses laid out are
sums of sizes), so a branch that is too far now is too far there, and it too must be in the set.
This needs all addresses to move together: one section, no addend, no
explicit offset. With more sections growth can bring a target nearer, and the claim is
not made.

*Cpu.* `TypeOK` is inductive given lemmas on each helper (`And`, bus reads and
stores, loads of a binary); the assumptions are `BankAssumption` (banks lie inside
the address space), `FileAssumption`, `StartAssumption`, `PowerUpAssumption`.
`InTime` says that a machine that still runs is strictly below the limit, so one
more step of one or two cycles passes it by at most one.

*Idioms.* `IdiomInv` has a case for every word of every sequence: what the registers
and T hold when the word before it has been executed. The work is in T, which
carries from one instruction to the next: a carry, a bit shifted out, the sign of a
difference. `or` and `xor` are additions, so their proofs rest on facts about the
bits of two words (`And` in `Isa` is defined bit by bit). `PlacedAssumption`
says that the sequence lies at 0 in one bank that is not a device, which is how the run places it.

*Sim2.* Under `Apart` (at most 16 banks, inside the address space, no two with a
common address) masking the numbers of `--mem` changes nothing, the first match is the
only one and no read conflicts, so the two ways to read, store and load agree. Then
each instruction is a case of its own; the flags need that
bit 12 of a difference of words is set exactly when it is negative. The theorem
assumes `Apart` because without it the simulators do differ (section 5).

*Librcc.* The inductive invariant has a part for each loop. In the
multiplication, r1 is the product of r3 and what has been counted off r2,
modulo the number of words. In the divisions, dividend = r1 * r2 + r4 exactly,
without a modulus, because the quotient never outgrows the dividend
(`QuotientFits`). `StackInv` says what lies on the stack at each place. When the
loop ends, r4 < r2, and `DivUnique` makes r1 and r4 the quotient and remainder;
`MagnitudeIsAbs`, `QuotientOfMagnitudes` and `RemainderOfMagnitudes` carry this over
to signed values. The least number needs no case of its own: its magnitude, read
as unsigned, is its absolute value, which is what the routines rely on.

*Assembler.* The stages are recursions over lists, files and macros. In the model
they are functions and folds, and the proofs turn a fold into the sequence of its
intermediate results (`FoldAlong`, `AlongFrom`), about which `SetInduction` can
speak: the stack of conditionals after line k, the addresses after statement k, the
records read so far. The recursions that are not along a list (includes, macro
calls, expressions) descend a measure: the number of files, or macros, that are not on
the chain yet, and the tokens and levels still ahead. `Fixpoint` says once
that there is a function that solves such a recursion, `MeasureInduction` how to
prove something of it.

`IInv` says what a stage relies on: `Typed` has the type of every variable at every
stage (definitions are lines and tokens, statements in relaxation have addresses, the
object is made of sections that have been written); `Routed` ties the stage to the
way there (an object never sees relaxation, a failure has a reason); `MadeOfLines`
that the bodies of macros consist of lines of the source; `JudgedIncludes` and `JudgedCalls` that what was
said about circles when it was decided is still true of `source` and `table` later, because
nothing changes them; `CutFile` that the text is the front of the file of `obj`, and `back`
what is read from it. `Typed` alone is not inductive: what is read back is a list of sections only
because the text was written from `obj`.

`CyclesAreRefused` compares two things that are defined apart: a walk that keeps
the chain of open files (or macros) and refuses a name that is on it, and `Reached`, a
least closed set. A refusal gives a chain whose last name leads back into it; without a
refusal the set of names that the walk has left behind is closed, and no member
reaches itself. For macros this is true only if no parameter stands for a mnemonic of the
body (`CallsAreWritten`): where one does, what a macro calls depends on its
operands, and whether a circle is run into does too. The proof found that
hypothesis. `ConditionalsNest` relates the stack of `_filter_conditionals` to numbers of
openings and endings before a line: what is on the stack at a line are the
conditionals that enclose it. `SectionsComeWhole` is the round trip of `ObjText` over
the front of a text: a parser in the middle of a section has an open section, and
whole sections are read as they were written. `LabelsOnlyRise` follows a label through
one round: the statement that had it becomes one piece of the grown chunk, pieces keep
their order, and addresses made anew are at least the old ones (`GrowingRaises`) unless the
piece is a branch that has forgotten its gap.

`WordsDoNotOverlap` relates three sizes of one statement: what the first pass counts,
what relaxation gives it and how many words the encoder writes. They can differ only
where a size comes from a label's value (`.fill`, `.align`, `.org`), and then agree if
the two tables of labels do. Two invariants carry this. `PictureHolds` says that the
words encoded lie where the statements say and that earlier ones end before later ones
begin. `Laying` says where the statements come from: a chunk is as the first
pass left it, and if all are, the table it made is the table of the code; or it has
grown, and then it holds a skip label and every statement in it lies where the ones before
it, at their sizes, end. That is all the property needs: where something has grown it
speaks of one section without `.align` and `.fill` of labels (`Unspoiled`), because
beyond that relaxation is known to go wrong (`asm_relaxed`). `Laying` survives a round because a round
begins from what was laid down in the round before.

*Floats.* `FloatInv` has a part for each loop that says what the registers stand
for in every turn: `AlignInv` the smaller operand shifted by what has been
counted, `NormInv` the difference times a power of two, `MulInv` the product with the low
bits of the multiplier, `DivInv` that quotient, divisor and remainder make up
the dividend so far, `ItofInv` and `FtoiInv` the word shifted so far. `TextInv`
adds what `__ftoa` and `__atof` hold between their calls, so that every call is
made with floats and words; without it nothing would be known of operands that
a text routine computed. From the invariant:

- *values* are significands times `Pow[e]`, whole numbers in units of the least
  exponent, so no fractions are needed. `NumbersKept` compares two normal
  numbers by the leading bits (a larger exponent is a larger value, because the
  leading bit is set) and follows the shifts of the conversions (`WholePart`, `SignedBack`).
- *the reference* finds its shift with one `CHOOSE`, the code by shifting: `ShiftFinds`
  says there is exactly one. `ProductWords` and `QuotientWords` say what the code's
  shortened product and quotient, of the high words only, have to do with the reference's.
- *closeness*: alignment loses less than one unit of the larger operand
  (`AlignmentLoses`), nothing is added after that but a shift that is exact or
  halves, and results below or above the range are those whose exact sum is.

`Pow` is a recursive function, and that there is such a function is itself
proved (`PowDefined`, with `SetInduction`), as are its laws (`PowSum`, `PowGrows`).

What the constants have to satisfy: a word is a normal number (`FormatAssumption`; at full
size 1024 + 11 < 2047), the operands are words and floats with their leading bit
set (`OperandAssumption`, which is the format as `float48.py` and every routine's
header describe it), and a text ends with its only Nul (`TextAssumption`, as in C).

The assumptions on constants are evaluated by TLC in the runs of the modules that
declare them.

**Only model-checked.** Liveness (`LineSpec`, `LinkEnds`, `Stops`, `Returns`,
`ClosedInputIsReceived`), which is out of the prover's reach.
Of `Assembler`: `BranchesLeadInOneSection`, `LabelsLieWhereCounted` and `ObjectsLinkToTheImage`,
which need the sizes of `WordsStandApart` and on top of them the instruction a word decodes to,
a count along a section, or the object and its linked image;
`WordsHaveTheirValues`, which compares two recursions over the tokens of an
expression; and `CallsMeanTheirBodies`, which compares two ways of replacing names in lists of lists.
`TextsMeanNumbers` compares what the digits of a text mean, a fold over its
characters, with what three loops of calls compute; `FloatsWellFormed` covers the
calls, the digits are left to TLC. Where a proof needs induction over numbers
(powers of two, sums of sizes along a section) it goes through `SetInduction`,
which speaks of a set of numbers instead of a formula.

## 5. What the checks found

Runs that expect a violation, with the text they contradict in `PROJECT.json`:

- `sim2_stdio`: `sim2` polls with `select()` but reads through stdio. Of several
  bytes typed at once all but the first are in the buffer, where `select()` does
  not see them; RXRDY reads 0 until more is typed or stdin closes (`sim2.c:145`,
  against `sim2.c:63`).
- `asm_relaxed`: relaxation numbers its skip labels from 0 in every run of one section
  and moves only the statements of that run. After growth in two runs the first
  inverted branch binds to the second one's label, and the runs overlap
  (`asm.py:839`, against `compiler/MANUAL.md:499`).
- `float_cancel`: `__fadd` puts the operand with the larger exponent first, not the
  one of larger magnitude. 1.0 + -1.5 is +1.5, in the runtime and in its reference
  (`__fadd.s:273` and `float48.py:155` say otherwise).

Disagreements met while modelling, without a run of their own:

*Simulators and terminals.*
- With `--translate`, a preload is queued as raw bytes and not as SIXBIT.
- At the end of input `sim2` delivers zero words for ever, while the other
  terminal's RXRDY stays 0.
- Without `--translate` the terminal reads bytes and writes characters
  (`terminal.py:164`): a byte above 127 comes back as the two bytes of its UTF-8 form.
- `--maxcycle` counts cycles, loads and stores twice, and is also tested after a
  halt, where `MANUAL.md:524` speaks of instructions.
- `sim2` masks the size of a bank to twelve bits, so 4096 words become none, and
  lacks options that `MANUAL.md:507` gives all simulators.
- The multi-word subtract of `Arch.md:249-257` sets T and loses it in the complements
  that follow; the result is one too small.

*Linker and objects.*
- Equal private labels of two objects are a "duplicate definition"
  (`link_core.py:316`), although `MANUAL.md:543` has labels local to their object.
- The rounds of relaxation count pieces, not branches (`link_core.py:510`); twenty branches of
  one piece can use them up although growing them all would do.
- A name with no definition in its own object and no exported one binds to another
  object's private label (`link_core.py:330`).
- `parse_object` returns the sections in reverse order (`objfmt.py:392`), where the
  original's test (`tools/test-haskell/Main.hs:31`) has a round trip give back the object.
- `section_symbols` counts the placeholder a relocation stands for twice when its word follows it.
- `.align` in an object measures from the start of the section, in a flat image
  from address 0.

*Assembler.*
- A label on the line of a `.section` is neither checked nor entered in the table of
  the first pass (`asm.py:607-616` ends with `continue` before the labels are looked at; so does
  `Layout.hs:40`), but the final table has it. `x: .word 1`, `.word 1`,
  `x: .section s`, `.fill x`, `.word 5` assembles to 1 1 5 0: the first pass takes x
  for 0, the encoder for 2, and two statements share a word. The test `err-duplicate-label`
  expects a second `x` to be refused. `WordsDoNotOverlap` leaves it out by
  name (`SectionsLabelledApart`); the attempt to prove it found this.
- A branch that grows behind an `.org` forgets its address and falls back behind the
  statement before it (`asm.py:860`, against the comment at `asm.py:818`).
- `MANUAL.md` calls the relaxed branch a three-instruction sequence; it has four
  words, the fault `Code_SkipsThree` of `Linker`.
- `_eval_expr` says it masks to twelve bits; it returns the unbounded integer.
- `li r7` is accepted and encodes a branch, and `li r0` of a label is accepted in an
  object; `or` and `xor` with r4 as a source read it after it has been overwritten.
- A negative shift count, and an object of a statement without words, end in a
  Python exception instead of an error message.

*Floats and text.*
- `__fadd` takes a difference for zero when its three words add up to a multiple
  of 4096 (`__fadd.s:305-313`); it happens inside `__ftoa`, which loses the fraction of
  2047.99988 through it.
- An exponent below zero in `__fmul` and `__fdiv` wraps around to infinity where
  `lib/float/README.md` has underflow return +0.
- `__fcmp` of a NaN is not 0, as its header says; 0 * inf, inf - inf and 0 / 0 are not NaN;
  +0 + -0 is -0. The header of `__fdiv` admits the simplification, the others do not.
- The test of `__ftoa` for four zero words (`__ftoa.s:37-51`) is inverted: it prints
  `0.0000` for every float that has no zero word, pi among them.
- `__atof` means to skip tabs, but its test for characters below a blank comes
  first (`__atof.s:76-77`): a number behind a tab reads as 0.

The properties about sums and texts exclude these cases by name (`Reversed`,
`Vanishes`, `vanished`, `NoWordIsZero`) and hold everywhere else. `Vanishes` is a
statement about the operands: the aligned difference is not zero and its three words
add up to a multiple of a word. Any other zero in the place of a number is a violation,
as the fault `LooksZero_FirstWord` shows. `AgreesWithReference` speaks of special
operands too, and says for each of the cases above what the runtime returns instead.

**What the properties do not cover.** Some hazards are places where the code does go
wrong, and a property that is to hold has to leave the case out. No property covers
the sum of the words of a difference (`__fadd.s:309`), the exponent below zero
(`__fmul.s:207`), or the branch that grows behind a gap (`asm.py:823`); the
properties beside them show that nothing else goes wrong there. Others are covered in part:
the sizes of statements after growth (`asm.py:775`), where `.align` and `.fill` of labels
are left out; replacement of parameters (`asm.py:428`), where an operand that holds the name of
a later one is left out (`Uncaptured`); and cut object files (`objfmt.py:245`), where one that
ends between two sections is read as complete, since nothing in the format tells. `LinkEnds`
lets a link end for want of rounds, so it does not judge the budget (`link_core.py:510`).

## 6. What is not modelled, and why

- Forth, and the compiler's middle and back end: see the plan.
- The Haskell simulator: its step is that of `Cpu`, but its direct path to the
  default RAM bank (`CPU.hs:142`) is not compared yet. The Haskell linker and
  assembler are the originals of the Python ones and are followed where they agree.
- Banks reaching over the end of the address space, files with an odd number
  of bytes, `--trace`, tty modes and signal handling.
- In the assembler: comments, the ways to write a number, string escapes, the search path for
  included files, joining a macro parameter to other text, and the listing.
  `loc` and `source` lines of objects, which only name places.
- In the floats: the conversions of `float48.py` from and to the host's floats, and the
  debugging aid `put_hex12.s`.
- `crt0.s`: six instructions that set the stack pointer, call `main` and halt.
- Parsing of command lines and of C; the drivers and the harness,
  which keep no state; `rtl.v`, a sketch that no tool builds; the fuzzer.

## 7. Plan

1. Proofs: the whole numbers of `TextsMeanNumbers` (`itoa` and the integer loop of
   `__atof`); the properties of `Assembler` that section 4 lists as only model-checked.
2. `FastBus`: the direct path of `Sim/CPU.hs` as an implementation of `Cpu`'s bus.
3. SSA: dominators, leaving SSA (`ToTAC.hs`) with parallel copies as the abstract
   meaning, and the passes of `Optimize.hs`.
4. Frames and calls of `Codegen.hs`; the Forth interpreter over its two stacks.
