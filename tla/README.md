# Verification of the Lab 9 processor and its Lab 27 simulator

The repository holds two descriptions of one machine, a RISC-V processor for RV32I:

- `chisel_impl/`: the Lab 9 hardware, a five-stage pipeline in Chisel, without
  forwarding, in front of a data memory that takes several cycles;
- `src/riscv/`: the Lab 27 simulator in C++, on the ACALSim framework: a functional
  CPU that executes an instruction at once, and a timing model (IF, EXE, WB) through
  which the executed instructions pass as packets.

Its `README.md` says that the two agree. (A third part, the code generator in `codegen/`,
writes skeletons of such simulators.) This project states what each of them must do, and
in what they agree, model-checks it with TLC, and proves it with TLAPS: that the hardware and the
simulator do what they must, that the two leave the same result, and that the files of the code
generator fit together. The assembler and loader that feed the simulator are modelled
as well, down to the program that runs: the assembler is proved to put every line where it
belongs, and to accept legal sources and refuse those with dangling labels, and what it has loaded to
run as the source reads.

## 1. Inventory

| Component | State | Operations | Hard behaviour | What makes it correct |
|---|---|---|---|---|
| Pipeline (`PiplinedCPU.scala`, `StageRegister/`, `DatapathModule/`) | stage registers IF, ID, EXE, MEM, WB; register file | the clock edge | every register decides by itself whether to hold, empty or load; flush and two kinds of stall overlap | programs run as on a machine that executes one instruction at a time; the pipeline never locks up |
| Controller (`Controller.scala`) | none | decode, branch decision, `Flush_BH`, `Stall_DH`, `Stall_MA`, `Hcf` | priorities; a branch is found to be mispredicted by comparing with what happens to be in ID | no operand is stale; no wrong-path instruction takes effect |
| Data memory (`DataMem.scala`) | byte array, `state`, `counter`, `dataReg`, four latches without reset | the clock edge | request and `Valid` handshake; latency; byte lanes | a request is served and answered once |
| ALU (`ALU.scala`), branch comparator | none | operations | signedness | as the instruction set |
| Instruction ROM, `ImmGen.scala`, `RiscvDefs.scala` | the program | fetch, decoding of bits | bit fields | as decoded instructions only |
| Simulator, functional half (`CPU.cc`, `DataMemory.cc`, `BaseMemory.cc`) | `pc`, `rf`, memory, `pendingInstPacket` | `execOneInstr`, `commitInstr`, `retrySendInstPacket` | backpressure; retry; order of reads and writes in one instruction | executes the instruction set; sends each instruction once |
| Simulator, timing half (`SOC.cc`, `IFStage.cc`, `EXEStage.cc`, `WBStage.hh`, `SOCTop.hh`) | port, two pipe registers, IFStage's record of the packets ahead, packet objects | one `step` for each simulator, the end of the tick | simulators step in any order; objects are recycled while others hold pointers; a stalled stage must wake itself | packets pass once, in order, unaltered; hazards are kept apart; nothing gets stuck |
| ACALSim (submodule, not in the repository) | ports, events, containers | – | – | modelled from its use, marked external |
| Emulator: assembler and loader (`Emulator.cc`) | the instruction memory of operands, the data memory, the table of labels, the place of the next line | `parse` (a line), `normalize_labels` | statements of one and two words, labels used before they are defined, capacity and range checks, operands filled in place by a convention `CPU.cc` shares | every line stands where the source puts it; what is loaded runs as the source reads; what the rules forbid is refused |
| Test bench and `main.cc` (`topTest.scala`) | cycle count, tick count | run until `io.Hcf`, run until complete | two implementations of the same stalls | same result; the simulator is never the slower one |
| `DEStage.hh`, `MEMStage.hh` | – | – | never instantiated | not modelled |
| Code generator (`codegen/`) | the simulators and modules added, their ports and connections, the generated files | `addModule`, `addSimulator`, `connectSimPort`, `connectSimChannel`, `CodeGen` | exceptions after half of the work; generating again while the script goes on | the files fit together, and say what the script has built |
| `scripts/regression.py`, build files, tests | – | – | starts processes, prints | not modelled |

Section HW 27-2 of the repository's README (systolic array, DMA) describes a system whose
code is not in this repository.

How they interact: in the hardware, wires within one clock cycle (the processor holds a
memory request up until `Valid`). In the simulator, SOC calls the CPU by an event, the CPU
calls the data memory and pushes a packet into SOC's master port; the framework moves it to
IFStage's queue of one and calls `masterPortRetry` when the port is free again; IFStage,
EXEStage and WBStage hand it on through `prIF2EXE` and `prEXE2WB`, which the top level
synchronises at the end of a tick; WBStage returns it to the recycle container, from which
the CPU takes its next one. IFStage keeps pointers to the last two packets it let through.
Before all that, `SOC::simInit` has the Emulator read the source into the CPU's two memories.

The hazards, each at its line and with the properties that would notice it, are the list
`hazards` of `PROJECT.json`.

## 2. Modules

| Module | Models | Notes |
|---|---|---|
| `RiscvDefs` | `RiscvDefs.scala`, byte lanes, word arithmetic | an instruction is a decoded record `[op, funct, rd, rs1, rs2, imm]`; words are `0 .. ByteSize^4 - 1` |
| `Isa` | the abstract specification: a sequential machine | parameterised by how a misaligned access is treated (`AccessAddr`) and by where the pc wraps (`PcSize`): the hardware aligns and has a short pc, the simulator does neither |
| `Controller`, `DataMem`, `PiplinedCPU` | the hardware | `Tick` is the clock edge, one conjunct for each register, one disjunct for each arm of its `when` |
| `PiplinedCPUProps` | properties and refinement mapping of the hardware | |
| `RiscvLemmas` | lemmas about the operators of `RiscvDefs` | used by the two modules of theorems below |
| `PiplinedCPUProofs` | theorems about the hardware | section 3 |
| `Alu` | `ALU.scala` at any width | bound to the constant `ALU` by the MC modules |
| `SimCpu`, `SimTop` | the simulator: functional half, timing half | one action for the step of each simulator, `Sync` for the end of a tick |
| `TimedIsa` | the abstract specification of the simulator: `Isa` and a line of executed instructions that retire in order | |
| `SimTopProps` | properties and refinement mapping of the simulator | |
| `SimTopProofs` | theorems about the simulator | section 4 |
| `Assembler` | `Emulator.cc`: one action for each kind of line, one for the end of the file, one for `normalize_labels` | a line is `[label, stmt]`, an argument a token with what the conversions make of it |
| `AssemblerProps` | what a source means (where its lines stand, which sources keep to the rules), and the properties | |
| `AssemblerLemmas`, `AssemblerProofs` | theorems about the assembler: where the lines of a source stand; what the assembler makes of them | section 5 |
| `Loader` | `Assembler`, and `SimCpu` on the entries it has filled (`Decode`) | INSTANCE of `SimCpu` with `imem` as the program |
| `LoaderProps` | refinement of `Isa` with a program read off the source | |
| `LoaderProofs` | theorems about the loader and the CPU that runs what it has loaded | section 5; EXTENDS `AssemblerProofs` |
| `Correlation` | the hardware under its test bench and the simulator under `main.cc`, one after the other, on one program | INSTANCEs of `PiplinedCPUProps` and `SimTopProps` that share `prog` |
| `CorrelationProps` | what the two must agree in | |
| `CorrelationProofs` | the theorem that they leave the same result | INSTANCEs of the two modules of theorems; section 6 |
| `CodeGen` | `codegen/acalsim`: one action for each call of a script | what a call has done before it raises an exception stays |
| `CodeGenProps` | what a script may rely on | |
| `CodeGenProofs` | theorems about it | section 7 |
| `MCPiplinedCPU`, `MCSimTop`, `MCAssembler`, `MCLoader`, `MCCorrelation`, `MCCodeGen` | instances for TLC | programs and sources over small sets of instructions and lines |

### Abstractions

- Instructions are decoded. A zero word (what the hardware flushes with, and what lies
  behind the ROM image) is the operation `ZERO`; the words of the C++ instruction memory
  that the loader left alone are `UNIMPL`, which it executes as nothing.
- The ALU is a constant operator of which the proofs need only that its results are words
  and that `ADD` is addition modulo the word size; TLC uses the real one.
- The latches of the data memory that have no reset value start with any value of `PowerUp`
  (TLC: one value that fits no request; the proofs: any).
- `AddrSize` stands for the size of the ROM and of the data memory of the hardware, and for
  `data_offset` and `memory_size` of the simulator.
- Shifts by 32 and more are undefined in C++; the immediate and register shifts of the
  simulator are modelled as on the usual machines, by the low bits of the amount.
- A jump out of the instruction memory makes `fetchInstr` read beyond the array. The model
  ends there (`aborted`), as it does at a failed assertion of `BaseMemory`.
- The loader turns the labels of branches and JALs into absolute addresses, relative ones in
  the hardware. The two agree for every pc that is a multiple of 4. In the instances
  for TLC no program of the simulator reaches any other pc, and the hardware's ROM holds nops
  there.
- Within a tick the simulators step in any order, each step as one action: two steps touch
  common state only through ports and pipe registers, whose ends are separate until the end
  of the tick, and through packets. What one step does to a packet another one reads is
  covered by the order of the steps.
- The framework: a pipe register is an `in` and an `out` slot and `out` takes over `in` at
  the end of a tick if it is free; a packet in the master port moves on at the end of a tick if
  IFStage's queue is empty, and `masterPortRetry` is called then; a simulator is stepped in
  a tick if something has reached it or it has asked to be. Whether a recycled packet can be
  acquired again in the same tick is the constant `SameTickReuse` (section 4).

## 3. The hardware

### What is claimed

`ImplementsIsa`: the pipeline refines `Isa`. An instruction takes effect, for the sequential
machine, when it leaves EXE; the sequential registers are the register file after the write
WB makes now and the one MEM will make, the sequential memory is the data memory after the
store waiting in MEM (`AbsRegs`, `AbsMemory`, `AbsPc`, `AbsHalted` in `PiplinedCPUProps`).
A clock edge is one instruction or none.

`InOrder` (the stages hold consecutive words, on which the misprediction test relies),
`Handshake` (MEM and the data memory agree on the request under way), `FreshOperands` (the
stalls leave no window for a stale operand), `HaltIsFinal` (after an HCF nothing changes
registers or memory), `KeepsRetiring` and `HcfIsRaised` (stalls and flushes never lock up).

These hold for `Restricted` programs. Each restriction is a place where the hardware really
goes wrong, or where the test programs keep away from it:

| Restriction | Reason |
|---|---|
| `NoZeroWord` | a zero word is not an instruction; the flush logic takes it for a bubble |
| `NoLinkAfterMemOp` | a JAL or JALR directly behind a load or a store loses its return address (the run `disagreements`) |
| `NoUnsignedLoad` | `lbu` and `lhu` read at the word-aligned address (the run `disagreements`) |
| `NoStoreAfterHcf` | a store directly behind an HCF is still made; the test programs put nops there |

### Runs

| Run | Instance | Shows |
|---|---|---|
| `pipeline` | all safe programs of 3 instructions over 12, one of each kind, and of 4 over 7 that share two registers | every property above, with liveness; the second set has dependences at every distance |

Bounds: bytes of 2 bits, words of 8, an address space of 32 bytes (8 instructions, so that
the pc wraps), registers x0 to x2, latency 5 (the default). The pipeline is five stages deep
and stalls look three stages ahead, so programs of three and four instructions in front of
an HCF, with backward jumps, bring every pair and triple of kinds together at every distance. The
proofs below do not depend on the bounds.

Fairness: `WF_vars(Tick)`, the clock does not stop.

### Theorems (`PiplinedCPUProofs`)

`TypeCorrect`, `FetchOrder`, `MemoryProtocol`, `NoStaleOperand`, `PipelineImplementsIsa` and
`HaltStays`, for every word size, address space, number of registers, latency of at least 3,
ALU, and set of programs. The assumptions are those named in the modules
(`ProgramAssumption`, `LatencyAssumption`, and those of `RiscvDefs`).

The argument: `TypeOK`, and `InOrder` together with it, are inductive on their own, and so is
`Handshake` with `TypeOK`. `FreshOperands` is not: that EXE's operands are fresh depends on the
write that WB makes (`Handshake`: the loaded word really is the one at MEM's address), on
register 0 being zero (`ZeroReg`), and on nothing behind an HCF still storing (`HaltClean`).
The conjunction is `RefInv`; `RefInvStep` proves that it is inductive. The
simulation then follows step by step: a clock edge in which EXE holds a bubble or is held is a
stutter (`StallTick`, `EmptyTick`); one in which an instruction leaves EXE is that
instruction (`AdvanceIsInstruction`); one in which a branch flushes EXE while MEM is stalled
is that branch, and it loses nothing, because `Restricted` leaves it no register to write
(`FlushUnderStall`, `FlushIsInstruction`).

Only model-checked: the two liveness properties, and what `Alu` computes.

## 4. The simulator

### What is claimed

`ImplementsTimedIsa`: the functional half is `Isa`, and every executed instruction passes the
timing half once, in order, with the contents it was sent with. The line of `TimedIsa` is read
off the seven places a packet can be in, from WB back to `pendingInstPacket`.

`OneHolder` (a packet is in one place only, and never in the container at the same time),
`NoneLost` (and it is never nowhere), `NothingSleeps` (whoever holds a packet that can move on
is due, or has asked for the next tick, and a packet that waits for the port has one in the
port to wait for),
`RecordIsExact` (IFStage's pointers name what is in EXE and WB whenever it uses them),
`RoomAhead` (no push, of those whose result the code cannot handle, finds its target full),
`Drains` and `HaltDrains` (no backpressure, stall or retry stops the flow).

`Interlock`: the hazards of IFStage's tables, and those behind taken branches, are kept apart. It
has two halves. `ApartFromEXE`, about the instruction directly ahead, holds whichever simulator
steps first. The other, about the one before it, holds only as long as IFStage finds in WB's
packet what WB had. `WBStage.hh:46` recycles that packet in the very tick in which IFStage may
still read it through `WBInstPacket`; if the container hands it out again in that tick,
`CPU.cc:48` overwrites it first, and the interlock fails (the run `early_reuse`). The code has
neither a copy nor an order that would protect it, and whether the container does so is a matter of
the framework, so both are modelled (`SameTickReuse`). `RecordIntact` says that it has not
happened, and `InterlockIfIntact` that the interlock holds of every run of which `RecordIntact`
does: it fails in no other way.

`Restricted` programs write nothing to register 0, use no SLTU, and have no JALR over its own
base: the run `disagreements` of section 6 shows why. The offsets of their jumps are multiples
of 4. `StaysInProgram` (the pc stays on word boundaries and no zero word is executed) cannot be
read off a program, for a JALR goes where a register says; it is checked of the instances
and assumed of a run in the theorem.

### Runs

| Run | Instance | Shows |
|---|---|---|
| `simulator` | all safe programs of 3 out of 6 instructions of the tables and jumps (a backward jump standing last), or 3 out of 8 others; 5 packet objects, `SameTickReuse = TRUE` | all of the above but the unconditional `Interlock`, with liveness: for instructions the tables name or not, loops, aligned and unaligned accesses, and accesses out of range, which end the program |
| `early_reuse` | the same | `Interlock` does not hold: a program starts with `add x1, x2, x1` twice, and the second enters EXE while the first is in WB, for the packet of the first is filled with the HCF between WB's step and IFStage's |
| `missing_hazards` | 3 out of the 8 others, `SameTickReuse = FALSE` | `FullInterlock`: dependences the tables do not name are not kept apart, although the hardware stalls for them |

`CHECK_DEADLOCK FALSE` in these: a failed assertion really ends the simulator.

Bounds: three instructions before an HCF fill the port, IFStage's queue and
`pendingInstPacket` (a dependence stalls IF for two ticks), with an HCF or another
instruction as the one that waits; a backward jump makes longer ones. It stands last in a
program, since what stands behind it is reached only by a branch or a JALR that leaves the
loop, and a branch over the jump to the HCF leaves it too. The bytes of a word differ, and the
words are multiples of 4, so that a JALR through a loaded register stays on word boundaries.
Five packet objects are enough: `RoomAhead`
says that one is always free when SOC steps.

`SameTickReuse` is TRUE in `simulator` and in `early_reuse`, the container that leaves more
behaviours. It is FALSE in `missing_hazards`, so that the missing entries of the tables are the
only reason, and in section 6, which says why. That the other container gives `Interlock` as a
whole is proved, not run: `IntactIfKeptForATick` and `HazardsKeptApart` below.

Fairness: `WF_vars(Next)`: the framework steps every simulator that is due and goes on to the
next tick while anything is due. Nothing is assumed about any one of them.

### Theorems (`SimTopProofs`)

For every word size, memory size, number of registers, ALU, set of programs, initial memories,
and any number of packet objects that is large enough:

| Theorem | Assumes of the run | States |
|---|---|---|
| `SimTypeCorrect`, `OneHolderEach`, `NoPacketLost`, `NoSleeper`, `RoomForAll` | nothing | `TypeOK`, `OneHolder`, `NoneLost`, `NothingSleeps`, `RoomAhead` |
| `RecordStaysExact`, `NeverRightBehind` | nothing | `RecordIsExact`, `ApartFromEXE` |
| `HazardsKeptApart` | `[]RecordIntact` | `[]Interlock`; together, `InterlockIfIntact` |
| `IntactIfKeptForATick` | `~SameTickReuse` | `RecordIntact` |
| `SimulatorImplementsTimedIsa` | `Restricted(prog)`, `[]StaysInProgram` | `ImplementsTimedIsa` |

The assumptions on constants are those of `RiscvDefs` and `SimCpu`, `PacketAssumption` (the null
pointer is no object and no contents) and `PoolAssumption`: when four objects are taken there is
a fifth. The container allocates when it is empty, so this is the code's; at most four can be in
other hands when SOC asks for one. `[]RecordIntact` is needed, as TLC shows (`early_reuse`), and
nothing in the repository gives it; `IntactIfKeptForATick` says which container would. Everything
else does without it: what is reused too early misleads IFStage's stalls, not the packets.

The argument has three inductive invariants.

- `PlacesInv` is the types, `OneHolder` and `NoneLost` place by place (`Separate`, `Kept`,
  `Found`), and `Schedule`. None of them is inductive alone. That a packet pushed into a pipe
  register is not lost needs the register to be empty, which is a matter of who has stepped
  in this tick and who is still to: `Schedule` (which is `NothingSleeps`, that WB retires once in
  a tick, and that SOC wakes itself only after its step).
- `InterlockInv` adds `RecordInv`, the stages of IFStage's record through a tick (before
  IFStage's step the record names what is in EXE and WB; after a stall, and after a packet has been
  let through, it is one stage further; between packets it is empty) and `ClearOfEXE` (what was
  let through depends on nothing in EXE). `Interlock` speaks of the end of a tick; `ClearOfEXE`, and
  `ClearOfWB` for the instruction in WB, carry what IFStage found out past the steps of EXE and WB,
  in either order. `ClearOfWB` is about what WB had (`WbWas`), so overwriting the packet later
  does it no harm; it is kept by every step but an IFStep in which `RecordIntact` is false.
- `RefInv` is `PlacesInv` with `Restricted(prog)` and `rf[0] = 0`. A step of SOC is one instruction
  of `TimedIsa`, which enters the line at its end; one of WB takes the first off the line; all
  others, `Sync` included, leave the line as it is, because `PlacesInv` says which places are
  empty; a failed assertion is a stutter.

Only model-checked: `Drains` and `HaltDrains`, which are liveness properties.

## 5. The assembler and the loader

### The model

`Assembler` is `Emulator::parse`, one action for each kind of line (`Blank`, `Section`,
`parse_data_element`, `Instruction`, and `Refuse` for every error message), `EndOfFile`, and
`normalize_labels`. Its state is the code's: `line`, `memoff`, the table `labels`, the entries
of `imem` with their three operands, and `mem`. `status` says how far the program is.

- `print_syntax_error` and `exit` end the program, in the status `"refused"`: the framework's
  ERROR is taken to end it (nothing behind the messages could go on sensibly).
- A write beyond `imem` or `mem` ends the model, in the status `"overrun"`.
- A token carries what `atoi`, `strtol` and the comparisons of strings make of it.
  `strtol` makes 0 of a token that is no number, as in C, and `parse_imm` reads `4(x2)` as 4.
  `LongLabels` are the labels of `MAX_LABEL_LEN` characters and more, which end the program.
- `new instr[...]` leaves `reg`, `imm` and the label of an operand uninitialised; only `imm` is
  ever read so, by the check of a JAL. `Uninit` is the set of values it may have. The
  instances have 0: the array is the size of many pages, fresh from the operating system.
- An unknown mnemonic is an `UNIMPL` with any operands, as in the code; the `#` of a comment
  behind a label is one.

`Loader` goes on where `SOC::simInit` does: the CPU of `SimCpu` fetches the entries as they
are. `Decode` is `processInstr`'s side of the convention which operand holds what.

### What is claimed

`Placed`: while a source is read, every line read so far still stands where the source puts it
(its label, its words, its bytes), nothing has been written over it, and `memoff` is the place of
the next line. "Where the source puts it" is `Address`, read off the source alone: the sizes of
the earlier lines of the same section. It is claimed of `Tidy` sources, which open a section
once and define a label once; what others should mean is said nowhere.

`AcceptsLegal` and `RefusesDangling`: the checks of `parse` and `normalize_labels` demand neither
more nor less than the rules (`Legal`, `Fits`), as far as the code has them.

`ImplementsSource`: loading and running a source refines `Isa` with the program the source reads
as (`Meaning`, `SourceMemory`), in which li and la are one instruction, labels are places of lines
and there is no memory of operands. Between the two words of an li the register lacks its lower
part (`SecondWord`, `RegsMapped`). It is claimed of `Runnable` sources: legal ones whose
short immediates are signed (the code also accepts unsigned ones), that jump into their own text
(or back behind a JAL, or to address 0),
and that do without the three instructions the CPU gets wrong, section 4 (`KnownOtherwise`).

`FetchInText`: such a program, with an HCF as its last line, is never fetched beyond `imem`,
which `fetchInstr` would read unchecked.

### Runs

| Run | Instance | Shows |
|---|---|---|
| `assembler` | all sources of 4 lines over 11, and each of 26 other forms of a statement between lines of 4 kinds; 6 words of text, 8 bytes of data | `Placed`, `AcceptsLegal`, `RefusesDangling` |
| `loader` | 3 free lines over 9, or 2 over 18, in three layouts (data in front of, behind, without the text), 4 registers, 8 words of text | `ImplementsSource`, `FetchInText` |
| `unchecked` | one source | three checks that do not check what their messages say |

Bounds: four lines are a definition in front of or behind a use, with two lines of different
sizes in between or two sections; six words of text are full after three lis, so that the capacity
checks are met from both sides, and three labels fill the table. LowSize (2^12 in the code) is 8
or 16, so that the lower part of a constant has a sign bit and an upper part above it.

`CHECK_DEADLOCK FALSE`: these programs end. No fairness is assumed: every property is one of
safety.

### Theorems (`AssemblerLemmas`, `AssemblerProofs`, `LoaderProofs`)

| Theorem | Says |
|---|---|
| `TypeCorrect` | `TypeOK` |
| `PlacedAlways` | `Placed` |
| `DanglingRefused` | `RefusesDangling` |
| `LegalAccepted` | `AcceptsLegal`, if `JalCheckPasses` |
| `FetchInTextAlways` | `FetchInText`, if every source is `Runnable` |
| `LoaderImplementsSource` | `ImplementsSource`, if every source is `Runnable` |

They hold for every set of sources, of any length, for all sizes and offsets and for every value
that may be in a new `instr`. Assumed are `AssemblerAssumption` (the two offsets are on words, text in
front of data, data within the memory, and the memory less than half of the address space, as in
`SystemConfig.hh`; and there is a register 1, which `parse_instr` names itself for `ret` and for a JAL
with one argument) and `SourceAssumption` (a source is a sequence of lines, and a token what
the tokenizer and `parse_reg` make of one). `JalCheckPasses` says that what is in an immediate
nothing has set passes the check a JAL is put to by mistake (`Emulator.cc:582`): without it a
legal source with a JAL may be refused. The instances assume it too (`JalAssumption`).

Where a line stands is a sum over the earlier lines of its section, a recursive function on the
source. `AssemblerLemmas` proves about these functions what the other proofs need. The prover's
library has induction only as theorems about an operator; `SetInduction` and
`IntervalInduction` derive it for a set from the well-foundedness of `<`, and with it
`OpenUnfold` and `FilledUnfold` show that the recursive functions exist at all. Then: sections
only grow (`FilledGrows`), a section that is not opened is empty (`Unopened`), instructions stand
on words and data behind the text (`PlaceKinds`), and of two lines of one section the later stands
behind the earlier (`PlaceBehind`).

`TypeOK` is inductive. The other properties are not: whether a line may overwrite an earlier one
depends on where both stand, and whether `normalize_labels` refuses depends on what is in every
entry. The invariant `Inv` says for a tidy source, until it is refused,

- `AtPlace`, `Inside`: `memoff` is the place of the next line, and every line read is within the
  memories and, if it is an instruction, well-formed and in front of the data;
- `Listed`: the table holds the label and the place of each line read that has one, each label
  once, and nothing else;
- `Written`: an entry of `imem` that an instruction covers is what the statement is assembled to
  in new entries (so nothing of an earlier statement is left in it), and every other is new;
- `InMemory`: the bytes of each line are in `mem`;
- `Resolving`, once loaded: entries of known mnemonics are not `UNIMPL`, and `RefusesDangling`.

Each kind of line keeps it because a new line is disjoint from all earlier ones (`Apart`).
`normalize_labels` needs what an entry tells of the statement it was made of (`AssembledTells`:
which operand is a label, and which one; `BRANCH` and `JAL` entries come from branches and jumps
only), and that the address of a label is the place of its line (`LabelPlace`). For
`LegalAccepted` the table must have room for every label: labels noted so far inject into those
of the source without the next one (`RoomForLabel`).

`LoaderProofs` takes up where `normalize_labels` leaves the entries. The refinement maps loading to
stutters, so what has to be shown is that each step of the CPU is one instruction of the source,
or none at a second word. The invariant is `LoaderInv`: `Inv` while the source is read, with
`Untouched` (nothing but the lines read so far has been written to `mem`), and `Running` behind it:

- `Laid`: at the place of each line the CPU finds what the line means, in one word or two
  (`Found`), and nothing at the other places in `imem`. This is `Written` of the assembler, put
  through `normalize_labels` (`Tell`, `LineFound`) and through `Decode` (`DecodeOf`), case by
  case of the mnemonics. The two parts of a constant add up again because `LowSize` divides `WordSize`
  (`TwoParts`).
- `pc` is on a word boundary and no further than `End`, the last place of the text (that of the
  HCF, if the source ends in one). It may be at a second word, but only from the first: a jump goes to
  a `Landing`, which no `Inner` word is (`LandingLabel`, `JumpLands`).
- `BasesLand`: a register a JALR jumps to holds a `Landing`. It is 0, or what a JAL has left in it.
- `ZeroKept`: register 0 is 0, if anything reads it.

Without `BasesLand` the bound on `pc` is not inductive, and without that bound neither is anything
said of the next instruction. `ExecStep` then splits on where the CPU is: between lines (`ExecNothing`),
at the second word of an li or la, which the source has executed already (`ExecSecond`), at its
first word, behind which the register lacks its lower part (`ExecFirst`), and at a line of one
word (`ExecOneWord`). TLC found `LoaderInv` true of every state of the instance `loader` (it is not kept as
a run, which would say nothing that the proof does not).

The hypothesis that every source is `Runnable` is what the claims are about: `Runnable` depends on the
source alone, and the sources of the instance `loader` are those of its layouts that are so (`Sensible` in
`MCLoader`). `AssemblerAssumption` and `SourceAssumption` are all that is assumed besides, with
those of `RiscvDefs`; `JalCheckPasses` is not needed, for a source that is refused runs nothing.

## 6. The correlation

`Correlation` runs one program first on the hardware, until the bench sees `io.Hcf`
(`RunLab9` counts the clock), then on the simulator, until nothing is due any more (`RunLab27`
counts a tick at each `Sync`). Both start with the same memory. They share no other state, so
running them one after the other loses nothing.

`SameResult`: they leave the same registers and the same data memory. `NeverSlower`: the
simulator is never the slower one: whatever it waits for, the hardware waits for at least as
long. `AgreeWithoutWaits`: a program without accesses, jumps, and dependences among four
neighbours takes the same time on both, up to the constant `Offset`.

| Run | Instance | Shows |
|---|---|---|
| `correlation` | all safe programs of 4 instructions over 8, without backward jumps | the three properties, for every order of the simulator's steps; and `KeepsToRules`, which the theorem assumes |
| `disagreements` | one program outside the safe ones | `SameResult` does not hold: in its last state x0, x2, x3, x4 and x5 differ, for a link to x0, SLTU, lbu, a link behind a load, and JALR over its base |
| `cycle_counts` | as `correlation` | README.md:41 (`N = M - 1`): the difference is not the same for all programs |

`Offset` is 1 in the instances, what a program of nops shows; the README's constant also counts
the cycles in which each side starts and stops. The difference grows by one for each taken branch
or jump (two bubbles against one) and for each wait for an operand (three stages against two), and
by memLatency - 1 = 4 for each load or store, which the simulator performs at once.

Bounds: four instructions are a producer and a consumer at every distance at which the hardware
waits, and two independent reasons to wait in one program. A backward jump would only repeat
them. `CHECK_DEADLOCK FALSE`: both programs end. `SameTickReuse` is FALSE in the three instances:
when IFStage compares with a packet that has been overwritten (section 4), it may wait for an
instruction that is not there, and TLC then finds `NeverSlower` and `AgreeWithoutWaits` violated. `SameResultAlways`
does not depend on it.

### Theorem (`CorrelationProofs`)

`SameResultAlways`: `SameResult`, for every word size, memory size, number of registers, latency of at
least 3, ALU, contents of the latches at power-up, initial memory, number of packet objects and
order of the simulator's steps, with programs and runs of any length. It assumes

- `Comparable(prog)`: the program is `Restricted` for the hardware and for the simulator (sections 3
  and 4), and `NoLinkAtEnd`: a jump in the last word of the address space would link to 0 on the
  hardware, whose pc has as many bits as an address, and to `AddrSize` on the simulator. The
  programs of the run `correlation` are those of four instructions that are `Comparable`.
- `[]KeepsToRules`: the simulator stays in the program (section 4), and makes no access that is not
  a multiple of its width, which the hardware would make at the multiple below. Where an access
  goes, registers say, so this is assumed of the run; TLC finds it true of every run of the
  instance.

A simulator that an assertion has ended is not done (`Complete`); both must come to their end
for `SameResult` to say anything.

The argument takes the two refinements together. For `Comparable` programs, under those rules,
an instruction of the one `Isa` (pc modulo `AddrSize`, accesses aligned) and of the other (a
pc of a word, accesses as they are) do the same to a state: `After` (`HwInstruction`, `SimInstruction`).
So both go along the states that `After` gives one after the other, the hardware first.
The invariant `CorrInv` is that the state of the hardware can be reached from that of the simulator
(`Leads`), together with the two `RefInv`. A clock edge makes that way one longer or leaves it
(`LeadsFurther`); when the hardware has halted, an instruction of the simulator, which has not,
makes it one shorter at the other end (`LeadsFromNext`). At the end the simulator has halted as
well (nothing is due, and no packet is left, so none waits: `NothingWaits`), nothing can be reached
from a halted state but itself (`LeadsNoFurther`), and the hardware has nothing left to write. `Leads`
is the least set closed under `After`, written as a quantifier over all such sets: that needs no
induction, and no count of the steps of either side. TLC cannot evaluate it; it checks what follows.

Most of the module's first part says that a definition means the same in `Correlation`'s instances of
the two models and in those of the modules of theorems.

Only model-checked: `NeverSlower` and `AgreeWithoutWaits`, which compare two counts of cycles, over
runs of any length, for which the refinements (which do not count) are of no help.

## 7. The code generator

### The model

A Python script builds a `SimTop` of simulators (`SimBase`) and modules (`SimModule`), connects
their ports and calls `CodeGen`, once or, as `gen.py` does, after every simulator. Each call is an
action. A call may raise an exception; `Refuse` is one raised before anything has changed,
the others leave what they had done (`last' = "raised"`). The script may catch it and go on. The
repository's own scripts do not, and the libraries' users may.

A file is what it says about other files: the ports it declares, the headers it includes, the
connections it makes. The names stand for names with their group. All objects name one
application or none, as in `gen.py` and `example.py`, so that each has one place; modules do
not share a name with anything else (`NameAssumption`): nobody checks that, and the later file would
be written over the earlier one.

### What is claimed

`FilesFitTogether`: whatever the calls, and however many of them failed, no file includes a file
that is not there or connects a port that is not declared. The reason is an order kept in three
places: ports are added before a connection is recorded, modules are written before their
simulator, simulators before the top.

`ProjectIsCurrent`: after a generation that returns, the files are those of the objects as they
are. `OneLinkEach`: the checks of the lists of ports keep a master port in one connection.
`LinksJoinAdded`: connections join simulators that have been added, at ports they have.

### Runs

| Run | Instance | Shows |
|---|---|---|
| `code_generator` | 3 simulators (one shared, one SystemC), 1 module, 1 port name, 2 sizes, 6 calls that do something | these properties |
| `not_added` | 3 simulators, two of one name | `LinksJoinAdded`: the documented error for a simulator that has not been added does not come if its name is known |

Bounds: six calls are two registrations, a connection refused half-way, a good one, and two
generations; refused calls do not count. One port name is enough, as each object has its own
ports and a connection has two ends to vary. `Appless` has the cases of an application that
is missing: from the start of the top, from a simulator until it is added, from all objects.
`CHECK_DEADLOCK FALSE`: a script ends.

### Theorems (`CodeGenProofs`)

For any simulators, modules, names, ports and sizes, any calls in any order, and any number of
them (`MaxCalls` is any number):

| Theorem | Assumes | States |
|---|---|---|
| `GeneratorTypeCorrect`, `GeneratedIsCurrent` | nothing | `TypeOK`, `ProjectIsCurrent` |
| `ConnectionsJoinAdded`, `OneConnectionEach`, `FilesAlwaysFit` | `SimNamesDiffer` | `LinksJoinAdded`, `OneLinkEach`, `FilesFitTogether` |

The assumptions on constants: `NameAssumption` (above; and no module is a simulator),
`BoundAssumption`, and `NoneAssumption`, that a missing file differs from every text. `SimNamesDiffer`
says that no two simulators have one name. The generator checks that only of those added, and
connects by name what it changes by reference; the run `not_added` shows a script with two
simulators of one name for which `LinksJoinAdded` is false. `ProjectIsCurrent` does not need it:
`AddedApart`, that the simulators *added* differ in name, is an invariant, and only those
are generated.

The argument: `OneLinkEach` and `LinksJoinAdded` follow from `LinksInv`: both ends of a recorded
connection are objects that have been added, and have the connection's ports. So when
`hasMasterSimPort` denies a port there is no connection of it, which is why lists of ports can
stand in for lists of connections. `FilesFitTogether` is inductive together with it and
`FilesAreOlder` (a file declares no port its object does not have: writing it again only adds
ports, and takes nothing from under a connection made by a file written earlier).

After a refused connection the master keeps its port, and the same call with another
slave is refused as well; after a refused SystemC simulator no generation of the top returns any
more. The model has both; no document says otherwise.

## 8. Findings

`PROJECT.json` lists, each with the run that shows it and the line of the repository it
contradicts: the lost return address and the unsigned loads of the hardware; SLTU, register 0
and JALR over its base in the simulator; its incomplete hazard tables; the packet that is recycled under IFStage's record; the cycle counts;
three checks of the assembler; and one of the code generator. Those that share a run (`disagreements`,
`unchecked`) are all visible in the last state of its counterexample.

Seen while modelling, without a run of their own:

- README.md:41 says that the hardware stops when IF receives an HCF (hence five nops in front
  of it); `Controller.scala:244` raises `io.Hcf` when WB has it.
- `Emulator.cc:582` checks the range of a JAL with `a3.imm`, but its target is in `a2.imm`. With
  the default `memory_size` of 65536 no two places are out of a JAL's reach.
- A second `.text` starts over at its beginning, and the first definition of a label wins.

## 9. Not modelled, and why

- The bits of instructions (`ImmGen.scala`, the field extraction of `RiscvDefs.scala`, `inst.hex`):
  a combinational rearrangement of wires, every case of which a table of tests reaches; the two
  programs do not exchange encoded instructions (the simulator reads assembly text).
- Of the code generator: the text of the templates, the files of fixed text (`create_proj`), whether
  CMake finds a header, and `scriptgen.py`, which prints a script from a JSON file.
- `MemPacket`'s response packets and `MemReqEvent`: declared, never used. `DEStage.hh` and
  `MEMStage.hh`: never instantiated.
- The framework itself: not in the repository.
- Scripts and build files: they start processes and keep no state.

## 10. Plan

Every safety property and refinement the runs check is stated by a theorem, but for five:

- `StaysInProgram` and `KeepsToRules` are what theorems assume of a run: a JALR and an access go where
  a register says. `FetchInTextAlways` shows one class of programs that stay in their text.
- `Interlock` holds under a premise only, and is stated with it (`InterlockIfIntact`).
- `NeverSlower` and `AgreeWithoutWaits` compare counts (section 6).

The liveness properties (`KeepsRetiring`, `HcfIsRaised`, `Drains`, `HaltDrains`) stay with TLC:
the prover does not reason about fairness and ENABLED.

What would be next: larger instances of `correlation`, with loops; and a bound on the cycles between
two instructions that leave EXE, by counting the reasons to wait on both sides, from which
`NeverSlower` could be proved.
