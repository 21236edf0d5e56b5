# X-Makina emulator: specifications and proofs

The X-Makina emulator runs programs for a sixteen-bit teaching machine: it
loads S-records, executes instructions one at a time, simulates devices that
interrupt it, puts an optional cache in front of memory, and has a debugger
menu. The program is single-threaded C++ (`src/XMakina_Emulator`). What is hard
about it is not parallel threads but long sequences of legal steps: the cache
after any history of accesses and settings, interrupts that may arrive between
any two instructions, flags and carries at the boundaries of a word.

All paths below are relative to `src/XMakina_Emulator/`.

## 1. Inventory

| Component | State | Operations | Talks to | Hard | Correct when |
|---|---|---|---|---|---|
| Bus and cache, `Memory_access_handling.cpp` | `memory`, `memory_cache` (32 lines: address, contents, dirty, 5 LRU bits), `cache_options`, MAR, MBR, the clocks | `bus`, `memory_bus`, three organisations, two replacement policies | called by every instruction that touches memory, by fetch and by interrupts; port words go to `device_memory_access` | a line that differs from memory; two lines for a word; evicting dirty lines; ages that survive a change of organisation; clock corrections by hand | a program cannot tell that there is a cache, and the analytics compare the right clocks |
| Devices and interrupts, `Device_Handling.cpp`, `device_memory_access` | 8 ports (IE, I/O, DBA, OF, data), `time_left`, the record read ahead, EOF, the interrupt queue | `device_init`, `device_management`, input and output processes, interrupt entry, queue and return | changes PC, LR, PSW and the stack between two instructions; ports are words of memory | an interrupt in the middle of a routine's end; queued interrupts; the end of a transfer racing a new one; a clock that stands still | frames form a stack, priorities nest, nothing queued is lost, every record and transfer completes |
| CPU cycle, `CPU_operations.cpp` | registers, `PSW`, IX, the stage of the cycle, the clocks | fetch, decode, execute | bus, interrupt return (fetch at 0xFFFF), every instruction | failing fetches, sleep, words that are no instruction | the clock advances whatever happens; every word is dispatched inside its table or refused |
| Register instructions, `Two_Operand_instructions.cpp`, `Single_Register_…instructions.cpp`, `XMakina_Emulator_entities.cpp` | register file, flags, the hidden `temp_reg_A` | ADD … SXT, `update_PSW` | called by execute | signed/unsigned and byte/word boundaries, decimal carry, stale `temp_reg_A` | results and flags agree with integer arithmetic |
| Branches, `Branching_instructions.cpp` | PC, LR | BL … BAL | reads the flags | signed conditions, signed offsets | a branch follows the order its name says, and BL comes back |
| Memory instructions, `Memory_access_instructions.cpp` | registers, MAR, MBR | LD, ST, LDR, STR | bus | the order of pointer and data; bytes and words; one register named twice | what is pushed is pulled, and the pointer comes back |
| Loader, `Loader.cpp` | file position, checksum, loaded address, program name | S0, S1, S9 records | memory, behind the cache | a load that stops half way; overlapping records; checksums | memory is what the file says, or the load is refused |
| Debugger menus, `debugger.cpp` | settings, clocks | toggles, loading and closing, editing memory and registers, testing an opcode | cache, memory, devices | services that go behind the cache or the devices | a service leaves the machine as if it had never had a cache; nothing of a closed program breaks the next |
| Breakpoints, `debugger.cpp:130-308`, `:847-895` | memory, cycle, branch and priority breakpoint, step, their counters, the ctrl-C flag | `breakpoint_menu`, `debugger_triggers` | after every round of the main loop; a signal at any time | early return at the first trigger leaves what is behind it; OFF is an address | a round breaks when what is set asks for it, and for nothing else |
| Main loop, `XMakina_Emulator.cpp` | `run_clk`, `system_status` | CPU cycle, device management, triggers, menu, signal | all | – | each round runs its parts in order, and ends in the menu when told |

`PROJECT.json` lists the hazards one by one, at their lines.

## 2. Modules

| Module | Contents | Code |
|---|---|---|
| `Words` | addresses, bytes and words; reading and writing either | `XMakina_Emulator_entities.h`, the union `memory_mode` |
| `FlatMemory` | abstract specification: one word per address, a read returns what was written last | what the machine promises its programs |
| `MemoryCache` | one action per bus access and per service that touches memory, lines or settings | `Memory_access_handling.cpp`, `Loader.cpp`, cache menu and memory editor of `debugger.cpp` |
| `CacheRecency` | `MemoryCache` with a history variable `before`: which words were accessed before which | the LRU bits, which are meant to stand for it |
| `MemoryCacheProofs` | lemmas and theorems about `MemoryCache`, the refinement of `FlatMemory` among them | |
| `CacheRecencyProofs` | what the LRU bits stand for | |
| `Devices` | the main loop: the CPU cycle as devices see it, ports, device management, interrupts | `CPU_operations.cpp`, `Device_Handling.cpp`, `device_memory_access` |
| `DevicesProofs` | lemmas and theorems about `Devices` | |
| `Alu` | every register instruction, the flags, the branch conditions | `Two_Operand_…`, `Single_Register_…`, `Branching_instructions.cpp` |
| `AluProofs` | what the instructions compute, at the code's width | |
| `Processor` | registers, stack, interrupt entry and return, fetch, LD, ST, LDR, STR and BL, at sixteen bits | `CPU_operations.cpp`, `Device_Handling.cpp:218-309`, `Memory_access_instructions.cpp` |
| `Instructions` | decoding of words and their execution, with the instructions of `Alu` | `decode` and `execute`, the bit fields of the headers |
| `PlainProgram` | abstract specification: a program on a machine without devices | what interrupts promise the program |
| `Machine` | a program in memory, run under interrupts between any two instructions | the main loop, `CPU_cycle` |
| `ProcessorProofs` | what an interrupt's entry and return do to the processor | |
| `MachineProofs` | decoding, pushing and pulling, and a program under interrupts | |
| `Loader` | S-records and their checksums | `Loader.cpp` |
| `LoaderProofs` | whole files arrive, and changed bytes are found | |
| `Debugger` | menus, breakpoints, triggers, ctrl-C | `debugger.cpp`, `XMakina_Emulator.cpp` |
| `DebuggerProofs` | theorems about `Debugger`, with those of `LoaderProofs` for its files | |
| `MCMemoryCache`, `MCCacheRecency`, `MCDevices`, `MCAlu`, `MCMachine`, `MCDebugger` | instances for TLC | |

Definitions that are not translations but plausible bugs carry the word
*mutant* in their comment. They are used nowhere; put in the place of the
definition they name, each makes a property of this project fail.

The same code appears at three depths. `Devices` knows *when* interrupts come
and what the queue does, and of the processor only who interrupted whom.
`Machine` knows every bit of registers, stack and memory, and leaves open when
interrupts come. `Alu` has the instructions at a width at which all operands
can be tried. `Machine` takes the instructions from `Alu`; that interrupts come
between instructions only is the order of the main loop, in both.

### MemoryCache

`bus()` runs to completion before anything else looks at memory, so an access
is one action, with its size (word or byte), kind (read or write) and data from
`\E`. Inside, the calls the policy makes to `memory_bus` are composed as
functions over a bus state in the code's order, with the corrections of the
comparison clock. `Candidates` is the search: the first hit, or else the first
line of the lowest age below the limit; when there is no such line the code
uses an uninitialised `cache_index`, and any slot stands for it. The page loop
of hybrid mapping visits `HYBRID_LINES_IN_PAGE + 1` lines, as the code's `<=`
says; the last page's fifth line is outside the array, and the constant
`Overrun` says what the bytes there may spell (they are other globals, so never
the address of a word the cache is asked for). Services:
`toggle_cache`, `change_cache_org`, `toggle_policy`, `loader`, `close_program`,
`change_mem_content` at the addresses in `Edited`, and the single-opcode test;
`Features` names those the user makes use of beyond loading and running. The
properties that relate lines to memory leave out the words memory is changed
behind the cache in (`Exposed`), and only those: `EditsContained` says that
nothing else goes stale. Not kept: the two clocks
themselves (unbounded, read by nothing here; only what one access adds is
computed) and MAR (set just before every call).

### Devices

`stage` is the place of the main loop: `FETCH` and `EXECUTE` are the two halves
of `CPU_cycle`, `INPUTS` the loop over due records, `0..N-1` the loop over
output devices, whose last step resets `run_clk`. The machine program is *any*
sequence of instructions: `compute`, `return`, `poll`, `write`, `control`,
`sleep` and `set_priority`, the last five as far as `Program`, `Controls` and
`Priorities` allow. So what holds holds for every program built from them.
A control byte is stored as it is written, all of its bits: `Controls` has the
bytes the program writes to each port, `Images` those the user gives a port, by
the program loaded or by the memory editor (`change_mem_content`). A byte may turn a
port round: a busy port that is made INPUT keeps its time left, which stands still
until it is turned back. `DirectionKept` names the programs that do not do that.
PC is kept as what interrupts tell apart: the main program, the routine of a
device, 0xFFFF (`RETURN`), any other odd address (`ODD`). At an odd address the
fetch either fails or, after a return inside the same fetch, executes an
arbitrary instruction of the program. The stack is the sequence of interrupt
frames; programs do not touch it. The cache is off, so an access costs three
ticks.

`close_program` stands for closing and loading another: memory and with it the
ports are new (`Images`), the registers cleared; time left, queue and device file
stay, as in the code. The
user's answer not to clear the registers is left out.

Bounds: `MaxClk`, where `sys_clk` saturates (no record is later, so a later
clock decides nothing), and `MaxFrames`, the stack depth beyond which a
*program* may not lower its priority (only that makes nesting unbounded).

### Alu

Instructions are operators from a machine to a machine; `cpu` holds registers,
flags and the high byte of `temp_reg_A`, which outlives an instruction and is
read by `XOR.B` and `BIT.B`. The width is a parameter, so that all operand
values can be tried. PSW as an operand is left out.

### Processor, Instructions, Machine

An operator takes a machine (registers, flags, the rest of PSW, `temp_reg_A`,
MAR, IX, memory, queue) to the machine after it; memory is flat (`cache_flat`
says it may be) and has the cells in use. `decode` and `execute` work on the bits
of IX. `Machine` runs them: `fetch_cycle`, `execute_cycle`, then any number of
interrupts of any devices, then the next round. The history `interrupted` is
the stack of machines that interrupts left. Two kinds of interrupt are left out.
One that would be queued above the priority of the *main* program cannot come
back to it as it was: what becomes of such is a subject of `Devices`
(`devices_return`). And before the program has set SP (`StackReady`) a frame
would go over the reset vector.

No instruction checks where SP points or what a routine writes to. `ProgramRules`
says what the machine asks of a program instead: it fetches from memory and works
on memory (`FetchRules`, `ExecuteRules`), names general registers (PSW as an operand
is left out), leaves the frames of those it has interrupted alone, and when a
routine returns, SP is back at its frame; before each interrupt there is room for a
frame, away from the vectors and below the frames there are (`StackRules`). The
rules speak of the next instruction in the present state, not of what
interrupts do. `TransparencyRules` adds what a program needs to be undisturbed.
`RelianceRules`: the main program lies at even addresses, fetches and loads no byte of
the stack below its SP, where interrupts leave what they like, raises SP over
such a byte only when it stores it, and does without `XOR.B`. `RoutineRules`: a routine
writes nothing that the main program sees, and gives R0 to R3 back. The run
`machine` checks that its program and routines keep all of these; the theorems assume
them of any.

`MainProgramUndisturbed` is the refinement: with `p` the main program's machine,
without what a program cannot rely on (`Forget`: the bytes below its SP, and the
high byte of `temp_reg_A`), every step of `Machine` is a step of `PlainProgram` or
a stutter. It is a safety property: an interrupt that falls between a routine's
last instruction and its return (section 3) leaves the machine at an odd PC, and
the main program, undisturbed, does not go on.

### Loader, Debugger

A record is what the parser reads from it. `Debugger` keeps of the machine what
triggers read: PC and PRIORITY, which a round may set to anything; and of
memory nothing. A file is loaded record by record, since PC and the name may be
changed by a load that is then refused. `debugger_triggers` is split at its
early returns: `memory_trigger`, `cycle_trigger`, `later_triggers`. The signal is an
action of its own, possible in menus and loader too. The history `seen` counts
rounds, and those of them that ended at the memory breakpoint, and remembers
whether the branch breakpoint has seen the present PC. The properties are stated on
PC and this history, not on `PC_check` and `cycle_count`; where the code does not do what the
source says of a breakpoint, the claim is a property too, and the run `debugger_told`
shows it violated (section 3).

## 3. What the runs check

| Run | What it asks | Result |
|---|---|---|
| `cache_settings` | direct and hybrid mapping, both policies, every toggle, load, close and access: `WriteThroughConsistent`, `ClockAccounting`, and the inductive invariant `CacheInvariant`, of which `CleanLinesConsistent` (a clean line equals memory) and `UniqueMapping` (no word is in two lines) are parts; and with an edited word and programs loaded over another `EditsContained` (only an edit or a load makes a clean line stale, no later access, replacement or setting spreads it, and a word write heals the word) | holds |
| `cache_flat` | under write-through, in every organisation: `ImplementsFlatMemory` (refinement, `flat <- View`), `ReadsReturnView` | holds |
| `cache_recency` | associative and hybrid mapping in whatever order, the page loop's overrun: `EvictsLeastRecent` (associative mapping replaces the least recently used word), `VictimExists` | holds |
| `devices_nesting` | three devices, four records, one routine on top of another, a machine that sleeps, a device file loaded again: `StackDiscipline`, `NestingOrder`, `QueueKeepsInterrupts`, and `QueueOutranked` (what waits does not outrank what runs) | holds |
| `devices_outputs` | transfers and inputs together, for programs that poll, write, switch interrupts, turn the output port INPUT and back by control bytes and change their own priority, and are closed, and their ports edited, at any time: `AnnouncedByTurning` (a transfer in progress is announced only by turning its port back, or by the user), and under fairness `InputsDelivered`, `OutputCompletes` | holds |
| `alu_exact` | carry and overflow chains, byte and word: `ArithmeticExact`, `UnsignedBranches`, `ByteKeepsHigh`, `RotationRestores`, `SignSurvives`, `XorSwaps`, and `DecimalExact`: DADD from every state, with digits of one bit | holds |
| `machine` | real instruction words, a subroutine, a byte on the stack, and two nesting routines that may come between any two instructions: `FramesIntact` (nobody touches a frame that is still to be pulled), `StackInverse` (a push and the opposite load undo each other), `DispatchInBounds` (all 65536 words), `ReturnResumes` (every return goes on with the next instruction of what was interrupted, with its PSW, LR and SP, and changes nothing else), `MainProgramUndisturbed` (refinement of `PlainProgram`); and `TransparencyRules`, what the theorems about the machine assume of a program (`ProgramRules`) and its routines | holds |
| `debugger` | every breakpoint, editing, loading and ctrl-C in any order: `BreaksAsSet` (the menu opens as the breakpoints are set, but for two kinds of round, said below), `CycleBreakLateByHits` (the cycle breakpoint is late by the rounds that ended at the memory breakpoint, and no others), `BranchSeesPC`, `CtrlCKept`, under fairness `CtrlCAnswered`; and of the loader `FilesLoadIntact`, `FilesVerified` | holds |

The other runs each show one disagreement between a comment of the source and
the code:

| Run | Disagreement |
|---|---|
| `cache_write_back_keeps` | write-back evicts a dirty line with `memory_bus(WRITE, WORD)`, its arguments swapped, which is a byte *read*: the data is lost (`Memory_access_handling.cpp:312`) |
| `devices_return` | a queued interrupt chosen at a return is judged by the priority of the ending routine and queued again; nothing is pulled, and PC runs on to an odd address (`Device_Handling.cpp:220`) |
| `alu_signed` | BGE and BLT test Z against V (`Branching_instructions.cpp:107-119`) |
| `debugger_told` | `BreaksAsTold`, what the source says of the breakpoints (`debugger.h:56-63`): a round opens the menu exactly when one that is on asks for it, or ctrl-C. OFF is 65535 in an unsigned short, the address a routine returns to, and `debugger_triggers` does not look whether the memory breakpoint is set (`debugger.cpp:849`): a round that ends there opens the menu with every breakpoint off |

`BreaksAsTold` fails in two more ways, which take longer traces. The program is to break
once the number of cycles set has run (`debugger.h:57`, `debugger.cpp:177-178`), but a round
that ends at the memory breakpoint is not counted (`debugger.cpp:849-853`):
`CycleBreakLateByHits` says by how much the break is late. And it is to break at every
jump (`debugger.cpp:182`), but `PC_check` is of another moment when PC was edited or loaded
after the toggle, or when the round before ended at an earlier trigger
(`debugger.cpp:850-860`): with 65535 taken out of `PCs` and 4 put in, the run shows a jump
that passes. `BreaksAsSet` says what is left when such rounds, and those that end at
0xFFFF with the breakpoint off, are set aside; `BranchSeesPC` says when `PC_check` is
right.

Other things met while modelling. They are in the model as the code has them;
no run is kept for them, and the properties above are checked where they do not
bite, as said here.

* The memory editor (`debugger.cpp:526`) and loading a program over another
  (`Loader.cpp:114`) write memory behind mapped lines, which then differ from it:
  `WriteThroughConsistent` and `CleanLinesConsistent` leave those words out
  (`Exposed`), and `EditsContained` shows how far the damage goes.
* Testing single opcodes before a program is loaded can leave a hybrid page
  without a line below the age limit, so that `cache_index` stays uninitialised
  (`Memory_access_handling.cpp:165`): with `"opcode_test"` in `Features`,
  `VictimExists` fails.
* `if (DBA = DISABLED)` assigns (`Memory_access_handling.cpp:82`): a write to a
  busy output port never sets OV.
* An interrupt between a routine's last instruction and the fetch at 0xFFFF
  saves 0xFFFF as the PC to return to; its own return then runs on to an odd
  address (`Device_Handling.cpp:226`). `StackDiscipline` holds all the same.
* While SLP is set nothing advances the clock, so no record becomes due and no
  device wakes the machine (`CPU_operations.cpp:45`). `InputsDelivered` is
  checked without `sleep`.
* `device_init` does not reset `input_file_EOF` (`Device_Handling.cpp:76`,
  `:116`): after the end of one device file, another is not read.
  `InputsDelivered` is checked for one file.
* BN tests Z (`Branching_instructions.cpp:95`).
* A program that turns a busy OUTPUT port INPUT holds its transfer up, and if it
  turns it back with DBA set, announces as ready what is not
  (`Memory_access_handling.cpp:38-48`, `:90`). `AnnouncedByTurning` and `OutputCompletes` say so;
  for programs that keep the direction of their ports `BusyOutputNotReady` is proved.
* The page loops of hybrid mapping run over five lines where their comment says four
  (`Memory_access_handling.cpp:217`, `:233`): an access may use or age a line of the next
  page, or one behind the array. `VictimExists` and `ImplementsFlatMemory` are checked with
  this loop.
* With SP odd, after a byte push, a frame lies on whole words, and a byte that the
  routine then pushes overwrites half of the saved LR (the bus drops the lowest
  bit of a word's address). The routines of `MCMachine` save whole words.
* `LD` and `ST` with an action that has no meaning return `PROCESS_FAILURE`, which
  `CPU_cycle` does not look at.
* An interrupt that finds the program before it has set SP pushes its frame to
  the end of memory, where the reset vector is.
* The checksum of a record takes in the data of S1 records only (`Loader.cpp:97-117`): of an S9
  record a changed data byte is not noticed, nor is it used.
* A name that is shorter than the one loaded before it leaves the end of the
  longer (`Loader.cpp:120`), unless the program was closed.
* A program closed in a routine, its registers kept, leaves LR and PRIORITY to
  the next (`debugger.cpp:611`); a transfer and the queue are left to it always,
  where `clear_emulation_properties` speaks of a clean slate (`debugger.cpp:899`).
* The help text gives `O` for the cycle breakpoint (`debugger.cpp:176`), the code
  takes `C` (`debugger.h:39`).
* `XOR.B` stores the high byte an earlier instruction left in `temp_reg_A`
  (`Two_Operand_instructions.cpp:254`). `ByteKeepsHigh` leaves XOR out.

### Bounds, and why they are enough

* **Cache.** `cache_settings` and `cache_flat`: two lines for four words (word 0
  is a port), so that every line can be hit, missed, replaced, dirtied and fought
  over by two words. Bytes are bits; the data word has two different bytes and
  memory starts as zero, so byte and word accesses, and the halves, are told
  apart. `cache_recency`: two pages of two lines for six words besides the port,
  three to a page. A page can be full and replace; associative mapping has four
  lines for six words, so there is a victim and an order of the survivors; and
  two pages show both the overrun into the next page and the one behind the
  array. The data is one value there, as no property of that run reads it.
  `Edited` is one byte address in `cache_settings`: the words no edit and no load
  touches show what these leave alone.
* **`Overrun`.** The line behind the array may look as young or as old as a line
  can; it never looks mapped to a word.
* **Devices.** Two or three devices, and records timed to fall in the first
  instructions, in a routine, between the routine's last instruction and its
  return, and in the routine entered there. A processing time of 10 lies
  between one instruction (6 to 9 ticks) and two. Vector priorities fall with
  the device number, so that a late record can preempt, an early one must wait,
  and the queue's loop, which goes the other way, has a choice to make.
  `MaxClk` lies behind the last record; `MaxFrames` allows a routine on
  top of a routine at which a program still lowers its priority.
  In `devices_outputs` the output device has IE set, since the completion interrupt
  is the longer way; a control byte gives it either direction and either DBA bit, and a
  port that the user changes, or the next program brings, has DBA set.
* **Alu.** `alu_exact`: two-bit bytes, four-bit words, every register content and
  flag that programs reach; the largest and smallest number of either sign
  occur. A decimal digit has one bit there and base 2, so that the run shows DADD's
  carries from digit to digit and its byte and word forms, but not the correction
  by 6, which is `DecimalExactHolds` of `AluProofs`, in base 10.
* **Machine.** `MaxInterrupts` = 2 routines are entered in all, wherever in the
  program: one in the other, or one after the other. Device 3 outranks device 0,
  and device 5 only ever waits. The program runs its loop to the end and over
  again, so that each of its instructions is interrupted in each state it can
  have; the words it consists of are the code's own encoding.
* **Debugger.** PC takes values in sequence, out of it, 0xFFFE and 0xFFFF; the
  memory breakpoint is entered even, odd and too large; the cycle breakpoint
  negative, zero and three. `MaxHits` memory breakpoints may come while a cycle
  breakpoint is set. The file has overlapping records, one of a kind the loader
  skips, and a start address whose two bytes differ; the other ends in something
  else. `FilesVerified` tries every other value of every byte. `debugger_told` has the
  same instance with fewer values: its counterexample is a load and one round.

### Fairness

`FairSpec` is weak fairness of one step of the main loop, CPU cycle or device
management: `main` loops until the user quits, and some step of it is always
possible. Nothing is assumed of the machine program (it may compute forever) or
of the user, save that the menu is left again. `OutputCompletes` therefore has
to allow a program that restarts its transfer forever, or has the port INPUT again
and again, and `InputsDelivered` a user who closes programs forever; it is stated of
programs that do not sleep.

`FairSpec` of `Debugger` is weak fairness of `round`: while no menu is open, `main`
goes round. That a user leaves a menu, or the signal comes, is not assumed.

## 4. Proofs

TLAPS checks the theorems for every value of the constants that satisfies the
named assumptions (`CacheAssumption`, `MenuAssumption` and `OverrunAssumption` in `MemoryCache`,
`AddressAssumption` and `ByteAssumption` in `Words`, `DeviceAssumption` in
`Devices`, `CellsAssumption` in `Processor`, `LoaderAssumption` and
`DebuggerAssumption` in the modules they name, `AluAssumption`, `MachineAssumption`; TLC
evaluates them in the runs). What a theorem asks beyond them stands in its
ASSUME, or before the `=>` of its statement, and is said here.

**`MemoryCacheProofs`**, for any number of lines, lines in a page, words and
byte values, and whatever lies behind the array:

* `TypeCorrect`: `TypeOK`. The ages need an argument of their own: a hit makes
  one line the youngest and decrements only those above its old age.
* `CacheInvariantHolds`: `CacheInvariant`. `WriteThroughConsistent` is not
  inductive. What keeps it is that a cache that is on is blank until a program
  is loaded (so a first load, which writes memory only, hurts no line), that a
  mapped word is only ever in a line where the search of the current
  organisation looks (so a miss is a miss, and a second copy never arises), and
  that a *clean* line equals memory under either policy (a change of policy
  blanks the lines, and so does a change of organisation).
* `WriteThroughCorrect`, `CleanLinesCorrect` and `UniqueMappingCorrect` follow from
  it.
* `ReadsCorrect`: in direct and associative mapping a read returns what the
  machine holds: the search ends on the line that maps the word, or none does
  (`CacheInvariant`), and a policy's read gives the line's word or memory's
  (`PolicyReads`, `AccessReads`).
* `TransparentHolds` and `FlatMemoryImplemented`: under write-through, with no
  service that changes memory behind the cache (`WriteThroughOnly`), every step is a
  step of `FlatMemory` or a stutter, in all three organisations. What is abstract is
  `View`, the line's word where there is a line and memory's otherwise; `Transparent`
  says that both are the same, so that an access has to be followed in memory
  only. Hybrid mapping needs this too: its search may end on a line of the next
  page, and it does not matter which line it is, as every mapped line agrees with
  memory.
* `EditsStayContained`: `EditsContained`, an action property, under either policy.
  Of the lines that an access does not use nothing but the age changes, and the line
  it uses ends up dirty or agrees with memory.
* `ClockAccountingCorrect`: the sum of both clocks grows by one memory access in
  each branch of each policy (`Total…`, `AccessTotal`); it needs no assumption.

The argument goes by layers: lemmas on bytes and words (`GetPutType`), on one
call of `memory_bus` and on a line's read and write (`BusStep`, `LineStep`,
`ReadLineStep`, `WriteLineStep`, `ServiceDirtyStep`), on each policy
(`WriteThroughStep`, `WriteBackStep`), on the search and the ages (`SearchStep`,
`AgedStep`), on each organisation (`DirectServes`, `AssociativeServes`,
`HybridServes`), on the menu (`ServiceType`, `ServiceInvariant`). The theorems from
`CacheInvariantHolds` on assume `"opcode_test" \notin Features` (but for
`ClockAccountingCorrect`): an opcode tested before a program is loaded leaves
lines behind that a first load then makes stale. The memory editor and later
loads are covered: of the words they touch the invariant says nothing.

**`CacheRecencyProofs`**, for any cache of at least two lines, or with pages of at
least two, without `opcode_test`. The ages alone say too little to be inductive, since lines
may share one. The argument goes by rankings, one-to-one maps from a group of lines to the ages there can be.

* `VictimAlwaysExists`: `VictimExists`. The inductive form `AgesBounded` says that some
  ranking lies above the ages of each group of lines (the whole cache in associative
  mapping, each page in hybrid mapping). A search can then not fail: some line has
  rank 0, hence age 0. A hit or fill moves its line to the top of the ranking and the
  others down by one. It holds although the page loop ages lines of the next page:
  ages only fall there.
* `EvictionCorrect`: `EvictsLeastRecent`. The stronger `AgesTell` says that in associative
  mapping the ages of the mapped lines *are* a ranking, that blank lines rank below
  them, and that a lower age was accessed before a higher one.

**`DevicesProofs`**, for any number of devices, device file, processing times,
vector priorities and program:

* `InvariantHolds`: types, and `Linked`, the frames as a stack on top of the main
  program. The two need each other: only a processor whose frames are linked
  pulls a frame that is there, and only typed frames stay linked.
* `TypeCorrect` and `StackCorrect` follow.
* `NestingCorrect`: only a lower priority is interrupted, and `prev_PRIORITY`
  agrees with the PSW in the frame below. It assumes `Priorities = {}`: a routine
  that lowers its own priority lets a lower one in.
* `QueueOutrankedCorrect`: a queued interrupt does not outrank the code that runs.
  It assumes `Priorities = {}` too, and `"close_program" \notin Services`: closing a
  program resets PRIORITY and leaves the queue. It is proved together with
  `NestingOrder`, because what a return goes back to is prev_PRIORITY.
* `BusyOutputCorrect`: `BusyOutputNotReady`, for programs that keep the direction of their
  ports (`DirectionKept`, a hypothesis inside the property), from the strengthening
  `Quiet`: the port of an output device stays an OUTPUT port too. What an action does to
  a port is said once, in `Follows`.
* `AnnouncedCorrect`: `AnnouncedByTurning`, an action property, for every program, control
  byte and edit; from `Follows` too.
* `QueueCorrect`: `QueueKeepsInterrupts`, an action property.

What an action does to the processor it does by an interrupt, a return, a move
of PC in the current routine or a bit of PSW. The lemmas `Entering`, `Queueing`,
`Pulling`, `Returning`, `Moving` and `Flagging` show that each keeps the
invariants of a processor state (`Keeps`); `CpuStep` collects the actions.

**`ProcessorProofs`**, at the code's width: `PSWRoundTrip`, a PSW as a word and its
fields are the same thing; and `ReturnRestores`, the heart of
`MainProgramUndisturbed`: whatever a routine did to registers, flags and other
memory, if SP is back at the frame and the three words are untouched, the return
restores PC, LR, SP and PSW, wherever the stack lies, the ends of memory and odd
addresses included.

**`AluProofs`**, for all operands, registers and programs at the code's width
(`CodeWidth`: bytes of eight bits, decimal digits below ten):

* `TypeCorrect`: results, flags and the hidden high byte keep their width.
* `ArithmeticExactHolds`, `UnsignedBranchesHold`: sums, differences, carries and overflow
  as in integer arithmetic, and the branches after CMP. `Sum` splits a sum into its
  low part and its carry; the flags follow by cases on the signs.
* `ByteKeepsHighHolds`, `XorSwapsHolds`: what a bitwise operation does is told by the
  bits of its result, and a number is determined by its bits (`BitsDetermine`).
* `DecimalExactHolds`: DADD of decimal digits, from digit to digit with its carry.
* `HighByteUnread`: but for `XOR.B`, no instruction of two operands lets the high byte
  found in `temp_reg_A` into a register or a flag; `HighByteUnreadAlone` says it of
  those of one register.
* `RotationRestoresHolds`, `SignSurvivesHolds`. Repeated rotation is a recursive function,
  unfolded one step at a time from the existence of such a function. With
  register and C as one number r of n = 17 or 9 bits, twice the next is r plus its
  lowest bit times 2^n - 1; after n rotations r is back up to a multiple of 2^n - 1,
  which leaves no choice. The sign is an argument on halving.

**`LoaderProofs`**, for files of any length with records of any length and overlap:

* `WholeFileLoaded`: every byte of memory is what the last record that speaks of
  it says.
* `CorruptionFound`: if one byte of a record of code or of the start address is changed,
  the load stops there with `CHECKSUM_ERROR`, and memory, where that record says
  nothing, is what the file has up to it. `AddressChecked` is the part that concerns
  the address alone.

`loader` and the sum of a record are recursive functions, which TLA+ takes to be any
function that satisfies the recursion; that there is one is proved first
(`StepsExist`, `SumsExist`), and induction goes by the least counterexample
(`LeastElement`), as the library's induction rules cannot be used here.

**`DebuggerProofs`**, for any files, any PC and PRIORITY, any entries of the user and
any `MaxHits`: `DebuggerTypeCorrect`; `CycleBreakpointLateByHits`, whose invariant ties the
count to the rounds; `BranchBreakpointSeesPC`; from both `BreaksWhereSet`, the
action property `BreaksAsSet` with the two exceptions it names; `CtrlCNotLost`; and `FilesAreLoaded` and `FilesAreVerified`, from
`LoaderProofs`, for the loader the menu calls.

**`MachineProofs`**, for any memory image, devices, priorities and stack:

* `DispatchInBoundsHolds`: for all 65536 words, by the bit fields of `decode`. The
  statement is about `decode` alone and needs no hypothesis.
* `StackInverseHolds`: in a typed state in which the words around SP are memory
  (`StackRoom`) a push and the opposite load undo each other.
* `IInvHolds`, `TypeCorrect`, `FramesStayIntact` and `ReturnsResume`, each of the form
  `Spec /\ []ProgramRules => ...`: for any program that keeps the rules of section 2,
  however interrupts fall and nest, none being queued above the main program's
  priority (the guard of `interrupt`, section 2).
* `InterruptsTransparent`: `Spec /\ []TransparencyRules => MainProgramUndisturbed`, the
  refinement: such a program goes through the same machines as without devices,
  with the same restriction.

`FramesIntact` is not inductive; `IInv` is `TypeOK` and `Stacked`, five facts about the
machines that interrupts left:

* `Framed`: every frame is in memory and holds what its entry pushed. The entry
  writes it (`EntryKeeps`), an instruction leaves it alone by the rules.
* `Nested`: each frame lies below the one before it, so that a new entry does not
  write over an old frame.
* `Ranked`: priorities rise from the main program to the running routine, and each
  PSW has the priority before it in `prev_PRIORITY`.
* `Queued`: nothing waits in the queue that outranks the main program.
* `Awake`: nobody on the stack sleeps, so the PSW word that a return pulls has SLP 0.

A return looks into the queue first, and pulls nothing if something there outranks
`prev_PRIORITY`. `Ranked` and `Queued` say that none does
(`NobodyWaits`); so it pulls, and `Framed` with the rule about SP gives back the
registers (`ReturnKeeps`, on `ReturnRestores`). That every instruction keeps the types
(`ExecuteRuns`) rests on `AluProofs`, instantiated at eight bits, and on a lemma
for each memory instruction. That the hypothesis can be met, and by a program with
a subroutine and nested routines, is what the run `machine` shows: `TransparencyRules`
is one of its invariants.

`InterruptsTransparent` needs one more invariant, `SeenSame`: the bytes of memory that
live (that are not in the stack below the SP of the main program, byte by byte since SP
may be odd) are those the main program left. It is kept because
frames are nested below that SP (`EntryHidden`) and routines write nothing the
program sees. The step of the refinement (`StepMaps`) then has these cases:

* An instruction of the main program (`ExecuteSteps`). Two machines with the same
  registers, PSW and living bytes, but different dead bytes and `temp_reg_A`, go
  on with the same registers, PSW and living bytes (`ExecuteAlike`,
  `ExecuteMaps`): loads take living bytes only, and for the rest `HighByteUnread` holds.
  A dead byte that comes to life is stored in both by the same instruction.
* A fetch by which the main program goes on (`FetchSteps`): its own, or the one
  that ends the outermost routine, where `ReturnResumes` gives PC, LR, SP and PSW, the rule
  R0 to R3, and `SeenSame` the memory.
* An entry, a priority noted in the queue, or a step of a routine: a stutter.

`PlainProgram` has the machine's operators under names of its own; that they are the
same (`PlainExecute`) is proved by unfolding both.

The rule about even addresses speaks of the fetches by which the main program goes
on, not of every fetch: an interrupt between a routine's last instruction and its
return leaves the return address 0xFFFF in its frame, and the return to it
fetches at that odd address.

**Only model-checked.**

* `OutputCompletes`, `InputsDelivered`, `CtrlCAnswered`: liveness under fairness is out of
  the prover's reach.
* `TransparencyRules` (and `ProgramRules`, its part) is a statement about a program and its
  routines, not about the machine: each program has its own check.

Every other property of the passing runs is proved, under the hypotheses named here.

## 5. Abstractions, and what is not modelled

* PSW as an operand of an instruction: a program reads flags by branching and, in
  `Devices`, sets PRIORITY and SLP by actions of their own.
* In `MemoryCache` an access has any address; in `Devices` an instruction is one of
  `Program`.
* The bytes that devices transfer, and the time stamps of the output file.
* The text of S-records (their hexadecimal digits), records that run past the end
  of memory, names longer than `program_name`. In `MemoryCache`, `loader` writes any of
  a set of images, and may stop after any.
* The debugger's views and prompts: pure output.
* Closing a program without clearing the register file, in `Devices`; `Debugger`
  has both answers.
* The parsing of the device file and file errors. A device file is a sequence of
  records in the order of time, as the sample files are.
* In `Machine`, the cache, ports and clocks: its program touches no port. In
  `Devices`, the cache: an access costs three ticks and pushes and pulls do not age
  lines. In `MemoryCache`, the ports: a read of one gives any word.
* A program loaded over another without closing it, in `Devices`, is what it does to
  the ports, as edits of them; that it moves PC, possibly within a routine, is left out.
* A word at an odd address, met after a return that pulls nothing, is any
  instruction of the program.
* An uninitialised `cache_index` is any slot, the array's neighbours being
  modelled by `Overrun` only where the code's own loop reaches them.

## 6. Plan

Done in this order, the most important behaviour first: `Words`, `FlatMemory`,
`MemoryCache`, `MemoryCacheProofs`, `Devices`, `DevicesProofs`, `Alu`,
`CacheRecency`, `Processor`, `Instructions`, `Machine`, `Loader`, `Debugger` and
their proofs (`CacheRecencyProofs`, `AluProofs`, `LoaderProofs` and `MachineProofs` last). Left:

1. PSW as an operand, in `Instructions`.
2. The device file's lines that do not parse, and files that cannot be opened, as
   actions of `Devices`.
3. Cache and machine together: frames pushed and pulled through lines.
