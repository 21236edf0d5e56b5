------------------------------ MODULE Machine ------------------------------
(***************************************************************************)
(* A program in memory, run instruction by instruction under interrupts:   *)
(* CPU_cycle of CPU_operations.cpp with fetch and execute as steps of      *)
(* their own, and the interrupts that device_management raises after it.   *)
(*                                                                         *)
(* When a device interrupts is left open: any device may after any cycle.  *)
(* Left out are the interrupts that would wait in the queue above the      *)
(* priority the main program runs at: what becomes of those is a subject   *)
(* of Devices.                                                             *)
(***************************************************************************)
EXTENDS Instructions, Functions

CONSTANTS
  Image,           \* memory after loading, by cell
  Start,           \* the address of the S9 record
  BasePriority,    \* PRIORITY the main program runs at
  StackCells,      \* the cells the stack of the program may take
  MaxInterrupts    \* bound on how many interrupts enter their routines

ASSUME MachineAssumption ==
  /\ Image \in [Cells -> WordValues]
  /\ Start \in WordValues
  /\ BasePriority \in 0..7
  /\ StackCells \subseteq Cells
  /\ MaxInterrupts \in Nat

FETCH   == "fetch"
EXECUTE == "execute"
DEVICES == "devices"

VARIABLES
  stage,           \* where the main loop is
  m,               \* the machine
  interrupted,     \* history: the machines that interrupts left, outermost first
  entered          \* how many routines have been entered

vars == <<stage, m, interrupted, entered>>

Init ==
  /\ stage = FETCH
  /\ m = [REG |-> [r \in Registers |-> IF r = PC THEN Start ELSE 0],
          PSW |-> [C |-> 0, Z |-> 0, N |-> 0, V |-> 0],
          mode |-> [SLP |-> 0, PRIORITY |-> BasePriority, res |-> 0, prev_PRIORITY |-> 0],
          high |-> 0, MAR |-> 0, IX |-> 0, mem |-> Image, queue |-> [d \in Dev |-> INT_OFF]]
  /\ interrupted = << >>
  /\ entered = 0

Outer == SubSeq(interrupted, 1, Len(interrupted) - 1)

\* The first half of CPU_cycle; a sleeping machine and a failing fetch have no other.
fetch_cycle ==
  /\ stage = FETCH
  /\ IF m.mode.SLP = 0 /\ Fetches(m)
     THEN /\ m' = fetch(m)
          /\ interrupted' = IF Returns(m) /\ Waiting(m) = {} THEN Outer ELSE interrupted
          /\ stage' = EXECUTE
     ELSE /\ stage' = DEVICES
          /\ UNCHANGED <<m, interrupted>>
  /\ UNCHANGED entered

execute_cycle ==
  /\ stage = EXECUTE
  /\ m' = execute(m)
  /\ stage' = DEVICES
  /\ UNCHANGED <<interrupted, entered>>

Main == IF interrupted = << >> THEN m ELSE interrupted[1]

\* A program enables its devices when it has set up its stack.
StackReady == WORD_ADDR_CONV(m.REG[SP]) \in StackCells

interrupt(d) ==
  /\ stage = DEVICES
  /\ StackReady
  /\ Preempts(m, d) => entered < MaxInterrupts
  /\ Preempts(m, d) \/ VectorPriority(m, d) <= Main.mode.PRIORITY
  /\ m' = interrupt_handling_process(m, d)
  /\ IF Preempts(m, d)
     THEN interrupted' = Append(interrupted, m) /\ entered' = entered + 1
     ELSE UNCHANGED <<interrupted, entered>>
  /\ UNCHANGED stage

devices_done ==
  /\ stage = DEVICES
  /\ stage' = FETCH
  /\ UNCHANGED <<m, interrupted, entered>>

Next == fetch_cycle \/ execute_cycle \/ (\E d \in Dev : interrupt(d)) \/ devices_done

Spec == Init /\ [][Next]_vars

-----------------------------------------------------------------------------
(***************************************************************************)
(* What the machine asks of a program, which no instruction enforces.      *)
(***************************************************************************)

Last == interrupted[Len(interrupted)]

\* Where SP is after the entry that interrupted n, and the cells of its frame.
Bottom(n)  == n.REG[SP] - 3 * WORD_STEP
FrameOf(n) == {WORD_ADDR_CONV(n.REG[SP] - k * WORD_STEP) : k \in 1..3}

\* The registers that a word names as operands.
Named(IX) ==
  LET type  == decode(IX)
      inst  == Instruction(IX)
      plain == type \in {"branch_with_link", "conditional_branch"} \/ inst = INVALID_INST
      single == type \in {"single_register", "register_initialization"}
      constant == type = "two_operand" /\ Field(IX, 7, 1) = A!CONSTANT_ /\ inst # "SWAP"
  IN  (IF plain THEN {} ELSE {Field(IX, 0, 3)})
        \cup (IF plain \/ single \/ constant THEN {} ELSE {Field(IX, 3, 3)})

\* It fetches from memory, and returns only from a routine, with SP back at the frame.
FetchRules ==
  stage = FETCH /\ Fetches(m) =>
    /\ Returns(m) => interrupted # << >> /\ m.REG[SP] = Bottom(Last)
    /\ WORD_ADDR_CONV(fetch(m).MAR) \in Cells

\* It names general registers, works on its memory, and a routine leaves alone the
\* frames of those it has interrupted.
ExecuteRules ==
  stage = EXECUTE =>
    LET after == execute(m)
    IN  /\ Named(m.IX) \subseteq Registers
        /\ WORD_ADDR_CONV(after.MAR) \in Cells
        /\ \A i \in DOMAIN interrupted : \A w \in FrameOf(interrupted[i]) :
             after.mem[w] = m.mem[w]

\* There is room for another frame, away from the vectors, and a routine's stack lies
\* below its own.
StackRules ==
  stage = DEVICES /\ StackReady =>
    /\ m.REG[SP] >= 3 * WORD_STEP /\ FrameOf(m) \subseteq StackCells
    /\ \A d \in Dev : VectorPSW(d) \notin FrameOf(m)
    /\ interrupted # << >> => m.REG[SP] <= Bottom(Last)

ProgramRules == FetchRules /\ ExecuteRules /\ StackRules

\* The bytes of the stack below the pointer of n, where interrupts leave what they like,
\* and the bytes that the memory access of n ending in "after" takes.
Dead(n, a) == WORD_ADDR_CONV(a) \in StackCells /\ a < n.REG[SP]

Accessed(n, after) ==
  LET first == 2 * WORD_ADDR_CONV(after.MAR)
  IN  IF Field(n.IX, 6, 1) = WORD THEN {first, first + 1} ELSE {after.MAR}

\* The code of the main program lies at even addresses and not there; it reads no such
\* byte, brings none above SP but those it stores with the same instruction, and does
\* without the byte form of XOR, which stores a part of temp_reg_A.
RelianceRules ==
  /\ stage = FETCH /\ Fetches(m) /\ (IF Returns(m) THEN Outer ELSE interrupted) = << >> =>
       LET n == fetch(m) IN n.MAR % 2 = 0 /\ ~Dead(n, n.MAR)
  /\ stage = EXECUTE /\ interrupted = << >> =>
       LET after == execute(m)
           inst  == Instruction(m.IX)
       IN  /\ inst = "XOR" => Field(m.IX, 6, 1) = WORD
           /\ inst \in {"LD", "LDR"} => \A a \in Accessed(m, after) : ~Dead(m, a)
           /\ \A a \in after.REG[SP]..(m.REG[SP] - 1) : Dead(m, a) =>
                inst \in {"ST", "STR"} /\ a \in Accessed(m, after)

\* The memory of n as the main program sees it.
Seen(n) == Forget([Main EXCEPT !.mem = n.mem], StackCells).mem

\* A routine changes nothing that the main program sees, and gives R0 to R3 back.
RoutineRules ==
  interrupted # << >> =>
    /\ stage = EXECUTE => Seen(execute(m)) = Seen(m)
    /\ stage = FETCH /\ Returns(m) /\ Outer = << >> => \A r \in 0..3 : m.REG[r] = Main.REG[r]

TransparencyRules == ProgramRules /\ RelianceRules /\ RoutineRules

-----------------------------------------------------------------------------
\* Registers, flags and words keep their width, and every address a program forms
\* lies in the cells of the instance.
TypeOK ==
  /\ m \in Machines
  /\ WORD_ADDR_CONV(m.MAR) \in Cells \cup {0}
  /\ stage \in {FETCH, EXECUTE, DEVICES}
  /\ interrupted \in Seq(Machines)
  /\ entered \in 0..MaxInterrupts

\* While a routine runs, nothing on top of the stack reaches down into the frame
\* its return will pull: the words the entry pushed are still there, for every
\* routine on the stack, and at the end of a routine SP is back at its frame.
FramesIntact ==
  \A i \in DOMAIN interrupted :
    LET old == interrupted[i]
        Slot(k) == m.mem[WORD_ADDR_CONV(Wrap(old.REG[SP] - k * WORD_STEP))]
    IN  /\ Slot(1) = old.REG[PC]
        /\ Slot(2) = PSWWord(old.PSW, old.mode)
        /\ Slot(3) = old.REG[LR]
        /\ (i = Len(interrupted) /\ stage = FETCH /\ Returns(m))
             => m.REG[SP] = Wrap(old.REG[SP] - 3 * WORD_STEP)

\* Every return, however deep, resumes what its interrupt left: the next instruction
\* of the interrupted code, with its PSW, LR and SP, and nothing else of the machine
\* changes.  As long as no interrupt is queued above the priority of the main
\* program: the guard of interrupt leaves those out, and a return that finds one
\* resumes nothing (ReturnServicesQueue of Devices).
ReturnResumes ==
  [][stage = FETCH /\ Returns(m) =>
       LET old == Last
       IN  /\ m'.IX = m.mem[WORD_ADDR_CONV(old.REG[PC])]
           /\ m'.REG = [m.REG EXCEPT ![PC] = Wrap(old.REG[PC] + WORD_STEP),
                                     ![LR] = old.REG[LR], ![SP] = old.REG[SP]]
           /\ m'.PSW = old.PSW /\ m'.mode = old.mode
           /\ m'.mem = m.mem /\ m'.queue = m.queue
           /\ interrupted' = Outer]_vars

\* What is pushed with a pre-decrement is what a load with a post-increment takes,
\* and the pointer comes back; so for the other pair.  A byte comes back into the
\* low half of its register and disturbs the other half of neither the register
\* nor the word in memory.
StackInverse ==
  /\ interrupted = << >> /\ stage = FETCH
  /\ StackReady
  => \A size \in {WORD, BYTE}, r \in 0..LR,
       pair \in {<<PRE_DECREMENT, POST_INCREMENT>>, <<POST_DECREMENT, PRE_INCREMENT>>} :
       LET pushed == ST(m, pair[1], size, r, SP)
          gone   == [pushed EXCEPT !.REG[r] = A!Replace(@, 0, size)]
          a      == Address(m.REG[SP], pair[1], size)
      IN  /\ LD(gone, pair[2], size, SP, r).REG = m.REG
          /\ \A other \in {a - 1, a + 1} : size = BYTE =>
               BusRead(pushed, Wrap(other), BYTE) = BusRead(m, Wrap(other), BYTE)

\* Every word decodes to an entry inside its array of functions or is refused, and
\* every instruction has an opcode.
DispatchInBounds ==
  Init =>
    /\ \A IX \in WordValues :
         LET type == decode(IX)
         IN  ~Refused(type, Index(type, IX)) => Index(type, IX) + 1 \in DOMAIN Table(type)
    /\ UNION {Range(Table(type)) : type \in {decode(IX) : IX \in WordValues}}
         \subseteq {Instruction(IX) : IX \in WordValues}

-----------------------------------------------------------------------------
\* The main program as it sees itself.
Visible(n) == [Forget(n, StackCells) EXCEPT !.queue = [d \in Dev |-> INT_OFF]]

MainStage == IF interrupted = << >> /\ stage = EXECUTE THEN EXECUTE ELSE FETCH

Undisturbed == INSTANCE PlainProgram WITH p <- Visible(Main), step <- MainStage

\* Interrupts are transparent: whenever the devices interrupt, the main program
\* computes, instruction by instruction, what it computes on a machine without
\* devices.  The guard of interrupt leaves out one kind: those that are queued above
\* the priority of the main program, which it would not come back from.
MainProgramUndisturbed == Undisturbed!Spec
=============================================================================
