----------------------------- MODULE Processor -----------------------------
(***************************************************************************)
(* The registers of the machine and what interrupts, fetches and memory    *)
(* instructions do with them and with memory, at the width of the code     *)
(* (CPU_operations.cpp, Device_Handling.cpp, Memory_access_instructions.cpp*)
(* and the branches of Branching_instructions.cpp).                        *)
(*                                                                         *)
(* Every operator takes a machine m and gives the machine after it:        *)
(*                                                                         *)
(*   [REG |-> R0..R3, LR, SP and PC, by number,                            *)
(*    PSW |-> the flags, mode |-> the rest of PSW,                         *)
(*    high |-> high byte of temp_reg_A, MAR, IX, mem, queue]               *)
(*                                                                         *)
(* REG[6] is PSW and kept in its parts; instructions that name it as an    *)
(* operand are left out.  Memory is flat, as the module MemoryCache shows  *)
(* it to be when the memory editor leaves it alone, and has the words a    *)
(* program touches: none of them a device port.  The clocks are in Devices.*)
(***************************************************************************)
EXTENDS Integers

CONSTANTS
  Cells,           \* addresses of the words of memory in use
  Dev              \* the devices in use, numbered as in the code

LAST_BYTE == 65535
LAST_WORD == 32767
WORD_STEP == 2
INT_OFF   == -1

WORD == 0
BYTE == 1

LR == 4
SP == 5
PC == 7
Registers == 0..5 \cup {PC}

WordValues == 0..LAST_BYTE

\* DEV_INT_VECT_PSW_WORD and DEV_INT_VECT_PC_WORD.
VectorPSW(d) == LAST_WORD - 31 + 2 * d
VectorPC(d)  == VectorPSW(d) + 1

ASSUME CellsAssumption ==
  /\ Dev \subseteq 0..7
  /\ Cells \subseteq 8..LAST_WORD
  /\ \A d \in Dev : {VectorPSW(d), VectorPC(d)} \subseteq Cells

Modes == [SLP : 0..1, PRIORITY : 0..7, res : 0..31, prev_PRIORITY : 0..7]
Flags == [C : 0..1, Z : 0..1, N : 0..1, V : 0..1]

Machines == [REG : [Registers -> WordValues], PSW : Flags, mode : Modes, high : 0..255,
             MAR : WordValues, IX : WordValues, mem : [Cells -> WordValues],
             queue : [Dev -> {INT_OFF} \cup 0..7]]

Wrap(x)            == x % 65536
Field(x, bit, n)   == (x \div 2^bit) % 2^n
Extended(x, n)     == IF x < 2^(n - 1) THEN x ELSE x - 2^n
WORD_ADDR_CONV(a)  == a \div 2

\* The bits of PSW_reg_format.
PSWWord(PSW, mode) ==
  PSW.C + 2 * PSW.Z + 4 * PSW.N + 8 * mode.SLP + 16 * PSW.V
    + 32 * mode.PRIORITY + 256 * mode.res + 8192 * mode.prev_PRIORITY

FlagsOf(w) == [C |-> w % 2, Z |-> (w \div 2) % 2, N |-> (w \div 4) % 2, V |-> (w \div 16) % 2]
ModeOf(w)  == [SLP |-> (w \div 8) % 2, PRIORITY |-> (w \div 32) % 8,
               res |-> (w \div 256) % 32, prev_PRIORITY |-> w \div 8192]

-----------------------------------------------------------------------------
\* The bus, without cache and devices: what a read puts into MBR, and memory
\* after a write.
BusRead(m, a, size) ==
  LET w == m.mem[WORD_ADDR_CONV(a)]
  IN  IF size = WORD THEN w ELSE IF a % 2 = 0 THEN w % 256 ELSE w \div 256

\* Mutant of BusWrite: a byte for the high half keeps the high byte it came with.
WriteUnmasked(m, a, size, value) ==
  [m EXCEPT !.MAR = a,
            !.mem[WORD_ADDR_CONV(a)] =
              IF size = WORD THEN value
              ELSE IF a % 2 = 0 THEN 256 * (@ \div 256) + (value % 256)
              ELSE 256 * value + (@ % 256)]

BusWrite(m, a, size, value) ==
  [m EXCEPT !.MAR = a,
            !.mem[WORD_ADDR_CONV(a)] =
              IF size = WORD THEN value
              ELSE IF a % 2 = 0 THEN 256 * (@ \div 256) + (value % 256)
              ELSE 256 * (value % 256) + (@ % 256)]

\* What a program cannot rely on reads as zero: temp_reg_A and the bytes of its
\* stack below the pointer.
Forget(m, stack) ==
  [m EXCEPT !.high = 0,
            !.mem = [w \in Cells |->
              IF w \notin stack \/ 2 * w >= m.REG[SP] THEN @[w]
              ELSE IF 2 * w + 1 = m.REG[SP] THEN 256 * (@[w] \div 256) ELSE 0]]

push(m, value) ==
  LET sp == Wrap(m.REG[SP] - WORD_STEP)
  IN  BusWrite([m EXCEPT !.REG[SP] = sp], sp, WORD, value)

\* What pull reads, and the machine with SP behind it.
Top(m)    == BusRead(m, m.REG[SP], WORD)
Popped(m) == [m EXCEPT !.MAR = m.REG[SP], !.REG[SP] = Wrap(@ + WORD_STEP)]

PullRegister(m, r) == [Popped(m) EXCEPT !.REG[r] = Top(m)]

\* Pulling PSW; a pulled sleep bit is cleared.
PullPSW(m) ==
  [Popped(m) EXCEPT !.PSW = FlagsOf(Top(m)), !.mode = [ModeOf(Top(m)) EXCEPT !.SLP = 0]]

VectorPriority(m, d) == ModeOf(m.mem[VectorPSW(d)]).PRIORITY

\* Mutant of PushFrame: the link register is pushed before PSW.
PushFrameSwapped(m) ==
  push(push(push(m, m.REG[PC]), m.REG[LR]), PSWWord(m.PSW, m.mode))

PushFrame(m) ==
  push(push(push(m, m.REG[PC]), PSWWord(m.PSW, m.mode)), m.REG[LR])

PullFrame(m) == PullRegister(PullPSW(PullRegister(m, LR)), PC)

\* Going into a routine: PSW, PC and LR come from the vector.
Enter(m, d) ==
  LET word == m.mem[VectorPSW(d)]
  IN  [m EXCEPT
         !.PSW = FlagsOf(word),
         !.mode = [ModeOf(word) EXCEPT !.SLP = 0, !.prev_PRIORITY = m.mode.PRIORITY],
         !.REG = [@ EXCEPT ![PC] = m.mem[VectorPC(d)], ![LR] = LAST_BYTE],
         !.high = 0]

Preempts(m, d) == VectorPriority(m, d) > m.mode.PRIORITY

interrupt_handling_process(m, d) ==
  IF Preempts(m, d) THEN Enter(PushFrame(m), d)
  ELSE [m EXCEPT !.queue[d] = VectorPriority(m, d)]

Waiting(m) == {d \in Dev : m.queue[d] > m.mode.prev_PRIORITY}

interrupt_return_process(m) ==
  IF Waiting(m) # {}
  THEN LET d == CHOOSE w \in Waiting(m) : \A e \in Waiting(m) : e <= w
       IN  interrupt_handling_process([m EXCEPT !.queue[d] = INT_OFF], d)
  ELSE PullFrame(m)

Returns(m) == m.REG[PC] = LAST_BYTE

\* Whether fetch gets an instruction: not with an odd PC other than LAST_BYTE.
Fetches(m) == m.REG[PC] % 2 = 0 \/ Returns(m)

fetch(m) ==
  LET n == IF Returns(m) THEN interrupt_return_process(m) ELSE m
      a == n.REG[PC]
  IN  [n EXCEPT !.MAR = a, !.IX = BusRead(n, a, WORD), !.REG[PC] = Wrap(@ + WORD_STEP)]

-----------------------------------------------------------------------------
(***************************************************************************)
(* Memory access and branching with link.                                  *)
(***************************************************************************)

NO_ACTION      == 0
POST_INCREMENT == 1
POST_DECREMENT == 2
PRE_INCREMENT  == 5
PRE_DECREMENT  == 6
Actions == {NO_ACTION, POST_INCREMENT, POST_DECREMENT, PRE_INCREMENT, PRE_DECREMENT}

\* Mutant of Moved: a post-increment always moves by a word.
MovedByWord(x, action, size) ==
  CASE action = POST_INCREMENT -> Wrap(x + WORD_STEP)
    [] action = PRE_INCREMENT -> Wrap(x + WORD_STEP - size)
    [] action \in {POST_DECREMENT, PRE_DECREMENT} -> Wrap(x - (WORD_STEP - size))
    [] OTHER -> x

\* The pointer register after the action: by two for a word, by one for a byte.
Moved(x, action, size) ==
  CASE action \in {POST_INCREMENT, PRE_INCREMENT} -> Wrap(x + WORD_STEP - size)
    [] action \in {POST_DECREMENT, PRE_DECREMENT} -> Wrap(x - (WORD_STEP - size))
    [] OTHER -> x

\* The address: the pointer after the action if that comes first.
Address(x, action, size) ==
  IF action \in {PRE_INCREMENT, PRE_DECREMENT} THEN Moved(x, action, size) ELSE x

\* A byte goes to the low half of the register.
LoadFrom(m, a, size, dst) ==
  [m EXCEPT !.MAR = a,
            !.REG[dst] = IF size = WORD THEN BusRead(m, a, WORD)
                         ELSE 256 * (@ \div 256) + BusRead(m, a, BYTE)]

\* An action that has no meaning ends the instruction and nobody is told:
\* CPU_cycle looks for INVALID_INST only.
LD(m, action, size, src, dst) ==
  IF action \notin Actions THEN m
  ELSE LoadFrom([m EXCEPT !.REG[src] = Moved(@, action, size)],
                Address(m.REG[src], action, size), size, dst)

\* Mutant of ST: the register is read before the pointer moves.
StoreEarly(m, action, size, src, dst) ==
  IF action \notin Actions THEN m
  ELSE BusWrite([m EXCEPT !.REG[dst] = Moved(@, action, size)],
                m.REG[dst], size, m.REG[src])

\* The register is stored as it is after the pointer has moved.
ST(m, action, size, src, dst) ==
  IF action \notin Actions THEN m
  ELSE LET n == [m EXCEPT !.REG[dst] = Moved(@, action, size)]
       IN  BusWrite(n, Address(m.REG[dst], action, size), size, n.REG[src])

LDR(m, offset, size, src, dst) == LoadFrom(m, Wrap(m.REG[src] + offset), size, dst)

STR(m, offset, size, src, dst) ==
  BusWrite(m, Wrap(m.REG[dst] + offset), size, m.REG[src])

BL(m, label) ==
  [m EXCEPT !.REG = [m.REG EXCEPT ![LR] = m.REG[PC], ![PC] = Wrap(m.REG[PC] + label)]]
=============================================================================
