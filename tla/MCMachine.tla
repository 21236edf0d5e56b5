----------------------------- MODULE MCMachine -----------------------------
(***************************************************************************)
(* A program for Machine, in the machine's own words: a loop that calls a  *)
(* subroutine, counts in flags and keeps a byte on the stack, and three    *)
(* devices.  The routine of device 0 works with registers it saves, that   *)
(* of device 3 calls a subroutine of its own and may interrupt the first;  *)
(* device 5 has no more than the priority of the main program.  The        *)
(* routines save whole words: they may be entered with an odd SP, where a  *)
(* byte pushed under a word overwrites half of it.                         *)
(***************************************************************************)
EXTENDS Machine, TLC

\* The instruction words, as the assembler of the test files writes them.
TwoOp(code, con, size, src, dst) == 24576 + 512 * code + 128 * con + 64 * size + 8 * src + dst
OneReg(code, size, dst)          == 28928 + 512 * code + 64 * size + dst
Init_(code, value, dst)          == 32768 + 2048 * code + 8 * value + dst
Direct(code, action, size, src, dst) ==
  32768 + 2048 * code + 256 * action + 64 * size + 8 * src + dst
Relative(code, offset, size, src, dst) ==
  49152 + 8192 * code + 128 * (offset % 64) + 64 * size + 8 * src + dst
Branch(code, offset) == 8192 + 1024 * code + (offset % 1024)
Link(offset)         == offset % 8192

MOVLZ(value, dst) == Init_(3, value, dst)
Save(size, r)     == Direct(1, PRE_DECREMENT, size, r, SP)
Restore(size, r)  == Direct(0, POST_INCREMENT, size, SP, r)
RETURN            == TwoOp(11, 0, WORD, LR, PC)

MainCode ==
  <<MOVLZ(0, SP), Init_(4, 2, SP),          \* 128: SP = 0x0200
    MOVLZ(2, 0), MOVLZ(200, 1),             \* 130: R0 counts, R1 is worked on
    MOVLZ(130, 3),                          \* 132: R3 points behind the data
    Link(7),                                \* 133: the subroutine at 141
    TwoOp(2, 1, WORD, 1, 0),                \* 134: SUB #1,R0
    Branch(1, -3),                          \* 135: BNE to 133
    OneReg(1, WORD, 1),                     \* 136: RRC R1
    TwoOp(12, 0, WORD, 1, 2),               \* 137: SWAP R1,R2
    31232,                                  \* 138: stands for no instruction
    Branch(7, -10),                         \* 139: BAL to 130
    0,
    Save(BYTE, 0),                          \* 141: a byte on the stack
    TwoOp(0, 0, BYTE, 1, 1),                \* 142: ADD.B R1,R1
    Relative(1, -1, BYTE, 1, 3),            \* 143: STR.B R1,R3,#-1
    Relative(0, -2, WORD, 3, 2),            \* 144: LDR R3,#-2,R2
    TwoOp(6, 0, WORD, 2, 1),                \* 145: XOR R2,R1
    MOVLZ(9, 0),                            \* 146
    Restore(BYTE, 0),                       \* 147
    RETURN>>                                \* 148

Routine0 ==
  <<Save(WORD, 0), Save(WORD, 1), MOVLZ(255, 1), OneReg(3, WORD, 1),
    TwoOp(0, 0, WORD, 1, 0), Restore(WORD, 1), Restore(WORD, 0), RETURN>>

Routine3 ==
  <<Save(WORD, LR), Link(2), Restore(WORD, LR), RETURN,
    Save(WORD, 2), Init_(2, 7, 2), Restore(WORD, 2), RETURN>>

Vector(priority) == PSWWord([C |-> 1, Z |-> 1, N |-> 0, V |-> 0],
                            [SLP |-> 1, PRIORITY |-> priority, res |-> 0, prev_PRIORITY |-> 0])

Code(first, words) == [w \in first..(first + Len(words) - 1) |-> words[w - first + 1]]

MCStackCells == 240..256

MCImage ==
  Code(128, MainCode) @@ Code(160, Routine0) @@ Code(176, Routine3)
    @@ VectorPSW(0) :> Vector(2) @@ VectorPC(0) :> 320
    @@ VectorPSW(3) :> Vector(4) @@ VectorPC(3) :> 352
    @@ VectorPSW(5) :> Vector(1) @@ VectorPC(5) :> 0
    @@ [w \in {64} \cup MCStackCells \cup {LAST_WORD} |-> 0]

MCCells == DOMAIN MCImage
=============================================================================
