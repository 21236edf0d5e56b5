---------------------------- MODULE PlainProgram ----------------------------
(***************************************************************************)
(* A program on a machine without devices: it fetches and executes.  What  *)
(* lies below its stack pointer it cannot rely on, nor what the hidden     *)
(* temp_reg_A holds: it forgets both.                                      *)
(***************************************************************************)
EXTENDS Instructions

CONSTANTS Image, Start, BasePriority, StackCells

VARIABLES
  p,               \* the machine of the program
  step             \* "fetch" or "execute"

Init ==
  /\ step = "fetch"
  /\ p = Forget([REG |-> [r \in Registers |-> IF r = PC THEN Start ELSE 0],
                 PSW |-> [C |-> 0, Z |-> 0, N |-> 0, V |-> 0],
                 mode |-> [SLP |-> 0, PRIORITY |-> BasePriority, res |-> 0, prev_PRIORITY |-> 0],
                 high |-> 0, MAR |-> 0, IX |-> 0, mem |-> Image,
                 queue |-> [d \in Dev |-> INT_OFF]], StackCells)

Fetch ==
  /\ step = "fetch"
  /\ p.REG[PC] % 2 = 0
  /\ p' = Forget([p EXCEPT !.MAR = p.REG[PC], !.IX = BusRead(p, p.REG[PC], WORD),
                           !.REG[PC] = Wrap(@ + WORD_STEP)], StackCells)
  /\ step' = "execute"

Execute ==
  /\ step = "execute"
  /\ p' = Forget(execute(p), StackCells)
  /\ step' = "fetch"

Next == Fetch \/ Execute

Spec == Init /\ [][Next]_<<p, step>>
=============================================================================
