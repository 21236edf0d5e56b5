------------------------------ MODULE Debugger ------------------------------
(***************************************************************************)
(* The debugger and the main loop around it: the menus, the breakpoints    *)
(* set in them, debugger_triggers after every cycle, and the ctrl-C flag,  *)
(* which a signal sets at any time (debugger.cpp, XMakina_Emulator.cpp).   *)
(*                                                                         *)
(* What a cycle of the CPU and the devices do is left open: PC and         *)
(* PRIORITY may be anything after it.  Memory is what no trigger reads; a  *)
(* file is loaded record by record for what it does to PC and to the name. *)
(* Of the history variable seen, the first two fields count since the      *)
(* cycle breakpoint was set: the rounds of the loop, and those of them     *)
(* that ended at the memory breakpoint.  The third holds if the branch     *)
(* breakpoint has seen the present PC.                                     *)
(***************************************************************************)
EXTENDS Loader

CONSTANTS
  PCs,             \* values of PC after a cycle, or from the register editor
  Priorities,      \* values of PRIORITY
  MemoryInputs,    \* what the user enters for the memory breakpoint
  CycleInputs,     \* what the user enters for the cycle breakpoint
  MaxHits          \* bound on memory breakpoints while a cycle breakpoint is set

OFF == -1
ON  == 1
NONE == 65535      \* OFF in an unsigned short
WORD_STEP == 2
MAX_16_BIT_VALUE == 65536

ASSUME DebuggerAssumption ==
  /\ PCs \subseteq 0..LAST_BYTE
  /\ Priorities \subseteq 0..7
  /\ {0} \subseteq PCs \cap Priorities
  /\ MemoryInputs \subseteq Nat
  /\ CycleInputs \subseteq Int
  /\ MaxHits \in Nat

VARIABLES
  mode,            \* where the main loop is: "menu", "load", "run" or "quit"
  rest,            \* the records the loader has before it
  PC, PRIORITY,
  program_name,
  breakpoints,
  ctrl_C,          \* ctrl_C_detected
  seen             \* history

vars == <<mode, rest, PC, PRIORITY, program_name, breakpoints, ctrl_C, seen>>

Breakpoints ==
  [memory : 0..LAST_BYTE, cpu_cycle : Nat \cup {OFF}, cycle_count : Nat,
   branch : {OFF, ON}, PC_check : 0..LAST_BYTE,
   priority : (0..7) \cup {OFF}, step : {OFF, ON}]

Seen == [rounds : Nat, hits : 0..MaxHits, here : BOOLEAN]

NoBreakpoints ==
  [memory |-> NONE, cpu_cycle |-> OFF, cycle_count |-> 0, branch |-> OFF,
   PC_check |-> 0, priority |-> OFF, step |-> OFF]

Fresh == [rounds |-> 0, hits |-> 0, here |-> FALSE]

Init ==
  /\ mode = "menu" /\ rest = << >>
  /\ PC = 0 /\ PRIORITY = 0
  /\ program_name = << >>
  /\ breakpoints = NoBreakpoints
  /\ ctrl_C = FALSE
  /\ seen = Fresh

-----------------------------------------------------------------------------
\* A round of the main loop ends in debugger_triggers.

MemoryHit(pc) == breakpoints.memory = pc

CycleHit == breakpoints.cpu_cycle # OFF /\ breakpoints.cycle_count >= breakpoints.cpu_cycle

\* Compared as int: nothing is in sequence with 65534.
Jumped(pc) == breakpoints.branch = ON /\ breakpoints.PC_check # pc - WORD_STEP

PriorityChanged(pr) == breakpoints.priority # OFF /\ breakpoints.priority # pr

memory_trigger(pc) ==
  /\ MemoryHit(pc)
  /\ breakpoints.cpu_cycle # OFF => seen.hits < MaxHits
  /\ breakpoints' = [breakpoints EXCEPT !.memory = NONE]
  /\ mode' = "menu"
  /\ seen' = IF breakpoints.cpu_cycle = OFF THEN [seen EXCEPT !.here = FALSE]
             ELSE [rounds |-> seen.rounds + 1, hits |-> seen.hits + 1, here |-> FALSE]
  /\ UNCHANGED ctrl_C

cycle_trigger(pc) ==
  /\ ~MemoryHit(pc) /\ CycleHit
  /\ breakpoints' = [breakpoints EXCEPT !.cpu_cycle = OFF, !.cycle_count = 0]
  /\ mode' = "menu"
  /\ seen' = Fresh
  /\ UNCHANGED ctrl_C

\* Mutant of Counted: the PC to compare with is not kept when it jumped.
CountedKept(pc) ==
  [breakpoints EXCEPT
     !.cycle_count = IF breakpoints.cpu_cycle # OFF THEN @ + 1 ELSE @,
     !.PC_check = IF breakpoints.branch = ON /\ ~Jumped(pc) THEN pc ELSE @]

Counted(pc) ==
  [breakpoints EXCEPT
     !.cycle_count = IF breakpoints.cpu_cycle # OFF THEN @ + 1 ELSE @,
     !.PC_check = IF breakpoints.branch = ON THEN pc ELSE @]

\* Mutant of later_triggers: ctrl-C is forgotten when another trigger comes first.
TriggersForget(pc, pr) ==
  /\ ~MemoryHit(pc) /\ ~CycleHit
  /\ breakpoints' = Counted(pc)
  /\ seen' = [seen EXCEPT !.rounds = IF breakpoints.cpu_cycle # OFF THEN @ + 1 ELSE @,
                          !.here = breakpoints.branch = ON]
  /\ ctrl_C' = FALSE
  /\ mode' = IF Jumped(pc) \/ PriorityChanged(pr) \/ breakpoints.step = ON
             THEN "menu" ELSE "run"

\* The triggers behind the two that switch themselves off.
later_triggers(pc, pr) ==
  /\ ~MemoryHit(pc) /\ ~CycleHit
  /\ breakpoints' = Counted(pc)
  /\ seen' = [seen EXCEPT !.rounds = IF breakpoints.cpu_cycle # OFF THEN @ + 1 ELSE @,
                          !.here = breakpoints.branch = ON]
  /\ \/ /\ Jumped(pc) \/ PriorityChanged(pr) \/ breakpoints.step = ON
        /\ mode' = "menu"
        /\ UNCHANGED ctrl_C
     \/ /\ ~Jumped(pc) /\ ~PriorityChanged(pr) /\ breakpoints.step # ON
        /\ mode' = IF ctrl_C THEN "menu" ELSE "run"
        /\ ctrl_C' = FALSE

round ==
  /\ mode = "run"
  /\ \E pc \in PCs, pr \in Priorities :
       /\ PC' = pc /\ PRIORITY' = pr
       /\ memory_trigger(pc) \/ cycle_trigger(pc) \/ later_triggers(pc, pr)
  /\ UNCHANGED <<rest, program_name>>

ctrl_c_signal_detection ==
  /\ ctrl_C' = TRUE
  /\ UNCHANGED <<mode, rest, PC, PRIORITY, program_name, breakpoints, seen>>

-----------------------------------------------------------------------------
\* The menus.

Set(b) ==
  /\ breakpoints' = b
  /\ UNCHANGED <<mode, rest, PC, PRIORITY, program_name, ctrl_C>>

\* An odd address switches the breakpoint off, one too large changes nothing.
set_mem_breakpoint(a) ==
  /\ mode = "menu"
  /\ Set([breakpoints EXCEPT !.memory =
            IF a % 2 # 0 THEN NONE ELSE IF a >= MAX_16_BIT_VALUE THEN @ ELSE a])
  /\ UNCHANGED seen

\* Mutant of set_cpu_cycle_breakpoint: the count starts at zero.
SetFromZero(n) ==
  /\ mode = "menu"
  /\ Set(IF n < 0 THEN [breakpoints EXCEPT !.cpu_cycle = OFF]
         ELSE [breakpoints EXCEPT !.cpu_cycle = n, !.cycle_count = 0])
  /\ seen' = [seen EXCEPT !.rounds = 0, !.hits = 0]

\* Mutant of set_cpu_cycle_breakpoint: a negative number is taken as it comes.
SetNegative(n) ==
  /\ mode = "menu"
  /\ Set([breakpoints EXCEPT !.cpu_cycle = n, !.cycle_count = 1])
  /\ seen' = [seen EXCEPT !.rounds = 0, !.hits = 0]

set_cpu_cycle_breakpoint(n) ==
  /\ mode = "menu"
  /\ Set(IF n < 0 THEN [breakpoints EXCEPT !.cpu_cycle = OFF]
         ELSE [breakpoints EXCEPT !.cpu_cycle = n, !.cycle_count = 1])
  /\ seen' = [seen EXCEPT !.rounds = 0, !.hits = 0]

toggle_branching_breakpoint ==
  /\ mode = "menu"
  /\ Set([breakpoints EXCEPT !.branch = IF @ = OFF THEN ON ELSE OFF, !.PC_check = PC])
  /\ seen' = [seen EXCEPT !.here = TRUE]

toggle_priority_change_breakpoint ==
  /\ mode = "menu"
  /\ Set([breakpoints EXCEPT !.priority = IF @ = OFF THEN PRIORITY ELSE OFF])
  /\ UNCHANGED seen

toggle_step ==
  /\ mode = "menu"
  /\ Set([breakpoints EXCEPT !.step = IF @ = OFF THEN ON ELSE OFF])
  /\ UNCHANGED seen

\* The registers change under a menu.
Registers(pc, pr) ==
  /\ PC' = pc /\ PRIORITY' = pr
  /\ seen' = [seen EXCEPT !.here = @ /\ pc = PC]
  /\ UNCHANGED <<breakpoints, ctrl_C>>

change_reg_content ==
  /\ mode = "menu"
  /\ \/ \E pc \in PCs : Registers(pc, PRIORITY)
     \/ \E pr \in Priorities : Registers(PC, pr)
  /\ UNCHANGED <<mode, rest, program_name>>

clear_reg_file ==
  /\ mode = "menu"
  /\ Registers(0, 0)
  /\ UNCHANGED <<mode, rest, program_name>>

\* One instruction: a branch, or a move to PSW.
test_inst_opcode ==
  /\ mode = "menu"
  /\ \E pc \in PCs, pr \in Priorities : Registers(pc, pr)
  /\ UNCHANGED <<mode, rest, program_name>>

open_file ==
  /\ mode = "menu"
  /\ rest' \in Files
  /\ mode' = "load"
  /\ UNCHANGED <<PC, PRIORITY, program_name, breakpoints, ctrl_C, seen>>

\* One turn of the loader's loop, or its end.
load_record ==
  /\ mode = "load" /\ rest # << >>
  /\ LET loaded == s_record_decoder([Blank EXCEPT !.PC = PC, !.program_name = program_name],
                                    Head(rest))
     IN  /\ Registers(loaded.PC, PRIORITY)
         /\ program_name' = loaded.program_name
         /\ IF loaded.flag = VALID_RECORD THEN mode' = mode /\ rest' = Tail(rest)
            ELSE mode' = "menu" /\ rest' = << >>

close_file ==
  /\ mode = "load" /\ rest = << >>
  /\ mode' = "menu"
  /\ UNCHANGED <<rest, PC, PRIORITY, program_name, breakpoints, ctrl_C, seen>>

\* With clear_emulation_properties; the register file is cleared if the user says so.
close_program ==
  /\ mode = "menu"
  /\ program_name' = << >>
  /\ breakpoints' = NoBreakpoints
  /\ ctrl_C' = FALSE
  /\ seen' = Fresh
  /\ \/ PC' = 0 /\ PRIORITY' = 0
     \/ UNCHANGED <<PC, PRIORITY>>
  /\ UNCHANGED <<mode, rest>>

\* Mutant of run_program: an old ctrl-C is dropped as the program starts.
RunAfresh ==
  /\ mode = "menu"
  /\ program_name # << >>
  /\ mode' = "run"
  /\ ctrl_C' = FALSE
  /\ UNCHANGED <<rest, PC, PRIORITY, program_name, breakpoints, seen>>

run_program ==
  /\ mode = "menu"
  /\ program_name # << >>
  /\ mode' = "run"
  /\ UNCHANGED <<rest, PC, PRIORITY, program_name, breakpoints, ctrl_C, seen>>

quit_emulator ==
  /\ mode = "menu"
  /\ mode' = "quit"
  /\ UNCHANGED <<rest, PC, PRIORITY, program_name, breakpoints, ctrl_C, seen>>

Menu ==
  \/ \E a \in MemoryInputs : set_mem_breakpoint(a)
  \/ \E n \in CycleInputs : set_cpu_cycle_breakpoint(n)
  \/ toggle_branching_breakpoint \/ toggle_priority_change_breakpoint \/ toggle_step
  \/ change_reg_content \/ clear_reg_file \/ test_inst_opcode
  \/ open_file \/ close_program \/ run_program \/ quit_emulator

Next == round \/ ctrl_c_signal_detection \/ Menu \/ load_record \/ close_file

Spec == Init /\ [][Next]_vars

\* The main loop goes round, whatever the user does in the menus.
FairSpec == Spec /\ WF_vars(round)

-----------------------------------------------------------------------------
TypeOK ==
  /\ mode \in {"menu", "load", "run", "quit"}
  /\ rest \in Seq(Records)
  /\ PC \in 0..LAST_BYTE
  /\ PRIORITY \in 0..7
  /\ program_name \in Seq(Bytes)
  /\ breakpoints \in Breakpoints
  /\ ctrl_C \in BOOLEAN
  /\ seen \in Seen

\* A cycle breakpoint of n is late by exactly the rounds that ended at the memory
\* breakpoint since it was set, which its count leaves out, and by nothing else that
\* happens in rounds and menus: of the others it has let fewer than n pass (none,
\* for n = 0).  The source promises that it is not late: see BreaksAsTold, below.
CycleBreakLateByHits ==
  breakpoints.cpu_cycle # OFF =>
    /\ breakpoints.cycle_count = 1 + seen.rounds - seen.hits
    /\ seen.rounds - seen.hits < breakpoints.cpu_cycle \/ seen.rounds = seen.hits

\* PC_check is the present PC whenever the last round came as far as the branch
\* breakpoint and no register was edited since.
BranchSeesPC == seen.here => breakpoints.PC_check = PC

\* A round opens the menu if something asks for it: PC at a memory breakpoint that
\* is set, a cycle breakpoint that is used up, a priority that is not the memorised
\* one, a step or ctrl-C; and it opens it for nothing else but a jump with the
\* branch breakpoint on, and for each such jump.  Two kinds of round are left out of
\* what is said of jumps and of no reason at all: one that ends at 0xFFFF with no
\* memory breakpoint set, which the code takes for a breakpoint, and one whose first
\* PC the branch breakpoint has not seen.  BreaksAsTold, below, leaves none out.
BreaksAsSet ==
  [][round =>
       LET atMemory == breakpoints.memory # NONE /\ PC' = breakpoints.memory
           cycles == breakpoints.cpu_cycle # OFF
                       /\ seen.rounds - seen.hits + 1 >= breakpoints.cpu_cycle
           other  == \/ atMemory \/ cycles \/ PriorityChanged(PRIORITY')
                     \/ breakpoints.step = ON \/ ctrl_C
           jump   == breakpoints.branch = ON /\ PC' # PC + WORD_STEP
           offHit == breakpoints.memory = NONE /\ PC' = NONE
           unseen == breakpoints.branch = ON /\ ~seen.here
       IN  /\ other => mode' = "menu"
           /\ ~other /\ ~offHit /\ ~unseen => (mode' = "menu" <=> jump)
    ]_vars

\* A ctrl-C is kept, in menus, in the loader and through rounds that other triggers
\* end, until a round opens the menu for it; only closing the program drops it.
CtrlCKept == [][ctrl_C /\ ~ctrl_C' => (mode = "run" /\ mode' = "menu") \/ close_program]_vars

\* A running program with a ctrl-C before it comes to the menu.
CtrlCAnswered == (ctrl_C /\ mode = "run") ~> mode = "menu"

\* What the loader makes of the files.
FilesLoadIntact == Init => LoadedIntact
FilesVerified   == Init => CorruptionRefused

(***************************************************************************)
(* What the source says of the breakpoints and the code does not do.       *)
(***************************************************************************)

\* What debugger.h:56-63 says of each breakpoint, and that there are no other reasons
\* but ctrl-C to break the program: a round opens the menu exactly when PC is at a
\* memory breakpoint that is not OFF, when the number of cycles set has run, at a jump
\* with the branch breakpoint on, at another priority than the memorised one, with
\* step on, or at a ctrl-C.  The run shows a round that ends at 0xFFFF, the value OFF
\* has in memory.
BreaksAsTold ==
  [][round =>
       (mode' = "menu" <=>
          \/ breakpoints.memory # NONE /\ PC' = breakpoints.memory
          \/ breakpoints.cpu_cycle # OFF /\ seen.rounds + 1 >= breakpoints.cpu_cycle
          \/ breakpoints.branch = ON /\ PC' # PC + WORD_STEP
          \/ PriorityChanged(PRIORITY')
          \/ breakpoints.step = ON
          \/ ctrl_C)]_vars
=============================================================================
