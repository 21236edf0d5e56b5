--------------------------- MODULE DebuggerProofs ---------------------------
(***************************************************************************)
(* Theorems about Debugger, for any files, any values of PC and PRIORITY,  *)
(* and any entries of the user.                                            *)
(***************************************************************************)
EXTENDS Debugger, LoaderProofs, SequenceTheorems, TLAPS

LEMMA LastByte == LAST_BYTE \in Nat
  BY DEF LAST_BYTE

LEMMA InMemory ==
  ASSUME NEW a \in Nat, a < 65536
  PROVE  a \in 0..LAST_BYTE
  <1>1. a <= LAST_BYTE
    BY DEF LAST_BYTE
  <1> QED BY <1>1, LastByte

-----------------------------------------------------------------------------
\* Changes of the fields of the two records, and the constants they are given.
LEMMA BreakpointFields ==
  ASSUME NEW b \in Breakpoints
  PROVE  /\ \A x \in 0..LAST_BYTE : [b EXCEPT !.memory = x] \in Breakpoints
         /\ \A n \in Nat \cup {OFF} : [b EXCEPT !.cpu_cycle = n] \in Breakpoints
         /\ \A n \in Nat \cup {OFF}, k \in Nat :
              [b EXCEPT !.cpu_cycle = n, !.cycle_count = k] \in Breakpoints
         /\ \A k \in Nat, x \in 0..LAST_BYTE :
              [b EXCEPT !.cycle_count = k, !.PC_check = x] \in Breakpoints
         /\ \A t \in {OFF, ON}, x \in 0..LAST_BYTE :
              [b EXCEPT !.branch = t, !.PC_check = x] \in Breakpoints
         /\ \A p \in (0..7) \cup {OFF} : [b EXCEPT !.priority = p] \in Breakpoints
         /\ \A t \in {OFF, ON} : [b EXCEPT !.step = t] \in Breakpoints
  BY DEF Breakpoints

LEMMA SeenFields ==
  ASSUME NEW s \in Seen
  PROVE  /\ \A z \in BOOLEAN : [s EXCEPT !.here = z] \in Seen
         /\ \A x \in Nat, z \in BOOLEAN : [s EXCEPT !.rounds = x, !.here = z] \in Seen
         /\ \A x \in Nat, y \in 0..MaxHits : [s EXCEPT !.rounds = x, !.hits = y] \in Seen
         /\ \A x \in Nat, y \in 0..MaxHits, z \in BOOLEAN :
              [rounds |-> x, hits |-> y, here |-> z] \in Seen
  BY DEF Seen

LEMMA Values == /\ NONE \in 0..LAST_BYTE /\ 0 \in 0..LAST_BYTE /\ 0 \in 0..MaxHits
                /\ MaxHits \in Nat /\ PCs \subseteq 0..LAST_BYTE /\ Priorities \subseteq 0..7
                /\ 0 \in 0..7
  <1>1. NONE = LAST_BYTE
    BY DEF NONE, LAST_BYTE
  <1>2. MaxHits \in Nat /\ PCs \subseteq 0..LAST_BYTE /\ Priorities \subseteq 0..7
    BY DebuggerAssumption
  <1> QED BY <1>1, <1>2, LastByte

LEMMA Cleared == NoBreakpoints \in Breakpoints /\ Fresh \in Seen
  BY Values DEF NoBreakpoints, Breakpoints, Fresh, Seen

\* The loader: what a record leaves in PC and in the name.
LEMMA DecodeType ==
  ASSUME NEW r \in Records, PC \in 0..LAST_BYTE, program_name \in Seq(Bytes),
         NEW loaded,
         loaded = s_record_decoder([Blank EXCEPT !.PC = PC, !.program_name = program_name], r)
  PROVE  loaded.PC \in 0..LAST_BYTE /\ loaded.program_name \in Seq(Bytes)
  <1> DEFINE start == [Blank EXCEPT !.PC = PC, !.program_name = program_name]
             w == Written(start, r)
  <1>1. start.PC = PC /\ start.program_name = program_name
    BY DEF Blank
  <1>2. loaded_address(r) \in 0..LAST_BYTE
    <2>1. r.address[1] \in Bytes /\ r.address[2] \in Bytes
      BY DEF Records
    <2> DEFINE h == r.address[1]
               l == r.address[2]
    <2>2. h \in Nat /\ h <= 255 /\ l \in Nat /\ l <= 255
      BY <2>1, ByteRange
    <2> HIDE DEF h, l
    <2>3. 256 * h + l \in Nat /\ 256 * h + l < 65536
      BY <2>2
    <2>4. loaded_address(r) = 256 * h + l
      BY DEF loaded_address, h, l
    <2> QED BY <2>3, <2>4, InMemory
  <1>3. r.data \in Seq(Bytes) /\ Len(r.data) \in Nat /\ Len(program_name) \in Nat
    BY DEF Records
  <1>4. SubSeq(program_name, Len(r.data) + 1, Len(program_name)) \in Seq(Bytes)
    <2>1. \A i \in (Len(r.data) + 1)..Len(program_name) : program_name[i] \in Bytes
      BY <1>3, ElementOfSeq
    <2> QED BY <1>3, <2>1, SubSeqProperties
  <1>5. r.data \o SubSeq(program_name, Len(r.data) + 1, Len(program_name)) \in Seq(Bytes)
    BY <1>3, <1>4, ConcatProperties
  <1>6. w.PC \in 0..LAST_BYTE /\ w.program_name \in Seq(Bytes)
    <2>0. start \in [byte : [Addresses -> {0}], PC : 0..LAST_BYTE,
                     program_name : Seq(Bytes), flag : {VALID_RECORD}]
      BY DEF Blank
    <2> HIDE DEF start
    <2>1. CASE r.type = 9
      <3> DEFINE mem == [start.byte EXCEPT ![LAST_BYTE - 1] = r.address[2],
                                           ![LAST_BYTE] = r.address[1]]
      <3>1. w = [start EXCEPT !.PC = loaded_address(r), !.byte = mem]
        BY <2>1 DEF Written
      <3> HIDE DEF mem
      <3>2. w.PC = loaded_address(r) /\ w.program_name = start.program_name
        BY <2>0, <3>1
      <3> QED BY <1>1, <1>2, <3>2
    <2>2. CASE r.type = 1
      BY <1>1, <2>0, <2>2 DEF Written
    <2>3. CASE r.type = 0
      <3> DEFINE name == r.data \o SubSeq(program_name, Len(r.data) + 1, Len(program_name))
      <3>1. w = [start EXCEPT !.program_name = name]
        BY <1>1, <2>3 DEF Written
      <3> HIDE DEF name
      <3>2. w.PC = start.PC /\ w.program_name = name
        BY <2>0, <3>1
      <3> QED BY <1>1, <1>5, <3>2 DEF name
    <2>4. CASE r.type \notin {0, 1, 9}
      BY <1>1, <2>4 DEF Written
    <2> QED BY <2>1, <2>2, <2>3, <2>4
  <1>7. CASE r.S
    <2>1. loaded.PC = w.PC /\ loaded.program_name = w.program_name
      BY <1>7 DEF s_record_decoder, Written, Blank
    <2> QED BY <1>6, <2>1
  <1>8. CASE ~r.S
    BY <1>1, <1>8 DEF s_record_decoder, Blank
  <1> QED BY <1>7, <1>8

LEMMA RegistersType ==
  ASSUME TypeOK, NEW pc \in 0..LAST_BYTE, NEW pr \in 0..7, Registers(pc, pr)
  PROVE  /\ PC' \in 0..LAST_BYTE /\ PRIORITY' \in 0..7
         /\ breakpoints' \in Breakpoints /\ ctrl_C' \in BOOLEAN /\ seen' \in Seen
  BY DEF TypeOK, Registers, Seen

-----------------------------------------------------------------------------
LEMMA TypeInit == Init => TypeOK
  <1> SUFFICES ASSUME Init PROVE TypeOK
    OBVIOUS
  <1>1. rest \in Seq(Records) /\ program_name \in Seq(Bytes)
    BY DEF Init
  <1>2. breakpoints \in Breakpoints /\ seen \in Seen
    BY Cleared DEF Init
  <1>3. PC \in 0..LAST_BYTE /\ PRIORITY \in 0..7
    BY Values DEF Init
  <1> QED BY <1>1, <1>2, <1>3 DEF Init, TypeOK

\* The triggers.
LEMMA RoundType == TypeOK /\ round => TypeOK'
  <1> SUFFICES ASSUME TypeOK, round PROVE TypeOK'
    OBVIOUS
  <1>1. PICK pc \in PCs, pr \in Priorities :
          /\ PC' = pc /\ PRIORITY' = pr
          /\ memory_trigger(pc) \/ cycle_trigger(pc) \/ later_triggers(pc, pr)
    BY DEF round
  <1>2. mode' \in {"menu", "run"} /\ UNCHANGED <<rest, program_name>>
    BY <1>1 DEF round, memory_trigger, cycle_trigger, later_triggers
  <1>3. PC' \in 0..LAST_BYTE /\ PRIORITY' \in 0..7
    BY <1>1, DebuggerAssumption
  <1>4. breakpoints \in Breakpoints /\ seen \in Seen /\ ctrl_C \in BOOLEAN
    BY DEF TypeOK
  <1>5. breakpoints' \in Breakpoints /\ seen' \in Seen /\ ctrl_C' \in BOOLEAN
    <2>1. CASE memory_trigger(pc)
      <3>1. breakpoints' \in Breakpoints
        BY <1>4, <2>1, BreakpointFields, Values DEF memory_trigger
      <3>2. seen' \in Seen
        <4>1. CASE breakpoints.cpu_cycle = OFF
          BY <1>4, <2>1, <4>1, SeenFields DEF memory_trigger
        <4>2. CASE breakpoints.cpu_cycle # OFF
          <5>1. seen.rounds + 1 \in Nat /\ seen.hits + 1 \in 0..MaxHits
            BY <1>4, <2>1, <4>2, Values DEF memory_trigger, Seen
          <5> QED BY <1>4, <2>1, <4>2, <5>1, SeenFields DEF memory_trigger
        <4> QED BY <4>1, <4>2
      <3>3. ctrl_C' \in BOOLEAN
        BY <1>4, <2>1 DEF memory_trigger
      <3> QED BY <3>1, <3>2, <3>3
    <2>2. CASE cycle_trigger(pc)
      <3>1. breakpoints' \in Breakpoints
        BY <1>4, <2>2, BreakpointFields, Values DEF cycle_trigger
      <3>2. seen' \in Seen
        BY <2>2, Cleared DEF cycle_trigger
      <3>3. ctrl_C' \in BOOLEAN
        BY <1>4, <2>2 DEF cycle_trigger
      <3> QED BY <3>1, <3>2, <3>3
    <2>3. CASE later_triggers(pc, pr)
      <3> DEFINE armed == breakpoints.cpu_cycle # OFF
                 count == IF armed THEN breakpoints.cycle_count + 1 ELSE breakpoints.cycle_count
                 check == IF breakpoints.branch = ON THEN pc ELSE breakpoints.PC_check
                 passed == IF armed THEN seen.rounds + 1 ELSE seen.rounds
      <3>1. count \in Nat /\ check \in 0..LAST_BYTE /\ passed \in Nat
        BY <1>1, <1>3, <1>4 DEF Breakpoints, Seen
      <3>2. (breakpoints.branch = ON) \in BOOLEAN
        OBVIOUS
      <3>3. breakpoints' \in Breakpoints
        <4> HIDE DEF count, check
        <4>1. breakpoints' = [breakpoints EXCEPT !.cycle_count = count, !.PC_check = check]
          BY <2>3 DEF later_triggers, Counted, count, check
        <4> QED BY <1>4, <3>1, <4>1, BreakpointFields
      <3>4. seen' \in Seen
        BY <1>4, <2>3, <3>1, <3>2, SeenFields DEF later_triggers
      <3>5. ctrl_C' \in BOOLEAN
        BY <1>4, <2>3 DEF later_triggers
      <3> QED BY <3>3, <3>4, <3>5
    <2> QED BY <1>1, <2>1, <2>2, <2>3
  <1> QED BY <1>2, <1>3, <1>5 DEF TypeOK

\* The breakpoint menu changes the breakpoints and the history only.
LEMMA SetType ==
  ASSUME TypeOK, NEW b \in Breakpoints, Set(b), seen' \in Seen
  PROVE  TypeOK'
  BY DEF TypeOK, Set

LEMMA MenuType == TypeOK /\ Menu => TypeOK'
  <1> SUFFICES ASSUME TypeOK, Menu PROVE TypeOK'
    OBVIOUS
  <1>0. breakpoints \in Breakpoints /\ seen \in Seen /\ ctrl_C \in BOOLEAN
    BY DEF TypeOK
  <1>1. ASSUME NEW a \in MemoryInputs, set_mem_breakpoint(a) PROVE TypeOK'
    <2> DEFINE b == [breakpoints EXCEPT !.memory =
                       IF a % 2 # 0 THEN NONE ELSE IF a >= MAX_16_BIT_VALUE THEN @ ELSE a]
    <2>1. a \in Nat
      BY DebuggerAssumption
    <2>2. b \in Breakpoints
      <3>1. CASE a % 2 # 0
        BY <1>0, <3>1, BreakpointFields, Values
      <3>2. CASE a % 2 = 0 /\ a >= MAX_16_BIT_VALUE
        BY <1>0, <3>2 DEF Breakpoints
      <3>3. CASE a % 2 = 0 /\ ~(a >= MAX_16_BIT_VALUE)
        <4>1. a < MAX_16_BIT_VALUE
          BY <2>1, <3>3 DEF MAX_16_BIT_VALUE
        <4>2. a \in 0..LAST_BYTE
          BY <2>1, <4>1, InMemory DEF MAX_16_BIT_VALUE
        <4> QED BY <1>0, <3>3, <4>2, BreakpointFields
      <3> QED BY <3>1, <3>2, <3>3
    <2> QED BY <1>0, <1>1, <2>2, SetType DEF set_mem_breakpoint
  <1>2. ASSUME NEW n \in CycleInputs, set_cpu_cycle_breakpoint(n) PROVE TypeOK'
    <2> DEFINE b == IF n < 0 THEN [breakpoints EXCEPT !.cpu_cycle = OFF]
                    ELSE [breakpoints EXCEPT !.cpu_cycle = n, !.cycle_count = 1]
    <2>1. n \in Int
      BY DebuggerAssumption
    <2>2. b \in Breakpoints
      <3>1. CASE n < 0
        BY <1>0, <3>1, BreakpointFields
      <3>2. CASE ~(n < 0)
        <4>1. n \in Nat
          BY <2>1, <3>2
        <4> QED BY <1>0, <3>2, <4>1, BreakpointFields
      <3> QED BY <3>1, <3>2
    <2>3. seen' \in Seen
      BY <1>0, <1>2, SeenFields, Values DEF set_cpu_cycle_breakpoint
    <2> QED BY <1>2, <2>2, <2>3, SetType DEF set_cpu_cycle_breakpoint
  <1>3. ASSUME toggle_branching_breakpoint PROVE TypeOK'
    <2> DEFINE b == [breakpoints EXCEPT !.branch = IF @ = OFF THEN ON ELSE OFF, !.PC_check = PC]
    <2>1. b \in Breakpoints
      BY <1>0, BreakpointFields DEF TypeOK
    <2>2. seen' \in Seen
      BY <1>0, <1>3, SeenFields DEF toggle_branching_breakpoint
    <2> QED BY <1>3, <2>1, <2>2, SetType DEF toggle_branching_breakpoint
  <1>4. ASSUME toggle_priority_change_breakpoint PROVE TypeOK'
    <2> DEFINE b == [breakpoints EXCEPT !.priority = IF @ = OFF THEN PRIORITY ELSE OFF]
    <2>1. b \in Breakpoints
      BY <1>0, BreakpointFields DEF TypeOK
    <2> QED BY <1>0, <1>4, <2>1, SetType DEF toggle_priority_change_breakpoint
  <1>5. ASSUME toggle_step PROVE TypeOK'
    <2> DEFINE b == [breakpoints EXCEPT !.step = IF @ = OFF THEN ON ELSE OFF]
    <2>1. b \in Breakpoints
      BY <1>0, BreakpointFields
    <2> QED BY <1>0, <1>5, <2>1, SetType DEF toggle_step
  <1>6. CASE change_reg_content \/ clear_reg_file \/ test_inst_opcode
    <2>1. PICK pc \in 0..LAST_BYTE, pr \in 0..7 : Registers(pc, pr)
      BY <1>6, Values DEF change_reg_content, clear_reg_file, test_inst_opcode, TypeOK
    <2>2. UNCHANGED <<mode, rest, program_name>>
      BY <1>6 DEF change_reg_content, clear_reg_file, test_inst_opcode
    <2> QED BY <2>1, <2>2, RegistersType DEF TypeOK
  <1>7. CASE open_file
    BY <1>7, LoaderAssumption DEF open_file, TypeOK
  <1>8. CASE close_program
    <2>1. PC' \in 0..LAST_BYTE /\ PRIORITY' \in 0..7
      BY <1>8, Values DEF close_program, TypeOK
    <2>2. breakpoints' \in Breakpoints /\ seen' \in Seen /\ program_name' \in Seq(Bytes)
      BY <1>8, Cleared DEF close_program
    <2> QED BY <1>8, <2>1, <2>2 DEF close_program, TypeOK
  <1>9. CASE run_program \/ quit_emulator
    BY <1>9 DEF run_program, quit_emulator, TypeOK
  <1> QED BY <1>1, <1>2, <1>3, <1>4, <1>5, <1>6, <1>7, <1>8, <1>9 DEF Menu

LEMMA LoadType == TypeOK /\ (load_record \/ close_file) => TypeOK'
  <1>1. ASSUME TypeOK, load_record PROVE TypeOK'
    <2> DEFINE loaded == s_record_decoder(
                 [Blank EXCEPT !.PC = PC, !.program_name = program_name], Head(rest))
    <2>1. rest \in Seq(Records) /\ rest # << >>
      BY <1>1 DEF TypeOK, load_record
    <2>2. Head(rest) \in Records /\ Tail(rest) \in Seq(Records)
      BY <2>1, HeadTailProperties
    <2>3. loaded.PC \in 0..LAST_BYTE /\ loaded.program_name \in Seq(Bytes)
      BY <1>1, <2>2, DecodeType DEF TypeOK
    <2>4. /\ PC' \in 0..LAST_BYTE /\ PRIORITY' \in 0..7
          /\ breakpoints' \in Breakpoints /\ ctrl_C' \in BOOLEAN /\ seen' \in Seen
      BY <1>1, <2>3, RegistersType DEF load_record, TypeOK
    <2>5. mode' \in {"menu", "load"} /\ rest' \in Seq(Records)
      <3>1. << >> \in Seq(Records)
        OBVIOUS
      <3> QED BY <1>1, <2>2, <3>1 DEF load_record, TypeOK
    <2>6. program_name' \in Seq(Bytes)
      BY <1>1, <2>3 DEF load_record
    <2> QED BY <2>4, <2>5, <2>6 DEF TypeOK
  <1>2. ASSUME TypeOK, close_file PROVE TypeOK'
    BY <1>2 DEF TypeOK, close_file
  <1> QED BY <1>1, <1>2

LEMMA TypeStep == TypeOK /\ [Next]_vars => TypeOK'
  <1>1. TypeOK /\ ctrl_c_signal_detection => TypeOK'
    BY DEF TypeOK, ctrl_c_signal_detection
  <1>2. TypeOK /\ UNCHANGED vars => TypeOK'
    BY DEF TypeOK, vars
  <1> QED BY <1>1, <1>2, RoundType, MenuType, LoadType DEF Next

\* Every variable keeps its type, the widths of the breakpoint fields included,
\* through any sequence of cycles, menus, files and signals.
THEOREM DebuggerTypeCorrect == Spec => []TypeOK
  <1> QED BY TypeInit, TypeStep, PTL DEF Spec

-----------------------------------------------------------------------------
\* The history and the breakpoints agree: this is inductive together with TypeOK.
Agree == CycleBreakLateByHits /\ BranchSeesPC

LEMMA AgreeInit == Init => Agree
  BY DEF Init, Agree, CycleBreakLateByHits, BranchSeesPC, NoBreakpoints, Fresh

LEMMA RoundAgree == TypeOK /\ Agree /\ round => Agree'
  <1> SUFFICES ASSUME TypeOK, Agree, round PROVE Agree'
    OBVIOUS
  <1>1. PICK pc \in PCs, pr \in Priorities :
          /\ PC' = pc /\ PRIORITY' = pr
          /\ memory_trigger(pc) \/ cycle_trigger(pc) \/ later_triggers(pc, pr)
    BY DEF round
  <1>2. breakpoints \in Breakpoints /\ seen \in Seen
    BY DEF TypeOK
  <1>3. /\ breakpoints.cpu_cycle \in Nat \cup {OFF} /\ breakpoints.cycle_count \in Nat
        /\ seen.rounds \in Nat /\ seen.hits \in Int
    BY <1>2, Values DEF Breakpoints, Seen
  <1>4. CASE memory_trigger(pc)
    <2>1. /\ breakpoints'.cpu_cycle = breakpoints.cpu_cycle
          /\ breakpoints'.cycle_count = breakpoints.cycle_count
      BY <1>2, <1>4 DEF memory_trigger, Breakpoints
    <2>2. seen'.here = FALSE
      BY <1>2, <1>4 DEF memory_trigger, Seen
    <2>3. breakpoints.cpu_cycle # OFF =>
            seen'.rounds = seen.rounds + 1 /\ seen'.hits = seen.hits + 1
      BY <1>4 DEF memory_trigger
    <2> QED BY <1>3, <2>1, <2>2, <2>3 DEF Agree, CycleBreakLateByHits, BranchSeesPC
  <1>5. CASE cycle_trigger(pc)
    <2>1. breakpoints'.cpu_cycle = OFF
      BY <1>2, <1>5 DEF cycle_trigger, Breakpoints
    <2>2. seen'.here = FALSE
      BY <1>5 DEF cycle_trigger, Fresh
    <2> QED BY <2>1, <2>2 DEF Agree, CycleBreakLateByHits, BranchSeesPC
  <1>6. CASE later_triggers(pc, pr)
    <2>1. /\ breakpoints'.cpu_cycle = breakpoints.cpu_cycle
          /\ breakpoints'.cycle_count = IF breakpoints.cpu_cycle # OFF
                                       THEN breakpoints.cycle_count + 1
                                       ELSE breakpoints.cycle_count
          /\ breakpoints'.PC_check = IF breakpoints.branch = ON THEN pc
                                    ELSE breakpoints.PC_check
      BY <1>2, <1>6 DEF later_triggers, Counted, Breakpoints
    <2>2. /\ seen'.rounds = IF breakpoints.cpu_cycle # OFF THEN seen.rounds + 1 ELSE seen.rounds
          /\ seen'.hits = seen.hits
          /\ seen'.here = (breakpoints.branch = ON)
      BY <1>2, <1>6 DEF later_triggers, Seen
    <2>3. breakpoints.cpu_cycle # OFF => ~(breakpoints.cycle_count >= breakpoints.cpu_cycle)
      BY <1>6 DEF later_triggers, CycleHit
    <2>4. CycleBreakLateByHits'
      BY <1>3, <2>1, <2>2, <2>3 DEF Agree, CycleBreakLateByHits
    <2>5. BranchSeesPC'
      BY <1>1, <2>1, <2>2 DEF BranchSeesPC
    <2> QED BY <2>4, <2>5 DEF Agree
  <1> QED BY <1>1, <1>4, <1>5, <1>6

\* Editing the registers leaves the breakpoints, and forgets what the branch
\* breakpoint saw if it changes PC.
LEMMA RegistersAgree ==
  ASSUME TypeOK, Agree, NEW pc, NEW pr, Registers(pc, pr)
  PROVE  Agree'
  <1>1. seen \in Seen
    BY DEF TypeOK
  <1>2. /\ breakpoints' = breakpoints
        /\ seen'.rounds = seen.rounds /\ seen'.hits = seen.hits
        /\ seen'.here => seen.here /\ PC' = PC
    BY <1>1 DEF Registers, Seen
  <1> QED BY <1>2 DEF Agree, CycleBreakLateByHits, BranchSeesPC

LEMMA MenuAgree == TypeOK /\ Agree /\ Menu => Agree'
  <1> SUFFICES ASSUME TypeOK, Agree, Menu PROVE Agree'
    OBVIOUS
  <1>0. TypeOK' /\ breakpoints \in Breakpoints /\ seen \in Seen
    BY MenuType DEF TypeOK
  <1>1. ASSUME NEW a \in MemoryInputs, set_mem_breakpoint(a) PROVE Agree'
    <2>1. Set(breakpoints') /\ UNCHANGED seen /\ breakpoints' \in Breakpoints
      BY <1>0, <1>1 DEF set_mem_breakpoint, Set, TypeOK
    <2>2. /\ breakpoints'.cpu_cycle = breakpoints.cpu_cycle
          /\ breakpoints'.cycle_count = breakpoints.cycle_count
          /\ breakpoints'.PC_check = breakpoints.PC_check
      BY <1>0, <1>1 DEF set_mem_breakpoint, Set, Breakpoints
    <2> QED BY <2>1, <2>2 DEF Agree, CycleBreakLateByHits, BranchSeesPC, Set
  <1>2. ASSUME NEW n \in CycleInputs, set_cpu_cycle_breakpoint(n) PROVE Agree'
    <2>1. n \in Int
      BY DebuggerAssumption
    <2>2. /\ breakpoints'.PC_check = breakpoints.PC_check
          /\ n < 0 => breakpoints'.cpu_cycle = OFF
          /\ ~(n < 0) => breakpoints'.cpu_cycle = n /\ breakpoints'.cycle_count = 1
      BY <1>0, <1>2 DEF set_cpu_cycle_breakpoint, Set, Breakpoints
    <2>3. seen'.rounds = 0 /\ seen'.hits = 0 /\ seen'.here = seen.here /\ PC' = PC
      BY <1>0, <1>2 DEF set_cpu_cycle_breakpoint, Set, Seen
    <2> QED BY <2>1, <2>2, <2>3 DEF Agree, CycleBreakLateByHits, BranchSeesPC
  <1>3. ASSUME toggle_branching_breakpoint PROVE Agree'
    <2>1. /\ breakpoints'.cpu_cycle = breakpoints.cpu_cycle
          /\ breakpoints'.cycle_count = breakpoints.cycle_count
          /\ breakpoints'.PC_check = PC
      BY <1>0, <1>3 DEF toggle_branching_breakpoint, Set, Breakpoints
    <2>2. seen'.rounds = seen.rounds /\ seen'.hits = seen.hits /\ PC' = PC
      BY <1>0, <1>3 DEF toggle_branching_breakpoint, Set, Seen
    <2> QED BY <2>1, <2>2 DEF Agree, CycleBreakLateByHits, BranchSeesPC
  <1>4. CASE toggle_priority_change_breakpoint \/ toggle_step
    <2>1. UNCHANGED <<seen, PC>>
      BY <1>4 DEF toggle_priority_change_breakpoint, toggle_step, Set
    <2>2. /\ breakpoints'.cpu_cycle = breakpoints.cpu_cycle
          /\ breakpoints'.cycle_count = breakpoints.cycle_count
          /\ breakpoints'.PC_check = breakpoints.PC_check
      BY <1>0, <1>4 DEF toggle_priority_change_breakpoint, toggle_step, Set, Breakpoints
    <2> QED BY <2>1, <2>2 DEF Agree, CycleBreakLateByHits, BranchSeesPC
  <1>5. CASE change_reg_content \/ clear_reg_file \/ test_inst_opcode
    <2>1. \E pc, pr : Registers(pc, pr)
      BY <1>5 DEF change_reg_content, clear_reg_file, test_inst_opcode
    <2> QED BY <2>1, RegistersAgree
  <1>6. CASE close_program
    BY <1>6 DEF close_program, NoBreakpoints, Fresh, Agree, CycleBreakLateByHits, BranchSeesPC
  <1>7. CASE open_file \/ run_program \/ quit_emulator
    BY <1>7 DEF open_file, run_program, quit_emulator, Agree, CycleBreakLateByHits, BranchSeesPC
  <1> QED BY <1>1, <1>2, <1>3, <1>4, <1>5, <1>6, <1>7 DEF Menu

LEMMA AgreeStep == TypeOK /\ Agree /\ [Next]_vars => Agree'
  <1>1. TypeOK /\ Agree /\ load_record => Agree'
    BY RegistersAgree DEF load_record
  <1>2. Agree /\ (close_file \/ ctrl_c_signal_detection \/ UNCHANGED vars) => Agree'
    BY DEF close_file, ctrl_c_signal_detection, vars, Agree, CycleBreakLateByHits, BranchSeesPC
  <1> QED BY <1>1, <1>2, RoundAgree, MenuAgree DEF Next

\* The cycle breakpoint comes late by the rounds that ended at the memory breakpoint
\* and by no others, through any breaks, edits, files and signals on the way: for any
\* number of cycles the user asks for (debugger_triggers, set_cpu_cycle_breakpoint).
THEOREM CycleBreakpointLateByHits == Spec => []CycleBreakLateByHits
  <1>1. Init => TypeOK /\ Agree
    BY TypeInit, AgreeInit
  <1>2. TypeOK /\ Agree /\ [Next]_vars => (TypeOK /\ Agree)'
    BY TypeStep, AgreeStep
  <1>3. TypeOK /\ Agree => CycleBreakLateByHits
    BY DEF Agree
  <1> QED BY <1>1, <1>2, <1>3, PTL DEF Spec

\* What the branch breakpoint compares with is the PC of the last round, unless an
\* earlier trigger or an editor came between.
THEOREM BranchBreakpointSeesPC == Spec => []BranchSeesPC
  <1>1. Init => TypeOK /\ Agree
    BY TypeInit, AgreeInit
  <1>2. TypeOK /\ Agree /\ [Next]_vars => (TypeOK /\ Agree)'
    BY TypeStep, AgreeStep
  <1>3. TypeOK /\ Agree => BranchSeesPC
    BY DEF Agree
  <1> QED BY <1>1, <1>2, <1>3, PTL DEF Spec

-----------------------------------------------------------------------------
\* The body of BreaksAsSet.
BreaksForReason ==
  round =>
    LET atMemory == breakpoints.memory # NONE /\ PC' = breakpoints.memory
        cycles == breakpoints.cpu_cycle # OFF
                    /\ seen.rounds - seen.hits + 1 >= breakpoints.cpu_cycle
        other  == \/ atMemory \/ cycles \/ PriorityChanged(PRIORITY')
                  \/ breakpoints.step = ON \/ ctrl_C
        jump   == breakpoints.branch = ON /\ PC' # PC + WORD_STEP
        offHit == breakpoints.memory = NONE /\ PC' = NONE
        unseen == breakpoints.branch = ON /\ ~seen.here
    IN  /\ other => mode' = "menu"
        /\ ~other /\ ~offHit /\ ~unseen => (mode' = "menu" <=> jump)

LEMMA RoundBreaks == TypeOK /\ Agree => BreaksForReason
  <1> SUFFICES ASSUME TypeOK, Agree, round PROVE BreaksForReason
    BY DEF BreaksForReason
  <1>1. PICK pc \in PCs, pr \in Priorities :
          /\ PC' = pc /\ PRIORITY' = pr
          /\ memory_trigger(pc) \/ cycle_trigger(pc) \/ later_triggers(pc, pr)
    BY DEF round
  <1>2. /\ breakpoints.cpu_cycle \in Nat \cup {OFF} /\ breakpoints.cycle_count \in Nat
        /\ seen.rounds \in Nat /\ seen.hits \in Int
        /\ breakpoints.branch \in {OFF, ON} /\ PC \in Int /\ pc \in Int
        /\ breakpoints.PC_check \in Int
    <2>1. breakpoints \in Breakpoints /\ seen \in Seen /\ PC \in 0..LAST_BYTE
      BY DEF TypeOK
    <2>2. 0..LAST_BYTE \subseteq Int /\ 0..MaxHits \subseteq Int
      BY LastByte, Values
    <2> QED BY <2>1, <2>2, Values DEF Breakpoints, Seen
  <1>3. CycleHit <=> /\ breakpoints.cpu_cycle # OFF
                     /\ seen.rounds - seen.hits + 1 >= breakpoints.cpu_cycle
    BY <1>2 DEF CycleHit, Agree, CycleBreakLateByHits
  <1>4. seen.here => (Jumped(pc) <=> breakpoints.branch = ON /\ pc # PC + WORD_STEP)
    BY <1>2 DEF Jumped, Agree, BranchSeesPC, WORD_STEP
  <1>5. breakpoints.branch # ON => ~Jumped(pc)
    BY DEF Jumped
  <1>6. CASE memory_trigger(pc) \/ cycle_trigger(pc)
    <2>1. mode' = "menu" /\ (MemoryHit(pc) \/ CycleHit)
      BY <1>6 DEF memory_trigger, cycle_trigger
    <2>2. MemoryHit(pc) => \/ breakpoints.memory # NONE /\ pc = breakpoints.memory
                           \/ breakpoints.memory = NONE /\ pc = NONE
      BY DEF MemoryHit
    <2> QED BY <1>1, <1>3, <2>1, <2>2 DEF BreaksForReason
  <1>7. CASE later_triggers(pc, pr)
    <2>1. ~MemoryHit(pc) /\ ~CycleHit
      BY <1>7 DEF later_triggers
    <2>2. mode' = "menu" <=>
            Jumped(pc) \/ PriorityChanged(pr) \/ breakpoints.step = ON \/ ctrl_C
      BY <1>7 DEF later_triggers
    <2> QED BY <1>1, <1>3, <1>4, <1>5, <2>1, <2>2 DEF BreaksForReason, MemoryHit
  <1> QED BY <1>1, <1>6, <1>7

\* For any values of the registers and any breakpoints: what is set stops the program,
\* and nothing else does but jumps under the branch breakpoint, each of them, where
\* that breakpoint has seen the PC before; and PC at 0xFFFF with the memory
\* breakpoint off (debugger_triggers).
THEOREM BreaksWhereSet == Spec => BreaksAsSet
  <1>1. Init => TypeOK /\ Agree
    BY TypeInit, AgreeInit
  <1>2. TypeOK /\ Agree /\ [Next]_vars => (TypeOK /\ Agree)'
    BY TypeStep, AgreeStep
  <1>3. TypeOK /\ Agree => BreaksForReason
    BY RoundBreaks
  <1> QED BY <1>1, <1>2, <1>3, PTL DEF Spec, BreaksAsSet, BreaksForReason

\* No ctrl-C is lost.
THEOREM CtrlCNotLost == Spec => CtrlCKept
  <1>1. TypeOK /\ [Next]_vars =>
          [ctrl_C /\ ~ctrl_C' => (mode = "run" /\ mode' = "menu") \/ close_program]_vars
    <2> SUFFICES ASSUME TypeOK, [Next]_vars, ctrl_C, ~ctrl_C'
                 PROVE  (mode = "run" /\ mode' = "menu") \/ close_program
      OBVIOUS
    <2>1. CASE round
      BY <2>1 DEF round, memory_trigger, cycle_trigger, later_triggers
    <2>2. CASE Menu
      BY <2>2 DEF Menu, set_mem_breakpoint, set_cpu_cycle_breakpoint,
           toggle_branching_breakpoint, toggle_priority_change_breakpoint, toggle_step, Set,
           change_reg_content, clear_reg_file, test_inst_opcode, Registers, open_file,
           run_program, quit_emulator
    <2>3. CASE load_record
      BY <2>3 DEF load_record, Registers
    <2>4. CASE close_file \/ ctrl_c_signal_detection \/ UNCHANGED vars
      BY <2>4 DEF close_file, ctrl_c_signal_detection, vars
    <2> QED BY <2>1, <2>2, <2>3, <2>4 DEF Next
  <1> QED BY <1>1, TypeInit, TypeStep, PTL DEF Spec, CtrlCKept

-----------------------------------------------------------------------------
\* A file that is loaded to its end is in memory, byte for byte, with the start
\* address: whatever files there are.
THEOREM FilesAreLoaded == Spec => []FilesLoadIntact
<1>1. FilesLoadIntact
  BY WholeFileLoaded DEF FilesLoadIntact
<1>. QED BY <1>1, PTL

\* A file with one byte changed, in a record of code or of the start address, is
\* refused at that record.
THEOREM FilesAreVerified == Spec => []FilesVerified
<1>1. FilesVerified
  BY CorruptionFound DEF FilesVerified
<1>. QED BY <1>1, PTL
=============================================================================
