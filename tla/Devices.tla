------------------------------ MODULE Devices ------------------------------
(***************************************************************************)
(* The main loop of the emulator seen from the devices: the CPU cycle as   *)
(* far as devices and interrupts can tell (CPU_operations.cpp), the device *)
(* ports (device_memory_access), device_management and the interrupt       *)
(* entry, queue and return of Device_Handling.cpp.                         *)
(*                                                                         *)
(* The program is single-threaded.  "stage" says where the main loop is:   *)
(* FETCH and EXECUTE are the two halves of CPU_cycle, INPUTS is the while  *)
(* loop of device_management and 0..N-1 its loop over the devices.         *)
(* A record of the device file becomes due by the clock, so a device may   *)
(* act between any two instructions, and only there.                       *)
(*                                                                         *)
(* The machine program is any sequence of the instructions in Program.  Of *)
(* its addresses the model keeps what interrupts tell apart (see PC).      *)
(* The stack is kept as the frames interrupts push; programs leave it      *)
(* alone.  The cache is off: every bus access charges three ticks.         *)
(***************************************************************************)
EXTENDS Integers, Sequences

CONSTANTS
  N,               \* DEVICE_NUMBER_SUPPORTED
  Kind,            \* device file: INPUT or OUTPUT, by device
  ProcTime,        \* device file: processing time, by device
  Records,         \* device file: the input records, a sequence of [clk, dev]
  VectorPriority,  \* priority in the INT_PSW word of each device's vector
  Program,         \* what the machine program does: see CPU_cycle
  Controls,        \* the control bytes it writes to the port of each device
  Images,          \* those the user gives a port: by the program loaded, or the editor
  Priorities,      \* the values the machine program gives to PRIORITY
  Services,        \* what the menus are used for: device_init, close_program and
                   \* change_mem_content, by their names
  MaxClk,          \* sys_clk is not told apart from here on: no record is later
  MaxFrames        \* bound on the stack depth at which a program lowers PRIORITY

OUTPUT == 0
INPUT  == 1
Dev    == 0..(N - 1)

\* The bits of a port's control byte that are in use.
ControlByte == [IE : 0..1, I_O : {OUTPUT, INPUT}, DBA : 0..1, OV : 0..1]

ASSUME DeviceAssumption ==
  /\ N \in Nat \ {0}
  /\ Kind \in [Dev -> {OUTPUT, INPUT}]
  /\ ProcTime \in [Dev -> Nat]
  /\ VectorPriority \in [Dev -> 0..7]
  /\ MaxClk \in Nat
  /\ MaxFrames \in Nat
  /\ Records \in Seq([clk : 0..MaxClk, dev : Dev])
  /\ Program \subseteq {"poll", "write", "sleep"}
  /\ Controls \in [Dev -> SUBSET ControlByte]
  /\ Images \subseteq ControlByte
  /\ Priorities \subseteq 0..7
  /\ Services \subseteq {"device_init", "close_program", "change_mem_content"}

INT_OFF == -1                       \* a device that is not in the queue

\* Values of PC and LR.  An address in the service routine of a device is that
\* device's number; RETURN is LAST_BYTE, 0xFFFF; ODD any other odd address.
MAIN   == -1
RETURN == -2
ODD    == -3
Addresses == {MAIN, RETURN, ODD} \cup Dev

\* The values of stage before those of Dev.
FETCH   == -3
EXECUTE == -2
INPUTS  == -1

MEMORY_ACCESS_CLK_INC == 3
NORMAL_OP_CLK_INC     == 1

VARIABLES
  stage,           \* where the main loop is
  cpu,             \* PC, LR, PSW, the interrupt frames on the stack, and the queue
  port,            \* the device ports: IE, I_O, DBA, OV
  time_left,       \* by device: processing time left
  input_dev_queue, \* the input record read ahead: data_avail, clk, dev
  position,        \* how many records of the device file have been read
  input_file_EOF,  \* the end of the device file has been seen
  sys_clk,         \* system clock
  run_clk          \* ticks since the loop began

devices == <<port, time_left>>
file    == <<input_dev_queue, position, input_file_EOF>>
clocks  == <<sys_clk, run_clk>>
vars    == <<stage, cpu, port, time_left, input_dev_queue, position, input_file_EOF,
             sys_clk, run_clk>>

\* queue is interrupt_queue: by device INT_OFF, or the priority it was queued with.
\* The device file has just been loaded.  The ports are in memory, where they are
\* what the loader made them; device_init sets the I/O bit of each and no other.
Init ==
  /\ stage = FETCH
  /\ cpu = [PC |-> MAIN, LR |-> MAIN,
            PSW |-> [PRIORITY |-> 0, prev_PRIORITY |-> 0, SLP |-> 0],
            stack |-> << >>, queue |-> [d \in Dev |-> INT_OFF]]
  /\ \E image \in [Dev -> Images] :
       port = [d \in Dev |-> [image[d] EXCEPT !.I_O = Kind[d]]]
  /\ time_left = [d \in Dev |-> 0]
  /\ input_dev_queue = [data_avail |-> 0, clk |-> 0, dev |-> 0]
  /\ position = 0
  /\ input_file_EOF = 0
  /\ sys_clk = 0
  /\ run_clk = 0

\* Mutant of Tick: only the system clock is charged.
TickSystem(n) ==
  /\ sys_clk' = IF sys_clk + n < MaxClk THEN sys_clk + n ELSE MaxClk
  /\ UNCHANGED run_clk

\* Charging n ticks to both clocks.
Tick(n) ==
  /\ sys_clk' = IF sys_clk + n < MaxClk THEN sys_clk + n ELSE MaxClk
  /\ run_clk' = run_clk + n

-----------------------------------------------------------------------------
(***************************************************************************)
(* Interrupts: functions from a processor state m to the next one.         *)
(***************************************************************************)

\* Mutant of interrupt_handling_process: equal priorities preempt each other.
PreemptEqual(m, d) ==
  IF VectorPriority[d] < m.PSW.PRIORITY
  THEN [m EXCEPT !.queue[d] = VectorPriority[d]]
  ELSE [m EXCEPT
          !.stack = Append(@, [PC |-> m.PC, PSW |-> m.PSW, LR |-> m.LR]),
          !.PSW = [PRIORITY |-> VectorPriority[d], prev_PRIORITY |-> m.PSW.PRIORITY, SLP |-> 0],
          !.PC = d,
          !.LR = RETURN]

\* Mutant of interrupt_handling_process: LR is not pushed, and not replaced.
KeepLink(m, d) ==
  IF VectorPriority[d] <= m.PSW.PRIORITY
  THEN [m EXCEPT !.queue[d] = VectorPriority[d]]
  ELSE [m EXCEPT
          !.stack = Append(@, [PC |-> m.PC, PSW |-> m.PSW, LR |-> RETURN]),
          !.PSW = [PRIORITY |-> VectorPriority[d], prev_PRIORITY |-> m.PSW.PRIORITY, SLP |-> 0],
          !.PC = d,
          !.LR = RETURN]

interrupt_handling_process(m, d) ==
  IF VectorPriority[d] <= m.PSW.PRIORITY
  THEN [m EXCEPT !.queue[d] = VectorPriority[d]]
  ELSE [m EXCEPT
          !.stack = Append(@, [PC |-> m.PC, PSW |-> m.PSW, LR |-> m.LR]),
          !.PSW = [PRIORITY |-> VectorPriority[d], prev_PRIORITY |-> m.PSW.PRIORITY, SLP |-> 0],
          !.PC = d,
          !.LR = RETURN]

\* Mutant of Waiting: the priority of the routine that ends is the one to beat.
WaitingAbove(m) == {d \in Dev : m.queue[d] > m.PSW.PRIORITY}

\* The queued devices above the priority the routine would return to.
Waiting(m) == {d \in Dev : m.queue[d] > m.PSW.prev_PRIORITY}

Last(S) == CHOOSE d \in S : \A e \in S : e <= d

PullFrame(m) ==
  LET frame == m.stack[Len(m.stack)]
  IN  [m EXCEPT !.stack = SubSeq(@, 1, Len(@) - 1),
                !.LR = frame.LR,
                !.PSW = [frame.PSW EXCEPT !.SLP = 0],
                !.PC = frame.PC]

\* Mutant of interrupt_return_process: the slot is cleared after the handling
\* instead of before it.
ReturnThenClear(m) ==
  IF Waiting(m) # {}
  THEN LET d == Last(Waiting(m))
       IN  [interrupt_handling_process(m, d) EXCEPT !.queue[d] = INT_OFF]
  ELSE PullFrame(m)

interrupt_return_process(m) ==
  IF Waiting(m) # {}
  THEN LET d == Last(Waiting(m))
       IN  interrupt_handling_process([m EXCEPT !.queue[d] = INT_OFF], d)
  ELSE PullFrame(m)

\* Three bus accesses whenever a frame is pushed or pulled.
FrameTicks(m, n) ==
  IF Len(m.stack) = Len(n.stack) THEN 0 ELSE 3 * MEMORY_ACCESS_CLK_INC

-----------------------------------------------------------------------------
(***************************************************************************)
(* CPU_cycle.                                                              *)
(***************************************************************************)

asleep ==
  /\ stage = FETCH
  /\ cpu.PSW.SLP = 1
  /\ stage' = INPUTS
  /\ UNCHANGED <<cpu, devices, file, clocks>>

\* Fetching at an even address.
fetch ==
  /\ stage = FETCH
  /\ cpu.PSW.SLP = 0
  /\ cpu.PC \in {MAIN} \cup Dev
  /\ Tick(MEMORY_ACCESS_CLK_INC + NORMAL_OP_CLK_INC)
  /\ stage' = EXECUTE
  /\ UNCHANGED <<cpu, devices, file>>

\* Mutant of fetch_fails: the clocks are charged after the check, not before it.
FailsBeforeTick ==
  /\ stage = FETCH
  /\ cpu.PSW.SLP = 0
  /\ cpu.PC = ODD
  /\ stage' = INPUTS
  /\ UNCHANGED <<cpu, devices, file, clocks>>

\* An odd address other than 0xFFFF stops the cycle.
fetch_fails ==
  /\ stage = FETCH
  /\ cpu.PSW.SLP = 0
  /\ cpu.PC = ODD
  /\ Tick(NORMAL_OP_CLK_INC)
  /\ stage' = INPUTS
  /\ UNCHANGED <<cpu, devices, file>>

\* At 0xFFFF the fetch returns from the routine and goes on with the PC that
\* leaves, whatever it is: 0xFFFF + WORD_STEP wraps to an odd address, and a
\* small odd address reads a device port.
fetch_returns ==
  /\ stage = FETCH
  /\ cpu.PSW.SLP = 0
  /\ cpu.PC = RETURN
  /\ LET m == interrupt_return_process(cpu)
     IN  /\ cpu' = [m EXCEPT !.PC = IF @ = RETURN THEN ODD ELSE @]
         /\ Tick(FrameTicks(cpu, m) + MEMORY_ACCESS_CLK_INC + NORMAL_OP_CLK_INC)
         /\ \/ UNCHANGED port
            \/ \E d \in Dev : /\ m.PC = ODD /\ port[d].I_O = INPUT
                              /\ port' = [port EXCEPT ![d].DBA = 0]
  /\ stage' = EXECUTE
  /\ UNCHANGED <<time_left, file>>

\* Decoding and executing an instruction that makes n bus accesses.
Execute(n) ==
  /\ stage = EXECUTE
  /\ Tick(2 * NORMAL_OP_CLK_INC + n * MEMORY_ACCESS_CLK_INC)
  /\ stage' = INPUTS

\* An instruction that concerns no device and leaves PC in the same code.  The
\* word fetched from an odd address may be any instruction of the program.
compute ==
  /\ Execute(0)
  /\ UNCHANGED <<cpu, devices, file>>

\* The end of a routine: the link register goes to PC.
return ==
  /\ cpu.LR = RETURN
  /\ Execute(0)
  /\ cpu' = [cpu EXCEPT !.PC = RETURN]
  /\ UNCHANGED <<devices, file>>

\* Reading a port: device_memory_access of an INPUT port acknowledges the data.
poll(d) ==
  /\ "poll" \in Program
  /\ Execute(1)
  /\ port' = IF port[d].I_O = INPUT THEN [port EXCEPT ![d].DBA = 0] ELSE port
  /\ UNCHANGED <<cpu, time_left, file>>

\* Mutant of StartOutput: neither assignment to DBA is there.
StartOutputBusy(p) == p

\* What device_memory_access does with a write to an OUTPUT port, beyond the
\* write itself.  The test for an overrun is an assignment, if (DBA = DISABLED),
\* whose value is always false: OV stays as it is.
StartOutput(p) == [p EXCEPT !.DBA = 0]

\* Mutant of write: the processing time is added to what is left of it.
WriteAccumulates(d) ==
  /\ "write" \in Program
  /\ Execute(1)
  /\ IF port[d].I_O = OUTPUT
     THEN /\ port' = [port EXCEPT ![d] = StartOutput(@)]
          /\ time_left' = [time_left EXCEPT ![d] = @ + ProcTime[d]]
     ELSE UNCHANGED devices
  /\ UNCHANGED <<cpu, file>>

\* Writing the data byte of a port.
write(d) ==
  /\ "write" \in Program
  /\ Execute(1)
  /\ IF port[d].I_O = OUTPUT
     THEN /\ port' = [port EXCEPT ![d] = StartOutput(@)]
          /\ time_left' = [time_left EXCEPT ![d] = ProcTime[d]]
     ELSE UNCHANGED devices
  /\ UNCHANGED <<cpu, file>>

\* Writing the control byte of a port, alone or with the data as a word: the byte
\* is stored as it is, its I/O bit included.  If the port was an OUTPUT port this
\* too starts a transfer, whatever direction the byte gives it.
control(d, byte) ==
  /\ Execute(1)
  /\ IF port[d].I_O = OUTPUT
     THEN /\ port' = [port EXCEPT ![d] = StartOutput(byte)]
          /\ time_left' = [time_left EXCEPT ![d] = ProcTime[d]]
     ELSE /\ port' = [port EXCEPT ![d] = byte]
          /\ UNCHANGED time_left
  /\ UNCHANGED <<cpu, file>>

\* Setting the sleep bit of PSW.
sleep ==
  /\ "sleep" \in Program
  /\ Execute(0)
  /\ cpu' = [cpu EXCEPT !.PSW.SLP = 1]
  /\ UNCHANGED <<devices, file>>

\* Setting PRIORITY in PSW.
set_priority(p) ==
  /\ p < cpu.PSW.PRIORITY => Len(cpu.stack) < MaxFrames
  /\ Execute(0)
  /\ cpu' = [cpu EXCEPT !.PSW.PRIORITY = p]
  /\ UNCHANGED <<devices, file>>

-----------------------------------------------------------------------------
(***************************************************************************)
(* device_management.                                                      *)
(***************************************************************************)

\* An interrupt if the port asks for one.
Interrupt(d, IE) ==
  LET m == IF IE = 1 THEN interrupt_handling_process(cpu, d) ELSE cpu
  IN  /\ cpu' = m
      /\ Tick(FrameTicks(cpu, m))

InputDue == input_dev_queue.clk <= sys_clk /\ input_file_EOF # 1

\* A record that is due arrives at its device.
input_device_data_process ==
  /\ stage = INPUTS
  /\ InputDue
  /\ input_dev_queue.data_avail = 1
  /\ LET d == input_dev_queue.dev
     IN  IF port[d].I_O = INPUT
         THEN /\ port' = [port EXCEPT ![d].DBA = 1,
                                      ![d].OV = IF port[d].DBA = 0 THEN @ ELSE 1]
              /\ Interrupt(d, port[d].IE)
         ELSE UNCHANGED <<cpu, port, clocks>>
  /\ input_dev_queue' = [input_dev_queue EXCEPT !.data_avail = 0]
  /\ UNCHANGED <<stage, time_left, position, input_file_EOF>>

\* The next record is read ahead, or the end of the file seen.
read_record ==
  /\ stage = INPUTS
  /\ InputDue
  /\ input_dev_queue.data_avail = 0
  /\ IF position < Len(Records)
     THEN /\ position' = position + 1
          /\ input_dev_queue' = [data_avail |-> 1, clk |-> Records[position + 1].clk,
                                 dev |-> Records[position + 1].dev]
          /\ UNCHANGED input_file_EOF
     ELSE /\ input_file_EOF' = 1
          /\ input_dev_queue' = [input_dev_queue EXCEPT !.data_avail = 1]
          /\ UNCHANGED position
  /\ UNCHANGED <<stage, cpu, devices, clocks>>

inputs_done ==
  /\ stage = INPUTS
  /\ ~InputDue
  /\ stage' = INPUTS + 1
  /\ UNCHANGED <<cpu, devices, file, clocks>>

\* After the last device the loop begins again and resets run_clk.
NextStage == IF stage = N - 1 THEN FETCH ELSE stage + 1

output_device_data_process ==
  /\ stage \in Dev
  /\ port[stage].I_O = OUTPUT /\ time_left[stage] > 0
  /\ time_left' = [time_left EXCEPT ![stage] = @ - run_clk]
  /\ LET done == time_left[stage] - run_clk <= 0
     IN  /\ port' = [port EXCEPT ![stage].OV = 0, ![stage].DBA = IF done THEN 1 ELSE @]
         /\ LET m == IF done /\ port[stage].IE = 1
                     THEN interrupt_handling_process(cpu, stage) ELSE cpu
            IN  /\ cpu' = m
                /\ sys_clk' = IF sys_clk + FrameTicks(cpu, m) < MaxClk
                              THEN sys_clk + FrameTicks(cpu, m) ELSE MaxClk
                /\ run_clk' = IF stage = N - 1 THEN 0 ELSE run_clk + FrameTicks(cpu, m)
  /\ stage' = NextStage
  /\ UNCHANGED file

output_idle ==
  /\ stage \in Dev
  /\ ~(port[stage].I_O = OUTPUT /\ time_left[stage] > 0)
  /\ run_clk' = IF stage = N - 1 THEN 0 ELSE run_clk
  /\ stage' = NextStage
  /\ UNCHANGED <<cpu, devices, file, sys_clk>>

\* From the debugger menu, between two rounds of the main loop: the device file
\* is closed and loaded again.
device_init ==
  /\ "device_init" \in Services
  /\ stage = FETCH
  /\ cpu' = [cpu EXCEPT !.queue = [d \in Dev |-> INT_OFF]]
  /\ port' = [d \in Dev |-> [port[d] EXCEPT !.I_O = Kind[d]]]
  /\ input_dev_queue' = [input_dev_queue EXCEPT !.data_avail = 0]
  /\ position' = 0
  /\ UNCHANGED <<stage, time_left, input_file_EOF, clocks>>

\* Closing the program and its registers, and loading another: memory and with it
\* the ports are new, the clock begins again, and the queue, the transfers and the
\* device file with the record read ahead are those of the closed program.
close_program ==
  /\ "close_program" \in Services
  /\ stage = FETCH
  /\ cpu' = [cpu EXCEPT !.PC = MAIN, !.LR = MAIN, !.stack = << >>,
                        !.PSW = [PRIORITY |-> 0, prev_PRIORITY |-> 0, SLP |-> 0]]
  /\ port' \in [Dev -> Images]
  /\ sys_clk' = 0
  /\ run_clk' = 0
  /\ UNCHANGED <<stage, time_left, file>>

\* The memory editor, used on a port.
change_mem_content(d, byte) ==
  /\ "change_mem_content" \in Services
  /\ stage = FETCH
  /\ port' = [port EXCEPT ![d] = byte]
  /\ UNCHANGED <<stage, cpu, time_left, file, clocks>>

-----------------------------------------------------------------------------
CPU_cycle ==
  \/ asleep \/ fetch \/ fetch_fails \/ fetch_returns
  \/ compute \/ return \/ sleep
  \/ \E d \in Dev : poll(d) \/ write(d) \/ \E byte \in Controls[d] : control(d, byte)
  \/ \E p \in Priorities : set_priority(p)

device_management ==
  \/ input_device_data_process \/ read_record \/ inputs_done
  \/ output_device_data_process \/ output_idle

edited == \E d \in Dev, byte \in Images : change_mem_content(d, byte)

Next == CPU_cycle \/ device_management \/ device_init \/ close_program \/ edited

Spec == Init /\ [][Next]_vars

\* The main loop never stops by itself.  The debugger may take the machine to
\* the menu and back, but not forever.
FairSpec == Spec /\ WF_vars(CPU_cycle \/ device_management)

-----------------------------------------------------------------------------
(***************************************************************************)
(* Properties.                                                             *)
(***************************************************************************)

PSWs == [PRIORITY : 0..7, prev_PRIORITY : 0..7, SLP : 0..1]

\* The variables have their types: priorities fit the three bits of PSW and of
\* the queue, and time_left, a signed number, never exceeds a processing time.
TypeOK ==
  /\ stage \in FETCH..(N - 1)
  /\ cpu \in [PC : Addresses, LR : Addresses, PSW : PSWs,
             stack : Seq([PC : Addresses, LR : Addresses, PSW : PSWs]),
             queue : [Dev -> INT_OFF..7]]
  /\ port \in [Dev -> ControlByte]
  /\ time_left \in [Dev -> Int]
  /\ \A d \in Dev : time_left[d] <= ProcTime[d]
  /\ input_dev_queue \in [data_avail : 0..1, clk : 0..MaxClk, dev : Dev]
  /\ position \in 0..Len(Records)
  /\ input_file_EOF \in 0..1
  /\ sys_clk \in 0..MaxClk
  /\ run_clk \in Nat

\* The interrupt frames form a stack on top of the main program: without frames
\* the processor is in the main program; with them LR can only lead to the
\* return sequence, until the frame of the main program is pulled.  So a return
\* never pulls from an empty stack, however routines, queued interrupts and
\* returns interleave.
StackDiscipline ==
  LET Link(i)  == IF i <= Len(cpu.stack) THEN cpu.stack[i].LR ELSE cpu.LR
      At(i)    == IF i <= Len(cpu.stack) THEN cpu.stack[i].PC ELSE cpu.PC
  IN  \A i \in 1..(Len(cpu.stack) + 1) :
        IF i = 1 THEN Link(i) = MAIN /\ At(i) = MAIN
                 ELSE Link(i) = RETURN /\ At(i) # MAIN

\* A routine interrupts only code of a lower priority: from the main program up,
\* the priorities on the stack and the current one strictly increase, and
\* prev_PRIORITY, which stands in for the saved PSW when a routine returns,
\* agrees with the PSW that was saved.  For programs that leave PRIORITY alone.
NestingOrder ==
  LET depth    == Len(cpu.stack)
      PSW(i)   == IF i <= depth THEN cpu.stack[i].PSW ELSE cpu.PSW
  IN  \A i \in 2..(depth + 1) :
        /\ PSW(i).PRIORITY > PSW(i - 1).PRIORITY
        /\ PSW(i).prev_PRIORITY = PSW(i - 1).PRIORITY

\* An interrupt waits in the queue only for code it does not outrank: whatever
\* routines end or are entered meanwhile, those that run before it have at least
\* its priority.  For programs that leave PRIORITY alone and are not closed.
QueueOutranked == \A d \in Dev : cpu.queue[d] <= cpu.PSW.PRIORITY

\* A program that leaves the direction of its ports alone: the control bytes it
\* writes repeat the I/O bit of the device file, and in the program as loaded, and
\* where the user edits a port, the I/O and DBA bits are clear.
DirectionKept ==
  /\ \A d \in Dev : \A byte \in Controls[d] : byte.I_O = Kind[d]
  /\ \A byte \in Images : byte.I_O = OUTPUT /\ byte.DBA = 0

Busy(d) == port[d].I_O = OUTPUT /\ time_left[d] > 0

\* A transfer in progress is not announced as finished: while an output device
\* has time left its DBA bit is clear, so that a program that waits for DBA
\* does not overwrite the data.  For programs that leave the direction of the
\* ports alone, whatever they write to the IE, DBA and OV bits.
BusyOutputNotReady == DirectionKept => \A d \in Dev : Busy(d) => port[d].DBA = 0

\* Programs that turn their ports round included: a transfer that is still in
\* progress comes to be announced as finished only where an INPUT port, with time
\* left from before it was one, is made an OUTPUT port again, or where the user
\* changes the port, with the editor or by loading the next program.  No write to an
\* OUTPUT port, no record and no end of a transfer does it.
AnnouncedByTurning ==
  [][\A d \in Dev : Busy(d)' /\ port'[d].DBA = 1 =>
       \/ Busy(d) /\ port[d].DBA = 1
       \/ port[d].I_O = INPUT
       \/ close_program \/ edited]_vars

\* An interrupt in the queue leaves it only when its routine is entered, or when
\* the device file is loaded again.
QueueKeepsInterrupts ==
  [][\A d \in Dev :
       cpu.queue[d] # INT_OFF /\ cpu'.queue[d] = INT_OFF =>
         cpu'.PC = d \/ device_init]_vars

\* Every record of the device file is delivered, and its end is seen, whatever a
\* program does that does not sleep: at the latest when the clock has passed the
\* last record, programs closed on the way, which set it back, included.
InputsDelivered ==
  \/ "sleep" \in Program
  \/ <>(position = Len(Records) /\ input_file_EOF = 1)
  \/ []<><<close_program>>_vars

\* A write to an OUTPUT port, of either byte.
starts(d) ==
  port[d].I_O = OUTPUT /\ (write(d) \/ \E byte \in Controls[d] : control(d, byte))

\* A transfer ends, unless the program keeps starting it anew, or the port is an
\* INPUT port for good or time and again: there the time left stands still.
OutputCompletes ==
  \A d \in Dev :
    \/ []<>(time_left[d] <= 0)
    \/ []<><<starts(d)>>_vars
    \/ []<>(port[d].I_O = INPUT)

(***************************************************************************)
(* What comments of the source say and the code does not do.               *)
(***************************************************************************)

\* "First it analyses the interrupt queue to see if there's an interrupt vector
\* with higher priority than the previous PSW priority": if there is one, the
\* return enters its routine.
ReturnServicesQueue ==
  [][fetch_returns /\ Waiting(cpu) # {} => cpu'.PC \in Waiting(cpu)]_vars
=============================================================================
