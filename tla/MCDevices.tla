----------------------------- MODULE MCDevices -----------------------------
(***************************************************************************)
(* Instances of Devices for TLC: device tables and device files.           *)
(***************************************************************************)
EXTENDS Devices

Rec(c, d) == [clk |-> c, dev |-> d]

\* One input device, 0, and one output device, 1.
MCInOut == <<INPUT, OUTPUT>>
MCKind  == [d \in Dev |-> MCInOut[(d % 2) + 1]]
MCInputs == [d \in Dev |-> INPUT]

\* Control bytes: of a program that sets IE and clears the rest; of one that switches
\* the interrupts of its input devices, and turns the ports of its output devices
\* round, with any DBA bit.
MCSwitched == [d \in Dev |-> [IE : 0..1, I_O : {Kind[d]}, DBA : {0}, OV : {0}]]
MCTurned   ==
  [d \in Dev |-> IF Kind[d] = INPUT
                 THEN [IE : 0..1, I_O : {INPUT}, DBA : {0}, OV : {0}]
                 ELSE [IE : {1}, I_O : {OUTPUT, INPUT}, DBA : 0..1, OV : {0}]]
MCNone     == [d \in Dev |-> {}]

\* Ports as loaded or edited: the I/O, DBA and OV bits clear; or announced as ready.
MCClear  == [IE : 0..1, I_O : {OUTPUT}, DBA : {0}, OV : {0}]
MCLoaded == [IE : {1}, I_O : {OUTPUT}, DBA : {1}, OV : {0}]

\* Longer than one instruction, shorter than two.
MCProcTime == [d \in Dev |-> 10]

\* The vector priorities fall with the device number, the order of the loop over
\* the devices; the lowest is still above the main program.
MCFalling == [d \in Dev |-> N - d]

\* An instruction takes 6 to 9 ticks, an interrupt 9 more: the records come in
\* the first instructions, while routines and their returns run; the second of
\* MCMixed comes when a return may already have run on to an odd address.
MCOnce  == <<Rec(4, 0), Rec(20, 1)>>
MCMixed == <<Rec(4, 0), Rec(30, 0)>>
MCThree == <<Rec(4, 2), Rec(20, 1), Rec(34, 0), Rec(50, 2)>>
=============================================================================
