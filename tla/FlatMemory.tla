----------------------------- MODULE FlatMemory -----------------------------
(***************************************************************************)
(* What the machine promises its instructions about memory, whatever the   *)
(* cache in between: one word per address, a read returns what was last    *)
(* written there, a write changes the addressed byte or word and nothing   *)
(* else.  Device ports are the exception: a device may change its own port *)
(* word at any time, and nobody else's.                                    *)
(***************************************************************************)
EXTENDS Words

VARIABLES
  flat,            \* the word at every address
  out              \* the data register of the last access

Init ==
  /\ flat = [w \in WordAddr |-> Zero]
  /\ out = Zero

Read(mar, size) ==
  /\ ~IsDevice(mar)
  /\ out' = Get(flat[WORD_ADDR_CONV(mar)], mar, size)
  /\ UNCHANGED flat

\* A write leaves the data it was given in the data register, or the whole word.
Write(mar, size, data) ==
  /\ ~IsDevice(mar)
  /\ flat' = [flat EXCEPT ![WORD_ADDR_CONV(mar)] = Put(@, mar, size, data)]
  /\ out' \in {data, flat'[WORD_ADDR_CONV(mar)]}

Port(w, word) ==
  /\ w < DeviceWords
  /\ flat' = [flat EXCEPT ![w] = word]
  /\ out' \in Word

Load(image) ==
  /\ flat' = Overlay(flat, image)
  /\ UNCHANGED out

Clear ==
  /\ flat' = [w \in WordAddr |-> Zero]
  /\ UNCHANGED out

Next ==
  \/ \E mar \in ByteAddr, size \in Sizes :
       Read(mar, size) \/ \E data \in Data : Write(mar, size, data)
  \/ \E w \in WordAddr, word \in Word : Port(w, word)
  \/ \E image \in Images : Load(image)
  \/ Clear

Spec == Init /\ [][Next]_<<flat, out>>
=============================================================================
