------------------------------- MODULE Words -------------------------------
(***************************************************************************)
(* The memory of the X-Makina machine: sixteen-bit words made of two       *)
(* bytes, addressed by byte.  The emulator keeps it in a union of byte[]   *)
(* and word[], so the low byte of word w is byte 2*w and its high byte is  *)
(* byte 2*w + 1.                                                           *)
(*                                                                         *)
(* The two control arguments of every bus function are small enums that    *)
(* share their numbers (WORD = READ = 0, BYTE = WRITE = 1); the numbers    *)
(* are kept, because the code passes the two arguments in either order.    *)
(***************************************************************************)
EXTENDS Integers

CONSTANTS
  Byte,            \* the values a memory byte may hold
  WordAddr,        \* the word addresses of the machine
  DeviceWords,     \* words below this one are device ports (DEVICE_MEMORY_SPACE)
  Data,            \* the words processor and devices put into memory
  Images           \* what the loader may find in an S-record file

ASSUME ByteAssumption == 0 \in Byte

ASSUME AddressAssumption ==
  /\ WordAddr \subseteq Nat
  /\ 0 \in WordAddr
  /\ DeviceWords \in Nat \ {0}

WORD  == 0
BYTE  == 1
READ  == 0
WRITE == 1
Sizes == {WORD, BYTE}
Kinds == {READ, WRITE}

Word == [0..1 -> Byte]
Zero == [b \in 0..1 |-> 0]

ASSUME DataAssumption == Data \subseteq Word

\* An image names the words it sets; the loader leaves the others alone.
ASSUME ImageAssumption ==
  \A image \in Images : \E ws \in SUBSET WordAddr : image \in [ws -> Word]

WORD_ADDR_CONV(byte_addr) == byte_addr \div 2
BYTE_ADDR_CONV(word_addr) == 2 * word_addr

ByteAddr == {BYTE_ADDR_CONV(w) : w \in WordAddr}
              \cup {BYTE_ADDR_CONV(w) + 1 : w \in WordAddr}

IsDevice(mar) == WORD_ADDR_CONV(mar) < DeviceWords

\* What a read of the given size at byte address mar takes from its word:
\* the word itself, or the addressed byte with a zero high byte.
Get(word, mar, size) ==
  IF size = WORD THEN word
  ELSE [b \in 0..1 |-> IF b = 0 THEN word[mar % 2] ELSE 0]

\* The word after a write of the given size at byte address mar: all of
\* data, or only its low byte in the addressed half.
Put(word, mar, size, data) ==
  IF size = WORD THEN data ELSE [word EXCEPT ![mar % 2] = data[0]]

\* Primary memory after the loader has gone through an image.
Overlay(mem, image) ==
  [w \in WordAddr |-> IF w \in DOMAIN image THEN image[w] ELSE mem[w]]
=============================================================================
