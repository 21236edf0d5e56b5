------------------------------- MODULE Loader -------------------------------
(***************************************************************************)
(* The program loader (Loader.cpp): what a file of S-records does to       *)
(* memory, to PC and to the program's name.                                *)
(*                                                                         *)
(* A record is [S |-> whether it begins with that letter, type |-> the     *)
(* digit behind it, address |-> <<high byte, low byte>>, data, checksum];  *)
(* its hex pair count is that of its contents.  What is loaded is          *)
(* [byte |-> memory, PC, program_name, flag].                              *)
(***************************************************************************)
EXTENDS Integers, Sequences, Functions

CONSTANTS
  Addresses,       \* the bytes of memory in use
  Files            \* the files the user loads

Bytes     == 0..255
LAST_BYTE == 65535

VALID_RECORD   == 1
CHECKSUM_ERROR == -1
S_RECORD_ERROR == -2

Records ==
  [S : BOOLEAN, type : 0..9, address : Bytes \X Bytes, data : Seq(Bytes), checksum : Bytes]

loaded_address(r) == 256 * r.address[1] + r.address[2]
hex_pair_count(r) == Len(r.data) + 3

\* The bytes a record goes to.
Covered(r) == {loaded_address(r) + k - 1 : k \in DOMAIN r.data}

\* Every record lies in memory, and that of the name is at address 0.
ASSUME LoaderAssumption ==
  /\ Addresses \subseteq 0..LAST_BYTE
  /\ {LAST_BYTE - 1, LAST_BYTE} \subseteq Addresses
  /\ Files \subseteq Seq(Records)
  /\ \A file \in Files : \A i \in DOMAIN file :
       CASE file[i].type = 0 -> loaded_address(file[i]) = 0
         [] file[i].type = 1 -> Covered(file[i]) \subseteq Addresses
         [] OTHER -> TRUE

validation_sum(r) ==
  hex_pair_count(r) + r.address[1] + r.address[2]
    + (IF r.type = 1 THEN SumFunction(r.data) ELSE 0)

checksum_validation(sum, checksum) ==
  IF 255 - (sum % 256) = checksum THEN VALID_RECORD ELSE CHECKSUM_ERROR

\* Mutant of Written: the start address is stored with its bytes swapped.
WrittenSwapped(loaded, r) ==
  CASE r.type = 9 ->
         [loaded EXCEPT !.PC = loaded_address(r),
                        !.byte = [@ EXCEPT ![LAST_BYTE - 1] = r.address[1],
                                           ![LAST_BYTE] = r.address[2]]]
    [] r.type = 1 ->
         [loaded EXCEPT !.byte = [a \in Addresses |->
            IF a \in Covered(r) THEN r.data[a - loaded_address(r) + 1] ELSE @[a]]]
    [] OTHER -> loaded

\* What the record writes.  A shorter name leaves the end of the longer before it.
Written(loaded, r) ==
  CASE r.type = 9 ->
         [loaded EXCEPT !.PC = loaded_address(r),
                        !.byte = [@ EXCEPT ![LAST_BYTE - 1] = r.address[2],
                                           ![LAST_BYTE] = r.address[1]]]
    [] r.type = 1 ->
         [loaded EXCEPT !.byte = [a \in Addresses |->
            IF a \in Covered(r) THEN r.data[a - loaded_address(r) + 1] ELSE @[a]]]
    [] r.type = 0 ->
         [loaded EXCEPT !.program_name =
            r.data \o SubSeq(@, Len(r.data) + 1, Len(@))]
    [] OTHER -> loaded

\* The checksum of a name is not looked at; that of the others after they are written.
s_record_decoder(loaded, r) ==
  IF ~r.S THEN [loaded EXCEPT !.flag = S_RECORD_ERROR]
  ELSE [Written(loaded, r) EXCEPT
          !.flag = IF r.type = 0 THEN VALID_RECORD
                   ELSE checksum_validation(validation_sum(r), r.checksum)]

\* Mutant of loader: it goes on after an error.
LoadedOn(loaded, file) ==
  LET after[i \in 0..Len(file)] ==
        IF i = 0 THEN [loaded EXCEPT !.flag = VALID_RECORD]
        ELSE s_record_decoder(after[i - 1], file[i])
  IN  after[Len(file)]

\* Record by record, up to the end of the file or the first error.
loader(loaded, file) ==
  LET after[i \in 0..Len(file)] ==
        IF i = 0 THEN [loaded EXCEPT !.flag = VALID_RECORD]
        ELSE IF after[i - 1].flag # VALID_RECORD THEN after[i - 1]
        ELSE s_record_decoder(after[i - 1], file[i])
  IN  after[Len(file)]

-----------------------------------------------------------------------------
Blank == [byte |-> [a \in Addresses |-> 0], PC |-> 0, program_name |-> << >>,
          flag |-> VALID_RECORD]

Whole == {file \in Files : loader(Blank, file).flag = VALID_RECORD}

\* The record with one of its bytes changed.  Data behind a start address, which no
\* assembler puts there, is neither written nor part of the sum.
Corrupted(r) ==
  ({[r EXCEPT !.address[i] = b] : i \in 1..2, b \in Bytes}
     \cup {[r EXCEPT !.checksum = b] : b \in Bytes}
     \cup {[r EXCEPT !.data[i] = b] : i \in {j \in DOMAIN r.data : r.type = 1}, b \in Bytes})
    \ {r}

\* Where the record says something of address a, and what.
Says(r, a) ==
  CASE r.type = 1 /\ a \in Covered(r) -> {r.data[a - loaded_address(r) + 1]}
    [] r.type = 9 /\ a = LAST_BYTE -> {r.address[1]}
    [] r.type = 9 /\ a = LAST_BYTE - 1 -> {r.address[2]}
    [] OTHER -> {}

\* A whole file is in memory afterwards: every byte has the value of the last record
\* that speaks of it, and is as it was if none does; the reset vector is among them.
LoadedIntact ==
  \A file \in Whole, a \in Addresses :
    LET speak == {i \in DOMAIN file : Says(file[i], a) # {}}
    IN  {loader(Blank, file).byte[a]} =
          IF speak = {} THEN {Blank.byte[a]}
          ELSE Says(file[CHOOSE i \in speak : \A j \in speak : j <= i], a)

\* A change of one byte in a record of code or of the start address is refused, and
\* nothing behind it is loaded: what is, is what the file has up to that record.
CorruptionRefused ==
  \A file \in Whole : \A k \in DOMAIN file : file[k].type \in {1, 9} =>
    \A r \in Corrupted(file[k]) : (r.type = 1 => Covered(r) \subseteq Addresses) =>
      LET loaded == loader(Blank, [file EXCEPT ![k] = r])
          before == loader(Blank, SubSeq(file, 1, k - 1))
      IN  /\ loaded.flag = CHECKSUM_ERROR
          /\ loaded.PC \in {before.PC, loaded_address(r)}
          /\ \A a \in Addresses : Says(r, a) = {} => loaded.byte[a] = before.byte[a]
=============================================================================
