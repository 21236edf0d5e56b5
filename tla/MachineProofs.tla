---------------------------- MODULE MachineProofs ----------------------------
(***************************************************************************)
(* Theorems about Machine, for every program, memory and set of devices.   *)
(***************************************************************************)
EXTENDS Machine, ProcessorProofs, SequenceTheorems

\* A number below 2^16 is a word.
LEMMA IsWord ==
  ASSUME NEW x \in Nat, x < 65536
  PROVE  x \in WordValues
<1>1. LAST_BYTE \in Nat /\ x <= LAST_BYTE
  BY DEF LAST_BYTE
<1>. QED BY <1>1 DEF WordValues

-----------------------------------------------------------------------------
(***************************************************************************)
(* Decoding.                                                               *)
(***************************************************************************)

\* The bit fields that decoding looks at, in numerals.
LEMMA FieldValues ==
  ASSUME NEW x
  PROVE  /\ Field(x, 14, 2) = (x \div 16384) % 4 /\ Field(x, 13, 1) = (x \div 8192) % 2
         /\ Field(x, 8, 1) = (x \div 256) % 2    /\ Field(x, 11, 3) = (x \div 2048) % 8
         /\ Field(x, 9, 4) = (x \div 512) % 16   /\ Field(x, 9, 3) = (x \div 512) % 8
         /\ Field(x, 10, 3) = (x \div 1024) % 8
  BY DEF Field

\* The values of the bit fields that decoding looks at.
LEMMA FieldRanges ==
  ASSUME NEW x \in Nat
  PROVE  /\ Field(x, 14, 2) \in Nat /\ Field(x, 14, 2) < 4
         /\ Field(x, 13, 1) \in Nat /\ Field(x, 13, 1) < 2
         /\ Field(x, 8, 1) \in Nat /\ Field(x, 8, 1) < 2
         /\ Field(x, 11, 3) \in Nat /\ Field(x, 11, 3) < 8
         /\ Field(x, 9, 4) \in Nat /\ Field(x, 9, 4) < 16
         /\ Field(x, 9, 3) \in Nat /\ Field(x, 9, 3) < 8
         /\ Field(x, 10, 3) \in Nat /\ Field(x, 10, 3) < 8
<1>1. \A q \in Nat : /\ q % 2 \in Nat /\ q % 2 < 2 /\ q % 4 \in Nat /\ q % 4 < 4
                     /\ q % 8 \in Nat /\ q % 8 < 8 /\ q % 16 \in Nat /\ q % 16 < 16
  OBVIOUS
<1>2. /\ x \div 16384 \in Nat /\ x \div 8192 \in Nat /\ x \div 256 \in Nat /\ x \div 2048 \in Nat
      /\ x \div 512 \in Nat /\ x \div 1024 \in Nat
  OBVIOUS
<1>. QED BY <1>1, <1>2, FieldValues

\* The functions of each array, and how many there are.
Types == {"branch_with_link", "conditional_branch", "two_operand", "single_register",
          "direct_memory_access", "register_initialization", "relative_memory_access"}

Size(type) ==
  CASE type = "two_operand"             -> 13
    [] type = "single_register"         -> 4
    [] type = "register_initialization" -> 3
    [] type = "direct_memory_access"    -> 2
    [] type = "relative_memory_access"  -> 2
    [] type = "conditional_branch"      -> 8
    [] type = "branch_with_link"        -> 1

\* An array of execution functions has the size that its instructions count.
LEMMA TableSize ==
  ASSUME NEW type \in Types
  PROVE  DOMAIN Table(type) = 1..Size(type) /\ Size(type) \in Nat
<1>1. /\ DOMAIN two_operand_execution = 1..13
      /\ DOMAIN single_register_execution = 1..4
      /\ DOMAIN register_initialization_execution = 1..3
      /\ DOMAIN direct_memory_access_execution = 1..2
      /\ DOMAIN relative_memory_access_execution = 1..2
      /\ DOMAIN conditional_branching_execution = 1..8
      /\ DOMAIN <<"BL">> = 1..1
  BY DEF two_operand_execution, single_register_execution, register_initialization_execution,
         direct_memory_access_execution, relative_memory_access_execution,
         conditional_branching_execution
<1>. QED BY <1>1 DEF Types, Table, Size

\* decode_instruction finds one of the types, and tells the two branches of 01 apart.
LEMMA DecodeType ==
  ASSUME NEW IX \in Nat
  PROVE  /\ decode(IX) \in Types
         /\ decode(IX) = "direct_memory_access" => Field(IX, 11, 3) < 2
         /\ decode(IX) = "register_initialization" => ~(Field(IX, 11, 3) < 2)
<1>. DEFINE f == Field(IX, 14, 2)
<1>1. /\ f = 0 => decode(IX) = IF Field(IX, 13, 1) = 0 THEN "branch_with_link"
                               ELSE "conditional_branch"
      /\ f = 1 => decode(IX) = IF Field(IX, 8, 1) = 0 THEN "two_operand" ELSE "single_register"
      /\ f = 2 => decode(IX) = IF Field(IX, 11, 3) < 2 THEN "direct_memory_access"
                               ELSE "register_initialization"
      /\ f = 3 => decode(IX) = "relative_memory_access"
  BY DEF decode, REG_INIT_INST_CODE_START
<1>2. f \in Nat /\ f < 4
  BY FieldRanges
<1>. HIDE DEF f
<1>3. f = 0 \/ f = 1 \/ f = 2 \/ f = 3
  BY <1>2
<1>. QED BY <1>1, <1>3 DEF Types

\* An index that is not refused lies inside the array of its type.
LEMMA IndexInTable ==
  ASSUME NEW IX \in Nat, ~Refused(decode(IX), Index(decode(IX), IX))
  PROVE  Index(decode(IX), IX) + 1 \in DOMAIN Table(decode(IX))
<1>. DEFINE type == decode(IX)
            index == Index(type, IX)
<1>1. type \in Types
  BY DecodeType
<1>2. index \in Nat /\ index < Size(type)
  <2>1. CASE type = "two_operand"
    BY <2>1, FieldRanges DEF Index, Size, Refused, TWO_OP_INST_CODE_LIMIT
  <2>2. CASE type = "single_register"
    BY <2>2, FieldRanges DEF Index, Size, Refused, SINGLE_REG_INST_CODE_LIMIT
  <2>3. CASE type = "register_initialization"
    <3>. DEFINE f == Field(IX, 11, 3)
    <3>1. ~(f < 2) /\ f \in Nat
      BY <2>3, DecodeType, FieldRanges
    <3>2. index = f - 2 /\ ~(index > 2) /\ Size(type) = 3
      BY <2>3 DEF Index, Size, Refused, REG_INIT_INST_CODE_START
    <3>. HIDE DEF f, index
    <3>. QED BY <3>1, <3>2
  <2>4. CASE type = "direct_memory_access"
    <3>1. Field(IX, 11, 3) < 2
      BY <2>4, DecodeType
    <3>. QED BY <2>4, <3>1, FieldRanges DEF Index, Size
  <2>5. CASE type = "relative_memory_access"
    BY <2>5, FieldRanges DEF Index, Size
  <2>6. CASE type = "conditional_branch"
    BY <2>6, FieldRanges DEF Index, Size
  <2>7. CASE type = "branch_with_link"
    BY <2>7 DEF Index, Size
  <2>. QED BY <1>1, <2>1, <2>2, <2>3, <2>4, <2>5, <2>6, <2>7 DEF Types
<1>. HIDE DEF type, index
<1>3. index + 1 \in 1..Size(type)
  BY <1>1, <1>2, TableSize
<1>. QED BY <1>1, <1>3, TableSize DEF type, index

\* A word for every entry of every array.
Opcode(type, i) ==
  CASE type = "two_operand"             -> 16384 + 512 * i
    [] type = "single_register"         -> 16640 + 512 * i
    [] type = "register_initialization" -> 36864 + 2048 * i
    [] type = "direct_memory_access"    -> 32768 + 2048 * i
    [] type = "relative_memory_access"  -> 49152 + 8192 * i
    [] type = "conditional_branch"      -> 8192 + 1024 * i
    [] type = "branch_with_link"        -> 0

\* Each entry of an execution array has an instruction word that finds it.
LEMMA EntryHasWord ==
  ASSUME NEW type \in Types, NEW i \in Nat, i < Size(type)
  PROVE  Opcode(type, i) \in WordValues /\ Instruction(Opcode(type, i)) = Table(type)[i + 1]
<1>. DEFINE x == Opcode(type, i)
<1>1. x \in Nat /\ x < 65536 /\ decode(x) = type /\ Index(type, x) = i /\ ~Refused(type, i)
  <2>1. CASE type = "two_operand"
    <3>1. x = 16384 + 512 * i /\ i < 13
      BY <2>1 DEF Opcode, Size
    <3>. HIDE DEF x
    <3>2. /\ x \in Nat /\ x < 65536 /\ (x \div 16384) % 4 = 1 /\ (x \div 256) % 2 = 0
          /\ (x \div 512) % 16 = i
      BY ONLY <3>1, i \in Nat
    <3>. QED BY <2>1, <3>1, <3>2, FieldValues DEF decode, Index, Refused, TWO_OP_INST_CODE_LIMIT
  <2>2. CASE type = "single_register"
    <3>1. x = 16640 + 512 * i /\ i < 4
      BY <2>2 DEF Opcode, Size
    <3>. HIDE DEF x
    <3>2. /\ x \in Nat /\ x < 65536 /\ (x \div 16384) % 4 = 1 /\ (x \div 256) % 2 = 1
          /\ (x \div 512) % 8 = i
      BY ONLY <3>1, i \in Nat
    <3>. QED BY <2>2, <3>1, <3>2, FieldValues
             DEF decode, Index, Refused, SINGLE_REG_INST_CODE_LIMIT
  <2>3. CASE type = "register_initialization"
    <3>1. x = 36864 + 2048 * i /\ i < 3
      BY <2>3 DEF Opcode, Size
    <3>. HIDE DEF x
    <3>2. /\ x \in Nat /\ x < 65536 /\ (x \div 16384) % 4 = 2 /\ (x \div 2048) % 8 = i + 2
          /\ ~(i + 2 < 2) /\ (i + 2) - 2 = i /\ ~(i > 2)
      BY ONLY <3>1, i \in Nat
    <3>. QED BY <2>3, <3>1, <3>2, FieldValues DEF decode, Index, Refused, REG_INIT_INST_CODE_START
  <2>4. CASE type = "direct_memory_access"
    <3>1. x = 32768 + 2048 * i /\ i < 2
      BY <2>4 DEF Opcode, Size
    <3>. HIDE DEF x
    <3>2. /\ x \in Nat /\ x < 65536 /\ (x \div 16384) % 4 = 2 /\ (x \div 2048) % 8 = i
      BY ONLY <3>1, i \in Nat
    <3>. QED BY <2>4, <3>1, <3>2, FieldValues DEF decode, Index, Refused, REG_INIT_INST_CODE_START
  <2>5. CASE type = "relative_memory_access"
    <3>1. x = 49152 + 8192 * i /\ i < 2
      BY <2>5 DEF Opcode, Size
    <3>. HIDE DEF x
    <3>2. /\ x \in Nat /\ x < 65536 /\ (x \div 16384) % 4 = 3 /\ (x \div 8192) % 2 = i
      BY ONLY <3>1, i \in Nat
    <3>. QED BY <2>5, <3>1, <3>2, FieldValues DEF decode, Index, Refused
  <2>6. CASE type = "conditional_branch"
    <3>1. x = 8192 + 1024 * i /\ i < 8
      BY <2>6 DEF Opcode, Size
    <3>. HIDE DEF x
    <3>2. /\ x \in Nat /\ x < 65536 /\ (x \div 16384) % 4 = 0 /\ (x \div 8192) % 2 = 1
          /\ (x \div 1024) % 8 = i
      BY ONLY <3>1, i \in Nat
    <3>. QED BY <2>6, <3>1, <3>2, FieldValues DEF decode, Index, Refused
  <2>7. CASE type = "branch_with_link"
    <3>1. x = 0 /\ i < 1
      BY <2>7 DEF Opcode, Size
    <3>. HIDE DEF x
    <3>2. /\ x \in Nat /\ x < 65536 /\ (x \div 16384) % 4 = 0 /\ (x \div 8192) % 2 = 0 /\ i = 0
      BY ONLY <3>1, i \in Nat
    <3>. QED BY <2>7, <3>1, <3>2, FieldValues DEF decode, Index, Refused
  <2>. QED BY <2>1, <2>2, <2>3, <2>4, <2>5, <2>6, <2>7 DEF Types
<1>. HIDE DEF x
<1>2. x \in WordValues
  <2>1. x \in Nat /\ x < 65536
    BY <1>1
  <2>. QED BY <2>1, IsWord
<1>3. Instruction(x) = Table(type)[i + 1]
  BY <1>1 DEF Instruction
<1>. QED BY <1>2, <1>3 DEF x

\* No word of memory makes execute index past the end of an array of functions, and
\* every function of the arrays can be reached by some word.
THEOREM DispatchInBoundsHolds == Spec => []DispatchInBounds
<1>1. \A IX \in WordValues :
        ~Refused(decode(IX), Index(decode(IX), IX))
          => Index(decode(IX), IX) + 1 \in DOMAIN Table(decode(IX))
  BY WordRange, IndexInTable
<1>2. UNION {Range(Table(type)) : type \in {decode(IX) : IX \in WordValues}}
        \subseteq {Instruction(IX) : IX \in WordValues}
  <2>. SUFFICES ASSUME NEW type \in {decode(IX) : IX \in WordValues},
                       NEW inst \in Range(Table(type))
                PROVE  inst \in {Instruction(IX) : IX \in WordValues}
    OBVIOUS
  <2>1. type \in Types
    BY WordRange, DecodeType
  <2>2. PICK k \in 1..Size(type) : inst = Table(type)[k]
    BY <2>1, TableSize DEF Range
  <2>. DEFINE i == k - 1
  <2>3. i \in Nat /\ i < Size(type) /\ i + 1 = k
    BY <2>1, TableSize
  <2>. HIDE DEF i
  <2>4. Opcode(type, i) \in WordValues /\ Instruction(Opcode(type, i)) = inst
    BY <2>1, <2>2, <2>3, EntryHasWord
  <2>. QED BY <2>4
<1>3. DispatchInBounds
  BY <1>1, <1>2 DEF DispatchInBounds
<1>. QED BY <1>3, PTL

-----------------------------------------------------------------------------
(***************************************************************************)
(* Pushing and pulling with the memory instructions.                       *)
(***************************************************************************)

\* The two pairs of an action of ST and the action of LD that undoes it.
Pairs == {<<PRE_DECREMENT, POST_INCREMENT>>, <<POST_DECREMENT, PRE_INCREMENT>>}

\* A step of one or two back and forth on a 16-bit number leads where it began.
LEMMA Wrapping ==
  ASSUME NEW x \in Nat, x < 65536, NEW k \in 1..2
  PROVE  /\ Wrap(x - k) \in Nat /\ Wrap(x - k) < 65536
         /\ Wrap(Wrap(x - k) + k) = x
<1>1. k \in Nat /\ 0 < k /\ k < 3
  OBVIOUS
<1>2. /\ (x - k) % 65536 \in Nat /\ (x - k) % 65536 < 65536
      /\ (((x - k) % 65536) + k) % 65536 = x
  BY ONLY x \in Nat, x < 65536, <1>1
<1>. QED BY <1>2 DEF Wrap

\* The pointer goes there and back, and both instructions use the same address.
LEMMA PointerBack ==
  ASSUME NEW sp \in Nat, sp < 65536, NEW size \in {WORD, BYTE}, NEW pair \in Pairs
  PROVE  /\ pair[1] \in Actions /\ pair[2] \in Actions
         /\ Moved(Moved(sp, pair[1], size), pair[2], size) = sp
         /\ Address(Moved(sp, pair[1], size), pair[2], size) = Address(sp, pair[1], size)
         /\ Moved(sp, pair[1], size) \in Nat /\ Moved(sp, pair[1], size) < 65536
         /\ Address(sp, pair[1], size) \in {sp, Wrap(sp - 1), Wrap(sp - 2)}
         /\ size = BYTE => Address(sp, pair[1], size) \in {sp, Wrap(sp - 1)}
<1>. DEFINE k == WORD_STEP - size
<1>1. k \in 1..2 /\ k \in Nat /\ \A x \in Nat : x + WORD_STEP - size = x + k
  BY DEF WORD_STEP, WORD, BYTE
<1>. HIDE DEF k
<1>2. /\ Wrap(sp - k) \in Nat /\ Wrap(sp - k) < 65536
      /\ Wrap(Wrap(sp - k) + k) = sp
  BY <1>1, Wrapping
<1>3. \A x : /\ Moved(x, PRE_DECREMENT, size) = Wrap(x - k)
             /\ Moved(x, POST_DECREMENT, size) = Wrap(x - k)
             /\ Moved(x, POST_INCREMENT, size) = Wrap(x + WORD_STEP - size)
             /\ Moved(x, PRE_INCREMENT, size) = Wrap(x + WORD_STEP - size)
             /\ Address(x, PRE_DECREMENT, size) = Moved(x, PRE_DECREMENT, size)
             /\ Address(x, PRE_INCREMENT, size) = Moved(x, PRE_INCREMENT, size)
             /\ Address(x, POST_DECREMENT, size) = x
             /\ Address(x, POST_INCREMENT, size) = x
  BY DEF k, Moved, Address, PRE_DECREMENT, POST_DECREMENT, PRE_INCREMENT, POST_INCREMENT
<1>4. pair[1] \in Actions /\ pair[2] \in Actions
  BY DEF Pairs, Actions
<1>5. /\ Wrap(sp - k) \in {sp, Wrap(sp - 1), Wrap(sp - 2)}
      /\ size = BYTE => Wrap(sp - k) = Wrap(sp - 1)
  BY <1>1 DEF k, WORD_STEP, BYTE
<1>6. \/ pair[1] = PRE_DECREMENT /\ pair[2] = POST_INCREMENT
      \/ pair[1] = POST_DECREMENT /\ pair[2] = PRE_INCREMENT
  BY DEF Pairs
<1>7. Wrap(Wrap(sp - k) + WORD_STEP - size) = sp
  BY <1>1, <1>2
<1>. QED BY <1>2, <1>3, <1>4, <1>5, <1>6, <1>7

\* Bytes of a word of memory, and of a register.
LEMMA HalvesOfWord ==
  ASSUME NEW x \in Nat, NEW y \in Nat, x < 65536, y < 65536
  PROVE  /\ 256 * (x \div 256) + (x % 256) = x
         /\ (256 * (x \div 256)) \div 256 = x \div 256
         /\ (256 * (x \div 256) + (y % 256)) % 256 = y % 256
         /\ (256 * (x \div 256) + (y % 256)) \div 256 = x \div 256
         /\ (256 * (y % 256) + (x % 256)) % 256 = x % 256
         /\ (256 * (y % 256) + (x % 256)) \div 256 = y % 256
  OBVIOUS

\* A write changes MAR and one cell of memory.
LEMMA WriteFields ==
  ASSUME NEW n, NEW a, NEW size, NEW v, Shaped(n), n.mem \in [Cells -> WordValues],
         NEW after, after = BusWrite(n, a, size, v)
  PROVE  /\ after.REG = n.REG /\ after.MAR = a
         /\ Shaped(after)
<1>. DEFINE u == WORD_ADDR_CONV(a)
            x == n.mem[u]
            y == IF size = WORD THEN v
                 ELSE IF a % 2 = 0 THEN 256 * (x \div 256) + (v % 256)
                 ELSE 256 * (v % 256) + (x % 256)
            mem == [n.mem EXCEPT ![u] = y]
<1>1. after = [n EXCEPT !.MAR = a, !.mem = mem] /\ mem = [w \in Cells |-> mem[w]]
  <2>1. after = [n EXCEPT !.MAR = a, !.mem = mem]
    BY DEF BusWrite
  <2>2. mem = [w \in Cells |-> mem[w]]
    <3>. HIDE DEF y
    <3>. QED OBVIOUS
  <2>. QED BY <2>1, <2>2
<1>. HIDE DEF mem
<1>2. n \in [REG : {n.REG}, PSW : {n.PSW}, mode : {n.mode}, high : {n.high},
             MAR : {n.MAR}, IX : {n.IX}, mem : {n.mem}, queue : {n.queue}]
  BY DEF Shaped
<1>3. after.REG = n.REG /\ after.MAR = a /\ after.mem = mem
  BY <1>1, <1>2
<1>4. after \in [REG : {after.REG}, PSW : {after.PSW}, mode : {after.mode}, high : {after.high},
                 MAR : {after.MAR}, IX : {after.IX}, mem : {after.mem}, queue : {after.queue}]
  BY <1>1, <1>2
<1>5. after.REG = [q \in Registers |-> after.REG[q]]
  BY <1>3 DEF Shaped
<1>6. Shaped(after)
  BY <1>1, <1>3, <1>4, <1>5 DEF Shaped
<1>. QED BY <1>1, <1>3, <1>6

\* A write of a byte leaves the other bytes of memory alone, and is what a read of
\* its address gets; so is a word.
LEMMA WriteRead ==
  ASSUME NEW n, NEW a \in Nat, a < 65536, NEW v \in WordValues, NEW size \in {WORD, BYTE},
         Shaped(n), n.mem \in [Cells -> WordValues], WORD_ADDR_CONV(a) \in Cells,
         NEW after, after = BusWrite(n, a, size, v)
  PROVE  /\ BusRead(after, a, size) = IF size = WORD THEN v ELSE v % 256
         /\ \A b \in Nat : b < 65536 /\ b # a /\ size = BYTE /\ WORD_ADDR_CONV(b) \in Cells
                             => BusRead(after, b, BYTE) = BusRead(n, b, BYTE)
<1>. DEFINE w == WORD_ADDR_CONV(a)
            x == n.mem[w]
            y == IF size = WORD THEN v
                 ELSE IF a % 2 = 0 THEN 256 * (x \div 256) + (v % 256)
                 ELSE 256 * (v % 256) + (x % 256)
<1>1. after = [n EXCEPT !.MAR = a, !.mem = [n.mem EXCEPT ![w] = y]]
  BY DEF BusWrite
<1>2. after.mem = [n.mem EXCEPT ![w] = y]
  BY <1>1 DEF Shaped
<1>3. after.mem[w] = y
  BY <1>2
<1>4. x \in Nat /\ x < 65536 /\ v \in Nat /\ v < 65536
  BY WordRange
<1>5. BusRead(after, a, size) = IF size = WORD THEN v ELSE v % 256
  <2>1. CASE size = WORD
    BY <1>3, <2>1 DEF BusRead
  <2>2. CASE size # WORD /\ a % 2 = 0
    <3>1. BusRead(after, a, size) = y % 256 /\ y = 256 * (x \div 256) + (v % 256)
      BY <1>3, <2>2 DEF BusRead
    <3>. HIDE DEF y, x
    <3>. QED BY <1>4, <2>2, <3>1, HalvesOfWord
  <2>3. CASE size # WORD /\ a % 2 # 0
    <3>1. BusRead(after, a, size) = y \div 256 /\ y = 256 * (v % 256) + (x % 256)
      BY <1>3, <2>3 DEF BusRead
    <3>. HIDE DEF y, x
    <3>. QED BY <1>4, <2>3, <3>1, HalvesOfWord
  <2>. QED BY <2>1, <2>2, <2>3
<1>6. ASSUME NEW b \in Nat, b < 65536, b # a, size = BYTE, WORD_ADDR_CONV(b) \in Cells
      PROVE  BusRead(after, b, BYTE) = BusRead(n, b, BYTE)
  <2>1. CASE WORD_ADDR_CONV(b) # w
    BY <1>2, <1>6, <2>1 DEF BusRead
  <2>2. CASE WORD_ADDR_CONV(b) = w
    <3>1. b % 2 # a % 2
      <4>1. b \div 2 = a \div 2
        BY <2>2 DEF WORD_ADDR_CONV
      <4>. QED BY ONLY <1>6, <4>1, a \in Nat
    <3>2. a % 2 \in {0, 1} /\ b % 2 \in {0, 1}
      BY ONLY <1>6, a \in Nat
    <3>3. size # WORD /\ WORD # BYTE
      BY <1>6 DEF WORD, BYTE
    <3>4. CASE a % 2 = 0
      <4>1. BusRead(after, b, BYTE) = y \div 256 /\ BusRead(n, b, BYTE) = x \div 256
            /\ y = 256 * (x \div 256) + (v % 256)
        BY <1>3, <2>2, <3>1, <3>2, <3>3, <3>4 DEF BusRead
      <4>. HIDE DEF y, x
      <4>. QED BY <1>4, <4>1, HalvesOfWord
    <3>5. CASE a % 2 # 0
      <4>1. BusRead(after, b, BYTE) = y % 256 /\ BusRead(n, b, BYTE) = x % 256
            /\ y = 256 * (v % 256) + (x % 256)
        BY <1>3, <2>2, <3>1, <3>2, <3>3, <3>5 DEF BusRead
      <4>. HIDE DEF y, x
      <4>. QED BY <1>4, <4>1, HalvesOfWord
    <3>. QED BY <3>4, <3>5
  <2>. QED BY <2>1, <2>2
<1>. QED BY <1>5, <1>6

\* The words around the stack pointer are memory of the program.
RoomAt(sp) == \A k \in -2..1 : WORD_ADDR_CONV(Wrap(sp + k)) \in Cells
StackRoom  == RoomAt(m.REG[SP])

\* The addresses that a push of one word or byte uses, and the bytes beside them, are in memory.
LEMMA RoomAround ==
  ASSUME NEW sp \in Nat, sp < 65536, RoomAt(sp)
  PROVE  /\ \A a \in {sp, Wrap(sp - 1), Wrap(sp - 2)} :
              a \in Nat /\ a < 65536 /\ WORD_ADDR_CONV(a) \in Cells
         /\ \A a \in {sp, Wrap(sp - 1)} : \A other \in {a - 1, a + 1} :
              /\ Wrap(other) \in Nat /\ Wrap(other) < 65536 /\ Wrap(other) # a
              /\ WORD_ADDR_CONV(Wrap(other)) \in Cells
<1>1. /\ WORD_ADDR_CONV(Wrap(sp - 2)) \in Cells /\ WORD_ADDR_CONV(Wrap(sp - 1)) \in Cells
      /\ WORD_ADDR_CONV(Wrap(sp)) \in Cells /\ WORD_ADDR_CONV(Wrap(sp + 1)) \in Cells
  <2>1. /\ -2 \in -2..1 /\ -1 \in -2..1 /\ 0 \in -2..1 /\ 1 \in -2..1
        /\ sp + (-2) = sp - 2 /\ sp + (-1) = sp - 1 /\ sp + 0 = sp
    OBVIOUS
  <2>. QED BY <2>1 DEF RoomAt
<1>. DEFINE p == Wrap(sp - 1)
            q == Wrap(sp - 2)
            o == Wrap(sp + 1)
<1>2. /\ p \in Nat /\ p < 65536 /\ p # sp
      /\ q \in Nat /\ q < 65536 /\ q # p
      /\ o \in Nat /\ o < 65536 /\ o # sp
      /\ Wrap(sp) = sp /\ Wrap(p - 1) = q /\ Wrap(p + 1) = sp
  <2>1. /\ p = (sp - 1) % 65536 /\ q = (sp - 2) % 65536 /\ o = (sp + 1) % 65536
        /\ Wrap(sp) = sp % 65536 /\ Wrap(p - 1) = (p - 1) % 65536 /\ Wrap(p + 1) = (p + 1) % 65536
    BY DEF Wrap
  <2>. HIDE DEF p, q, o
  <2>2. /\ p \in Nat /\ p < 65536 /\ p # sp
        /\ q \in Nat /\ q < 65536 /\ q # p
        /\ o \in Nat /\ o < 65536 /\ o # sp
        /\ sp % 65536 = sp /\ (p - 1) % 65536 = q /\ (p + 1) % 65536 = sp
    BY ONLY <2>1, sp \in Nat, sp < 65536
  <2>. QED BY <2>1, <2>2
<1>3. \A a \in {sp, p, q} : a \in Nat /\ a < 65536 /\ WORD_ADDR_CONV(a) \in Cells
  BY <1>1, <1>2
<1>4. \A other \in {sp - 1, sp + 1} :
        /\ Wrap(other) \in Nat /\ Wrap(other) < 65536 /\ Wrap(other) # sp
        /\ WORD_ADDR_CONV(Wrap(other)) \in Cells
  BY <1>1, <1>2
<1>5. \A other \in {p - 1, p + 1} :
        /\ Wrap(other) \in Nat /\ Wrap(other) < 65536 /\ Wrap(other) # p
        /\ WORD_ADDR_CONV(Wrap(other)) \in Cells
  <2>. HIDE DEF p, q
  <2>. QED BY <1>1, <1>2 DEF q
<1>. HIDE DEF p, q
<1>6. \A a \in {sp, p} : \A other \in {a - 1, a + 1} :
        /\ Wrap(other) \in Nat /\ Wrap(other) < 65536 /\ Wrap(other) # a
        /\ WORD_ADDR_CONV(Wrap(other)) \in Cells
  BY <1>4, <1>5
<1>. QED BY <1>3, <1>6 DEF p, q

\* What A!Replace makes of a register that loses the part pushed, and a load puts back.
LEMMA PartBack ==
  ASSUME NEW x \in Nat, x < 65536
  PROVE  /\ A!Replace(x, 0, WORD) = 0
         /\ A!Replace(x, 0, BYTE) = 256 * (x \div 256)
         /\ 256 * ((256 * (x \div 256)) \div 256) + (x % 256) = x
<1>1. /\ A!Replace(x, 0, WORD) = 0
      /\ A!Replace(x, 0, BYTE) = (x \div 256) * 256 + (0 % 256)
  BY DEF A!Replace, A!WORD, A!Join, A!MSB, A!LSB, WORD, BYTE
<1>2. (x \div 256) * 256 + (0 % 256) = 256 * (x \div 256)
  OBVIOUS
<1>. QED BY <1>1, <1>2, HalvesOfWord

\* A push by ST and the LD that undoes it, on one machine.
LEMMA StackPair ==
  ASSUME NEW mac \in Machines, RoomAt(mac.REG[SP]), NEW size \in {WORD, BYTE}, NEW r \in 0..LR,
         NEW pair \in Pairs
  PROVE  LET pushed == ST(mac, pair[1], size, r, SP)
             gone   == [pushed EXCEPT !.REG[r] = A!Replace(@, 0, size)]
             a      == Address(mac.REG[SP], pair[1], size)
         IN  /\ LD(gone, pair[2], size, SP, r).REG = mac.REG
             /\ \A other \in {a - 1, a + 1} : size = BYTE =>
                  BusRead(pushed, Wrap(other), BYTE) = BusRead(mac, Wrap(other), BYTE)
<1>. DEFINE sp == mac.REG[SP]
            x  == mac.REG[r]
            moved == Moved(sp, pair[1], size)
            a  == Address(sp, pair[1], size)
            n  == [mac EXCEPT !.REG[SP] = moved]
            pushed == ST(mac, pair[1], size, r, SP)
            y == A!Replace(x, 0, size)
            gone == [pushed EXCEPT !.REG[r] = A!Replace(@, 0, size)]
            after == LD(gone, pair[2], size, SP, r)
<1>1. /\ r \in Registers /\ r # SP /\ SP \in Registers
      /\ Shaped(mac) /\ mac.REG \in [Registers -> WordValues] /\ mac.mem \in [Cells -> WordValues]
  BY SMTT(30), MachineShaped, RegisterNumbers DEF Machines, Registers, LR, SP
<1>2. sp \in Nat /\ sp < 65536 /\ x \in WordValues /\ x \in Nat /\ x < 65536
  BY <1>1, WordRange
<1>3. /\ pair[1] \in Actions /\ pair[2] \in Actions
      /\ Moved(moved, pair[2], size) = sp /\ Address(moved, pair[2], size) = a
      /\ a \in {sp, Wrap(sp - 1), Wrap(sp - 2)}
      /\ size = BYTE => a \in {sp, Wrap(sp - 1)}
  BY <1>2, PointerBack
<1>. HIDE DEF moved, a
<1>4. a \in Nat /\ a < 65536 /\ WORD_ADDR_CONV(a) \in Cells
  <2>. HIDE DEF sp
  <2>. QED BY <1>2, <1>3, RoomAround DEF sp
<1>5. /\ Shaped(n) /\ n.mem = mac.mem /\ n.REG = [mac.REG EXCEPT ![SP] = moved] /\ n.REG[r] = x
  BY <1>1 DEF Shaped
<1>6. pushed = BusWrite(n, a, size, x)
  BY <1>3, <1>5 DEF ST, moved, a
<1>. HIDE DEF n, x
<1>7. /\ BusRead(pushed, a, size) = IF size = WORD THEN x ELSE x % 256
      /\ \A b \in Nat : b < 65536 /\ b # a /\ size = BYTE /\ WORD_ADDR_CONV(b) \in Cells
                          => BusRead(pushed, b, BYTE) = BusRead(n, b, BYTE)
      /\ pushed.REG = n.REG /\ Shaped(pushed)
  <2>1. n.mem \in [Cells -> WordValues]
    BY <1>1, <1>5
  <2>2. size \in {WORD, BYTE} /\ Shaped(n) /\ x \in WordValues
    BY <1>2, <1>5
  <2>. HIDE DEF pushed
  <2>3. pushed.REG = n.REG /\ Shaped(pushed)
    BY <1>6, <2>1, <2>2, WriteFields
  <2>. QED BY <1>4, <1>6, <2>1, <2>2, <2>3, WriteRead
<1>. HIDE DEF pushed
<1>8. /\ gone.REG = [mac.REG EXCEPT ![SP] = moved, ![r] = y] /\ gone.mem = pushed.mem
      /\ gone.REG[SP] = moved /\ gone.REG[r] = y
      /\ DOMAIN gone = {"REG", "PSW", "mode", "high", "MAR", "IX", "mem", "queue"}
  <2>1. /\ gone = [pushed EXCEPT
                     !.REG = [pushed.REG EXCEPT ![r] = A!Replace(pushed.REG[r], 0, size)]]
        /\ pushed.REG[r] = x
    BY <1>5, <1>7
  <2>2. pushed \in [REG : {pushed.REG}, PSW : {pushed.PSW}, mode : {pushed.mode},
                    high : {pushed.high}, MAR : {pushed.MAR}, IX : {pushed.IX},
                    mem : {pushed.mem}, queue : {pushed.queue}]
    BY <1>7 DEF Shaped
  <2>3. gone = [pushed EXCEPT !.REG = [pushed.REG EXCEPT ![r] = y]]
    BY <2>1
  <2>. DEFINE reg == [pushed.REG EXCEPT ![r] = y]
  <2>. HIDE DEF reg, y, gone
  <2>4. gone.REG = reg /\ gone.mem = pushed.mem
        /\ DOMAIN gone = {"REG", "PSW", "mode", "high", "MAR", "IX", "mem", "queue"}
    BY <2>2, <2>3 DEF reg
  <2>5. pushed.REG = [mac.REG EXCEPT ![SP] = moved]
    BY <1>5, <1>7
  <2>. QED BY <1>1, <2>4, <2>5 DEF reg
<1>9. after.REG = [gone.REG EXCEPT ![SP] = sp,
                     ![r] = IF size = WORD THEN BusRead(gone, a, WORD)
                            ELSE 256 * (y \div 256) + BusRead(gone, a, BYTE)]
  BY <1>1, <1>3, <1>8 DEF LD, LoadFrom, BusRead, Shaped
<1>10. BusRead(gone, a, size) = IF size = WORD THEN x ELSE x % 256
  BY <1>7, <1>8 DEF BusRead
<1>. HIDE DEF after, gone
<1>11. (IF size = WORD THEN BusRead(gone, a, WORD)
        ELSE 256 * (y \div 256) + BusRead(gone, a, BYTE)) = x
  <2>1. CASE size = WORD
    BY <1>10, <2>1
  <2>2. CASE size = BYTE
    <3>1. y = 256 * (x \div 256) /\ 256 * (y \div 256) + (x % 256) = x /\ size # WORD
      BY <1>2, <2>2, PartBack, RegisterNumbers
    <3>. QED BY <1>10, <2>2, <3>1
  <2>. QED BY <2>1, <2>2
<1>12. after.REG = mac.REG
  BY <1>1, <1>8, <1>9, <1>11 DEF sp, x
<1>13. \A other \in {a - 1, a + 1} : size = BYTE =>
         BusRead(pushed, Wrap(other), BYTE) = BusRead(mac, Wrap(other), BYTE)
  <2>. SUFFICES ASSUME NEW other \in {a - 1, a + 1}, size = BYTE
                PROVE  BusRead(pushed, Wrap(other), BYTE) = BusRead(mac, Wrap(other), BYTE)
    OBVIOUS
  <2>1. /\ Wrap(other) \in Nat /\ Wrap(other) < 65536 /\ Wrap(other) # a
        /\ WORD_ADDR_CONV(Wrap(other)) \in Cells
    BY <1>2, <1>3, RoomAround DEF sp
  <2>2. BusRead(pushed, Wrap(other), BYTE) = BusRead(n, Wrap(other), BYTE)
    BY <1>7, <2>1
  <2>. QED BY <1>5, <2>2 DEF BusRead
<1>. QED BY <1>12, <1>13 DEF after, gone, pushed, a

\* A push with a pre-decrement and a load with a post-increment are inverses, and so are
\* the other two, for words and bytes, every register and every place of the stack
\* around which there is memory, the wrap at the end of memory included.
THEOREM StackInverseHolds == TypeOK /\ StackRoom => StackInverse
<1>. SUFFICES ASSUME TypeOK, StackRoom,
                     NEW size \in {WORD, BYTE}, NEW r \in 0..LR, NEW pair \in Pairs
              PROVE  LET pushed == ST(m, pair[1], size, r, SP)
                         gone   == [pushed EXCEPT !.REG[r] = A!Replace(@, 0, size)]
                         a      == Address(m.REG[SP], pair[1], size)
                     IN  /\ LD(gone, pair[2], size, SP, r).REG = m.REG
                         /\ \A other \in {a - 1, a + 1} : size = BYTE =>
                              BusRead(pushed, Wrap(other), BYTE) = BusRead(m, Wrap(other), BYTE)
  BY DEF StackInverse, Pairs
<1>. QED BY StackPair DEF TypeOK, StackRoom

-----------------------------------------------------------------------------
(***************************************************************************)
(* The register instructions give machines, as AluProofs shows of Alu.     *)
(***************************************************************************)

\* The instructions of each type.
RegisterPairs   == {"ADD", "ADDC", "SUB", "SUBC", "DADD", "CMP", "XOR", "AND", "BIT", "BIC", "BIS",
                    "MOV", "SWAP"}
SingleRegisters == {"SRA", "RRC", "SWPB", "SXT"}
Branching       == {"BEQ_BZ", "BNE_BNZ", "BC_BHS", "BNC_BLO", "BN", "BGE", "BLT", "BAL"}

\* The proofs about Alu, at the width of the machine.
AP == INSTANCE AluProofs WITH
       ByteBits <- 8, BCD_VALUE_LIMIT <- 10, Regs <- Registers, Constants <- 0..7,
       Values <- 0..255,
       TwoOperand <- RegisterPairs, SingleRegister <- SingleRegisters, cpu <- 0

\* The width of the machine is the width AluProofs is about.
LEMMA EightBits == AP!CodeWidth /\ AP!AluAssumption
<1>1. 2^(8 \div 2) = 16 /\ 2^8 = 256
  OBVIOUS
<1>. QED BY <1>1 DEF AP!AluAssumption, AP!CodeWidth, Registers, PC, RegisterPairs, SingleRegisters

\* The operators of the two instances of Alu agree.
LEMMA SameSizes ==
  /\ A!WORD = AP!WORD /\ A!BYTE = AP!BYTE /\ WORD = AP!WORD /\ BYTE = AP!BYTE
  /\ A!REGISTER = AP!REGISTER
  /\ \A size : A!MSBi(size) = AP!MSBi(size) /\ A!Bits(size) = AP!Bits(size)
BY DEF A!WORD, AP!WORD, A!BYTE, AP!BYTE, WORD, BYTE, A!MSBi, AP!MSBi, A!Bits, AP!Bits,
       A!REGISTER, AP!REGISTER

\* Parts of words, the same at both instances of Alu.
LEMMA SameParts ==
  \A x, y, size : /\ A!LSB(x) = AP!LSB(x) /\ A!MSB(x) = AP!MSB(x) /\ A!Join(x, y) = AP!Join(x, y)
                  /\ A!Not(x) = AP!Not(x) /\ A!BIT_CHECK(x, y) = AP!BIT_CHECK(x, y)
                  /\ A!Replace(x, y, size) = AP!Replace(x, y, size) /\ A!Flag(x) = AP!Flag(x)
BY SameSizes DEF A!LSB, AP!LSB, A!MSB, AP!MSB, A!Join, AP!Join, A!Not, AP!Not,
       A!BIT_CHECK, AP!BIT_CHECK, A!Replace, AP!Replace, A!Flag, AP!Flag

\* update_PSW, the same at both instances.
LEMMA SameFlags == \A s, d, r, size : A!update_PSW(s, d, r, size) = AP!update_PSW(s, d, r, size)
BY SameParts, SameSizes
   DEF A!update_PSW, AP!update_PSW, A!carry, AP!carry, A!overflow, AP!overflow, A!Flag, AP!Flag

\* The bitwise operations, the same at both instances.
LEMMA SameBitwise ==
  \A x, y : /\ A!Bitwise(A!XorBits, x, y) = AP!Bitwise(AP!XorBits, x, y)
            /\ A!Bitwise(A!AndBits, x, y) = AP!Bitwise(AP!AndBits, x, y)
            /\ A!Bitwise(A!OrBits, x, y) = AP!Bitwise(AP!OrBits, x, y)
BY DEF A!Bitwise, AP!Bitwise, A!BitwiseByte, AP!BitwiseByte, A!Join, AP!Join, A!MSB, AP!MSB,
       A!LSB, AP!LSB, A!BIT_CHECK, AP!BIT_CHECK, A!Bytes, AP!Bytes, A!MSBi, AP!MSBi,
       A!Bits, AP!Bits, A!BYTE, AP!BYTE, A!WORD, AP!WORD, A!XorBits, AP!XorBits,
       A!AndBits, AP!AndBits, A!OrBits, AP!OrBits

\* Sums, shifts and decimal digits, the same at both instances.
LEMMA SameArithmetic ==
  \A x, y, c, size : /\ A!Sum(x, y, c, size) = AP!Sum(x, y, c, size)
                     /\ A!Digit(x, y) = AP!Digit(x, y)
                     /\ A!bcd_add(x, y, c) = AP!bcd_add(x, y, c)
                     /\ A!ShiftRight(x, y, size) = AP!ShiftRight(x, y, size)
BY SameParts, SameSizes
   DEF A!Sum, AP!Sum, A!Digit, AP!Digit, A!bcd_add, AP!bcd_add, A!ShiftRight, AP!ShiftRight

\* A word made of four digits, the same at both instances.
LEMMA SameDigits == \A a, b, c, d : A!Digits(a, b, c, d) = AP!Digits(a, b, c, d)
BY DEF A!Digits, AP!Digits, A!Join, AP!Join

\* The part of a machine that Alu works on, and a machine with another.
Cut(n)    == [REG |-> n.REG, PSW |-> n.PSW, high |-> n.high]
Put(n, c) == [n EXCEPT !.REG = c.REG, !.PSW = c.PSW, !.high = c.high]

\* The operand of a machine is that of its part which Alu sees.
LEMMA SameOperand == \A n, rc, source : A!Operand(n, rc, source) = AP!Operand(Cut(n), rc, source)
BY SameSizes DEF A!Operand, AP!Operand, Cut, A!Const_table, AP!Const_table

\* Words, bytes and flags of Alu are those of the machine.
LEMMA SameRanges == AP!Words = WordValues /\ AP!Bytes = 0..255 /\ AP!Flags = Flags
<1>1. \A x : x \in AP!Words <=> x \in WordValues
  <2>. TAKE x
  <2>1. x \in AP!Words <=> x \in Nat /\ x < 65536
    BY EightBits, AP!Ranges
  <2>2. x \in WordValues <=> x \in Nat /\ x < 65536
    BY WordRange, IsWord
  <2>. QED BY <2>1, <2>2
<1>2. \A x : x \in AP!Bytes <=> x \in Nat /\ x < 256
  BY EightBits, AP!Ranges
<1>3. \A x : x \in 0..255 <=> x \in Nat /\ x < 256
  OBVIOUS
<1>. QED BY <1>1, <1>2, <1>3 DEF AP!Flags, Flags

\* Writing a result, on the machine and on its part.
LEMMA WritePut ==
  ASSUME NEW n \in Machines, NEW dst, NEW res, NEW P
  PROVE  /\ A!Write(n, dst, res, P) = Put(n, AP!Write(Cut(n), dst, res, P))
         /\ AP!Write(Cut(n), dst, res, P)
              \in [REG : {AP!Write(Cut(n), dst, res, P).REG},
                   PSW : {AP!Write(Cut(n), dst, res, P).PSW},
                   high : {AP!Write(Cut(n), dst, res, P).high}]
<1>. DEFINE reg == [n.REG EXCEPT ![dst] = res]
            high == AP!MSB(res)
<1>1. A!Write(n, dst, res, P) = [n EXCEPT !.REG = reg, !.PSW = P, !.high = high]
  BY SameParts DEF A!Write
<1>2. AP!Write(Cut(n), dst, res, P) = [Cut(n) EXCEPT !.REG = reg, !.PSW = P, !.high = high]
  <2>1. Cut(n).REG = n.REG
    BY DEF Cut
  <2>. QED BY <2>1 DEF AP!Write
<1>. HIDE DEF reg, high
<1>3. AP!Write(Cut(n), dst, res, P) = [REG |-> reg, PSW |-> P, high |-> high]
  BY <1>2 DEF Cut
<1>. QED BY <1>1, <1>3 DEF Put

\* The part of a machine is of Alu's type, and one of that type makes a machine.
LEMMA CutType ==
  ASSUME NEW n \in Machines
  PROVE  Cut(n) \in AP!CPU
BY SameRanges DEF Machines, Cut, AP!CPU

\* Putting back the registers, flags and hidden byte gives a machine.
LEMMA PutType ==
  ASSUME NEW n \in Machines, NEW c \in AP!CPU
  PROVE  /\ Put(n, c) \in Machines
         /\ Put(n, c).mode = n.mode /\ Put(n, c).queue = n.queue
         /\ Put(n, c).mem = n.mem /\ Put(n, c).MAR = n.MAR
<1>1. c.REG \in [Registers -> WordValues] /\ c.PSW \in Flags /\ c.high \in 0..255
  BY SameRanges DEF AP!CPU
<1>. QED BY <1>1 DEF Machines, Put

\* Registers may be changed before or after putting back.
LEMMA PutRegisters ==
  ASSUME NEW n \in Machines, NEW reg, NEW c, c \in [REG : {c.REG}, PSW : {c.PSW}, high : {c.high}]
  PROVE  [Put(n, c) EXCEPT !.REG = reg] = Put(n, [c EXCEPT !.REG = reg])
BY DEF Put, Machines

\* An instruction on the machine is the instruction on its part.
LEMMA TwoOperandPut ==
  ASSUME NEW n \in Machines, NEW inst \in RegisterPairs,
         NEW rc, NEW size, NEW source, NEW dst
  PROVE  A!two_operand_execution(n, inst, rc, size, source, dst)
           = Put(n, AP!two_operand_execution(Cut(n), inst, rc, size, source, dst))
<1>. DEFINE s == AP!Operand(Cut(n), rc, source)
            c == Cut(n)
            x == n.REG[dst]
<1>1. A!Operand(n, rc, source) = s /\ c.REG = n.REG /\ c.PSW = n.PSW /\ c.high = n.high
  BY SameOperand DEF Cut
<1>n. n \in [REG : {n.REG}, PSW : {n.PSW}, mode : {n.mode}, high : {n.high},
              MAR : {n.MAR}, IX : {n.IX}, mem : {n.mem}, queue : {n.queue}]
  BY DEF Machines
<1>2. ASSUME NEW y, NEW b
      PROVE  A!arrithmetic(n, y, dst, b, size) = Put(n, AP!arrithmetic(c, y, dst, b, size))
  BY <1>1, WritePut, SameArithmetic, SameFlags DEF A!arrithmetic, AP!arrithmetic
<1>. HIDE DEF s
<1>3. CASE inst \in {"ADD", "ADDC", "SUB", "SUBC"}
  BY <1>1, <1>2, <1>3, SameParts
     DEF A!two_operand_execution, AP!two_operand_execution, A!ADD, AP!ADD, A!ADDC, AP!ADDC,
         A!SUB, AP!SUB, A!SUBC, AP!SUBC, s
<1>4. CASE inst = "CMP"
  <2>1. /\ A!two_operand_execution(n, inst, rc, size, source, dst)
             = [A!arrithmetic(n, AP!Not(s), dst, 1, size) EXCEPT !.REG = n.REG]
        /\ AP!two_operand_execution(c, inst, rc, size, source, dst)
             = [AP!arrithmetic(c, AP!Not(s), dst, 1, size) EXCEPT !.REG = n.REG]
    BY <1>1, <1>4, SameParts DEF A!two_operand_execution, AP!two_operand_execution, A!CMP, AP!CMP, s
  <2>. DEFINE d == AP!arrithmetic(c, AP!Not(s), dst, 1, size)
  <2>2. d \in [REG : {d.REG}, PSW : {d.PSW}, high : {d.high}]
    <3>. DEFINE res == AP!Sum(AP!Not(s), c.REG[dst], 1, size)
                P   == AP!update_PSW(AP!Not(s), c.REG[dst], res, size)
    <3>1. d = AP!Write(Cut(n), dst, res, P)
      BY DEF AP!arrithmetic
    <3>. HIDE DEF d, res, P
    <3>. QED BY <3>1, WritePut
  <2>3. A!arrithmetic(n, AP!Not(s), dst, 1, size) = Put(n, d)
    BY <1>2
  <2>. HIDE DEF d, c
  <2>. QED BY <2>1, <2>2, <2>3, PutRegisters DEF d, c
<1>5. CASE inst = "DADD"
  <2>. DEFINE n0 == AP!bcd_add(AP!Digit(s, 0), AP!Digit(x, 0), n.PSW.C)
              n1 == AP!bcd_add(AP!Digit(s, 1), AP!Digit(x, 1), n0.carry)
              n2 == AP!bcd_add(AP!Digit(s, 2), AP!Digit(x, 2), n1.carry)
              n3 == AP!bcd_add(AP!Digit(s, 3), AP!Digit(x, 3), n2.carry)
              res == AP!Replace(x, AP!Digits(n0.res, n1.res, n2.res, n3.res), size)
              P == [n.PSW EXCEPT !.C = IF size = WORD THEN n3.carry ELSE n1.carry]
  <2>1. AP!two_operand_execution(c, inst, rc, size, source, dst) = AP!Write(c, dst, res, P)
    <3>1. AP!two_operand_execution(c, inst, rc, size, source, dst) = AP!DADD(c, s, dst, size)
      BY <1>5 DEF AP!two_operand_execution, s
    <3>2. AP!DADD(c, s, dst, size) = AP!Write(c, dst, res, P)
      BY <1>1, SameSizes DEF AP!DADD
    <3>. QED BY <3>1, <3>2
  <2>2. A!two_operand_execution(n, inst, rc, size, source, dst) = A!DADD(n, s, dst, size)
    BY <1>1, <1>5 DEF A!two_operand_execution
  <2>3. /\ n0 = A!bcd_add(A!Digit(s, 0), A!Digit(x, 0), n.PSW.C)
        /\ n1 = A!bcd_add(A!Digit(s, 1), A!Digit(x, 1), n0.carry)
        /\ n2 = A!bcd_add(A!Digit(s, 2), A!Digit(x, 2), n1.carry)
        /\ n3 = A!bcd_add(A!Digit(s, 3), A!Digit(x, 3), n2.carry)
    BY SameArithmetic
  <2>4. A!DADD(n, s, dst, size) = A!Write(n, dst, res, P)
    <3>. HIDE DEF n0, n1, n2, n3
    <3>. QED BY <2>3, SameParts, SameDigits, SameSizes DEF A!DADD
  <2>. HIDE DEF res, P
  <2>. QED BY <2>1, <2>2, <2>4, WritePut
<1>6. CASE inst \in {"XOR", "AND"}
  <2>1. CASE inst = "XOR"
    <3>1. /\ A!two_operand_execution(n, inst, rc, size, source, dst) = A!XOR(n, s, dst, size)
          /\ AP!two_operand_execution(c, inst, rc, size, source, dst) = AP!XOR(c, s, dst, size)
      BY <1>1, <2>1 DEF A!two_operand_execution, AP!two_operand_execution, s
    <3>2. A!XOR(n, s, dst, size) = Put(n, AP!XOR(c, s, dst, size))
      BY <1>1, WritePut, SameBitwise, SameParts, SameFlags, SameSizes DEF A!XOR, AP!XOR
    <3>. QED BY <3>1, <3>2
  <2>2. CASE inst = "AND"
    <3>1. /\ A!two_operand_execution(n, inst, rc, size, source, dst) = A!AND(n, s, dst, size)
          /\ AP!two_operand_execution(c, inst, rc, size, source, dst) = AP!AND(c, s, dst, size)
      BY <1>1, <2>2 DEF A!two_operand_execution, AP!two_operand_execution, s
    <3>2. A!AND(n, s, dst, size) = Put(n, AP!AND(c, s, dst, size))
      BY <1>1, WritePut, SameBitwise, SameParts, SameFlags, SameSizes DEF A!AND, AP!AND
    <3>. QED BY <3>1, <3>2
  <2>. QED BY <1>6, <2>1, <2>2
<1>7. CASE inst = "BIT"
  <2>. DEFINE y == AP!Bitwise(AP!AndBits, x, s)
              res == IF size = WORD THEN y ELSE AP!Join(n.high, AP!LSB(y))
              P == AP!update_PSW(s, x, res, size)
  <2>1. AP!two_operand_execution(c, inst, rc, size, source, dst)
          = [c EXCEPT !.PSW = P, !.high = AP!MSB(res)]
    BY <1>1, <1>7, SameSizes DEF AP!two_operand_execution, AP!BIT, s
  <2>2. A!two_operand_execution(n, inst, rc, size, source, dst)
          = [n EXCEPT !.PSW = P, !.high = AP!MSB(res)]
    BY ZenonT(60), <1>1, <1>7, SameBitwise, SameParts, SameFlags, SameSizes
       DEF A!two_operand_execution, A!BIT
  <2>. HIDE DEF res, P
  <2>. QED BY ZenonT(60), <2>1, <2>2, <1>n DEF Put, Cut
<1>8. CASE inst \in {"BIC", "BIS"}
  <2>1. ASSUME NEW res
        PROVE  A!StoreBits(n, dst, res, size) = Put(n, AP!StoreBits(c, dst, res, size))
    <3>. DEFINE P == [n.PSW EXCEPT !.N = AP!BIT_CHECK(res, AP!MSBi(size)), !.Z = AP!Flag(res = 0)]
                reg == [n.REG EXCEPT ![dst] = res]
    <3>1. A!StoreBits(n, dst, res, size) = [n EXCEPT !.REG = reg, !.PSW = P]
      BY SameParts, SameSizes DEF A!StoreBits, Machines, A!Flag, AP!Flag
    <3>2. AP!StoreBits(c, dst, res, size) = [c EXCEPT !.REG = reg, !.PSW = P]
      BY <1>1 DEF AP!StoreBits, Cut
    <3>. HIDE DEF P, reg
    <3>. QED BY <3>1, <3>2, <1>n DEF Put, Cut
  <2>. DEFINE bic == AP!Replace(x, AP!Bitwise(AP!AndBits, x, AP!Not(s)), size)
              bis == AP!Replace(x, AP!Bitwise(AP!OrBits, x, s), size)
  <2>2. CASE inst = "BIC"
    <3>1. AP!two_operand_execution(c, inst, rc, size, source, dst) = AP!StoreBits(c, dst, bic, size)
      BY <1>1, <2>2 DEF AP!two_operand_execution, AP!BIC, s
    <3>2. A!two_operand_execution(n, inst, rc, size, source, dst) = A!StoreBits(n, dst, bic, size)
      BY <1>1, <2>2, SameBitwise, SameParts DEF A!two_operand_execution, A!BIC
    <3>. HIDE DEF bic
    <3>. QED BY <2>1, <3>1, <3>2
  <2>3. CASE inst = "BIS"
    <3>1. AP!two_operand_execution(c, inst, rc, size, source, dst) = AP!StoreBits(c, dst, bis, size)
      BY <1>1, <2>3 DEF AP!two_operand_execution, AP!BIS, s
    <3>2. A!two_operand_execution(n, inst, rc, size, source, dst) = A!StoreBits(n, dst, bis, size)
      BY <1>1, <2>3, SameBitwise, SameParts DEF A!two_operand_execution, A!BIS
    <3>. HIDE DEF bis
    <3>. QED BY <2>1, <3>1, <3>2
  <2>. QED BY <1>8, <2>2, <2>3
<1>9. CASE inst = "MOV"
  <2>. DEFINE reg == [n.REG EXCEPT ![dst] = AP!Replace(x, s, size)]
  <2>1. AP!two_operand_execution(c, inst, rc, size, source, dst) = [c EXCEPT !.REG = reg]
    BY <1>1, <1>9 DEF AP!two_operand_execution, AP!MOV, s
  <2>2. A!two_operand_execution(n, inst, rc, size, source, dst) = [n EXCEPT !.REG = reg]
    BY <1>1, <1>9, SameParts DEF A!two_operand_execution, A!MOV
  <2>. HIDE DEF reg
  <2>. QED BY <2>1, <2>2, <1>n DEF Put, Cut
<1>10. CASE inst = "SWAP"
  <2>. DEFINE reg == [n.REG EXCEPT ![dst] = n.REG[source], ![source] = x]
              h == AP!MSB(x)
  <2>1. AP!two_operand_execution(c, inst, rc, size, source, dst)
          = [c EXCEPT !.REG = reg, !.high = h]
    BY <1>1, <1>10 DEF AP!two_operand_execution, AP!SWAP, Cut
  <2>2. A!two_operand_execution(n, inst, rc, size, source, dst) = [n EXCEPT !.REG = reg, !.high = h]
    BY <1>1, <1>10, SameParts DEF A!two_operand_execution, A!SWAP, Machines
  <2>. HIDE DEF reg, h
  <2>. QED BY <2>1, <2>2, <1>n DEF Put, Cut
<1>. QED BY <1>3, <1>4, <1>5, <1>6, <1>7, <1>8, <1>9, <1>10 DEF RegisterPairs

\* An instruction of one register works on the part of the machine that Alu sees.
LEMMA SingleRegisterPut ==
  ASSUME NEW n \in Machines, NEW inst \in SingleRegisters, NEW size, NEW dst
  PROVE  A!single_register_execution(n, inst, size, dst)
           = Put(n, AP!single_register_execution(Cut(n), inst, size, dst))
<1>. DEFINE c == Cut(n)
            x == n.REG[dst]
<1>1. c.REG = n.REG /\ c.PSW = n.PSW /\ c.high = n.high
  BY DEF Cut
<1>n. n \in [REG : {n.REG}, PSW : {n.PSW}, mode : {n.mode}, high : {n.high},
              MAR : {n.MAR}, IX : {n.IX}, mem : {n.mem}, queue : {n.queue}]
  BY DEF Machines
<1>2. ASSUME NEW res
      PROVE  A!Shifted(n, dst, res, size) = Put(n, AP!Shifted(c, dst, res, size))
  BY <1>1, WritePut, SameFlags DEF A!Shifted, AP!Shifted
<1>3. CASE inst = "SRA"
  BY <1>1, <1>2, <1>3, SameArithmetic, SameParts, SameSizes
     DEF A!single_register_execution, AP!single_register_execution, A!SRA, AP!SRA
<1>4. CASE inst = "RRC"
  BY <1>1, <1>2, <1>4, SameArithmetic
     DEF A!single_register_execution, AP!single_register_execution, A!RRC, AP!RRC
<1>5. CASE inst = "SWPB"
  <2>. DEFINE reg == [n.REG EXCEPT ![dst] = AP!Join(AP!LSB(x), AP!MSB(x))]
              h == AP!MSB(x)
  <2>1. AP!single_register_execution(c, inst, size, dst) = [c EXCEPT !.REG = reg, !.high = h]
    BY <1>1, <1>5 DEF AP!single_register_execution, AP!SWPB
  <2>2. A!single_register_execution(n, inst, size, dst) = [n EXCEPT !.REG = reg, !.high = h]
    BY <1>5, SameParts DEF A!single_register_execution, A!SWPB
  <2>. HIDE DEF reg, h
  <2>. QED BY <2>1, <2>2, <1>n DEF Put, Cut
<1>6. CASE inst = "SXT"
  BY <1>1, <1>6, WritePut, SameFlags, SameParts, SameSizes
     DEF A!single_register_execution, AP!single_register_execution, A!SXT, AP!SXT
<1>. QED BY <1>3, <1>4, <1>5, <1>6 DEF SingleRegisters

\* An instruction on registers gives a machine, and touches registers, flags and the high
\* byte of temp_reg_A only.
RegistersOnly(n, after) ==
  /\ after \in Machines
  /\ after.mode = n.mode /\ after.queue = n.queue /\ after.mem = n.mem /\ after.MAR = n.MAR

\* An instruction of two operands changes registers, flags and the hidden byte only.
LEMMA TwoOperandRuns ==
  ASSUME NEW n \in Machines, NEW inst \in RegisterPairs,
         NEW rc \in 0..1, NEW size \in 0..1, NEW source \in 0..7, NEW dst \in Registers,
         rc = A!REGISTER \/ inst = "SWAP" => source \in Registers
  PROVE  RegistersOnly(n, A!two_operand_execution(n, inst, rc, size, source, dst))
<1>1. size \in AP!Sizes /\ rc \in {AP!REGISTER, AP!CONSTANT_} /\ A!REGISTER = AP!REGISTER
  BY SameSizes DEF AP!Sizes, AP!WORD, AP!BYTE, AP!REGISTER, AP!CONSTANT_
<1>2. AP!two_operand_execution(Cut(n), inst, rc, size, source, dst) \in AP!CPU
  <2>1. CASE inst # "SWAP" \/ rc = AP!REGISTER
    <3>1. <<rc, source>> \in AP!Sources(inst)
      BY <1>1, <2>1 DEF AP!Sources
    <3>2. <<rc, source>>[1] = rc /\ <<rc, source>>[2] = source
      OBVIOUS
    <3>. QED BY <1>1, <3>1, <3>2, CutType, EightBits, AP!TwoOperandType
  <2>2. CASE inst = "SWAP"
    <3>1. <<AP!REGISTER, source>> \in AP!Sources("SWAP")
      BY <1>1, <2>2 DEF AP!Sources
    <3>2. <<AP!REGISTER, source>>[1] = AP!REGISTER /\ <<AP!REGISTER, source>>[2] = source
      OBVIOUS
    <3>3. AP!two_operand_execution(Cut(n), "SWAP", AP!REGISTER, size, source, dst) \in AP!CPU
      BY <1>1, <2>2, <3>1, <3>2, CutType, EightBits, AP!TwoOperandType
    <3>4. AP!two_operand_execution(Cut(n), "SWAP", rc, size, source, dst)
            = AP!two_operand_execution(Cut(n), "SWAP", AP!REGISTER, size, source, dst)
      BY DEF AP!two_operand_execution
    <3>. QED BY <2>2, <3>3, <3>4
  <2>. QED BY <2>1, <2>2
<1>. QED BY <1>2, PutType, TwoOperandPut DEF RegistersOnly

\* So does an instruction of one register.
LEMMA SingleRegisterRuns ==
  ASSUME NEW n \in Machines, NEW inst \in SingleRegisters, NEW size \in 0..1,
         NEW dst \in Registers
  PROVE  RegistersOnly(n, A!single_register_execution(n, inst, size, dst))
<1>1. size \in AP!Sizes
  BY DEF AP!Sizes, AP!WORD, AP!BYTE
<1>2. AP!single_register_execution(Cut(n), inst, size, dst) \in AP!CPU
  BY <1>1, CutType, EightBits, AP!SingleRegisterType
<1>. QED BY <1>2, PutType, SingleRegisterPut DEF RegistersOnly

\* So does the loading of a byte into a register.
LEMMA InitializationRuns ==
  ASSUME NEW n \in Machines, NEW dst \in Registers, NEW value \in 0..255
  PROVE  /\ RegistersOnly(n, A!MOVL(n, dst, value))
         /\ RegistersOnly(n, A!MOVLZ(n, dst, value))
         /\ RegistersOnly(n, A!MOVH(n, dst, value))
<1>. DEFINE x == n.REG[dst]
<1>1. x \in AP!Words /\ value \in AP!Bytes
  BY SameRanges DEF Machines
<1>2. /\ AP!Join(AP!MSB(x), value) \in WordValues /\ AP!Join(value, AP!LSB(x)) \in WordValues
      /\ value \in WordValues
  <2>. HIDE DEF x
  <2>1. AP!MSB(x) \in AP!Bytes /\ AP!LSB(x) \in AP!Bytes
    BY <1>1, EightBits, AP!Parts
  <2>2. AP!Join(AP!MSB(x), value) \in AP!Words /\ AP!Join(value, AP!LSB(x)) \in AP!Words
    BY <1>1, <2>1, EightBits, AP!Joined
  <2>3. value \in Nat /\ value < 65536
    OBVIOUS
  <2>. QED BY <2>2, <2>3, SameRanges, IsWord
<1>3. ASSUME NEW v \in WordValues
      PROVE  RegistersOnly(n, [n EXCEPT !.REG[dst] = v])
  <2>1. [n.REG EXCEPT ![dst] = v] \in [Registers -> WordValues]
    BY <1>3 DEF Machines
  <2>2. [n EXCEPT !.REG[dst] = v] = [n EXCEPT !.REG = [n.REG EXCEPT ![dst] = v]]
    OBVIOUS
  <2>. DEFINE reg == [n.REG EXCEPT ![dst] = v]
  <2>. HIDE DEF reg
  <2>3. RegistersOnly(n, [n EXCEPT !.REG = reg])
    BY <2>1 DEF RegistersOnly, Machines, reg
  <2>. QED BY <2>2, <2>3 DEF reg
<1>. QED BY <1>2, <1>3, SameParts DEF A!MOVL, A!MOVLZ, A!MOVH

-----------------------------------------------------------------------------
(***************************************************************************)
(* Every instruction gives a machine.                                      *)
(***************************************************************************)

\* More bit fields, and the offsets.
LEMMA Operands ==
  ASSUME NEW x \in Nat
  PROVE  /\ Field(x, 0, 3) \in 0..7 /\ Field(x, 3, 3) \in 0..7 /\ Field(x, 8, 3) \in 0..7
         /\ Field(x, 6, 1) \in 0..1 /\ Field(x, 7, 1) \in 0..1 /\ Field(x, 3, 8) \in 0..255
         /\ Extended(Field(x, 0, 13), 13) \in Int /\ Extended(Field(x, 0, 10), 10) \in Int
         /\ Extended(Field(x, 7, 6), 6) \in Int
<1>1. /\ Field(x, 0, 3) = (x \div 1) % 8 /\ Field(x, 3, 3) = (x \div 8) % 8
      /\ Field(x, 8, 3) = (x \div 256) % 8 /\ Field(x, 6, 1) = (x \div 64) % 2
      /\ Field(x, 7, 1) = (x \div 128) % 2 /\ Field(x, 3, 8) = (x \div 8) % 256
      /\ Field(x, 0, 13) = (x \div 1) % 8192 /\ Field(x, 0, 10) = (x \div 1) % 1024
      /\ Field(x, 7, 6) = (x \div 128) % 64
  BY DEF Field
<1>2. \A q \in Nat : /\ q % 2 \in 0..1 /\ q % 8 \in 0..7 /\ q % 256 \in 0..255
                     /\ q % 8192 \in Nat /\ q % 1024 \in Nat /\ q % 64 \in Nat
  OBVIOUS
<1>3. /\ x \div 1 \in Nat /\ x \div 8 \in Nat /\ x \div 256 \in Nat
      /\ x \div 64 \in Nat /\ x \div 128 \in Nat
  OBVIOUS
<1>4. \A q \in Nat : /\ Extended(q, 13) = IF q < 4096 THEN q ELSE q - 8192
                     /\ Extended(q, 10) = IF q < 512 THEN q ELSE q - 1024
                     /\ Extended(q, 6) = IF q < 32 THEN q ELSE q - 64
  BY DEF Extended
<1>. QED BY <1>1, <1>2, <1>3, <1>4

\* What is wrapped is a word.
LEMMA WrapRange == \A x \in Int : Wrap(x) \in WordValues /\ Wrap(x) \in Nat /\ Wrap(x) < 65536
<1>. TAKE x \in Int
<1>1. Wrap(x) \in Nat /\ Wrap(x) < 65536
  BY DEF Wrap
<1>. QED BY <1>1, IsWord

\* Every word that is not refused is an instruction of its type.
LEMMA InstructionSets ==
  ASSUME NEW IX \in Nat, Instruction(IX) # INVALID_INST
  PROVE  \/ decode(IX) = "two_operand" /\ Instruction(IX) \in RegisterPairs
         \/ decode(IX) = "single_register" /\ Instruction(IX) \in SingleRegisters
         \/ decode(IX) = "register_initialization" /\ Instruction(IX) \in {"MOVL", "MOVLZ", "MOVH"}
         \/ decode(IX) = "direct_memory_access" /\ Instruction(IX) \in {"LD", "ST"}
         \/ decode(IX) = "relative_memory_access" /\ Instruction(IX) \in {"LDR", "STR"}
         \/ decode(IX) = "conditional_branch" /\ Instruction(IX) \in Branching
         \/ decode(IX) = "branch_with_link" /\ Instruction(IX) = "BL"
<1>. DEFINE type == decode(IX)
            k == Index(type, IX) + 1
<1>1. ~Refused(type, Index(type, IX)) /\ Instruction(IX) = Table(type)[k]
  BY DEF Instruction
<1>2. k \in DOMAIN Table(type) /\ type \in Types
  BY <1>1, IndexInTable, DecodeType
<1>. HIDE DEF k
<1>3. \A i \in DOMAIN two_operand_execution : two_operand_execution[i] \in RegisterPairs
  BY DEF two_operand_execution, RegisterPairs
<1>4. \A i \in DOMAIN single_register_execution : single_register_execution[i] \in SingleRegisters
  BY DEF single_register_execution, SingleRegisters
<1>5. \A i \in DOMAIN register_initialization_execution :
        register_initialization_execution[i] \in {"MOVL", "MOVLZ", "MOVH"}
  BY DEF register_initialization_execution
<1>6. \A i \in DOMAIN direct_memory_access_execution :
        direct_memory_access_execution[i] \in {"LD", "ST"}
  BY DEF direct_memory_access_execution
<1>7. \A i \in DOMAIN relative_memory_access_execution :
        relative_memory_access_execution[i] \in {"LDR", "STR"}
  BY DEF relative_memory_access_execution
<1>8. \A i \in DOMAIN conditional_branching_execution :
        conditional_branching_execution[i] \in Branching
  BY DEF conditional_branching_execution, Branching
<1>9. \A i \in DOMAIN <<"BL">> : <<"BL">>[i] = "BL"
  OBVIOUS
<1>. HIDE DEF type
<1>10. \/ type = "two_operand" /\ Table(type) = two_operand_execution
       \/ type = "single_register" /\ Table(type) = single_register_execution
       \/ type = "register_initialization" /\ Table(type) = register_initialization_execution
       \/ type = "direct_memory_access" /\ Table(type) = direct_memory_access_execution
       \/ type = "relative_memory_access" /\ Table(type) = relative_memory_access_execution
       \/ type = "conditional_branch" /\ Table(type) = conditional_branching_execution
       \/ type = "branch_with_link" /\ Table(type) = <<"BL">>
  BY <1>2 DEF Types, Table
<1>. QED BY <1>1, <1>2, <1>3, <1>4, <1>5, <1>6, <1>7, <1>8, <1>9, <1>10 DEF type

-----------------------------------------------------------------------------
\* What every instruction leaves alone: priorities and the queue of interrupts.
Runs(n, after) == after \in Machines /\ after.mode = n.mode /\ after.queue = n.queue

\* Loads and stores inside memory.
LEMMA LoadRuns ==
  ASSUME NEW n \in Machines, NEW a \in WordValues, NEW size \in 0..1, NEW dst \in Registers
  PROVE  /\ LoadFrom(n, a, size, dst).MAR = a
         /\ WORD_ADDR_CONV(a) \in Cells => Runs(n, LoadFrom(n, a, size, dst))
<1>. DEFINE x == n.mem[WORD_ADDR_CONV(a)]
            y == n.REG[dst]
            v == IF size = WORD THEN BusRead(n, a, WORD)
                 ELSE 256 * (y \div 256) + BusRead(n, a, BYTE)
            reg == [n.REG EXCEPT ![dst] = v]
<1>1. LoadFrom(n, a, size, dst) = [n EXCEPT !.MAR = a, !.REG = reg]
  BY DEF LoadFrom
<1>2. ASSUME WORD_ADDR_CONV(a) \in Cells PROVE v \in WordValues
  <2>1. x \in WordValues /\ y \in WordValues
    BY <1>2 DEF Machines
  <2>2. x \in Nat /\ x < 65536 /\ y \in Nat /\ y < 65536
    BY <2>1, WordRange
  <2>3. BusRead(n, a, WORD) = x /\ BusRead(n, a, BYTE) = IF a % 2 = 0 THEN x % 256 ELSE x \div 256
    BY RegisterNumbers DEF BusRead
  <2>. HIDE DEF x, y
  <2>4. /\ 256 * (y \div 256) + (x % 256) \in Nat /\ 256 * (y \div 256) + (x % 256) < 65536
        /\ 256 * (y \div 256) + (x \div 256) \in Nat /\ 256 * (y \div 256) + (x \div 256) < 65536
    BY ONLY <2>2
  <2>. QED BY <2>1, <2>3, <2>4, IsWord
<1>. HIDE DEF v
<1>3. WORD_ADDR_CONV(a) \in Cells => reg \in [Registers -> WordValues]
  BY <1>2 DEF Machines
<1>. HIDE DEF reg
<1>. QED BY ZenonT(60), <1>1, <1>3 DEF Machines, Runs

\* A store inside memory gives a machine that runs on, and leaves its address in the MAR.
LEMMA StoreRuns ==
  ASSUME NEW n \in Machines, NEW a \in WordValues, NEW size \in 0..1, NEW v \in WordValues
  PROVE  /\ BusWrite(n, a, size, v).MAR = a
         /\ WORD_ADDR_CONV(a) \in Cells => Runs(n, BusWrite(n, a, size, v))
<1>. DEFINE w == WORD_ADDR_CONV(a)
            x == n.mem[w]
            y == IF size = WORD THEN v
                 ELSE IF a % 2 = 0 THEN 256 * (x \div 256) + (v % 256)
                 ELSE 256 * (v % 256) + (x % 256)
            mem == [n.mem EXCEPT ![w] = y]
<1>1. BusWrite(n, a, size, v) = [n EXCEPT !.MAR = a, !.mem = mem]
  BY DEF BusWrite
<1>2. ASSUME w \in Cells PROVE y \in WordValues
  <2>1. x \in WordValues
    BY <1>2 DEF Machines
  <2>2. x \in Nat /\ x < 65536 /\ v \in Nat /\ v < 65536
    BY <2>1, WordRange
  <2>. HIDE DEF x
  <2>4. /\ 256 * (x \div 256) + (v % 256) \in Nat /\ 256 * (x \div 256) + (v % 256) < 65536
        /\ 256 * (v % 256) + (x % 256) \in Nat /\ 256 * (v % 256) + (x % 256) < 65536
    BY ONLY <2>2
  <2>. QED BY <2>4, IsWord
<1>. HIDE DEF y
<1>3. w \in Cells => mem \in [Cells -> WordValues]
  BY <1>2 DEF Machines
<1>. HIDE DEF mem
<1>. QED BY ZenonT(60), <1>1, <1>3 DEF Machines, Runs

\* The pointer that an action moves is a word, and so is the address.
LEMMA MovedRuns ==
  ASSUME NEW n \in Machines, NEW r \in Registers, NEW action \in 0..7, NEW size \in 0..1
  PROVE  /\ Runs(n, [n EXCEPT !.REG[r] = Moved(@, action, size)])
         /\ Address(n.REG[r], action, size) \in WordValues
<1>. DEFINE x == n.REG[r]
            y == Moved(x, action, size)
            reg == [n.REG EXCEPT ![r] = y]
<1>1. x \in WordValues /\ x \in Nat
  BY WordRange DEF Machines
<1>2. y \in WordValues
  <2>. HIDE DEF x
  <2>1. x + WORD_STEP - size \in Int /\ x - (WORD_STEP - size) \in Int
    BY <1>1 DEF WORD_STEP
  <2>. QED BY <1>1, <2>1, WrapRange DEF Moved
<1>. HIDE DEF y
<1>3. reg \in [Registers -> WordValues]
  BY <1>2 DEF Machines
<1>4. [n EXCEPT !.REG[r] = Moved(@, action, size)] = [n EXCEPT !.REG = reg]
  BY DEF y
<1>5. Address(n.REG[r], action, size) \in WordValues
  BY <1>1, <1>2 DEF Address, y
<1>. HIDE DEF reg, x
<1>6. Runs(n, [n EXCEPT !.REG = reg])
  BY <1>3 DEF Machines, Runs
<1>. QED BY <1>4, <1>5, <1>6

\* Every instruction gives a machine, if it names general registers and works on the memory
\* of the program, and leaves priorities and queue alone.
LEMMA ExecuteRuns ==
  ASSUME NEW n \in Machines, Named(n.IX) \subseteq Registers,
         WORD_ADDR_CONV(execute(n).MAR) \in Cells
  PROVE  Runs(n, execute(n))
<1>. DEFINE IX     == n.IX
            inst   == Instruction(IX)
            type   == decode(IX)
            dst    == Field(IX, 0, 3)
            source == Field(IX, 3, 3)
            size   == Field(IX, 6, 1)
<1>1. IX \in Nat
  BY WordRange DEF Machines
<1>. HIDE DEF IX
<1>2. /\ dst \in 0..7 /\ source \in 0..7 /\ size \in 0..1
      /\ Field(IX, 7, 1) \in 0..1 /\ Field(IX, 3, 8) \in 0..255 /\ Field(IX, 8, 3) \in 0..7
  BY <1>1, Operands
<1>3. Runs(n, n)
  BY DEF Runs
<1>4. ASSUME NEW x \in Int PROVE Runs(n, [n EXCEPT !.REG[PC] = Wrap(@ + x)])
  <2>. DEFINE v == Wrap(n.REG[PC] + x)
              reg == [n.REG EXCEPT ![PC] = v]
  <2>1. n.REG[PC] + x \in Int
    BY <1>4, WordRange, RegisterNumbers DEF Machines
  <2>2. v \in WordValues
    BY <2>1, WrapRange
  <2>. HIDE DEF v
  <2>3. reg \in [Registers -> WordValues]
    BY <2>2 DEF Machines
  <2>4. [n EXCEPT !.REG[PC] = Wrap(@ + x)] = [n EXCEPT !.REG = reg]
    BY DEF v
  <2>. HIDE DEF reg
  <2>5. Runs(n, [n EXCEPT !.REG = reg])
    BY <2>3 DEF Machines, Runs
  <2>. QED BY <2>4, <2>5
<1>5. CASE inst = INVALID_INST
  <2>1. execute(n) = n
    BY <1>5 DEF execute, IX
  <2>. QED BY <1>3, <2>1
<1>. DEFINE plain == type \in {"branch_with_link", "conditional_branch"}
            single == type \in {"single_register", "register_initialization"}
            constant == type = "two_operand" /\ Field(IX, 7, 1) = A!CONSTANT_ /\ inst # "SWAP"
<1>6. ASSUME inst # INVALID_INST
      PROVE  /\ ~plain => dst \in Registers
             /\ ~plain /\ ~single /\ ~constant => source \in Registers
  BY <1>6 DEF Named, IX
<1>7. CASE type = "branch_with_link" /\ inst = "BL"
  <2>. DEFINE label == 2 * Extended(Field(IX, 0, 13), 13)
              reg == [n.REG EXCEPT ![LR] = n.REG[PC], ![PC] = Wrap(n.REG[PC] + label)]
  <2>1. execute(n) = BL(n, label)
    BY <1>7 DEF execute, IX, INVALID_INST
  <2>2. n.REG \in [Registers -> WordValues] /\ n.REG[PC] \in WordValues /\ n.REG[PC] \in Nat
    BY WordRange, RegisterNumbers DEF Machines
  <2>3. Wrap(n.REG[PC] + label) \in WordValues
    <3>1. label \in Int
      BY <1>1, Operands
    <3>. HIDE DEF label
    <3>. QED BY <2>2, <3>1, WrapRange
  <2>. HIDE DEF label
  <2>4. reg \in [Registers -> WordValues]
    <3>. DEFINE v == Wrap(n.REG[PC] + label)
                x == n.REG[PC]
                r == n.REG
    <3>1. r \in [Registers -> WordValues] /\ x \in WordValues /\ v \in WordValues
      BY <2>2, <2>3
    <3>. HIDE DEF v, x, r
    <3>2. [r EXCEPT ![LR] = x, ![PC] = v] \in [Registers -> WordValues]
      BY <3>1
    <3>. QED BY <3>2 DEF v, x, r
  <2>5. BL(n, label) = [n EXCEPT !.REG = reg]
    BY DEF BL
  <2>. HIDE DEF reg
  <2>. QED BY <2>1, <2>4, <2>5 DEF Machines, Runs
<1>8. CASE type = "conditional_branch" /\ inst \in Branching
  <2>. DEFINE label == 2 * Extended(Field(IX, 0, 10), 10)
  <2>1. \/ execute(n) = n
        \/ execute(n) = [n EXCEPT !.REG[PC] = Wrap(@ + label)]
    BY <1>8 DEF execute, IX, INVALID_INST, Branching
  <2>2. label \in Int
    BY <1>1, Operands
  <2>. HIDE DEF label
  <2>. QED BY <1>3, <1>4, <2>1, <2>2
<1>9. CASE type = "two_operand" /\ inst \in RegisterPairs
  <2>1. execute(n) = A!two_operand_execution(n, inst, Field(IX, 7, 1), size, source, dst)
    BY <1>9 DEF execute, IX, INVALID_INST, RegisterPairs
  <2>2. inst # INVALID_INST
    BY <1>9 DEF RegisterPairs, INVALID_INST
  <2>3. dst \in Registers /\ (Field(IX, 7, 1) = A!REGISTER \/ inst = "SWAP" => source \in Registers)
    <3>1. A!REGISTER # A!CONSTANT_
      BY DEF A!REGISTER, A!CONSTANT_
    <3>. QED BY <1>6, <1>9, <2>2, <3>1
  <2>. HIDE DEF inst, type, dst, source, size
  <2>4. RegistersOnly(n, execute(n))
    BY <1>2, <1>9, <2>1, <2>3, TwoOperandRuns DEF RegisterPairs
  <2>. QED BY <2>4 DEF RegistersOnly, Runs
<1>10. CASE type = "single_register" /\ inst \in SingleRegisters
  <2>1. execute(n) = A!single_register_execution(n, inst, size, dst)
    BY <1>10 DEF execute, IX, INVALID_INST, SingleRegisters
  <2>2. inst # INVALID_INST
    BY <1>10 DEF SingleRegisters, INVALID_INST
  <2>3. dst \in Registers
    BY <1>6, <1>10, <2>2
  <2>. HIDE DEF inst, type, dst, source, size
  <2>4. RegistersOnly(n, execute(n))
    BY <1>2, <1>10, <2>1, <2>3, SingleRegisterRuns DEF SingleRegisters
  <2>. QED BY <2>4 DEF RegistersOnly, Runs
<1>11. CASE type = "register_initialization" /\ inst \in {"MOVL", "MOVLZ", "MOVH"}
  <2>1. execute(n) \in {A!MOVL(n, dst, Field(IX, 3, 8)), A!MOVLZ(n, dst, Field(IX, 3, 8)),
                        A!MOVH(n, dst, Field(IX, 3, 8))}
    BY <1>11 DEF execute, IX, INVALID_INST
  <2>2. dst \in Registers
    BY <1>6, <1>11 DEF INVALID_INST
  <2>. HIDE DEF inst, type, dst, source, size
  <2>3. RegistersOnly(n, execute(n))
    BY <1>2, <2>1, <2>2, InitializationRuns
  <2>. QED BY <2>3 DEF RegistersOnly, Runs
<1>12. CASE type = "direct_memory_access" /\ inst \in {"LD", "ST"}
  <2>. DEFINE action == Field(IX, 8, 3)
  <2>1. dst \in Registers /\ source \in Registers
    BY <1>6, <1>12 DEF INVALID_INST
  <2>2. CASE inst = "LD" /\ action \in Actions
    <3>. DEFINE q == [n EXCEPT !.REG[source] = Moved(@, action, size)]
                a == Address(n.REG[source], action, size)
    <3>1. execute(n) = LoadFrom(q, a, size, dst)
      BY <1>12, <2>2 DEF execute, IX, INVALID_INST, LD
    <3>. HIDE DEF inst, type, dst, source, size, action
    <3>2. Runs(n, q) /\ a \in WordValues
      BY <1>2, <2>1, MovedRuns DEF action
    <3>. HIDE DEF q, a
    <3>3. /\ LoadFrom(q, a, size, dst).MAR = a
          /\ WORD_ADDR_CONV(a) \in Cells => Runs(q, LoadFrom(q, a, size, dst))
      BY <1>2, <2>1, <3>2, LoadRuns DEF Runs
    <3>. QED BY <3>1, <3>2, <3>3 DEF Runs
  <2>3. CASE inst = "ST" /\ action \in Actions
    <3>. DEFINE q == [n EXCEPT !.REG[dst] = Moved(@, action, size)]
                a == Address(n.REG[dst], action, size)
    <3>1. execute(n) = BusWrite(q, a, size, q.REG[source])
      BY <1>12, <2>3 DEF execute, IX, INVALID_INST, ST
    <3>. HIDE DEF inst, type, dst, source, size, action
    <3>2. Runs(n, q) /\ a \in WordValues
      BY <1>2, <2>1, MovedRuns DEF action
    <3>. HIDE DEF q, a
    <3>. DEFINE v == q.REG[source]
    <3>3. v \in WordValues
      BY <2>1, <3>2 DEF Runs, Machines
    <3>. HIDE DEF v
    <3>4. BusWrite(q, a, size, v).MAR = a
          /\ (WORD_ADDR_CONV(a) \in Cells => Runs(q, BusWrite(q, a, size, v)))
      BY SMTT(30), <1>2, <3>2, <3>3, StoreRuns DEF Runs
    <3>5. execute(n) = BusWrite(q, a, size, v)
      BY <3>1 DEF v
    <3>6. WORD_ADDR_CONV(a) \in Cells
      BY <3>4, <3>5
    <3>7. Runs(q, BusWrite(q, a, size, v))
      BY <3>4, <3>6
    <3>. QED BY <3>2, <3>5, <3>7 DEF Runs
  <2>4. CASE action \notin Actions
    <3>1. execute(n) = n
      BY <1>12, <2>4 DEF execute, IX, INVALID_INST, LD, ST
    <3>. QED BY <1>3, <3>1
  <2>. QED BY <1>12, <2>2, <2>3, <2>4
<1>13. CASE type = "relative_memory_access" /\ inst \in {"LDR", "STR"}
  <2>. DEFINE offset == Extended(Field(IX, 7, 6), 6)
  <2>1. dst \in Registers /\ source \in Registers /\ offset \in Int
    BY <1>1, <1>6, <1>13, Operands DEF INVALID_INST
  <2>2. execute(n) = IF inst = "LDR" THEN LoadFrom(n, Wrap(n.REG[source] + offset), size, dst)
                     ELSE BusWrite(n, Wrap(n.REG[dst] + offset), size, n.REG[source])
    BY <1>13 DEF execute, IX, INVALID_INST, LDR, STR
  <2>. HIDE DEF inst, type, dst, source, size, offset
  <2>3. /\ n.REG[source] \in WordValues /\ n.REG[source] \in Nat /\ n.REG[dst] \in Nat
    BY <2>1, WordRange DEF Machines
  <2>4. Wrap(n.REG[source] + offset) \in WordValues /\ Wrap(n.REG[dst] + offset) \in WordValues
    BY <2>1, <2>3, WrapRange
  <2>5. CASE inst = "LDR"
    BY <1>2, <2>1, <2>2, <2>4, <2>5, LoadRuns
  <2>6. CASE inst # "LDR"
    BY <1>2, <2>2, <2>3, <2>4, <2>6, StoreRuns
  <2>. QED BY <2>5, <2>6
<1>. QED
  BY <1>1, <1>5, <1>7, <1>8, <1>9, <1>10, <1>11, <1>12, <1>13, InstructionSets

-----------------------------------------------------------------------------
(***************************************************************************)
(* What the entry pushes and the return pulls.                             *)
(***************************************************************************)

\* PSW is a word, and any word is a PSW.
LEMMA PSWTypes ==
  /\ \A f \in Flags, md \in Modes : PSWWord(f, md) \in WordValues
  /\ \A w \in WordValues : FlagsOf(w) \in Flags /\ ModeOf(w) \in Modes
<1>1. ASSUME NEW f \in Flags, NEW md \in Modes PROVE PSWWord(f, md) \in WordValues
  <2>. DEFINE C == f.C
              Z == f.Z
              G == f.N
              V == f.V
              S == md.SLP
              P == md.PRIORITY
              R == md.res
              Q == md.prev_PRIORITY
              w == PSWWord(f, md)
  <2>1. /\ C \in Nat /\ C < 2 /\ Z \in Nat /\ Z < 2 /\ G \in Nat /\ G < 2 /\ V \in Nat /\ V < 2
        /\ S \in Nat /\ S < 2 /\ P \in Nat /\ P < 8 /\ R \in Nat /\ R < 32 /\ Q \in Nat /\ Q < 8
    BY DEF Flags, Modes
  <2>2. w = C + 2 * Z + 4 * G + 8 * S + 16 * V + 32 * P + 256 * R + 8192 * Q
    BY DEF PSWWord
  <2>. HIDE DEF w, C, Z, G, V, S, P, R, Q
  <2>3. w \in Nat /\ w < 65536
    BY ONLY <2>1, <2>2
  <2>. QED BY <2>3, IsWord DEF w
<1>2. ASSUME NEW w \in WordValues PROVE FlagsOf(w) \in Flags /\ ModeOf(w) \in Modes
  <2>1. w \in Nat /\ w < 65536
    BY WordRange
  <2>2. /\ \A q \in Nat : q % 2 \in 0..1 /\ q % 8 \in 0..7 /\ q % 32 \in 0..31
        /\ w \div 2 \in Nat /\ w \div 4 \in Nat /\ w \div 16 \in Nat /\ w \div 8 \in Nat
        /\ w \div 32 \in Nat /\ w \div 256 \in Nat /\ w \div 8192 \in 0..7
    BY ONLY <2>1
  <2>. QED BY <2>1, <2>2 DEF FlagsOf, ModeOf, Flags, Modes
<1>. QED BY <1>1, <1>2

\* A push and a pull give machines.
LEMMA PushRuns ==
  ASSUME NEW n \in Machines, NEW v \in WordValues, Slot(n, 1) \in Cells
  PROVE  /\ Runs(n, push(n, v)) /\ WORD_ADDR_CONV(push(n, v).MAR) = Slot(n, 1)
         /\ push(n, v).REG[SP] = Wrap(n.REG[SP] - 2)
<1>. DEFINE sp == Wrap(n.REG[SP] - WORD_STEP)
            reg == [n.REG EXCEPT ![SP] = sp]
            q == [n EXCEPT !.REG = reg]
<1>1. push(n, v) = BusWrite(q, sp, WORD, v)
  BY DEF push
<1>2. sp \in WordValues /\ WORD_ADDR_CONV(sp) = Slot(n, 1)
  <2>1. n.REG[SP] \in WordValues
    BY RegisterNumbers DEF Machines
  <2>2. n.REG[SP] - WORD_STEP \in Int
    BY <2>1, WordRange DEF WORD_STEP
  <2>. QED BY <2>2, WrapRange DEF Slot, WORD_STEP
<1>3. push(n, v).REG[SP] = Wrap(n.REG[SP] - 2)
  <2>1. push(n, v).REG = [n.REG EXCEPT ![SP] = Wrap(n.REG[SP] - 2)]
    BY PushFields, MachineShaped
  <2>. QED BY <2>1, RegisterNumbers DEF Machines
<1>. HIDE DEF sp
<1>4. reg \in [Registers -> WordValues]
  BY <1>2 DEF Machines
<1>. HIDE DEF reg
<1>5. Runs(n, q)
  BY <1>4 DEF Machines, Runs
<1>. HIDE DEF q
<1>6. BusWrite(q, sp, WORD, v).MAR = sp /\ Runs(q, BusWrite(q, sp, WORD, v))
  BY <1>2, <1>5, StoreRuns DEF Runs, WORD
<1>. QED BY <1>1, <1>2, <1>3, <1>5, <1>6 DEF Runs

\* Pulling a register moves the stack pointer on by a word.
LEMMA PullRuns ==
  ASSUME NEW n \in Machines, NEW r \in Registers, r # SP, WORD_ADDR_CONV(n.REG[SP]) \in Cells
  PROVE  /\ Runs(n, PullRegister(n, r))
         /\ PullRegister(n, r).REG[SP] = Wrap(n.REG[SP] + 2)
<1>. DEFINE sp == Wrap(n.REG[SP] + WORD_STEP)
            a == n.REG[SP]
            low == [n.REG EXCEPT ![SP] = sp]
            reg == [low EXCEPT ![r] = Top(n)]
<1>1. PullRegister(n, r) = [[n EXCEPT !.MAR = a, !.REG = low] EXCEPT !.REG = reg]
  BY DEF PullRegister, Popped, Machines
<1>2. a \in WordValues /\ sp \in WordValues /\ Top(n) \in WordValues
  <2>1. a \in WordValues
    BY RegisterNumbers DEF Machines
  <2>2. sp \in WordValues
    BY <2>1, WordRange, WrapRange DEF WORD_STEP
  <2>3. Top(n) = n.mem[WORD_ADDR_CONV(a)]
    BY DEF Top, BusRead
  <2>. QED BY <2>1, <2>2, <2>3 DEF Machines
<1>3. PullRegister(n, r).REG[SP] = Wrap(n.REG[SP] + 2)
  <2>1. PullRegister(n, r).REG = [n.REG EXCEPT ![SP] = Wrap(n.REG[SP] + 2), ![r] = Top(n)]
    BY PullFields, MachineShaped
  <2>. QED BY <2>1, RegisterNumbers DEF Machines
<1>. HIDE DEF sp, a
<1>4. reg \in [Registers -> WordValues]
  BY <1>2 DEF Machines
<1>. HIDE DEF low, reg
<1>5. Runs(n, [[n EXCEPT !.MAR = a, !.REG = low] EXCEPT !.REG = reg])
  BY <1>2, <1>4 DEF Machines, Runs
<1>. QED BY <1>1, <1>3, <1>5

\* Pulling the PSW gives a machine, whatever word is pulled.
LEMMA PullPSWRuns ==
  ASSUME NEW n \in Machines, WORD_ADDR_CONV(n.REG[SP]) \in Cells
  PROVE  /\ PullPSW(n) \in Machines /\ PullPSW(n).queue = n.queue
         /\ PullPSW(n).REG[SP] = Wrap(n.REG[SP] + 2)
<1>. DEFINE sp == Wrap(n.REG[SP] + WORD_STEP)
            a == n.REG[SP]
            reg == [n.REG EXCEPT ![SP] = sp]
            flags == FlagsOf(Top(n))
            mode == [ModeOf(Top(n)) EXCEPT !.SLP = 0]
<1>1. PullPSW(n) = [[n EXCEPT !.MAR = a, !.REG = reg] EXCEPT !.PSW = flags, !.mode = mode]
  BY DEF PullPSW, Popped
<1>2. a \in WordValues /\ sp \in WordValues /\ Top(n) \in WordValues
  <2>1. a \in WordValues
    BY RegisterNumbers DEF Machines
  <2>2. sp \in WordValues
    BY <2>1, WordRange, WrapRange DEF WORD_STEP
  <2>3. Top(n) = n.mem[WORD_ADDR_CONV(a)]
    BY DEF Top, BusRead
  <2>. QED BY <2>1, <2>2, <2>3 DEF Machines
<1>3. PullPSW(n).REG[SP] = Wrap(n.REG[SP] + 2)
  <2>1. PullPSW(n).REG = [n.REG EXCEPT ![SP] = Wrap(n.REG[SP] + 2)]
    BY PullPSWFields, MachineShaped
  <2>. QED BY <2>1, RegisterNumbers DEF Machines
<1>4. flags \in Flags /\ mode \in Modes
  <2>1. FlagsOf(Top(n)) \in Flags /\ ModeOf(Top(n)) \in Modes
    BY <1>2, PSWTypes
  <2>. QED BY <2>1 DEF Modes
<1>. HIDE DEF sp, a, flags, mode
<1>5. reg \in [Registers -> WordValues]
  BY <1>2 DEF Machines
<1>. HIDE DEF reg
<1>6. /\ [[n EXCEPT !.MAR = a, !.REG = reg] EXCEPT !.PSW = flags, !.mode = mode] \in Machines
      /\ [[n EXCEPT !.MAR = a, !.REG = reg] EXCEPT !.PSW = flags, !.mode = mode].queue = n.queue
  BY <1>2, <1>4, <1>5 DEF Machines
<1>. QED BY <1>1, <1>3, <1>6

\* The slots of a frame, one by one.
LEMMA SlotChain ==
  ASSUME NEW n \in Machines
  PROVE  /\ n.REG[SP] \in Nat /\ n.REG[SP] < 65536
         /\ Slot(n, 1) = Wrap(n.REG[SP] - 2) \div 2
         /\ Slot(n, 2) = Wrap(n.REG[SP] - 4) \div 2
         /\ Slot(n, 3) = Wrap(n.REG[SP] - 6) \div 2
  BY WordRange, RegisterNumbers DEF Machines, Slot, WORD_STEP, WORD_ADDR_CONV

\* Pushing the four words of an entry gives a machine that runs on.
LEMMA FrameRuns ==
  ASSUME NEW n \in Machines, FrameCells(n) \subseteq Cells
  PROVE  /\ Runs(n, PushFrame(n))
         /\ WORD_ADDR_CONV(PushFrame(n).MAR) = Slot(n, 3)
<1>. DEFINE sp == n.REG[SP]
            w == PSWWord(n.PSW, n.mode)
            a == push(n, n.REG[PC])
            b == push(a, w)
            c == push(b, n.REG[LR])
<1>1. PushFrame(n) = c
  BY DEF PushFrame
<1>2. n.REG[PC] \in WordValues /\ n.REG[LR] \in WordValues /\ w \in WordValues
  BY PSWTypes, RegisterNumbers DEF Machines
<1>3. Slot(n, 1) \in Cells /\ Slot(n, 2) \in Cells /\ Slot(n, 3) \in Cells
  BY DEF FrameCells
<1>. HIDE DEF w, c
<1>4. Runs(n, a) /\ a.REG[SP] = Wrap(sp - 2)
  BY <1>2, <1>3, PushRuns
<1>. HIDE DEF a
<1>5. a \in Machines /\ Slot(a, 1) = Slot(n, 2)
  BY <1>4, SlotChain, FrameSlots DEF Runs
<1>6. Runs(a, b) /\ b.REG[SP] = Wrap(sp - 4)
  BY <1>2, <1>3, <1>4, <1>5, PushRuns, SlotChain, FrameSlots
<1>. HIDE DEF b
<1>7. b \in Machines /\ Slot(b, 1) = Slot(n, 3)
  BY <1>6, SlotChain, FrameSlots DEF Runs
<1>8. Runs(b, c) /\ WORD_ADDR_CONV(c.MAR) = Slot(n, 3)
  BY <1>2, <1>3, <1>7, PushRuns DEF c
<1>. QED BY <1>1, <1>4, <1>6, <1>8 DEF Runs

\* Going into a routine.
LEMMA EnterFields ==
  ASSUME NEW n \in Machines, NEW d \in Dev
  PROVE  /\ Enter(n, d) \in Machines
         /\ Enter(n, d).mode.PRIORITY = VectorPriority(n, d)
         /\ Enter(n, d).mode.prev_PRIORITY = n.mode.PRIORITY /\ Enter(n, d).mode.SLP = 0
         /\ Enter(n, d).mem = n.mem /\ Enter(n, d).queue = n.queue /\ Enter(n, d).MAR = n.MAR
<1>. DEFINE word == n.mem[VectorPSW(d)]
            x == n.mem[VectorPC(d)]
            flags == FlagsOf(word)
            mode == [ModeOf(word) EXCEPT !.SLP = 0, !.prev_PRIORITY = n.mode.PRIORITY]
            reg == [n.REG EXCEPT ![PC] = x, ![LR] = LAST_BYTE]
<1>1. Enter(n, d) = [n EXCEPT !.PSW = flags, !.mode = mode, !.REG = reg, !.high = 0]
  BY DEF Enter
<1>2. word \in WordValues /\ x \in WordValues /\ LAST_BYTE \in WordValues
  <2>1. VectorPSW(d) \in Cells /\ VectorPC(d) \in Cells
    BY CellsAssumption
  <2>2. LAST_BYTE \in WordValues
    BY IsWord DEF LAST_BYTE
  <2>. QED BY <2>1, <2>2 DEF Machines
<1>3. flags \in Flags /\ ModeOf(word) \in Modes
  BY <1>2, PSWTypes
<1>4. n.mode \in Modes /\ n.mode.PRIORITY \in 0..7
  BY DEF Machines, Modes
<1>5. ModeOf(word).PRIORITY = VectorPriority(n, d)
  BY DEF VectorPriority
<1>6. /\ mode \in Modes /\ mode.PRIORITY = VectorPriority(n, d)
      /\ mode.prev_PRIORITY = n.mode.PRIORITY /\ mode.SLP = 0
  <2>. DEFINE y == ModeOf(word)
              p == n.mode.PRIORITY
  <2>1. y \in Modes /\ p \in 0..7 /\ y.PRIORITY = VectorPriority(n, d)
    BY <1>3, <1>4, <1>5
  <2>2. mode = [y EXCEPT !.SLP = 0, !.prev_PRIORITY = p]
    OBVIOUS
  <2>. HIDE DEF y, p, mode
  <2>3. mode = [SLP |-> 0, PRIORITY |-> y.PRIORITY, res |-> y.res, prev_PRIORITY |-> p]
    BY <2>1, <2>2 DEF Modes
  <2>4. y.PRIORITY \in 0..7 /\ y.res \in 0..31 /\ 0 \in 0..1
    BY <2>1 DEF Modes
  <2>5. mode \in Modes
    BY <2>1, <2>3, <2>4, Zenon DEF Modes
  <2>. QED BY <2>1, <2>3, <2>5 DEF p
<1>. HIDE DEF word, x, flags, mode
<1>7. reg \in [Registers -> WordValues]
  BY <1>2 DEF Machines
<1>. DEFINE e == [n EXCEPT !.PSW = flags, !.mode = mode, !.REG = reg, !.high = 0]
<1>. HIDE DEF reg
<1>8. e.mode = mode /\ e.mem = n.mem /\ e.queue = n.queue /\ e.MAR = n.MAR
  BY DEF Machines
<1>9. e \in Machines
  <2>. DEFINE z == 0
  <2>1. e = [[n EXCEPT !.PSW = flags, !.mode = mode, !.REG = reg] EXCEPT !.high = z] /\ z \in 0..255
    OBVIOUS
  <2>. HIDE DEF z, e
  <2>2. [n EXCEPT !.PSW = flags, !.mode = mode, !.REG = reg] \in Machines
    <3>1. flags \in Flags /\ mode \in Modes /\ reg \in [Registers -> WordValues]
      BY <1>3, <1>6, <1>7
    <3>. QED BY <3>1 DEF Machines
  <2>. DEFINE q == [n EXCEPT !.PSW = flags, !.mode = mode, !.REG = reg]
  <2>3. q \in Machines /\ e = [q EXCEPT !.high = z]
    BY <2>1, <2>2
  <2>. HIDE DEF q
  <2>. QED BY <2>1, <2>3 DEF Machines
<1>. HIDE DEF e
<1>10. Enter(n, d) = e
  BY <1>1 DEF e
<1>. QED BY <1>6, <1>8, <1>9, <1>10

\* Pulling what the entry pushed.
LEMMA PullFrameRuns ==
  ASSUME NEW old \in Machines, NEW n \in Machines, FrameCells(old) \subseteq Cells,
         n.REG[SP] = Wrap(old.REG[SP] - 6)
  PROVE  PullFrame(n) \in Machines /\ PullFrame(n).queue = n.queue
<1>. DEFINE sp == old.REG[SP]
            a == PullRegister(n, LR)
            b == PullPSW(a)
            c == PullRegister(b, PC)
<1>1. PullFrame(n) = c
  BY DEF PullFrame
<1>2. /\ WORD_ADDR_CONV(Wrap(sp - 2)) \in Cells
      /\ WORD_ADDR_CONV(Wrap(sp - 4)) \in Cells
      /\ WORD_ADDR_CONV(Wrap(sp - 6)) \in Cells
  BY SlotChain DEF FrameCells, WORD_ADDR_CONV
<1>. HIDE DEF c
<1>3. Runs(n, a) /\ a.REG[SP] = Wrap(sp - 4)
  BY <1>2, PullRuns, SlotChain, FrameSlots, RegisterNumbers
<1>. HIDE DEF a
<1>4. b \in Machines /\ b.queue = a.queue /\ b.REG[SP] = Wrap(sp - 2)
  BY <1>2, <1>3, PullPSWRuns, SlotChain, FrameSlots DEF Runs
<1>. HIDE DEF b
<1>5. Runs(b, c)
  BY <1>2, <1>4, PullRuns, RegisterNumbers DEF c
<1>. QED BY <1>1, <1>3, <1>4, <1>5 DEF Runs

\* A frame that does not wrap: its cells are the three below the pointer.
LEMMA FrameCellsOf ==
  ASSUME NEW n \in Machines, n.REG[SP] >= 3 * WORD_STEP
  PROVE  /\ \A k \in 1..3 : Slot(n, k) = (n.REG[SP] \div 2) - k
         /\ FrameOf(n) = FrameCells(n)
         /\ Bottom(n) \in Nat /\ Bottom(n) = n.REG[SP] - 6 /\ Bottom(n) = Wrap(n.REG[SP] - 6)
<1>. DEFINE sp == n.REG[SP]
<1>1. sp \in Nat /\ sp < 65536 /\ sp >= 6
  BY SlotChain DEF WORD_STEP
<1>. HIDE DEF sp
<1>2. ASSUME NEW k \in 1..3
      PROVE  Wrap(sp - k * 2) = sp - k * 2 /\ (sp - k * 2) \div 2 = (sp \div 2) - k
  BY <1>1 DEF Wrap
<1>3. \A k \in 1..3 : /\ Slot(n, k) = (sp \div 2) - k
                      /\ WORD_ADDR_CONV(sp - k * WORD_STEP) = Slot(n, k)
  BY <1>2 DEF Slot, WORD_ADDR_CONV, WORD_STEP, sp
<1>4. FrameOf(n) = FrameCells(n)
  BY <1>3 DEF FrameOf, FrameCells, sp
<1>5. Bottom(n) = sp - 6
  BY DEF Bottom, WORD_STEP, sp
<1>6. Wrap(sp - 6) = sp - 6 /\ sp - 6 \in Nat
  BY <1>1 DEF Wrap
<1>. QED BY <1>3, <1>4, <1>5, <1>6 DEF sp

\* The part of fetch after a return, if there is one.
FetchFrom(n) ==
  [n EXCEPT !.MAR = n.REG[PC], !.IX = BusRead(n, n.REG[PC], WORD), !.REG[PC] = Wrap(@ + WORD_STEP)]

\* A fetch is a return, if the PC asks for one, and then the reading of the word.
LEMMA FetchParts ==
  ASSUME NEW n
  PROVE  fetch(n) = FetchFrom(IF Returns(n) THEN interrupt_return_process(n) ELSE n)
  BY DEF fetch, FetchFrom

\* What the reading of an instruction word does to the machine.
LEMMA FetchRuns ==
  ASSUME NEW n \in Machines, NEW after, after = FetchFrom(n)
  PROVE  /\ after.MAR = n.REG[PC] /\ after.mem = n.mem /\ after.PSW = n.PSW
         /\ after.mode = n.mode /\ after.queue = n.queue
         /\ after.IX = n.mem[WORD_ADDR_CONV(n.REG[PC])]
         /\ after.REG[PC] = Wrap(n.REG[PC] + WORD_STEP)
         /\ \A r \in Registers \ {PC} : after.REG[r] = n.REG[r]
         /\ WORD_ADDR_CONV(n.REG[PC]) \in Cells => after \in Machines
<1>. DEFINE a == n.REG[PC]
            word == BusRead(n, a, WORD)
            v == Wrap(a + WORD_STEP)
            reg == [n.REG EXCEPT ![PC] = v]
<1>1. after = [n EXCEPT !.MAR = a, !.IX = word, !.REG = reg]
  BY DEF FetchFrom
<1>2. a \in WordValues /\ v \in WordValues /\ word = n.mem[WORD_ADDR_CONV(a)]
  <2>1. a \in WordValues
    BY RegisterNumbers DEF Machines
  <2>2. v \in WordValues
    BY <2>1, WordRange, WrapRange DEF WORD_STEP
  <2>. QED BY <2>1, <2>2 DEF BusRead
<1>3. WORD_ADDR_CONV(a) \in Cells => word \in WordValues
  BY <1>2 DEF Machines
<1>4. /\ reg \in [Registers -> WordValues] /\ reg[PC] = v
      /\ \A r \in Registers \ {PC} : reg[r] = n.REG[r]
  <2>. HIDE DEF v
  <2>. QED BY <1>2, RegisterNumbers DEF Machines
<1>. HIDE DEF word, reg
<1>5. /\ after.MAR = a /\ after.mem = n.mem /\ after.PSW = n.PSW /\ after.IX = word
      /\ after.mode = n.mode /\ after.queue = n.queue /\ after.REG = reg
  BY <1>1 DEF Machines
<1>6. WORD_ADDR_CONV(a) \in Cells => after \in Machines
  <2>1. ASSUME WORD_ADDR_CONV(a) \in Cells
        PROVE  a \in WordValues /\ word \in WordValues /\ reg \in [Registers -> WordValues]
    BY <1>2, <1>3, <1>4, <2>1
  <2>. DEFINE f == [n EXCEPT !.MAR = a, !.IX = word, !.REG = reg]
  <2>. HIDE DEF a, v
  <2>2. ASSUME WORD_ADDR_CONV(a) \in Cells PROVE f \in Machines
    BY <2>1, <2>2 DEF Machines
  <2>. HIDE DEF f
  <2>3. after = f
    BY <1>1 DEF f
  <2>. QED BY <2>2, <2>3
<1>. QED BY <1>2, <1>4, <1>5, <1>6

-----------------------------------------------------------------------------
(***************************************************************************)
(* The inductive invariant.                                                *)
(***************************************************************************)

\* The machine n and those it has interrupted, outermost first in s, are awake.
Awake(s, n) == n.mode.SLP = 0 /\ \A i \in DOMAIN s : s[i].mode.SLP = 0

\* The words that the entry which interrupted old has pushed.
Kept(mem, old) ==
  /\ mem[Slot(old, 1)] = old.REG[PC]
  /\ mem[Slot(old, 2)] = PSWWord(old.PSW, old.mode)
  /\ mem[Slot(old, 3)] = old.REG[LR]

\* Every frame on the stack lies in memory and holds them.
Framed(s, n) ==
  \A i \in DOMAIN s :
    s[i].REG[SP] >= 3 * WORD_STEP /\ FrameCells(s[i]) \subseteq Cells /\ Kept(n.mem, s[i])

\* A later frame lies below an earlier one.
Nested(s) == \A i, j \in DOMAIN s : i < j => s[j].REG[SP] <= Bottom(s[i])

\* Priorities do not fall towards the running routine, and each remembers the one before.
Ranked(s, n) ==
  /\ \A i, j \in DOMAIN s : i <= j => s[i].mode.PRIORITY <= s[j].mode.PRIORITY
  /\ \A i, j \in DOMAIN s : j = i + 1 => s[j].mode.prev_PRIORITY = s[i].mode.PRIORITY
  /\ s # << >> => /\ n.mode.prev_PRIORITY = s[Len(s)].mode.PRIORITY
                  /\ s[Len(s)].mode.PRIORITY <= n.mode.PRIORITY

\* Nothing waits in the queue that a return would let in.
Queued(s, n) ==
  \A d \in Dev : n.queue[d] <= IF s = << >> THEN n.mode.PRIORITY ELSE s[1].mode.PRIORITY

Stacked(s, n) == Awake(s, n) /\ Framed(s, n) /\ Nested(s) /\ Ranked(s, n) /\ Queued(s, n)

IInv == TypeOK /\ Stacked(interrupted, m)

\* Facts about sequences, of machines here.
LEMMA Sequences ==
  ASSUME NEW S, NEW s \in Seq(S)
  PROVE  /\ Len(s) \in Nat /\ DOMAIN s = 1..Len(s)
         /\ \A i \in DOMAIN s : i \in Nat /\ 1 <= i /\ i <= Len(s) /\ s[i] \in S
         /\ s # << >> => Len(s) \in DOMAIN s /\ 1 \in DOMAIN s
         /\ s = << >> => DOMAIN s = {}
<1>1. Len(s) \in Nat /\ DOMAIN s = 1..Len(s) /\ \A i \in 1..Len(s) : s[i] \in S
  OBVIOUS
<1>2. s # << >> => Len(s) > 0
  OBVIOUS
<1>3. s = << >> => Len(s) = 0
  OBVIOUS
<1>. QED BY <1>1, <1>2, <1>3

\* A sequence with one more element at its end.
LEMMA AppendParts ==
  ASSUME NEW S, NEW s \in Seq(S), NEW x \in S, NEW t, t = Append(s, x)
  PROVE  /\ t \in Seq(S) /\ Len(t) = Len(s) + 1 /\ t # << >> /\ t[Len(t)] = x
         /\ \A i \in DOMAIN t : (i \in DOMAIN s /\ t[i] = s[i]) \/ i = Len(t)
<1>1. /\ t \in Seq(S) /\ Len(t) = Len(s) + 1 /\ t # << >> /\ t[Len(s) + 1] = x
      /\ \A i \in 1..Len(s) : t[i] = s[i]
  BY AppendProperties
<1>2. Len(s) \in Nat /\ DOMAIN s = 1..Len(s) /\ DOMAIN t = 1..Len(t)
  BY <1>1, LenProperties
<1>. QED BY <1>1, <1>2

\* A sequence without its last element.
LEMMA OuterParts ==
  ASSUME NEW S, NEW s \in Seq(S), s # << >>, NEW t, t = SubSeq(s, 1, Len(s) - 1)
  PROVE  /\ t \in Seq(S) /\ Len(t) = Len(s) - 1 /\ DOMAIN t \subseteq DOMAIN s
         /\ \A i \in DOMAIN t : t[i] = s[i]
<1>. DEFINE k == Len(s) - 1
<1>1. Len(s) \in Nat /\ DOMAIN s = 1..Len(s) /\ k \in Nat /\ k + 1 = Len(s)
  BY LenProperties, EmptySeq
<1>2. \A i \in 1..k : s[i] \in S
  BY <1>1, ElementOfSeq
<1>. HIDE DEF k
<1>3. /\ SubSeq(s, 1, k) \in Seq(S) /\ Len(SubSeq(s, 1, k)) = k
      /\ \A i \in 1..k : SubSeq(s, 1, k)[i] = s[i]
  <2>1. /\ SubSeq(s, 1, k) \in Seq(S)
        /\ Len(SubSeq(s, 1, k)) = IF 1 <= k THEN k - 1 + 1 ELSE 0
        /\ \A i \in 1..(k - 1 + 1) : SubSeq(s, 1, k)[i] = s[1 + i - 1]
    BY <1>1, <1>2, SubSeqProperties
  <2>2. k - 1 + 1 = k /\ \A i \in 1..k : 1 + i - 1 = i
    BY <1>1
  <2>. QED BY <1>1, <2>1, <2>2
<1>4. t = SubSeq(s, 1, k)
  BY DEF k
<1>5. DOMAIN t = 1..k
  BY <1>3, <1>4, LenProperties
<1>. QED BY <1>1, <1>3, <1>4, <1>5 DEF k

\* Two frames of which one lies below the other share no cell.
LEMMA FramesApart ==
  ASSUME NEW a \in Machines, NEW b \in Machines,
         a.REG[SP] >= 3 * WORD_STEP, b.REG[SP] >= 3 * WORD_STEP, b.REG[SP] <= Bottom(a)
  PROVE  FrameCells(a) \cap FrameCells(b) = {}
<1>. DEFINE x == a.REG[SP]
            y == b.REG[SP]
<1>1. x \in Nat /\ y \in Nat /\ y <= x - 6
  BY SlotChain, FrameCellsOf
<1>2. /\ \A k \in 1..3 : Slot(a, k) = (x \div 2) - k
      /\ \A k \in 1..3 : Slot(b, k) = (y \div 2) - k
  BY FrameCellsOf
<1>. HIDE DEF x, y
<1>3. (y \div 2) <= (x \div 2) - 3 /\ x \div 2 \in Nat /\ y \div 2 \in Nat
  BY ONLY <1>1
<1>4. \A j, k \in 1..3 : Slot(a, j) # Slot(b, k)
  BY <1>2, <1>3
<1>. QED BY <1>4 DEF FrameCells

\* Steps that leave priorities, queue and frames alone.
LEMMA RunKeeps ==
  ASSUME NEW s \in Seq(Machines), NEW n, NEW after, Stacked(s, n),
         after.mode = n.mode, after.queue = n.queue,
         \A i \in DOMAIN s : \A w \in FrameCells(s[i]) : after.mem[w] = n.mem[w]
  PROVE  Stacked(s, after)
<1>1. Framed(s, after)
  BY DEF Stacked, Framed, Kept, FrameCells
<1>. QED BY <1>1 DEF Stacked, Awake, Ranked, Queued

\* While a routine runs, no return lets another one in.
LEMMA NobodyWaits ==
  ASSUME NEW s \in Seq(Machines), NEW n \in Machines, Stacked(s, n), s # << >>
  PROVE  Waiting(n) = {}
<1>1. 1 \in DOMAIN s /\ Len(s) \in DOMAIN s /\ 1 <= Len(s)
  BY Sequences
<1>2. /\ s[1].mode.PRIORITY <= s[Len(s)].mode.PRIORITY
      /\ n.mode.prev_PRIORITY = s[Len(s)].mode.PRIORITY
  BY <1>1 DEF Stacked, Ranked
<1>3. \A d \in Dev : n.queue[d] <= s[1].mode.PRIORITY
  BY DEF Stacked, Queued
<1>4. /\ s[1].mode.PRIORITY \in Int /\ n.mode.prev_PRIORITY \in Int
      /\ \A d \in Dev : n.queue[d] \in Int
  <2>1. s[1] \in Machines
    BY <1>1, Sequences
  <2>2. /\ s[1].mode.PRIORITY \in 0..7 /\ n.mode.prev_PRIORITY \in 0..7
        /\ \A d \in Dev : n.queue[d] \in {INT_OFF} \cup 0..7
    BY <2>1 DEF Machines, Modes
  <2>. QED BY <2>2 DEF INT_OFF
<1>. QED BY <1>2, <1>3, <1>4 DEF Waiting

\* An interrupt stacks another frame.
LEMMA EntryKeeps ==
  ASSUME NEW s \in Seq(Machines), NEW n \in Machines, NEW d \in Dev, Stacked(s, n),
         Preempts(n, d), n.REG[SP] >= 3 * WORD_STEP, FrameCells(n) \subseteq Cells,
         VectorPSW(d) \notin FrameCells(n), s # << >> => n.REG[SP] <= Bottom(s[Len(s)]),
         NEW t, t = Append(s, n), NEW e, e = Enter(PushFrame(n), d)
  PROVE  /\ t \in Seq(Machines) /\ e \in Machines /\ WORD_ADDR_CONV(e.MAR) \in Cells
         /\ Stacked(t, e)
<1>. DEFINE f == PushFrame(n)
<1>1. f \in Machines /\ f.mode = n.mode /\ f.queue = n.queue /\ WORD_ADDR_CONV(f.MAR) \in Cells
  BY FrameRuns DEF Runs, FrameCells
<1>2. /\ Kept(f.mem, n)
      /\ \A w \in Cells \ FrameCells(n) : f.mem[w] = n.mem[w]
  BY FrameFields DEF Kept
<1>. HIDE DEF f
<1>3. e = Enter(f, d)
  BY DEF f
<1>4. /\ e \in Machines /\ e.mem = f.mem /\ e.queue = n.queue /\ e.MAR = f.MAR
      /\ e.mode.PRIORITY = VectorPriority(f, d) /\ e.mode.prev_PRIORITY = n.mode.PRIORITY
      /\ e.mode.SLP = 0
  BY <1>1, <1>3, EnterFields
<1>5. VectorPriority(f, d) = VectorPriority(n, d)
  BY <1>2, CellsAssumption DEF VectorPriority
<1>6. /\ t \in Seq(Machines) /\ Len(t) = Len(s) + 1 /\ t # << >> /\ t[Len(t)] = n
      /\ \A i \in DOMAIN t : (i \in DOMAIN s /\ t[i] = s[i]) \/ i = Len(t)
  BY AppendParts
<1>7. /\ Len(s) \in Nat /\ DOMAIN s = 1..Len(s) /\ \A i \in DOMAIN s : s[i] \in Machines
      /\ DOMAIN t = 1..Len(t) /\ (s = << >> \/ Len(s) \in DOMAIN s)
  BY <1>6, Sequences
<1>8. \A i \in DOMAIN s : n.REG[SP] <= Bottom(s[i])
  <2>. SUFFICES ASSUME NEW i \in DOMAIN s PROVE n.REG[SP] <= Bottom(s[i])
    OBVIOUS
  <2>1. Len(s) \in DOMAIN s /\ n.REG[SP] <= Bottom(s[Len(s)]) /\ i <= Len(s) /\ i \in Nat
    BY <1>7
  <2>2. CASE i = Len(s)
    BY <2>1, <2>2
  <2>3. CASE i < Len(s)
    <3>1. s[Len(s)].REG[SP] <= Bottom(s[i])
      BY <2>1, <2>3 DEF Stacked, Nested
    <3>2. s[Len(s)].REG[SP] >= 3 * WORD_STEP /\ s[i].REG[SP] >= 3 * WORD_STEP
      BY <2>1 DEF Stacked, Framed
    <3>3. /\ Bottom(s[Len(s)]) = s[Len(s)].REG[SP] - 6 /\ s[Len(s)].REG[SP] \in Nat
          /\ Bottom(s[i]) \in Nat /\ n.REG[SP] \in Nat
      BY <1>7, <2>1, <3>2, FrameCellsOf, SlotChain
    <3>. HIDE DEF Bottom
    <3>. QED BY <2>1, <3>1, <3>3
  <2>. QED BY <1>7, <2>1, <2>2, <2>3
<1>9. Awake(t, e)
  BY <1>4, <1>6 DEF Stacked, Awake
<1>10. Framed(t, e)
  <2>. SUFFICES ASSUME NEW i \in DOMAIN t
                PROVE  /\ t[i].REG[SP] >= 3 * WORD_STEP /\ FrameCells(t[i]) \subseteq Cells
                       /\ Kept(e.mem, t[i])
    BY DEF Framed
  <2>1. CASE i = Len(t)
    BY <1>2, <1>4, <1>6, <2>1
  <2>2. CASE i \in DOMAIN s /\ t[i] = s[i]
    <3>1. /\ s[i].REG[SP] >= 3 * WORD_STEP /\ FrameCells(s[i]) \subseteq Cells /\ Kept(n.mem, s[i])
          /\ s[i] \in Machines /\ n.REG[SP] <= Bottom(s[i])
      BY <1>7, <1>8, <2>2 DEF Stacked, Framed
    <3>2. FrameCells(s[i]) \cap FrameCells(n) = {}
      BY <3>1, FramesApart
    <3>3. \A w \in FrameCells(s[i]) : e.mem[w] = n.mem[w]
      BY <1>2, <1>4, <3>1, <3>2
    <3>. QED BY <2>2, <3>1, <3>3 DEF Kept, FrameCells
  <2>. QED BY <1>6, <2>1, <2>2
<1>11. Nested(t)
  <2>. SUFFICES ASSUME NEW i \in DOMAIN t, NEW j \in DOMAIN t, i < j
                PROVE  t[j].REG[SP] <= Bottom(t[i])
    BY DEF Nested
  <2>1. i \in DOMAIN s /\ t[i] = s[i]
    BY <1>6, <1>7
  <2>2. CASE j = Len(t)
    BY <1>6, <1>8, <2>1, <2>2
  <2>3. CASE j \in DOMAIN s /\ t[j] = s[j]
    BY <2>1, <2>3 DEF Stacked, Nested
  <2>. QED BY <1>6, <2>2, <2>3
<1>12. Ranked(t, e)
  <2>1. \A q \in Machines : q.mode.PRIORITY \in Int /\ q.mode.prev_PRIORITY \in Int
    <3>1. \A q \in Machines : q.mode.PRIORITY \in 0..7 /\ q.mode.prev_PRIORITY \in 0..7
      BY DEF Machines, Modes
    <3>. QED BY <3>1
  <2>2. \A i \in DOMAIN s : s[i].mode.PRIORITY <= n.mode.PRIORITY
    <3>. SUFFICES ASSUME NEW i \in DOMAIN s PROVE s[i].mode.PRIORITY <= n.mode.PRIORITY
      OBVIOUS
    <3>1. Len(s) \in DOMAIN s /\ s # << >> /\ i <= Len(s)
      BY <1>7, Sequences
    <3>2. /\ s[i].mode.PRIORITY <= s[Len(s)].mode.PRIORITY
          /\ s[Len(s)].mode.PRIORITY <= n.mode.PRIORITY
      BY <3>1 DEF Stacked, Ranked
    <3>3. /\ s[i].mode.PRIORITY \in Int /\ s[Len(s)].mode.PRIORITY \in Int
          /\ n.mode.PRIORITY \in Int
      BY <1>7, <2>1, <3>1
    <3>. QED BY <3>2, <3>3
  <2>3. ASSUME NEW i \in DOMAIN t, NEW j \in DOMAIN t, i <= j
        PROVE  t[i].mode.PRIORITY <= t[j].mode.PRIORITY
    <3>1. CASE i = Len(t)
      <4>1. j = i
        BY <1>6, <1>7, <2>3, <3>1
      <4>. QED BY <1>6, <2>1, <3>1, <4>1
    <3>2. CASE i \in DOMAIN s /\ t[i] = s[i] /\ j = Len(t)
      BY <1>6, <2>2, <3>2
    <3>3. CASE i \in DOMAIN s /\ t[i] = s[i] /\ j \in DOMAIN s /\ t[j] = s[j]
      BY <2>3, <3>3 DEF Stacked, Ranked
    <3>. QED BY <1>6, <3>1, <3>2, <3>3
  <2>4. ASSUME NEW i \in DOMAIN t, NEW j \in DOMAIN t, j = i + 1
        PROVE  t[j].mode.prev_PRIORITY = t[i].mode.PRIORITY
    <3>1. i \in DOMAIN s /\ t[i] = s[i]
      BY <1>6, <1>7, <2>4
    <3>2. CASE j = Len(t)
      <4>1. i = Len(s) /\ s # << >>
        BY <1>6, <1>7, <2>4, <3>1, <3>2, Sequences
      <4>. QED BY <1>6, <3>1, <3>2, <4>1 DEF Stacked, Ranked
    <3>3. CASE j \in DOMAIN s /\ t[j] = s[j]
      BY <2>4, <3>1, <3>3 DEF Stacked, Ranked
    <3>. QED BY <1>6, <3>2, <3>3
  <2>5. e.mode.prev_PRIORITY = t[Len(t)].mode.PRIORITY
    BY <1>4, <1>6
  <2>6. t[Len(t)].mode.PRIORITY <= e.mode.PRIORITY
    <3>1. e.mode.PRIORITY > n.mode.PRIORITY
      BY <1>4, <1>5 DEF Preempts
    <3>2. e.mode.PRIORITY \in Int /\ n.mode.PRIORITY \in Int
      BY <1>4, <2>1
    <3>. QED BY <1>6, <3>1, <3>2
  <2>. QED BY <2>3, <2>4, <2>5, <2>6 DEF Ranked
<1>13. Queued(t, e)
  <2>1. t[1] = IF s = << >> THEN n ELSE s[1]
    <3>1. CASE s = << >>
      <4>1. Len(t) = 1
        BY <1>6, <3>1
      <4>. QED BY <1>6, <3>1, <4>1
    <3>2. CASE s # << >>
      <4>1. 1 \in DOMAIN s /\ 1 \in DOMAIN t /\ 1 # Len(t)
        BY <1>6, <1>7, <3>2
      <4>. QED BY <1>6, <3>2, <4>1
    <3>. QED BY <3>1, <3>2
  <2>. QED BY <1>4, <1>6, <2>1 DEF Stacked, Queued
<1>. QED BY <1>1, <1>4, <1>6, <1>9, <1>10, <1>11, <1>12, <1>13 DEF Stacked

\* r is n with what the interrupt of old has pushed.
Resumed(old, n, r) ==
  /\ \A x \in {PC, LR, SP} : r.REG[x] = old.REG[x]
  /\ \A x \in Registers \ {PC, LR, SP} : r.REG[x] = n.REG[x]
  /\ r.PSW = old.PSW /\ r.mode = old.mode
  /\ r.mem = n.mem /\ r.queue = n.queue

\* A return takes the last frame off the stack.
LEMMA ReturnKeeps ==
  ASSUME NEW s \in Seq(Machines), NEW n \in Machines, Stacked(s, n), s # << >>,
         n.REG[SP] = Bottom(s[Len(s)]),
         NEW t, t = SubSeq(s, 1, Len(s) - 1), NEW r, r = PullFrame(n)
  PROVE  t \in Seq(Machines) /\ r \in Machines /\ Stacked(t, r) /\ Resumed(s[Len(s)], n, r)
<1>. DEFINE old == s[Len(s)]
<1>1. /\ Len(s) \in Nat /\ DOMAIN s = 1..Len(s) /\ \A i \in DOMAIN s : s[i] \in Machines
      /\ Len(s) \in DOMAIN s /\ 1 \in DOMAIN s /\ old \in Machines
  BY Sequences
<1>2. old.REG[SP] >= 3 * WORD_STEP /\ FrameCells(old) \subseteq Cells /\ Kept(n.mem, old)
  BY <1>1 DEF Stacked, Framed
<1>3. old.mode.SLP = 0
  BY <1>1 DEF Stacked, Awake
<1>. HIDE DEF old
<1>4. n.REG[SP] = Wrap(old.REG[SP] - 6)
  BY <1>1, <1>2, FrameCellsOf DEF old
<1>5. r \in Machines /\ r.queue = n.queue
  BY <1>1, <1>2, <1>4, PullFrameRuns
<1>6. /\ r.REG[PC] = old.REG[PC] /\ r.REG[LR] = old.REG[LR] /\ r.REG[SP] = old.REG[SP]
      /\ r.PSW = old.PSW /\ r.mode = [old.mode EXCEPT !.SLP = 0] /\ r.mem = n.mem
      /\ \A q \in Registers \ {PC, LR, SP} : r.REG[q] = n.REG[q]
  <2>1. n.REG[SP] = PushFrame(old).REG[SP]
    BY <1>1, <1>2, <1>4, FrameFields
  <2>2. \A w \in FrameCells(old) : n.mem[w] = PushFrame(old).mem[w]
    BY <1>1, <1>2, FrameFields DEF Kept, FrameCells
  <2>. QED BY SMTT(30), <1>1, <1>2, <2>1, <2>2, ReturnRestores
<1>7. r.mode = old.mode
  <2>1. old.mode \in Modes
    BY <1>1 DEF Machines
  <2>. QED BY <1>3, <1>6, <2>1 DEF Modes
<1>8. /\ t \in Seq(Machines) /\ Len(t) = Len(s) - 1 /\ DOMAIN t \subseteq DOMAIN s
      /\ \A i \in DOMAIN t : t[i] = s[i]
  BY OuterParts
<1>9. /\ DOMAIN t = 1..Len(t) /\ t # << >> => Len(t) \in DOMAIN t /\ 1 \in DOMAIN t
      /\ t = << >> => Len(t) = 0
  BY <1>8, Sequences, EmptySeq
<1>10. Awake(t, r) /\ Framed(t, r) /\ Nested(t)
  BY <1>3, <1>6, <1>7, <1>8 DEF Stacked, Awake, Framed, Nested
<1>11. Ranked(t, r)
  <2>1. t # << >> => /\ old.mode.prev_PRIORITY = t[Len(t)].mode.PRIORITY
                     /\ t[Len(t)].mode.PRIORITY <= old.mode.PRIORITY
    <3>. SUFFICES ASSUME t # << >>
                  PROVE  /\ old.mode.prev_PRIORITY = t[Len(t)].mode.PRIORITY
                         /\ t[Len(t)].mode.PRIORITY <= old.mode.PRIORITY
      OBVIOUS
    <3>1. /\ Len(t) \in DOMAIN s /\ t[Len(t)] = s[Len(t)] /\ Len(s) = Len(t) + 1
          /\ Len(t) <= Len(s)
      BY <1>1, <1>8, <1>9
    <3>. QED BY <1>1, <3>1 DEF Stacked, Ranked, old
  <2>2. /\ \A i, j \in DOMAIN t : i <= j => t[i].mode.PRIORITY <= t[j].mode.PRIORITY
        /\ \A i, j \in DOMAIN t : j = i + 1 => t[j].mode.prev_PRIORITY = t[i].mode.PRIORITY
    <3>1. /\ \A i, j \in DOMAIN s : i <= j => s[i].mode.PRIORITY <= s[j].mode.PRIORITY
          /\ \A i, j \in DOMAIN s : j = i + 1 => s[j].mode.prev_PRIORITY = s[i].mode.PRIORITY
      BY DEF Stacked, Ranked
    <3>2. \A i \in DOMAIN t : i \in DOMAIN s /\ t[i] = s[i]
      BY <1>8
    <3>. QED BY ONLY <3>1, <3>2
  <2>. QED BY <1>7, <2>1, <2>2 DEF Ranked
<1>12. Queued(t, r)
  <2>1. s[1].mode.PRIORITY = IF t = << >> THEN r.mode.PRIORITY ELSE t[1].mode.PRIORITY
    <3>1. CASE t = << >>
      <4>1. Len(s) = 1
        BY <1>1, <1>8, <1>9, <3>1
      <4>. QED BY <1>7, <3>1, <4>1 DEF old
    <3>2. CASE t # << >>
      BY <1>8, <1>9, <3>2
    <3>. QED BY <3>1, <3>2
  <2>. QED BY <1>5, <2>1 DEF Stacked, Queued
<1>13. Resumed(old, n, r)
  BY <1>5, <1>6, <1>7 DEF Resumed
<1>. QED BY <1>5, <1>8, <1>10, <1>11, <1>12, <1>13 DEF Stacked, old

-----------------------------------------------------------------------------
\* The invariant holds at first, and every step keeps it.
LEMMA InitHolds == Init => IInv
<1>. SUFFICES ASSUME Init PROVE IInv
  OBVIOUS
<1>. DEFINE reg == [r \in Registers |-> IF r = PC THEN Start ELSE 0]
            psw == [C |-> 0, Z |-> 0, N |-> 0, V |-> 0]
            mode == [SLP |-> 0, PRIORITY |-> BasePriority, res |-> 0, prev_PRIORITY |-> 0]
            queue == [d \in Dev |-> INT_OFF]
<1>1. /\ m = [REG |-> reg, PSW |-> psw, mode |-> mode, high |-> 0, MAR |-> 0, IX |-> 0,
              mem |-> Image, queue |-> queue]
      /\ stage = FETCH /\ interrupted = << >> /\ entered = 0
  BY DEF Init
<1>2. 0 \in WordValues /\ 0 \in 0..255 /\ WORD_ADDR_CONV(0) = 0
  BY IsWord DEF WORD_ADDR_CONV
<1>3. reg \in [Registers -> WordValues]
  BY <1>2, MachineAssumption
<1>4. psw \in Flags /\ mode \in Modes
  BY MachineAssumption DEF Flags, Modes
<1>5. queue \in [Dev -> {INT_OFF} \cup 0..7]
  OBVIOUS
<1>6. /\ mode.SLP = 0 /\ mode.PRIORITY = BasePriority /\ \A d \in Dev : queue[d] <= BasePriority
  BY MachineAssumption DEF INT_OFF
<1>. HIDE DEF reg, psw, mode, queue
<1>7. m \in Machines
  BY <1>1, <1>2, <1>3, <1>4, <1>5, MachineAssumption, Zenon DEF Machines
<1>8. m.MAR = 0 /\ m.mode = mode /\ m.queue = queue
  BY <1>1
<1>9. TypeOK
  <2>1. interrupted \in Seq(Machines)
    BY <1>1, EmptySeq
  <2>2. entered \in 0..MaxInterrupts
    BY <1>1, MachineAssumption
  <2>. QED BY <1>1, <1>2, <1>7, <1>8, <2>1, <2>2 DEF TypeOK
<1>10. Stacked(interrupted, m)
  <2>1. DOMAIN interrupted = {}
    BY <1>1
  <2>. QED BY <1>1, <1>6, <1>8, <2>1 DEF Stacked, Awake, Framed, Nested, Ranked, Queued
<1>. QED BY <1>9, <1>10 DEF IInv

\* Executing an instruction keeps the invariant.
LEMMA ExecuteKeeps == IInv /\ ProgramRules /\ execute_cycle => IInv'
<1>. SUFFICES ASSUME IInv, ProgramRules, execute_cycle PROVE IInv'
  OBVIOUS
<1>. DEFINE after == execute(m)
<1>1. /\ m \in Machines /\ interrupted \in Seq(Machines) /\ entered \in 0..MaxInterrupts
      /\ Stacked(interrupted, m) /\ stage = EXECUTE
  BY DEF IInv, TypeOK, execute_cycle
<1>2. /\ Named(m.IX) \subseteq Registers /\ WORD_ADDR_CONV(after.MAR) \in Cells
      /\ \A i \in DOMAIN interrupted : \A w \in FrameOf(interrupted[i]) : after.mem[w] = m.mem[w]
  BY <1>1 DEF ProgramRules, ExecuteRules
<1>. HIDE DEF after
<1>3. Runs(m, after)
  BY <1>1, <1>2, ExecuteRuns DEF after
<1>4. \A i \in DOMAIN interrupted : \A w \in FrameCells(interrupted[i]) : after.mem[w] = m.mem[w]
  <2>. SUFFICES ASSUME NEW i \in DOMAIN interrupted
                PROVE  FrameOf(interrupted[i]) = FrameCells(interrupted[i])
    BY <1>2
  <2>1. interrupted[i] \in Machines /\ interrupted[i].REG[SP] >= 3 * WORD_STEP
    BY <1>1, Sequences DEF Stacked, Framed
  <2>. QED BY <2>1, FrameCellsOf
<1>5. Stacked(interrupted, after)
  BY <1>1, <1>3, <1>4, RunKeeps DEF Runs
<1>6. m' = after /\ UNCHANGED <<interrupted, entered>> /\ stage' = DEVICES
  BY DEF execute_cycle, after
<1>. QED BY <1>1, <1>2, <1>3, <1>5, <1>6 DEF IInv, TypeOK, Runs

\* The step that a return takes, and where it leaves the machine.
LEMMA ReturnStep ==
  ASSUME IInv, FetchRules, stage = FETCH, Returns(m),
         NEW r, r = PullFrame(m), NEW after, after = FetchFrom(r)
  PROVE  /\ Waiting(m) = {} /\ interrupted # << >> /\ fetch(m) = after
         /\ after \in Machines /\ WORD_ADDR_CONV(after.MAR) \in Cells
         /\ Outer \in Seq(Machines) /\ Stacked(Outer, after)
         /\ after.IX = m.mem[WORD_ADDR_CONV(Last.REG[PC])]
         /\ after.REG = [m.REG EXCEPT ![PC] = Wrap(Last.REG[PC] + WORD_STEP),
                                      ![LR] = Last.REG[LR], ![SP] = Last.REG[SP]]
         /\ after.PSW = Last.PSW /\ after.mode = Last.mode
         /\ after.mem = m.mem /\ after.queue = m.queue
<1>1. m \in Machines /\ interrupted \in Seq(Machines) /\ Stacked(interrupted, m)
  BY DEF IInv, TypeOK
<1>2. /\ interrupted # << >> /\ m.REG[SP] = Bottom(Last)
      /\ WORD_ADDR_CONV(fetch(m).MAR) \in Cells
  BY DEF FetchRules, Fetches
<1>3. Waiting(m) = {}
  BY <1>1, <1>2, NobodyWaits
<1>4. fetch(m) = after
  BY <1>3, FetchParts DEF interrupt_return_process
<1>5. /\ Outer \in Seq(Machines) /\ r \in Machines /\ Stacked(Outer, r)
      /\ \A x \in {PC, LR, SP} : r.REG[x] = Last.REG[x]
      /\ \A x \in Registers \ {PC, LR, SP} : r.REG[x] = m.REG[x]
      /\ r.PSW = Last.PSW /\ r.mode = Last.mode
      /\ r.mem = m.mem /\ r.queue = m.queue
  <2>1. /\ Outer = SubSeq(interrupted, 1, Len(interrupted) - 1)
        /\ Last = interrupted[Len(interrupted)]
    BY DEF Outer, Last
  <2>2. m.REG[SP] = Bottom(interrupted[Len(interrupted)])
    BY <1>2, <2>1
  <2>3. Outer \in Seq(Machines) /\ r \in Machines /\ Stacked(Outer, r) /\ Resumed(Last, m, r)
    BY <1>1, <1>2, <2>1, <2>2, ReturnKeeps
  <2>. QED BY <2>3 DEF Resumed
<1>6. /\ after.MAR = r.REG[PC] /\ after.mem = r.mem /\ after.PSW = r.PSW
      /\ after.mode = r.mode /\ after.queue = r.queue
      /\ after.IX = r.mem[WORD_ADDR_CONV(r.REG[PC])]
      /\ after.REG[PC] = Wrap(r.REG[PC] + WORD_STEP)
      /\ \A x \in Registers \ {PC} : after.REG[x] = r.REG[x]
      /\ WORD_ADDR_CONV(r.REG[PC]) \in Cells => after \in Machines
  BY <1>5, FetchRuns
<1>7. after \in Machines /\ WORD_ADDR_CONV(after.MAR) \in Cells
  BY <1>2, <1>4, <1>6
<1>8. Stacked(Outer, after)
  BY <1>5, <1>6, RunKeeps
<1>9. after.REG = [m.REG EXCEPT ![PC] = Wrap(Last.REG[PC] + WORD_STEP),
                                ![LR] = Last.REG[LR], ![SP] = Last.REG[SP]]
  <2>. DEFINE v == Wrap(Last.REG[PC] + WORD_STEP)
              reg == [m.REG EXCEPT ![PC] = v, ![LR] = Last.REG[LR], ![SP] = Last.REG[SP]]
  <2>1. after.REG[PC] = v
    BY <1>5, <1>6
  <2>2. DOMAIN m.REG = Registers /\ after.REG = [x \in Registers |-> after.REG[x]]
    BY <1>1, <1>7 DEF Machines
  <2>. HIDE DEF v
  <2>3. /\ reg = [x \in Registers |-> reg[x]]
        /\ reg[PC] = v /\ reg[LR] = Last.REG[LR] /\ reg[SP] = Last.REG[SP]
        /\ \A x \in Registers \ {PC, LR, SP} : reg[x] = m.REG[x]
    BY <1>1, RegisterNumbers DEF Machines
  <2>. HIDE DEF reg
  <2>4. \A x \in Registers : after.REG[x] = reg[x]
    BY <1>5, <1>6, <2>1, <2>3
  <2>5. after.REG = reg
    BY <2>2, <2>3, <2>4
  <2>. QED BY <2>5 DEF reg, v
<1>. QED BY <1>2, <1>3, <1>4, <1>5, <1>6, <1>7, <1>8, <1>9

\* Fetching, with or without a return, keeps the invariant.
LEMMA FetchKeeps == IInv /\ ProgramRules /\ fetch_cycle => IInv'
<1>. SUFFICES ASSUME IInv, ProgramRules, fetch_cycle PROVE IInv'
  OBVIOUS
<1>1. /\ m \in Machines /\ interrupted \in Seq(Machines) /\ entered \in 0..MaxInterrupts
      /\ Stacked(interrupted, m) /\ stage = FETCH /\ FetchRules /\ entered' = entered
      /\ WORD_ADDR_CONV(m.MAR) \in Cells \cup {0}
  BY DEF IInv, TypeOK, fetch_cycle, ProgramRules
<1>2. CASE ~(m.mode.SLP = 0 /\ Fetches(m))
  BY <1>1, <1>2 DEF IInv, TypeOK, fetch_cycle
<1>3. CASE m.mode.SLP = 0 /\ Fetches(m) /\ Returns(m)
  <2>. DEFINE after == FetchFrom(PullFrame(m))
  <2>1. /\ Waiting(m) = {} /\ fetch(m) = after
        /\ after \in Machines /\ WORD_ADDR_CONV(after.MAR) \in Cells
        /\ Outer \in Seq(Machines) /\ Stacked(Outer, after)
    BY <1>1, <1>3, ReturnStep
  <2>. HIDE DEF after
  <2>2. m' = after /\ interrupted' = Outer /\ stage' = EXECUTE
    BY <1>3, <2>1 DEF fetch_cycle
  <2>. QED BY <1>1, <2>1, <2>2 DEF IInv, TypeOK
<1>4. CASE m.mode.SLP = 0 /\ Fetches(m) /\ ~Returns(m)
  <2>. DEFINE after == FetchFrom(m)
  <2>1. fetch(m) = after
    BY <1>4, FetchParts
  <2>2. WORD_ADDR_CONV(fetch(m).MAR) \in Cells
    BY <1>1, <1>4 DEF FetchRules
  <2>. HIDE DEF after
  <2>3. /\ after \in Machines /\ after.mem = m.mem /\ after.mode = m.mode /\ after.queue = m.queue
    BY <1>1, <2>1, <2>2, FetchRuns DEF after
  <2>4. Stacked(interrupted, after)
    BY <1>1, <2>3, RunKeeps
  <2>5. m' = after /\ interrupted' = interrupted /\ stage' = EXECUTE
    BY <1>4, <2>1 DEF fetch_cycle
  <2>. QED BY <1>1, <2>1, <2>2, <2>3, <2>4, <2>5 DEF IInv, TypeOK
<1>. QED BY <1>2, <1>3, <1>4

\* An interrupt, taken or queued, keeps the invariant.
LEMMA InterruptKeeps ==
  ASSUME IInv, ProgramRules, NEW d \in Dev, interrupt(d)
  PROVE  IInv'
<1>1. /\ m \in Machines /\ interrupted \in Seq(Machines) /\ entered \in 0..MaxInterrupts
      /\ Stacked(interrupted, m) /\ stage = DEVICES /\ StackReady
      /\ WORD_ADDR_CONV(m.MAR) \in Cells \cup {0} /\ UNCHANGED stage
  BY DEF IInv, TypeOK, interrupt
<1>2. CASE Preempts(m, d)
  <2>. DEFINE e == Enter(PushFrame(m), d)
              t == Append(interrupted, m)
  <2>1. /\ m.REG[SP] >= 3 * WORD_STEP /\ FrameOf(m) \subseteq StackCells
        /\ VectorPSW(d) \notin FrameOf(m)
        /\ interrupted # << >> => m.REG[SP] <= Bottom(interrupted[Len(interrupted)])
    BY <1>1 DEF ProgramRules, StackRules, Last
  <2>2. FrameOf(m) = FrameCells(m) /\ StackCells \subseteq Cells
    BY <1>1, <2>1, FrameCellsOf, MachineAssumption
  <2>3. /\ t \in Seq(Machines) /\ e \in Machines /\ WORD_ADDR_CONV(e.MAR) \in Cells
        /\ Stacked(t, e)
    BY <1>1, <1>2, <2>1, <2>2, EntryKeeps
  <2>4. m' = e /\ interrupted' = t /\ entered' = entered + 1 /\ entered < MaxInterrupts
    BY <1>2 DEF interrupt, interrupt_handling_process
  <2>5. entered' \in 0..MaxInterrupts
    BY <1>1, <2>4, MachineAssumption
  <2>. HIDE DEF e, t
  <2>. QED BY <1>1, <2>3, <2>4, <2>5 DEF IInv, TypeOK
<1>3. CASE ~Preempts(m, d)
  <2>. DEFINE p == VectorPriority(m, d)
              queue == [m.queue EXCEPT ![d] = p]
              after == [m EXCEPT !.queue = queue]
  <2>1. m' = after /\ UNCHANGED <<interrupted, entered>> /\ p <= Main.mode.PRIORITY
    BY <1>3 DEF interrupt, interrupt_handling_process
  <2>2. p \in 0..7
    <3>1. m.mem[VectorPSW(d)] \in WordValues
      BY <1>1, CellsAssumption DEF Machines
    <3>2. ModeOf(m.mem[VectorPSW(d)]) \in Modes
      BY <3>1, PSWTypes
    <3>. QED BY <3>2 DEF VectorPriority, Modes
  <2>. HIDE DEF p
  <2>3. /\ queue \in [Dev -> {INT_OFF} \cup 0..7]
        /\ \A x \in Dev : queue[x] = IF x = d THEN p ELSE m.queue[x]
    BY <1>1, <2>2 DEF Machines
  <2>. HIDE DEF queue
  <2>4. /\ after \in Machines /\ after.mode = m.mode /\ after.mem = m.mem /\ after.MAR = m.MAR
        /\ after.queue = queue
    BY <1>1, <2>3 DEF Machines
  <2>. HIDE DEF after
  <2>5. Queued(interrupted, after)
    BY <1>1, <2>1, <2>3, <2>4 DEF Stacked, Queued, Main
  <2>6. Stacked(interrupted, after)
    BY <1>1, <2>4, <2>5 DEF Stacked, Awake, Framed, Ranked
  <2>. QED BY <1>1, <2>1, <2>4, <2>6 DEF IInv, TypeOK
<1>. QED BY <1>2, <1>3

\* Every step of the machine keeps the invariant.
LEMMA NextKeeps == IInv /\ ProgramRules /\ [Next]_vars => IInv'
<1>. SUFFICES ASSUME IInv, ProgramRules, [Next]_vars PROVE IInv'
  OBVIOUS
<1>1. CASE fetch_cycle
  BY <1>1, FetchKeeps
<1>2. CASE execute_cycle
  BY <1>2, ExecuteKeeps
<1>3. ASSUME NEW d \in Dev, interrupt(d) PROVE IInv'
  BY <1>3, InterruptKeeps
<1>4. CASE devices_done
  BY <1>4 DEF devices_done, IInv, TypeOK
<1>5. CASE UNCHANGED vars
  BY <1>5 DEF vars, IInv, TypeOK
<1>. QED BY <1>1, <1>2, <1>3, <1>4, <1>5 DEF Next

\* The invariant holds as long as the program keeps the rules.
THEOREM IInvHolds == Spec /\ []ProgramRules => []IInv
  BY InitHolds, NextKeeps, PTL DEF Spec

\* A program that keeps the rules keeps every register and flag in its width, and every
\* address it forms inside its memory, whatever interrupts it and when.
THEOREM TypeCorrect == Spec /\ []ProgramRules => []TypeOK
<1>1. IInv => TypeOK
  BY DEF IInv
<1>. QED BY <1>1, IInvHolds, PTL

\* However interrupts nest, the three words that interrupt_handling_process pushes
\* (Device_Handling.cpp:224-229) are on the stack when interrupt_return_process pulls them.
THEOREM FramesStayIntact == Spec /\ []ProgramRules => []FramesIntact
<1>1. IInv /\ ProgramRules => FramesIntact
  <2>. SUFFICES ASSUME IInv, ProgramRules, NEW i \in DOMAIN interrupted
                PROVE  LET old == interrupted[i]
                       IN  /\ Kept(m.mem, old)
                           /\ (i = Len(interrupted) /\ stage = FETCH /\ Returns(m))
                                => m.REG[SP] = Wrap(old.REG[SP] - 3 * WORD_STEP)
    BY DEF FramesIntact, Kept, Slot
  <2>1. interrupted \in Seq(Machines) /\ Stacked(interrupted, m)
    BY DEF IInv, TypeOK
  <2>2. /\ interrupted[i] \in Machines /\ interrupted[i].REG[SP] >= 3 * WORD_STEP
        /\ Kept(m.mem, interrupted[i])
    BY <2>1, Sequences DEF Stacked, Framed
  <2>3. Bottom(interrupted[i]) = Wrap(interrupted[i].REG[SP] - 3 * WORD_STEP)
    BY <2>2, FrameCellsOf DEF WORD_STEP
  <2>4. stage = FETCH /\ Returns(m) => m.REG[SP] = Bottom(Last)
    BY DEF ProgramRules, FetchRules, Fetches
  <2>. QED BY <2>2, <2>3, <2>4 DEF Last
<1>. QED BY <1>1, IInvHolds, PTL

\* Every return of interrupt_return_process (Device_Handling.cpp:251-273) resumes the code
\* its interrupt left at its next instruction, with PSW, LR and SP as they were, as long as
\* no interrupt is queued above the main program's priority: such are no part of Machine.
THEOREM ReturnsResume == Spec /\ []ProgramRules => ReturnResumes
<1>. DEFINE Resume ==
       stage = FETCH /\ Returns(m) =>
         LET old == Last
         IN  /\ m'.IX = m.mem[WORD_ADDR_CONV(old.REG[PC])]
             /\ m'.REG = [m.REG EXCEPT ![PC] = Wrap(old.REG[PC] + WORD_STEP),
                                       ![LR] = old.REG[LR], ![SP] = old.REG[SP]]
             /\ m'.PSW = old.PSW /\ m'.mode = old.mode
             /\ m'.mem = m.mem /\ m'.queue = m.queue
             /\ interrupted' = Outer
<1>1. IInv /\ ProgramRules /\ [Next]_vars => [Resume]_vars
  <2>. SUFFICES ASSUME IInv, ProgramRules, Next, stage = FETCH, Returns(m) PROVE Resume
    BY Zenon
  <2>1. fetch_cycle
    BY DEF Next, execute_cycle, interrupt, devices_done, FETCH, EXECUTE, DEVICES
  <2>. DEFINE after == FetchFrom(PullFrame(m))
  <2>2. /\ Waiting(m) = {} /\ fetch(m) = after
        /\ after.IX = m.mem[WORD_ADDR_CONV(Last.REG[PC])]
        /\ after.REG = [m.REG EXCEPT ![PC] = Wrap(Last.REG[PC] + WORD_STEP),
                                     ![LR] = Last.REG[LR], ![SP] = Last.REG[SP]]
        /\ after.PSW = Last.PSW /\ after.mode = Last.mode
        /\ after.mem = m.mem /\ after.queue = m.queue
    BY ReturnStep DEF ProgramRules
  <2>3. m.mode.SLP = 0 /\ Fetches(m)
    BY DEF IInv, Stacked, Awake, Fetches
  <2>. HIDE DEF after
  <2>4. m' = after /\ interrupted' = Outer
    BY <2>1, <2>2, <2>3 DEF fetch_cycle
  <2>. QED BY <2>2, <2>4
<1>. HIDE DEF Resume
<1>2. Spec /\ []ProgramRules => [][Resume]_vars
  BY <1>1, IInvHolds, PTL DEF Spec
<1>. QED BY <1>2 DEF Resume, ReturnResumes

-----------------------------------------------------------------------------
(***************************************************************************)
(* The operators of PlainProgram.                                          *)
(***************************************************************************)

\* PlainProgram extends Instructions, and so has the machine's operators under names of its
\* own.  They are the same operators.
LEMMA PlainNumbers ==
  /\ Undisturbed!WORD = WORD /\ Undisturbed!BYTE = BYTE /\ Undisturbed!WORD_STEP = WORD_STEP
  /\ Undisturbed!LR = LR /\ Undisturbed!SP = SP /\ Undisturbed!PC = PC
  /\ Undisturbed!Registers = Registers /\ Undisturbed!INT_OFF = INT_OFF
  /\ Undisturbed!Actions = Actions /\ Undisturbed!INVALID_INST = INVALID_INST
  /\ \A x, y, z : /\ Undisturbed!Wrap(x) = Wrap(x)
                  /\ Undisturbed!Field(x, y, z) = Field(x, y, z)
                  /\ Undisturbed!Extended(x, y) = Extended(x, y)
                  /\ Undisturbed!WORD_ADDR_CONV(x) = WORD_ADDR_CONV(x)
                  /\ Undisturbed!Moved(x, y, z) = Moved(x, y, z)
                  /\ Undisturbed!Address(x, y, z) = Address(x, y, z)
BY DEF Undisturbed!WORD, WORD, Undisturbed!BYTE, BYTE, Undisturbed!WORD_STEP, WORD_STEP,
       Undisturbed!LR, LR, Undisturbed!SP, SP, Undisturbed!PC, PC,
       Undisturbed!Registers, Registers, Undisturbed!INT_OFF, INT_OFF,
       Undisturbed!Actions, Actions, Undisturbed!INVALID_INST, INVALID_INST,
       Undisturbed!Wrap, Wrap, Undisturbed!Field, Field, Undisturbed!Extended, Extended,
       Undisturbed!WORD_ADDR_CONV, WORD_ADDR_CONV, Undisturbed!Moved, Moved,
       Undisturbed!Address, Address,
       Undisturbed!NO_ACTION, NO_ACTION, Undisturbed!POST_INCREMENT, POST_INCREMENT,
       Undisturbed!POST_DECREMENT, POST_DECREMENT, Undisturbed!PRE_INCREMENT, PRE_INCREMENT,
       Undisturbed!PRE_DECREMENT, PRE_DECREMENT

\* Memory and the stack.
LEMMA PlainMemory ==
  \A n, x, y, z, v :
    /\ Undisturbed!BusRead(n, x, y) = BusRead(n, x, y)
    /\ Undisturbed!BusWrite(n, x, y, v) = BusWrite(n, x, y, v)
    /\ Undisturbed!Forget(n, x) = Forget(n, x)
    /\ Undisturbed!LoadFrom(n, x, y, z) = LoadFrom(n, x, y, z)
    /\ Undisturbed!BL(n, x) = BL(n, x)
<1>. TAKE n, x, y, z, v
<1>1. \A a, size : Undisturbed!BusRead(n, a, size) = BusRead(n, a, size)
  BY PlainNumbers DEF Undisturbed!BusRead, BusRead
<1>2. Undisturbed!BusWrite(n, x, y, v) = BusWrite(n, x, y, v)
  BY ZenonT(60), PlainNumbers DEF Undisturbed!BusWrite, BusWrite
<1>3. Undisturbed!Forget(n, x) = Forget(n, x)
  BY PlainNumbers DEF Undisturbed!Forget, Forget
<1>4. Undisturbed!LoadFrom(n, x, y, z) = LoadFrom(n, x, y, z)
  BY <1>1, PlainNumbers DEF Undisturbed!LoadFrom, LoadFrom
<1>5. Undisturbed!BL(n, x) = BL(n, x)
  BY PlainNumbers DEF Undisturbed!BL, BL
<1>. QED BY <1>1, <1>2, <1>3, <1>4, <1>5

\* The memory access instructions.
LEMMA PlainAccess ==
  \A n, x, y, z, v :
    /\ Undisturbed!LD(n, x, y, z, v) = LD(n, x, y, z, v)
    /\ Undisturbed!ST(n, x, y, z, v) = ST(n, x, y, z, v)
    /\ Undisturbed!LDR(n, x, y, z, v) = LDR(n, x, y, z, v)
    /\ Undisturbed!STR(n, x, y, z, v) = STR(n, x, y, z, v)
BY PlainNumbers, PlainMemory
   DEF Undisturbed!LD, LD, Undisturbed!ST, ST, Undisturbed!LDR, LDR, Undisturbed!STR, STR

\* Decoding.
LEMMA PlainDecoding ==
  \A x : Undisturbed!decode(x) = decode(x) /\ Undisturbed!Instruction(x) = Instruction(x)
<1>1. \A x : Undisturbed!decode(x) = decode(x)
  BY PlainNumbers DEF Undisturbed!decode, decode,
       Undisturbed!REG_INIT_INST_CODE_START, REG_INIT_INST_CODE_START
<1>2. \A t, x : /\ Undisturbed!Index(t, x) = Index(t, x)
                /\ Undisturbed!Refused(t, x) = Refused(t, x)
  BY PlainNumbers DEF Undisturbed!Index, Index, Undisturbed!Refused, Refused,
       Undisturbed!REG_INIT_INST_CODE_START, REG_INIT_INST_CODE_START,
       Undisturbed!TWO_OP_INST_CODE_LIMIT, TWO_OP_INST_CODE_LIMIT,
       Undisturbed!SINGLE_REG_INST_CODE_LIMIT, SINGLE_REG_INST_CODE_LIMIT
<1>3. \A t : Undisturbed!Table(t) = Table(t)
  BY DEF Undisturbed!Table, Table,
       Undisturbed!two_operand_execution, two_operand_execution,
       Undisturbed!single_register_execution, single_register_execution,
       Undisturbed!register_initialization_execution, register_initialization_execution,
       Undisturbed!direct_memory_access_execution, direct_memory_access_execution,
       Undisturbed!relative_memory_access_execution, relative_memory_access_execution,
       Undisturbed!conditional_branching_execution, conditional_branching_execution
<1>. QED BY <1>1, <1>2, <1>3, PlainNumbers DEF Undisturbed!Instruction, Instruction

\* The parts of words that Alu works on.
LEMMA PlainParts ==
  /\ Undisturbed!A!WORD = A!WORD /\ Undisturbed!A!BYTE = A!BYTE
  /\ Undisturbed!A!REGISTER = A!REGISTER /\ Undisturbed!A!Const_table = A!Const_table
  /\ \A x, y, z : /\ Undisturbed!A!MSBi(x) = A!MSBi(x) /\ Undisturbed!A!Bits(x) = A!Bits(x)
                  /\ Undisturbed!A!LSB(x) = A!LSB(x) /\ Undisturbed!A!MSB(x) = A!MSB(x)
                  /\ Undisturbed!A!Join(x, y) = A!Join(x, y) /\ Undisturbed!A!Not(x) = A!Not(x)
                  /\ Undisturbed!A!BIT_CHECK(x, y) = A!BIT_CHECK(x, y)
                  /\ Undisturbed!A!Replace(x, y, z) = A!Replace(x, y, z)
                  /\ Undisturbed!A!Flag(x) = A!Flag(x)
BY DEF Undisturbed!A!WORD, A!WORD, Undisturbed!A!BYTE, A!BYTE, Undisturbed!A!REGISTER, A!REGISTER,
       Undisturbed!A!Const_table, A!Const_table, Undisturbed!A!MSBi, A!MSBi, Undisturbed!A!Bits, A!Bits,
       Undisturbed!A!LSB, A!LSB, Undisturbed!A!MSB, A!MSB, Undisturbed!A!Join, A!Join,
       Undisturbed!A!Not, A!Not, Undisturbed!A!BIT_CHECK, A!BIT_CHECK,
       Undisturbed!A!Replace, A!Replace, Undisturbed!A!Flag, A!Flag

\* Sums, flags, decimal digits and the conditions of branches.
LEMMA PlainResults ==
  \A x, y, c, size :
    /\ Undisturbed!A!update_PSW(x, y, c, size) = A!update_PSW(x, y, c, size)
    /\ Undisturbed!A!Sum(x, y, c, size) = A!Sum(x, y, c, size)
    /\ Undisturbed!A!ShiftRight(x, y, size) = A!ShiftRight(x, y, size)
    /\ Undisturbed!A!Digit(x, y) = A!Digit(x, y) /\ Undisturbed!A!bcd_add(x, y, c) = A!bcd_add(x, y, c)
    /\ Undisturbed!A!Digits(x, y, c, size) = A!Digits(x, y, c, size)
    /\ Undisturbed!A!Branches(x, y) = A!Branches(x, y)
BY PlainParts
   DEF Undisturbed!A!update_PSW, A!update_PSW, Undisturbed!A!carry, A!carry,
       Undisturbed!A!overflow, A!overflow, Undisturbed!A!Sum, A!Sum,
       Undisturbed!A!ShiftRight, A!ShiftRight, Undisturbed!A!Digit, A!Digit,
       Undisturbed!A!bcd_add, A!bcd_add, Undisturbed!A!Digits, A!Digits,
       Undisturbed!A!Branches, A!Branches

\* The bitwise operations.
LEMMA PlainBitwise ==
  \A x, y :
    /\ Undisturbed!A!Bitwise(Undisturbed!A!XorBits, x, y) = A!Bitwise(A!XorBits, x, y)
    /\ Undisturbed!A!Bitwise(Undisturbed!A!AndBits, x, y) = A!Bitwise(A!AndBits, x, y)
    /\ Undisturbed!A!Bitwise(Undisturbed!A!OrBits, x, y) = A!Bitwise(A!OrBits, x, y)
BY DEF Undisturbed!A!Bitwise, A!Bitwise, Undisturbed!A!BitwiseByte, A!BitwiseByte,
       Undisturbed!A!Join, A!Join, Undisturbed!A!MSB, A!MSB, Undisturbed!A!LSB, A!LSB,
       Undisturbed!A!BIT_CHECK, A!BIT_CHECK, Undisturbed!A!Bytes, A!Bytes,
       Undisturbed!A!MSBi, A!MSBi, Undisturbed!A!Bits, A!Bits, Undisturbed!A!BYTE, A!BYTE,
       Undisturbed!A!WORD, A!WORD, Undisturbed!A!XorBits, A!XorBits,
       Undisturbed!A!AndBits, A!AndBits, Undisturbed!A!OrBits, A!OrBits

\* The writing of a result.
LEMMA PlainWrite ==
  ASSUME NEW n, NEW dst, NEW res, NEW P
  PROVE  /\ Undisturbed!A!Write(n, dst, res, P) = A!Write(n, dst, res, P)
         /\ Undisturbed!A!StoreBits(n, dst, res, P) = A!StoreBits(n, dst, res, P)
BY PlainParts DEF Undisturbed!A!Write, A!Write, Undisturbed!A!StoreBits, A!StoreBits

\* The instructions of one register.
LEMMA PlainRegisters ==
  ASSUME NEW n, NEW inst \in SingleRegisters, NEW size, NEW dst
  PROVE  Undisturbed!A!single_register_execution(n, inst, size, dst)
           = A!single_register_execution(n, inst, size, dst)
<1>. DEFINE x == n.REG[dst]
<1>1. ASSUME NEW res PROVE Undisturbed!A!Shifted(n, dst, res, size) = A!Shifted(n, dst, res, size)
  BY PlainWrite, PlainResults DEF Undisturbed!A!Shifted, A!Shifted
<1>2. CASE inst = "SRA"
  BY <1>1, <1>2, PlainParts, PlainResults
     DEF Undisturbed!A!single_register_execution, A!single_register_execution,
         Undisturbed!A!SRA, A!SRA
<1>3. CASE inst = "RRC"
  BY <1>1, <1>3, PlainResults
     DEF Undisturbed!A!single_register_execution, A!single_register_execution,
         Undisturbed!A!RRC, A!RRC
<1>4. CASE inst = "SWPB"
  BY <1>4, PlainParts
     DEF Undisturbed!A!single_register_execution, A!single_register_execution,
         Undisturbed!A!SWPB, A!SWPB
<1>5. CASE inst = "SXT"
  BY <1>5, PlainParts, PlainResults, PlainWrite
     DEF Undisturbed!A!single_register_execution, A!single_register_execution,
         Undisturbed!A!SXT, A!SXT
<1>. QED BY <1>2, <1>3, <1>4, <1>5 DEF SingleRegisters

\* The loading of a byte into a register.
LEMMA PlainInitialization ==
  \A n, dst, v : /\ Undisturbed!A!MOVL(n, dst, v) = A!MOVL(n, dst, v)
                 /\ Undisturbed!A!MOVLZ(n, dst, v) = A!MOVLZ(n, dst, v)
                 /\ Undisturbed!A!MOVH(n, dst, v) = A!MOVH(n, dst, v)
BY PlainParts
   DEF Undisturbed!A!MOVL, A!MOVL, Undisturbed!A!MOVLZ, A!MOVLZ, Undisturbed!A!MOVH, A!MOVH

\* The instructions of two operands.
LEMMA PlainPairs ==
  ASSUME NEW n, NEW inst \in RegisterPairs, NEW rc, NEW size, NEW source, NEW dst
  PROVE  Undisturbed!A!two_operand_execution(n, inst, rc, size, source, dst)
           = A!two_operand_execution(n, inst, rc, size, source, dst)
<1>. DEFINE s == A!Operand(n, rc, source)
            x == n.REG[dst]
<1>1. Undisturbed!A!Operand(n, rc, source) = s
  BY PlainParts DEF Undisturbed!A!Operand, A!Operand
<1>. HIDE DEF s
<1>2. ASSUME NEW y, NEW b
      PROVE  Undisturbed!A!arrithmetic(n, y, dst, b, size) = A!arrithmetic(n, y, dst, b, size)
  BY PlainResults, PlainWrite DEF Undisturbed!A!arrithmetic, A!arrithmetic
<1>3. CASE inst \in {"ADD", "ADDC", "SUB", "SUBC", "CMP"}
  BY <1>1, <1>2, <1>3, PlainParts
     DEF Undisturbed!A!two_operand_execution, A!two_operand_execution,
         Undisturbed!A!ADD, A!ADD, Undisturbed!A!ADDC, A!ADDC, Undisturbed!A!SUB, A!SUB,
         Undisturbed!A!SUBC, A!SUBC, Undisturbed!A!CMP, A!CMP, s
<1>4. CASE inst = "DADD"
  <2>. DEFINE n0 == A!bcd_add(A!Digit(s, 0), A!Digit(x, 0), n.PSW.C)
              n1 == A!bcd_add(A!Digit(s, 1), A!Digit(x, 1), n0.carry)
              n2 == A!bcd_add(A!Digit(s, 2), A!Digit(x, 2), n1.carry)
              n3 == A!bcd_add(A!Digit(s, 3), A!Digit(x, 3), n2.carry)
  <2>1. /\ n0 = Undisturbed!A!bcd_add(Undisturbed!A!Digit(s, 0), Undisturbed!A!Digit(x, 0), n.PSW.C)
        /\ n1 = Undisturbed!A!bcd_add(Undisturbed!A!Digit(s, 1), Undisturbed!A!Digit(x, 1), n0.carry)
        /\ n2 = Undisturbed!A!bcd_add(Undisturbed!A!Digit(s, 2), Undisturbed!A!Digit(x, 2), n1.carry)
        /\ n3 = Undisturbed!A!bcd_add(Undisturbed!A!Digit(s, 3), Undisturbed!A!Digit(x, 3), n2.carry)
    BY PlainResults
  <2>2. Undisturbed!A!DADD(n, s, dst, size) = A!DADD(n, s, dst, size)
    <3>1. A!DADD(n, s, dst, size)
            = A!Write(n, dst, A!Replace(x, A!Digits(n0.res, n1.res, n2.res, n3.res), size),
                      [n.PSW EXCEPT !.C = IF size = A!WORD THEN n3.carry ELSE n1.carry])
      BY DEF A!DADD
    <3>. HIDE DEF n0, n1, n2, n3
    <3>2. Undisturbed!A!DADD(n, s, dst, size)
            = Undisturbed!A!Write(n, dst,
                Undisturbed!A!Replace(x, Undisturbed!A!Digits(n0.res, n1.res, n2.res, n3.res), size),
                [n.PSW EXCEPT !.C = IF size = Undisturbed!A!WORD THEN n3.carry ELSE n1.carry])
      BY <2>1 DEF Undisturbed!A!DADD
    <3>. QED BY <3>1, <3>2, PlainParts, PlainResults, PlainWrite
  <2>. QED BY <1>1, <1>4, <2>2
       DEF Undisturbed!A!two_operand_execution, A!two_operand_execution, s
<1>5. CASE inst = "XOR"
  <2>. DEFINE y == A!Bitwise(A!XorBits, x, s)
  <2>1. Undisturbed!A!Bitwise(Undisturbed!A!XorBits, x, s) = y
    BY PlainBitwise
  <2>2. Undisturbed!A!XOR(n, s, dst, size) = A!XOR(n, s, dst, size)
    BY <2>1, PlainParts, PlainResults, PlainWrite DEF Undisturbed!A!XOR, A!XOR
  <2>. QED BY <1>1, <1>5, <2>2
       DEF Undisturbed!A!two_operand_execution, A!two_operand_execution, s
<1>6. CASE inst = "AND"
  <2>1. Undisturbed!A!Bitwise(Undisturbed!A!AndBits, x, s) = A!Bitwise(A!AndBits, x, s)
    BY PlainBitwise
  <2>2. Undisturbed!A!AND(n, s, dst, size) = A!AND(n, s, dst, size)
    BY <2>1, PlainParts, PlainResults, PlainWrite DEF Undisturbed!A!AND, A!AND
  <2>. QED BY <1>1, <1>6, <2>2
       DEF Undisturbed!A!two_operand_execution, A!two_operand_execution, s
<1>7. CASE inst = "BIT"
  <2>1. Undisturbed!A!Bitwise(Undisturbed!A!AndBits, x, s) = A!Bitwise(A!AndBits, x, s)
    BY PlainBitwise
  <2>2. Undisturbed!A!BIT(n, s, dst, size) = A!BIT(n, s, dst, size)
    BY <2>1, PlainParts, PlainResults DEF Undisturbed!A!BIT, A!BIT
  <2>. QED BY <1>1, <1>7, <2>2
       DEF Undisturbed!A!two_operand_execution, A!two_operand_execution, s
<1>8. CASE inst = "BIC"
  <2>1. Undisturbed!A!Bitwise(Undisturbed!A!AndBits, x, A!Not(s)) = A!Bitwise(A!AndBits, x, A!Not(s))
    BY PlainBitwise
  <2>2. Undisturbed!A!BIC(n, s, dst, size) = A!BIC(n, s, dst, size)
    BY <2>1, PlainParts, PlainWrite DEF Undisturbed!A!BIC, A!BIC
  <2>. QED BY <1>1, <1>8, <2>2
       DEF Undisturbed!A!two_operand_execution, A!two_operand_execution, s
<1>9. CASE inst = "BIS"
  <2>1. Undisturbed!A!Bitwise(Undisturbed!A!OrBits, x, s) = A!Bitwise(A!OrBits, x, s)
    BY PlainBitwise
  <2>2. Undisturbed!A!BIS(n, s, dst, size) = A!BIS(n, s, dst, size)
    BY <2>1, PlainParts, PlainWrite DEF Undisturbed!A!BIS, A!BIS
  <2>. QED BY <1>1, <1>9, <2>2
       DEF Undisturbed!A!two_operand_execution, A!two_operand_execution, s
<1>10. CASE inst \in {"MOV", "SWAP"}
  <2>1. /\ Undisturbed!A!MOV(n, s, dst, size) = A!MOV(n, s, dst, size)
        /\ Undisturbed!A!SWAP(n, source, dst) = A!SWAP(n, source, dst)
    BY PlainParts DEF Undisturbed!A!MOV, A!MOV, Undisturbed!A!SWAP, A!SWAP
  <2>. QED BY <1>1, <1>10, <2>1
       DEF Undisturbed!A!two_operand_execution, A!two_operand_execution, s
<1>. QED BY <1>3, <1>4, <1>5, <1>6, <1>7, <1>8, <1>9, <1>10 DEF RegisterPairs

\* An instruction of the program by itself is the instruction of the machine.
LEMMA PlainExecute ==
  ASSUME NEW n, n.IX \in Nat
  PROVE  Undisturbed!execute(n) = execute(n)
<1>. DEFINE IX     == n.IX
            inst   == Instruction(IX)
            type   == decode(IX)
            dst    == Field(IX, 0, 3)
            source == Field(IX, 3, 3)
            size   == Field(IX, 6, 1)
<1>1. Undisturbed!Instruction(IX) = inst /\ Undisturbed!decode(IX) = type
  BY PlainDecoding
<1>2. /\ Undisturbed!INVALID_INST = INVALID_INST
      /\ \A x, y, z : Undisturbed!Field(x, y, z) = Field(x, y, z)
      /\ \A x, y : Undisturbed!Extended(x, y) = Extended(x, y)
      /\ \A x : Undisturbed!Wrap(x) = Wrap(x)
      /\ Undisturbed!PC = PC
  BY PlainNumbers
<1>3. CASE inst = INVALID_INST
  <2>1. Undisturbed!execute(n) = n
    BY <1>1, <1>2, <1>3 DEF Undisturbed!execute
  <2>. QED BY <2>1, <1>3 DEF execute
<1>4. CASE type = "branch_with_link" /\ inst = "BL"
  <2>. DEFINE label == 2 * Extended(Field(IX, 0, 13), 13)
  <2>1. execute(n) = BL(n, label)
    BY <1>4 DEF execute, INVALID_INST
  <2>2. Undisturbed!execute(n) = Undisturbed!BL(n, label)
    BY <1>1, <1>2, <1>4 DEF Undisturbed!execute, INVALID_INST
  <2>. QED BY <2>1, <2>2, PlainMemory
<1>5. CASE type = "conditional_branch" /\ inst \in Branching
  <2>1. execute(n) = IF A!Branches(inst, n.PSW)
                     THEN [n EXCEPT !.REG[PC] = Wrap(@ + 2 * Extended(Field(IX, 0, 10), 10))] ELSE n
    BY <1>5 DEF execute, INVALID_INST, Branching
  <2>2. Undisturbed!execute(n)
          = IF Undisturbed!A!Branches(inst, n.PSW)
            THEN [n EXCEPT !.REG[PC] = Wrap(@ + 2 * Extended(Field(IX, 0, 10), 10))] ELSE n
    BY <1>1, <1>2, <1>5 DEF Undisturbed!execute, INVALID_INST, Branching
  <2>. QED BY <2>1, <2>2, PlainResults
<1>6. CASE type = "two_operand" /\ inst \in RegisterPairs
  <2>1. execute(n) = A!two_operand_execution(n, inst, Field(IX, 7, 1), size, source, dst)
    BY <1>6 DEF execute, INVALID_INST, RegisterPairs
  <2>2. Undisturbed!execute(n)
          = Undisturbed!A!two_operand_execution(n, inst, Field(IX, 7, 1), size, source, dst)
    BY <1>1, <1>2, <1>6 DEF Undisturbed!execute, INVALID_INST, RegisterPairs
  <2>. HIDE DEF inst, type, dst, source, size
  <2>. QED BY <1>6, <2>1, <2>2, PlainPairs
<1>7. CASE type = "single_register" /\ inst \in SingleRegisters
  <2>1. execute(n) = A!single_register_execution(n, inst, size, dst)
    BY <1>7 DEF execute, INVALID_INST, SingleRegisters
  <2>2. Undisturbed!execute(n) = Undisturbed!A!single_register_execution(n, inst, size, dst)
    BY <1>1, <1>2, <1>7 DEF Undisturbed!execute, INVALID_INST, SingleRegisters
  <2>. HIDE DEF inst, type, dst, source, size
  <2>. QED BY <1>7, <2>1, <2>2, PlainRegisters
<1>8. CASE type = "register_initialization" /\ inst \in {"MOVL", "MOVLZ", "MOVH"}
  <2>. DEFINE v == Field(IX, 3, 8)
  <2>1. \/ inst = "MOVL" /\ execute(n) = A!MOVL(n, dst, v)
        \/ inst = "MOVLZ" /\ execute(n) = A!MOVLZ(n, dst, v)
        \/ inst = "MOVH" /\ execute(n) = A!MOVH(n, dst, v)
    BY <1>8 DEF execute, INVALID_INST
  <2>2. /\ inst = "MOVL" => Undisturbed!execute(n) = Undisturbed!A!MOVL(n, dst, v)
        /\ inst = "MOVLZ" => Undisturbed!execute(n) = Undisturbed!A!MOVLZ(n, dst, v)
        /\ inst = "MOVH" => Undisturbed!execute(n) = Undisturbed!A!MOVH(n, dst, v)
    BY <1>1, <1>2, <1>8 DEF Undisturbed!execute, INVALID_INST
  <2>. HIDE DEF inst, type, dst, v
  <2>. QED BY <2>1, <2>2, PlainInitialization
<1>9. CASE type = "direct_memory_access" /\ inst \in {"LD", "ST"}
  <2>. DEFINE action == Field(IX, 8, 3)
  <2>1. \/ inst = "LD" /\ execute(n) = LD(n, action, size, source, dst)
        \/ inst = "ST" /\ execute(n) = ST(n, action, size, source, dst)
    BY <1>9 DEF execute, INVALID_INST
  <2>2. /\ inst = "LD" => Undisturbed!execute(n) = Undisturbed!LD(n, action, size, source, dst)
        /\ inst = "ST" => Undisturbed!execute(n) = Undisturbed!ST(n, action, size, source, dst)
    BY <1>1, <1>2, <1>9 DEF Undisturbed!execute, INVALID_INST
  <2>. HIDE DEF inst, type, dst, source, size, action
  <2>. QED BY <2>1, <2>2, PlainAccess
<1>10. CASE type = "relative_memory_access" /\ inst \in {"LDR", "STR"}
  <2>. DEFINE offset == Extended(Field(IX, 7, 6), 6)
  <2>1. \/ inst = "LDR" /\ execute(n) = LDR(n, offset, size, source, dst)
        \/ inst = "STR" /\ execute(n) = STR(n, offset, size, source, dst)
    BY <1>10 DEF execute, INVALID_INST
  <2>2. /\ inst = "LDR" => Undisturbed!execute(n) = Undisturbed!LDR(n, offset, size, source, dst)
        /\ inst = "STR" => Undisturbed!execute(n) = Undisturbed!STR(n, offset, size, source, dst)
    BY <1>1, <1>2, <1>10 DEF Undisturbed!execute, INVALID_INST
  <2>. HIDE DEF inst, type, dst, source, size, offset
  <2>. QED BY <2>1, <2>2, PlainAccess
<1>. QED
  BY <1>3, <1>4, <1>5, <1>6, <1>7, <1>8, <1>9, <1>10, InstructionSets

-----------------------------------------------------------------------------
(***************************************************************************)
(* The memory that a program sees.                                         *)
(***************************************************************************)

\* The bytes of the cell w that a program with the stack pointer sp can rely on, and two
\* memories that agree on all of these.
LowLives(w, sp)  == ~(w \in StackCells /\ 2 * w < sp)
HighLives(w, sp) == ~(w \in StackCells /\ 2 * w + 1 < sp)

SameMemory(f, g, sp) ==
  \A w \in Cells : /\ LowLives(w, sp) => f[w] % 256 = g[w] % 256
                   /\ HighLives(w, sp) => f[w] \div 256 = g[w] \div 256

Remembered(f, sp) ==
  [w \in Cells |->
     IF w \notin StackCells \/ 2 * w >= sp THEN f[w]
     ELSE IF 2 * w + 1 = sp THEN 256 * (f[w] \div 256) ELSE 0]

\* Memory is numbered.
LEMMA CellNumbers == \A w \in Cells : w \in Nat
  BY CellsAssumption

\* What is remembered: of each cell the bytes that live, and zeros.
LEMMA RememberedBytes ==
  ASSUME NEW f \in [Cells -> WordValues], NEW sp \in Nat, NEW w \in Cells
  PROVE  /\ Remembered(f, sp)[w] \in WordValues
         /\ Remembered(f, sp)[w] % 256 = IF LowLives(w, sp) THEN f[w] % 256 ELSE 0
         /\ Remembered(f, sp)[w] \div 256 = IF HighLives(w, sp) THEN f[w] \div 256 ELSE 0
<1>. DEFINE x == f[w]
            y == Remembered(f, sp)[w]
<1>1. x \in WordValues /\ x \in Nat /\ x < 65536 /\ w \in Nat
  BY WordRange, CellNumbers
<1>2. y = IF w \notin StackCells \/ 2 * w >= sp THEN x
          ELSE IF 2 * w + 1 = sp THEN 256 * (x \div 256) ELSE 0
  BY DEF Remembered
<1>. HIDE DEF x, y
<1>3. CASE w \notin StackCells \/ 2 * w >= sp
  <2>1. y = x /\ LowLives(w, sp) /\ HighLives(w, sp)
    BY <1>1, <1>2, <1>3 DEF LowLives, HighLives
  <2>. QED BY <1>1, <2>1 DEF x, y
<1>4. CASE w \in StackCells /\ ~(2 * w >= sp) /\ 2 * w + 1 = sp
  <2>1. y = 256 * (x \div 256) /\ ~LowLives(w, sp) /\ HighLives(w, sp)
    BY <1>1, <1>2, <1>4 DEF LowLives, HighLives
  <2>2. /\ 256 * (x \div 256) \in Nat /\ 256 * (x \div 256) < 65536
        /\ (256 * (x \div 256)) % 256 = 0 /\ (256 * (x \div 256)) \div 256 = x \div 256
    BY ONLY <1>1
  <2>. QED BY <2>1, <2>2, IsWord DEF x, y
<1>5. CASE w \in StackCells /\ ~(2 * w >= sp) /\ 2 * w + 1 # sp
  <2>1. y = 0 /\ ~LowLives(w, sp) /\ ~HighLives(w, sp)
    BY <1>1, <1>2, <1>5 DEF LowLives, HighLives
  <2>2. 0 % 256 = 0 /\ 0 \div 256 = 0 /\ 0 \in WordValues
    BY IsWord
  <2>. QED BY <2>1, <2>2 DEF x, y
<1>. QED BY <1>3, <1>4, <1>5

\* Two memories have the same remembered part exactly if their living bytes are the same.
LEMMA RememberedSame ==
  ASSUME NEW f \in [Cells -> WordValues], NEW g \in [Cells -> WordValues], NEW sp \in Nat
  PROVE  /\ Remembered(f, sp) \in [Cells -> WordValues]
         /\ Remembered(f, sp) = Remembered(g, sp) <=> SameMemory(f, g, sp)
         /\ SameMemory(f, Remembered(f, sp), sp)
<1>. DEFINE y == Remembered(f, sp)
            z == Remembered(g, sp)
<1>1. y \in [Cells -> WordValues] /\ z \in [Cells -> WordValues]
  <2>1. \A w \in Cells : y[w] \in WordValues /\ z[w] \in WordValues
    BY RememberedBytes
  <2>2. y = [w \in Cells |-> y[w]] /\ z = [w \in Cells |-> z[w]]
    BY DEF Remembered
  <2>. HIDE DEF y, z
  <2>. QED BY <2>1, <2>2
<1>2. \A w \in Cells :
        /\ y[w] % 256 = IF LowLives(w, sp) THEN f[w] % 256 ELSE 0
        /\ y[w] \div 256 = IF HighLives(w, sp) THEN f[w] \div 256 ELSE 0
        /\ z[w] % 256 = IF LowLives(w, sp) THEN g[w] % 256 ELSE 0
        /\ z[w] \div 256 = IF HighLives(w, sp) THEN g[w] \div 256 ELSE 0
  BY RememberedBytes
<1>. HIDE DEF y, z
<1>3. ASSUME y = z PROVE SameMemory(f, g, sp)
  <2>. SUFFICES ASSUME NEW w \in Cells
                PROVE  /\ LowLives(w, sp) => f[w] % 256 = g[w] % 256
                       /\ HighLives(w, sp) => f[w] \div 256 = g[w] \div 256
    BY Zenon DEF SameMemory
  <2>1. y[w] = z[w]
    BY <1>3
  <2>2. CASE LowLives(w, sp) /\ HighLives(w, sp)
    BY <1>2, <2>1, <2>2
  <2>3. CASE LowLives(w, sp) /\ ~HighLives(w, sp)
    BY <1>2, <2>1, <2>3
  <2>4. CASE ~LowLives(w, sp)
    BY <1>2, <2>1, <2>4
  <2>. QED BY <2>2, <2>3, <2>4
<1>4. ASSUME SameMemory(f, g, sp) PROVE y = z
  <2>1. ASSUME NEW w \in Cells PROVE y[w] = z[w]
    <3>. DEFINE a == y[w]
                b == z[w]
    <3>1. a \in Nat /\ b \in Nat
      BY <1>1, WordRange
    <3>2. a % 256 = b % 256 /\ a \div 256 = b \div 256
      BY <1>2, <1>4 DEF SameMemory
    <3>. HIDE DEF a, b
    <3>3. a = b
      BY ONLY <3>1, <3>2
    <3>. QED BY <3>3 DEF a, b
  <2>. QED BY <1>1, <2>1
<1>5. SameMemory(f, y, sp)
  <2>. SUFFICES ASSUME NEW w \in Cells
                PROVE  /\ LowLives(w, sp) => f[w] % 256 = y[w] % 256
                       /\ HighLives(w, sp) => f[w] \div 256 = y[w] \div 256
    BY Zenon DEF SameMemory
  <2>. QED BY <1>2
<1>. QED BY <1>1, <1>3, <1>4, <1>5 DEF y, z

\* Having the same living bytes is an equivalence.
LEMMA SameOnward ==
  \A f, g, h, sp : /\ SameMemory(f, f, sp)
                   /\ SameMemory(f, g, sp) => SameMemory(g, f, sp)
                   /\ SameMemory(f, g, sp) /\ SameMemory(g, h, sp) => SameMemory(f, h, sp)
  BY DEF SameMemory

\* A machine as its program sees it.
LEMMA VisibleFields ==
  ASSUME NEW n \in Machines
  PROVE  /\ Visible(n) \in Machines
         /\ Visible(n).REG = n.REG /\ Visible(n).PSW = n.PSW /\ Visible(n).mode = n.mode
         /\ Visible(n).MAR = n.MAR /\ Visible(n).IX = n.IX /\ Visible(n).high = 0
         /\ Visible(n).mem = Remembered(n.mem, n.REG[SP])
         /\ Visible(n).queue = [d \in Dev |-> INT_OFF]
         /\ Forget(n, StackCells) = [n EXCEPT !.high = 0, !.mem = Remembered(n.mem, n.REG[SP])]
<1>. DEFINE mem == Remembered(n.mem, n.REG[SP])
            queue == [d \in Dev |-> INT_OFF]
            z == 0
<1>1. n.REG[SP] \in Nat /\ n.mem \in [Cells -> WordValues]
  BY RegisterNumbers, WordRange DEF Machines
<1>2. mem \in [Cells -> WordValues] /\ queue \in [Dev -> {INT_OFF} \cup 0..7] /\ z \in 0..255
  BY <1>1, RememberedSame
<1>3. Forget(n, StackCells) = [n EXCEPT !.high = z, !.mem = mem]
  BY DEF Forget, Remembered
<1>4. Visible(n) = [[n EXCEPT !.high = z, !.mem = mem] EXCEPT !.queue = queue]
  BY <1>3 DEF Visible
<1>. HIDE DEF mem, queue, z
<1>5. /\ Visible(n) \in Machines
      /\ Visible(n).REG = n.REG /\ Visible(n).PSW = n.PSW /\ Visible(n).mode = n.mode
      /\ Visible(n).MAR = n.MAR /\ Visible(n).IX = n.IX /\ Visible(n).high = z
      /\ Visible(n).mem = mem /\ Visible(n).queue = queue
  <2>1. Visible(n) = [REG |-> n.REG, PSW |-> n.PSW, mode |-> n.mode, high |-> z, MAR |-> n.MAR,
                      IX |-> n.IX, mem |-> mem, queue |-> queue]
    BY <1>4 DEF Machines
  <2>2. Visible(n) \in Machines
    BY <1>2, <2>1 DEF Machines
  <2>. QED BY <2>1, <2>2
<1>. QED BY <1>3, <1>5 DEF z, mem, queue

\* The program sees of a machine what it sees of another that agrees with it.
LEMMA SameVisible ==
  ASSUME NEW n \in Machines, NEW q \in Machines,
         n.REG = q.REG, n.PSW = q.PSW, n.mode = q.mode, n.MAR = q.MAR, n.IX = q.IX,
         SameMemory(n.mem, q.mem, n.REG[SP]), q.queue = [d \in Dev |-> INT_OFF]
  PROVE  Visible(n) = Forget(q, StackCells)
<1>. DEFINE f == Remembered(n.mem, n.REG[SP])
            g == Remembered(q.mem, q.REG[SP])
            queue == [d \in Dev |-> INT_OFF]
            z == 0
<1>1. f = g
  <2>1. n.REG[SP] \in Nat /\ n.mem \in [Cells -> WordValues] /\ q.mem \in [Cells -> WordValues]
    BY RegisterNumbers, WordRange DEF Machines
  <2>. QED BY <2>1, RememberedSame
<1>2. /\ Forget(n, StackCells) = [n EXCEPT !.high = z, !.mem = f]
      /\ Forget(q, StackCells) = [q EXCEPT !.high = z, !.mem = g]
  BY VisibleFields
<1>. HIDE DEF f, g, z, queue
<1>3. Visible(n) = [n EXCEPT !.high = z, !.mem = f, !.queue = queue]
  BY <1>2 DEF Visible, queue
<1>4. q.queue = queue
  BY DEF queue
<1>5. Visible(n) = [REG |-> n.REG, PSW |-> n.PSW, mode |-> n.mode, high |-> z, MAR |-> n.MAR,
                    IX |-> n.IX, mem |-> f, queue |-> queue]
  BY <1>3 DEF Machines
<1>6. Forget(q, StackCells) = [REG |-> q.REG, PSW |-> q.PSW, mode |-> q.mode, high |-> z,
                               MAR |-> q.MAR, IX |-> q.IX, mem |-> g, queue |-> q.queue]
  BY <1>2 DEF Machines
<1>. QED BY <1>1, <1>4, <1>5, <1>6

\* A fetch by which the main program goes on: of its own, from the machine old, or at the
\* end of a routine that has interrupted old.
LEMMA FetchMaps ==
  ASSUME NEW old \in Machines, NEW n \in Machines,
         n.REG = [old.REG EXCEPT ![PC] = Wrap(old.REG[PC] + WORD_STEP)],
         n.PSW = old.PSW, n.mode = old.mode, n.MAR = old.REG[PC],
         n.IX = n.mem[WORD_ADDR_CONV(old.REG[PC])],
         SameMemory(n.mem, old.mem, old.REG[SP]),
         old.REG[PC] % 2 = 0, ~Dead(n, n.MAR), WORD_ADDR_CONV(old.REG[PC]) \in Cells,
         NEW p, p = Visible(old)
  PROVE  Visible(n) = Forget([p EXCEPT !.MAR = p.REG[PC], !.IX = BusRead(p, p.REG[PC], WORD),
                                       !.REG[PC] = Wrap(@ + WORD_STEP)], StackCells)
<1>. DEFINE a == old.REG[PC]
            w == WORD_ADDR_CONV(a)
            sp == old.REG[SP]
            word == BusRead(p, a, WORD)
            reg == [old.REG EXCEPT ![PC] = Wrap(a + WORD_STEP)]
            q == [p EXCEPT !.MAR = a, !.IX = word, !.REG = reg]
<1>1. /\ p \in Machines /\ p.REG = old.REG /\ p.PSW = old.PSW /\ p.mode = old.mode
      /\ p.mem = Remembered(old.mem, sp) /\ p.queue = [d \in Dev |-> INT_OFF]
  BY VisibleFields
<1>2. [p EXCEPT !.MAR = p.REG[PC], !.IX = BusRead(p, p.REG[PC], WORD),
                !.REG[PC] = Wrap(@ + WORD_STEP)] = q
  BY <1>1
<1>3. /\ a \in WordValues /\ a \in Nat /\ sp \in Nat /\ n.REG[SP] = sp
      /\ n.mem \in [Cells -> WordValues] /\ old.mem \in [Cells -> WordValues]
      /\ reg \in [Registers -> WordValues]
  <2>1. a \in WordValues /\ sp \in WordValues
    BY RegisterNumbers DEF Machines
  <2>2. n.REG[SP] = sp
    BY RegisterNumbers DEF Machines
  <2>3. n.REG \in [Registers -> WordValues]
    BY DEF Machines
  <2>. QED BY <2>1, <2>2, <2>3, WordRange DEF Machines
<1>4. LowLives(w, sp) /\ HighLives(w, sp)
  <2>1. ~(w \in StackCells /\ a < sp)
    BY <1>3 DEF Dead
  <2>2. a = 2 * w
    BY <1>3 DEF WORD_ADDR_CONV
  <2>3. w \in Nat
    BY <1>3 DEF WORD_ADDR_CONV
  <2>. HIDE DEF a, w, sp
  <2>. QED BY <1>3, <2>1, <2>2, <2>3 DEF LowLives, HighLives
<1>. HIDE DEF word, reg, q
<1>5. SameMemory(n.mem, p.mem, sp)
  BY <1>1, <1>3, RememberedSame, SameOnward
<1>6. word = n.IX
  <2>. DEFINE x == n.mem[w]
              y == p.mem[w]
  <2>1. x % 256 = y % 256 /\ x \div 256 = y \div 256
    BY <1>4, <1>5 DEF SameMemory
  <2>2. x \in Nat /\ y \in Nat
    BY <1>1, <1>3, WordRange DEF Machines
  <2>3. word = y /\ n.IX = x
    BY DEF word, BusRead
  <2>. HIDE DEF x, y
  <2>4. x = y
    BY ONLY <2>1, <2>2
  <2>. QED BY <2>3, <2>4
<1>7. word \in WordValues
  BY <1>6 DEF Machines
<1>. HIDE DEF a, w
<1>8. /\ q \in Machines /\ q.REG = reg /\ q.PSW = p.PSW /\ q.mode = p.mode /\ q.MAR = a
      /\ q.IX = word /\ q.mem = p.mem /\ q.queue = p.queue
  <2>. HIDE DEF reg, word
  <2>1. q = [REG |-> reg, PSW |-> p.PSW, mode |-> p.mode, high |-> p.high, MAR |-> a,
             IX |-> word, mem |-> p.mem, queue |-> p.queue]
    <3>1. p \in Machines /\ q = [p EXCEPT !.MAR = a, !.IX = word, !.REG = reg]
      BY <1>1 DEF q
    <3>. HIDE DEF q
    <3>. QED BY ONLY <3>1 DEF Machines
  <2>. HIDE DEF q
  <2>2. q \in Machines
    BY <1>1, <1>3, <1>7, <2>1 DEF Machines
  <2>. QED BY <2>1, <2>2
<1>9. n.REG = q.REG /\ n.PSW = q.PSW /\ n.mode = q.mode /\ n.MAR = q.MAR /\ n.IX = q.IX
  BY <1>1, <1>6, <1>8 DEF reg, a
<1>10. SameMemory(n.mem, q.mem, n.REG[SP]) /\ q.queue = [d \in Dev |-> INT_OFF]
  BY <1>1, <1>3, <1>5, <1>8
<1>11. Visible(n) = Forget(q, StackCells)
  BY <1>8, <1>9, <1>10, SameVisible
<1>. QED BY <1>2, <1>11

-----------------------------------------------------------------------------
(***************************************************************************)
(* An instruction on two machines that differ in memory and hidden state.  *)
(***************************************************************************)

Alike(n, q) == n.REG = q.REG /\ n.PSW = q.PSW /\ n.MAR = q.MAR /\ n.IX = q.IX

\* Memory after a write.
Written(f, a, size, v) ==
  [f EXCEPT ![WORD_ADDR_CONV(a)] =
     IF size = WORD THEN v
     ELSE IF a % 2 = 0 THEN 256 * (@ \div 256) + (v % 256)
     ELSE 256 * (v % 256) + (@ % 256)]

\* The machines after an instruction without a store are alike, and memory is as before.
Together(n, q, after, other) == Alike(after, other) /\ after.mem = n.mem /\ other.mem = q.mem

\* Alike machines stay alike when both get the same registers.
LEMMA RegistersAlike ==
  ASSUME NEW n \in Machines, NEW q \in Machines, Alike(n, q), NEW reg
  PROVE  Together(n, q, [n EXCEPT !.REG = reg], [q EXCEPT !.REG = reg])
BY DEF Machines, Alike, Together

\* Alike machines stay alike when both get registers and flags from Alu that are the same.
LEMMA PutAlike ==
  ASSUME NEW n \in Machines, NEW q \in Machines, Alike(n, q),
         NEW c, NEW d, c.REG = d.REG, c.PSW = d.PSW
  PROVE  Together(n, q, Put(n, c), Put(q, d))
<1>. DEFINE reg == c.REG
            psw == c.PSW
            x == c.high
            y == d.high
<1>1. Put(n, c) = [n EXCEPT !.REG = reg, !.PSW = psw, !.high = x]
      /\ Put(q, d) = [q EXCEPT !.REG = reg, !.PSW = psw, !.high = y]
  BY DEF Put
<1>. HIDE DEF reg, psw, x, y
<1>. QED BY <1>1 DEF Machines, Alike, Together

\* Alike machines stay alike when both load the same value.
LEMMA LoadAlike ==
  ASSUME NEW n \in Machines, NEW q \in Machines, Alike(n, q), NEW a, NEW size \in 0..1, NEW dst,
         BusRead(n, a, size) = BusRead(q, a, size)
  PROVE  Together(n, q, LoadFrom(n, a, size, dst), LoadFrom(q, a, size, dst))
<1>. DEFINE y == n.REG[dst]
            v == IF size = WORD THEN BusRead(n, a, size) ELSE 256 * (y \div 256) + BusRead(n, a, size)
            reg == [n.REG EXCEPT ![dst] = v]
<1>1. size = WORD \/ size = BYTE
  BY DEF WORD, BYTE
<1>2. n.REG = q.REG
  BY DEF Alike
<1>3. /\ LoadFrom(n, a, size, dst) = [n EXCEPT !.MAR = a, !.REG = reg]
      /\ LoadFrom(q, a, size, dst) = [q EXCEPT !.MAR = a, !.REG = reg]
  BY ZenonT(30), <1>1, <1>2 DEF LoadFrom
<1>. HIDE DEF reg
<1>4. /\ [n EXCEPT !.MAR = a, !.REG = reg].REG = reg
      /\ [n EXCEPT !.MAR = a, !.REG = reg].PSW = n.PSW
      /\ [n EXCEPT !.MAR = a, !.REG = reg].MAR = a
      /\ [n EXCEPT !.MAR = a, !.REG = reg].IX = n.IX
      /\ [n EXCEPT !.MAR = a, !.REG = reg].mem = n.mem
  BY DEF Machines
<1>5. /\ [q EXCEPT !.MAR = a, !.REG = reg].REG = reg
      /\ [q EXCEPT !.MAR = a, !.REG = reg].PSW = q.PSW
      /\ [q EXCEPT !.MAR = a, !.REG = reg].MAR = a
      /\ [q EXCEPT !.MAR = a, !.REG = reg].IX = q.IX
      /\ [q EXCEPT !.MAR = a, !.REG = reg].mem = q.mem
  BY DEF Machines
<1>. QED BY <1>3, <1>4, <1>5 DEF Alike, Together

\* Alike machines stay alike when both store the same value, each in its memory.
LEMMA StoreAlike ==
  ASSUME NEW n \in Machines, NEW q \in Machines, Alike(n, q), NEW a, NEW size, NEW v
  PROVE  /\ Alike(BusWrite(n, a, size, v), BusWrite(q, a, size, v))
         /\ BusWrite(n, a, size, v).MAR = a
         /\ BusWrite(n, a, size, v).mem = Written(n.mem, a, size, v)
         /\ BusWrite(q, a, size, v).mem = Written(q.mem, a, size, v)
<1>. DEFINE f == Written(n.mem, a, size, v)
            g == Written(q.mem, a, size, v)
<1>1. /\ BusWrite(n, a, size, v) = [n EXCEPT !.MAR = a, !.mem = f]
      /\ BusWrite(q, a, size, v) = [q EXCEPT !.MAR = a, !.mem = g]
  BY DEF BusWrite, Written
<1>. HIDE DEF f, g
<1>2. /\ BusWrite(n, a, size, v).mem = f /\ BusWrite(q, a, size, v).mem = g
      /\ BusWrite(n, a, size, v).MAR = a /\ BusWrite(q, a, size, v).MAR = a
  BY <1>1 DEF Machines
<1>3. /\ BusWrite(n, a, size, v).REG = n.REG /\ BusWrite(n, a, size, v).PSW = n.PSW
      /\ BusWrite(n, a, size, v).IX = n.IX
      /\ BusWrite(q, a, size, v).REG = q.REG /\ BusWrite(q, a, size, v).PSW = q.PSW
      /\ BusWrite(q, a, size, v).IX = q.IX
  BY <1>1 DEF Machines
<1>. QED BY <1>2, <1>3 DEF Alike, f, g

\* Register instructions: what AluProofs shows of the high byte of temp_reg_A.
LEMMA TwoOperandAlike ==
  ASSUME NEW n \in Machines, NEW q \in Machines, Alike(n, q), NEW inst \in RegisterPairs,
         NEW rc \in 0..1, NEW size \in 0..1, NEW source \in 0..7, NEW dst \in Registers,
         rc = A!REGISTER => source \in Registers, inst = "XOR" => size = WORD
  PROVE  Together(n, q, A!two_operand_execution(n, inst, rc, size, source, dst),
                        A!two_operand_execution(q, inst, rc, size, source, dst))
<1>. DEFINE c == Cut(n)
            d == Cut(q)
            h == q.high
<1>1. c \in AP!CPU /\ h \in AP!Bytes
  BY CutType, SameRanges DEF Machines
<1>2. d = [c EXCEPT !.high = h]
  BY DEF Cut, Alike
<1>3. size \in AP!Sizes /\ rc \in {AP!REGISTER, AP!CONSTANT_} /\ A!REGISTER = AP!REGISTER
      /\ WORD = AP!WORD
  BY SameSizes DEF AP!Sizes, AP!WORD, AP!BYTE, AP!REGISTER, AP!CONSTANT_
<1>4. source \in IF rc = AP!REGISTER THEN Registers ELSE 0..7
  BY <1>3
<1>5. inst \in {"ADD", "ADDC", "SUB", "SUBC", "DADD", "CMP", "XOR", "AND", "BIT", "BIC", "BIS",
                "MOV", "SWAP"}
  BY DEF RegisterPairs
<1>. HIDE DEF c, d, h
<1>6. /\ AP!two_operand_execution(d, inst, rc, size, source, dst).REG
           = AP!two_operand_execution(c, inst, rc, size, source, dst).REG
      /\ AP!two_operand_execution(d, inst, rc, size, source, dst).PSW
           = AP!two_operand_execution(c, inst, rc, size, source, dst).PSW
  BY <1>1, <1>2, <1>3, <1>4, <1>5, EightBits, AP!HighByteUnread
<1>7. /\ A!two_operand_execution(n, inst, rc, size, source, dst)
           = Put(n, AP!two_operand_execution(c, inst, rc, size, source, dst))
      /\ A!two_operand_execution(q, inst, rc, size, source, dst)
           = Put(q, AP!two_operand_execution(d, inst, rc, size, source, dst))
  BY TwoOperandPut DEF c, d
<1>. QED BY <1>6, <1>7, PutAlike

\* The same for the instructions of one register.
LEMMA SingleRegisterAlike ==
  ASSUME NEW n \in Machines, NEW q \in Machines, Alike(n, q), NEW inst \in SingleRegisters,
         NEW size, NEW dst
  PROVE  Together(n, q, A!single_register_execution(n, inst, size, dst),
                        A!single_register_execution(q, inst, size, dst))
<1>. DEFINE c == Cut(n)
            d == Cut(q)
            h == q.high
<1>1. c \in AP!CPU
  BY CutType
<1>2. d = [c EXCEPT !.high = h]
  BY DEF Cut, Alike
<1>3. inst \in {"SRA", "RRC", "SWPB", "SXT"}
  BY DEF SingleRegisters
<1>. HIDE DEF c, d, h
<1>4. /\ AP!single_register_execution(d, inst, size, dst).REG
           = AP!single_register_execution(c, inst, size, dst).REG
      /\ AP!single_register_execution(d, inst, size, dst).PSW
           = AP!single_register_execution(c, inst, size, dst).PSW
  BY <1>1, <1>2, <1>3, EightBits, AP!HighByteUnreadAlone
<1>5. /\ A!single_register_execution(n, inst, size, dst)
           = Put(n, AP!single_register_execution(c, inst, size, dst))
      /\ A!single_register_execution(q, inst, size, dst)
           = Put(q, AP!single_register_execution(d, inst, size, dst))
  BY SingleRegisterPut DEF c, d
<1>. QED BY <1>4, <1>5, PutAlike

\* The loading of a byte does not read temp_reg_A.
LEMMA InitializationAlike ==
  ASSUME NEW n \in Machines, NEW q \in Machines, Alike(n, q), NEW dst, NEW value
  PROVE  /\ Together(n, q, A!MOVL(n, dst, value), A!MOVL(q, dst, value))
         /\ Together(n, q, A!MOVLZ(n, dst, value), A!MOVLZ(q, dst, value))
         /\ Together(n, q, A!MOVH(n, dst, value), A!MOVH(q, dst, value))
<1>1. n.REG = q.REG
  BY DEF Alike
<1>2. ASSUME NEW v
      PROVE  Together(n, q, [n EXCEPT !.REG[dst] = v], [q EXCEPT !.REG[dst] = v])
  <2>. DEFINE reg == [n.REG EXCEPT ![dst] = v]
  <2>1. [n EXCEPT !.REG[dst] = v] = [n EXCEPT !.REG = reg]
        /\ [q EXCEPT !.REG[dst] = v] = [q EXCEPT !.REG = reg]
    BY <1>1
  <2>. HIDE DEF reg
  <2>. QED BY <2>1, RegistersAlike
<1>. QED BY <1>1, <1>2 DEF A!MOVL, A!MOVLZ, A!MOVH

\* A store: the same in both memories.
Stored(n, q, after, other) ==
  /\ Alike(after, other) /\ Instruction(n.IX) \in {"ST", "STR"}
  /\ \E v \in WordValues : /\ after.mem = Written(n.mem, after.MAR, Field(n.IX, 6, 1), v)
                           /\ other.mem = Written(q.mem, after.MAR, Field(n.IX, 6, 1), v)

\* The machines go on alike if what they load is alike and XOR does not show the hidden byte.
LEMMA ExecuteAlike ==
  ASSUME NEW n \in Machines, NEW q \in Machines, Alike(n, q), Named(n.IX) \subseteq Registers,
         Instruction(n.IX) = "XOR" => Field(n.IX, 6, 1) = WORD,
         Instruction(n.IX) \in {"LD", "LDR"} =>
           BusRead(n, execute(n).MAR, Field(n.IX, 6, 1)) = BusRead(q, execute(n).MAR, Field(n.IX, 6, 1))
  PROVE  \/ /\ Together(n, q, execute(n), execute(q))
            /\ Instruction(n.IX) \in {"ST", "STR"} => execute(n) = n
         \/ Stored(n, q, execute(n), execute(q))
<1>. DEFINE IX     == n.IX
            inst   == Instruction(IX)
            type   == decode(IX)
            dst    == Field(IX, 0, 3)
            source == Field(IX, 3, 3)
            size   == Field(IX, 6, 1)
<1>1. IX \in Nat
  BY WordRange DEF Machines
<1>x. q.IX = IX /\ q.REG = n.REG /\ q.PSW = n.PSW
  BY DEF Alike
<1>z. Instruction(n.IX) = inst
  OBVIOUS
<1>. HIDE DEF IX
<1>2. /\ dst \in 0..7 /\ source \in 0..7 /\ size \in 0..1
      /\ Field(IX, 7, 1) \in 0..1 /\ Field(IX, 3, 8) \in 0..255 /\ Field(IX, 8, 3) \in 0..7
  BY <1>1, Operands
<1>3. Together(n, q, n, q)
  BY DEF Together
<1>4. ASSUME NEW x
      PROVE  Together(n, q, [n EXCEPT !.REG[PC] = Wrap(@ + x)],
                            [q EXCEPT !.REG[PC] = Wrap(@ + x)])
  <2>. DEFINE reg == [n.REG EXCEPT ![PC] = Wrap(n.REG[PC] + x)]
  <2>1. /\ [n EXCEPT !.REG[PC] = Wrap(@ + x)] = [n EXCEPT !.REG = reg]
        /\ [q EXCEPT !.REG[PC] = Wrap(@ + x)] = [q EXCEPT !.REG = reg]
    BY <1>x
  <2>. HIDE DEF reg
  <2>. QED BY <2>1, RegistersAlike
<1>5. CASE inst = INVALID_INST
  <2>1. execute(n) = n /\ execute(q) = q
    BY <1>5, <1>x DEF execute, IX
  <2>. QED BY <1>3, <2>1
<1>. DEFINE plain == type \in {"branch_with_link", "conditional_branch"}
            single == type \in {"single_register", "register_initialization"}
            constant == type = "two_operand" /\ Field(IX, 7, 1) = A!CONSTANT_ /\ inst # "SWAP"
<1>6. ASSUME inst # INVALID_INST
      PROVE  /\ ~plain => dst \in Registers
             /\ ~plain /\ ~single /\ ~constant => source \in Registers
  BY <1>6 DEF Named, IX
<1>7. CASE type = "branch_with_link" /\ inst = "BL"
  <2>. DEFINE label == 2 * Extended(Field(IX, 0, 13), 13)
              reg == [n.REG EXCEPT ![LR] = n.REG[PC], ![PC] = Wrap(n.REG[PC] + label)]
  <2>1. execute(n) = BL(n, label) /\ execute(q) = BL(q, label)
    BY <1>7, <1>x DEF execute, IX, INVALID_INST
  <2>2. BL(n, label) = [n EXCEPT !.REG = reg] /\ BL(q, label) = [q EXCEPT !.REG = reg]
    BY <1>x DEF BL
  <2>3. inst \notin {"ST", "STR"}
    BY <1>7
  <2>. HIDE DEF reg, label
  <2>. QED BY <1>z, <2>1, <2>2, <2>3, RegistersAlike
<1>8. CASE type = "conditional_branch" /\ inst \in Branching
  <2>. DEFINE label == 2 * Extended(Field(IX, 0, 10), 10)
  <2>1. \/ execute(n) = n /\ execute(q) = q
        \/ /\ execute(n) = [n EXCEPT !.REG[PC] = Wrap(@ + label)]
           /\ execute(q) = [q EXCEPT !.REG[PC] = Wrap(@ + label)]
    BY <1>8, <1>x DEF execute, IX, INVALID_INST, Branching
  <2>2. inst \notin {"ST", "STR"}
    BY <1>8 DEF Branching
  <2>. HIDE DEF label
  <2>. QED BY <1>3, <1>4, <1>z, <2>1, <2>2
<1>9. CASE type = "two_operand" /\ inst \in RegisterPairs
  <2>1. /\ execute(n) = A!two_operand_execution(n, inst, Field(IX, 7, 1), size, source, dst)
        /\ execute(q) = A!two_operand_execution(q, inst, Field(IX, 7, 1), size, source, dst)
    BY <1>9, <1>x DEF execute, IX, INVALID_INST, RegisterPairs
  <2>2. inst # INVALID_INST
    BY <1>9 DEF RegisterPairs, INVALID_INST
  <2>3. dst \in Registers /\ (Field(IX, 7, 1) = A!REGISTER => source \in Registers)
    <3>1. A!REGISTER # A!CONSTANT_
      BY DEF A!REGISTER, A!CONSTANT_
    <3>. QED BY <1>6, <1>9, <2>2, <3>1
  <2>4. inst = "XOR" => size = WORD
    BY DEF IX
  <2>5. inst \notin {"ST", "STR"}
    BY <1>9 DEF RegisterPairs
  <2>. HIDE DEF inst, type, dst, source, size
  <2>. QED BY <1>2, <1>9, <1>z, <2>1, <2>3, <2>4, <2>5, TwoOperandAlike
<1>10. CASE type = "single_register" /\ inst \in SingleRegisters
  <2>1. /\ execute(n) = A!single_register_execution(n, inst, size, dst)
        /\ execute(q) = A!single_register_execution(q, inst, size, dst)
    BY <1>10, <1>x DEF execute, IX, INVALID_INST, SingleRegisters
  <2>2. inst \notin {"ST", "STR"}
    BY <1>10 DEF SingleRegisters
  <2>. HIDE DEF inst, type, dst, source, size
  <2>. QED BY <1>10, <1>z, <2>1, <2>2, SingleRegisterAlike
<1>11. CASE type = "register_initialization" /\ inst \in {"MOVL", "MOVLZ", "MOVH"}
  <2>. DEFINE value == Field(IX, 3, 8)
  <2>1. \/ execute(n) = A!MOVL(n, dst, value) /\ execute(q) = A!MOVL(q, dst, value)
        \/ execute(n) = A!MOVLZ(n, dst, value) /\ execute(q) = A!MOVLZ(q, dst, value)
        \/ execute(n) = A!MOVH(n, dst, value) /\ execute(q) = A!MOVH(q, dst, value)
    BY <1>11, <1>x DEF execute, IX, INVALID_INST
  <2>2. inst \notin {"ST", "STR"}
    BY <1>11
  <2>. HIDE DEF inst, type, dst, source, size, value
  <2>. QED BY <1>z, <2>1, <2>2, InitializationAlike
<1>12. CASE type = "direct_memory_access" /\ inst \in {"LD", "ST"}
  <2>. DEFINE action == Field(IX, 8, 3)
  <2>1. dst \in Registers /\ source \in Registers
    BY <1>6, <1>12 DEF INVALID_INST
  <2>2. CASE inst = "LD" /\ action \in Actions
    <3>. DEFINE reg == [n.REG EXCEPT ![source] = Moved(n.REG[source], action, size)]
                k == [n EXCEPT !.REG = reg]
                l == [q EXCEPT !.REG = reg]
                a == Address(n.REG[source], action, size)
    <3>1. execute(n) = LoadFrom(k, a, size, dst) /\ execute(q) = LoadFrom(l, a, size, dst)
      BY <1>12, <1>x, <2>2 DEF execute, IX, INVALID_INST, LD
    <3>2. BusRead(n, execute(n).MAR, size) = BusRead(q, execute(n).MAR, size)
      BY <2>2 DEF IX
    <3>i. inst \notin {"ST", "STR"}
      BY <2>2
    <3>. HIDE DEF inst, type, dst, source, size, action, a
    <3>3. /\ k \in Machines /\ l \in Machines /\ k.mem = n.mem /\ l.mem = q.mem /\ Alike(k, l)
      <4>1. Runs(n, k)
        BY <1>2, <2>1, MovedRuns DEF action
      <4>2. Runs(q, l)
        <5>1. l = [q EXCEPT !.REG[source] = Moved(@, action, size)]
          BY <1>x
        <5>. QED BY <1>2, <2>1, <5>1, MovedRuns DEF action
      <4>. HIDE DEF reg
      <4>3. Together(n, q, k, l)
        BY RegistersAlike
      <4>. QED BY <4>1, <4>2, <4>3 DEF Runs, Together
    <3>4. execute(n).MAR = a
      <4>1. a \in WordValues
        BY <1>2, <2>1, MovedRuns DEF a, action
      <4>. HIDE DEF k, l
      <4>. QED BY <1>2, <2>1, <3>1, <3>3, <4>1, LoadRuns
    <3>5. BusRead(k, a, size) = BusRead(l, a, size)
      <4>. HIDE DEF k, l
      <4>. QED BY <3>2, <3>3, <3>4 DEF BusRead
    <3>. HIDE DEF k, l
    <3>6. Together(k, l, execute(n), execute(q))
      BY <1>2, <3>1, <3>3, <3>5, LoadAlike
    <3>. QED BY <1>z, <3>i, <3>3, <3>6 DEF Together
  <2>3. CASE inst = "ST" /\ action \in Actions
    <3>. DEFINE reg == [n.REG EXCEPT ![dst] = Moved(n.REG[dst], action, size)]
                k == [n EXCEPT !.REG = reg]
                l == [q EXCEPT !.REG = reg]
                a == Address(n.REG[dst], action, size)
                v == reg[source]
    <3>1. /\ execute(n) = BusWrite(k, a, size, k.REG[source])
          /\ execute(q) = BusWrite(l, a, size, l.REG[source])
      BY <1>12, <1>x, <2>3 DEF execute, IX, INVALID_INST, ST
    <3>2. inst = "ST" /\ inst = Instruction(n.IX) /\ size = Field(n.IX, 6, 1)
      BY <2>3 DEF IX
    <3>. HIDE DEF inst, type, dst, source, size, action, a
    <3>3. /\ k \in Machines /\ l \in Machines /\ k.mem = n.mem /\ l.mem = q.mem /\ Alike(k, l)
      <4>1. Runs(n, k)
        BY <1>2, <2>1, MovedRuns DEF action
      <4>2. Runs(q, l)
        <5>1. l = [q EXCEPT !.REG[dst] = Moved(@, action, size)]
          BY <1>x
        <5>. QED BY <1>2, <2>1, <5>1, MovedRuns DEF action
      <4>. HIDE DEF reg
      <4>3. Together(n, q, k, l)
        BY RegistersAlike
      <4>. QED BY <4>1, <4>2, <4>3 DEF Runs, Together
    <3>. HIDE DEF reg
    <3>4. k.REG = reg /\ l.REG = reg
      BY DEF Machines
    <3>. HIDE DEF k, l
    <3>5. v \in WordValues
      BY <2>1, <3>3, <3>4 DEF Machines
    <3>6. execute(n) = BusWrite(k, a, size, v) /\ execute(q) = BusWrite(l, a, size, v)
      BY <3>1, <3>4
    <3>. HIDE DEF v
    <3>7. /\ Alike(execute(n), execute(q)) /\ execute(n).MAR = a
          /\ execute(n).mem = Written(n.mem, a, size, v)
          /\ execute(q).mem = Written(q.mem, a, size, v)
      BY <3>3, <3>6, StoreAlike
    <3>. QED BY <3>2, <3>5, <3>7 DEF Stored
  <2>4. CASE action \notin Actions
    <3>1. execute(n) = n /\ execute(q) = q
      BY <1>12, <1>x, <2>4 DEF execute, IX, INVALID_INST, LD, ST
    <3>. QED BY <1>3, <3>1
  <2>. QED BY <1>12, <2>2, <2>3, <2>4
<1>13. CASE type = "relative_memory_access" /\ inst \in {"LDR", "STR"}
  <2>. DEFINE offset == Extended(Field(IX, 7, 6), 6)
              a == Wrap(n.REG[source] + offset)
              b == Wrap(n.REG[dst] + offset)
              v == n.REG[source]
  <2>1. dst \in Registers /\ source \in Registers /\ offset \in Int
    BY <1>1, <1>6, <1>13, Operands DEF INVALID_INST
  <2>2. CASE inst = "LDR"
    <3>1. execute(n) = LoadFrom(n, a, size, dst) /\ execute(q) = LoadFrom(q, a, size, dst)
      BY <1>13, <1>x, <2>2 DEF execute, IX, INVALID_INST, LDR
    <3>2. BusRead(n, execute(n).MAR, size) = BusRead(q, execute(n).MAR, size)
      BY <2>2 DEF IX
    <3>i. inst \notin {"ST", "STR"}
      BY <2>2
    <3>. HIDE DEF inst, type, dst, source, size, offset
    <3>3. a \in WordValues
      <4>1. n.REG[source] \in Nat
        BY <2>1, WordRange DEF Machines
      <4>. QED BY <2>1, <4>1, WrapRange
    <3>. HIDE DEF a
    <3>4. execute(n).MAR = a
      BY <1>2, <2>1, <3>1, <3>3, LoadRuns
    <3>. QED BY <1>2, <1>z, <3>i, <3>1, <3>2, <3>4, LoadAlike
  <2>3. CASE inst = "STR"
    <3>1. execute(n) = BusWrite(n, b, size, v) /\ execute(q) = BusWrite(q, b, size, v)
      BY <1>13, <1>x, <2>3 DEF execute, IX, INVALID_INST, STR
    <3>2. inst = "STR" /\ inst = Instruction(n.IX) /\ size = Field(n.IX, 6, 1)
      BY <2>3 DEF IX
    <3>. HIDE DEF inst, type, dst, source, size, offset
    <3>3. v \in WordValues
      BY <2>1 DEF Machines
    <3>. HIDE DEF b, v
    <3>4. /\ Alike(execute(n), execute(q)) /\ execute(n).MAR = b
          /\ execute(n).mem = Written(n.mem, b, size, v)
          /\ execute(q).mem = Written(q.mem, b, size, v)
      BY <3>1, StoreAlike
    <3>. QED BY <3>2, <3>3, <3>4 DEF Stored
  <2>. QED BY <1>13, <2>2, <2>3
<1>. QED
  BY <1>1, <1>5, <1>7, <1>8, <1>9, <1>10, <1>11, <1>12, <1>13, InstructionSets

\* A byte is dead, to Dead of Machine, if it does not live in its cell.
LEMMA DeadBytes ==
  ASSUME NEW n, NEW w \in Cells
  PROVE  /\ Dead(n, 2 * w) <=> ~LowLives(w, n.REG[SP])
         /\ Dead(n, 2 * w + 1) <=> ~HighLives(w, n.REG[SP])
<1>1. w \in Nat
  BY CellNumbers
<1>2. (2 * w) \div 2 = w /\ (2 * w + 1) \div 2 = w
  BY ONLY <1>1
<1>. QED BY <1>2 DEF Dead, LowLives, HighLives, WORD_ADDR_CONV

\* The bytes of the word at a.
LEMMA BytesOfWord ==
  ASSUME NEW a \in WordValues
  PROVE  \/ a % 2 = 0 /\ a = 2 * WORD_ADDR_CONV(a)
         \/ a % 2 = 1 /\ a = 2 * WORD_ADDR_CONV(a) + 1
<1>1. a \in Nat
  BY WordRange
<1>. QED BY <1>1 DEF WORD_ADDR_CONV

\* The bytes that an access takes.
Taken(a, size) == IF size = WORD THEN {2 * WORD_ADDR_CONV(a), 2 * WORD_ADDR_CONV(a) + 1} ELSE {a}

\* What is stored is the same in both memories, and so is what was.
LEMMA StoreSame ==
  ASSUME NEW f \in [Cells -> WordValues], NEW g \in [Cells -> WordValues], NEW sp,
         SameMemory(f, g, sp), NEW a \in WordValues, NEW size, NEW v \in WordValues,
         NEW w \in Cells
  PROVE  /\ LowLives(w, sp) \/ 2 * w \in Taken(a, size)
              => Written(f, a, size, v)[w] % 256 = Written(g, a, size, v)[w] % 256
         /\ HighLives(w, sp) \/ 2 * w + 1 \in Taken(a, size)
              => Written(f, a, size, v)[w] \div 256 = Written(g, a, size, v)[w] \div 256
<1>. DEFINE u == WORD_ADDR_CONV(a)
            Acc == Taken(a, size)
            x == f[w]
            y == g[w]
            i == Written(f, a, size, v)[w]
            j == Written(g, a, size, v)[w]
<1>1. w \in Nat /\ a \in Nat /\ u \in Nat
  <2>1. a \in Nat
    BY WordRange
  <2>. QED BY <2>1, CellNumbers DEF WORD_ADDR_CONV
<1>2. x \in Nat /\ y \in Nat /\ v \in Nat /\ x < 65536 /\ y < 65536 /\ v < 65536
  BY WordRange
<1>3. (LowLives(w, sp) => x % 256 = y % 256) /\ (HighLives(w, sp) => x \div 256 = y \div 256)
  BY DEF SameMemory
<1>4. CASE w # u
  <2>1. i = x /\ j = y
    BY <1>4 DEF Written
  <2>2. a = 2 * u \/ a = 2 * u + 1
    BY BytesOfWord
  <2>. HIDE DEF u, x, y, i, j
  <2>3. 2 * w \notin {2 * u, 2 * u + 1, a} /\ 2 * w + 1 \notin {2 * u, 2 * u + 1, a}
    BY <1>1, <1>4, <2>2
  <2>4. 2 * w \notin Acc /\ 2 * w + 1 \notin Acc
    BY <2>3 DEF u, Taken
  <2>. QED BY <1>3, <2>1, <2>4 DEF i, j
<1>5. CASE w = u /\ size = WORD
  <2>1. i = v /\ j = v
    BY <1>5 DEF Written
  <2>. QED BY <2>1
<1>6. CASE w = u /\ size # WORD /\ a % 2 = 0
  <2>1. i = 256 * (x \div 256) + (v % 256) /\ j = 256 * (y \div 256) + (v % 256)
    BY <1>6 DEF Written
  <2>2. a = 2 * w
    BY <1>6, BytesOfWord
  <2>3. 2 * w + 1 \notin Acc
    BY <1>1, <1>6, <2>2 DEF Taken
  <2>. HIDE DEF u, x, y, i, j
  <2>4. i % 256 = j % 256 /\ i \div 256 = x \div 256 /\ j \div 256 = y \div 256
    BY <1>2, <2>1, HalvesOfWord
  <2>. QED BY <1>3, <2>3, <2>4 DEF i, j
<1>7. CASE w = u /\ size # WORD /\ a % 2 # 0
  <2>1. i = 256 * (v % 256) + (x % 256) /\ j = 256 * (v % 256) + (y % 256)
    BY <1>7 DEF Written
  <2>2. a = 2 * w + 1
    BY <1>7, BytesOfWord
  <2>3. 2 * w \notin Acc
    BY <1>1, <1>7, <2>2 DEF Taken
  <2>. HIDE DEF u, x, y, i, j
  <2>4. i \div 256 = j \div 256 /\ i % 256 = x % 256 /\ j % 256 = y % 256
    BY <1>2, <2>1, HalvesOfWord
  <2>. QED BY <1>3, <2>3, <2>4 DEF i, j
<1>. QED BY <1>4, <1>5, <1>6, <1>7

\* What is loaded from bytes that live is the same.
LEMMA LoadSame ==
  ASSUME NEW n \in Machines, NEW q \in Machines, NEW sp, SameMemory(n.mem, q.mem, sp),
         NEW a \in WordValues, WORD_ADDR_CONV(a) \in Cells, NEW size,
         LET w == WORD_ADDR_CONV(a)
         IN  /\ size = WORD \/ a % 2 = 0 => LowLives(w, sp)
             /\ size = WORD \/ a % 2 # 0 => HighLives(w, sp)
  PROVE  BusRead(n, a, size) = BusRead(q, a, size)
<1>. DEFINE w == WORD_ADDR_CONV(a)
            x == n.mem[w]
            y == q.mem[w]
<1>1. x \in Nat /\ y \in Nat
  BY WordRange DEF Machines
<1>2. /\ size = WORD \/ a % 2 = 0 => x % 256 = y % 256
      /\ size = WORD \/ a % 2 # 0 => x \div 256 = y \div 256
  BY DEF SameMemory
<1>3. /\ BusRead(n, a, size) = IF size = WORD THEN x ELSE IF a % 2 = 0 THEN x % 256 ELSE x \div 256
      /\ BusRead(q, a, size) = IF size = WORD THEN y ELSE IF a % 2 = 0 THEN y % 256 ELSE y \div 256
  BY DEF BusRead
<1>. HIDE DEF x, y
<1>4. CASE size = WORD
  <2>1. x = y
    BY <1>1, <1>2, <1>4
  <2>. QED BY <1>3, <2>1
<1>5. CASE size # WORD
  BY <1>2, <1>3, <1>5
<1>. QED BY <1>4, <1>5

\* An instruction of the main program, on the machine and on what the program sees of it.
LEMMA ExecuteMaps ==
  ASSUME NEW n \in Machines, Named(n.IX) \subseteq Registers,
         NEW after, after = execute(n), WORD_ADDR_CONV(after.MAR) \in Cells,
         NEW inst, inst = Instruction(n.IX),
         inst = "XOR" => Field(n.IX, 6, 1) = WORD,
         inst \in {"LD", "LDR"} => \A a \in Accessed(n, after) : ~Dead(n, a),
         \A a \in after.REG[SP]..(n.REG[SP] - 1) : Dead(n, a) =>
           inst \in {"ST", "STR"} /\ a \in Accessed(n, after)
  PROVE  Visible(after) = Forget(execute(Visible(n)), StackCells)
<1>. DEFINE q == Visible(n)
            other == execute(q)
            sp == n.REG[SP]
            size == Field(n.IX, 6, 1)
            a == after.MAR
            w == WORD_ADDR_CONV(a)
<1>1. /\ q \in Machines /\ q.REG = n.REG /\ q.PSW = n.PSW /\ q.mode = n.mode /\ q.MAR = n.MAR
      /\ q.IX = n.IX /\ q.mem = Remembered(n.mem, sp) /\ q.queue = [d \in Dev |-> INT_OFF]
  BY VisibleFields
<1>2. after \in Machines /\ after.mode = n.mode /\ a \in WordValues
  <2>1. Runs(n, after)
    BY ExecuteRuns
  <2>. QED BY <2>1 DEF Runs, Machines
<1>3. /\ sp \in Nat /\ after.REG[SP] \in Nat
      /\ n.mem \in [Cells -> WordValues] /\ q.mem \in [Cells -> WordValues]
  BY <1>1, <1>2, RegisterNumbers, WordRange DEF Machines
<1>4. SameMemory(n.mem, q.mem, sp)
  BY <1>1, <1>3, RememberedSame
<1>5. Alike(n, q)
  BY <1>1 DEF Alike
<1>. HIDE DEF q
<1>6. inst \in {"LD", "LDR"} => BusRead(n, a, size) = BusRead(q, a, size)
  <2>. SUFFICES ASSUME inst \in {"LD", "LDR"} PROVE BusRead(n, a, size) = BusRead(q, a, size)
    OBVIOUS
  <2>1. \A b \in Accessed(n, after) : ~Dead(n, b)
    OBVIOUS
  <2>2. size = WORD \/ a % 2 = 0 => LowLives(w, sp)
    <3>1. ASSUME size = WORD \/ a % 2 = 0 PROVE 2 * w \in Accessed(n, after)
      BY <1>2, <3>1, BytesOfWord DEF Accessed
    <3>. QED BY <2>1, <3>1, DeadBytes
  <2>3. size = WORD \/ a % 2 # 0 => HighLives(w, sp)
    <3>1. ASSUME size = WORD \/ a % 2 # 0 PROVE 2 * w + 1 \in Accessed(n, after)
      BY <1>2, <3>1, BytesOfWord DEF Accessed
    <3>. QED BY <2>1, <3>1, DeadBytes
  <2>. QED BY <1>1, <1>2, <1>4, <2>2, <2>3, LoadSame
<1>7. \/ /\ Together(n, q, after, other)
         /\ inst \in {"ST", "STR"} => after = n
      \/ Stored(n, q, after, other)
  BY <1>1, <1>5, <1>6, ExecuteAlike
<1>8. Alike(after, other)
  BY <1>7 DEF Together, Stored
<1>9. other \in Machines /\ other.mode = q.mode /\ other.queue = q.queue
  <2>1. other.MAR = a
    BY <1>8 DEF Alike
  <2>2. Runs(q, other)
    BY <1>1, <2>1, ExecuteRuns
  <2>. QED BY <2>2 DEF Runs
<1>. HIDE DEF other
<1>10. SameMemory(after.mem, other.mem, after.REG[SP])
  <2>. SUFFICES ASSUME NEW c \in Cells
                PROVE  /\ LowLives(c, after.REG[SP]) => after.mem[c] % 256 = other.mem[c] % 256
                       /\ HighLives(c, after.REG[SP]) => after.mem[c] \div 256 = other.mem[c] \div 256
    BY DEF SameMemory
  <2>. DEFINE new == after.REG[SP]
              stores == inst \in {"ST", "STR"}
  <2>1. c \in Nat
    BY CellNumbers
  <2>2. LowLives(c, new) => LowLives(c, sp) \/ (stores /\ 2 * c \in Accessed(n, after))
    <3>1. ASSUME LowLives(c, new), ~LowLives(c, sp)
          PROVE  Dead(n, 2 * c) /\ 2 * c \in new..(sp - 1)
      <4>1. 2 * c \in new..(sp - 1)
        BY <1>3, <2>1, <3>1 DEF LowLives
      <4>. QED BY <3>1, <4>1, DeadBytes
    <3>2. \A b \in new..(sp - 1) : Dead(n, b) => stores /\ b \in Accessed(n, after)
      OBVIOUS
    <3>. HIDE DEF new, stores, sp
    <3>. QED BY ONLY <3>1, <3>2
  <2>3. HighLives(c, new) => HighLives(c, sp) \/ (stores /\ 2 * c + 1 \in Accessed(n, after))
    <3>1. ASSUME HighLives(c, new), ~HighLives(c, sp)
          PROVE  Dead(n, 2 * c + 1) /\ 2 * c + 1 \in new..(sp - 1)
      <4>1. 2 * c + 1 \in new..(sp - 1)
        BY <1>3, <2>1, <3>1 DEF HighLives
      <4>. QED BY <3>1, <4>1, DeadBytes
    <3>2. \A b \in new..(sp - 1) : Dead(n, b) => stores /\ b \in Accessed(n, after)
      OBVIOUS
    <3>. HIDE DEF new, stores, sp
    <3>. QED BY ONLY <3>1, <3>2
  <2>4. CASE Together(n, q, after, other) /\ ~stores
    BY <1>4, <2>2, <2>3, <2>4 DEF Together, SameMemory
  <2>5. CASE Stored(n, q, after, other)
    <3>1. PICK v \in WordValues : /\ after.mem = Written(n.mem, a, size, v)
                                  /\ other.mem = Written(q.mem, a, size, v)
      BY <2>5 DEF Stored
    <3>2. Accessed(n, after) = Taken(a, size)
      BY DEF Accessed, Taken
    <3>. HIDE DEF sp, size, a
    <3>3. /\ LowLives(c, sp) \/ 2 * c \in Taken(a, size)
                => after.mem[c] % 256 = other.mem[c] % 256
          /\ HighLives(c, sp) \/ 2 * c + 1 \in Taken(a, size)
                => after.mem[c] \div 256 = other.mem[c] \div 256
      BY <1>2, <1>3, <1>4, <3>1, StoreSame
    <3>. QED BY <2>2, <2>3, <3>2, <3>3
  <2>6. CASE after = n /\ Together(n, q, after, other)
    BY <1>4, <2>6 DEF Together, SameMemory
  <2>. QED BY <1>7, <2>4, <2>5, <2>6
<1>11. Visible(after) = Forget(other, StackCells)
  BY <1>1, <1>2, <1>8, <1>9, <1>10, SameVisible DEF Alike
<1>. QED BY <1>11 DEF other, q

-----------------------------------------------------------------------------
(***************************************************************************)
(* Interrupts are transparent.                                             *)
(***************************************************************************)

\* In memory, the main program finds what it left, whatever its interrupts do.
SeenSame == SameMemory(m.mem, Main.mem, Main.REG[SP])

\* What the invariant says of the main program.
LEMMA MainType ==
  ASSUME IInv
  PROVE  /\ m \in Machines /\ Main \in Machines /\ interrupted \in Seq(Machines)
         /\ Main.REG[SP] \in Nat /\ Main.mem \in [Cells -> WordValues]
         /\ m.mem \in [Cells -> WordValues] /\ Stacked(interrupted, m)
<1>1. m \in Machines /\ interrupted \in Seq(Machines) /\ Stacked(interrupted, m)
  BY DEF IInv, TypeOK
<1>2. Main \in Machines
  <2>1. CASE interrupted = << >>
    BY <1>1, <2>1 DEF Main
  <2>2. CASE interrupted # << >>
    <3>1. interrupted[1] \in Machines
      BY <1>1, <2>2, Sequences
    <3>. QED BY <2>2, <3>1 DEF Main
  <2>. QED BY <2>1, <2>2
<1>3. Main.REG[SP] \in Nat /\ Main.mem \in [Cells -> WordValues] /\ m.mem \in [Cells -> WordValues]
  BY <1>1, <1>2, RegisterNumbers, WordRange DEF Machines
<1>. QED BY <1>1, <1>2, <1>3

\* What Seen compares.
LEMMA SeenMemory ==
  ASSUME IInv, NEW n \in Machines
  PROVE  Seen(n) = Remembered(n.mem, Main.REG[SP])
<1>. DEFINE mem == n.mem
            q == [Main EXCEPT !.mem = mem]
<1>1. Main \in Machines /\ mem \in [Cells -> WordValues]
  BY MainType DEF Machines
<1>. HIDE DEF mem
<1>2. q \in Machines /\ q.mem = mem /\ q.REG = Main.REG
  BY <1>1 DEF Machines
<1>3. Seen(n) = Forget(q, StackCells).mem
  BY DEF Seen, mem
<1>. HIDE DEF q
<1>4. Forget(q, StackCells) = [q EXCEPT !.high = 0, !.mem = Remembered(q.mem, q.REG[SP])]
  BY <1>2, VisibleFields
<1>. DEFINE f == Remembered(q.mem, q.REG[SP])
<1>. HIDE DEF f
<1>5. Forget(q, StackCells).mem = f
  BY <1>2, <1>4 DEF Machines, f
<1>. QED BY <1>2, <1>3, <1>5 DEF f, mem

\* Fetching moves no memory, and the main program stays the same while another is left.
LEMMA FetchLeaves ==
  ASSUME IInv, TransparencyRules, fetch_cycle, interrupted' # << >>
  PROVE  m'.mem = m.mem /\ interrupted # << >> /\ interrupted'[1] = interrupted[1]
<1>1. m \in Machines /\ interrupted \in Seq(Machines) /\ stage = FETCH /\ FetchRules
  BY MainType DEF fetch_cycle, TransparencyRules, ProgramRules
<1>2. CASE ~(m.mode.SLP = 0 /\ Fetches(m))
  BY <1>1, <1>2 DEF fetch_cycle
<1>3. CASE m.mode.SLP = 0 /\ Fetches(m) /\ Returns(m)
  <2>. DEFINE after == FetchFrom(PullFrame(m))
  <2>1. /\ Waiting(m) = {} /\ interrupted # << >> /\ fetch(m) = after /\ after.mem = m.mem
    BY <1>1, <1>3, ReturnStep
  <2>. HIDE DEF after
  <2>2. m' = after /\ interrupted' = Outer
    BY <1>3, <2>1 DEF fetch_cycle
  <2>3. /\ Outer \in Seq(Machines) /\ \A i \in DOMAIN Outer : Outer[i] = interrupted[i]
    BY <1>1, <2>1, OuterParts DEF Outer
  <2>4. Outer # << >> /\ 1 \in DOMAIN Outer
    BY <2>2, <2>3, Sequences
  <2>. QED BY <2>1, <2>2, <2>3, <2>4
<1>4. CASE m.mode.SLP = 0 /\ Fetches(m) /\ ~Returns(m)
  <2>1. m' = FetchFrom(m) /\ interrupted' = interrupted
    BY <1>4, FetchParts DEF fetch_cycle
  <2>. QED BY <1>1, <2>1, FetchRuns
<1>. QED BY <1>2, <1>3, <1>4

\* An interrupt writes below the stack pointer of the main program only.
LEMMA EntryHidden ==
  ASSUME IInv, TransparencyRules, NEW d \in Dev, interrupt(d), Preempts(m, d)
  PROVE  SameMemory(m'.mem, m.mem, Main.REG[SP])
<1>. DEFINE f == PushFrame(m)
            e == Enter(f, d)
            sp == m.REG[SP]
            top == Main.REG[SP]
<1>1. /\ m \in Machines /\ Main \in Machines /\ interrupted \in Seq(Machines)
      /\ Stacked(interrupted, m) /\ stage = DEVICES /\ StackReady /\ top \in Nat
  BY MainType DEF interrupt
<1>2. /\ sp >= 3 * WORD_STEP /\ FrameOf(m) \subseteq StackCells
      /\ VectorPSW(d) \notin FrameOf(m)
      /\ interrupted # << >> => sp <= Bottom(interrupted[Len(interrupted)])
  BY <1>1 DEF TransparencyRules, ProgramRules, StackRules, Last
<1>3. FrameOf(m) = FrameCells(m) /\ FrameCells(m) \subseteq Cells /\ sp \in Nat
  BY <1>1, <1>2, FrameCellsOf, SlotChain, MachineAssumption
<1>4. m' = e
  BY DEF interrupt, interrupt_handling_process
<1>5. e.mem = f.mem /\ \A w \in Cells \ FrameCells(m) : f.mem[w] = m.mem[w]
  <2>1. f \in Machines
    BY <1>1, <1>3, FrameRuns DEF Runs
  <2>2. e.mem = f.mem
    <3>. HIDE DEF f
    <3>. QED BY <2>1, EnterFields
  <2>. QED BY <1>1, <1>3, <2>2, FrameFields
<1>. HIDE DEF f, e
<1>6. sp <= top
  <2>1. CASE interrupted = << >>
    BY <1>3, <2>1 DEF Main
  <2>2. CASE interrupted # << >>
    <3>. DEFINE t == Append(interrupted, m)
    <3>1. Stacked(t, Enter(PushFrame(m), d))
      BY <1>1, <1>2, <1>3, <2>2, EntryKeeps
    <3>2. Len(t) \in DOMAIN t /\ t[Len(t)] = m /\ 1 \in DOMAIN t /\ t[1] = Main /\ 1 < Len(t)
      <4>1. /\ t \in Seq(Machines) /\ Len(t) = Len(interrupted) + 1 /\ t # << >> /\ t[Len(t)] = m
            /\ \A i \in DOMAIN t : (i \in DOMAIN interrupted /\ t[i] = interrupted[i]) \/ i = Len(t)
        BY <1>1, AppendParts
      <4>2. 1 \in DOMAIN interrupted /\ Len(interrupted) \in Nat /\ 1 <= Len(interrupted)
        BY <1>1, <2>2, Sequences
      <4>3. 1 \in DOMAIN t /\ Len(t) \in DOMAIN t
        BY <4>1, Sequences
      <4>. HIDE DEF t
      <4>. QED BY <2>2, <4>1, <4>2, <4>3 DEF Main
    <3>. HIDE DEF t
    <3>3. sp <= Bottom(Main)
      BY <3>1, <3>2 DEF Stacked, Nested
    <3>4. Bottom(Main) = top - 6
      <4>1. Main.REG[SP] >= 3 * WORD_STEP
        BY <3>1, <3>2 DEF Stacked, Framed
      <4>. QED BY <1>1, <4>1, FrameCellsOf
    <3>. QED BY <1>1, <1>3, <3>3, <3>4
  <2>. QED BY <2>1, <2>2
<1>7. ASSUME NEW w \in FrameCells(m)
      PROVE  ~LowLives(w, top) /\ ~HighLives(w, top)
  <2>1. \E k \in 1..3 : w = (sp \div 2) - k
    BY <1>1, <1>2, FrameCellsOf DEF FrameCells
  <2>2. w \in StackCells
    BY <1>2, <1>3
  <2>. HIDE DEF sp, top
  <2>3. 2 * w < top /\ 2 * w + 1 < top
    <3>1. PICK k \in 1..3 : w = (sp \div 2) - k
      BY <2>1
    <3>2. 2 * (sp \div 2) <= sp /\ sp \div 2 \in Nat
      BY ONLY <1>3
    <3>. QED BY <1>1, <1>3, <1>6, <3>1, <3>2
  <2>. QED BY <2>2, <2>3 DEF LowLives, HighLives
<1>. QED BY <1>4, <1>5, <1>7 DEF SameMemory

\* At first nothing is interrupted and the main program sees its own memory.
LEMMA SeenAtFirst == Init => SeenSame
  BY SameOnward DEF Init, SeenSame, Main

\* No step, of a routine or of an entry, changes what the main program finds in memory.
LEMMA SeenKeeps ==
  ASSUME IInv, IInv', SeenSame, TransparencyRules, [Next]_vars
  PROVE  SeenSame'
<1>0. CASE interrupted' = << >>
  BY <1>0, SameOnward DEF SeenSame, Main
<1>1. ASSUME interrupted' # << >>, interrupted # << >>, interrupted'[1] = interrupted[1],
             SameMemory(m'.mem, m.mem, Main.REG[SP])
      PROVE  SeenSame'
  <2>1. Main' = Main
    BY <1>1 DEF Main
  <2>2. SameMemory(m'.mem, Main.mem, Main.REG[SP])
    BY <1>1, SameOnward DEF SeenSame
  <2>. QED BY <2>1, <2>2 DEF SeenSame
<1>2. CASE fetch_cycle /\ interrupted' # << >>
  <2>1. m'.mem = m.mem /\ interrupted # << >> /\ interrupted'[1] = interrupted[1]
    BY <1>2, FetchLeaves
  <2>. QED BY <1>1, <1>2, <2>1, SameOnward
<1>3. CASE execute_cycle /\ interrupted' # << >>
  <2>. DEFINE after == execute(m)
  <2>1. m' = after /\ interrupted' = interrupted /\ stage = EXECUTE
    BY <1>3 DEF execute_cycle
  <2>2. after \in Machines
    BY <2>1, MainType DEF IInv, TypeOK
  <2>3. Seen(after) = Seen(m)
    BY <1>3, <2>1 DEF TransparencyRules, RoutineRules
  <2>. HIDE DEF after
  <2>4. Remembered(after.mem, Main.REG[SP]) = Remembered(m.mem, Main.REG[SP])
    BY <2>2, <2>3, MainType, SeenMemory
  <2>5. SameMemory(after.mem, m.mem, Main.REG[SP])
    <3>1. after.mem \in [Cells -> WordValues]
      BY <2>2 DEF Machines
    <3>. QED BY <2>4, <3>1, MainType, RememberedSame
  <2>. QED BY <1>1, <1>3, <2>1, <2>5
<1>4. ASSUME NEW d \in Dev, interrupt(d), interrupted' # << >> PROVE SeenSame'
  <2>1. CASE Preempts(m, d)
    <3>1. SameMemory(m'.mem, m.mem, Main.REG[SP])
      BY <1>4, <2>1, EntryHidden
    <3>2. interrupted' = Append(interrupted, m)
      BY <1>4, <2>1 DEF interrupt
    <3>3. interrupted \in Seq(Machines) /\ m \in Machines
      BY MainType
    <3>4. Main' = Main
      <4>1. CASE interrupted = << >>
        BY <3>2, <3>3, <4>1, <1>4 DEF Main
      <4>2. CASE interrupted # << >>
        <5>1. Append(interrupted, m)[1] = interrupted[1]
          BY <3>3, <4>2, AppendProperties, Sequences
        <5>. QED BY <1>4, <3>2, <4>2, <5>1 DEF Main
      <4>. QED BY <4>1, <4>2
    <3>5. SameMemory(m'.mem, Main.mem, Main.REG[SP])
      BY <3>1, SameOnward DEF SeenSame
    <3>. QED BY <3>4, <3>5 DEF SeenSame
  <2>2. CASE ~Preempts(m, d)
    <3>1. m' = [m EXCEPT !.queue[d] = VectorPriority(m, d)] /\ interrupted' = interrupted
      BY <1>4, <2>2 DEF interrupt, interrupt_handling_process
    <3>2. m'.mem = m.mem
      <4>. DEFINE queue == [m.queue EXCEPT ![d] = VectorPriority(m, d)]
      <4>1. m' = [m EXCEPT !.queue = queue]
        BY <3>1
      <4>. HIDE DEF queue
      <4>. QED BY <4>1, MainType DEF Machines
    <3>. QED BY <1>1, <1>4, <3>1, <3>2, SameOnward
  <2>. QED BY <2>1, <2>2
<1>5. CASE (devices_done \/ UNCHANGED vars) /\ interrupted' # << >>
  BY <1>1, <1>5, SameOnward DEF devices_done, vars
<1>. QED BY <1>0, <1>2, <1>3, <1>4, <1>5 DEF Next

\* The steps of PlainProgram, in the terms of this module.
LEMMA PlainSteps ==
  ASSUME NEW p, p = Visible(Main), NEW s, s = MainStage
  PROVE  /\ s = FETCH /\ p.REG[PC] % 2 = 0 /\ MainStage' = EXECUTE
            /\ Visible(Main)' = Forget([p EXCEPT !.MAR = p.REG[PC], !.IX = BusRead(p, p.REG[PC], WORD),
                                                 !.REG[PC] = Wrap(@ + WORD_STEP)], StackCells)
            => Undisturbed!Next
         /\ s = EXECUTE /\ MainStage' = FETCH /\ p.IX \in Nat
            /\ Visible(Main)' = Forget(execute(p), StackCells)
            => Undisturbed!Next
<1>1. ASSUME s = FETCH, p.REG[PC] % 2 = 0, MainStage' = EXECUTE,
             Visible(Main)' = Forget([p EXCEPT !.MAR = p.REG[PC], !.IX = BusRead(p, p.REG[PC], WORD),
                                               !.REG[PC] = Wrap(@ + WORD_STEP)], StackCells)
      PROVE  Undisturbed!Fetch
  <2>. DEFINE x == p.REG[PC]
              word == BusRead(p, x, WORD)
              z == [p EXCEPT !.MAR = x, !.IX = word, !.REG[PC] = Wrap(@ + WORD_STEP)]
              y == [p EXCEPT !.MAR = p.REG[Undisturbed!PC],
                             !.IX = Undisturbed!BusRead(p, p.REG[Undisturbed!PC], Undisturbed!WORD),
                             !.REG[Undisturbed!PC] = Undisturbed!Wrap(@ + Undisturbed!WORD_STEP)]
  <2>1. y = z
    BY PlainNumbers, PlainMemory
  <2>2. Undisturbed!Forget(z, StackCells) = Forget(z, StackCells)
    BY PlainMemory
  <2>3. MainStage = "fetch" /\ MainStage' = "execute" /\ p.REG[Undisturbed!PC] % 2 = 0
    BY <1>1, PlainNumbers DEF FETCH, EXECUTE
  <2>4. Visible(Main)' = Undisturbed!Forget(y, StackCells)
    BY <1>1, <2>1, <2>2
  <2>. QED BY <2>3, <2>4 DEF Undisturbed!Fetch
<1>2. ASSUME s = EXECUTE, MainStage' = FETCH, p.IX \in Nat,
             Visible(Main)' = Forget(execute(p), StackCells)
      PROVE  Undisturbed!Execute
  <2>1. Undisturbed!execute(p) = execute(p)
    BY <1>2, PlainExecute
  <2>. QED BY <1>2, <2>1, PlainMemory DEF Undisturbed!Execute, FETCH, EXECUTE
<1>. QED BY <1>1, <1>2 DEF Undisturbed!Next

\* An instruction of the main program is a step of PlainProgram.
LEMMA ExecuteSteps ==
  ASSUME IInv, IInv', TransparencyRules, execute_cycle, interrupted = << >>
  PROVE  Undisturbed!Next
<1>. DEFINE p == Visible(Main)
            after == execute(m)
<1>1. m \in Machines /\ stage = EXECUTE /\ stage' = DEVICES /\ interrupted' = << >> /\ m' = after
  BY MainType DEF execute_cycle
<1>2. Main = m /\ Main' = after /\ MainStage = EXECUTE /\ MainStage' = FETCH
  BY <1>1 DEF Main, MainStage, FETCH, EXECUTE, DEVICES
<1>3. /\ Named(m.IX) \subseteq Registers /\ WORD_ADDR_CONV(after.MAR) \in Cells
  BY <1>1 DEF TransparencyRules, ProgramRules, ExecuteRules
<1>4. /\ Instruction(m.IX) = "XOR" => Field(m.IX, 6, 1) = WORD
      /\ Instruction(m.IX) \in {"LD", "LDR"} => \A a \in Accessed(m, after) : ~Dead(m, a)
      /\ \A a \in after.REG[SP]..(m.REG[SP] - 1) : Dead(m, a) =>
           Instruction(m.IX) \in {"ST", "STR"} /\ a \in Accessed(m, after)
  BY <1>1 DEF TransparencyRules, RelianceRules
<1>5. Visible(after) = Forget(execute(Visible(m)), StackCells)
  <2>. HIDE DEF after
  <2>1. after = execute(m)
    BY DEF after
  <2>. QED BY <1>1, <1>3, <1>4, <2>1, ExecuteMaps
<1>6. p.IX \in Nat
  <2>1. Visible(m).IX = m.IX
    BY <1>1, VisibleFields
  <2>2. m.IX \in WordValues
    BY <1>1 DEF Machines
  <2>3. p = Visible(m)
    BY <1>2
  <2>. QED BY <2>1, <2>2, <2>3, WordRange
<1>. HIDE DEF after
<1>7. Visible(Main)' = Forget(execute(p), StackCells)
  BY <1>2, <1>5
<1>. QED BY <1>2, <1>6, <1>7, PlainSteps

\* A fetch by which the main program goes on, interrupted before or not, is one too.
LEMMA FetchSteps ==
  ASSUME IInv, IInv', SeenSame, TransparencyRules, fetch_cycle, interrupted' = << >>,
         stage' = EXECUTE
  PROVE  Undisturbed!Next
<1>. DEFINE p == Visible(Main)
            old == Main
            n == m'
<1>1. /\ m \in Machines /\ old \in Machines /\ n \in Machines /\ stage = FETCH /\ FetchRules
      /\ m.mode.SLP = 0 /\ Fetches(m) /\ SameMemory(m.mem, old.mem, old.REG[SP])
      /\ n = fetch(m)
  BY MainType DEF fetch_cycle, TransparencyRules, ProgramRules, IInv, TypeOK, SeenSame, EXECUTE, DEVICES
<1>2. /\ n.REG = [old.REG EXCEPT ![PC] = Wrap(old.REG[PC] + WORD_STEP)]
      /\ n.PSW = old.PSW /\ n.mode = old.mode /\ n.mem = m.mem
      /\ n.MAR = old.REG[PC] /\ n.IX = n.mem[WORD_ADDR_CONV(old.REG[PC])]
      /\ (IF Returns(m) THEN Outer ELSE interrupted) = << >>
  <2>1. CASE Returns(m)
    <3>. DEFINE r == PullFrame(m)
                after == FetchFrom(r)
    <3>1. /\ Waiting(m) = {} /\ interrupted # << >> /\ fetch(m) = after
          /\ after.IX = m.mem[WORD_ADDR_CONV(Last.REG[PC])]
          /\ after.REG = [m.REG EXCEPT ![PC] = Wrap(Last.REG[PC] + WORD_STEP),
                                       ![LR] = Last.REG[LR], ![SP] = Last.REG[SP]]
          /\ after.PSW = Last.PSW /\ after.mode = Last.mode /\ after.mem = m.mem
      BY <1>1, <2>1, ReturnStep
    <3>2. interrupted' = Outer /\ Outer = << >>
      BY <1>1, <2>1, <3>1 DEF fetch_cycle
    <3>3. Last = old
      <4>1. interrupted \in Seq(Machines)
        BY MainType
      <4>2. Len(Outer) = Len(interrupted) - 1 /\ Len(interrupted) \in Nat
        <5>1. interrupted # << >>
          BY <3>1
        <5>2. Len(Outer) = Len(interrupted) - 1
          BY Zenon, <4>1, <5>1, OuterParts DEF Outer
        <5>3. Len(interrupted) \in Nat
          BY <4>1, LenProperties
        <5>. QED BY <5>2, <5>3
      <4>3. Len(interrupted) = 1
        BY <3>2, <4>2
      <4>4. Last = interrupted[1]
        BY <4>3 DEF Last
      <4>. QED BY <3>1, <4>4 DEF Main
    <3>4. after.MAR = old.REG[PC]
      <4>1. after.MAR = r.REG[PC]
        BY DEF FetchFrom
      <4>2. r.REG[PC] = Last.REG[PC]
        <5>1. m.REG[SP] = Bottom(Last)
          BY <1>1, <2>1 DEF FetchRules
        <5>2. Resumed(Last, m, r)
          BY <1>1, <3>1, <5>1, MainType, ReturnKeeps DEF Last, Outer
        <5>. QED BY <5>2 DEF Resumed
      <4>. QED BY <3>3, <4>1, <4>2
    <3>5. \A x \in 0..3 : m.REG[x] = old.REG[x]
      BY <1>1, <2>1, <3>1, <3>2 DEF TransparencyRules, RoutineRules
    <3>. HIDE DEF after
    <3>6. after.REG = [old.REG EXCEPT ![PC] = Wrap(old.REG[PC] + WORD_STEP)]
      <4>. DEFINE v == Wrap(old.REG[PC] + WORD_STEP)
                  reg == [old.REG EXCEPT ![PC] = v]
                  two == [m.REG EXCEPT ![PC] = v, ![LR] = old.REG[LR], ![SP] = old.REG[SP]]
      <4>1. DOMAIN m.REG = Registers /\ DOMAIN old.REG = Registers
        BY <1>1 DEF Machines
      <4>2. \A x \in Registers : x \in 0..3 \/ x \in {PC, LR, SP}
        BY DEF Registers, PC, LR, SP
      <4>3. \A x \in Registers : two[x] = reg[x]
        <5>. HIDE DEF v
        <5>. QED BY <3>5, <4>1, <4>2, RegisterNumbers
      <4>4. two = reg
        <5>1. DOMAIN two = Registers /\ DOMAIN reg = Registers
          BY <4>1
        <5>2. two = [x \in Registers |-> two[x]] /\ reg = [x \in Registers |-> reg[x]]
          BY <4>1
        <5>. HIDE DEF two, reg
        <5>. QED BY <4>3, <5>2
      <4>5. after.REG = two
        BY <3>1, <3>3
      <4>. QED BY <4>4, <4>5
    <3>. QED BY <1>1, <2>1, <3>1, <3>2, <3>3, <3>4, <3>6
  <2>2. CASE ~Returns(m)
    <3>. DEFINE after == FetchFrom(m)
    <3>1. fetch(m) = after /\ interrupted = << >> /\ old = m
      BY <1>1, <2>2, FetchParts DEF fetch_cycle, Main
    <3>2. after.REG = [m.REG EXCEPT ![PC] = Wrap(m.REG[PC] + WORD_STEP)]
      BY <1>1 DEF FetchFrom, Machines
    <3>3. /\ after.MAR = m.REG[PC] /\ after.mem = m.mem /\ after.PSW = m.PSW
          /\ after.mode = m.mode /\ after.IX = m.mem[WORD_ADDR_CONV(m.REG[PC])]
      BY <1>1, FetchRuns
    <3>. HIDE DEF after
    <3>. QED BY <1>1, <2>2, <3>1, <3>2, <3>3
  <2>. QED BY <2>1, <2>2
<1>3. n.MAR % 2 = 0 /\ ~Dead(n, n.MAR) /\ WORD_ADDR_CONV(n.MAR) \in Cells
  BY <1>1, <1>2 DEF TransparencyRules, RelianceRules, FetchRules
<1>4. MainStage = FETCH /\ MainStage' = EXECUTE /\ Main' = n
  BY <1>1 DEF MainStage, Main, FETCH, EXECUTE
<1>5. p.REG = old.REG
  BY <1>1, VisibleFields
<1>6. Visible(n) = Forget([p EXCEPT !.MAR = p.REG[PC], !.IX = BusRead(p, p.REG[PC], WORD),
                                    !.REG[PC] = Wrap(@ + WORD_STEP)], StackCells)
  <2>1. p = Visible(old)
    BY DEF p, old
  <2>2. old.REG[PC] % 2 = 0 /\ WORD_ADDR_CONV(old.REG[PC]) \in Cells /\ ~Dead(n, n.MAR)
    BY <1>2, <1>3
  <2>3. SameMemory(n.mem, old.mem, old.REG[SP])
    BY <1>1, <1>2
  <2>4. old \in Machines /\ n \in Machines
    BY <1>1
  <2>5. /\ n.REG = [old.REG EXCEPT ![PC] = Wrap(old.REG[PC] + WORD_STEP)]
        /\ n.PSW = old.PSW /\ n.mode = old.mode
        /\ n.MAR = old.REG[PC] /\ n.IX = n.mem[WORD_ADDR_CONV(old.REG[PC])]
    BY <1>2
  <2>. HIDE DEF old, n, p
  <2>6. \A q : q = Visible(old) =>
          Visible(n) = Forget([q EXCEPT !.MAR = q.REG[PC], !.IX = BusRead(q, q.REG[PC], WORD),
                                        !.REG[PC] = Wrap(@ + WORD_STEP)], StackCells)
    BY ONLY <2>2, <2>3, <2>4, <2>5, FetchMaps
  <2>. QED BY <2>1, <2>6
<1>7. Visible(Main)' = Visible(n)
  BY <1>4
<1>. HIDE DEF p
<1>8. p = Visible(Main)
  BY DEF p
<1>9. p.REG[PC] % 2 = 0
  BY <1>2, <1>3, <1>5
<1>. HIDE DEF old, n
<1>. QED BY <1>4, <1>6, <1>7, <1>8, <1>9, PlainSteps

\* The machine of main.cpp begins as the program by itself does.
LEMMA FirstSeen == Init => Undisturbed!Init
<1>. SUFFICES ASSUME Init PROVE Undisturbed!Init
  OBVIOUS
<1>. DEFINE queue == [d \in Dev |-> INT_OFF]
<1>1. m \in Machines
  BY InitHolds, MainType
<1>2. Main = m /\ MainStage = FETCH
  BY DEF Init, Main, MainStage, FETCH, EXECUTE
<1>3. m = [REG |-> [r \in Registers |-> IF r = PC THEN Start ELSE 0],
           PSW |-> [C |-> 0, Z |-> 0, N |-> 0, V |-> 0],
           mode |-> [SLP |-> 0, PRIORITY |-> BasePriority, res |-> 0, prev_PRIORITY |-> 0],
           high |-> 0, MAR |-> 0, IX |-> 0, mem |-> Image, queue |-> queue]
  BY DEF Init
<1>4. m.queue = queue
  BY <1>3
<1>5. Visible(m) = Forget(m, StackCells)
  BY <1>1, <1>4, SameOnward, SameVisible
<1>. QED BY <1>2, <1>3, <1>5, PlainNumbers, PlainMemory DEF Undisturbed!Init, FETCH

\* A step that leaves the main program where it is.
LEMMA MainStays ==
  ASSUME Main' = Main, MainStage' = MainStage
  PROVE  UNCHANGED <<Visible(Main), MainStage>>
  BY DEF Visible, Forget

\* A priority noted in the queue is not the main program's to see.
LEMMA QueueUnseen ==
  ASSUME NEW n \in Machines, NEW q \in Machines, q.REG = n.REG, q.PSW = n.PSW,
         q.mode = n.mode, q.MAR = n.MAR, q.IX = n.IX, q.mem = n.mem
  PROVE  Visible(q) = Visible(n)
<1>. DEFINE u == Visible(n)
            v == Visible(q)
            mem == Remembered(n.mem, n.REG[SP])
            queue == [d \in Dev |-> INT_OFF]
<1>1. /\ u \in Machines /\ u.REG = n.REG /\ u.PSW = n.PSW /\ u.mode = n.mode
      /\ u.MAR = n.MAR /\ u.IX = n.IX /\ u.high = 0 /\ u.mem = mem /\ u.queue = queue
  BY VisibleFields
<1>2. /\ v \in Machines /\ v.REG = q.REG /\ v.PSW = q.PSW /\ v.mode = q.mode
      /\ v.MAR = q.MAR /\ v.IX = q.IX /\ v.high = 0 /\ v.queue = queue
      /\ v.mem = Remembered(q.mem, q.REG[SP])
  BY VisibleFields
<1>3. v.mem = mem
  BY <1>2
<1>. HIDE DEF u, v, mem, queue
<1>4. u = v
  BY <1>1, <1>2, <1>3 DEF Machines
<1>. QED BY <1>4 DEF u, v

\* Every step of the machine is one of the main program undisturbed, or none of it.
LEMMA StepMaps ==
  ASSUME IInv, IInv', SeenSame, TransparencyRules, [Next]_vars
  PROVE  [Undisturbed!Next]_<<Visible(Main), MainStage>>
<1>. DEFINE Stays == UNCHANGED <<Visible(Main), MainStage>>
<1>0. m \in Machines /\ interrupted \in Seq(Machines)
  BY MainType
<1>n. FETCH # EXECUTE /\ DEVICES # EXECUTE /\ FETCH # DEVICES
  BY DEF FETCH, EXECUTE, DEVICES
<1>1. CASE fetch_cycle
  <2>1. CASE interrupted' = << >> /\ stage' = EXECUTE
    BY <1>1, <2>1, FetchSteps
  <2>2. CASE interrupted' # << >>
    <3>1. interrupted # << >> /\ interrupted'[1] = interrupted[1]
      BY <1>1, <2>2, FetchLeaves
    <3>. QED BY <2>2, <3>1, MainStays DEF Main, MainStage
  <2>3. CASE stage' # EXECUTE
    <3>1. stage = FETCH /\ m' = m /\ interrupted' = interrupted
      BY <1>1, <2>3 DEF fetch_cycle
    <3>2. MainStage = FETCH /\ MainStage' = FETCH
      BY <1>n, <2>3, <3>1 DEF MainStage
    <3>. QED BY <3>1, <3>2, MainStays DEF Main
  <2>. QED BY <2>1, <2>2, <2>3
<1>2. CASE execute_cycle
  <2>1. CASE interrupted = << >>
    BY <1>2, <2>1, ExecuteSteps
  <2>2. CASE interrupted # << >>
    BY <1>2, <2>2, MainStays DEF execute_cycle, Main, MainStage
  <2>. QED BY <2>1, <2>2
<1>3. ASSUME NEW d \in Dev, interrupt(d) PROVE Stays
  <2>1. stage = DEVICES /\ stage' = DEVICES
    BY <1>3 DEF interrupt
  <2>2. MainStage = FETCH /\ MainStage' = FETCH
    BY <1>n, <2>1 DEF MainStage
  <2>3. CASE Preempts(m, d)
    <3>1. interrupted' = Append(interrupted, m)
      BY <1>3, <2>3 DEF interrupt
    <3>2. interrupted' # << >> /\ interrupted'[1] = Main
      <4>1. CASE interrupted = << >>
        BY <1>0, <3>1, <4>1, AppendProperties DEF Main
      <4>2. CASE interrupted # << >>
        BY <1>0, <3>1, <4>2, AppendProperties, Sequences DEF Main
      <4>. QED BY <4>1, <4>2
    <3>3. Main' = Main
      BY <3>2 DEF Main
    <3>. QED BY <2>2, <3>3, MainStays
  <2>4. CASE ~Preempts(m, d) /\ interrupted # << >>
    BY <1>3, <2>2, <2>4, MainStays DEF interrupt, Main
  <2>5. CASE ~Preempts(m, d) /\ interrupted = << >>
    <3>. DEFINE queue == [m.queue EXCEPT ![d] = VectorPriority(m, d)]
    <3>1. m' = [m EXCEPT !.queue = queue] /\ Main = m /\ Main' = m' /\ m' \in Machines
      <4>1. m' = [m EXCEPT !.queue = queue] /\ interrupted' = interrupted
        BY <1>3, <2>5 DEF interrupt, interrupt_handling_process
      <4>2. m' \in Machines
        BY DEF IInv, TypeOK
      <4>. QED BY <2>5, <4>1, <4>2 DEF Main
    <3>. HIDE DEF queue
    <3>2. Visible(m') = Visible(m)
      <4>1. /\ m'.REG = m.REG /\ m'.PSW = m.PSW /\ m'.mode = m.mode
            /\ m'.MAR = m.MAR /\ m'.IX = m.IX /\ m'.mem = m.mem
        BY <1>0, <3>1 DEF Machines
      <4>2. m \in Machines /\ m' \in Machines
        BY <1>0, <3>1
      <4>. QED BY <4>1, <4>2, QueueUnseen
    <3>3. Visible(Main)' = Visible(Main)
      BY <3>1, <3>2
    <3>. QED BY <2>2, <3>3
  <2>. QED BY <2>3, <2>4, <2>5
<1>4. CASE devices_done
  <2>1. MainStage = FETCH /\ MainStage' = FETCH
    BY <1>4, <1>n DEF devices_done, MainStage
  <2>. QED BY <1>4, <2>1, MainStays DEF devices_done, Main
<1>5. CASE UNCHANGED vars
  BY <1>5, MainStays DEF vars, Main, MainStage
<1>. QED BY <1>1, <1>2, <1>3, <1>4, <1>5 DEF Next

\* For every program and every set of devices: a main program that is interrupted
\* between any two instructions (Device_Handling.cpp, device_management and
\* interrupt_handling_process), by nested routines and at any priorities, none being
\* queued above its own, goes from each fetch_cycle and execute_cycle of its own to the
\* next exactly as if there were no devices: return_from_interrupt gives back its
\* registers and PSW, and what the entries and routines left in memory it never reads.
\* The rules are those the program and its routines have to keep for this
\* (TransparencyRules).
THEOREM InterruptsTransparent == Spec /\ []TransparencyRules => MainProgramUndisturbed
<1>. DEFINE SInv == IInv /\ SeenSame
<1>1. Init => SInv
  BY InitHolds, SeenAtFirst
<1>2. SInv /\ TransparencyRules /\ [Next]_vars => SInv'
  <2>. SUFFICES ASSUME SInv, TransparencyRules, [Next]_vars PROVE SInv'
    OBVIOUS
  <2>1. IInv'
    BY NextKeeps DEF TransparencyRules
  <2>. QED BY <2>1, SeenKeeps
<1>3. SInv /\ SInv' /\ TransparencyRules /\ [Next]_vars
        => [Undisturbed!Next]_<<Visible(Main), MainStage>>
  BY StepMaps
<1>4. Init => Undisturbed!Init
  BY FirstSeen
<1>5. Undisturbed!Init /\ [][Undisturbed!Next]_<<Visible(Main), MainStage>> => Undisturbed!Spec
  BY DEF Undisturbed!Spec
<1>. HIDE DEF SInv
<1>6. Spec /\ []TransparencyRules
        => Undisturbed!Init /\ [][Undisturbed!Next]_<<Visible(Main), MainStage>>
  BY <1>1, <1>2, <1>3, <1>4, PTL DEF Spec
<1>. QED BY <1>5, <1>6 DEF MainProgramUndisturbed
==============================================================================
