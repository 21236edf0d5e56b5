-------------------------------- MODULE Alu --------------------------------
(***************************************************************************)
(* The instructions that work on registers alone: Two_Operand_instructions,*)
(* Single_Register_manipulation_and_initialization_instructions, the flags *)
(* of update_PSW and the conditions of Branching_instructions.             *)
(*                                                                         *)
(* Every instruction is an operator from the machine m to the machine      *)
(* after it: m.REG, the flags m.PSW, and m.high, the high byte of the      *)
(* hidden temp_reg_A, which outlives the instruction.  (The low byte is    *)
(* always written before it is read.)  The width of a byte is a parameter, *)
(* 8 in the code; all arithmetic wraps at it.  The registers are general   *)
(* ones; that REG[6] and REG[7] are PSW and PC is left out.                *)
(***************************************************************************)
EXTENDS Integers, Sequences

CONSTANTS
  ByteBits,         \* bits of a byte, two BCD digits
  BCD_VALUE_LIMIT,  \* base of a BCD digit: 10
  Regs,             \* register numbers
  Constants,        \* the indices of Const_table that programs use
  Values,           \* operands of MOVL, MOVLZ and MOVH that programs use
  TwoOperand,       \* the instructions that programs use
  SingleRegister

ASSUME AluAssumption ==
  /\ ByteBits \in Nat /\ ByteBits % 2 = 0 /\ ByteBits > 0
  /\ BCD_VALUE_LIMIT \in 2..2^(ByteBits \div 2)
  /\ Regs \subseteq 0..7 /\ Regs # {}
  /\ Constants \subseteq 0..7
  /\ Values \subseteq 0..(2^ByteBits - 1)
  /\ TwoOperand \subseteq {"ADD", "ADDC", "SUB", "SUBC", "DADD", "CMP", "XOR", "AND",
                           "BIT", "BIC", "BIS", "MOV", "SWAP"}
  /\ SingleRegister \subseteq {"SRA", "RRC", "SWPB", "SXT"}

WORD == 0
BYTE == 1
Sizes == {WORD, BYTE}

Bits(size)  == IF size = WORD THEN 2 * ByteBits ELSE ByteBits
Bytes       == 0..(2^ByteBits - 1)
Words       == 0..(2^(2 * ByteBits) - 1)
LSB(x)      == x % 2^ByteBits
MSB(x)      == x \div 2^ByteBits
Join(h, l)  == h * 2^ByteBits + l

BIT_CHECK(x, bit) == (x \div 2^bit) % 2
MSBi(size)        == Bits(size) - 1

\* x with the part an operation of this size works on replaced by that of y.
Replace(x, y, size) == IF size = WORD THEN y ELSE Join(MSB(x), LSB(y))

Not(x) == 2^(2 * ByteBits) - 1 - x

\* The bitwise operators, by what they make of two bits.
XorBits(p, q) == (p + q) % 2
AndBits(p, q) == p * q
OrBits(p, q)  == p + q - p * q

BitwiseByte(Op(_, _), x, y) ==
  CHOOSE z \in Bytes :
    \A b \in 0..MSBi(BYTE) : BIT_CHECK(z, b) = Op(BIT_CHECK(x, b), BIT_CHECK(y, b))

Bitwise(Op(_, _), x, y) ==
  Join(BitwiseByte(Op, MSB(x), MSB(y)), BitwiseByte(Op, LSB(x), LSB(y)))

VARIABLE cpu

vars == <<cpu>>

Flags == [C : 0..1, Z : 0..1, N : 0..1, V : 0..1]

Init == cpu = [REG |-> [r \in Regs |-> 0],
               PSW |-> [C |-> 0, Z |-> 0, N |-> 0, V |-> 0],
               high |-> 0]

-----------------------------------------------------------------------------
\* The tables, as sets of <<SRC, DST, RES>>.
carry    == {<<0, 1, 0>>, <<1, 0, 0>>, <<1, 1, 0>>, <<1, 1, 1>>}
overflow == {<<0, 0, 1>>, <<1, 1, 0>>}

Flag(condition) == IF condition THEN 1 ELSE 0

update_PSW(src, dst, res, size) ==
  LET signs == <<BIT_CHECK(src, MSBi(size)), BIT_CHECK(dst, MSBi(size)),
                 BIT_CHECK(res, MSBi(size))>>
  IN  [C |-> Flag(signs \in carry),
       Z |-> Flag(res % 2^Bits(size) = 0),
       N |-> signs[3],
       V |-> Flag(signs \in overflow)]

Const_table == <<0, 1, 2, 4, 8, 32, 48, -1>>

REGISTER == 0
CONSTANT_ == 1

\* What an instruction takes from its source field.
Operand(m, REG_or_CON, source) ==
  IF REG_or_CON = REGISTER THEN m.REG[source]
  ELSE Const_table[source + 1] % 2^(2 * ByteBits)

\* The end of an instruction whose result, in temp_reg_A, goes to a register.
Write(m, dst, res, PSW) ==
  [m EXCEPT !.REG[dst] = res, !.PSW = PSW, !.high = MSB(res)]

-----------------------------------------------------------------------------
(***************************************************************************)
(* Two-operand instructions: s is the operand, dst the register.           *)
(***************************************************************************)

\* Mutant of Sum: the result of a byte operation carries into the high byte.
WideSum(src, dst, carry_in, size) == (dst + src + carry_in) % 2^(2 * ByteBits)

\* Mutant of Sum: the sum is kept in a wider variable.
IntSum(src, dst, carry_in, size) ==
  IF size = WORD THEN dst + src + carry_in ELSE Join(MSB(dst), LSB(dst + src + carry_in))

\* The sum in temp_reg_A: a byte addition leaves the high byte of dst.
Sum(src, dst, carry_in, size) ==
  Replace(dst, (dst + src + carry_in) % 2^(2 * ByteBits), size)

arrithmetic(m, src, dst, carry_in, size) ==
  LET res == Sum(src, m.REG[dst], carry_in, size)
  IN  Write(m, dst, res, update_PSW(src, m.REG[dst], res, size))

ADD(m, s, dst, size)  == arrithmetic(m, s, dst, 0, size)
ADDC(m, s, dst, size) == arrithmetic(m, s, dst, m.PSW.C, size)
SUB(m, s, dst, size)  == arrithmetic(m, Not(s), dst, 1, size)

\* Mutant of SUBC: the borrow is added as if it were a carry of its own.
SubNoCarry(m, s, dst, size) == arrithmetic(m, Not(s), dst, 1 - m.PSW.C, size)

SUBC(m, s, dst, size) == arrithmetic(m, Not(s), dst, m.PSW.C, size)

CMP(m, s, dst, size) == [arrithmetic(m, Not(s), dst, 1, size) EXCEPT !.REG = m.REG]

Digit(x, k) == (x \div 2^(k * (ByteBits \div 2))) % 2^(ByteBits \div 2)

\* Mutant of bcd_add: the carry is never cleared.
StickyCarry(x, y, c) ==
  LET res == x + y + c
  IN  IF res >= BCD_VALUE_LIMIT THEN [res |-> res - BCD_VALUE_LIMIT, carry |-> 1]
                                ELSE [res |-> res, carry |-> c]

\* One decimal digit and the carry.
bcd_add(x, y, c) ==
  LET res == x + y + c
  IN  IF res >= BCD_VALUE_LIMIT THEN [res |-> res - BCD_VALUE_LIMIT, carry |-> 1]
                                ELSE [res |-> res, carry |-> 0]

\* The number with these digits, the lowest first, in fields of half a byte.
Digits(n0, n1, n2, n3) ==
  LET limit == 2^(ByteBits \div 2)
  IN  Join((n3 % limit) * limit + (n2 % limit), (n1 % limit) * limit + (n0 % limit))

\* Digit by digit from the lowest, in temp_reg_A.
DADD(m, s, dst, size) ==
  LET d    == m.REG[dst]
      n0   == bcd_add(Digit(s, 0), Digit(d, 0), m.PSW.C)
      n1   == bcd_add(Digit(s, 1), Digit(d, 1), n0.carry)
      n2   == bcd_add(Digit(s, 2), Digit(d, 2), n1.carry)
      n3   == bcd_add(Digit(s, 3), Digit(d, 3), n2.carry)
  IN  Write(m, dst, Replace(d, Digits(n0.res, n1.res, n2.res, n3.res), size),
            [m.PSW EXCEPT !.C = IF size = WORD THEN n3.carry ELSE n1.carry])

\* The byte form writes the low byte of temp_reg_A only, and stores all of it.
XOR(m, s, dst, size) ==
  LET x   == Bitwise(XorBits, m.REG[dst], s)
      res == IF size = WORD THEN x ELSE Join(m.high, LSB(x))
  IN  Write(m, dst, res, update_PSW(s, m.REG[dst], res, size))

AND(m, s, dst, size) ==
  LET res == Replace(m.REG[dst], Bitwise(AndBits, m.REG[dst], s), size)
  IN  Write(m, dst, res, update_PSW(s, m.REG[dst], res, size))

BIT(m, s, dst, size) ==
  LET x   == Bitwise(AndBits, m.REG[dst], s)
      res == IF size = WORD THEN x ELSE Join(m.high, LSB(x))
  IN  [m EXCEPT !.PSW = update_PSW(s, m.REG[dst], res, size), !.high = MSB(res)]

\* BIC and BIS set N by the size of the operation, and Z by the whole register.
StoreBits(m, dst, res, size) ==
  [m EXCEPT !.REG[dst] = res,
            !.PSW.N = BIT_CHECK(res, MSBi(size)),
            !.PSW.Z = Flag(res = 0)]

BIC(m, s, dst, size) ==
  StoreBits(m, dst, Replace(m.REG[dst], Bitwise(AndBits, m.REG[dst], Not(s)), size), size)
BIS(m, s, dst, size) ==
  StoreBits(m, dst, Replace(m.REG[dst], Bitwise(OrBits, m.REG[dst], s), size), size)

MOV(m, s, dst, size) == [m EXCEPT !.REG[dst] = Replace(@, s, size)]

\* Mutant of SWAP: dst is overwritten before it is saved.
SwapUnsaved(m, source, dst) ==
  [m EXCEPT !.REG[dst] = m.REG[source], !.high = MSB(m.REG[source])]

\* SWAP names a source register whatever REG_or_CON says.
SWAP(m, source, dst) ==
  [m EXCEPT !.REG[dst] = m.REG[source], !.REG[source] = m.REG[dst],
            !.high = MSB(m.REG[dst])]

two_operand_execution(m, inst, REG_or_CON, size, source, dst) ==
  LET s == Operand(m, REG_or_CON, source)
  IN  CASE inst = "ADD"  -> ADD(m, s, dst, size)
        [] inst = "ADDC" -> ADDC(m, s, dst, size)
        [] inst = "SUB"  -> SUB(m, s, dst, size)
        [] inst = "SUBC" -> SUBC(m, s, dst, size)
        [] inst = "DADD" -> DADD(m, s, dst, size)
        [] inst = "CMP"  -> CMP(m, s, dst, size)
        [] inst = "XOR"  -> XOR(m, s, dst, size)
        [] inst = "AND"  -> AND(m, s, dst, size)
        [] inst = "BIT"  -> BIT(m, s, dst, size)
        [] inst = "BIC"  -> BIC(m, s, dst, size)
        [] inst = "BIS"  -> BIS(m, s, dst, size)
        [] inst = "MOV"  -> MOV(m, s, dst, size)
        [] inst = "SWAP" -> SWAP(m, source, dst)

-----------------------------------------------------------------------------
(***************************************************************************)
(* Single-register instructions, register initialisation and branching.    *)
(***************************************************************************)

\* Shifting right by one bit with "top" coming in.
ShiftRight(x, top, size) ==
  Replace(x, (x % 2^Bits(size)) \div 2 + top * 2^MSBi(size), size)

\* Both shifts leave the bit that falls out in C.
Shifted(m, dst, res, size) ==
  Write(m, dst, res,
        [update_PSW(m.REG[dst], m.REG[dst], res, size) EXCEPT !.C = m.REG[dst] % 2])

\* Mutant of SRA: a byte shift takes the sign of the word.
ShiftWordSign(m, dst, size) ==
  Shifted(m, dst, ShiftRight(m.REG[dst], BIT_CHECK(m.REG[dst], MSBi(WORD)), size), size)

SRA(m, dst, size) ==
  Shifted(m, dst, ShiftRight(m.REG[dst], BIT_CHECK(m.REG[dst], MSBi(size)), size), size)

\* Mutant of RRC: C is left as update_PSW sets it.
RotateTableCarry(m, dst, size) ==
  LET res == ShiftRight(m.REG[dst], m.PSW.C, size)
  IN  Write(m, dst, res, update_PSW(m.REG[dst], m.REG[dst], res, size))

RRC(m, dst, size) == Shifted(m, dst, ShiftRight(m.REG[dst], m.PSW.C, size), size)

SWPB(m, dst) ==
  [m EXCEPT !.REG[dst] = Join(LSB(@), MSB(@)), !.high = MSB(m.REG[dst])]

SXT(m, dst, size) ==
  LET x   == m.REG[dst]
      res == Join(IF BIT_CHECK(x, MSBi(BYTE)) = 1 THEN 2^ByteBits - 1 ELSE 0, LSB(x))
  IN  Write(m, dst, res, update_PSW(x, x, res, size))

single_register_execution(m, inst, size, dst) ==
  CASE inst = "SRA"  -> SRA(m, dst, size)
    [] inst = "RRC"  -> RRC(m, dst, size)
    [] inst = "SWPB" -> SWPB(m, dst)
    [] inst = "SXT"  -> SXT(m, dst, size)

MOVL(m, dst, value)  == [m EXCEPT !.REG[dst] = Join(MSB(@), value)]
MOVLZ(m, dst, value) == [m EXCEPT !.REG[dst] = value]
MOVH(m, dst, value)  == [m EXCEPT !.REG[dst] = Join(value, LSB(@))]

\* Mutant of Branches: BC/BHS and BNC/BLO are in each other's place.
BranchesCarryInverted(inst, PSW) ==
  CASE inst = "BEQ_BZ"  -> PSW.Z = 1
    [] inst = "BNE_BNZ" -> PSW.Z = 0
    [] inst = "BC_BHS"  -> PSW.C = 0
    [] inst = "BNC_BLO" -> PSW.C = 1
    [] inst = "BN"      -> PSW.Z = 1
    [] inst = "BGE"     -> PSW.Z = PSW.V
    [] inst = "BLT"     -> PSW.Z # PSW.V
    [] inst \in {"BAL", "BL"} -> TRUE

\* Whether a branch adds its offset to PC.  BN tests Z, and the signed branches
\* compare Z with V.
Branches(inst, PSW) ==
  CASE inst = "BEQ_BZ"  -> PSW.Z = 1
    [] inst = "BNE_BNZ" -> PSW.Z = 0
    [] inst = "BC_BHS"  -> PSW.C = 1
    [] inst = "BNC_BLO" -> PSW.C = 0
    [] inst = "BN"      -> PSW.Z = 1
    [] inst = "BGE"     -> PSW.Z = PSW.V
    [] inst = "BLT"     -> PSW.Z # PSW.V
    [] inst \in {"BAL", "BL"} -> TRUE

-----------------------------------------------------------------------------
\* The sources of a two-operand instruction: <<REG_or_CON, source>>.
Sources(inst) ==
  {<<REGISTER, r>> : r \in Regs}
    \cup IF inst = "SWAP" THEN {} ELSE {<<CONSTANT_, k>> : k \in Constants}

two_operand ==
  \E inst \in TwoOperand, size \in Sizes, dst \in Regs : \E from \in Sources(inst) :
    cpu' = two_operand_execution(cpu, inst, from[1], size, from[2], dst)

single_register ==
  \E inst \in SingleRegister, size \in Sizes, dst \in Regs :
    cpu' = single_register_execution(cpu, inst, size, dst)

register_initialization ==
  \E dst \in Regs, value \in Values :
    cpu' \in {MOVL(cpu, dst, value), MOVLZ(cpu, dst, value), MOVH(cpu, dst, value)}

\* interrupt_handling_process keeps the priority, a small number, in temp_reg_A.
interrupt == cpu' = [cpu EXCEPT !.high = 0]

Next == two_operand \/ single_register \/ register_initialization \/ interrupt

Spec == Init /\ [][Next]_vars

-----------------------------------------------------------------------------
(***************************************************************************)
(* Properties.  Most are about what the next instructions, from any state  *)
(* a program reaches, compute, against plain integer arithmetic.           *)
(***************************************************************************)

\* Registers, flags and temp_reg_A keep their width.
TypeOK == cpu \in [REG : [Regs -> Words], PSW : Flags, high : Bytes]

Part(x, size)   == x % 2^Bits(size)
Signed(x, size) == IF Part(x, size) < 2^MSBi(size) THEN Part(x, size)
                   ELSE Part(x, size) - 2^Bits(size)

\* What an addition of a and b, already cut to the size, and c must give.
ExactSum(m, dst, a, b, c, size) ==
  LET signed == Signed(a, size) + Signed(b, size) + c
  IN  /\ Part(m.REG[dst], size) = (a + b + c) % 2^Bits(size)
      /\ m.PSW.C = (a + b + c) \div 2^Bits(size)
      /\ m.PSW.V = Flag(signed < -(2^MSBi(size)) \/ signed >= 2^MSBi(size))
      /\ m.PSW.N = Flag(Signed(m.REG[dst], size) < 0)
      /\ m.PSW.Z = Flag(Part(m.REG[dst], size) = 0)

\* Addition and subtraction, alone or as a link of a longer chain through C, give
\* the exact sum and difference modulo the size, and the flags say what was lost:
\* C the unsigned carry (for a subtraction: no borrow), V the signed overflow.
ArithmeticExact ==
  \A size \in Sizes, dst \in Regs, src \in Regs :
    LET a == Part(cpu.REG[dst], size)
        b == Part(cpu.REG[src], size)
        minus == 2^Bits(size) - 1 - b
        Result(inst) == two_operand_execution(cpu, inst, REGISTER, size, src, dst)
    IN  /\ ExactSum(Result("ADD"), dst, a, b, 0, size)
        /\ ExactSum(Result("ADDC"), dst, a, b, cpu.PSW.C, size)
        /\ ExactSum(Result("SUB"), dst, a, minus, 1, size)
        /\ ExactSum(Result("SUBC"), dst, a, minus, cpu.PSW.C, size)

Compared(size, dst, src) ==
  two_operand_execution(cpu, "CMP", REGISTER, size, src, dst).PSW

\* After a comparison the unsigned branches follow the order of the operands:
\* BEQ, BNE, BHS and BLO branch exactly when dst is equal to, not equal to, at
\* least and less than src.
UnsignedBranches ==
  \A size \in Sizes, dst \in Regs, src \in Regs :
    LET PSW == Compared(size, dst, src)
        a   == Part(cpu.REG[dst], size)
        b   == Part(cpu.REG[src], size)
    IN  /\ Branches("BEQ_BZ", PSW) <=> a = b
        /\ Branches("BNE_BNZ", PSW) <=> a # b
        /\ Branches("BC_BHS", PSW) <=> a >= b
        /\ Branches("BNC_BLO", PSW) <=> a < b

\* A byte operation leaves the high byte of its register alone.  XOR is the
\* exception: it stores the high byte an earlier instruction left behind.
ByteKeepsHigh ==
  \A inst \in TwoOperand \ {"XOR", "SWAP"}, dst \in Regs, src \in Regs :
    MSB(two_operand_execution(cpu, inst, REGISTER, BYTE, src, dst).REG[dst])
      = MSB(cpu.REG[dst])

\* The machine after n executions of an instruction.
Repeat(Op(_), n) ==
  LET after[k \in 0..n] == IF k = 0 THEN cpu ELSE Op(after[k - 1])
  IN  after[n]

\* RRC rotates through the carry: register and C together are a ring of 17 bits,
\* or 9, and as many rotations restore both.
RotationRestores ==
  \A size \in Sizes, dst \in Regs :
    LET m == Repeat(LAMBDA n : RRC(n, dst, size), Bits(size) + 1)
    IN  m.REG = cpu.REG /\ m.PSW.C = cpu.PSW.C

\* The sign survives: SRA "effectively divides the number by 2", rounding down, and
\* "performing the instruction of the same value enough times" ends in 0 or -1; SXT
\* makes a word of the signed value of the low byte, N and Z tell its sign, and
\* shifting it as a word gives what shifting the byte gives.
SignSurvives ==
  \A dst \in Regs :
    LET Shift(m, size) == SRA(m, dst, size)
        wide == SXT(cpu, dst, WORD)
    IN  /\ \A size \in Sizes :
             LET x == Signed(cpu.REG[dst], size)
                 m == Repeat(LAMBDA n : Shift(n, size), MSBi(size))
             IN  /\ Signed(Shift(cpu, size).REG[dst], size) = x \div 2
                 /\ Signed(m.REG[dst], size) = IF x < 0 THEN -1 ELSE 0
        /\ Signed(wide.REG[dst], WORD) = Signed(cpu.REG[dst], BYTE)
        /\ wide.PSW.N = Flag(Signed(wide.REG[dst], WORD) < 0)
        /\ wide.PSW.Z = Flag(wide.REG[dst] = 0)
        /\ Signed(Shift(wide, WORD).REG[dst], WORD) = Signed(Shift(cpu, BYTE).REG[dst], BYTE)

\* Three XORs of two registers exchange them, as SWAP does.
XorSwaps ==
  \A r, s \in Regs :
    r # s =>
      LET X(m, dst, src) == two_operand_execution(m, "XOR", REGISTER, WORD, src, dst)
      IN  X(X(X(cpu, r, s), s, r), r, s).REG
            = two_operand_execution(cpu, "SWAP", REGISTER, WORD, s, r).REG

IsDecimal(x) == \A k \in 0..3 : Digit(x, k) < BCD_VALUE_LIMIT
Decimal(x, size) ==
  Digit(x, 0) + BCD_VALUE_LIMIT * Digit(x, 1)
    + IF size = WORD
      THEN BCD_VALUE_LIMIT^2 * Digit(x, 2) + BCD_VALUE_LIMIT^3 * Digit(x, 3) ELSE 0

\* DADD adds decimal numbers: for operands made of decimal digits the result is
\* made of decimal digits too, it is the sum, and C is the decimal carry, so that
\* longer numbers can be added from word to word.
DecimalExact ==
  \A size \in Sizes, dst \in Regs, src \in Regs :
    IsDecimal(cpu.REG[dst]) /\ IsDecimal(cpu.REG[src]) =>
      LET m     == two_operand_execution(cpu, "DADD", REGISTER, size, src, dst)
          sum   == Decimal(cpu.REG[dst], size) + Decimal(cpu.REG[src], size) + cpu.PSW.C
          limit == BCD_VALUE_LIMIT^(IF size = WORD THEN 4 ELSE 2)
      IN  /\ IsDecimal(m.REG[dst])
          /\ Decimal(m.REG[dst], size) + m.PSW.C * limit = sum

(***************************************************************************)
(* What comments of the source say and the code does not do.               *)
(***************************************************************************)

\* "Branching if greater or equal (signed)" and "if less (signed)".
SignedBranches ==
  \A size \in Sizes, dst \in Regs, src \in Regs :
    LET PSW == Compared(size, dst, src)
        a   == Signed(cpu.REG[dst], size)
        b   == Signed(cpu.REG[src], size)
    IN  /\ Branches("BGE", PSW) <=> a >= b
        /\ Branches("BLT", PSW) <=> a < b
=============================================================================
