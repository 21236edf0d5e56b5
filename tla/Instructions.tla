---------------------------- MODULE Instructions ----------------------------
(***************************************************************************)
(* Decoding and execution of a word in IX (decode and execute of           *)
(* CPU_operations.cpp, with the bit fields of the instruction headers).    *)
(* The register instructions are those of Alu, with bytes of eight bits.   *)
(***************************************************************************)
EXTENDS Processor, Sequences

A == INSTANCE Alu WITH
       ByteBits <- 8, BCD_VALUE_LIMIT <- 10, Regs <- Registers, Constants <- 0..7,
       Values <- 0..255, TwoOperand <- {}, SingleRegister <- {}, cpu <- 0

\* The arrays of functions.
two_operand_execution ==
  <<"ADD", "ADDC", "SUB", "SUBC", "DADD", "CMP", "XOR", "AND", "BIT", "BIC", "BIS", "MOV", "SWAP">>
single_register_execution       == <<"SRA", "RRC", "SWPB", "SXT">>
register_initialization_execution == <<"MOVL", "MOVLZ", "MOVH">>
direct_memory_access_execution   == <<"LD", "ST">>
relative_memory_access_execution == <<"LDR", "STR">>
conditional_branching_execution  ==
  <<"BEQ_BZ", "BNE_BNZ", "BC_BHS", "BNC_BLO", "BN", "BGE", "BLT", "BAL">>

TWO_OP_INST_CODE_LIMIT     == 12
SINGLE_REG_INST_CODE_LIMIT == 3
REG_INIT_INST_CODE_START   == 2

INVALID_INST == "INVALID_INST"

\* The type of an instruction.
decode(IX) ==
  CASE Field(IX, 14, 2) = 0 -> IF Field(IX, 13, 1) = 0 THEN "branch_with_link"
                               ELSE "conditional_branch"
    [] Field(IX, 14, 2) = 1 -> IF Field(IX, 8, 1) = 0 THEN "two_operand" ELSE "single_register"
    [] Field(IX, 14, 2) = 2 -> IF Field(IX, 11, 3) < REG_INIT_INST_CODE_START
                               THEN "direct_memory_access" ELSE "register_initialization"
    [] Field(IX, 14, 2) = 3 -> "relative_memory_access"

\* The array of a type, the index execute takes from the word, and the codes it
\* refuses beforehand.
Table(type) ==
  CASE type = "two_operand"             -> two_operand_execution
    [] type = "single_register"         -> single_register_execution
    [] type = "register_initialization" -> register_initialization_execution
    [] type = "direct_memory_access"    -> direct_memory_access_execution
    [] type = "relative_memory_access"  -> relative_memory_access_execution
    [] type = "conditional_branch"      -> conditional_branching_execution
    [] type = "branch_with_link"        -> <<"BL">>

Index(type, IX) ==
  CASE type = "two_operand"             -> Field(IX, 9, 4)
    [] type = "single_register"         -> Field(IX, 9, 3)
    [] type = "register_initialization" -> Field(IX, 11, 3) - REG_INIT_INST_CODE_START
    [] type = "direct_memory_access"    -> Field(IX, 11, 3)
    [] type = "relative_memory_access"  -> Field(IX, 13, 1)
    [] type = "conditional_branch"      -> Field(IX, 10, 3)
    [] type = "branch_with_link"        -> 0

\* Mutant of Refused: the codes of register initialisation are not shifted.
RefusedUnshifted(type, index) ==
  \/ type = "two_operand" /\ index > TWO_OP_INST_CODE_LIMIT
  \/ type = "single_register" /\ index > SINGLE_REG_INST_CODE_LIMIT
  \/ type = "register_initialization" /\ index > REG_INIT_INST_CODE_START + 2

Refused(type, index) ==
  \/ type = "two_operand" /\ index > TWO_OP_INST_CODE_LIMIT
  \/ type = "single_register" /\ index > SINGLE_REG_INST_CODE_LIMIT
  \/ type = "register_initialization" /\ index > REG_INIT_INST_CODE_START

\* The instruction a word stands for.
Instruction(IX) ==
  LET type == decode(IX)
      i    == Index(type, IX)
  IN  IF Refused(type, i) THEN INVALID_INST ELSE Table(type)[i + 1]

\* A word that stands for no instruction changes nothing.
execute(m) ==
  LET IX     == m.IX
      inst   == Instruction(IX)
      type   == decode(IX)
      dst    == Field(IX, 0, 3)
      source == Field(IX, 3, 3)
      size   == Field(IX, 6, 1)
  IN  IF inst = INVALID_INST THEN m ELSE
      CASE inst = "BL" -> BL(m, 2 * Extended(Field(IX, 0, 13), 13))
        [] type = "conditional_branch" ->
             IF A!Branches(inst, m.PSW)
             THEN [m EXCEPT !.REG[PC] = Wrap(@ + 2 * Extended(Field(IX, 0, 10), 10))] ELSE m
        [] type = "two_operand" ->
             A!two_operand_execution(m, inst, Field(IX, 7, 1), size, source, dst)
        [] type = "single_register" -> A!single_register_execution(m, inst, size, dst)
        [] inst = "MOVL"  -> A!MOVL(m, dst, Field(IX, 3, 8))
        [] inst = "MOVLZ" -> A!MOVLZ(m, dst, Field(IX, 3, 8))
        [] inst = "MOVH"  -> A!MOVH(m, dst, Field(IX, 3, 8))
        [] inst = "LD"  -> LD(m, Field(IX, 8, 3), size, source, dst)
        [] inst = "ST"  -> ST(m, Field(IX, 8, 3), size, source, dst)
        [] inst = "LDR" -> LDR(m, Extended(Field(IX, 7, 6), 6), size, source, dst)
        [] inst = "STR" -> STR(m, Extended(Field(IX, 7, 6), 6), size, source, dst)
=============================================================================
