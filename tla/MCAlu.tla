------------------------------- MODULE MCAlu -------------------------------
(***************************************************************************)
(* Small instances of Alu.                                                 *)
(***************************************************************************)
EXTENDS Alu

\* All but DADD as steps: DADD is executed by DecimalExact, from every state.
MCTwoOperand ==
  {"ADD", "ADDC", "SUB", "SUBC", "CMP", "XOR", "AND", "BIT", "BIC", "BIS", "MOV", "SWAP"}
MCSingleRegister == {"SRA", "RRC", "SWPB", "SXT"}
=============================================================================
