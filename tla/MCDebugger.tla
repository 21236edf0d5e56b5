----------------------------- MODULE MCDebugger -----------------------------
(***************************************************************************)
(* An instance of Debugger: a program of two records that overlap, its     *)
(* start address in the first byte pair after zero, and a file that ends   *)
(* in something else.  PC takes values in sequence, out of it, at the end  *)
(* of memory and at the address a routine returns to.                      *)
(***************************************************************************)
EXTENDS Debugger

Rec(type, high, low, data, checksum) ==
  [S |-> TRUE, type |-> type, address |-> <<high, low>>, data |-> data, checksum |-> checksum]

MCProgram ==
  <<Rec(0, 0, 0, <<77>>, 0),
    Rec(1, 0, 16, <<200, 100, 7>>, 182),
    Rec(1, 0, 18, <<9, 8>>, 215),
    Rec(5, 0, 2, << >>, 250),
    Rec(9, 0, 2, << >>, 250)>>

MCFiles == {MCProgram,
            <<Rec(9, 0, 2, << >>, 250), [S |-> FALSE, type |-> 1, address |-> <<0, 16>>,
                                         data |-> <<1>>, checksum |-> 0]>>}

MCCycleInputs == {-2, 0, 3}
MCAddresses   == (0..23) \cup {65534, 65535}
=============================================================================
