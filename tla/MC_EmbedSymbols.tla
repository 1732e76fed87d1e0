--------------------------- MODULE MC_EmbedSymbols ---------------------------
(***************************************************************************)
(* nm outputs of up to MaxLines lines drawn from NmLines: two text        *)
(* symbols at the same address (an alias), a local text symbol, a data    *)
(* symbol, an undefined symbol (no address), a local label and the start  *)
(* marker's own symbol.  Images: a region that holds exactly one entry,   *)
(* one that holds two, and images with a marker missing, repeated, or the *)
(* end marker before the start marker.                                     *)
(***************************************************************************)
EXTENDS EmbedSymbols

MaxLines == 3

NmLines ==
  { [addr |-> 8, type |-> "T", name |-> "f"],
    [addr |-> 8, type |-> "t", name |-> "g"],
    [addr |-> 4, type |-> "t", name |-> "h"],
    [addr |-> 4, type |-> "D", name |-> "d"],
    [addr |-> BadAddr, type |-> "U", name |-> "f"],
    [addr |-> 4, type |-> "t", name |-> ".L0"],
    [addr |-> 0, type |-> "D", name |-> "__symbol_table"] }

MCNmFiles == SeqOf(NmLines, MaxLines)

Data(n) == [kind |-> "data", len |-> n]
S == [kind |-> "start"]
E == [kind |-> "end"]

\* 22 + 38 + 20 = 80 bytes = TableSize(1); 22 + 102 + 20 = 144 = TableSize(2).
MCImages ==
  { << Data(8), S, Data(38), E, Data(8) >>,
    << Data(8), S, Data(102), E >>,
    << Data(8), Data(38), E >>,
    << S, Data(102), E, S >>,
    << E, Data(102), S >> }

=============================================================================
