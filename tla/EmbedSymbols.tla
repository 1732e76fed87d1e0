----------------------------- MODULE EmbedSymbols -----------------------------
(***************************************************************************)
(* tools/embed_symbols.py: embeds the kernel's symbol table into the      *)
(* region of the image that lies between the __SYMBOL_TABLE_START__ and    *)
(* __SYMBOL_TABLE_END__ markers.                                           *)
(*                                                                         *)
(* main() reads `nm` output line by line into the dict `symbols` (address *)
(* -> name, text symbols only), finds the two markers, checks that each    *)
(* occurs once, packs a 16-byte header and a 64-byte entry per symbol in  *)
(* address order, pads it to the region, splices it over the region and   *)
(* writes the image.                                                       *)
(*                                                                         *)
(* An nm line is abstracted to its address (or BadAddr when the first      *)
(* column is not hexadecimal), type letter and name.  The image is a       *)
(* sequence of pieces: a marker, or a run of other bytes with its length;  *)
(* other bytes never spell a marker.                                       *)
(***************************************************************************)
EXTENDS Integers, Sequences, SequencesExt, TLC

CONSTANTS
  NmFiles,      \* the nm outputs (sequences of lines) the build may produce
  Images,       \* the kernel images (sequences of pieces)
  BadAddr,      \* a first column that int(_, 16) rejects
  DottedNames,  \* names that start with "."
  START_LEN,    \* len(b"__SYMBOL_TABLE_START__")
  END_LEN,      \* len(b"__SYMBOL_TABLE_END__")
  None

VARIABLES
  nm,         \* the lines of args.symbolsfile
  image,      \* the bytes of args.infile
  pc,         \* "lines", "done"
  i,          \* the next line
  symbols,    \* the dict symbols: address -> name
  exit_code,  \* None while running, then the exit status
  written     \* the image written to args.outfile, or None

vars == <<nm, image, pc, i, symbols, exit_code, written>>

PieceLen(p) == IF p.kind = "start" THEN START_LEN
               ELSE IF p.kind = "end" THEN END_LEN ELSE p.len
Bytes(ps) == FoldLeft(LAMBDA acc, p : acc + PieceLen(p), 0, ps)

\* image.count(marker), and image.find(marker): the index of its first
\* piece and the byte offset at which it starts, or -1 when it is absent.
Count(kind) == Len(SelectSeq(image, LAMBDA p : p.kind = kind))
PieceOf(kind) == SelectInSeq(image, LAMBDA p : p.kind = kind)
Find(kind) == IF Count(kind) = 0 THEN -1 ELSE Bytes(SubSeq(image, 1, PieceOf(kind) - 1))

TableSize(n) == 16 + 64 * n

Init ==
  /\ nm \in NmFiles
  /\ image \in Images
  /\ pc = "lines"
  /\ i = 1
  /\ symbols = <<>>
  /\ exit_code = None
  /\ written = None

\* `continue` on a line whose address does not parse, whose name starts
\* with ".", or that is neither a marker nor a "T"/"t" symbol.  A marker
\* line sets start_off or end_off, which main() overwrites later.
SkipLine ==
  /\ pc = "lines"
  /\ i <= Len(nm)
  /\ \/ nm[i].addr = BadAddr
     \/ nm[i].name \in DottedNames
     \/ nm[i].type \notin {"T", "t"}
     \/ nm[i].name \in {"__symbol_table", "__symbol_table_end"}
  /\ i' = i + 1
  /\ UNCHANGED <<nm, image, pc, symbols, exit_code, written>>

\* Mutant: the first name seen at an address is kept.
AddSymbolFirstWins ==
  /\ pc = "lines"
  /\ i <= Len(nm)
  /\ nm[i].addr # BadAddr
  /\ nm[i].name \notin DottedNames \cup {"__symbol_table", "__symbol_table_end"}
  /\ nm[i].type \in {"T", "t"}
  /\ symbols' = symbols @@ (nm[i].addr :> nm[i].name)
  /\ i' = i + 1
  /\ UNCHANGED <<nm, image, pc, exit_code, written>>

\* symbols[addr] = name: a later line at the same address replaces the name.
AddSymbol ==
  /\ pc = "lines"
  /\ i <= Len(nm)
  /\ nm[i].addr # BadAddr
  /\ nm[i].name \notin DottedNames \cup {"__symbol_table", "__symbol_table_end"}
  /\ nm[i].type \in {"T", "t"}
  /\ symbols' = (nm[i].addr :> nm[i].name) @@ symbols
  /\ i' = i + 1
  /\ UNCHANGED <<nm, image, pc, exit_code, written>>

\* Mutant: the check prints and returns instead of sys.exit(msg).
MarkersBadReturns ==
  /\ pc = "lines"
  /\ i > Len(nm)
  /\ Count("start") # 1 \/ Count("end") # 1
  /\ exit_code' = 0
  /\ pc' = "done"
  /\ UNCHANGED <<nm, image, i, symbols, written>>

\* After the loop: a marker is missing or repeated.  (find() returns -1,
\* never None, so only the count checks can fire.)
MarkersBad ==
  /\ pc = "lines"
  /\ i > Len(nm)
  /\ Count("start") # 1 \/ Count("end") # 1
  /\ exit_code' = 1
  /\ pc' = "done"
  /\ UNCHANGED <<nm, image, i, symbols, written>>

\* The region from the start marker to the end of the end marker.
MaxSize == Find("end") + END_LEN - Find("start")

\* "symbol table too big" (also when the end marker precedes the start).
TableTooBig ==
  /\ pc = "lines"
  /\ i > Len(nm)
  /\ Count("start") = 1 /\ Count("end") = 1
  /\ TableSize(Cardinality(DOMAIN symbols)) > MaxSize
  /\ exit_code' = 1
  /\ pc' = "done"
  /\ UNCHANGED <<nm, image, i, symbols, written>>

\* Sort by address, pack, pad to the region and splice it in place of
\* the region; the image keeps its length (the assert), and is written.
Embed ==
  /\ pc = "lines"
  /\ i > Len(nm)
  /\ Count("start") = 1 /\ Count("end") = 1
  /\ TableSize(Cardinality(DOMAIN symbols)) <= MaxSize
  /\ LET sorted == SortSeq(SetToSeq({[addr |-> a, name |-> symbols[a]] : a \in DOMAIN symbols}),
                           LAMBDA x, y : x.addr < y.addr)
         table  == [kind |-> "table", len |-> MaxSize, entries |-> sorted]
         new    == SubSeq(image, 1, PieceOf("start") - 1) \o << table >>
                     \o SubSeq(image, PieceOf("end") + 1, Len(image))
     IN /\ Bytes(new) = Bytes(image)
        /\ written' = new
  /\ exit_code' = 0
  /\ pc' = "done"
  /\ UNCHANGED <<nm, image, i, symbols>>

Terminated ==
  /\ pc = "done"
  /\ UNCHANGED vars

Next ==
  \/ SkipLine \/ AddSymbol
  \/ MarkersBad \/ TableTooBig \/ Embed
  \/ Terminated

Spec == Init /\ [][Next]_vars

(***************************************************************************)
(* Properties.                                                             *)
(***************************************************************************)
TypeOK ==
  /\ pc \in {"lines", "done"}
  /\ i \in 1..(Len(nm) + 1)
  /\ DOMAIN symbols \subseteq Nat
  /\ exit_code \in {None, 0, 1}
  /\ (written # None) <=> (exit_code = 0)

\* The lines of the nm output that describe a text symbol, and the name
\* the last of them at address a gives.
TextLines == {k \in DOMAIN nm : /\ nm[k].addr # BadAddr
                                  /\ nm[k].type \in {"T", "t"}
                                  /\ nm[k].name \notin DottedNames
                                  /\ nm[k].name \notin {"__symbol_table", "__symbol_table_end"}}
LastNameAt(a) ==
  nm[CHOOSE k \in TextLines : nm[k].addr = a /\
       \A m \in TextLines : nm[m].addr = a => m <= k].name

\* The embedded table is the one the kernel can binary-search: its entries
\* are in strictly increasing address order, one per address of a text
\* symbol of the nm output, each named as the last nm line at that
\* address names it.
TableMatchesNm ==
  written # None =>
    LET t == (CHOOSE p \in Range(written) : p.kind = "table").entries IN
    /\ \A k \in 1..(Len(t) - 1) : t[k].addr < t[k + 1].addr
    /\ {t[k].addr : k \in DOMAIN t} = {nm[k].addr : k \in TextLines}
    /\ \A k \in DOMAIN t : t[k].name = LastNameAt(t[k].addr)

=============================================================================
