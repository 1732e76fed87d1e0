------------------------------ MODULE HinafsSpec ------------------------------
(***************************************************************************)
(* What mkhinafs.py promises, in one step: for the tree under root_dir,    *)
(* either it fails (a subdirectory, a name encode_path_name rejects, a     *)
(* full root directory, or nothing to embed) and writes nothing, or it     *)
(* writes the image whose layout is given in closed form for the order in *)
(* which iterdir() lists the root's files: each file's data blocks (at     *)
(* most BLOCKS_PER_ENTRY of them) followed by its entry block, the root    *)
(* block listing the entry blocks, every block marked in the bitmap, and   *)
(* the image padded to the disk's size.                                    *)
(*                                                                         *)
(* Blocks are abstracted as in MkHinafs: their kind, the tree node, and    *)
(* for entry blocks the block indices they list.                           *)
(***************************************************************************)
EXTENDS Integers, Sequences, SequencesExt

CONSTANTS
  Trees, BLOCK_SIZE, BLOCKS_PER_ENTRY, NUM_HEADER_BLOCKS, DISK_BLOCKS,
  NoBlock, None

VARIABLES
  tree,       \* the directory tree under root_dir
  exit_code,  \* None, then the exit status
  written     \* None, or the image written

Root == 0

\* The data blocks a file of s bytes gets: one per started block, at most
\* BLOCKS_PER_ENTRY.
DataBlocks(s) ==
  IF (s + BLOCK_SIZE - 1) \div BLOCK_SIZE < BLOCKS_PER_ENTRY
    THEN (s + BLOCK_SIZE - 1) \div BLOCK_SIZE ELSE BLOCKS_PER_ENTRY

\* The index of the first block of the j-th file of `order`: the header,
\* then every earlier file's data and entry blocks.
FirstBlock(order, j) ==
  NUM_HEADER_BLOCKS
    + FoldLeft(LAMBDA acc, c : acc + DataBlocks(tree[c].size) + 1, 0, SubSeq(order, 1, j - 1))

FileBlocks(order, j) ==
  LET c == order[j]
      nb == DataBlocks(tree[c].size)
  IN [i \in 1..nb |-> [kind |-> "data", node |-> c, part |-> i]]
       \o << [kind |-> "file", node |-> c, size |-> tree[c].size,
              ptrs |-> [i \in 1..BLOCKS_PER_ENTRY |->
                          IF i <= nb THEN FirstBlock(order, j) + i - 1 ELSE NoBlock]] >>

Layout(order) ==
  LET blocks == FlattenSeq([j \in DOMAIN order |-> FileBlocks(order, j)]) IN
  [root   |-> [kind |-> "dir", node |-> Root,
               ptrs |-> [i \in 1..BLOCKS_PER_ENTRY |->
                           IF i <= Len(order)
                             THEN FirstBlock(order, i) + DataBlocks(tree[order[i]].size)
                             ELSE NoBlock]],
   blocks |-> blocks,
   bitmap |-> 0..(Len(blocks) - 1),
   size   |-> IF NUM_HEADER_BLOCKS + Len(blocks) > DISK_BLOCKS
                THEN NUM_HEADER_BLOCKS + Len(blocks) ELSE DISK_BLOCKS]

\* The trees main() writes an image for.
Embeddable(t) ==
  LET top == {n \in DOMAIN t : t[n].parent = Root} IN
  /\ top # {}
  /\ \A n \in top : t[n].kind = "file" /\ t[n].name = "ok"
  /\ Cardinality(top) < BLOCKS_PER_ENTRY

Init ==
  /\ tree \in Trees
  /\ exit_code = None
  /\ written = None

Build ==
  /\ exit_code = None
  /\ IF Embeddable(tree)
       THEN /\ exit_code' = 0
            /\ \E order \in SetToSeqs({n \in DOMAIN tree : tree[n].parent = Root}) :
                 written' = Layout(order)
       ELSE exit_code' = 1 /\ UNCHANGED written
  /\ UNCHANGED tree

Spec == Init /\ [][Build]_<<tree, exit_code, written>>

=============================================================================
