------------------------------ MODULE MkHinafs ------------------------------
(***************************************************************************)
(* The HinaFS image builder, tools/mkhinafs.py.                            *)
(*                                                                         *)
(* main() walks the root directory with the nested functions add_dir and   *)
(* add_file, appending blocks to the list `blocks`: a file's data blocks,  *)
(* then its entry block, whose index it predicts as len(blocks) +          *)
(* NUM_HEADER_BLOCKS; a directory's block after its children's.  The root  *)
(* directory block is not appended but placed at block 1.  The image is    *)
(* the header, the root block, the bitmap and the blocks.                  *)
(*                                                                         *)
(* The recursion is an explicit stack of add_dir frames; Path.iterdir()'s  *)
(* order is unspecified, so a frame takes its children in any order.  A    *)
(* block is abstracted to what it describes: its kind, the tree node, and  *)
(* for entry blocks the block indices it lists.                            *)
(***************************************************************************)
EXTENDS Integers, Sequences, FiniteSets, SequencesExt

CONSTANTS
  Trees,             \* the directory trees main() may be given
  BLOCK_SIZE,
  BLOCKS_PER_ENTRY,
  NUM_HEADER_BLOCKS,
  DISK_BLOCKS,       \* DISK_SIZE / BLOCK_SIZE
  NoBlock,           \* 0xffff, an unused block index slot
  None

\* A tree is a function from its nodes to [parent, kind, size, name]; the
\* root directory is node 0 and is not in the domain.  A name is "ok", or
\* "bad" when encode_path_name rejects it (255 characters or more, or not
\* ASCII).
Root == 0
Children(t, d) == {n \in DOMAIN t : t[n].parent = d}

VARIABLES
  tree,      \* the directory tree on disk (fixed for the run)
  stack,     \* add_dir frames: [dir, todo (children left), entries]
  blocks,    \* the `blocks` list
  pc,        \* "walk", "done"
  exit_code, \* None while running, then the exit status
  written    \* the image written, or None

vars == <<tree, stack, blocks, pc, exit_code, written>>

CeilDiv(a, b) == (a + b - 1) \div b

Top == stack[Len(stack)]

\* Replace the top frame.
SetTop(f) == [stack EXCEPT ![Len(stack)] = f]

Init ==
  /\ tree \in Trees
  /\ stack = << [dir |-> Root, todo |-> Children(tree, Root), entries |-> <<>>] >>
  /\ blocks = <<>>
  /\ pc = "walk"
  /\ exit_code = None
  /\ written = None

\* Mutant: the entry's index is taken before its data blocks are appended.
AddFileIndexFirst ==
  /\ pc = "walk"
  /\ \E c \in Top.todo :
       /\ tree[c].kind = "file"
       /\ tree[c].name = "ok"
       /\ LET nb   == IF CeilDiv(tree[c].size, BLOCK_SIZE) < BLOCKS_PER_ENTRY
                        THEN CeilDiv(tree[c].size, BLOCK_SIZE) ELSE BLOCKS_PER_ENTRY
              base == Len(blocks) + NUM_HEADER_BLOCKS
              data == [j \in 1..nb |-> [kind |-> "data", node |-> c, part |-> j]]
              ptrs == [j \in 1..BLOCKS_PER_ENTRY |-> IF j <= nb THEN base + j - 1 ELSE NoBlock]
              entry == [kind |-> "file", node |-> c, size |-> tree[c].size, ptrs |-> ptrs]
          IN /\ blocks' = blocks \o data \o << entry >>
             /\ stack' = SetTop([Top EXCEPT !.todo = @ \ {c},
                                            !.entries = Append(@, base)])
  /\ UNCHANGED <<tree, pc, exit_code, written>>

\* add_file(child) for the next child of the top frame: the data blocks
\* (at most BLOCKS_PER_ENTRY of them; the rest of the data is dropped),
\* then the entry block listing them.
AddFile ==
  /\ pc = "walk"
  /\ \E c \in Top.todo :
       /\ tree[c].kind = "file"
       /\ tree[c].name = "ok"
       /\ LET nb   == IF CeilDiv(tree[c].size, BLOCK_SIZE) < BLOCKS_PER_ENTRY
                        THEN CeilDiv(tree[c].size, BLOCK_SIZE) ELSE BLOCKS_PER_ENTRY
              base == Len(blocks) + NUM_HEADER_BLOCKS
              data == [j \in 1..nb |-> [kind |-> "data", node |-> c, part |-> j]]
              ptrs == [j \in 1..BLOCKS_PER_ENTRY |-> IF j <= nb THEN base + j - 1 ELSE NoBlock]
              entry == [kind |-> "file", node |-> c, size |-> tree[c].size, ptrs |-> ptrs]
          IN /\ blocks' = blocks \o data \o << entry >>
             /\ stack' = SetTop([Top EXCEPT !.todo = @ \ {c},
                                            !.entries = Append(@, base + nb)])
  /\ UNCHANGED <<tree, pc, exit_code, written>>

\* encode_path_name raises for the entry's name (the AssertionError on its
\* length, or "file name must be an ASCII string"): add_file for a file,
\* add_dir for a directory once its children are done.
BadName ==
  /\ pc = "walk"
  /\ \/ \E c \in Top.todo : tree[c].kind = "file" /\ tree[c].name = "bad"
     \/ /\ Len(stack) > 1
        /\ Top.todo = {}
        /\ Len(Top.entries) < BLOCKS_PER_ENTRY
        /\ tree[Top.dir].name = "bad"
  /\ exit_code' = 1
  /\ pc' = "done"
  /\ UNCHANGED <<tree, stack, blocks, written>>

\* add_dir(child, root_dir=False) is called for a child directory.
EnterDir ==
  /\ pc = "walk"
  /\ \E c \in Top.todo :
       /\ tree[c].kind = "dir"
       /\ stack' = Append(SetTop([Top EXCEPT !.todo = @ \ {c}]),
                          [dir |-> c, todo |-> Children(tree, c), entries |-> <<>>])
  /\ UNCHANGED <<tree, blocks, pc, exit_code, written>>

\* The directory's block, listing its entries (0xffff in unused slots).
DirBlock(f) ==
  [kind |-> "dir", node |-> f.dir,
   ptrs |-> [j \in 1..BLOCKS_PER_ENTRY |->
               IF j <= Len(f.entries) THEN f.entries[j] ELSE NoBlock]]

\* The image, in blocks, after the zero padding loop: DISK_SIZE, or the
\* image itself when it is already longer (free_space_len is negative and
\* the loop writes nothing).
PaddedBlocks(n) == IF NUM_HEADER_BLOCKS + n > DISK_BLOCKS THEN NUM_HEADER_BLOCKS + n ELSE DISK_BLOCKS

\* `assert len(entries) < BLOCKS_PER_ENTRY` fails: AssertionError.
TooManyEntries ==
  /\ pc = "walk"
  /\ Top.todo = {}
  /\ Len(Top.entries) >= BLOCKS_PER_ENTRY
  /\ exit_code' = 1
  /\ pc' = "done"
  /\ UNCHANGED <<tree, stack, blocks, written>>

\* A non-root add_dir returns: its block is appended.  The caller then
\* tests child_path.is_file(), which is false for a directory, and its
\* else branch raises "unexpected file type".
LeaveDir ==
  /\ pc = "walk"
  /\ Len(stack) > 1
  /\ Top.todo = {}
  /\ Len(Top.entries) < BLOCKS_PER_ENTRY
  /\ tree[Top.dir].name = "ok"
  /\ blocks' = Append(blocks, DirBlock(Top))
  /\ stack' = Front(stack)
  /\ exit_code' = 1
  /\ pc' = "done"
  /\ UNCHANGED <<tree, written>>

\* Mutant: the image is written before `assert len(blocks)`.
FinishRootWriteFirst ==
  /\ pc = "walk"
  /\ Len(stack) = 1
  /\ Top.todo = {}
  /\ Len(Top.entries) < BLOCKS_PER_ENTRY
  /\ written' = [root   |-> DirBlock(Top),
                 blocks |-> blocks,
                 bitmap |-> {i \in 0..(Len(blocks) - 1) : TRUE},
                 size   |-> PaddedBlocks(Len(blocks))]
  /\ exit_code' = IF Len(blocks) = 0 THEN 1 ELSE 0
  /\ pc' = "done"
  /\ UNCHANGED <<tree, stack, blocks>>

\* Mutant: the bitmap loop stops one block short.
FinishRootBitmapShort ==
  /\ pc = "walk"
  /\ Len(stack) = 1
  /\ Top.todo = {}
  /\ Len(Top.entries) < BLOCKS_PER_ENTRY
  /\ IF Len(blocks) = 0
       THEN /\ exit_code' = 1
            /\ UNCHANGED written
       ELSE /\ exit_code' = 0
            /\ written' = [root   |-> DirBlock(Top),
                           blocks |-> blocks,
                           bitmap |-> {i \in 0..(Len(blocks) - 2) : TRUE},
                           size   |-> PaddedBlocks(Len(blocks))]
  /\ pc' = "done"
  /\ UNCHANGED <<tree, stack, blocks>>

\* The root add_dir returns its block (placed at index 1); main() asserts
\* that there are blocks, builds the bitmap and writes the image, padded
\* with zeros to DISK_SIZE.
FinishRoot ==
  /\ pc = "walk"
  /\ Len(stack) = 1
  /\ Top.todo = {}
  /\ Len(Top.entries) < BLOCKS_PER_ENTRY
  /\ IF Len(blocks) = 0
       THEN /\ exit_code' = 1
            /\ UNCHANGED written
       ELSE /\ exit_code' = 0
            /\ written' = [root   |-> DirBlock(Top),
                           blocks |-> blocks,
                           bitmap |-> {i \in 0..(Len(blocks) - 1) : TRUE},
                           size   |-> PaddedBlocks(Len(blocks))]
  /\ pc' = "done"
  /\ UNCHANGED <<tree, stack, blocks>>

Terminated ==
  /\ pc = "done"
  /\ UNCHANGED vars

Next ==
  \/ AddFile \/ BadName \/ EnterDir \/ TooManyEntries \/ LeaveDir \/ FinishRoot
  \/ Terminated

Spec == Init /\ [][Next]_vars

(***************************************************************************)
(* Properties.                                                             *)
(***************************************************************************)
TypeOK ==
  /\ pc \in {"walk", "done"}
  /\ exit_code \in {None, 0, 1}
  /\ (exit_code = None) <=> (pc = "walk")
  /\ written # None => exit_code = 0
  /\ Len(stack) \in 1..(Cardinality(DOMAIN tree) + 1)

\* The slots of an entry block that hold a block index, and the block an
\* index designates in the image (block i of the image is blocks[i - 5]).
UsedSlots(b) == {j \in DOMAIN b.ptrs : b.ptrs[j] # NoBlock}
InImage(img, p) == p - NUM_HEADER_BLOCKS + 1 \in DOMAIN img.blocks
At(img, p) == img.blocks[p - NUM_HEADER_BLOCKS + 1]

\* In a written image, the indices that add_dir and add_file record, each
\* predicted from len(blocks) before the blocks are appended, designate the
\* right blocks: a directory block (the root at block 1 included) lists
\* exactly the entry blocks of its children, and a file entry lists, slot
\* by slot, its own data blocks in order, with the used slots first.
EntriesLocateChildren ==
  written # None =>
    LET img == written IN
    \A b \in {img.root} \cup {img.blocks[n] : n \in DOMAIN img.blocks} :
      b.kind # "data" =>
      /\ \A j \in UsedSlots(b) : j > 1 => j - 1 \in UsedSlots(b)
      /\ \A j \in UsedSlots(b) : InImage(img, b.ptrs[j])
      /\ b.kind = "dir" =>
           /\ \A j \in UsedSlots(b) : At(img, b.ptrs[j]).kind \in {"file", "dir"}
           /\ {At(img, b.ptrs[j]).node : j \in UsedSlots(b)} = Children(tree, b.node)
           /\ Cardinality(UsedSlots(b)) = Cardinality(Children(tree, b.node))
      /\ b.kind = "file" =>
           \A j \in UsedSlots(b) :
             At(img, b.ptrs[j]) = [kind |-> "data", node |-> b.node, part |-> j]

\* A tree main() should accept: it is not empty, every name is short
\* ASCII, and no directory has BLOCKS_PER_ENTRY entries or more (the limit
\* add_dir asserts).
AcceptableTree(t) ==
  /\ DOMAIN t # {}
  /\ \A n \in DOMAIN t : t[n].name = "ok"
  /\ \A d \in {Root} \cup {n \in DOMAIN t : t[n].kind = "dir"} :
       Cardinality(Children(t, d)) < BLOCKS_PER_ENTRY

\* add_dir has a branch that recurses into subdirectories, so a tree of
\* directories and regular files within the limits is embedded: main()
\* ends with exit status 0.
SubdirectoriesEmbedded ==
  pc = "done" /\ AcceptableTree(tree) => exit_code = 0

\* mkhinafs.py implements HinafsSpec: the walk's steps leave the abstract
\* state alone until the last, which fails exactly when the closed form
\* does, or writes the closed-form image for some iterdir order of the
\* root's files, with every block marked in the bitmap.  (AbsTrees is
\* Trees under a name of this module, so TLC evaluates it once.)
AbsTrees == Trees
Abs == INSTANCE HinafsSpec WITH Trees <- AbsTrees
ImplementsHinafsSpec == Abs!Spec

\* Every file entry of a written image lists enough data blocks to hold
\* the size it records: the kernel reads `size` bytes through them.
FileDataComplete ==
  written # None =>
    \A n \in DOMAIN written.blocks :
      written.blocks[n].kind = "file" =>
        Cardinality(UsedSlots(written.blocks[n])) * BLOCK_SIZE >= written.blocks[n].size

\* The image written is exactly DISK_SIZE long, the size of the disk the
\* kernel's HinaFS driver is given.
ImageIsDiskSized ==
  written # None => written.size = DISK_BLOCKS

=============================================================================
