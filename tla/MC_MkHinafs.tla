---------------------------- MODULE MC_MkHinafs ----------------------------
(***************************************************************************)
(* Every directory tree of at most MaxNodes entries below the root.  Node *)
(* n's parent is the root or an earlier directory, so each tree is listed  *)
(* once up to renaming.  BLOCKS_PER_ENTRY is scaled down from 1908 to 3 so *)
(* that a full directory and a file longer than an entry can hold are     *)
(* reached with three nodes; sizes are 0, 1 byte, exactly the 3 blocks an *)
(* entry holds, and one byte more.  Each name is one encode_path_name     *)
(* accepts or one it rejects.                                              *)
(***************************************************************************)
EXTENDS MkHinafs, TLC

MaxNodes == 3

MCBlocksPerEntry == 3

NodeChoices(n) ==
  [parent : {0} \cup (1..(n - 1)), kind : {"dir"}, size : {0}, name : {"ok", "bad"}]
  \cup [parent : {0} \cup (1..(n - 1)), kind : {"file"},
        size : {0, 1, 3 * 4096, 3 * 4096 + 1}, name : {"ok", "bad"}]

\* DISK_SIZE scaled with BLOCKS_PER_ENTRY: the header blocks and 7 more.
\* A root holds at most two files, of at most 4 blocks each with their
\* entries, so the largest images (8 blocks) do not fit, as a root of
\* 1907 full files does not fit 128 MiB.
MCDiskBlocks == 6 + 7

MCTrees ==
  {t \in UNION {[1..n -> UNION {NodeChoices(m) : m \in 1..n}] : n \in 0..MaxNodes} :
     \A m \in DOMAIN t :
       /\ t[m] \in NodeChoices(m)
       /\ t[m].parent # 0 => t[t[m].parent].kind = "dir"}

=============================================================================
