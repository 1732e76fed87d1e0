----------------------------- MODULE UserLdParams -----------------------------
(***************************************************************************)
(* tools/generate_user_ld_params.py: gives every user server its own      *)
(* 32 MiB region of the virtual address space, from 0x20000000 upwards,   *)
(* in the order of the sorted server names, and writes one                 *)
(* `#ifdef SERVER_<name.lower()>` block per server defining               *)
(* USER_BASE_ADDR and USER_SIZE for the linker script.                     *)
(*                                                                         *)
(* A server name is abstracted to its rank in Python's string order        *)
(* (sorted() compares code points), and SERVER_<name.lower()> to a macro   *)
(* id given by Lower.  A block of the header is abstracted to its macro    *)
(* and the two values hex() prints, which the preprocessor reads back      *)
(* unchanged.  Every address the script computes is a multiple of 1 MiB, *)
(* so addresses are counted in MiB: TLC's integers then hold 2^32 bytes.  *)
(***************************************************************************)
EXTENDS Integers, Sequences, SequencesExt, TLC

CONSTANTS
  ServerArgs,  \* the argument lists `servers` (nargs="+") make may pass
  Lower,       \* server -> the macro suffix name.lower()
  None

\* Addresses and sizes in MiB.
USER_BASE_ADDR == 512                \* 0x20000000
USER_SIZE == 32                      \* 32 * 1024 * 1024

\* The top of the 32-bit virtual address space of the rv32 target (2^32).
AddressSpaceTop == 4096

VARIABLES
  args,       \* args.servers, in command-line order
  servers,    \* sorted(args.servers)
  k,          \* the loop position in servers
  base_addr,  \* base_addr
  blocks,     \* the #ifdef blocks appended to text so far
  written     \* the blocks written to args.out_file, or None

vars == <<args, servers, k, base_addr, blocks, written>>

\* Mutant: the servers are taken in command-line order.
InitUnsorted ==
  /\ args \in ServerArgs
  /\ servers = args
  /\ k = 1
  /\ base_addr = USER_BASE_ADDR
  /\ blocks = <<>>
  /\ written = None

Init ==
  /\ args \in ServerArgs
  /\ servers = SortSeq(args, LAMBDA x, y : x < y)
  /\ k = 1
  /\ base_addr = USER_BASE_ADDR
  /\ blocks = <<>>
  /\ written = None

\* Mutant: the macro is SERVER_<name>, without .lower().
EmitBlockUnlowered ==
  /\ k <= Len(servers)
  /\ blocks' = Append(blocks, [macro |-> servers[k], base |-> base_addr, size |-> USER_SIZE])
  /\ base_addr' = base_addr + USER_SIZE
  /\ k' = k + 1
  /\ UNCHANGED <<args, servers, written>>

\* Mutant: base_addr is not advanced.
EmitBlockNoAdvance ==
  /\ k <= Len(servers)
  /\ blocks' = Append(blocks, [macro |-> Lower[servers[k]], base |-> base_addr, size |-> USER_SIZE])
  /\ k' = k + 1
  /\ UNCHANGED <<args, servers, base_addr, written>>

\* One iteration: the block for servers[k], then base_addr += USER_SIZE.
EmitBlock ==
  /\ k <= Len(servers)
  /\ blocks' = Append(blocks, [macro |-> Lower[servers[k]], base |-> base_addr, size |-> USER_SIZE])
  /\ base_addr' = base_addr + USER_SIZE
  /\ k' = k + 1
  /\ UNCHANGED <<args, servers, written>>

\* open(args.out_file, "w") and f.write(text).
Write ==
  /\ k > Len(servers)
  /\ written = None
  /\ written' = blocks
  /\ UNCHANGED <<args, servers, k, base_addr, blocks>>

Terminated ==
  /\ written # None
  /\ UNCHANGED vars

Next == EmitBlock \/ Write \/ Terminated

Spec == Init /\ [][Next]_vars

(***************************************************************************)
(* Properties.                                                             *)
(***************************************************************************)
TypeOK ==
  /\ k \in 1..(Len(args) + 1)
  /\ base_addr \in Nat
  /\ blocks \in Seq([macro : Range(Lower), base : Nat, size : {USER_SIZE}])
  /\ written \in {None, blocks}

\* The reference header: repeatedly take the smallest remaining server and
\* give it the next region.  It depends only on which servers are built.
RECURSIVE RefBlocks(_, _)
RefBlocks(rest, base) ==
  IF rest = <<>> THEN <<>>
  ELSE LET m == CHOOSE j \in DOMAIN rest : \A l \in DOMAIN rest : rest[j] <= rest[l]
       IN << [macro |-> Lower[rest[m]], base |-> base, size |-> USER_SIZE] >>
            \o RefBlocks(RemoveAt(rest, m), base + USER_SIZE)

\* Every server's region lies in the user part of the 32-bit address space
\* and no two regions overlap, so no two servers are linked at addresses
\* that meet.
RegionsDisjointInAddressSpace ==
  written # None =>
    /\ \A j \in DOMAIN written :
         /\ written[j].base >= USER_BASE_ADDR
         /\ written[j].base + written[j].size <= AddressSpaceTop
    /\ \A j, l \in DOMAIN written :
         j # l => \/ written[j].base + written[j].size <= written[l].base
                  \/ written[l].base + written[l].size <= written[j].base

\* The header is the one the reference builds from the servers alone: the
\* same whatever order make lists them in, so servers compiled against
\* headers of different builds with the same servers agree on it.
HeaderIndependentOfOrder ==
  written # None => written = RefBlocks(args, USER_BASE_ADDR)

=============================================================================
