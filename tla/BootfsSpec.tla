------------------------------ MODULE BootfsSpec ------------------------------
(***************************************************************************)
(* What mkbootfs.py promises, in one step: for the files glob() returns,  *)
(* either it fails (a stem too long, or an image over BOOTFS_MAX_SIZE)    *)
(* and writes nothing, or it writes an image whose layout is given in      *)
(* closed form: the header and the entries padded to a page, then each     *)
(* file's data from a page boundary, in glob order, each padded to a page. *)
(*                                                                         *)
(* An image is seen as its total length and, per file, the offset and size *)
(* its entry records and the offset at which its data lies.                *)
(***************************************************************************)
EXTENDS Integers, Sequences, SequencesExt

CONSTANTS
  FileLists, PAGE_SIZE, FILE_ENTRY_SIZE, BOOTFS_MAX_SIZE, None

VARIABLES
  files,      \* glob(args.dir + "/*")
  exit_code,  \* None, then the exit status
  image       \* None, or the layout of the written image

PageUp(n) == ((n + PAGE_SIZE - 1) \div PAGE_SIZE) * PAGE_SIZE

\* The bytes before the data of file j: the page-padded header and entries,
\* then every earlier file's page-padded data.
DataOffset(fl, j) ==
  PageUp(8 + FILE_ENTRY_SIZE * Len(fl))
    + FoldLeft(LAMBDA acc, f : acc + PageUp(f.size), 0, SubSeq(fl, 1, j - 1))

Layout(fl) ==
  [len   |-> DataOffset(fl, Len(fl) + 1),
   files |-> [j \in DOMAIN fl |-> [entry_off |-> DataOffset(fl, j),
                                  size      |-> fl[j].size,
                                  data_off  |-> DataOffset(fl, j)]]]

Init ==
  /\ files \in FileLists
  /\ exit_code = None
  /\ image = None

Build ==
  /\ exit_code = None
  /\ IF \/ \E j \in DOMAIN files : files[j].stem >= 56
        \/ Layout(files).len > BOOTFS_MAX_SIZE
       THEN exit_code' = 1 /\ UNCHANGED image
       ELSE exit_code' = 0 /\ image' = Layout(files)
  /\ UNCHANGED files

Spec == Init /\ [][Build]_<<files, exit_code, image>>

=============================================================================
