------------------------------ MODULE MkBootfs ------------------------------
(***************************************************************************)
(* The BootFS image builder, tools/mkbootfs.py.                            *)
(*                                                                         *)
(* main() writes an 8-byte header, then one 64-byte entry per file giving  *)
(* the file's offset and length in the image, while it accumulates the    *)
(* page-padded file contents in a separate buffer.  The entry offsets are  *)
(* computed by a running counter file_off, independently of where the     *)
(* contents really land: the image is the header and entries padded to a  *)
(* page, followed by the buffer.                                           *)
(*                                                                         *)
(* Bytes are abstracted to pieces: a piece is the header, an entry, a     *)
(* run of padding or the contents of one file, with its length.  A file   *)
(* is abstracted to the length of its name stem and of its data.           *)
(***************************************************************************)
EXTENDS Integers, Sequences, SequencesExt

CONSTANTS
  FileLists,    \* the sequences glob() may return, each file a [stem, size]
  PAGE_SIZE,
  FILE_ENTRY_SIZE,
  BOOTFS_MAX_SIZE,
  None

VARIABLES
  files,         \* glob(args.dir + "/*"), in glob order
  pc,            \* "files" (the loop), "done"
  k,             \* index of the next file the loop handles
  image,         \* the image buffer, as pieces
  file_contents, \* the contents buffer, as pieces
  file_off,      \* the offset the next entry records
  exit_code,     \* None while running, then the exit status
  written        \* the pieces written to the output, or None

vars == <<files, pc, k, image, file_contents, file_off, exit_code, written>>

\* align_up(value, align) for a power-of-two align
align_up(value, align) == ((value + align - 1) \div align) * align

Bytes(pieces) == FoldLeft(LAMBDA acc, p : acc + p.len, 0, pieces)

Pad(n) == [what |-> "pad", len |-> n]

\* The pieces that page-align a buffer of n bytes.
PadToPage(n) == << Pad(align_up(n, PAGE_SIZE) - n) >>

Init ==
  /\ files \in FileLists
  \* image = struct.pack("HHHH", VERSION, 8, len(files), 0)
  /\ image = << [what |-> "header", len |-> 8, count |-> Len(files)] >>
  /\ file_contents = <<>>
  /\ file_off = align_up(8 + FILE_ENTRY_SIZE * Len(files), PAGE_SIZE)
  /\ pc = "files"
  /\ k = 1
  /\ exit_code = None
  /\ written = None

\* Mutant: the next offset skips the file's data but not its padding.
AppendFileNoPadding ==
  /\ pc = "files"
  /\ k <= Len(files)
  /\ files[k].stem < 56
  /\ LET size    == files[k].size
         buf     == file_contents \o << [what |-> "data", file |-> k, len |-> size] >>
         padding == align_up(Bytes(buf), PAGE_SIZE) - Bytes(buf)
     IN /\ image' = Append(image, [what |-> "entry", len |-> FILE_ENTRY_SIZE,
                                   file |-> k, off |-> file_off, size |-> size])
        /\ file_contents' = Append(buf, Pad(padding))
        /\ file_off' = file_off + size
  /\ k' = k + 1
  /\ UNCHANGED <<files, pc, exit_code, written>>

\* One iteration of the loop over files.
AppendFile ==
  /\ pc = "files"
  /\ k <= Len(files)
  /\ files[k].stem < 56
  /\ LET size    == files[k].size
         buf     == file_contents \o << [what |-> "data", file |-> k, len |-> size] >>
         padding == align_up(Bytes(buf), PAGE_SIZE) - Bytes(buf)
     IN /\ image' = Append(image, [what |-> "entry", len |-> FILE_ENTRY_SIZE,
                                   file |-> k, off |-> file_off, size |-> size])
        /\ file_contents' = Append(buf, Pad(padding))
        /\ file_off' = file_off + size + padding
  /\ k' = k + 1
  /\ UNCHANGED <<files, pc, exit_code, written>>

\* sys.exit("too long file name: ...") before anything is written.
NameTooLong ==
  /\ pc = "files"
  /\ k <= Len(files)
  /\ files[k].stem >= 56
  /\ exit_code' = 1
  /\ pc' = "done"
  /\ UNCHANGED <<files, k, image, file_contents, file_off, written>>

\* Mutant: the image is written before the size check.
FinishWriteFirst ==
  /\ pc = "files"
  /\ k > Len(files)
  /\ LET img == image \o PadToPage(Bytes(image)) \o file_contents
     IN /\ image' = img
        /\ written' = img
        /\ exit_code' = IF Bytes(img) > BOOTFS_MAX_SIZE THEN 1 ELSE 0
  /\ pc' = "done"
  /\ UNCHANGED <<files, k, file_contents, file_off>>

\* Mutant: an image of exactly BOOTFS_MAX_SIZE is rejected.
FinishRejectsAtMax ==
  /\ pc = "files"
  /\ k > Len(files)
  /\ LET img == image \o PadToPage(Bytes(image)) \o file_contents
     IN /\ image' = img
        /\ IF Bytes(img) >= BOOTFS_MAX_SIZE
             THEN /\ exit_code' = 1
                  /\ UNCHANGED written
             ELSE /\ exit_code' = 0
                  /\ written' = img
  /\ pc' = "done"
  /\ UNCHANGED <<files, k, file_contents, file_off>>

\* After the loop: pad the header and entries to a page, append the
\* contents, and write the image unless it exceeds BOOTFS_MAX_SIZE.
Finish ==
  /\ pc = "files"
  /\ k > Len(files)
  /\ LET img == image \o PadToPage(Bytes(image)) \o file_contents
     IN /\ image' = img
        /\ IF Bytes(img) > BOOTFS_MAX_SIZE
             THEN /\ exit_code' = 1
                  /\ UNCHANGED written
             ELSE /\ exit_code' = 0
                  /\ written' = img
  /\ pc' = "done"
  /\ UNCHANGED <<files, k, file_contents, file_off>>

Terminated ==
  /\ pc = "done"
  /\ UNCHANGED vars

Next == AppendFile \/ NameTooLong \/ Finish \/ Terminated

Spec == Init /\ [][Next]_vars

(***************************************************************************)
(* Properties.                                                             *)
(***************************************************************************)
TypeOK ==
  /\ pc \in {"files", "done"}
  /\ k \in 1..Len(files) + 1
  /\ file_off \in Nat
  /\ exit_code \in {None, 0, 1}
  /\ written = None \/ exit_code = 0

\* The byte offset at which piece j of pieces starts.
Start(pieces, j) == Bytes(SubSeq(pieces, 1, j - 1))

\* Every entry of a written image points at a page boundary where the
\* whole data of its own file starts: the offsets file_off predicts agree
\* with where the contents buffer really places each file.
EntriesLocateData ==
  written # None =>
    \A e \in DOMAIN written : written[e].what = "entry" =>
      /\ written[e].off % PAGE_SIZE = 0
      /\ \E d \in DOMAIN written :
           /\ written[d].what = "data"
           /\ written[d].file = written[e].file
           /\ Start(written, d) = written[e].off
           /\ written[d].len = written[e].size


(***************************************************************************)
(* Refinement: the loop with its running file_off and separate contents   *)
(* buffer builds the image BootfsSpec gives in closed form.               *)
(***************************************************************************)
PieceOf(kind, j) == CHOOSE i \in DOMAIN written : written[i].what = kind /\ written[i].file = j

AbsImage ==
  IF written = None THEN None
  ELSE [len   |-> Bytes(written),
        files |-> [j \in DOMAIN files |->
                    [entry_off |-> written[PieceOf("entry", j)].off,
                     size      |-> written[PieceOf("entry", j)].size,
                     data_off  |-> Start(written, PieceOf("data", j))]]]

Abs == INSTANCE BootfsSpec WITH image <- AbsImage

\* Every run of mkbootfs.py ends as BootfsSpec says: it writes nothing
\* after a long stem or when the image would exceed BOOTFS_MAX_SIZE (and
\* only then), and otherwise writes an image of exactly the closed-form
\* length whose entries record, and whose data sit at, the closed-form
\* offsets.
ImplementsBootfsSpec == Abs!Spec

=============================================================================
