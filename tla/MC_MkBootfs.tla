---------------------------- MODULE MC_MkBootfs ----------------------------
(***************************************************************************)
(* Instantiates MkBootfs for TLC with the script's constants and every    *)
(* directory of at most MaxFiles files drawn from the choices below.      *)
(***************************************************************************)
EXTENDS MkBootfs, TLC

MaxFiles == 3

\* Stems: short, and the first length the script rejects.  Sizes: empty,
\* one byte, one byte over a page, and 32 MiB minus the first page (an
\* image holding only that file is exactly BOOTFS_MAX_SIZE).
FileChoices == [stem : {4, 56}, size : {0, 1, 4097, 33550336}]

MCFileLists == UNION {[1..n -> FileChoices] : n \in 0..MaxFiles}

=============================================================================
