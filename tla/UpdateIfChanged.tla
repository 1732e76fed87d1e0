--------------------------- MODULE UpdateIfChanged ---------------------------
(***************************************************************************)
(* tools/update_file_if_changed.py, run by every build to keep the build  *)
(* settings file up to date without moving its mtime needlessly.           *)
(*                                                                         *)
(* main() reads the file in text mode (UTF-8 decoding, universal newlines) *)
(* and returns if what it reads equals the text; an IOError (no file) is   *)
(* ignored.  Otherwise open(outfile, "w") truncates the file and write()   *)
(* puts the encoded text in it.                                            *)
(*                                                                         *)
(* The model is the sequence of builds: the settings text may change       *)
(* between builds, each build runs main() once, and a build may be         *)
(* killed (or the disk fill up) after the truncation, leaving the file     *)
(* empty or holding a prefix of the encoded text.  The file is a sequence  *)
(* of bytes; a text is a sequence of characters.                           *)
(***************************************************************************)
EXTENDS Integers, Sequences, SequencesExt

CONSTANTS
  Chars,       \* the characters a settings text may contain
  Encoding,    \* Chars -> the UTF-8 byte sequence of each character
  Texts,       \* the texts the Makefile may pass
  CR, LF,      \* the two newline characters
  Absent,      \* no file at the path
  Invalid,     \* bytes that do not decode
  MaxChanges,  \* bound on settings changes between builds
  MaxCrashes   \* bound on interrupted builds

VARIABLES
  file,     \* the bytes of the settings file, or Absent
  want,     \* args.text of the current build
  pc,       \* "idle" (no build running), "run", "write" (after the truncation)
  changes,  \* settings changes so far
  crashes   \* interrupted builds so far

vars == <<file, want, pc, changes, crashes>>

\* str.encode("utf-8")
EncodeText(t) == FlattenSeq([i \in DOMAIN t |-> Encoding[t[i]]])

\* bytes.decode("utf-8"): the characters, or Invalid if the bytes end in
\* (or contain) an incomplete character.
RECURSIVE DecodeBytes(_)
DecodeBytes(bs) ==
  IF bs = <<>> THEN <<>>
  ELSE IF \E c \in Chars : IsPrefix(Encoding[c], bs)
    THEN LET c    == CHOOSE c \in Chars : IsPrefix(Encoding[c], bs)
             rest == DecodeBytes(SubSeq(bs, Len(Encoding[c]) + 1, Len(bs)))
         IN IF rest = Invalid THEN Invalid ELSE <<c>> \o rest
    ELSE Invalid

\* Universal newlines: a text-mode read turns "\r\n" and a lone "\r" into "\n".
RECURSIVE UniversalNewlines(_)
UniversalNewlines(s) ==
  IF s = <<>> THEN <<>>
  ELSE IF Len(s) >= 2 /\ s[1] = CR /\ s[2] = LF
    THEN <<LF>> \o UniversalNewlines(Tail(Tail(s)))
  ELSE IF s[1] = CR
    THEN <<LF>> \o UniversalNewlines(Tail(s))
  ELSE <<s[1]>> \o UniversalNewlines(Tail(s))

\* What f.read() returns for the current file (Invalid: it raises
\* UnicodeDecodeError).
ReadText ==
  IF DecodeBytes(file) = Invalid THEN Invalid
  ELSE UniversalNewlines(DecodeBytes(file))

Init ==
  /\ want \in Texts
  /\ file \in {Absent} \cup {EncodeText(t) : t \in Texts}
  /\ pc = "idle"
  /\ changes = 0
  /\ crashes = 0

\* Between builds the settings (and so args.text) change.
ChangeSettings ==
  /\ pc = "idle"
  /\ changes < MaxChanges
  /\ want' \in Texts \ {want}
  /\ changes' = changes + 1
  /\ UNCHANGED <<file, pc, crashes>>

\* make runs the script.
Start ==
  /\ pc = "idle"
  /\ pc' = "run"
  /\ UNCHANGED <<file, want, changes, crashes>>

\* Mutant: the script returns as soon as the file exists.
UpToDateIfExists ==
  /\ pc = "run"
  /\ file # Absent
  /\ pc' = "idle"
  /\ UNCHANGED <<file, want, changes, crashes>>

\* The file reads back as the text: return without touching it.
UpToDate ==
  /\ pc = "run"
  /\ file # Absent
  /\ ReadText = want
  /\ pc' = "idle"
  /\ UNCHANGED <<file, want, changes, crashes>>

\* f.read() raises UnicodeDecodeError, which `except IOError` does not
\* catch: the script fails and the file is left as it is.
DecodeError ==
  /\ pc = "run"
  /\ file # Absent
  /\ ReadText = Invalid
  /\ pc' = "idle"
  /\ UNCHANGED <<file, want, changes, crashes>>

\* Mutant: the comparison is skipped and the file always rewritten.
TruncateAlways ==
  /\ pc = "run"
  /\ file = Absent \/ (file # Absent /\ ReadText # Invalid)
  /\ file' = <<>>
  /\ pc' = "write"
  /\ UNCHANGED <<want, changes, crashes>>

\* No file, or it reads back differently: open(outfile, "w") creates or
\* truncates it.
Truncate ==
  /\ pc = "run"
  /\ file = Absent \/ (file # Absent /\ ReadText \notin {want, Invalid})
  /\ file' = <<>>
  /\ pc' = "write"
  /\ UNCHANGED <<want, changes, crashes>>

\* Mutant: the characters are written without being encoded.
WriteUnencoded ==
  /\ pc = "write"
  /\ file' = want
  /\ pc' = "idle"
  /\ UNCHANGED <<want, changes, crashes>>

\* f.write(args.text), flushed when the with block closes the file.
Write ==
  /\ pc = "write"
  /\ file' = EncodeText(want)
  /\ pc' = "idle"
  /\ UNCHANGED <<want, changes, crashes>>

\* The build is killed, or the write fails: after the truncation the file
\* keeps whatever prefix of the encoded text reached the disk.
Crash ==
  /\ pc \in {"run", "write"}
  /\ crashes < MaxCrashes
  /\ file' \in IF pc = "write"
                 THEN {SubSeq(EncodeText(want), 1, n) : n \in 0..(Len(EncodeText(want)) - 1)}
                 ELSE {file}
  /\ pc' = "idle"
  /\ crashes' = crashes + 1
  /\ UNCHANGED <<want, changes>>

Run == UpToDate \/ DecodeError \/ Truncate \/ Write

Next == ChangeSettings \/ Start \/ Run \/ Crash

Spec == Init /\ [][Next]_vars

\* The script runs to completion once started (it is a short sequential
\* process), and make runs it again on every build: the property below
\* is about a developer who keeps building.
FairSpec ==
  /\ Spec
  /\ WF_vars(Start)
  /\ WF_vars(UpToDate \/ DecodeError \/ Truncate)
  /\ WF_vars(Write)

(***************************************************************************)
(* Properties.                                                             *)
(***************************************************************************)
TypeOK ==
  /\ pc \in {"idle", "run", "write"}
  /\ want \in Texts
  /\ file = Absent \/ \A i \in DOMAIN file : file[i] \in UNION {Range(Encoding[c]) : c \in Chars}
  /\ changes \in 0..MaxChanges
  /\ crashes \in 0..MaxCrashes

\* The point of the script (its docstring): a build whose settings file
\* already holds the text does not modify it, so its mtime does not move
\* and make does not rebuild from scratch.
UntouchedWhenCurrent ==
  [][pc = "run" /\ file = EncodeText(want) => file' = file]_vars

\* However the builds were interrupted, once the settings stop changing
\* and the developer keeps building, the file ends up holding the
\* settings text for good.
Repaired == <>[](file = EncodeText(want))

=============================================================================
