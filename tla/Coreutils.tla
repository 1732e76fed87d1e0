------------------------------- MODULE Coreutils -------------------------------
(***************************************************************************)
(* tools/coreutils.py, the cp / rm / mkdir / find the Makefile runs on     *)
(* Windows.  Each invocation is one step: the whole handler, from argparse *)
(* to exit.                                                                *)
(*                                                                         *)
(* The file tree is a function from paths to Missing, Dir or a file's      *)
(* contents.  A path is a sequence of names; <<>> is the current           *)
(* directory.  A name or a -name pattern is a string, and NameChars gives *)
(* its characters for fnmatch.  An uncaught exception (a traceback) and   *)
(* sys.exit(msg) both end with exit status 1.                              *)
(***************************************************************************)
EXTENDS Integers, Sequences, SequencesExt, FiniteSets

CONSTANTS
  Names,      \* file names
  Data,       \* file contents
  NameChars,  \* name or pattern -> its characters
  ExprLists,  \* the exprs lists (argparse.REMAINDER) the Makefile may pass
  MaxSrcs,    \* bound on the sources of one cp
  Missing, Dir, None

Root == <<>>
Paths == {Root} \cup {<<n>> : n \in Names} \cup {<<n, m>> : n, m \in Names}
Args == Paths \ {Root}

VARIABLES
  fs,      \* the file tree
  cmd,     \* the last command: [op, ...] with its arguments
  status,  \* its exit status (None before the first command)
  out      \* the paths it printed

vars == <<fs, cmd, status, out>>

IsFile(f, p) == f[p] \in Data
Under(p, q) == IsPrefix(p, q)

\* The trees the build directory can hold: every entry's parent is a directory.
WellFormed(f) == f[Root] = Dir /\ \A p \in Args : f[p] # Missing => f[Front(p)] = Dir

Init ==
  /\ fs \in {f \in [Paths -> {Missing, Dir} \cup Data] : WellFormed(f)}
  /\ cmd = None
  /\ status = None
  /\ out = {}

(***************************************************************************)
(* cp: shutil.copy(src, dst) for each src in turn.  dst names the copy,    *)
(* or a directory that receives dst/<name>.  The first source that fails   *)
(* (missing or a directory, the same file, or a target that is a          *)
(* directory or has no directory above it) raises: the copies made before *)
(* it stay.                                                                *)
(***************************************************************************)
CopyTarget(f, src, dst) == IF f[dst] = Dir THEN Append(dst, Last(src)) ELSE dst

RECURSIVE CopyAll(_, _, _)
CopyAll(f, srcs, dst) ==
  IF srcs = <<>> THEN [fs |-> f, ok |-> TRUE]
  ELSE LET s == Head(srcs)
           t == CopyTarget(f, s, dst)
       IN IF /\ IsFile(f, s)
             /\ t # s
             /\ f[Front(t)] = Dir
             /\ f[t] # Dir
          THEN CopyAll([f EXCEPT ![t] = f[s]], Tail(srcs), dst)
          ELSE [fs |-> f, ok |-> FALSE]

\* A dst of depth two that is a directory would copy to depth three, below
\* the paths modelled, so such a dst is not chosen.
Cp ==
  \E n \in 1..MaxSrcs, dst \in {p \in Paths : Len(p) <= 1 \/ fs[p] # Dir} :
  \E srcs \in [1..n -> Args] :
    LET r == CopyAll(fs, srcs, dst) IN
    /\ fs' = r.fs
    /\ status' = IF r.ok THEN 0 ELSE 1
    /\ cmd' = [op |-> "cp", srcs |-> srcs, dst |-> dst]
    /\ out' = {}

(***************************************************************************)
(* rm: with -r, shutil.rmtree(path, ignore_errors=f), which removes a      *)
(* directory and everything under it and raises on anything else;         *)
(* without, os.unlink(path), which removes a file and raises on anything   *)
(* else, the exception turned into sys.exit unless -f.                     *)
(***************************************************************************)
Removed(f, p) == [q \in Paths |-> IF Under(p, q) THEN Missing ELSE f[q]]

Rm ==
  \E path \in Args, r, f \in BOOLEAN :
    LET removable == IF r THEN fs[path] = Dir ELSE IsFile(fs, path) IN
    /\ fs' = IF removable THEN Removed(fs, path) ELSE fs
    /\ status' = IF removable \/ f THEN 0 ELSE 1
    /\ cmd' = [op |-> "rm", path |-> path, r |-> r, f |-> f]
    /\ out' = {}

(***************************************************************************)
(* mkdir: with -p, os.makedirs(path, exist_ok=True), which creates the     *)
(* missing directories from the top and fails on a file in the way;       *)
(* without, os.mkdir(path), which needs a missing path in a directory.     *)
(***************************************************************************)
Ancestry(p) == {SubSeq(p, 1, j) : j \in 1..Len(p)}

Mkdir ==
  \E path \in Args, p \in BOOLEAN :
    LET ok == IF p THEN \A q \in Ancestry(path) : fs[q] \in {Missing, Dir}
                   ELSE fs[path] = Missing /\ fs[Front(path)] = Dir
    IN /\ fs' = IF ok THEN [q \in Paths |-> IF q \in Ancestry(path) /\ (p \/ q = path)
                                              THEN Dir ELSE fs[q]]
                 ELSE fs
       /\ status' = IF ok THEN 0 ELSE 1
       /\ cmd' = [op |-> "mkdir", path |-> path, p |-> p]
       /\ out' = {}

(***************************************************************************)
(* find: the expressions are paired by zip(exprs[::2], exprs[1::2]); a    *)
(* key other than -name exits, the last -name value is kept.  os.walk     *)
(* then lists the files below path (nothing when path is not a directory, *)
(* its errors being ignored), each shown if the name is empty or matches. *)
(***************************************************************************)
RECURSIVE FnMatch(_, _)
FnMatch(pat, s) ==
  IF pat = <<>> THEN s = <<>>
  ELSE IF Head(pat) = "*" THEN FnMatch(Tail(pat), s) \/ (s # <<>> /\ FnMatch(pat, Tail(s)))
  ELSE /\ s # <<>>
       /\ Head(pat) \in {"?", Head(s)}
       /\ FnMatch(Tail(pat), Tail(s))

Pairs(exprs) == [j \in 1..(Len(exprs) \div 2) |-> <<exprs[2 * j - 1], exprs[2 * j]>>]

\* Mutant: the directories os.walk yields are listed as well as the files.
FindListsDirs ==
  \E path \in Paths, exprs \in ExprLists :
    LET ps   == Pairs(exprs)
        bad  == \E j \in DOMAIN ps : ps[j][1] # "-name"
        name == IF ps = <<>> THEN None ELSE Last(ps)[2]
        show(q) == name \in {None, ""} \/ FnMatch(NameChars[name], NameChars[Last(q)])
    IN /\ status' = IF bad THEN 1 ELSE 0
       /\ out' = IF bad \/ fs[path] # Dir THEN {}
                 ELSE {q \in Paths \ {path} : Under(path, q) /\ fs[q] # Missing /\ show(q)}
       /\ cmd' = [op |-> "find", path |-> path, exprs |-> exprs]
       /\ UNCHANGED fs

Find ==
  \E path \in Paths, exprs \in ExprLists :
    LET ps   == Pairs(exprs)
        bad  == \E j \in DOMAIN ps : ps[j][1] # "-name"
        name == IF ps = <<>> THEN None ELSE Last(ps)[2]
        show(q) == name \in {None, ""} \/ FnMatch(NameChars[name], NameChars[Last(q)])
    IN /\ status' = IF bad THEN 1 ELSE 0
       /\ out' = IF bad \/ fs[path] # Dir THEN {}
                 ELSE {q \in Paths : Under(path, q) /\ IsFile(fs, q) /\ show(q)}
       /\ cmd' = [op |-> "find", path |-> path, exprs |-> exprs]
       /\ UNCHANGED fs

Next == Cp \/ Rm \/ Mkdir \/ Find

Spec == Init /\ [][Next]_vars

(***************************************************************************)
(* Properties.                                                             *)
(***************************************************************************)
TypeOK ==
  /\ fs \in [Paths -> {Missing, Dir} \cup Data]
  /\ status \in {None, 0, 1}
  /\ out \subseteq {p \in Paths : IsFile(fs, p)}

\* `find path -name` without its value is an error ("the value for -name
\* is missing"): it exits 1 and lists nothing, rather than listing every
\* file.
FindRejectsMissingValue ==
  cmd # None /\ cmd.op = "find" /\ Len(cmd.exprs) % 2 = 1 => status = 1 /\ out = {}

\* rm follows POSIX: -r removes a file as well as a directory tree, and -f
\* silences a missing path only; a path rm cannot remove is an error.
RmAsPosix ==
  [][cmd' # None /\ cmd'.op = "rm" =>
       LET path == cmd'.path
           ok   == IF cmd'.r THEN fs[path] # Missing ELSE IsFile(fs, path)
       IN /\ fs' = IF ok THEN Removed(fs, path) ELSE fs
          /\ status' = IF ok \/ (cmd'.f /\ fs[path] = Missing) THEN 0 ELSE 1]_vars

=============================================================================
