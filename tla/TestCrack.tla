------------------------------ MODULE TestCrack ------------------------------
(***************************************************************************)
(* The test harness over a pytest session: tests.py's tests, the          *)
(* run_hinaos fixture and Runner.run in conftest.py, up to and including   *)
(* the one retrying test, test_crack.                                      *)
(*                                                                         *)
(* The fixture builds HinaOS once per session (cached_runner); the tests   *)
(* pytest runs before test_crack boot it once each.  test_crack then boots *)
(* it up to MaxAttempts times, with timeouts 2, 4, 8, 16 s and             *)
(* ignore_timeout=True, until the log contains "exploited!".  Each boot    *)
(* checks the script fits AUTORUN_PLACEHOLDER, rewrites the QEMU flags     *)
(* with the test's net0 options, patches the script into a copy of the    *)
(* image, writes it to a temporary file, runs QEMU under                   *)
(* check_output(timeout=...), removes the file in `finally`, echoes the    *)
(* raw log and decodes it.                                                 *)
(*                                                                         *)
(* Bytes are abstracted to a few characters: "_" for the placeholder's,   *)
(* "k" for the rest of the kernel image, NUL, and the scripts' own.        *)
(* "; shutdown" is the one-character Shutdown; a QEMU flag is a record of *)
(* which flag it is and the options appended to it.                        *)
(*                                                                         *)
(* QEMU is the environment: it exits with a log that does or does not     *)
(* contain "exploited!", exits with an error status, or keeps running      *)
(* until the timeout, having printed nothing (TimeoutExpired.stdout is     *)
(* None), or some output with or without "exploited!".  The outcome of an  *)
(* earlier test's boot changes nothing test_crack sees, so it is not       *)
(* recorded.                                                               *)
(***************************************************************************)
EXTENDS Integers, Sequences, SequencesExt

CONSTANTS
  MaxAttempts,   \* range(1, 5): four attempts
  P,             \* len(AUTORUN_PLACEHOLDER)
  EarlierTests,  \* the sequences of [script, net] tests pytest may run first
  None

\* What QEMU printed: the log, with or without the exploit's message.
Logs == {"exploited", "plain"}

NUL == "\\0"
Placeholder == [j \in 1..P |-> "_"]
Shutdown == <<";">>
CrackScript == <<"c">>                 \* "start crack"

\* The image `make build AUTORUN=<placeholder>` links: the placeholder is a
\* C string literal, so a NUL follows it.
Image == <<"k">> \o Placeholder \o <<NUL, "k">>

\* QEMUFLAGS after shlex.split: one flag is "-netdev user,id=net0,...".
QemuFlags == <<[arg |-> "kernel", opts |-> <<>>], [arg |-> "net0", opts |-> <<>>]>>

VARIABLES
  runner,     \* cached_runner: None, or its image and qemu_args
  before,     \* the tests still to run before test_crack
  boots,      \* per boot: the script asked for, what the kernel reads, the flags
  pc,         \* "fixture", "launch", "qemu", "returned", "done"
  attempt,    \* the loop variable i
  tmpfiles,   \* temporary images not yet removed
  raw_log,    \* what Runner.run holds as raw_log (None, or a log)
  history,    \* per attempt: how QEMU ended and what it printed
  verdict     \* None while running; "passed", "failed" (assert) or "error"

vars == <<runner, before, boots, pc, attempt, tmpfiles, raw_log, history, verdict>>

(***************************************************************************)
(* Runner.run up to the start of QEMU: its effect on the runner and the    *)
(* boot it prepares, or None when it raises ValueError.                    *)
(***************************************************************************)
\* image.replace(placeholder, script_bytes): every occurrence, left to right.
RECURSIVE BytesReplace(_, _, _)
BytesReplace(t, s, r) ==
  IF Len(t) < Len(s) THEN t
  ELSE IF SubSeq(t, 1, Len(s)) = s
       THEN r \o BytesReplace(SubSeq(t, Len(s) + 1, Len(t)), s, r)
       ELSE <<Head(t)>> \o BytesReplace(Tail(t), s, r)

\* struct.pack(f"{len(AUTORUN_PLACEHOLDER)}s", ...): NUL-padded to P bytes,
\* or cut to P bytes.
Pack(b) ==
  IF Len(b) >= P THEN SubSeq(b, 1, P)
  ELSE b \o [j \in 1..(P - Len(b)) |-> NUL]

\* The loop over self.qemu_args: the net0 flag gets "," + ",".join(opts).
Rewrite(args, net) ==
  [j \in DOMAIN args |->
     IF net # None /\ args[j].arg = "net0"
       THEN [args[j] EXCEPT !.opts = @ \o net] ELSE args[j]]

\* Mutant: the patched image is kept as self.image.
RunnerRunKeepsImage(r, script, net) ==
  IF Len(script) > P THEN [runner |-> r, boot |-> None]
  ELSE LET img == BytesReplace(r.image, Placeholder, Pack(script)) IN
       [runner |-> [r EXCEPT !.image = img],
        boot   |-> [script |-> script, net |-> net, image |-> img,
                    argv |-> Rewrite(r.qemu_args, net)]]

\* Mutant: no "script is too long" check.
RunnerRunNoLengthCheck(r, script, net) ==
  [runner |-> r,
   boot   |-> [script |-> script, net |-> net,
               image |-> BytesReplace(r.image, Placeholder, Pack(script)),
               argv |-> Rewrite(r.qemu_args, net)]]

RunnerRun(r, script, net) ==
  IF Len(script) > P THEN [runner |-> r, boot |-> None]
  ELSE [runner |-> r,
        boot   |-> [script |-> script, net |-> net,
                    image |-> BytesReplace(r.image, Placeholder, Pack(script)),
                    argv |-> Rewrite(r.qemu_args, net)]]

\* Runner("build/hinaos.elf") after `make build`.
NewRunner == [image |-> Image, qemu_args |-> QemuFlags]

Init ==
  /\ runner = None
  /\ before \in EarlierTests
  /\ boots = <<>>
  /\ pc = "fixture"
  /\ attempt = 1
  /\ tmpfiles = 0
  /\ raw_log = None
  /\ history = <<>>
  /\ verdict = None

\* A test before test_crack: the fixture (building when nothing is cached,
\* the build failing and the test erroring), then one run_hinaos(script)
\* with the test's net0 options; ValueError, a QEMU error or timeout only
\* fail that test.
RunEarlier ==
  /\ pc = "fixture"
  /\ before # <<>>
  /\ LET t == Head(before) IN
       \/ /\ runner = None
          /\ UNCHANGED <<runner, boots>>
       \/ LET res == RunnerRun(IF runner = None THEN NewRunner ELSE runner,
                               t.script \o Shutdown, t.net)
          IN /\ runner' = res.runner
             /\ boots' = IF res.boot = None THEN boots ELSE Append(boots, res.boot)
  /\ before' = Tail(before)
  /\ UNCHANGED <<pc, attempt, tmpfiles, raw_log, history, verdict>>

\* test_crack's run_hinaos with no cached runner: `make build` with
\* check=True, then Runner() reads the image.
Build ==
  /\ pc = "fixture"
  /\ before = <<>>
  /\ runner = None
  /\ runner' = NewRunner
  /\ pc' = "launch"
  /\ UNCHANGED <<before, boots, attempt, tmpfiles, raw_log, history, verdict>>

\* The build fails: CalledProcessError, the test errors and cached_runner
\* stays None.
BuildFails ==
  /\ pc = "fixture"
  /\ before = <<>>
  /\ runner = None
  /\ verdict' = "error"
  /\ pc' = "done"
  /\ UNCHANGED <<runner, before, boots, attempt, tmpfiles, raw_log, history>>

\* The runner is cached: the fixture returns at once.
Cached ==
  /\ pc = "fixture"
  /\ before = <<>>
  /\ runner # None
  /\ pc' = "launch"
  /\ UNCHANGED <<runner, before, boots, attempt, tmpfiles, raw_log, history, verdict>>

\* Runner.run for "start crack; shutdown", which fits the placeholder; the
\* patched image is written to a NamedTemporaryFile(delete=False) and QEMU
\* is started.
Launch ==
  /\ pc = "launch"
  /\ LET res == RunnerRun(runner, CrackScript \o Shutdown, None) IN
       /\ res.boot # None
       /\ runner' = res.runner
       /\ boots' = Append(boots, res.boot)
  /\ tmpfiles' = tmpfiles + 1
  /\ pc' = "qemu"
  /\ UNCHANGED <<before, attempt, raw_log, history, verdict>>

\* Mutant: the temporary image is not removed.
QemuExitsNoRemove ==
  /\ pc = "qemu"
  /\ \E log \in Logs :
       /\ raw_log' = log
       /\ history' = Append(history, [how |-> "exit", log |-> log])
  /\ pc' = "returned"
  /\ UNCHANGED <<runner, before, boots, attempt, verdict, tmpfiles>>

\* check_output returns: QEMU shut down with status 0.  `finally`
\* removes the temporary image.
QemuExits ==
  /\ pc = "qemu"
  /\ \E log \in Logs :
       /\ raw_log' = log
       /\ history' = Append(history, [how |-> "exit", log |-> log])
  /\ tmpfiles' = tmpfiles - 1
  /\ pc' = "returned"
  /\ UNCHANGED <<runner, before, boots, attempt, verdict>>

\* QEMU exits with an error status: CalledProcessError propagates through
\* `finally` and the test errors.
QemuFails ==
  /\ pc = "qemu"
  /\ history' = Append(history, [how |-> "status", log |-> None])
  /\ tmpfiles' = tmpfiles - 1
  /\ verdict' = "error"
  /\ pc' = "done"
  /\ UNCHANGED <<runner, before, boots, attempt, raw_log>>

\* Mutant: check_output is called without a timeout.
QemuTimesOutNever ==
  /\ FALSE
  /\ UNCHANGED vars

\* TimeoutExpired after 2**i seconds: raw_log = e.stdout, None when QEMU
\* printed nothing.  With ignore_timeout the handler falls through
\* (tshark's pcap dump is only printed); `finally` removes the image.
QemuTimesOut ==
  /\ pc = "qemu"
  /\ \E out \in Logs \cup {None} :
       /\ raw_log' = out
       /\ history' = Append(history, [how |-> "timeout", log |-> out])
  /\ tmpfiles' = tmpfiles - 1
  /\ pc' = "returned"
  /\ UNCHANGED <<runner, before, boots, attempt, verdict>>

\* sys.stdout.buffer.write(None) raises TypeError out of Runner.run.
WriteNoneLog ==
  /\ pc = "returned"
  /\ raw_log = None
  /\ verdict' = "error"
  /\ pc' = "done"
  /\ UNCHANGED <<runner, before, boots, attempt, tmpfiles, raw_log, history>>

\* "exploited!" in r.log: break, the test passes.
Exploited ==
  /\ pc = "returned"
  /\ raw_log = "exploited"
  /\ verdict' = "passed"
  /\ pc' = "done"
  /\ UNCHANGED <<runner, before, boots, attempt, tmpfiles, raw_log, history>>

\* Mutant: the loop makes one attempt fewer.
NotExploitedOffByOne ==
  /\ pc = "returned"
  /\ raw_log = "plain"
  /\ IF attempt + 1 < MaxAttempts
       THEN /\ attempt' = attempt + 1
            /\ pc' = "launch"
            /\ UNCHANGED verdict
       ELSE /\ verdict' = "failed"
            /\ pc' = "done"
            /\ UNCHANGED attempt
  /\ UNCHANGED <<runner, before, boots, tmpfiles, raw_log, history>>

\* No "exploited!": the next attempt with twice the timeout, or, after the
\* last one, the for loop's else: assert False, "all attempts failed".
NotExploited ==
  /\ pc = "returned"
  /\ raw_log = "plain"
  /\ IF attempt < MaxAttempts
       THEN /\ attempt' = attempt + 1
            /\ pc' = "launch"
            /\ UNCHANGED verdict
       ELSE /\ verdict' = "failed"
            /\ pc' = "done"
            /\ UNCHANGED attempt
  /\ UNCHANGED <<runner, before, boots, tmpfiles, raw_log, history>>

Terminated ==
  /\ pc = "done"
  /\ UNCHANGED vars

Next ==
  \/ RunEarlier
  \/ Build \/ BuildFails \/ Cached \/ Launch
  \/ QemuExits \/ QemuFails \/ QemuTimesOut
  \/ WriteNoneLog \/ Exploited \/ NotExploited
  \/ Terminated

Spec == Init /\ [][Next]_vars

\* pytest's own steps run; QEMU need not ever exit by itself, but the
\* timer of check_output fires while it runs.
FairSpec ==
  /\ Spec
  /\ WF_vars(RunEarlier \/ Build \/ BuildFails \/ Cached \/ Launch)
  /\ WF_vars(WriteNoneLog \/ Exploited \/ NotExploited)
  /\ WF_vars(QemuTimesOut)

(***************************************************************************)
(* Properties.                                                             *)
(***************************************************************************)
Chars == {"_", "k", NUL, "a", "b", "c", ";"}
Flag == [arg : {"kernel", "net0"}, opts : Seq({"guestfwd"})]

TypeOK ==
  /\ runner \in {None} \cup [image : Seq(Chars), qemu_args : Seq(Flag)]
  /\ boots \in Seq([script : Seq(Chars), net : {None} \cup Seq({"guestfwd"}),
                    image : Seq(Chars), argv : Seq(Flag)])
  /\ attempt \in 1..MaxAttempts
  /\ tmpfiles \in {0, 1}
  /\ raw_log \in Logs \cup {None}
  /\ verdict \in {None, "passed", "failed", "error"}
  /\ (verdict = None) <=> (pc # "done")
  /\ Len(history) <= attempt

\* The verdict is what the boots showed: test_crack passes only when the
\* last boot's log had "exploited!" and no earlier one did, and fails only
\* after all MaxAttempts boots ended (by exit or timeout) without it.
VerdictReflectsAttempts ==
  /\ verdict = "passed" =>
       /\ Last(history).log = "exploited"
       /\ \A j \in 1..(Len(history) - 1) : history[j].log = "plain"
  /\ verdict = "failed" =>
       /\ Len(history) = MaxAttempts
       /\ \A j \in 1..MaxAttempts : history[j].log = "plain"

\* The AUTORUN string the booted kernel reads: the C string at the
\* placeholder's address, up to its first NUL.
KernelReads(img) ==
  LET t == SubSeq(img, 2, Len(img)) IN
  SubSeq(t, 1, SelectInSeq(t, LAMBDA c : c = NUL) - 1)

\* Every boot of the session runs exactly the script its test passed (with
\* "; shutdown"): never an earlier test's script left in the cached image,
\* never one cut short by struct.pack; a script that does not fit is
\* refused with ValueError instead of booted.
BootsOwnScript ==
  \A j \in DOMAIN boots : KernelReads(boots[j].image) = boots[j].script

\* Even if QEMU hangs on every boot, test_crack comes to a verdict, and the
\* temporary images are gone by then.
CrackTerminates == <>(verdict # None /\ tmpfiles = 0)

\* ignore_timeout=True means a boot that times out is one more failed
\* attempt: test_crack never ends in an error because of a timeout.
TimeoutNeverErrors ==
  verdict = "error" /\ history # <<>> => Last(history).how # "timeout"

=============================================================================
