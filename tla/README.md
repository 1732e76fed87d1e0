# TLA+ models of the HinaOS build tools (nuta/microkernel-book)

The Python part of this repository is the build tooling of the HinaOS microkernel: generators and
image builders that `make` runs, plus a pytest harness that boots the OS under QEMU. Each tool is
one sequential process that `make` starts. The tools do not talk to each other directly. They
interact through files, one tool's output being another's input or a build input, and through
exit statuses, which `make` reads to decide whether to go on.

## Inventory

| Component | Source | State | Operations | What makes it correct |
|---|---|---|---|---|
| IDL stub generator | `tools/generate_ipcstub.py` | module-level `next_msg_id`; `IDLParser.messages`; the output header | Lark parse; `visit_stmt` / `visit_msg_def` / `visit_fields` per statement; `generate` (`resolve_type`, `field_defs`, Jinja render, write); `main`'s handlers for `ParseError` and `LarkError` | ids are contiguous from 1, and a reply id is taken only for a return clause; every header symbol is unique; every `<MSG>_MSG` value is distinct and packs `(id<<12)\|sizeof(record)`; the id table covers `IPCSTUB_MSGID_MAX`; errors exit 1 and write nothing |
| BootFS builder | `tools/mkbootfs.py` | `image`, `file_contents`, `file_off` | header, one entry per globbed file, padding, size check, write | every entry's offset is a page boundary holding that file's data; names < 56 bytes; image ≤ 32 MiB |
| HinaFS builder | `tools/mkhinafs.py` | `blocks` list, entry indices, bitmap | recursive `add_dir` / `add_file`, bitmap fill, image write padded to `DISK_SIZE` | every directory entry index points at its child's entry block; data blocks are marked in the bitmap; files fit in 1908 blocks |
| Symbol embedder | `tools/embed_symbols.py` | `symbols` dict, image bytes | filter `nm` lines, sort, build table, size check, splice | the table fits between the markers; the image length and all bytes outside the region are unchanged |
| update_file_if_changed | `tools/update_file_if_changed.py` | the settings file | compare, then truncate and write | the file changes (and its mtime moves) only when its text differs; an interrupted write is repaired by the next run |
| coreutils shim | `tools/coreutils.py` | the file tree | `cp`, `rm [-r] [-f]`, `mkdir [-p]`, `find -name` | behaves like the POSIX commands the Makefile expects on Windows |
| User linker parameters | `tools/generate_user_ld_params.py` | the base-address counter | one `#ifdef SERVER_x` block per sorted server | address ranges are disjoint and below 2^32; one block per macro name |
| Test harness | `conftest.py`, `tests.py` | `cached_runner`, the temporary image | build once per session, check the script fits, rewrite the net0 flag, substitute the autorun placeholder, run QEMU with a timeout, `test_crack`'s retry loop | each boot runs its own script and net0 options whatever ran before; a timeout returns the partial log; the retries end |
| Text generators | `generate_program_name.py`, `generate_gdbinit.py`, `print_build_info.py` | none | format text and print it | nothing beyond formatting |

**What is hard here.** Nothing runs concurrently, and every tool is a terminating sequential
program. The hard parts are these:

- **Values computed twice, in two places.** The id counter is read per message and again for
  `IPCSTUB_MSGID_MAX`. In mkbootfs, entry offsets are predicted by `file_off` while the contents
  are placed by concatenation. In mkhinafs, block indices are predicted from `len(blocks)`.
- **Names derived by suffixing.** Distinct IDL names can yield the same C symbol.
- **Exit statuses** that `make` trusts.
- **Boundary values:** the 12-bit size field, the 4096-byte record bound, the 56-byte bootfs
  names, the 1908-block file limit, `DISK_SIZE`.
- **A truncate-then-write** that an interrupted build leaves half done.
- **Timeouts and retries** in the harness.

The hazards are listed one per line in `PROJECT.json`, each with the line of code it sits at.

## Modules

### `IdlCompiler` (generate_ipcstub.py)

**State.** The variables correspond to the script as follows:

- `program` is the statement list that Lark produces. The grammar itself is abstracted, so
  whether Lark accepts the text is a nondeterministic choice (`Parse` or `ParseFails`).
- `i` is the loop position in `IDLParser.parse`.
- `next_msg_id` is the module-level counter.
- `messages` is `IDLParser.messages`.
- `diag` is what `main` printed.
- `exit_code` is the process's exit status.
- `outfile` is the content of the `-o` path, which starts `Absent` or `Stale`.

**Actions.** Each action is one code path of the script:

| Action | Code path |
|---|---|
| `Parse` | `parser.parse` accepts the text |
| `ParseFails` | the `LarkError` handler, which prints and does not exit 1 |
| `VisitDocComment` | `visit_stmt` on a doc comment |
| `VisitMsgDef` | `visit_msg_def`, including its `visit_fields` calls and the id allocation |
| `MissingReturn` | the "return values is not specified" `ParseError` and its handler |
| `UnknownType` | `resolve_type` raising during rendering |
| `Generate` | render and write |
| `GenerateWriteFails` | an uncaught `OSError` from `open`/`write`, which may leave the file truncated |
| `Terminated` | stutters after exit |

**The header.** The header is abstracted to the declarations it makes:

- `Structs`, `Macros`, `Aggregate`, `MsgIdTable`, `msgid_max` and the asserted records.
- `SizeOfMembers` lays out a C struct with natural alignment, using the target's riscv32 ILP32
  sizes, so that `sizeof` and the packed `MsgType` values are concrete.
- `HeaderWellFormed` and `HeaderCompiles` state what the C compiler will accept.

### `IdlSpec` (the abstract compiler)

`IdlSpec` does the whole run in one step. It maps the file to an outcome, with each message's id
in closed form: `1 + Σ widths of the earlier messages`, where a width is 2 with a return clause
and 1 without. The error reported is the first missing return clause, otherwise the first
unresolved type in render order. `IdlCompiler` instantiates it with `AbsResult` as the
refinement mapping, and `ImplementsIdlSpec` checks that the statement walk with its global
counter implements it. `IdlSpec` follows the code where the code and spec.md disagree. The
disagreements are checked as separate violation runs.

### `MkBootfs` (mkbootfs.py)

**State.** Bytes are abstracted to *pieces* (header, entry, padding, one file's data), each with
its length. A file is abstracted to its stem length and its size.

**Actions.**

- `Init` writes the header and computes the first `file_off`.
- `AppendFile` is one loop iteration.
- `NameTooLong` is the `sys.exit` on a long stem.
- `Finish` pads, concatenates, checks the size and writes.

### `MkHinafs` (mkhinafs.py)

**State.**
- `tree` is the directory given on the command line. It is a function from nodes to
  `[parent, kind, size]`, and the root is node 0.
- `stack` holds the live `add_dir` calls. Each frame has its directory, the children it has not
  visited yet, and its `entries` list.
- `blocks` is the `blocks` list. Each block is abstracted to its kind and its node, plus its
  part number for data blocks or its slot list for entry blocks.
- `written` is the image written: the root block, the blocks and the bitmap.

**Actions.** `Path.iterdir()` has no defined order, so a frame may take any child next.

- `AddFile` is `add_file`. It appends the data blocks, at most `BLOCKS_PER_ENTRY` of them, then
  the entry block, and records the index predicted from `len(blocks)`.
- `BadName` is `encode_path_name` raising for a name of 255 characters or more, or one that is
  not ASCII. For a file it raises in `add_file`; for a directory, in `add_dir` once the
  directory's children are done. A node's name is abstracted to accepted or rejected.
- `EnterDir` is the recursive call for a child directory.
- `TooManyEntries` is the failing `assert len(entries) < BLOCKS_PER_ENTRY`.
- `LeaveDir` is a non-root `add_dir` returning. Its block is appended, then the caller's
  `if is_file ... else raise` raises.
- `FinishRoot` places the root block at index 1, applies `assert len(blocks)` and writes the
  image. `PaddedBlocks` is the zero padding loop: it pads the image to `DISK_SIZE`, and writes
  nothing more when the image is already longer.

### `HinafsSpec` (the abstract HinaFS image builder)

`HinafsSpec` does the whole run in one step. A tree is written (exit 0) exactly when the root
is not empty, holds only files with accepted names, and has fewer than `BLOCKS_PER_ENTRY` of
them. Any subdirectory makes the walk raise. The image is then given in closed form for some
order of the root's files:
- `FileBlocks`: each file's data blocks (`DataBlocks`, at most `BLOCKS_PER_ENTRY`), then its
  entry block listing them from `FirstBlock`;
- the root block listing the entry blocks;
- every block marked in the bitmap;
- the size padded to the disk.

`MkHinafs` maps onto it with no refinement mapping beyond the shared variables. The abstract
`Trees` is `AbsTrees`, the same set under a name of `MkHinafs`, so that TLC evaluates it once.
`ImplementsHinafsSpec` is checked in `hinafs_layout`.

### `UpdateIfChanged` (update_file_if_changed.py)

The model is a sequence of builds, not one run of the script.

**State.**
- `file` is the settings file as bytes, or `Absent`.
- `want` is `args.text` of the current build.
- `pc` is `idle` between builds, `run` while the script compares, and `write` after
  `open(outfile, "w")` has truncated the file.
- `changes` and `crashes` count the settings changes and the interrupted builds.

**Conversions.** They are modelled by what they do, not as the identity:
- `EncodeText` is UTF-8 encoding over a small alphabet (`a`, `\r`, `\n`, `é` = `C3 A9`).
- `DecodeBytes` decodes recursively and returns `Invalid` where Python raises
  `UnicodeDecodeError`.
- `UniversalNewlines` is the text-mode read: `\r\n` and a lone `\r` both become `\n`.

**Actions.**
- `ChangeSettings` (the environment, bounded by `MaxChanges`).
- `Start` is `make` running the script.
- `UpToDate` is the early return.
- `DecodeError` is the uncaught `UnicodeDecodeError`; the script fails and the file stays as it is.
- `Truncate` is `open(..., "w")`, taken when the file is missing or reads back differently.
- `Write` writes the encoded text.
- `Crash` is a killed build, bounded by `MaxCrashes`. In `write` it leaves any proper prefix of
  the encoded text on disk.

### `TestCrack` (conftest.py `Runner.run` and `run_hinaos`, tests.py's tests up to `test_crack`)

The module covers a pytest session: `EarlierTests` gives the tests pytest may run before
`test_crack` (file order, `-k`, a node list or `--lf`), each a script and its net0 options.
Bytes are a small alphabet: `_` for the placeholder, `k` for the rest of the kernel, NUL, and
the scripts' own characters; `"; shutdown"` is one character. A QEMU flag is which flag it is
plus the options appended to it.

**State.**
- `runner` is `cached_runner`: `None`, or its `image` and `qemu_args`.
- `before` is the tests still to run before `test_crack`.
- `boots` records, per boot, the script asked for, its net0 options, the patched image and
  the QEMU flags.
- `attempt` is the loop variable `i`.
- `tmpfiles` counts the `NamedTemporaryFile(delete=False)` images not yet removed.
- `raw_log` is what `Runner.run` holds.
- `history` records, per boot, how QEMU ended and whether its log has `exploited!`.
- `verdict` is `passed`, `failed` (the `for ... else` assertion) or `error`.

**Actions.**
- `RunnerRun(r, script, net)` is `Runner.run` up to QEMU: the `script is too long` check,
  `Rewrite` of the net0 flag, and the image patched by `BytesReplace` (`bytes.replace`, every
  occurrence) with `Pack` (`struct.pack`'s `s` format, NUL-padded or cut to the placeholder's
  length). It returns the runner, unchanged, and the boot.
- `RunEarlier` is one earlier test: the fixture (build, or a failed build that errors the test)
  and one `run_hinaos`.
- `Build`, `BuildFails` and `Cached` are `test_crack`'s fixture.
- `Launch` is `RunnerRun` for `start crack; shutdown` and the temporary file.
- QEMU is the environment. It may exit with a log (`QemuExits`), exit with an error status
  (`QemuFails`), or run until the timer fires (`QemuTimesOut`). In the last case its output so
  far is `None`, a plain log, or one with `exploited!`.
- `WriteNoneLog` is `sys.stdout.buffer.write(None)` raising `TypeError`.
- `Exploited` and `NotExploited` are the loop body of `test_crack`.

### `EmbedSymbols` (embed_symbols.py)

**State.**
- An `nm` line is abstracted to its address (or `BadAddr` when `int(_, 16)` fails), its type
  letter and its name.
- The image is a sequence of pieces: a start or end marker, or a run of other bytes with its
  length.
- `symbols` is the dict from address to name.

**Actions.**
- `SkipLine` and `AddSymbol` are one iteration of the line loop. `AddSymbol` overwrites the
  name at an address, so the last alias wins.
- `Find` is `bytes.find`: the byte offset of a marker, or -1 when it is absent. The
  `is None` checks after it can never fire and are left out.
- `MarkersBad` is the two `count` checks.
- `TableTooBig` is the size check, which also fires when the end marker comes first, because
  the region size is then negative.
- `Embed` sorts by address, packs a 16-byte header and 64 bytes per entry, pads to the region,
  splices it in and asserts that the length is unchanged.

### `BootfsSpec` (the abstract image builder)

`BootfsSpec` does the whole run in one step. It maps the files `glob()` returns to the outcome:
- failure with nothing written, after a long stem or when the image is over `BOOTFS_MAX_SIZE`;
- otherwise an image given in closed form. File `j`'s entry records, and its data lies at, the
  page-padded header and entries plus the page-padded sizes of the files before it.

`MkBootfs` instantiates it. The refinement mapping `AbsImage` reads each entry's offset and
size, and the place its data really landed, out of the written pieces. `ImplementsBootfsSpec`
checks that the loop, with its separately counted `file_off` and contents buffer, builds exactly
that image.

### `UserLdParams` (generate_user_ld_params.py)

**Abstractions.**
- A server name is abstracted to its rank in Python's string order. `Lower` maps it to the
  suffix of its `SERVER_` macro, so two names can share one macro.
- Addresses are counted in MiB. Every address the script computes is a multiple of 1 MiB, and
  TLC's 32-bit integers can then hold 2^32 bytes.
- A header block is `(macro, base, size)`. `hex()` is exact and the preprocessor reads the value
  back unchanged.

**Actions.**
- `Init` is argument parsing and `sorted()`.
- `EmitBlock` is one loop iteration.
- `Write` writes the header.

`RefBlocks` is the reference header: it repeatedly takes the smallest remaining server.

### `Coreutils` (coreutils.py)

**State.**
- The file tree is a function from the paths of depth ≤ 2 over two names to `Missing`, `Dir` or
  a file's contents.
- `cmd`, `status` and `out` are the last command, its exit status and what it printed.

**Actions.** Each subcommand is one action covering the whole handler, with its arguments chosen
by `\E`:
- `Cp` is `CopyAll`, a recursive loop that stops at the first failing source and keeps the
  copies already made. `dst` is any path except a directory of depth two, whose copies would
  lie below the modelled depth, so a target whose parent is missing or a file is reached.
- `Rm` is `rmtree` or `unlink`, with `-f`.
- `Mkdir` is `makedirs` or `mkdir`.
- `Find` covers the `zip` pairing, the `-name` check, and `os.walk`. `os.walk` lists nothing for
  a missing path or a file, because its errors are ignored. `FnMatch` is fnmatch for `*` and
  `?`.

A traceback and `sys.exit(msg)` both count as exit status 1.

## Runs

| Run | Expect | Checks |
|---|---|---|
| `idl_core` | pass | `TypeOK`, `MsgTypesDistinct`, `MsgIdLookupSafe`, `ImplementsIdlSpec` (refinement) over every IDL file of ≤ 2 statements; 209,532 states, ~25 s |
| `idl_reply_size` | violation | `ReplyTypeSizesReply`: `<MSG>_REPLY_MSG` is sized with the request record (line 241) |
| `hinafs_layout` | pass | `TypeOK`, `EntriesLocateChildren`, `ImplementsHinafsSpec` (refinement) over every tree of ≤ 3 entries, with accepted or rejected names, and every iterdir order; 13,752 states |
| `hinafs_subdir` | violation | `SubdirectoriesEmbedded`: a root holding one empty directory raises "unexpected file type" (line 64) |
| `bootfs_layout` | pass | `TypeOK`, `EntriesLocateData`, `ImplementsBootfsSpec` (refinement) over every directory of ≤ 3 files; 1,670 states |
| `update_builds` | pass | `TypeOK`, `UntouchedWhenCurrent` (action property) over builds of texts of ≤ 2 characters from `a`, `\n`, `é`, with one settings change and two crashes; 2,498 states |
| `update_repair` | pass | `Repaired` (liveness under `FairSpec`): with ASCII texts, however builds were interrupted, the file ends up holding the settings text for good; 714 states |
| `crack_retry` | pass | `TypeOK`, `VerdictReflectsAttempts`, `BootsOwnScript`, `CrackTerminates` (liveness under `FairSpec`) over sessions of up to two earlier tests (`test_http` among them, a script that fills the placeholder exactly and one that does not fit) and four crack boots with every way QEMU can end; 1,286 states |
| `crack_timeout_none` | violation | `TimeoutNeverErrors`: a boot that times out before QEMU prints anything makes `raw_log` `None`, and `sys.stdout.buffer.write(None)` errors the test instead of retrying (conftest.py line 93) |
| `ld_regions` | pass | `TypeOK`, `RegionsDisjointInAddressSpace`, `HeaderIndependentOfOrder` over both orders of two servers, a repeated server, two names differing in case, and 112 servers in reverse order (the last region ends exactly at 2^32); 131 states |
| `coreutils_tree` | pass | `TypeOK` (which includes that `find` prints only files) over every sequence of `cp` (1–2 sources, a target of depth one or a non-directory of depth two), `rm [-r] [-f]`, `mkdir [-p]` and `find` from every well-formed tree of depth two over two names; 112,550 states, ~160 s |
| `embed_table` | pass | `TypeOK`, `TableMatchesNm` over `nm` outputs of ≤ 3 lines (aliases, bad addresses, dotted and non-text symbols) and images with a missing, repeated or reversed marker, or a region that fits exactly one or two entries; 9,670 states |

### Further counterexamples

The cfgs below are kept beside the modules
and reproduce further disagreements between the code and what it is meant to do. Each is run
as `tlc -config <cfg> <MC module>`.

| Cfg | MC module | Property violated | What the trace shows |
|---|---|---|---|
| `idl_name_clash.cfg` | `MC_IdlCompiler` | `AcceptedIdlWellFormed` | `ping` and `ping_reply` both declare `ping_reply_fields` / `PING_REPLY_MSG` (generate_ipcstub.py line 228) |
| `idl_bytes_no_count.cfg` | `MC_IdlCompiler` | `AcceptedIdlWellFormed` | `d: bytes` renders `uint8_t d[None]` (line 191) |
| `idl_unchecked_reply_type.cfg` | `MC_IdlCompiler` | `AllFieldTypesResolved` | the return fields of a oneway message are never resolved (line 229) |
| `hinafs_truncate.cfg` | `MC_MkHinafs` | `FileDataComplete` | a file one byte longer than the slots hold keeps its full size but loses its tail (mkhinafs.py line 38) |
| `hinafs_oversize.cfg` | `MC_MkHinafs` | `ImageIsDiskSized` | a root of two full files needs more blocks than the (scaled) disk. `free_space_len` goes negative, the padding loop writes nothing, and the image is written larger than `DISK_SIZE` without an error (mkhinafs.py line 116) |
| `update_crlf.cfg` | `MC_UpdateIfChanged` | `UntouchedWhenCurrent` | a text containing `\r` reads back as `\n` in text mode, so it never compares equal, and every build truncates and rewrites the file, moving its mtime (update_file_if_changed.py line 22) |
| `update_utf8.cfg` | `MC_UpdateIfChanged` | `Repaired` | a build killed after writing `C3` of `é` leaves a file that does not decode. `UnicodeDecodeError` is not an `IOError`, so every later build fails at the read and the file is never repaired (line 24) |
| `idl_syntax_exit.cfg` | `MC_IdlCompiler` | `ExitStatusReflectsOutcome` | the `LarkError` handler prints and falls off `main()`, so a syntax error exits 0 and `make` goes on without a header (generate_ipcstub.py line 317) |
| `idl_msgid_max.cfg` | `MC_IdlCompiler` | `MsgIdMaxInTable` | `oneway ping() -> ();` takes a reply id the table never lists, so `IPCSTUB_MSGID_MAX` is 2 while `IPCSTUB_MSGID2STR` has indices 0 and 1 (line 96) |
| `ld_overflow.cfg` | `MC_UserLdParams` | `RegionsDisjointInAddressSpace` | with 113 servers the last region starts at 0xFE000000 + 32 MiB = 2^32, past the rv32 address space; nothing checks it (generate_user_ld_params.py line 35) |
| `coreutils_rm.cfg` | `MC_Coreutils` | `RmAsPosix` | `rm -f` on a directory swallows the unlink error and exits 0, and `rm -rf` on a regular file leaves it (rmtree fails and the error is ignored); POSIX rm fails in the first case and removes the file in the second (coreutils.py lines 22, 27) |
| `coreutils_find.cfg` | `MC_Coreutils` | `FindRejectsMissingValue` | `find . -name` pairs its expressions with `zip`, which drops the lone `-name`, so the "value is missing" check can never fire and every file is listed with status 0 (line 38) |

Each property of a passing run has a mutant in `PROJECT.json`. The mutant is a plausible bug in
the mapped definition, and TLC finds it under the run's cfg. The mutants are:

| Mutant | Bug it stands for |
|---|---|
| `VisitMsgDefOneIncrement` | the counter is advanced only once for an rpc with a reply |
| `VisitMsgDefReplyIdReused` | the reply id reuses the request id |
| `MsgIdTableReplyAtId` | the reply name is stored at the request id |
| `IsOnewayTypeOnly` | `async` is ignored when deciding oneway |
| `AppendFileNoPadding` | `file_off` skips the data but not the padding |
| `FinishWriteFirst` | the image is written before the size check |
| `AddFileIndexFirst` | the entry index is taken before the data blocks are appended |
| `FinishRootWriteFirst` | the image is written before `assert len(blocks)` |
| `FinishRootBitmapShort` | the bitmap loop stops one block short |
| `UpToDateIfExists` | the script returns as soon as the file exists |
| `TruncateAlways` | the comparison is skipped and the file is always rewritten |
| `WriteUnencoded` | the text is written without being encoded |
| `QemuTimesOutNever` | `check_output` is called without a timeout |
| `NotExploitedOffByOne` | the loop makes one attempt fewer |
| `QemuExitsNoRemove` | the temporary image is not removed |
| `RunnerRunKeepsImage` | the patched image is kept as `self.image` |
| `RunnerRunNoLengthCheck` | the `script is too long` check is left out |
| `AddSymbolFirstWins` | the first name at an address is kept |
| `MarkersBadReturns` | the marker check prints and returns with status 0 |
| `FinishRejectsAtMax` | an image of exactly `BOOTFS_MAX_SIZE` is refused |
| `EmitBlockUnlowered` | the macro is `SERVER_<name>` without `.lower()` |
| `EmitBlockNoAdvance` | `base_addr` is not advanced |
| `InitUnsorted` | the servers are taken in command-line order |
| `FindListsDirs` | `find` lists the directories `os.walk` yields as well as the files |

### Bounds, and why they are enough

**`idl_core`** covers every file of up to two statements. Each statement is a doc comment or a
`msg_def`:

- kind `rpc` or `oneway`, with or without `async`;
- name `ping` or `ping_reply`;
- args taken from `any`, `x: int32`, `d: bytes[4092]`, `b: bogus`;
- rets taken from none, `()`, `s: cstr[4095]`, `(x: int32, b: bogus)`.

Two messages are enough for the id interleaving (1,2),(3,4) and for every pairwise name clash.
The field choices cover:

- both sides of the 4096-byte static assertion: 4092 + `size_t` = 4096 fails, 4095 passes;
- an unknown type in args and in rets;
- the `any` list;
- reply and request records of different sizes.

**`bootfs_layout`** covers up to three files. Stems are 4 bytes or 56 (the first length
rejected). Sizes are 0, 1, 4097 and 32 MiB − 4096: an image holding only that last file is
exactly `BOOTFS_MAX_SIZE`, and any second non-empty file takes it over the limit. Three files
cover an empty file between two others and a non-page-multiple file followed by another.

**`hinafs_layout`** covers every tree of up to three entries below the root, up to renaming,
in every iteration order. `BLOCKS_PER_ENTRY` is scaled from 1908 down to 3, both for the
directory limit and for a file's data slots. At that scale, three files in one directory reach
the assertion, and a file of `3*4096 + 1` bytes reaches the truncation. The limits are
compared the same way at any scale, and the index arithmetic does not depend on the value.
File sizes are 0 (no data blocks, all slots 0xffff), 1, exactly three blocks, and one byte over.
Each name is accepted or rejected by `encode_path_name`. `DISK_SIZE` is scaled with
`BLOCKS_PER_ENTRY` to the header blocks plus 7. The largest image a three-node tree can produce
(two full files, 8 blocks) then overflows it, just as a root of 1907 full files overflows the
real 128 MiB disk. `hinafs_layout` has 13,752 states.

**`update_*`** uses texts of at most two characters over four alphabets, one per question.
Two characters are enough for a two-byte character followed by another, and for `\r\n`. One
settings change is enough to make a current file stale. Two crashes are enough for a crash
during one repair followed by a crash during the next. Every proper prefix of the encoded text
is a possible crash result.

**`crack_retry`** uses the code's four attempts, and every boot may end in each of the five
ways. The state space is small, so the exact bound of `range(1, 5)` is checked. The placeholder
is scaled from 534 bytes to 3, which keeps its three cases: a script (with `; shutdown`) that
leaves NUL padding, one that fills it exactly, and one that does not fit. Two earlier tests are
enough for a stale image to reach a later boot. Orders with `test_http` first or
twice are included, because pytest runs any selection in the order given.

**`embed_table`** uses `nm` outputs of at most three lines drawn from seven kinds, including
two names at one address. The images cover:
- a region of 80 bytes (22 + 38 + 20), which fits exactly one entry (16 + 64);
- a region of 144 bytes, which fits exactly two entries;
- a missing start marker, a repeated start marker, and the end marker before the start.

With three lines, a table may need up to three entries, so both "too big" and "fits" happen.

**`ld_regions`** checks every order question on two and three servers, including a repeated
server and two names that share a macro. Its one long list has 112 servers, the most whose
regions end at or below 2^32, so the bound is reached exactly. `ld_overflow.cfg` adds the 113th.

**`coreutils_tree`** starts from every well-formed tree of depth two over two names (361 trees),
with two possible contents. Depth two is the least where `rm -r` has a subtree to remove and
`mkdir -p` has an intermediate directory to create. Two sources are the least that let `cp` fail
half way. A `dst` of depth two is the least that makes `shutil.copy` fail on a missing parent.

### Fairness

**The image tools.** `IdlCompiler`, `MkBootfs`, `MkHinafs`, `EmbedSymbols` and `UserLdParams` are single
terminating processes with no liveness property. `Terminated` is the only step after exit, and
deadlock checking stays on.

**`UpdateIfChanged`.** `FairSpec` has weak fairness on three things, each justified by the code:
- `Start`: a developer who keeps building, so `make` reruns the script;
- the script's comparison step: a short sequential program runs once it is started;
- `Write`.

`Crash` and `ChangeSettings` get no fairness, and both are bounded, so from some point on the
settings are stable and no build is killed. `Repaired` is stated under exactly that assumption.

**`TestCrack`.** `FairSpec` has weak fairness on pytest's own steps and on `QemuTimesOut`. The
`timeout=` of `check_output` fires while QEMU runs, so a timeout is guaranteed. QEMU exiting by
itself is not fair: the OS under test may hang. `CrackTerminates` therefore holds even if every
boot hangs.

## Not modelled (yet), and why

- The Lark grammar and the Jinja text. These are parsing and formatting; the model starts from
  the parse tree and ends at the declarations.
- Sizes of the HinaOS typedefs (`offset_t`, `paddr_t`, `task_t`, ...). `libs/common/types.h` is
  not in this repository, so the MC uses only standard C types.
- In mkhinafs, the bitmap's capacity (an `IndexError` above 131072 blocks, four times the disk),
  which the scaled disk never reaches, and the header's `num_data_blocks`, always written as 0,
  whose reader is the kernel outside this repository.
- The text generators (program name, gdbinit, build info). They have no state or branching.
- In coreutils, the argparse usage errors and the help screen printed without a subcommand
  (no state changes), fnmatch's `[...]` classes, and Windows' case-insensitive `normcase`.
  Paths are of depth two at most.
- In the `Coreutils` model, `cmd` is kept only to state the command-level properties. It
  multiplies the states of `coreutils_tree` by the number of commands.
- In the test harness, the tests' assertions on the log are about the OS, not this code.
  `test_http`'s HTTP server thread serves QEMU and shares no state with the harness. The
  outcome of an earlier test's boot is not recorded, because no later step reads it. The kernel
  reading AUTORUN up to its NUL is the kernel's C code, outside this repository; `KernelReads`
  states it for the property.
- In mkbootfs, the 16-bit file count and the collision of two files with one stem. The count
  overflows only above 65535 files, where `struct.pack` raises before anything is written. Entry
  names are abstracted to stem lengths, and the script never checks that stems are unique.

## Plan for the next sittings

1. **`MkBootfs`**: entry names from stems, so that a duplicate stem can be shown.
2. **Test harness**: the other tests' boots ending with `ignore_timeout=False`, recorded as
   their verdicts.
