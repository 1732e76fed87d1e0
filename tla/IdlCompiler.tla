---------------------------- MODULE IdlCompiler ----------------------------
(***************************************************************************)
(* The IPC stub generator, tools/generate_ipcstub.py.                      *)
(*                                                                         *)
(* One run of the script: main() parses the IDL text with Lark, the        *)
(* IDLParser walks the statements one at a time and allocates message ids  *)
(* from the module-level counter next_msg_id, then generate() renders the  *)
(* header with Jinja (resolving field types while it renders) and writes   *)
(* it to the output path.  A ParseError is printed as a diagnostic and     *)
(* ends the run with exit status 1; a LarkError is printed but the         *)
(* handler does not exit with an error status.                             *)
(*                                                                         *)
(* The IDL text is abstracted to the statement sequence Lark produces from *)
(* it; whether Lark accepts the text is a nondeterministic choice.  The    *)
(* generated header is abstracted to the declarations it makes (structs    *)
(* with their members, message-type macros, the id-to-name table, the      *)
(* static assertions); its wording and layout are left out.               *)
(***************************************************************************)
EXTENDS Integers, Sequences, FiniteSets, SequencesExt, Bitwise

CONSTANTS
  Programs,   \* the statement sequences a run may be given
  Upper,      \* Upper[n]: message name n through Jinja's `upper` filter
  TypeLayout, \* C type -> [size, align] on the target ABI
  None,       \* Python's None (an absent reply id or array count)
  AnyFields,  \* the `any` field list
  NoRets,     \* a msg_def without the `-> (...)` clause
  Scalar,     \* a struct member that is not an array
  Absent,     \* the output path does not exist yet
  Stale,      \* the output path holds a header from an earlier build
  Truncated   \* the output path was opened for writing, the write failed

VARIABLES
  program,     \* the statements of the IDL file (fixed for the run)
  pc,          \* "parse", "visit" (the statement loop), "done"
  i,           \* index of the next statement IDLParser.parse visits
  next_msg_id, \* the module-level id counter
  messages,    \* IDLParser.messages
  diag,        \* the diagnostic main() printed, or None
  exit_code,   \* the process exit status once the run ended, or None
  outfile      \* the content of the output path

vars == <<program, pc, i, next_msg_id, messages, diag, exit_code, outfile>>

(***************************************************************************)
(* The builtin type catalog of generate().                                 *)
(***************************************************************************)
Builtins ==
  [char |-> "char", bool |-> "bool", int |-> "int", uint |-> "unsigned",
   int8 |-> "int8_t", int16 |-> "int16_t", int32 |-> "int32_t",
   int64 |-> "int64_t", uint8 |-> "uint8_t", uint16 |-> "uint16_t",
   uint32 |-> "uint32_t", uint64 |-> "uint64_t", size |-> "size_t",
   offset |-> "offset_t", uaddr |-> "uaddr_t", paddr |-> "paddr_t",
   task |-> "task_t", notifications |-> "notifications_t"]

\* visit_fields: the `any` list becomes an empty field list.
Fields(fl) == IF fl = AnyFields THEN <<>> ELSE fl

\* Mutant: `async` no longer makes a message oneway.
IsOnewayTypeOnly(s) == s.msg_type = "oneway"

IsOneway(s) == s.msg_type = "oneway" \/ "async" \in s.modifiers

\* resolve_type raises for a name outside the catalog; field_defs never
\* resolves bytes and cstr.
Unresolved(f) ==
  f.type \notin {"bytes", "cstr"} /\ f.type \notin DOMAIN Builtins

(***************************************************************************)
(* field_defs: the struct members one IDL field becomes.  An array count  *)
(* of None (bytes or cstr written without [N]) is rendered as "[None]".   *)
(***************************************************************************)
FieldDef(f) ==
  CASE f.type = "bytes" ->
         << [name |-> f.name, ctype |-> "uint8_t", dim |-> f.nr],
            [name |-> f.name \o "_len", ctype |-> "size_t", dim |-> Scalar] >>
    [] f.type = "cstr" ->
         << [name |-> f.name, ctype |-> "char", dim |-> f.nr] >>
    [] OTHER ->
         << [name |-> f.name, ctype |-> Builtins[f.type],
             dim |-> IF f.nr = None THEN Scalar ELSE f.nr] >>

FieldDefs(fields) == FlattenSeq([k \in 1..Len(fields) |-> FieldDef(fields[k])])

\* The field lists the template passes through field_defs, in render order:
\* each message's args, then its rets unless it is oneway.
RenderedFields(msgs) ==
  FlattenSeq([k \in 1..Len(msgs) |->
                msgs[k].args \o (IF msgs[k].oneway THEN <<>> ELSE msgs[k].rets)])

(***************************************************************************)
(* The header generate() renders, as the declarations it makes.           *)
(***************************************************************************)
\* __DEFINE_MSG_TYPE(type, len): ((type) << 12 | (len))
MsgType(id, len) == (id * 2^12) | len

Structs(msgs) ==
  FlattenSeq([k \in 1..Len(msgs) |->
    LET m == msgs[k] IN
    << [name |-> m.name \o "_fields", members |-> FieldDefs(m.args)] >>
    \o (IF m.oneway THEN <<>>
        ELSE << [name |-> m.name \o "_reply_fields",
                 members |-> FieldDefs(m.rets)] >>)])

\* <NAME>_MSG and <NAME>_REPLY_MSG; both take the size of <name>_fields.
Macros(msgs) ==
  FlattenSeq([k \in 1..Len(msgs) |->
    LET m == msgs[k] IN
    << [name |-> Upper[m.name] \o "_MSG", msg |-> m.name, reply |-> FALSE,
        id |-> m.id, sizeof |-> m.name \o "_fields"] >>
    \o (IF m.oneway THEN <<>>
        ELSE << [name |-> Upper[m.name] \o "_REPLY_MSG", msg |-> m.name,
                 reply |-> TRUE, id |-> m.reply_id,
                 sizeof |-> m.name \o "_fields"] >>)])

\* The designators of IPCSTUB_MSGID2STR, in the order they are written.
\* Mutant: the reply designator written with the request id.
MsgIdTableReplyAtId(msgs) ==
  FlattenSeq([k \in 1..Len(msgs) |->
    LET m == msgs[k] IN
    << [index |-> m.id, str |-> m.name] >>
    \o (IF m.oneway THEN <<>>
        ELSE << [index |-> m.id, str |-> m.name \o "_reply"] >>)])

MsgIdTable(msgs) ==
  FlattenSeq([k \in 1..Len(msgs) |->
    LET m == msgs[k] IN
    << [index |-> m.id, str |-> m.name] >>
    \o (IF m.oneway THEN <<>>
        ELSE << [index |-> m.reply_id, str |-> m.name \o "_reply"] >>)])

\* Members of IPCSTUB_MESSAGE_FIELDS.
Aggregate(msgs) ==
  FlattenSeq([k \in 1..Len(msgs) |->
    LET m == msgs[k] IN
    << m.name >> \o (IF m.oneway THEN <<>> ELSE << m.name \o "_reply" >>)])

Header(msgs, msgid_max) ==
  [structs   |-> Structs(msgs),
   macros    |-> Macros(msgs),
   table     |-> MsgIdTable(msgs),
   aggregate |-> Aggregate(msgs),
   msgid_max |-> msgid_max,
   \* IPCSTUB_STATIC_ASSERTIONS loops exactly like the struct definitions
   asserted  |-> [k \in 1..Len(Structs(msgs)) |-> Structs(msgs)[k].name]]

(***************************************************************************)
(* The C compiler's view of the header: struct layout on the target ABI.  *)
(***************************************************************************)
AlignUp(n, a) == ((n + a - 1) \div a) * a

MemberSize(mb) ==
  TypeLayout[mb.ctype].size * (IF mb.dim = Scalar THEN 1 ELSE mb.dim)

\* sizeof of a struct with these members (0 for an empty GNU C struct).
SizeOfMembers(mbs) ==
  LET step(acc, mb) ==
        [off   |-> AlignUp(acc.off, TypeLayout[mb.ctype].align) + MemberSize(mb),
         align |-> IF TypeLayout[mb.ctype].align > acc.align
                     THEN TypeLayout[mb.ctype].align ELSE acc.align]
      r == FoldLeft(step, [off |-> 0, align |-> 1], mbs)
  IN AlignUp(r.off, r.align)

StructNamed(h, n) == h.structs[SelectInSeq(h.structs, LAMBDA st : st.name = n)]

SizeOf(h, n) == SizeOfMembers(StructNamed(h, n).members)

MacroValue(h, mc) == MsgType(mc.id, SizeOf(h, mc.sizeof))

AllDistinct(s) == \A a, b \in DOMAIN s : a # b => s[a] # s[b]

\* The header is valid C: no name is declared twice and every array has a
\* count.
HeaderWellFormed(h) ==
  /\ AllDistinct([k \in DOMAIN h.structs |-> h.structs[k].name])
  /\ AllDistinct([k \in DOMAIN h.macros |-> h.macros[k].name])
  /\ AllDistinct(h.aggregate)
  /\ \A k \in DOMAIN h.structs :
       LET mbs == h.structs[k].members IN
       /\ AllDistinct([j \in DOMAIN mbs |-> mbs[j].name])
       /\ \A j \in DOMAIN mbs : mbs[j].dim # None

\* ... and every static assertion of IPCSTUB_STATIC_ASSERTIONS holds.
HeaderCompiles(h) ==
  /\ HeaderWellFormed(h)
  /\ \A k \in DOMAIN h.asserted : SizeOf(h, h.asserted[k]) < 4096

(***************************************************************************)
(* The run.                                                                *)
(***************************************************************************)
Init ==
  /\ program \in Programs
  /\ pc = "parse"
  /\ i = 1
  /\ next_msg_id = 1
  /\ messages = <<>>
  /\ diag = None
  /\ exit_code = None
  /\ outfile \in {Absent, Stale}

\* parser.parse(text) accepts the text.
Parse ==
  /\ pc = "parse"
  /\ pc' = "visit"
  /\ UNCHANGED <<program, i, next_msg_id, messages, diag, exit_code, outfile>>

\* parser.parse(text) raises a LarkError: main() prints it and returns,
\* so the interpreter exits with status 0.
ParseFails ==
  /\ pc = "parse"
  /\ diag' = [kind |-> "syntax", hint |-> FALSE]
  /\ exit_code' = 0
  /\ pc' = "done"
  /\ UNCHANGED <<program, i, next_msg_id, messages, outfile>>

\* visit_stmt on a doc_comment.
VisitDocComment ==
  /\ pc = "visit"
  /\ i <= Len(program)
  /\ program[i].kind = "doc_comment"
  /\ i' = i + 1
  /\ UNCHANGED <<program, pc, next_msg_id, messages, diag, exit_code, outfile>>

\* Mutant: the counter is advanced once, not again for the reply id.
VisitMsgDefOneIncrement ==
  /\ pc = "visit"
  /\ i <= Len(program)
  /\ LET s == program[i]
         hasRets == s.rets # NoRets
     IN /\ s.kind = "msg_def"
        /\ hasRets \/ IsOneway(s)
        /\ messages' = Append(messages,
              [id |-> next_msg_id,
               reply_id |-> IF hasRets THEN next_msg_id + 1 ELSE None,
               name |-> s.name, oneway |-> IsOneway(s), args |-> Fields(s.args),
               rets |-> IF hasRets THEN Fields(s.rets) ELSE <<>>])
        /\ next_msg_id' = next_msg_id + 1
  /\ i' = i + 1
  /\ UNCHANGED <<program, pc, diag, exit_code, outfile>>

\* Mutant: the reply id is read from the counter before it is advanced.
VisitMsgDefReplyIdReused ==
  /\ pc = "visit"
  /\ i <= Len(program)
  /\ LET s == program[i]
         hasRets == s.rets # NoRets
     IN /\ s.kind = "msg_def"
        /\ hasRets \/ IsOneway(s)
        /\ messages' = Append(messages,
              [id |-> next_msg_id,
               reply_id |-> IF hasRets THEN next_msg_id ELSE None,
               name |-> s.name, oneway |-> IsOneway(s), args |-> Fields(s.args),
               rets |-> IF hasRets THEN Fields(s.rets) ELSE <<>>])
        /\ next_msg_id' = next_msg_id + (IF hasRets THEN 2 ELSE 1)
  /\ i' = i + 1
  /\ UNCHANGED <<program, pc, diag, exit_code, outfile>>

\* visit_stmt on a msg_def that has a return clause or is oneway.
VisitMsgDef ==
  /\ pc = "visit"
  /\ i <= Len(program)
  /\ LET s == program[i]
         hasRets == s.rets # NoRets
     IN /\ s.kind = "msg_def"
        /\ hasRets \/ IsOneway(s)
        /\ messages' = Append(messages,
              [id       |-> next_msg_id,
               reply_id |-> IF hasRets THEN next_msg_id + 1 ELSE None,
               name     |-> s.name,
               oneway   |-> IsOneway(s),
               args     |-> Fields(s.args),
               rets     |-> IF hasRets THEN Fields(s.rets) ELSE <<>>])
        /\ next_msg_id' = next_msg_id + (IF hasRets THEN 2 ELSE 1)
  /\ i' = i + 1
  /\ UNCHANGED <<program, pc, diag, exit_code, outfile>>

\* visit_msg_def raises "return values is not specified" (with a hint)
\* after taking the request id; main() prints it and exits with 1.
MissingReturn ==
  /\ pc = "visit"
  /\ i <= Len(program)
  /\ LET s == program[i]
     IN /\ s.kind = "msg_def"
        /\ s.rets = NoRets
        /\ ~IsOneway(s)
        /\ diag' = [kind |-> "missing_return", name |-> s.name, hint |-> TRUE]
  /\ next_msg_id' = next_msg_id + 1
  /\ exit_code' = 1
  /\ pc' = "done"
  /\ UNCHANGED <<program, i, messages, outfile>>

\* generate(): rendering reaches a field whose type resolve_type rejects;
\* the ParseError ends the run before the output is opened.
UnknownType ==
  /\ pc = "visit"
  /\ i > Len(program)
  /\ LET fs == RenderedFields(messages)
         k  == SelectInSeq(fs, Unresolved)
     IN /\ k # 0
        /\ diag' = [kind |-> "unknown_type", type |-> fs[k].type, hint |-> FALSE]
  /\ exit_code' = 1
  /\ pc' = "done"
  /\ UNCHANGED <<program, i, next_msg_id, messages, outfile>>

\* generate(): the header renders and is written to the output path.
Generate ==
  /\ pc = "visit"
  /\ i > Len(program)
  /\ SelectInSeq(RenderedFields(messages), Unresolved) = 0
  /\ outfile' = Header(messages, next_msg_id - 1)
  /\ exit_code' = 0
  /\ pc' = "done"
  /\ UNCHANGED <<program, i, next_msg_id, messages, diag>>

\* generate(): open() or write() of the output raises OSError, which
\* nothing catches: a traceback and exit status 1.  open() may already
\* have truncated the file.
GenerateWriteFails ==
  /\ pc = "visit"
  /\ i > Len(program)
  /\ SelectInSeq(RenderedFields(messages), Unresolved) = 0
  /\ outfile' \in {outfile, Truncated}
  /\ exit_code' = 1
  /\ pc' = "done"
  /\ UNCHANGED <<program, i, next_msg_id, messages, diag>>

\* The process has exited.
Terminated ==
  /\ pc = "done"
  /\ UNCHANGED vars

Next ==
  \/ Parse \/ ParseFails
  \/ VisitDocComment \/ VisitMsgDef \/ MissingReturn
  \/ UnknownType \/ Generate \/ GenerateWriteFails
  \/ Terminated

Spec == Init /\ [][Next]_vars

(***************************************************************************)
(* Properties.                                                             *)
(***************************************************************************)
\* The output path holds a header this run generated.
Written == outfile \notin {Absent, Stale, Truncated}

FieldRec == [name : STRING, type : STRING, nr : {None} \cup Nat]
Statement ==
  [kind : {"doc_comment"}] \cup
  [kind : {"msg_def"}, modifiers : SUBSET {"async"}, msg_type : {"rpc", "oneway"},
   name : STRING, args : {AnyFields} \cup Seq(FieldRec),
   rets : {AnyFields, NoRets} \cup Seq(FieldRec)]

TypeOK ==
  /\ program \in Seq(Statement)
  /\ pc \in {"parse", "visit", "done"}
  /\ i \in 1..Len(program) + 1
  /\ next_msg_id \in Nat \ {0}
  /\ \A k \in DOMAIN messages :
       /\ messages[k].id \in 1..next_msg_id - 1
       /\ messages[k].reply_id \in {None} \cup 1..next_msg_id - 1
  /\ diag = None \/ diag.kind \in {"syntax", "missing_return", "unknown_type"}
  /\ exit_code \in {None, 0, 1}
  /\ (exit_code = None) <=> (pc # "done")

\* In a header that compiles, no two message-type macros have the same
\* value, so the IPC runtime tells every request and reply apart by its
\* type: the ids visit_msg_def takes from next_msg_id are all distinct and
\* __DEFINE_MSG_TYPE keeps them apart from the 12-bit size.
MsgTypesDistinct ==
  (Written /\ HeaderCompiles(outfile)) =>
    LET h == outfile IN
    \A a, b \in DOMAIN h.macros :
      a # b => MacroValue(h, h.macros[a]) # MacroValue(h, h.macros[b])

\* Every id a message-type macro carries passes the runtime's bound check
\* against IPCSTUB_MSGID_MAX (next_msg_id - 1 when generate() runs) and
\* has exactly one designator in IPCSTUB_MSGID2STR.
MsgIdLookupSafe ==
  Written =>
    LET h == outfile IN
    \A a \in DOMAIN h.macros :
      /\ h.macros[a].id <= h.msgid_max
      /\ Cardinality({k \in DOMAIN h.table : h.table[k].index = h.macros[a].id}) = 1

\* Every id up to IPCSTUB_MSGID_MAX, the bound the runtime checks before
\* it indexes IPCSTUB_MSGID2STR, lies inside that array, whose length is
\* its highest designator + 1.
MsgIdMaxInTable ==
  Written =>
    LET t == outfile.table
        len == IF t = <<>> THEN 0
               ELSE 1 + Max({t[k].index : k \in DOMAIN t})
    IN \A id \in 1..outfile.msgid_max : id < len

\* <MSG>_REPLY_MSG carries the size of the reply record, as
\* <MSG>_MSG carries the size of the request record.
ReplyTypeSizesReply ==
  (Written /\ HeaderCompiles(outfile)) =>
    \A a \in DOMAIN outfile.macros :
      LET mc == outfile.macros[a] IN
      mc.reply =>
        SizeOf(outfile, mc.sizeof) = SizeOf(outfile, mc.msg \o "_reply_fields")

\* The run exits with status 0 only when it wrote a header.
ExitStatusReflectsOutcome ==
  exit_code = 0 => Written

\* A header the run reports success for is valid C (only its static
\* assertions may fail, by design).
AcceptedIdlWellFormed ==
  (exit_code = 0 /\ Written) => HeaderWellFormed(outfile)

\* A run that reports success has resolved the type of every field the
\* IDL file declares, arguments and return values alike.
AllFieldTypesResolved ==
  exit_code = 0 /\ Written =>
    \A k \in DOMAIN program :
      program[k].kind = "msg_def" =>
        \A fl \in {program[k].args, program[k].rets} \ {AnyFields, NoRets} :
          \A j \in DOMAIN fl : ~Unresolved(fl[j])

(***************************************************************************)
(* Refinement: the statement walk with its module-level counter computes  *)
(* what IdlSpec states in closed form.                                     *)
(***************************************************************************)
AbsResult ==
  IF pc # "done" THEN [kind |-> "pending"]
  ELSE CASE diag # None /\ diag.kind = "syntax" -> [kind |-> "syntax"]
         [] diag # None /\ diag.kind = "missing_return" ->
              [kind |-> "missing_return", name |-> diag.name]
         [] diag # None /\ diag.kind = "unknown_type" ->
              [kind |-> "unknown_type", type |-> diag.type]
         [] exit_code = 0 ->
              [kind |-> "ok",
               ids  |-> [k \in DOMAIN messages |->
                          [name     |-> messages[k].name,
                           id       |-> messages[k].id,
                           reply_id |-> messages[k].reply_id]]]
         [] OTHER -> [kind |-> "write_error"]

Abs == INSTANCE IdlSpec
         WITH result <- AbsResult, Catalog <- DOMAIN Builtins,
              Programs <- Seq(Statement)

\* Every run ends with the outcome IdlSpec assigns to its IDL file: the
\* ids visit_msg_def takes from next_msg_id one statement at a time are
\* the closed-form ids, and the first error reported is the one IdlSpec
\* names.
ImplementsIdlSpec == Abs!Spec

=============================================================================
