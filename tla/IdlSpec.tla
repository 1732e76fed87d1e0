------------------------------ MODULE IdlSpec ------------------------------
(***************************************************************************)
(* What one run of the IPC stub generator computes, as a single step from  *)
(* the IDL file to its outcome: the message ids in closed form (each       *)
(* message takes one id, and one more for its reply when it has a return  *)
(* clause), or the diagnostic the file earns.  Errors are reported in the  *)
(* order the generator finds them: a missing return clause while the       *)
(* statements are walked, then an unknown field type while the header is   *)
(* rendered.                                                               *)
(***************************************************************************)
EXTENDS Integers, Sequences, SequencesExt

CONSTANTS
  Programs,   \* the statement sequences a run may be given
  Catalog,    \* the builtin type names
  None, AnyFields, NoRets

VARIABLES
  program,    \* the IDL file
  result      \* "pending", then the outcome of the run

Pending == [kind |-> "pending"]

MsgDefsOf(p) == SelectSeq(p, LAMBDA s : s.kind = "msg_def")

Oneway(s) == s.msg_type = "oneway" \/ "async" \in s.modifiers

\* The ids a message definition takes.
Width(s) == IF s.rets = NoRets THEN 1 ELSE 2

\* The request id of the k-th message definition of ms.
FirstId(ms, k) ==
  1 + FoldLeft(LAMBDA acc, s : acc + Width(s), 0, SubSeq(ms, 1, k - 1))

LacksReturn(s) == s.rets = NoRets /\ ~Oneway(s)

FieldsOf(fl) == IF fl = AnyFields THEN <<>> ELSE fl

\* The fields whose types are checked, in the order they are checked.
CheckedFields(ms) ==
  FlattenSeq([k \in DOMAIN ms |->
    FieldsOf(ms[k].args)
    \o (IF Oneway(ms[k]) \/ ms[k].rets = NoRets THEN <<>> ELSE FieldsOf(ms[k].rets))])

UnknownType(f) == f.type \notin Catalog \cup {"bytes", "cstr"}

Outcome(p) ==
  LET ms  == MsgDefsOf(p)
      bad == SelectInSeq(ms, LacksReturn)
      fs  == CheckedFields(ms)
      u   == SelectInSeq(fs, UnknownType)
  IN IF bad # 0 THEN [kind |-> "missing_return", name |-> ms[bad].name]
     ELSE IF u # 0 THEN [kind |-> "unknown_type", type |-> fs[u].type]
     ELSE [kind |-> "ok",
           ids  |-> [k \in DOMAIN ms |->
                      [name     |-> ms[k].name,
                       id       |-> FirstId(ms, k),
                       reply_id |-> IF ms[k].rets = NoRets THEN None
                                    ELSE FirstId(ms, k) + 1]]]

\* The text may be rejected by the grammar, and a header may fail to be
\* written; otherwise the outcome is determined by the file.
Outcomes(p) ==
  {[kind |-> "syntax"], Outcome(p)}
  \cup (IF Outcome(p).kind = "ok" THEN {[kind |-> "write_error"]} ELSE {})

Init ==
  /\ program \in Programs
  /\ result = Pending

Compile ==
  /\ result = Pending
  /\ result' \in Outcomes(program)
  /\ UNCHANGED program

Spec == Init /\ [][Compile]_<<program, result>>

=============================================================================
