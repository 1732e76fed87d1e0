--------------------------- MODULE MC_IdlCompiler ---------------------------
(***************************************************************************)
(* Instantiates IdlCompiler for TLC: every IDL file of at most MaxStmts    *)
(* statements built from the statements below.                            *)
(***************************************************************************)
EXTENDS IdlCompiler, TLC

MaxStmts == 2

\* Fields: a scalar, bytes whose record reaches 4096 bytes (4092 + size_t),
\* a cstr just under the 4096-byte bound, and a type outside the catalog.
FX == [name |-> "x", type |-> "int32", nr |-> None]
FD == [name |-> "d", type |-> "bytes", nr |-> 4092]
FC == [name |-> "s", type |-> "cstr", nr |-> 4095]
FB == [name |-> "b", type |-> "bogus", nr |-> None]

MsgNames == {"ping", "ping_reply"}
MCUpper == ("ping" :> "PING") @@ ("ping_reply" :> "PING_REPLY")

ArgLists == {AnyFields, <<FX>>, <<FD>>, <<FB>>}
RetLists == {NoRets, <<>>, <<FC>>, <<FX, FB>>}

DocComment == [kind |-> "doc_comment"]
MsgDefs ==
  [kind : {"msg_def"}, modifiers : {{}, {"async"}}, msg_type : {"rpc", "oneway"},
   name : MsgNames, args : ArgLists, rets : RetLists]

MCPrograms == UNION {[1..n -> {DocComment} \cup MsgDefs] : n \in 0..MaxStmts}

\* riscv32, ILP32: the C types the fields above resolve to.
MCTypeLayout ==
  ("char" :> [size |-> 1, align |-> 1]) @@
  ("uint8_t" :> [size |-> 1, align |-> 1]) @@
  ("int32_t" :> [size |-> 4, align |-> 4]) @@
  ("size_t" :> [size |-> 4, align |-> 4])

\* Files whose message names are pairwise distinct.
DistinctNames(p) ==
  \A a, b \in DOMAIN p :
    (a # b /\ p[a].kind = "msg_def" /\ p[b].kind = "msg_def") => p[a].name # p[b].name

MCProgramsDistinctNames == {p \in MCPrograms : DistinctNames(p)}

\* One-message files whose bytes field may lack its [N].
FDNoCount == [name |-> "d", type |-> "bytes", nr |-> None]

MCProgramsBytesNoCount ==
  {<<s>> : s \in [kind : {"msg_def"}, modifiers : {{}}, msg_type : {"rpc", "oneway"},
                  name : {"ping"}, args : {<<FX>>, <<FDNoCount>>},
                  rets : {NoRets, <<>>}]}

=============================================================================
