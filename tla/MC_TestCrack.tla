---------------------------- MODULE MC_TestCrack ----------------------------
EXTENDS TestCrack, TLC

\* range(1, 5) in test_crack
MCMaxAttempts == 4

\* AUTORUN_PLACEHOLDER's 534 bytes, scaled to 3; with "; shutdown" as one
\* byte, a one-byte script leaves NUL padding, a two-byte one fills the
\* placeholder exactly and a three-byte one does not fit.
MCP == 3

Hello == [script |-> <<"a">>, net |-> None]            \* test_hello_world
Http  == [script |-> <<"b">>, net |-> <<"guestfwd">>]  \* test_http
Exact == [script |-> <<"a", "b">>, net |-> None]
Long  == [script |-> <<"b", "a", "b">>, net |-> None]

\* pytest's file order puts test_crack after the single-boot tests; with -k,
\* a node list or --lf, any of them may come first, test_http included.
MCEarlierTests ==
  {<<>>, <<Hello, Exact>>, <<Http, Hello>>, <<Http, Http>>, <<Long, Hello>>}

=============================================================================
