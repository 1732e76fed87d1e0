---------------------------- MODULE MC_UserLdParams ----------------------------
EXTENDS UserLdParams

\* Server names by rank in string order: 1 "FS" and 2 "fs" (both SERVER_fs),
\* 3 "vm", and so on.
MaxServers == 112

MCLower == [s \in 1..MaxServers |-> IF s = 1 THEN 2 ELSE s]

\* Argument lists: both orders of two servers, a repeated server, two names
\* that differ in case, and the most servers whose regions end at or below
\* 2^32, listed in reverse order.
MCServerArgs ==
  { <<1, 3>>, <<3, 1>>, <<2, 2>>, <<3, 1, 2>>,
    [j \in 1..MaxServers |-> MaxServers + 1 - j] }
\* One server more than fit below 2^32.
MCLowerMore == [s \in 1..(MaxServers + 1) |-> s]
MCServerArgsMore == { [j \in 1..(MaxServers + 1) |-> j] }
=============================================================================
