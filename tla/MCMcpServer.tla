---------------------------- MODULE MCMcpServer ----------------------------
EXTENDS McpServer

CONSTANTS u1, u2, t0, t1, t2

\* A token of each user and one that nobody owns.
MCHolder ==
  [t \in Tokens |-> CASE t = t1 -> u1 [] t = t2 -> u2 [] OTHER -> None]

MCLimit == [token |-> 2]

\* The last address of each kind of range and the first one past it, or the other way round.
MCInternal ==
  {V4(10, 255), V4(172, 16), V4(172, 31), V4(127, 0), V4(169, 254), V4(100, 64),
   Loopback, V6(<<"f", "e", "b", "f">>), V6(<<"f", "c", "0", "0">>), Mapped(V4(10, 255))}
MCAddresses ==
  MCInternal \cup
  {V4(11, 0), V4(172, 15), V4(172, 32), V6(<<"f", "f", "0", "2">>), Mapped(V4(11, 0))}
=============================================================================
