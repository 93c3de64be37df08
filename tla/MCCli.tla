--------------------------------- MODULE MCCli ---------------------------------
(* The CLI on short command lines, with hash functions that spread the     *)
(* commands, that collide in the index, and that collide altogether.       *)
EXTENDS Cli

MCPrimes == <<2, 3, 5>>

MCPieces == {"-", "=", "h", "elp", "l", "azy", "store", "switch", "x", "foo"}

Options == {<<"-", "h">>, <<"-", "x", "h">>, <<"-", "h", "-", "l">>, <<"-", "h", "-">>,
            <<"-", "-", "l">>, DashDash \o LAZY, <<"-", "-", "h", "=">>, <<"-", "-", "=">>, DashDash}
Others == {HELP, STORE, SWITCH, <<"foo">>, <<"-">>, <<>>}
Mixed == {<<"-", "h">>, <<"-", "-", "l">>, <<"foo">>, DashDash}

MCCommandLines ==
  {<<>>}
  \union {<<a>> : a \in Options \union Others}
  \union {<<a, b>> : a \in Others, b \in Options \union Others}
  \union {<<a, b, c>> : a \in {HELP, STORE}, b, c \in Options \union {STORE, <<"-">>}}
  \union {<<STORE, a, b, c, d>> : a, b, c, d \in Mixed}
  \union {<<STORE, <<"foo">>, a, b, c, d>> : a, b, c, d \in {<<"-", "h">>, <<"foo">>, LAZY}}

Words == Options \union Others \union {DashDash \o HELP, LAZY}
Hash(help, store, switch) ==
  [w \in Words |-> CASE w = HELP -> help [] w = STORE -> store [] w = SWITCH -> switch [] OTHER -> 1]
Environment(hashfn, posix, os_name, w) == [hashfn |-> hashfn, posix |-> posix, os |-> os_name, width |-> w]
MCEnvironments ==
  {Environment(Hash(0, 1, 2), FALSE, "linux", 4), Environment(Hash(4, 1, 7), TRUE, "windows", 1),
   Environment(Hash(5, 5, 5), FALSE, "windows", 7)}
===============================================================================
