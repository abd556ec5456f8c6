----------------------------- MODULE MCPchGpio -----------------------------
(***************************************************************************)
(* Two runs of the gpio tool on pins at both ends of each bank.            *)
(***************************************************************************)
EXTENDS PchGpio

CONSTANTS p1, p2

Procs == {p1, p2}
Pins_ == {31, 32, 63, 64}

Cmd(gpios, level, blink) == [gpios |-> gpios, level |-> level, blink |-> blink]

Commands ==
  {Cmd(<<31, 32>>, TRUE, FALSE), Cmd(<<63>>, FALSE, FALSE), Cmd(<<64>>, TRUE, FALSE),
   Cmd(<<31>>, TRUE, TRUE), Cmd(<<31, 32>>, FALSE, TRUE)}

Addrs == {Addr(g) : g \in Pins_}
Start0 == [use |-> {}, sel |-> Addrs, lvl |-> {}, blink |-> {}]
Start1 == [use |-> Addrs, sel |-> {}, lvl |-> Addrs, blink |-> Addrs]
PowerOns == {Start0, Start1}
=============================================================================
