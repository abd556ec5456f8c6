----------------------------- MODULE MCLoopback -----------------------------
(***************************************************************************)
(* Three pairs of conf/loopback/S0211.conf, whose pins lie in all three    *)
(* banks, with at most one fault on each board that is tested.             *)
(***************************************************************************)
EXTENDS Loopback

S0211_Pairs == <<<<26, 67>>, <<34, 66>>, <<47, 65>>>>
S0211_Pull == {26, 66}

Faults ==
  {[open |-> o, dead |-> {}] : o \in {{}, {1}, {2}, {3}}}
    \cup {[open |-> {}, dead |-> {g}] : g \in Pin}

PowerOns == [use : {{}, Pin}, out : {{}, Pin, {67, 34, 65}}, latch : {{}, Pin, {26, 34, 65}}]
=============================================================================
