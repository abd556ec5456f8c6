------------------------------ MODULE MCBypass ------------------------------
(***************************************************************************)
(* Boards of conf/bypass for TLC.  An AST pin is numbered 8 * group + bit, *)
(* with A = 0, so that G0 is 48 and J0 is 72.                              *)
(***************************************************************************)
EXTENDS Bypass, Sequences

\* A C array with the elements of a sequence.
Array(seq) == [k \in 0..(Len(seq) - 1) |-> seq[k + 1]]

Config(wdt, off, on) == [k \in Bits |-> <<wdt, off, on>>[k + 1]]
Passthru   == Config(FALSE, FALSE, FALSE)
BypassAll  == Config(TRUE, TRUE, TRUE)
BypassOff  == Config(FALSE, TRUE, FALSE)
InitCfgs   == {Passthru}

Requests(pairs, cfgs) == [pair : pairs, cfg : cfgs]

\* Every pin in the same state, or only the sendbits different from the rest.
Uniform == {[use |-> Pin, out |-> o, latch |-> l] :
              o \in {{}, Pin, SendPins, Pin \ SendPins}, l \in {{}, Pin, SendPins}}
Native  == {[use |-> {}, out |-> o, latch |-> l] : o \in {{}, Pin}, l \in {{}, Pin}}

\* 32 pins to a bank for the PCH and the AST, 10 numbers for the Fintek.
Bank32 == [g \in Pin |-> g \div 32]
Bank10 == [g \in Pin |-> g \div 10]

\* S0361.conf: PCH.  The sendbit and one line of each kind idle HIGH.
S0361_PairG   == Array(<<24, 27, 14>>)
S0361_CfgG    == Array(<<28, 26, 25>>)
S0361_Sendbit == Array(<<29>>)
S0361_Pull    == {29, 27, 25}
S0361_PowerOn == Native \cup {[use |-> Pin, out |-> Pin \ SendPins, latch |-> SendPins]}
S0361_Req     == Requests({1}, {Passthru}) \cup Requests({4}, {BypassAll})

\* S0101.conf: F71889AD.
S0101_PairG   == Array(<<43, 42, 41>>)
S0101_CfgG    == Array(<<46, 45, 44>>)
S0101_Sendbit == Array(<<47>>)
S0101_Pull    == {47, 42}
S0101_Req     == Requests({2, 3, 8}, {Passthru, BypassOff})

\* S1451.conf: AST2400, sixteen pairs on two sendbits.
S1451_PairG   == Array(<<72, 73, 74>>)
S1451_CfgG    == Array(<<75, 48, 49>>)
S1451_Sendbit == Array(<<50, 51>>)
S1451_Pull    == {72, 49}
S1451_Req     == Requests({2, 10, 16}, {Passthru, BypassOff})

\* S0961.conf: PCH, three groups of lines in all three banks.
S0961_PairG   == Array(<<69, 70, 71, 38, 33, 49, 15, 5, 4>>)
S0961_CfgG    == Array(<<1, 32, 68, 2, 3, 39, 52, 72, 22>>)
S0961_Sendbit == Array(<<6, 21, 54>>)
S0961_Pull    == {6, 21, 38, 2}
S0961_PowerOn == {[use |-> Pin \ {6}, out |-> Pin \ {21}, latch |-> Pin]}
S0961_Req     == Requests({2}, {Passthru}) \cup Requests({3, 6}, {BypassOff})

\* A pair number past the eight that three lines can carry.
PairNine_Req == Requests({1, 9}, {Passthru, BypassAll})

\* The pair the comments on pair_setup and sio_pair_setup take as an example.
PairTwo_Req == Requests({2}, {Passthru})
=============================================================================
