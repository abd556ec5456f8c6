----------------------------- MODULE MCSuperIo -----------------------------
(***************************************************************************)
(* The library for super I/O chips under its users, one at a time, as the  *)
(* test scripts run them:                                                  *)
(*   gpio     gpio and loopback on the pins of conf/loopback/S1131.conf    *)
(*            (NCT5533D) or S0361.conf (NCT6776F), of whose pairs there    *)
(*            are two each, on boards with all, one or no jumper, from     *)
(*            registers left by the firmware or half changed by a run      *)
(*            before;                                                      *)
(*   ports    sessions of several tools on one chip, one port access a     *)
(*            step: pins 20 and 74 of an NCT5533D, a watchdog register, a  *)
(*            tool that gives up before it has locked the chip;            *)
(*   scan     scan_sio on boards with Fintek and Nuvoton chips, known and  *)
(*            unknown, at one address, at both or at none.                 *)
(***************************************************************************)
EXTENDS SioPorts, SioGpio, ScanSio

CONSTANTS Tools, p1, p2

VARIABLE tool    \* who uses the library

-----------------------------------------------------------------------------
(* Pins. *)

Gpio(gpios, level) == [tool |-> "gpio", gpios |-> gpios, level |-> level]
Loopback(pairs)    == [tool |-> "loopback", pairs |-> pairs]

\* All jumpers, the second missing, or none.
Boards(pairs) ==
  LET jumper(k) == {pairs[k][1], pairs[k][2]}
  IN {{jumper(k) : k \in DOMAIN pairs}, {jumper(1)}, {}}

S1131 == <<<<0, 21>>, <<23, 74>>>>
S0361 == <<<<70, 72>>, <<73, 74>>>>

Chips == {"NCT5533D", "NCT6776F"}
ChipPins == [c \in Chips |->
  IF c = "NCT5533D" THEN {0, 20, 21, 23, 24, 56, 74} ELSE {20, 70, 72, 73, 74, 80}]
Runs == [c \in Chips |->
  IF c = "NCT5533D"
  THEN {Loopback(S1131), Gpio(<<20, 74>>, TRUE), Gpio(<<56, 74, 10>>, FALSE)}
  ELSE {Loopback(S0361), Gpio(<<70, 20>>, TRUE), Gpio(<<80, 55>>, FALSE)}]
Jumpers  == [c \in Chips |-> Boards(IF c = "NCT5533D" THEN S1131 ELSE S0361)]
BitsLeft == [c \in Chip |->
  {{InBits[c][g] : g \in Pin[c]},
   {GroupBits[c][g] : g \in Pin[c]} \cup {DataBits[c][g] : g \in Pin[c]}}]

\* A pin the NCT5533D does not have.
FiftyChips == {"NCT5533D"}
FiftyPins  == [c \in FiftyChips |-> {20, 54, 74}]
FiftyRuns  == [c \in FiftyChips |-> {Gpio(<<50>>, TRUE), Gpio(<<54>>, TRUE)}]
NoJumpers  == [c \in FiftyChips |-> {{}}]

-----------------------------------------------------------------------------
(* Ports. *)

InSession(calls) == <<Enter>> \o calls \o <<Exit>>
SetPin(g, high) ==
  InSession(MultiFunc(g)
    \o Reach("NCT5533D", g, DirOut(DirIndex("NCT5533D", g), g % 10, high)))

Sessions ==
  {SetPin(20, TRUE), SetPin(74, FALSE),
   InSession(<<Select(Bits(8)), Write(246, Bits(5)), Change(247, {4}, {}),
               Select(Bits(9)), Read(225)>>),
   \* gives up before sio_exit
   <<Enter, Select(Bits(9)), PutBit(48, 5, TRUE)>>}

Registers == UNION {{CellAt(j, k) : k \in {k \in DOMAIN j : OnReg(j[k])}} : j \in Sessions}

Contents == {[c \in Registers |-> {}], [c \in Registers |-> {0, 4, 7}]}

-----------------------------------------------------------------------------
(* Scan. *)

ScanChips ==
  { [vid |-> 6452, dev |-> 2313], [vid |-> 6452, dev |-> 4358], [vid |-> 6452, dev |-> 7],
    [vid |-> 23715, dev |-> 49971], [vid |-> 0, dev |-> 50530], [vid |-> 0, dev |-> 53760] }

-----------------------------------------------------------------------------
ASSUME LibraryAssumption == JobAssumption /\ KeyAssumption

\* What the proofs about pins suppose: all runs but those on GPIO50 name pins of
\* the chip.
ASSUME NumbersAssumption == Command = FiftyRuns \/ OwnNumbers

AnyOf(S) == CHOOSE x \in S : TRUE

\* What is not used stays as it is, in one of its initial states.
Unused(who, choice) == tool # who => choice

SuperIoInit ==
  /\ tool \in Tools
  /\ PinsInit
  /\ Unused("gpio", <<chip, bits, board, cmd>> =
       LET c == AnyOf(Chip) IN <<c, AnyOf(BitsOn[c]), AnyOf(Jumper[c]), AnyOf(Command[c])>>)
  /\ PortsInit
  /\ Unused("ports", reg = AnyOf(PowerOn) /\ job = [p \in Proc |-> AnyOf(Job)])
  /\ ScanInit
  /\ Unused("scan", sockets = [a \in {78, 46} |-> NoChip])

GpioRuns  == tool = "gpio" /\ PinsNext /\ UNCHANGED <<tool, vars, scanVars>>
PortsRuns == tool = "ports" /\ PortsNext /\ UNCHANGED <<tool, pinVars, scanVars>>
ScanRuns  == tool = "scan" /\ ScanNext /\ UNCHANGED <<tool, vars, pinVars>>

SuperIoNext == GpioRuns \/ PortsRuns \/ ScanRuns

SuperIoSpec == SuperIoInit /\ [][SuperIoNext]_<<tool, vars, pinVars, scanVars>>
=============================================================================
