------------------------------ MODULE Loopback ------------------------------
(***************************************************************************)
(* The loopback test on PCH pins (tools/loopback.c).  The operator puts a  *)
(* jumper on each pair of header pins; for each pair the tool drives one   *)
(* pin LOW and HIGH and reads the other, in both directions, and exits at  *)
(* the first wrong level.  While a pair is turned round both of its pins   *)
(* are driven for a moment.  The pins are those of Pins; the jumpers and   *)
(* the faults of the board are external.                                   *)
(***************************************************************************)
EXTENDS Integers, Sequences

CONSTANTS
  Pairs,     \* the configuration file: a sequence of <<pin, pin>>
  Pull,      \* pins the board pulls HIGH while they are not driven
  Fault,     \* fault patterns: [open, dead], a set of pairs and a set of pins
  PowerOn    \* pin states before the test: [use, out, latch]

Pin == UNION {{Pairs[k][1], Pairs[k][2]} : k \in DOMAIN Pairs}

ASSUME LoopbackAssumption ==
  /\ Pairs \in Seq((0..95) \X (0..95))
  /\ Len(Pairs) >= 1
  /\ \A k, m \in DOMAIN Pairs : \A a, b \in 1..2 :
       Pairs[k][a] = Pairs[m][b] => k = m /\ a = b
  /\ Pull \subseteq Pin
  /\ Fault \subseteq [open : SUBSET (DOMAIN Pairs), dead : SUBSET Pin]
  /\ PowerOn \subseteq [use : SUBSET Pin, out : SUBSET Pin, latch : SUBSET Pin]

VARIABLES
  use, out, latch,   \* the pins, see Pins
  fault,             \* pairs without a working jumper, pins that cannot drive
  n, half,           \* the pair and which of its four calls is being made
  pc                 \* the next library call, or the exit status

vars == <<use, out, latch, fault, n, half, pc>>

Bank == [g \in Pin |-> g \div 32]
P == INSTANCE Pins

-----------------------------------------------------------------------------
(* The board. *)

\* A pin is on a wire with its partner if the jumper is good.
Wire(g) == LET m == CHOOSE m \in DOMAIN Pairs : g \in {Pairs[m][1], Pairs[m][2]}
           IN IF m \in fault.open THEN {g} ELSE {Pairs[m][1], Pairs[m][2]}

\* The levels that may be read from it: one that is driven, or else the
\* level of the pulls, which is steady (here, one pull-up is enough).
WireLevels(g) ==
  LET drivers == (Wire(g) \cap P!Driven) \ fault.dead
  IN IF drivers # {} THEN {(h \in latch) : h \in drivers}
     ELSE {Wire(g) \cap Pull # {}}

Faulty(m) == m \in fault.open \/ {Pairs[m][1], Pairs[m][2]} \cap fault.dead # {}

-----------------------------------------------------------------------------
(* gpio_set_then_read, called four times for each pair. *)

GpioOut == Pairs[n][IF half <= 2 THEN 1 ELSE 2]
GpioIn  == Pairs[n][IF half <= 2 THEN 2 ELSE 1]

\* Slip: the first direction is tried with LOW twice.
ValueLowTwice == half = 4

Value == half \in {2, 4}

\* gpio_get is passed gpio_in and not its position in the bank; the processor
\* uses the low five bits of the shift count.
ReadPin == 32 * Bank[GpioIn] + (GpioIn % 32)

Init ==
  /\ \E st \in PowerOn : use = st.use /\ out = st.out /\ latch = st.latch
  /\ fault \in Fault
  /\ n = 1
  /\ half = 1
  /\ pc = "enable_out"

Goto(here, there) == pc = here /\ pc' = there /\ UNCHANGED <<fault, n, half>>

EnableOut == P!Enable(GpioOut) /\ Goto("enable_out", "dir_out")
DirOut    == P!DirOut(GpioOut) /\ Goto("dir_out", "level")
SetLevel  == P!SetLevel(GpioOut, Value) /\ Goto("level", "enable_in")
EnableIn  == P!Enable(GpioIn) /\ Goto("enable_in", "dir_in")
\* Slip: the input keeps the direction it has.
DirInForgotten == Goto("dir_in", "read") /\ UNCHANGED <<use, out, latch>>
DirIn     == P!DirIn(GpioIn) /\ Goto("dir_in", "read")

Read ==
  /\ pc = "read"
  /\ \E level \in WireLevels(ReadPin) :
       IF level # Value THEN pc' = "fail" /\ UNCHANGED <<n, half>>
       ELSE IF half < 4 THEN half' = half + 1 /\ pc' = "enable_out" /\ UNCHANGED n
       ELSE IF n < Len(Pairs) THEN n' = n + 1 /\ half' = 1 /\ pc' = "enable_out"
       ELSE pc' = "pass" /\ UNCHANGED <<n, half>>
  /\ UNCHANGED <<use, out, latch, fault>>

\* The tool has exited, or is interrupted, and is run again, perhaps on
\* another board.
Again ==
  /\ n' = 1
  /\ half' = 1
  /\ pc' = "enable_out"
  /\ fault' \in Fault
  /\ UNCHANGED <<use, out, latch>>

Next == EnableOut \/ DirOut \/ SetLevel \/ EnableIn \/ DirIn \/ Read \/ Again

Spec == Init /\ [][Next]_vars

-----------------------------------------------------------------------------
(* The inductive invariant. *)

Calls == {"enable_out", "dir_out", "level", "enable_in", "dir_in", "read"}

TypeOK ==
  /\ P!PinsTypeOK
  /\ fault \in Fault
  /\ n \in DOMAIN Pairs
  /\ half \in 1..4
  /\ pc \in Calls \cup {"pass", "fail"}

\* What the calls of this half have done so far.
Prepared ==
  /\ pc \in Calls \ {"enable_out"} => GpioOut \in use
  /\ pc \in Calls \ {"enable_out", "dir_out"} => GpioOut \in out
  /\ pc \in {"enable_in", "dir_in", "read"} => (GpioOut \in latch <=> Value)
  /\ pc = "read" => GpioIn \notin out

\* Pin a of the present pair moves the wire its partner is on.
Drives(a) == n \notin fault.open /\ Pairs[n][a] \notin fault.dead
IdleLow(a) == Wire(Pairs[n][a]) \cap Pull = {}

\* What the levels read so far show.
Shown ==
  /\ \A m \in 1..(n - 1) : ~Faulty(m)
  /\ half = 2 => Drives(1) \/ IdleLow(2)
  /\ half > 2 => Drives(1)
  /\ half = 4 => Drives(2) \/ IdleLow(1)
  /\ pc = "pass" => n = Len(Pairs) /\ ~Faulty(n)
  /\ pc = "fail" => Faulty(n)

IInv == TypeOK /\ Prepared /\ Shown

-----------------------------------------------------------------------------
(* Properties. *)

\* Exit status 0 means that every jumper is in place and every pin can drive:
\* an unconnected input cannot follow both levels (gpio_set_then_read).
PassSound == pc = "pass" => \A m \in DOMAIN Pairs : ~Faulty(m)

\* The pair on which the tool gives up is at fault, although its input may
\* still have been driven against its output when the call began and its
\* neighbours kept what earlier calls or runs left in them.
FailSound == pc = "fail" => Faulty(n)
=============================================================================
