------------------------------ MODULE PchGpio ------------------------------
(***************************************************************************)
(* The GPIO registers of the PCH and the gpio tool (tools/libpch.c and the *)
(* PCH path of tools/gpio.c), at the grain of single port accesses.        *)
(*                                                                         *)
(* A pin's bit is changed by reading the register of its bank (inl_p) and  *)
(* writing it back (outl_p).  Nothing locks the registers, and several     *)
(* tools may run at once: the model keeps apart only runs that name pins   *)
(* of one bank, which is what the scripts under script/ do by running one  *)
(* tool at a time.  A run can be killed between any two accesses.          *)
(***************************************************************************)
EXTENDS Integers, Sequences

CONSTANTS
  Proc,      \* processes that may run the tool
  Pin,       \* the GPIO numbers of interest
  Command,   \* command lines: [gpios, level, blink]
  PowerOn    \* contents of the registers before the first run

Banks == 0..2
Regs  == {"use", "sel", "lvl", "blink"}   \* sel: a set bit makes the pin an input

\* -g takes up to ten numbers (gpio[10]); -o is 0 or 1, as the usage text says.
ASSUME CommandAssumption ==
  /\ Pin \subseteq 0..95
  /\ Command \subseteq [gpios : Seq(Pin), level : BOOLEAN, blink : BOOLEAN]
  /\ \A c \in Command : Len(c.gpios) \in 1..10
  /\ PowerOn \subseteq [Regs -> SUBSET (Banks \X (0..31))]

VARIABLES
  reg,    \* reg[r]: the bits <<bank, bit>> that are set in register r
  pc,     \* the register a process is about to change, or how its run ended
  got,    \* it has read the register and not yet written it back
  buf,    \* what it read, {} when that is no longer used
  cmd,    \* its command line
  idx     \* its position in cmd.gpios

vars == <<reg, pc, got, buf, cmd, idx>>

-----------------------------------------------------------------------------
(* Where a pin's bits are. *)

\* gpio_setup_addr.  The bit is the shift count of the library, of which the
\* processor uses the low five bits.
BankOf(g) == IF g <= 31 THEN 0 ELSE IF g <= 63 THEN 1 ELSE 2
BitOf(g)  == (g - 32 * BankOf(g)) % 32
Addr(g)   == <<BankOf(g), BitOf(g)>>

InBank(b) == {b} \X (0..31)

Driven   == {g \in Pin : Addr(g) \in reg["use"] /\ Addr(g) \notin reg["sel"]}
Floating == {Addr(g) : g \in Pin \ Driven}

-----------------------------------------------------------------------------
(* One run.  It changes, for each pin in turn, GPIO_USE_SEL, then          *)
(* GP_IO_SEL and GP_LVL, or GPO_BLINK if -b is given.                      *)

Running(p) == pc[p] \in Regs
CurGpio(p) == cmd[p].gpios[idx[p]]
CurAddr(p) == Addr(CurGpio(p))

\* What the present access sets the pin's bit to.
CurBit(p) ==
  CASE pc[p] = "use" -> TRUE
    [] pc[p] = "sel" -> FALSE
    [] OTHER         -> cmd[p].level

\* Slip: the bits of the other pins are lost.
WordAlone(p) == IF CurBit(p) THEN {CurAddr(p)} ELSE {}

\* What it writes back: buf |= 1 << gpio, or buf &= ~(1 << gpio).
Word(p) == IF CurBit(p) THEN buf[p] \cup {CurAddr(p)} ELSE buf[p] \ {CurAddr(p)}

\* pch_gpio_blink_config rejects a pin above 31 before it touches it.
FirstReg(c, g) == IF c.blink /\ g > 31 THEN "usage" ELSE "use"

\* Slip: the level before the direction.
AfterRegLevelFirst(r, c) ==
  CASE r = "use" /\ ~c.blink -> "lvl"
    [] r = "use" /\ c.blink  -> "blink"
    [] r = "lvl"             -> "sel"
    [] OTHER                 -> "next"

\* Slip: pins keep the direction they have.
AfterRegNoDirection(r, c) ==
  CASE r = "use" /\ ~c.blink -> "lvl"
    [] r = "use" /\ c.blink  -> "blink"
    [] OTHER                 -> "next"

AfterReg(r, c) ==
  CASE r = "use" /\ ~c.blink -> "sel"
    [] r = "use" /\ c.blink  -> "blink"
    [] r = "sel"             -> "lvl"
    [] OTHER                 -> "next"

Advance(p) ==
  LET r == AfterReg(pc[p], cmd[p]) IN
  IF r # "next"
  THEN pc' = [pc EXCEPT ![p] = r] /\ UNCHANGED idx
  ELSE IF idx[p] < Len(cmd[p].gpios)
  THEN /\ idx' = [idx EXCEPT ![p] = @ + 1]
       /\ pc' = [pc EXCEPT ![p] = FirstReg(cmd[p], cmd[p].gpios[idx[p] + 1])]
  ELSE pc' = [pc EXCEPT ![p] = "done"] /\ UNCHANGED idx

BanksOf(c) == {BankOf(c.gpios[k]) : k \in DOMAIN c.gpios}

-----------------------------------------------------------------------------
Init ==
  /\ reg \in PowerOn
  /\ pc = [p \in Proc |-> "idle"]
  /\ got = [p \in Proc |-> FALSE]
  /\ buf = [p \in Proc |-> {}]
  /\ \E c \in Command : cmd = [p \in Proc |-> c]
  /\ idx = [p \in Proc |-> 1]

\* Slip: two tools are let at the registers of one bank.
StartAnyBank(p, c) ==
  /\ ~Running(p)
  /\ cmd' = [cmd EXCEPT ![p] = c]
  /\ idx' = [idx EXCEPT ![p] = 1]
  /\ pc' = [pc EXCEPT ![p] = FirstReg(c, c.gpios[1])]
  /\ got' = [got EXCEPT ![p] = FALSE]
  /\ UNCHANGED <<reg, buf>>

Start(p, c) ==
  /\ ~Running(p)
  /\ \A q \in Proc : Running(q) => BanksOf(cmd[q]) \cap BanksOf(c) = {}
  /\ cmd' = [cmd EXCEPT ![p] = c]
  /\ idx' = [idx EXCEPT ![p] = 1]
  /\ pc' = [pc EXCEPT ![p] = FirstReg(c, c.gpios[1])]
  /\ got' = [got EXCEPT ![p] = FALSE]
  /\ UNCHANGED <<reg, buf>>

\* The level register shows the wire, not the latch, of a pin that is not
\* driven.
Read(p) ==
  /\ Running(p)
  /\ ~got[p]
  /\ LET held == reg[pc[p]] \cap InBank(CurAddr(p)[1])
         wires == IF pc[p] = "lvl" THEN Floating \cap InBank(CurAddr(p)[1]) ELSE {}
     IN \E high \in SUBSET wires :
          buf' = [buf EXCEPT ![p] = (held \ wires) \cup high]
  /\ got' = [got EXCEPT ![p] = TRUE]
  /\ UNCHANGED <<reg, pc, cmd, idx>>

Write(p) ==
  /\ Running(p)
  /\ got[p]
  /\ reg' = [reg EXCEPT ![pc[p]] = (@ \ InBank(CurAddr(p)[1])) \cup Word(p)]
  /\ got' = [got EXCEPT ![p] = FALSE]
  /\ buf' = [buf EXCEPT ![p] = {}]
  /\ Advance(p)
  /\ UNCHANGED cmd

Kill(p) ==
  /\ Running(p)
  /\ pc' = [pc EXCEPT ![p] = "killed"]
  /\ got' = [got EXCEPT ![p] = FALSE]
  /\ buf' = [buf EXCEPT ![p] = {}]
  /\ UNCHANGED <<reg, cmd, idx>>

Next == \E p \in Proc :
  (\E c \in Command : Start(p, c)) \/ Read(p) \/ Write(p) \/ Kill(p)

Spec == Init /\ [][Next]_vars

-----------------------------------------------------------------------------
(* Properties. *)

Exits == {"idle", "done", "usage", "killed"}

TypeOK ==
  /\ reg \in [Regs -> SUBSET (Banks \X (0..31))]
  /\ pc \in [Proc -> Regs \cup Exits]
  /\ got \in [Proc -> BOOLEAN]
  /\ buf \in [Proc -> SUBSET (Banks \X (0..31))]
  /\ cmd \in [Proc -> Command]
  /\ idx \in [Proc -> Nat]
  /\ \A p \in Proc : idx[p] \in 1..Len(cmd[p].gpios)

\* Runs that share no bank: no access between another run's inl_p and its
\* outl_p touches what it read.
Apart == \A p, q \in Proc :
  p # q /\ Running(p) /\ Running(q) => BanksOf(cmd[p]) \cap BanksOf(cmd[q]) = {}

Fresh == \A p \in Proc : Running(p) /\ got[p] =>
  LET b == CurAddr(p)[1]
      known == IF pc[p] = "lvl" THEN InBank(b) \ Floating ELSE InBank(b)
  IN /\ buf[p] \subseteq InBank(b)
     /\ buf[p] \cap known = reg[pc[p]] \cap known

\* The pin has been put in the state the command line asks for.
AsAsked(g, c) ==
  /\ Addr(g) \in reg["use"]
  /\ ~c.blink => Addr(g) \notin reg["sel"] /\ (Addr(g) \in reg["lvl"] <=> c.level)
  /\ c.blink => g <= 31 /\ (Addr(g) \in reg["blink"] <=> c.level)

\* How far the run has come.
Progress == \A p \in Proc : Running(p) =>
  /\ \A k \in 1..(idx[p] - 1) : AsAsked(cmd[p].gpios[k], cmd[p])
  /\ cmd[p].blink => CurGpio(p) <= 31 /\ pc[p] \in {"use", "blink"}
  /\ ~cmd[p].blink => pc[p] # "blink"
  /\ pc[p] # "use" => CurAddr(p) \in reg["use"]
  /\ pc[p] = "lvl" => CurAddr(p) \notin reg["sel"]

IInv == TypeOK /\ Apart /\ Fresh /\ Progress

\* When the tool returns 0, every pin on its command line is in the state
\* asked for, whatever else ran meanwhile and whatever was killed before
\* (main of gpio.c, pch_gpio_config, pch_gpio_blink_config).
DoneAsAsked ==
  [][\A p \in Proc : pc'[p] = "done" /\ pc[p] # "done" =>
       \A k \in DOMAIN cmd[p].gpios : AsAsked(cmd[p].gpios[k], cmd[p])']_vars

\* Function, direction, blinking and driven level of a pin change only while
\* a run that names the pin is going on: the neighbours in its registers keep
\* what they had (gpio_enable, gpio_dir_out, gpio_blink).
Face(g) == <<Addr(g) \in reg["use"], Addr(g) \in reg["sel"], Addr(g) \in reg["blink"],
             g \in Driven /\ Addr(g) \in reg["lvl"]>>
NeighboursKept ==
  [][\A g \in Pin : Face(g)' # Face(g) =>
       \E p \in Proc : Running(p) /\ \E k \in DOMAIN cmd[p].gpios : cmd[p].gpios[k] = g]_vars

\* Each pair of accesses is one atomic step of the pin machine that the
\* bypass and loopback models are built on.
PinMachine == INSTANCE Pins WITH
  Bank  <- [g \in Pin |-> BankOf(g)],
  Pull  <- {},
  use   <- {g \in Pin : Addr(g) \in reg["use"]},
  out   <- {g \in Pin : Addr(g) \notin reg["sel"]},
  latch <- {g \in Pin : Addr(g) \in reg["lvl"]}
PinsImplemented == PinMachine!Spec
=============================================================================
