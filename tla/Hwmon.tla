------------------------------- MODULE Hwmon -------------------------------
(***************************************************************************)
(* The sensor test on super I/O chips (tools/hwmon.c), one access to the   *)
(* monitor's index and data port a step: on Nuvoton and Winbond chips the  *)
(* bank is selected by a read and a write back of register 4Eh, then the   *)
(* index is written and the byte read.  Registers keep what a killed run   *)
(* left.                                                                   *)
(***************************************************************************)
EXTENDS SensorTest, SioCalls

CONSTANT Bank0    \* contents of register 4Eh before the first run

ASSUME Bank0Assumption == Bank0 \subseteq Byte

VARIABLES
  on,       \* the monitor is enabled
  bank,     \* register 4Eh
  index,    \* the index written last
  held,     \* the sensor whose low byte the chip holds, and that byte
  pc,       \* the access that is next
  data,     \* the byte read from 4Eh
  got       \* the bytes of this reading so far

chipVars == <<on, bank, index, held>>
vars     == <<testVars, chipVars, pc, data, got>>

-----------------------------------------------------------------------------
(* The chip. *)

\* A Fintek chip has one bank, an NCT6779D sixteen, the others eight.
BankBits == IF Chip \in Fintek THEN {} ELSE IF Chip = "NCT6779D" THEN 0..3 ELSE 0..2

\* The sensors that byte k of is at this bank and index.
At(k) == {j \in Sensor : /\ k <= Width(Lines[j])
                         /\ index = IndexOf(Chip, Lines[j].pin) + k - 1
                         /\ bank \cap BankBits = Bits(BankOf(Chip, Lines[j].pin)) \cap BankBits}

\* A disabled monitor does not answer; other registers show 0 here.  The low
\* byte is held from the moment the high byte is read.
Shown ==
  IF ~on THEN {255}
  ELSE IF At(1) = {} /\ At(2) = {} THEN {0}
  ELSE {level[j][1] : j \in At(1)}
         \cup {(IF held # <<>> /\ held[1] = j THEN held[2] ELSE level[j][2]) : j \in At(2)}

Held == IF \E j \in At(1) : Width(Lines[j]) = 2
        THEN LET j == CHOOSE j \in At(1) : Width(Lines[j]) = 2 IN <<j, level[j][2]>>
        ELSE <<>>

-----------------------------------------------------------------------------
(* The tool. *)

First == IF Chip \in Fintek THEN "index" ELSE "bank"

\* Slip: the bank is only ORed in.
ClearedNone == {}

\* bank_select clears nothing on a chip it does not know.
Cleared ==
  CASE Chip = "NCT6776F" \/ Chip \in Winbond -> 0..2
    [] Chip = "NCT6779D"                     -> 0..3
    [] OTHER                                 -> {}

HwInit ==
  /\ Init
  /\ on \in BOOLEAN
  /\ bank \in Bank0
  /\ index = 0
  /\ held = <<>>
  /\ pc = "locate"
  /\ data = {}
  /\ got = <<>>

\* One session with the configuration registers, on which see SioPorts.
Locate ==
  /\ exit = "none"
  /\ pc = "locate"
  /\ on' = TRUE
  /\ pc' = First
  /\ UNCHANGED <<testVars, bank, index, held, data, got>>

Turn == Running /\ taken = <<>>

SelectBank ==
  /\ Turn
  /\ pc = "bank"
  /\ index' = 78
  /\ pc' = "get"
  /\ UNCHANGED <<testVars, on, bank, held, data, got>>

GetBank ==
  /\ Turn
  /\ pc = "get"
  /\ data' = bank
  /\ pc' = "put"
  /\ UNCHANGED <<testVars, chipVars, got>>

PutBank ==
  /\ Turn
  /\ pc = "put"
  /\ bank' = (data \ Cleared) \cup Bits(BankOf(Chip, Lines[cur].pin))
  /\ pc' = "index"
  /\ UNCHANGED <<testVars, on, index, held, data, got>>

\* Slip: the low byte of a fan's speed is read first.
PutIndexLowFirst ==
  /\ Turn
  /\ pc = "index"
  /\ index' = IndexOf(Chip, Lines[cur].pin) + Width(Lines[cur]) - 1 - Len(got)
  /\ pc' = "byte"
  /\ UNCHANGED <<testVars, on, bank, held, data, got>>

PutIndex ==
  /\ Turn
  /\ pc = "index"
  /\ index' = IndexOf(Chip, Lines[cur].pin) + Len(got)
  /\ pc' = "byte"
  /\ UNCHANGED <<testVars, on, bank, held, data, got>>

GetByte ==
  /\ Turn
  /\ pc = "byte"
  /\ \E b \in Shown :
       IF Len(got) + 1 < Width(Lines[cur])
       THEN got' = Append(got, b) /\ pc' = "index" /\ UNCHANGED taken
       ELSE taken' = <<Append(got, b)>> /\ got' = <<>> /\ pc' = First
  /\ held' = Held
  /\ UNCHANGED <<file, level, time, round, cur, least, most, result, exit, bad, on, bank, index, data>>

Step == (Drift \/ Judge \/ Fault \/ (pc # "locate" /\ Return))
          /\ UNCHANGED <<chipVars, pc, data, got>>

AgainAtAnyTime ==
  /\ Again
  /\ pc' = "locate"
  /\ got' = <<>>
  /\ UNCHANGED <<chipVars, data>>

HwNext == \/ Locate \/ SelectBank \/ GetBank \/ PutBank \/ PutIndex \/ GetByte
          \/ Step \/ AgainAtAnyTime

HwSpec == HwInit /\ [][HwNext]_vars

-----------------------------------------------------------------------------
(* Properties. *)

TypeOK ==
  /\ on \in BOOLEAN
  /\ bank \in Byte
  /\ index \in 0..255
  /\ pc \in {"locate", "bank", "get", "put", "index", "byte"}
  /\ data \in Byte

\* Between the bank's selection and the last byte, the bank selected is that
\* of the sensor whose turn it is, whichever bank the sensor before it, a
\* killed run or the firmware left (bank_select).
BankRight ==
  Turn /\ pc \in {"index", "byte"} =>
    bank \cap BankBits = Bits(BankOf(Chip, Lines[cur].pin)) \cap BankBits

\* A speed half read is that of one moment, of the sensor whose turn it is.
HalfRead ==
  got # <<>> =>
    /\ Width(Lines[cur]) = 2
    /\ \E v \in Raw[cur] : got = <<v[1]>> /\ held = <<cur, v[2]>>

\* The turn between two accesses.
InTurn ==
  /\ pc # "locate" => on
  /\ taken # <<>> => pc = First
  /\ pc \notin {"index", "byte"} \/ taken # <<>> => got = <<>>
  /\ pc = "byte" => index = IndexOf(Chip, Lines[cur].pin) + Len(got)

IInv == TestInv /\ TypeOK /\ BankRight /\ HalfRead /\ InTurn

\* Every reading is that of its own sensor at one moment of its turn: never a
\* register of another bank or of the sensor before, and never the high byte
\* of one speed with the low byte of another (read_temperature,
\* read_fan_speed, read_voltage1 to 3).
Moment ==
  IF taken # <<>> THEN taken
  ELSE IF got = <<>> THEN <<>>
  ELSE <<<<got[1], IF held # <<>> THEN held[2] ELSE 0>>>>
Test == INSTANCE SensorTest WITH taken <- Moment
TestImplemented == Test!Spec
=============================================================================
