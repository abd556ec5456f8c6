---------------------------- MODULE SensorTables ----------------------------
(***************************************************************************)
(* The sensors of the supported chips (tools/hwmon.c): which register of   *)
(* which bank a pin's sensor is read from, which conversion a line of the  *)
(* configuration file selects, and what it makes of the bytes read.        *)
(* Readings and limits are in thousandths.                                 *)
(***************************************************************************)
EXTENDS Integers, Sequences

\* Pin, index, bank.
Nct6776Pins == {
  <<1, 35, 0>>, <<46, 80, 5>>, <<99, 81, 5>>, <<103, 37, 0>>, <<104, 36, 0>>,
  <<105, 33, 0>>, <<106, 34, 0>>, <<107, 32, 0>>, <<109, 38, 0>>, <<124, 88, 6>>,
  <<126, 86, 6>>, <<110, 80, 1>>, <<111, 43, 6>> }

Nct6779Pins == {
  <<3, 196, 4>>, <<4, 198, 4>>, <<99, 136, 4>>, <<104, 132, 4>>, <<105, 129, 4>>,
  <<106, 140, 4>>, <<107, 141, 4>>, <<109, 128, 4>>, <<111, 134, 4>>, <<112, 32, 7>>,
  <<113, 144, 4>>, <<114, 138, 4>>, <<115, 139, 4>>, <<116, 142, 4>>, <<124, 194, 4>>,
  <<126, 192, 4>> }

W83Pins == {
  <<28, 35, 0>>, <<61, 80, 5>>, <<74, 81, 5>>, <<95, 34, 0>>, <<96, 38, 0>>,
  <<97, 37, 0>>, <<99, 33, 0>>, <<100, 32, 0>>, <<102, 80, 2>>, <<103, 80, 1>>,
  <<104, 39, 0>>, <<111, 84, 6>>, <<112, 80, 6>>, <<119, 82, 6>> }

F718Pins == {
  <<21, 160, 0>>, <<23, 176, 0>>, <<25, 192, 0>>, <<89, 118, 0>>, <<90, 116, 0>>,
  <<91, 114, 0>>, <<93, 38, 0>>, <<94, 37, 0>>, <<95, 36, 0>>, <<96, 35, 0>>,
  <<97, 34, 0>>, <<98, 33, 0>> }

F7186Pins == F718Pins \cup {
  <<4, 32, 0>>, <<37, 32, 0>>, <<58, 126, 0>>, <<68, 39, 0>>, <<86, 40, 0>> }

F7188Pins == F718Pins \cup {
  <<1, 32, 0>>, <<35, 32, 0>>, <<44, 120, 0>>, <<65, 39, 0>>, <<82, 40, 0>> }

Fintek   == {"F71868A", "F71889AD", "F71889ED"}
Winbond  == {"W83202G"}
Nuvoton6 == {"NCT6776D", "NCT6776F"}

PinsOf(chip) ==
  CASE chip \in Nuvoton6  -> Nct6776Pins
    [] chip = "NCT6779D"  -> Nct6779Pins
    [] chip \in Winbond   -> W83Pins
    [] chip = "F71868A"   -> F7186Pins
    [] chip \in Fintek \ {"F71868A"} -> F7188Pins

Listed(chip, pin) == \E row \in PinsOf(chip) : row[1] = pin
RowOf(chip, pin)  == CHOOSE row \in PinsOf(chip) : row[1] = pin
IndexOf(chip, pin) == RowOf(chip, pin)[2]
BankOf(chip, pin)  == RowOf(chip, pin)[3]

-----------------------------------------------------------------------------
\* A line of the file: pin, par1, par2, low, high and multiplier.  Its type
\* is 0 temperature, 1 fan, 2 voltage, 3 voltage behind a divider, 4 voltage
\* times a factor.
TypeOf(l) ==
  CASE l.mult # 0                   -> 4
    [] l.mult = 0 /\ l.par2 # 0     -> 3
    [] OTHER -> IF l.high < 20000 THEN 2 ELSE IF l.high < 110000 THEN 0 ELSE 1

\* A fan's speed is read as two bytes, high byte first.
Width(l) == IF TypeOf(l) = 1 THEN 2 ELSE 1

\* The registers a line's sensor is read from.
ReadFrom(chip, l) ==
  {<<BankOf(chip, l.pin), IndexOf(chip, l.pin) + k - 1>> : k \in 1..Width(l)}

Word(bytes) == 256 * bytes[1] + bytes[2]

\* Fintek counts the time of a turn: a count of 0 divides by zero.
Divides(chip, l) == chip \in Fintek /\ TypeOf(l) = 1

Speed(chip, l, word) ==
  LET rpm == IF Divides(chip, l) THEN 1500000 \div word ELSE word
  IN IF rpm = l.par1 THEN 0 ELSE rpm

\* The registers count 8 mV.
Reading(chip, l, bytes) ==
  CASE TypeOf(l) = 0 -> 1000 * (bytes[1] + l.par1)
    [] TypeOf(l) = 1 -> 1000 * Speed(chip, l, Word(bytes))
    [] TypeOf(l) = 2 -> 8 * bytes[1]
    [] TypeOf(l) = 3 -> (8 * bytes[1] * (l.par1 + l.par2)) \div l.par2
    [] TypeOf(l) = 4 -> bytes[1] * l.mult
=============================================================================
