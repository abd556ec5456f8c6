----------------------------- MODULE SioTables -----------------------------
(***************************************************************************)
(* Where the pins of the supported super I/O chips are (tools/libsio.c 344 *)
(* to 625): the group's enable bit, the device and the index of its        *)
(* direction register, whose successor holds the levels.  -1 stands for a  *)
(* pin the chip does not have.                                             *)
(***************************************************************************)
EXTENDS SioCalls

\* The entry of the first row that names x.
Find(rows, x) ==
  IF \E k \in DOMAIN rows : x \in rows[k][1]
  THEN rows[CHOOSE k \in DOMAIN rows : x \in rows[k][1]
                     /\ \A m \in 1..(k - 1) : x \notin rows[m][1]][2]
  ELSE -1

FintekIndex == <<
  <<0..6, 240>>, <<10..16, 224>>, <<25..27, 208>>, <<30..37, 192>>,
  <<40..47, 176>>, <<50..54, 160>>, <<60..67, 144>>, <<70..77, 128>> >>

Nct6Index == <<
  <<0..5, 224>>, <<10..17, 240>>, <<20..27, 224>>, <<30..37, 228>>,
  <<40..47, 240>>, <<50..54, 244>>, <<60..67, 244>>, <<70..77, 224>>,
  <<80..87, 228>>, <<90..97, 232>>, <<{100}, 224>> >>

\* The last but one test is gpio == 74 || gpio <= 75.
Nct5Index == <<
  <<{0, 4}, 224>>, <<20..26, 224>>, <<{41, 42}, 240>>, <<{54, 56, 57}, 244>>,
  <<0..75, 224>>, <<80..87, 228>> >>

DirIndex(c, g) ==
  CASE c = "F71889AD"               -> Find(FintekIndex, g)
    [] c \in {"NCT6776F", "NCT6779D"} -> Find(Nct6Index, g)
    [] c = "NCT5533D"               -> Find(Nct5Index, g)
    [] OTHER                           -> -1

EnLdn(c, g) ==
  CASE c = "NCT6776F" -> Find(<< <<{0, 10}, 8>>, <<1..7, 9>>, <<{8, 9}, 7>> >>, g \div 10)
    [] c = "NCT6779D" -> Find(<< <<{0}, 8>>, <<1..8, 9>> >>, g \div 10)
    [] c = "NCT5533D" -> Find(<< <<{0}, 8>>, <<(2..5) \cup {7, 8}, 9>> >>, g \div 10)
    [] OTHER             -> -1

EnOffset(c, g) ==
  LET q == g \div 10 IN
  CASE c = "NCT6776F" /\ q \in 1..7            -> q
    [] c = "NCT6776F" /\ q \in {8, 9}          -> q - 8
    [] c = "NCT6776F" /\ q = 10                -> 2
    [] c = "NCT6779D" /\ q \in 1..8            -> q % 8
    [] c = "NCT5533D" /\ q \in (2..5) \cup {7, 8} -> q % 8
    [] c \in {"NCT6776F", "NCT6779D", "NCT5533D"} /\ q = 0 -> 1
    [] OTHER                                      -> -1

Ldn(c, g) ==
  CASE c = "NCT6776F" ->
         Find(<< <<0..1, 8>>, <<2..5, 9>>, <<6..9, 7>>, <<{10}, 17>> >>, g \div 10)
    [] c = "NCT6779D" -> Find(<< <<0..1, 8>>, <<2..5, 9>>, <<6..8, 7>> >>, g \div 10)
    [] c = "NCT5533D" -> Find(<< <<{0}, 8>>, <<2..5, 9>>, <<{7, 8}, 7>> >>, g \div 10)
    [] OTHER             -> -1

\* nct5xxx_multi_func_pin: global bits, then the pin's bit of its group.
MultiFunc(g) ==
  LET own(dev, r) == <<Select(Bits(dev)), PutBit(r, g % 10, FALSE)>> IN
  CASE g = 0             -> <<PutBit(28, 0, TRUE)>> \o own(8, 228)
    [] g = 4             -> <<PutBit(28, 5, TRUE)>>
    [] g \in {20, 21}    -> <<PutBit(42, 0, TRUE)>> \o own(9, 233)
    [] g \in {22, 23}    -> <<PutBit(42, 1, TRUE)>> \o own(9, 233)
    [] g = 26            -> <<PutBit(44, 0, FALSE)>>
    [] g \in {54, 56, 57} -> own(9, 235)
    [] g \in {74, 75}    -> <<PutBit(43, (g % 10) + 1, TRUE)>> \o own(7, 236)
    [] g \in 80..87      -> own(7, 237)
    [] OTHER             -> <<>>

\* Slip: Fintek's direction values.
DirOutFintek(r, bit, high) == <<PutBit(r, bit, TRUE), PutBit(r + 1, bit, high)>>

\* sio_gpio_dir_out and sio_gpio_dir_in with the values of the Nuvoton chips,
\* NCT_GPIO_OUT = 0 and NCT_GPIO_IN = 1.
DirOut(r, bit, high) == <<PutBit(r, bit, FALSE), PutBit(r + 1, bit, high)>>
DirIn(r, bit) == <<PutBit(r, bit, TRUE)>>

\* A program error: the tool exits with status 1, without sio_exit.
GiveUp == [call |-> "exit1"]

\* Slip: the pin's registers are taken to be in the device of its group.
ReachOneDevice(c, g, calls) ==
  IF EnLdn(c, g) = -1 \/ EnOffset(c, g) = -1 THEN <<GiveUp>>
  ELSE <<Select(Bits(EnLdn(c, g))), PutBit(48, EnOffset(c, g), TRUE)>>
    \o IF DirIndex(c, g) = -1 THEN <<GiveUp>> ELSE calls

\* Enable the pin's group and select its device, then do calls.
Reach(c, g, calls) ==
  IF EnLdn(c, g) = -1 \/ EnOffset(c, g) = -1 THEN <<GiveUp>>
  ELSE <<Select(Bits(EnLdn(c, g))), PutBit(48, EnOffset(c, g), TRUE),
         Select(Bits(Ldn(c, g)))>>
    \o IF DirIndex(c, g) = -1 THEN <<GiveUp>> ELSE calls
=============================================================================
