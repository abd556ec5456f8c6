---------------------------- MODULE HwmonProofs ----------------------------
(***************************************************************************)
(* Proofs about the sensor test: its status tells whether a reading was    *)
(* out of its limits, the bank selected is that of the sensor read, and    *)
(* the test with its ports implements SensorTest, for every file, board    *)
(* and number of rounds that SensorAssumption admits.                      *)
(***************************************************************************)
EXTENDS Hwmon, SequenceTheorems, TLAPS

-----------------------------------------------------------------------------
(* The tables. *)

\* The rows of every table fit in the monitor.
RowsFit(T) == \A r \in T : /\ r[2] \in Nat /\ r[2] <= 198
                           /\ r[3] \in Nat /\ r[3] <= 7

\* So do those of the Nuvoton chips.
LEMMA NuvotonRows == RowsFit(Nct6776Pins) /\ RowsFit(Nct6779Pins)
  <1>1. RowsFit(Nct6776Pins)
    BY DEF RowsFit, Nct6776Pins
  <1>2. RowsFit(Nct6779Pins)
    BY DEF RowsFit, Nct6779Pins
  <1>3. QED
    BY <1>1, <1>2

\* And those of the Winbond chips.
LEMMA WinbondRows == RowsFit(W83Pins)
  BY DEF RowsFit, W83Pins

\* A Fintek chip has one bank.
LEMMA FintekRows ==
  /\ RowsFit(F7186Pins) /\ RowsFit(F7188Pins)
  /\ \A r \in F7186Pins \cup F7188Pins : r[3] = 0
  <1>1. \A r \in F718Pins : r[2] \in Nat /\ r[2] <= 198 /\ r[3] = 0
    BY DEF F718Pins
  <1>2. \A r \in F7186Pins : r[2] \in Nat /\ r[2] <= 198 /\ r[3] = 0
    BY <1>1 DEF F7186Pins
  <1>3. \A r \in F7188Pins : r[2] \in Nat /\ r[2] <= 198 /\ r[3] = 0
    BY <1>1 DEF F7188Pins
  <1>4. QED
    BY <1>2, <1>3 DEF RowsFit

\* The place of a pin that is listed.
LEMMA RowFits ==
  ASSUME NEW chip \in Fintek \cup Winbond \cup {"NCT6776F", "NCT6779D"},
         NEW pin, Listed(chip, pin)
  PROVE  /\ IndexOf(chip, pin) \in Nat /\ IndexOf(chip, pin) <= 198
         /\ BankOf(chip, pin) \in Nat /\ BankOf(chip, pin) <= 7
         /\ chip \in Fintek => BankOf(chip, pin) = 0
  <1>1. RowOf(chip, pin) \in PinsOf(chip)
    BY DEF RowOf, Listed
  <1>2. RowsFit(PinsOf(chip)) /\ (chip \in Fintek => \A r \in PinsOf(chip) : r[3] = 0)
    <2>1. CASE chip = "NCT6776F"
      <3>1. PinsOf(chip) = Nct6776Pins
        BY <2>1 DEF PinsOf, Nuvoton6, Winbond, Fintek
      <3>2. QED
        BY <2>1, <3>1, NuvotonRows DEF Fintek
    <2>2. CASE chip = "NCT6779D"
      <3>1. PinsOf(chip) = Nct6779Pins
        BY <2>2 DEF PinsOf, Nuvoton6, Winbond, Fintek
      <3>2. QED
        BY <2>2, <3>1, NuvotonRows DEF Fintek
    <2>3. CASE chip \in Winbond
      <3>1. PinsOf(chip) = W83Pins
        BY <2>3 DEF PinsOf, Nuvoton6, Winbond, Fintek
      <3>2. QED
        BY <2>3, <3>1, WinbondRows DEF Fintek, Winbond
    <2>4. CASE chip \in Fintek
      <3>1. PinsOf(chip) = IF chip = "F71868A" THEN F7186Pins ELSE F7188Pins
        BY <2>4 DEF PinsOf, Nuvoton6, Winbond, Fintek
      <3>2. QED
        BY <3>1, FintekRows
    <2>5. QED
      BY <2>1, <2>2, <2>3, <2>4
  <1>3. QED
    BY <1>1, <1>2 DEF RowsFit, IndexOf, BankOf

-----------------------------------------------------------------------------
(* The file. *)

\* What SensorAssumption says of the file in use.
LEMMA FileFacts ==
  ASSUME file \in File
  PROVE  /\ Chip \in Fintek \cup Winbond \cup {"NCT6776F", "NCT6779D"}
         /\ Lines \in Seq([pin : Nat, par1 : Nat, par2 : Nat, low : Int, high : Int, mult : Nat])
         /\ Sensor = 1..Len(Lines) /\ Len(Lines) \in Nat \ {0} /\ 1 \in Sensor
         /\ \A j \in Sensor : /\ Listed(Chip, Lines[j].pin)
                              /\ Raw[j] # {}
                              /\ Raw[j] \subseteq [1..Width(Lines[j]) -> 0..255]
         /\ \A j, k \in Sensor : j # k =>
              ReadFrom(Chip, Lines[j]) \cap ReadFrom(Chip, Lines[k]) = {}
  <1>1. /\ Chip \in Fintek \cup Winbond \cup {"NCT6776F", "NCT6779D"}
        /\ Lines \in Seq([pin : Nat, par1 : Nat, par2 : Nat, low : Int, high : Int, mult : Nat])
        /\ Lines # <<>>
    BY SensorAssumption DEF Chip, Lines
  <1>2. \A j \in Sensor : /\ Listed(Chip, Lines[j].pin)
                          /\ Raw[j] # {}
                          /\ Raw[j] \subseteq [1..Width(Lines[j]) -> 0..255]
    BY SensorAssumption DEF Chip, Lines, Sensor, Raw
  <1>3. \A j, k \in Sensor : j # k =>
          ReadFrom(Chip, Lines[j]) \cap ReadFrom(Chip, Lines[k]) = {}
    <2>1. \A j \in DOMAIN file.lines : \A k \in DOMAIN file.lines \ {j} :
            ReadFrom(file.chip, file.lines[j]) \cap ReadFrom(file.chip, file.lines[k]) = {}
      BY SensorAssumption, Zenon
    <2>2. QED
      BY <2>1 DEF Chip, Lines, Sensor
  <1>4. Sensor = 1..Len(Lines) /\ Len(Lines) \in Nat \ {0} /\ 1 \in Sensor
    BY <1>1 DEF Sensor
  <1>5. QED
    BY <1>1, <1>2, <1>3, <1>4

\* The fields of a line.
LEMMA LineFields ==
  ASSUME file \in File, NEW j \in Sensor
  PROVE  /\ Lines[j].pin \in Nat /\ Lines[j].par1 \in Nat /\ Lines[j].par2 \in Nat
         /\ Lines[j].low \in Int /\ Lines[j].high \in Int /\ Lines[j].mult \in Nat
         /\ TypeOf(Lines[j]) \in 0..4
         /\ TypeOf(Lines[j]) = 3 => Lines[j].par2 # 0
         /\ Width(Lines[j]) = (IF TypeOf(Lines[j]) = 1 THEN 2 ELSE 1)
  <1>1. Lines[j] \in [pin : Nat, par1 : Nat, par2 : Nat, low : Int, high : Int, mult : Nat]
    <2>1. /\ Lines \in Seq([pin : Nat, par1 : Nat, par2 : Nat,
                             low : Int, high : Int, mult : Nat])
          /\ j \in 1..Len(Lines)
      BY FileFacts
    <2>2. QED
      BY <2>1, ElementOfSeq
  <1>2. QED
    BY <1>1 DEF TypeOf, Width

\* A reading is a number, except that of a fan that Fintek counts as 0.
LEMMA ReadingIsInt ==
  ASSUME file \in File, NEW j \in Sensor, NEW v \in Raw[j],
         ~(Divides(Chip, Lines[j]) /\ v = <<0, 0>>)
  PROVE  Reading(Chip, Lines[j], v) \in Int
  <1>1. v \in [1..Width(Lines[j]) -> 0..255]
    BY FileFacts
  <1>2. Width(Lines[j]) = (IF TypeOf(Lines[j]) = 1 THEN 2 ELSE 1)
    BY LineFields
  <1>3. v[1] \in 0..255
    BY <1>1, <1>2
  <1>4. CASE TypeOf(Lines[j]) = 0
    BY <1>3, <1>4, LineFields DEF Reading
  <1>5. CASE TypeOf(Lines[j]) = 1
    <2>1. v[2] \in 0..255 /\ v = <<v[1], v[2]>>
      BY <1>1, <1>2, <1>5
    <2>2. Word(v) = 256 * v[1] + v[2]
      BY DEF Word
    <2>3. Word(v) \in Nat /\ (v[1] > 0 \/ v[2] > 0 => Word(v) > 0)
      <3> DEFINE x == v[1]
                 y == v[2]
      <3>1. x \in Nat /\ y \in Nat
        BY <1>3, <2>1
      <3> HIDE DEF x, y
      <3>2. Word(v) = 256 * x + y
        BY <2>2 DEF x, y
      <3>3. Word(v) \in Nat /\ (x > 0 \/ y > 0 => Word(v) > 0)
        BY <3>1, <3>2
      <3>4. QED
        BY <3>3 DEF x, y
    <2>a. Divides(Chip, Lines[j]) => Word(v) > 0
      BY <1>3, <2>1, <2>3
    <2>4. Divides(Chip, Lines[j]) => 1500000 \div Word(v) \in Int
      BY <2>3, <2>a
    <2>5. Speed(Chip, Lines[j], Word(v)) \in Int
      BY <2>3, <2>4 DEF Speed
    <2>6. Reading(Chip, Lines[j], v) = 1000 * Speed(Chip, Lines[j], Word(v))
      BY <1>5 DEF Reading
    <2>7. QED
      BY <2>5, <2>6
  <1>6. CASE TypeOf(Lines[j]) = 2
    BY <1>3, <1>6 DEF Reading
  <1>7. CASE TypeOf(Lines[j]) = 3
    <2>1. Reading(Chip, Lines[j], v)
            = (8 * v[1] * (Lines[j].par1 + Lines[j].par2)) \div Lines[j].par2
      BY <1>7 DEF Reading
    <2>2. /\ 8 * v[1] * (Lines[j].par1 + Lines[j].par2) \in Int
          /\ Lines[j].par2 \in Nat \ {0}
      BY <1>3, <1>7, LineFields
    <2>3. QED
      BY <2>1, <2>2
  <1>8. CASE TypeOf(Lines[j]) = 4
    BY <1>3, <1>8, LineFields DEF Reading
  <1>9. QED
    BY <1>4, <1>5, <1>6, <1>7, <1>8, LineFields
-----------------------------------------------------------------------------
(* The status. *)

\* The readings' bounds after a reading v of the sensor in turn.
LEMMA Bounds ==
  ASSUME NEW v \in Int, NEW l \in Int, NEW m \in Int,
         NEW low \in Int, NEW high \in Int
  PROVE  /\ SmallerOf(l, v) \in Int /\ LargerOf(m, v) \in Int
         /\ (v < low \/ v > high) => ~(SmallerOf(l, v) >= low /\ LargerOf(m, v) <= high)
         /\ ~(v < low \/ v > high) /\ low <= l /\ m <= high
              => SmallerOf(l, v) >= low /\ LargerOf(m, v) <= high
  BY DEF SmallerOf, LargerOf

\* What Judge does.
LEMMA Judging ==
  ASSUME TestInv, Judge
  PROVE  /\ TestTypeOK'
         /\ result' = 1 <=> bad'
         /\ ~bad' => ~bad /\ Lines[cur].low <= least'[cur] /\ most'[cur] <= Lines[cur].high
         /\ \A j \in Sensor : j # cur => least'[j] = least[j] /\ most'[j] = most[j]
  <1> DEFINE line == Lines[cur]
             v == Reading(Chip, line, taken[1])
             out == v < line.low \/ v > line.high
             newLeast == IF round = 1 THEN v ELSE SmallerOf(least[cur], v)
             newMost == IF round = 1 THEN v ELSE LargerOf(most[cur], v)
  <1>1. /\ file \in File /\ cur \in Sensor /\ round \in Nat \ {0}
        /\ least \in [Sensor -> Int] /\ most \in [Sensor -> Int]
        /\ result \in {0, 1} /\ bad \in BOOLEAN
        /\ result = 1 <=> bad
    BY DEF TestInv, TestTypeOK, StatusSoFar
  <1>2. v \in Int
    <2>1. PICK x \in Raw[cur] : taken = <<x>>
      BY DEF Judge, TestInv, TestTypeOK
    <2>2. taken[1] = x /\ ~(Divides(Chip, Lines[cur]) /\ x = <<0, 0>>)
      BY <2>1 DEF Judge, Undefined
    <2>3. QED
      BY <1>1, <2>2, ReadingIsInt
  <1>3. line.low \in Int /\ line.high \in Int
    BY <1>1, LineFields
  <1>4. /\ least' = [least EXCEPT ![cur] = newLeast]
        /\ most' = [most EXCEPT ![cur] = newMost]
        /\ bad' = (bad \/ out)
        /\ result' = IF least'[cur] >= line.low /\ most'[cur] <= line.high THEN result ELSE 1
        /\ taken' = <<>>
        /\ Next1
        /\ UNCHANGED <<file, level, time, exit>>
    BY DEF Judge
  <1> HIDE DEF v, line
  <1>5. /\ newLeast \in Int /\ newMost \in Int
        /\ out => ~(newLeast >= line.low /\ newMost <= line.high)
        /\ ~out /\ (round = 1 \/ (line.low <= least[cur] /\ most[cur] <= line.high))
             => newLeast >= line.low /\ newMost <= line.high
    <2>1. least[cur] \in Int /\ most[cur] \in Int
      BY <1>1
    <2> DEFINE low == line.low
               high == line.high
    <2>2. low \in Int /\ high \in Int
      BY <1>3
    <2> HIDE DEF low, high
    <2>3. /\ newLeast \in Int /\ newMost \in Int
          /\ (v < low \/ v > high) => ~(newLeast >= low /\ newMost <= high)
          /\ ~(v < low \/ v > high) /\ (round = 1 \/ (low <= least[cur] /\ most[cur] <= high))
               => newLeast >= low /\ newMost <= high
      <3>1. CASE round = 1
        BY <1>2, <2>2, <3>1
      <3>2. CASE round # 1
        <4>1. newLeast = SmallerOf(least[cur], v) /\ newMost = LargerOf(most[cur], v)
          BY <3>2
        <4> HIDE DEF newLeast, newMost
        <4>2. QED
          BY <1>2, <2>1, <2>2, <3>2, <4>1, Bounds
      <3>3. QED
        BY <3>1, <3>2
    <2>4. QED
      BY <2>3 DEF low, high
  <1>6. ~bad => round = 1 \/ (line.low <= least[cur] /\ most[cur] <= line.high)
    BY <1>1 DEF line, TestInv, StatusSoFar, Judged
  <1> HIDE DEF newLeast, newMost, out
  <1>7. least'[cur] = newLeast /\ most'[cur] = newMost
    BY <1>1, <1>4
  <1>8. (result' = 1 <=> bad')
        /\ (~bad' => ~bad /\ least'[cur] >= line.low /\ most'[cur] <= line.high)
    BY <1>1, <1>4, <1>5, <1>6, <1>7
  <1>9. TestTypeOK'
    <2>1. cur' \in Sensor /\ round' \in Nat \ {0}
      <3>1. Sensor = 1..Len(Lines) /\ Len(Lines) \in Nat \ {0}
        BY <1>1, FileFacts
      <3>2. CASE cur < Len(Lines)
        BY <1>1, <1>4, <3>1, <3>2 DEF Next1
      <3>3. CASE ~(cur < Len(Lines))
        BY <1>1, <1>4, <3>1, <3>3 DEF Next1
      <3>4. QED
        BY <3>2, <3>3
    <2>2. /\ least' \in [Sensor -> Int] /\ most' \in [Sensor -> Int]
          /\ result' \in {0, 1} /\ bad' \in BOOLEAN
      BY <1>1, <1>4, <1>5 DEF out
    <2>3. Sensor' = Sensor /\ Raw' = Raw
      BY <1>4 DEF Sensor, Lines, Raw
    <2>4. QED
      BY <1>4, <2>1, <2>2, <2>3 DEF TestInv, TestTypeOK
  <1>10. \A j \in Sensor : j # cur => least'[j] = least[j] /\ most'[j] = most[j]
    BY <1>1, <1>4
  <1>11. QED
    BY <1>8, <1>9, <1>10, <1>1, <1>3, <1>5, <1>7 DEF line

\* The test's invariant holds in the beginning.
LEMMA TestStart ==
  ASSUME Init
  PROVE  TestInv
  <1>1. file \in File
    BY DEF Init
  <1>2. /\ 1 \in Sensor /\ Sensor = 1..Len(Lines)
        /\ time \in Nat
    BY <1>1, FileFacts, SensorAssumption DEF Init
  <1>3. least \in [Sensor -> Int] /\ most \in [Sensor -> Int]
    BY DEF Init
  <1>4. TestTypeOK
    <2>1. /\ file \in File
          /\ level \in [Sensor -> UNION {Raw[j] : j \in Sensor}]
          /\ \A j \in Sensor : level[j] \in Raw[j]
          /\ round = 1 /\ cur = 1 /\ taken = <<>> /\ result = 0 /\ exit = "none" /\ bad = FALSE
      BY DEF Init
    <2>2. /\ time \in Nat /\ round \in Nat \ {0} /\ cur \in Sensor
          /\ result \in {0, 1} /\ exit \in {"none", "0", "1", "signal"} /\ bad \in BOOLEAN
      <3>1. time \in Nat /\ cur \in Sensor
        BY <1>2, <2>1
      <3>2. round \in Nat \ {0} /\ result \in {0, 1}
        BY <2>1
      <3>3. exit \in {"none", "0", "1", "signal"} /\ bad \in BOOLEAN
        BY <2>1
      <3>4. QED
        BY <3>1, <3>2, <3>3
    <2>3. taken # <<>> => \E v \in Raw[cur] : taken = <<v>>
      BY <2>1, Zenon
    <2>4. QED
      BY <1>3, <2>1, <2>2, <2>3 DEF TestTypeOK
  <1>5. \A j \in Sensor : ~Judged(j)
    BY <1>2 DEF Init, Judged
  <1>6. QED
    BY <1>4, <1>5 DEF Init, TestInv, StatusTells, StatusSoFar

\* The steps that SensorTest and Hwmon have in common keep the test's invariant.
LEMMA TestStep ==
  ASSUME TestInv, Drift \/ Judge \/ Fault \/ Return \/ Again
  PROVE  TestInv'
  <1>1. CASE Drift
    <2>1. PICK i \in Sensor : \E v \in Raw[i] : level' = [level EXCEPT ![i] = v]
      BY <1>1 DEF Drift
    <2>2. UNCHANGED <<file, time, round, cur, taken, least, most, result, exit, bad>>
      BY <1>1 DEF Drift
    <2>3. Sensor' = Sensor /\ Raw' = Raw /\ Lines' = Lines
      BY <2>2 DEF Sensor, Lines, Raw
    <2>4. /\ level' \in [Sensor -> UNION {Raw[j] : j \in Sensor}]
          /\ \A j \in Sensor : level'[j] \in Raw[j]
      BY <2>1 DEF TestInv, TestTypeOK
    <2>5. TestTypeOK'
      BY <2>2, <2>3, <2>4 DEF TestInv, TestTypeOK
    <2>6. QED
      BY <2>2, <2>3, <2>5 DEF TestInv, StatusTells, StatusSoFar, Judged
  <1>2. CASE Judge
    <2>1. /\ TestTypeOK'
          /\ result' = 1 <=> bad'
          /\ ~bad' => ~bad /\ Lines[cur].low <= least'[cur] /\ most'[cur] <= Lines[cur].high
          /\ \A j \in Sensor : j # cur => least'[j] = least[j] /\ most'[j] = most[j]
      BY <1>2, Judging
    <2>2. exit = "none" /\ exit' = "none" /\ Next1 /\ file' = file
      BY <1>2 DEF Judge, Running
    <2>3. Sensor' = Sensor /\ Lines' = Lines
      BY <2>2 DEF Sensor, Lines
    <2>4. /\ Sensor = 1..Len(Lines) /\ Len(Lines) \in Nat \ {0} /\ cur \in Sensor
          /\ round \in Nat \ {0}
      BY FileFacts DEF TestInv, TestTypeOK
    <2>5. ASSUME NEW j \in Sensor, Judged(j)'
          PROVE  j = cur \/ Judged(j)
      BY <2>2, <2>4, <2>5 DEF Judged, Next1
    <2>6. StatusSoFar'
      BY <2>1, <2>3, <2>5 DEF TestInv, StatusSoFar
    <2>7. QED
      BY <2>1, <2>2, <2>6 DEF TestInv, StatusTells
  <1>3. CASE Fault
    <2>1. exit' = "signal" /\ UNCHANGED <<file, level, time, round, cur, taken, least, most, result, bad>>
      BY <1>3 DEF Fault
    <2>2. Sensor' = Sensor /\ Raw' = Raw /\ Lines' = Lines
      BY <2>1 DEF Sensor, Lines, Raw
    <2>3. TestTypeOK'
      BY <2>1, <2>2 DEF TestInv, TestTypeOK
    <2>4. QED
      BY <2>1, <2>2, <2>3 DEF TestInv, StatusTells, StatusSoFar, Judged
  <1>4. CASE Return
    <2>1. /\ exit' = IF result = 0 THEN "0" ELSE "1"
          /\ UNCHANGED <<file, level, time, round, cur, taken, least, most, result, bad>>
      BY <1>4 DEF Return
    <2>2. Sensor' = Sensor /\ Raw' = Raw /\ Lines' = Lines
      BY <2>1 DEF Sensor, Lines, Raw
    <2>3. TestTypeOK'
      BY <2>1, <2>2 DEF TestInv, TestTypeOK
    <2>4. StatusTells'
      BY <2>1 DEF TestInv, TestTypeOK, StatusTells, StatusSoFar
    <2>5. QED
      BY <2>1, <2>2, <2>3, <2>4 DEF TestInv, StatusSoFar, Judged
  <1>5. CASE Again
    <2>1. /\ time' \in Times /\ round' = 1 /\ cur' = 1 /\ taken' = <<>> /\ result' = 0
          /\ exit' = "none" /\ bad' = FALSE /\ UNCHANGED <<file, level, least, most>>
      BY <1>5 DEF Again
    <2>2. Sensor' = Sensor /\ Raw' = Raw /\ Lines' = Lines
      BY <2>1 DEF Sensor, Lines, Raw
    <2>3. 1 \in Sensor /\ Sensor = 1..Len(Lines)
      BY FileFacts DEF TestInv, TestTypeOK
    <2>a. time' \in Nat
      BY <2>1, SensorAssumption
    <2>b. /\ round' \in Nat \ {0} /\ cur' \in Sensor
          /\ result' \in {0, 1} /\ exit' \in {"none", "0", "1", "signal"} /\ bad' \in BOOLEAN
      <3>1. round' \in Nat \ {0} /\ cur' \in Sensor /\ result' \in {0, 1}
        BY <2>1, <2>3
      <3>2. exit' \in {"none", "0", "1", "signal"} /\ bad' \in BOOLEAN
        BY <2>1
      <3>3. QED
        BY <3>1, <3>2
    <2>d. taken' # <<>> => \E v \in Raw[cur'] : taken' = <<v>>
      BY <2>1, Zenon
    <2>c. /\ file' \in File
          /\ level' \in [Sensor -> UNION {Raw[j] : j \in Sensor}]
          /\ \A j \in Sensor : level'[j] \in Raw[j]
          /\ least' \in [Sensor -> Int] /\ most' \in [Sensor -> Int]
      BY <2>1 DEF TestInv, TestTypeOK
    <2>4. TestTypeOK'
      BY <2>2, <2>a, <2>b, <2>c, <2>d DEF TestTypeOK
    <2>5. \A j \in Sensor : ~Judged(j)'
      BY <2>1, <2>3 DEF Judged
    <2>6. QED
      BY <2>1, <2>2, <2>4, <2>5 DEF TestInv, StatusTells, StatusSoFar
  <1>6. QED
    BY <1>1, <1>2, <1>3, <1>4, <1>5

\* The test after a reading was taken.
LEMMA TakenKeeps ==
  ASSUME TestInv, taken' # <<>> => \E v \in Raw[cur] : taken' = <<v>>,
         UNCHANGED <<file, level, time, round, cur, least, most, result, exit, bad>>
  PROVE  TestInv'
  <1>1. Sensor' = Sensor /\ Raw' = Raw /\ Lines' = Lines
    BY DEF Sensor, Lines, Raw
  <1>2. TestTypeOK'
    BY <1>1 DEF TestInv, TestTypeOK
  <1>3. QED
    BY <1>1, <1>2 DEF TestInv, StatusTells, StatusSoFar, Judged

\* The test as SensorTest promises it: its status is 0 only when no reading it
\* took was out of the limits, and 1 only when one was.
THEOREM TestStatus == Spec => []StatusTells
  <1>1. Init => TestInv
    BY TestStart
  <1>2. TestInv /\ [Next]_testVars => TestInv'
    <2> SUFFICES ASSUME TestInv, [Next]_testVars
                 PROVE  TestInv'
      OBVIOUS
    <2>1. CASE Take
      <3>1. taken' = <<level[cur]>> /\ level[cur] \in Raw[cur]
        BY <2>1 DEF Take, TestInv, TestTypeOK
      <3>2. QED
        BY <2>1, <3>1, TakenKeeps DEF Take
    <2>2. CASE UNCHANGED testVars
      <3>1. Sensor' = Sensor /\ Raw' = Raw /\ Lines' = Lines
        BY <2>2 DEF testVars, Sensor, Lines, Raw
      <3>2. TestTypeOK'
        BY <2>2, <3>1 DEF testVars, TestInv, TestTypeOK
      <3>3. QED
        BY <2>2, <3>1, <3>2 DEF testVars, TestInv, StatusTells, StatusSoFar, Judged
    <2>3. QED
      BY <2>1, <2>2, TestStep DEF Next
  <1>3. TestInv => StatusTells
    BY DEF TestInv
  <1>4. QED
    BY <1>1, <1>2, <1>3, PTL DEF Spec
-----------------------------------------------------------------------------
(* The monitor. *)

\* The bits of a number are a byte.
LEMMA BitsAreByte == ASSUME NEW k PROVE Bits(k) \in Byte
  BY DEF Bits, Byte

\* Three bits tell the banks of the tables apart.
LEMMA ThreeBits ==
  ASSUME NEW a \in Nat, a <= 7, NEW b \in Nat, b <= 7,
         Bits(a) \cap (0..2) = Bits(b) \cap (0..2)
  PROVE  a = b
  <1>1. 2^0 = 1 /\ 2^1 = 2 /\ 2^2 = 4
    OBVIOUS
  <1>2. \A k : /\ 0 \in Bits(k) <=> (k \div 1) % 2 = 1
               /\ 1 \in Bits(k) <=> (k \div 2) % 2 = 1
               /\ 2 \in Bits(k) <=> (k \div 4) % 2 = 1
    BY <1>1 DEF Bits
  <1>3. /\ 0 \in Bits(a) <=> 0 \in Bits(b)
        /\ 1 \in Bits(a) <=> 1 \in Bits(b)
        /\ 2 \in Bits(a) <=> 2 \in Bits(b)
    <2>1. 0 \in 0..2 /\ 1 \in 0..2 /\ 2 \in 0..2
      OBVIOUS
    <2>2. QED
      BY <2>1
  <1>4. /\ (a \div 1) % 2 = 1 <=> (b \div 1) % 2 = 1
        /\ (a \div 2) % 2 = 1 <=> (b \div 2) % 2 = 1
        /\ (a \div 4) % 2 = 1 <=> (b \div 4) % 2 = 1
    BY <1>2, <1>3
  <1>5. a \in {0, 1, 2, 3, 4, 5, 6, 7} /\ b \in {0, 1, 2, 3, 4, 5, 6, 7}
    OBVIOUS
  <1>6. \A n \in {0, 1, 2, 3, 4, 5, 6, 7} :
          n = 4 * ((n \div 4) % 2) + 2 * ((n \div 2) % 2) + ((n \div 1) % 2)
    OBVIOUS
  <1>7. \A n \in {0, 1, 2, 3, 4, 5, 6, 7} :
          (n \div 1) % 2 \in {0, 1} /\ (n \div 2) % 2 \in {0, 1} /\ (n \div 4) % 2 \in {0, 1}
    OBVIOUS
  <1>8. /\ (a \div 1) % 2 = (b \div 1) % 2
        /\ (a \div 2) % 2 = (b \div 2) % 2
        /\ (a \div 4) % 2 = (b \div 4) % 2
    BY <1>4, <1>5, <1>7
  <1> DEFINE Value(n) == 4 * ((n \div 4) % 2) + 2 * ((n \div 2) % 2) + ((n \div 1) % 2)
  <1>9. Value(a) = Value(b)
    BY <1>8
  <1>10. a = Value(a) /\ b = Value(b)
    BY <1>5, <1>6
  <1> HIDE DEF Value
  <1>11. QED
    BY <1>9, <1>10

\* The bits of the bank select the sensors of one bank.
LEMMA OwnBank ==
  ASSUME file \in File, NEW i \in Sensor, NEW j \in Sensor,
         Bits(BankOf(Chip, Lines[i].pin)) \cap BankBits
           = Bits(BankOf(Chip, Lines[j].pin)) \cap BankBits
  PROVE  BankOf(Chip, Lines[i].pin) = BankOf(Chip, Lines[j].pin)
  <1> DEFINE a == BankOf(Chip, Lines[i].pin)
             b == BankOf(Chip, Lines[j].pin)
  <1>1. /\ a \in Nat /\ a <= 7 /\ b \in Nat /\ b <= 7
        /\ Chip \in Fintek => a = 0 /\ b = 0
    <2>1. /\ Chip \in Fintek \cup Winbond \cup {"NCT6776F", "NCT6779D"}
          /\ Listed(Chip, Lines[i].pin) /\ Listed(Chip, Lines[j].pin)
      BY FileFacts
    <2>2. QED
      BY <2>1, RowFits
  <1>2. CASE Chip \in Fintek
    BY <1>1, <1>2
  <1>3. CASE Chip \notin Fintek
    <2>1. 0..2 \subseteq BankBits
      BY <1>3 DEF BankBits
    <2>2. Bits(a) \cap BankBits = Bits(b) \cap BankBits
      OBVIOUS
    <2> HIDE DEF a, b
    <2>3. Bits(a) \cap (0..2) = Bits(b) \cap (0..2)
      BY <2>1, <2>2
    <2>4. a = b
      BY <1>1, <2>3, ThreeBits
    <2>5. QED
      BY <2>4 DEF a, b
  <1>4. QED
    BY <1>2, <1>3

\* With the bank and the index right, the sensor in turn answers, and no other.
LEMMA OnlyOne ==
  ASSUME file \in File, cur \in Sensor, NEW k \in 1..Width(Lines[cur]),
         index = IndexOf(Chip, Lines[cur].pin) + k - 1,
         bank \cap BankBits = Bits(BankOf(Chip, Lines[cur].pin)) \cap BankBits,
         NEW m \in {1, 2}
  PROVE  At(m) = IF m = k THEN {cur} ELSE {}
  <1>1. k \in {1, 2} /\ Width(Lines[cur]) \in {1, 2}
    BY DEF Width
  <1>2. IndexOf(Chip, Lines[cur].pin) \in Nat
    BY FileFacts, RowFits
  <1>3. ASSUME NEW j \in At(m)
        PROVE  j = cur /\ m = k
    <2>1. /\ j \in Sensor /\ m <= Width(Lines[j])
          /\ index = IndexOf(Chip, Lines[j].pin) + m - 1
          /\ bank \cap BankBits = Bits(BankOf(Chip, Lines[j].pin)) \cap BankBits
      BY <1>3 DEF At
    <2>2. IndexOf(Chip, Lines[j].pin) \in Nat
      BY <2>1, FileFacts, RowFits
    <2>3. BankOf(Chip, Lines[j].pin) = BankOf(Chip, Lines[cur].pin)
      BY <2>1, OwnBank
    <2>4. m \in 1..Width(Lines[j])
      BY <2>1 DEF Width
    <2>5. <<BankOf(Chip, Lines[cur].pin), index>> \in ReadFrom(Chip, Lines[j])
      BY <2>1, <2>3, <2>4 DEF ReadFrom
    <2>6. <<BankOf(Chip, Lines[cur].pin), index>> \in ReadFrom(Chip, Lines[cur])
      BY DEF ReadFrom
    <2>7. j = cur
      BY <2>1, <2>5, <2>6, FileFacts
    <2>8. m = k
      BY <1>1, <1>2, <2>1, <2>7
    <2>9. QED
      BY <2>7, <2>8
  <1>4. m = k => cur \in At(m)
    BY DEF At
  <1>5. QED
    BY <1>3, <1>4

\* What the tool reads in a turn.
LEMMA ShownNow ==
  ASSUME file \in File, cur \in Sensor, on, NEW k \in 1..Width(Lines[cur]),
         index = IndexOf(Chip, Lines[cur].pin) + k - 1,
         bank \cap BankBits = Bits(BankOf(Chip, Lines[cur].pin)) \cap BankBits
  PROVE  /\ k = 1 => /\ Shown = {level[cur][1]}
                     /\ Width(Lines[cur]) = 2 => Held = <<cur, level[cur][2]>>
         /\ k = 2 /\ (\E x : held = <<cur, x>>) => Shown = {held[2]}
  <1>1. k \in {1, 2} /\ Width(Lines[cur]) \in {1, 2}
    BY DEF Width
  <1>2. CASE k = 1
    <2>1. At(1) = {cur} /\ At(2) = {}
      BY <1>2, OnlyOne
    <2>2. Shown = {level[cur][1]}
      BY <2>1 DEF Shown
    <2>3. Width(Lines[cur]) = 2 => Held = <<cur, level[cur][2]>>
      BY <2>1 DEF Held
    <2>4. QED
      BY <1>2, <2>2, <2>3
  <1>3. CASE k = 2
    <2>1. At(1) = {} /\ At(2) = {cur}
      BY <1>3, OnlyOne
    <2>2. ASSUME NEW x, held = <<cur, x>>
          PROVE  Shown = {held[2]}
      <3>1. held # <<>> /\ held[1] = cur
        BY <2>2
      <3>2. QED
        BY <2>1, <3>1 DEF Shown
    <2>3. QED
      BY <1>3, <2>2
  <1>4. QED
    BY <1>1, <1>2, <1>3

\* The invariant holds before the first run, whatever bank the firmware left.
LEMMA HwStart ==
  ASSUME HwInit
  PROVE  IInv
  <1>1. TestInv
    BY TestStart DEF HwInit
  <1>2. /\ pc = "locate" /\ got = <<>> /\ taken = <<>> /\ data = {} /\ index = 0
        /\ on \in BOOLEAN /\ bank \in Byte
    BY Bank0Assumption DEF HwInit, Init
  <1>3. TypeOK
    BY <1>2 DEF TypeOK, Byte
  <1>4. QED
    BY <1>1, <1>2, <1>3 DEF IInv, BankRight, HalfRead, InTurn

\* The sensor whose turn it is has its place in the monitor.
LEMMA Place ==
  ASSUME TestInv
  PROVE  /\ file \in File /\ cur \in Sensor
         /\ IndexOf(Chip, Lines[cur].pin) \in Nat /\ IndexOf(Chip, Lines[cur].pin) <= 198
         /\ Width(Lines[cur]) \in {1, 2}
         /\ level[cur] \in Raw[cur]
         /\ \A v \in Raw[cur] : v = IF Width(Lines[cur]) = 2 THEN <<v[1], v[2]>> ELSE <<v[1]>>
  <1>1. file \in File /\ cur \in Sensor /\ level[cur] \in Raw[cur]
    BY DEF TestInv, TestTypeOK
  <1>2. Width(Lines[cur]) \in {1, 2}
    BY DEF Width
  <1>3. ASSUME NEW v \in Raw[cur]
        PROVE  v = IF Width(Lines[cur]) = 2 THEN <<v[1], v[2]>> ELSE <<v[1]>>
    <2>1. v \in [1..Width(Lines[cur]) -> 0..255]
      BY <1>1, FileFacts
    <2>2. CASE Width(Lines[cur]) = 2
      BY <2>1, <2>2
    <2>3. CASE Width(Lines[cur]) = 1
      BY <2>1, <2>3
    <2>4. QED
      BY <1>2, <2>2, <2>3
  <1>4. QED
    BY <1>1, <1>2, <1>3, FileFacts, RowFits

\* The two bytes of a speed.
LEMMA AppendToOne ==
  ASSUME NEW x, NEW y
  PROVE  Append(<<x>>, y) = <<x, y>>
  <1>1. <<x>> \in Seq({x, y}) /\ <<x, y>> \in Seq({x, y}) /\ Len(<<x>>) = 1
    OBVIOUS
  <1>2. /\ Append(<<x>>, y) \in Seq({x, y})
        /\ Len(Append(<<x>>, y)) = 2
        /\ Append(<<x>>, y)[1] = x /\ Append(<<x>>, y)[2] = y
    BY <1>1, AppendProperties
  <1> DEFINE s == Append(<<x>>, y)
             t == <<x, y>>
  <1>3. Len(s) = Len(t) /\ \A i \in 1..Len(s) : s[i] = t[i]
    BY <1>2
  <1>4. s \in Seq({x, y}) /\ t \in Seq({x, y})
    BY <1>1, <1>2
  <1> HIDE DEF s, t
  <1>5. s = t
    BY <1>3, <1>4, SeqEqual
  <1>6. QED
    BY <1>5 DEF s, t

\* GetByte reads the first byte of the sensor in turn, or the second of the
\* speed whose first it has.
LEMMA Gotten ==
  ASSUME IInv, GetByte
  PROVE  \/ /\ got = <<>> /\ Width(Lines[cur]) = 1
            /\ taken' = <<level[cur]>> /\ got' = <<>> /\ pc' = First
         \/ /\ got = <<>> /\ Width(Lines[cur]) = 2
            /\ got' = <<level[cur][1]>> /\ held' = <<cur, level[cur][2]>>
            /\ taken' = taken /\ pc' = "index"
         \/ /\ got # <<>> /\ Width(Lines[cur]) = 2
            /\ taken' = <<<<got[1], held[2]>>>> /\ got' = <<>> /\ pc' = First
  <1>1. /\ taken = <<>> /\ pc = "byte" /\ on /\ Turn
        /\ index = IndexOf(Chip, Lines[cur].pin) + Len(got)
        /\ bank \cap BankBits = Bits(BankOf(Chip, Lines[cur].pin)) \cap BankBits
    BY DEF IInv, InTurn, GetByte, Turn, BankRight
  <1>2. /\ file \in File /\ cur \in Sensor /\ Width(Lines[cur]) \in {1, 2}
        /\ IndexOf(Chip, Lines[cur].pin) \in Nat
        /\ Width(Lines[cur]) = 1 => level[cur] = <<level[cur][1]>>
    BY Place DEF IInv
  <1>3. PICK b \in Shown :
          IF Len(got) + 1 < Width(Lines[cur])
          THEN got' = Append(got, b) /\ pc' = "index" /\ UNCHANGED taken
          ELSE taken' = <<Append(got, b)>> /\ got' = <<>> /\ pc' = First
    BY DEF GetByte
  <1>4. held' = Held
    BY DEF GetByte
  <1>5. CASE got = <<>>
    <2>1. Len(got) = 0 /\ 1 \in 1..Width(Lines[cur])
      BY <1>2, <1>5
    <2>2. index = IndexOf(Chip, Lines[cur].pin) + 1 - 1
      BY <1>1, <1>2, <2>1
    <2>3. /\ Shown = {level[cur][1]}
          /\ Width(Lines[cur]) = 2 => Held = <<cur, level[cur][2]>>
      BY <1>1, <1>2, <2>1, <2>2, ShownNow
    <2>4. b = level[cur][1] /\ Append(got, b) = <<b>>
      BY <1>5, <2>3
    <2>5. CASE Width(Lines[cur]) = 1
      BY <1>2, <1>3, <1>5, <2>1, <2>4, <2>5
    <2>6. CASE Width(Lines[cur]) = 2
      BY <1>3, <1>4, <1>5, <2>1, <2>3, <2>4, <2>6
    <2>7. QED
      BY <1>2, <2>5, <2>6
  <1>6. CASE got # <<>>
    <2>1. PICK v \in Raw[cur] : Width(Lines[cur]) = 2 /\ got = <<v[1]>> /\ held = <<cur, v[2]>>
      BY <1>6 DEF IInv, HalfRead
    <2>2. Len(got) = 1 /\ got = <<got[1]>> /\ 2 \in 1..Width(Lines[cur])
      BY <2>1
    <2>3. index = IndexOf(Chip, Lines[cur].pin) + 2 - 1
      BY <1>1, <1>2, <2>2
    <2>4. Shown = {held[2]}
      BY <1>1, <1>2, <2>1, <2>2, <2>3, ShownNow
    <2>5. b = held[2] /\ Append(got, b) = <<got[1], b>>
      <3>2. Append(<<v[1]>>, b) = <<v[1], b>>
        BY AppendToOne
      <3>3. got[1] = v[1]
        BY <2>1
      <3>4. b = held[2]
        BY <2>4
      <3>5. QED
        BY <2>1, <3>2, <3>3, <3>4, Zenon
    <2>6. taken' = <<Append(got, b)>> /\ got' = <<>> /\ pc' = First
      BY <1>3, <2>1, <2>2
    <2>7. QED
      BY <1>6, <2>1, <2>5, <2>6
  <1>7. QED
    BY <1>5, <1>6

\* Every step of the test keeps what it relies on.
LEMMA HwStep ==
  ASSUME IInv, [HwNext]_vars
  PROVE  IInv'
  <1>1. /\ file \in File /\ cur \in Sensor
        /\ IndexOf(Chip, Lines[cur].pin) \in Nat /\ IndexOf(Chip, Lines[cur].pin) <= 198
        /\ Width(Lines[cur]) \in {1, 2} /\ level[cur] \in Raw[cur]
        /\ \A v \in Raw[cur] : v = IF Width(Lines[cur]) = 2 THEN <<v[1], v[2]>> ELSE <<v[1]>>
    BY Place DEF IInv
  <1>2. ASSUME UNCHANGED testVars
        PROVE  /\ TestInv' /\ (Turn' <=> Turn)
               /\ Chip' = Chip /\ Lines' = Lines /\ Raw' = Raw /\ BankBits' = BankBits
               /\ First' = First
    <2>1. Sensor' = Sensor /\ Raw' = Raw /\ Lines' = Lines /\ Chip' = Chip
      BY <1>2 DEF testVars, Sensor, Lines, Raw, Chip
    <2>2. TestInv'
      BY <1>2, TakenKeeps DEF testVars, IInv, TestInv, TestTypeOK
    <2>3. QED
      BY <1>2, <2>1, <2>2 DEF testVars, Turn, Running, BankBits, First
  <1>3. CASE Locate
    <2>1. /\ UNCHANGED <<testVars, bank, index, held, data, got>>
          /\ pc = "locate" /\ on' = TRUE /\ pc' = First
      BY <1>3 DEF Locate
    <2>2. got = <<>>
      BY <2>1 DEF IInv, InTurn
    <2>3. First = IF Chip \in Fintek THEN "index" ELSE "bank"
      BY DEF First
    <2>4. TypeOK'
      BY <2>1, <2>3 DEF IInv, TypeOK
    <2>5. BankRight'
      BY <1>2, <2>1, <2>3 DEF BankRight, BankBits
    <2>6. HalfRead' /\ InTurn'
      BY <1>2, <2>1, <2>2, <2>3 DEF HalfRead, InTurn, testVars
    <2>7. QED
      BY <1>2, <2>1, <2>4, <2>5, <2>6 DEF IInv, testVars
  <1>4. CASE SelectBank
    <2>1. /\ UNCHANGED <<testVars, on, bank, held, data, got>> /\ Turn /\ pc = "bank"
          /\ index' = 78 /\ pc' = "get"
      BY <1>4 DEF SelectBank
    <2>2. TypeOK' /\ BankRight'
      BY <2>1 DEF IInv, TypeOK, BankRight
    <2>3. HalfRead' /\ InTurn'
      BY <1>2, <2>1 DEF IInv, HalfRead, InTurn, testVars, Turn
    <2>4. QED
      BY <1>2, <2>1, <2>2, <2>3 DEF IInv
  <1>5. CASE GetBank
    <2>1. /\ UNCHANGED <<testVars, chipVars, got>> /\ Turn /\ pc = "get"
          /\ data' = bank /\ pc' = "put"
      BY <1>5 DEF GetBank
    <2>2. TypeOK' /\ BankRight'
      BY <2>1 DEF IInv, TypeOK, BankRight, chipVars
    <2>3. HalfRead' /\ InTurn'
      BY <1>2, <2>1 DEF IInv, HalfRead, InTurn, testVars, Turn, chipVars
    <2>4. QED
      BY <1>2, <2>1, <2>2, <2>3 DEF IInv
  <1>6. CASE PutBank
    <2> DEFINE want == Bits(BankOf(Chip, Lines[cur].pin))
    <2>1. /\ UNCHANGED <<testVars, on, index, held, data, got>> /\ Turn /\ pc = "put"
          /\ bank' = (data \ Cleared) \cup want /\ pc' = "index"
      BY <1>6 DEF PutBank
    <2>2. want \in Byte /\ data \in Byte
      BY BitsAreByte DEF IInv, TypeOK
    <2>3. BankBits \subseteq Cleared
      BY <1>1, FileFacts DEF BankBits, Cleared, Winbond
    <2>4. bank' \cap BankBits = want \cap BankBits
      BY <2>1, <2>3
    <2>5. TypeOK'
      BY <2>1, <2>2 DEF IInv, TypeOK, Byte
    <2>6. BankRight'
      BY <1>2, <2>1, <2>4 DEF BankRight, testVars
    <2>7. HalfRead' /\ InTurn'
      BY <1>2, <2>1 DEF IInv, HalfRead, InTurn, testVars, Turn
    <2>8. QED
      BY <1>2, <2>1, <2>5, <2>6, <2>7 DEF IInv
  <1>7. CASE PutIndex
    <2>1. /\ UNCHANGED <<testVars, on, bank, held, data, got>> /\ Turn /\ pc = "index"
          /\ index' = IndexOf(Chip, Lines[cur].pin) + Len(got) /\ pc' = "byte"
      BY <1>7 DEF PutIndex
    <2>2. Len(got) \in {0, 1}
      BY DEF IInv, HalfRead
    <2>3. TypeOK'
      <3>1. index' \in 0..255
        <4> DEFINE i == IndexOf(Chip, Lines[cur].pin)
                   n == Len(got)
        <4>1. i \in Nat /\ i <= 198 /\ n \in {0, 1} /\ index' = i + n
          BY <1>1, <2>1, <2>2
        <4> HIDE DEF i, n
        <4>2. QED
          BY <4>1
      <3>2. QED
        BY <2>1, <3>1 DEF IInv, TypeOK
    <2>4. BankRight'
      BY <1>2, <2>1 DEF IInv, BankRight, testVars
    <2>5. HalfRead' /\ InTurn'
      BY <1>2, <2>1 DEF IInv, HalfRead, InTurn, testVars, Turn
    <2>6. QED
      BY <1>2, <2>1, <2>3, <2>4, <2>5 DEF IInv
  <1>8. CASE GetByte
    <2>1. /\ UNCHANGED <<file, level, time, round, cur, least, most, result, exit, bad,
                        on, bank, index, data>>
          /\ Turn /\ taken = <<>> /\ pc = "byte" /\ on
      BY <1>8 DEF GetByte, Turn, IInv, InTurn
    <2>2. \/ /\ got = <<>> /\ Width(Lines[cur]) = 1
             /\ taken' = <<level[cur]>> /\ got' = <<>> /\ pc' = First
          \/ /\ got = <<>> /\ Width(Lines[cur]) = 2
             /\ got' = <<level[cur][1]>> /\ held' = <<cur, level[cur][2]>>
             /\ taken' = taken /\ pc' = "index"
          \/ /\ got # <<>> /\ Width(Lines[cur]) = 2
             /\ taken' = <<<<got[1], held[2]>>>> /\ got' = <<>> /\ pc' = First
      BY <1>8, Gotten
    <2>3. taken' # <<>> => \E v \in Raw[cur] : taken' = <<v>>
      <3>1. CASE got = <<>>
        BY <1>1, <2>1, <2>2, <3>1
      <3>2. CASE got # <<>>
        <4>1. PICK v \in Raw[cur] : /\ Width(Lines[cur]) = 2
                                    /\ got = <<v[1]>> /\ held = <<cur, v[2]>>
          BY <3>2 DEF IInv, HalfRead
        <4>2. <<got[1], held[2]>> = v
          BY <1>1, <4>1
        <4>3. QED
          BY <2>2, <3>2, <4>2
      <3>3. QED
        BY <3>1, <3>2
    <2>4. TestInv'
      BY <2>1, <2>3, TakenKeeps DEF IInv
    <2>5. /\ Chip' = Chip /\ Lines' = Lines /\ Raw' = Raw /\ BankBits' = BankBits
          /\ First' = First
      BY <2>1 DEF Chip, Lines, Raw, BankBits, First
    <2>6. First \in {"index", "bank"} /\ (First = "index" => Chip \in Fintek)
      BY DEF First
    <2>7. TypeOK'
      BY <2>1, <2>2, <2>6 DEF IInv, TypeOK
    <2>8. BankRight'
      BY <2>1, <2>5 DEF IInv, BankRight
    <2>9. HalfRead'
      BY <1>1, <2>1, <2>2, <2>5 DEF HalfRead
    <2>10. InTurn'
      BY <2>1, <2>2, <2>5, <2>6 DEF InTurn
    <2>11. QED
      BY <2>4, <2>7, <2>8, <2>9, <2>10 DEF IInv
  <1>9. CASE Step
    <2>1. /\ UNCHANGED <<on, bank, index, held, pc, data, got>>
          /\ Drift \/ Judge \/ Fault \/ (pc # "locate" /\ Return)
      BY <1>9 DEF Step, chipVars
    <2>2. TestInv' /\ TypeOK'
      BY <2>1, TestStep DEF IInv, TypeOK
    <2>3. file' = file
      BY <2>1 DEF Drift, Judge, Fault, Return
    <2>4. /\ Chip' = Chip /\ Lines' = Lines /\ Raw' = Raw /\ BankBits' = BankBits
          /\ First' = First
      BY <2>3 DEF Chip, Lines, Raw, BankBits, First
    <2>5. CASE Judge
      <3>1. taken # <<>> /\ taken' = <<>>
        BY <2>5 DEF Judge
      <3>2. pc = First /\ got = <<>>
        BY <3>1 DEF IInv, InTurn
      <3>3. First # "byte" /\ (First = "index" => BankBits = {})
        BY DEF First, BankBits
      <3>4. QED
        BY <2>1, <2>2, <2>4, <3>1, <3>2, <3>3 DEF IInv, BankRight, HalfRead, InTurn
    <2>6. CASE Drift \/ Fault \/ Return
      <3>1. UNCHANGED <<time, round, cur, taken>> /\ (exit' = exit \/ exit' # "none")
        BY <2>6 DEF Drift, Fault, Return
      <3>2. Turn' => Turn
        BY <3>1 DEF Turn, Running
      <3>3. QED
        BY <2>1, <2>2, <2>4, <3>1, <3>2 DEF IInv, BankRight, HalfRead, InTurn
    <2>7. QED
      BY <2>1, <2>5, <2>6
  <1>10. CASE AgainAtAnyTime
    <2>1. /\ Again /\ pc' = "locate" /\ got' = <<>> /\ taken' = <<>>
          /\ UNCHANGED <<on, bank, index, held, data>>
      BY <1>10 DEF AgainAtAnyTime, Again, chipVars
    <2>2. TestInv' /\ TypeOK'
      BY <2>1, TestStep DEF IInv, TypeOK
    <2>3. QED
      BY <2>1, <2>2 DEF IInv, BankRight, HalfRead, InTurn
  <1>11. CASE UNCHANGED vars
    <2>1. UNCHANGED testVars /\ UNCHANGED <<on, bank, index, held, pc, data, got>>
      BY <1>11 DEF vars, chipVars
    <2>2. TypeOK' /\ BankRight'
      BY <1>2, <2>1 DEF IInv, TypeOK, BankRight, testVars
    <2>3. HalfRead' /\ InTurn'
      BY <1>2, <2>1 DEF IInv, HalfRead, InTurn, testVars
    <2>4. QED
      BY <1>2, <2>1, <2>2, <2>3 DEF IInv
  <1>12. QED
    BY <1>3, <1>4, <1>5, <1>6, <1>7, <1>8, <1>9, <1>10, <1>11 DEF HwNext

\* Between the bank's selection and the last byte the bank selected is that of
\* the sensor in turn, and a speed half read is of one moment.
THEOREM HwmonCorrect == HwSpec => []IInv
  <1>1. QED
    BY HwStart, HwStep, PTL DEF HwSpec

\* The status of the test tells whether a reading was out of its limits.
THEOREM HwmonStatus == HwSpec => []StatusTells
  <1>1. IInv => StatusTells
    BY DEF IInv, TestInv
  <1>2. QED
    BY <1>1, HwmonCorrect, PTL

-----------------------------------------------------------------------------
(* Hwmon implements SensorTest. *)

\* A reading that is half read is the one SensorTest has taken.
LEMMA Moments ==
  /\ taken # <<>> => Moment = taken
  /\ taken = <<>> /\ got = <<>> => Moment = <<>>
  /\ taken = <<>> /\ got # <<>> /\ held # <<>> => Moment = <<<<got[1], held[2]>>>>
  BY DEF Moment

\* The mapped variable changes only with what it is made of.
LEMMA SameMoment ==
  ASSUME UNCHANGED <<taken, got, held>>
  PROVE  Moment' = Moment
  BY DEF Moment

\* SensorTest's definitions that do not look at what was taken.
LEMMA SameTest ==
  /\ Test!Chip = Chip /\ Test!Lines = Lines /\ Test!Raw = Raw /\ Test!Sensor = Sensor
  /\ Test!Running <=> Running
  BY DEF Test!Chip, Test!Lines, Test!Raw, Test!Sensor, Test!Running,
         Chip, Lines, Raw, Sensor, Running

\* Its operators are those of this module.
LEMMA SameReading ==
  ASSUME NEW chip, NEW l, NEW bytes
  PROVE  /\ Test!Divides(chip, l) <=> Divides(chip, l)
         /\ Test!Reading(chip, l, bytes) = Reading(chip, l, bytes)
  <1>1. Test!TypeOf(l) = TypeOf(l)
    BY DEF Test!TypeOf, TypeOf
  <1>2. Test!Divides(chip, l) <=> Divides(chip, l)
    BY <1>1 DEF Test!Divides, Divides, Test!Fintek, Fintek
  <1>3. Test!Word(bytes) = Word(bytes)
    BY DEF Test!Word, Word
  <1>4. Test!Speed(chip, l, Word(bytes)) = Speed(chip, l, Word(bytes))
    BY <1>2 DEF Test!Speed, Speed
  <1>5. Test!Reading(chip, l, bytes) = Reading(chip, l, bytes)
    BY <1>1, <1>3, <1>4 DEF Test!Reading, Reading
  <1>6. QED
    BY <1>2, <1>5

\* The initial states of the tool are initial states of the test.
LEMMA MapStart ==
  ASSUME HwInit
  PROVE  Test!Init
  <1>1. Moment = <<>>
    BY Moments DEF HwInit, Init
  <1>2. QED
    BY <1>1 DEF HwInit, Init, Test!Init, Sensor, Lines, Raw, Test!Sensor, Test!Lines, Test!Raw

\* Every step of the tool and of the board is one of SensorTest, or none.
LEMMA MapStep ==
  ASSUME IInv, [HwNext]_vars
  PROVE  [Test!Next]_(Test!testVars)
  <1> DEFINE rest == <<file, level, time, round, cur, least, most, result, exit, bad>>
  <1>1. UNCHANGED rest /\ Moment' = Moment => UNCHANGED Test!testVars
    BY DEF Test!testVars
  <1>2. CASE Locate \/ SelectBank \/ GetBank \/ PutBank \/ PutIndex \/ UNCHANGED vars
    <2>1. UNCHANGED testVars /\ UNCHANGED <<held, got>>
      BY <1>2 DEF Locate, SelectBank, GetBank, PutBank, PutIndex, vars, chipVars
    <2>2. Moment' = Moment
      BY <2>1, SameMoment DEF testVars
    <2>3. QED
      BY <1>1, <2>1, <2>2 DEF testVars
  <1>3. CASE GetByte
    <2>1. UNCHANGED rest /\ Running /\ taken = <<>>
      BY <1>3 DEF GetByte, Turn
    <2>2. CASE /\ got = <<>> /\ Width(Lines[cur]) = 1
               /\ taken' = <<level[cur]>> /\ got' = <<>> /\ pc' = First
      <3>1. Moment = <<>> /\ Moment' = <<level[cur]>>
        BY <2>1, <2>2 DEF Moment
      <3>2. Test!Take
        BY <2>1, <3>1, SameTest DEF Test!Take
      <3>3. QED
        BY <3>2 DEF Test!Next
    <2>3. CASE /\ got = <<>> /\ Width(Lines[cur]) = 2
               /\ got' = <<level[cur][1]>> /\ held' = <<cur, level[cur][2]>>
               /\ taken' = taken /\ pc' = "index"
      <3>1. Moment = <<>>
        BY <2>1, <2>3, Moments
      <3>2. taken' = <<>> /\ got' # <<>> /\ held' # <<>>
        BY <2>1, <2>3
      <3>3. Moment' = <<<<got'[1], held'[2]>>>>
        BY <3>2 DEF Moment
      <3>4. <<got'[1], held'[2]>> = level[cur]
        BY <2>3, Place DEF IInv
      <3>5. Test!Take
        BY <2>1, <3>1, <3>3, <3>4, SameTest DEF Test!Take
      <3>6. QED
        BY <3>5 DEF Test!Next
    <2>4. CASE /\ got # <<>> /\ Width(Lines[cur]) = 2
               /\ taken' = <<<<got[1], held[2]>>>> /\ got' = <<>> /\ pc' = First
      <3>1. held # <<>>
        BY <2>4 DEF IInv, HalfRead
      <3>2. Moment = <<<<got[1], held[2]>>>>
        BY <2>1, <2>4, <3>1, Moments
      <3>3. Moment' = taken'
        BY <2>4 DEF Moment
      <3>4. QED
        BY <1>1, <2>1, <2>4, <3>2, <3>3
    <2>5. QED
      BY <1>3, <2>2, <2>3, <2>4, Gotten
  <1>4. CASE Step
    <2>1. UNCHANGED <<held, got>>
      BY <1>4 DEF Step, chipVars
    <2>2. CASE Drift
      <3>1. Moment' = Moment
        BY <2>1, <2>2, SameMoment DEF Drift
      <3>2. Test!Drift
        BY <2>2, <3>1, SameTest DEF Drift, Test!Drift
      <3>3. QED
        BY <3>2 DEF Test!Next
    <2>3. CASE Judge
      <3>1. Moment = taken /\ taken # <<>> /\ got = <<>> /\ taken' = <<>>
        BY <2>3, Moments DEF Judge, IInv, InTurn
      <3>2. Moment' = <<>>
        BY <2>1, <3>1 DEF Moment
      <3>3. Test!Undefined <=> Undefined
        BY <3>1, SameTest, SameReading DEF Test!Undefined, Undefined
      <3>4. Next1 <=> Test!Next1
        BY SameTest DEF Next1, Test!Next1
      <3> DEFINE line == Lines[cur]
                 v == Reading(Chip, line, taken[1])
                 out == v < line.low \/ v > line.high
      <3>5. /\ least' = [least EXCEPT ![cur] =
                            IF round = 1 THEN v ELSE Test!SmallerOf(@, v)]
            /\ most' = [most EXCEPT ![cur] =
                           IF round = 1 THEN v ELSE Test!LargerOf(@, v)]
        BY <2>3 DEF Judge, Test!SmallerOf, Test!LargerOf, SmallerOf, LargerOf
      <3>6. /\ bad' = (bad \/ out)
            /\ result' = IF least'[cur] >= line.low /\ most'[cur] <= line.high
                         THEN result ELSE 1
            /\ Running /\ ~Undefined /\ Next1 /\ UNCHANGED <<file, level, time, exit>>
        BY <2>3 DEF Judge
      <3>7. Test!Reading(Test!Chip, Test!Lines[cur], Moment[1]) = v /\ Test!Lines[cur] = line
        BY <3>1, SameTest, SameReading
      <3> HIDE DEF v, line
      <3>8. Test!Judge
        BY <3>1, <3>2, <3>3, <3>4, <3>5, <3>6, <3>7, SameTest DEF Test!Judge
      <3>9. QED
        BY <3>8 DEF Test!Next
    <2>4. CASE Fault
      <3>1. Moment = taken /\ taken # <<>> /\ UNCHANGED taken
        BY <2>4, Moments DEF Fault
      <3>2. Moment' = Moment
        BY <2>1, <3>1, SameMoment
      <3>3. Test!Undefined <=> Undefined
        BY <3>1, SameTest, SameReading DEF Test!Undefined, Undefined
      <3>4. Test!Fault
        BY <2>4, <3>1, <3>2, <3>3, SameTest DEF Fault, Test!Fault
      <3>5. QED
        BY <3>4 DEF Test!Next
    <2>5. CASE Return
      <3>1. Moment' = Moment
        BY <2>1, <2>5, SameMoment DEF Return
      <3>2. Test!Return
        BY <2>5, <3>1 DEF Return, Test!Return
      <3>3. QED
        BY <3>2 DEF Test!Next
    <2>6. QED
      BY <1>4, <2>2, <2>3, <2>4, <2>5 DEF Step
  <1>5. CASE AgainAtAnyTime
    <2>1. Moment' = <<>>
      BY <1>5 DEF AgainAtAnyTime, Again, Moment
    <2>2. Test!Again
      BY <1>5, <2>1 DEF AgainAtAnyTime, Again, Test!Again
    <2>3. QED
      BY <2>2 DEF Test!Next
  <1>6. QED
    BY <1>2, <1>3, <1>4, <1>5 DEF HwNext

\* Every reading that hwmon judges is that of its own sensor at one moment of
\* its turn, whatever the bank, the index and the chip's latch held before.
THEOREM HwmonImplementsTest == HwSpec => TestImplemented
  <1>1. HwInit => Test!Init
    BY MapStart
  <1>2. IInv /\ [HwNext]_vars => [Test!Next]_(Test!testVars)
    BY MapStep
  <1>3. QED
    BY <1>1, <1>2, HwmonCorrect, PTL DEF HwSpec, TestImplemented, Test!Spec
=============================================================================
