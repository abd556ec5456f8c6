----------------------------- MODULE SensorTest -----------------------------
(***************************************************************************)
(* What the sensor test (tools/hwmon.c) promises: it takes every sensor's  *)
(* reading once a round, each as the sensor is at one moment of its turn,  *)
(* keeps the least and the greatest, and its status tells whether any of   *)
(* them was out of the limits of the configuration file.  The sensors      *)
(* change all the time.                                                    *)
(***************************************************************************)
EXTENDS SensorTables

CONSTANTS
  File,     \* configuration files with their boards: the chip, the lines of the
            \* sensors in order, and what each sensor's registers may hold
  Times     \* values of <TIMES>

\* No file of conf/hwmon reads a register twice.  An NCT6776D, which pin_list
\* knows and bank_select does not, has no file there.
ASSUME SensorAssumption ==
  /\ \A f \in File :
       /\ f.chip \in Fintek \cup Winbond \cup {"NCT6776F", "NCT6779D"}
       /\ f.lines \in Seq([pin : Nat, par1 : Nat, par2 : Nat, low : Int, high : Int, mult : Nat])
       /\ f.lines # <<>>
       /\ \A j \in DOMAIN f.lines :
            /\ Listed(f.chip, f.lines[j].pin)
            /\ f.raw[j] # {}
            /\ f.raw[j] \subseteq [1..Width(f.lines[j]) -> 0..255]
            /\ \A k \in DOMAIN f.lines \ {j} :
                 ReadFrom(f.chip, f.lines[j]) \cap ReadFrom(f.chip, f.lines[k]) = {}
  /\ Times \subseteq Nat

VARIABLES
  file,     \* the file
  level,    \* what each sensor's registers hold
  time,     \* <TIMES> of this run
  round,    \* rounds begun
  cur,      \* the sensor whose turn it is
  taken,    \* the bytes taken from it, at most one entry
  least,    \* least reading of each sensor
  most,     \* greatest reading of each sensor
  result,   \* the status so far
  exit,     \* "none" while the test runs, or how it ended
  bad       \* a reading of this run was out of its limits

testVars == <<file, level, time, round, cur, taken, least, most, result, exit, bad>>

Chip   == file.chip
Lines  == file.lines
Raw    == file.raw
Sensor == DOMAIN Lines

Init ==
  /\ file \in File
  /\ level \in [Sensor -> UNION {Raw[j] : j \in Sensor}]
  /\ \A j \in Sensor : level[j] \in Raw[j]
  /\ time \in Times
  /\ round = 1
  /\ cur = 1
  /\ taken = <<>>
  /\ least = [j \in Sensor |-> 0]
  /\ most = [j \in Sensor |-> 0]
  /\ result = 0
  /\ exit = "none"
  /\ bad = FALSE

Drift ==
  /\ \E j \in Sensor : \E v \in Raw[j] : level' = [level EXCEPT ![j] = v]
  /\ UNCHANGED <<file, time, round, cur, taken, least, most, result, exit, bad>>

Running == exit = "none" /\ round <= time

Take ==
  /\ Running
  /\ taken = <<>>
  /\ taken' = <<level[cur]>>
  /\ UNCHANGED <<file, level, time, round, cur, least, most, result, exit, bad>>

\* A fan count of 0 on a Fintek chip.
Undefined == Divides(Chip, Lines[cur]) /\ taken[1] = <<0, 0>>

SmallerOf(a, b) == IF a < b THEN a ELSE b
LargerOf(a, b)  == IF a > b THEN a ELSE b

Next1 ==
  IF cur < Len(Lines) THEN cur' = cur + 1 /\ UNCHANGED round
  ELSE cur' = 1 /\ round' = round + 1

\* Slip: the status is that of the last reading.
JudgeLast ==
  /\ Running
  /\ taken # <<>>
  /\ ~Undefined
  /\ LET v == Reading(Chip, Lines[cur], taken[1])
         out == v < Lines[cur].low \/ v > Lines[cur].high
     IN /\ least' = [least EXCEPT ![cur] = v]
        /\ most' = [most EXCEPT ![cur] = v]
        /\ bad' = (bad \/ out)
  /\ result' = IF least'[cur] >= Lines[cur].low /\ most'[cur] <= Lines[cur].high THEN 0 ELSE 1
  /\ taken' = <<>>
  /\ Next1
  /\ UNCHANGED <<file, level, time, exit>>

\* The reading joins those of the rounds before; once a limit is passed the
\* status stays 1.
Judge ==
  /\ Running
  /\ taken # <<>>
  /\ ~Undefined
  /\ LET v == Reading(Chip, Lines[cur], taken[1])
         out == v < Lines[cur].low \/ v > Lines[cur].high
     IN /\ least' = [least EXCEPT ![cur] = IF round = 1 THEN v ELSE SmallerOf(@, v)]
        /\ most' = [most EXCEPT ![cur] = IF round = 1 THEN v ELSE LargerOf(@, v)]
        /\ bad' = (bad \/ out)
  /\ result' = IF least'[cur] >= Lines[cur].low /\ most'[cur] <= Lines[cur].high
               THEN result ELSE 1
  /\ taken' = <<>>
  /\ Next1
  /\ UNCHANGED <<file, level, time, exit>>

\* Division by zero ends the process.
Fault ==
  /\ Running
  /\ taken # <<>>
  /\ Undefined
  /\ exit' = "signal"
  /\ UNCHANGED <<file, level, time, round, cur, taken, least, most, result, bad>>

Return ==
  /\ exit = "none"
  /\ round > time
  /\ exit' = IF result = 0 THEN "0" ELSE "1"
  /\ UNCHANGED <<file, level, time, round, cur, taken, least, most, result, bad>>

\* The test has ended, or is killed, and is started again.
Again ==
  /\ time' \in Times
  /\ round' = 1
  /\ cur' = 1
  /\ taken' = <<>>
  /\ result' = 0
  /\ exit' = "none"
  /\ bad' = FALSE
  /\ UNCHANGED <<file, level, least, most>>

Next == Drift \/ Take \/ Judge \/ Fault \/ Return \/ Again

Spec == Init /\ [][Next]_testVars

-----------------------------------------------------------------------------
(* Properties. *)

TestTypeOK ==
  /\ file \in File
  /\ level \in [Sensor -> UNION {Raw[j] : j \in Sensor}]
  /\ \A j \in Sensor : level[j] \in Raw[j]
  /\ time \in Nat
  /\ round \in Nat \ {0}
  /\ cur \in Sensor
  /\ taken # <<>> => \E v \in Raw[cur] : taken = <<v>>
  /\ least \in [Sensor -> Int]
  /\ most \in [Sensor -> Int]
  /\ result \in {0, 1}
  /\ exit \in {"none", "0", "1", "signal"}
  /\ bad \in BOOLEAN

\* Status 0 of a test means that no reading it took of any sensor was out of
\* the limits in any round, status 1 that one was (main).
StatusTells ==
  /\ exit = "0" => ~bad
  /\ exit = "1" => bad

\* What the status will be, and what least and most tell of this run: those of
\* a sensor that was read are within its limits unless some reading was not.
Judged(j) == round > 1 \/ j < cur
StatusSoFar ==
  /\ result = 1 <=> bad
  /\ \A j \in Sensor : Judged(j) /\ ~bad =>
       Lines[j].low <= least[j] /\ most[j] <= Lines[j].high

TestInv == TestTypeOK /\ StatusTells /\ StatusSoFar
=============================================================================
