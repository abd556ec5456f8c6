----------------------------- MODULE BmcSensors -----------------------------
(***************************************************************************)
(* The sensors of an AST chip (tools/hwmon.c, the functions for AST1300    *)
(* and AST1400; tools/read_fw_ver.c does no more than the start of a       *)
(* test).  CPU temperatures come from the BMC's PECI engine and board      *)
(* temperatures from its I2C engine, which the tool gives an address,      *)
(* fires and polls; fans and voltages are 16-bit registers.  One step is   *)
(* one call of the library, which Ilpc2ahb shows to be atomic.             *)
(***************************************************************************)
EXTENDS Integers, Sequences

CONSTANTS
  Cpu,    \* PECI addresses of the CPUs on the board
  Chip7,  \* I2C addresses of the temperature chips on channel 7
  Input,  \* fan and voltage inputs
  Volt,   \* the voltages among them
  Test,   \* tests: the sensors of the file, in order
  Raw,    \* what each sensor's register may hold
  Tjmax   \* the CPU's critical temperature, from sysfs

Sensor == Cpu \cup Chip7 \cup Input

\* The first socket's CPU has PECI address 30h.
Boot == 48

\* PECI gives how far a CPU is below Tjmax, a negative number of 16 bits.
Reg16    == 0..65535
Negative == 32768..65535

ASSUME BmcAssumption ==
  /\ Boot \in Cpu
  /\ Sensor \subseteq Nat
  /\ \A s \in Cpu : Raw[s] \subseteq Negative
  /\ Volt \subseteq Input
  /\ Cpu \cap Chip7 = {} /\ Input \cap (Cpu \cup Chip7) = {}
  /\ Test \subseteq Seq(Sensor)
  /\ \A s \in Sensor : Raw[s] # {} /\ Raw[s] \subseteq Reg16
  /\ Tjmax \in Nat

VARIABLES
  level,  \* what each sensor measures
  addr,   \* address register of each engine
  fire,   \* fire bit of each engine
  busy,   \* the addresses each engine is reading: at most one
  ans,    \* data register of each engine
  err,    \* the PECI engine's error bit
  test,   \* the sensors of this run
  cur,    \* the sensor it reads, 0 while it starts
  pc,     \* the call that is next, "end" after the run
  low,    \* the low byte of an input
  out,    \* what the last reading returned, <<>> if none
  had     \* what the sensor has measured since its reading began

engines     == <<addr, fire, busy, ans, err>>
toolVars    == <<test, cur, pc, low, out, had>>
sensorsVars == <<level, engines, toolVars>>

Engine == {"peci", "i2c"}

SensorsInit ==
  /\ level \in [Sensor -> UNION {Raw[s] : s \in Sensor}]
  /\ \A s \in Sensor : level[s] \in Raw[s]
  /\ addr = [peci |-> Boot, i2c |-> 0]
  /\ fire = [e \in Engine |-> FALSE]
  /\ busy = [e \in Engine |-> {}]
  /\ ans = [e \in Engine |-> 0]
  /\ err = FALSE
  /\ test \in Test
  /\ cur = 0
  /\ pc = "addr"
  /\ low = 0
  /\ out = <<>>
  /\ had = {}

-----------------------------------------------------------------------------
(* The board and the engines. *)

Drift ==
  /\ \E s \in Sensor : \E v \in Raw[s] :
       /\ level' = [level EXCEPT ![s] = v]
       /\ had' = IF cur > 0 /\ test[cur] = s THEN had \cup {v} ELSE had
  /\ UNCHANGED <<engines, test, cur, pc, low, out>>

\* An engine that is idle takes the address it holds.
EngineAccepts(e) ==
  /\ fire[e]
  /\ busy[e] = {}
  /\ addr[e] \in IF e = "peci" THEN Cpu ELSE Chip7
  /\ fire' = [fire EXCEPT ![e] = FALSE]
  /\ busy' = [busy EXCEPT ![e] = {addr[e]}]
  /\ UNCHANGED <<level, addr, ans, err, toolVars>>

EngineAnswers(e) ==
  /\ \E a \in busy[e] : ans' = [ans EXCEPT ![e] = level[a]]
  /\ busy' = [busy EXCEPT ![e] = {}]
  /\ err' = IF e = "peci" THEN FALSE ELSE err
  /\ UNCHANGED <<level, addr, fire, toolVars>>

\* A transfer that fails leaves the data register as it was.
Refuse ==
  /\ busy.peci # {}
  /\ busy' = [busy EXCEPT !.peci = {}]
  /\ err' = TRUE
  /\ UNCHANGED <<level, addr, fire, ans, toolVars>>

-----------------------------------------------------------------------------
(* The tool. *)

Which  == IF cur = 0 \/ test[cur] \in Cpu THEN "peci" ELSE "i2c"
Target == IF cur = 0 THEN Boot ELSE test[cur]

At(step) == pc = step

\* The next sensor, or the end of the run: one round is enough, each sensor
\* being read afresh.
Next1(value) ==
  /\ out' = value
  /\ IF cur < Len(test)
     THEN /\ cur' = cur + 1
          /\ pc' = IF test[cur + 1] \in Input THEN "low" ELSE "addr"
          /\ had' = {level[test[cur + 1]]}
     ELSE cur' = cur /\ pc' = "end" /\ had' = had

\* Slip: the address is written in 8-bit form.
SetAddressShifted ==
  /\ At("addr")
  /\ addr' = [addr EXCEPT ![Which] = IF Which = "peci" THEN 2 * Target ELSE Target]
  /\ pc' = "fire"
  /\ UNCHANGED <<level, fire, busy, ans, err, test, cur, low, out, had>>

SetAddress ==
  /\ At("addr")
  /\ addr' = [addr EXCEPT ![Which] = Target]
  /\ pc' = "fire"
  /\ UNCHANGED <<level, fire, busy, ans, err, test, cur, low, out, had>>

\* The I2C engine is given a second to begin.
Fire ==
  /\ At("fire")
  /\ fire' = [fire EXCEPT ![Which] = TRUE]
  /\ pc' = IF cur = 0 THEN "busy" ELSE "fired"
  /\ UNCHANGED <<level, addr, busy, ans, err, test, cur, low, out, had>>

\* Slip: the fire bit is not waited for.
FiredNoWait ==
  /\ At("fired")
  /\ pc' = "busy"
  /\ UNCHANGED <<level, engines, test, cur, low, out, had>>

\* The loop goes on while the fire bit is set.
Fired ==
  /\ At("fired")
  /\ ~fire[Which]
  /\ pc' = "busy"
  /\ UNCHANGED <<level, engines, test, cur, low, out, had>>

\* init_peci waits for the busy bit alone, and reads no data.
Idle ==
  /\ At("busy")
  /\ busy[Which] = {}
  /\ IF cur = 0 THEN Next1(<<>>) ELSE pc' = "data" /\ UNCHANGED <<cur, out, had>>
  /\ UNCHANGED <<level, engines, test, low>>

\* 64ths of a degree below Tjmax, as a negative number of 16 bits.  (The
\* result is unsigned; of a negative one only matters that it is out of limits.)
Degrees(raw) == Tjmax - (((65535 - raw) \div 64) % 512) + 1

\* 0 is returned when the error bit is set or sysfs cannot be read.
FetchData ==
  /\ At("data")
  /\ \E sysfs \in BOOLEAN :
       Next1(IF Which = "i2c" THEN <<ans.i2c>>
             ELSE IF err \/ ~sysfs THEN <<0>> ELSE <<Degrees(ans.peci)>>)
  /\ UNCHANGED <<level, engines, test, low>>

FetchLow ==
  /\ At("low")
  /\ low' = level[test[cur]] % 256
  /\ pc' = "high"
  /\ UNCHANGED <<level, engines, test, cur, out, had>>

\* Slip: all of a voltage's register is taken.
FetchHighUnmasked ==
  /\ At("high")
  /\ Next1(<<low + 256 * (level[test[cur]] \div 256)>>)
  /\ UNCHANGED <<level, engines, test, low>>

\* Of a voltage's high byte the two lowest bits count.
HighByte(s, v) == IF s \in Volt THEN (v \div 256) % 4 ELSE v \div 256

FetchHigh ==
  /\ At("high")
  /\ Next1(<<low + 256 * HighByte(test[cur], level[test[cur]])>>)
  /\ UNCHANGED <<level, engines, test, low>>

\* The run has ended, or is killed; another one starts.
Again ==
  /\ test' \in Test
  /\ cur' = 0
  /\ pc' = "addr"
  /\ out' = <<>>
  /\ had' = {}
  /\ UNCHANGED <<level, engines, low>>

Tool == SetAddress \/ Fire \/ Fired \/ Idle \/ FetchData \/ FetchLow \/ FetchHigh

SensorsNext == Drift \/ Refuse \/ Tool \/ Again
                 \/ \E e \in Engine : EngineAccepts(e) \/ EngineAnswers(e)

\* The tool's process is scheduled, and the BMC works.
SensorsFairness ==
  /\ WF_sensorsVars(Tool)
  /\ \A e \in Engine :
       /\ WF_sensorsVars(EngineAccepts(e))
       /\ WF_sensorsVars(EngineAnswers(e) \/ (e = "peci" /\ Refuse))

SensorsSpec == SensorsInit /\ [][SensorsNext]_sensorsVars /\ SensorsFairness

-----------------------------------------------------------------------------
(* Properties. *)

SensorsTypeOK ==
  /\ DOMAIN level = Sensor
  /\ \A s \in Sensor : level[s] \in Raw[s]
  /\ addr \in [Engine -> Nat]
  /\ fire \in [Engine -> BOOLEAN]
  /\ busy \in [Engine -> SUBSET Sensor]
  /\ ans \in [Engine -> Reg16]
  /\ err \in BOOLEAN
  /\ test \in Test
  /\ cur \in 0..Len(test)
  /\ pc \in {"addr", "fire", "fired", "busy", "data", "low", "high", "end"}
  /\ low \in 0..255

\* When the data register is about to be read after a transfer without error,
\* it holds what the sensor that was asked measured at some moment since its
\* reading began: not what another CPU answered to init_peci, to the line
\* before or to a run that was killed in the middle of a transfer (peci_read,
\* read_ast_temperature_i2c).
AnswerFresh == pc = "data" /\ ~(Which = "peci" /\ err) => ans[Which] \in had

\* The steps of a reading fit the sensor, the engine holds its address, and the
\* transfer under way or done is its own; what it has measured includes what
\* it measures now.
OnCourse ==
  /\ pc \in {"addr", "fire", "busy"} => cur = 0 \/ test[cur] \notin Input
  /\ pc \in {"fired", "data"} => cur > 0 /\ test[cur] \notin Input
  /\ pc \in {"low", "high"} => cur > 0 /\ test[cur] \in Input
Addressed == pc \in {"fire", "fired", "busy", "data"} => addr[Which] = Target
Transferred == cur > 0 /\ pc \in {"fired", "busy", "data"} =>
  \/ pc = "fired" /\ fire[Which]
  \/ pc # "data" /\ ~fire[Which] /\ busy[Which] = {Target}
  \/ ~fire[Which] /\ busy[Which] = {} /\ (ans[Which] \in had \/ (Which = "peci" /\ err))
Measured == cur > 0 => level[test[cur]] \in had /\ had \subseteq Raw[test[cur]]
LowByte  == pc = "high" => \E v \in had : low = v % 256

AnswersInv == SensorsTypeOK /\ AnswerFresh /\ OnCourse /\ Addressed /\ Transferred
                /\ Measured /\ LowByte

\* A run that is not killed ends, although it polls the engines without a
\* limit: no order of fires by this run and a killed one leaves it waiting
\* for ever, as long as every CPU of the file is on the board.
Begun == pc = "addr" /\ cur = 0
Ends  == (pc # "end" /\ ~Begun) ~> (pc = "end" \/ Begun)

\* What a reading returns: of a fan, two bytes that its register has had during
\* this reading, though perhaps not at one moment (read_ast_fan); of a voltage
\* likewise two bytes of the converter's ten bits, whatever the other six bits
\* of the register hold (read_ast_voltage, before it is scaled); of a CPU without error, its temperature and at most two
\* degrees more, never less (peci_read).
Signed(raw) == IF raw >= 32768 THEN raw - 65536 ELSE raw
Exact(raw)  == 64 * Tjmax + Signed(raw)
Value(s, v) == IF s \in Volt THEN v % 1024 ELSE v
ReadingNear ==
  [][out' # out /\ out' # <<>> =>
       CASE pc = "high" -> /\ \E v \in had : out'[1] % 256 = Value(test[cur], v) % 256
                           /\ \E v \in had : out'[1] \div 256 = Value(test[cur], v) \div 256
         [] pc = "data" /\ Which = "peci" /\ out' # <<0>> ->
              \E v \in had : 64 * out'[1] \in (Exact(v) + 1)..(Exact(v) + 128)
         [] OTHER -> TRUE]_sensorsVars
=============================================================================
