------------------------------- MODULE MCBmc -------------------------------
(***************************************************************************)
(* The BMC (AST1300, AST1400, AST2400) under its users, one at a time:     *)
(*   bridge   accesses to its memory, one register of the iLPC2AHB device  *)
(*            a step, at two addresses that differ in the bytes written to *)
(*            F0h, F2h and F3h;                                            *)
(*   sensors  hwmon and read_fw_ver on a board with two CPUs, two          *)
(*            temperature chips, a fan whose count passes from one high    *)
(*            byte to the next and a voltage that does so, in a register   *)
(*            with a bit above the converter's ten set: a file with both   *)
(*            CPUs, one with the board temperatures, the fan and the       *)
(*            voltage, and read_fw_ver, which reads no sensor.             *)
(***************************************************************************)
EXTENDS Ilpc2ahb, BmcSensors

CONSTANTS p1, p2

VARIABLE tool    \* who uses the BMC

boardVars == <<tool, vars, sensorsVars>>

-----------------------------------------------------------------------------
Procs == {p1, p2}
I2c   == 510793472       \* 1E721700h
Wdt   == 511201280       \* 1E785000h
Words == {I2c, Wdt}
Vals  == {0, 1}

C(op, address, bytes) == [op |-> op, addr |-> address, bytes |-> bytes]

Calls ==
  {C("read", I2c + 2, <<>>), C("readl", Wdt, <<>>), C("write", I2c + 1, <<1>>),
   C("writel", Wdt, <<1, 0, 1, 0>>)}

\* After power on; killed runs leave the rest.
Regs0_ == {[f |-> [i \in 0..7 |-> 0], len |-> 0, on |-> FALSE]}

\* The two bytes a word read must not mix.
Own_  == {<<Wdt, 0>>, <<Wdt, 3>>}
Mem0_ == {[w \in Words |-> [b \in Byte4 |-> 0]]}

-----------------------------------------------------------------------------
Cpus   == {48, 49}
Chips  == {144, 152}
Volts  == {16}
Inputs == {8} \cup Volts
Raws   == [s \in Cpus \cup Chips \cup Inputs |->
  CASE s = 48 -> {64896, 62976} [] s = 49 -> {64257} [] s = 144 -> {30}
    [] s = 152 -> {40} [] s = 8 -> {511, 512}
    [] s = 16 -> {4607, 4608}]

Tests  == {<<>>, <<48, 49>>, <<144, 8, 16, 152>>}

-----------------------------------------------------------------------------
\* What is not used stays as it is, in one of its initial states.
Unused(who, choice) == tool # who => choice

BmcInit ==
  /\ tool \in {"bridge", "sensors"}
  /\ BridgeInit
  /\ Unused("bridge", call = [p \in Proc |-> CHOOSE c \in Call : TRUE])
  /\ SensorsInit
  /\ Unused("sensors", test = <<>> /\ level = [s \in DOMAIN Raws |-> CHOOSE v \in Raws[s] : TRUE])

BridgeRuns  == tool = "bridge" /\ BridgeNext /\ UNCHANGED <<tool, sensorsVars>>
SensorsRuns == tool = "sensors" /\ SensorsNext /\ UNCHANGED <<tool, vars>>

BmcNext == BridgeRuns \/ SensorsRuns

\* The fairness of BmcSensors.
Of(A) == tool = "sensors" /\ A /\ UNCHANGED <<tool, vars>>
BmcFairness ==
  /\ WF_boardVars(Of(Tool))
  /\ \A e \in Engine :
       /\ WF_boardVars(Of(EngineAccepts(e)))
       /\ WF_boardVars(Of(EngineAnswers(e) \/ (e = "peci" /\ Refuse)))

BmcSpec == BmcInit /\ [][BmcNext]_boardVars /\ BmcFairness
=============================================================================
