------------------------------ MODULE MCTools ------------------------------
(***************************************************************************)
(* The tools that watch or blink one board, one at a time:                 *)
(*   hwmon      a file with sensors that share an index in different       *)
(*              banks, a fan and a voltage behind a divider, on an         *)
(*              NCT6776F; a file with a fan whose count may be 0 on an     *)
(*              F71889AD;                                                  *)
(*   wdt        watchdogs that the firmware left off, or running in        *)
(*              minutes with their status set, or on a fast clock; the     *)
(*              F71 one also with its pin left as GPIO14;                  *)
(*   nct6683d   two pages with two registers each;                         *)
(*   i2cget     six rows of its table: the four voltages of register 20h,  *)
(*              the CPU's temperature and a fan;                           *)
(*   led        a register of its own and that of the LED, values with the *)
(*              LED's bit and without;                                     *)
(*   i2cbusses  arrays that grow twice, with names that come more than     *)
(*              once or never.                                             *)
(***************************************************************************)
EXTENDS Hwmon, Wdt, Nct6683d, I2cMonitor, HaLed, I2cBusses

VARIABLE tool    \* the tool in use

-----------------------------------------------------------------------------
(* hwmon. *)

Line(pin, par1, par2, lo, hi) ==
  [pin |-> pin, par1 |-> par1, par2 |-> par2, low |-> lo, high |-> hi, mult |-> 0]

\* CPU temperature (50h, bank 1), fan (58h and 59h, bank 6), VSB3 (50h, bank 5).
NctFile == [chip |-> "NCT6776F",
  lines |-> << Line(110, 0, 0, 20000, 100000), Line(124, 164, 0, 500000, 5000000),
               Line(46, 34, 34, 3135, 3465) >>,
  raw |-> << {<<40>>, <<101>>}, {<<2, 255>>, <<3, 0>>}, {<<200>>, <<150>>} >>]

FinFile == [chip |-> "F71889AD",
  lines |-> << Line(21, 366, 0, 1000000, 6000000), Line(89, 0, 0, 20000, 100000),
               [Line(98, 0, 0, 500, 1520) EXCEPT !.mult = 9] >>,
  raw |-> << {<<1, 255>>, <<2, 0>>, <<0, 0>>, <<16, 2>>}, {<<40>>}, {<<100>>, <<200>>} >>]

Files   == {NctFile, FinFile}
Rounds  == {1, 2}
Banks   == {{}, {0, 1, 2}, {2, 7}}

-----------------------------------------------------------------------------
(* wdt. *)

Off ==
  [en |-> FALSE, unit |-> "sec", count |-> 0, sub |-> 0, run |-> FALSE,
   out |-> FALSE, status |-> FALSE, reload |-> 0, scu |-> FALSE, pin |-> FALSE]

SecondOf(f) == IF f = "AST" THEN 15625 ELSE 1
Firmware(f) ==
  [Off EXCEPT !.en = TRUE, !.unit = IF f = "AST" THEN "sec" ELSE "min",
              !.count = SecondOf(f), !.run = TRUE, !.out = TRUE, !.status = TRUE]

Seconds_ == [NCT |-> {1, 255}, F71 |-> {1, 3}, AST |-> {1, 300}]
MaxTicks == [NCT |-> 256, F71 |-> 5, AST |-> 301]
Watchdogs ==
  [f \in {"NCT", "F71", "AST"} |->
    IF f = "F71" THEN {Off} \cup {[v EXCEPT !.pin = TRUE] : v \in {Off, Firmware(f)}}
    ELSE {Off, Firmware(f), [Off EXCEPT !.unit = "fast", !.count = 9 * SecondOf(f), !.pin = TRUE]}]

-----------------------------------------------------------------------------
(* nct6683d: reads of one register and of the two that make a word, a write. *)

EcCalls == {[op |-> o, page |-> 1, index |-> i, data |-> 1] : o \in {"read", "write"}, i \in {64, 66}}
           \cup {[op |-> "read", page |-> 0, index |-> 64, data |-> 0]}

Pages   == {0, 1}
Indices == {64, 66}
Vals    == {0, 1}

-----------------------------------------------------------------------------
(* i2cget.  Voltages are numbers that tell the rows apart. *)

R(off, func, lo, hi, chips) ==
  [off |-> off, func |-> func, tmin |-> lo, tmax |-> hi,
   hasmin |-> chips, hasmax |-> chips /\ func = -1, scale |-> IF func = 4 THEN 5400000 ELSE 1]

Rows_ ==
  << R(37, -1, -1, -1, TRUE), R(32, 0, 145, 161, FALSE), R(32, 1, 155, 170, FALSE),
     R(32, 2, 115, 141, FALSE), R(32, 3, 153, 188, FALSE), R(40, 4, -1, -1, TRUE) >>
Inputs == << {40, 99}, {150}, {160}, {130, 150}, {170}, {4096, 65535} >>
Limits == << [min |-> 10, max |-> 80], 0, 0, 0, 0, [min |-> 500, max |-> -1] >>

-----------------------------------------------------------------------------
(* The LED program and the adapters. *)

Addresses == {2, 3}
LedValues == {0, 3}
Abilities == {{}, {"byte", "word"}}

Names   == {"smbus", "isa"}
Wanted  == {"smbus", "isa", "video"}

-----------------------------------------------------------------------------
\* What is not used stays as it is, in one of its initial states.
Unused(who, choice) == tool # who => choice

AnyOf(X) == CHOOSE x \in X : TRUE

ToolsInit ==
  /\ tool \in {"hwmon", "wdt", "nct6683d", "i2cget", "led", "i2cbusses"}
  /\ HwInit
  /\ Unused("hwmon", /\ file = FinFile /\ time = 1 /\ on /\ bank = {}
                     /\ level = [j \in Sensor |-> AnyOf(Raw[j])])
  /\ WdtInit
  /\ Unused("wdt", family = "NCT" /\ w = Off /\ wdtTime = 1)
  /\ EcInit
  /\ Unused("nct6683d", /\ page = 0 /\ ecIndex = 64 /\ call = AnyOf(EcCalls)
                        /\ \A c \in DOMAIN ec : ec[c] = 0)
  /\ MonitorInit
  /\ Unused("i2cget", switch = <<FALSE, FALSE>> /\ sample[32][1] = 2)
  /\ LedInit
  /\ Unused("led", ledArg = AnyOf(Arg) /\ \A r \in DOMAIN byteReg : byteReg[r] = 0)
  /\ BussesInit
  /\ Unused("i2cbusses", dir = <<>> /\ arg = "isa")

HwmonRuns   == /\ tool = "hwmon" /\ HwNext
               /\ UNCHANGED <<tool, wdtVars, ecVars, monitorVars, ledVars, bussesVars>>
WdtRuns     == /\ tool = "wdt" /\ WdtNext
               /\ UNCHANGED <<tool, vars, ecVars, monitorVars, ledVars, bussesVars>>
EcRuns      == /\ tool = "nct6683d" /\ EcNext
               /\ UNCHANGED <<tool, vars, wdtVars, monitorVars, ledVars, bussesVars>>
MonitorRuns == /\ tool = "i2cget" /\ MonitorNext
               /\ UNCHANGED <<tool, vars, wdtVars, ecVars, ledVars, bussesVars>>
LedRuns     == /\ tool = "led" /\ LedNext
               /\ UNCHANGED <<tool, vars, wdtVars, ecVars, monitorVars, bussesVars>>
BussesRun   == /\ tool = "i2cbusses" /\ BussesNext
               /\ UNCHANGED <<tool, vars, wdtVars, ecVars, monitorVars, ledVars>>

ToolsNext == HwmonRuns \/ WdtRuns \/ EcRuns \/ MonitorRuns \/ LedRuns \/ BussesRun

ToolsSpec ==
  ToolsInit /\ [][ToolsNext]_<<tool, vars, wdtVars, ecVars, monitorVars, ledVars, bussesVars>>
=============================================================================
