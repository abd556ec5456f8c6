------------------------------- MODULE HaLed -------------------------------
(***************************************************************************)
(* The LED program of board S0391 (misc/s0391_ha_led.c): writes a byte to  *)
(* a register of an SMBus chip, makes the LED bit of word register 02h     *)
(* blink, and may read back what it wrote.  Each bus transfer may fail.    *)
(* The prompt is never shown, and PEC never used: the options are off.     *)
(***************************************************************************)
EXTENDS Integers, Sequences

CONSTANTS
  Address,  \* values of DATA-ADDRESS
  Value,    \* values of VALUE
  Funcs     \* what the adapter may be able to do: sets of "byte", "word"

ASSUME LedAssumption == Address \subseteq 0..255 /\ Value \subseteq 0..255

VARIABLES
  byteReg,  \* the chip's byte registers
  ledPc,    \* "open", "byte", "blink", "done", "readback" or "end"
  turns,    \* the turn of the loop
  ledArg,   \* DATA-ADDRESS, VALUE and -r
  ledRes,   \* result of the last transfer, -1 when it failed
  ledExit   \* the exit status, and for -r what is printed

ledVars == <<byteReg, ledPc, turns, ledArg, ledRes, ledExit>>

LedReg == 2
Arg    == [addr : Address, value : Value, back : BOOLEAN]

\* The LED's bit is 1 at every even turn, or as VALUE has it.
WithBit(v) == IF (v \div 2) % 2 = 1 THEN v ELSE v + 2

LedInit ==
  /\ byteReg \in [Address \cup {LedReg} -> Value \cup {WithBit(v) : v \in Value}]
  /\ ledPc = "open"
  /\ turns = 0
  /\ ledArg \in Arg
  /\ ledRes = 0
  /\ ledExit = "none"

\* open_i2c_dev, check_funcs for a byte write, set_slave_addr.
Open ==
  /\ ledPc = "open"
  /\ \E works \in BOOLEAN, funcs \in Funcs :
       IF works /\ "byte" \in funcs THEN ledPc' = "byte" /\ UNCHANGED ledExit
       ELSE ledPc' = "end" /\ ledExit' = "1"
  /\ UNCHANGED <<byteReg, turns, ledArg, ledRes>>

Transfer(r, v) == \E ok \in BOOLEAN :
  /\ byteReg' = IF ok THEN [byteReg EXCEPT ![r] = v] ELSE byteReg
  /\ ledRes' = IF ok THEN 0 ELSE -1

WriteByte ==
  /\ ledPc = "byte"
  /\ Transfer(ledArg.addr, ledArg.value)
  /\ ledPc' = "blink"
  /\ UNCHANGED <<turns, ledArg, ledExit>>

Blink ==
  /\ ledPc = "blink"
  /\ turns < 10
  /\ Transfer(LedReg, IF turns % 2 = 1 THEN ledArg.value ELSE WithBit(ledArg.value))
  /\ turns' = turns + 1
  /\ UNCHANGED <<ledPc, ledArg, ledExit>>

\* Only the last transfer's result is looked at.
Result ==
  /\ ledPc = "blink"
  /\ turns = 10
  /\ IF ledRes < 0 THEN ledPc' = "end" /\ ledExit' = "1"
     ELSE IF ledArg.back THEN ledPc' = "readback" /\ UNCHANGED ledExit
     ELSE ledPc' = "end" /\ ledExit' = "0"
  /\ UNCHANGED <<byteReg, turns, ledArg, ledRes>>

\* Slip: the register of the LED is read back.
ReadBackLed ==
  /\ ledPc = "readback"
  /\ \E ok \in BOOLEAN :
       ledExit' = IF ~ok THEN "unread"
                  ELSE IF byteReg[LedReg] = ledArg.value THEN "matched" ELSE "mismatch"
  /\ ledPc' = "end"
  /\ UNCHANGED <<byteReg, turns, ledArg, ledRes>>

\* The status is 0 whatever is read.
ReadBack ==
  /\ ledPc = "readback"
  /\ \E ok \in BOOLEAN :
       ledExit' = IF ~ok THEN "unread"
                  ELSE IF byteReg[ledArg.addr] = ledArg.value THEN "matched" ELSE "mismatch"
  /\ ledPc' = "end"
  /\ UNCHANGED <<byteReg, turns, ledArg, ledRes>>

\* The run has ended, or is killed; another one starts.
LedAgain ==
  /\ ledPc' = "open"
  /\ turns' = 0
  /\ ledArg' \in Arg
  /\ ledRes' = 0
  /\ ledExit' = "none"
  /\ UNCHANGED byteReg

LedNext == Open \/ WriteByte \/ Blink \/ Result \/ ReadBack \/ LedAgain

LedSpec == LedInit /\ [][LedNext]_ledVars

-----------------------------------------------------------------------------
(* Properties. *)

LedTypeOK ==
  /\ byteReg \in [Address \cup {LedReg} -> 0..255]
  /\ ledPc \in {"open", "byte", "blink", "readback", "end"}
  /\ turns \in 0..10
  /\ ledArg \in Arg
  /\ ledRes \in {0, -1}
  /\ ledExit \in {"none", "0", "1", "unread", "matched", "mismatch"}

\* After a run that ends with status 0 the LED's register holds VALUE, however
\* the writes before the last one went; and "readback matched" means that the
\* register written has VALUE too (main).
LedAsAsked ==
  ledExit \in {"0", "unread", "matched", "mismatch"} => byteReg[LedReg] = ledArg.value
Matched    == ledExit = "matched" => byteReg[ledArg.addr] = ledArg.value

\* An odd turn writes VALUE, an even one the other level of the LED's bit.
Blinked ==
  (ledPc = "blink" /\ turns > 0 /\ turns % 2 = 0 /\ ledRes = 0) \/ ledPc = "readback"
    => byteReg[LedReg] = ledArg.value

\* What a run can still go wrong about.
Unended ==
  /\ ledPc # "end" => ledExit = "none"
  /\ ledPc \in {"open", "byte"} => turns = 0

LedInv == LedTypeOK /\ LedAsAsked /\ Matched /\ Blinked /\ Unended
=============================================================================
