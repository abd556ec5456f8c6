-------------------------------- MODULE Wdt --------------------------------
(***************************************************************************)
(* The watchdog test (tools/wdt.c): the tool arms the board's watchdog to  *)
(* reset the machine after a time in seconds and exits.  The watchdog may  *)
(* be running already, armed by the firmware or by a run before, and goes  *)
(* on counting between the tool's register accesses.  A run may be killed; *)
(* the machine may reset in the middle of one.                             *)
(*                                                                         *)
(* One step is one change of a register by the library (see SioPorts and   *)
(* Ilpc2ahb).  A Tick is a second.                                         *)
(***************************************************************************)
EXTENDS Integers, Sequences

CONSTANTS
  Seconds,  \* for each watchdog, "NCT", "F71" or "AST", values of -t
  MaxTick,  \* seconds are told apart up to this number
  PowerOn   \* watchdog registers before the first run

Families == {"NCT", "F71", "AST"}

VARIABLES
  family,   \* the watchdog on the board
  w,        \* the watchdog's registers
  up,       \* the machine has not been reset
  wdtPc,    \* the change the tool is at, 0 before and after a run
  ended,    \* the last run has returned status 0 without an error message
  hit,      \* the tool has got a chip it supports from the file
  wdtTime,  \* -t of the last run
  since,    \* seconds since this run set the counter going
  after     \* seconds since the tool returned

wdtVars == <<family, w, up, wdtPc, ended, hit, wdtTime, since, after>>

-----------------------------------------------------------------------------
(* The watchdog. *)

\* The registers: the device is enabled; seconds, minutes or a faster clock;
\* the counter, and seconds of the present minute; its start bit; whether its
\* output is on; timed out before; on AST chips, the reload value and the lock
\* of the system control unit; and whether the pin of the output is the
\* watchdog's, or a GPIO (an NCT chip's is taken to be).
Registers ==
  [en : BOOLEAN, unit : {"sec", "min", "fast"}, count : Nat, sub : 0..59,
   run : BOOLEAN, out : BOOLEAN, status : BOOLEAN, reload : Nat,
   scu : BOOLEAN, pin : BOOLEAN]

ASSUME WdtAssumption ==
  /\ DOMAIN Seconds \subseteq Families
  /\ \A f \in DOMAIN Seconds :
       /\ MaxTick[f] \in Nat
       /\ Seconds[f] \subseteq 1..MaxTick[f] /\ \A t \in Seconds[f] : t <= 4294
       /\ PowerOn[f] \subseteq Registers
  /\ \A f \in DOMAIN Seconds \ {"AST"} : Seconds[f] \subseteq 1..255
  /\ \A f \in DOMAIN Seconds \cap {"F71"} : \A r \in PowerOn[f] : r.unit # "fast"

\* What one second takes off the counter: an AST counter runs at 1 MHz and is
\* kept in units of 64 microseconds here.
Second == IF family = "AST" THEN 15625 ELSE 1

\* An NCT counter runs when it is not 0, the others have a start bit.
Counting == w.count > 0 /\ (family = "AST" \/ w.en) /\ (family = "NCT" \/ w.run)

Counted ==
  CASE w.unit = "fast" -> [w EXCEPT !.count = 0]
    [] w.unit = "min"  -> IF w.sub < 59 THEN [w EXCEPT !.sub = @ + 1]
                          ELSE [w EXCEPT !.sub = 0, !.count = @ - 1]
    [] OTHER           -> [w EXCEPT !.count = IF @ > Second THEN @ - Second ELSE 0]

\* Only on AST chips does the tool give the watchdog its pin: on the Fintek
\* boards the BIOS may have left it as GPIO14, and then nothing is reset.
Resets == (family = "NCT" \/ w.out) /\ (family # "NCT" => w.pin)

Later(k) == IF k < MaxTick[family] THEN k + 1 ELSE k

Tick ==
  /\ up
  /\ IF Counting
     THEN /\ w' = [Counted EXCEPT !.status = @ \/ Counted.count = 0]
          /\ up' = ~(Counted.count = 0 /\ Resets)
     ELSE UNCHANGED <<w, up>>
  /\ since' = Later(since)
  /\ after' = IF ended THEN Later(after) ELSE 0
  /\ UNCHANGED <<family, wdtPc, ended, hit, wdtTime>>

-----------------------------------------------------------------------------
(* The tool. *)

\* Slip: an AST counter is restarted before the reload value is set.
ChangesRestartFirst ==
  CASE family = "NCT" -> <<"enable", "mode", "count", "clear">>
    [] family = "F71" -> <<"enable", "output", "count", "start">>
    [] family = "AST" -> <<"stop", "clear", "restart", "reload", "unlock", "pin", "go">>

Changes ==
  CASE family = "NCT" -> <<"enable", "mode", "count", "clear">>
    [] family = "F71" -> <<"enable", "output", "count", "start">>
    [] family = "AST" -> <<"stop", "clear", "reload", "restart", "unlock", "pin", "go">>

\* Slip: the unit the firmware left is kept.
EffectKeepsUnit(step) ==
  CASE step = "enable"  -> [w EXCEPT !.en = TRUE]
    [] step = "mode"    -> w
    [] step = "output"  -> [w EXCEPT !.out = TRUE]
    [] step = "count"   -> [w EXCEPT !.count = wdtTime % 256, !.sub = 0]
    [] step = "clear"   -> [w EXCEPT !.status = FALSE]
    [] step = "start"   -> [w EXCEPT !.run = TRUE, !.status = FALSE]
    [] step = "stop"    -> [w EXCEPT !.run = FALSE]
    [] step = "reload"  -> [w EXCEPT !.reload = (wdtTime * 15625) % 2^26]
    [] step = "restart" -> [w EXCEPT !.count = w.reload]
    [] step = "unlock"  -> [w EXCEPT !.scu = TRUE]
    [] step = "pin"     -> [w EXCEPT !.pin = @ \/ w.scu]
    [] step = "go"      -> [w EXCEPT !.run = TRUE, !.out = TRUE]

\* Registers of 8 bits, and of 32 for the AST reload value CLOCK * time.
Effect(step) ==
  CASE step = "enable"  -> [w EXCEPT !.en = TRUE]
    [] step = "mode"    -> [w EXCEPT !.unit = "sec"]
    [] step = "output"  -> [w EXCEPT !.out = TRUE]
    [] step = "count"   -> [w EXCEPT !.count = wdtTime % 256, !.sub = 0]
    [] step = "clear"   -> [w EXCEPT !.status = FALSE]
    [] step = "start"   -> [w EXCEPT !.unit = "sec", !.run = TRUE, !.status = FALSE]
    [] step = "stop"    -> [w EXCEPT !.run = FALSE, !.unit = "sec"]
    [] step = "reload"  -> [w EXCEPT !.reload = (wdtTime * 15625) % 2^26]
    [] step = "restart" -> [w EXCEPT !.count = w.reload]
    [] step = "unlock"  -> [w EXCEPT !.scu = TRUE]
    [] step = "pin"     -> [w EXCEPT !.pin = @ \/ w.scu]
    [] step = "go"      -> [w EXCEPT !.run = TRUE, !.out = TRUE, !.unit = "sec"]

WdtInit ==
  /\ family \in DOMAIN Seconds
  /\ w \in PowerOn[family]
  /\ up = TRUE
  /\ wdtPc = 0
  /\ ended = FALSE
  /\ hit = TRUE
  /\ wdtTime \in Seconds[family]
  /\ since = MaxTick[family]
  /\ after = 0

\* main skips five lines.  From the files, whose header has two, fscanf then
\* reads nothing, and chip and base_addr hold what was on the stack.
Start ==
  /\ up
  /\ wdtPc = 0
  /\ wdtPc' = 1
  /\ ended' = FALSE
  /\ hit' \in BOOLEAN
  /\ wdtTime' \in Seconds[family]
  /\ since' = MaxTick[family]
  /\ after' = 0
  /\ UNCHANGED <<family, w, up>>

WdtReturn == wdtPc' = 0 /\ ended' = TRUE /\ after' = 0

ChangeRegister ==
  /\ up
  /\ wdtPc > 0
  /\ hit
  /\ w' = Effect(Changes[wdtPc])
  /\ since' = IF Changes[wdtPc] \in {"count", "go"} THEN 0 ELSE since
  /\ IF wdtPc < Len(Changes) THEN wdtPc' = wdtPc + 1 /\ UNCHANGED <<ended, after>>
     ELSE WdtReturn
  /\ UNCHANGED <<family, up, hit, wdtTime>>

\* An unknown name: an error is printed, and main returns 0 all the same.
Unsupported ==
  /\ up
  /\ wdtPc > 0
  /\ ~hit
  /\ wdtPc' = 0
  /\ UNCHANGED <<family, w, up, ended, hit, wdtTime, since, after>>

Kill ==
  /\ up
  /\ wdtPc > 0
  /\ wdtPc' = 0
  /\ since' = MaxTick[family]
  /\ UNCHANGED <<family, w, up, ended, hit, wdtTime, after>>

\* The machine starts again; the watchdog keeps its registers or gets those
\* of a cold start.
Reboot ==
  /\ ~up
  /\ up' = TRUE
  /\ wdtPc' = 0
  /\ ended' = FALSE
  /\ w' \in PowerOn[family] \cup {w}
  /\ since' = MaxTick[family]
  /\ after' = 0
  /\ UNCHANGED <<family, hit, wdtTime>>

WdtNext == Tick \/ Start \/ ChangeRegister \/ Unsupported \/ Kill \/ Reboot

WdtSpec == WdtInit /\ [][WdtNext]_wdtVars

-----------------------------------------------------------------------------
(* Properties. *)

WdtTypeOK ==
  /\ family \in DOMAIN Seconds
  /\ w \in Registers /\ (family = "F71" => w.unit # "fast")
  /\ up \in BOOLEAN
  /\ wdtPc \in 0..Len(Changes)
  /\ ended \in BOOLEAN
  /\ hit \in BOOLEAN
  /\ wdtTime \in Seconds[family]
  /\ since \in 0..MaxTick[family]
  /\ after \in 0..MaxTick[family]

Left        == (w.count + Second - 1) \div Second    \* seconds to go
AtLeast0(n) == IF n > 0 THEN n ELSE 0

\* The BIOS left a Fintek board's WDTRST pin as GPIO14.
PinTaken == family = "F71" /\ ~w.pin

\* After status 0 without an error message, and until the next run, the
\* watchdog counts in seconds and has as many to go as -t asked for, less
\* those that have passed since the counter was set or at least those since
\* the tool returned, whatever the watchdog was doing before; when it runs out
\* the machine is reset, so that no machine is up that late (main, nct_, fin_
\* and ast_wdt_setup).  With the pin taken, of which the tool knows nothing,
\* the watchdog counts down just the same, but that is all.
ArmedAsAsked ==
  up /\ ended => /\ w.unit = "sec"
                 /\ Left \in AtLeast0(wdtTime - since)..AtLeast0(wdtTime - after)
                 /\ Counting \/ (PinTaken /\ w.count = 0)
                 /\ Resets \/ PinTaken

\* What the changes before have left behind: an AST counter stands still until
\* the last one; the others may be counting, in whatever unit, and reset the
\* machine when they run out, if the pin is theirs, but never count faster
\* than in seconds.
Underway ==
  up /\ wdtPc > 0 =>
    /\ ~ended /\ after = 0
    /\ family = "NCT" => /\ wdtPc > 1 => w.en
                         /\ wdtPc > 2 => w.unit = "sec"
                         /\ wdtPc > 3 => w.count \in (wdtTime - since)..wdtTime /\ w.count > 0
    /\ family = "F71" => /\ wdtPc > 1 => w.en
                         /\ wdtPc > 2 => w.out
                         /\ wdtPc > 3 => /\ w.count \in AtLeast0(wdtTime - since)..wdtTime
                                         /\ w.count > 0 \/ PinTaken
    /\ family = "AST" => /\ wdtPc > 1 => ~w.run /\ w.unit = "sec"
                         /\ wdtPc > 3 => w.reload = 15625 * wdtTime
                         /\ wdtPc > 4 => w.count = w.reload
                         /\ wdtPc > 5 => w.scu
                         /\ wdtPc > 6 => w.pin

WdtInv == WdtTypeOK /\ ArmedAsAsked /\ Underway

\* A machine that is reset after the tool has returned is not reset before
\* the seconds asked for have passed since the counter was set.
NotEarly == ~up /\ ended => since >= wdtTime
=============================================================================
