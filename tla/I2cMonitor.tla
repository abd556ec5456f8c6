----------------------------- MODULE I2cMonitor -----------------------------
(***************************************************************************)
(* The sensor monitor of board S1031 (tools/i2cget.c): a SCH5027 on the    *)
(* SMBus, four of whose inputs are behind a switch that the tool sets with *)
(* the PCH pins GPIO16 and GPIO32.  The chip samples its inputs by itself  *)
(* and keeps the last sample.  Each access to a pin or to a register of    *)
(* the chip is a step.  The least and greatest values, which are only      *)
(* shown, are left out.                                                    *)
(***************************************************************************)
EXTENDS Integers, Sequences

CONSTANTS
  Rows,      \* the sensor table
  Measured,  \* what each row's input may measure
  Limit      \* the limits the chip itself holds for a row

Row   == DOMAIN Rows
None  == -1
Count == 0..(256 * 256 - 1)

\* func is 0..3 behind the switch, -1 for an input of its own, 4 for a fan;
\* hasmin and hasmax say that the row's limit is read from the chip.
ASSUME MonitorAssumption ==
  /\ Rows \in Seq([off : 0..255, func : -1..4, tmin : Int, tmax : Int,
                   hasmin : BOOLEAN, hasmax : BOOLEAN, scale : Nat \ {0}])
  /\ \A r \in Row : Measured[r] # {} /\ Measured[r] \subseteq Count
  /\ \A r \in Row : /\ Rows[r].hasmin => Rows[r].func \in {-1, 4} /\ Limit[r].min \in Int
                    /\ Rows[r].hasmax => Rows[r].func = -1 /\ Limit[r].max \in Int
  /\ \A q, r \in Row : q # r /\ Rows[q].off = Rows[r].off =>
       Rows[q].func # Rows[r].func /\ {Rows[q].func, Rows[r].func} \subseteq 0..3

VARIABLES
  switch,      \* the pins GPIO16 and GPIO32
  sample,      \* what is in the register of each offset: the input and its value
  place,       \* the turn and row it is at, and the step of that row
  low,         \* low byte of a fan's count, None if it failed
  shown,       \* the last reading of each row
  tmin,        \* the limits of each row, None for no upper limit
  tmax,
  error,       \* the rows whose last reading was out of limits
  failed,      \* the reads whose last attempt failed, <<row, what>>
  monitorExit  \* "none", "error" or "key" for status 0, "2" for a failed read

chip == <<switch, sample>>
monitorVars == <<switch, sample, place, low, shown, tmin, tmax, error, failed, monitorExit>>

-----------------------------------------------------------------------------
(* The program: a round consists of a turn for each position of the switch,  *)
(* one for all other rows, and the screen.                                   *)

SetTo(n, f) == [op |-> "pin", pin |-> n, high |-> IF n = 16 THEN f \div 2 = 1 ELSE f % 2 = 1]
Sleep       == [op |-> "sleep"]
Get(r, w)   == [op |-> "get", row |-> r, what |-> w]
CheckRow(r) == [op |-> "check", row |-> r]
Screen      == [op |-> "show"]

\* What is read of a row.
Reads(r) ==
  IF Rows[r].func = 4 THEN IF Rows[r].hasmin THEN <<"low", "high", "minfan">> ELSE <<"low", "high">>
  ELSE IF Rows[r].hasmin THEN IF Rows[r].hasmax THEN <<"cur", "min", "max">> ELSE <<"cur", "min">>
  ELSE IF Rows[r].hasmax THEN <<"cur", "max">> ELSE <<"cur">>

\* Slip: the values are read as soon as the switch is set.
SwitchedAtOnce(f) == <<SetTo(16, f), SetTo(32, f)>>

Switched(f) == <<SetTo(16, f), SetTo(32, f), Sleep>>

\* The places of a round in their order: <<turn, 0>> before the rows of a turn.
TurnOf(r)     == IF Rows[r].func \in 0..3 THEN Rows[r].func ELSE 4
Stops         == {<<t, 0>> : t \in {0, 1, 2, 3, 5}} \cup {<<TurnOf(r), r>> : r \in Row}
Earlier(p, q) == p[1] < q[1] \/ (p[1] = q[1] /\ p[2] < q[2])
After(p)      == CHOOSE q \in Stops : Earlier(p, q) /\ \A o \in Stops : ~(Earlier(p, o) /\ Earlier(o, q))

\* The number of steps at a place, and the one it is at.
Steps(p) == IF p[2] > 0 THEN Len(Reads(p[2])) + 1 ELSE IF p[1] = 5 THEN 1 ELSE Len(Switched(p[1]))
Now ==
  LET r == place[2] k == place[3] IN
  IF r > 0 THEN IF k <= Len(Reads(r)) THEN Get(r, Reads(r)[k]) ELSE CheckRow(r)
  ELSE IF place[1] = 5 THEN Screen ELSE Switched(place[1])[k]

Origin == <<0, 0, 1>>
Onward == IF place[3] < Steps(place) THEN <<place[1], place[2], place[3] + 1>>
          ELSE <<After(place)[1], After(place)[2], 1>>

-----------------------------------------------------------------------------
(* The board. *)

Selected == (IF switch[1] THEN 2 ELSE 0) + (IF switch[2] THEN 1 ELSE 0)
Seen(r)  == Rows[r].func \in {-1, 4, Selected}

Offsets == {Rows[r].off : r \in Row}
RowsAt(o)   == {r \in Row : Rows[r].off = o}

MonitorInit ==
  /\ switch \in BOOLEAN \X BOOLEAN
  /\ \E owner \in [Offsets -> Row] :
       /\ \A o \in Offsets : Rows[owner[o]].off = o
       /\ sample = [o \in Offsets |-> <<owner[o], CHOOSE v \in Measured[owner[o]] : TRUE>>]
  /\ place = Origin
  /\ low = None
  /\ shown = [r \in Row |-> None]
  /\ tmin = [r \in Row |-> Rows[r].tmin]
  /\ tmax = [r \in Row |-> Rows[r].tmax]
  /\ error = {}
  /\ failed = {}
  /\ monitorExit = "none"

\* The chip samples an input the switch lets through.
Sample ==
  /\ monitorExit = "none"
  /\ \E r \in Row : \E v \in Measured[r] :
       Seen(r) /\ sample' = [sample EXCEPT ![Rows[r].off] = <<r, v>>]
  /\ UNCHANGED <<switch, place, low, shown, tmin, tmax, error, failed, monitorExit>>

-----------------------------------------------------------------------------
(* The tool. *)

Doing(op) == monitorExit = "none" /\ Now.op = op

\* gpio_config: the pin is made an output of this level.
SetPin ==
  /\ Doing("pin")
  /\ switch' = IF Now.pin = 16 THEN <<Now.high, switch[2]>> ELSE <<switch[1], Now.high>>
  /\ place' = Onward
  /\ UNCHANGED <<sample, low, shown, tmin, tmax, error, failed, monitorExit>>

\* 350 ms, in which the chip samples every input that it sees.
Wait ==
  /\ Doing("sleep")
  /\ \A o \in Offsets : (\E r \in RowsAt(o) : Seen(r)) => Seen(sample[o][1])
  /\ place' = Onward
  /\ UNCHANGED <<chip, low, shown, tmin, tmax, error, failed, monitorExit>>

Register(r, what) ==
  CASE what = "cur"              -> sample[Rows[r].off][2]
    [] what = "low"              -> sample[Rows[r].off][2] % 256
    [] what = "high"             -> sample[Rows[r].off][2] \div 256
    [] what \in {"min", "minfan"} -> Limit[r].min
    [] what = "max"              -> Limit[r].max

\* Slip: the bytes are kept in 8 bits, a failed one as 255.
SpeedOfBytes(r, lo, hi) ==
  LET Byte(b) == IF b = None THEN 255 ELSE b
      rpm == 256 * Byte(hi) + Byte(lo)
  IN IF rpm = 65535 THEN 0 ELSE IF rpm = 0 THEN 2 * Rows[r].scale ELSE Rows[r].scale \div rpm

\* scale / rpm, of which only the whole part is kept; more than any speed for
\* a count of 0.  A byte that failed makes rpm so great that this is 0, but
\* not negative.
SpeedOf(r, lo, hi) ==
  IF lo = None \/ hi = None \/ 256 * hi + lo = 65535 THEN 0
  ELSE IF 256 * hi + lo = 0 THEN 2 * Rows[r].scale
  ELSE Rows[r].scale \div (256 * hi + lo)

Assign(value) ==
  LET r == Now.row
      w == Now.what
  IN /\ low' = IF w = "low" THEN value ELSE low
     /\ shown' = CASE w = "cur"  -> [shown EXCEPT ![r] = value]
                 [] w = "high" -> [shown EXCEPT ![r] = SpeedOf(r, low, value)]
                 [] OTHER      -> shown
     /\ tmin' = IF w \in {"min", "minfan"} THEN [tmin EXCEPT ![r] = value] ELSE tmin
     /\ tmax' = IF w = "max" THEN [tmax EXCEPT ![r] = value] ELSE tmax

GetRegister ==
  /\ Doing("get")
  /\ Assign(Register(Now.row, Now.what))
  /\ failed' = failed \ {<<Now.row, Now.what>>}
  /\ place' = Onward
  /\ UNCHANGED <<chip, error, monitorExit>>

\* A failed read returns -1, and only a negative reading ends the program.
GetFails ==
  /\ Doing("get")
  /\ Assign(IF Now.what = "minfan" THEN 0 ELSE None)
  /\ failed' = failed \cup {<<Now.row, Now.what>>}
  /\ IF Now.what = "cur" THEN monitorExit' = "2" /\ UNCHANGED place
     ELSE place' = Onward /\ UNCHANGED monitorExit
  /\ UNCHANGED <<chip, error>>

\* Slip: both limits have to be passed.
CheckErrorBoth ==
  /\ Doing("check")
  /\ LET r == Now.row
     IN error' = IF shown[r] < tmin[r] /\ (tmax[r] # None /\ shown[r] > tmax[r])
                 THEN error \cup {r} ELSE error \ {r}
  /\ place' = Onward
  /\ UNCHANGED <<chip, low, shown, tmin, tmax, failed, monitorExit>>

CheckError ==
  /\ Doing("check")
  /\ LET r == Now.row
     IN error' = IF shown[r] < tmin[r] \/ (tmax[r] # None /\ shown[r] > tmax[r])
                 THEN error \cup {r} ELSE error \ {r}
  /\ place' = Onward
  /\ UNCHANGED <<chip, low, shown, tmin, tmax, failed, monitorExit>>

\* The screen is shown.  With an error the next key ends the program;
\* otherwise q does, and after a second there is another round.
Show ==
  /\ Doing("show")
  /\ IF error # {} THEN monitorExit' = "error" /\ UNCHANGED place
     ELSE \/ monitorExit' = "key" /\ UNCHANGED place
          \/ place' = Origin /\ UNCHANGED monitorExit
  /\ UNCHANGED <<chip, low, shown, tmin, tmax, error, failed>>

MonitorNext == Sample \/ SetPin \/ Wait \/ GetRegister \/ GetFails \/ CheckError \/ Show

MonitorSpec == MonitorInit /\ [][MonitorNext]_monitorVars

-----------------------------------------------------------------------------
(* Properties. *)

MonitorTypeOK ==
  /\ switch \in BOOLEAN \X BOOLEAN
  /\ sample \in [Offsets -> Row \X Count]
  /\ \A o \in Offsets : sample[o][1] \in RowsAt(o) /\ sample[o][2] \in Measured[sample[o][1]]
  /\ <<place[1], place[2]>> \in Stops /\ place[3] \in 1..Steps(place)
  /\ low \in 0..255 \cup {None}
  /\ {shown, tmin, tmax} \subseteq [Row -> Int]
  /\ error \subseteq Row
  /\ failed \subseteq Row \X {"cur", "low", "high", "min", "minfan", "max"}
  /\ monitorExit \in {"none", "error", "key", "2"}

\* A reading is taken from a sample of its own row's input, although four
\* rows share a register and the sample of the row before stays in it until
\* the chip takes the next one (main, gpio_config).
OwnSample ==
  Doing("get") /\ Now.what \in {"cur", "low", "high"} =>
    sample[Rows[Now.row].off][1] = Now.row

\* From the time the switch is set, it is at the turn's position; after the
\* wait no register holds a sample from another position.
Settled   == \A o \in Offsets : (\E r \in RowsAt(o) : Seen(r)) => Seen(sample[o][1])
SwitchSet == place[1] < 4 =>
  /\ place[2] = 0 /\ place[3] = 2 => (switch[1] <=> place[1] \div 2 = 1)
  /\ place[2] > 0 \/ place[3] = 3 => Selected = place[1]
  /\ place[2] > 0 => Settled

SampleInv == MonitorTypeOK /\ SwitchSet /\ OwnSample

\* The limits are those of the table, or of the chip once they have been read.
LimitsHeld == \A r \in Row :
  /\ ~Rows[r].hasmin => tmin[r] = Rows[r].tmin
  /\ ~Rows[r].hasmax => tmax[r] = Rows[r].tmax
  /\ place[2] = r => \A m \in 1..(place[3] - 1) : <<r, Reads(r)[m]>> \notin failed =>
       /\ Reads(r)[m] \in {"min", "minfan"} => tmin[r] = Limit[r].min
       /\ Reads(r)[m] = "max" => tmax[r] = Limit[r].max

\* Once a row has been checked in a round, and so for all rows when the screen
\* is shown, it is marked, and ends the program, exactly if its reading is
\* outside the limits of the table, or of the chip where it holds them and they
\* could be read (check_error; "check error", i2cget.c 376).
Bound(own, has, chips) == IF has THEN chips ELSE own
Outside(r) ==
  LET most == Bound(Rows[r].tmax, Rows[r].hasmax, Limit[r].max)
  IN \/ shown[r] < Bound(Rows[r].tmin, Rows[r].hasmin, Limit[r].min)
     \/ most # None /\ shown[r] > most
Blind(r)   == \E w \in {"min", "minfan", "max"} : <<r, w>> \in failed
Checked(r) == Earlier(<<TurnOf(r), r>>, place)
Marks      == \A r \in Row : Checked(r) /\ ~Blind(r) => (r \in error <=> Outside(r))

\* What a failed reading leaves behind: status 2 or, of a fan's bytes, a speed
\* of 0, in whichever order they fail.
Bytes(r) == {<<r, "low">>, <<r, "high">>}
FailuresSeen ==
  /\ (\E r \in Row : <<r, "cur">> \in failed) => monitorExit = "2"
  /\ \A r \in Row : Bytes(r) \cap failed # {} =>
       /\ Rows[r].func = 4
       /\ place[2] = r /\ place[3] = 2 /\ <<r, "low">> \in failed => low = None
       /\ (place[2] = r /\ place[3] > 2) \/ Checked(r) => shown[r] = 0

ErrorsMarked == LimitsHeld /\ Marks /\ FailuresSeen

\* The program does not go on to another round after one in which a reading
\* failed, although the test for a negative reading, which ends it with "Error:
\* Read failed", never applies to a fan: the speed made of a byte that failed
\* is below the fan's lower limit, so that it ends with the error shown (main,
\* read_tacho, check_error).  Only of a fan whose limit is 0, or could not be
\* read either, is a failure lost.
FailureStops ==
  [][place[1] = 5 /\ place' = Origin =>
       \A r \in Row, what \in {"cur", "low", "high"} : <<r, what>> \in failed =>
         /\ Rows[r].func = 4
         /\ Bound(Rows[r].tmin, Rows[r].hasmin, Limit[r].min) <= 0 \/ Blind(r)]_monitorVars
=============================================================================
