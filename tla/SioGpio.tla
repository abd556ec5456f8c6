------------------------------ MODULE SioGpio ------------------------------
(***************************************************************************)
(* Pins of a super I/O chip: the tools gpio (tools/gpio.c 110 to 118 and   *)
(* 205 to 257) and loopback (tools/loopback.c 52 to 128 and 213 to 236) on *)
(* chips of Nuvoton.  Each library call is one step, as SioPorts allows;   *)
(* reading a level register shows the wire of the pins that are inputs.    *)
(* Pins are jumpered in pairs, some jumpers may be missing.                *)
(***************************************************************************)
EXTENDS SioTables

CONSTANTS
  Chip,      \* chips that configuration files name
  Pin,       \* for each chip, pins of interest
  Command,   \* runs: the numbers after -g and -o, or the pairs of the file
  Jumper,    \* the pairs a board may have jumpered: sets of sets of two pins
  BitsOn     \* bits that are 1 before the first run

\* Register bits, <<device, index, bit>>: the group's enable bit, the pin's
\* direction, 1 for an input, and its level.
GroupBits == [c \in Chip |-> [g \in Pin[c] |-> <<Bits(EnLdn(c, g)), 48, EnOffset(c, g)>>]]
InBits    == [c \in Chip |-> [g \in Pin[c] |-> <<Bits(Ldn(c, g)), DirIndex(c, g), g % 10>>]]
DataBits  == [c \in Chip |-> [g \in Pin[c] |-> <<Bits(Ldn(c, g)), DirIndex(c, g) + 1, g % 10>>]]

\* nct_get_kind, and the numbers that are not incorrect.
Supported(c) == c \in {"NCT6776F", "NCT6779D", "NCT5533D"}
Known(c, g)  == -1 \notin {EnLdn(c, g), EnOffset(c, g), DirIndex(c, g)}

\* The pins of Pin are the chip's own: no two share a bit, and those of one
\* register are of one group.  A jumper joins just the two pins of its pair.
ASSUME GpioAssumption == \A c \in Chip :
  /\ Pin[c] \subseteq 0..109
  /\ \A g \in Pin[c] : DirIndex(c, g) # -1 /\ g % 10 < 8 /\ (Supported(c) => Known(c, g))
  /\ \A g, h \in Pin[c] :
       /\ g # h => InBits[c][g] # InBits[c][h]
       /\ Bits(Ldn(c, g)) = Bits(Ldn(c, h)) /\ DirIndex(c, g) = DirIndex(c, h) =>
            GroupBits[c][g] = GroupBits[c][h]
  /\ Command[c] \subseteq [tool : {"gpio"}, gpios : Seq(0..127) \ {<<>>}, level : BOOLEAN]
                    \cup [tool : {"loopback"}, pairs : Seq(Pin[c] \X Pin[c]) \ {<<>>}]
  /\ \A x \in Command[c] : x.tool = "loopback" => \A k \in DOMAIN x.pairs :
       LET p == x.pairs[k] IN
       /\ p[1] # p[2]
       /\ \A b \in Jumper[c] : \A w \in b : p[1] \in w \/ p[2] \in w => w = {p[1], p[2]}
  /\ \A b \in BitsOn[c] : b \subseteq Byte \X (0..255) \X (0..7)

VARIABLES
  chip,   \* the chip
  bits,   \* the bits of the chip that are 1
  board,  \* the jumpers in place
  cmd,    \* what is run
  part,   \* the pin, or the call of sio_gpio_set_then_read, it is at
  callNo, \* the library call in that part
  exit    \* "none" while it runs, or how it ended

pinVars == <<chip, bits, board, cmd, part, callNo, exit>>

-----------------------------------------------------------------------------
(* The board. *)

Pins        == Pin[chip]
GroupBit(g) == GroupBits[chip][g]
InBit(g)    == InBits[chip][g]
DataBit(g)  == DataBits[chip][g]

Drives(g) == GroupBit(g) \in bits /\ InBit(g) \notin bits
Wire(g)   == {g} \cup UNION {w \in board : g \in w}

\* Levels that may be read from a pin: what is driven on its wire; an open
\* or undriven wire is steadily low here.
Levels(g) ==
  LET drivers == {h \in Wire(g) : Drives(h)}
  IN IF Drives(g) \/ drivers = {} THEN {DataBit(g) \in bits /\ Drives(g)}
     ELSE {(DataBit(h) \in bits) : h \in drivers}

-----------------------------------------------------------------------------
(* The tools. *)

\* sio_gpio_config on one pin; its result is ignored.
Configure(c, g, high) ==
  IF ~Supported(c) THEN <<Enter, Exit>>
  ELSE <<Enter>> \o (IF c = "NCT5533D" THEN MultiFunc(g) ELSE <<>>)
       \o Reach(c, g, DirOut(DirIndex(c, g), g % 10, high)) \o <<Exit>>

\* sio_gpio_set_then_read; the calls after a GiveUp are never reached.
Expect(g, high) == [call |-> "expect", pin |-> g, high |-> high]
SetThenRead(c, o, i, high) ==
  (IF c = "NCT5533D" THEN MultiFunc(o) \o MultiFunc(i) ELSE <<>>)
    \o Reach(c, o, DirOut(DirIndex(c, o), o % 10, high))
    \o Reach(c, i, DirIn(DirIndex(c, i), i % 10))
    \o <<Expect(i, high)>>

Parts(x) == IF x.tool = "gpio" THEN Len(x.gpios) ELSE 4 * Len(x.pairs)

\* Each pair is driven LOW and HIGH, in both directions, in one session.
Part(c, x, n) ==
  IF x.tool = "gpio" THEN Configure(c, x.gpios[n], x.level)
  ELSE LET p == x.pairs[(n + 3) \div 4]
           turn == (n + 3) % 4
       IN (IF turn = 0 THEN <<Enter>> ELSE <<>>)
          \o SetThenRead(c, p[IF turn < 2 THEN 1 ELSE 2], p[IF turn < 2 THEN 2 ELSE 1], turn % 2 = 1)
          \o (IF turn = 3 THEN <<Exit>> ELSE <<>>)

\* The library calls of every run.
CallsOf == [c \in Chip |-> [x \in Command[c] |-> [n \in 1..Parts(x) |-> Part(c, x, n)]]]

PartCalls == CallsOf[chip][cmd][part]
NowCall   == PartCalls[callNo]

PinsInit ==
  /\ chip \in Chip
  /\ bits \in BitsOn[chip]
  /\ board \in Jumper[chip]
  /\ cmd \in Command[chip]
  /\ part = 1
  /\ callNo = 1
  /\ exit = "none"

Advance ==
  IF callNo < Len(PartCalls) THEN callNo' = callNo + 1 /\ UNCHANGED <<part, exit>>
  ELSE IF part < Parts(cmd) THEN part' = part + 1 /\ callNo' = 1 /\ UNCHANGED exit
  ELSE exit' = "0" /\ UNCHANGED <<part, callNo>>

\* The pins whose level bits a change of this register writes back although
\* nobody drives them.
Floating(cell) == {h \in Pins : ~Drives(h) /\ <<DataBit(h)[1], DataBit(h)[2]>> = cell}

\* A change of a register.
Put ==
  /\ exit = "none"
  /\ NowCall.call = "change"
  /\ LET cell == CellAt(PartCalls, callNo)
         of(bs) == {<<cell[1], cell[2], b>> : b \in bs}
         loose == {DataBit(h) : h \in Floating(cell)}
         high == {DataBit(h) : h \in {h \in Floating(cell) : TRUE \in Levels(h)}}
     IN bits' = (((bits \ loose) \cup high) \ of(NowCall.clear)) \cup of(NowCall.set)
  /\ Advance
  /\ UNCHANGED <<chip, board, cmd>>

Session ==
  /\ exit = "none"
  /\ NowCall.call \in {"enter", "exit", "select"}
  /\ Advance
  /\ UNCHANGED <<chip, bits, board, cmd>>

Check ==
  /\ exit = "none"
  /\ NowCall.call = "expect"
  /\ \E level \in Levels(NowCall.pin) :
       IF level = NowCall.high THEN Advance
       ELSE exit' = "1" /\ UNCHANGED <<part, callNo>>
  /\ UNCHANGED <<chip, bits, board, cmd>>

Refuse ==
  /\ exit = "none"
  /\ NowCall = GiveUp
  /\ exit' = "refused"
  /\ UNCHANGED <<chip, bits, board, cmd, part, callNo>>

\* The tool has ended, or is killed, and is run again, perhaps on another board.
Again ==
  /\ cmd' \in Command[chip]
  /\ board' \in Jumper[chip]
  /\ part' = 1
  /\ callNo' = 1
  /\ exit' = "none"
  /\ UNCHANGED <<chip, bits>>

PinsNext == Put \/ Session \/ Check \/ Refuse \/ Again

PinsSpec == PinsInit /\ [][PinsNext]_pinVars

-----------------------------------------------------------------------------
(* Properties. *)

PinsTypeOK ==
  /\ chip \in Chip
  /\ bits \subseteq Byte \X (0..255) \X (0..7)
  /\ board \in Jumper[chip]
  /\ cmd \in Command[chip]
  /\ part \in 1..Parts(cmd)
  /\ callNo \in DOMAIN PartCalls
  /\ exit \in {"none", "0", "1", "refused"}

\* The change has been made and not been undone.
Held(calls, m) ==
  LET cell == CellAt(calls, m)
  IN \A b \in calls[m].clear : <<cell[1], cell[2], b>> \in bits <=> b \in calls[m].set

\* The changes of the present part so far are in place.
Progress == \A m \in 1..(callNo - 1) :
  PartCalls[m] # GiveUp /\ (PartCalls[m].call = "change" => Held(PartCalls, m))

\* Every pin the run is done with is an output at the level asked for, its
\* group is enabled, and on an NCT5533D its pin function is selected: no call
\* for a later pin, whose group may use the same indices in another device,
\* undoes it, and status 0 means that this holds of all pins named
\* (sio_gpio_config).
AsAsked(g, high) ==
  LET calls == Configure(chip, g, high)
  IN Known(chip, g) /\ Drives(g) /\ \A m \in DOMAIN calls : calls[m].call = "change" => Held(calls, m)

DoneAsAsked ==
  cmd.tool = "gpio" /\ Supported(chip) =>
    \A k \in 1..(IF exit = "0" THEN part ELSE part - 1) : AsAsked(cmd.gpios[k], cmd.level)

PinsInv == PinsTypeOK /\ Progress /\ DoneAsAsked

\* The direction of a pin and the level it drives, or will drive once its
\* group is enabled, are changed only by runs that name it: groups share
\* register indices across devices (sio_gpio_enable, sio_gpio_dir_out).
Named == IF cmd.tool = "gpio" THEN {cmd.gpios[k] : k \in DOMAIN cmd.gpios}
         ELSE UNION {{cmd.pairs[k][1], cmd.pairs[k][2]} : k \in DOMAIN cmd.pairs}
Face(g, b) == <<InBit(g) \in b, InBit(g) \notin b /\ DataBit(g) \in b>>
OthersKept == [][\A g \in Pins \ Named : Face(g, bits') = Face(g, bits)]_pinVars

\* Status 0 of loopback means that every pair is jumpered, for a pair that has
\* let HIGH through is; status 1 that the pair it gave up on is not
\* (sio_gpio_set_then_read).
Jumpered(k) == {cmd.pairs[k][1], cmd.pairs[k][2]} \in board
LoopbackTells ==
  cmd.tool = "loopback" =>
    /\ \A k \in DOMAIN cmd.pairs : part > 4 * k - 2 => Jumpered(k)
    /\ exit = "0" => \A k \in DOMAIN cmd.pairs : Jumpered(k)
    /\ exit = "1" => ~Jumpered((part + 3) \div 4)

\* The numbers after -g are pins of the chip or rejected by a table (libsio.c
\* 418 accepts others on an NCT5533D).
OwnNumbers == \A c \in Chip : \A x \in Command[c] : x.tool = "gpio" =>
  \A k \in DOMAIN x.gpios : x.gpios[k] \in Pin[c] \/ ~Known(c, x.gpios[k])

\* A number of one group changes no pin of another: the register table's
\* comments give GPIO2 device 9 and GPIO7 device 7 (libsio.c 412 to 419).
OnlyItsGroup ==
  [][cmd.tool = "gpio" => \A g \in Pins :
       Face(g, bits') # Face(g, bits) => g \div 10 = cmd.gpios[part] \div 10]_pinVars
=============================================================================
