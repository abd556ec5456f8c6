-------------------------------- MODULE Pins --------------------------------
(***************************************************************************)
(* GPIO pins as the tools use them: one atomic step for each bit that a    *)
(* library call changes (libpch.c; f71889ad_gpio_dir_out and ast_*_setup   *)
(* of bypass.c follow the same read-modify-write pattern).  PchGpio shows  *)
(* under which condition the register accesses implement these steps.      *)
(*                                                                         *)
(* A pin is driven when it is used as GPIO and its direction is output;    *)
(* otherwise its level comes from the board.  A level register holds the   *)
(* bits of a whole bank, so writing one bit of it also writes back what    *)
(* was read for the neighbours; of an undriven neighbour that is the level *)
(* of the wire at that moment, so its latch may end up with any value.     *)
(***************************************************************************)
CONSTANTS
  Pin,    \* the GPIO numbers in use
  Bank,   \* the level register a pin belongs to
  Pull    \* the pins the board pulls HIGH while nobody drives them

VARIABLES
  use,    \* pins switched from their native function to GPIO
  out,    \* pins whose direction is output
  latch   \* pins whose output latch holds HIGH

pinVars == <<use, out, latch>>

PinsTypeOK ==
  /\ use \subseteq Pin
  /\ out \subseteq Pin
  /\ latch \subseteq Pin

Driven == use \cap out

Level(g) == IF g \in Driven THEN g \in latch ELSE g \in Pull

Enable(g) ==
  /\ use' = use \cup {g}
  /\ UNCHANGED <<out, latch>>

DirOut(g) ==
  /\ out' = out \cup {g}
  /\ UNCHANGED <<use, latch>>

DirIn(g) ==
  /\ out' = out \ {g}
  /\ UNCHANGED <<use, latch>>

\* The undriven pins whose latch bits travel with a write of g's level.
Shared(g) == {h \in Pin \ Driven : h # g /\ Bank[h] = Bank[g]}

SetLevel(g, high) ==
  /\ \E wire \in SUBSET Shared(g) :
       latch' = (latch \ (Shared(g) \cup {g})) \cup wire
                  \cup (IF high THEN {g} ELSE {})
  /\ UNCHANGED <<use, out>>

Next == \E g \in Pin :
  \/ Enable(g)
  \/ DirOut(g)
  \/ DirIn(g)
  \/ \E high \in BOOLEAN : SetLevel(g, high)

Spec == PinsTypeOK /\ [][Next]_pinVars
=============================================================================
