----------------------------- MODULE I2cBusses -----------------------------
(***************************************************************************)
(* The list of I2C adapters (tools/i2cbusses.c): gather_i2c_busses fills   *)
(* an array that grows in bunches and ends with an entry without a name;   *)
(* lookup_i2c_bus walks it for a name.  Any allocation may fail.  The      *)
(* adapters are listed in /proc/bus/i2c or in the class directory of       *)
(* sysfs, read entry by entry; if there is neither, it is as if the list   *)
(* were empty.  (Entries of /proc all have names, and need no device       *)
(* directory.)                                                             *)
(***************************************************************************)
EXTENDS Integers, Sequences

CONSTANTS
  Bunch,     \* entries the array grows by
  Name,      \* adapter names
  MaxEntry,  \* bound on the entries of the directory
  Asked      \* names that are looked up

Unread == "unread"    \* an entry whose name cannot be read

ASSUME BussesAssumption ==
  Bunch \in Nat \ {0, 1} /\ Unread \notin Name \cup Asked /\ MaxEntry \in Nat

\* A directory entry is an adapter's name; its number is its place, less one.
Directories == UNION {[1..n -> Name \cup {Unread}] : n \in 0..MaxEntry}

VARIABLES
  dir,     \* the directory
  entry,   \* its next entry
  arg,     \* the name looked up
  array,   \* the array: each place holds <<>> or <<number, name>>
  open,    \* "list" while it is open, "device" after a device's directory was
  count,   \* entries filled
  heap,    \* blocks allocated: the array, and a name for each place
  busPc,   \* "start", "gather", "walk", "free" or "end"
  walked,  \* the entry the walk is at
  bus      \* the result so far

bussesVars == <<dir, entry, arg, array, open, count, heap, busPc, walked, bus>>

Empty == <<>>
NoArray == <<>>
Slot  == {Empty} \cup Nat \X Name
Array == 0      \* the array's block; place p of the array has block p for its name

BussesInit ==
  /\ dir \in Directories
  /\ entry = 1
  /\ arg \in Asked
  /\ array = NoArray
  /\ open = {}
  /\ count = 0
  /\ heap = {}
  /\ busPc = "start"
  /\ walked = 1
  /\ bus = -1

\* The first bunch, and the list is opened.
Allocate ==
  /\ busPc = "start"
  /\ array' = [p \in 1..Bunch |-> Empty]
  /\ heap' = {Array}
  /\ open' = {"list"}
  /\ busPc' = "gather"
  /\ UNCHANGED <<dir, entry, arg, count, walked, bus>>

\* There is no memory for it.
NoBunch ==
  /\ busPc = "start"
  /\ bus' = -3
  /\ busPc' = "end"
  /\ UNCHANGED <<dir, entry, arg, array, open, count, heap, walked>>

\* For the name of an adapter its device's directory may be opened; it is never
\* closed.
OpensDevice == \E d \in SUBSET {"device"} : open' = open \cup d

\* Slip: room is made when there is none left.
FullLate == count > 0 /\ count % Bunch = 0

Full == (count + 1) % Bunch = 0

Skip ==
  /\ busPc = "gather"
  /\ entry <= Len(dir)
  /\ dir[entry] = Unread
  /\ entry' = entry + 1
  /\ OpensDevice
  /\ UNCHANGED <<dir, arg, array, count, heap, busPc, walked, bus>>

\* more_adapters, when there is need, and a copy of the name.
Add ==
  /\ busPc = "gather"
  /\ entry <= Len(dir)
  /\ dir[entry] # Unread
  /\ LET room == IF Full THEN array \o [p \in 1..Bunch |-> Empty] ELSE array
     IN array' = [p \in 1..Len(room) \cup {count + 1} |->
                    IF p = count + 1 THEN <<entry - 1, dir[entry]>> ELSE room[p]]
  /\ heap' = heap \cup {count + 1}
  /\ count' = count + 1
  /\ entry' = entry + 1
  /\ OpensDevice
  /\ UNCHANGED <<dir, arg, busPc, walked, bus>>

\* The names an array without holes lets free_adapters reach.
Reached == {p \in 1..Len(array) : \A q \in 1..p : array[q] # Empty}

\* Slip: the array is given back without the names.
NoMemoryArray ==
  /\ busPc = "gather"
  /\ entry <= Len(dir)
  /\ dir[entry] # Unread
  /\ heap' = heap \ {Array}
  /\ OpensDevice
  /\ bus' = -3
  /\ busPc' = "end"
  /\ UNCHANGED <<dir, entry, arg, array, count, walked>>

\* realloc or strdup fails: the memory is given back, but the list is not
\* closed, and the result is -3.
NoMemory ==
  /\ busPc = "gather"
  /\ entry <= Len(dir)
  /\ dir[entry] # Unread
  /\ heap' = heap \ ({Array} \cup Reached)
  /\ OpensDevice
  /\ bus' = -3
  /\ busPc' = "end"
  /\ UNCHANGED <<dir, entry, arg, array, count, walked>>

Gathered ==
  /\ busPc = "gather"
  /\ entry > Len(dir)
  /\ open' = open \ {"list"}
  /\ busPc' = "walk"
  /\ UNCHANGED <<dir, entry, arg, array, count, heap, walked, bus>>

\* Slip: the first match ends the walk.
WalkFirst ==
  /\ busPc = "walk"
  /\ IF array[walked] = Empty THEN busPc' = "free" /\ UNCHANGED <<walked, bus>>
     ELSE IF array[walked][2] # arg THEN walked' = walked + 1 /\ UNCHANGED <<busPc, bus>>
     ELSE bus' = array[walked][1] /\ busPc' = "free" /\ UNCHANGED walked
  /\ UNCHANGED <<dir, entry, arg, array, open, count, heap>>

\* lookup_i2c_bus_by_name: up to the entry without a name, or to a second match.
Walk ==
  /\ busPc = "walk"
  /\ IF array[walked] = Empty THEN busPc' = "free" /\ UNCHANGED <<walked, bus>>
     ELSE IF array[walked][2] # arg THEN walked' = walked + 1 /\ UNCHANGED <<busPc, bus>>
     ELSE IF bus >= 0 THEN bus' = -4 /\ busPc' = "free" /\ UNCHANGED walked
     ELSE bus' = array[walked][1] /\ walked' = walked + 1 /\ UNCHANGED busPc
  /\ UNCHANGED <<dir, entry, arg, array, open, count, heap>>

Free ==
  /\ busPc = "free"
  /\ heap' = heap \ ({Array} \cup Reached)
  /\ busPc' = "end"
  /\ UNCHANGED <<dir, entry, arg, array, open, count, walked, bus>>

BussesNext == Allocate \/ NoBunch \/ Skip \/ Add \/ NoMemory \/ Gathered \/ Walk \/ Free

BussesSpec == BussesInit /\ [][BussesNext]_bussesVars

-----------------------------------------------------------------------------
(* Properties. *)

BussesTypeOK ==
  /\ dir \in Directories
  /\ entry \in 1..(Len(dir) + 1)
  /\ arg \in Asked
  /\ array \in Seq(Slot)
  /\ open \subseteq {"list", "device"}
  /\ count \in 0..(entry - 1)
  /\ busPc \in {"start", "gather", "walk", "free", "end"}
  /\ bus \in {-1, -3, -4} \cup Nat

\* However many adapters there are, none is written behind the array, and
\* after the last one there is an entry without a name, where every walk and
\* free_adapters stop (more_adapters, gather_i2c_busses).
Ended == array # NoArray =>
  /\ Len(array) % Bunch = 0
  /\ count < Len(array)
  /\ \A p \in 1..Len(array) : array[p] = Empty <=> p > count

\* The filled places hold the named entries read so far, each once.
NamesListed ==
  /\ \A p \in 1..count :
       /\ array[p] \in (0..(entry - 2)) \X Name
       /\ dir[array[p][1] + 1] = array[p][2]
  /\ \A p, q \in 1..count : array[p][1] = array[q][1] => p = q
  /\ \A n \in 1..(entry - 1) :
       dir[n] # Unread => \E p \in 1..count : array[p][1] = n - 1

\* The array has its block, and each filled place one for its name.
Allocated == heap = IF busPc \in {"start", "end"} THEN {} ELSE {Array} \cup 1..count

\* There is an array while it is used, and the list is open while it is read.
Opened ==
  /\ busPc = "start" => array = NoArray
  /\ busPc \in {"gather", "walk", "free"} => array # NoArray
  /\ "list" \in open <=> busPc = "gather" \/ (busPc = "end" /\ bus = -3 /\ array # NoArray)

\* What the walk has found in the places before the present one.
Looked ==
  /\ busPc \in {"start", "gather"} => walked = 1 /\ bus = -1
  /\ busPc = "start" => entry = 1 /\ count = 0
  /\ busPc \in {"walk", "free"} =>
       /\ entry = Len(dir) + 1
       /\ walked \in 1..(count + 1)
       /\ LET hits == {p \in 1..(walked - 1) : array[p][2] = arg}
          IN CASE bus = -1 -> hits = {}
               [] bus >= 0 -> \E p \in hits : hits = {p} /\ array[p][1] = bus
               [] OTHER    -> bus = -4 /\ busPc = "free" /\ array[walked][2] = arg /\ hits # {}
  /\ busPc = "free" => IF bus = -4 THEN walked <= count ELSE walked = count + 1

BussesInv == BussesTypeOK /\ Ended /\ NamesListed /\ Allocated /\ Opened /\ Looked

\* A number is returned only if one adapter alone has the name, and then it
\* is that adapter's; -1, -3 and -4 mean no adapter, no memory and several
\* (lookup_i2c_bus_by_name).
Matches == {n \in DOMAIN dir : dir[n] = arg}
LookupTells ==
  busPc = "end" =>
    CASE bus >= 0 -> Matches = {bus + 1}
      [] bus = -1 -> Matches = {}
      [] bus = -4 -> \E m, n \in Matches : m # n
      [] OTHER    -> TRUE

\* Whichever allocation fails, all memory is given back (free_adapters).  The
\* stream that the names are read from is not: it is left open exactly if an
\* allocation fails while they are read, by the returns from within the loops
\* (gather_i2c_busses).  Of a device's directory nothing is to be said here: no
\* line closes one.
Leftovers ==
  busPc = "end" => /\ heap = {}
                   /\ "list" \in open <=> bus = -3 /\ array # NoArray
=============================================================================
