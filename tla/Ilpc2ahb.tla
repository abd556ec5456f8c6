------------------------------ MODULE Ilpc2ahb ------------------------------
(***************************************************************************)
(* The iLPC2AHB device of the AST chips (tools/libsio.c 182 to 342): a     *)
(* call of the library writes the length, the address and the data of a    *)
(* bus access into registers F0h to F8h, one by one, and triggers it       *)
(* through FEh.  The registers keep what an earlier, killed run wrote.     *)
(* Each access to a register is one step (see SioPorts).                   *)
(***************************************************************************)
EXTENDS Ahb

CONSTANT Regs0    \* contents of F0h..F3h, F4h..F7h, length and enable before

VARIABLES
  f,     \* the registers F0h..F7h, by their last digit
  len,   \* F8h: 0 for one byte, 2 for four
  on,    \* the device is enabled
  pos    \* the register access that is next in each process's call

vars == <<ahbVars, f, len, on, pos>>

Regs == [0..7 -> 0..255]

ASSUME BridgeAssumption ==
  /\ Regs0 \subseteq [f : Regs, len : {0, 2}, on : BOOLEAN]
  /\ Val \subseteq 0..255
  /\ \A c \in Call : c.addr \div 256^3 < 256

\* F0h..F3h hold the address from its top byte down, F7h..F4h the data from
\* the least significant byte up.
AddrByte(a, i) == (a \div 256^(3 - i)) % 256
Addr == LET byte(i) == f[i] * 256^(3 - i) IN byte(0) + byte(1) + byte(2) + byte(3)

-----------------------------------------------------------------------------
(* The library. *)

\* Every call begins with sio_ilpc2ahb_setup and the address.
Aim(c)   == IF Reads(c) THEN Base(c.addr) ELSE c.addr
Width(c) == IF c.op \in {"readl", "writel"} THEN 2 ELSE 0
Setup(c, i) ==
  CASE i = 1 -> <<"enable">>
    [] i = 2 -> <<"len", Width(c)>>
    [] i \in 3..6 -> <<"put", i - 3, AddrByte(Aim(c), i - 3)>>

\* The accesses that follow, the seventh and on.
Use(c, i) ==
  CASE c.op = "read"   -> IF i = 7 THEN <<"fetch">> ELSE <<"get", 7 - (c.addr % 4)>>
    [] c.op = "readl"  -> IF i = 7 THEN <<"fetch">> ELSE <<"get", 15 - i>>
    [] c.op = "write"  -> IF i = 8 THEN <<"store">> ELSE <<"put", 7, c.bytes[1]>>
    [] c.op = "writel" -> IF i = 11 THEN <<"store">> ELSE <<"put", i - 3, c.bytes[11 - i]>>

Accesses(c) == [i \in 1..(IF Width(c) = 0 THEN 8 ELSE 11) |->
                  IF i < 7 THEN Setup(c, i) ELSE Use(c, i)]

Program == [c \in Call |-> Accesses(c)]
Now(p)  == Program[call[p]][pos[p]]
Busy(p) == at[p] # "idle"

-----------------------------------------------------------------------------
BridgeInit ==
  /\ Init
  /\ \E r \in Regs0 : f = r.f /\ len = r.len /\ on = r.on
  /\ pos = [p \in Proc |-> 1]

\* Slip: two tools use the device at once.
BeginAny(p) ==
  /\ Ask(p)
  /\ pos' = [pos EXCEPT ![p] = 1]
  /\ UNCHANGED <<f, len, on>>

Begin(p) ==
  /\ \A q \in Proc : ~Busy(q)
  /\ Ask(p)
  /\ pos' = [pos EXCEPT ![p] = 1]
  /\ UNCHANGED <<f, len, on>>

\* The call returns after its last access.
Step(p) ==
  /\ Busy(p)
  /\ IF pos[p] < Len(Program[call[p]])
     THEN pos' = [pos EXCEPT ![p] = @ + 1] /\ UNCHANGED at
     ELSE pos' = [pos EXCEPT ![p] = 1] /\ at' = [at EXCEPT ![p] = "idle"]
  /\ UNCHANGED call

Enable(p) ==
  /\ Step(p)
  /\ Now(p)[1] = "enable"
  /\ on' = TRUE
  /\ UNCHANGED <<mem, res, f, len>>

\* Slip: b |= len without the mask, which never takes a length back to 0.
SetLenNoMask(p) ==
  /\ Step(p)
  /\ Now(p)[1] = "len"
  /\ len' = IF Now(p)[2] = 0 THEN len ELSE Now(p)[2]
  /\ UNCHANGED <<mem, res, f, on>>

\* b &= ~0x03; b |= len, of a register whose two low bits are the length.
SetLen(p) ==
  /\ Step(p)
  /\ Now(p)[1] = "len"
  /\ len' = Now(p)[2]
  /\ UNCHANGED <<mem, res, f, on>>

Put(p) ==
  /\ Step(p)
  /\ Now(p)[1] = "put"
  /\ f' = [f EXCEPT ![Now(p)[2]] = Now(p)[3]]
  /\ UNCHANGED <<mem, res, len, on>>

Get(p) ==
  /\ Step(p)
  /\ Now(p)[1] = "get"
  /\ res' = [res EXCEPT ![p] = Append(@, f[Now(p)[2]])]
  /\ UNCHANGED <<mem, f, len, on>>

\* Reading FEh: the device fetches the whole word.
Fetch(p) ==
  /\ Step(p)
  /\ Now(p)[1] = "fetch"
  /\ f' = IF on /\ Addr \in Word
          THEN [i \in 0..7 |-> IF i < 4 THEN f[i] ELSE mem[Addr][7 - i]] ELSE f
  /\ UNCHANGED <<mem, res, len, on>>

\* Writing CFh to FEh: the device stores F7h, or all four data registers.
Store(p) ==
  /\ Step(p)
  /\ Now(p)[1] = "store"
  /\ mem' = IF ~on \/ Base(Addr) \notin Word THEN mem
            ELSE IF len = 0 THEN [mem EXCEPT ![Base(Addr)][Addr % 4] = f[7]]
            ELSE [mem EXCEPT ![Base(Addr)] = [b \in Byte4 |-> f[7 - b]]]
  /\ UNCHANGED <<res, f, len, on>>

Kill(p) ==
  /\ Busy(p)
  /\ at' = [at EXCEPT ![p] = "idle"]
  /\ pos' = [pos EXCEPT ![p] = 1]
  /\ res' = [res EXCEPT ![p] = <<>>]
  /\ UNCHANGED <<mem, call, f, len, on>>

BmcStep == Bmc /\ UNCHANGED <<f, len, on, pos>>

BridgeNext == BmcStep \/ \E p \in Proc :
  Begin(p) \/ Enable(p) \/ SetLen(p) \/ Put(p) \/ Get(p) \/ Fetch(p) \/ Store(p) \/ Kill(p)

BridgeSpec == BridgeInit /\ [][BridgeNext]_vars

-----------------------------------------------------------------------------
(* Properties. *)

TypeOK ==
  /\ mem \in [Word -> [Byte4 -> Val]]
  /\ call \in [Proc -> Call]
  /\ at \in [Proc -> {"idle", "asked"}]
  /\ DOMAIN res = Proc
  /\ DOMAIN pos = Proc
  /\ f \in Regs
  /\ len \in {0, 2}
  /\ on \in BOOLEAN
  /\ \A p \in Proc : pos[p] \in DOMAIN Program[call[p]]

\* What a call has written to the device so far is still there: no other tool
\* and no remainder of a killed one comes in between (sio_ilpc2ahb_setup).
InPlace(a) ==
  /\ a[1] = "enable" => on
  /\ a[1] = "len" => len = a[2]
  /\ a[1] = "put" => f[a[2]] = a[3]
Prepared == \A p \in Proc : Busy(p) => \A i \in 1..(pos[p] - 1) : InPlace(Program[call[p]][i])

\* One call at a time has the device.
OneCall == \A p, q \in Proc : Busy(p) /\ Busy(q) => p = q

\* The bytes a call has collected are those the device fetched.
Collected == \A p \in Proc : Busy(p) =>
  res[p] = IF call[p].op = "readl" /\ pos[p] > 8 THEN [b \in 1..(pos[p] - 8) |-> f[8 - b]]
           ELSE <<>>

IInv == TypeOK /\ OneCall /\ Prepared /\ Collected

\* A read is past its trigger, and what it will return then.
Past(p)   == Busy(p) /\ Reads(call[p]) /\ pos[p] > 7
Answer(c) == IF c.op = "read" THEN <<f[7 - (c.addr % 4)]>> ELSE [b \in 1..4 |-> f[8 - b]]

\* Every call is one access to the byte or the word it names, with the length,
\* address and data of no other call: a word is read in one piece although
\* its four bytes are collected one by one and the BMC changes it meanwhile,
\* and a run killed anywhere in a call leaves nothing that the next call uses
\* (sio_ilpc2ahb_read, _readl, _write, _writel, _setup).
Memory == INSTANCE Ahb WITH
  at  <- [p \in Proc |-> IF Past(p) THEN "served" ELSE at[p]],
  res <- [p \in Proc |-> IF Past(p) THEN Answer(call[p]) ELSE res[p]]
MemoryImplemented == Memory!Spec
=============================================================================
