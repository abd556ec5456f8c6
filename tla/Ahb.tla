-------------------------------- MODULE Ahb --------------------------------
(***************************************************************************)
(* The memory of the BMC as the tools use it through sio_ilpc2ahb_read,    *)
(* _readl, _write and _writel (tools/libsio.c 185 to 320): a call reads or *)
(* writes one byte, or four bytes of a word, in one step between its       *)
(* beginning and its end.  The BMC changes some bytes at any time.         *)
(***************************************************************************)
EXTENDS Integers, Sequences

CONSTANTS
  Proc,      \* processes that use the BMC
  Word,      \* the words of interest, by their address
  Val,       \* values of a byte
  Own,       \* the bytes the BMC changes itself, as <<word, byte>>
  Mem0,      \* contents of the words in the beginning
  Call       \* calls: [op, addr, bytes], bytes least significant first

Byte4 == 0..3

ASSUME AhbAssumption ==
  /\ Own \subseteq Word \X Byte4
  /\ Mem0 \subseteq [Word -> [Byte4 -> Val]]
  /\ \A w \in Word : w \in Nat /\ w % 4 = 0
  /\ \A c \in Call :
       /\ c.op \in {"read", "readl", "write", "writel"}
       /\ c.addr \in Nat
       /\ (c.addr - (c.addr % 4)) \in Word
       /\ c.op \in {"readl", "writel"} => c.addr % 4 = 0
       /\ c.op = "write" => c.bytes \in Seq(Val) /\ Len(c.bytes) = 1
       /\ c.op = "writel" => c.bytes \in Seq(Val) /\ Len(c.bytes) = 4

VARIABLES
  mem,   \* mem[w][b]: byte b of the word at address w
  call,  \* what each process called last
  at,    \* "idle", "asked" or "served"
  res    \* the bytes it was given

ahbVars == <<mem, call, at, res>>

Base(a)  == a - (a % 4)
Reads(c) == c.op \in {"read", "readl"}

\* What a call reads and leaves in memory.
Got(c) == IF c.op = "read" THEN <<mem[Base(c.addr)][c.addr % 4]>>
          ELSE [b \in 1..4 |-> mem[c.addr][b - 1]]
Left(c) ==
  CASE c.op = "write"  -> [mem EXCEPT ![Base(c.addr)][c.addr % 4] = c.bytes[1]]
    [] c.op = "writel" -> [mem EXCEPT ![c.addr] = [b \in Byte4 |-> c.bytes[b + 1]]]
    [] OTHER           -> mem

Init ==
  /\ mem \in Mem0
  /\ call \in [Proc -> Call]
  /\ at = [p \in Proc |-> "idle"]
  /\ res = [p \in Proc |-> <<>>]

Ask(p) ==
  /\ at[p] = "idle"
  /\ at' = [at EXCEPT ![p] = "asked"]
  /\ \E c \in Call : call' = [call EXCEPT ![p] = c]
  /\ res' = [res EXCEPT ![p] = <<>>]
  /\ UNCHANGED mem

\* A write may return at once.
Serve(p) ==
  /\ at[p] = "asked"
  /\ \E a \in {"served", "idle"} : at' = [at EXCEPT ![p] = a]
  /\ mem' = Left(call[p])
  /\ res' = [res EXCEPT ![p] = IF Reads(call[p]) THEN Got(call[p]) ELSE <<>>]
  /\ UNCHANGED call

\* The call returns, or the tool is killed and never gets the answer.
Leave(p) ==
  /\ at[p] # "idle"
  /\ at' = [at EXCEPT ![p] = "idle"]
  /\ \E r \in {res[p], <<>>} : res' = [res EXCEPT ![p] = r]
  /\ UNCHANGED <<mem, call>>

Bmc ==
  /\ \E o \in Own, v \in Val : mem' = [mem EXCEPT ![o[1]][o[2]] = v]
  /\ UNCHANGED <<call, at, res>>

Next == Bmc \/ \E p \in Proc : Ask(p) \/ Serve(p) \/ Leave(p)

Spec == Init /\ [][Next]_ahbVars
=============================================================================
