------------------------------ MODULE SioCalls ------------------------------
(***************************************************************************)
(* The calls of tools/libsio.c on the configuration registers of a super   *)
(* I/O chip, as data: a tool is a sequence of them.  A byte is the set of  *)
(* its bits that are 1.                                                    *)
(***************************************************************************)
EXTENDS Integers, Sequences

Byte == SUBSET (0..7)
Lock == 170    \* AAh on the index port locks the chip

\* The library calls.  A change clears and sets bits of what it reads.
Enter            == [call |-> "enter"]
Exit             == [call |-> "exit"]
Select(dev)      == [call |-> "select", dev |-> dev]
Read(r)          == [call |-> "read", reg |-> r]
Write(r, b)      == [call |-> "write", reg |-> r, clear |-> 0..7, set |-> b]
Change(r, c, b)  == [call |-> "change", reg |-> r, clear |-> c, set |-> b]
PutBit(r, b, on) == Change(r, {b}, IF on THEN {b} ELSE {})

Calls ==
  {Enter, Exit} \cup {Select(d) : d \in Byte} \cup {Read(r) : r \in 0..255}
    \cup [call : {"write"}, reg : 0..255, clear : {0..7}, set : Byte]
    \cup [call : {"change"}, reg : 0..255, clear : Byte, set : Byte]

Writes(o) == o.call \in {"write", "change"}
OnReg(o)  == Writes(o) \/ o.call = "read"

\* Registers below 30h are those of the chip, whatever device is selected.
CellOf(dev, r) == <<IF r < 48 THEN {} ELSE dev, r>>

\* The device the k-th call of a job works on.
SelectBefore(j, k) == {m \in 1..(k - 1) : j[m].call = "select"}
DevAt(j, k) ==
  j[CHOOSE m \in SelectBefore(j, k) : \A i \in SelectBefore(j, k) : i <= m].dev
CellAt(j, k) ==
  IF j[k].reg < 48 THEN CellOf({}, j[k].reg) ELSE CellOf(DevAt(j, k), j[k].reg)

\* The byte a call leaves in its register.
NewByte(o, old) == (old \ o.clear) \cup o.set

\* The byte with value k, which the library gets as an int.
Bits(k) == {b \in 0..7 : (k \div 2^b) % 2 = 1}
=============================================================================
