------------------------------ MODULE SioPorts ------------------------------
(***************************************************************************)
(* The registers of a super I/O chip through its two ports (tools/libsio.c *)
(* 9 to 180), at the grain of single outb_p and inb_p.                     *)
(*                                                                         *)
(* The chip hides its registers until a key has been written twice to the  *)
(* index port, shows the register whose number was written to that port    *)
(* last, and keeps one device selected for everybody.  None of this is     *)
(* private to a tool: a killed tool leaves the chip unlocked, with a key   *)
(* half written, or with any register and device selected.  As the scripts *)
(* do, the model runs one tool at a time.                                  *)
(***************************************************************************)
EXTENDS SioRegs

CONSTANT Key    \* 87h, and A5h for the AST chips

KeyAssumption == Key \in 0..255 \ {Lock}

LdSel == 7      \* SIO_LDSEL_REG

VARIABLES
  open,   \* the chip shows its registers
  half,   \* it has seen the key once
  index,  \* the register its data port stands for
  ldn,    \* the selected device
  step,   \* the port access that is next in each process's call
  buf     \* the byte a change has read, {} when none is needed

chipVars == <<open, half, index, ldn>>
vars     == <<regsVars, chipVars, step, buf>>

-----------------------------------------------------------------------------
(* The chip. *)

Shown == CellOf(ldn, index)

OutIndex(b) ==
  /\ open'  = IF open THEN b # Lock ELSE half /\ b = Key
  /\ half'  = (~open /\ ~half /\ b = Key)
  /\ index' = IF open /\ b # Lock THEN b ELSE index
  /\ UNCHANGED <<reg, ldn>>

OutData(b) ==
  /\ ldn' = IF open /\ index = LdSel THEN b ELSE ldn
  /\ reg' = IF open /\ Shown \in Cell THEN [reg EXCEPT ![Shown] = b] ELSE reg
  /\ UNCHANGED <<open, half, index>>

InData == IF open /\ Shown \in Cell THEN reg[Shown] ELSE 0..7

-----------------------------------------------------------------------------
(* The library calls, as sequences of port accesses. *)

\* Slip: a tool writes the key once.
PortsOneKey(o) ==
  CASE o.call = "enter"  -> <<"key">>
    [] o.call = "exit"   -> <<"lock">>
    [] o.call = "select" -> <<"index", "out">>
    [] o.call = "read"   -> <<"index", "in">>
    [] o.call = "write"  -> <<"index", "out">>
    [] o.call = "change" -> <<"index", "in", "index", "out">>

Ports(o) ==
  CASE o.call = "enter"  -> <<"key", "key">>
    [] o.call = "exit"   -> <<"lock">>
    [] o.call = "select" -> <<"index", "out">>
    [] o.call = "read"   -> <<"index", "in">>
    [] o.call = "write"  -> <<"index", "out">>
    [] o.call = "change" -> <<"index", "in", "index", "out">>

\* What it writes to the index port and to the data port.
IndexOut(o) ==
  CASE o.call = "enter"  -> Key
    [] o.call = "exit"   -> Lock
    [] o.call = "select" -> LdSel
    [] OTHER             -> o.reg

DataOut(p, o) == IF o.call = "select" THEN o.dev ELSE NewByte(o, buf[p])

Port(p) == Ports(Now(p))[step[p]]
Last(p) == step[p] = Len(Ports(Now(p)))

-----------------------------------------------------------------------------
PortsInit ==
  /\ Init
  /\ open = FALSE
  /\ half = FALSE
  /\ index = 0
  /\ ldn = {}
  /\ step = [p \in Proc |-> 1]
  /\ buf = [p \in Proc |-> {}]

\* Slip: two tools use the ports at once.
BeginAny(p) ==
  /\ Start(p)
  /\ step' = [step EXCEPT ![p] = 1]
  /\ buf' = [buf EXCEPT ![p] = {}]
  /\ UNCHANGED chipVars

Begin(p) ==
  /\ \A q \in Proc : ~Running(q)
  /\ Start(p)
  /\ step' = [step EXCEPT ![p] = 1]
  /\ buf' = [buf EXCEPT ![p] = {}]
  /\ UNCHANGED chipVars

\* The access after this one, in this call or the next.
NextAccess(p) ==
  /\ step' = [step EXCEPT ![p] = IF Last(p) THEN 1 ELSE @ + 1]
  /\ IF Last(p) THEN Return(p) ELSE UNCHANGED pos
  /\ UNCHANGED job

OutbIndex(p) ==
  /\ Running(p)
  /\ Port(p) \in {"key", "lock", "index"}
  /\ OutIndex(IndexOut(Now(p)))
  /\ NextAccess(p)
  /\ UNCHANGED <<val, buf>>

OutbData(p) ==
  /\ Running(p)
  /\ Port(p) = "out"
  /\ OutData(DataOut(p, Now(p)))
  /\ NextAccess(p)
  /\ buf' = [buf EXCEPT ![p] = {}]
  /\ UNCHANGED val

InbData(p) ==
  /\ Running(p)
  /\ Port(p) = "in"
  /\ IF Now(p).call = "read"
     THEN val' = [val EXCEPT ![p] = InData] /\ UNCHANGED buf
     ELSE buf' = [buf EXCEPT ![p] = InData] /\ UNCHANGED val
  /\ NextAccess(p)
  /\ UNCHANGED <<reg, chipVars>>

Killed(p) ==
  /\ Kill(p)
  /\ step' = [step EXCEPT ![p] = 1]
  /\ buf' = [buf EXCEPT ![p] = {}]
  /\ UNCHANGED chipVars

PortsNext == \E p \in Proc :
  Begin(p) \/ OutbIndex(p) \/ OutbData(p) \/ InbData(p) \/ Killed(p)

PortsSpec == PortsInit /\ [][PortsNext]_vars

-----------------------------------------------------------------------------
(* The inductive invariant. *)

TypeOK ==
  /\ reg \in [Cell -> Byte]
  /\ job \in [Proc -> Job]
  /\ pos \in [Proc -> Nat]
  /\ val \in [Proc -> Byte]
  /\ open \in BOOLEAN
  /\ half \in BOOLEAN
  /\ index \in 0..255
  /\ ldn \in Byte
  /\ step \in [Proc -> 1..4]
  /\ buf \in [Proc -> Byte]
  /\ \A p \in Proc : Running(p) => pos[p] \in DOMAIN job[p] /\ step[p] \in DOMAIN Ports(Now(p))

Alone == \A p, q \in Proc : Running(p) /\ Running(q) => p = q

\* The chip obeys the tool that runs.
Obeys == \A p \in Proc : Running(p) =>
  /\ pos[p] > 1 => open
  /\ pos[p] = 1 /\ step[p] = 2 => open \/ half
  /\ SelectBefore(job[p], pos[p]) # {} => ldn = DevAt(job[p], pos[p])
  /\ Now(p).call = "select" /\ step[p] = 2 => index = LdSel
  /\ OnReg(Now(p)) /\ step[p] \in {2, 4} => index = Now(p).reg

\* What a change has read is still in the register.
Fresh == \A p \in Proc : Running(p) /\ Now(p).call = "change" /\ step[p] > 2 =>
  buf[p] = reg[CellAt(job[p], pos[p])]

IInv == TypeOK /\ Alone /\ Obeys /\ Fresh

-----------------------------------------------------------------------------
(* Properties. *)

\* Whatever a killed run left behind in the chip's lock, index and selected
\* device, each library call of the next run changes or reads exactly the
\* register and the device its job names, in one step at its last port access
\* (sio_enter, sio_select, sio_read, sio_write and the calls built on them).
Regs == INSTANCE SioRegs
RegsImplemented == Regs!Spec
=============================================================================
