------------------------------ MODULE SioRegs ------------------------------
(***************************************************************************)
(* What the tools take the registers of a super I/O chip for: an array in  *)
(* which a library call of libsio.c changes or reads one register of one   *)
(* logical device in one step.  A tool is a sequence of such calls (a      *)
(* job); it may be killed between any two.  There is no lock and no        *)
(* selected device here; SioPorts has both and implements this.            *)
(***************************************************************************)
EXTENDS SioCalls

CONSTANTS
  Proc,      \* processes that may run a tool
  Job,       \* the tools' jobs: sequences of calls
  Cell,      \* the registers they use, as <<device, index>>
  PowerOn    \* contents of the registers before the first run

\* Jobs begin with sio_enter, use no register of a device before they have
\* selected one, and end where sio_exit is.
JobAssumption ==
  /\ Cell \subseteq Byte \X (8..255)
  /\ PowerOn \subseteq [Cell -> Byte]
  /\ Job \subseteq Seq(Calls)
  /\ \A j \in Job :
       /\ Len(j) >= 2
       /\ j[1] = Enter
       /\ \A k \in 2..Len(j) : j[k] # Enter
       /\ \A k \in 1..(Len(j) - 1) : j[k] # Exit
       /\ \A k \in DOMAIN j : OnReg(j[k]) =>
            /\ j[k].reg \in (8..255) \ {Lock}
            /\ j[k].reg >= 48 => SelectBefore(j, k) # {}
            /\ CellAt(j, k) \in Cell

VARIABLES
  reg,   \* the registers
  job,   \* the job of each process
  pos,   \* the call it is in, or 0 when it does not run
  val    \* the byte it read last

regsVars == <<reg, job, pos, val>>

Running(p) == pos[p] # 0
Now(p)     == job[p][pos[p]]

Init ==
  /\ reg \in PowerOn
  /\ job \in [Proc -> Job]
  /\ pos = [p \in Proc |-> 0]
  /\ val = [p \in Proc |-> {}]

Start(p) ==
  /\ ~Running(p)
  /\ pos' = [pos EXCEPT ![p] = 1]
  /\ \E j \in Job : job' = [job EXCEPT ![p] = j]
  /\ val' = [val EXCEPT ![p] = {}]
  /\ UNCHANGED reg

Return(p) == pos' = [pos EXCEPT ![p] = IF @ < Len(job[p]) THEN @ + 1 ELSE 0]

Do(p) ==
  /\ Running(p)
  /\ LET o == Now(p) IN
       /\ reg' = IF Writes(o)
                 THEN [reg EXCEPT ![CellAt(job[p], pos[p])] = NewByte(o, @)]
                 ELSE reg
       /\ val' = [val EXCEPT ![p] = IF o.call = "read" THEN reg[CellAt(job[p], pos[p])] ELSE @]
  /\ Return(p)
  /\ UNCHANGED job

Kill(p) ==
  /\ Running(p)
  /\ pos' = [pos EXCEPT ![p] = 0]
  /\ UNCHANGED <<reg, job, val>>

Next == \E p \in Proc : Start(p) \/ Do(p) \/ Kill(p)

Spec == Init /\ [][Next]_regsVars
=============================================================================
