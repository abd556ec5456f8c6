--------------------------- MODULE SioPortsProofs ---------------------------
(***************************************************************************)
(* Proofs about SioPorts: for all jobs, registers and keys, and wherever   *)
(* runs are killed, the library calls of one tool at a time are steps on   *)
(* an array of registers.                                                  *)
(***************************************************************************)
EXTENDS SioPorts, TLAPS

\* The kinds of calls.
LEMMA KindFacts ==
  ASSUME NEW o \in Calls
  PROVE  /\ o.call \in {"enter", "exit", "select", "read", "write", "change"}
         /\ o.call = "enter" => o = Enter
         /\ o.call = "exit" => o = Exit
         /\ o.call = "select" => o.dev \in Byte
         /\ Writes(o) => o.clear \in Byte /\ o.set \in Byte
         /\ o.call = "write" => o.clear = 0..7
  <1>1. CASE o \in {Enter, Exit}
    BY <1>1 DEF Enter, Exit, Writes
  <1>2. CASE o \in {Select(d) : d \in Byte}
    <2>1. PICK d \in Byte : o = Select(d)
      BY <1>2
    <2>2. QED
      BY <2>1 DEF Select, Writes
  <1>3. CASE o \in {Read(r) : r \in 0..255}
    <2>1. PICK r \in 0..255 : o = Read(r)
      BY <1>3
    <2>2. QED
      BY <2>1 DEF Read, Writes
  <1>4. CASE o \in [call : {"write"}, reg : 0..255, clear : {0..7}, set : Byte]
    <2>1. o.call = "write" /\ o.clear = 0..7 /\ o.set \in Byte
      BY <1>4
    <2>2. QED
      BY <2>1 DEF Writes, Byte
  <1>5. CASE o \in [call : {"change"}, reg : 0..255, clear : Byte, set : Byte]
    <2>1. o.call = "change" /\ o.clear \in Byte /\ o.set \in Byte
      BY <1>5
    <2>2. QED
      BY <2>1 DEF Writes
  <1>6. QED
    BY <1>1, <1>2, <1>3, <1>4, <1>5 DEF Calls

\* What the assumptions say of the k-th call of a job.
LEMMA CallFacts ==
  ASSUME JobAssumption, NEW j \in Job, NEW k \in DOMAIN j
  PROVE  LET o == j[k] IN
         /\ DOMAIN j = 1..Len(j) /\ Len(j) \in Nat /\ 1 \in DOMAIN j /\ k \in 1..Len(j)
         /\ o.call \in {"enter", "exit", "select", "read", "write", "change"}
         /\ k = 1 <=> o.call = "enter"
         /\ o.call = "exit" => k = Len(j)
         /\ o.call = "select" => o.dev \in Byte
         /\ Writes(o) => o.clear \in Byte /\ o.set \in Byte
         /\ o.call = "write" => o.clear = 0..7
         /\ OnReg(o) => /\ o.reg \in 8..255 /\ o.reg # Lock
                        /\ o.reg >= 48 => SelectBefore(j, k) # {}
                        /\ CellAt(j, k) \in Cell
  <1> DEFINE o == j[k]
  <1>1. j \in Seq(Calls) /\ Len(j) >= 2 /\ j[1] = Enter
    BY DEF JobAssumption
  <1>2. DOMAIN j = 1..Len(j) /\ Len(j) \in Nat /\ 1 \in DOMAIN j /\ k \in 1..Len(j) /\ o \in Calls
    BY <1>1
  <1>3. /\ o.call \in {"enter", "exit", "select", "read", "write", "change"}
        /\ o.call = "enter" => o = Enter
        /\ o.call = "exit" => o = Exit
        /\ o.call = "select" => o.dev \in Byte
        /\ Writes(o) => o.clear \in Byte /\ o.set \in Byte
        /\ o.call = "write" => o.clear = 0..7
    BY <1>2, KindFacts
  <1>4. k = 1 <=> o.call = "enter"
    BY <1>1, <1>2, <1>3 DEF JobAssumption, Enter
  <1>5. o.call = "exit" => k = Len(j)
    BY <1>1, <1>2, <1>3 DEF JobAssumption
  <1>6. OnReg(o) => /\ o.reg \in 8..255 /\ o.reg # Lock
                    /\ o.reg >= 48 => SelectBefore(j, k) # {}
                    /\ CellAt(j, k) \in Cell
    BY DEF JobAssumption
  <1>7. QED
    BY <1>2, <1>3, <1>4, <1>5, <1>6

\* The device selected after the k-th call.
LEMMA SelectFacts ==
  ASSUME JobAssumption, NEW j \in Job, NEW k \in DOMAIN j
  PROVE  /\ j[k].call = "select" => DevAt(j, k + 1) = j[k].dev
         /\ j[k].call # "select" => /\ SelectBefore(j, k + 1) = SelectBefore(j, k)
                                    /\ DevAt(j, k + 1) = DevAt(j, k)
         /\ SelectBefore(j, 1) = {}
  <1>1. k \in Nat /\ k >= 1
    BY CallFacts
  <1>2. SelectBefore(j, 1) = {}
    BY DEF SelectBefore
  <1>3. CASE j[k].call = "select"
    <2>1. k \in SelectBefore(j, k + 1) /\ \A i \in SelectBefore(j, k + 1) : i <= k /\ i \in Nat
      BY <1>1, <1>3 DEF SelectBefore
    <2>2. k = CHOOSE m \in SelectBefore(j, k + 1) : \A i \in SelectBefore(j, k + 1) : i <= m
      BY <1>1, <2>1
    <2>3. QED
      BY <1>2, <1>3, <2>2 DEF DevAt
  <1>4. CASE j[k].call # "select"
    <2>1. SelectBefore(j, k + 1) = SelectBefore(j, k)
      BY <1>1, <1>4 DEF SelectBefore
    <2>2. QED
      BY <1>2, <1>4, <2>1 DEF DevAt
  <1>5. QED
    BY <1>3, <1>4

\* What holds of a call that is about a register.
LEMMA RegFacts ==
  ASSUME JobAssumption, NEW j \in Job, NEW k \in DOMAIN j, OnReg(j[k])
  PROVE  /\ k # 1 /\ k \in 1..Len(j)
         /\ j[k].reg \in 8..255 /\ j[k].reg # Lock
         /\ j[k].reg >= 48 => SelectBefore(j, k) # {}
         /\ CellAt(j, k) \in Cell
  <1>1. j[k].call # "enter"
    BY DEF OnReg, Writes
  <1>2. QED
    BY <1>1, CallFacts

\* The port accesses of each kind of call.
LEMMA PortsFacts ==
  ASSUME NEW o, o.call \in {"enter", "exit", "select", "read", "write", "change"}
  PROVE  /\ o.call = "enter" => Ports(o) = <<"key", "key">>
         /\ o.call = "exit" => Ports(o) = <<"lock">>
         /\ o.call \in {"select", "write"} => Ports(o) = <<"index", "out">>
         /\ o.call = "read" => Ports(o) = <<"index", "in">>
         /\ o.call = "change" => Ports(o) = <<"index", "in", "index", "out">>
         /\ Len(Ports(o)) \in 1..4 /\ DOMAIN Ports(o) = 1..Len(Ports(o))
  <1>1. /\ o.call = "enter" => Ports(o) = <<"key", "key">>
        /\ o.call = "exit" => Ports(o) = <<"lock">>
        /\ o.call \in {"select", "write"} => Ports(o) = <<"index", "out">>
        /\ o.call = "read" => Ports(o) = <<"index", "in">>
        /\ o.call = "change" => Ports(o) = <<"index", "in", "index", "out">>
    BY DEF Ports
  <1>2. \A P \in {<<"key", "key">>, <<"lock">>, <<"index", "out">>, <<"index", "in">>,
                  <<"index", "in", "index", "out">>} :
          Len(P) \in 1..4 /\ DOMAIN P = 1..Len(P)
    OBVIOUS
  <1>3. QED
    BY <1>1, <1>2

\* A running process is at an access of a call of its job, and no other runs.
LEMMA NowFacts ==
  ASSUME JobAssumption, IInv, NEW p \in Proc, Running(p)
  PROVE  /\ job[p] \in Job /\ pos[p] \in DOMAIN job[p] /\ Now(p) = job[p][pos[p]]
         /\ pos[p] \in 1..Len(job[p]) /\ Len(job[p]) \in Nat /\ step[p] \in 1..Len(Ports(Now(p)))
         /\ Now(p).call \in {"enter", "exit", "select", "read", "write", "change"}
         /\ \A q \in Proc \ {p} : pos[q] = 0
  <1>1. /\ job[p] \in Job /\ pos[p] \in DOMAIN job[p] /\ Now(p) = job[p][pos[p]]
        /\ step[p] \in DOMAIN Ports(Now(p)) /\ \A q \in Proc \ {p} : pos[q] = 0
    BY DEF IInv, TypeOK, Alone, Running, Now
  <1>2. /\ pos[p] \in 1..Len(job[p]) /\ Len(job[p]) \in Nat
        /\ Now(p).call \in {"enter", "exit", "select", "read", "write", "change"}
    BY <1>1, CallFacts
  <1>3. QED
    BY <1>1, <1>2, PortsFacts

\* The same of the call that a process is in.
LEMMA NowRegFacts ==
  ASSUME JobAssumption, IInv, NEW p \in Proc, Running(p), OnReg(Now(p))
  PROVE  /\ pos[p] > 1
         /\ Now(p).reg \in 8..255 /\ Now(p).reg # Lock
         /\ Now(p).reg >= 48 => SelectBefore(job[p], pos[p]) # {}
         /\ CellAt(job[p], pos[p]) \in Cell
  <1>1. PICK j \in Job : j = job[p]
    BY NowFacts
  <1>2. PICK k \in DOMAIN j : k = pos[p]
    BY <1>1, NowFacts
  <1>3. Now(p) = j[k] /\ OnReg(j[k])
    BY <1>1, <1>2, NowFacts
  <1>4. /\ k # 1 /\ k \in 1..Len(j)
        /\ j[k].reg \in 8..255 /\ j[k].reg # Lock
        /\ j[k].reg >= 48 => SelectBefore(j, k) # {}
        /\ CellAt(j, k) \in Cell
    BY <1>3, RegFacts
  <1>5. k > 1
    BY <1>4
  <1>6. QED
    BY <1>1, <1>2, <1>3, <1>4, <1>5

\* Where the program counters are after an access.
LEMMA MoveFacts ==
  ASSUME JobAssumption, IInv, NEW p \in Proc, Running(p), NextAccess(p)
  PROVE  /\ job' = job /\ pos' \in [Proc -> Nat] /\ step' \in [Proc -> 1..4]
         /\ \A q \in Proc \ {p} : pos'[q] = 0
         /\ Last(p) => /\ step'[p] = 1
                       /\ pos'[p] = IF pos[p] < Len(job[p]) THEN pos[p] + 1 ELSE 0
         /\ ~Last(p) => step'[p] = step[p] + 1 /\ pos'[p] = pos[p]
         /\ Running(p)' => pos'[p] \in DOMAIN job[p] /\ step'[p] \in 1..Len(Ports(Now(p)'))
         /\ Alone'
  <1>1. pos \in [Proc -> Nat] /\ step \in [Proc -> 1..4] /\ job' = job
    BY DEF IInv, TypeOK, NextAccess
  <1>2. /\ Last(p) => /\ step'[p] = 1
                      /\ pos'[p] = IF pos[p] < Len(job[p]) THEN pos[p] + 1 ELSE 0
        /\ ~Last(p) => step'[p] = step[p] + 1 /\ pos'[p] = pos[p]
        /\ \A q \in Proc \ {p} : pos'[q] = pos[q] /\ step'[q] = step[q]
    BY <1>1 DEF NextAccess, Return
  <1>3. pos[p] \in 1..Len(job[p]) /\ Len(job[p]) \in Nat /\ step[p] \in 1..Len(Ports(Now(p)))
        /\ DOMAIN job[p] = 1..Len(job[p]) /\ Len(Ports(Now(p))) \in 1..4
    BY NowFacts, PortsFacts, CallFacts
  <1>4. ~Last(p) => step[p] + 1 \in 1..Len(Ports(Now(p))) /\ step[p] + 1 \in 1..4
    <2>1. \A a, b \in 1..4 : a <= b /\ a # b => a + 1 \in 1..b /\ a + 1 \in 1..4
      OBVIOUS
    <2>2. step[p] \in 1..4 /\ step[p] <= Len(Ports(Now(p)))
      BY <1>1, <1>3
    <2>3. QED
      BY <1>3, <2>1, <2>2 DEF Last
  <1>5. pos' \in [Proc -> Nat] /\ step' \in [Proc -> 1..4]
    <2>1. CASE Last(p)
      BY <1>1, <1>3, <2>1 DEF NextAccess, Return
    <2>2. CASE ~Last(p)
      BY <1>1, <1>4, <2>2 DEF NextAccess
    <2>3. QED
      BY <2>1, <2>2
  <1>6. \A q \in Proc \ {p} : pos'[q] = 0
    BY <1>2, NowFacts
  <1>7. Running(p)' => pos'[p] \in DOMAIN job[p] /\ step'[p] \in 1..Len(Ports(Now(p)'))
    <2>1. CASE Last(p)
      <3>1. ASSUME Running(p)'
            PROVE  pos'[p] \in DOMAIN job[p] /\ step'[p] = 1
        BY <1>2, <1>3, <2>1, <3>1 DEF Running
      <3>2. ASSUME Running(p)'
            PROVE  Len(Ports(Now(p)')) \in 1..4
        <4>1. job[p] \in Job
          BY NowFacts
        <4>2. Now(p)' = job[p][pos'[p]]
          BY <1>1 DEF Now
        <4>3. QED
          BY <3>1, <3>2, <4>1, <4>2, CallFacts, PortsFacts
      <3>3. \A b \in 1..4 : 1 \in 1..b
        OBVIOUS
      <3>4. QED
        BY <3>1, <3>2, <3>3
    <2>2. CASE ~Last(p)
      <3>1. Now(p)' = Now(p)
        BY <1>1, <1>2, <2>2 DEF Now
      <3>2. QED
        BY <1>2, <1>3, <1>4, <2>2, <3>1
    <2>3. QED
      BY <2>1, <2>2
  <1>8. Alone'
    BY <1>6 DEF Alone, Running
  <1>9. QED
    BY <1>1, <1>2, <1>5, <1>6, <1>7, <1>8

\* After an access the processes that run are at accesses of their calls.
LEMMA AtAccess ==
  ASSUME JobAssumption, IInv, NEW p \in Proc, Running(p), NextAccess(p)
  PROVE  \A q \in Proc : Running(q)' =>
           pos'[q] \in DOMAIN job'[q] /\ step'[q] \in DOMAIN Ports(Now(q)')
  <1>1. job' = job /\ job[p] \in Job /\ \A q \in Proc \ {p} : pos'[q] = 0
    BY NowFacts, MoveFacts
  <1>2. ASSUME Running(p)'
        PROVE  pos'[p] \in DOMAIN job'[p] /\ step'[p] \in DOMAIN Ports(Now(p)')
    <2>1. pos'[p] \in DOMAIN job[p] /\ step'[p] \in 1..Len(Ports(Now(p)')) /\ Now(p)' = job[p][pos'[p]]
      BY <1>1, <1>2, MoveFacts DEF Now
    <2>2. Now(p)'.call \in {"enter", "exit", "select", "read", "write", "change"}
      BY <1>1, <2>1, CallFacts
    <2>3. QED
      BY <1>1, <2>1, <2>2, PortsFacts
  <1>3. QED
    BY <1>1, <1>2 DEF Running

\* When all others are idle, the invariant is a matter of one process.
LEMMA OneFacts ==
  ASSUME JobAssumption, NEW p \in Proc, \A q \in Proc \ {p} : pos'[q] = 0,
         Running(p)' =>
           /\ pos'[p] > 1 => open'
           /\ pos'[p] = 1 /\ step'[p] = 2 => open' \/ half'
           /\ SelectBefore(job'[p], pos'[p]) # {} => ldn' = DevAt(job'[p], pos'[p])
           /\ Now(p)'.call = "select" /\ step'[p] = 2 => index' = LdSel
           /\ OnReg(Now(p)') /\ step'[p] \in {2, 4} => index' = Now(p)'.reg
           /\ Now(p)'.call = "change" /\ step'[p] > 2 => buf'[p] = reg'[CellAt(job'[p], pos'[p])]
  PROVE  Obeys' /\ Fresh'
  BY DEF Obeys, Fresh, Running

\* Between two calls nothing is asked of the ports.
LEMMA NextCall ==
  ASSUME JobAssumption, IInv, NEW p \in Proc, Running(p), NextAccess(p), Last(p),
         Now(p).call # "exit" => open',
         Now(p).call = "select" => ldn' = Now(p).dev,
         Now(p).call # "select" => ldn' = ldn
  PROVE  Obeys' /\ Fresh'
  <1> DEFINE j == job[p]
             k == pos[p]
  <1>1. /\ j \in Job /\ k \in DOMAIN j /\ Now(p) = j[k] /\ k \in 1..Len(j) /\ Len(j) \in Nat
        /\ job'[p] = j /\ step'[p] = 1 /\ \A q \in Proc \ {p} : pos'[q] = 0
        /\ pos'[p] = IF k < Len(j) THEN k + 1 ELSE 0
    BY NowFacts, MoveFacts
  <1>2. ASSUME Running(p)'
        PROVE  pos'[p] = k + 1 /\ Now(p).call # "exit"
    BY <1>1, <1>2, CallFacts DEF Running
  <1>3. ASSUME Running(p)', SelectBefore(j, k + 1) # {}
        PROVE  ldn' = DevAt(j, k + 1)
    <2>1. CASE Now(p).call = "select"
      BY <1>1, <2>1, SelectFacts
    <2>2. CASE Now(p).call # "select"
      <3>1. SelectBefore(j, k) # {} /\ DevAt(j, k + 1) = DevAt(j, k)
        BY <1>1, <1>3, <2>2, SelectFacts
      <3>2. ldn = DevAt(j, k)
        BY <3>1 DEF IInv, Obeys
      <3>3. QED
        BY <2>2, <3>1, <3>2
    <2>3. QED
      BY <2>1, <2>2
  <1>4. QED
    BY <1>1, <1>2, <1>3, OneFacts

\* What kind of access a call is at.
LEMMA AccessFacts ==
  ASSUME JobAssumption, IInv, NEW p \in Proc, Running(p)
  PROVE  /\ Port(p) = "key" => Now(p).call = "enter" /\ step[p] \in {1, 2} /\ (Last(p) <=> step[p] = 2)
         /\ Port(p) = "lock" => Now(p).call = "exit" /\ Last(p)
         /\ Port(p) = "index" => /\ ~Last(p)
                                 /\ Now(p).call = "select" \/ OnReg(Now(p))
                                 /\ step[p] = 1 \/ (step[p] = 3 /\ Now(p).call = "change")
         /\ Port(p) = "out" => /\ Last(p)
                               /\ \/ Now(p).call \in {"select", "write"} /\ step[p] = 2
                                  \/ Now(p).call = "change" /\ step[p] = 4
         /\ Port(p) = "in" => /\ Now(p).call \in {"read", "change"} /\ step[p] = 2
                              /\ Last(p) <=> Now(p).call = "read"
         /\ Port(p) \in {"key", "lock", "index", "out", "in"}
  <1> DEFINE o == Now(p)
             s == step[p]
  <1>1. o.call \in {"enter", "exit", "select", "read", "write", "change"} /\ s \in 1..Len(Ports(o))
        /\ Port(p) = Ports(o)[s] /\ (Last(p) <=> s = Len(Ports(o)))
    BY NowFacts DEF Port, Last
  <1>2. CASE o.call = "enter"
    <2>1. Ports(o) = <<"key", "key">>
      BY <1>1, <1>2, PortsFacts
    <2>2. QED
      BY <1>1, <1>2, <2>1
  <1>3. CASE o.call = "exit"
    <2>1. Ports(o) = <<"lock">>
      BY <1>1, <1>3, PortsFacts
    <2>2. QED
      BY <1>1, <1>3, <2>1
  <1>4. CASE o.call \in {"select", "write"}
    <2>1. Ports(o) = <<"index", "out">>
      BY <1>1, <1>4, PortsFacts
    <2>2. QED
      BY <1>1, <1>4, <2>1 DEF OnReg, Writes
  <1>5. CASE o.call = "read"
    <2>1. Ports(o) = <<"index", "in">>
      BY <1>1, <1>5, PortsFacts
    <2>2. QED
      BY <1>1, <1>5, <2>1 DEF OnReg, Writes
  <1>6. CASE o.call = "change"
    <2>1. Ports(o) = <<"index", "in", "index", "out">>
      BY <1>1, <1>6, PortsFacts
    <2>2. QED
      BY <1>1, <1>6, <2>1 DEF OnReg, Writes
  <1>7. QED
    BY <1>1, <1>2, <1>3, <1>4, <1>5, <1>6

\* The key and the index that a call writes to the index port.
LEMMA OutbIndexInv ==
  ASSUME JobAssumption, KeyAssumption, IInv, NEW p \in Proc, OutbIndex(p)
  PROVE  IInv'
  <1> DEFINE j == job[p]
             k == pos[p]
             o == Now(p)
  <1>1. Running(p) /\ NextAccess(p) /\ OutIndex(IndexOut(o)) /\ Port(p) \in {"key", "lock", "index"}
        /\ UNCHANGED <<reg, ldn, val, buf>>
    BY DEF OutbIndex, OutIndex
  <1>2. /\ j \in Job /\ k \in DOMAIN j /\ o = j[k] /\ k \in 1..Len(j) /\ Len(j) \in Nat
        /\ job' = job /\ \A q \in Proc \ {p} : pos'[q] = 0
    BY <1>1, NowFacts, MoveFacts
  <1>3. Key \in 0..255 /\ Key # Lock /\ Lock \in 0..255 /\ LdSel \in 0..255 /\ LdSel # Lock
    BY DEF KeyAssumption, Lock, LdSel
  <1>4. /\ Port(p) = "key" => o.call = "enter" /\ k = 1 /\ IndexOut(o) = Key
        /\ Port(p) = "lock" => o.call = "exit" /\ IndexOut(o) = Lock
        /\ Port(p) = "index" => /\ k > 1 /\ IndexOut(o) \in 0..255 /\ IndexOut(o) # Lock
                                /\ o.call = "select" => IndexOut(o) = LdSel
                                /\ OnReg(o) => IndexOut(o) = o.reg
    <2>1. CASE Port(p) = "key"
      BY <1>1, <1>2, <2>1, AccessFacts, CallFacts DEF IndexOut
    <2>2. CASE Port(p) = "lock"
      BY <1>1, <1>2, <2>2, AccessFacts DEF IndexOut
    <2>3. CASE Port(p) = "index"
      <3>1. CASE o.call = "select"
        BY <1>1, <1>2, <1>3, <2>3, <3>1, CallFacts DEF IndexOut, OnReg, Writes
      <3>2. CASE OnReg(o)
        <4>1. o.call \in {"read", "write", "change"}
          BY <3>2 DEF OnReg, Writes
        <4>2. IndexOut(o) = o.reg
          BY <4>1 DEF IndexOut
        <4>3. k > 1 /\ o.reg \in 8..255 /\ o.reg # Lock
          BY <1>1, <3>2, NowRegFacts
        <4>4. \A r \in 8..255 : r \in 0..255
          OBVIOUS
        <4>5. QED
          BY <2>3, <4>1, <4>2, <4>3, <4>4
      <3>3. QED
        BY <1>1, <2>3, <3>1, <3>2, AccessFacts
    <2>4. QED
      BY <1>1, <2>1, <2>2, <2>3
  <1>5. TypeOK'
    <2>1. IndexOut(o) \in 0..255
      BY <1>1, <1>3, <1>4
    <2>2. open' \in BOOLEAN /\ half' \in BOOLEAN /\ index' \in 0..255
      BY <1>1, <2>1 DEF OutIndex, IInv, TypeOK
    <2>3. QED
      BY <1>1, <2>2, MoveFacts, AtAccess DEF IInv, TypeOK
  <1>6. Obeys' /\ Fresh'
    <2>1. CASE Port(p) = "lock"
      <3>1. o.call = "exit" /\ Last(p)
        BY <1>1, <2>1, AccessFacts
      <3>2. QED
        BY <1>1, <3>1, NextCall
    <2>2. CASE Port(p) = "key" /\ step[p] = 2
      <3>1. Last(p) /\ o.call = "enter" /\ k = 1
        BY <1>1, <1>4, <2>2, AccessFacts
      <3>2. open \/ half
        BY <1>1, <2>2, <3>1 DEF IInv, Obeys
      <3>3. open'
        BY <1>1, <1>3, <1>4, <2>2, <3>2 DEF OutIndex
      <3>4. QED
        BY <1>1, <3>1, <3>3, NextCall
    <2>3. CASE Port(p) = "key" /\ step[p] = 1
      <3>1. ~Last(p) /\ o.call = "enter" /\ k = 1
        BY <1>1, <1>4, <2>3, AccessFacts
      <3>2. open' \/ half'
        BY <1>1, <1>3, <1>4, <2>3 DEF OutIndex
      <3>3. pos'[p] = 1 /\ Now(p)' = o /\ step'[p] = 2
        BY <1>1, <1>2, <2>3, <3>1, MoveFacts DEF Now
      <3>4. SelectBefore(job'[p], pos'[p]) = {} /\ ~OnReg(Now(p)')
        BY <1>2, <3>1, <3>3, SelectFacts DEF OnReg, Writes
      <3>5. QED
        BY <1>2, <3>1, <3>2, <3>3, <3>4, OneFacts
    <2>4. CASE Port(p) = "index"
      <3>1. ~Last(p) /\ (step[p] = 1 \/ (step[p] = 3 /\ o.call = "change"))
        BY <1>1, <2>4, AccessFacts
      <3>2. pos'[p] = k /\ Now(p)' = o /\ step'[p] = step[p] + 1
        BY <1>1, <1>2, <3>1, MoveFacts DEF Now
      <3>3. open /\ open' /\ index' = IndexOut(o)
        BY <1>1, <1>4, <2>4 DEF OutIndex, IInv, Obeys
      <3>4. SelectBefore(j, k) # {} => ldn = DevAt(j, k)
        BY <1>1 DEF IInv, Obeys
      <3>5. o.call = "change" /\ step'[p] > 2 => buf[p] = reg[CellAt(j, k)]
        BY <1>1, <3>1, <3>2 DEF IInv, Fresh
      <3>6. k # 1
        BY <1>4, <2>4
      <3>7. QED
        BY <1>1, <1>2, <1>4, <2>4, <3>2, <3>3, <3>4, <3>5, <3>6, OneFacts
    <2>5. QED
      BY <1>1, <2>1, <2>2, <2>3, <2>4, AccessFacts
  <1>7. QED
    BY <1>1, <1>5, <1>6, MoveFacts DEF IInv

\* The register that the data port stands for during a call.
LEMMA ShownFacts ==
  ASSUME JobAssumption, IInv, NEW p \in Proc, Running(p), step[p] \in {2, 4}, OnReg(Now(p))
  PROVE  /\ open /\ index # LdSel
         /\ Shown = CellAt(job[p], pos[p]) /\ Shown \in Cell
         /\ InData = reg[Shown]
  <1>1. /\ pos[p] > 1 /\ Now(p).reg \in 8..255 /\ CellAt(job[p], pos[p]) \in Cell
        /\ Now(p).reg >= 48 => SelectBefore(job[p], pos[p]) # {}
    BY NowRegFacts
  <1>2. /\ open /\ index = Now(p).reg
        /\ SelectBefore(job[p], pos[p]) # {} => ldn = DevAt(job[p], pos[p])
    BY <1>1 DEF IInv, Obeys
  <1>3. Now(p) = job[p][pos[p]]
    BY DEF Now
  <1>4. Shown = CellAt(job[p], pos[p])
    <2>1. CASE Now(p).reg < 48
      <3>1. CellAt(job[p], pos[p]) = CellOf({}, Now(p).reg)
        BY <1>3, <2>1 DEF CellAt
      <3>2. Shown = CellOf(ldn, Now(p).reg)
        BY <1>2 DEF Shown
      <3>3. QED
        BY <2>1, <3>1, <3>2 DEF CellOf
    <2>2. CASE ~(Now(p).reg < 48)
      <3>1. \A r \in 8..255 : ~(r < 48) => r >= 48
        OBVIOUS
      <3>2. Now(p).reg >= 48
        BY <1>1, <2>2, <3>1
      <3>3. Shown = CellOf(DevAt(job[p], pos[p]), Now(p).reg)
        BY <1>1, <1>2, <3>2 DEF Shown
      <3>4. CellAt(job[p], pos[p]) = CellOf(DevAt(job[p], pos[p]), Now(p).reg)
        BY <1>3, <2>2 DEF CellAt
      <3>5. QED
        BY <3>3, <3>4
    <2>3. QED
      BY <2>1, <2>2
  <1>5. index # LdSel
    BY <1>1, <1>2 DEF LdSel
  <1>6. QED
    BY <1>1, <1>2, <1>4, <1>5 DEF InData

\* What a write to the data port does to the registers: a change of a register
\* by the bits of the call, or the selection of a device.
LEMMA OutbDataEffect ==
  ASSUME JobAssumption, KeyAssumption, IInv, NEW p \in Proc, OutbData(p)
  PROVE  LET o == Now(p)
             cell == CellAt(job[p], pos[p])
         IN /\ o.call \in {"select", "write", "change"} /\ Last(p)
            /\ o.call = "select" => reg' = reg /\ ldn' = o.dev
            /\ o.call # "select" => /\ ldn' = ldn /\ cell \in Cell
                                    /\ reg' = [reg EXCEPT ![cell] = NewByte(o, @)]
  <1> DEFINE o == Now(p)
             cell == CellAt(job[p], pos[p])
  <1>1. Running(p) /\ Port(p) = "out" /\ OutData(DataOut(p, o))
    BY DEF OutbData
  <1>2. Last(p) /\ ((o.call \in {"select", "write"} /\ step[p] = 2) \/ (o.call = "change" /\ step[p] = 4))
    BY <1>1, AccessFacts
  <1>3. /\ job[p] \in Job /\ pos[p] \in DOMAIN job[p] /\ o = job[p][pos[p]]
        /\ pos[p] \in 1..Len(job[p]) /\ pos[p] # 1
    <2>1. job[p] \in Job /\ pos[p] \in DOMAIN job[p] /\ o = job[p][pos[p]] /\ pos[p] \in 1..Len(job[p])
      BY <1>1, NowFacts
    <2>2. o.call # "enter"
      BY <1>2
    <2>3. QED
      BY <2>1, <2>2, CallFacts
  <1>4. CASE o.call = "select"
    <2>1. open /\ index = LdSel
      BY <1>1, <1>2, <1>3, <1>4 DEF IInv, Obeys
    <2>2. Shown = <<{}, 7>>
      BY <2>1 DEF Shown, CellOf, LdSel
    <2>3. <<{}, 7>> \notin Cell
      <3>1. ASSUME NEW c \in Byte \X (8..255)
            PROVE  c # <<{}, 7>>
        BY <3>1
      <3>2. Cell \subseteq Byte \X (8..255)
        BY DEF JobAssumption
      <3>3. QED
        BY <3>1, <3>2
    <2>4. QED
      BY <1>1, <1>2, <1>4, <2>1, <2>2, <2>3 DEF OutData, DataOut
  <1>5. CASE o.call \in {"write", "change"}
    <2>1. open /\ index # LdSel /\ Shown = cell /\ cell \in Cell
      BY <1>1, <1>2, <1>5, ShownFacts DEF OnReg, Writes
    <2>2. ldn' = ldn /\ reg' = [reg EXCEPT ![cell] = NewByte(o, buf[p])]
      BY <1>1, <1>5, <2>1 DEF OutData, DataOut
    <2>3. reg[cell] \in Byte
      BY <2>1 DEF IInv, TypeOK
    <2>4. CASE o.call = "write"
      <3>1. o.clear = 0..7 /\ buf[p] \in Byte
        BY <1>3, <2>4, CallFacts DEF IInv, TypeOK
      <3>2. NewByte(o, buf[p]) = NewByte(o, reg[cell])
        BY <2>3, <3>1 DEF NewByte, Byte
      <3>3. QED
        BY <1>2, <1>5, <2>1, <2>2, <3>2
    <2>5. CASE o.call = "change"
      <3>1. buf[p] = reg[cell]
        BY <1>1, <1>2, <2>5 DEF IInv, Fresh
      <3>2. QED
        BY <1>2, <1>5, <2>1, <2>2, <3>1
    <2>6. QED
      BY <1>5, <2>4, <2>5
  <1>6. QED
    BY <1>2, <1>4, <1>5

\* The byte that a call writes to the data port.
LEMMA OutbDataInv ==
  ASSUME JobAssumption, KeyAssumption, IInv, NEW p \in Proc, OutbData(p)
  PROVE  IInv'
  <1> DEFINE o == Now(p)
             cell == CellAt(job[p], pos[p])
  <1>1. /\ Running(p) /\ NextAccess(p) /\ Port(p) = "out" /\ Last(p)
        /\ UNCHANGED <<open, half, index, val>> /\ buf' = [buf EXCEPT ![p] = {}]
    BY OutbDataEffect DEF OutbData, OutData
  <1>2. /\ o.call \in {"select", "write", "change"}
        /\ o.call = "select" => reg' = reg /\ ldn' = o.dev
        /\ o.call # "select" => /\ ldn' = ldn /\ cell \in Cell
                                /\ reg' = [reg EXCEPT ![cell] = NewByte(o, @)]
    BY OutbDataEffect
  <1>3. /\ job[p] \in Job /\ pos[p] \in DOMAIN job[p] /\ o = job[p][pos[p]] /\ pos[p] \in 1..Len(job[p])
    BY <1>1, NowFacts
  <1>4. TypeOK'
    <2>1. reg' \in [Cell -> Byte] /\ ldn' \in Byte
      <3>1. CASE o.call = "select"
        BY <1>2, <1>3, <3>1, CallFacts DEF IInv, TypeOK
      <3>2. CASE o.call # "select"
        <4>1. o.set \in Byte
          BY <1>2, <1>3, <3>2, CallFacts DEF Writes
        <4>2. \A b \in Byte : NewByte(o, b) \in Byte
          BY <4>1 DEF NewByte, Byte
        <4>3. QED
          BY <1>2, <3>2, <4>2 DEF IInv, TypeOK
      <3>3. QED
        BY <3>1, <3>2
    <2>2. buf' \in [Proc -> Byte]
      BY <1>1 DEF IInv, TypeOK, Byte
    <2>3. QED
      BY <1>1, <2>1, <2>2, MoveFacts, AtAccess DEF IInv, TypeOK
  <1>5. Obeys' /\ Fresh'
    <2>1. open
      <3>1. pos[p] # 1
        BY <1>2, <1>3, CallFacts
      <3>2. QED
        BY <1>1, <1>3, <3>1 DEF IInv, Obeys
    <2>2. QED
      BY <1>1, <1>2, <2>1, NextCall
  <1>6. QED
    BY <1>1, <1>4, <1>5, MoveFacts DEF IInv

\* The byte that a call reads from the data port.
LEMMA InbDataInv ==
  ASSUME JobAssumption, IInv, NEW p \in Proc, InbData(p)
  PROVE  IInv'
  <1> DEFINE j == job[p]
             k == pos[p]
             o == Now(p)
  <1>1. Running(p) /\ NextAccess(p) /\ Port(p) = "in" /\ UNCHANGED <<reg, open, half, index, ldn>>
    BY DEF InbData, chipVars
  <1>2. o.call \in {"read", "change"} /\ step[p] = 2 /\ (Last(p) <=> o.call = "read")
    BY <1>1, AccessFacts
  <1>3. /\ j \in Job /\ k \in DOMAIN j /\ o = j[k] /\ k \in 1..Len(j) /\ job' = job
        /\ \A q \in Proc \ {p} : pos'[q] = 0
    BY <1>1, NowFacts, MoveFacts
  <1>4. OnReg(o)
    BY <1>2 DEF OnReg, Writes
  <1>5. open /\ Shown = CellAt(j, k) /\ Shown \in Cell /\ InData = reg[Shown] /\ InData \in Byte
    BY <1>1, <1>2, <1>4, ShownFacts DEF IInv, TypeOK
  <1>6. TypeOK'
    <2>1. val' \in [Proc -> Byte] /\ buf' \in [Proc -> Byte]
      BY <1>5 DEF InbData, IInv, TypeOK
    <2>2. QED
      BY <1>1, <2>1, MoveFacts, AtAccess DEF IInv, TypeOK
  <1>7. Obeys' /\ Fresh'
    <2>1. CASE o.call = "read"
      BY <1>1, <1>2, <1>5, <2>1, NextCall
    <2>2. CASE o.call = "change"
      <3>1. pos'[p] = k /\ step'[p] = 3 /\ Now(p)' = o
        BY <1>1, <1>2, <1>3, <2>2, MoveFacts DEF Now
      <3>2. buf'[p] = reg'[CellAt(j, k)]
        BY <1>1, <1>5, <2>2 DEF InbData, IInv, TypeOK
      <3>3. SelectBefore(j, k) # {} => ldn' = DevAt(j, k)
        BY <1>1 DEF IInv, Obeys
      <3>4. QED
        BY <1>1, <1>3, <1>5, <2>2, <3>1, <3>2, <3>3, OneFacts
    <2>3. QED
      BY <1>2, <2>1, <2>2
  <1>8. QED
    BY <1>1, <1>6, <1>7, MoveFacts DEF IInv

\* A tool that starts finds the chip as the one before has left it.
LEMMA BeginInv ==
  ASSUME JobAssumption, IInv, NEW p \in Proc, Begin(p)
  PROVE  IInv'
  <1>1. /\ \A q \in Proc : pos[q] = 0
        /\ pos' = [pos EXCEPT ![p] = 1] /\ val' = [val EXCEPT ![p] = {}]
        /\ step' = [step EXCEPT ![p] = 1] /\ buf' = [buf EXCEPT ![p] = {}]
        /\ UNCHANGED <<reg, open, half, index, ldn>>
    BY DEF Begin, Start, Running, chipVars
  <1>2. PICK j \in Job : job' = [job EXCEPT ![p] = j]
    BY DEF Begin, Start
  <1>3. /\ pos' \in [Proc -> Nat] /\ pos'[p] = 1 /\ \A q \in Proc \ {p} : pos'[q] = 0
        /\ step' \in [Proc -> 1..4] /\ step'[p] = 1
        /\ job' \in [Proc -> Job] /\ job'[p] = j /\ Now(p)' = j[1]
        /\ val' \in [Proc -> Byte] /\ buf' \in [Proc -> Byte]
    BY <1>1, <1>2 DEF IInv, TypeOK, Byte, Now
  <1>4. 1 \in DOMAIN j /\ 1 \in DOMAIN Ports(j[1]) /\ SelectBefore(j, 1) = {}
    <2>1. j \in Seq(Calls) /\ Len(j) >= 2 /\ j[1] = Enter
      BY DEF JobAssumption
    <2>2. 1 \in DOMAIN j
      BY <2>1
    <2>3. Ports(j[1]) = <<"key", "key">>
      BY <2>1 DEF Ports, Enter
    <2>4. QED
      BY <2>2, <2>3, SelectFacts
  <1>5. TypeOK'
    BY <1>1, <1>3, <1>4 DEF IInv, TypeOK, Running
  <1>6. Obeys' /\ Fresh'
    BY <1>3, <1>4, OneFacts
  <1>7. QED
    BY <1>3, <1>5, <1>6 DEF IInv, Alone, Running

\* A killed tool leaves the chip as it is.
LEMMA KilledInv ==
  ASSUME JobAssumption, IInv, NEW p \in Proc, Killed(p)
  PROVE  IInv'
  <1>1. /\ Running(p) /\ pos' = [pos EXCEPT ![p] = 0]
        /\ step' = [step EXCEPT ![p] = 1] /\ buf' = [buf EXCEPT ![p] = {}]
        /\ UNCHANGED <<reg, job, val, open, half, index, ldn>>
    BY DEF Killed, Kill, chipVars
  <1>2. \A q \in Proc \ {p} : pos[q] = 0
    BY <1>1, NowFacts
  <1>3. \A q \in Proc : pos'[q] = 0
    BY <1>1, <1>2 DEF IInv, TypeOK
  <1>4. TypeOK'
    BY <1>1, <1>3 DEF IInv, TypeOK, Byte, Running
  <1>5. QED
    BY <1>3, <1>4 DEF IInv, Alone, Obeys, Fresh, Running

\* The chip as power leaves it, with no tool running.
LEMMA InitInv ==
  ASSUME JobAssumption, PortsInit
  PROVE  IInv
  <1>1. reg \in [Cell -> Byte] /\ \A p \in Proc : pos[p] = 0
    BY DEF PortsInit, Init, JobAssumption
  <1>2. pos \in [Proc -> Nat] /\ val \in [Proc -> Byte] /\ buf \in [Proc -> Byte] /\ ldn \in Byte
    BY DEF PortsInit, Init, Byte
  <1>3. step \in [Proc -> 1..4] /\ job \in [Proc -> Job] /\ index \in 0..255
        /\ open \in BOOLEAN /\ half \in BOOLEAN
    <2>1. job \in [Proc -> Job]
      BY DEF PortsInit, Init
    <2>2. step \in [Proc -> 1..4] /\ index \in 0..255
      BY DEF PortsInit
    <2>3. open \in BOOLEAN /\ half \in BOOLEAN
      BY DEF PortsInit
    <2>4. QED
      BY <2>1, <2>2, <2>3
  <1>4. TypeOK
    BY <1>1, <1>2, <1>3 DEF TypeOK, Running
  <1>5. QED
    BY <1>1, <1>4 DEF IInv, Alone, Obeys, Fresh, Running

\* Whatever jobs run and wherever they are killed, the chip obeys the tool
\* that runs: it is open after the key, shows the register the call names in
\* the device the job has selected, and a change writes back what is there
\* (sio_enter to sio_clear, tools/libsio.c).
THEOREM Invariance ==
  ASSUME JobAssumption, KeyAssumption
  PROVE  PortsSpec => []IInv
  <1>1. PortsInit => IInv
    BY InitInv
  <1>2. IInv /\ [PortsNext]_vars => IInv'
    <2> SUFFICES ASSUME IInv, [PortsNext]_vars
                 PROVE  IInv'
      OBVIOUS
    <2>1. ASSUME NEW p \in Proc, Begin(p)
          PROVE  IInv'
      BY <2>1, BeginInv
    <2>2. ASSUME NEW p \in Proc, OutbIndex(p)
          PROVE  IInv'
      BY <2>2, OutbIndexInv
    <2>3. ASSUME NEW p \in Proc, OutbData(p)
          PROVE  IInv'
      BY <2>3, OutbDataInv
    <2>4. ASSUME NEW p \in Proc, InbData(p)
          PROVE  IInv'
      BY <2>4, InbDataInv
    <2>5. ASSUME NEW p \in Proc, Killed(p)
          PROVE  IInv'
      BY <2>5, KilledInv
    <2>6. CASE UNCHANGED vars
      BY <2>6 DEF vars, regsVars, chipVars, IInv, TypeOK, Alone, Obeys, Fresh, Running, Now, Ports
    <2>7. QED
      BY <2>1, <2>2, <2>3, <2>4, <2>5, <2>6 DEF PortsNext
  <1>3. QED
    BY <1>1, <1>2, PTL DEF PortsSpec

\* The step of a library call on the array of registers.
LEMMA CallStep ==
  ASSUME NEW p \in Proc, Running(p), Return(p), job' = job,
         LET o == Now(p)
             cell == CellAt(job[p], pos[p])
         IN /\ reg' = IF Writes(o) THEN [reg EXCEPT ![cell] = NewByte(o, @)] ELSE reg
            /\ val' = [val EXCEPT ![p] = IF o.call = "read" THEN reg[cell] ELSE @]
  PROVE  Regs!Do(p)
  <1>1. Regs!CellAt(job[p], pos[p]) = CellAt(job[p], pos[p])
    BY DEF CellAt, CellOf, DevAt, SelectBefore, Regs!CellAt, Regs!CellOf, Regs!DevAt, Regs!SelectBefore
  <1>2. \A o, b : Regs!Writes(o) = Writes(o) /\ Regs!NewByte(o, b) = NewByte(o, b)
    BY DEF Writes, NewByte, Regs!Writes, Regs!NewByte
  <1>3. Regs!Running(p) /\ Regs!Return(p) /\ Regs!Now(p) = Now(p)
    BY DEF Running, Return, Now, Regs!Running, Regs!Return, Regs!Now
  <1>4. QED
    BY <1>1, <1>2, <1>3 DEF Regs!Do

\* A write to the index port is no step of a library call, or the last one of
\* sio_enter or sio_exit, which change no register.
LEMMA OutbIndexStep ==
  ASSUME JobAssumption, IInv, NEW p \in Proc, OutbIndex(p)
  PROVE  [Regs!Next]_regsVars
  <1>1. Running(p) /\ NextAccess(p) /\ Port(p) \in {"key", "lock", "index"} /\ UNCHANGED <<reg, val, job>>
    BY DEF OutbIndex, OutIndex, NextAccess
  <1>2. CASE ~Last(p)
    BY <1>1, <1>2 DEF NextAccess, regsVars
  <1>3. CASE Last(p)
    <2>1. Now(p).call \in {"enter", "exit"}
      BY <1>1, <1>3, AccessFacts
    <2>2. ~Writes(Now(p)) /\ Now(p).call # "read"
      BY <2>1 DEF Writes
    <2>3. val' = [val EXCEPT ![p] = @] /\ Return(p) /\ reg' = reg
      BY <1>1, <1>3 DEF NextAccess, IInv, TypeOK
    <2>4. Regs!Do(p)
      BY <1>1, <2>2, <2>3, CallStep
    <2>5. QED
      BY <2>4 DEF Regs!Next
  <1>4. QED
    BY <1>2, <1>3

\* A write to the data port is the step of the call that selects, writes or
\* changes.
LEMMA OutbDataStep ==
  ASSUME JobAssumption, KeyAssumption, IInv, NEW p \in Proc, OutbData(p)
  PROVE  [Regs!Next]_regsVars
  <1> DEFINE o == Now(p)
             cell == CellAt(job[p], pos[p])
  <1>1. Running(p) /\ NextAccess(p) /\ UNCHANGED <<val, job>>
    BY DEF OutbData, NextAccess
  <1>2. /\ o.call \in {"select", "write", "change"} /\ Last(p)
        /\ o.call = "select" => reg' = reg
        /\ o.call # "select" => reg' = [reg EXCEPT ![cell] = NewByte(o, @)]
    BY OutbDataEffect
  <1>3. Return(p) /\ val' = [val EXCEPT ![p] = @]
    BY <1>1, <1>2 DEF NextAccess, IInv, TypeOK
  <1>4. reg' = IF Writes(o) THEN [reg EXCEPT ![cell] = NewByte(o, @)] ELSE reg
    BY <1>2 DEF Writes
  <1>5. Regs!Do(p)
    BY <1>1, <1>2, <1>3, <1>4, CallStep
  <1>6. QED
    BY <1>5 DEF Regs!Next

\* A read of the data port is the step of sio_read, and none of a change.
LEMMA InbDataStep ==
  ASSUME JobAssumption, IInv, NEW p \in Proc, InbData(p)
  PROVE  [Regs!Next]_regsVars
  <1> DEFINE o == Now(p)
             cell == CellAt(job[p], pos[p])
  <1>1. Running(p) /\ NextAccess(p) /\ Port(p) = "in" /\ UNCHANGED <<reg, job>>
    BY DEF InbData, NextAccess
  <1>2. o.call \in {"read", "change"} /\ step[p] = 2 /\ (Last(p) <=> o.call = "read")
    BY <1>1, AccessFacts
  <1>3. InData = reg[cell]
    BY <1>1, <1>2, ShownFacts DEF OnReg, Writes
  <1>4. CASE o.call = "change"
    BY <1>1, <1>2, <1>4 DEF InbData, NextAccess, regsVars
  <1>5. CASE o.call = "read"
    <2>1. val' = [val EXCEPT ![p] = reg[cell]] /\ Return(p) /\ ~Writes(o)
      BY <1>1, <1>2, <1>3, <1>5 DEF InbData, NextAccess, Writes
    <2>2. reg' = reg /\ job' = job /\ Running(p)
      BY <1>1
    <2>3. Regs!Do(p)
      BY <1>5, <2>1, <2>2, CallStep
    <2>4. QED
      BY <2>3 DEF Regs!Next
  <1>6. QED
    BY <1>2, <1>4, <1>5

\* Each library call of tools/libsio.c acts as one step on the one register
\* its job names in the device it has selected, and nothing else does: the
\* lock, the index and the selected device that a killed run has left behind
\* do not show.
THEOREM CallsAreSteps ==
  ASSUME JobAssumption, KeyAssumption
  PROVE  PortsSpec => RegsImplemented
  <1>1. PortsInit => Regs!Init
    BY DEF PortsInit, Init, Regs!Init
  <1>2. IInv /\ [PortsNext]_vars => [Regs!Next]_regsVars
    <2> SUFFICES ASSUME IInv, [PortsNext]_vars
                 PROVE  [Regs!Next]_regsVars
      OBVIOUS
    <2>1. ASSUME NEW p \in Proc, Begin(p)
          PROVE  Regs!Next
      BY <2>1 DEF Begin, Start, Running, Regs!Next, Regs!Start, Regs!Running
    <2>2. ASSUME NEW p \in Proc, OutbIndex(p)
          PROVE  [Regs!Next]_regsVars
      BY <2>2, OutbIndexStep
    <2>3. ASSUME NEW p \in Proc, OutbData(p)
          PROVE  [Regs!Next]_regsVars
      BY <2>3, OutbDataStep
    <2>4. ASSUME NEW p \in Proc, InbData(p)
          PROVE  [Regs!Next]_regsVars
      BY <2>4, InbDataStep
    <2>5. ASSUME NEW p \in Proc, Killed(p)
          PROVE  Regs!Next
      BY <2>5 DEF Killed, Kill, Running, Regs!Next, Regs!Kill, Regs!Running
    <2>6. CASE UNCHANGED vars
      BY <2>6 DEF vars
    <2>7. QED
      BY <2>1, <2>2, <2>3, <2>4, <2>5, <2>6 DEF PortsNext
  <1>3. PortsSpec => []IInv
    BY Invariance
  <1>4. QED
    BY <1>1, <1>2, <1>3, PTL DEF PortsSpec, RegsImplemented, Regs!Spec, regsVars, Regs!regsVars
=============================================================================
