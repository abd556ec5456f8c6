--------------------------- MODULE PchGpioProofs ---------------------------
(***************************************************************************)
(* Proofs about PchGpio: as long as runs that share a bank are kept apart, *)
(* the unlocked read-modify-write accesses of the library behave as atomic *)
(* changes of single pins.                                                 *)
(***************************************************************************)
EXTENDS PchGpio, TLAPS

-----------------------------------------------------------------------------
(* Addresses. *)

\* Every pin has a bit of its own in one of the three banks.
LEMMA AddrFacts ==
  /\ \A g \in Pin : /\ BankOf(g) \in Banks
                    /\ BitOf(g) \in 0..31
                    /\ Addr(g) \in Banks \X (0..31)
                    /\ Addr(g)[1] = BankOf(g)
                    /\ Addr(g) \in InBank(BankOf(g))
  /\ \A g, h \in Pin : Addr(g) = Addr(h) => g = h
  <1>1. \A g \in Pin : BankOf(g) \in Banks /\ BitOf(g) = g - 32 * BankOf(g) /\ BitOf(g) \in 0..31
    BY CommandAssumption DEF BankOf, BitOf, Banks
  <1>2. \A g, h \in Pin : Addr(g) = Addr(h) => BankOf(g) = BankOf(h) /\ BitOf(g) = BitOf(h)
    BY DEF Addr
  <1>3. \A g, h \in Pin : Addr(g) = Addr(h) => g = h
    BY <1>1, <1>2, CommandAssumption DEF Banks
  <1>4. QED
    BY <1>1, <1>3 DEF Addr, InBank

\* A pin is driven exactly when its address does not float.
LEMMA DrivenFacts ==
  ASSUME NEW g \in Pin
  PROVE  /\ g \in Driven <=> Addr(g) \notin Floating
         /\ g \in Driven <=> Addr(g) \in reg["use"] /\ Addr(g) \notin reg["sel"]
  BY AddrFacts DEF Driven, Floating

\* The pin a run is working on is one of its command line.
LEMMA CurFacts ==
  ASSUME TypeOK, NEW p \in Proc
  PROVE  /\ cmd[p] \in Command /\ cmd[p].level \in BOOLEAN /\ cmd[p].blink \in BOOLEAN
         /\ Len(cmd[p].gpios) \in 1..10 /\ DOMAIN cmd[p].gpios = 1..Len(cmd[p].gpios)
         /\ \A k \in DOMAIN cmd[p].gpios :
              cmd[p].gpios[k] \in Pin /\ BankOf(cmd[p].gpios[k]) \in BanksOf(cmd[p])
         /\ CurGpio(p) \in Pin
         /\ CurAddr(p) \in Banks \X (0..31)
         /\ CurAddr(p) \in InBank(CurAddr(p)[1])
         /\ CurAddr(p)[1] \in BanksOf(cmd[p])
         /\ CurAddr(p)[1] = BankOf(CurGpio(p))
  <1>1. cmd[p] \in Command /\ idx[p] \in 1..Len(cmd[p].gpios)
    BY DEF TypeOK
  <1>2. cmd[p] \in [gpios : Seq(Pin), level : BOOLEAN, blink : BOOLEAN]
    BY <1>1, CommandAssumption
  <1>3. cmd[p].gpios \in Seq(Pin) /\ Len(cmd[p].gpios) \in 1..10
    BY <1>1, <1>2, CommandAssumption
  <1>4. \A k \in DOMAIN cmd[p].gpios : cmd[p].gpios[k] \in Pin
    BY <1>3
  <1>5. CurGpio(p) \in Pin /\ BankOf(CurGpio(p)) \in BanksOf(cmd[p])
    BY <1>1, <1>3, <1>4 DEF CurGpio, BanksOf
  <1>6. QED
    BY <1>1, <1>2, <1>3, <1>4, <1>5, AddrFacts DEF CurAddr, BanksOf

-----------------------------------------------------------------------------
(* What an access does. *)

\* outl_p changes one bit of its register, and the level bits of undriven
\* pins of the same bank.
LEMMA WriteEffect ==
  ASSUME IInv, NEW p \in Proc, Write(p)
  PROVE  /\ reg' \in [Regs -> SUBSET (Banks \X (0..31))]
         /\ CurAddr(p) \in reg'[pc[p]] <=> CurBit(p)
         /\ \A r \in Regs : \A x \in Banks \X (0..31) :
              \/ r # pc[p]
              \/ x[1] # CurAddr(p)[1]
              \/ x # CurAddr(p) /\ (r = "lvl" => x \notin Floating)
              => (x \in reg'[r] <=> x \in reg[r])
  <1> DEFINE a == CurAddr(p)
             b == CurAddr(p)[1]
             known == IF pc[p] = "lvl" THEN InBank(b) \ Floating ELSE InBank(b)
  <1>1. /\ TypeOK /\ pc[p] \in Regs /\ got[p]
        /\ buf[p] \subseteq InBank(b)
        /\ buf[p] \cap known = reg[pc[p]] \cap known
    BY DEF IInv, Fresh, Write, Running
  <1>2. a \in Banks \X (0..31) /\ a \in InBank(b) /\ b \in Banks
    BY <1>1, CurFacts
  <1>3. reg' = [reg EXCEPT ![pc[p]] = (reg[pc[p]] \ InBank(b)) \cup Word(p)]
    BY DEF Write
  <1>4. Word(p) \subseteq InBank(b) /\ InBank(b) \subseteq Banks \X (0..31)
    BY <1>1, <1>2 DEF Word, InBank
  <1>5. reg' \in [Regs -> SUBSET (Banks \X (0..31))]
    BY <1>1, <1>3, <1>4 DEF TypeOK
  <1>6. reg'[pc[p]] = (reg[pc[p]] \ InBank(b)) \cup Word(p)
    BY <1>1, <1>3 DEF TypeOK
  <1>7. a \in reg'[pc[p]] <=> CurBit(p)
    BY <1>2, <1>6 DEF Word
  <1>8. ASSUME NEW r \in Regs, NEW x \in Banks \X (0..31),
               \/ r # pc[p]
               \/ x[1] # b
               \/ x # a /\ (r = "lvl" => x \notin Floating)
        PROVE  x \in reg'[r] <=> x \in reg[r]
    <2>1. CASE r # pc[p]
      BY <1>1, <1>3, <2>1 DEF TypeOK
    <2>2. CASE r = pc[p] /\ x[1] # b
      <3>1. x \notin InBank(b)
        BY <2>2 DEF InBank
      <3>2. QED
        BY <1>4, <1>6, <2>2, <3>1
    <2>3. CASE r = pc[p] /\ x[1] = b /\ x # a /\ (r = "lvl" => x \notin Floating)
      <3>1. x \in InBank(b)
        BY <2>3 DEF InBank
      <3>2. x \in known
        BY <2>3, <3>1
      <3>3. x \in buf[p] <=> x \in reg[pc[p]]
        BY <1>1, <3>2
      <3>4. x \in Word(p) <=> x \in buf[p]
        BY <2>3 DEF Word
      <3>5. QED
        BY <1>6, <2>3, <3>1, <3>3, <3>4
    <2>4. QED
      BY <1>8, <2>1, <2>2, <2>3
  <1>9. QED
    BY <1>5, <1>7, <1>8

\* No access of one run touches the banks of another.
LEMMA OthersKept ==
  ASSUME IInv, NEW p \in Proc, Write(p), NEW q \in Proc, q # p, Running(q),
         NEW x \in Banks \X (0..31), x[1] \in BanksOf(cmd[q])
  PROVE  /\ \A r \in Regs : x \in reg'[r] <=> x \in reg[r]
         /\ (x \in Floating)' <=> x \in Floating
  <1>1. x[1] # CurAddr(p)[1]
    BY CurFacts DEF IInv, Apart, Write
  <1>2. \A r \in Regs : x \in reg'[r] <=> x \in reg[r]
    BY <1>1, WriteEffect
  <1>3. ASSUME NEW g \in Pin, Addr(g) = x
        PROVE  (g \in Driven)' <=> g \in Driven
    BY <1>2, <1>3 DEF Driven, Regs
  <1>4. (x \in Floating)' <=> x \in Floating
    BY <1>3 DEF Floating
  <1>5. QED
    BY <1>2, <1>4

\* Nor does it undo what the run has done for the pins before.
LEMMA AsAskedKept ==
  ASSUME IInv, NEW p \in Proc, Write(p), NEW k \in DOMAIN cmd[p].gpios,
         AsAsked(cmd[p].gpios[k], cmd[p])
  PROVE  AsAsked(cmd[p].gpios[k], cmd[p])'
  <1>1. PICK c : c = cmd[p]
    OBVIOUS
  <1>2. PICK g \in Pin : g = cmd[p].gpios[k]
    BY CurFacts DEF IInv
  <1>3. AsAsked(g, c) /\ cmd'[p].gpios[k] = g /\ cmd'[p] = c
    BY <1>1, <1>2 DEF Write
  <1>4. TypeOK /\ c.blink \in BOOLEAN /\ c.level \in BOOLEAN
    BY <1>1, CurFacts DEF IInv
  <1>5. Addr(g) \in Banks \X (0..31)
    BY AddrFacts
  <1>6. ~c.blink => Addr(g) \notin Floating
    BY <1>3, DrivenFacts DEF AsAsked
  <1>7. ASSUME NEW r \in Regs, r # "lvl" \/ ~c.blink, r # pc[p] \/ Addr(g) # CurAddr(p)
        PROVE  Addr(g) \in reg'[r] <=> Addr(g) \in reg[r]
    BY <1>5, <1>6, <1>7, WriteEffect
  <1>8. CASE Addr(g) # CurAddr(p)
    BY <1>4, <1>7, <1>8, <1>3 DEF AsAsked, Regs
  <1>9. CASE Addr(g) = CurAddr(p)
    <2>1. Addr(g) \in reg'[pc[p]] <=> CurBit(p)
      BY <1>9, WriteEffect
    <2>2. \A r \in Regs : (r # "lvl" \/ ~c.blink) /\ r # pc[p]
            => (Addr(g) \in reg'[r] <=> Addr(g) \in reg[r])
      BY <1>7
    <2>3. pc[p] \in Regs
      BY DEF Write, Running
    <2>4. QED
      BY <1>4, <1>1, <1>3, <2>1, <2>2, <2>3 DEF AsAsked, Regs, CurBit
  <1>10. QED
    BY <1>8, <1>9

\* Where a run goes after an access.
LEMMA AdvanceFacts ==
  ASSUME IInv, NEW p \in Proc, Write(p)
  PROVE  /\ cmd' = cmd
         /\ \A q \in Proc : q # p => pc'[q] = pc[q] /\ idx'[q] = idx[q]
         /\ \/ /\ AfterReg(pc[p], cmd[p]) # "next"
               /\ pc' = [pc EXCEPT ![p] = AfterReg(pc[p], cmd[p])] /\ idx' = idx
            \/ /\ AfterReg(pc[p], cmd[p]) = "next" /\ idx[p] < Len(cmd[p].gpios)
               /\ idx' = [idx EXCEPT ![p] = idx[p] + 1]
               /\ pc' = [pc EXCEPT ![p] = FirstReg(cmd[p], cmd[p].gpios[idx[p] + 1])]
            \/ /\ AfterReg(pc[p], cmd[p]) = "next" /\ idx[p] = Len(cmd[p].gpios)
               /\ pc' = [pc EXCEPT ![p] = "done"] /\ idx' = idx
         /\ AfterReg(pc[p], cmd[p]) \in {"sel", "lvl", "blink", "next"}
  <1>1. TypeOK /\ Advance(p) /\ cmd' = cmd /\ Len(cmd[p].gpios) \in 1..10
    BY CurFacts DEF IInv, Write
  <1>2. idx[p] \in 1..Len(cmd[p].gpios)
    BY <1>1 DEF TypeOK
  <1>3. AfterReg(pc[p], cmd[p]) \in {"sel", "lvl", "blink", "next"}
    BY DEF AfterReg
  <1>4. QED
    BY <1>1, <1>2, <1>3 DEF Advance, TypeOK

-----------------------------------------------------------------------------
(* The inductive invariant. *)

LEMMA InitInv == Init => IInv
  <1>1. SUFFICES ASSUME Init
                 PROVE  IInv
    OBVIOUS
  <1>2. TypeOK
    <2>1. \A p \in Proc : cmd[p] \in Command /\ Len(cmd[p].gpios) \in 1..10
      BY <1>1, CommandAssumption DEF Init
    <2>2. ASSUME NEW p \in Proc
          PROVE  idx[p] \in 1..Len(cmd[p].gpios)
      <3>1. idx[p] = 1 /\ Len(cmd[p].gpios) \in 1..10
        BY <1>1, <2>1 DEF Init
      <3>2. \A n \in 1..10 : 1 \in 1..n
        OBVIOUS
      <3>3. QED
        BY <3>1, <3>2
    <2>3. reg \in [Regs -> SUBSET (Banks \X (0..31))]
      BY <1>1, CommandAssumption DEF Init
    <2>4. QED
      BY <1>1, <2>1, <2>2, <2>3 DEF Init, TypeOK, Exits
  <1>3. \A p \in Proc : ~Running(p)
    BY <1>1 DEF Init, Running, Regs
  <1>4. QED
    BY <1>2, <1>3 DEF IInv, Apart, Fresh, Progress

LEMMA TypeStep ==
  ASSUME IInv, NEW p \in Proc,
         (\E c \in Command : Start(p, c)) \/ Read(p) \/ Write(p) \/ Kill(p)
  PROVE  TypeOK'
  <1>1. TypeOK
    BY DEF IInv
  <1>2. ASSUME NEW c \in Command, Start(p, c)
        PROVE  TypeOK'
    <2>1. Len(c.gpios) \in 1..10
      BY CommandAssumption
    <2>2. FirstReg(c, c.gpios[1]) \in Regs \cup Exits
      BY DEF FirstReg, Regs, Exits
    <2>3. QED
      BY <1>1, <1>2, <2>1, <2>2 DEF TypeOK, Start
  <1>3. CASE Read(p)
    <2>1. buf'[p] \in SUBSET (Banks \X (0..31))
      <3>1. pc[p] \in Regs /\ CurAddr(p)[1] \in Banks
        BY <1>1, <1>3, CurFacts DEF Read, Running
      <3>2. InBank(CurAddr(p)[1]) \subseteq Banks \X (0..31)
        BY <3>1 DEF InBank
      <3>3. QED
        BY <1>1, <1>3, <3>1, <3>2 DEF Read, TypeOK
    <2>2. QED
      BY <1>1, <1>3, <2>1 DEF Read, TypeOK
  <1>4. CASE Write(p)
    <2>1. reg' \in [Regs -> SUBSET (Banks \X (0..31))]
      BY <1>4, WriteEffect
    <2>2. FirstReg(cmd[p], cmd[p].gpios[idx[p] + 1]) \in Regs \cup Exits
      BY DEF FirstReg, Regs, Exits
    <2>3. pc' \in [Proc -> Regs \cup Exits]
      <3>1. pc \in [Proc -> Regs \cup Exits]
        BY <1>1 DEF TypeOK
      <3>2. AfterReg(pc[p], cmd[p]) # "next" => AfterReg(pc[p], cmd[p]) \in Regs
        BY <1>4, AdvanceFacts DEF Regs
      <3>3. "done" \in Exits
        BY DEF Exits
      <3>4. \E r \in Regs \cup Exits : pc' = [pc EXCEPT ![p] = r]
        <4>1. CASE AfterReg(pc[p], cmd[p]) # "next"
          BY <1>4, <3>2, <4>1, AdvanceFacts
        <4>2. CASE AfterReg(pc[p], cmd[p]) = "next"
          BY <1>4, <2>2, <3>3, <4>2, AdvanceFacts
        <4>3. QED
          BY <4>1, <4>2
      <3>5. QED
        BY <3>1, <3>4
    <2>4. idx' \in [Proc -> Nat] /\ \A q \in Proc : idx'[q] \in 1..Len(cmd[q].gpios)
      <3>1. idx[p] \in 1..Len(cmd[p].gpios) /\ Len(cmd[p].gpios) \in 1..10
        BY <1>1, CurFacts DEF TypeOK
      <3>2. QED
        BY <1>1, <1>4, <3>1, AdvanceFacts DEF TypeOK
    <2>5. QED
      BY <1>1, <1>4, <2>1, <2>3, <2>4, AdvanceFacts DEF TypeOK, Write
  <1>5. CASE Kill(p)
    BY <1>1, <1>5 DEF Kill, TypeOK, Exits
  <1>6. QED
    BY <1>2, <1>3, <1>4, <1>5

LEMMA ApartStep ==
  ASSUME IInv, NEW p \in Proc,
         (\E c \in Command : Start(p, c)) \/ Read(p) \/ Write(p) \/ Kill(p)
  PROVE  Apart'
  <1>1. TypeOK /\ Apart
    BY DEF IInv
  <1>2. ASSUME NEW c \in Command, Start(p, c)
        PROVE  Apart'
    <2>1. /\ \A q \in Proc : q # p => (Running(q)' <=> Running(q)) /\ cmd'[q] = cmd[q]
          /\ cmd'[p] = c
          /\ \A q \in Proc : Running(q) => BanksOf(cmd[q]) \cap BanksOf(c) = {}
      BY <1>1, <1>2 DEF Start, TypeOK, Running
    <2>2. QED
      BY <1>1, <2>1 DEF Apart
  <1>3. CASE Read(p) \/ Write(p) \/ Kill(p)
    <2>1. cmd' = cmd /\ Running(p)
      BY <1>3 DEF Read, Write, Kill
    <2>2. \A q \in Proc : q # p => pc'[q] = pc[q]
      <3>1. CASE Read(p) \/ Kill(p)
        BY <1>1, <3>1 DEF Read, Kill, TypeOK
      <3>2. CASE Write(p)
        BY <3>2, AdvanceFacts
      <3>3. QED
        BY <1>3, <3>1, <3>2
    <2>3. \A q \in Proc : Running(q)' => Running(q)
      BY <2>1, <2>2 DEF Running
    <2>4. QED
      BY <1>1, <2>1, <2>3 DEF Apart
  <1>4. QED
    BY <1>2, <1>3

LEMMA FreshStep ==
  ASSUME IInv, NEW p \in Proc,
         (\E c \in Command : Start(p, c)) \/ Read(p) \/ Write(p) \/ Kill(p),
         NEW q \in Proc, Running(q)', got'[q]
  PROVE  LET b == CurAddr(q)[1]
             known == IF pc[q] = "lvl" THEN InBank(b) \ Floating ELSE InBank(b)
         IN (buf[q] \subseteq InBank(b) /\ buf[q] \cap known = reg[pc[q]] \cap known)'
  <1> DEFINE b == CurAddr(q)[1]
             known == IF pc[q] = "lvl" THEN InBank(b) \ Floating ELSE InBank(b)
  <1>1. TypeOK /\ Apart /\ Fresh
    BY DEF IInv
  <1>2. CASE Read(p) /\ q = p
    <2>1. /\ (CurAddr(p) = CurAddr(p)' /\ Floating = Floating')
          /\ pc' = pc /\ reg' = reg
      BY <1>2 DEF Read, CurAddr, CurGpio, Floating, Driven
    <2>2. PICK high \in SUBSET (IF pc[p] = "lvl" THEN Floating \cap InBank(b) ELSE {}) :
            buf'[p] = ((reg[pc[p]] \cap InBank(b))
                        \ (IF pc[p] = "lvl" THEN Floating \cap InBank(b) ELSE {})) \cup high
      BY <1>1, <1>2 DEF Read, TypeOK
    <2>3. buf'[p] \subseteq InBank(b) /\ buf'[p] \cap known = reg[pc[p]] \cap known
      BY <1>2, <2>2
    <2>4. QED
      BY <1>2, <2>1, <2>3
  <1>3. CASE Write(p) /\ q # p
    <2>1. Running(q) /\ got[q] /\ buf'[q] = buf[q] /\ CurAddr(q)' = CurAddr(q) /\ pc'[q] = pc[q]
      BY <1>1, <1>3, AdvanceFacts DEF Write, TypeOK, Running, CurAddr, CurGpio
    <2>2. b \in BanksOf(cmd[q]) /\ b \in Banks /\ pc[q] \in Regs
      BY <1>1, <2>1, CurFacts DEF Running
    <2>3. InBank(b) \subseteq Banks \X (0..31) /\ \A x \in InBank(b) : x[1] = b
      BY <2>2 DEF InBank
    <2>4. \A x \in InBank(b) : /\ x \in reg'[pc[q]] <=> x \in reg[pc[q]]
                               /\ (x \in Floating)' <=> x \in Floating
      BY <1>3, <2>1, <2>2, <2>3, OthersKept
    <2>5. buf[q] \subseteq InBank(b) /\ buf[q] \cap known = reg[pc[q]] \cap known
      BY <1>1, <2>1 DEF Fresh
    <2>6. known' = known /\ known \subseteq InBank(b)
      BY <2>1, <2>4
    <2>7. buf'[q] \cap known' = reg'[pc'[q]] \cap known'
      BY <2>1, <2>4, <2>5, <2>6
    <2>8. QED
      BY <2>1, <2>5, <2>7
  <1>4. CASE (\E c \in Command : Start(p, c)) \/ (Read(p) /\ q # p) \/ Kill(p)
    <2>1. q # p
      BY <1>1, <1>4 DEF Start, Kill, TypeOK
    <2>2. /\ Running(q) /\ got[q] /\ buf'[q] = buf[q] /\ CurAddr(q)' = CurAddr(q)
          /\ pc'[q] = pc[q] /\ reg' = reg /\ Floating' = Floating
      <3>1. reg' = reg
        BY <1>4 DEF Start, Kill, Read
      <3>2. /\ pc'[q] = pc[q] /\ got'[q] = got[q] /\ buf'[q] = buf[q]
            /\ cmd'[q] = cmd[q] /\ idx'[q] = idx[q]
        <4>1. CASE \E c \in Command : Start(p, c)
          BY <1>1, <2>1, <4>1 DEF Start, TypeOK
        <4>2. CASE Read(p)
          BY <1>1, <1>4, <2>1, <4>2 DEF Read, TypeOK
        <4>3. CASE Kill(p)
          BY <1>1, <2>1, <4>3 DEF Kill, TypeOK
        <4>4. QED
          BY <1>4, <4>1, <4>2, <4>3
      <3>3. CurAddr(q)' = CurAddr(q) /\ Floating' = Floating
        BY <3>1, <3>2 DEF CurAddr, CurGpio, Floating, Driven
      <3>4. QED
        BY <3>1, <3>2, <3>3 DEF Running
    <2>3. buf[q] \subseteq InBank(b) /\ buf[q] \cap known = reg[pc[q]] \cap known
      BY <1>1, <2>2 DEF Fresh
    <2>4. QED
      BY <2>2, <2>3
  <1>5. CASE Write(p) /\ q = p
    BY <1>1, <1>5 DEF Write, TypeOK
  <1>6. QED
    BY <1>2, <1>3, <1>4, <1>5

\* Progress for one process, as the invariant has it for all of them.
ProgressOf(p) ==
  /\ \A k \in 1..(idx[p] - 1) : AsAsked(cmd[p].gpios[k], cmd[p])
  /\ cmd[p].blink => CurGpio(p) <= 31 /\ pc[p] \in {"use", "blink"}
  /\ ~cmd[p].blink => pc[p] # "blink"
  /\ pc[p] # "use" => CurAddr(p) \in reg["use"]
  /\ pc[p] = "lvl" => CurAddr(p) \notin reg["sel"]

\* What has been done for the pins of a run that does not move stays done.
LEMMA ProgressOther ==
  ASSUME IInv, NEW p \in Proc, Write(p), NEW q \in Proc, q # p, Running(q)
  PROVE  ProgressOf(q)'
  <1>1. TypeOK /\ ProgressOf(q)
    BY DEF IInv, Progress, ProgressOf
  <1>2. cmd' = cmd /\ pc'[q] = pc[q] /\ idx'[q] = idx[q]
    BY AdvanceFacts
  <1>3. \A k \in DOMAIN cmd[q].gpios : \A r \in Regs :
          Addr(cmd[q].gpios[k]) \in reg'[r] <=> Addr(cmd[q].gpios[k]) \in reg[r]
    BY <1>1, CurFacts, AddrFacts, OthersKept
  <1>4. \A k \in 1..(idx[q] - 1) : k \in DOMAIN cmd[q].gpios
    BY <1>1, CurFacts DEF TypeOK
  <1>5. \A k \in 1..(idx[q] - 1) : AsAsked(cmd[q].gpios[k], cmd[q])'
    BY <1>1, <1>2, <1>3, <1>4 DEF ProgressOf, AsAsked, Regs
  <1>6. idx[q] \in DOMAIN cmd[q].gpios /\ CurAddr(q) = Addr(cmd[q].gpios[idx[q]])
        /\ CurAddr(q)' = CurAddr(q) /\ CurGpio(q)' = CurGpio(q)
    BY <1>1, <1>2, CurFacts DEF TypeOK, CurAddr, CurGpio
  <1>7. \A r \in Regs : CurAddr(q) \in reg'[r] <=> CurAddr(q) \in reg[r]
    BY <1>3, <1>6
  <1>8. QED
    BY <1>1, <1>2, <1>5, <1>6, <1>7 DEF ProgressOf, Regs

\* The last access for a pin completes what the command line asks for it.
LEMMA PinCompleted ==
  ASSUME IInv, NEW p \in Proc, Write(p), AfterReg(pc[p], cmd[p]) = "next"
  PROVE  \A k \in 1..idx[p] : AsAsked(cmd[p].gpios[k], cmd[p])'
  <1>1. /\ TypeOK /\ ProgressOf(p) /\ pc[p] \in Regs /\ cmd' = cmd
        /\ cmd[p].blink \in BOOLEAN /\ cmd[p].level \in BOOLEAN
    BY AdvanceFacts, CurFacts DEF IInv, Progress, ProgressOf, Write, Running
  <1>2. idx[p] \in 1..Len(cmd[p].gpios) /\ Len(cmd[p].gpios) \in 1..10
    BY <1>1, CurFacts DEF TypeOK
  <1>3. ASSUME NEW k \in 1..(idx[p] - 1)
        PROVE  AsAsked(cmd[p].gpios[k], cmd[p])'
    <2>1. k \in DOMAIN cmd[p].gpios /\ AsAsked(cmd[p].gpios[k], cmd[p])
      BY <1>1, <1>2, <1>3, CurFacts DEF ProgressOf
    <2>2. QED
      BY <2>1, AsAskedKept
  <1>4. ASSUME NEW k \in 1..idx[p], k = idx[p]
        PROVE  AsAsked(cmd[p].gpios[k], cmd[p])'
    <2>1. PICK g \in Pin : g = cmd[p].gpios[k]
      BY <1>1, <1>4, CurFacts DEF CurGpio
    <2>2. PICK c : c = cmd[p]
      OBVIOUS
    <2>3. g = CurGpio(p) /\ Addr(g) = CurAddr(p) /\ cmd'[p].gpios[k] = g /\ cmd'[p] = c
      BY <1>1, <1>4, <2>1, <2>2 DEF CurGpio, CurAddr
    <2>4. CurAddr(p) \in reg'[pc[p]] <=> CurBit(p)
      BY WriteEffect
    <2>5. \A r \in Regs \ {pc[p]} : CurAddr(p) \in reg'[r] <=> CurAddr(p) \in reg[r]
      BY <1>1, CurFacts, WriteEffect
    <2>6. (c.blink /\ pc[p] = "blink") \/ (~c.blink /\ pc[p] = "lvl")
      BY <1>1, <2>2 DEF AfterReg, ProgressOf, Regs
    <2>7. AsAsked(g, c)'
      BY <1>1, <2>2, <2>3, <2>4, <2>5, <2>6 DEF AsAsked, ProgressOf, CurBit, Regs
    <2>8. QED
      BY <2>3, <2>7 DEF AsAsked
  <1>5. ASSUME NEW k \in 1..idx[p], k # idx[p]
        PROVE  k \in 1..(idx[p] - 1)
    BY <1>2, <1>5
  <1>6. QED
    BY <1>3, <1>4, <1>5

LEMMA ProgressStep ==
  ASSUME IInv, NEW p \in Proc,
         (\E c \in Command : Start(p, c)) \/ Read(p) \/ Write(p) \/ Kill(p)
  PROVE  Progress'
  <1>1. TypeOK /\ \A q \in Proc : Running(q) => ProgressOf(q)
    BY DEF IInv, Progress, ProgressOf
  <1>2. SUFFICES ASSUME NEW q \in Proc, Running(q)'
                 PROVE  ProgressOf(q)'
    BY DEF Progress, ProgressOf
  <1>3. CASE ~Write(p) /\ (q # p \/ Read(p))
    <2>1. /\ Running(q) /\ reg' = reg /\ pc'[q] = pc[q] /\ idx'[q] = idx[q]
          /\ cmd'[q] = cmd[q]
      BY <1>1, <1>2, <1>3 DEF Start, Read, Kill, TypeOK, Running
    <2>2. QED
      BY <1>1, <2>1 DEF ProgressOf, AsAsked, CurAddr, CurGpio
  <1>4. ASSUME NEW c \in Command, Start(p, c), q = p
        PROVE  ProgressOf(q)'
    <2>1. /\ cmd'[p] = c /\ idx'[p] = 1 /\ pc'[p] = FirstReg(c, c.gpios[1])
      BY <1>1, <1>4 DEF Start, TypeOK
    <2>2. pc'[p] = "use" /\ (c.blink => c.gpios[1] <= 31)
      <3>1. pc'[p] \in Regs
        BY <1>2, <1>4 DEF Running
      <3>2. c.gpios[1] \in 0..95
        <4>1. c.gpios \in Seq(Pin) /\ Len(c.gpios) \in 1..10
          BY CommandAssumption
        <4>2. c.gpios[1] \in Pin
          BY <4>1
        <4>3. QED
          BY <4>2, CommandAssumption
      <3>3. QED
        BY <2>1, <3>1, <3>2 DEF FirstReg, Regs
    <2>3. QED
      BY <1>4, <2>1, <2>2 DEF ProgressOf, CurGpio
  <1>5. CASE Write(p) /\ q # p
    <2>1. Running(q)
      BY <1>2, <1>5, AdvanceFacts DEF Running
    <2>2. QED
      BY <1>5, <2>1, ProgressOther
  <1>6. CASE Write(p) /\ q = p
    <2>1. /\ ProgressOf(p) /\ cmd' = cmd /\ pc[p] \in Regs
          /\ cmd[p].blink \in BOOLEAN
      BY <1>1, <1>6, AdvanceFacts, CurFacts DEF Write, Running
    <2>2. idx[p] \in 1..Len(cmd[p].gpios) /\ Len(cmd[p].gpios) \in 1..10
      BY <1>1, CurFacts DEF TypeOK
    <2>3. CASE AfterReg(pc[p], cmd[p]) # "next"
      <3>1. idx' = idx /\ pc'[p] = AfterReg(pc[p], cmd[p])
        BY <1>1, <1>6, <2>3, AdvanceFacts DEF TypeOK
      <3>2. \A k \in 1..(idx[p] - 1) : AsAsked(cmd[p].gpios[k], cmd[p])'
        BY <1>1, <1>6, <2>1, <2>2, CurFacts, AsAskedKept DEF ProgressOf
      <3>3. CurAddr(p) \in reg'[pc[p]] <=> CurBit(p)
        BY <1>6, WriteEffect
      <3>4. \A r \in Regs \ {pc[p]} : CurAddr(p) \in reg'[r] <=> CurAddr(p) \in reg[r]
        BY <1>1, <1>6, CurFacts, WriteEffect
      <3>5. CurAddr(p)' = CurAddr(p) /\ CurGpio(p)' = CurGpio(p)
        BY <2>1, <3>1 DEF CurAddr, CurGpio
      <3>6. \/ pc[p] = "use" /\ cmd[p].blink /\ pc'[p] = "blink"
            \/ pc[p] = "use" /\ ~cmd[p].blink /\ pc'[p] = "sel"
            \/ pc[p] = "sel" /\ ~cmd[p].blink /\ pc'[p] = "lvl"
        BY <2>1, <2>3, <3>1 DEF AfterReg, ProgressOf, Regs
      <3>7. CurAddr(p) \in reg'["use"] /\ (pc[p] = "sel" => CurAddr(p) \notin reg'["sel"])
        BY <2>1, <3>3, <3>4, <3>6 DEF CurBit, ProgressOf, Regs
      <3>8. QED
        BY <1>6, <2>1, <3>1, <3>2, <3>5, <3>6, <3>7 DEF ProgressOf
    <2>4. CASE AfterReg(pc[p], cmd[p]) = "next"
      <3>1. /\ idx[p] < Len(cmd[p].gpios) /\ idx'[p] = idx[p] + 1
            /\ pc'[p] = FirstReg(cmd[p], cmd[p].gpios[idx[p] + 1])
        BY <1>1, <1>2, <1>6, <2>4, AdvanceFacts DEF TypeOK, Running, Regs
      <3>2. pc'[p] = "use" /\ (cmd[p].blink => CurGpio(p)' <= 31)
        <4>1. pc'[p] \in Regs
          BY <1>2, <1>6 DEF Running
        <4>2. idx[p] + 1 \in DOMAIN cmd[p].gpios
          BY <1>1, <2>2, <3>1, CurFacts
        <4>3. PICK g \in Pin : g = cmd[p].gpios[idx[p] + 1]
          BY <1>1, <4>2, CurFacts
        <4>4. g \in 0..95
          BY CommandAssumption
        <4>5. CurGpio(p)' = g /\ pc'[p] = FirstReg(cmd[p], g)
          BY <2>1, <3>1, <4>3 DEF CurGpio
        <4>6. pc'[p] = "use" /\ ~(cmd[p].blink /\ g > 31)
          BY <4>1, <4>5 DEF FirstReg, Regs
        <4>7. QED
          BY <4>4, <4>5, <4>6
      <3>3. \A k \in 1..(idx'[p] - 1) : AsAsked(cmd[p].gpios[k], cmd[p])'
        BY <1>6, <2>2, <2>4, <3>1, PinCompleted
      <3>4. QED
        BY <1>6, <2>1, <3>2, <3>3 DEF ProgressOf
    <2>5. QED
      BY <2>3, <2>4
  <1>7. CASE Kill(p) /\ q = p
    BY <1>1, <1>2, <1>7 DEF Kill, TypeOK, Running, Regs
  <1>8. QED
    BY <1>3, <1>4, <1>5, <1>6, <1>7 DEF Read, Write

\* IInv holds in every reachable state, however many runs are interleaved.
THEOREM Invariance == Spec => []IInv
  <1>1. ASSUME IInv, [Next]_vars
        PROVE  IInv'
    <2>1. CASE UNCHANGED vars
      <3>1. reg' = reg /\ pc' = pc /\ got' = got /\ buf' = buf /\ cmd' = cmd /\ idx' = idx
        BY <2>1 DEF vars
      <3>2. TypeOK' /\ Apart'
        BY <1>1, <3>1 DEF IInv, TypeOK, Apart, Running
      <3>3. Floating' = Floating /\ \A p \in Proc : CurAddr(p)' = CurAddr(p)
        BY <3>1 DEF Floating, Driven, CurAddr, CurGpio
      <3>4. Fresh'
        BY <1>1, <3>1, <3>3 DEF IInv, Fresh, Running
      <3>5. Progress'
        BY <1>1, <3>1 DEF IInv, Progress, Running, AsAsked, CurAddr, CurGpio
      <3>6. QED
        BY <3>2, <3>4, <3>5 DEF IInv
    <2>2. ASSUME NEW p \in Proc,
                 (\E c \in Command : Start(p, c)) \/ Read(p) \/ Write(p) \/ Kill(p)
          PROVE  IInv'
      <3>1. TypeOK' /\ Apart' /\ Progress'
        BY <1>1, <2>2, TypeStep, ApartStep, ProgressStep
      <3>2. Fresh'
        BY <1>1, <2>2, FreshStep DEF Fresh
      <3>3. QED
        BY <3>1, <3>2 DEF IInv
    <2>3. QED
      BY <1>1, <2>1, <2>2 DEF Next
  <1>2. QED
    BY <1>1, InitInv, PTL DEF Spec

-----------------------------------------------------------------------------
(* What follows for the users of the tool. *)

\* The values of the registers always make sense for the port they belong to.
THEOREM TypeCorrect == Spec => []TypeOK
  <1>1. IInv => TypeOK
    BY DEF IInv
  <1>2. QED
    BY <1>1, Invariance, PTL

\* A tool that returns 0 leaves every pin of its command line as asked for.
THEOREM DoneCorrect == Spec => DoneAsAsked
  <1> DEFINE A == \A p \in Proc : pc'[p] = "done" /\ pc[p] # "done" =>
       \A k \in DOMAIN cmd[p].gpios : AsAsked(cmd[p].gpios[k], cmd[p])'
  <1>1. ASSUME IInv, [Next]_vars, NEW p \in Proc, pc'[p] = "done", pc[p] # "done",
               NEW k \in DOMAIN cmd[p].gpios
        PROVE  AsAsked(cmd[p].gpios[k], cmd[p])'
    <2>1. TypeOK
      BY <1>1 DEF IInv
    <2>2. PICK q \in Proc : (\E c \in Command : Start(q, c)) \/ Read(q) \/ Write(q) \/ Kill(q)
      BY <1>1 DEF Next, vars
    <2>3. Write(q) /\ q = p
      <3>1. ~Read(q) /\ ~Kill(q)
        BY <1>1, <2>1 DEF Read, Kill, TypeOK
      <3>2. ~\E c \in Command : Start(q, c)
        BY <1>1, <2>1 DEF Start, FirstReg, TypeOK
      <3>3. Write(q)
        BY <2>2, <3>1, <3>2
      <3>4. QED
        BY <1>1, <3>3, AdvanceFacts
    <2>4. AfterReg(pc[p], cmd[p]) = "next" /\ idx[p] = Len(cmd[p].gpios)
      <3>1. pc \in [Proc -> Regs \cup Exits]
        BY <2>1 DEF TypeOK
      <3>2. FirstReg(cmd[p], cmd[p].gpios[idx[p] + 1]) # "done"
        BY DEF FirstReg
      <3>3. QED
        BY <1>1, <2>3, <3>1, <3>2, AdvanceFacts
    <2>5. k \in 1..idx[p]
      BY <1>1, <2>1, <2>4, CurFacts
    <2>6. QED
      BY <1>1, <2>3, <2>4, <2>5, PinCompleted
  <1>2. IInv /\ [Next]_vars => [A]_vars
    BY <1>1
  <1>3. QED
    BY <1>2, Invariance, PTL DEF Spec, DoneAsAsked

\* A write leaves the face of every pin but the one it is for alone.
LEMMA FaceKept ==
  ASSUME IInv, NEW p \in Proc, Write(p), NEW g \in Pin, g # CurGpio(p)
  PROVE  Face(g)' = Face(g)
  <1>1. TypeOK /\ CurGpio(p) \in Pin
    BY CurFacts DEF IInv
  <1>2. Addr(g) # CurAddr(p) /\ Addr(g) \in Banks \X (0..31)
    BY <1>1, AddrFacts DEF CurAddr
  <1>3. \A r \in {"use", "sel", "blink"} : Addr(g) \in reg'[r] <=> Addr(g) \in reg[r]
    BY <1>2, WriteEffect DEF Regs
  <1>4. (g \in Driven)' <=> g \in Driven
    BY <1>3 DEF Driven
  <1>5. g \in Driven => (Addr(g) \in reg'["lvl"] <=> Addr(g) \in reg["lvl"])
    BY <1>2, DrivenFacts, WriteEffect DEF Regs
  <1>6. /\ (Addr(g) \in reg["use"])' = (Addr(g) \in reg["use"])
        /\ (Addr(g) \in reg["sel"])' = (Addr(g) \in reg["sel"])
        /\ (Addr(g) \in reg["blink"])' = (Addr(g) \in reg["blink"])
        /\ (g \in Driven /\ Addr(g) \in reg["lvl"])'
             = (g \in Driven /\ Addr(g) \in reg["lvl"])
    BY <1>3, <1>4, <1>5
  <1>7. QED
    BY <1>6 DEF Face

\* Only the pins on the command line of a run change while it goes on.
THEOREM NeighboursCorrect == Spec => NeighboursKept
  <1> DEFINE A == \A g \in Pin : Face(g)' # Face(g) =>
       \E p \in Proc : Running(p) /\ \E k \in DOMAIN cmd[p].gpios : cmd[p].gpios[k] = g
  <1>1. ASSUME IInv, [Next]_vars, NEW g \in Pin, Face(g)' # Face(g)
        PROVE  \E p \in Proc : Running(p) /\ \E k \in DOMAIN cmd[p].gpios : cmd[p].gpios[k] = g
    <2>1. reg' # reg
      BY <1>1 DEF Face, Driven
    <2>2. PICK p \in Proc : Write(p)
      BY <1>1, <2>1 DEF Next, vars, Start, Read, Kill
    <2>3. g = CurGpio(p)
      BY <1>1, <2>2, FaceKept
    <2>4. TypeOK /\ Running(p) /\ idx[p] \in DOMAIN cmd[p].gpios
      BY <1>1, <2>2, CurFacts DEF IInv, Write, TypeOK
    <2>5. QED
      BY <2>3, <2>4 DEF CurGpio
  <1>2. IInv /\ [Next]_vars => [A]_vars
    BY <1>1
  <1>3. QED
    BY <1>2, Invariance, PTL DEF Spec, NeighboursKept

\* Unlocked register accesses of runs that share no bank implement the pin
\* machine: whole pins change, one bit at a time.
THEOREM PinsRefinement == Spec => PinsImplemented
  <1> DEFINE U == {g \in Pin : Addr(g) \in reg["use"]}
             O == {g \in Pin : Addr(g) \notin reg["sel"]}
             L == {g \in Pin : Addr(g) \in reg["lvl"]}
  <1>1. Init => PinMachine!PinsTypeOK
    BY DEF PinMachine!PinsTypeOK
  <1>2. ASSUME IInv, [Next]_vars
        PROVE  [PinMachine!Next]_PinMachine!pinVars
    <2>1. CASE reg' = reg
      BY <2>1 DEF PinMachine!pinVars
    <2>2. CASE reg' # reg
      <3>1. PICK p \in Proc : Write(p)
        BY <1>2, <2>2 DEF Next, vars, Start, Read, Kill
      <3>2. PICK g \in Pin : g = CurGpio(p) /\ Addr(g) = CurAddr(p)
        BY <1>2, CurFacts DEF IInv, CurAddr
      <3>3. TypeOK /\ pc[p] \in Regs /\ cmd[p].level \in BOOLEAN
        BY <1>2, <3>1, CurFacts DEF IInv, Write, Running
      <3>4. \A r \in Regs, h \in Pin :
              r # pc[p] \/ (h # g /\ r # "lvl") => (Addr(h) \in reg'[r] <=> Addr(h) \in reg[r])
        BY <1>2, <3>1, <3>2, AddrFacts, WriteEffect
      <3>5. Addr(g) \in reg'[pc[p]] <=> CurBit(p)
        BY <1>2, <3>1, <3>2, WriteEffect
      <3>6. CASE pc[p] = "use"
        <4>1. U' = U \cup {g} /\ O' = O /\ L' = L
          BY <3>4, <3>5, <3>6 DEF Regs, CurBit
        <4>2. PinMachine!Enable(g)
          BY <4>1 DEF PinMachine!Enable
        <4>3. QED
          BY <4>2 DEF PinMachine!Next
      <3>7. CASE pc[p] = "sel"
        <4>1. U' = U /\ O' = O \cup {g} /\ L' = L
          BY <3>4, <3>5, <3>7 DEF Regs, CurBit
        <4>2. PinMachine!DirOut(g)
          BY <4>1 DEF PinMachine!DirOut
        <4>3. QED
          BY <4>2 DEF PinMachine!Next
      <3>8. CASE pc[p] = "lvl"
        <4>1. U' = U /\ O' = O
          BY <3>4, <3>8 DEF Regs
        <4>2. DEFINE S == {h \in Pin \ (U \cap O) :
                            h # g /\ [f \in Pin |-> BankOf(f)][h] = [f \in Pin |-> BankOf(f)][g]}
        <4>3. ASSUME NEW h \in Pin \ S, h # g
              PROVE  h \in L' <=> h \in L
          <5>1. BankOf(h) = BankOf(g) => h \in U /\ h \in O
            BY <4>3
          <5>2. BankOf(h) = BankOf(g) => Addr(h) \notin Floating
            BY <5>1, DrivenFacts
          <5>3. Addr(h) # CurAddr(p) /\ Addr(h) \in Banks \X (0..31)
                /\ Addr(h)[1] = BankOf(h) /\ CurAddr(p)[1] = BankOf(g)
            BY <3>2, <4>3, AddrFacts
          <5>4. QED
            BY <1>2, <3>1, <5>2, <5>3, WriteEffect DEF Regs
        <4>4. g \in L' <=> cmd[p].level
          BY <3>5, <3>8 DEF CurBit
        <4>5. L' = (L \ (S \cup {g})) \cup (L' \cap S) \cup (IF cmd[p].level THEN {g} ELSE {})
          BY <4>3, <4>4
        <4>6. PinMachine!SetLevel(g, cmd[p].level)
          BY <4>1, <4>5 DEF PinMachine!SetLevel, PinMachine!Shared, PinMachine!Driven
        <4>7. QED
          BY <3>3, <4>6 DEF PinMachine!Next
      <3>9. CASE pc[p] = "blink"
        BY <3>4, <3>9 DEF Regs, PinMachine!pinVars
      <3>10. QED
        BY <3>3, <3>6, <3>7, <3>8, <3>9 DEF Regs
    <2>3. QED
      BY <2>1, <2>2
  <1>3. QED
    BY <1>1, <1>2, Invariance, PTL DEF Spec, PinsImplemented, PinMachine!Spec
=============================================================================
