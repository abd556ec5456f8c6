---------------------------- MODULE ToolsProofs ----------------------------
(***************************************************************************)
(* Proofs about the tools that watch or blink one board and about the      *)
(* search for its super I/O chip, each for every table, register content   *)
(* and argument that the assumptions of its module admit.                  *)
(***************************************************************************)
EXTENDS Wdt, Nct6683d, I2cMonitor, HaLed, I2cBusses, ScanSio, SequenceTheorems, WellFoundedInduction, TLAPS

-----------------------------------------------------------------------------
(* The LED program (HaLed). *)

\* What is written to the LED's register is a byte.
LEMMA LedBytes ==
  ASSUME NEW v \in Value
  PROVE  v \in 0..255 /\ WithBit(v) \in 0..255
  <1>1. v \in 0..255
    BY LedAssumption
  <1>2. (v \div 2) % 2 # 1 => v <= 253
    BY <1>1
  <1>3. QED
    BY <1>1, <1>2 DEF WithBit

\* A transfer leaves the registers bytes, and one that is done writes its own
\* register and no other.
LEMMA Transferred ==
  ASSUME LedTypeOK, NEW r \in Address \cup {LedReg}, NEW v \in 0..255, Transfer(r, v)
  PROVE  /\ byteReg' \in [Address \cup {LedReg} -> 0..255]
         /\ ledRes' \in {0, -1}
         /\ ledRes' = 0 => byteReg'[r] = v
  BY DEF Transfer, LedTypeOK

\* The LED program's invariant holds at first.
LEMMA LedStart ==
  ASSUME LedInit
  PROVE  LedInv
  <1>1. byteReg \in [Address \cup {LedReg} -> 0..255]
    BY LedBytes DEF LedInit
  <1>2. QED
    BY <1>1 DEF LedInit, LedInv, LedTypeOK, LedAsAsked, Matched, Blinked, Unended

\* Every step of the LED program keeps its invariant.
LEMMA LedStep ==
  ASSUME LedInv, [LedNext]_ledVars
  PROVE  LedInv'
  <1> USE DEF LedInv
  <1>1. ledArg.addr \in Address /\ ledArg.value \in Value /\ ledArg.back \in BOOLEAN
    BY DEF LedTypeOK, Arg
  <1>2. CASE Open
    BY <1>2 DEF Open, LedTypeOK, LedAsAsked, Matched, Blinked, Unended
  <1>3. CASE WriteByte
    <2>1. LedTypeOK'
      <3>1. ledArg.value \in 0..255 /\ ledArg.addr \in Address \cup {LedReg}
        BY <1>1, LedBytes
      <3>2. byteReg' \in [Address \cup {LedReg} -> 0..255] /\ ledRes' \in {0, -1}
        BY <1>3, <3>1, Transferred DEF WriteByte
      <3>3. QED
        BY <1>3, <3>2 DEF WriteByte, LedTypeOK
    <2>2. ledPc' = "blink" /\ turns' = turns /\ ledExit' = ledExit
      BY <1>3 DEF WriteByte
    <2>3. turns = 0 /\ ledExit = "none"
      BY <1>3 DEF WriteByte, Unended
    <2>4. QED
      BY <2>1, <2>2, <2>3 DEF LedAsAsked, Matched, Blinked, Unended
  <1>4. CASE Blink
    <2>1. LedTypeOK'
      <3>1. /\ ledArg.value \in 0..255 /\ WithBit(ledArg.value) \in 0..255
            /\ LedReg \in Address \cup {LedReg}
        BY <1>1, LedBytes
      <3>2. PICK v \in 0..255 : Transfer(LedReg, v)
        BY <1>4, <3>1 DEF Blink
      <3>3. byteReg' \in [Address \cup {LedReg} -> 0..255] /\ ledRes' \in {0, -1}
        BY <3>1, <3>2, Transferred
      <3>4. QED
        BY <1>4, <3>3 DEF Blink, LedTypeOK
    <2>2. Blinked'
      <3>1. turns % 2 = 1 => (ledRes' = 0 => byteReg'[LedReg] = ledArg.value)
        BY <1>1, <1>4, Transferred, LedBytes DEF Blink
      <3>2. turns' % 2 = 0 => turns % 2 = 1
        BY <1>4 DEF Blink, LedTypeOK
      <3>3. QED
        BY <1>4, <3>1, <3>2 DEF Blink, Blinked
    <2>3. QED
      BY <1>4, <2>1, <2>2 DEF Blink, LedAsAsked, Matched, Unended
  <1>5. CASE Result
    <2>1. ledRes = 0 => byteReg[LedReg] = ledArg.value
      BY <1>5 DEF Result, Blinked
    <2>2. QED
      BY <1>5, <2>1 DEF Result, LedTypeOK, LedAsAsked, Matched, Blinked, Unended
  <1>6. CASE ReadBack
    <2>1. ledExit' \in {"unread", "matched", "mismatch"}
      BY <1>6 DEF ReadBack
    <2>2. byteReg[LedReg] = ledArg.value
      BY <1>6 DEF ReadBack, Blinked
    <2>3. QED
      BY <1>6, <2>1, <2>2 DEF ReadBack, LedTypeOK, LedAsAsked, Matched, Blinked, Unended
  <1>7. CASE LedAgain
    BY <1>7 DEF LedAgain, LedTypeOK, LedAsAsked, Matched, Blinked, Unended
  <1>8. CASE UNCHANGED ledVars
    BY <1>8 DEF ledVars, LedTypeOK, LedAsAsked, Matched, Blinked, Unended
  <1>9. QED
    BY <1>2, <1>3, <1>4, <1>5, <1>6, <1>7, <1>8 DEF LedNext

\* A run of the LED program that ends well leaves VALUE in the LED's register,
\* and one that prints a match has VALUE in the register written too, whichever
\* of the transfers failed, and whatever was killed before.
THEOREM LedCorrect == LedSpec => []LedInv
  <1>1. QED
    BY LedStart, LedStep, PTL DEF LedSpec

-----------------------------------------------------------------------------
(* The embedded controller (Nct6683d). *)

\* Every step of a call to the embedded controller keeps the invariant.
LEMMA EcStep ==
  ASSUME EcInv, [EcNext]_ecVars
  PROVE  EcInv'
  <1> USE DEF EcInv
  <1>1. /\ call.op \in {"read", "write"} /\ call.page \in Page
        /\ call.index \in Index /\ call.data \in Val
        /\ <<call.page, call.index>> \in Cell
    BY EcAssumption DEF EcTypeOK, Cell
  <1>2. CASE Measure
    BY <1>1, <1>2 DEF Measure, EcTypeOK, RightRegister, OnItsWay
  <1>3. CASE CheckPage
    BY <1>1, <1>3 DEF CheckPage, EcTypeOK, RightRegister, OnItsWay
  <1>4. CASE Release
    BY <1>1, <1>4 DEF Release, EcTypeOK, RightRegister, OnItsWay
  <1>5. CASE SetPage
    BY <1>1, <1>5 DEF SetPage, EcTypeOK, RightRegister, OnItsWay
  <1>6. CASE SetIndex
    BY <1>1, <1>6 DEF SetIndex, EcTypeOK, RightRegister, OnItsWay
  <1>7. CASE Data
    BY <1>1, <1>7 DEF Data, EcTypeOK, RightRegister, OnItsWay
  <1>8. CASE EcAgain
    <2>1. <<call'.page, call'.index>> \in Cell
      BY <1>8, EcAssumption DEF EcAgain, Cell
    <2>2. QED
      BY <1>8, <2>1 DEF EcAgain, EcTypeOK, RightRegister, OnItsWay
  <1>9. CASE UNCHANGED ecVars
    BY <1>9 DEF ecVars, EcTypeOK, RightRegister, OnItsWay
  <1>10. QED
    BY <1>2, <1>3, <1>4, <1>5, <1>6, <1>7, <1>8, <1>9 DEF EcNext

\* It holds at the start of the first call.
LEMMA EcStart ==
  ASSUME EcInit
  PROVE  EcInv
  <1>1. call \in Call /\ call.page \in Page /\ call.index \in Index /\ call.data \in Val
    BY EcAssumption DEF EcInit
  <1>2. ec[<<call.page, call.index>>] \in Val
    BY <1>1 DEF EcInit, Cell
  <1>3. ecRes \in Val
    BY <1>1 DEF EcInit
  <1>4. QED
    BY <1>1, <1>2, <1>3 DEF EcInit, EcInv, EcTypeOK, RightRegister, OnItsWay

\* Wherever an earlier run was killed, and whatever page it left selected, a
\* call reaches the register it names, returns what that register held during
\* the call, and leaves the page port released.
THEOREM EcCorrect == EcSpec => []EcInv
  <1>1. QED
    BY EcStart, EcStep, PTL DEF EcSpec

-----------------------------------------------------------------------------
(* The search for the super I/O chip (ScanSio). *)

\* What an address answers: its chip's numbers when that is in its
\* configuration mode, of which the vendor's is never that of no chip.
LEMMA Answers ==
  ASSUME ScanInv, addr \in isOpenAt <=> sockets[addr] # NoChip
  PROVE  /\ sockets[addr] = NoChip => Answer("vid") = Absent /\ Answer("dev") = Absent
         /\ sockets[addr] # NoChip => /\ Answer("vid") \in Nat /\ Answer("vid") < Absent
                                     /\ Answer("dev") = sockets[addr].dev
                                     /\ Answer("dev") \in Nat
  <1>1. sockets[addr] \in Found \cup {NoChip}
    <2>1. sockets \in [{78, 46} -> Found \cup {NoChip}] /\ addr \in {78, 46}
      BY DEF ScanInv, ScanTypeOK
    <2>2. QED
      BY <2>1
  <1>2. ASSUME sockets[addr] # NoChip
        PROVE  /\ sockets[addr].vid \in Nat
               /\ sockets[addr].vid < Absent
               /\ sockets[addr].dev \in Nat
    <2>1. sockets[addr] \in Found
      BY <1>1, <1>2
    <2>2. sockets[addr] \in [vid : Nat, dev : Nat]
      BY <2>1, FoundAssumption
    <2>3. QED
      BY <2>1, <2>2, FoundAssumption
  <1>3. CASE sockets[addr] = NoChip
    BY <1>3 DEF Answer
  <1>4. CASE sockets[addr] # NoChip
    <2>1. Answer("vid") = sockets[addr].vid /\ Answer("dev") = sockets[addr].dev
      BY <1>4 DEF Answer
    <2>2. QED
      BY <1>2, <1>4, <2>1
  <1>5. QED
    BY <1>3, <1>4

\* The search starts with its invariant, whatever is on the board.
LEMMA ScanStart ==
  ASSUME ScanInit
  PROVE  ScanInv
  BY DEF ScanInit, ScanInv, ScanTypeOK, NamesTheChip, AskedSoFar

\* Every step of the search keeps it.
LEMMA ScanStep ==
  ASSUME ScanInv, [ScanNext]_scanVars
  PROVE  ScanInv'
  <1> USE DEF ScanInv
  <1>1. CASE Unlock
    <2>1. /\ printed = "none" /\ scanPc' = "vid"
          /\ isOpenAt' = isOpenAt \cup ({addr} \cap {a \in DOMAIN sockets : sockets[a] # NoChip})
          /\ UNCHANGED <<sockets, addr, id, vid, devid, printed>>
      BY <1>1 DEF Unlock
    <2>2. DOMAIN sockets = {78, 46} /\ addr \in {78, 46}
      BY DEF ScanTypeOK
    <2>3. ScanTypeOK'
      BY <2>1, <2>2 DEF ScanTypeOK
    <2>4. addr \in isOpenAt' <=> sockets[addr] # NoChip
      BY <2>1, <2>2 DEF ScanTypeOK
    <2>5. QED
      BY <2>1, <2>3, <2>4 DEF NamesTheChip, AskedSoFar
  <1>2. CASE ReadVendor
    <2>1. addr \in isOpenAt <=> sockets[addr] # NoChip
      BY <1>2 DEF ReadVendor, AskedSoFar
    <2>2. Answer("vid") = Absent <=> sockets[addr] = NoChip
      BY <2>1, Answers DEF Absent
    <2>3. Answer("vid") # Absent => Answer("vid") \in Nat
      BY <2>1, <2>2, Answers
    <2>4. QED
      BY <1>2, <2>1, <2>2, <2>3
         DEF ReadVendor, ScanTypeOK, NamesTheChip, AskedSoFar, VidError, DevError
  <1>3. CASE ReadDevice
    <2>1. sockets[addr] # NoChip /\ (addr \in isOpenAt <=> sockets[addr] # NoChip)
      BY <1>3 DEF ReadDevice, AskedSoFar
    <2>2. Answer("dev") = sockets[addr].dev /\ Answer("dev") \in Nat
      BY <2>1, Answers
    <2>3. id' = FintekResult(Answer("dev")) \/ id' = NuvotonResult(Answer("dev"))
      BY <1>3 DEF ReadDevice
    <2>4. id' # VidError /\ (id' # DevError => id' = sockets[addr].dev)
      BY <2>2, <2>3 DEF FintekResult, NuvotonResult, VidError, DevError
    <2>5. QED
      BY <1>3, <2>1, <2>4 DEF ReadDevice, ScanTypeOK, NamesTheChip, AskedSoFar
  <1>4. CASE LockChip
    <2>1. /\ addr = 46 => sockets[78] = NoChip
          /\ id = VidError <=> sockets[addr] = NoChip
          /\ id \notin {VidError, DevError} => id = sockets[addr].dev
          /\ addr \in isOpenAt <=> sockets[addr] # NoChip
      BY <1>4 DEF LockChip, AskedSoFar
    <2>2. CASE id = VidError /\ addr = 78
      BY <1>4, <2>1, <2>2 DEF LockChip, ScanTypeOK, NamesTheChip, AskedSoFar
    <2>3. CASE ~(id = VidError /\ addr = 78)
      <3>1. /\ printed' = IF id = VidError THEN "nothing"
                          ELSE IF id = DevError THEN "device error" ELSE "named"
            /\ isOpenAt' = isOpenAt \ {addr}
            /\ UNCHANGED <<sockets, addr, scanPc, id, vid, devid>>
        BY <1>4, <2>3 DEF LockChip
      <3>2. ScanTypeOK' /\ AskedSoFar'
        BY <3>1 DEF ScanTypeOK, AskedSoFar
      <3>3. sockets \in [{78, 46} -> Found \cup {NoChip}] /\ addr \in {78, 46}
        BY DEF ScanTypeOK
      <3>4. CASE id = VidError
        <4>1. sockets[78] = NoChip /\ sockets[46] = NoChip
          BY <2>1, <2>3, <3>3, <3>4
        <4>2. QED
          BY <3>1, <3>2, <3>4, <4>1 DEF NamesTheChip
      <3>5. CASE id # VidError
        <4>1. addr = FirstChip /\ sockets[FirstChip] # NoChip
          BY <2>1, <3>3, <3>5 DEF FirstChip
        <4>2. printed' = "named" => id = sockets[FirstChip].dev
          BY <2>1, <3>1, <4>1
        <4>3. QED
          BY <3>1, <3>2, <3>5, <4>1, <4>2 DEF NamesTheChip, FirstChip
      <3>6. QED
        BY <3>4, <3>5
    <2>4. QED
      BY <2>2, <2>3
  <1>5. CASE ScanAgain
    <2>1. ScanTypeOK'
      BY <1>5 DEF ScanAgain, ScanTypeOK
    <2>2. addr' = 78 /\ scanPc' = "unlock" /\ printed' = "none"
      BY <1>5 DEF ScanAgain
    <2>3. QED
      BY <2>1, <2>2 DEF NamesTheChip, AskedSoFar
  <1>6. CASE UNCHANGED scanVars
    <2>1. UNCHANGED <<sockets, isOpenAt, addr, scanPc, id, vid, devid, printed>>
      BY <1>6 DEF scanVars
    <2>2. ScanTypeOK'
      BY <2>1 DEF ScanTypeOK
    <2>3. NamesTheChip'
      BY <2>1 DEF NamesTheChip, FirstChip
    <2>4. AskedSoFar'
      BY <2>1 DEF AskedSoFar
    <2>5. QED
      BY <2>2, <2>3, <2>4
  <1>7. QED
    BY <1>1, <1>2, <1>3, <1>4, <1>5, <1>6 DEF ScanNext

\* scan_sio names the chip that is on the board, at the first address that has
\* one, and says that there is none only when there is none, whatever chips
\* killed runs have left in their configuration mode.
THEOREM ScanCorrect == ScanSpec => []ScanInv
  <1>1. QED
    BY ScanStart, ScanStep, PTL DEF ScanSpec

-----------------------------------------------------------------------------
(* The watchdog (Wdt). *)

\* What the assumptions say of the watchdog on the board and of -t.
LEMMA WdtFacts ==
  ASSUME WdtTypeOK
  PROVE  /\ family \in {"NCT", "F71", "AST"}
         /\ MaxTick[family] \in Nat
         /\ wdtTime \in 1..MaxTick[family] /\ wdtTime <= 4294
         /\ family # "AST" => wdtTime <= 255
         /\ since \in 0..MaxTick[family] /\ after \in 0..MaxTick[family]
  <1>1. /\ family \in DOMAIN Seconds /\ wdtTime \in Seconds[family]
        /\ since \in 0..MaxTick[family] /\ after \in 0..MaxTick[family]
    BY DEF WdtTypeOK
  <1>2. family \in {"NCT", "F71", "AST"}
    BY <1>1, WdtAssumption DEF Families
  <1>3. family # "AST" => wdtTime <= 255
    BY <1>1, WdtAssumption
  <1>4. QED
    BY <1>1, <1>2, <1>3, WdtAssumption

\* The types of the watchdog's registers one by one.
LEMMA RegisterTypes ==
  ASSUME WdtTypeOK
  PROVE  /\ w.en \in BOOLEAN /\ w.unit \in {"sec", "min", "fast"} /\ w.count \in Nat
         /\ w.sub \in 0..59 /\ w.run \in BOOLEAN /\ w.out \in BOOLEAN
         /\ w.status \in BOOLEAN /\ w.reload \in Nat /\ w.scu \in BOOLEAN
         /\ w.pin \in BOOLEAN
  BY DEF WdtTypeOK, Registers

\* The changes of each watchdog.
LEMMA ChangesAre ==
  ASSUME WdtTypeOK
  PROVE  /\ family = "NCT" =>
              /\ Len(Changes) = 4
              /\ Changes[1] = "enable" /\ Changes[2] = "mode"
              /\ Changes[3] = "count" /\ Changes[4] = "clear"
         /\ family = "F71" =>
              /\ Len(Changes) = 4
              /\ Changes[1] = "enable" /\ Changes[2] = "output"
              /\ Changes[3] = "count" /\ Changes[4] = "start"
         /\ family = "AST" =>
              /\ Len(Changes) = 7
              /\ Changes[1] = "stop" /\ Changes[2] = "clear" /\ Changes[3] = "reload"
              /\ Changes[4] = "restart" /\ Changes[5] = "unlock"
              /\ Changes[6] = "pin" /\ Changes[7] = "go"
  BY DEF Changes

\* The reload register is wide enough for the longest time.
LEMMA ReloadFits ==
  ASSUME NEW t \in Nat, t <= 4294
  PROVE  (t * 15625) % 2^26 = 15625 * t
  <1>1. 2^26 = 67108864
    OBVIOUS
  <1>2. QED
    BY <1>1

\* What a second makes of the registers while the watchdog is counting.
LEMMA CountedDown ==
  ASSUME WdtTypeOK, Counting
  PROVE  /\ Counted \in Registers
         /\ \A f \in {"en", "unit", "run", "out", "status", "reload", "scu", "pin"} :
              Counted[f] = w[f]
         /\ Counted.count \in Nat /\ Counted.count <= w.count
         /\ w.unit = "sec" =>
              Counted.count = IF w.count > Second THEN w.count - Second ELSE 0
         /\ w.unit = "min" => Counted.count \in {w.count, w.count - 1}
         /\ w.unit = "fast" => Counted.count = 0
  <1>1. w.count \in Nat /\ w.count > 0 /\ w \in Registers /\ w.sub \in 0..59
    BY RegisterTypes DEF Counting, WdtTypeOK
  <1>2. Second \in Nat
    BY DEF Second
  <1>3. CASE w.unit = "fast"
    BY <1>1, <1>3 DEF Counted, Registers
  <1>4. CASE w.unit = "min"
    <2>1. CASE w.sub < 59
      BY <1>1, <1>4, <2>1 DEF Counted, Registers
    <2>2. CASE ~(w.sub < 59)
      <3>1. Counted = [w EXCEPT !.sub = 0, !.count = w.count - 1]
        BY <1>4, <2>2 DEF Counted
      <3>2. [w EXCEPT !.sub = 0] \in Registers
        BY <1>1 DEF Registers
      <3>3. Counted = [[w EXCEPT !.sub = 0] EXCEPT !.count = w.count - 1]
        BY <1>1, <3>1 DEF Registers
      <3>4. w.count - 1 \in Nat
        BY <1>1
      <3>5. Counted \in Registers
        BY <3>2, <3>3, <3>4 DEF Registers
      <3>6. QED
        BY <1>1, <1>4, <3>1, <3>4, <3>5 DEF Registers
    <2>3. QED
      BY <2>1, <2>2
  <1>5. CASE w.unit = "sec"
    <2>1. Counted = [w EXCEPT !.count = IF @ > Second THEN @ - Second ELSE 0]
      BY <1>5 DEF Counted
    <2>2. QED
      BY <1>1, <1>2, <1>5, <2>1 DEF Registers
  <1>6. QED
    BY <1>3, <1>4, <1>5, RegisterTypes

\* The registers after a second.
LEMMA Ticked ==
  ASSUME WdtTypeOK, Tick
  PROVE  /\ w' \in Registers
         /\ \A f \in {"en", "unit", "run", "out", "reload", "scu", "pin"} : w'[f] = w[f]
         /\ Counting => w'.count = Counted.count
         /\ Counting => up' = ~(Counted.count = 0 /\ Resets)
         /\ ~Counting => w' = w /\ up'
  <1>1. CASE Counting
    <2>1. Counted \in Registers
      BY <1>1, CountedDown
    <2>2. w' = [Counted EXCEPT !.status = @ \/ Counted.count = 0]
      BY <1>1 DEF Tick
    <2>3. QED
      BY <1>1, <2>1, <2>2, CountedDown DEF Registers, Tick
  <1>2. CASE ~Counting
    BY <1>2 DEF Tick, WdtTypeOK
  <1>3. QED
    BY <1>1, <1>2

\* A second less to go, and one more gone.
LEMMA SecondLess ==
  ASSUME WdtTypeOK, NEW c \in Nat, c > Second
  PROVE  (c - Second + Second - 1) \div Second = (c + Second - 1) \div Second - 1
  <1>1. CASE Second = 1
    BY <1>1
  <1>2. CASE Second = 15625
    BY <1>2
  <1>3. QED
    BY <1>1, <1>2 DEF Second

\* A count of at most one second still asks for one.
LEMMA LastSecond ==
  ASSUME NEW c \in Nat, c > 0, c <= Second
  PROVE  (c + Second - 1) \div Second = 1
  <1>1. CASE Second = 1
    BY <1>1
  <1>2. CASE Second = 15625
    BY <1>2
  <1>3. QED
    BY <1>1, <1>2 DEF Second

\* A count above zero asks for at least one second.
LEMMA SomeLeft ==
  ASSUME NEW c \in Nat, c > 0
  PROVE  (c + Second - 1) \div Second \in Nat \ {0}
  <1>1. CASE Second = 1
    BY <1>1
  <1>2. CASE Second = 15625
    BY <1>2
  <1>3. QED
    BY <1>1, <1>2 DEF Second

\* No count asks for none.
LEMMA NoneLeft ==
  (0 + Second - 1) \div Second = 0
  <1>1. CASE Second = 1
    BY <1>1
  <1>2. CASE Second = 15625
    BY <1>2
  <1>3. QED
    BY <1>1, <1>2 DEF Second

LEMMA LeftNat ==
  ASSUME NEW c \in Nat
  PROVE  (c + Second - 1) \div Second \in Nat
  <1>1. CASE c = 0
    BY <1>1, NoneLeft
  <1>2. CASE c > 0
    BY <1>2, SomeLeft
  <1>3. QED
    BY <1>1, <1>2

\* What it is for the seconds left to lie between bounds that are not below 0.
LEMMA Within ==
  ASSUME NEW l \in Nat, NEW a \in Int, NEW b \in Int
  PROVE  l \in AtLeast0(a)..AtLeast0(b) <=> l >= a /\ (l <= b \/ l = 0)
  BY DEF AtLeast0

\* What another second may take from a count, and how far the time may have come.
LEMMA OneLess ==
  ASSUME NEW c \in Nat, NEW d \in Nat, NEW t \in Nat, NEW s \in Int, NEW r \in Int,
         c >= t - s, c <= t, d \in {c, c - 1} \/ (c = 0 /\ d = 0),
         r >= s, r >= s + 1 \/ r >= t
  PROVE  d >= t - r /\ d <= t
  OBVIOUS

LEMMA OneLater ==
  ASSUME NEW t \in Nat, NEW s \in Int, NEW r \in Int, NEW m \in Nat,
         t <= m, s <= m, s < m => r = s + 1, s = m => r = s
  PROVE  r >= s /\ (r >= s + 1 \/ r >= t)
  OBVIOUS

LEMMA WithinTime ==
  ASSUME NEW l \in Nat, NEW a \in Int, NEW b \in Nat
  PROVE  l \in AtLeast0(a)..b <=> l >= a /\ l <= b
  BY DEF AtLeast0

\* What the invariant says of a Fintek board once the counter is set.
LEMMA FintekUnderway ==
  ASSUME Underway, up, wdtPc > 0, wdtPc > 2, wdtPc > 3, family = "F71"
  PROVE  /\ w.count \in AtLeast0(wdtTime - since)..wdtTime
         /\ w.count > 0 \/ PinTaken
         /\ w.out
  <1>1. w.count \in AtLeast0(wdtTime - since)..wdtTime
    BY DEF Underway
  <1>2. w.count > 0 \/ PinTaken
    BY DEF Underway
  <1>3. w.out
    BY DEF Underway
  <1>4. QED
    BY <1>1, <1>2, <1>3, Zenon

\* A second keeps the invariant, and does not let the watchdog bite early.
LEMMA TickStep ==
  ASSUME WdtInv, NotEarly, Tick
  PROVE  WdtInv' /\ NotEarly'
  <1> USE DEF WdtInv
  <1>1. /\ w' \in Registers /\ w'.count \in Nat
        /\ w.count \in Nat
    BY Ticked, RegisterTypes DEF Registers
  <1>2. /\ since' = Later(since) /\ after' = (IF ended THEN Later(after) ELSE 0)
        /\ up /\ up' \in BOOLEAN
        /\ UNCHANGED <<family, wdtPc, ended, hit, wdtTime>>
    BY DEF Tick
  <1>3. /\ since' \in 0..MaxTick[family] /\ after' \in 0..MaxTick[family]
        /\ since < MaxTick[family] => since' = since + 1
        /\ since = MaxTick[family] => since' = since
        /\ ended /\ after < MaxTick[family] => after' = after + 1
        /\ ended /\ after = MaxTick[family] => after' = after
        /\ ~ended => after' = 0
    BY <1>2, WdtFacts DEF Later
  <1>4. WdtTypeOK'
    <2>1. Len(Changes)' = Len(Changes)
      BY <1>2 DEF Changes
    <2>2. QED
      BY <1>1, <1>2, <1>3, <2>1, Ticked DEF WdtTypeOK
  <1>5. Second' = Second /\ Second \in Nat \ {0}
    BY <1>2 DEF Second
  <1>6. ASSUME ended
        PROVE  /\ NotEarly'
               /\ ArmedAsAsked'
    <2>1. /\ w.unit = "sec"
          /\ Counting \/ (PinTaken /\ w.count = 0)
          /\ Resets \/ PinTaken
          /\ Left \in AtLeast0(wdtTime - since)..AtLeast0(wdtTime - after)
      BY <1>2, <1>6 DEF ArmedAsAsked
    <2>2. Left \in Nat
      BY <1>1, LeftNat DEF Left
    <2>3. Left >= wdtTime - since /\ (Left <= wdtTime - after \/ Left = 0)
      BY <2>1, <2>2, Within, WdtFacts
    <2>4. PinTaken' <=> PinTaken
      BY <1>2, Ticked DEF PinTaken
    <2>5. CASE ~Counting
      <3>1. PinTaken /\ w.count = 0 /\ w' = w /\ up'
        BY <2>1, <2>5, Ticked
      <3>2. Left = 0 /\ Left' = Left
        BY <1>5, <3>1, NoneLeft DEF Left
      <3>3. Left' >= wdtTime' - since' /\ Left' = 0
        BY <1>2, <1>3, <2>3, <3>2, WdtFacts
      <3>4. Left' \in AtLeast0(wdtTime' - since')..AtLeast0(wdtTime' - after')
        BY <1>2, <1>3, <3>3, Within, WdtFacts
      <3>5. QED
        BY <2>1, <2>4, <3>1, <3>4 DEF ArmedAsAsked, NotEarly
    <2>6. CASE Counting /\ w.count > Second
      <3>1. w'.count = w.count - Second /\ w'.count > 0
        BY <1>1, <1>5, <2>1, <2>6, CountedDown, Ticked
      <3>2. up'
        <4>1. Counted.count # 0 /\ up' = ~(Counted.count = 0 /\ Resets)
          BY <2>6, <3>1, Ticked
        <4>2. QED
          BY <4>1
      <3>3. w'.unit = "sec" /\ Counting' /\ (Resets' <=> Resets)
        BY <1>2, <2>1, <2>6, <3>1, Ticked DEF Counting, Resets
      <3>4. Left' = Left - 1 /\ Left \in Nat \ {0}
        <4>1. Left' = (w.count - Second + Second - 1) \div Second
          BY <1>5, <3>1 DEF Left
        <4>2. (w.count - Second + Second - 1) \div Second = Left - 1
          BY <1>1, <2>6, SecondLess DEF Left
        <4>3. w.count > 0
          BY <2>6 DEF Counting
        <4>4. Left \in Nat \ {0}
          BY <1>1, <4>3, SomeLeft DEF Left
        <4>5. QED
          BY <4>1, <4>2, <4>4
      <3>5. Left' >= wdtTime' - since' /\ (Left' <= wdtTime' - after' \/ Left' = 0)
        BY <1>2, <1>3, <1>6, <2>3, <3>4, WdtFacts
      <3>6. Left' \in AtLeast0(wdtTime' - since')..AtLeast0(wdtTime' - after')
        BY <1>2, <1>3, <3>4, <3>5, Within, WdtFacts
      <3>7. QED
        BY <2>1, <2>4, <3>2, <3>3, <3>6 DEF ArmedAsAsked, NotEarly
    <2>7. CASE Counting /\ ~(w.count > Second)
      <3>1. Counted.count = 0 /\ w'.count = 0 /\ up' = ~Resets
        BY <1>1, <1>5, <2>1, <2>7, CountedDown, Ticked
      <3>2. Left = 1
        <4>1. w.count > 0
          BY <2>7 DEF Counting
        <4>2. QED
          BY <1>1, <1>5, <2>7, <4>1, LastSecond DEF Left
      <3>3. since' >= wdtTime'
        BY <1>2, <1>3, <2>3, <3>2, WdtFacts
      <3>4. Left' = 0
        BY <1>5, <3>1, NoneLeft DEF Left
      <3>5. Left' \in AtLeast0(wdtTime' - since')..AtLeast0(wdtTime' - after')
        BY <1>2, <1>3, <3>3, <3>4, Within, WdtFacts
      <3>6. w'.unit = "sec"
        BY <2>1, Ticked
      <3>7. up' => PinTaken' /\ w'.count = 0
        BY <2>1, <2>4, <3>1
      <3>8. QED
        BY <1>2, <3>3, <3>5, <3>6, <3>7 DEF ArmedAsAsked, NotEarly
    <2>8. QED
      BY <2>5, <2>6, <2>7
  <1>7. ASSUME up', wdtPc > 0
        PROVE  Underway'
    <2>1. ~ended /\ after' = 0
      BY <1>2, <1>3, <1>7 DEF Underway
    <2>2. CASE family = "NCT"
      <3>1. /\ wdtPc > 1 => w'.en
            /\ wdtPc > 2 => w'.unit = "sec"
        BY <1>2, <1>7, <2>2, Ticked DEF Underway
      <3>2. ASSUME wdtPc > 3
            PROVE  w'.count >= wdtTime - since' /\ w'.count <= wdtTime /\ w'.count > 0
        <4>1. /\ w.count >= wdtTime - since /\ w.count <= wdtTime /\ w.count > 0
              /\ w.en /\ w.unit = "sec"
          BY <1>1, <1>2, <1>7, <2>2, <3>2, WdtFacts DEF Underway, WdtTypeOK
        <4>2. Counting /\ Resets /\ Second = 1
          BY <2>2, <4>1 DEF Counting, Resets, Second
        <4>3. w'.count = IF w.count > 1 THEN w.count - 1 ELSE 0
          BY <4>1, <4>2, CountedDown, Ticked
        <4>4. w'.count # 0
          BY <1>7, <4>2, Ticked
        <4>5. QED
          BY <1>1, <1>3, <4>1, <4>3, <4>4, WdtFacts
      <3>3. wdtPc > 3 => w'.count \in (wdtTime - since')..wdtTime /\ w'.count > 0
        BY <1>1, <1>3, <3>2, WdtFacts
      <3>4. QED
        BY <1>2, <2>1, <2>2, <3>1, <3>3 DEF Underway
    <2>3. CASE family = "F71"
      <3> wdtTime \in Nat /\ since \in Int /\ since' \in Int
        BY <1>3, WdtFacts
      <3>1. /\ wdtPc > 1 => w'.en
            /\ wdtPc > 2 => w'.out
        BY <1>2, <1>7, <2>3, Ticked DEF Underway
      <3>2. ASSUME wdtPc > 3
            PROVE  /\ w'.count >= wdtTime - since' /\ w'.count <= wdtTime
                   /\ w'.count > 0 \/ PinTaken'
        <4>1. w.count \in AtLeast0(wdtTime - since)..wdtTime /\ (w.count > 0 \/ PinTaken) /\ w.out
          <5>1. wdtPc > 0 /\ wdtPc > 2
            BY <3>2 DEF WdtTypeOK
          <5>2. up
            BY <1>2
          <5>3. QED
            BY <2>3, <3>2, <5>1, <5>2, FintekUnderway
        <4>2. w.count >= wdtTime - since /\ w.count <= wdtTime
          BY <1>1, <4>1 DEF AtLeast0
        <4>3. /\ Resets \/ PinTaken
              /\ Second = 1 /\ (PinTaken' <=> PinTaken) /\ w.unit \in {"sec", "min"}
          BY <1>2, <2>3, <4>1, Ticked, RegisterTypes DEF Resets, Second, PinTaken, WdtTypeOK
        <4>4. CASE ~Counting
          <5>1. w' = w
            BY <4>4, Ticked
          <5>2. QED
            BY <1>1, <1>3, <4>1, <4>2, <4>3, <5>1, WdtFacts
        <4>5. CASE Counting
          <5>1. w'.count = Counted.count /\ (w'.count # 0 \/ PinTaken)
            BY <1>7, <4>3, <4>5, Ticked
          <5>2. w'.count \in {w.count, w.count - 1} \/ (w.count = 0 /\ w'.count = 0)
            BY <1>1, <4>3, <4>5, <5>1, CountedDown
          <5>3. w'.count >= wdtTime - since' /\ w'.count <= wdtTime
            <6>1. MaxTick[family] \in Nat /\ wdtTime <= MaxTick[family] /\ since <= MaxTick[family]
              BY WdtFacts
            <6>2. since' >= since /\ (since' >= since + 1 \/ since' >= wdtTime)
              BY <1>3, <6>1, OneLater
            <6>3. QED
              BY <1>1, <4>2, <5>2, <6>2, OneLess
          <5>4. QED
            BY <1>1, <4>3, <5>1, <5>3
        <4>6. QED
          BY <4>4, <4>5
      <3>3. wdtPc > 3 => /\ w'.count \in AtLeast0(wdtTime - since')..wdtTime
                         /\ w'.count > 0 \/ PinTaken'
        <4>1. wdtTime - since' \in Int /\ w'.count \in Nat
          BY <1>1
        <4>2. w'.count >= wdtTime - since' /\ w'.count <= wdtTime =>
                w'.count \in AtLeast0(wdtTime - since')..wdtTime
          BY <4>1, WithinTime, Zenon
        <4>3. QED
          BY <3>2, <4>2
      <3>4. QED
        BY <1>2, <2>1, <2>3, <3>1, <3>3 DEF Underway
    <2>4. CASE family = "AST"
      <3>1. wdtPc > 1 => ~w.run /\ w.unit = "sec"
        BY <1>2, <1>7, <2>4 DEF Underway
      <3>2. wdtPc > 1 => w' = w
        BY <2>4, <3>1, Ticked DEF Counting
      <3>3. wdtPc \in Nat
        BY DEF WdtTypeOK
      <3>4. QED
        BY <1>2, <1>7, <2>1, <2>4, <3>1, <3>2, <3>3 DEF Underway
    <2>5. QED
      BY <2>2, <2>3, <2>4, WdtFacts
  <1>8. QED
    BY <1>2, <1>4, <1>6, <1>7 DEF ArmedAsAsked, NotEarly, Underway

\* What each change makes of the registers.
LEMMA EffectTypes ==
  ASSUME WdtTypeOK,
         NEW s \in {"enable", "mode", "output", "count", "clear", "start", "stop",
                    "reload", "restart", "unlock", "pin", "go"}
  PROVE  Effect(s) \in Registers
  <1>1. wdtTime % 256 \in Nat
    BY WdtFacts
  <1>2. w \in Registers
    BY DEF WdtTypeOK
  <1>3. Effect("enable") \in Registers
    <2>1. Effect("enable") = [w EXCEPT !.en = TRUE]
      BY DEF Effect
    <2>2. QED
      BY <1>2, <2>1 DEF Registers
  <1>4. Effect("mode") \in Registers
    <2>1. Effect("mode") = [w EXCEPT !.unit = "sec"]
      BY DEF Effect
    <2>2. QED
      BY <1>2, <2>1 DEF Registers
  <1>5. Effect("output") \in Registers
    <2>1. Effect("output") = [w EXCEPT !.out = TRUE]
      BY DEF Effect
    <2>2. QED
      BY <1>2, <2>1 DEF Registers
  <1>6. Effect("clear") \in Registers
    <2>1. Effect("clear") = [w EXCEPT !.status = FALSE]
      BY DEF Effect
    <2>2. QED
      BY <1>2, <2>1 DEF Registers
  <1>7. Effect("count") \in Registers
    <2>1. Effect("count") = [w EXCEPT !.count = wdtTime % 256, !.sub = 0]
      BY DEF Effect
    <2>2. [w EXCEPT !.count = wdtTime % 256] \in Registers
      BY <1>1, <1>2 DEF Registers
    <2>3. Effect("count") = [[w EXCEPT !.count = wdtTime % 256] EXCEPT !.sub = 0]
      BY <1>2, <2>1 DEF Registers
    <2>4. PICK r \in Registers : r = [w EXCEPT !.count = wdtTime % 256]
      BY <2>2
    <2>5. [r EXCEPT !.sub = 0] \in Registers
      BY DEF Registers
    <2>6. QED
      BY <2>3, <2>4, <2>5
  <1>8. Effect("stop") \in Registers
    <2>1. Effect("stop") = [w EXCEPT !.run = FALSE, !.unit = "sec"]
      BY DEF Effect
    <2>2. [w EXCEPT !.run = FALSE] \in Registers
      BY <1>2 DEF Registers
    <2>3. Effect("stop") = [[w EXCEPT !.run = FALSE] EXCEPT !.unit = "sec"]
      BY <1>2, <2>1 DEF Registers
    <2>4. QED
      BY <2>2, <2>3 DEF Registers
  <1>9. Effect("start") \in Registers
    <2>1. Effect("start") = [w EXCEPT !.unit = "sec", !.run = TRUE, !.status = FALSE]
      BY DEF Effect
    <2>2. [w EXCEPT !.unit = "sec"] \in Registers
      BY <1>2 DEF Registers
    <2>3. [[w EXCEPT !.unit = "sec"] EXCEPT !.run = TRUE] \in Registers
      BY <2>2 DEF Registers
    <2>4. Effect("start") = [[[w EXCEPT !.unit = "sec"] EXCEPT !.run = TRUE] EXCEPT !.status = FALSE]
      BY <1>2, <2>1 DEF Registers
    <2>5. QED
      BY <2>3, <2>4 DEF Registers
  <1>10. Effect("go") \in Registers
    <2>1. Effect("go") = [w EXCEPT !.run = TRUE, !.out = TRUE, !.unit = "sec"]
      BY DEF Effect
    <2>2. [w EXCEPT !.run = TRUE] \in Registers
      BY <1>2 DEF Registers
    <2>3. [[w EXCEPT !.run = TRUE] EXCEPT !.out = TRUE] \in Registers
      BY <2>2 DEF Registers
    <2>4. Effect("go") = [[[w EXCEPT !.run = TRUE] EXCEPT !.out = TRUE] EXCEPT !.unit = "sec"]
      BY <1>2, <2>1 DEF Registers
    <2>5. QED
      BY <2>3, <2>4 DEF Registers
  <1>11. Effect("reload") \in Registers
    <2>1. Effect("reload") = [w EXCEPT !.reload = (wdtTime * 15625) % 2^26]
      BY DEF Effect
    <2>2. (wdtTime * 15625) % 2^26 \in Nat
      BY WdtFacts, ReloadFits
    <2>3. QED
      BY <1>2, <2>1, <2>2 DEF Registers
  <1>12. Effect("restart") \in Registers
    <2>1. Effect("restart") = [w EXCEPT !.count = w.reload]
      BY DEF Effect
    <2>2. QED
      BY <1>2, <2>1 DEF Registers
  <1>13. Effect("unlock") \in Registers
    <2>1. Effect("unlock") = [w EXCEPT !.scu = TRUE]
      BY DEF Effect
    <2>2. QED
      BY <1>2, <2>1 DEF Registers
  <1>14. Effect("pin") \in Registers
    <2>1. Effect("pin") = [w EXCEPT !.pin = w.pin \/ w.scu]
      BY DEF Effect
    <2>2. QED
      BY <1>2, <2>1 DEF Registers
  <1>15. QED
    BY <1>3, <1>4, <1>5, <1>6, <1>7, <1>8, <1>9, <1>10, <1>11, <1>12, <1>13, <1>14

\* A change before the last one leads to the next, and the last one returns.
LEMMA ChangeStep ==
  ASSUME WdtInv, NotEarly, ChangeRegister
  PROVE  WdtInv' /\ NotEarly'
  <1> USE DEF WdtInv
  <1> DEFINE n == Len(Changes)
             s == Changes[wdtPc]
  <1>1. /\ up /\ w \in Registers /\ w' = Effect(s)
        /\ UNCHANGED <<family, hit, wdtTime>> /\ up'
        /\ since' = IF s \in {"count", "go"} THEN 0 ELSE since
    BY DEF ChangeRegister, WdtTypeOK
  <1>2. /\ wdtPc \in 1..n /\ n \in Nat
        /\ family = "NCT" => /\ n = 4
                             /\ wdtPc = 1 => s = "enable"
                             /\ wdtPc = 2 => s = "mode"
                             /\ wdtPc = 3 => s = "count"
                             /\ wdtPc = 4 => s = "clear"
        /\ family = "F71" => /\ n = 4
                             /\ wdtPc = 1 => s = "enable"
                             /\ wdtPc = 2 => s = "output"
                             /\ wdtPc = 3 => s = "count"
                             /\ wdtPc = 4 => s = "start"
        /\ family = "AST" => /\ n = 7
                             /\ wdtPc = 1 => s = "stop"
                             /\ wdtPc = 2 => s = "clear"
                             /\ wdtPc = 3 => s = "reload"
                             /\ wdtPc = 4 => s = "restart"
                             /\ wdtPc = 5 => s = "unlock"
                             /\ wdtPc = 6 => s = "pin"
                             /\ wdtPc = 7 => s = "go"
    BY <1>1, ChangesAre, WdtFacts DEF ChangeRegister, WdtTypeOK
  <1>3. ~ended /\ after = 0
    BY <1>1, <1>2 DEF Underway
  <1>4. /\ wdtPc < n => wdtPc' = wdtPc + 1 /\ ~ended'
        /\ wdtPc = n => wdtPc' = 0 /\ ended'
        /\ ended' \in BOOLEAN /\ after' = 0
    <2>1. CASE wdtPc < n
      BY <1>2, <1>3, <2>1 DEF ChangeRegister, WdtTypeOK
    <2>2. CASE ~(wdtPc < n)
      BY <1>2, <1>3, <2>2 DEF ChangeRegister, WdtReturn
    <2>3. QED
      BY <2>1, <2>2
  <1> Len(Changes)' = n
    BY <1>1 DEF Changes
  <1> HIDE DEF n, s
  <1>5. WdtTypeOK'
    <2>1. w' \in Registers
      <3>1. s \in {"enable", "mode", "output", "count", "clear", "start", "stop",
                   "reload", "restart", "unlock", "pin", "go"}
        BY <1>2, WdtFacts
      <3>2. QED
        BY <1>1, <3>1, EffectTypes
    <2>2. family = "F71" => w'.unit # "fast"
      <3>1. HAVE family = "F71"
      <3>2. w.unit # "fast" /\ s \in {"enable", "output", "count", "start"}
        BY <1>2, <3>1 DEF WdtTypeOK
      <3>3. w'.unit \in {w.unit, "sec"}
        BY <1>1, <3>2 DEF Effect, Registers
      <3>4. QED
        BY <3>2, <3>3
    <2>3. since' \in 0..MaxTick[family] /\ after' \in 0..MaxTick[family]
      BY <1>1, <1>4, WdtFacts
    <2>4. wdtPc' \in 0..n
      BY <1>2, <1>4
    <2>5. QED
      BY <1>1, <1>4, <2>1, <2>2, <2>3, <2>4 DEF WdtTypeOK
  <1>6. NotEarly'
    BY <1>1 DEF NotEarly
  <1>7. CASE wdtPc < n
    <2>1. ASSUME family = "NCT"
          PROVE  /\ w'.en
                 /\ wdtPc > 1 => w'.unit = "sec"
                 /\ wdtPc > 2 => /\ w'.count \in (wdtTime - since')..wdtTime
                                 /\ w'.count > 0
      <3>1. CASE wdtPc = 1
        <4>1. w' = [w EXCEPT !.en = TRUE]
          BY <1>1, <1>2, <2>1, <3>1 DEF Effect
        <4>2. QED
          BY <1>1, <3>1, <4>1 DEF Registers
      <3>2. CASE wdtPc = 2
        <4>1. w' = [w EXCEPT !.unit = "sec"] /\ w.en
          BY <1>1, <1>2, <2>1, <3>2 DEF Effect, Underway
        <4>2. QED
          BY <1>1, <3>2, <4>1 DEF Registers
      <3>3. CASE wdtPc = 3
        <4>1. /\ w' = [w EXCEPT !.count = wdtTime % 256, !.sub = 0]
              /\ since' = 0
          BY <1>1, <1>2, <2>1, <3>3 DEF Effect
        <4>2. wdtTime % 256 = wdtTime /\ wdtTime > 0 /\ wdtTime \in (wdtTime - 0)..wdtTime
          BY <2>1, WdtFacts
        <4>3. w'.count = wdtTime /\ w'.en = w.en /\ w'.unit = w.unit
          BY <1>1, <4>1, <4>2 DEF Registers
        <4>4. w.en /\ w.unit = "sec"
          BY <1>1, <1>2, <2>1, <3>3 DEF Underway
        <4>5. QED
          BY <4>1, <4>2, <4>3, <4>4
      <3>4. QED
        BY <1>2, <1>7, <2>1, <3>1, <3>2, <3>3
    <2>2. ASSUME family = "F71"
          PROVE  /\ w'.en
                 /\ wdtPc > 1 => w'.out
                 /\ wdtPc > 2 => /\ w'.count \in AtLeast0(wdtTime - since')..wdtTime
                                 /\ w'.count > 0 \/ PinTaken'
      <3>1. CASE wdtPc = 1
        <4>1. w' = [w EXCEPT !.en = TRUE]
          BY <1>1, <1>2, <2>2, <3>1 DEF Effect
        <4>2. QED
          BY <1>1, <3>1, <4>1 DEF Registers
      <3>2. CASE wdtPc = 2
        <4>1. w' = [w EXCEPT !.out = TRUE] /\ w.en
          BY <1>1, <1>2, <2>2, <3>2 DEF Effect, Underway
        <4>2. QED
          BY <1>1, <3>2, <4>1 DEF Registers
      <3>3. CASE wdtPc = 3
        <4>1. /\ w' = [w EXCEPT !.count = wdtTime % 256, !.sub = 0]
              /\ since' = 0
          BY <1>1, <1>2, <2>2, <3>3 DEF Effect
        <4>2. wdtTime % 256 = wdtTime /\ wdtTime > 0 /\ wdtTime \in AtLeast0(wdtTime - 0)..wdtTime
          BY <2>2, WdtFacts DEF AtLeast0
        <4>3. w'.count = wdtTime /\ w'.en = w.en /\ w'.out = w.out
          BY <1>1, <4>1, <4>2 DEF Registers
        <4>4. w.en /\ w.out
          BY <1>1, <1>2, <2>2, <3>3 DEF Underway
        <4>5. QED
          BY <4>1, <4>2, <4>3, <4>4
      <3>4. QED
        BY <1>2, <1>7, <2>2, <3>1, <3>2, <3>3
    <2>3. ASSUME family = "AST"
          PROVE  /\ ~w'.run /\ w'.unit = "sec"
                 /\ wdtPc > 2 => w'.reload = 15625 * wdtTime
                 /\ wdtPc > 3 => w'.count = w'.reload
                 /\ wdtPc > 4 => w'.scu
                 /\ wdtPc > 5 => w'.pin
      <3>1. wdtPc > 1 => ~w.run /\ w.unit = "sec"
        BY <1>1, <1>2, <2>3 DEF Underway
      <3>2. CASE wdtPc = 1
        <4>1. w' = [w EXCEPT !.run = FALSE, !.unit = "sec"]
          BY <1>1, <1>2, <2>3, <3>2 DEF Effect
        <4>2. QED
          BY <1>1, <3>2, <4>1 DEF Registers
      <3>3. CASE wdtPc = 2
        <4>1. w' = [w EXCEPT !.status = FALSE]
          BY <1>1, <1>2, <2>3, <3>3 DEF Effect
        <4>2. QED
          BY <1>1, <3>1, <3>3, <4>1 DEF Registers
      <3>4. CASE wdtPc = 3
        <4>1. w' = [w EXCEPT !.reload = (wdtTime * 15625) % 2^26]
          BY <1>1, <1>2, <2>3, <3>4 DEF Effect
        <4>2. (wdtTime * 15625) % 2^26 = 15625 * wdtTime
          BY ReloadFits, WdtFacts
        <4>3. w'.reload = 15625 * wdtTime /\ w'.run = w.run /\ w'.unit = w.unit
          BY <1>1, <4>1, <4>2 DEF Registers
        <4>4. QED
          BY <3>1, <3>4, <4>3
      <3>5. CASE wdtPc = 4
        <4>1. w.reload = 15625 * wdtTime
          BY <1>1, <1>2, <2>3, <3>5 DEF Underway
        <4>2. w' = [w EXCEPT !.count = w.reload]
          BY <1>1, <1>2, <2>3, <3>5 DEF Effect
        <4>3. QED
          BY <1>1, <3>1, <3>5, <4>1, <4>2 DEF Registers
      <3>6. CASE wdtPc = 5
        <4>1. w.reload = 15625 * wdtTime /\ w.count = w.reload
          BY <1>1, <1>2, <2>3, <3>6 DEF Underway
        <4>2. w' = [w EXCEPT !.scu = TRUE]
          BY <1>1, <1>2, <2>3, <3>6 DEF Effect
        <4>3. QED
          BY <1>1, <3>1, <3>6, <4>1, <4>2 DEF Registers
      <3>7. CASE wdtPc = 6
        <4>1. w.reload = 15625 * wdtTime /\ w.count = w.reload /\ w.scu
          BY <1>1, <1>2, <2>3, <3>7 DEF Underway
        <4>2. w' = [w EXCEPT !.pin = w.pin \/ w.scu]
          BY <1>1, <1>2, <2>3, <3>7 DEF Effect
        <4>3. QED
          BY <1>1, <3>1, <3>7, <4>1, <4>2 DEF Registers
      <3>8. QED
        BY <1>2, <1>7, <2>3, <3>2, <3>3, <3>4, <3>5, <3>6, <3>7
    <2>4. Underway'
      <3>1. wdtPc' = wdtPc + 1 /\ wdtPc \in Nat /\ wdtPc > 0
        BY <1>2, <1>4, <1>7
      <3>2. QED
        BY <1>1, <1>4, <1>7, <2>1, <2>2, <2>3, <3>1 DEF Underway
    <2>5. ArmedAsAsked'
      BY <1>4, <1>7 DEF ArmedAsAsked
    <2>6. QED
      BY <1>5, <1>6, <2>4, <2>5
  <1>8. CASE wdtPc = n
    <2>1. since' \in Int /\ wdtTime \in Nat /\ wdtTime > 0
      BY <1>1, WdtFacts
    <2>2. ASSUME family = "NCT" \/ family = "F71"
          PROVE  /\ w'.unit = "sec"
                 /\ Counting' \/ (PinTaken' /\ w'.count = 0)
                 /\ Resets' \/ PinTaken'
                 /\ Left' >= wdtTime - since' /\ Left' <= wdtTime
      <3>1. /\ w.en /\ w.count >= wdtTime - since /\ w.count <= wdtTime
            /\ w.count > 0 \/ PinTaken
            /\ family = "NCT" => w.unit = "sec" /\ w.count > 0
            /\ family = "F71" => w.out
        <4>1. CASE family = "NCT"
          BY <1>1, <1>2, <1>8, <4>1 DEF Underway
        <4>2. CASE family = "F71"
          <5>1. /\ w.en /\ w.out /\ (w.count > 0 \/ PinTaken)
                /\ w.count \in AtLeast0(wdtTime - since)..wdtTime
            BY <1>1, <1>2, <1>8, <4>2 DEF Underway
          <5>2. w.count >= wdtTime - since /\ w.count <= wdtTime
            <6>1. w.count \in Nat /\ wdtTime \in Nat /\ since \in Int
              BY WdtFacts, RegisterTypes
            <6>2. QED
              BY <5>1, <6>1 DEF AtLeast0
          <5>3. QED
            BY <4>2, <5>1, <5>2
        <4>3. QED
          BY <2>2, <4>1, <4>2
      <3>2. since' = since
        BY <1>1, <1>2, <1>8, <2>2
      <3>3. /\ w'.en = w.en /\ w'.count = w.count /\ w'.out = w.out
            /\ w'.unit = "sec" /\ w'.pin = w.pin /\ w.count \in Nat
            /\ family = "F71" => w'.run
        <4>1. CASE family = "NCT"
          <5>1. w' = [w EXCEPT !.status = FALSE]
            BY <1>1, <1>2, <1>8, <4>1 DEF Effect
          <5>2. QED
            BY <1>1, <3>1, <4>1, <5>1 DEF Registers
        <4>2. CASE family = "F71"
          <5>1. w' = [w EXCEPT !.unit = "sec", !.run = TRUE, !.status = FALSE]
            BY <1>1, <1>2, <1>8, <4>2 DEF Effect
          <5>2. QED
            BY <1>1, <5>1 DEF Registers
        <4>3. QED
          BY <2>2, <4>1, <4>2
      <3>4. /\ Counting' \/ (PinTaken' /\ w'.count = 0)
            /\ Resets' \/ PinTaken'
            /\ Second' = 1
        <4>1. PinTaken' <=> PinTaken
          BY <1>1, <3>3 DEF PinTaken
        <4>2. Resets' \/ PinTaken'
          BY <1>1, <2>2, <3>1, <3>3 DEF Resets, PinTaken
        <4>3. w'.count > 0 => Counting'
          BY <1>1, <2>2, <3>1, <3>3 DEF Counting
        <4>4. Second' = 1
          BY <1>1, <2>2 DEF Second
        <4>5. QED
          BY <3>1, <3>3, <4>1, <4>2, <4>3, <4>4
      <3>5. Left' = w.count
        BY <3>3, <3>4 DEF Left
      <3>6. QED
        BY <2>1, <3>1, <3>2, <3>3, <3>4, <3>5, WdtFacts
    <2>3. ASSUME family = "AST"
          PROVE  /\ w'.unit = "sec" /\ Counting' /\ Resets'
                 /\ Left' >= wdtTime - since' /\ Left' <= wdtTime
      <3>1. w.count = 15625 * wdtTime /\ w.pin
        BY <1>1, <1>2, <1>8, <2>3 DEF Underway
      <3>2. /\ since' = 0
            /\ w' = [w EXCEPT !.run = TRUE, !.out = TRUE, !.unit = "sec"]
        BY <1>1, <1>2, <1>8, <2>3 DEF Effect
      <3>3. w'.unit = "sec" /\ w'.run /\ w'.out /\ w'.pin /\ w'.count = 15625 * wdtTime
        BY <1>1, <3>1, <3>2 DEF Registers
      <3>4. Counting' /\ Resets' /\ Second' = 15625
        BY <1>1, <2>1, <2>3, <3>3 DEF Counting, Resets, Second
      <3>5. Left' = wdtTime
        BY <2>1, <3>3, <3>4 DEF Left
      <3>6. QED
        BY <2>1, <3>2, <3>3, <3>4, <3>5
    <2>4. ArmedAsAsked'
      <3>1. Left' \in Nat /\ wdtTime' = wdtTime /\ after' = 0
        <4>1. w'.count \in Nat
          BY <1>5 DEF WdtTypeOK, Registers
        <4>2. Second' = Second
          BY <1>1 DEF Second
        <4>3. QED
          BY <1>1, <1>4, <4>1, <4>2, LeftNat DEF Left
      <3>2. /\ w'.unit = "sec"
            /\ Counting' \/ (PinTaken' /\ w'.count = 0)
            /\ Resets' \/ PinTaken'
            /\ Left' >= wdtTime - since' /\ Left' <= wdtTime
        BY <2>2, <2>3, WdtFacts
      <3>3. Left' \in AtLeast0(wdtTime' - since')..AtLeast0(wdtTime' - after')
        <4>1. wdtTime' - after' = wdtTime /\ wdtTime' - since' = wdtTime - since'
          BY <2>1, <3>1
        <4>2. wdtTime - since' \in Int /\ wdtTime \in Int
          BY <2>1
        <4>3. Left' \in AtLeast0(wdtTime - since')..AtLeast0(wdtTime)
          BY <3>1, <3>2, <4>2, Within
        <4>4. QED
          BY <4>1, <4>3
      <3>4. QED
        BY <3>2, <3>3 DEF ArmedAsAsked
    <2>5. Underway'
      BY <1>4, <1>8 DEF Underway
    <2>6. QED
      BY <1>5, <1>6, <2>4, <2>5
  <1>9. QED
    BY <1>2, <1>7, <1>8

\* The watchdog's invariant holds at power-on and at the start of a run.
LEMMA WdtStart ==
  ASSUME WdtInit
  PROVE  WdtInv /\ NotEarly
  <1>1. /\ family \in DOMAIN Seconds /\ wdtTime \in Seconds[family] /\ MaxTick[family] \in Nat
        /\ w \in Registers /\ (family = "F71" => w.unit # "fast")
    BY WdtAssumption DEF WdtInit
  <1>2. family \in {"NCT", "F71", "AST"}
    BY <1>1, WdtAssumption DEF Families
  <1>3. Len(Changes) \in Nat
    BY <1>2 DEF Changes
  <1>4. WdtTypeOK
    <2>1. since \in 0..MaxTick[family] /\ after \in 0..MaxTick[family]
      BY <1>1 DEF WdtInit
    <2>2. wdtPc \in 0..Len(Changes)
      BY <1>3 DEF WdtInit
    <2>3. up \in BOOLEAN /\ ended \in BOOLEAN /\ hit \in BOOLEAN
      BY DEF WdtInit
    <2>4. QED
      BY <1>1, <2>1, <2>2, <2>3 DEF WdtTypeOK
  <1>5. up /\ ~ended /\ wdtPc = 0
    BY DEF WdtInit
  <1>6. QED
    BY <1>4, <1>5 DEF WdtInv, NotEarly, ArmedAsAsked, Underway

\* Every step keeps it: a tool's change of a register, a second, a new run.
LEMMA WdtStep ==
  ASSUME WdtInv, NotEarly, [WdtNext]_wdtVars
  PROVE  WdtInv' /\ NotEarly'
  <1>1. /\ WdtTypeOK /\ ArmedAsAsked /\ Underway
        /\ wdtPc \in 0..Len(Changes) /\ Len(Changes) \in 4..7
    BY ChangesAre, WdtFacts DEF WdtInv, WdtTypeOK
  <1>2. ASSUME UNCHANGED family
        PROVE  Len(Changes)' = Len(Changes)
    BY <1>2 DEF Changes
  <1>3. CASE Tick
    BY <1>3, TickStep
  <1>4. CASE Start
    <2>1. WdtTypeOK'
      <3>1. since' = MaxTick[family] /\ after' = 0 /\ wdtPc' = 1
        BY <1>4 DEF Start
      <3>2. since' \in 0..MaxTick[family] /\ after' \in 0..MaxTick[family]
        BY <1>1, <3>1, WdtFacts
      <3>3. wdtPc' \in 0..Len(Changes)
        <4>1. Len(Changes) \in Nat /\ Len(Changes) >= 1
          BY <1>1
        <4>2. QED
          BY <3>1, <4>1
      <3>4. QED
        BY <1>1, <1>2, <1>4, <3>2, <3>3 DEF Start, WdtTypeOK
    <2>2. wdtPc' = 1 /\ ~ended' /\ after' = 0
      BY <1>4 DEF Start
    <2>3. QED
      BY <2>1, <2>2 DEF WdtInv, NotEarly, ArmedAsAsked, Underway
  <1>5. CASE ChangeRegister
    BY <1>5, ChangeStep
  <1>6. CASE Unsupported \/ Kill
    <2>1. WdtTypeOK'
      BY <1>1, <1>2, <1>6, WdtFacts DEF Unsupported, Kill, WdtTypeOK
    <2>2. wdtPc' = 0 /\ ~ended'
      BY <1>1, <1>6 DEF Unsupported, Kill, Underway
    <2>3. QED
      BY <2>1, <2>2 DEF WdtInv, NotEarly, ArmedAsAsked, Underway
  <1>7. CASE Reboot
    <2>1. w' \in Registers /\ (family = "F71" => w'.unit # "fast")
      BY <1>1, <1>7, WdtAssumption DEF Reboot, WdtTypeOK
    <2>2. WdtTypeOK'
      <3>1. /\ since' \in 0..MaxTick[family] /\ after' \in 0..MaxTick[family]
            /\ wdtPc' \in 0..Len(Changes)
        BY <1>1, <1>7, WdtFacts DEF Reboot
      <3>2. QED
        BY <1>1, <1>2, <1>7, <2>1, <3>1 DEF Reboot, WdtTypeOK
    <2>3. wdtPc' = 0 /\ ~ended'
      BY <1>7 DEF Reboot
    <2>4. QED
      BY <2>2, <2>3 DEF WdtInv, NotEarly, ArmedAsAsked, Underway
  <1>8. CASE UNCHANGED wdtVars
    BY <1>1, <1>2, <1>8
       DEF wdtVars, WdtInv, WdtTypeOK, NotEarly, ArmedAsAsked, Underway, Left, Second,
           Counting, Resets, PinTaken
  <1>9. QED
    BY <1>3, <1>4, <1>5, <1>6, <1>7, <1>8 DEF WdtNext

\* Whatever the watchdog was doing before, a run that ends without an error
\* leaves it counting in seconds, with as many to go as were asked for; and
\* when they have passed the machine is reset, unless the BIOS of a Fintek
\* board has left the watchdog's pin as a GPIO.
THEOREM WdtCorrect == WdtSpec => []WdtInv
  <1>1. QED
    BY WdtStart, WdtStep, PTL DEF WdtSpec

\* It does not reset the machine before these seconds have passed.
THEOREM WdtNotEarly == WdtSpec => []NotEarly
  <1>1. QED
    BY WdtStart, WdtStep, PTL DEF WdtSpec

-----------------------------------------------------------------------------
(* The sensor monitor (I2cMonitor). *)

\* A set of numbers has a least one.
LEMMA SmallestOf ==
  ASSUME NEW S, S \subseteq Nat, S # {}
  PROVE  \E k \in S : \A m \in S : k <= m
  <1>1. IsWellFoundedOn(OpToRel(<, Nat), Nat)
    BY NatLessThanWellFounded
  <1>2. PICK k \in S : \A m \in S : <<m, k>> \notin OpToRel(<, Nat)
    <2> DEFINE R == OpToRel(<, Nat)
    <2> HIDE DEF R
    <2>1. IsWellFoundedOn(R, Nat)
      BY <1>1 DEF R
    <2>2. \E k \in S : \A m \in S : ~(<<m, k>> \in R)
      BY <2>1, WFMin
    <2>3. QED
      BY <2>2 DEF R
  <1>3. \A m \in S : ~(m < k)
    BY <1>2 DEF OpToRel
  <1>4. QED
    BY <1>3

\* What the assumption says of a row of the table.
LEMMA RowFacts ==
  /\ Row \subseteq Nat \ {0}
  /\ \A r \in Row : /\ Rows[r].off \in Offsets /\ Rows[r].func \in -1..4
                    /\ Rows[r].hasmin \in BOOLEAN /\ Rows[r].hasmax \in BOOLEAN
                    /\ Rows[r].tmin \in Int /\ Rows[r].tmax \in Int /\ Rows[r].scale \in Nat \ {0}
                    /\ TurnOf(r) \in 0..4
                    /\ Rows[r].hasmin => Rows[r].func \in {-1, 4}
                    /\ Rows[r].hasmax => Rows[r].func = -1
  <1> DEFINE S == [off : 0..255, func : -1..4, tmin : Int, tmax : Int,
                   hasmin : BOOLEAN, hasmax : BOOLEAN, scale : Nat \ {0}]
  <1>1. Rows \in Seq(S)
    BY MonitorAssumption, Zenon
  <1> HIDE DEF S
  <1>2. Row = 1..Len(Rows) /\ Len(Rows) \in Nat
    BY <1>1 DEF Row
  <1>3. \A r \in Row : Rows[r] \in S
    BY <1>1, <1>2
  <1>4. \A r \in Row : /\ Rows[r].func \in -1..4
                       /\ Rows[r].hasmin \in BOOLEAN /\ Rows[r].hasmax \in BOOLEAN
                       /\ Rows[r].tmin \in Int /\ Rows[r].tmax \in Int /\ Rows[r].scale \in Nat \ {0}
    BY <1>3 DEF S
  <1>5. \A r \in Row : Rows[r].off \in Offsets
    BY DEF Offsets
  <1>6. \A r \in Row : TurnOf(r) \in 0..4
    BY DEF TurnOf
  <1>7. QED
    <2>1. \A r \in Row : /\ Rows[r].hasmin => Rows[r].func \in {-1, 4}
                         /\ Rows[r].hasmax => Rows[r].func = -1
      BY MonitorAssumption, Zenon
    <2>2. QED
      BY <1>2, <1>4, <1>5, <1>6, <2>1

\* What is read of a row: no read twice, and the limits it has.
LEMMA ReadsFacts ==
  ASSUME NEW r \in Row
  PROVE  /\ Len(Reads(r)) \in 1..3
         /\ \A m \in 1..Len(Reads(r)) : Reads(r)[m] \in {"cur", "low", "high", "min", "minfan", "max"}
         /\ \A k, m \in 1..Len(Reads(r)) : k # m => Reads(r)[k] # Reads(r)[m]
         /\ Rows[r].hasmin => \E m \in 1..Len(Reads(r)) : Reads(r)[m] \in {"min", "minfan"}
         /\ Rows[r].hasmax => \E m \in 1..Len(Reads(r)) : Reads(r)[m] = "max"
         /\ \A m \in 1..Len(Reads(r)) : Reads(r)[m] \in {"min", "minfan"} => Rows[r].hasmin
         /\ \A m \in 1..Len(Reads(r)) : Reads(r)[m] = "max" => Rows[r].hasmax
         /\ \A k, m \in 1..Len(Reads(r)) : {Reads(r)[k], Reads(r)[m]} \subseteq {"min", "minfan"} => k = m
  <1>1. /\ Rows[r].hasmin \in BOOLEAN /\ Rows[r].hasmax \in BOOLEAN
        /\ Rows[r].func = 4 => ~Rows[r].hasmax
    BY RowFacts
  <1>2. CASE Reads(r) = <<"low", "high", "minfan">> /\ Rows[r].hasmin /\ ~Rows[r].hasmax
    BY <1>2
  <1>3. CASE Reads(r) = <<"low", "high">> /\ ~Rows[r].hasmin /\ ~Rows[r].hasmax
    BY <1>3
  <1>4. CASE Reads(r) = <<"cur", "min", "max">> /\ Rows[r].hasmin /\ Rows[r].hasmax
    BY <1>4
  <1>5. CASE Reads(r) = <<"cur", "min">> /\ Rows[r].hasmin /\ ~Rows[r].hasmax
    BY <1>5
  <1>6. CASE Reads(r) = <<"cur", "max">> /\ ~Rows[r].hasmin /\ Rows[r].hasmax
    BY <1>6
  <1>7. CASE Reads(r) = <<"cur">> /\ ~Rows[r].hasmin /\ ~Rows[r].hasmax
    BY <1>7
  <1>8. QED
    BY <1>1, <1>2, <1>3, <1>4, <1>5, <1>6, <1>7, Zenon DEF Reads

\* A place is before the rows of a turn or at one of them.
LEMMA StopFacts ==
  ASSUME NEW p \in Stops
  PROVE  /\ p = <<p[1], p[2]>> /\ p[1] \in 0..5 /\ p[2] \in Nat
         /\ p[2] > 0 => p[2] \in Row /\ p[1] = TurnOf(p[2]) /\ p[1] < 5
         /\ p[2] = 0 => p[1] # 4
  <1>1. CASE p \in {<<t, 0>> : t \in {0, 1, 2, 3, 5}}
    BY <1>1
  <1>2. CASE p \in {<<TurnOf(r), r>> : r \in Row}
    BY <1>2, RowFacts
  <1>3. QED
    BY <1>1, <1>2 DEF Stops

\* The next place comes next.
LEMMA Following ==
  ASSUME NEW p, p[1] \in 0..4, p[2] \in Nat
  PROVE  /\ After(p) \in Stops /\ Earlier(p, After(p))
         /\ \A o \in Stops : ~(Earlier(p, o) /\ Earlier(o, After(p)))
  <1> DEFINE S == {q \in Stops : Earlier(p, q)}
             T == {q[1] : q \in S}
  <1>1. T \subseteq Nat /\ T # {}
    <2>1. <<5, 0>> \in Stops
      BY DEF Stops
    <2>2. <<5, 0>> \in S
      BY <2>1 DEF Earlier
    <2>3. QED
      BY <2>2, StopFacts
  <1>2. PICK t \in T : \A u \in T : t <= u
    <2> HIDE DEF T
    <2>1. QED
      BY <1>1, SmallestOf
  <1> DEFINE U == {q[2] : q \in {q \in S : q[1] = t}}
  <1>3. U \subseteq Nat /\ U # {}
    BY StopFacts
  <1>4. PICK r \in U : \A u \in U : r <= u
    <2> HIDE DEF U
    <2>1. QED
      BY <1>3, SmallestOf
  <1>5. PICK q \in S : q[1] = t /\ q[2] = r
    BY <1>4
  <1>6. ASSUME NEW o \in Stops, Earlier(p, o), Earlier(o, q)
        PROVE  FALSE
    <2>1. o[1] \in T /\ (o[1] = t => o[2] \in U)
      BY <1>6
    <2>2. o[1] \in Nat /\ o[2] \in Nat /\ t \in Nat /\ r \in Nat
      BY <1>1, <1>3, StopFacts
    <2>3. o[1] < t \/ (o[1] = t /\ o[2] < r)
      BY <1>5, <1>6 DEF Earlier
    <2> HIDE DEF S, T, U
    <2>4. QED
      BY <1>2, <1>4, <2>1, <2>2, <2>3
  <1>7. \E x \in Stops : Earlier(p, x) /\ \A o \in Stops : ~(Earlier(p, o) /\ Earlier(o, x))
    BY <1>5, <1>6
  <1>8. QED
    BY <1>7 DEF After

\* Within a turn only the rows of that turn are read.
LEMMA SameTurn ==
  ASSUME NEW p, p[1] \in 0..4, p[2] \in Nat, After(p)[2] > 0, After(p)[1] < 4
  PROVE  After(p)[1] = p[1]
  <1> DEFINE a == After(p)
             o == <<a[1], 0>>
  <1>1. o \in Stops => ~(Earlier(p, o) /\ Earlier(o, a))
    BY Following
  <1>2. a \in Stops /\ Earlier(p, a)
    BY Following
  <1>3. a[1] \in 0..5 /\ a[2] \in Nat
    BY <1>2, StopFacts
  <1>4. o \in Stops
    BY <1>3 DEF Stops
  <1>5. o[1] = a[1] /\ o[2] = 0
    OBVIOUS
  <1>6. p[1] <= a[1]
    BY <1>2, <1>3 DEF Earlier
  <1> HIDE DEF a, o
  <1>7. Earlier(o, a)
    BY <1>3, <1>5 DEF Earlier, a
  <1>8. ~(p[1] < a[1])
    BY <1>1, <1>4, <1>5, <1>7 DEF Earlier
  <1>9. QED
    BY <1>3, <1>6, <1>8 DEF a

\* What is done next at each place.
LEMMA NowIs ==
  ASSUME MonitorTypeOK
  PROVE  /\ place[1] \in 0..5 /\ place[2] \in Nat /\ place[3] \in 1..4 /\ Steps(place) \in 1..4
         /\ place[2] > 0 => place[2] \in Row /\ place[1] = TurnOf(place[2]) /\ place[1] \in 0..4
         /\ \/ /\ place[2] = 0 /\ place[1] \in 0..3 /\ place[3] \in {1, 2} /\ Steps(place) = 3
               /\ Now = SetTo(IF place[3] = 1 THEN 16 ELSE 32, place[1])
            \/ /\ place[2] = 0 /\ place[1] \in 0..3 /\ place[3] = 3 /\ Steps(place) = 3
               /\ Now = Sleep
            \/ /\ place[2] > 0 /\ place[3] \in 1..Len(Reads(place[2]))
               /\ Steps(place) = Len(Reads(place[2])) + 1
               /\ Now = Get(place[2], Reads(place[2])[place[3]])
            \/ /\ place[2] > 0 /\ place[3] = Steps(place)
               /\ Steps(place) = Len(Reads(place[2])) + 1
               /\ Now = CheckRow(place[2])
            \/ /\ place[2] = 0 /\ place[1] = 5 /\ place[3] = 1 /\ Steps(place) = 1
               /\ Now = Screen
  <1> DEFINE p == <<place[1], place[2]>>
  <1>1. p \in Stops /\ place[3] \in 1..Steps(place)
    BY DEF MonitorTypeOK
  <1>2. /\ place[1] \in 0..5 /\ place[2] \in Nat
        /\ place[2] > 0 => place[2] \in Row /\ place[1] = TurnOf(place[2]) /\ place[1] < 5
        /\ place[2] = 0 => place[1] # 4
    BY <1>1, StopFacts
  <1>3. CASE place[2] > 0
    <2> DEFINE n == Len(Reads(place[2]))
    <2>1. n \in 1..3
      BY <1>2, <1>3, ReadsFacts
    <2>2. Steps(place) = n + 1
      BY <1>3 DEF Steps
    <2>3. place[3] \in 1..(n + 1)
      BY <1>1, <2>2
    <2>4. Now = IF place[3] <= n THEN Get(place[2], Reads(place[2])[place[3]]) ELSE CheckRow(place[2])
      BY <1>3 DEF Now
    <2>5. place[1] \in 0..4
      BY <1>2, <1>3
    <2> HIDE DEF n
    <2>6. \/ place[3] \in 1..n /\ Now = Get(place[2], Reads(place[2])[place[3]])
          \/ place[3] = n + 1 /\ Now = CheckRow(place[2])
      BY <2>1, <2>3, <2>4
    <2>7. place[3] \in 1..4 /\ Steps(place) \in 1..4
      BY <2>1, <2>2, <2>3
    <2>8. QED
      BY <1>2, <1>3, <2>2, <2>5, <2>6, <2>7, Zenon DEF n
  <1>4. CASE place[2] = 0 /\ place[1] = 5
    BY <1>1, <1>4 DEF Steps, Now
  <1>5. CASE place[2] = 0 /\ place[1] \in 0..3
    <2>1. Switched(place[1]) = <<SetTo(16, place[1]), SetTo(32, place[1]), Sleep>>
      BY DEF Switched
    <2>2. Steps(place) = 3
      BY <1>5, <2>1 DEF Steps
    <2>3. Now = Switched(place[1])[place[3]]
      BY <1>5 DEF Now
    <2>4. QED
      BY <1>1, <1>5, <2>1, <2>2, <2>3
  <1>6. QED
    BY <1>2, <1>3, <1>4, <1>5

\* Each place has a step.
LEMMA SomeStep ==
  ASSUME NEW p, <<p[1], p[2]>> \in Stops
  PROVE  Steps(p) \in Nat \ {0}
  <1>1. p[1] \in 0..5 /\ p[2] \in Nat /\ (p[2] > 0 => p[2] \in Row)
    BY StopFacts
  <1>2. CASE p[2] > 0
    BY <1>1, <1>2, ReadsFacts DEF Steps
  <1>3. CASE ~(p[2] > 0)
    BY <1>1, <1>3 DEF Steps, Switched
  <1>4. QED
    BY <1>2, <1>3

\* A step leads to the next one of the place, the last one to the next place.
LEMMA OnwardIs ==
  ASSUME MonitorTypeOK, place[1] \in 0..4
  PROVE  /\ <<Onward[1], Onward[2]>> \in Stops /\ Onward[3] \in 1..Steps(Onward)
         /\ \/ place[3] < Steps(place) /\ Onward = <<place[1], place[2], place[3] + 1>>
            \/ place[3] = Steps(place) /\ Onward = <<After(place)[1], After(place)[2], 1>>
  <1> DEFINE a == After(place)
  <1>1. /\ place[2] \in Nat /\ Steps(place) \in 1..4 /\ <<place[1], place[2]>> \in Stops
        /\ place[3] \in 1..Steps(place)
    BY NowIs DEF MonitorTypeOK
  <1>2. CASE place[3] < Steps(place)
    <2>1. Onward = <<place[1], place[2], place[3] + 1>>
      BY <1>2 DEF Onward
    <2>2. Onward[1] = place[1] /\ Onward[2] = place[2] /\ Onward[3] = place[3] + 1
      BY <2>1
    <2>3. Steps(Onward) = Steps(place)
      BY <2>2 DEF Steps
    <2>4. Onward[3] \in 1..Steps(Onward)
      BY <1>1, <1>2, <2>2, <2>3
    <2>5. QED
      BY <1>1, <1>2, <2>1, <2>2, <2>4, Zenon
  <1>3. CASE ~(place[3] < Steps(place))
    <2>1. Onward = <<a[1], a[2], 1>>
      BY <1>3 DEF Onward
    <2>2. Onward[1] = a[1] /\ Onward[2] = a[2] /\ Onward[3] = 1
      BY <2>1
    <2>3. a \in Stops
      BY <1>1, Following
    <2>4. <<a[1], a[2]>> \in Stops
      BY <2>3, StopFacts
    <2>5. Steps(Onward) \in Nat \ {0}
      BY <2>2, <2>4, SomeStep
    <2>6. Onward[3] \in 1..Steps(Onward)
      BY <2>2, <2>5
    <2>7. place[3] = Steps(place)
      BY <1>1, <1>3
    <2>8. QED
      BY <2>1, <2>2, <2>4, <2>6, <2>7, Zenon
  <1>4. QED
    BY <1>2, <1>3

\* On the way through a round every row is checked when its place is left.
LEMMA CheckedOnward ==
  ASSUME MonitorTypeOK, place[1] \in 0..4, place' = Onward, NEW r \in Row, Checked(r)'
  PROVE  Checked(r) \/ (r = place[2] /\ place[3] = Steps(place))
  <1> DEFINE a == After(place)
             o == <<TurnOf(r), r>>
  <1>1. /\ place[2] \in Nat /\ o \in Stops /\ TurnOf(r) \in 0..4 /\ r \in Nat
    BY NowIs, RowFacts DEF Stops
  <1>2. CASE place[3] < Steps(place) /\ Onward = <<place[1], place[2], place[3] + 1>>
    BY <1>2 DEF Checked, Earlier
  <1>3. CASE place[3] = Steps(place) /\ Onward = <<a[1], a[2], 1>>
    <2>1. ~(Earlier(place, o) /\ Earlier(o, a))
      BY <1>1, Following
    <2>2. Earlier(o, a)
      BY <1>3 DEF Checked, Earlier
    <2>3. ~Earlier(place, o)
      BY <2>1, <2>2, Zenon
    <2>4. o[1] = TurnOf(r) /\ o[2] = r
      OBVIOUS
    <2> HIDE DEF o, a
    <2>5. Earlier(o, place) \/ r = place[2]
      BY <1>1, <2>3, <2>4 DEF Earlier
    <2>6. QED
      BY <1>3, <2>5 DEF Checked, o
  <1>4. QED
    BY <1>2, <1>3, OnwardIs

\* A row's register holds a sample of its own input when the row is read: no
\* other row's input that is let through has this register.
LEMMA OwnInput ==
  ASSUME MonitorTypeOK, SwitchSet, place[2] > 0
  PROVE  sample[Rows[place[2]].off][1] = place[2]
  <1> DEFINE r == place[2]
             o == Rows[r].off
             q == sample[o][1]
  <1>1. r \in Row /\ place[1] = TurnOf(r) /\ o \in Offsets /\ Rows[r].func \in -1..4
    BY NowIs, RowFacts
  <1>2. q \in Row /\ Rows[q].off = Rows[r].off
    BY <1>1 DEF MonitorTypeOK, RowsAt
  <1>3. SUFFICES ASSUME q # r
                 PROVE  FALSE
    OBVIOUS
  <1>4. Rows[q].func # Rows[r].func /\ Rows[q].func \in 0..3 /\ Rows[r].func \in 0..3
    <2>1. \A s, u \in Row : s # u /\ Rows[s].off = Rows[u].off =>
            Rows[s].func # Rows[u].func /\ {Rows[s].func, Rows[u].func} \subseteq 0..3
      BY MonitorAssumption, Zenon
    <2> HIDE DEF r, q
    <2>2. Rows[q].func # Rows[r].func /\ {Rows[q].func, Rows[r].func} \subseteq 0..3
      BY <1>1, <1>2, <1>3, <2>1, Zenon
    <2>3. QED
      BY <2>2
  <1>5. place[1] = Rows[r].func
    BY <1>1, <1>4 DEF TurnOf
  <1>6. Selected = place[1] /\ Settled
    BY <1>4, <1>5 DEF SwitchSet
  <1>7. Seen(r)
    BY <1>5, <1>6 DEF Seen
  <1>8. Seen(q)
    BY <1>1, <1>6, <1>7 DEF Settled, RowsAt
  <1>9. QED
    BY <1>4, <1>5, <1>6, <1>8 DEF Seen

\* The program starts with the limits of the table and nothing checked.
LEMMA MonitorStart ==
  ASSUME MonitorInit
  PROVE  MonitorTypeOK /\ SwitchSet /\ ErrorsMarked
  <1>1. place = <<0, 0, 1>>
    BY DEF MonitorInit, Origin
  <1>2. PICK owner \in [Offsets -> Row] :
          /\ \A o \in Offsets : Rows[owner[o]].off = o
          /\ sample = [o \in Offsets |-> <<owner[o], CHOOSE v \in Measured[owner[o]] : TRUE>>]
    BY DEF MonitorInit
  <1>3. \A r \in Row : (CHOOSE v \in Measured[r] : TRUE) \in Measured[r] /\ Measured[r] \subseteq Count
    BY MonitorAssumption, Zenon
  <1>4. \A o \in Offsets : owner[o] \in RowsAt(o) /\ sample[o] = <<owner[o], CHOOSE v \in Measured[owner[o]] : TRUE>>
    BY <1>2 DEF RowsAt
  <1>5. sample \in [Offsets -> Row \X Count]
    BY <1>2, <1>3
  <1>6. <<place[1], place[2]>> \in Stops /\ place[3] \in 1..Steps(place)
    <2>1. <<0, 0>> \in Stops
      BY DEF Stops
    <2>2. Steps(place) \in Nat \ {0}
      BY <1>1, <2>1, SomeStep
    <2>3. QED
      BY <1>1, <2>1, <2>2
  <1>7. {shown, tmin, tmax} \subseteq [Row -> Int]
    BY RowFacts DEF MonitorInit, None
  <1>8. MonitorTypeOK
    BY <1>3, <1>4, <1>5, <1>6, <1>7 DEF MonitorInit, MonitorTypeOK, None
  <1>9. SwitchSet
    BY <1>1 DEF SwitchSet
  <1>10. LimitsHeld
    BY <1>1, RowFacts DEF LimitsHeld, MonitorInit
  <1>11. \A r \in Row : ~Checked(r)
    BY <1>1, RowFacts DEF Checked, Earlier
  <1>12. QED
    BY <1>8, <1>9, <1>10, <1>11 DEF ErrorsMarked, Marks, FailuresSeen, Bytes, MonitorInit

\* A count is a number of two bytes.
LEMMA CountBounds ==
  ASSUME NEW v \in Count
  PROVE  v \in Int /\ 0 <= v /\ v <= 256 * 256 - 1
  <1> DEFINE n == 256 * 256 - 1
  <1>1. n \in Int
    OBVIOUS
  <1>2. v \in 0..n
    BY Zenon DEF Count
  <1> HIDE DEF n
  <1>3. v \in Int /\ 0 <= v /\ v <= n
    BY <1>1, <1>2
  <1>4. QED
    BY <1>3, Zenon DEF n

\* What is read from the chip is a number, a byte of a count a byte.
LEMMA ReadNumbers ==
  ASSUME MonitorTypeOK, NEW r \in Row,
         NEW what \in {"cur", "low", "high", "min", "minfan", "max"},
         what \in {"min", "minfan"} => Rows[r].hasmin, what = "max" => Rows[r].hasmax
  PROVE  Register(r, what) \in Int /\ (what \in {"low", "high"} => Register(r, what) \in 0..255)
  <1> DEFINE v == sample[Rows[r].off][2]
  <1>1. v \in Count
    BY RowFacts DEF MonitorTypeOK
  <1>2. (Rows[r].hasmin => Limit[r].min \in Int) /\ (Rows[r].hasmax => Limit[r].max \in Int)
    BY MonitorAssumption, Zenon
  <1> HIDE DEF v
  <1>3. v \in Int /\ v % 256 \in 0..255 /\ v \div 256 \in 0..255
    <2>1. v \in Int /\ 0 <= v /\ v < 256 * 256
      <3>1. v \in Int /\ 0 <= v /\ v <= 256 * 256 - 1
        BY <1>1, CountBounds
      <3>2. QED
        BY <3>1
    <2>2. v \div 256 \in Int /\ 0 <= v \div 256 /\ v \div 256 < 256
      BY <2>1
    <2>3. v % 256 \in 0..255
      BY <2>1
    <2>4. QED
      BY <2>1, <2>2, <2>3
  <1>4. CASE what = "cur"
    BY <1>3, <1>4, Zenon DEF Register, v
  <1>5. CASE what = "low"
    <2>1. Register(r, what) = v % 256
      BY <1>5, Zenon DEF Register, v
    <2>2. QED
      BY <1>3, <2>1
  <1>6. CASE what = "high"
    <2>1. Register(r, what) = v \div 256
      BY <1>6, Zenon DEF Register, v
    <2>2. QED
      BY <1>3, <2>1
  <1>7. CASE what \in {"min", "minfan"}
    BY <1>2, <1>7 DEF Register
  <1>8. CASE what = "max"
    BY <1>2, <1>8 DEF Register
  <1>9. QED
    BY <1>4, <1>5, <1>6, <1>7, <1>8

\* So is the speed made of the two bytes.
LEMMA SpeedNumbers ==
  ASSUME NEW r \in Row, NEW lo \in 0..255 \cup {None}, NEW hi \in 0..255 \cup {None}
  PROVE  SpeedOf(r, lo, hi) \in Int
  <1> DEFINE n == 256 * hi + lo
             s == Rows[r].scale
  <1>1. s \in Nat
    BY RowFacts
  <1>2. lo # None /\ hi # None => n \in Nat
    OBVIOUS
  <1> HIDE DEF n, s
  <1>3. ASSUME n \in Nat, n # 0
        PROVE  s \div n \in Int
    BY <1>1, <1>3
  <1>4. QED
    BY <1>1, <1>2, <1>3 DEF SpeedOf, n, s

\* A value that is read is kept with its row and changes no other row.
LEMMA Assigned ==
  ASSUME MonitorTypeOK, NEW r \in Row, NEW what \in {"cur", "low", "high", "min", "minfan", "max"},
         Now = Get(r, what), NEW value \in Int,
         what \in {"low", "high"} => value \in 0..255 \cup {None}, Assign(value)
  PROVE  /\ low' \in 0..255 \cup {None}
         /\ {shown', tmin', tmax'} \subseteq [Row -> Int]
         /\ \A q \in Row \ {r} : shown'[q] = shown[q] /\ tmin'[q] = tmin[q] /\ tmax'[q] = tmax[q]
         /\ tmin'[r] = IF what \in {"min", "minfan"} THEN value ELSE tmin[r]
         /\ tmax'[r] = IF what = "max" THEN value ELSE tmax[r]
  <1>1. Now.row = r /\ Now.what = what
    BY DEF Get
  <1>2. /\ shown \in [Row -> Int] /\ tmin \in [Row -> Int] /\ tmax \in [Row -> Int]
        /\ low \in 0..255 \cup {None}
    BY DEF MonitorTypeOK
  <1>3. low' \in 0..255 \cup {None}
    BY <1>1, <1>2 DEF Assign
  <1>4. shown' \in [Row -> Int] /\ \A q \in Row \ {r} : shown'[q] = shown[q]
    <2>1. CASE what = "cur"
      <3>1. shown' = [shown EXCEPT ![r] = value]
        BY <1>1, <2>1 DEF Assign
      <3>2. QED
        BY <1>2, <3>1
    <2>2. CASE what = "high"
      <3>1. shown' = [shown EXCEPT ![r] = SpeedOf(r, low, value)]
        BY <1>1, <2>2 DEF Assign
      <3>2. SpeedOf(r, low, value) \in Int
        BY <1>2, <2>2, SpeedNumbers
      <3>3. QED
        BY <1>2, <3>1, <3>2
    <2>3. CASE what \notin {"cur", "high"}
      <3>1. shown' = shown
        BY <1>1, <2>3 DEF Assign
      <3>2. QED
        BY <1>2, <3>1
    <2>4. QED
      BY <2>1, <2>2, <2>3
  <1>5. /\ tmin' = IF what \in {"min", "minfan"} THEN [tmin EXCEPT ![r] = value] ELSE tmin
        /\ tmax' = IF what = "max" THEN [tmax EXCEPT ![r] = value] ELSE tmax
    BY <1>1 DEF Assign
  <1>6. QED
    BY <1>2, <1>3, <1>4, <1>5

\* A reading in progress: what is read, and where it leads.
LEMMA Reading ==
  ASSUME MonitorTypeOK, Doing("get")
  PROVE  \E r \in Row, what \in {"cur", "low", "high", "min", "minfan", "max"} :
           /\ r = place[2] /\ place[3] \in 1..Len(Reads(r)) /\ Len(Reads(r)) \in 1..3
           /\ what = Reads(r)[place[3]] /\ Now = Get(r, what)
           /\ what \in {"min", "minfan"} => Rows[r].hasmin
           /\ what = "max" => Rows[r].hasmax
           /\ place[1] \in 0..4
           /\ Onward = <<place[1], r, place[3] + 1>>
  <1>1. /\ place[2] \in Row /\ place[3] \in 1..Len(Reads(place[2])) /\ place[1] \in 0..4
        /\ Steps(place) = Len(Reads(place[2])) + 1
        /\ Now = Get(place[2], Reads(place[2])[place[3]])
    BY NowIs DEF Doing, SetTo, Sleep, CheckRow, Screen
  <1>2. /\ Len(Reads(place[2])) \in 1..3
        /\ Reads(place[2])[place[3]] \in {"cur", "low", "high", "min", "minfan", "max"}
        /\ Reads(place[2])[place[3]] \in {"min", "minfan"} => Rows[place[2]].hasmin
        /\ Reads(place[2])[place[3]] = "max" => Rows[place[2]].hasmax
    BY <1>1, ReadsFacts
  <1>3. Onward = <<place[1], place[2], place[3] + 1>>
    BY <1>1, <1>2 DEF Onward
  <1>4. QED
    BY <1>1, <1>2, <1>3, Zenon

\* The switch being set, and what comes after it.
LEMMA Setting ==
  ASSUME MonitorTypeOK, Doing("pin")
  PROVE  /\ place[2] = 0 /\ place[1] \in 0..3
         /\ \/ place[3] = 1 /\ Now = SetTo(16, place[1]) /\ Onward = <<place[1], 0, 2>>
            \/ place[3] = 2 /\ Now = SetTo(32, place[1]) /\ Onward = <<place[1], 0, 3>>
  <1>1. /\ place[2] = 0 /\ place[1] \in 0..3 /\ place[3] \in {1, 2} /\ Steps(place) = 3
        /\ Now = SetTo(IF place[3] = 1 THEN 16 ELSE 32, place[1])
    BY NowIs DEF Doing, Get, Sleep, CheckRow, Screen
  <1>2. QED
    BY <1>1 DEF Onward

\* The wait, a check and the screen, likewise.
LEMMA Waiting ==
  ASSUME MonitorTypeOK, Doing("sleep")
  PROVE  place[2] = 0 /\ place[1] \in 0..3 /\ place[3] = 3 /\ Onward = <<After(place)[1], After(place)[2], 1>>
  <1>1. place[2] = 0 /\ place[1] \in 0..3 /\ place[3] = 3 /\ Steps(place) = 3
    BY NowIs DEF Doing, Get, SetTo, CheckRow, Screen
  <1>2. QED
    BY <1>1 DEF Onward

LEMMA Checking ==
  ASSUME MonitorTypeOK, Doing("check")
  PROVE  /\ place[2] > 0 /\ place[2] \in Row /\ place[1] = TurnOf(place[2]) /\ place[1] \in 0..4
         /\ place[3] = Len(Reads(place[2])) + 1
         /\ Now = CheckRow(place[2])
         /\ Onward = <<After(place)[1], After(place)[2], 1>>
  <1>1. /\ place[2] > 0 /\ place[2] \in Row /\ place[1] = TurnOf(place[2]) /\ place[1] \in 0..4
        /\ place[3] = Steps(place) /\ Steps(place) \in 1..4
        /\ Steps(place) = Len(Reads(place[2])) + 1
        /\ Now = CheckRow(place[2])
    BY NowIs DEF Doing, Get, SetTo, Sleep, Screen
  <1>2. QED
    BY <1>1 DEF Onward

LEMMA Showing ==
  ASSUME MonitorTypeOK, Doing("show")
  PROVE  place[1] = 5
  BY NowIs DEF Doing, Get, SetTo, Sleep, CheckRow

\* Every step keeps the types.
LEMMA MonitorTypes ==
  ASSUME MonitorTypeOK, MonitorNext
  PROVE  MonitorTypeOK'
  <1> USE DEF MonitorTypeOK
  <1>1. ASSUME place' = Onward, place[1] \in 0..4
        PROVE  <<place'[1], place'[2]>> \in Stops /\ place'[3] \in 1..Steps(place')
    BY <1>1, OnwardIs, Zenon
  <1>2. CASE Sample
    <2>1. PICK r \in Row : \E v \in Measured[r] : sample' = [sample EXCEPT ![Rows[r].off] = <<r, v>>]
      BY <1>2 DEF Sample
    <2>2. PICK v \in Measured[r] : sample' = [sample EXCEPT ![Rows[r].off] = <<r, v>>]
      BY <2>1
    <2>3. v \in Count
      BY MonitorAssumption, Zenon
    <2>4. r \in RowsAt(Rows[r].off)
      BY DEF RowsAt
    <2>5. sample' \in [Offsets -> Row \X Count]
      BY <2>2, <2>3
    <2>6. \A o \in Offsets : sample'[o][1] \in RowsAt(o) /\ sample'[o][2] \in Measured[sample'[o][1]]
      BY <2>2, <2>4
    <2>7. QED
      BY <1>2, <2>5, <2>6 DEF Sample
  <1>3. CASE SetPin
    <2>1. Doing("pin") /\ place' = Onward
      BY <1>3 DEF SetPin
    <2>2. Now.high \in BOOLEAN /\ place[1] \in 0..4
      <3>1. PICK n \in {16, 32} : Now = SetTo(n, place[1]) /\ place[1] \in 0..3
        BY <2>1, Setting
      <3>2. Now.high = (IF n = 16 THEN place[1] \div 2 = 1 ELSE place[1] % 2 = 1)
        BY <3>1 DEF SetTo
      <3>3. Now.high \in BOOLEAN
        BY <3>2, Zenon
      <3>4. QED
        BY <3>1, <3>3
    <2>3. switch' \in BOOLEAN \X BOOLEAN
      BY <1>3, <2>2 DEF SetPin
    <2>4. QED
      BY <1>1, <1>3, <2>1, <2>2, <2>3 DEF SetPin
  <1>4. CASE Wait
    <2>1. Doing("sleep") /\ place' = Onward /\ place[1] \in 0..4
      BY <1>4, Waiting DEF Wait
    <2>2. QED
      BY <1>1, <1>4, <2>1 DEF Wait, chip
  <1>5. CASE CheckError
    <2>1. Doing("check") /\ place' = Onward /\ place[1] \in 0..4 /\ Now.row \in Row
      BY <1>5, Checking DEF CheckError, CheckRow
    <2>2. error' \subseteq Row
      BY <1>5, <2>1 DEF CheckError
    <2>3. QED
      BY <1>1, <1>5, <2>1, <2>2 DEF CheckError, chip
  <1>6. CASE Show
    <2>1. <<0, 0>> \in Stops /\ Origin[1] = 0 /\ Origin[2] = 0 /\ Origin[3] = 1
      BY DEF Stops, Origin
    <2>2. Steps(Origin) \in Nat \ {0}
      BY <2>1, SomeStep
    <2>3. <<place'[1], place'[2]>> \in Stops /\ place'[3] \in 1..Steps(place')
      BY <1>6, <2>1, <2>2 DEF Show
    <2>4. monitorExit' \in {"none", "error", "key", "2"}
      BY <1>6 DEF Show
    <2>5. QED
      BY <1>6, <2>3, <2>4 DEF Show, chip
  <1>7. ASSUME NEW r \in Row, NEW what \in {"cur", "low", "high", "min", "minfan", "max"},
               Now = Get(r, what), NEW value \in Int, place[1] \in 0..4,
               what \in {"low", "high"} => value \in 0..255 \cup {None}, Assign(value),
               failed' \subseteq failed \cup {<<r, what>>},
               \/ place' = Onward /\ UNCHANGED monitorExit
               \/ monitorExit' = "2" /\ UNCHANGED place,
               UNCHANGED <<chip, error>>
        PROVE  MonitorTypeOK'
    <2>1. low' \in 0..255 \cup {None} /\ {shown', tmin', tmax'} \subseteq [Row -> Int]
      BY <1>7, Assigned
    <2>2. <<place'[1], place'[2]>> \in Stops /\ place'[3] \in 1..Steps(place')
      BY <1>1, <1>7
    <2>3. failed' \subseteq Row \X {"cur", "low", "high", "min", "minfan", "max"}
      BY <1>7
    <2>4. monitorExit' \in {"none", "error", "key", "2"}
      BY <1>7
    <2>5. QED
      BY <1>7, <2>1, <2>2, <2>3, <2>4 DEF chip
  <1>8. CASE GetRegister
    <2>1. PICK r \in Row, what \in {"cur", "low", "high", "min", "minfan", "max"} :
             /\ Now = Get(r, what) /\ place[1] \in 0..4
             /\ what \in {"min", "minfan"} => Rows[r].hasmin
             /\ what = "max" => Rows[r].hasmax
      BY <1>8, Reading DEF GetRegister
    <2>2. Now.row = r /\ Now.what = what
      BY <2>1 DEF Get
    <2>3. Register(r, what) \in Int /\ (what \in {"low", "high"} => Register(r, what) \in 0..255)
      BY <2>1, ReadNumbers
    <2>4. /\ Assign(Register(r, what)) /\ failed' \subseteq failed \cup {<<r, what>>}
          /\ place' = Onward /\ UNCHANGED monitorExit /\ UNCHANGED <<chip, error>>
      BY <1>8, <2>2 DEF GetRegister
    <2>5. what \in {"low", "high"} => Register(r, what) \in 0..255 \cup {None}
      BY <2>3
    <2> HIDE DEF MonitorTypeOK
    <2>6. QED
      BY <1>7, <2>1, <2>3, <2>4, <2>5
  <1>9. CASE GetFails
    <2>1. PICK r \in Row, what \in {"cur", "low", "high", "min", "minfan", "max"} :
             Now = Get(r, what) /\ place[1] \in 0..4
      BY <1>9, Reading DEF GetFails
    <2>2. Now.row = r /\ Now.what = what
      BY <2>1 DEF Get
    <2> DEFINE value == IF what = "minfan" THEN 0 ELSE None
    <2>3. value \in Int /\ (what \in {"low", "high"} => value \in 0..255 \cup {None})
      BY DEF None
    <2>4. /\ Assign(value) /\ failed' \subseteq failed \cup {<<r, what>>}
          /\ \/ place' = Onward /\ UNCHANGED monitorExit
             \/ monitorExit' = "2" /\ UNCHANGED place
          /\ UNCHANGED <<chip, error>>
      BY <1>9, <2>2 DEF GetFails
    <2> HIDE DEF MonitorTypeOK, value
    <2>5. QED
      BY <1>7, <2>1, <2>3, <2>4
  <1>10. QED
    BY <1>2, <1>3, <1>4, <1>5, <1>6, <1>8, <1>9 DEF MonitorNext

\* Every step keeps the switch at the position of its turn, and the samples of
\* other positions out of the registers.
LEMMA SwitchStep ==
  ASSUME MonitorTypeOK, SwitchSet, MonitorNext
  PROVE  SwitchSet'
  <1>1. ASSUME place' = Onward, UNCHANGED chip, place[2] \in Row,
               \/ Onward = <<place[1], place[2], place[3] + 1>>
               \/ Onward = <<After(place)[1], After(place)[2], 1>> /\ place[1] \in 0..4
        PROVE  SwitchSet'
    <2>1. place[2] > 0 /\ place[2] \in Nat
      <3>1. place[2] \in Nat \ {0}
        BY <1>1, RowFacts, Zenon
      <3>2. QED
        BY <3>1
    <2>2. place'[1] < 4 /\ place'[2] > 0 => place[1] = place'[1]
      BY <1>1, <2>1, SameTurn
    <2>3. place'[2] > 0 \/ (place'[2] = 0 /\ place'[3] = 1)
      <3>1. CASE Onward = <<place[1], place[2], place[3] + 1>>
        BY <1>1, <2>1, <3>1
      <3>2. CASE Onward = <<After(place)[1], After(place)[2], 1>> /\ place[1] \in 0..4
        <4>1. After(place)[2] \in Nat
          BY <2>1, <3>2, Following, StopFacts
        <4>2. QED
          BY <1>1, <3>2, <4>1
      <3>3. QED
        BY <1>1, <3>1, <3>2
    <2>4. Selected' = Selected /\ (Settled => Settled')
      BY <1>1 DEF chip, Selected, Settled, Seen
    <2>5. QED
      BY <2>1, <2>2, <2>3, <2>4 DEF SwitchSet
  <1>2. CASE Sample
    <2>1. PICK r \in Row : \E v \in Measured[r] : Seen(r) /\ sample' = [sample EXCEPT ![Rows[r].off] = <<r, v>>]
      BY <1>2 DEF Sample
    <2>2. PICK v \in Measured[r] : sample' = [sample EXCEPT ![Rows[r].off] = <<r, v>>]
      BY <2>1
    <2>3. UNCHANGED <<switch, place>>
      BY <1>2 DEF Sample
    <2>4. \A o \in Offsets : sample'[o][1] = r \/ sample'[o] = sample[o]
      BY <2>2 DEF MonitorTypeOK
    <2>5. Selected' = Selected
      BY <2>3 DEF Selected
    <2>6. Settled => Settled'
      <3>1. ASSUME Settled, NEW o \in Offsets, NEW q \in RowsAt(o), Seen(q)
            PROVE  Seen(sample'[o][1])
        <4>1. Seen(sample[o][1])
          BY <3>1 DEF Settled
        <4>2. QED
          BY <2>1, <2>4, <4>1
      <3>2. QED
        BY <2>5, <3>1 DEF Settled, Seen
    <2>7. QED
      BY <2>3, <2>5, <2>6 DEF SwitchSet
  <1>3. CASE SetPin
    <2>1. Doing("pin") /\ place' = Onward
      BY <1>3 DEF SetPin
    <2>2. place[2] = 0 /\ place[1] \in 0..3 /\ switch \in BOOLEAN \X BOOLEAN
      BY <2>1, Setting DEF MonitorTypeOK
    <2>3. CASE place[3] = 1 /\ Now = SetTo(16, place[1]) /\ Onward = <<place[1], 0, 2>>
      <3>1. switch'[1] <=> place[1] \div 2 = 1
        BY <1>3, <2>3 DEF SetPin, SetTo
      <3>2. place'[1] = place[1] /\ place'[2] = 0 /\ place'[3] = 2
        BY <2>1, <2>3
      <3>3. QED
        BY <3>1, <3>2 DEF SwitchSet
    <2>4. CASE place[3] = 2 /\ Now = SetTo(32, place[1]) /\ Onward = <<place[1], 0, 3>>
      <3>1. switch'[1] = switch[1] /\ (switch'[2] <=> place[1] % 2 = 1)
        <4>1. Now.pin = 32 /\ (Now.high <=> place[1] % 2 = 1)
          <5>1. Now.pin = 32 /\ Now.high = (IF 32 = 16 THEN place[1] \div 2 = 1 ELSE place[1] % 2 = 1)
            BY <2>4, Zenon DEF SetTo
          <5>2. 32 # 16
            OBVIOUS
          <5>3. QED
            BY <5>1, <5>2, Zenon
        <4>2. switch' = <<switch[1], Now.high>>
          BY <1>3, <4>1 DEF SetPin
        <4>3. QED
          BY <4>1, <4>2
      <3>2. switch[1] <=> place[1] \div 2 = 1
        BY <2>2, <2>4 DEF SwitchSet
      <3>3. Selected' = place[1]
        BY <2>2, <3>1, <3>2 DEF Selected
      <3>4. place'[1] = place[1] /\ place'[2] = 0 /\ place'[3] = 3
        BY <2>1, <2>4
      <3>5. QED
        BY <3>3, <3>4 DEF SwitchSet
    <2>5. QED
      BY <2>1, <2>3, <2>4, Setting
  <1>4. CASE Wait
    <2>1. /\ place[2] = 0 /\ place[1] \in 0..3 /\ place[3] = 3
          /\ place' = <<After(place)[1], After(place)[2], 1>>
      BY <1>4, Waiting DEF Wait
    <2>2. place'[2] > 0 /\ place'[1] < 4 => place'[1] = place[1]
      BY <2>1, SameTurn
    <2>3. Selected = place[1] /\ Settled
      BY <1>4, <2>1 DEF SwitchSet, Wait, Settled
    <2>4. UNCHANGED chip
      BY <1>4 DEF Wait
    <2>5. Selected' = Selected /\ Settled'
      BY <2>3, <2>4 DEF chip, Selected, Settled, Seen
    <2>6. QED
      BY <2>1, <2>2, <2>3, <2>5 DEF SwitchSet
  <1>5. CASE GetRegister
    <2>1. place[2] \in Row /\ Onward = <<place[1], place[2], place[3] + 1>>
      BY <1>5, Reading DEF GetRegister
    <2>2. QED
      BY <1>1, <1>5, <2>1 DEF GetRegister
  <1>6. CASE GetFails
    <2>1. place[2] \in Row /\ Onward = <<place[1], place[2], place[3] + 1>>
      BY <1>6, Reading DEF GetFails
    <2>2. CASE place' = Onward
      BY <1>1, <1>6, <2>1, <2>2 DEF GetFails
    <2>3. CASE UNCHANGED place
      <3>1. UNCHANGED <<switch, sample, place>>
        BY <1>6, <2>3 DEF GetFails, chip
      <3>2. QED
        BY <3>1 DEF SwitchSet, Settled, Selected, Seen
    <2>4. QED
      BY <1>6, <2>2, <2>3 DEF GetFails
  <1>7. CASE CheckError
    <2>1. /\ place[2] \in Row /\ place[1] \in 0..4 /\ Onward = <<After(place)[1], After(place)[2], 1>>
      BY <1>7, Checking DEF CheckError
    <2>2. QED
      BY <1>1, <1>7, <2>1 DEF CheckError
  <1>8. CASE Show
    <2>1. CASE place' = Origin
      BY <2>1 DEF Origin, SwitchSet
    <2>2. CASE UNCHANGED place
      <3>1. UNCHANGED <<switch, sample, place>>
        BY <1>8, <2>2 DEF Show, chip
      <3>2. QED
        BY <3>1 DEF SwitchSet, Settled, Selected, Seen
    <2>3. QED
      BY <1>8, <2>1, <2>2 DEF Show
  <1>9. QED
    BY <1>2, <1>3, <1>4, <1>5, <1>6, <1>7, <1>8 DEF MonitorNext

\* A read of a row, done or failed, has given it this value.
HasRead(r, what, value) ==
  /\ r = place[2] /\ place[3] \in 1..Len(Reads(r)) /\ what = Reads(r)[place[3]]
  /\ \A q \in Row \ {r} : shown'[q] = shown[q] /\ tmin'[q] = tmin[q] /\ tmax'[q] = tmax[q]
  /\ tmin'[r] = (IF what \in {"min", "minfan"} THEN value ELSE tmin[r])
  /\ tmax'[r] = (IF what = "max" THEN value ELSE tmax[r])
  /\ \A x : x # <<r, what>> => (x \in failed' <=> x \in failed)
  /\ <<r, what>> \notin failed' => value = Register(r, what)
  /\ UNCHANGED error
  /\ place' = <<place[1], r, place[3] + 1>> \/ UNCHANGED place

\* A reading keeps the limits: one that is read is the chip's.
LEMMA LimitsRead ==
  ASSUME MonitorTypeOK, LimitsHeld, NEW r \in Row, NEW what, NEW value, HasRead(r, what, value)
  PROVE  LimitsHeld'
  <1> DEFINE k == place[3]
  <1>1. /\ k \in 1..Len(Reads(r)) /\ what = Reads(r)[k] /\ Len(Reads(r)) \in 1..3
        /\ what \in {"min", "minfan"} => Rows[r].hasmin
        /\ what = "max" => Rows[r].hasmax
    BY ReadsFacts DEF HasRead
  <1>2. /\ \A q \in Row \ {r} : tmin'[q] = tmin[q] /\ tmax'[q] = tmax[q]
        /\ tmin'[r] = (IF what \in {"min", "minfan"} THEN value ELSE tmin[r])
        /\ tmax'[r] = (IF what = "max" THEN value ELSE tmax[r])
        /\ \A x : x # <<r, what>> => (x \in failed' <=> x \in failed)
        /\ <<r, what>> \notin failed' => value = Register(r, what)
    BY DEF HasRead
  <1>3. place'[2] = r /\ place'[3] \in {k, k + 1}
    BY <1>1 DEF HasRead
  <1> HIDE DEF k
  <1>4. ASSUME NEW q \in Row
        PROVE  (~Rows[q].hasmin => tmin'[q] = Rows[q].tmin) /\ (~Rows[q].hasmax => tmax'[q] = Rows[q].tmax)
    BY <1>1, <1>2 DEF LimitsHeld
  <1>5. ASSUME NEW m \in 1..(place'[3] - 1), <<r, Reads(r)[m]>> \notin failed'
        PROVE  /\ Reads(r)[m] \in {"min", "minfan"} => tmin'[r] = Limit[r].min
               /\ Reads(r)[m] = "max" => tmax'[r] = Limit[r].max
    <2>1. m \in 1..k
      BY <1>1, <1>3
    <2>2. CASE m = k
      <3>1. value = Register(r, what) /\ what = Reads(r)[m]
        BY <1>1, <1>2, <1>5, <2>2
      <3>2. /\ what \in {"min", "minfan"} => value = Limit[r].min
            /\ what = "max" => value = Limit[r].max
        BY <3>1, Zenon DEF Register
      <3>3. QED
        BY <1>2, <3>1, <3>2
    <2>3. CASE m # k
      <3>1. m \in 1..(k - 1) /\ m \in 1..Len(Reads(r))
        BY <1>1, <2>1, <2>3
      <3>2. /\ Reads(r)[m] # what
            /\ {Reads(r)[m], what} \subseteq {"min", "minfan"} => FALSE
        BY <1>1, <2>3, <3>1, ReadsFacts
      <3>3. <<r, Reads(r)[m]>> \notin failed
        BY <1>2, <1>5, <3>2
      <3>4. /\ Reads(r)[m] \in {"min", "minfan"} => tmin[r] = Limit[r].min
            /\ Reads(r)[m] = "max" => tmax[r] = Limit[r].max
        BY <3>1, <3>3 DEF LimitsHeld, k, HasRead
      <3>5. QED
        BY <1>2, <3>2, <3>4
    <2>4. QED
      BY <2>2, <2>3
  <1>6. QED
    BY <1>3, <1>4, <1>5 DEF LimitsHeld

\* A step of another kind keeps them too, as no row is half read after it.
LEMMA LimitsKept ==
  ASSUME LimitsHeld, UNCHANGED <<tmin, tmax, failed>>,
         place'[2] \notin Row \/ place'[3] = 1 \/ UNCHANGED place
  PROVE  LimitsHeld'
  BY DEF LimitsHeld

\* The marks of rows that a step does not check stay right.
LEMMA MarksKept ==
  ASSUME \A q \in Row : Checked(q) /\ ~Blind(q) => (q \in error <=> Outside(q)),
         NEW q \in Row, Checked(q), shown'[q] = shown[q], q \in error' <=> q \in error,
         \A what : <<q, what>> \in failed' <=> <<q, what>> \in failed
  PROVE  ~Blind(q)' => (q \in error' <=> Outside(q)')
  BY DEF Blind, Outside, Bound

\* The row that is checked is marked if it is outside the limits that hold.
LEMMA MarkSet ==
  ASSUME MonitorTypeOK, LimitsHeld, CheckError, NEW r, r = place[2], ~Blind(r)'
  PROVE  r \in error' <=> Outside(r)'
  <1>1. r \in Row /\ place[3] = Len(Reads(r)) + 1 /\ Now = CheckRow(r)
    BY Checking DEF CheckError
  <1>2. UNCHANGED <<shown, tmin, tmax, failed>>
    BY DEF CheckError
  <1>3. ~Blind(r)
    BY <1>2 DEF Blind
  <1>4. /\ Rows[r].hasmin \in BOOLEAN /\ Rows[r].hasmax \in BOOLEAN
        /\ Len(Reads(r)) \in 1..3
        /\ Rows[r].hasmin => \E m \in 1..Len(Reads(r)) : Reads(r)[m] \in {"min", "minfan"}
        /\ Rows[r].hasmax => \E m \in 1..Len(Reads(r)) : Reads(r)[m] = "max"
    BY <1>1, ReadsFacts, RowFacts
  <1>5. ASSUME NEW m \in 1..Len(Reads(r)), Reads(r)[m] \in {"min", "minfan", "max"}
        PROVE  /\ Reads(r)[m] \in {"min", "minfan"} => tmin[r] = Limit[r].min
               /\ Reads(r)[m] = "max" => tmax[r] = Limit[r].max
    <2>1. <<r, Reads(r)[m]>> \notin failed
      BY <1>3, <1>5 DEF Blind
    <2>2. m \in 1..(place[3] - 1)
      BY <1>1, <1>4
    <2>3. QED
      BY <1>1, <2>1, <2>2 DEF LimitsHeld
  <1>6. tmin[r] = Bound(Rows[r].tmin, Rows[r].hasmin, Limit[r].min)
    BY <1>1, <1>4, <1>5 DEF Bound, LimitsHeld
  <1>7. tmax[r] = Bound(Rows[r].tmax, Rows[r].hasmax, Limit[r].max)
    BY <1>1, <1>4, <1>5 DEF Bound, LimitsHeld
  <1>8. r \in error' <=> shown[r] < tmin[r] \/ (tmax[r] # None /\ shown[r] > tmax[r])
    BY <1>1 DEF CheckError, CheckRow
  <1>9. QED
    BY <1>2, <1>6, <1>7, <1>8 DEF Outside

\* Every step keeps the limits and the marks right.
LEMMA MarksStep ==
  ASSUME MonitorTypeOK, LimitsHeld, Marks, MonitorNext
  PROVE  LimitsHeld' /\ Marks'
  <1>1. LimitsHeld /\ \A q \in Row : Checked(q) /\ ~Blind(q) => (q \in error <=> Outside(q))
    BY DEF Marks
  <1>2. ASSUME LimitsHeld', UNCHANGED <<shown, error, failed>>,
               \A q \in Row : Checked(q)' => Checked(q)
        PROVE  LimitsHeld' /\ Marks'
    <2>1. ASSUME NEW q \in Row, Checked(q)'
          PROVE  ~Blind(q)' => (q \in error' <=> Outside(q)')
      <3>1. Checked(q)
        BY <1>2, <2>1
      <3>2. QED
        BY <1>1, <1>2, <3>1, MarksKept
    <2>2. QED
      BY <1>2, <2>1 DEF Marks
  <1>3. CASE Sample
    <2>1. UNCHANGED <<place, shown, tmin, tmax, error, failed>>
      BY <1>3 DEF Sample
    <2>2. QED
      BY <1>1, <1>2, <2>1, LimitsKept DEF Checked
  <1>4. CASE SetPin
    <2>1. Doing("pin") /\ place' = Onward /\ UNCHANGED <<shown, tmin, tmax, error, failed>>
      BY <1>4 DEF SetPin
    <2>2. place[2] = 0 /\ place[1] \in 0..4 /\ place'[2] = 0
      BY <2>1, Setting
    <2>3. 0 \notin Row
      BY RowFacts
    <2>4. \A q \in Row : Checked(q)' => Checked(q)
      BY <2>1, <2>2, <2>3, CheckedOnward
    <2>5. QED
      BY <1>1, <1>2, <2>1, <2>2, <2>3, <2>4, LimitsKept
  <1>5. CASE Wait
    <2>1. Doing("sleep") /\ place' = Onward /\ UNCHANGED <<shown, tmin, tmax, error, failed>>
      BY <1>5 DEF Wait
    <2>2. place[2] = 0 /\ place[1] \in 0..4 /\ place'[3] = 1
      BY <2>1, Waiting
    <2>3. 0 \notin Row
      BY RowFacts
    <2>4. \A q \in Row : Checked(q)' => Checked(q)
      BY <2>1, <2>2, <2>3, CheckedOnward
    <2>5. QED
      BY <1>1, <1>2, <2>1, <2>2, <2>4, LimitsKept
  <1>6. ASSUME NEW r \in Row, NEW what, NEW value, HasRead(r, what, value)
        PROVE  LimitsHeld' /\ Marks'
    <2>1. LimitsHeld'
      BY <1>1, <1>6, LimitsRead
    <2>2. ASSUME NEW q \in Row, Checked(q)'
          PROVE  Checked(q) /\ q # r
      <3>1. place[1] = TurnOf(r) /\ r \in Nat /\ q \in Nat /\ TurnOf(r) \in 0..4 /\ TurnOf(q) \in 0..4
        BY <1>6, NowIs, RowFacts DEF HasRead
      <3>2. place'[1] = place[1] /\ place'[2] = r /\ place[2] = r
        BY <1>6 DEF HasRead
      <3>3. QED
        BY <1>6, <2>2, <3>1, <3>2 DEF Checked, Earlier
    <2>3. ASSUME NEW q \in Row, Checked(q)'
          PROVE  ~Blind(q)' => (q \in error' <=> Outside(q)')
      <3>1. Checked(q) /\ q # r
        BY <2>2, <2>3
      <3>2. shown'[q] = shown[q] /\ (q \in error' <=> q \in error)
        BY <1>6, <3>1 DEF HasRead
      <3>3. \A u : <<q, u>> \in failed' <=> <<q, u>> \in failed
        BY <1>6, <3>1 DEF HasRead
      <3>4. QED
        BY <1>1, <3>1, <3>2, <3>3, MarksKept
    <2>4. QED
      BY <2>1, <2>3 DEF Marks
  <1>7. CASE GetRegister
    <2>1. PICK r \in Row, what \in {"cur", "low", "high", "min", "minfan", "max"} :
            /\ r = place[2] /\ place[3] \in 1..Len(Reads(r))
            /\ what = Reads(r)[place[3]] /\ Now = Get(r, what)
            /\ what \in {"min", "minfan"} => Rows[r].hasmin
            /\ what = "max" => Rows[r].hasmax
            /\ Onward = <<place[1], r, place[3] + 1>>
      BY <1>7, Reading DEF GetRegister
    <2> DEFINE value == Register(r, what)
    <2>2. Now.row = r /\ Now.what = what
      BY <2>1 DEF Get
    <2>3. (what \in {"min", "minfan"} => Rows[r].hasmin) /\ (what = "max" => Rows[r].hasmax)
      BY <2>1
    <2>4. value \in Int /\ (what \in {"low", "high"} => value \in 0..255)
      BY <2>3, ReadNumbers
    <2>5. what \in {"low", "high"} => value \in 0..255 \cup {None}
      BY <2>4
    <2>6. /\ Assign(value) /\ UNCHANGED error
          /\ \A x : x # <<r, what>> => (x \in failed' <=> x \in failed)
          /\ place' = <<place[1], r, place[3] + 1>>
      BY <1>7, <2>1, <2>2 DEF GetRegister
    <2>7. value = Register(r, what)
      OBVIOUS
    <2>8. Now = Get(r, what)
      BY <2>1
    <2> HIDE DEF value
    <2>9. /\ \A q \in Row \ {r} : shown'[q] = shown[q] /\ tmin'[q] = tmin[q] /\ tmax'[q] = tmax[q]
          /\ tmin'[r] = (IF what \in {"min", "minfan"} THEN value ELSE tmin[r])
          /\ tmax'[r] = (IF what = "max" THEN value ELSE tmax[r])
      BY <2>4, <2>5, <2>6, <2>8, Assigned
    <2>10. HasRead(r, what, value)
      BY <2>1, <2>6, <2>7, <2>9 DEF HasRead
    <2>11. QED
      BY <1>6, <2>10
  <1>8. CASE GetFails
    <2>1. PICK r \in Row, what \in {"cur", "low", "high", "min", "minfan", "max"} :
            /\ r = place[2] /\ place[3] \in 1..Len(Reads(r))
            /\ what = Reads(r)[place[3]] /\ Now = Get(r, what)
            /\ Onward = <<place[1], r, place[3] + 1>>
      BY <1>8, Reading DEF GetFails
    <2>2. Now.row = r /\ Now.what = what
      BY <2>1 DEF Get
    <2> DEFINE value == IF what = "minfan" THEN 0 ELSE None
    <2>3. value \in Int /\ (what \in {"low", "high"} => value \in 0..255 \cup {None})
      BY DEF None
    <2>4. /\ Assign(value) /\ UNCHANGED error /\ <<r, what>> \in failed'
          /\ \A x : x # <<r, what>> => (x \in failed' <=> x \in failed)
          /\ place' = <<place[1], r, place[3] + 1>> \/ UNCHANGED place
      BY <1>8, <2>1, <2>2 DEF GetFails
    <2> HIDE DEF value
    <2>5. Now = Get(r, what)
      BY <2>1
    <2>6. /\ \A q \in Row \ {r} : shown'[q] = shown[q] /\ tmin'[q] = tmin[q] /\ tmax'[q] = tmax[q]
          /\ tmin'[r] = (IF what \in {"min", "minfan"} THEN value ELSE tmin[r])
          /\ tmax'[r] = (IF what = "max" THEN value ELSE tmax[r])
      BY <2>3, <2>4, <2>5, Assigned
    <2>7. HasRead(r, what, value)
      BY <2>1, <2>4, <2>6 DEF HasRead
    <2>8. QED
      BY <1>6, <2>7
  <1>9. CASE CheckError
    <2>1. /\ place[2] \in Row /\ place[1] \in 0..4 /\ place' = Onward /\ place'[3] = 1
          /\ Now.row = place[2] /\ UNCHANGED <<shown, tmin, tmax, failed>>
      BY <1>9, Checking DEF CheckError, CheckRow
    <2>2. LimitsHeld'
      BY <1>1, <2>1, LimitsKept
    <2>3. \A q \in Row : q # place[2] => (q \in error' <=> q \in error)
      BY <1>9, <2>1 DEF CheckError
    <2>4. ASSUME NEW q \in Row, Checked(q)'
          PROVE  ~Blind(q)' => (q \in error' <=> Outside(q)')
      <3>1. CASE q = place[2]
        BY <1>1, <1>9, <3>1, MarkSet
      <3>2. CASE q # place[2]
        <4>1. Checked(q)
          BY <2>1, <2>4, <3>2, CheckedOnward
        <4>2. QED
          BY <1>1, <2>1, <2>3, <3>2, <4>1, MarksKept
      <3>3. QED
        BY <3>1, <3>2
    <2>5. QED
      BY <2>2, <2>4 DEF Marks
  <1>10. CASE Show
    <2>1. UNCHANGED <<shown, tmin, tmax, error, failed>> /\ (place' = Origin \/ UNCHANGED place)
      BY <1>10 DEF Show
    <2>2. LimitsHeld'
      BY <1>1, <2>1, LimitsKept DEF Origin
    <2>3. \A q \in Row : Checked(q)' => Checked(q)
      BY <2>1, RowFacts DEF Checked, Earlier, Origin
    <2>4. QED
      BY <1>2, <2>1, <2>2, <2>3
  <1>11. QED
    BY <1>3, <1>4, <1>5, <1>7, <1>8, <1>9, <1>10 DEF MonitorNext

\* A fan's two bytes are read first, and in this order; nothing else has such.
LEMMA BytesFirst ==
  ASSUME NEW r \in Row, NEW m \in 1..Len(Reads(r))
  PROVE  /\ Reads(r)[m] \in {"low", "high"} => Rows[r].func = 4
         /\ Rows[r].func = 4 => /\ Len(Reads(r)) >= 2
                                /\ m = 1 <=> Reads(r)[m] = "low"
                                /\ m = 2 <=> Reads(r)[m] = "high"
         /\ Reads(r)[m] = "cur" => m = 1
  <1>1. Rows[r].hasmin \in BOOLEAN /\ Rows[r].hasmax \in BOOLEAN
    BY RowFacts
  <1>2. CASE Reads(r) = <<"low", "high", "minfan">> /\ Rows[r].func = 4
    BY <1>2
  <1>3. CASE Reads(r) = <<"low", "high">> /\ Rows[r].func = 4
    BY <1>3
  <1>4. CASE Reads(r) = <<"cur", "min", "max">> /\ Rows[r].func # 4
    BY <1>4
  <1>5. CASE Reads(r) = <<"cur", "min">> /\ Rows[r].func # 4
    BY <1>5
  <1>6. CASE Reads(r) = <<"cur", "max">> /\ Rows[r].func # 4
    BY <1>6
  <1>7. CASE Reads(r) = <<"cur">> /\ Rows[r].func # 4
    BY <1>7
  <1>8. QED
    BY <1>1, <1>2, <1>3, <1>4, <1>5, <1>6, <1>7, Zenon DEF Reads

\* A step that is no reading leaves the failures as they are: the row whose
\* place it leaves has been read to its end.
LEMMA FailuresKept ==
  ASSUME MonitorTypeOK, FailuresSeen, UNCHANGED <<low, shown, failed>>,
         monitorExit' = monitorExit \/ monitorExit # "2",
         \A q \in Row : place'[2] = q => place'[3] = 1 \/ UNCHANGED place,
         \A q \in Row : Checked(q)' => Checked(q) \/ (q = place[2] /\ place[3] = Steps(place))
  PROVE  FailuresSeen'
  <1>1. (\E r \in Row : <<r, "cur">> \in failed') => monitorExit' = "2"
    BY DEF FailuresSeen
  <1>2. ASSUME NEW r \in Row, Bytes(r) \cap failed' # {}
        PROVE  /\ Rows[r].func = 4
               /\ place'[2] = r /\ place'[3] = 2 /\ <<r, "low">> \in failed' => low' = None
               /\ (place'[2] = r /\ place'[3] > 2) \/ Checked(r)' => shown'[r] = 0
    <2>1. /\ Bytes(r) \cap failed # {} /\ Rows[r].func = 4
          /\ place[2] = r /\ place[3] = 2 /\ <<r, "low">> \in failed => low = None
          /\ (place[2] = r /\ place[3] > 2) \/ Checked(r) => shown[r] = 0
      BY <1>2 DEF FailuresSeen
    <2>2. place'[2] = r /\ place'[3] # 1 => UNCHANGED place
      OBVIOUS
    <2>3. place[2] = r /\ place[3] = Steps(place) => place[3] > 2
      <3>1. HAVE place[2] = r /\ place[3] = Steps(place)
      <3>2. Len(Reads(r)) \in 1..3 /\ (1 \in 1..Len(Reads(r)) => Len(Reads(r)) >= 2)
        BY <2>1, ReadsFacts, BytesFirst
      <3>3. Steps(place) = Len(Reads(r)) + 1
        BY <3>1, NowIs, RowFacts
      <3>4. Len(Reads(r)) \in Nat /\ Len(Reads(r)) >= 2
        BY <3>2
      <3>5. QED
        BY <3>1, <3>3, <3>4
    <2>4. Checked(r)' => Checked(r) \/ (r = place[2] /\ place[3] = Steps(place))
      OBVIOUS
    <2>5. QED
      BY <2>1, <2>2, <2>3, <2>4
  <1>3. QED
    BY <1>1, <1>2 DEF FailuresSeen, Bytes

\* A reading that is tried: one that fails ends the program, or makes the speed 0.
LEMMA FailureSet ==
  ASSUME MonitorTypeOK, FailuresSeen, monitorExit = "none", NEW r \in Row, NEW what, NEW value,
         r = place[2], place[3] \in 1..Len(Reads(r)), what = Reads(r)[place[3]],
         Now = Get(r, what), Assign(value),
         \A x : x # <<r, what>> => (x \in failed' <=> x \in failed),
         <<r, what>> \in failed' /\ what # "minfan" => value = None,
         \/ monitorExit' = "2" /\ UNCHANGED place /\ what = "cur"
         \/ /\ UNCHANGED monitorExit /\ place' = <<place[1], r, place[3] + 1>>
            /\ what = "cur" => <<r, what>> \notin failed'
  PROVE  FailuresSeen'
  <1> DEFINE k == place[3]
  <1>1. Now.row = r /\ Now.what = what
    BY DEF Get
  <1>2. (\E q \in Row : <<q, "cur">> \in failed') => monitorExit' = "2"
    BY DEF FailuresSeen
  <1>3. /\ k \in 1..3 /\ place'[2] = r /\ (UNCHANGED place \/ place'[3] = k + 1)
        /\ UNCHANGED place => k = 1 \/ what # "cur"
        /\ what \in {"low", "high"} => Rows[r].func = 4
        /\ Rows[r].func = 4 => (k = 1 <=> what = "low") /\ (k = 2 <=> what = "high") /\ what # "cur"
        /\ what = "cur" => k = 1
    BY ReadsFacts, BytesFirst
  <1>4. shown \in [Row -> Int]
    BY DEF MonitorTypeOK
  <1> HIDE DEF k
  <1>5. ASSUME NEW q \in Row, Bytes(q) \cap failed' # {}
        PROVE  /\ Rows[q].func = 4
               /\ place'[2] = q /\ place'[3] = 2 /\ <<q, "low">> \in failed' => low' = None
               /\ (place'[2] = q /\ place'[3] > 2) \/ Checked(q)' => shown'[q] = 0
    <2>1. CASE q # r
      <3>1. Bytes(q) \cap failed # {}
        BY <1>5, <2>1 DEF Bytes
      <3>2. Checked(q)' => Checked(q)
        BY <1>3, NowIs, RowFacts, <2>1 DEF Checked, Earlier, k
      <3>3. shown'[q] = shown[q]
        BY <1>1, <1>4, <2>1 DEF Assign
      <3>4. QED
        BY <1>3, <2>1, <3>1, <3>2, <3>3 DEF FailuresSeen
    <2>2. CASE q = r
      <3>1. Rows[r].func = 4
        <4>1. CASE what \in {"low", "high"}
          BY <1>3, <4>1
        <4>2. CASE what \notin {"low", "high"}
          <5>1. Bytes(r) \cap failed # {}
            BY <1>5, <2>2, <4>2 DEF Bytes
          <5>2. QED
            BY <5>1 DEF FailuresSeen
        <4>3. QED
          BY <4>1, <4>2
      <3>2. /\ (k = 1 <=> what = "low") /\ (k = 2 <=> what = "high") /\ what # "cur"
            /\ place'[3] = k + 1 /\ place' = <<place[1], r, k + 1>>
        BY <1>3, <3>1 DEF k
      <3>3. ~Checked(r)'
        <4>1. place[1] = TurnOf(r) /\ TurnOf(r) \in Int /\ r \in Int
          BY NowIs, RowFacts
        <4>2. place'[1] = TurnOf(r) /\ place'[2] = r
          BY <3>2, <4>1
        <4>3. TurnOf(r)' = TurnOf(r)
          BY DEF TurnOf
        <4>4. QED
          BY <4>1, <4>2 DEF Checked, Earlier
      <3>4. k = 1 /\ <<r, "low">> \in failed' => low' = None
        BY <1>1, <3>2 DEF Assign
      <3>5. k = 2 => shown'[r] = 0
        <4>1. HAVE k = 2
        <4>2. shown' = [shown EXCEPT ![r] = SpeedOf(r, low, value)]
          BY <1>1, <3>2, <4>1 DEF Assign
        <4>3. low = None \/ value = None
          <5>1. CASE <<r, "high">> \in failed'
            BY <3>2, <4>1, <5>1
          <5>2. CASE <<r, "high">> \notin failed'
            <6>1. <<r, "low">> \in failed'
              BY <1>5, <2>2, <5>2 DEF Bytes
            <6>2. <<r, "low">> \in failed
              BY <3>2, <4>1, <6>1
            <6>3. Bytes(r) \cap failed # {}
              BY <6>2 DEF Bytes
            <6>4. QED
              BY <4>1, <6>2, <6>3 DEF FailuresSeen, k
          <5>3. QED
            BY <5>1, <5>2
        <4>4. SpeedOf(r, low, value) = 0
          BY <4>3 DEF SpeedOf
        <4>5. QED
          BY <1>4, <4>2, <4>4
      <3>6. k = 3 => shown'[r] = 0
        <4>1. HAVE k = 3
        <4>2. what \notin {"cur", "low", "high"}
          BY <3>2, <4>1
        <4>3. shown' = shown
          BY <1>1, <4>2 DEF Assign
        <4>4. Bytes(r) \cap failed # {}
          BY <1>5, <2>2, <4>2 DEF Bytes
        <4>5. shown[r] = 0
          BY <4>1, <4>4 DEF FailuresSeen, k
        <4>6. QED
          BY <4>3, <4>5
      <3>7. QED
        BY <1>3, <2>2, <3>1, <3>2, <3>3, <3>4, <3>5, <3>6
    <2>3. QED
      BY <2>1, <2>2
  <1>6. QED
    BY <1>2, <1>5 DEF FailuresSeen, Bytes

\* Every step keeps what failures leave behind.
LEMMA FailuresStep ==
  ASSUME MonitorTypeOK, FailuresSeen, MonitorNext
  PROVE  FailuresSeen'
  <1>1. CASE Sample
    BY <1>1 DEF Sample, FailuresSeen, Checked
  <1>2. CASE SetPin
    <2>1. Doing("pin") /\ place' = Onward /\ UNCHANGED <<low, shown, failed, monitorExit>>
      BY <1>2 DEF SetPin
    <2>2. place[2] = 0 /\ place[1] \in 0..4 /\ place'[2] = 0 /\ 0 \notin Row
      BY <2>1, Setting, RowFacts
    <2>3. \A q \in Row : Checked(q)' => Checked(q) \/ (q = place[2] /\ place[3] = Steps(place))
      BY <2>1, <2>2, CheckedOnward
    <2>4. QED
      BY <2>1, <2>2, <2>3, FailuresKept
  <1>3. CASE Wait \/ CheckError
    <2>1. /\ Doing("sleep") \/ Doing("check")
          /\ place' = Onward /\ UNCHANGED <<low, shown, failed, monitorExit>>
      BY <1>3 DEF Wait, CheckError
    <2>2. place[1] \in 0..4 /\ place'[3] = 1
      BY <2>1, Waiting, Checking
    <2>3. \A q \in Row : Checked(q)' => Checked(q) \/ (q = place[2] /\ place[3] = Steps(place))
      BY <2>1, <2>2, CheckedOnward
    <2>4. QED
      BY <2>1, <2>2, <2>3, FailuresKept
  <1>4. CASE GetRegister \/ GetFails
    <2>1. Doing("get") /\ monitorExit = "none"
      BY <1>4 DEF GetRegister, GetFails, Doing
    <2>2. PICK r \in Row, what \in {"cur", "low", "high", "min", "minfan", "max"} :
            /\ r = place[2] /\ place[3] \in 1..Len(Reads(r))
            /\ what = Reads(r)[place[3]] /\ Now = Get(r, what)
            /\ Onward = <<place[1], r, place[3] + 1>>
      BY <2>1, Reading
    <2>3. Now.row = r /\ Now.what = what
      BY <2>2 DEF Get
    <2>4. \E value :
            /\ Assign(value)
            /\ \A x : x # <<r, what>> => (x \in failed' <=> x \in failed)
            /\ <<r, what>> \in failed' /\ what # "minfan" => value = None
            /\ \/ monitorExit' = "2" /\ UNCHANGED place /\ what = "cur"
               \/ /\ UNCHANGED monitorExit /\ place' = <<place[1], r, place[3] + 1>>
                  /\ what = "cur" => <<r, what>> \notin failed'
      <3>1. CASE GetRegister
        <4>1. Assign(Register(r, what)) /\ failed' = failed \ {<<r, what>>} /\ UNCHANGED monitorExit
              /\ place' = Onward
          BY <2>3, <3>1 DEF GetRegister
        <4>2. QED
          BY <2>2, <4>1
      <3>2. CASE GetFails
        <4>1. /\ Assign(IF what = "minfan" THEN 0 ELSE None) /\ failed' = failed \cup {<<r, what>>}
              /\ IF what = "cur" THEN monitorExit' = "2" /\ UNCHANGED place
                 ELSE place' = Onward /\ UNCHANGED monitorExit
          BY <2>3, <3>2 DEF GetFails
        <4>2. QED
          BY <2>2, <4>1
      <3>3. QED
        BY <1>4, <3>1, <3>2
    <2>5. QED
      BY <2>1, <2>2, <2>4, FailureSet
  <1>5. CASE Show
    <2>1. /\ UNCHANGED <<low, shown, failed>> /\ (place' = Origin \/ UNCHANGED place)
          /\ monitorExit # "2"
      BY <1>5 DEF Show, Doing
    <2>2. \A q \in Row : Checked(q)' => Checked(q)
      BY <2>1, RowFacts DEF Checked, Earlier, Origin
    <2>3. QED
      BY <2>1, <2>2, FailuresKept DEF Origin
  <1>6. QED
    BY <1>1, <1>2, <1>3, <1>4, <1>5 DEF MonitorNext

\* A step that changes nothing changes none of this.
LEMMA MonitorStutters ==
  ASSUME MonitorTypeOK /\ SwitchSet /\ ErrorsMarked, UNCHANGED monitorVars
  PROVE  (MonitorTypeOK /\ SwitchSet /\ ErrorsMarked)'
  <1>1. MonitorTypeOK'
    BY DEF monitorVars, MonitorTypeOK
  <1>2. SwitchSet'
    BY DEF monitorVars, SwitchSet, Settled, Selected, Seen
  <1>3. LimitsHeld' /\ Marks'
    BY DEF monitorVars, ErrorsMarked, LimitsHeld, Marks, Checked, Blind, Outside
  <1>4. FailuresSeen'
    BY DEF monitorVars, ErrorsMarked, FailuresSeen, Bytes, Checked
  <1>5. QED
    BY <1>1, <1>2, <1>3, <1>4 DEF ErrorsMarked

\* So all of it holds in every state.
LEMMA MonitorHolds == MonitorSpec => [](MonitorTypeOK /\ SwitchSet /\ ErrorsMarked)
  <1> DEFINE MInv == MonitorTypeOK /\ SwitchSet /\ ErrorsMarked
  <1>1. MonitorInit => MInv
    BY MonitorStart
  <1>2. MInv /\ [MonitorNext]_monitorVars => MInv'
    BY MonitorTypes, SwitchStep, MarksStep, FailuresStep, MonitorStutters DEF ErrorsMarked
  <1>3. QED
    BY <1>1, <1>2, PTL DEF MonitorSpec

\* Whatever the table and whatever the inputs measure, a reading is taken from
\* a sample of its own row's input, in every round and however the chip samples
\* meanwhile: the wait after the switch is set lets no sample of the turn before
\* through.
THEOREM MonitorSamplesOwn == MonitorSpec => []SampleInv
  <1>1. MonitorTypeOK /\ SwitchSet => SampleInv
    <2>1. ASSUME MonitorTypeOK, SwitchSet, Doing("get")
          PROVE  sample[Rows[Now.row].off][1] = Now.row
      <3>1. PICK r \in Row, what \in {"cur", "low", "high", "min", "minfan", "max"} :
              r = place[2] /\ Now = Get(r, what)
        BY <2>1, Reading
      <3>2. Now.row = place[2] /\ place[2] > 0
        <4>1. r \in Nat \ {0}
          BY RowFacts, Zenon
        <4>2. QED
          BY <3>1, <4>1 DEF Get
      <3>3. QED
        BY <2>1, <3>2, OwnInput
    <2>2. QED
      BY <2>1 DEF SampleInv, OwnSample
  <1>2. QED
    BY <1>1, MonitorHolds, PTL

\* A row that has been checked is marked exactly if its reading is outside the
\* limits of the table, or of the chip if they are read from it, whatever reads
\* failed of other rows or in earlier rounds.
THEOREM MonitorMarks == MonitorSpec => []ErrorsMarked
  BY MonitorHolds, PTL

\* Whatever the table, no other round follows one in which a reading failed,
\* unless it was of a fan whose lower limit is 0 or could not be read.
THEOREM MonitorFailureStops == MonitorSpec => FailureStops
  <1> DEFINE Stopped ==
        place[1] = 5 /\ place' = Origin =>
          \A r \in Row, what \in {"cur", "low", "high"} : <<r, what>> \in failed =>
            /\ Rows[r].func = 4
            /\ Bound(Rows[r].tmin, Rows[r].hasmin, Limit[r].min) <= 0 \/ Blind(r)
  <1>1. ASSUME MonitorTypeOK, ErrorsMarked, MonitorNext, place[1] = 5, place' = Origin,
               NEW r \in Row, NEW what \in {"cur", "low", "high"}, <<r, what>> \in failed
        PROVE  /\ Rows[r].func = 4
               /\ Bound(Rows[r].tmin, Rows[r].hasmin, Limit[r].min) <= 0 \/ Blind(r)
    <2>1. Show
      <3>1. place # Origin /\ place[2] = 0 /\ Now = Screen
        BY <1>1, NowIs DEF Origin
      <3>2. Now.op = "show"
        BY <3>1 DEF Screen
      <3>3. UNCHANGED place \/ Show
        BY <1>1, <3>2 DEF MonitorNext, Sample, SetPin, Wait, GetRegister, GetFails, CheckError, Doing
      <3>4. QED
        BY <1>1, <3>1, <3>3
    <2>2. error = {} /\ monitorExit = "none"
      <3>1. place' # place
        BY <1>1 DEF Origin
      <3>2. QED
        BY <2>1, <3>1 DEF Show, Doing
    <2>3. what # "cur"
      BY <1>1, <2>2 DEF ErrorsMarked, FailuresSeen
    <2>4. Bytes(r) \cap failed # {}
      BY <1>1, <2>3 DEF Bytes
    <2>5. Checked(r)
      <3>1. TurnOf(r) \in 0..4
        BY RowFacts
      <3>2. QED
        BY <1>1, <3>1 DEF Checked, Earlier
    <2>6. Rows[r].func = 4 /\ shown[r] = 0
      BY <1>1, <2>4, <2>5 DEF ErrorsMarked, FailuresSeen
    <2>7. CASE Blind(r)
      BY <2>6, <2>7
    <2>8. CASE ~Blind(r)
      <3>1. ~Outside(r)
        BY <1>1, <2>2, <2>5, <2>8 DEF ErrorsMarked, Marks
      <3>2. ~(0 < Bound(Rows[r].tmin, Rows[r].hasmin, Limit[r].min))
        BY <2>6, <3>1 DEF Outside
      <3>3. Bound(Rows[r].tmin, Rows[r].hasmin, Limit[r].min) \in Int
        <4>1. Rows[r].hasmin => Limit[r].min \in Int
          BY MonitorAssumption, Zenon
        <4>2. QED
          BY <4>1, RowFacts DEF Bound
      <3>4. QED
        BY <2>6, <3>2, <3>3
    <2>9. QED
      BY <2>7, <2>8
  <1>2. MonitorTypeOK /\ ErrorsMarked /\ [MonitorNext]_monitorVars => [Stopped]_monitorVars
    BY <1>1
  <1> HIDE DEF Stopped
  <1>3. MonitorSpec => [][Stopped]_monitorVars
    BY <1>2, MonitorHolds, PTL DEF MonitorSpec
  <1>4. QED
    BY <1>3 DEF FailureStops, Stopped

-----------------------------------------------------------------------------
(* The list of adapters (I2cBusses). *)

\* The next multiple.
LEMMA StillEven ==
  ASSUME NEW b \in Nat \ {0, 1}, NEW n \in Nat, n % b = 0
  PROVE  (n + b) % b = 0
  OBVIOUS

\* A new bunch is added when the last one is full, and holds one more name.
LEMMA MoreRoom ==
  ASSUME NEW n \in Nat, n % Bunch = 0, NEW c \in Nat, c < n
  PROVE  /\ (n + Bunch) % Bunch = 0
         /\ (c + 1) % Bunch # 0 => c + 1 < n
         /\ c + 1 < n + Bunch
  <1>1. Bunch \in Nat \ {0, 1}
    BY BussesAssumption
  <1>2. (n + Bunch) % Bunch = 0
    BY <1>1, StillEven
  <1>3. (c + 1) % Bunch # 0 => c + 1 < n
    BY <1>1
  <1>4. c + 1 < n + Bunch
    BY <1>1
  <1>5. QED
    BY <1>2, <1>3, <1>4

\* A directory is a sequence of names and of entries that cannot be read.
LEMMA DirectoryFacts ==
  ASSUME dir \in Directories
  PROVE  /\ dir \in Seq(Name \cup {Unread})
         /\ Len(dir) \in 0..MaxEntry
         /\ DOMAIN dir = 1..Len(dir)
  <1>1. PICK n \in 0..MaxEntry : dir \in [1..n -> Name \cup {Unread}]
    BY DEF Directories
  <1>2. QED
    BY <1>1, BussesAssumption, LenProperties, SeqDef

\* What the invariant says of the array's places.
LEMMA Places ==
  ASSUME BussesInv, array # NoArray
  PROVE  /\ Len(array) \in Nat /\ count \in Nat /\ entry \in Nat \ {0}
         /\ Len(dir) \in Nat /\ DOMAIN dir = 1..Len(dir)
         /\ \A n \in 1..Len(dir) : dir[n] \in Name \cup {Unread}
         /\ Len(array) % Bunch = 0 /\ count < Len(array)
         /\ \A p \in 1..Len(array) : array[p] \in Slot /\ (array[p] = Empty <=> p > count)
         /\ \A p \in 1..count : /\ array[p] # Empty
                                /\ array[p][1] \in 0..(entry - 2) /\ array[p][2] \in Name
                                /\ array[p] = <<array[p][1], array[p][2]>>
                                /\ dir[array[p][1] + 1] = array[p][2]
         /\ Reached = 1..count
  <1>1. /\ Len(array) \in Nat /\ count \in Nat /\ entry \in Nat \ {0}
        /\ Len(dir) \in Nat /\ DOMAIN dir = 1..Len(dir)
        /\ Len(array) % Bunch = 0 /\ count < Len(array)
    BY DirectoryFacts DEF BussesInv, BussesTypeOK, Ended
  <1>2. \A n \in 1..Len(dir) : dir[n] \in Name \cup {Unread}
    BY DirectoryFacts DEF BussesInv, BussesTypeOK
  <1>3. \A p \in 1..Len(array) : array[p] \in Slot /\ (array[p] = Empty <=> p > count)
    BY DEF BussesInv, BussesTypeOK, Ended
  <1>4. \A p \in 1..count : /\ array[p] # Empty
                            /\ array[p][1] \in 0..(entry - 2) /\ array[p][2] \in Name
                            /\ array[p] = <<array[p][1], array[p][2]>>
                            /\ dir[array[p][1] + 1] = array[p][2]
    BY <1>1, <1>3 DEF BussesInv, NamesListed
  <1>5. Reached = 1..count
    BY <1>1, <1>3 DEF Reached
  <1>6. QED
    BY <1>1, <1>2, <1>3, <1>4, <1>5

\* Adding a name grows the array when it has to, and fills the next place.
LEMMA Added ==
  ASSUME BussesInv, Add
  PROVE  /\ array' \in Seq(Slot)
         /\ Len(array') % Bunch = 0
         /\ count' = count + 1 /\ count' < Len(array')
         /\ array'[count + 1] = <<entry - 1, dir[entry]>>
         /\ \A p \in 1..count : array'[p] = array[p]
         /\ \A p \in 1..Len(array') : array'[p] = Empty <=> p > count'
  <1> array # NoArray
    BY DEF Add, BussesInv, Opened
  <1> DEFINE spare == [p \in 1..Bunch |-> Empty]
             room == IF Full THEN array \o spare ELSE array
  <1>1. /\ entry \in 1..Len(dir) /\ dir[entry] \in Name
        /\ count' = count + 1
        /\ array' = [p \in 1..Len(room) \cup {count + 1} |->
                       IF p = count + 1 THEN <<entry - 1, dir[entry]>> ELSE room[p]]
    BY Places DEF Add
  <1>2. Bunch \in Nat \ {0, 1} /\ array \in Seq(Slot)
    BY BussesAssumption DEF BussesInv, BussesTypeOK
  <1>3. spare \in Seq(Slot) /\ Len(spare) = Bunch /\ \A p \in 1..Bunch : spare[p] = Empty
    BY <1>2, SeqDef DEF Slot
  <1> HIDE DEF spare, room
  <1>4. /\ room \in Seq(Slot) /\ Len(room) \in Nat
        /\ Len(room) % Bunch = 0 /\ count + 1 < Len(room)
        /\ \A p \in 1..Len(array) : p \in 1..Len(room) /\ room[p] = array[p]
        /\ \A p \in 1..Len(room) : p > Len(array) => room[p] = Empty
    <2>1. CASE Full
      <3>1. room = array \o spare
        BY <2>1 DEF room
      <3>2. /\ room \in Seq(Slot) /\ Len(room) = Len(array) + Bunch
            /\ \A p \in 1..Len(array) : room[p] = array[p]
            /\ \A p \in 1..Len(room) : p > Len(array) => room[p] = spare[p - Len(array)]
        <4>1. room \in Seq(Slot) /\ Len(room) = Len(array) + Len(spare)
          BY <1>2, <1>3, <3>1, ConcatProperties
        <4>2. \A p \in 1..(Len(array) + Len(spare)) :
                room[p] = IF p <= Len(array) THEN array[p] ELSE spare[p - Len(array)]
          BY <1>2, <1>3, <3>1, ConcatProperties
        <4>3. Len(array) \in Nat
          BY Places
        <4>4. QED
          BY <1>2, <1>3, <4>1, <4>2, <4>3
      <3>3. Len(array) \in Nat /\ Len(array) % Bunch = 0 /\ count \in Nat /\ count < Len(array)
        BY Places
      <3>4. Len(room) \in Nat /\ Len(room) % Bunch = 0 /\ count + 1 < Len(room)
        BY <1>2, <3>2, <3>3, MoreRoom
      <3>5. \A p \in 1..Len(room) : p > Len(array) => p - Len(array) \in 1..Bunch
        BY <1>2, <3>2, <3>3
      <3>6. \A p \in 1..Len(room) : p > Len(array) => room[p] = Empty
        BY <1>3, <3>2, <3>5
      <3>7. \A p \in 1..Len(array) : p \in 1..Len(room)
        BY <1>2, <3>2, <3>3
      <3>8. QED
        BY <3>2, <3>4, <3>6, <3>7
    <2>2. CASE ~Full
      <3>1. room = array
        BY <2>2 DEF room
      <3>2. (count + 1) % Bunch # 0
        BY <2>2 DEF Full
      <3>3. Len(array) \in Nat /\ Len(array) % Bunch = 0 /\ count \in Nat /\ count < Len(array)
        BY Places
      <3>4. count + 1 < Len(array)
        BY <3>2, <3>3, MoreRoom
      <3>5. QED
        BY <1>2, <3>1, <3>3, <3>4
    <2>3. QED
      BY <2>1, <2>2
  <1>5. 1..Len(room) \cup {count + 1} = 1..Len(room)
    BY <1>4, Places
  <1>6. array' = [p \in 1..Len(room) |->
                    IF p = count + 1 THEN <<entry - 1, dir[entry]>> ELSE room[p]]
    BY <1>1, <1>5
  <1>7. <<entry - 1, dir[entry]>> \in Slot /\ <<entry - 1, dir[entry]>> # Empty
    BY <1>1, Places DEF Slot, Empty
  <1>8. \A p \in 1..Len(room) : room[p] \in Slot
    BY <1>4
  <1>9. array' \in [1..Len(room) -> Slot]
    BY <1>6, <1>7, <1>8
  <1>10. array' \in Seq(Slot) /\ Len(array') = Len(room)
    BY <1>4, <1>9, SeqDef, LenProperties
  <1>11. \A p \in 1..Len(array') : array'[p] = Empty <=> p > count + 1
    <2>1. TAKE p \in 1..Len(array')
    <2>2. CASE p = count + 1
      BY <1>6, <1>7, <1>10, <2>2, Places
    <2>3. CASE p # count + 1 /\ p <= Len(array)
      <3>1. p \in 1..Len(array) /\ p \in 1..Len(room) /\ count \in Nat
        BY <1>10, <2>3, Places
      <3>2. array'[p] = array[p]
        BY <1>4, <1>6, <2>3, <3>1
      <3>3. array[p] = Empty <=> p > count
        BY <3>1, Places
      <3>4. QED
        BY <2>3, <3>1, <3>2, <3>3
    <2>4. CASE p > Len(array) /\ p # count + 1
      BY <1>4, <1>6, <1>10, <2>4, Places
    <2>5. QED
      BY <1>4, <1>10, <2>2, <2>3, <2>4, Places
  <1>12. \A p \in 1..count : array'[p] = array[p]
    BY <1>4, <1>6, Places
  <1>13. array'[count + 1] = <<entry - 1, dir[entry]>>
    BY <1>4, <1>6, Places
  <1>14. QED
    BY <1>1, <1>4, <1>10, <1>11, <1>12, <1>13

\* When the walk is over its result is what the directory says.
LEMMA Told ==
  ASSUME BussesInv, busPc = "free"
  PROVE  CASE bus >= 0 -> Matches = {bus + 1}
           [] bus = -1 -> Matches = {}
           [] bus = -4 -> \E m, n \in Matches : m # n
           [] OTHER    -> TRUE
  <1> array # NoArray
    BY DEF BussesInv, Opened
  <1> DEFINE hits == {p \in 1..(walked - 1) : array[p][2] = arg}
  <1>1. /\ entry = Len(dir) + 1 /\ walked \in 1..(count + 1)
        /\ bus = -4 => walked <= count
        /\ bus # -4 => walked = count + 1
        /\ bus = -1 => hits = {}
        /\ bus >= 0 /\ bus # -1 => \E p \in hits : hits = {p} /\ array[p][1] = bus
        /\ bus = -4 => array[walked][2] = arg /\ hits # {}
        /\ bus \in {-1, -3, -4} \cup Nat
    <2>1. bus \in {-1, -3, -4} \cup Nat
      BY DEF BussesInv, BussesTypeOK
    <2>2. /\ entry = Len(dir) + 1 /\ walked \in 1..(count + 1)
          /\ IF bus = -4 THEN walked <= count ELSE walked = count + 1
      BY DEF BussesInv, Looked
    <2>3. /\ bus = -1 => hits = {}
          /\ bus # -1 /\ bus >= 0 => \E p \in hits : hits = {p} /\ array[p][1] = bus
          /\ bus # -1 /\ ~(bus >= 0) => array[walked][2] = arg /\ hits # {}
      BY DEF BussesInv, Looked
    <2> HIDE DEF hits
    <2>4. QED
      BY <2>1, <2>2, <2>3
  <1>2. ASSUME NEW p \in 1..count, array[p][2] = arg
        PROVE  array[p][1] + 1 \in Matches
    <2>1. array[p][1] \in 0..(entry - 2) /\ dir[array[p][1] + 1] = array[p][2]
      BY Places
    <2>2. array[p][1] + 1 \in 1..Len(dir)
      BY <1>1, <2>1, Places
    <2>3. QED
      BY <1>2, <2>1, <2>2, Places DEF Matches
  <1>3. ASSUME NEW n \in Matches
        PROVE  \E p \in 1..count : array[p][1] = n - 1 /\ array[p][2] = arg
    <2>1. n \in 1..Len(dir) /\ dir[n] = arg
      BY Places DEF Matches
    <2>2. dir[n] # Unread
      BY <2>1, BussesAssumption DEF BussesInv, BussesTypeOK
    <2>3. PICK p \in 1..count : array[p][1] = n - 1
      BY <1>1, <2>1, <2>2, Places DEF BussesInv, NamesListed
    <2>4. array[p][2] = dir[array[p][1] + 1]
      BY Places
    <2>5. QED
      BY <2>1, <2>3, <2>4
  <1>4. CASE bus = -1
    <2>1. Matches = {}
      <3>1. hits = {} /\ walked = count + 1 /\ count \in Nat
        BY <1>1, <1>4, Places
      <3>2. 1..(walked - 1) = 1..count
        BY <3>1
      <3>3. \A p \in 1..count : array[p][2] # arg
        BY <3>1, <3>2
      <3>4. QED
        BY <1>3, <3>3
    <2>2. QED
      BY <1>4, <2>1
  <1>5. CASE bus \in Nat
    <2>1. PICK p \in hits : hits = {p} /\ array[p][1] = bus
      BY <1>1, <1>5
    <2>2. bus + 1 \in Matches
      BY <1>1, <1>2, <2>1, Places
    <2>3. ASSUME NEW n \in Matches
          PROVE  n = bus + 1
      <3>1. PICK q \in 1..count : array[q][1] = n - 1 /\ array[q][2] = arg
        BY <1>3
      <3>2. q \in hits
        BY <1>1, <1>5, <3>1, Places
      <3>3. n \in Int
        BY Places DEF Matches
      <3>4. QED
        BY <1>5, <2>1, <3>1, <3>2, <3>3
    <2>4. Matches = {bus + 1}
      BY <2>2, <2>3
    <2>5. QED
      BY <1>5, <2>4
  <1>6. CASE bus = -4
    <2>1. PICK q \in hits : TRUE
      BY <1>1, <1>6
    <2>2. q \in 1..count /\ walked \in 1..count /\ q # walked
      BY <1>1, <1>6, Places
    <2>3. array[q][1] # array[walked][1]
      BY <2>2 DEF BussesInv, NamesListed
    <2>4. array[q][1] + 1 \in Matches /\ array[walked][1] + 1 \in Matches
      BY <1>1, <1>2, <1>6, <2>2
    <2>5. array[q][1] + 1 # array[walked][1] + 1
      <3>1. array[q][1] \in Int /\ array[walked][1] \in Int
        BY <2>2, Places
      <3>2. QED
        BY <2>3, <3>1
    <2>6. \E m, n \in Matches : m # n
      BY <2>4, <2>5
    <2>7. QED
      BY <1>6, <2>6
  <1>7. CASE bus = -3
    BY <1>7
  <1>8. QED
    BY <1>1, <1>4, <1>5, <1>6, <1>7

\* An adapter that is added is listed under its own name and number, once.
LEMMA AddStep ==
  ASSUME BussesInv, Add
  PROVE  BussesInv'
  <1> array # NoArray
    BY DEF Add, BussesInv, Opened
  <1>1. /\ busPc = "gather" /\ entry \in 1..Len(dir) /\ dir[entry] # Unread
        /\ dir[entry] \in Name
        /\ heap' = heap \cup {count + 1}
        /\ entry' = entry + 1
        /\ open' \in {open, open \cup {"device"}}
        /\ UNCHANGED <<dir, arg, busPc, walked, bus>>
    <2>1. open' \in {open, open \cup {"device"}}
      BY DEF Add, OpensDevice
    <2>2. entry \in 1..Len(dir) /\ dir[entry] \in Name
      BY Places DEF Add
    <2>3. QED
      BY <2>1, <2>2 DEF Add
  <1>2. count \in 0..(entry - 1) /\ Len(dir) \in Nat
    BY Places DEF BussesInv, BussesTypeOK
  <1>3. BussesTypeOK'
    <2>1. entry' \in 1..(Len(dir) + 1) /\ count' \in 0..(entry' - 1)
      BY <1>1, <1>2, Added
    <2>2. array' \in Seq(Slot)
      BY Added
    <2>3. /\ dir' \in Directories /\ arg' \in Asked
          /\ open' \subseteq {"list", "device"}
          /\ busPc' \in {"start", "gather", "walk", "free", "end"}
          /\ bus' \in {-1, -3, -4} \cup Nat
      BY <1>1 DEF BussesInv, BussesTypeOK
    <2>4. QED
      BY <1>1, <2>1, <2>2, <2>3 DEF BussesTypeOK
  <1>4. Ended'
    BY <1>2, Added DEF Ended
  <1>5. NamesListed'
    <2>1. ASSUME NEW p \in 1..(count + 1)
          PROVE  /\ array'[p] \in (0..(entry - 1)) \X Name
                 /\ dir[array'[p][1] + 1] = array'[p][2]
                 /\ p <= count => array'[p][1] <= entry - 2
                 /\ p = count + 1 => array'[p][1] = entry - 1
      <3>1. CASE p = count + 1
        <4>1. array'[p] = <<entry - 1, dir[entry]>>
          BY <3>1, Added
        <4>2. entry - 1 \in 0..(entry - 1) /\ entry - 1 + 1 = entry
          BY <1>2, <1>1
        <4>3. QED
          BY <1>1, <1>2, <3>1, <4>1, <4>2
      <3>2. CASE p \in 1..count
        <4>1. array'[p] = array[p]
          BY <3>2, Added
        <4>2. /\ array[p][1] \in 0..(entry - 2) /\ array[p][2] \in Name
              /\ array[p] = <<array[p][1], array[p][2]>>
              /\ dir[array[p][1] + 1] = array[p][2]
          BY <3>2, Places
        <4>3. array[p][1] \in 0..(entry - 1) /\ array[p][1] <= entry - 2
          BY <1>1, <1>2, <4>2
        <4>4. p # count + 1
          BY <1>2, <3>2
        <4>5. array'[p] \in (0..(entry - 1)) \X Name
          <5>1. array'[p] = <<array[p][1], array[p][2]>> /\ array[p][2] \in Name
            BY <4>1, <4>2
          <5>2. QED
            BY <4>3, <5>1
        <4>6. QED
          BY <4>1, <4>2, <4>3, <4>4, <4>5
      <3>3. QED
        BY <1>2, <3>1, <3>2
    <2>2. ASSUME NEW p \in 1..(count + 1), NEW q \in 1..(count + 1),
                 array'[p][1] = array'[q][1]
          PROVE  p = q
      <3>1. CASE p \in 1..count /\ q \in 1..count
        BY <2>2, <3>1, Added DEF BussesInv, NamesListed
      <3>2. CASE ~(p \in 1..count /\ q \in 1..count)
        <4>1. p <= count /\ q = count + 1 => array'[p][1] # array'[q][1]
          BY <1>1, <1>2, <2>1
        <4>2. q <= count /\ p = count + 1 => array'[p][1] # array'[q][1]
          BY <1>1, <1>2, <2>1
        <4>3. QED
          BY <1>2, <2>2, <3>2, <4>1, <4>2
      <3>3. QED
        BY <3>1, <3>2
    <2>3. ASSUME NEW n \in 1..entry, dir[n] # Unread
          PROVE  \E p \in 1..(count + 1) : array'[p][1] = n - 1
      <3>1. CASE n = entry
        BY <1>2, <2>1, <3>1
      <3>2. CASE n # entry
        <4>1. n \in 1..(entry - 1)
          BY <1>1, <3>2
        <4>2. PICK p \in 1..count : array[p][1] = n - 1
          BY <2>3, <4>1 DEF BussesInv, NamesListed
        <4>3. array'[p] = array[p] /\ p \in 1..(count + 1)
          BY <1>2, Added
        <4>4. QED
          BY <4>2, <4>3
      <3>3. QED
        BY <3>1, <3>2
    <2>4. entry' - 2 = entry - 1 /\ entry' - 1 = entry /\ count' = count + 1
      BY <1>1, <1>2, Added
    <2>5. QED
      BY <1>1, <2>1, <2>2, <2>3, <2>4 DEF NamesListed
  <1>6. Allocated'
    <2>1. heap' = {Array} \cup 1..(count + 1)
      BY <1>1, <1>2 DEF BussesInv, Allocated, Array
    <2>2. QED
      BY <1>1, <2>1, Added DEF Allocated
  <1>7. Looked'
    BY <1>1 DEF BussesInv, Looked
  <1>8. Opened'
    <2>1. Len(array') # 0
      BY <1>2, Added
    <2>2. array' # NoArray
      BY <2>1 DEF NoArray
    <2>3. QED
      BY <1>1, <2>2 DEF BussesInv, Opened
  <1>9. QED
    BY <1>3, <1>4, <1>5, <1>6, <1>7, <1>8 DEF BussesInv

\* What is given back is everything that is allocated.
LEMMA GivenBack ==
  ASSUME BussesInv, busPc \in {"gather", "walk", "free"}
  PROVE  heap \ ({Array} \cup Reached) = {}
  BY Places DEF BussesInv, Allocated, Opened

\* The walk over the list finds the adapters of the name that is looked up.
LEMMA WalkStep ==
  ASSUME BussesInv, Walk
  PROVE  BussesInv'
  <1>1. /\ busPc = "walk"
        /\ busPc' \in {"walk", "free"}
        /\ UNCHANGED <<dir, entry, arg, array, open, count, heap>>
        /\ entry = Len(dir) + 1 /\ walked \in 1..(count + 1) /\ bus \in {-1} \cup Nat
    BY DEF Walk, BussesInv, Looked, BussesTypeOK
  <1> array # NoArray
    BY <1>1 DEF BussesInv, Opened
  <1>2. Ended' /\ NamesListed' /\ Opened'
    BY <1>1 DEF BussesInv, Ended, NamesListed, Opened
  <1>3. count \in Nat
    BY Places
  <1> DEFINE hits(k) == {p \in 1..(k - 1) : array[p][2] = arg}
  <1>4. /\ bus = -1 => hits(walked) = {}
        /\ bus \in Nat => \E p \in hits(walked) : hits(walked) = {p} /\ array[p][1] = bus
    BY <1>1 DEF BussesInv, Looked
  <1>5. CASE array[walked] = Empty
    <2>1. walked = count + 1
      BY <1>1, <1>5, Places
    <2>2. busPc' = "free" /\ UNCHANGED <<walked, bus>>
      BY <1>5 DEF Walk
    <2>3. Looked'
      BY <1>1, <1>4, <2>1, <2>2 DEF BussesInv, Looked
    <2>4. BussesTypeOK' /\ Allocated'
      BY <1>1, <2>2 DEF BussesInv, BussesTypeOK, Allocated
    <2>5. QED
      BY <1>2, <2>3, <2>4 DEF BussesInv
  <1>6. CASE array[walked] # Empty
    <2>1. walked \in 1..count
      BY <1>1, <1>6, Places
    <2>2. walked + 1 \in 1..(count + 1)
      BY <1>3, <2>1
    <2>3. hits(walked + 1) = hits(walked) \cup {p \in {walked} : array[p][2] = arg}
      BY <1>3, <2>1
    <2> HIDE DEF hits
    <2>4. CASE array[walked][2] # arg
      <3>1. walked' = walked + 1 /\ UNCHANGED <<busPc, bus>>
        BY <1>6, <2>4 DEF Walk
      <3>2. hits(walked + 1) = hits(walked)
        BY <2>3, <2>4
      <3>3. Looked'
        BY <1>1, <1>4, <2>2, <3>1, <3>2 DEF Looked, hits
      <3>4. BussesTypeOK' /\ Allocated'
        BY <1>1, <3>1 DEF BussesInv, BussesTypeOK, Allocated
      <3>5. QED
        BY <1>2, <3>3, <3>4 DEF BussesInv
    <2>5. CASE array[walked][2] = arg /\ bus >= 0
      <3>1. bus' = -4 /\ busPc' = "free" /\ UNCHANGED walked
        BY <1>6, <2>5 DEF Walk
      <3>2. hits(walked) # {}
        BY <1>1, <1>4, <2>5
      <3>3. Looked'
        BY <1>1, <1>3, <2>1, <2>5, <3>1, <3>2 DEF Looked, hits
      <3>4. BussesTypeOK' /\ Allocated'
        BY <1>1, <3>1 DEF BussesInv, BussesTypeOK, Allocated
      <3>5. QED
        BY <1>2, <3>3, <3>4 DEF BussesInv
    <2>6. CASE array[walked][2] = arg /\ ~(bus >= 0)
      <3>1. bus' = array[walked][1] /\ walked' = walked + 1 /\ UNCHANGED busPc
        BY <1>6, <2>6 DEF Walk
      <3>2. bus = -1 /\ hits(walked) = {}
        BY <1>1, <1>4, <2>6
      <3>3. hits(walked + 1) = {walked}
        BY <2>3, <2>6, <3>2
      <3>4. bus' \in Nat
        BY <2>1, <3>1, Places
      <3>5. Looked'
        BY <1>1, <2>2, <3>1, <3>3, <3>4 DEF Looked, hits
      <3>6. BussesTypeOK' /\ Allocated'
        BY <1>1, <3>1, <3>4 DEF BussesInv, BussesTypeOK, Allocated
      <3>7. QED
        BY <1>2, <3>5, <3>6 DEF BussesInv
    <2>7. QED
      BY <2>4, <2>5, <2>6
  <1>7. QED
    BY <1>5, <1>6

\* The list's invariant holds before anything is allocated.
LEMMA BussesStart ==
  ASSUME BussesInit
  PROVE  BussesInv /\ LookupTells
  <1>1. dir \in Directories /\ arg \in Asked
    BY DEF BussesInit
  <1>2. Len(dir) \in Nat
    BY <1>1, DirectoryFacts
  <1>3. BussesTypeOK
    BY <1>1, <1>2, EmptySeq DEF BussesInit, BussesTypeOK, NoArray
  <1>4. Ended /\ Opened
    BY DEF BussesInit, Ended, Opened
  <1>5. NamesListed /\ Allocated /\ Looked
    BY DEF BussesInit, NamesListed, Allocated, Looked
  <1>6. LookupTells
    BY DEF BussesInit, LookupTells
  <1>7. QED
    BY <1>3, <1>4, <1>5, <1>6 DEF BussesInv

\* The first bunch has no names.
LEMMA AllocateStep ==
  ASSUME BussesInv, Allocate
  PROVE  BussesInv'
  <1>1. /\ Bunch \in Nat \ {0, 1}
        /\ busPc = "start" /\ busPc' = "gather" /\ entry = 1 /\ count = 0
        /\ array' = [p \in 1..Bunch |-> Empty]
        /\ heap' = {Array} /\ open' = {"list"}
        /\ UNCHANGED <<dir, entry, arg, count, walked, bus>>
    BY BussesAssumption DEF Allocate, BussesInv, Looked
  <1>2. /\ array' \in Seq(Slot) /\ Len(array') = Bunch
        /\ \A p \in 1..Bunch : array'[p] = Empty
    BY <1>1, SeqDef DEF Slot
  <1>3. Len(array') % Bunch = 0 /\ array' # NoArray
    BY <1>1, <1>2 DEF NoArray
  <1>4. BussesTypeOK'
    BY <1>1, <1>2 DEF BussesInv, BussesTypeOK
  <1>5. Ended'
    BY <1>1, <1>2, <1>3 DEF Ended
  <1>6. NamesListed' /\ Allocated' /\ Looked' /\ Opened'
    BY <1>1, <1>3 DEF BussesInv, NamesListed, Allocated, Looked, Opened
  <1>7. QED
    BY <1>4, <1>5, <1>6 DEF BussesInv

\* Every step keeps it.
LEMMA BussesStep ==
  ASSUME BussesInv, LookupTells, [BussesNext]_bussesVars
  PROVE  BussesInv' /\ LookupTells'
  <1>1. ASSUME busPc' # "end"
        PROVE  LookupTells'
    BY <1>1 DEF LookupTells
  <1>2. ASSUME UNCHANGED <<dir, array, arg>>
        PROVE  Matches' = Matches
    BY <1>2 DEF Matches
  <1>3. CASE Skip
    <2> array # NoArray
      BY <1>3 DEF Skip, BussesInv, Opened
    <2>1. /\ busPc = "gather" /\ entry \in 1..Len(dir) /\ dir[entry] = Unread
          /\ entry' = entry + 1 /\ entry \in Nat /\ count \in 0..(entry - 1)
          /\ open' \in {open, open \cup {"device"}}
          /\ UNCHANGED <<dir, arg, array, count, heap, busPc, walked, bus>>
      <3>1. open' \in {open, open \cup {"device"}}
        BY <1>3 DEF Skip, OpensDevice
      <3>2. entry \in 1..Len(dir) /\ entry \in Nat
        BY <1>3, Places DEF Skip
      <3>3. QED
        BY <1>3, <3>1, <3>2 DEF Skip, BussesInv, BussesTypeOK
    <2>2. entry' \in 1..(Len(dir) + 1) /\ count \in 0..(entry' - 1)
      BY <2>1, Places
    <2>3. BussesTypeOK'
      BY <2>1, <2>2 DEF BussesInv, BussesTypeOK
    <2>4. NamesListed'
      <3>1. \A p \in 1..count : array[p] \in (0..(entry' - 2)) \X Name
        <4>1. TAKE p \in 1..count
        <4>2. /\ array[p] = <<array[p][1], array[p][2]>> /\ array[p][2] \in Name
              /\ array[p][1] \in 0..(entry - 2)
          BY Places
        <4>3. array[p][1] \in 0..(entry' - 2)
          BY <2>1, <4>2
        <4>4. QED
          BY <4>2, <4>3
      <3>2. \A n \in 1..(entry' - 1) :
              dir[n] # Unread => \E p \in 1..count : array[p][1] = n - 1
        <4>1. TAKE n \in 1..(entry' - 1)
        <4>2. dir[n] # Unread => n \in 1..(entry - 1)
          BY <2>1
        <4>3. QED
          BY <4>2 DEF BussesInv, NamesListed
      <3>3. QED
        BY <2>1, <3>1, <3>2 DEF BussesInv, NamesListed
    <2>5. Ended' /\ Allocated' /\ Opened' /\ Looked'
      BY <2>1 DEF BussesInv, Ended, Allocated, Opened, Looked
    <2>6. QED
      BY <1>1, <2>1, <2>3, <2>4, <2>5 DEF BussesInv
  <1>4. CASE Add
    BY <1>1, <1>4, AddStep DEF Add
  <1>5. CASE NoMemory
    <2>1. /\ busPc = "gather" /\ busPc' = "end" /\ bus' = -3
          /\ heap' = heap \ ({Array} \cup Reached)
          /\ open' \in {open, open \cup {"device"}}
          /\ UNCHANGED <<dir, entry, arg, array, count, walked>>
      BY <1>5 DEF NoMemory, OpensDevice
    <2>2. heap' = {}
      BY <2>1, GivenBack
    <2>3. BussesTypeOK' /\ Ended' /\ NamesListed' /\ Opened'
      BY <2>1 DEF BussesInv, BussesTypeOK, Ended, NamesListed, Opened
    <2>4. Allocated' /\ Looked' /\ LookupTells'
      BY <2>1, <2>2 DEF Allocated, Looked, LookupTells
    <2>5. QED
      BY <2>3, <2>4 DEF BussesInv
  <1>6. CASE Gathered
    <2>1. /\ busPc = "gather" /\ busPc' = "walk" /\ entry > Len(dir)
          /\ open' = open \ {"list"}
          /\ UNCHANGED <<dir, entry, arg, array, count, heap, walked, bus>>
      BY <1>6 DEF Gathered
    <2> array # NoArray
      BY <2>1 DEF BussesInv, Opened
    <2>2. walked = 1 /\ bus = -1
      BY <2>1 DEF BussesInv, Looked
    <2>3. entry = Len(dir) + 1 /\ count \in Nat
      BY <2>1, Places DEF BussesInv, BussesTypeOK
    <2>4. BussesTypeOK' /\ Ended' /\ NamesListed' /\ Allocated' /\ Opened'
      BY <2>1 DEF BussesInv, BussesTypeOK, Ended, NamesListed, Allocated, Opened
    <2>5. Looked'
      BY <2>1, <2>2, <2>3 DEF Looked
    <2>6. QED
      BY <1>1, <2>1, <2>4, <2>5 DEF BussesInv
  <1>7. CASE Walk
    <2>1. busPc' # "end"
      BY <1>7 DEF Walk
    <2>2. QED
      BY <1>1, <1>7, <2>1, WalkStep
  <1>8. CASE Free
    <2>1. /\ busPc = "free" /\ busPc' = "end"
          /\ heap' = heap \ ({Array} \cup Reached)
          /\ UNCHANGED <<dir, entry, arg, array, open, count, walked, bus>>
      BY <1>8 DEF Free
    <2>2. heap' = {}
      BY <2>1, GivenBack
    <2> bus # -3
      BY <2>1 DEF BussesInv, BussesTypeOK, Looked
    <2>3. BussesTypeOK' /\ Ended' /\ NamesListed' /\ Opened'
      BY <2>1 DEF BussesInv, BussesTypeOK, Ended, NamesListed, Opened
    <2>4. Allocated' /\ Looked'
      BY <2>1, <2>2 DEF Allocated, Looked
    <2>5. LookupTells'
      BY <1>2, <2>1, Told DEF LookupTells
    <2>6. QED
      BY <2>3, <2>4, <2>5 DEF BussesInv
  <1>9. CASE UNCHANGED bussesVars
    <2>1. BussesTypeOK' /\ Ended' /\ NamesListed'
      BY <1>9 DEF bussesVars, BussesInv, BussesTypeOK, Ended, NamesListed
    <2>2. Allocated' /\ Looked' /\ Opened'
      BY <1>9 DEF bussesVars, BussesInv, Allocated, Looked, Opened
    <2>3. LookupTells'
      BY <1>9 DEF bussesVars, LookupTells, Matches
    <2>4. QED
      BY <2>1, <2>2, <2>3 DEF BussesInv
  <1>10. CASE Allocate
    BY <1>1, <1>10, AllocateStep DEF Allocate
  <1>11. CASE NoBunch
    <2>1. /\ busPc = "start" /\ busPc' = "end" /\ bus' = -3
          /\ UNCHANGED <<dir, entry, arg, array, open, count, heap, walked>>
      BY <1>11 DEF NoBunch
    <2>2. BussesTypeOK' /\ Ended' /\ NamesListed'
      BY <2>1 DEF BussesInv, BussesTypeOK, Ended, NamesListed
    <2>3. Allocated' /\ Opened' /\ Looked' /\ LookupTells'
      BY <2>1 DEF BussesInv, Allocated, Opened, Looked, LookupTells
    <2>4. QED
      BY <2>2, <2>3 DEF BussesInv
  <1>12. QED
    BY <1>3, <1>4, <1>5, <1>6, <1>7, <1>8, <1>9, <1>10, <1>11 DEF BussesNext

\* However many adapters there are, and whichever allocation fails, no entry is
\* written behind the array, and the array ends with an entry without a name.
THEOREM BussesCorrect == BussesSpec => []BussesInv
  <1>1. QED
    BY BussesStart, BussesStep, PTL DEF BussesSpec

\* A number is returned only for a name that one adapter alone has.
THEOREM BussesLookup == BussesSpec => []LookupTells
  <1>1. QED
    BY BussesStart, BussesStep, PTL DEF BussesSpec

\* Whichever allocation fails no memory is left, and the stream that is read is
\* left open exactly if an allocation fails while it is read.
THEOREM BussesLeftovers == BussesSpec => []Leftovers
  <1>1. BussesInv => Leftovers
    BY DEF BussesInv, Allocated, Opened, Leftovers
  <1>2. QED
    BY <1>1, BussesCorrect, PTL

=============================================================================
