------------------------------ MODULE BmcProofs ------------------------------
(***************************************************************************)
(* Proofs about the BMC.  What a call has prepared in the iLPC2AHB device  *)
(* is never disturbed, and every call is one access to the memory, for     *)
(* every set of processes, words, values and calls that AhbAssumption and  *)
(* BridgeAssumption admit; a reading of a sensor is fresh and near its     *)
(* value, for all sensors, tests and values of the registers that          *)
(* BmcAssumption admits.                                                   *)
(***************************************************************************)
EXTENDS Ilpc2ahb, BmcSensors, TLAPS

-----------------------------------------------------------------------------
(* The accesses of a call. *)

\* What the assumptions say of a call.
LEMMA CallFacts ==
  ASSUME NEW c \in Call
  PROVE  /\ c.op \in {"read", "readl", "write", "writel"}
         /\ c.addr \in Nat /\ c.addr \div 256^3 < 256
         /\ Base(c.addr) \in Nat /\ Base(c.addr) \in Word /\ Base(c.addr) \div 256^3 < 256
         /\ c.addr % 4 \in Byte4
         /\ c.op \in {"readl", "writel"} => c.addr % 4 = 0 /\ Base(c.addr) = c.addr
         /\ c.op = "write" => c.bytes[1] \in Val
         /\ c.op = "writel" => \A i \in 1..4 : c.bytes[i] \in Val
  <1>1. /\ c.op \in {"read", "readl", "write", "writel"}
        /\ c.addr \in Nat
        /\ (c.addr - (c.addr % 4)) \in Word
        /\ c.op \in {"readl", "writel"} => c.addr % 4 = 0
    BY AhbAssumption
  <1>2. c.addr \div 256^3 < 256
    BY BridgeAssumption
  <1>3. c.op = "write" => c.bytes[1] \in Val
    <2>1. c.op = "write" => c.bytes \in Seq(Val) /\ Len(c.bytes) = 1
      BY AhbAssumption
    <2>2. QED
      BY <2>1
  <1>4. c.op = "writel" => \A i \in 1..4 : c.bytes[i] \in Val
    <2>1. c.op = "writel" => c.bytes \in Seq(Val) /\ Len(c.bytes) = 4
      BY AhbAssumption
    <2>2. QED
      BY <2>1
  <1>5. 256^3 = 16777216
    OBVIOUS
  <1>6. /\ c.addr % 4 \in Byte4
        /\ Base(c.addr) \in Nat /\ Base(c.addr) <= c.addr
        /\ c.addr % 4 = 0 => Base(c.addr) = c.addr
    BY <1>1 DEF Base, Byte4
  <1>7. Base(c.addr) \div 256^3 < 256
    <2>1. \A a, b \in Nat : a <= b /\ b \div 16777216 < 256 => a \div 16777216 < 256
      OBVIOUS
    <2>2. QED
      BY <1>1, <1>2, <1>5, <1>6, <2>1
  <1>8. QED
    BY <1>1, <1>2, <1>3, <1>4, <1>6, <1>7 DEF Base

\* What each access of a call is, by its place: the enable, the length, the
\* address, and then the trigger and the data.
LEMMA AccessFacts ==
  ASSUME NEW c \in Call
  PROVE  /\ DOMAIN Program[c] = 1..(IF Width(c) = 0 THEN 8 ELSE 11)
         /\ Len(Program[c]) = IF Width(c) = 0 THEN 8 ELSE 11
         /\ \A i \in DOMAIN Program[c] :
              Program[c][i] = IF i < 7 THEN Setup(c, i) ELSE Use(c, i)
  <1>1. Program[c] = [i \in 1..(IF Width(c) = 0 THEN 8 ELSE 11) |->
                        IF i < 7 THEN Setup(c, i) ELSE Use(c, i)]
    BY DEF Program, Accesses
  <1>2. \E n \in {8, 11} : /\ n = IF Width(c) = 0 THEN 8 ELSE 11
                           /\ Program[c] = [i \in 1..n |-> IF i < 7 THEN Setup(c, i) ELSE Use(c, i)]
    BY <1>1
  <1>3. PICK n \in {8, 11} : /\ n = IF Width(c) = 0 THEN 8 ELSE 11
                             /\ Program[c] = [i \in 1..n |-> IF i < 7 THEN Setup(c, i) ELSE Use(c, i)]
    BY <1>2
  <1>4. n \in Nat
    BY <1>3
  <1>5. Len(Program[c]) = n /\ DOMAIN Program[c] = 1..n
    BY <1>3, <1>4
  <1>6. \A i \in 1..n : Program[c][i] = IF i < 7 THEN Setup(c, i) ELSE Use(c, i)
    BY <1>3
  <1>7. QED
    BY <1>3, <1>5, <1>6

\* The same, by the kind of the access.
LEMMA KindFacts ==
  ASSUME NEW c \in Call, NEW i \in DOMAIN Program[c]
  PROVE  LET a == Program[c][i]
         IN /\ i \in 1..11
            /\ a[1] = "enable" => i = 1
            /\ a[1] = "len" => i = 2 /\ a[2] = Width(c)
            /\ a[1] = "put" =>
                 \/ i \in 3..6 /\ a[2] = i - 3 /\ a[3] = AddrByte(Aim(c), i - 3)
                 \/ c.op = "write" /\ i = 7 /\ a[2] = 7 /\ a[3] = c.bytes[1]
                 \/ c.op = "writel" /\ i \in 7..10 /\ a[2] = i - 3 /\ a[3] = c.bytes[11 - i]
            /\ a[1] = "fetch" => Reads(c) /\ i = 7
            /\ a[1] = "get" =>
                 \/ c.op = "read" /\ i = 8 /\ a[2] = 7 - (c.addr % 4)
                 \/ c.op = "readl" /\ i \in 8..11 /\ a[2] = 15 - i
            /\ a[1] = "store" =>
                 \/ c.op = "write" /\ i = 8
                 \/ c.op = "writel" /\ i = 11
            /\ a[1] \in {"enable", "len", "put", "fetch", "get", "store"}
  <1> DEFINE a == Program[c][i]
  <1>1. c.op \in {"read", "readl", "write", "writel"}
    BY CallFacts
  <1>2. /\ i \in 1..(IF Width(c) = 0 THEN 8 ELSE 11)
        /\ a = IF i < 7 THEN Setup(c, i) ELSE Use(c, i)
    BY AccessFacts
  <1> HIDE DEF a
  <1>3. CASE i < 7
    <2>1. a = Setup(c, i) /\ i \in {1, 2, 3, 4, 5, 6}
      BY <1>2, <1>3
    <2>2. \/ i = 1 /\ a = <<"enable">>
          \/ i = 2 /\ a = <<"len", Width(c)>>
          \/ i \in 3..6 /\ a = <<"put", i - 3, AddrByte(Aim(c), i - 3)>>
      BY <2>1 DEF Setup
    <2>3. QED
      BY <2>2 DEF a
  <1>4. CASE ~(i < 7) /\ c.op = "read"
    <2>1. i \in {7, 8} /\ a = Use(c, i)
      BY <1>2, <1>4 DEF Width
    <2>2. \/ i = 7 /\ a = <<"fetch">>
          \/ i = 8 /\ a = <<"get", 7 - (c.addr % 4)>>
      BY <1>4, <2>1 DEF Use
    <2>3. QED
      BY <1>4, <2>2 DEF a, Reads
  <1>5. CASE ~(i < 7) /\ c.op = "readl"
    <2>1. i \in 7..11 /\ a = Use(c, i)
      BY <1>2, <1>5 DEF Width
    <2>2. \/ i = 7 /\ a = <<"fetch">>
          \/ i \in 8..11 /\ a = <<"get", 15 - i>>
      BY <1>5, <2>1 DEF Use
    <2>3. QED
      BY <1>5, <2>2 DEF a, Reads
  <1>6. CASE ~(i < 7) /\ c.op = "write"
    <2>1. i \in {7, 8} /\ a = Use(c, i)
      BY <1>2, <1>6 DEF Width
    <2>2. \/ i = 7 /\ a = <<"put", 7, c.bytes[1]>>
          \/ i = 8 /\ a = <<"store">>
      BY <1>6, <2>1 DEF Use
    <2>3. QED
      BY <1>6, <2>2 DEF a
  <1>7. CASE ~(i < 7) /\ c.op = "writel"
    <2>1. i \in 7..11 /\ a = Use(c, i)
      BY <1>2, <1>7 DEF Width
    <2>2. \/ i \in 7..10 /\ a = <<"put", i - 3, c.bytes[11 - i]>>
          \/ i = 11 /\ a = <<"store">>
      BY <1>7, <2>1 DEF Use
    <2>3. QED
      BY <1>7, <2>2 DEF a
  <1>8. QED
    BY <1>1, <1>3, <1>4, <1>5, <1>6, <1>7

\* The converse that the proofs use: what a call has written once it is past
\* an access.
LEMMA WrittenFacts ==
  ASSUME NEW c \in Call
  PROVE  /\ Program[c][1] = <<"enable">>
         /\ Program[c][2] = <<"len", Width(c)>>
         /\ \A j \in 0..3 : Program[c][j + 3] = <<"put", j, AddrByte(Aim(c), j)>>
         /\ c.op = "write" => Program[c][7] = <<"put", 7, c.bytes[1]>>
         /\ c.op = "writel" => \A j \in 4..7 : Program[c][j + 3] = <<"put", j, c.bytes[8 - j]>>
  <1>1. 1..8 \subseteq DOMAIN Program[c] /\ (Width(c) # 0 => 9..11 \subseteq DOMAIN Program[c])
    BY AccessFacts
  <1>2. \A i \in DOMAIN Program[c] : Program[c][i] = IF i < 7 THEN Setup(c, i) ELSE Use(c, i)
    BY AccessFacts
  <1>3. Program[c][1] = <<"enable">> /\ Program[c][2] = <<"len", Width(c)>>
    <2>1. Program[c][1] = Setup(c, 1) /\ Program[c][2] = Setup(c, 2)
      BY <1>1, <1>2
    <2>2. QED
      BY <2>1 DEF Setup
  <1>4. ASSUME NEW j \in 0..3
        PROVE  Program[c][j + 3] = <<"put", j, AddrByte(Aim(c), j)>>
    <2>1. Program[c][j + 3] = Setup(c, j + 3) /\ j + 3 \in 3..6 /\ j + 3 - 3 = j
      BY <1>1, <1>2
    <2>2. Setup(c, j + 3) = <<"put", j + 3 - 3, AddrByte(Aim(c), j + 3 - 3)>>
      BY <2>1 DEF Setup
    <2>3. QED
      BY <2>1, <2>2
  <1>5. c.op = "write" => Program[c][7] = <<"put", 7, c.bytes[1]>>
    BY <1>1, <1>2 DEF Use
  <1>6. ASSUME c.op = "writel", NEW j \in 4..7
        PROVE  Program[c][j + 3] = <<"put", j, c.bytes[8 - j]>>
    <2>1. /\ Program[c][j + 3] = Use(c, j + 3)
          /\ j + 3 # 11 /\ j + 3 - 3 = j /\ 11 - (j + 3) = 8 - j
      BY <1>1, <1>2, <1>6 DEF Width
    <2>2. Use(c, j + 3) = <<"put", j + 3 - 3, c.bytes[11 - (j + 3)]>>
      BY <2>1, <1>6 DEF Use
    <2>3. QED
      BY <2>1, <2>2
  <1>7. QED
    BY <1>3, <1>4, <1>5, <1>6

\* Four bytes written to F0h..F3h are the address again.
LEMMA AddrIs ==
  ASSUME NEW a \in Nat, a \div 256^3 < 256,
         \A j \in 0..3 : f[j] = AddrByte(a, j)
  PROVE  Addr = a
  <1>1. 256^3 = 16777216 /\ 256^2 = 65536 /\ 256^1 = 256 /\ 256^0 = 1
    OBVIOUS
  <1>2. /\ f[0] = (a \div 16777216) % 256 /\ f[1] = (a \div 65536) % 256
        /\ f[2] = (a \div 256) % 256 /\ f[3] = (a \div 1) % 256
    <2>1. /\ AddrByte(a, 0) = (a \div 16777216) % 256 /\ AddrByte(a, 1) = (a \div 65536) % 256
          /\ AddrByte(a, 2) = (a \div 256) % 256 /\ AddrByte(a, 3) = (a \div 1) % 256
      BY <1>1 DEF AddrByte
    <2>2. f[0] = AddrByte(a, 0) /\ f[1] = AddrByte(a, 1) /\ f[2] = AddrByte(a, 2) /\ f[3] = AddrByte(a, 3)
      OBVIOUS
    <2>3. QED
      BY <2>1, <2>2
  <1>3. Addr = f[0] * 16777216 + f[1] * 65536 + f[2] * 256 + f[3] * 1
    <2>1. Addr = f[0] * 256^(3 - 0) + f[1] * 256^(3 - 1) + f[2] * 256^(3 - 2) + f[3] * 256^(3 - 3)
      BY DEF Addr
    <2>2. 256^(3 - 0) = 16777216 /\ 256^(3 - 1) = 65536 /\ 256^(3 - 2) = 256 /\ 256^(3 - 3) = 1
      OBVIOUS
    <2>3. QED
      BY <2>1, <2>2
  <1>4. a = 256 * (a \div 256) + (a % 256) /\ a \div 256 \in Nat /\ a \div 1 = a
    OBVIOUS
  <1>5. \A b \in Nat : b = 256 * (b \div 256) + (b % 256) /\ b \div 256 \in Nat
    OBVIOUS
  <1>6. a \div 65536 = (a \div 256) \div 256 /\ a \div 65536 \in Nat
    OBVIOUS
  <1>7. a \div 16777216 = (a \div 65536) \div 256 /\ a \div 16777216 \in Nat
    OBVIOUS
  <1>8. (a \div 16777216) % 256 = a \div 16777216
    BY <1>1, <1>7
  <1>9. a \div 256 = 256 * (a \div 65536) + ((a \div 256) % 256)
    BY <1>4, <1>5, <1>6
  <1>10. a \div 65536 = 256 * (a \div 16777216) + ((a \div 65536) % 256)
    BY <1>5, <1>6, <1>7
  <1>11. QED
    <2> DEFINE A == a \div 16777216
               B == a \div 65536
               C == a \div 256
               b == B % 256
               d == C % 256
               e == a % 256
    <2>1. A \in Nat /\ B \in Nat /\ C \in Nat /\ b \in Nat /\ d \in Nat /\ e \in Nat
      BY <1>4, <1>6, <1>7
    <2>2. B = 256 * A + b /\ C = 256 * B + d /\ a = 256 * C + e
      BY <1>4, <1>9, <1>10
    <2>3. Addr = A * 16777216 + b * 65536 + d * 256 + e * 1
      BY <1>2, <1>3, <1>4, <1>8
    <2> HIDE DEF A, B, C, b, d, e
    <2>4. QED
      BY <2>1, <2>2, <2>3

-----------------------------------------------------------------------------
(* The inductive invariant. *)

\* A step of a call: only this process is busy, and the call goes on or is over.
LEMMA StepFacts ==
  ASSUME IInv, NEW p \in Proc, Step(p)
  PROVE  /\ call[p] \in Call /\ pos[p] \in DOMAIN Program[call[p]] /\ Busy(p)
         /\ \A q \in Proc : Busy(q)' => /\ q = p /\ pos[p] < Len(Program[call[p]])
                                        /\ pos'[p] = pos[p] + 1
         /\ call' = call
         /\ call' \in [Proc -> Call] /\ at' \in [Proc -> {"idle", "asked"}]
         /\ DOMAIN pos' = Proc
         /\ \A q \in Proc : pos'[q] \in DOMAIN Program[call'[q]]
         /\ OneCall'
  <1> DEFINE n == Len(Program[call[p]])
  <1>1. call[p] \in Call /\ pos[p] \in DOMAIN Program[call[p]] /\ Busy(p) /\ call' = call
    BY DEF IInv, TypeOK, Step
  <1>2. \A q \in Proc : Busy(q) => q = p
    BY <1>1 DEF IInv, OneCall
  <1>3. \A c \in Call : DOMAIN Program[c] = 1..Len(Program[c]) /\ Len(Program[c]) \in {8, 11}
    BY AccessFacts
  <1>4. pos[p] \in 1..n /\ n \in {8, 11}
    BY <1>1, <1>3
  <1>5. /\ at \in [Proc -> {"idle", "asked"}] /\ DOMAIN pos = Proc /\ call \in [Proc -> Call]
        /\ \A q \in Proc : pos[q] \in DOMAIN Program[call[q]]
    BY DEF IInv, TypeOK
  <1>6. CASE pos[p] < n
    <2>1. at' = at /\ pos' = [pos EXCEPT ![p] = @ + 1]
      BY <1>6 DEF Step
    <2>2. pos[p] + 1 \in DOMAIN Program[call[p]]
      BY <1>1, <1>3, <1>4, <1>6
    <2>3. \A q \in Proc : pos'[q] = IF q = p THEN pos[p] + 1 ELSE pos[q]
      BY <1>5, <2>1
    <2>4. \A q \in Proc : Busy(q)' <=> Busy(q)
      BY <2>1 DEF Busy
    <2>5. OneCall'
      BY <1>2, <2>4 DEF OneCall
    <2>6. QED
      BY <1>1, <1>2, <1>5, <1>6, <2>1, <2>2, <2>3, <2>4, <2>5
  <1>7. CASE ~(pos[p] < n)
    <2>1. at' = [at EXCEPT ![p] = "idle"] /\ pos' = [pos EXCEPT ![p] = 1]
      BY <1>7 DEF Step
    <2>2. 1 \in DOMAIN Program[call[p]]
      BY <1>1, <1>3, <1>4
    <2>3. \A q \in Proc : pos'[q] = IF q = p THEN 1 ELSE pos[q]
      BY <1>5, <2>1
    <2>4. \A q \in Proc : ~Busy(q)'
      BY <1>2, <1>5, <2>1 DEF Busy
    <2>5. OneCall'
      BY <2>4 DEF OneCall
    <2>6. at' \in [Proc -> {"idle", "asked"}] /\ DOMAIN pos' = Proc
      BY <1>5, <2>1
    <2>7. QED
      BY <1>1, <1>5, <2>2, <2>3, <2>4, <2>5, <2>6
  <1>8. QED
    BY <1>6, <1>7

\* What a step has to leave in place: the earlier accesses and its own.
LEMMA PreparedStep ==
  ASSUME IInv, NEW p \in Proc, Step(p),
         \A i \in 1..pos[p] : InPlace(Program[call[p]][i])'
  PROVE  Prepared'
  <1>1. /\ call' = call
        /\ \A q \in Proc : Busy(q)' => q = p /\ pos'[p] = pos[p] + 1
    BY StepFacts
  <1>2. pos[p] \in Nat
    <2>1. call[p] \in Call /\ pos[p] \in DOMAIN Program[call[p]]
      BY StepFacts
    <2>2. DOMAIN Program[call[p]] = 1..Len(Program[call[p]])
      BY <2>1, AccessFacts
    <2>3. QED
      BY <2>1, AccessFacts
  <1>3. ASSUME NEW q \in Proc, Busy(q)', NEW i \in 1..(pos'[q] - 1)
        PROVE  InPlace(Program[call[q]][i])'
    <2>1. q = p /\ pos'[p] = pos[p] + 1
      BY <1>1, <1>3
    <2>2. i \in 1..pos[p]
      BY <1>2, <1>3, <2>1
    <2>3. QED
      BY <2>1, <2>2
  <1>4. QED
    BY <1>1, <1>3 DEF Prepared

\* Everything the call has done before is in place, by the kind of access.
LEMMA BusyFacts ==
  ASSUME IInv, NEW p \in Proc, Busy(p)
  PROVE  /\ call[p] \in Call /\ pos[p] \in DOMAIN Program[call[p]]
         /\ DOMAIN Program[call[p]] = 1..Len(Program[call[p]])
         /\ Len(Program[call[p]]) = IF Width(call[p]) = 0 THEN 8 ELSE 11
         /\ pos[p] \in 1..11
         /\ \A i \in 1..(pos[p] - 1) : i \in DOMAIN Program[call[p]] /\ InPlace(Program[call[p]][i])
  <1>1. call[p] \in Call /\ pos[p] \in DOMAIN Program[call[p]]
    BY DEF IInv, TypeOK
  <1>2. /\ DOMAIN Program[call[p]] = 1..Len(Program[call[p]])
        /\ Len(Program[call[p]]) = IF Width(call[p]) = 0 THEN 8 ELSE 11
    BY <1>1, AccessFacts
  <1>3. \A i \in 1..(pos[p] - 1) : InPlace(Program[call[p]][i])
    BY DEF IInv, Prepared
  <1>4. pos[p] \in 1..11 /\ \A i \in 1..(pos[p] - 1) : i \in DOMAIN Program[call[p]]
    BY <1>1, <1>2
  <1>5. QED
    BY <1>1, <1>2, <1>3, <1>4

\* The bytes collected so far, and one more.
LEMMA OneMore ==
  ASSUME NEW n \in Nat
  PROVE  Append([b \in 1..n |-> f[8 - b]], f[7 - n]) = [b \in 1..(n + 1) |-> f[8 - b]]
  <1> DEFINE s == [b \in 1..n |-> f[8 - b]]
             t == [b \in 1..(n + 1) |-> f[8 - b]]
  <1>1. Len(s) = n /\ \A b \in 1..n : s[b] = f[8 - b]
    OBVIOUS
  <1>2. \A b \in 1..(n + 1) : t[b] = f[8 - b]
    OBVIOUS
  <1>3. DOMAIN t = 1..(n + 1)
    OBVIOUS
  <1>4. Append(s, f[7 - n]) = [b \in 1..(Len(s) + 1) |-> IF b <= Len(s) THEN s[b] ELSE f[7 - n]]
    OBVIOUS
  <1>5. Append(s, f[7 - n]) = [b \in 1..(n + 1) |-> IF b <= n THEN s[b] ELSE f[7 - n]]
    BY <1>1, <1>4
  <1>6. \A b \in 1..(n + 1) : (IF b <= n THEN s[b] ELSE f[7 - n]) = f[8 - b]
    <2>1. \A b \in 1..(n + 1) : ~(b <= n) => 8 - b = 7 - n
      OBVIOUS
    <2>2. \A b \in 1..(n + 1) : b <= n => b \in 1..n
      OBVIOUS
    <2> HIDE DEF s
    <2>3. QED
      BY <1>1, <2>1, <2>2
  <1>7. QED
    BY <1>5, <1>6

\* The registers are as an earlier run left them, and nobody is busy.
LEMMA InitIInv == BridgeInit => IInv
  <1> SUFFICES ASSUME BridgeInit PROVE IInv
    OBVIOUS
  <1>1. PICK r \in Regs0 : f = r.f /\ len = r.len /\ on = r.on
    BY DEF BridgeInit
  <1>2. f \in Regs /\ len \in {0, 2} /\ on \in BOOLEAN
    BY <1>1, BridgeAssumption
  <1>3. /\ mem \in [Word -> [Byte4 -> Val]] /\ call \in [Proc -> Call]
        /\ at = [p \in Proc |-> "idle"] /\ DOMAIN res = Proc /\ pos = [p \in Proc |-> 1]
    BY AhbAssumption DEF BridgeInit, Init
  <1>4. \A p \in Proc : ~Busy(p)
    BY <1>3 DEF Busy
  <1>5. \A p \in Proc : pos[p] \in DOMAIN Program[call[p]]
    <2>1. \A p \in Proc : pos[p] = 1 /\ call[p] \in Call
      BY <1>3
    <2>2. \A c \in Call : 1 \in DOMAIN Program[c]
      BY AccessFacts
    <2>3. QED
      BY <2>1, <2>2
  <1>6. TypeOK
    <2>1. at \in [Proc -> {"idle", "asked"}] /\ DOMAIN pos = Proc
      BY <1>3
    <2>2. QED
      BY <1>2, <1>3, <1>5, <2>1 DEF TypeOK
  <1>7. QED
    BY <1>4, <1>6 DEF IInv, OneCall, Prepared, Collected

\* One preservation lemma per action.  A call that begins has written nothing.
LEMMA BeginIInv ==
  ASSUME IInv, NEW p \in Proc, Begin(p)
  PROVE  IInv'
  <1>1. PICK c \in Call : call' = [call EXCEPT ![p] = c]
    BY DEF Begin, Ask
  <1>2. /\ at' = [at EXCEPT ![p] = "asked"] /\ res' = [res EXCEPT ![p] = <<>>]
        /\ pos' = [pos EXCEPT ![p] = 1] /\ UNCHANGED <<mem, f, len, on>>
        /\ \A q \in Proc : at[q] = "idle"
    BY DEF Begin, Ask, Busy
  <1>3. \A q \in Proc : Busy(q)' => q = p
    BY <1>2 DEF IInv, TypeOK, Busy
  <1>4. pos'[p] = 1 /\ call'[p] = c /\ res'[p] = <<>>
    BY <1>1, <1>2 DEF IInv, TypeOK
  <1>5. TypeOK'
    <2>1. /\ call' \in [Proc -> Call] /\ at' \in [Proc -> {"idle", "asked"}]
          /\ DOMAIN res' = Proc /\ DOMAIN pos' = Proc
      BY <1>1, <1>2 DEF IInv, TypeOK
    <2>2. \A q \in Proc : pos'[q] \in DOMAIN Program[call'[q]]
      <3>1. 1 \in DOMAIN Program[c]
        BY AccessFacts
      <3>2. \A q \in Proc : q # p => pos'[q] = pos[q] /\ call'[q] = call[q]
        BY <1>1, <1>2 DEF IInv, TypeOK
      <3>3. QED
        BY <1>4, <3>1, <3>2 DEF IInv, TypeOK
    <2>3. QED
      BY <1>2, <2>1, <2>2 DEF IInv, TypeOK
  <1>6. Prepared' /\ Collected' /\ OneCall'
    BY <1>3, <1>4 DEF Prepared, Collected, OneCall
  <1>7. QED
    BY <1>5, <1>6 DEF IInv

\* After a signal nobody is busy.
LEMMA KillIInv ==
  ASSUME IInv, NEW p \in Proc, Kill(p)
  PROVE  IInv'
  <1>1. /\ at' = [at EXCEPT ![p] = "idle"] /\ pos' = [pos EXCEPT ![p] = 1]
        /\ res' = [res EXCEPT ![p] = <<>>] /\ UNCHANGED <<mem, call, f, len, on>> /\ Busy(p)
    BY DEF Kill
  <1>2. \A q \in Proc : ~Busy(q)'
    BY <1>1 DEF IInv, TypeOK, OneCall, Busy
  <1>3. TypeOK'
    <2>1. \A q \in Proc : 1 \in DOMAIN Program[call[q]]
      <3>1. \A q \in Proc : call[q] \in Call
        BY DEF IInv, TypeOK
      <3>2. \A c \in Call : 1 \in DOMAIN Program[c]
        BY AccessFacts
      <3>3. QED
        BY <3>1, <3>2
    <2>2. at' \in [Proc -> {"idle", "asked"}] /\ DOMAIN res' = Proc /\ DOMAIN pos' = Proc
      BY <1>1 DEF IInv, TypeOK
    <2>3. \A q \in Proc : pos'[q] \in DOMAIN Program[call'[q]]
      BY <1>1, <2>1 DEF IInv, TypeOK
    <2>4. QED
      BY <1>1, <2>2, <2>3 DEF IInv, TypeOK
  <1>4. QED
    BY <1>2, <1>3 DEF IInv, OneCall, Prepared, Collected

\* The BMC changes its own bytes only.
LEMMA BmcIInv ==
  ASSUME IInv, BmcStep
  PROVE  IInv'
  <1>1. PICK o \in Own : \E v \in Val : mem' = [mem EXCEPT ![o[1]][o[2]] = v]
    BY DEF BmcStep, Bmc
  <1>2. PICK v \in Val : mem' = [mem EXCEPT ![o[1]][o[2]] = v]
    BY <1>1
  <1>3. UNCHANGED <<call, at, res, f, len, on, pos>>
    BY DEF BmcStep, Bmc
  <1>4. o[1] \in Word /\ o[2] \in Byte4
    BY AhbAssumption
  <1>5. mem' \in [Word -> [Byte4 -> Val]]
    BY <1>2, <1>4 DEF IInv, TypeOK
  <1>6. TypeOK'
    BY <1>3, <1>5 DEF IInv, TypeOK
  <1>7. OneCall' /\ Prepared' /\ Collected'
    <2>1. OneCall'
      BY <1>3 DEF IInv, OneCall, Busy
    <2>2. Prepared'
      BY <1>3 DEF IInv, Prepared, Busy, InPlace
    <2>3. Collected'
      BY <1>3 DEF IInv, Collected, Busy
    <2>4. QED
      BY <2>1, <2>2, <2>3
  <1>8. QED
    BY <1>6, <1>7 DEF IInv

\* A step that gives the call no byte.
LEMMA SameRes ==
  ASSUME IInv, NEW p \in Proc, Step(p), UNCHANGED res,
         call[p].op = "readl" => pos[p] <= 7
  PROVE  Collected'
  <1>1. /\ call' = call /\ Busy(p) /\ call[p] \in Call
        /\ \A q \in Proc : Busy(q)' => q = p /\ pos'[p] = pos[p] + 1
    BY StepFacts
  <1>2. pos[p] \in 1..11
    BY <1>1, BusyFacts
  <1>3. res[p] = <<>>
    <2>1. ~(call[p].op = "readl" /\ pos[p] > 8)
      BY <1>2
    <2>2. QED
      BY <1>1, <2>1 DEF IInv, Collected
  <1>4. pos[p] + 1 > 8 => call[p].op # "readl"
    BY <1>2
  <1>5. QED
    BY <1>1, <1>3, <1>4 DEF Collected
\* A byte of an address is a byte.
LEMMA ByteRange ==
  ASSUME NEW a \in Nat, NEW i \in 0..3
  PROVE  AddrByte(a, i) \in 0..255
  <1>1. \A b \in Nat : b % 256 \in 0..255
    OBVIOUS
  <1>2. 256^(3 - i) \in Nat \ {0}
    <2>1. CASE i = 0
      <3>1. 256^(3 - 0) = 16777216
        OBVIOUS
      <3>2. QED
        BY <2>1, <3>1, SMT
    <2>2. CASE i = 1
      <3>1. 256^(3 - 1) = 65536
        OBVIOUS
      <3>2. QED
        BY <2>2, <3>1, SMT
    <2>3. CASE i = 2
      <3>1. 256^(3 - 2) = 256
        OBVIOUS
      <3>2. QED
        BY <2>3, <3>1, SMT
    <2>4. CASE i = 3
      <3>1. 256^(3 - 3) = 1
        OBVIOUS
      <3>2. QED
        BY <2>4, <3>1, SMT
    <2>5. QED
      BY <2>1, <2>2, <2>3, <2>4
  <1>3. a \div 256^(3 - i) \in Nat
    <2>1. \A m \in Nat \ {0} : a \div m \in Nat
      OBVIOUS
    <2>2. QED
      BY <1>2, <2>1, SMT
  <1>4. QED
    BY <1>1, <1>3 DEF AddrByte

\* What is in the address registers, and whether the device is on, when a call
\* triggers it.
LEMMA Triggered ==
  ASSUME IInv, NEW p \in Proc, Busy(p), pos[p] > 6
  PROVE  on /\ len = Width(call[p]) /\ Addr = Aim(call[p])
  <1> DEFINE c == call[p]
  <1>1. c \in Call /\ \A i \in 1..6 : InPlace(Program[c][i])
    BY BusyFacts
  <1>2. /\ Program[c][1] = <<"enable">> /\ Program[c][2] = <<"len", Width(c)>>
        /\ \A j \in 0..3 : Program[c][j + 3] = <<"put", j, AddrByte(Aim(c), j)>>
    BY <1>1, WrittenFacts
  <1>3. on /\ len = Width(c)
    <2>1. InPlace(Program[c][1]) /\ InPlace(Program[c][2])
      BY <1>1
    <2>2. QED
      BY <1>2, <2>1 DEF InPlace
  <1>4. \A j \in 0..3 : f[j] = AddrByte(Aim(c), j)
    <2> TAKE j \in 0..3
    <2>1. InPlace(Program[c][j + 3])
      BY <1>1
    <2>2. Program[c][j + 3] = <<"put", j, AddrByte(Aim(c), j)>>
      BY <1>2
    <2>3. QED
      BY <2>1, <2>2 DEF InPlace
  <1>5. Aim(c) \in Nat /\ Aim(c) \div 256^3 < 256
    BY <1>1, CallFacts DEF Aim
  <1>6. Addr = Aim(c)
    BY <1>4, <1>5, AddrIs
  <1>7. QED
    BY <1>3, <1>6

\* The device stores what the call was given.
LEMMA StoreIs ==
  ASSUME IInv, NEW p \in Proc, Store(p)
  PROVE  mem' = Left(call[p])
  <1> DEFINE c == call[p]
             k == pos[p]
  <1>1. Step(p) /\ Now(p)[1] = "store"
    BY DEF Store
  <1>2. c \in Call /\ k \in DOMAIN Program[c] /\ Busy(p)
    BY <1>1, StepFacts
  <1>3. \/ c.op = "write" /\ k = 8
        \/ c.op = "writel" /\ k = 11
    BY <1>1, <1>2, KindFacts DEF Now
  <1>4. on /\ len = Width(c) /\ Addr = c.addr /\ Base(Addr) \in Word
    <2>1. on /\ len = Width(c) /\ Addr = Aim(c)
      BY <1>2, <1>3, Triggered
    <2>2. Aim(c) = c.addr
      BY <1>3 DEF Aim, Reads
    <2>3. QED
      BY <1>2, <2>1, <2>2, CallFacts
  <1>5. \A i \in 1..(k - 1) : InPlace(Program[c][i])
    BY <1>2, BusyFacts
  <1>6. CASE c.op = "write"
    <2>1. InPlace(Program[c][7]) /\ Program[c][7] = <<"put", 7, c.bytes[1]>>
      BY <1>2, <1>3, <1>5, <1>6, WrittenFacts
    <2>2. f[7] = c.bytes[1]
      BY <2>1 DEF InPlace
    <2>3. len = 0
      BY <1>4, <1>6 DEF Width
    <2>4. mem' = [mem EXCEPT ![Base(c.addr)][c.addr % 4] = c.bytes[1]]
      BY <1>4, <2>2, <2>3 DEF Store
    <2>5. QED
      BY <1>6, <2>4 DEF Left
  <1>7. CASE c.op = "writel"
    <2>1. \A j \in 4..7 : f[j] = c.bytes[8 - j]
      <3> TAKE j \in 4..7
      <3>1. InPlace(Program[c][j + 3])
        BY <1>3, <1>5, <1>7
      <3>2. Program[c][j + 3] = <<"put", j, c.bytes[8 - j]>>
        BY <1>2, <1>7, WrittenFacts
      <3>3. QED
        BY <3>1, <3>2 DEF InPlace
    <2>2. \A b \in Byte4 : f[7 - b] = c.bytes[b + 1]
      <3> TAKE b \in Byte4
      <3>1. 7 - b \in 4..7 /\ 8 - (7 - b) = b + 1
        BY DEF Byte4
      <3>2. QED
        BY <2>1, <3>1
    <2>3. [b \in Byte4 |-> f[7 - b]] = [b \in Byte4 |-> c.bytes[b + 1]]
      BY <2>2
    <2>4. len # 0 /\ Base(Addr) = c.addr
      BY <1>2, <1>4, <1>7, CallFacts DEF Width
    <2>5. mem' = [mem EXCEPT ![c.addr] = [b \in Byte4 |-> f[7 - b]]]
      BY <1>4, <2>4 DEF Store
    <2>6. QED
      BY <1>7, <2>3, <2>5 DEF Left
  <1>8. QED
    BY <1>3, <1>6, <1>7

\* A call leaves bytes in memory.
LEMMA LeftType ==
  ASSUME NEW c \in Call, mem \in [Word -> [Byte4 -> Val]]
  PROVE  Left(c) \in [Word -> [Byte4 -> Val]]
  <1>1. /\ c.op \in {"read", "readl", "write", "writel"}
        /\ Base(c.addr) \in Word /\ c.addr % 4 \in Byte4
        /\ c.op \in {"readl", "writel"} => Base(c.addr) = c.addr
    BY CallFacts
  <1>2. CASE c.op \in {"read", "readl"}
    BY <1>2 DEF Left
  <1>3. CASE c.op = "write"
    <2>1. c.bytes[1] \in Val
      BY <1>3, CallFacts
    <2>2. Left(c) = [mem EXCEPT ![Base(c.addr)][c.addr % 4] = c.bytes[1]]
      BY <1>3 DEF Left
    <2>3. QED
      BY <1>1, <2>1, <2>2
  <1>4. CASE c.op = "writel"
    <2>1. \A i \in 1..4 : c.bytes[i] \in Val
      BY <1>4, CallFacts
    <2>2. [b \in Byte4 |-> c.bytes[b + 1]] \in [Byte4 -> Val]
      BY <2>1 DEF Byte4
    <2>3. Left(c) = [mem EXCEPT ![c.addr] = [b \in Byte4 |-> c.bytes[b + 1]]]
      BY <1>4 DEF Left
    <2>4. QED
      BY <1>1, <1>4, <2>2, <2>3
  <1>5. QED
    BY <1>1, <1>2, <1>3, <1>4

\* The first access.
LEMMA EnableIInv ==
  ASSUME IInv, NEW p \in Proc, Enable(p)
  PROVE  IInv'
  <1> DEFINE c == call[p]
             k == pos[p]
  <1>1. Step(p) /\ Now(p)[1] = "enable" /\ on' = TRUE /\ UNCHANGED <<mem, res, f, len>>
    BY DEF Enable
  <1>2. /\ c \in Call /\ k \in DOMAIN Program[c] /\ Busy(p) /\ call' = call
        /\ call' \in [Proc -> Call] /\ at' \in [Proc -> {"idle", "asked"}]
        /\ DOMAIN pos' = Proc
        /\ \A q \in Proc : pos'[q] \in DOMAIN Program[call'[q]]
        /\ OneCall'
    BY <1>1, StepFacts
  <1>3. k \in 1..11 /\ \A i \in 1..(k - 1) : i \in DOMAIN Program[c] /\ InPlace(Program[c][i])
    BY <1>2, BusyFacts
  <1>4. k = 1
    BY <1>1, <1>2, KindFacts DEF Now
  <1>5. TypeOK'
    BY <1>1, <1>2 DEF IInv, TypeOK
  <1>6. Prepared'
    <2>1. ASSUME NEW i \in 1..k
          PROVE  InPlace(Program[c][i])'
      <3>1. i = 1 /\ Program[c][i] = Now(p)
        BY <1>4 DEF Now
      <3>2. QED
        BY <1>1, <1>2, <3>1 DEF InPlace
    <2>2. QED
      BY <1>1, <2>1, PreparedStep
  <1>7. Collected'
    <2>1. c.op = "readl" => k <= 7
      BY <1>3, <1>4 DEF Reads
    <2>2. QED
      BY <1>1, <2>1, SameRes
  <1>8. QED
    BY <1>2, <1>5, <1>6, <1>7 DEF IInv

\* The second one leaves the enable in place.
LEMMA SetLenIInv ==
  ASSUME IInv, NEW p \in Proc, SetLen(p)
  PROVE  IInv'
  <1> DEFINE c == call[p]
             k == pos[p]
  <1>1. Step(p) /\ Now(p)[1] = "len" /\ len' = Now(p)[2] /\ UNCHANGED <<mem, res, f, on>>
    BY DEF SetLen
  <1>2. /\ c \in Call /\ k \in DOMAIN Program[c] /\ Busy(p) /\ call' = call
        /\ call' \in [Proc -> Call] /\ at' \in [Proc -> {"idle", "asked"}]
        /\ DOMAIN pos' = Proc
        /\ \A q \in Proc : pos'[q] \in DOMAIN Program[call'[q]]
        /\ OneCall'
    BY <1>1, StepFacts
  <1>3. k \in 1..11 /\ \A i \in 1..(k - 1) : i \in DOMAIN Program[c] /\ InPlace(Program[c][i])
    BY <1>2, BusyFacts
  <1>4. k = 2 /\ Now(p)[2] = Width(c)
    BY <1>1, <1>2, KindFacts DEF Now
  <1>5. TypeOK'
    <2>1. len' \in {0, 2}
      BY <1>1, <1>4 DEF Width
    <2>2. QED
      BY <1>1, <1>2, <2>1 DEF IInv, TypeOK
  <1>6. Prepared'
    <2>1. ASSUME NEW i \in 1..k
          PROVE  InPlace(Program[c][i])'
      <3>1. CASE i = k
        <4>1. Program[c][i] = Now(p)
          BY <3>1 DEF Now
        <4>2. QED
          BY <1>1, <1>2, <4>1 DEF InPlace
      <3>2. CASE i # k
        <4>1. i = 1 /\ 1 \in DOMAIN Program[c] /\ InPlace(Program[c][1])
          BY <1>3, <1>4, <3>2
        <4>2. Program[c][1] = <<"enable">>
          BY <1>2, WrittenFacts
        <4>3. QED
          BY <1>1, <1>2, <4>1, <4>2 DEF InPlace
      <3>3. QED
        BY <3>1, <3>2
    <2>2. QED
      BY <1>1, <2>1, PreparedStep
  <1>7. Collected'
    <2>1. c.op = "readl" => k <= 7
      BY <1>3, <1>4 DEF Reads
    <2>2. QED
      BY <1>1, <2>1, SameRes
  <1>8. QED
    BY <1>2, <1>5, <1>6, <1>7 DEF IInv

\* Each register of the address and the data is written once.
LEMMA PutIInv ==
  ASSUME IInv, NEW p \in Proc, Put(p)
  PROVE  IInv'
  <1> DEFINE c == call[p]
             k == pos[p]
  <1>1. Step(p) /\ Now(p)[1] = "put" /\ f' = [f EXCEPT ![Now(p)[2]] = Now(p)[3]] /\ UNCHANGED <<mem, res, len, on>>
    BY DEF Put
  <1>2. /\ c \in Call /\ k \in DOMAIN Program[c] /\ Busy(p) /\ call' = call
        /\ call' \in [Proc -> Call] /\ at' \in [Proc -> {"idle", "asked"}]
        /\ DOMAIN pos' = Proc
        /\ \A q \in Proc : pos'[q] \in DOMAIN Program[call'[q]]
        /\ OneCall'
    BY <1>1, StepFacts
  <1>3. k \in 1..11 /\ \A i \in 1..(k - 1) : i \in DOMAIN Program[c] /\ InPlace(Program[c][i])
    BY <1>2, BusyFacts
  <1>4. \/ k \in 3..6 /\ Now(p)[2] = k - 3 /\ Now(p)[3] = AddrByte(Aim(c), k - 3)
        \/ c.op = "write" /\ k = 7 /\ Now(p)[2] = 7 /\ Now(p)[3] = c.bytes[1]
        \/ c.op = "writel" /\ k \in 7..10 /\ Now(p)[2] = k - 3 /\ Now(p)[3] = c.bytes[11 - k]
    BY <1>1, <1>2, KindFacts DEF Now
  <1>5. TypeOK'
    <2>1. Now(p)[2] \in 0..7 /\ Now(p)[3] \in 0..255
      <3>1. CASE k \in 3..6 /\ Now(p)[2] = k - 3 /\ Now(p)[3] = AddrByte(Aim(c), k - 3)
        <4>1. Aim(c) \in Nat
          BY <1>2, CallFacts DEF Aim
        <4>2. AddrByte(Aim(c), k - 3) \in 0..255
          BY <3>1, <4>1, ByteRange
        <4>3. QED
          BY <3>1, <4>2
      <3>2. CASE c.op = "write" /\ k = 7 /\ Now(p)[2] = 7 /\ Now(p)[3] = c.bytes[1]
        <4>1. c.bytes[1] \in Val
          BY <1>2, <3>2, CallFacts
        <4>2. c.bytes[1] \in 0..255
          BY <4>1, BridgeAssumption
        <4>3. QED
          BY <3>2, <4>2
      <3>3. CASE c.op = "writel" /\ k \in 7..10 /\ Now(p)[2] = k - 3 /\ Now(p)[3] = c.bytes[11 - k]
        <4>1. 11 - k \in 1..4
          BY <3>3
        <4>2. \A j \in 1..4 : c.bytes[j] \in Val
          BY <1>2, <3>3, CallFacts
        <4>3. c.bytes[11 - k] \in 0..255
          BY <4>1, <4>2, BridgeAssumption
        <4>4. Now(p)[2] \in 0..7
          BY <3>3
        <4>5. Now(p)[3] \in 0..255
          BY <3>3, <4>3
        <4>6. QED
          BY <4>4, <4>5
      <3>4. QED
        BY <1>4, <3>1, <3>2, <3>3
    <2>2. f' \in Regs
      BY <1>1, <2>1 DEF IInv, TypeOK, Regs
    <2>3. QED
      BY <1>1, <1>2, <2>2 DEF IInv, TypeOK
  <1>6. Prepared'
    <2>1. ASSUME NEW i \in 1..k
          PROVE  InPlace(Program[c][i])'
      <3>1. Now(p)[2] \in 0..7 /\ DOMAIN f = 0..7
        BY <1>3, <1>4 DEF IInv, TypeOK, Regs
      <3>2. CASE i = k
        <4>1. Program[c][i] = Now(p)
          BY <3>2 DEF Now
        <4>2. f'[Now(p)[2]] = Now(p)[3]
          BY <1>1, <3>1
        <4>3. QED
          BY <1>1, <1>2, <4>1, <4>2 DEF InPlace
      <3>3. CASE i # k
        <4>1. i \in 1..(k - 1) /\ i \in DOMAIN Program[c] /\ InPlace(Program[c][i])
          BY <1>3, <3>3
        <4>2. Program[c][i][1] = "put" =>
                \/ i \in 3..6 /\ Program[c][i][2] = i - 3
                \/ c.op = "write" /\ i = 7 /\ Program[c][i][2] = 7
                \/ c.op = "writel" /\ i \in 7..10 /\ Program[c][i][2] = i - 3
          BY <1>2, <4>1, KindFacts
        <4>3. Program[c][i][1] = "put" => Program[c][i][2] # Now(p)[2] /\ Program[c][i][2] \in 0..7
          BY <1>4, <4>1, <4>2
        <4>4. \A x \in 0..7 : x # Now(p)[2] => f'[x] = f[x]
          BY <1>1, <3>1
        <4>5. QED
          BY <1>1, <1>2, <4>1, <4>3, <4>4 DEF InPlace
      <3>4. QED
        BY <3>2, <3>3
    <2>2. QED
      BY <1>1, <2>1, PreparedStep
  <1>7. Collected'
    <2>1. c.op = "readl" => k <= 7
      BY <1>3, <1>4
    <2>2. QED
      BY <1>1, <2>1, SameRes
  <1>8. QED
    BY <1>2, <1>5, <1>6, <1>7 DEF IInv

\* The bytes of a word are collected from F7h down.
LEMMA GetIInv ==
  ASSUME IInv, NEW p \in Proc, Get(p)
  PROVE  IInv'
  <1> DEFINE c == call[p]
             k == pos[p]
  <1>1. Step(p) /\ Now(p)[1] = "get" /\ res' = [res EXCEPT ![p] = Append(@, f[Now(p)[2]])] /\ UNCHANGED <<mem, f, len, on>>
    BY DEF Get
  <1>2. /\ c \in Call /\ k \in DOMAIN Program[c] /\ Busy(p) /\ call' = call
        /\ call' \in [Proc -> Call] /\ at' \in [Proc -> {"idle", "asked"}]
        /\ DOMAIN pos' = Proc
        /\ \A q \in Proc : pos'[q] \in DOMAIN Program[call'[q]]
        /\ OneCall'
    BY <1>1, StepFacts
  <1>3. k \in 1..11 /\ \A i \in 1..(k - 1) : i \in DOMAIN Program[c] /\ InPlace(Program[c][i])
    BY <1>2, BusyFacts
  <1>4. \/ c.op = "read" /\ k = 8
        \/ c.op = "readl" /\ k \in 8..11 /\ Now(p)[2] = 15 - k
    BY <1>1, <1>2, KindFacts DEF Now
  <1>5. TypeOK'
    BY <1>1, <1>2 DEF IInv, TypeOK
  <1>6. Prepared'
    <2>1. ASSUME NEW i \in 1..k
          PROVE  InPlace(Program[c][i])'
      <3>1. CASE i = k
        <4>1. Program[c][i] = Now(p)
          BY <3>1 DEF Now
        <4>2. QED
          BY <1>1, <1>2, <4>1 DEF InPlace
      <3>2. CASE i # k
        <4>1. InPlace(Program[c][i])
          BY <1>3, <3>2
        <4>2. QED
          BY <1>1, <1>2, <4>1 DEF InPlace
      <3>3. QED
        BY <3>1, <3>2
    <2>2. QED
      BY <1>1, <2>1, PreparedStep
  <1>7. Collected'
    <2>1. \A q \in Proc : Busy(q)' => q = p /\ k < Len(Program[c]) /\ pos'[p] = k + 1
      BY <1>1, StepFacts
    <2>2. Len(Program[c]) = IF Width(c) = 0 THEN 8 ELSE 11
      BY <1>2, BusyFacts
    <2>3. ASSUME NEW q \in Proc, Busy(q)'
          PROVE  /\ q = p /\ c.op = "readl" /\ pos'[p] = k + 1 /\ k + 1 > 8
                 /\ res'[p] = [b \in 1..(k + 1 - 8) |-> f[8 - b]]
      <3>1. q = p /\ k < Len(Program[c]) /\ pos'[p] = k + 1
        BY <2>1, <2>3
      <3>2. c.op = "readl" /\ k \in 8..10 /\ Now(p)[2] = 15 - k
        BY <1>4, <2>2, <3>1 DEF Width
      <3>3. res[p] = [b \in 1..(k - 8) |-> f[8 - b]]
        <4>1. CASE k = 8
          <5>1. res[p] = <<>>
            <6>1. ~(call[p].op = "readl" /\ pos[p] > 8)
              BY <4>1
            <6>2. QED
              BY <1>2, <6>1 DEF IInv, Collected
          <5>2. 1..(k - 8) = {}
            BY <4>1
          <5>3. QED
            BY <5>1, <5>2
        <4>2. CASE k # 8
          <5>1. k > 8
            BY <3>2, <4>2
          <5>2. QED
            BY <1>2, <3>2, <5>1 DEF IInv, Collected
        <4>3. QED
          BY <4>1, <4>2
      <3>4. k - 8 \in Nat /\ 15 - k = 7 - (k - 8) /\ k + 1 - 8 = k - 8 + 1 /\ k + 1 > 8
        BY <3>2
      <3>5. Append(res[p], f[15 - k]) = [b \in 1..(k + 1 - 8) |-> f[8 - b]]
        BY <3>3, <3>4, OneMore
      <3>6. res'[p] = Append(res[p], f[15 - k])
        BY <1>1, <3>2 DEF IInv, TypeOK
      <3>7. QED
        BY <3>1, <3>2, <3>4, <3>5, <3>6
    <2>4. f' = f /\ call' = call
      BY <1>1, <1>2
    <2>5. ASSUME NEW q \in Proc, Busy(q)'
          PROVE  res'[q] = IF call'[q].op = "readl" /\ pos'[q] > 8
                           THEN [b \in 1..(pos'[q] - 8) |-> f'[8 - b]] ELSE <<>>
      <3>1. q = p /\ c.op = "readl" /\ pos'[p] = k + 1 /\ k + 1 > 8
        BY <2>3, <2>5
      <3>2. res'[p] = [b \in 1..(k + 1 - 8) |-> f[8 - b]]
        BY <2>3, <2>5
      <3>3. [b \in 1..(k + 1 - 8) |-> f[8 - b]] = [b \in 1..(pos'[q] - 8) |-> f'[8 - b]]
        <4>1. pos'[q] = k + 1 /\ f' = f
          BY <2>4, <3>1
        <4>2. k \in 1..11
          BY <1>3
        <4> HIDE DEF k
        <4>3. QED
          BY <4>1, <4>2
      <3>4. call'[q].op = "readl" /\ pos'[q] > 8
        BY <2>4, <3>1
      <3>5. QED
        BY <3>1, <3>2, <3>3, <3>4
    <2>6. QED
      BY <2>5 DEF Collected
  <1>8. QED
    BY <1>2, <1>5, <1>6, <1>7 DEF IInv

\* The trigger of a read changes the data registers, which a read does not
\* write.
LEMMA FetchIInv ==
  ASSUME IInv, NEW p \in Proc, Fetch(p)
  PROVE  IInv'
  <1> DEFINE c == call[p]
             k == pos[p]
  <1>1. /\ Step(p)
        /\ Now(p)[1] = "fetch"
        /\ f' = IF on /\ Addr \in Word
                THEN [i \in 0..7 |-> IF i < 4 THEN f[i] ELSE mem[Addr][7 - i]] ELSE f
        /\ UNCHANGED <<mem, res, len, on>>
    BY DEF Fetch
  <1>2. /\ c \in Call /\ k \in DOMAIN Program[c] /\ Busy(p) /\ call' = call
        /\ call' \in [Proc -> Call] /\ at' \in [Proc -> {"idle", "asked"}]
        /\ DOMAIN pos' = Proc
        /\ \A q \in Proc : pos'[q] \in DOMAIN Program[call'[q]]
        /\ OneCall'
    BY <1>1, StepFacts
  <1>3. k \in 1..11 /\ \A i \in 1..(k - 1) : i \in DOMAIN Program[c] /\ InPlace(Program[c][i])
    BY <1>2, BusyFacts
  <1>4. Reads(c) /\ k = 7
    BY <1>1, <1>2, KindFacts DEF Now
  <1>5. TypeOK'
    <2>1. \A i \in 0..7 : f[i] \in 0..255
      BY DEF IInv, TypeOK, Regs
    <2>2. Addr \in Word => \A i \in 0..7 : ~(i < 4) => mem[Addr][7 - i] \in 0..255
      <3>1. Addr \in Word => mem[Addr] \in [Byte4 -> Val]
        BY DEF IInv, TypeOK
      <3>2. \A i \in 0..7 : ~(i < 4) => 7 - i \in Byte4
        BY DEF Byte4
      <3>3. QED
        BY <3>1, <3>2, BridgeAssumption
    <2>3. f' \in Regs
      <3>1. CASE on /\ Addr \in Word
        <4>1. f' = [i \in 0..7 |-> IF i < 4 THEN f[i] ELSE mem[Addr][7 - i]]
          BY <1>1, <3>1
        <4>2. \A i \in 0..7 : (IF i < 4 THEN f[i] ELSE mem[Addr][7 - i]) \in 0..255
          BY <2>1, <2>2, <3>1
        <4>3. QED
          BY <4>1, <4>2 DEF Regs
      <3>2. CASE ~(on /\ Addr \in Word)
        <4>1. f' = f
          BY <1>1, <3>2
        <4>2. QED
          BY <4>1 DEF IInv, TypeOK
      <3>3. QED
        BY <3>1, <3>2
    <2>4. QED
      BY <1>1, <1>2, <2>3 DEF IInv, TypeOK
  <1>6. Prepared'
    <2>1. ASSUME NEW i \in 1..k
          PROVE  InPlace(Program[c][i])'
      <3>1. \A x \in 0..3 : f'[x] = f[x]
        BY <1>1 DEF IInv, TypeOK, Regs
      <3>2. CASE i = k
        <4>1. Program[c][i] = Now(p)
          BY <3>2 DEF Now
        <4>2. QED
          BY <1>1, <1>2, <4>1 DEF InPlace
      <3>3. CASE i # k
        <4>1. i \in 1..6 /\ i \in DOMAIN Program[c] /\ InPlace(Program[c][i])
          BY <1>3, <1>4, <3>3
        <4>2. Program[c][i][1] = "put" => Program[c][i][2] = i - 3 /\ i - 3 \in 0..3
          BY <1>2, <4>1, KindFacts
        <4>3. Program[c][i][1] = "put" => f'[Program[c][i][2]] = f[Program[c][i][2]]
          BY <3>1, <4>2
        <4>4. QED
          BY <1>1, <1>2, <4>1, <4>3 DEF InPlace
      <3>4. QED
        BY <3>2, <3>3
    <2>2. QED
      BY <1>1, <2>1, PreparedStep
  <1>7. Collected'
    <2>1. c.op = "readl" => k <= 7
      BY <1>3, <1>4 DEF Reads
    <2>2. QED
      BY <1>1, <2>1, SameRes
  <1>8. QED
    BY <1>2, <1>5, <1>6, <1>7 DEF IInv

\* The trigger of a write changes the memory alone.
LEMMA StoreIInv ==
  ASSUME IInv, NEW p \in Proc, Store(p)
  PROVE  IInv'
  <1> DEFINE c == call[p]
             k == pos[p]
  <1>1. /\ Step(p)
        /\ Now(p)[1] = "store"
        /\ mem' = IF ~on \/ Base(Addr) \notin Word THEN mem
                  ELSE IF len = 0 THEN [mem EXCEPT ![Base(Addr)][Addr % 4] = f[7]]
                  ELSE [mem EXCEPT ![Base(Addr)] = [b \in Byte4 |-> f[7 - b]]]
        /\ UNCHANGED <<res, f, len, on>>
    BY DEF Store
  <1>2. /\ c \in Call /\ k \in DOMAIN Program[c] /\ Busy(p) /\ call' = call
        /\ call' \in [Proc -> Call] /\ at' \in [Proc -> {"idle", "asked"}]
        /\ DOMAIN pos' = Proc
        /\ \A q \in Proc : pos'[q] \in DOMAIN Program[call'[q]]
        /\ OneCall'
    BY <1>1, StepFacts
  <1>3. k \in 1..11 /\ \A i \in 1..(k - 1) : i \in DOMAIN Program[c] /\ InPlace(Program[c][i])
    BY <1>2, BusyFacts
  <1>4. \/ c.op = "write" /\ k = 8
        \/ c.op = "writel" /\ k = 11
    BY <1>1, <1>2, KindFacts DEF Now
  <1>5. TypeOK'
    <2>1. \/ mem' = Left(c)
          \/ mem' = mem
      BY <1>1, StoreIs
    <2>2. mem' \in [Word -> [Byte4 -> Val]]
      BY <1>2, <2>1, LeftType DEF IInv, TypeOK
    <2>3. QED
      BY <1>1, <1>2, <2>2 DEF IInv, TypeOK
  <1>6. Prepared'
    <2>1. ASSUME NEW i \in 1..k
          PROVE  InPlace(Program[c][i])'
      <3>1. CASE i = k
        <4>1. Program[c][i] = Now(p)
          BY <3>1 DEF Now
        <4>2. QED
          BY <1>1, <1>2, <4>1 DEF InPlace
      <3>2. CASE i # k
        <4>1. InPlace(Program[c][i])
          BY <1>3, <3>2
        <4>2. QED
          BY <1>1, <1>2, <4>1 DEF InPlace
      <3>3. QED
        BY <3>1, <3>2
    <2>2. QED
      BY <1>1, <2>1, PreparedStep
  <1>7. Collected'
    <2>1. c.op # "readl"
      BY <1>4
    <2>2. QED
      BY <1>1, <2>1, SameRes
  <1>8. QED
    BY <1>2, <1>5, <1>6, <1>7 DEF IInv

\* The device's registers hold what the call that runs has written to them.
THEOREM BridgeCorrect == BridgeSpec => []IInv
  <1>1. BridgeInit => IInv
    BY InitIInv
  <1>2. IInv /\ [BridgeNext]_vars => IInv'
    <2> SUFFICES ASSUME IInv, [BridgeNext]_vars PROVE IInv'
      OBVIOUS
    <2>1. CASE BmcStep
      BY <2>1, BmcIInv
    <2>2. ASSUME NEW p \in Proc,
                 Begin(p) \/ Enable(p) \/ SetLen(p) \/ Put(p) \/ Get(p) \/ Fetch(p) \/ Store(p) \/ Kill(p)
          PROVE  IInv'
      BY <2>2, BeginIInv, EnableIInv, SetLenIInv, PutIInv, GetIInv, FetchIInv, StoreIInv, KillIInv
    <2>3. CASE UNCHANGED vars
      <3>1. UNCHANGED <<mem, call, at, res, f, len, on, pos>>
        BY <2>3 DEF vars, ahbVars
      <3>2. TypeOK'
        BY <3>1 DEF IInv, TypeOK
      <3>3. OneCall'
        BY <3>1 DEF IInv, OneCall, Busy
      <3>4. Prepared'
        BY <3>1 DEF IInv, Prepared, Busy, InPlace
      <3>5. Collected'
        BY <3>1 DEF IInv, Collected, Busy
      <3>6. QED
        BY <3>2, <3>3, <3>4, <3>5 DEF IInv
    <2>4. QED
      BY <2>1, <2>2, <2>3 DEF BridgeNext
  <1>3. QED
    BY <1>1, <1>2, PTL DEF BridgeSpec

-----------------------------------------------------------------------------
(* A call is one access to the memory. *)

MappedAt(p)  == IF Past(p) THEN "served" ELSE at[p]
MappedRes(p) == IF Past(p) THEN Answer(call[p]) ELSE res[p]

\* A step of one process changes what the abstract memory knows of that
\* process alone.
LEMMA OneMapped ==
  ASSUME NEW p \in Proc,
         \A q \in Proc : q # p => ~Busy(q) /\ ~Busy(q)' /\ res'[q] = res[q]
  PROVE  /\ [q \in Proc |-> MappedAt(q)]' = [[q \in Proc |-> MappedAt(q)] EXCEPT ![p] = MappedAt(p)']
         /\ [q \in Proc |-> MappedRes(q)]' = [[q \in Proc |-> MappedRes(q)] EXCEPT ![p] = MappedRes(p)']
  <1>1. \A q \in Proc : q # p => MappedAt(q)' = MappedAt(q) /\ MappedRes(q)' = MappedRes(q)
    BY DEF MappedAt, MappedRes, Past, Busy
  <1>2. QED
    BY <1>1

\* What a step of a call leaves alone.
LEMMA OthersIdle ==
  ASSUME IInv, NEW p \in Proc, Busy(p), IInv',
         \A q \in Proc : q # p => at'[q] = at[q]
  PROVE  \A q \in Proc : q # p => ~Busy(q) /\ ~Busy(q)'
  <1>1. \A q \in Proc : q # p => ~Busy(q)
    BY DEF IInv, OneCall
  <1>2. QED
    BY <1>1 DEF Busy

\* What the abstract memory says of a call does not depend on the mapping.
LEMMA SameMemory ==
  ASSUME NEW c
  PROVE  /\ Memory!Left(c) = Left(c) /\ Memory!Got(c) = Got(c)
         /\ Memory!Reads(c) <=> Reads(c)
  BY DEF Left, Got, Reads, Base, Byte4, Memory!Left, Memory!Got, Memory!Reads, Memory!Base, Memory!Byte4

\* A step that the process itself sees, and the memory does not.
LEMMA MapsToStutter ==
  ASSUME NEW p \in Proc,
         \A q \in Proc : q # p => ~Busy(q) /\ ~Busy(q)' /\ res'[q] = res[q],
         MappedAt(p)' = MappedAt(p), MappedRes(p)' = MappedRes(p),
         UNCHANGED <<mem, call>>
  PROVE  UNCHANGED Memory!ahbVars
  <1>1. \A q \in Proc : MappedAt(q)' = MappedAt(q) /\ MappedRes(q)' = MappedRes(q)
    BY DEF MappedAt, MappedRes, Past, Busy
  <1>2. /\ [q \in Proc |-> MappedAt(q)]' = [q \in Proc |-> MappedAt(q)]
        /\ [q \in Proc |-> MappedRes(q)]' = [q \in Proc |-> MappedRes(q)]
    BY <1>1
  <1>3. QED
    BY <1>2 DEF Memory!ahbVars, MappedAt, MappedRes

\* The access itself.
LEMMA MapsToServe ==
  ASSUME NEW p \in Proc,
         \A q \in Proc : q # p => ~Busy(q) /\ ~Busy(q)' /\ res'[q] = res[q],
         MappedAt(p) = "asked", MappedAt(p)' \in {"served", "idle"},
         mem' = Left(call[p]),
         MappedRes(p)' = IF Reads(call[p]) THEN Got(call[p]) ELSE <<>>,
         call' = call
  PROVE  Memory!Serve(p)
  <1>1. /\ [q \in Proc |-> MappedAt(q)]' = [[q \in Proc |-> MappedAt(q)] EXCEPT ![p] = MappedAt(p)']
        /\ [q \in Proc |-> MappedRes(q)]' = [[q \in Proc |-> MappedRes(q)] EXCEPT ![p] = MappedRes(p)']
    BY OneMapped
  <1>2. [q \in Proc |-> MappedAt(q)][p] = "asked"
    OBVIOUS
  <1>3. \E a \in {"served", "idle"} :
          [q \in Proc |-> MappedAt(q)]' = [[q \in Proc |-> MappedAt(q)] EXCEPT ![p] = a]
    BY <1>1
  <1>4. [q \in Proc |-> MappedRes(q)]' =
          [[q \in Proc |-> MappedRes(q)] EXCEPT ![p] = IF Memory!Reads(call[p]) THEN Memory!Got(call[p]) ELSE <<>>]
    BY <1>1, SameMemory
  <1>5. mem' = Memory!Left(call[p])
    BY SameMemory
  <1>6. QED
    BY <1>2, <1>3, <1>4, <1>5 DEF Memory!Serve, MappedAt, MappedRes

\* The call returns or is killed.
LEMMA MapsToLeave ==
  ASSUME NEW p \in Proc,
         \A q \in Proc : q # p => ~Busy(q) /\ ~Busy(q)' /\ res'[q] = res[q],
         MappedAt(p) # "idle", MappedAt(p)' = "idle",
         MappedRes(p)' \in {MappedRes(p), <<>>},
         UNCHANGED <<mem, call>>
  PROVE  Memory!Leave(p)
  <1>1. /\ [q \in Proc |-> MappedAt(q)]' = [[q \in Proc |-> MappedAt(q)] EXCEPT ![p] = MappedAt(p)']
        /\ [q \in Proc |-> MappedRes(q)]' = [[q \in Proc |-> MappedRes(q)] EXCEPT ![p] = MappedRes(p)']
    BY OneMapped
  <1>2. [q \in Proc |-> MappedAt(q)][p] # "idle" /\ [q \in Proc |-> MappedRes(q)][p] = MappedRes(p)
    OBVIOUS
  <1>3. \E r \in {[q \in Proc |-> MappedRes(q)][p], <<>>} :
          [q \in Proc |-> MappedRes(q)]' = [[q \in Proc |-> MappedRes(q)] EXCEPT ![p] = r]
    BY <1>1, <1>2
  <1>4. QED
    BY <1>1, <1>2, <1>3 DEF Memory!Leave, MappedAt, MappedRes

\* What the mapping needs to know of a step of a call.
LEMMA StepMapped ==
  ASSUME IInv, IInv', NEW p \in Proc, Step(p),
         \A q \in Proc : q # p => res'[q] = res[q]
  PROVE  /\ \A q \in Proc : q # p => ~Busy(q) /\ ~Busy(q)' /\ res'[q] = res[q]
         /\ call' = call /\ call[p] \in Call /\ Busy(p) /\ at[p] = "asked"
         /\ pos[p] \in DOMAIN Program[call[p]] /\ pos[p] \in 1..11
         /\ Len(Program[call[p]]) = IF Width(call[p]) = 0 THEN 8 ELSE 11
         /\ pos[p] < Len(Program[call[p]]) =>
              Busy(p)' /\ at'[p] = "asked" /\ pos'[p] = pos[p] + 1
         /\ ~(pos[p] < Len(Program[call[p]])) => ~Busy(p)' /\ at'[p] = "idle"
  <1>1. call' = call /\ call[p] \in Call /\ Busy(p) /\ pos[p] \in DOMAIN Program[call[p]]
    BY StepFacts
  <1>2. pos[p] \in 1..11 /\ Len(Program[call[p]]) = IF Width(call[p]) = 0 THEN 8 ELSE 11
    BY <1>1, BusyFacts
  <1>3. at \in [Proc -> {"idle", "asked"}] /\ DOMAIN pos = Proc
    BY DEF IInv, TypeOK
  <1>4. at[p] = "asked"
    BY <1>1, <1>3 DEF Busy
  <1>5. \A q \in Proc : q # p => at'[q] = at[q]
    BY <1>3 DEF Step
  <1>6. \A q \in Proc : q # p => ~Busy(q) /\ ~Busy(q)'
    BY <1>1, <1>5, OthersIdle
  <1>7. pos[p] < Len(Program[call[p]]) => Busy(p)' /\ at'[p] = "asked" /\ pos'[p] = pos[p] + 1
    BY <1>3, <1>4 DEF Step, Busy
  <1>8. ~(pos[p] < Len(Program[call[p]])) => ~Busy(p)' /\ at'[p] = "idle"
    BY <1>3 DEF Step, Busy
  <1>9. QED
    BY <1>1, <1>2, <1>4, <1>6, <1>7, <1>8

\* Setting up a call is invisible.
LEMMA SetupMaps ==
  ASSUME IInv, IInv', NEW p \in Proc, Enable(p) \/ SetLen(p) \/ Put(p)
  PROVE  UNCHANGED Memory!ahbVars
  <1>1. Step(p) /\ UNCHANGED <<mem, res>> /\ Now(p)[1] \in {"enable", "len", "put"}
    BY DEF Enable, SetLen, Put
  <1>2. /\ \A q \in Proc : q # p => ~Busy(q) /\ ~Busy(q)' /\ res'[q] = res[q]
        /\ call' = call /\ call[p] \in Call /\ at[p] = "asked"
        /\ pos[p] \in DOMAIN Program[call[p]] /\ pos[p] \in 1..11
        /\ Len(Program[call[p]]) = IF Width(call[p]) = 0 THEN 8 ELSE 11
        /\ pos[p] < Len(Program[call[p]]) =>
              Busy(p)' /\ at'[p] = "asked" /\ pos'[p] = pos[p] + 1
    BY <1>1, StepMapped
  <1>3. \/ pos[p] \in 1..6
        \/ call[p].op = "write" /\ pos[p] = 7
        \/ call[p].op = "writel" /\ pos[p] \in 7..10
    <2>1. /\ Now(p)[1] = "enable" => pos[p] = 1
          /\ Now(p)[1] = "len" => pos[p] = 2
          /\ Now(p)[1] = "put" =>
                \/ pos[p] \in 3..6
                \/ call[p].op = "write" /\ pos[p] = 7
                \/ call[p].op = "writel" /\ pos[p] \in 7..10
      BY <1>2, KindFacts DEF Now
    <2>2. QED
      BY <1>1, <2>1
  <1>4. at'[p] = "asked" /\ pos'[p] = pos[p] + 1
    BY <1>2, <1>3 DEF Width
  <1>5. ~Past(p) /\ ~Past(p)'
    BY <1>2, <1>3, <1>4 DEF Past, Reads
  <1>6. MappedAt(p)' = MappedAt(p) /\ MappedRes(p)' = MappedRes(p)
    BY <1>1, <1>2, <1>4, <1>5 DEF MappedAt, MappedRes
  <1>7. QED
    BY <1>1, <1>2, <1>6, MapsToStutter

\* The device reads the memory for the call.
LEMMA FetchMaps ==
  ASSUME IInv, IInv', NEW p \in Proc, Fetch(p)
  PROVE  Memory!Serve(p)
  <1> DEFINE c == call[p]
  <1>1. Step(p) /\ UNCHANGED <<mem, res>> /\ Now(p)[1] = "fetch"
    BY DEF Fetch
  <1>2. /\ \A q \in Proc : q # p => ~Busy(q) /\ ~Busy(q)' /\ res'[q] = res[q]
        /\ call' = call /\ c \in Call /\ Busy(p) /\ at[p] = "asked"
        /\ pos[p] \in DOMAIN Program[c] /\ pos[p] \in 1..11
        /\ Len(Program[c]) = IF Width(c) = 0 THEN 8 ELSE 11
        /\ pos[p] < Len(Program[c]) =>
              Busy(p)' /\ at'[p] = "asked" /\ pos'[p] = pos[p] + 1
    BY <1>1, StepMapped
  <1>3. Reads(c) /\ pos[p] = 7
    BY <1>1, <1>2, KindFacts DEF Now
  <1>4. Busy(p)' /\ pos'[p] = 8
    BY <1>2, <1>3
  <1>5. ~Past(p) /\ Past(p)'
    BY <1>2, <1>3, <1>4 DEF Past, Reads
  <1>6. on /\ Addr = Base(c.addr) /\ Base(c.addr) \in Word /\ c.addr % 4 \in Byte4
    <2>1. on /\ Addr = Aim(c)
      BY <1>2, <1>3, Triggered
    <2>2. Aim(c) = Base(c.addr)
      BY <1>3 DEF Aim
    <2>3. QED
      BY <1>2, <2>1, <2>2, CallFacts
  <1>7. \A b \in Byte4 : f'[7 - b] = mem[Base(c.addr)][b]
    <2>1. f' = [i \in 0..7 |-> IF i < 4 THEN f[i] ELSE mem[Addr][7 - i]]
      BY <1>6 DEF Fetch
    <2>2. \A b \in Byte4 : 7 - b \in 0..7 /\ ~(7 - b < 4) /\ 7 - (7 - b) = b
      BY DEF Byte4
    <2>3. \A b \in Byte4 : f'[7 - b] = mem[Addr][7 - (7 - b)]
      BY <2>1, <2>2
    <2>4. QED
      BY <1>6, <2>2, <2>3
  <1>8. Answer(c)' = Got(c)
    <2>1. CASE c.op = "read"
      <3>1. Answer(c)' = <<f'[7 - (c.addr % 4)]>>
        BY <1>2, <2>1 DEF Answer
      <3>2. f'[7 - (c.addr % 4)] = mem[Base(c.addr)][c.addr % 4]
        BY <1>6, <1>7
      <3>3. QED
        BY <2>1, <3>1, <3>2 DEF Got
    <2>2. CASE c.op = "readl"
      <3>1. Answer(c)' = [b \in 1..4 |-> f'[8 - b]]
        BY <1>2, <2>2 DEF Answer
      <3>2. Got(c) = [b \in 1..4 |-> mem[c.addr][b - 1]]
        BY <2>2 DEF Got
      <3>3. Base(c.addr) = c.addr
        BY <1>2, <2>2, CallFacts
      <3>4. \A b \in 1..4 : b - 1 \in Byte4 /\ 7 - (b - 1) = 8 - b
        BY DEF Byte4
      <3>5. \A b \in 1..4 : f'[8 - b] = mem[c.addr][b - 1]
        BY <1>7, <3>3, <3>4
      <3>6. QED
        BY <3>1, <3>2, <3>5
    <2>3. QED
      BY <1>3, <2>1, <2>2 DEF Reads
  <1>9. MappedAt(p) = "asked" /\ MappedAt(p)' = "served" /\ MappedRes(p)' = Got(c)
    BY <1>2, <1>5, <1>8 DEF MappedAt, MappedRes
  <1>10. mem' = Left(c)
    BY <1>1, <1>3 DEF Left, Reads
  <1>11. QED
    BY <1>2, <1>3, <1>9, <1>10, MapsToServe

\* The device stores what the call was given, and the call is over.
LEMMA StoreMaps ==
  ASSUME IInv, IInv', NEW p \in Proc, Store(p)
  PROVE  Memory!Serve(p)
  <1> DEFINE c == call[p]
  <1>1. Step(p) /\ UNCHANGED res /\ Now(p)[1] = "store"
    BY DEF Store
  <1>2. /\ \A q \in Proc : q # p => ~Busy(q) /\ ~Busy(q)' /\ res'[q] = res[q]
        /\ call' = call /\ c \in Call /\ Busy(p) /\ at[p] = "asked"
        /\ pos[p] \in DOMAIN Program[c] /\ pos[p] \in 1..11
        /\ Len(Program[c]) = IF Width(c) = 0 THEN 8 ELSE 11
        /\ ~(pos[p] < Len(Program[c])) => ~Busy(p)' /\ at'[p] = "idle"
    BY <1>1, StepMapped
  <1>3. \/ c.op = "write" /\ pos[p] = 8
        \/ c.op = "writel" /\ pos[p] = 11
    BY <1>1, <1>2, KindFacts DEF Now
  <1>4. ~Busy(p)' /\ at'[p] = "idle"
    BY <1>2, <1>3 DEF Width
  <1>5. ~Past(p) /\ ~Past(p)' /\ ~Reads(c)
    BY <1>3, <1>4 DEF Past, Reads
  <1>6. res[p] = <<>>
    <2>1. ~(call[p].op = "readl" /\ pos[p] > 8)
      BY <1>3
    <2>2. QED
      BY <1>2, <2>1 DEF IInv, Collected
  <1>7. MappedAt(p) = "asked" /\ MappedAt(p)' = "idle" /\ MappedRes(p)' = <<>>
    BY <1>1, <1>2, <1>4, <1>5, <1>6 DEF MappedAt, MappedRes
  <1>8. mem' = Left(c)
    BY StoreIs
  <1>9. QED
    BY <1>2, <1>5, <1>7, <1>8, MapsToServe

\* Collecting the bytes is invisible, and with the last one the call returns.
LEMMA GetMaps ==
  ASSUME IInv, IInv', NEW p \in Proc, Get(p)
  PROVE  UNCHANGED Memory!ahbVars \/ Memory!Leave(p)
  <1> DEFINE c == call[p]
             k == pos[p]
  <1>1. /\ Step(p) /\ UNCHANGED <<mem, f>> /\ Now(p)[1] = "get"
        /\ res' = [res EXCEPT ![p] = Append(@, f[Now(p)[2]])]
    BY DEF Get
  <1>2. DOMAIN res = Proc
    BY DEF IInv, TypeOK
  <1>3. /\ \A q \in Proc : q # p => ~Busy(q) /\ ~Busy(q)' /\ res'[q] = res[q]
        /\ call' = call /\ c \in Call /\ Busy(p)
        /\ k \in DOMAIN Program[c] /\ k \in 1..11
        /\ Len(Program[c]) = IF Width(c) = 0 THEN 8 ELSE 11
        /\ k < Len(Program[c]) => Busy(p)' /\ pos'[p] = k + 1
        /\ ~(k < Len(Program[c])) => ~Busy(p)' /\ at'[p] = "idle"
    BY <1>1, <1>2, StepMapped
  <1>4. \/ c.op = "read" /\ k = 8 /\ Now(p)[2] = 7 - (c.addr % 4)
        \/ c.op = "readl" /\ k \in 8..11 /\ Now(p)[2] = 15 - k
    BY <1>1, <1>3, KindFacts DEF Now
  <1>5. Past(p)
    BY <1>3, <1>4 DEF Past, Reads
  <1>6. CASE k < Len(Program[c])
    <2>1. Past(p)'
      BY <1>3, <1>4, <1>6 DEF Past, Reads
    <2>2. Answer(c)' = Answer(c)
      BY <1>1, <1>3 DEF Answer
    <2>3. MappedAt(p)' = MappedAt(p) /\ MappedRes(p)' = MappedRes(p)
      BY <1>3, <1>5, <2>1, <2>2 DEF MappedAt, MappedRes
    <2>4. QED
      BY <1>1, <1>3, <2>3, MapsToStutter
  <1>7. CASE ~(k < Len(Program[c]))
    <2>1. ~Busy(p)' /\ at'[p] = "idle"
      BY <1>3, <1>7
    <2>2. ~Past(p)'
      BY <2>1 DEF Past
    <2>3. res'[p] = Append(res[p], f[Now(p)[2]])
      BY <1>1, <1>2
    <2>4. res'[p] = Answer(c)
      <3>1. CASE c.op = "read"
        <4>1. ~(call[p].op = "readl" /\ pos[p] > 8)
          BY <3>1
        <4>2. res[p] = <<>>
          BY <1>3, <4>1 DEF IInv, Collected
        <4>3. Now(p)[2] = 7 - (c.addr % 4)
          BY <1>4, <3>1
        <4>4. res'[p] = <<f[7 - (c.addr % 4)]>>
          BY <2>3, <4>2, <4>3
        <4>5. QED
          BY <3>1, <4>4 DEF Answer
      <3>2. CASE c.op = "readl"
        <4>1. k = 11 /\ Now(p)[2] = 4
          BY <1>3, <1>4, <1>7, <3>2 DEF Width
        <4>2. res[p] = [b \in 1..3 |-> f[8 - b]]
          <5>1. k > 8 /\ k - 8 = 3
            BY <4>1
          <5>2. res[p] = [b \in 1..(k - 8) |-> f[8 - b]]
            BY <1>3, <3>2, <5>1 DEF IInv, Collected
          <5>3. QED
            BY <5>1, <5>2
        <4>3. Append([b \in 1..3 |-> f[8 - b]], f[7 - 3]) = [b \in 1..(3 + 1) |-> f[8 - b]]
          BY OneMore
        <4>4. 7 - 3 = 4 /\ 3 + 1 = 4
          OBVIOUS
        <4>5. res'[p] = [b \in 1..4 |-> f[8 - b]]
          BY <2>3, <4>1, <4>2, <4>3, <4>4
        <4>6. QED
          BY <3>2, <4>5 DEF Answer
      <3>3. QED
        BY <1>4, <3>1, <3>2
    <2>5. /\ MappedAt(p) # "idle" /\ MappedAt(p)' = "idle"
          /\ MappedRes(p)' = MappedRes(p)
      BY <1>5, <2>1, <2>2, <2>4 DEF MappedAt, MappedRes
    <2>6. QED
      BY <1>1, <1>3, <2>5, MapsToLeave
  <1>8. QED
    BY <1>6, <1>7

\* A killed tool leaves without its answer.
LEMMA KillMaps ==
  ASSUME IInv, IInv', NEW p \in Proc, Kill(p)
  PROVE  Memory!Leave(p)
  <1>1. /\ Busy(p) /\ at' = [at EXCEPT ![p] = "idle"]
        /\ res' = [res EXCEPT ![p] = <<>>] /\ UNCHANGED <<mem, call>>
    BY DEF Kill
  <1>2. at \in [Proc -> {"idle", "asked"}] /\ DOMAIN res = Proc
    BY DEF IInv, TypeOK
  <1>3. \A q \in Proc : q # p => at'[q] = at[q] /\ res'[q] = res[q]
    BY <1>1, <1>2
  <1>4. \A q \in Proc : q # p => ~Busy(q) /\ ~Busy(q)' /\ res'[q] = res[q]
    BY <1>1, <1>3, OthersIdle
  <1>5. at[p] # "idle" /\ at'[p] = "idle" /\ res'[p] = <<>>
    BY <1>1, <1>2 DEF Busy
  <1>6. ~Past(p)'
    BY <1>5 DEF Past, Busy
  <1>7. MappedAt(p) # "idle" /\ MappedAt(p)' = "idle" /\ MappedRes(p)' = <<>>
    BY <1>5, <1>6 DEF MappedAt, MappedRes
  <1>8. QED
    BY <1>1, <1>4, <1>7, MapsToLeave

\* A call begins.
LEMMA BeginMaps ==
  ASSUME IInv, IInv', NEW p \in Proc, Begin(p)
  PROVE  Memory!Ask(p)
  <1>1. /\ \A q \in Proc : ~Busy(q)
        /\ at' = [at EXCEPT ![p] = "asked"] /\ res' = [res EXCEPT ![p] = <<>>]
        /\ pos' = [pos EXCEPT ![p] = 1] /\ UNCHANGED mem
        /\ \E c \in Call : call' = [call EXCEPT ![p] = c]
    BY DEF Begin, Ask
  <1>2. at \in [Proc -> {"idle", "asked"}] /\ DOMAIN res = Proc /\ DOMAIN pos = Proc
    BY DEF IInv, TypeOK
  <1>3. \A q \in Proc : q # p => at'[q] = at[q] /\ res'[q] = res[q]
    BY <1>1, <1>2
  <1>4. \A q \in Proc : q # p => ~Busy(q) /\ ~Busy(q)' /\ res'[q] = res[q]
    BY <1>1, <1>3 DEF Busy
  <1>5. at[p] = "idle" /\ at'[p] = "asked" /\ res'[p] = <<>> /\ pos'[p] = 1
    BY <1>1, <1>2 DEF Busy
  <1>6. ~Past(p) /\ ~Past(p)'
    BY <1>5 DEF Past, Busy
  <1>7. MappedAt(p) = "idle" /\ MappedAt(p)' = "asked" /\ MappedRes(p)' = <<>>
    BY <1>5, <1>6 DEF MappedAt, MappedRes
  <1>8. /\ [q \in Proc |-> MappedAt(q)]' = [[q \in Proc |-> MappedAt(q)] EXCEPT ![p] = MappedAt(p)']
        /\ [q \in Proc |-> MappedRes(q)]' = [[q \in Proc |-> MappedRes(q)] EXCEPT ![p] = MappedRes(p)']
    BY <1>4, OneMapped
  <1>9. [q \in Proc |-> MappedAt(q)][p] = "idle"
    BY <1>7
  <1>10. QED
    BY <1>1, <1>7, <1>8, <1>9 DEF Memory!Ask, MappedAt, MappedRes

\* The BMC changes a byte whoever is in a call.
LEMMA BmcMaps ==
  ASSUME BmcStep
  PROVE  Memory!Bmc
  <1>1. UNCHANGED <<call, at, res, f, pos>> /\ \E o \in Own, v \in Val : mem' = [mem EXCEPT ![o[1]][o[2]] = v]
    BY DEF BmcStep, Bmc
  <1>2. \A q \in Proc : MappedAt(q)' = MappedAt(q) /\ MappedRes(q)' = MappedRes(q)
    BY <1>1 DEF MappedAt, MappedRes, Past, Busy, Answer
  <1>3. /\ [q \in Proc |-> MappedAt(q)]' = [q \in Proc |-> MappedAt(q)]
        /\ [q \in Proc |-> MappedRes(q)]' = [q \in Proc |-> MappedRes(q)]
    BY <1>2
  <1>4. QED
    BY <1>1, <1>3 DEF Memory!Bmc, MappedAt, MappedRes

\* At first nobody is in a call.
LEMMA InitMaps == BridgeInit => Memory!Init
  <1> SUFFICES ASSUME BridgeInit PROVE Memory!Init
    OBVIOUS
  <1>1. /\ mem \in Mem0 /\ call \in [Proc -> Call] /\ at = [p \in Proc |-> "idle"]
        /\ res = [p \in Proc |-> <<>>]
    BY DEF BridgeInit, Init
  <1>2. \A p \in Proc : MappedAt(p) = "idle" /\ MappedRes(p) = <<>>
    BY <1>1 DEF MappedAt, MappedRes, Past, Busy
  <1>3. /\ [p \in Proc |-> MappedAt(p)] = [p \in Proc |-> "idle"]
        /\ [p \in Proc |-> MappedRes(p)] = [p \in Proc |-> <<>>]
    BY <1>2
  <1>4. QED
    BY <1>1, <1>3 DEF Memory!Init, Memory!Byte4, MappedAt, MappedRes

\* Every call of the library is one access to the memory of the BMC, whoever
\* used the device before and wherever that run was killed.
THEOREM BridgeImplementsMemory == BridgeSpec => MemoryImplemented
  <1>1. BridgeInit => Memory!Init
    BY InitMaps
  <1>2. IInv /\ IInv' /\ [BridgeNext]_vars => [Memory!Next]_(Memory!ahbVars)
    <2> SUFFICES ASSUME IInv, IInv', [BridgeNext]_vars
                 PROVE  Memory!Next \/ UNCHANGED Memory!ahbVars
      OBVIOUS
    <2>1. CASE BmcStep
      BY <2>1, BmcMaps DEF Memory!Next
    <2>2. ASSUME NEW p \in Proc, Begin(p)
          PROVE  Memory!Next
      BY <2>2, BeginMaps DEF Memory!Next
    <2>3. ASSUME NEW p \in Proc, Enable(p) \/ SetLen(p) \/ Put(p)
          PROVE  UNCHANGED Memory!ahbVars
      BY <2>3, SetupMaps
    <2>4. ASSUME NEW p \in Proc, Fetch(p) \/ Store(p)
          PROVE  Memory!Next
      BY <2>4, FetchMaps, StoreMaps DEF Memory!Next
    <2>5. ASSUME NEW p \in Proc, Get(p) \/ Kill(p)
          PROVE  Memory!Next \/ UNCHANGED Memory!ahbVars
      BY <2>5, GetMaps, KillMaps DEF Memory!Next
    <2>6. CASE UNCHANGED vars
      <3>1. UNCHANGED <<mem, call, at, res, f, pos>>
        BY <2>6 DEF vars, ahbVars
      <3>2. \A q \in Proc : MappedAt(q)' = MappedAt(q) /\ MappedRes(q)' = MappedRes(q)
        BY <3>1 DEF MappedAt, MappedRes, Past, Busy, Answer
      <3>3. /\ [q \in Proc |-> MappedAt(q)]' = [q \in Proc |-> MappedAt(q)]
            /\ [q \in Proc |-> MappedRes(q)]' = [q \in Proc |-> MappedRes(q)]
        BY <3>2
      <3>4. UNCHANGED Memory!ahbVars
        BY <3>1, <3>3 DEF Memory!ahbVars, MappedAt, MappedRes
      <3>5. QED
        BY <3>4
    <2>7. QED
      BY <2>1, <2>2, <2>3, <2>4, <2>5, <2>6 DEF BridgeNext
  <1>3. QED
    BY <1>1, <1>2, BridgeCorrect, PTL DEF BridgeSpec, MemoryImplemented, Memory!Spec

-----------------------------------------------------------------------------
(* The sensors. *)

\* A run that starts has asked nothing.
LEMMA SensorsInitInv == SensorsInit => AnswersInv
  <1> SUFFICES ASSUME SensorsInit PROVE AnswersInv
    OBVIOUS
  <1>1. /\ DOMAIN level = Sensor
        /\ \A s \in Sensor : level[s] \in Raw[s]
        /\ addr = [peci |-> Boot, i2c |-> 0]
        /\ fire = [e \in Engine |-> FALSE] /\ busy = [e \in Engine |-> {}]
        /\ ans = [e \in Engine |-> 0] /\ err = FALSE
        /\ test \in Test /\ cur = 0 /\ pc = "addr" /\ low = 0
    BY DEF SensorsInit
  <1>2. Boot \in Nat
    BY DEF Boot
  <1>3. addr \in [Engine -> Nat]
    BY <1>1, <1>2 DEF Engine
  <1>4. fire \in [Engine -> BOOLEAN] /\ busy \in [Engine -> SUBSET Sensor] /\ ans \in [Engine -> Reg16]
    BY <1>1 DEF Reg16
  <1>5. cur \in 0..Len(test)
    <2>1. test \in Seq(Sensor)
      BY <1>1, BmcAssumption
    <2>2. QED
      BY <1>1, <2>1
  <1>6. SensorsTypeOK
    <2>0. err \in BOOLEAN
      BY <1>1, Zenon
    <2>1. low \in 0..255
      BY <1>1
    <2>2. pc \in {"addr", "fire", "fired", "busy", "data", "low", "high", "end"}
      BY <1>1
    <2>3. QED
      BY <1>1, <1>3, <1>4, <1>5, <2>0, <2>1, <2>2 DEF SensorsTypeOK
  <1>7. QED
    BY <1>1, <1>6 DEF AnswersInv, AnswerFresh, OnCourse, Addressed, Transferred, Measured, LowByte

\* The sensors of a test.
LEMMA TestFacts ==
  ASSUME SensorsTypeOK
  PROVE  /\ test \in Seq(Sensor) /\ Len(test) \in Nat /\ cur \in 0..Len(test)
         /\ cur > 0 => test[cur] \in Sensor
         /\ cur < Len(test) => test[cur + 1] \in Sensor
  <1>1. test \in Seq(Sensor) /\ cur \in 0..Len(test)
    BY BmcAssumption DEF SensorsTypeOK
  <1>2. Len(test) \in Nat /\ \A i \in 1..Len(test) : test[i] \in Sensor
    BY <1>1
  <1>3. (cur > 0 => cur \in 1..Len(test)) /\ (cur < Len(test) => cur + 1 \in 1..Len(test))
    BY <1>1, <1>2
  <1>4. QED
    BY <1>1, <1>2, <1>3

\* An engine and its target.
LEMMA TargetFacts ==
  ASSUME AnswersInv
  PROVE  /\ Which \in Engine
         /\ pc \in {"addr", "fire", "fired", "busy", "data"} => Target \in Sensor /\ Target \in Nat
         /\ pc \in {"fired", "data"} => cur > 0 /\ Target = test[cur]
  <1>1. Which \in Engine
    BY DEF Which, Engine
  <1>2. Boot \in Sensor /\ Sensor \subseteq Nat
    BY BmcAssumption DEF Sensor
  <1>3. (cur > 0 => test[cur] \in Sensor) /\ cur \in Nat
    BY TestFacts DEF AnswersInv
  <1>4. pc \in {"fired", "data"} => cur > 0
    BY DEF AnswersInv, OnCourse
  <1>5. Target \in Sensor
    BY <1>2, <1>3 DEF Target
  <1>6. cur > 0 => Target = test[cur]
    BY <1>3 DEF Target
  <1>7. QED
    BY <1>1, <1>2, <1>4, <1>5, <1>6

\* A reading that ends leaves the next one well begun.
LEMMA Next1Inv ==
  ASSUME AnswersInv, NEW value, Next1(value), UNCHANGED <<level, engines, test, low>>
  PROVE  AnswersInv'
  <1>1. UNCHANGED <<level, addr, fire, busy, ans, err, test, low>>
    BY DEF engines
  <1>2. /\ test \in Seq(Sensor) /\ Len(test) \in Nat /\ cur \in 0..Len(test)
        /\ cur < Len(test) => test[cur + 1] \in Sensor
    BY TestFacts DEF AnswersInv
  <1>3. CASE cur < Len(test)
    <2>1. /\ cur' = cur + 1 /\ pc' = IF test[cur + 1] \in Input THEN "low" ELSE "addr"
          /\ had' = {level[test[cur + 1]]}
      BY <1>3 DEF Next1
    <2>2. cur' \in 0..Len(test) /\ cur' > 0
      BY <1>2, <1>3, <2>1
    <2>3. test'[cur'] = test[cur + 1] /\ level[test[cur + 1]] \in Raw[test[cur + 1]]
      BY <1>1, <1>2, <1>3, <2>1 DEF AnswersInv, SensorsTypeOK
    <2>4. SensorsTypeOK'
      BY <1>1, <2>1, <2>2 DEF AnswersInv, SensorsTypeOK
    <2>5. OnCourse'
      BY <1>1, <2>1, <2>2, <2>3 DEF OnCourse
    <2>6. Measured'
      BY <1>1, <2>1, <2>3 DEF Measured
    <2>7. AnswerFresh' /\ Addressed' /\ Transferred' /\ LowByte'
      BY <2>1 DEF AnswerFresh, Addressed, Transferred, LowByte
    <2>8. QED
      BY <2>4, <2>5, <2>6, <2>7 DEF AnswersInv
  <1>4. CASE ~(cur < Len(test))
    <2>1. cur' = cur /\ pc' = "end" /\ had' = had
      BY <1>4 DEF Next1
    <2>2. SensorsTypeOK'
      BY <1>1, <2>1 DEF AnswersInv, SensorsTypeOK
    <2>3. Measured'
      BY <1>1, <2>1 DEF AnswersInv, Measured
    <2>4. OnCourse' /\ AnswerFresh' /\ Addressed' /\ Transferred' /\ LowByte'
      BY <2>1 DEF OnCourse, AnswerFresh, Addressed, Transferred, LowByte
    <2>5. QED
      BY <2>2, <2>3, <2>4 DEF AnswersInv
  <1>5. QED
    BY <1>3, <1>4

\* What the sensors measure changes; what it was is kept.
LEMMA DriftInv ==
  ASSUME AnswersInv, Drift
  PROVE  AnswersInv'
  <1>1. PICK s \in Sensor : \E v \in Raw[s] :
          /\ level' = [level EXCEPT ![s] = v]
          /\ had' = IF cur > 0 /\ test[cur] = s THEN had \cup {v} ELSE had
    BY DEF Drift
  <1>2. PICK v \in Raw[s] :
          /\ level' = [level EXCEPT ![s] = v]
          /\ had' = IF cur > 0 /\ test[cur] = s THEN had \cup {v} ELSE had
    BY <1>1
  <1>3. UNCHANGED <<addr, fire, busy, ans, err, test, cur, pc, low>>
    BY DEF Drift, engines
  <1>4. had \subseteq had'
    BY <1>2
  <1>5. DOMAIN level = Sensor /\ \A x \in Sensor : level[x] \in Raw[x]
    BY DEF AnswersInv, SensorsTypeOK
  <1>6. \A x \in Sensor : level'[x] = IF x = s THEN v ELSE level[x]
    BY <1>2, <1>5
  <1>7. SensorsTypeOK'
    <2>1. DOMAIN level' = Sensor
      BY <1>2, <1>5
    <2>2. \A x \in Sensor : level'[x] \in Raw[x]
      BY <1>5, <1>6
    <2>3. QED
      BY <1>3, <2>1, <2>2 DEF AnswersInv, SensorsTypeOK
  <1>8. Measured'
    <2>1. cur > 0 => test[cur] \in Sensor
      BY TestFacts DEF AnswersInv
    <2>2. ASSUME cur > 0
          PROVE  level'[test[cur]] \in had' /\ had' \subseteq Raw[test[cur]]
      <3>1. level[test[cur]] \in had /\ had \subseteq Raw[test[cur]]
        BY <2>2 DEF AnswersInv, Measured
      <3>2. CASE test[cur] = s
        BY <1>2, <1>6, <2>1, <2>2, <3>1, <3>2
      <3>3. CASE test[cur] # s
        BY <1>2, <1>6, <2>1, <2>2, <3>1, <3>3
      <3>4. QED
        BY <3>2, <3>3
    <2>3. QED
      BY <1>3, <2>2 DEF Measured
  <1>9. OnCourse' /\ Addressed'
    BY <1>3 DEF AnswersInv, OnCourse, Addressed, Which, Target
  <1>10. Transferred' /\ AnswerFresh'
    BY <1>3, <1>4 DEF AnswersInv, Transferred, AnswerFresh, Which, Target
  <1>11. LowByte'
    BY <1>3, <1>4 DEF AnswersInv, LowByte
  <1>12. QED
    BY <1>7, <1>8, <1>9, <1>10, <1>11 DEF AnswersInv

\* An engine that takes an address at this point takes the tool's.
LEMMA AcceptsInv ==
  ASSUME AnswersInv, NEW e \in Engine, EngineAccepts(e)
  PROVE  AnswersInv'
  <1>1. /\ fire[e] /\ busy[e] = {} /\ addr[e] \in (IF e = "peci" THEN Cpu ELSE Chip7)
        /\ fire' = [fire EXCEPT ![e] = FALSE]
        /\ busy' = [busy EXCEPT ![e] = {addr[e]}]
        /\ UNCHANGED <<level, addr, ans, err, test, cur, pc, low, out, had>>
    BY DEF EngineAccepts, toolVars
  <1>2. SensorsTypeOK'
    <2>1. addr[e] \in Sensor
      BY <1>1 DEF Sensor
    <2>2. busy' \in [Engine -> SUBSET Sensor]
      BY <1>1, <2>1 DEF AnswersInv, SensorsTypeOK
    <2>3. fire' \in [Engine -> BOOLEAN]
      BY <1>1 DEF AnswersInv, SensorsTypeOK
    <2>4. QED
      BY <1>1, <2>2, <2>3 DEF AnswersInv, SensorsTypeOK
  <1>3. Transferred'
    <2>1. DOMAIN fire = Engine /\ DOMAIN busy = Engine
      BY DEF AnswersInv, SensorsTypeOK
    <2>2. Which' = Which /\ Target' = Target
      BY <1>1 DEF Which, Target
    <2>3. CASE Which = e
      <3>1. ~fire'[Which] /\ busy'[Which] = {addr[Which]}
        BY <1>1, <2>1, <2>3
      <3>2. pc \in {"fired", "busy", "data"} /\ cur > 0 => pc = "fired"
        BY <1>1, <2>3 DEF AnswersInv, Transferred
      <3>3. pc = "fired" => addr[Which] = Target
        BY DEF AnswersInv, Addressed
      <3>4. QED
        BY <1>1, <2>2, <3>1, <3>2, <3>3 DEF Transferred
    <2>4. CASE Which # e
      <3>1. Which \in Engine
        BY TargetFacts
      <3>2. (fire'[Which] <=> fire[Which]) /\ busy'[Which] = busy[Which]
        BY <1>1, <2>1, <2>4, <3>1
      <3>3. QED
        BY <1>1, <2>2, <3>2 DEF AnswersInv, Transferred
    <2>5. QED
      BY <2>3, <2>4
  <1>4. OnCourse' /\ Addressed'
    BY <1>1 DEF AnswersInv, OnCourse, Addressed, Which, Target
  <1>5. AnswerFresh' /\ Measured' /\ LowByte'
    BY <1>1 DEF AnswersInv, AnswerFresh, Measured, LowByte, Which
  <1>6. QED
    BY <1>2, <1>3, <1>4, <1>5 DEF AnswersInv

\* What it answers is what the sensor measures now.
LEMMA AnswersAnswerInv ==
  ASSUME AnswersInv, NEW e \in Engine, EngineAnswers(e)
  PROVE  AnswersInv'
  <1>1. PICK a \in busy[e] : ans' = [ans EXCEPT ![e] = level[a]]
    BY DEF EngineAnswers
  <1>2. /\ busy' = [busy EXCEPT ![e] = {}] /\ err' = IF e = "peci" THEN FALSE ELSE err
        /\ UNCHANGED <<level, addr, fire, test, cur, pc, low, out, had>>
    BY DEF EngineAnswers, toolVars
  <1>3. busy \in [Engine -> SUBSET Sensor] /\ ans \in [Engine -> Reg16] /\ err \in BOOLEAN
    BY DEF AnswersInv, SensorsTypeOK
  <1>4. SensorsTypeOK'
    <2>1. a \in Sensor
      BY <1>1, <1>3
    <2>2. level[a] \in Reg16
      <3>1. level[a] \in Raw[a]
        BY <2>1 DEF AnswersInv, SensorsTypeOK
      <3>2. Raw[a] \subseteq Reg16
        BY <2>1, BmcAssumption
      <3>3. QED
        BY <3>1, <3>2
    <2>3. ans' \in [Engine -> Reg16]
      BY <1>1, <1>3, <2>2
    <2>4. busy' \in [Engine -> SUBSET Sensor]
      BY <1>2, <1>3
    <2>5. err' \in BOOLEAN
      BY <1>2, <1>3
    <2>6. QED
      BY <1>2, <2>3, <2>4, <2>5 DEF AnswersInv, SensorsTypeOK
  <1>5. Which' = Which /\ Target' = Target /\ Which \in Engine
    BY <1>2, TargetFacts DEF Which, Target
  <1>6. ASSUME Which = e
        PROVE  Transferred' /\ AnswerFresh'
    <2>1. busy'[Which] = {} /\ ans'[Which] = level[a] /\ a \in busy[Which] /\ busy[Which] # {}
      BY <1>1, <1>2, <1>3, <1>6
    <2>2. pc # "data"
      <3>1. pc = "data" => cur > 0
        BY TargetFacts
      <3>2. QED
        BY <2>1, <3>1 DEF AnswersInv, Transferred
    <2>3. Transferred'
      <3>1. ASSUME cur > 0, pc \in {"fired", "busy", "data"}, ~(pc = "fired" /\ fire[Which])
            PROVE  ~fire[Which] /\ ans'[Which] \in had
        <4>1. ~fire[Which] /\ busy[Which] = {Target}
          BY <2>1, <3>1 DEF AnswersInv, Transferred
        <4>2. a = Target /\ Target = test[cur]
          BY <2>1, <3>1, <4>1 DEF Target
        <4>3. level[test[cur]] \in had
          BY <3>1 DEF AnswersInv, Measured
        <4>4. QED
          BY <2>1, <4>1, <4>2, <4>3
      <3>2. QED
        BY <1>2, <1>5, <2>1, <3>1 DEF Transferred
    <2>4. AnswerFresh'
      BY <1>2, <2>2 DEF AnswerFresh
    <2>5. QED
      BY <2>3, <2>4
  <1>7. ASSUME Which # e
        PROVE  Transferred' /\ AnswerFresh'
    <2>1. /\ busy'[Which] = busy[Which] /\ ans'[Which] = ans[Which]
          /\ Which = "peci" => err' = err
      BY <1>1, <1>2, <1>3, <1>5, <1>7
    <2>2. QED
      BY <1>2, <1>5, <2>1 DEF AnswersInv, Transferred, AnswerFresh
  <1>8. OnCourse' /\ Addressed' /\ Measured' /\ LowByte'
    BY <1>2, <1>5 DEF AnswersInv, OnCourse, Addressed, Measured, LowByte
  <1>9. QED
    BY <1>4, <1>6, <1>7, <1>8 DEF AnswersInv

\* A transfer that fails is of the sensor asked, or of another engine.
LEMMA RefuseInv ==
  ASSUME AnswersInv, Refuse
  PROVE  AnswersInv'
  <1>1. /\ busy["peci"] # {} /\ busy' = [busy EXCEPT !["peci"] = {}] /\ err' = TRUE
        /\ UNCHANGED <<level, addr, fire, ans, test, cur, pc, low, out, had>>
    BY DEF Refuse, toolVars
  <1>2. busy \in [Engine -> SUBSET Sensor]
    BY DEF AnswersInv, SensorsTypeOK
  <1>3. SensorsTypeOK'
    <2>1. busy' \in [Engine -> SUBSET Sensor] /\ err' \in BOOLEAN
      BY <1>1, <1>2
    <2>2. QED
      BY <1>1, <2>1 DEF AnswersInv, SensorsTypeOK
  <1>4. Which' = Which /\ Target' = Target /\ Which \in Engine
    BY <1>1, TargetFacts DEF Which, Target
  <1>5. busy'[Which] = IF Which = "peci" THEN {} ELSE busy[Which]
    BY <1>1, <1>2, <1>4
  <1>6. Transferred' /\ AnswerFresh'
    BY <1>1, <1>4, <1>5 DEF AnswersInv, Transferred, AnswerFresh
  <1>7. OnCourse' /\ Addressed' /\ Measured' /\ LowByte'
    BY <1>1, <1>4 DEF AnswersInv, OnCourse, Addressed, Measured, LowByte
  <1>8. QED
    BY <1>3, <1>6, <1>7 DEF AnswersInv

\* One lemma per step of the tool: the engine holds the address.
LEMMA SetAddressInv ==
  ASSUME AnswersInv, SetAddress
  PROVE  AnswersInv'
  <1>1. /\ pc = "addr" /\ pc' = "fire" /\ addr' = [addr EXCEPT ![Which] = Target]
        /\ UNCHANGED <<level, fire, busy, ans, err, test, cur, low, out, had>>
    BY DEF SetAddress, At
  <1>2. Which' = Which /\ Target' = Target /\ Which \in Engine /\ Target \in Nat
    BY <1>1, TargetFacts DEF Which, Target
  <1>3. addr \in [Engine -> Nat]
    BY DEF AnswersInv, SensorsTypeOK
  <1>4. SensorsTypeOK'
    <2>1. addr' \in [Engine -> Nat]
      BY <1>1, <1>2, <1>3
    <2>2. QED
      BY <1>1, <2>1 DEF AnswersInv, SensorsTypeOK
  <1>5. addr'[Which] = Target
    BY <1>1, <1>2, <1>3
  <1>6. Addressed' /\ OnCourse'
    BY <1>1, <1>2, <1>5 DEF AnswersInv, Addressed, OnCourse
  <1>7. Transferred' /\ AnswerFresh' /\ LowByte' /\ Measured'
    BY <1>1 DEF AnswersInv, Transferred, AnswerFresh, LowByte, Measured
  <1>8. QED
    BY <1>4, <1>6, <1>7 DEF AnswersInv

\* From here on the engine takes the address that the tool has set.
LEMMA FireInv ==
  ASSUME AnswersInv, Fire
  PROVE  AnswersInv'
  <1>1. /\ pc = "fire" /\ fire' = [fire EXCEPT ![Which] = TRUE]
        /\ pc' = IF cur = 0 THEN "busy" ELSE "fired"
        /\ UNCHANGED <<level, addr, busy, ans, err, test, cur, low, out, had>>
    BY DEF Fire, At
  <1>2. Which' = Which /\ Target' = Target /\ Which \in Engine
    BY <1>1, TargetFacts DEF Which, Target
  <1>3. fire \in [Engine -> BOOLEAN] /\ cur \in Nat
    BY TestFacts DEF AnswersInv, SensorsTypeOK
  <1>4. fire' \in [Engine -> BOOLEAN] /\ fire'[Which]
    BY <1>1, <1>2, <1>3
  <1>5. SensorsTypeOK'
    BY <1>1, <1>4 DEF AnswersInv, SensorsTypeOK
  <1>6. Transferred'
    BY <1>1, <1>2, <1>4 DEF Transferred
  <1>7. Addressed' /\ OnCourse'
    BY <1>1, <1>2, <1>3 DEF AnswersInv, Addressed, OnCourse
  <1>8. AnswerFresh' /\ LowByte' /\ Measured'
    BY <1>1 DEF AnswersInv, AnswerFresh, LowByte, Measured
  <1>9. QED
    BY <1>5, <1>6, <1>7, <1>8 DEF AnswersInv

\* It has taken it.
LEMMA FiredInv ==
  ASSUME AnswersInv, Fired
  PROVE  AnswersInv'
  <1>1. /\ pc = "fired" /\ ~fire[Which] /\ pc' = "busy"
        /\ UNCHANGED <<level, addr, fire, busy, ans, err, test, cur, low, out, had>>
    BY DEF Fired, At, engines
  <1>2. Which' = Which /\ Target' = Target
    BY <1>1 DEF Which, Target
  <1>3. SensorsTypeOK'
    BY <1>1 DEF AnswersInv, SensorsTypeOK
  <1>4. Transferred'
    BY <1>1, <1>2 DEF AnswersInv, Transferred
  <1>5. Addressed' /\ OnCourse'
    BY <1>1, <1>2 DEF AnswersInv, Addressed, OnCourse
  <1>6. AnswerFresh' /\ LowByte' /\ Measured'
    BY <1>1 DEF AnswersInv, AnswerFresh, LowByte, Measured
  <1>7. QED
    BY <1>3, <1>4, <1>5, <1>6 DEF AnswersInv

\* It is done with it.
LEMMA IdleInv ==
  ASSUME AnswersInv, Idle
  PROVE  AnswersInv'
  <1>1. /\ pc = "busy" /\ busy[Which] = {}
        /\ UNCHANGED <<level, engines, test, low>>
    BY DEF Idle, At
  <1>2. CASE cur = 0
    <2>1. Next1(<<>>)
      BY <1>2 DEF Idle
    <2>2. QED
      BY <1>1, <2>1, Next1Inv
  <1>3. CASE cur # 0
    <2>1. pc' = "data" /\ UNCHANGED <<level, addr, fire, busy, ans, err, test, cur, low, out, had>>
      BY <1>3 DEF Idle, engines
    <2>2. Which' = Which /\ Target' = Target /\ cur \in Nat /\ cur > 0
      BY <1>3, <2>1, TestFacts DEF Which, Target, AnswersInv
    <2>3. SensorsTypeOK'
      BY <2>1 DEF AnswersInv, SensorsTypeOK
    <2>4. Transferred' /\ AnswerFresh'
      <3>1. ~fire[Which] /\ (ans[Which] \in had \/ (Which = "peci" /\ err))
        <4>1. {Target} # {}
          OBVIOUS
        <4>2. QED
          BY <1>1, <2>2, <4>1 DEF AnswersInv, Transferred
      <3>2. QED
        BY <1>1, <2>1, <2>2, <3>1 DEF Transferred, AnswerFresh
    <2>5. Addressed' /\ OnCourse'
      BY <1>1, <2>1, <2>2 DEF AnswersInv, Addressed, OnCourse
    <2>6. LowByte' /\ Measured'
      BY <2>1 DEF AnswersInv, LowByte, Measured
    <2>7. QED
      BY <2>3, <2>4, <2>5, <2>6 DEF AnswersInv
  <1>4. QED
    BY <1>2, <1>3

\* The low byte is one the input has now.
LEMMA FetchLowInv ==
  ASSUME AnswersInv, FetchLow
  PROVE  AnswersInv'
  <1>1. /\ pc = "low" /\ low' = level[test[cur]] % 256 /\ pc' = "high"
        /\ UNCHANGED <<level, addr, fire, busy, ans, err, test, cur, out, had>>
    BY DEF FetchLow, At, engines
  <1>2. cur > 0 /\ test[cur] \in Input
    BY <1>1 DEF AnswersInv, OnCourse
  <1>3. level[test[cur]] \in Nat
    <2>1. test[cur] \in Sensor
      BY <1>2, TestFacts DEF AnswersInv
    <2>2. level[test[cur]] \in Raw[test[cur]] /\ Raw[test[cur]] \subseteq Reg16
      BY <2>1, BmcAssumption DEF AnswersInv, SensorsTypeOK
    <2>3. level[test[cur]] \in Reg16
      BY <2>2
    <2>4. Reg16 \subseteq Nat
      BY DEF Reg16
    <2>5. QED
      BY <2>3, <2>4
  <1>4. SensorsTypeOK'
    <2>1. low' \in 0..255
      BY <1>1, <1>3
    <2>2. QED
      BY <1>1, <2>1 DEF AnswersInv, SensorsTypeOK
  <1>5. LowByte'
    <2>1. level[test[cur]] \in had
      BY <1>2 DEF AnswersInv, Measured
    <2>2. QED
      BY <1>1, <2>1 DEF LowByte
  <1>6. OnCourse' /\ Addressed' /\ Transferred' /\ AnswerFresh'
    BY <1>1, <1>2 DEF OnCourse, Addressed, Transferred, AnswerFresh
  <1>7. Measured'
    BY <1>1 DEF AnswersInv, Measured
  <1>8. QED
    BY <1>4, <1>5, <1>6, <1>7 DEF AnswersInv

\* Another run has asked nothing either, whatever the engines still do.
LEMMA SensorsAgainInv ==
  ASSUME AnswersInv, Again
  PROVE  AnswersInv'
  <1>1. /\ test' \in Test /\ cur' = 0 /\ pc' = "addr" /\ had' = {}
        /\ UNCHANGED <<level, addr, fire, busy, ans, err, low>>
    BY DEF Again, engines
  <1>2. cur' \in 0..Len(test')
    <2>1. test' \in Seq(Sensor)
      BY <1>1, BmcAssumption
    <2>2. QED
      BY <1>1, <2>1
  <1>3. SensorsTypeOK'
    BY <1>1, <1>2 DEF AnswersInv, SensorsTypeOK
  <1>4. QED
    BY <1>1, <1>3 DEF AnswersInv, AnswerFresh, OnCourse, Addressed, Transferred, Measured, LowByte

\* An answer that a reading returns is of the sensor that it asked, and of no
\* earlier moment than the beginning of the reading, whatever runs were killed
\* before and whatever transfers they left in the engines.
THEOREM AnswersCorrect == SensorsSpec => []AnswersInv
  <1>1. AnswersInv /\ [SensorsNext]_sensorsVars => AnswersInv'
    <2> SUFFICES ASSUME AnswersInv, [SensorsNext]_sensorsVars PROVE AnswersInv'
      OBVIOUS
    <2>1. CASE Drift \/ Refuse \/ Again
      BY <2>1, DriftInv, RefuseInv, SensorsAgainInv
    <2>2. CASE SetAddress \/ Fire \/ Fired \/ Idle \/ FetchLow
      BY <2>2, SetAddressInv, FireInv, FiredInv, IdleInv, FetchLowInv
    <2>3. CASE FetchData
      BY <2>3, Next1Inv DEF FetchData
    <2>4. CASE FetchHigh
      BY <2>4, Next1Inv DEF FetchHigh
    <2>5. ASSUME NEW e \in Engine, EngineAccepts(e) \/ EngineAnswers(e)
          PROVE  AnswersInv'
      BY <2>5, AcceptsInv, AnswersAnswerInv
    <2>6. CASE UNCHANGED sensorsVars
      <3>1. UNCHANGED <<level, addr, fire, busy, ans, err, test, cur, pc, low, out, had>>
        BY <2>6 DEF sensorsVars, engines, toolVars
      <3>2. SensorsTypeOK'
        BY <3>1 DEF AnswersInv, SensorsTypeOK
      <3>3. OnCourse' /\ Addressed' /\ Transferred' /\ AnswerFresh'
        BY <3>1 DEF AnswersInv, OnCourse, Addressed, Transferred, AnswerFresh, Which, Target
      <3>4. Measured' /\ LowByte'
        BY <3>1 DEF AnswersInv, Measured, LowByte
      <3>5. QED
        BY <3>2, <3>3, <3>4 DEF AnswersInv
    <2>7. QED
      BY <2>1, <2>2, <2>3, <2>4, <2>5, <2>6 DEF SensorsNext, Tool
  <1>2. QED
    BY <1>1, SensorsInitInv, PTL DEF SensorsSpec

\* What peci_read makes of a register is at most two degrees too much.
LEMMA DegreesNear ==
  ASSUME NEW raw \in Negative
  PROVE  64 * Degrees(raw) \in (Exact(raw) + 1)..(Exact(raw) + 128)
  <1>1. raw \in Int /\ 32768 <= raw /\ raw <= 65535
    BY DEF Negative
  <1>2. Tjmax \in Nat
    BY BmcAssumption
  <1>3. PICK q \in Int : q = (65535 - raw) \div 64
    BY <1>1
  <1>4. 0 <= q /\ q < 512 /\ 64 * q <= 65535 - raw /\ 65535 - raw < 64 * q + 64
    BY <1>1, <1>3
  <1>5. q % 512 = q
    BY <1>4
  <1>6. Degrees(raw) = Tjmax - q + 1
    BY <1>3, <1>5 DEF Degrees
  <1>7. Exact(raw) = 64 * Tjmax + (raw - 65536)
    BY <1>1 DEF Exact, Signed
  <1>8. QED
    BY <1>1, <1>2, <1>4, <1>6, <1>7

\* Two bytes put together are the bytes again.
LEMMA TwoBytes ==
  ASSUME NEW l \in 0..255, NEW h \in Nat
  PROVE  (l + 256 * h) % 256 = l /\ (l + 256 * h) \div 256 = h
  OBVIOUS

\* Of a 16-bit register, the bits 8 and 9 are the high byte of the ten bits,
\* and the low byte is the same.
LEMMA TenBits ==
  ASSUME NEW v \in Reg16
  PROVE  /\ (v \div 256) % 4 = (v % 1024) \div 256
         /\ (v % 1024) % 256 = v % 256
  <1> DEFINE q == v \div 1024
             r == v % 1024
             h == r \div 256
             l == r % 256
  <1> v \in Nat
    BY SMTT(20) DEF Reg16
  <1>1. q \in Nat /\ r \in 0..1023 /\ v = 1024 * q + r
    OBVIOUS
  <1>2. h \in 0..3 /\ l \in 0..255 /\ r = 256 * h + l
    BY <1>1
  <1> HIDE DEF q, r, h, l
  <1>3. v = 256 * (4 * q + h) + l
    BY <1>1, <1>2
  <1>4. v \div 256 = 4 * q + h /\ v % 256 = l
    BY <1>1, <1>2, <1>3
  <1>5. (4 * q + h) % 4 = h
    BY <1>1, <1>2
  <1>6. QED
    BY <1>4, <1>5 DEF h, l, r

LEMMA HighByteValue ==
  ASSUME NEW s, NEW v \in Reg16
  PROVE  /\ HighByte(s, v) \in Nat
         /\ HighByte(s, v) = Value(s, v) \div 256
         /\ Value(s, v) % 256 = v % 256
  <1>1. (v \div 256) % 4 \in Nat /\ v \div 256 \in Nat
    <2>1. v \in Nat
      BY SMTT(20) DEF Reg16
    <2>2. v \div 256 \in Nat
      BY <2>1
    <2>3. QED
      BY <2>2
  <1>2. QED
    BY <1>1, TenBits DEF HighByte, Value

\* A fan that is returned has a low and a high byte that its register had
\* during the reading, a voltage two that the ten bits of its converter had,
\* and a CPU's temperature is near one that it had, whatever the values in the
\* registers.
THEOREM ReadingsNear == SensorsSpec => ReadingNear
  <1> DEFINE Near == out' # out /\ out' # <<>> =>
               CASE pc = "high" -> /\ \E v \in had : out'[1] % 256 = Value(test[cur], v) % 256
                                   /\ \E v \in had : out'[1] \div 256 = Value(test[cur], v) \div 256
                 [] pc = "data" /\ Which = "peci" /\ out' # <<0>> ->
                      \E v \in had : 64 * out'[1] \in (Exact(v) + 1)..(Exact(v) + 128)
                 [] OTHER -> TRUE
  <1>1. ASSUME AnswersInv, FetchHigh
        PROVE  Near
    <2>1. pc = "high" /\ out' = <<low + 256 * HighByte(test[cur], level[test[cur]])>>
      BY <1>1 DEF FetchHigh, At, Next1
    <2>2. cur > 0 /\ test[cur] \in Sensor
      BY <1>1, <2>1, TestFacts DEF AnswersInv, OnCourse
    <2>3. level[test[cur]] \in had
      BY <1>1, <2>2 DEF AnswersInv, Measured
    <2>4. Raw[test[cur]] \subseteq Reg16
      BY <2>2, BmcAssumption
    <2>5. had \subseteq Reg16
      BY <1>1, <2>2, <2>4 DEF AnswersInv, Measured
    <2>6. low \in 0..255 /\ \E v \in had : low = v % 256
      BY <1>1, <2>1 DEF AnswersInv, SensorsTypeOK, LowByte
    <2>7. \E v \in had : low = Value(test[cur], v) % 256
      BY <2>5, <2>6, HighByteValue
    <2>8. /\ HighByte(test[cur], level[test[cur]]) \in Nat
          /\ HighByte(test[cur], level[test[cur]]) = Value(test[cur], level[test[cur]]) \div 256
      BY <2>3, <2>5, HighByteValue
    <2>9. /\ out'[1] % 256 = low
          /\ out'[1] \div 256 = Value(test[cur], level[test[cur]]) \div 256
      BY <2>1, <2>6, <2>8, TwoBytes
    <2>10. QED
      BY <2>1, <2>3, <2>7, <2>9
  <1>2. ASSUME AnswersInv, FetchData
        PROVE  Near
    <2>1. pc = "data"
      BY <1>2 DEF FetchData, At
    <2>2. Which = "peci" /\ out' # <<0>> =>
            \E v \in had : 64 * out'[1] \in (Exact(v) + 1)..(Exact(v) + 128)
      <3>1. HAVE Which = "peci" /\ out' # <<0>>
      <3>2. ~err /\ out' = <<Degrees(ans["peci"])>>
        BY <1>2, <3>1 DEF FetchData, Next1
      <3>3. ans["peci"] \in had
        BY <1>2, <2>1, <3>1, <3>2 DEF AnswersInv, AnswerFresh
      <3>4. cur > 0
        BY <1>2, <2>1 DEF AnswersInv, OnCourse
      <3>5. test[cur] \in Cpu
        <4>1. cur # 0
          BY <1>2, <3>4, TestFacts DEF AnswersInv
        <4>2. QED
          BY <3>1, <4>1 DEF Which
      <3>6. ans["peci"] \in Negative
        <4>1. had \subseteq Raw[test[cur]]
          BY <1>2, <3>4 DEF AnswersInv, Measured
        <4>2. Raw[test[cur]] \subseteq Negative
          BY <3>5, BmcAssumption
        <4>3. QED
          BY <3>3, <4>1, <4>2
      <3>7. 64 * Degrees(ans["peci"]) \in (Exact(ans["peci"]) + 1)..(Exact(ans["peci"]) + 128)
        BY <3>6, DegreesNear
      <3>8. out'[1] = Degrees(ans["peci"])
        BY <3>2
      <3>9. QED
        BY <3>3, <3>7, <3>8
    <2>3. QED
      BY <2>1, <2>2
  <1>3. ASSUME SensorsNext, ~FetchHigh, ~FetchData
        PROVE  Near
    <2>1. CASE Idle
      BY <2>1 DEF Idle, At
    <2>2. CASE Again
      BY <2>2 DEF Again
    <2>3. CASE Drift \/ Refuse \/ SetAddress \/ Fire \/ Fired \/ FetchLow
      BY <2>3 DEF Drift, Refuse, SetAddress, Fire, Fired, FetchLow, toolVars
    <2>4. ASSUME NEW e \in Engine, EngineAccepts(e) \/ EngineAnswers(e)
          PROVE  out' = out
      BY <2>4 DEF EngineAccepts, EngineAnswers, toolVars
    <2>5. QED
      BY <1>3, <2>1, <2>2, <2>3, <2>4 DEF SensorsNext, Tool
  <1>4. AnswersInv /\ [SensorsNext]_sensorsVars => [Near]_sensorsVars
    BY <1>1, <1>2, <1>3
  <1> HIDE DEF Near
  <1>5. SensorsSpec => [][Near]_sensorsVars
    BY <1>4, AnswersCorrect, PTL DEF SensorsSpec
  <1>6. QED
    BY <1>5 DEF ReadingNear, Near
=============================================================================
