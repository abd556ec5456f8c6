-------------------------- MODULE LoopbackProofs --------------------------
(***************************************************************************)
(* Proofs about Loopback: the verdict of the test is right for every list  *)
(* of pairs, every pull, every fault and every state of the pins before.   *)
(***************************************************************************)
EXTENDS Loopback, TLAPS

\* The two pins of a pair are different and belong to no other pair.
LEMMA PairFacts ==
  ASSUME NEW m \in DOMAIN Pairs, NEW a \in 1..2
  PROVE  /\ Pairs[m][a] \in Pin /\ Pairs[m][a] \in 0..95
         /\ Pairs[m][1] # Pairs[m][2]
         /\ Wire(Pairs[m][a]) =
              IF m \in fault.open THEN {Pairs[m][a]} ELSE {Pairs[m][1], Pairs[m][2]}
  <1>1. Pairs[m] \in (0..95) \X (0..95)
    BY LoopbackAssumption
  <1>2. Pairs[m][a] \in 0..95 /\ Pairs[m][a] \in {Pairs[m][1], Pairs[m][2]}
    BY <1>1
  <1>3. Pairs[m][a] \in Pin
    BY <1>2 DEF Pin
  <1>4. Pairs[m][1] # Pairs[m][2]
    BY LoopbackAssumption
  <1>5. \A k \in DOMAIN Pairs : Pairs[m][a] \in {Pairs[k][1], Pairs[k][2]} => k = m
    BY LoopbackAssumption
  <1>6. m = CHOOSE k \in DOMAIN Pairs : Pairs[m][a] \in {Pairs[k][1], Pairs[k][2]}
    BY <1>2, <1>5
  <1>7. Wire(Pairs[m][a]) =
          IF m \in fault.open THEN {Pairs[m][a]} ELSE {Pairs[m][1], Pairs[m][2]}
    BY <1>6 DEF Wire
  <1>8. QED
    BY <1>2, <1>3, <1>4, <1>7

\* The pin a call drives, the pin it reads, and the bit that is read.
LEMMA HalfFacts ==
  ASSUME TypeOK
  PROVE  /\ GpioOut \in Pin /\ GpioIn \in Pin /\ GpioOut # GpioIn
         /\ half \in {1, 2} => GpioOut = Pairs[n][1] /\ GpioIn = Pairs[n][2]
         /\ half \in {3, 4} => GpioOut = Pairs[n][2] /\ GpioIn = Pairs[n][1]
         /\ ReadPin = GpioIn
         /\ Value \in BOOLEAN
  <1>1. n \in DOMAIN Pairs /\ half \in 1..4
    BY DEF TypeOK
  <1>2. /\ half \in {1, 2} => GpioOut = Pairs[n][1] /\ GpioIn = Pairs[n][2]
        /\ half \in {3, 4} => GpioOut = Pairs[n][2] /\ GpioIn = Pairs[n][1]
    BY DEF GpioOut, GpioIn
  <1>3. /\ Pairs[n][1] \in Pin /\ Pairs[n][2] \in Pin /\ Pairs[n][1] # Pairs[n][2]
        /\ Pairs[n][1] \in 0..95 /\ Pairs[n][2] \in 0..95
    <2>1. 1 \in 1..2 /\ 2 \in 1..2
      OBVIOUS
    <2>2. \A a \in 1..2 : /\ Pairs[n][a] \in Pin /\ Pairs[n][a] \in 0..95
                          /\ Pairs[n][1] # Pairs[n][2]
      BY <1>1, PairFacts
    <2>3. QED
      BY <2>1, <2>2
  <1>4. GpioOut \in Pin /\ GpioIn \in Pin /\ GpioIn \in 0..95 /\ GpioOut # GpioIn
    BY <1>1, <1>2, <1>3
  <1>5. ReadPin = GpioIn
    BY <1>4 DEF ReadPin, Bank
  <1>6. QED
    BY <1>2, <1>4, <1>5 DEF Value

\* The level that is read: what was driven, if the driver and the jumper
\* work, or else the pull of the wire.
LEMMA ReadLevel ==
  ASSUME TypeOK, Prepared, pc = "read"
  PROVE  WireLevels(ReadPin) =
           IF n \notin fault.open /\ GpioOut \notin fault.dead
           THEN {Value} ELSE {Wire(GpioIn) \cap Pull # {}}
  <1>1. /\ GpioOut \in P!Driven /\ GpioIn \notin P!Driven
        /\ (GpioOut \in latch) = Value
    BY HalfFacts DEF Prepared, P!Driven, Calls, Value
  <1>2. Wire(GpioIn) = IF n \in fault.open THEN {GpioIn} ELSE {GpioOut, GpioIn}
    <2>1. n \in DOMAIN Pairs /\ half \in 1..4
      BY DEF TypeOK
    <2>2. \A a \in 1..2 : Wire(Pairs[n][a]) =
            IF n \in fault.open THEN {Pairs[n][a]} ELSE {Pairs[n][1], Pairs[n][2]}
      BY <2>1, PairFacts
    <2>3. QED
      BY <2>1, <2>2, HalfFacts
  <1>3. (Wire(GpioIn) \cap P!Driven) \ fault.dead =
          IF n \notin fault.open /\ GpioOut \notin fault.dead THEN {GpioOut} ELSE {}
    BY <1>1, <1>2, HalfFacts
  <1>4. ReadPin = GpioIn
    BY HalfFacts
  <1>5. QED
    BY <1>1, <1>3, <1>4 DEF WireLevels

-----------------------------------------------------------------------------
(* The inductive invariant. *)

LEMMA InitInv == Init => IInv
  <1>1. SUFFICES ASSUME Init
                 PROVE  IInv
    OBVIOUS
  <1>2. P!PinsTypeOK
    BY <1>1, LoopbackAssumption DEF Init, P!PinsTypeOK
  <1>3. 1 \in DOMAIN Pairs
    BY LoopbackAssumption
  <1>4. TypeOK
    BY <1>1, <1>2, <1>3 DEF Init, TypeOK, Calls
  <1>5. Prepared /\ Shown
    BY <1>1 DEF Init, Prepared, Shown, Calls
  <1>6. QED
    BY <1>4, <1>5 DEF IInv

\* The library calls before the level is read.
LEMMA CallStep ==
  ASSUME IInv, EnableOut \/ DirOut \/ SetLevel \/ EnableIn \/ DirIn
  PROVE  IInv'
  <1>1. /\ TypeOK /\ Prepared /\ Shown /\ pc \in Calls
        /\ UNCHANGED <<fault, n, half>>
        /\ GpioOut \in Pin /\ GpioIn \in Pin /\ GpioOut # GpioIn /\ Value \in BOOLEAN
    BY HalfFacts DEF IInv, EnableOut, DirOut, SetLevel, EnableIn, DirIn, Goto, Calls
  <1>2. GpioOut' = GpioOut /\ GpioIn' = GpioIn /\ Value' = Value
    BY <1>1 DEF GpioOut, GpioIn, Value
  <1>3. CASE EnableOut
    <2>1. use' = use \cup {GpioOut} /\ out' = out /\ latch' = latch
          /\ pc = "enable_out" /\ pc' = "dir_out"
      BY <1>3 DEF EnableOut, P!Enable, Goto
    <2>2. TypeOK' /\ Prepared'
      BY <1>1, <1>2, <2>1 DEF TypeOK, P!PinsTypeOK, Prepared, Calls
    <2>3. QED
      BY <1>1, <2>1, <2>2 DEF IInv, Shown, Drives, IdleLow, Wire, Faulty
  <1>4. CASE DirOut
    <2>1. out' = out \cup {GpioOut} /\ use' = use /\ latch' = latch
          /\ pc = "dir_out" /\ pc' = "level"
      BY <1>4 DEF DirOut, P!DirOut, Goto
    <2>2. TypeOK' /\ Prepared'
      BY <1>1, <1>2, <2>1 DEF TypeOK, P!PinsTypeOK, Prepared, Calls
    <2>3. QED
      BY <1>1, <2>1, <2>2 DEF IInv, Shown, Drives, IdleLow, Wire, Faulty
  <1>5. CASE SetLevel
    <2>1. /\ pc = "level" /\ pc' = "enable_in" /\ use' = use /\ out' = out
          /\ P!SetLevel(GpioOut, Value)
      BY <1>5 DEF SetLevel, P!SetLevel, Goto
    <2>2. latch' \subseteq Pin /\ (GpioOut \in latch' <=> Value)
      BY <1>1, <2>1 DEF P!SetLevel, P!Shared, TypeOK, P!PinsTypeOK
    <2>3. TypeOK' /\ Prepared'
      BY <1>1, <1>2, <2>1, <2>2 DEF TypeOK, P!PinsTypeOK, Prepared, Calls
    <2>4. QED
      BY <1>1, <2>1, <2>3 DEF IInv, Shown, Drives, IdleLow, Wire, Faulty
  <1>6. CASE EnableIn
    <2>1. use' = use \cup {GpioIn} /\ out' = out /\ latch' = latch
          /\ pc = "enable_in" /\ pc' = "dir_in"
      BY <1>6 DEF EnableIn, P!Enable, Goto
    <2>2. TypeOK' /\ Prepared'
      BY <1>1, <1>2, <2>1 DEF TypeOK, P!PinsTypeOK, Prepared, Calls
    <2>3. QED
      BY <1>1, <2>1, <2>2 DEF IInv, Shown, Drives, IdleLow, Wire, Faulty
  <1>7. CASE DirIn
    <2>1. out' = out \ {GpioIn} /\ use' = use /\ latch' = latch
          /\ pc = "dir_in" /\ pc' = "read"
      BY <1>7 DEF DirIn, P!DirIn, Goto
    <2>2. TypeOK' /\ Prepared'
      BY <1>1, <1>2, <2>1 DEF TypeOK, P!PinsTypeOK, Prepared, Calls
    <2>3. QED
      BY <1>1, <2>1, <2>2 DEF IInv, Shown, Drives, IdleLow, Wire, Faulty
  <1>8. QED
    BY <1>3, <1>4, <1>5, <1>6, <1>7

\* What a step within a pair must keep of Shown.
LEMMA SamePair ==
  ASSUME Shown, TypeOK', Prepared', n' = n, fault' = fault,
         /\ half' = 2 => Drives(1) \/ IdleLow(2)
         /\ half' > 2 => Drives(1)
         /\ half' = 4 => Drives(2) \/ IdleLow(1)
         /\ pc' = "pass" => n = Len(Pairs) /\ ~Faulty(n)
         /\ pc' = "fail" => Faulty(n)
  PROVE  IInv'
  <1>1. /\ \A a \in 1..2 : Drives(a)' <=> Drives(a)
        /\ \A a \in 1..2 : IdleLow(a)' <=> IdleLow(a)
        /\ \A m : Faulty(m)' <=> Faulty(m)
    BY DEF Drives, IdleLow, Wire, Faulty
  <1>2. \A m \in 1..(n - 1) : ~Faulty(m)
    BY DEF Shown
  <1>3. Shown'
    BY <1>1, <1>2 DEF Shown
  <1>4. QED
    BY <1>3 DEF IInv

\* The verdict on one level.
LEMMA ReadStep ==
  ASSUME IInv, Read
  PROVE  IInv'
  <1> DEFINE drives == n \notin fault.open /\ GpioOut \notin fault.dead
             idle == Wire(GpioIn) \cap Pull # {}
  <1>1. /\ TypeOK /\ Prepared /\ Shown /\ pc = "read"
        /\ UNCHANGED <<use, out, latch, fault>>
        /\ n \in DOMAIN Pairs /\ half \in 1..4
    BY DEF IInv, Read, TypeOK
  <1>2. PICK level \in WireLevels(ReadPin) :
          \/ level # Value /\ pc' = "fail" /\ UNCHANGED <<n, half>>
          \/ level = Value /\ half < 4 /\ half' = half + 1 /\ pc' = "enable_out" /\ n' = n
          \/ /\ level = Value /\ half >= 4 /\ n < Len(Pairs)
             /\ n' = n + 1 /\ half' = 1 /\ pc' = "enable_out"
          \/ /\ level = Value /\ half >= 4 /\ ~(n < Len(Pairs))
             /\ pc' = "pass" /\ UNCHANGED <<n, half>>
    BY <1>1 DEF Read
  <1>3. level = IF drives THEN Value ELSE idle
    BY <1>1, <1>2, ReadLevel
  <1>4. /\ Pairs \in Seq((0..95) \X (0..95)) /\ DOMAIN Pairs = 1..Len(Pairs) /\ Len(Pairs) \in Nat
        /\ n \in 1..Len(Pairs)
    BY <1>1, LoopbackAssumption
  <1>5. /\ half \in {1, 2} => (drives <=> Drives(1)) /\ (idle <=> ~IdleLow(2))
        /\ half \in {3, 4} => (drives <=> Drives(2)) /\ (idle <=> ~IdleLow(1))
    BY <1>1, HalfFacts DEF Drives, IdleLow
  <1>6. Value = (half \in {2, 4})
    BY DEF Value
  <1>7. Drives(1) /\ Drives(2) <=> ~Faulty(n)
    BY <1>1, PairFacts DEF Drives, Faulty
  <1>8. CASE level # Value /\ pc' = "fail" /\ UNCHANGED <<n, half>>
    <2>1. Faulty(n)
      BY <1>1, <1>3, <1>5, <1>7, <1>8
    <2>2. TypeOK' /\ Prepared'
      BY <1>1, <1>8 DEF TypeOK, P!PinsTypeOK, Prepared, Calls
    <2>3. /\ n' = n /\ half' = half /\ fault' = fault /\ pc' = "fail" /\ Shown
          /\ half = 2 => Drives(1) \/ IdleLow(2)
          /\ half > 2 => Drives(1)
          /\ half = 4 => Drives(2) \/ IdleLow(1)
      BY <1>1, <1>8 DEF Shown
    <2>4. QED
      BY <2>1, <2>2, <2>3, SamePair
  <1>9. CASE level = Value /\ half < 4 /\ half' = half + 1 /\ pc' = "enable_out" /\ n' = n
    <2>1. TypeOK' /\ Prepared'
      BY <1>1, <1>9 DEF TypeOK, P!PinsTypeOK, Prepared, Calls
    <2>2. /\ half = 1 => Drives(1) \/ IdleLow(2)
          /\ half = 2 => Drives(1)
          /\ half = 3 => Drives(2) \/ IdleLow(1)
      <3>1. drives \/ idle = Value
        BY <1>3, <1>9
      <3>2. CASE half = 1
        BY <1>5, <1>6, <3>1, <3>2
      <3>3. CASE half = 2
        BY <1>1, <1>5, <1>6, <3>1, <3>3 DEF Shown
      <3>4. CASE half = 3
        BY <1>5, <1>6, <3>1, <3>4
      <3>5. QED
        BY <3>2, <3>3, <3>4
    <2>3. /\ half' = 2 => Drives(1) \/ IdleLow(2)
          /\ half' > 2 => Drives(1)
          /\ half' = 4 => Drives(2) \/ IdleLow(1)
      BY <1>1, <1>9, <2>2 DEF Shown
    <2>4. n' = n /\ fault' = fault /\ pc' \notin {"pass", "fail"} /\ Shown
      BY <1>1, <1>9
    <2>5. QED
      BY <2>1, <2>3, <2>4, SamePair
  <1>10. ASSUME level = Value, half >= 4
         PROVE  ~Faulty(n)
    BY <1>1, <1>3, <1>5, <1>6, <1>7, <1>10 DEF Shown
  <1>11. CASE /\ level = Value /\ half >= 4 /\ n < Len(Pairs)
              /\ n' = n + 1 /\ half' = 1 /\ pc' = "enable_out"
    <2>1. TypeOK' /\ Prepared'
      BY <1>1, <1>4, <1>11 DEF TypeOK, P!PinsTypeOK, Prepared, Calls
    <2>2. \A m \in 1..n : ~Faulty(m)
      BY <1>1, <1>4, <1>10, <1>11 DEF Shown
    <2>3. Shown'
      BY <1>1, <1>4, <1>11, <2>2 DEF Shown, Faulty
    <2>4. QED
      BY <2>1, <2>3 DEF IInv
  <1>12. CASE /\ level = Value /\ half >= 4 /\ ~(n < Len(Pairs))
              /\ pc' = "pass" /\ UNCHANGED <<n, half>>
    <2>1. TypeOK' /\ Prepared'
      BY <1>1, <1>12 DEF TypeOK, P!PinsTypeOK, Prepared, Calls
    <2>2. n = Len(Pairs)
      <3>1. \A l \in Nat : \A k \in 1..l : ~(k < l) => k = l
        OBVIOUS
      <3>2. QED
        BY <1>4, <1>12, <3>1
    <2>3. QED
      BY <1>1, <1>10, <1>12, <2>1, <2>2, SamePair DEF Shown
  <1>13. QED
    BY <1>2, <1>8, <1>9, <1>11, <1>12

\* IInv holds in every reachable state.
THEOREM Invariance == Spec => []IInv
  <1>1. ASSUME IInv, [Next]_vars
        PROVE  IInv'
    <2>1. CASE Again
      <3>1. TypeOK' /\ Prepared'
        BY <1>1, <2>1, LoopbackAssumption DEF Again, IInv, TypeOK, P!PinsTypeOK, Prepared, Calls
      <3>2. QED
        BY <2>1, <3>1 DEF Again, IInv, Shown
    <2>2. CASE UNCHANGED vars
      <3>1. TypeOK' /\ Prepared'
        BY <1>1, <2>2 DEF vars, IInv, TypeOK, P!PinsTypeOK, Prepared, GpioOut, GpioIn, Value
      <3>2. QED
        BY <1>1, <2>2, <3>1, SamePair DEF vars, IInv, Shown
    <2>3. QED
      BY <1>1, <2>1, <2>2, CallStep, ReadStep DEF Next
  <1>2. QED
    BY <1>1, InitInv, PTL DEF Spec

\* Exit status 0 means that no pair is faulty.
THEOREM PassCorrect == Spec => []PassSound
  <1>1. IInv => PassSound
    <2>1. SUFFICES ASSUME IInv, pc = "pass", NEW m \in DOMAIN Pairs
                   PROVE  ~Faulty(m)
      BY DEF PassSound
    <2>2. DOMAIN Pairs = 1..Len(Pairs) /\ Len(Pairs) \in Nat
      BY LoopbackAssumption
    <2>3. m \in 1..(n - 1) \/ m = n
      BY <2>1, <2>2 DEF IInv, TypeOK, Shown
    <2>4. QED
      BY <2>1, <2>3 DEF IInv, Shown
  <1>2. QED
    BY <1>1, Invariance, PTL

\* A pair that is reported is faulty.
THEOREM FailCorrect == Spec => []FailSound
  <1>1. IInv => FailSound
    BY DEF IInv, Shown, FailSound
  <1>2. QED
    BY <1>1, Invariance, PTL
=============================================================================
