---------------------------- MODULE BypassProofs ----------------------------
(***************************************************************************)
(* Proofs about the bypass tool, for every board, backend, power-on state  *)
(* and set of requests that the assumptions of Bypass admit.               *)
(***************************************************************************)
EXTENDS Bypass, TLAPS

-----------------------------------------------------------------------------
(* How pair numbers map to lines. *)

\* Every pair the usage text names has its lines and its sendbit among the
\* configured ones, and the sendbit's CPLD logic looks at those lines.
LEMMA Mapping ==
  ASSUME NEW p \in Pairs
  PROVE  /\ SendNo(p) \in Send
         /\ SendGroup(SendNo(p)) = Group(p)
         /\ Group(p) \in Nat
         /\ \A k \in Bits : Group(p) * 3 + k \in DOMAIN PairG
         /\ PairBits(p) \in Code
  BY BackendAssumption, ConfigAssumption
     DEF Pairs, SendNo, SendGroup, Group, Bits, PairBits, Code, Bit

\* No two lines share a pin.
LEMMA DistinctLines ==
  ASSUME NEW p \in Pairs, NEW k \in Bits
  PROVE  /\ PairG[Group(p) * 3 + k] \in Pin \ SendPins
         /\ CfgG[Group(p) * 3 + k] \in Pin \ SendPins
         /\ \A j \in Bits : PairG[Group(p) * 3 + k] # CfgG[Group(p) * 3 + j]
         /\ \A j \in Bits : j # k =>
              /\ PairG[Group(p) * 3 + k] # PairG[Group(p) * 3 + j]
              /\ CfgG[Group(p) * 3 + k] # CfgG[Group(p) * 3 + j]
  <1>1. /\ Group(p) \in Nat
        /\ \A j \in Bits : Group(p) * 3 + j \in DOMAIN PairG /\ Group(p) * 3 + j \in DOMAIN CfgG
    BY Mapping, ConfigAssumption
  <1>2. \A j \in Bits : j # k => Group(p) * 3 + j # Group(p) * 3 + k
    BY <1>1 DEF Bits
  <1>3. \A j \in Bits : PairG[Group(p) * 3 + j] \in PairPins /\ CfgG[Group(p) * 3 + j] \in CfgPins
    BY <1>1 DEF PairPins, CfgPins
  <1>4. QED
    BY <1>1, <1>2, <1>3, ConfigAssumption DEF Pin

-----------------------------------------------------------------------------
(* What one access does to the other pins. *)

\* No access to one pin changes the level of another, although the level
\* register is written back with what was read for its neighbours.
LEMMA PinFrame ==
  ASSUME NEW g \in Pin, NEW h \in Pin, g # h, NEW high \in BOOLEAN,
         P!Enable(g) \/ P!DirOut(g) \/ P!SetLevel(g, high)
  PROVE  /\ h \in use' <=> h \in use
         /\ h \in out' <=> h \in out
         /\ h \in P!Driven => (h \in latch' <=> h \in latch)
         /\ P!Level(h)' = P!Level(h)
  BY DEF P!Enable, P!DirOut, P!SetLevel, P!Shared, P!Level, P!Driven

\* What an access does to its own pin.
LEMMA PinEffect ==
  ASSUME NEW g \in Pin, NEW high \in BOOLEAN
  PROVE  /\ P!Enable(g) => /\ use' = use \cup {g} /\ out' = out
                           /\ (g \in latch' <=> g \in latch)
         /\ P!DirOut(g) => /\ use' = use /\ out' = out \cup {g}
                           /\ (g \in latch' <=> g \in latch)
         /\ P!SetLevel(g, high) => /\ use' = use /\ out' = out
                                   /\ (g \in latch' <=> high)
  BY DEF P!Enable, P!DirOut, P!SetLevel, P!Shared

\* The pins stay within the board.
LEMMA PinTypes ==
  ASSUME NEW g \in Pin, NEW high \in BOOLEAN, P!PinsTypeOK,
         P!Enable(g) \/ P!DirOut(g) \/ P!SetLevel(g, high)
  PROVE  P!PinsTypeOK'
  BY DEF P!Enable, P!DirOut, P!SetLevel, P!Shared, P!PinsTypeOK, P!Driven

\* A pin that carries a level keeps carrying it, unless that level is written.
LEMMA CarriesKept ==
  ASSUME NEW g \in Pin, NEW h \in Pin, NEW high \in BOOLEAN, NEW v \in BOOLEAN,
         \/ P!Enable(g)
         \/ P!DirOut(g)
         \/ P!SetLevel(g, high) /\ (g = h => high = v),
         Carries(h, v)
  PROVE  Carries(h, v)'
  <1>1. CASE g = h
    BY <1>1, PinEffect DEF Carries, P!Driven
  <1>2. CASE g # h
    BY <1>2, PinFrame DEF Carries, P!Driven
  <1>3. QED
    BY <1>1, <1>2

LEMMA CarriesLevel ==
  ASSUME NEW g, NEW v \in BOOLEAN, Carries(g, v)
  PROVE  P!Level(g) = v
  BY DEF Carries, P!Level

-----------------------------------------------------------------------------
(* The CPLD. *)

LEMMA CpldTypes ==
  ASSUME TypeOK, Cpld
  PROVE  /\ store' \in [Send -> [Code -> Cfg]]
         /\ held' \subseteq Send
         /\ armed' \subseteq Send
  <1>1. \A s \in Send : PairLines(s) \in Code /\ CfgLines(s) \in Cfg
    <2>1. ASSUME NEW g
          PROVE  P!Level(g) \in BOOLEAN
      <3>1. CASE g \in P!Driven
        BY <3>1 DEF P!Level
      <3>2. CASE g \notin P!Driven
        BY <3>2 DEF P!Level
      <3>3. QED
        BY <3>1, <3>2
    <2>2. QED
      BY <2>1 DEF PairLines, CfgLines, Code, Cfg
  <1>2. held' \subseteq Send /\ armed' \subseteq Send
    BY DEF TypeOK, Cpld, Falls, Rises
  <1>3. PICK fire \in SUBSET Falls :
          store' = [s \in Send |->
            IF s \in fire THEN [store[s] EXCEPT ![PairLines(s)] = CfgLines(s)]
            ELSE store[s]]
    BY DEF Cpld
  <1>4. ASSUME NEW s \in Send
        PROVE  [store[s] EXCEPT ![PairLines(s)] = CfgLines(s)] \in [Code -> Cfg]
    <2>1. store[s] \in [Code -> Cfg]
      BY DEF TypeOK
    <2>2. QED
      BY <1>1, <2>1
  <1>5. store' \in [Send -> [Code -> Cfg]]
    BY <1>3, <1>4 DEF TypeOK
  <1>6. QED
    BY <1>2, <1>5

\* A sendbit that carries the same level before and after a step is neither
\* falling nor rising, and keeps its history.
LEMMA SteadySendbit ==
  ASSUME NEW s \in Send, NEW v \in BOOLEAN, Cpld,
         Carries(Sendbit[s], v), Carries(Sendbit[s], v)'
  PROVE  /\ s \in held => s \in held'
         /\ s \in armed => s \in armed'
  <1>1. P!Level(Sendbit[s]) = v /\ P!Level(Sendbit[s])' = v
    BY DEF Carries, P!Level
  <1>2. QED
    BY <1>1 DEF Cpld, Falls, Rises

\* Once both loops are through, the CPLD logic of the run's sendbit sees the
\* number of the pair and its configuration.
LEMMA LinesAtEdge ==
  ASSUME TypeOK, req.pair \in Pairs, LinesReady,
         phase \notin InitPhases \cup {"pair", "cfg"}
  PROVE  /\ PairLines(SendNo(req.pair)) = PairBits(req.pair)
         /\ CfgLines(SendNo(req.pair)) = req.cfg
  <1>1. req.cfg \in [Bits -> BOOLEAN] /\ PairBits(req.pair) \in [Bits -> BOOLEAN]
    BY BoardAssumption, Mapping DEF TypeOK, Cfg, Code
  <1>2. ASSUME NEW k \in Bits
        PROVE  /\ P!Level(PairPin(k)) = PairBits(req.pair)[k]
               /\ P!Level(CfgPin(k)) = req.cfg[k]
    <2>1. /\ Carries(PairPin(k), PairBits(req.pair)[k])
          /\ Carries(CfgPin(k), req.cfg[k])
      BY DEF LinesReady, PairReady, CfgReady
    <2>2. QED
      BY <1>1, <2>1, CarriesLevel
  <1>3. QED
    BY <1>1, <1>2, Mapping
       DEF PairLines, CfgLines, PairPin, CfgPin, PairBits

-----------------------------------------------------------------------------
(* The program. *)

\* The pin an access is for.
LEMMA CurPinFacts ==
  ASSUME TypeOK, req.pair \in Pairs, AccessOrder, op # "none"
  PROVE  /\ CurPin \in Pin
         /\ phase \in InitPhases \cup WritePhases
         /\ phase = "pair" => i \in Bits /\ CurPin = PairPin(i) /\ CurPin \notin SendPins
         /\ phase = "cfg" => i \in Bits /\ CurPin = CfgPin(i) /\ CurPin \notin SendPins
         /\ phase \in TrigPhases => i = 0 /\ CurPin = SendPin
         /\ phase = "init_pair" => i \in Bits /\ CurPin = PairG[i]
         /\ phase = "init_cfg" => i \in Bits /\ CurPin = CfgG[i]
         /\ phase = "init_send" => i \in Send /\ CurPin = Sendbit[i]
  <1>1. phase \in InitPhases \cup WritePhases
    BY DEF AccessOrder, TypeOK, Phases
  <1>2. i \in 0..LastIndex(phase)
    BY DEF TypeOK
  <1>3. CASE phase \in {"pair", "cfg"}
    <2>1. i \in Bits
      BY <1>2, <1>3 DEF LastIndex, Bits, InitPhases
    <2>2. QED
      BY <1>1, <1>3, <2>1, DistinctLines
         DEF CurPin, PairPin, CfgPin, TrigPhases
  <1>4. CASE phase \in TrigPhases
    <2>1. i = 0
      BY <1>2, <1>4 DEF LastIndex, TrigPhases, InitPhases
    <2>2. SendPin \in Pin
      BY Mapping DEF SendPin, Pin, SendPins
    <2>3. QED
      BY <1>1, <1>4, <2>1, <2>2 DEF CurPin, SendPin, TrigPhases
  <1>5. CASE phase \in InitPhases
    <2>1. Backend = "AST" /\ Board # "S0961"
      BY <1>5, BackendAssumption DEF AccessOrder
    <2>2. Group(req.pair) * 3 + i = i
      BY <1>2, <2>1 DEF Group, LastIndex
    <2>3. phase # "init_send" => i \in Bits /\ i \in DOMAIN PairG /\ i \in DOMAIN CfgG
      BY <1>2, <1>5, <2>1, ConfigAssumption DEF LastIndex, Bits, InitPhases
    <2>4. phase = "init_send" => i \in Send
      <3>1. CASE Board = "S1451"
        BY <1>2, <3>1, ConfigAssumption DEF LastIndex, InitPhases
      <3>2. CASE Board # "S1451"
        BY <1>2, <2>1, <3>2, ConfigAssumption DEF LastIndex, InitPhases
      <3>3. QED
        BY <3>1, <3>2
    <2>5. QED
      BY <1>1, <1>5, <2>2, <2>3, <2>4
         DEF CurPin, InitPhases, TrigPhases, Pin, PairPins, CfgPins, SendPins
  <1>6. QED
    BY <1>1, <1>3, <1>4, <1>5 DEF WritePhases

\* Where an access that ends a write leads.
LEMMA AdvanceFacts ==
  ASSUME TypeOK, phase # "exit", Advance
  PROVE  /\ phase' \in Phases
         /\ i' \in 0..LastIndex(phase')
         /\ op' = FirstOp(phase')
         /\ op' \in {"use", "out", "lvl", "none"}
         /\ req' = req
         /\ status' = status
         /\ \/ i < LastIndex(phase) /\ phase' = phase /\ i' = i + 1
            \/ i = LastIndex(phase) /\ phase' = After[phase] /\ i' = 0
  <1>1. i \in 0..LastIndex(phase) /\ LastIndex(phase) \in 0..2
    BY DEF TypeOK, LastIndex
  <1>2. After[phase] \in Phases
    BY DEF TypeOK, After, Phases, InitPhases, DelayPhases, WritePhases, TrigPhases
  <1>3. \A ph : LastIndex(ph) \in 0..2 /\ FirstOp(ph) \in {"use", "out", "lvl", "none"}
    <2>1. \A ph : LastIndex(ph) \in 0..2
      BY DEF LastIndex
    <2>2. \A ph : FirstOp(ph) \in {"use", "out", "lvl", "none"}
      BY BackendAssumption DEF FirstOp
    <2>3. QED
      BY <2>1, <2>2
  <1>4. phase \in Phases
    BY DEF TypeOK
  <1>5. CASE i < LastIndex(phase)
    BY <1>1, <1>3, <1>4, <1>5 DEF Advance, NextPhase
  <1>6. CASE i = LastIndex(phase)
    <2>1. phase' = After[phase] /\ i' = 0
      BY <1>1, <1>6 DEF Advance, NextPhase
    <2>2. op' = FirstOp(phase')
      BY <2>1, <1>6, <1>1 DEF Advance, NextPhase
    <2>3. QED
      BY <2>1, <2>2, <1>1, <1>2, <1>3, <1>6 DEF Advance
  <1>7. QED
    BY <1>1, <1>5, <1>6

\* The present pin carries what it did unless a level is written to it.
LEMMA RunPins ==
  ASSUME req.pair \in Pairs
  PROVE  /\ \A k \in Bits : PairPin(k) \in Pin /\ CfgPin(k) \in Pin
         /\ SendPin \in Pin
         /\ \A k \in Bits : PairBits(req.pair)[k] \in BOOLEAN
         /\ req \in Req => \A k \in Bits : req.cfg[k] \in BOOLEAN
  <1>1. \A k \in Bits : PairPin(k) \in Pin /\ CfgPin(k) \in Pin
    BY DistinctLines DEF PairPin, CfgPin
  <1>2. SendPin \in Pin
    BY Mapping DEF SendPin, Pin, SendPins
  <1>3. \A k \in Bits : PairBits(req.pair)[k] \in BOOLEAN
    BY Mapping DEF Code
  <1>4. req \in Req => \A k \in Bits : req.cfg[k] \in BOOLEAN
    BY BoardAssumption DEF Cfg
  <1>5. QED
    BY <1>1, <1>2, <1>3, <1>4

LEMMA EnableStep ==
  ASSUME IInv, req.pair \in Pairs, Enable
  PROVE  IInv'
  <1> USE DEF Enable
  <1>1. /\ TypeOK /\ AccessOrder /\ AstDirections /\ LinesReady /\ Pulse
        /\ status = "running" /\ status' = "running"
        /\ phase' = phase /\ i' = i /\ req' = req /\ op = "use" /\ op' = "out"
    BY DEF IInv, RunInv
  <1>2. phase \in WritePhases /\ Backend = "PCH"
    <2>1. phase \in InitPhases \cup WritePhases
      BY <1>1, CurPinFacts
    <2>2. QED
      BY <1>1, <2>1, BackendAssumption DEF AccessOrder
  <1>3. CurPin \in Pin /\ P!Enable(CurPin)
    BY <1>1, CurPinFacts
  <1>4. /\ CurPin' = CurPin
        /\ \A k \in Bits : PairPin(k)' = PairPin(k) /\ CfgPin(k)' = CfgPin(k)
        /\ SendPin' = SendPin
    BY <1>1 DEF CurPin, PairPin, CfgPin, SendPin
  <1>5. \A h \in Pin, v \in BOOLEAN : Carries(h, v) => Carries(h, v)'
    BY <1>3, CarriesKept
  <1>6. TypeOK'
    <2>1. P!PinsTypeOK'
      BY <1>1, <1>3, PinTypes DEF TypeOK
    <2>2. QED
      BY <1>1, <2>1, CpldTypes DEF TypeOK, LastIndex
  <1>7. AccessOrder'
    <2>1. CurPin \in use'
      BY <1>3, PinEffect
    <2>2. QED
      BY <1>1, <1>2, <1>4, <2>1 DEF AccessOrder, WritePhases, InitPhases, DelayPhases, TrigPhases
  <1>8. LinesReady'
    BY <1>1, <1>4, <1>5, RunPins DEF LinesReady, PairReady, CfgReady, TypeOK
  <1>9. Pulse'
    <2>1. SendNo(req.pair) \in Send
      BY Mapping
    <2>2. ASSUME NEW v \in BOOLEAN, Carries(SendPin, v)
          PROVE  /\ Carries(SendPin, v)'
                 /\ SendNo(req.pair) \in held => SendNo(req.pair) \in held'
                 /\ SendNo(req.pair) \in armed => SendNo(req.pair) \in armed'
      <3>1. Carries(SendPin, v)'
        BY <1>5, <2>2, <1>4, RunPins
      <3>2. QED
        BY <1>1, <2>1, <2>2, <3>1, SteadySendbit DEF SendPin
    <2>3. QED
      BY <1>1, <1>2, <1>4, <2>2 DEF Pulse, WritePhases, TrigPhases
  <1>10. QED
    BY <1>1, <1>2, <1>6, <1>7, <1>8, <1>9 DEF IInv, RunInv, AstDirections

LEMMA DirOutStep ==
  ASSUME IInv, req.pair \in Pairs, DirOut
  PROVE  IInv'
  <1>1. /\ TypeOK /\ AccessOrder /\ AstDirections /\ LinesReady /\ Pulse
        /\ status = "running" /\ op = "out"
        /\ P!DirOut(CurPin) /\ Cpld
    BY DEF IInv, RunInv, DirOut
  <1>2. CurPin \in Pin /\ phase \in InitPhases \cup WritePhases
    BY <1>1, CurPinFacts
  <1>3. \A h \in Pin, v \in BOOLEAN : Carries(h, v) => Carries(h, v)'
    BY <1>1, <1>2, CarriesKept
  <1>4. use' = use /\ out' = out \cup {CurPin}
    BY <1>1, <1>2, PinEffect
  <1>5. P!PinsTypeOK'
    BY <1>1, <1>2, PinTypes DEF TypeOK
  <1>6. CASE phase \in WritePhases
    <2>1. /\ phase \notin InitPhases /\ status' = "running" /\ op' = "lvl"
          /\ phase' = phase /\ i' = i /\ req' = req
      BY <1>1, <1>6 DEF DirOut, WritePhases, InitPhases, TrigPhases
    <2>2. /\ CurPin' = CurPin
          /\ \A k \in Bits : PairPin(k)' = PairPin(k) /\ CfgPin(k)' = CfgPin(k)
          /\ SendPin' = SendPin
      BY <2>1 DEF CurPin, PairPin, CfgPin, SendPin
    <2>3. TypeOK'
      BY <1>1, <1>5, <2>1, CpldTypes DEF TypeOK, LastIndex
    <2>4. AccessOrder'
      <3>1. CurPin \in use
        BY <1>1, <1>6 DEF AccessOrder
      <3>2. CurPin \in P!Driven'
        BY <1>4, <3>1 DEF P!Driven
      <3>3. op' \in (CASE Backend = "PCH" -> {"use", "out", "lvl"}
                     [] Backend = "F71" -> {"out", "lvl"}
                     [] Backend = "AST" -> {"lvl"})
        BY <2>1, BackendAssumption
      <3>4. QED
        BY <1>6, <2>1, <2>2, <3>2, <3>3
           DEF AccessOrder, WritePhases, InitPhases, DelayPhases, TrigPhases
    <2>5. AstDirections'
      BY <1>1, <1>4, <2>1 DEF AstDirections
    <2>6. LinesReady'
      BY <1>1, <2>1, <2>2, <1>3, RunPins DEF LinesReady, PairReady, CfgReady, TypeOK
    <2>7. Pulse'
      <3>1. SendNo(req.pair) \in Send
        BY Mapping
      <3>2. ASSUME NEW v \in BOOLEAN, Carries(SendPin, v)
            PROVE  /\ Carries(SendPin, v)'
                   /\ SendNo(req.pair) \in held => SendNo(req.pair) \in held'
                   /\ SendNo(req.pair) \in armed => SendNo(req.pair) \in armed'
        <4>1. Carries(SendPin, v)'
          BY <1>3, <3>2, <2>2, RunPins
        <4>2. QED
          BY <1>1, <2>1, <3>1, <3>2, <4>1, SteadySendbit DEF SendPin
      <3>3. QED
        BY <1>1, <1>6, <2>1, <2>2, <3>2 DEF Pulse, WritePhases, TrigPhases
    <2>8. QED
      BY <1>4, <2>1, <2>3, <2>4, <2>5, <2>6, <2>7 DEF IInv, RunInv
  <1>7. CASE phase \in InitPhases
    <2>1. Advance /\ phase # "exit"
      BY <1>7 DEF DirOut, InitPhases
    <2>2. Backend = "AST" /\ use = Pin
      BY <1>1, <1>7 DEF AccessOrder, IInv
    <2>3. /\ phase' \in Phases /\ i' \in 0..LastIndex(phase') /\ op' = FirstOp(phase')
          /\ op' \in {"use", "out", "lvl", "none"} /\ req' = req /\ status' = status
          /\ \/ i < LastIndex(phase) /\ phase' = phase /\ i' = i + 1
             \/ i = LastIndex(phase) /\ phase' = After[phase] /\ i' = 0
      BY <1>1, <2>1, AdvanceFacts
    <2>4. TypeOK'
      BY <1>1, <1>5, <2>3, CpldTypes DEF TypeOK
    <2>5. phase' \in InitPhases \/ (phase' = "pair" /\ i' = 0 /\ phase = "init_send")
      BY <1>7, <2>3 DEF After, InitPhases
    <2>6. AstDirections'
      <3>1. i \in 0..LastIndex(phase)
        BY <1>1 DEF TypeOK
      <3>2. CASE phase = "init_pair"
        <4>1. CurPin = PairG[i] /\ LastIndex(phase) = 2
          BY <1>1, <3>2, CurPinFacts DEF LastIndex, InitPhases
        <4>2. QED
          BY <1>1, <1>4, <2>3, <3>1, <3>2, <4>1 DEF AstDirections, After, Bits, InitPhases
      <3>3. CASE phase = "init_cfg"
        <4>1. CurPin = CfgG[i] /\ LastIndex(phase) = 2
          BY <1>1, <3>3, CurPinFacts DEF LastIndex, InitPhases
        <4>2. /\ \A k \in Bits : PairG[k] \in out'
              /\ \A k \in Bits : k <= i => CfgG[k] \in out'
          BY <1>1, <1>4, <2>2, <3>1, <3>3, <4>1 DEF AstDirections, Bits
        <4>3. \/ phase' = "init_cfg" /\ i' = i + 1
              \/ phase' = "init_send" /\ i' = 0 /\ i = 2
          BY <2>3, <3>3, <4>1 DEF After
        <4>4. Send \subseteq Nat
          BY ConfigAssumption, BackendAssumption
        <4>5. QED
          BY <3>1, <3>3, <4>2, <4>3, <4>4 DEF AstDirections, Bits, InitPhases
      <3>4. CASE phase = "init_send"
        <4>1. CurPin = Sendbit[i]
          BY <1>1, <3>4, CurPinFacts
        <4>2. \A s \in Send : s < i \/ s = i \/ (s > i /\ i < LastIndex(phase))
          <5>1. Send = 0..LastIndex("init_send")
            <6>1. CASE Board = "S1451"
              BY <6>1, ConfigAssumption DEF LastIndex, InitPhases
            <6>2. CASE Board # "S1451"
              <7>1. Send = {0} /\ LastIndex("init_send") = 0
                BY <2>2, <6>2, ConfigAssumption, BackendAssumption DEF LastIndex, InitPhases
              <7>2. QED
                BY <7>1
            <6>3. QED
              BY <6>1, <6>2
          <5>2. QED
            BY <3>1, <3>4, <5>1 DEF LastIndex
        <4>3. Send \subseteq Nat /\ i \in Nat
          BY <3>1, ConfigAssumption, BackendAssumption
        <4>4. QED
          BY <1>1, <1>4, <2>3, <3>4, <4>1, <4>2, <4>3 DEF AstDirections, After, InitPhases
      <3>5. QED
        BY <1>7, <3>2, <3>3, <3>4 DEF InitPhases
    <2>7. AccessOrder'
      <3>1. CASE phase' \in InitPhases
        BY <2>2, <2>3, <3>1
           DEF AccessOrder, FirstOp, InitPhases, WritePhases, DelayPhases, TrigPhases
      <3>2. CASE phase' = "pair"
        <4>1. op' = "lvl"
          BY <2>2, <2>3, <3>2 DEF FirstOp, InitPhases, WritePhases
        <4>2. CurPin' = PairG[0]
          <5>1. Group(req.pair) = 0 /\ i' = 0
            BY <2>2, <2>3, <2>5, <3>2, BackendAssumption DEF Group, InitPhases
          <5>2. CurPin' = PairG[Group(req.pair)' * 3 + i']
            BY <3>2 DEF CurPin, TrigPhases
          <5>3. Group(req.pair)' = Group(req.pair)
            BY <2>3 DEF Group
          <5>4. QED
            BY <5>1, <5>2, <5>3
        <4>3. PairG[0] \in out'
          BY <2>2, <2>6, <3>2 DEF AstDirections, Bits
        <4>4. PairG[0] \in Pin
          BY <2>4, <4>3 DEF TypeOK, P!PinsTypeOK
        <4>5. CurPin' \in P!Driven'
          BY <1>4, <2>2, <4>2, <4>3, <4>4 DEF P!Driven
        <4>6. QED
          BY <2>2, <3>2, <4>1, <4>5
             DEF AccessOrder, InitPhases, WritePhases, DelayPhases, TrigPhases
      <3>3. QED
        BY <2>5, <3>1, <3>2
    <2>8. LinesReady'
      BY <2>5 DEF LinesReady, PairReady, CfgReady, InitPhases, Bits
    <2>9. Pulse'
      BY <2>5 DEF Pulse, InitPhases
    <2>10. QED
      BY <1>1, <1>4, <2>2, <2>3, <2>4, <2>6, <2>7, <2>8, <2>9 DEF IInv, RunInv
  <1>8. QED
    BY <1>2, <1>6, <1>7

\* After the initialisation, the next write finds its pin ready for its
\* first access.
LEMMA NextAccess ==
  ASSUME TypeOK, req.pair \in Pairs, Advance, phase \notin InitPhases, phase # "exit",
         use' = use, out' = out, Backend # "PCH" => use = Pin, AstDirections
  PROVE  AccessOrder' /\ AstDirections'
  <1>1. /\ phase' \in Phases /\ i' \in 0..LastIndex(phase') /\ op' = FirstOp(phase')
        /\ req' = req
        /\ phase' = phase \/ phase' = After[phase]
    BY AdvanceFacts
  <1>2. phase' \notin InitPhases
    BY <1>1 DEF TypeOK, Phases, After, InitPhases, DelayPhases, WritePhases, TrigPhases
  <1>3. AstDirections'
    BY <1>2 DEF AstDirections, InitPhases
  <1>4. CASE phase' \in WritePhases
    <2>1. /\ CurPin' \in Pin
          /\ Backend = "AST" => CurPin' \in out
      <3>1. Group(req.pair)' = Group(req.pair) /\ SendNo(req.pair)' = SendNo(req.pair)
        BY <1>1 DEF Group, SendNo
      <3>2. Backend = "AST" => /\ Group(req.pair) = 0
                               /\ \A k \in Bits : PairG[k] \in out /\ CfgG[k] \in out
                               /\ \A s \in Send : Sendbit[s] \in out
        BY BackendAssumption DEF Group, AstDirections, InitPhases
      <3>3. CASE phase' \in {"pair", "cfg"}
        <4>1. i' \in Bits
          BY <1>1, <3>3 DEF LastIndex, InitPhases, Bits
        <4>2. CurPin' = IF phase' = "pair" THEN PairPin(i') ELSE CfgPin(i')
          BY <3>1, <3>3 DEF CurPin, PairPin, CfgPin, TrigPhases
        <4>3. CurPin' \in Pin
          BY <4>1, <4>2, RunPins
        <4>4. ASSUME Backend = "AST"
              PROVE  CurPin' \in out
          <5>1. PairPin(i') = PairG[i'] /\ CfgPin(i') = CfgG[i']
            BY <3>2, <4>1, <4>4 DEF PairPin, CfgPin, Bits
          <5>2. QED
            BY <3>2, <4>1, <4>2, <4>4, <5>1
        <4>5. QED
          BY <4>3, <4>4
      <3>4. CASE phase' \in TrigPhases
        <4>1. CurPin' = SendPin
          BY <3>1, <3>4 DEF CurPin, SendPin, TrigPhases
        <4>2. QED
          BY <3>2, <4>1, RunPins, Mapping DEF SendPin
      <3>5. QED
        BY <1>4, <3>3, <3>4 DEF WritePhases
    <2>2. op' = CASE Backend = "PCH" -> "use" [] Backend = "F71" -> "out" [] Backend = "AST" -> "lvl"
      BY <1>1, <1>2, <1>4, BackendAssumption DEF FirstOp
    <2>3. CASE Backend = "PCH"
      BY <1>2, <1>3, <1>4, <2>2, <2>3 DEF AccessOrder, WritePhases, InitPhases, DelayPhases, TrigPhases
    <2>4. CASE Backend = "F71"
      <3>1. op' = "out" /\ CurPin' \in use'
        BY <2>1, <2>2, <2>4
      <3>2. QED
        BY <1>2, <1>3, <1>4, <2>4, <3>1 DEF AccessOrder, WritePhases, InitPhases, DelayPhases, TrigPhases
    <2>5. CASE Backend = "AST"
      <3>1. op' = "lvl" /\ CurPin' \in P!Driven'
        BY <2>1, <2>2, <2>5 DEF P!Driven
      <3>2. QED
        BY <1>2, <1>3, <1>4, <2>5, <3>1 DEF AccessOrder, WritePhases, InitPhases, DelayPhases, TrigPhases
    <2>6. QED
      BY <1>3, <2>3, <2>4, <2>5, BackendAssumption
  <1>5. CASE phase' \in DelayPhases \cup {"exit"}
    <2>1. op' = "none"
      BY <1>1, <1>5 DEF FirstOp, WritePhases, InitPhases, DelayPhases, TrigPhases
    <2>2. QED
      BY <1>2, <1>3, <1>5, <2>1 DEF AccessOrder, WritePhases, InitPhases, DelayPhases, TrigPhases
  <1>6. QED
    BY <1>1, <1>2, <1>4, <1>5 DEF Phases

LEMMA SetLevelStep ==
  ASSUME IInv, req.pair \in Pairs, SetLevel
  PROVE  IInv'
  <1>1. /\ TypeOK /\ AccessOrder /\ AstDirections /\ LinesReady /\ Pulse
        /\ status = "running" /\ op = "lvl"
        /\ Backend # "PCH" => use = Pin
        /\ P!SetLevel(CurPin, CurLevel) /\ Cpld /\ Advance
    BY DEF IInv, RunInv, SetLevel
  <1>2. CurPin \in Pin /\ phase \in WritePhases /\ CurPin \in P!Driven
    BY <1>1, CurPinFacts DEF AccessOrder
  <1>3. phase \notin InitPhases /\ phase # "exit"
    BY <1>2 DEF WritePhases, InitPhases, TrigPhases
  <1>4. /\ phase' \in Phases /\ i' \in 0..LastIndex(phase')
        /\ op' \in {"use", "out", "lvl", "none"} /\ req' = req /\ status' = status
        /\ \/ i < LastIndex(phase) /\ phase' = phase /\ i' = i + 1
           \/ i = LastIndex(phase) /\ phase' = After[phase] /\ i' = 0
    BY <1>1, <1>3, AdvanceFacts
  <1>5. /\ \A k \in Bits : PairPin(k)' = PairPin(k) /\ CfgPin(k)' = CfgPin(k)
        /\ SendPin' = SendPin
    BY <1>4 DEF PairPin, CfgPin, SendPin
  <1>6. /\ phase = "pair" => i \in Bits /\ CurPin = PairPin(i)
                             /\ CurLevel = PairBits(req.pair)[i] /\ LastIndex(phase) = 2
        /\ phase = "cfg" => i \in Bits /\ CurPin = CfgPin(i)
                            /\ CurLevel = req.cfg[i] /\ LastIndex(phase) = 2
        /\ phase \in TrigPhases => CurPin = SendPin /\ CurLevel = (phase = "high")
                                   /\ i = 0 /\ LastIndex(phase) = 0
    <2>1. /\ phase = "pair" => CurLevel = PairBits(req.pair)[i] /\ LastIndex(phase) = 2
          /\ phase = "cfg" => CurLevel = req.cfg[i] /\ LastIndex(phase) = 2
          /\ phase \in TrigPhases => CurLevel = (phase = "high") /\ LastIndex(phase) = 0
      BY DEF CurLevel, LastIndex, TrigPhases, InitPhases
    <2>2. QED
      BY <1>1, <2>1, CurPinFacts
  <1>7. CurLevel \in BOOLEAN
    BY <1>1, <1>2, <1>6, RunPins DEF WritePhases, TypeOK
  <1>8. use' = use /\ out' = out
    BY <1>1, <1>2, <1>7, PinEffect
  <1>9. ASSUME NEW h \in Pin, NEW v \in BOOLEAN, Carries(h, v), h # CurPin
        PROVE  Carries(h, v)'
    BY <1>1, <1>2, <1>7, <1>9, CarriesKept
  <1>11. \A v \in BOOLEAN : v = CurLevel => CurPin \in P!Driven' /\ (CurPin \in latch' <=> v)
    BY <1>1, <1>2, <1>7, <1>8, PinEffect DEF P!Driven
  <1>12. TypeOK'
    <2>1. P!PinsTypeOK'
      BY <1>1, <1>2, <1>7, PinTypes DEF TypeOK
    <2>2. QED
      BY <1>1, <1>4, <2>1, CpldTypes DEF TypeOK
  <1>13. AccessOrder' /\ AstDirections'
    BY <1>1, <1>3, <1>8, NextAccess
  <1>14. LinesReady'
    <2>1. ASSUME NEW k \in Bits, PairReady(k)'
          PROVE  Carries(PairPin(k), PairBits(req.pair)[k])'
      <3>1. PairReady(k) \/ (phase = "pair" /\ k = i)
        BY <1>2, <1>4, <1>6, <2>1
           DEF PairReady, After, InitPhases, Bits, WritePhases, TrigPhases
      <3>2. PairBits(req.pair)' = PairBits(req.pair)
        BY <1>4 DEF PairBits, NewPair
      <3>3. CASE phase = "pair" /\ k = i
        BY <1>5, <1>6, <1>11, <3>2, <3>3, RunPins DEF Carries
      <3>4. CASE PairReady(k) /\ ~(phase = "pair" /\ k = i)
        <4>1. Carries(PairPin(k), PairBits(req.pair)[k])
          BY <1>1, <3>4 DEF LinesReady
        <4>2. PairPin(k) # CurPin
          BY <1>2, <1>6, <3>4, DistinctLines, Mapping
             DEF WritePhases, PairPin, CfgPin, SendPin, SendPins
        <4>3. Carries(PairPin(k), PairBits(req.pair)[k])' <=>
                /\ PairPin(k) \in P!Driven'
                /\ PairPin(k) \in latch' <=> PairBits(req.pair)[k]
          BY <1>5, <3>2 DEF Carries
        <4>4. QED
          BY <4>1, <4>2, <4>3, <1>9, RunPins DEF Carries
      <3>5. QED
        BY <3>1, <3>3, <3>4
    <2>2. ASSUME NEW k \in Bits, CfgReady(k)'
          PROVE  Carries(CfgPin(k), req.cfg[k])'
      <3>1. CfgReady(k) \/ (phase = "cfg" /\ k = i)
        BY <1>2, <1>4, <1>6, <2>2
           DEF CfgReady, After, InitPhases, Bits, WritePhases, TrigPhases
      <3>2. CASE phase = "cfg" /\ k = i
        BY <1>1, <1>4, <1>5, <1>6, <1>11, <3>2, RunPins DEF Carries, TypeOK
      <3>3. CASE CfgReady(k) /\ ~(phase = "cfg" /\ k = i)
        <4>1. Carries(CfgPin(k), req.cfg[k])
          BY <1>1, <3>3 DEF LinesReady
        <4>2. CfgPin(k) # CurPin
          BY <1>2, <1>6, <3>3, DistinctLines, Mapping
             DEF CfgReady, WritePhases, PairPin, CfgPin, SendPin, SendPins
        <4>3. Carries(CfgPin(k), req.cfg[k])' <=>
                /\ CfgPin(k) \in P!Driven'
                /\ CfgPin(k) \in latch' <=> req.cfg[k]
          BY <1>4, <1>5 DEF Carries
        <4>4. QED
          BY <1>1, <4>1, <4>2, <4>3, <1>9, RunPins DEF Carries, TypeOK
      <3>4. QED
        BY <3>1, <3>2, <3>3
    <2>3. QED
      BY <2>1, <2>2 DEF LinesReady
  <1>15. Pulse'
    <2>1. SendNo(req.pair) \in Send /\ SendNo(req.pair)' = SendNo(req.pair)
      BY <1>4, Mapping DEF SendNo, Group
    <2>2. CASE phase \in {"pair", "cfg"}
      <3>1. phase' \in {"pair", "cfg", "low"}
        BY <1>4, <2>2 DEF After
      <3>2. QED
        BY <3>1 DEF Pulse
    <2>3. CASE phase = "low"
      <3>1. phase' = "delay_low"
        BY <1>4, <1>6, <2>3 DEF After, TrigPhases
      <3>2. Carries(SendPin, FALSE)'
        BY <1>5, <1>6, <1>11, <2>3 DEF Carries, TrigPhases
      <3>3. QED
        BY <3>1, <3>2 DEF Pulse
    <2>4. CASE phase = "high"
      <3>1. phase' = "delay_high"
        BY <1>4, <1>6, <2>4 DEF After, TrigPhases
      <3>2. Carries(SendPin, TRUE)'
        BY <1>5, <1>6, <1>11, <2>4 DEF Carries, TrigPhases
      <3>3. SendNo(req.pair) \in Rises \cap held
        <4>1. Carries(SendPin, FALSE) /\ SendNo(req.pair) \in held
          BY <1>1, <2>4 DEF Pulse
        <4>2. ~P!Level(SendPin) /\ P!Level(SendPin)'
          BY <3>2, <4>1, <1>5 DEF Carries, P!Level
        <4>3. QED
          BY <2>1, <4>1, <4>2 DEF Rises, SendPin
      <3>4. SendNo(req.pair) \in armed'
        BY <1>1, <3>3 DEF Cpld
      <3>5. QED
        BY <2>1, <3>1, <3>2, <3>4 DEF Pulse
    <2>5. CASE phase = "drop"
      <3>1. phase' = "exit"
        BY <1>4, <1>6, <2>5 DEF After, TrigPhases
      <3>2. SendNo(req.pair) \in Falls \cap held \cap armed
        <4>1. Carries(SendPin, TRUE) /\ SendNo(req.pair) \in held \cap armed
          BY <1>1, <2>5 DEF Pulse
        <4>2. CurPin = SendPin /\ CurLevel = FALSE
          BY <1>6, <2>5 DEF TrigPhases
        <4>3. P!Level(SendPin) /\ ~P!Level(SendPin)'
          BY <1>5, <1>11, <4>1, <4>2 DEF Carries, P!Level
        <4>4. QED
          BY <2>1, <4>1, <4>3 DEF Falls, SendPin
      <3>3. /\ PairLines(SendNo(req.pair)) = PairBits(req.pair)
            /\ CfgLines(SendNo(req.pair)) = req.cfg
        BY <1>1, <2>5, LinesAtEdge DEF InitPhases
      <3>4. store[SendNo(req.pair)] \in [Code -> Cfg] /\ PairBits(req.pair) \in Code
        BY <1>1, <2>1, Mapping DEF TypeOK
      <3>5. store'[SendNo(req.pair)][PairBits(req.pair)] = req.cfg
        <4>1. store'[SendNo(req.pair)] =
                [store[SendNo(req.pair)] EXCEPT ![PairBits(req.pair)] = req.cfg]
          BY <1>1, <2>1, <3>2, <3>3 DEF Cpld
        <4>2. QED
          BY <3>4, <4>1
      <3>6. PairBits(req.pair)' = PairBits(req.pair)
        BY <1>4 DEF PairBits, NewPair
      <3>7. QED
        BY <1>4, <2>1, <3>1, <3>5, <3>6 DEF Pulse
    <2>6. QED
      BY <1>2, <2>2, <2>3, <2>4, <2>5 DEF WritePhases, TrigPhases
  <1>16. QED
    BY <1>1, <1>4, <1>8, <1>12, <1>13, <1>14, <1>15 DEF IInv, RunInv

LEMMA DelayStep ==
  ASSUME IInv, req.pair \in Pairs, Delay
  PROVE  IInv'
  <1>1. /\ TypeOK /\ AccessOrder /\ AstDirections /\ LinesReady /\ Pulse
        /\ status = "running" /\ phase \in DelayPhases /\ Advance
        /\ use' = use /\ out' = out /\ latch' = latch
        /\ store' = store /\ armed' = armed /\ held' = Send
    BY DEF IInv, RunInv, Delay
  <1>2. Backend # "PCH" => use = Pin
    BY DEF IInv
  <1>3. phase \notin InitPhases /\ phase # "exit" /\ LastIndex(phase) = 0
    BY <1>1 DEF DelayPhases, InitPhases, LastIndex
  <1>4. /\ phase' \in Phases /\ i' \in 0..LastIndex(phase')
        /\ op' \in {"use", "out", "lvl", "none"} /\ req' = req /\ status' = status
        /\ phase' = After[phase] /\ i' = 0
    <2>1. i = 0
      BY <1>1, <1>3 DEF TypeOK
    <2>2. QED
      BY <1>1, <1>3, <2>1, AdvanceFacts
  <1>5. \/ phase = "delay_low" /\ phase' = "high"
        \/ phase = "delay_high" /\ phase' = "drop"
    BY <1>1, <1>4 DEF DelayPhases, After
  <1>6. TypeOK'
    BY <1>1, <1>4 DEF TypeOK, P!PinsTypeOK
  <1>7. AccessOrder' /\ AstDirections'
    BY <1>1, <1>2, <1>3, NextAccess
  <1>8. LinesReady'
    BY <1>1, <1>4, <1>5
       DEF LinesReady, PairReady, CfgReady, Carries, P!Driven, PairPin, CfgPin, InitPhases,
           PairBits, NewPair, Group
  <1>9. Pulse'
    <2>1. SendNo(req.pair) \in Send
      BY Mapping
    <2>2. SendNo(req.pair)' = SendNo(req.pair) /\ SendPin' = SendPin
      BY <1>4 DEF SendPin
    <2>3. \A v \in BOOLEAN : Carries(SendPin, v)' = Carries(SendPin, v)
      BY <1>1, <2>2 DEF Carries, P!Driven
    <2>4. QED
      BY <1>1, <1>5, <2>1, <2>2, <2>3 DEF Pulse
  <1>10. QED
    BY <1>1, <1>2, <1>4, <1>6, <1>7, <1>8, <1>9 DEF IInv, RunInv

LEMMA StartStep ==
  ASSUME IInv, NEW r \in Req, r.pair \in Pairs, Start(r)
  PROVE  IInv'
  <1>1. /\ TypeOK /\ status' = "running" /\ phase' = FirstPhase /\ i' = 0
        /\ op' = FirstOp(FirstPhase) /\ req' = r /\ held' \in {held, Send}
        /\ use' = use /\ out' = out /\ latch' = latch
        /\ store' = store /\ armed' = armed
    BY DEF IInv, Start
  <1>2. Backend # "PCH" => use' = Pin
    BY <1>1 DEF IInv
  <1>3. TypeOK'
    <2>1. op' \in {"use", "out", "lvl", "none"} /\ phase' \in Phases
      BY <1>1, BackendAssumption
         DEF FirstOp, FirstPhase, InitPhases, WritePhases, Phases
    <2>2. i' \in 0..LastIndex(phase')
      BY <1>1 DEF LastIndex, FirstPhase
    <2>3. QED
      BY <1>1, <2>1, <2>2 DEF TypeOK, P!PinsTypeOK
  <1>4. \/ Backend = "AST" /\ phase' = "init_pair" /\ op' = "out"
        \/ Backend = "PCH" /\ phase' = "pair" /\ op' = "use"
        \/ Backend = "F71" /\ phase' = "pair" /\ op' = "out"
    <2>1. FirstOp("init_pair") = "out"
      BY DEF FirstOp, InitPhases, WritePhases, TrigPhases
    <2>2. /\ Backend = "PCH" => FirstOp("pair") = "use"
          /\ Backend = "F71" => FirstOp("pair") = "out"
      BY DEF FirstOp, InitPhases, WritePhases
    <2>3. QED
      BY <1>1, <2>1, <2>2, BackendAssumption DEF FirstPhase
  <1>5. AccessOrder'
    <2>1. Backend = "F71" => CurPin' \in use'
      <3>1. ASSUME Backend = "F71"
            PROVE  CurPin' = PairG[Group(r.pair) * 3 + 0]
        BY <1>1, <1>4, <3>1 DEF CurPin, TrigPhases
      <3>2. 0 \in Bits
        BY DEF Bits
      <3>3. QED
        BY <1>2, <3>1, <3>2, DistinctLines
    <2>2. QED
      BY <1>4, <2>1 DEF AccessOrder, InitPhases, WritePhases, DelayPhases, TrigPhases
  <1>6. AstDirections'
    <2>1. ASSUME Backend = "AST"
          PROVE  phase' = "init_pair" /\ i' = 0
      BY <1>1, <1>4, <2>1
    <2>2. QED
      BY <2>1 DEF AstDirections, InitPhases, Bits
  <1>7. LinesReady'
    BY <1>1, <1>4 DEF LinesReady, PairReady, CfgReady, InitPhases, Bits
  <1>8. Pulse'
    BY <1>4 DEF Pulse
  <1>9. QED
    BY <1>1, <1>2, <1>3, <1>5, <1>6, <1>7, <1>8 DEF IInv, RunInv

-----------------------------------------------------------------------------
(* The inductive invariant. *)

LEMMA InitIInv == Init => IInv
  <1> SUFFICES ASSUME Init
               PROVE  IInv
    OBVIOUS
  <1>1. PICK st \in PowerOn : use = st.use /\ out = st.out /\ latch = st.latch
    BY DEF Init
  <1>2. P!PinsTypeOK /\ (Backend # "PCH" => use = Pin)
    BY <1>1, BoardAssumption DEF P!PinsTypeOK
  <1>3. PICK c \in InitCfg : store = [s \in Send |-> [k \in Code |-> c]]
    BY DEF Init
  <1>4. store \in [Send -> [Code -> Cfg]]
    BY <1>3, BoardAssumption
  <1>5. i \in 0..LastIndex(phase) /\ phase \in Phases
    BY DEF Init, LastIndex, Phases, InitPhases
  <1>6. QED
    BY <1>2, <1>4, <1>5 DEF Init, IInv, TypeOK

\* Every step from a state whose request the usage text describes keeps IInv.
LEMMA NextIInv ==
  ASSUME ReqInRange, IInv, [Next]_vars
  PROVE  IInv'
  <1>1. req \in Req /\ req.pair \in Pairs
    BY DEF ReqInRange, IInv, TypeOK
  <1>2. ASSUME NEW r \in Req, Start(r)
        PROVE  IInv'
    BY <1>2, StartStep DEF ReqInRange
  <1>3. CASE Enable
    BY <1>1, <1>3, EnableStep
  <1>4. CASE DirOut
    BY <1>1, <1>4, DirOutStep
  <1>5. CASE SetLevel
    BY <1>1, <1>5, SetLevelStep
  <1>6. CASE Delay
    BY <1>1, <1>6, DelayStep
  <1>7. CASE Finish
    <2>1. /\ status = "running" /\ status' = "ok" /\ phase = "exit"
          /\ TypeOK /\ Pulse
          /\ UNCHANGED <<use, out, latch, phase, i, op, req, store, held, armed>>
      BY <1>7 DEF Finish, IInv, RunInv, cpldVars
    <2>2. TypeOK'
      BY <2>1 DEF TypeOK, P!PinsTypeOK
    <2>3. store'[SendNo(req.pair)'][PairBits(req.pair)'] = req'.cfg
      BY <2>1 DEF Pulse, SendNo, Group, PairBits, NewPair
    <2>4. QED
      BY <2>1, <2>2, <2>3 DEF IInv
  <1>8. CASE Kill
    <2>1. /\ status' = "killed" /\ phase' = "exit" /\ i' = 0 /\ op' = "none" /\ TypeOK
          /\ UNCHANGED <<use, out, latch, req, store, held, armed>>
      BY <1>8 DEF Kill, IInv, cpldVars
    <2>2. TypeOK'
      BY <2>1 DEF TypeOK, P!PinsTypeOK, LastIndex, Phases
    <2>3. QED
      BY <2>1, <2>2 DEF IInv
  <1>9. CASE UNCHANGED vars
    <2>1. UNCHANGED <<use, out, latch, phase, i, op, req, status, store, held, armed>>
      BY <1>9 DEF vars, progVars, cpldVars
    <2>2. TypeOK' <=> TypeOK
      BY <2>1 DEF TypeOK, P!PinsTypeOK
    <2>3. CurPin' = CurPin
      BY <2>1 DEF CurPin
    <2>4. AccessOrder' <=> AccessOrder
      BY <2>1, <2>3 DEF AccessOrder, P!Driven
    <2>5. AstDirections' <=> AstDirections
      BY <2>1 DEF AstDirections
    <2>6. LinesReady' <=> LinesReady
      BY <2>1 DEF LinesReady, PairReady, CfgReady, Carries, P!Driven, PairPin, CfgPin
    <2>7. Pulse' <=> Pulse
      BY <2>1 DEF Pulse, Carries, P!Driven, SendPin
    <2>8. QED
      BY <2>1, <2>2, <2>4, <2>5, <2>6, <2>7 DEF IInv, RunInv
  <1>10. QED
    BY <1>2, <1>3, <1>4, <1>5, <1>6, <1>7, <1>8, <1>9 DEF Next, Step

\* The invariant that the theorems below rest on.
THEOREM Invariance ==
  ASSUME ReqInRange
  PROVE  Spec => []IInv
  <1>1. IInv /\ [Next]_vars => IInv'
    BY NextIInv
  <1>2. QED
    BY <1>1, InitIInv, PTL DEF Spec

\* Type correctness of the tool's and the CPLD's state.
THEOREM TypeCorrect ==
  ASSUME ReqInRange
  PROVE  Spec => []TypeOK
  <1>1. IInv => TypeOK
    BY DEF IInv
  <1>2. QED
    BY <1>1, Invariance, PTL

\* A normal exit means the CPLD holds the requested configuration, whatever
\* the runs before did and wherever they were killed.
THEOREM Delivered ==
  ASSUME ReqInRange
  PROVE  Spec => []DeliveredOnExit
  <1>1. IInv => DeliveredOnExit
    BY DEF IInv, DeliveredOnExit
  <1>2. QED
    BY <1>1, Invariance, PTL

-----------------------------------------------------------------------------
(* What the CPLD takes over. *)

\* The level that an access writes is one.
LEMMA LevelWritten ==
  ASSUME TypeOK, AccessOrder, req.pair \in Pairs, SetLevel
  PROVE  CurLevel \in BOOLEAN
  <1>1. phase \in WritePhases
    BY CurPinFacts DEF AccessOrder, SetLevel
  <1>2. CASE phase = "pair"
    BY <1>2, CurPinFacts, RunPins DEF CurLevel, TrigPhases, SetLevel
  <1>3. CASE phase = "cfg"
    BY <1>3, CurPinFacts, RunPins DEF CurLevel, TrigPhases, SetLevel, TypeOK
  <1>4. CASE phase \in TrigPhases
    BY <1>4 DEF CurLevel, TrigPhases
  <1>5. QED
    BY <1>1, <1>2, <1>3, <1>4 DEF WritePhases

\* In a run, only the sendbit of the requested pair can fall, and only while
\* it is being pulsed.
LEMMA OnlyOwnEdge ==
  ASSUME IInv, req.pair \in Pairs, status = "running",
         Enable \/ DirOut \/ SetLevel,
         NEW s \in Falls
  PROVE  s = SendNo(req.pair) /\ phase \in TrigPhases
  <1>1. /\ TypeOK /\ AccessOrder
        /\ op # "none"
        /\ s \in Send /\ P!Level(Sendbit[s]) /\ ~P!Level(Sendbit[s])'
    BY DEF IInv, RunInv, Enable, DirOut, SetLevel, Falls
  <1>2. CurPin \in Pin /\ Sendbit[s] \in Pin /\ Sendbit[s] \in SendPins
    BY <1>1, CurPinFacts DEF Pin, SendPins
  <1>3. CurLevel \in BOOLEAN \/ ~SetLevel
    BY <1>1, LevelWritten
  <1>4. Sendbit[s] = CurPin
    BY <1>1, <1>2, <1>3, PinFrame DEF Enable, DirOut, SetLevel
  <1>5. phase \in TrigPhases
    <2>1. phase \notin {"pair", "cfg"}
      BY <1>1, <1>2, <1>4, CurPinFacts
    <2>2. phase \notin {"init_pair", "init_cfg"}
      <3>1. CurPin \notin PairPins \cup CfgPins
        BY <1>2, <1>4, ConfigAssumption
      <3>2. phase = "init_pair" \/ phase = "init_cfg" => Backend = "AST" /\ Board # "S0961"
        BY <1>1, BackendAssumption DEF AccessOrder, InitPhases
      <3>3. phase = "init_pair" => CurPin \in PairPins
        BY <1>1, <3>2, CurPinFacts, ConfigAssumption DEF PairPins, Bits
      <3>4. phase = "init_cfg" => CurPin \in CfgPins
        BY <1>1, <3>2, CurPinFacts, ConfigAssumption DEF CfgPins, Bits
      <3>5. QED
        BY <3>1, <3>3, <3>4
    <2>3. phase # "init_send"
      <3>1. SUFFICES ASSUME phase = "init_send"
                     PROVE  FALSE
        OBVIOUS
      <3>2. Backend = "AST" /\ op = "out"
        BY <1>1, <3>1 DEF AccessOrder, InitPhases
      <3>3. P!DirOut(CurPin)
        BY <3>2 DEF Enable, DirOut, SetLevel
      <3>4. CurPin \notin Pull
        BY <1>2, <1>4, <3>2, BoardAssumption
      <3>5. CurPin \in P!Driven /\ CurPin \in latch
        BY <1>1, <1>4, <3>4 DEF P!Level
      <3>6. P!DirOut(Sendbit[s]) /\ Sendbit[s] \in P!Driven /\ Sendbit[s] \in latch
        BY <1>4, <3>3, <3>5
      <3>7. P!Level(Sendbit[s])'
        BY <3>6, <1>2, PinEffect DEF P!Driven, P!Level
      <3>8. QED
        BY <1>1, <3>7
    <2>4. QED
      BY <1>1, <2>1, <2>2, <2>3, CurPinFacts DEF InitPhases, WritePhases
  <1>6. CurPin = SendPin
    BY <1>1, <1>5, CurPinFacts
  <1>7. QED
    BY <1>1, <1>4, <1>5, <1>6, Mapping, ConfigAssumption DEF SendPin

\* A step either leaves the CPLD's store alone or sets the requested entry.
LEMMA StoreStep ==
  ASSUME ReqInRange, IInv, [Next]_vars
  PROVE  \/ store' = store
         \/ /\ status = "running" /\ status' = "running" /\ req' = req
            /\ store' = [store EXCEPT ![SendNo(req.pair)][PairBits(req.pair)] = req.cfg]
  <1>1. req \in Req /\ req.pair \in Pairs /\ TypeOK
    BY DEF ReqInRange, IInv, TypeOK
  <1>2. CASE Enable \/ DirOut \/ SetLevel
    <2>1. Cpld /\ status = "running" /\ status' = "running" /\ req' = req
      BY <1>2 DEF Enable, DirOut, SetLevel, Advance
    <2>2. PICK fire \in SUBSET Falls :
            store' = [s \in Send |->
              IF s \in fire THEN [store[s] EXCEPT ![PairLines(s)] = CfgLines(s)]
              ELSE store[s]]
      BY <2>1 DEF Cpld
    <2>3. SendNo(req.pair) \in Send
      BY <1>1, Mapping
    <2>4. CASE fire = {}
      BY <1>1, <2>2, <2>4 DEF TypeOK
    <2>5. CASE fire # {}
      <3>1. fire = {SendNo(req.pair)} /\ phase \in TrigPhases
        BY <1>1, <1>2, <2>1, <2>5, OnlyOwnEdge
      <3>2. /\ PairLines(SendNo(req.pair)) = PairBits(req.pair)
            /\ CfgLines(SendNo(req.pair)) = req.cfg
        BY <1>1, <2>1, <3>1, LinesAtEdge DEF IInv, RunInv, TrigPhases, InitPhases
      <3>3. store' = [s \in Send |->
              IF s = SendNo(req.pair)
              THEN [store[s] EXCEPT ![PairBits(req.pair)] = req.cfg] ELSE store[s]]
        BY <2>2, <2>3, <3>1, <3>2
      <3>4. QED
        BY <1>1, <2>1, <2>3, <3>3 DEF TypeOK
    <2>6. QED
      BY <2>4, <2>5
  <1>3. CASE (\E r \in Req : Start(r)) \/ Delay \/ Finish \/ Kill \/ UNCHANGED vars
    BY <1>3 DEF Start, Delay, Finish, Kill, vars, cpldVars
  <1>4. QED
    BY <1>2, <1>3 DEF Next, Step

\* Whatever was killed before, an entry of the CPLD's store changes only to
\* the configuration of the present run, and only for the pair of that run.
THEOREM LatchCorrect ==
  ASSUME ReqInRange
  PROVE  Spec => LatchOnlyRequested
  <1> DEFINE A == \A s \in Send : \A c \in Code :
       store'[s][c] # store[s][c] =>
         /\ status = "running"
         /\ s = SendNo(req.pair)
         /\ c = PairBits(req.pair)
         /\ store'[s][c] = req.cfg
  <1>1. ASSUME IInv, [Next]_vars
        PROVE  A
    <2>1. store \in [Send -> [Code -> Cfg]]
      BY <1>1 DEF IInv, TypeOK
    <2>2. CASE store' = store
      BY <2>2
    <2>3. CASE /\ status = "running"
               /\ store' = [store EXCEPT ![SendNo(req.pair)][PairBits(req.pair)] = req.cfg]
      BY <2>1, <2>3
    <2>4. QED
      BY <1>1, <2>2, <2>3, StoreStep
  <1>2. IInv /\ [Next]_vars => [A]_vars
    BY <1>1
  <1>3. QED
    BY <1>2, Invariance, PTL DEF Spec, LatchOnlyRequested

\* The pin of an access belongs to the run, or it is a sendbit of an AST board
\* whose direction is set at the start of the run.
LEMMA WhosePin ==
  ASSUME TypeOK, AccessOrder, req.pair \in Pairs, op # "none"
  PROVE  CurPin \in OwnLines \/ (phase = "init_send" /\ CurPin \in SendPins)
  <1>1. phase \in InitPhases \cup WritePhases
    BY CurPinFacts
  <1>2. CASE phase \in {"pair", "cfg"}
    BY <1>2, CurPinFacts DEF OwnLines, PairPin, CfgPin
  <1>3. CASE phase \in TrigPhases
    BY <1>3, CurPinFacts DEF OwnLines, SendPin
  <1>4. CASE phase \in {"init_pair", "init_cfg"}
    <2>1. Group(req.pair) = 0 /\ i \in Bits /\ i \in Nat
      BY <1>4, CurPinFacts, BackendAssumption DEF AccessOrder, InitPhases, Group, Bits
    <2>2. Group(req.pair) * 3 + i = i
      BY <2>1
    <2>3. CurPin \in {PairG[Group(req.pair) * 3 + i], CfgG[Group(req.pair) * 3 + i]}
      BY <1>4, <2>2, CurPinFacts
    <2>4. QED
      BY <2>1, <2>3 DEF OwnLines
  <1>5. CASE phase = "init_send"
    BY <1>5, CurPinFacts DEF SendPins
  <1>6. QED
    BY <1>1, <1>2, <1>3, <1>4, <1>5 DEF InitPhases, WritePhases

LEMMA LevelBoolean ==
  ASSUME NEW g
  PROVE  P!Level(g) \in BOOLEAN /\ P!Level(g)' \in BOOLEAN
  <1>1. P!Level(g) \in BOOLEAN
    <2>1. CASE g \in P!Driven
      BY <2>1 DEF P!Level
    <2>2. CASE g \notin P!Driven
      BY <2>2 DEF P!Level
    <2>3. QED
      BY <2>1, <2>2
  <1>2. P!Level(g)' \in BOOLEAN
    <2>1. CASE (g \in P!Driven)'
      BY <2>1 DEF P!Level
    <2>2. CASE (g \notin P!Driven)'
      BY <2>2 DEF P!Level
    <2>3. QED
      BY <2>1, <2>2
  <1>3. QED
    BY <1>1, <1>2

\* Although a write of a level carries the latch bits of a whole bank, a run
\* moves no line of another group.
THEOREM OwnLinesCorrect ==
  ASSUME ReqInRange
  PROVE  Spec => OnlyOwnLines
  <1> DEFINE A == \A g \in Pin : P!Level(g)' # P!Level(g) =>
       g \in OwnLines \/ (phase = "init_send" /\ g \in SendPins /\ P!Level(g)')
  <1>1. ASSUME IInv, [Next]_vars
        PROVE  A
    <2>1. SUFFICES ASSUME NEW g \in Pin, P!Level(g)' # P!Level(g)
                   PROVE  \/ g \in OwnLines
                          \/ phase = "init_send" /\ g \in SendPins /\ P!Level(g)'
      OBVIOUS
    <2>2. Enable \/ DirOut \/ SetLevel
      <3>1. P!Level(g)' = P!Level(g) \/ use' # use \/ out' # out \/ latch' # latch
        BY DEF P!Level, P!Driven
      <3>2. QED
        BY <1>1, <2>1, <3>1 DEF Next, Step, Start, Delay, Finish, Kill, vars
    <2>3. /\ TypeOK /\ AccessOrder /\ req.pair \in Pairs
          /\ op # "none"
      BY <1>1, <2>2 DEF IInv, RunInv, ReqInRange, TypeOK, Enable, DirOut, SetLevel
    <2>4. CurPin \in Pin /\ (SetLevel => CurLevel \in BOOLEAN)
      BY <2>3, CurPinFacts, LevelWritten
    <2>5. CurPin = g
      BY <2>1, <2>2, <2>4, PinFrame DEF Enable, DirOut, SetLevel
    <2>6. SUFFICES ASSUME phase = "init_send", g \in SendPins
                   PROVE  P!Level(g)'
      BY <2>3, <2>5, WhosePin
    <2>7. Backend = "AST" /\ op = "out"
      BY <2>3, <2>6 DEF AccessOrder, InitPhases
    <2>8. P!DirOut(g) /\ g \notin Pull
      BY <2>2, <2>5, <2>6, <2>7, BoardAssumption DEF Enable, DirOut, SetLevel
    <2>9. P!Level(g) => P!Level(g)'
      BY <2>8, PinEffect DEF P!Level, P!Driven
    <2>10. P!Level(g) \in BOOLEAN /\ P!Level(g)' \in BOOLEAN
      BY LevelBoolean
    <2>11. QED
      BY <2>1, <2>9, <2>10, Zenon
  <1>2. IInv /\ [Next]_vars => [A]_vars
    BY <1>1
  <1>3. QED
    BY <1>2, Invariance, PTL DEF Spec, OnlyOwnLines

-----------------------------------------------------------------------------
(* The tool implements its abstract specification. *)

\* Two pairs of a board never share an entry of the CPLD's store.
LEMMA PairsDiffer ==
  ASSUME NEW p \in Pairs, NEW q \in Pairs, p # q
  PROVE  SendNo(p) # SendNo(q) \/ PairBits(p) # PairBits(q)
  <1>1. \A n \in 0..7, m \in 0..7 : n # m => \E k \in Bits : Bit(n, k) # Bit(m, k)
    BY DEF Bit, Bits
  <1>2. SUFFICES ASSUME SendNo(p) = SendNo(q)
                 PROVE  PairBits(p) # PairBits(q)
    OBVIOUS
  <1>3. \A r \in Pairs : r \in Nat /\ NewPair(r) - 1 \in 0..7
    BY BackendAssumption DEF Pairs, NewPair
  <1>4. NewPair(p) - 1 # NewPair(q) - 1
    <2>1. CASE Board = "S1451"
      BY <1>2, <1>3, <2>1 DEF NewPair, SendNo, Pairs
    <2>2. CASE Board # "S1451"
      BY <1>3, <2>2 DEF NewPair
    <2>3. QED
      BY <2>1, <2>2
  <1>5. PICK k \in Bits : Bit(NewPair(p) - 1, k) # Bit(NewPair(q) - 1, k)
    BY <1>1, <1>3, <1>4
  <1>6. PairBits(p)[k] # PairBits(q)[k]
    BY <1>5 DEF PairBits
  <1>7. QED
    BY <1>6

\* Of the abstract table, a step changes at most the entry of the request.
LEMMA TableStep ==
  ASSUME ReqInRange, IInv, [Next]_vars
  PROVE  \/ Table' = Table
         \/ /\ status = "running" /\ status' = "running" /\ req' = req
            /\ Table' = [Table EXCEPT ![req.pair] = req.cfg]
  <1>1. req.pair \in Pairs /\ req \in Req /\ store \in [Send -> [Code -> Cfg]]
    BY DEF ReqInRange, IInv, TypeOK
  <1>2. CASE store' = store
    BY <1>2 DEF Table
  <1>3. CASE /\ status = "running" /\ status' = "running" /\ req' = req
             /\ store' = [store EXCEPT ![SendNo(req.pair)][PairBits(req.pair)] = req.cfg]
    <2>1. \A p \in Pairs : SendNo(p) \in Send /\ PairBits(p) \in Code
      BY Mapping
    <2>2. ASSUME NEW p \in Pairs
          PROVE  store'[SendNo(p)][PairBits(p)] =
                   IF p = req.pair THEN req.cfg ELSE store[SendNo(p)][PairBits(p)]
      <3>1. CASE p = req.pair
        BY <1>1, <1>3, <2>1, <3>1
      <3>2. CASE p # req.pair
        BY <1>1, <1>3, <2>1, <3>2, PairsDiffer
      <3>3. QED
        BY <3>1, <3>2
    <2>3. Table' = [p \in Pairs |-> store'[SendNo(p)][PairBits(p)]]
      BY DEF Table
    <2>4. QED
      BY <1>1, <1>3, <2>2, <2>3 DEF Table
  <1>4. QED
    BY <1>2, <1>3, StoreStep

\* No step of a run changes the configuration of a pair it was not asked for.
THEOREM NamedPairCorrect ==
  ASSUME ReqInRange
  PROVE  Spec => OnlyNamedPairChanges
  <1> DEFINE A == \A p \in Pairs :
       store'[SendNo(p)][PairBits(p)] # store[SendNo(p)][PairBits(p)] => p = req.pair
  <1>1. ASSUME IInv, [Next]_vars
        PROVE  A
    <2>1. /\ Table = [p \in Pairs |-> store[SendNo(p)][PairBits(p)]]
          /\ Table' = [p \in Pairs |-> store'[SendNo(p)][PairBits(p)]]
      BY DEF Table
    <2>2. CASE Table' = Table
      BY <2>1, <2>2
    <2>3. CASE Table' = [Table EXCEPT ![req.pair] = req.cfg]
      BY <2>1, <2>3
    <2>4. QED
      BY <1>1, <2>2, <2>3, TableStep
  <1>2. IInv /\ [Next]_vars => [A]_vars
    BY <1>1
  <1>3. QED
    BY <1>2, Invariance, PTL DEF Spec, OnlyNamedPairChanges

\* Whatever it is killed in, each run of the tool is an atomic change of one
\* pair's configuration, or no change at all.
THEOREM Refinement ==
  ASSUME ReqInRange
  PROVE  Spec => BypassAbstract
  <1>1. Init => Abstract!Init
    <2>1. SUFFICES ASSUME Init
                   PROVE  Abstract!Init
      OBVIOUS
    <2>2. PICK c \in InitCfg : store = [s \in Send |-> [k \in Code |-> c]]
      BY <2>1 DEF Init
    <2>3. c \in Cfg
      BY BoardAssumption
    <2>4. Table \in [Pairs -> Cfg]
      BY <2>2, <2>3, Mapping DEF Table
    <2>5. QED
      BY <2>1, <2>4 DEF Init, Abstract!Init
  <1>2. ASSUME IInv, [Next]_vars
        PROVE  [Abstract!Next]_Abstract!specVars
    <2>1. Table' = Table
              \/ /\ status = "running" /\ status' = "running" /\ req' = req
                 /\ Table' = [Table EXCEPT ![req.pair] = req.cfg]
      BY <1>2, TableStep
    <2>2. CASE \E r \in Req : Start(r)
      <3>1. PICK r \in Req : Start(r)
        BY <2>2
      <3>2. Table' = Table
        BY <3>1 DEF Start, Table
      <3>3. Abstract!Start(r)
        BY <3>1, <3>2 DEF Start, Abstract!Start
      <3>4. QED
        BY <3>3 DEF Abstract!Next
    <2>3. CASE Enable \/ DirOut \/ SetLevel \/ Delay
      <3>1. UNCHANGED <<req, status>> /\ status = "running"
        BY <2>3 DEF Enable, DirOut, SetLevel, Delay, Advance
      <3>2. CASE Table' = Table
        BY <3>1, <3>2 DEF Abstract!specVars
      <3>3. CASE Table' = [Table EXCEPT ![req.pair] = req.cfg]
        BY <3>1, <3>3 DEF Abstract!Apply, Abstract!Next
      <3>4. QED
        BY <2>1, <3>2, <3>3
    <2>4. CASE Finish
      <3>1. req.pair \in Pairs
        BY <1>2 DEF ReqInRange, IInv, TypeOK
      <3>2. store[SendNo(req.pair)][PairBits(req.pair)] = req.cfg
        BY <1>2, <2>4 DEF Finish, IInv, RunInv, Pulse
      <3>3. Table[req.pair] = req.cfg /\ Table' = Table
        BY <2>4, <3>1, <3>2 DEF Table, Finish, cpldVars
      <3>4. Abstract!Finish
        BY <2>4, <3>3 DEF Finish, Abstract!Finish
      <3>5. QED
        BY <3>4 DEF Abstract!Next
    <2>5. CASE Kill
      <3>1. Table' = Table
        BY <2>5 DEF Table, Kill, cpldVars
      <3>2. Abstract!Kill
        BY <2>5, <3>1 DEF Kill, Abstract!Kill
      <3>3. QED
        BY <3>2 DEF Abstract!Next
    <2>6. CASE UNCHANGED vars
      BY <2>6 DEF vars, progVars, cpldVars, Table, Abstract!specVars
    <2>7. QED
      BY <1>2, <2>2, <2>3, <2>4, <2>5, <2>6 DEF Next, Step
  <1>3. QED
    BY <1>1, <1>2, Invariance, PTL DEF Spec, BypassAbstract, Abstract!Spec
=============================================================================
