------------------------------- MODULE Bypass -------------------------------
(***************************************************************************)
(* The bypass tool (tools/bypass.c) and the CPLD it programs.              *)
(*                                                                         *)
(* A run puts the number of a pair of network ports on the pair lines, the *)
(* configuration on the cfg lines, and pulses a sendbit; the CPLD on the   *)
(* board takes the lines over on the falling edge of the sendbit           *)
(* (bypass.c:674).  The lines are GPIO pins of one of three backends: the  *)
(* PCH, a Fintek super I/O (F71) or an ASPEED BMC (AST).  A run can be     *)
(* killed between any two of its port accesses and the tool run again.     *)
(***************************************************************************)
EXTENDS Naturals

CONSTANTS
  Backend,   \* "PCH", "F71" or "AST": the chip read from the configuration
  Board,     \* "S0961", "S1451" or "plain": the board the file name announces
  PairG,     \* pair_g: index -> pin
  CfgG,      \* cfg_g: index -> pin
  Sendbit,   \* sendbit: index -> pin
  Bank,      \* the level register each pin lives in
  Pull,      \* pins the board pulls HIGH while they are not driven
  PowerOn,   \* pin states the first run may find: [use, out, latch]
  Req,       \* requests on the command line: [pair, cfg]
  InitCfg    \* configurations the CPLD may hold before the first run

Bits == 0..2                 \* PAIR_GPIO_NUM lines of each kind
Cfg  == [Bits -> BOOLEAN]    \* cfg[0] is wdt, cfg[1] off, cfg[2] on
Code == [Bits -> BOOLEAN]    \* levels on the pair lines
Send == DOMAIN Sendbit

PairPins == {PairG[k] : k \in DOMAIN PairG}
CfgPins  == {CfgG[k] : k \in DOMAIN CfgG}
SendPins == {Sendbit[s] : s \in Send}
Pin      == PairPins \cup CfgPins \cup SendPins

ASSUME BackendAssumption ==
  /\ Backend \in {"PCH", "F71", "AST"}
  /\ Board \in {"plain", "S0961", "S1451"}
  /\ Board = "S0961" => Backend = "PCH"
  /\ Board = "S1451" => Backend = "AST"

\* What read_config reads: 9 + 9 + 3 pins for S0961, 3 + 3 + 2 for S1451 and
\* 3 + 3 + 1 for every other board, all of them different.
ASSUME ConfigAssumption ==
  /\ DOMAIN PairG = IF Board = "S0961" THEN 0..8 ELSE 0..2
  /\ DOMAIN CfgG = DOMAIN PairG
  /\ Send = CASE Board = "S0961" -> 0..2 [] Board = "S1451" -> 0..1 [] OTHER -> {0}
  /\ \A j, k \in DOMAIN PairG : j # k => PairG[j] # PairG[k] /\ CfgG[j] # CfgG[k]
  /\ \A s, t \in Send : s # t => Sendbit[s] # Sendbit[t]
  /\ PairPins \cap CfgPins = {}
  /\ SendPins \cap (PairPins \cup CfgPins) = {}
  /\ DOMAIN Bank = Pin

\* Super I/O and BMC pins are GPIOs from the start.  ast_gpio_init turns the
\* sendbits into outputs before the lines carry data, so an AST board must
\* hold an undriven sendbit LOW.
ASSUME BoardAssumption ==
  /\ Pull \subseteq Pin
  /\ Backend = "AST" => SendPins \cap Pull = {}
  /\ PowerOn \subseteq [use : SUBSET Pin, out : SUBSET Pin, latch : SUBSET Pin]
  /\ Backend # "PCH" => \A st \in PowerOn : st.use = Pin
  /\ Req \subseteq [pair : Nat, cfg : Cfg]
  /\ InitCfg \subseteq Cfg

VARIABLES
  use, out, latch,  \* the pins, see Pins
  phase,            \* the function the run is in
  i,                \* its loop index
  op,               \* the port access that comes next for the present pin
  req, status,      \* the command line and how the run stands
  store,            \* CPLD: the configuration held for each sendbit and code
  held,             \* CPLD: sendbits unchanged for more than 100 ms
  armed             \* CPLD: HIGH sendbits that had been LOW for 100 ms before

progVars == <<phase, i, op, req, status>>
cpldVars == <<store, held, armed>>
vars == <<use, out, latch, progVars, cpldVars>>

P == INSTANCE Pins

-----------------------------------------------------------------------------
(* How a pair number is mapped to lines. *)

\* For S0961, pairs 1/2, 3/4 and 5/6 have lines and a sendbit of their own.
Group(pair) == IF Board = "S0961" THEN (pair - 1) \div 2 ELSE 0

\* S1451 has 16 pairs, the upper eight on the second sendbit.
SendNo(pair) ==
  IF Board = "S1451" THEN (IF pair > 8 THEN 1 ELSE 0) ELSE Group(pair)

NewPair(pair) == IF Board = "S1451" /\ pair > 8 THEN pair - 8 ELSE pair

Bit(n, k) == (CASE k = 0 -> n [] k = 1 -> n \div 2 [] k = 2 -> n \div 4) % 2 = 1

PairBits(pair) == [k \in Bits |-> Bit(NewPair(pair) - 1, k)]

\* The lines a sendbit's CPLD logic looks at.
SendGroup(s) == IF Board = "S0961" THEN s ELSE 0
PairLines(s) == [k \in Bits |-> P!Level(PairG[SendGroup(s) * 3 + k])]
CfgLines(s)  == [k \in Bits |-> P!Level(CfgG[SendGroup(s) * 3 + k])]

-----------------------------------------------------------------------------
(* The run as nested loops: phases, indices within a phase, accesses.      *)

InitPhases  == {"init_pair", "init_cfg", "init_send"}    \* ast_gpio_init
DelayPhases == {"delay_low", "delay_high"}               \* usleep(CPLD_DELAY)
TrigPhases  == {"low", "high", "drop"}                   \* cpld_trigger
WritePhases == {"pair", "cfg"} \cup TrigPhases
Phases == InitPhases \cup DelayPhases \cup WritePhases \cup {"exit"}

\* Slip: the pulse before the cfg lines.
AfterPulseFirst ==
  [init_pair |-> "init_cfg", init_cfg |-> "init_send", init_send |-> "pair",
   pair |-> "low", low |-> "delay_low", delay_low |-> "high", high |-> "delay_high",
   delay_high |-> "drop", drop |-> "cfg", cfg |-> "exit"]

After == [init_pair |-> "init_cfg", init_cfg |-> "init_send", init_send |-> "pair",
          pair |-> "cfg", cfg |-> "low", low |-> "delay_low",
          delay_low |-> "high", high |-> "delay_high", delay_high |-> "drop",
          drop |-> "exit"]

\* Slip: ast_gpio_init is not called.
FirstPhaseNoInit == "pair"

FirstPhase == IF Backend = "AST" THEN "init_pair" ELSE "pair"

\* PCH pins: USE_SEL, IO_SEL, LVL; F71 pins: direction, data; AST pins get
\* their direction in ast_gpio_init and only data afterwards.
FirstOp(ph) ==
  CASE ph \in InitPhases -> "out"
    [] ph \in WritePhases /\ Backend = "PCH" -> "use"
    [] ph \in WritePhases /\ Backend = "F71" -> "out"
    [] ph \in WritePhases /\ Backend = "AST" -> "lvl"
    [] OTHER -> "none"

\* Slip: each loop ends one pin early.
LastIndexShort(ph) == IF ph \in {"init_pair", "init_cfg", "pair", "cfg"} THEN 1 ELSE 0

LastIndex(ph) ==
  CASE ph \in InitPhases \cup {"pair", "cfg"} ->
         (IF ph = "init_send" /\ Board = "S1451" THEN 1
          ELSE IF ph = "init_send" THEN 0 ELSE 2)
    [] OTHER -> 0

\* Slip: the group of the pair is forgotten.
CurPinGroupZero ==
  CASE phase \in {"init_pair", "pair"} -> PairG[i]
    [] phase \in {"init_cfg", "cfg"}   -> CfgG[i]
    [] phase = "init_send"             -> Sendbit[i]
    [] phase \in TrigPhases            -> Sendbit[SendNo(req.pair)]

\* Slip: the sendbit is always the first one.
CurPinFirstSend ==
  CASE phase \in {"init_pair", "pair"} -> PairG[Group(req.pair) * 3 + i]
    [] phase \in {"init_cfg", "cfg"}   -> CfgG[Group(req.pair) * 3 + i]
    [] phase = "init_send"             -> Sendbit[i]
    [] phase \in TrigPhases            -> Sendbit[0]

CurPin ==
  CASE phase \in {"init_pair", "pair"} -> PairG[Group(req.pair) * 3 + i]
    [] phase \in {"init_cfg", "cfg"}   -> CfgG[Group(req.pair) * 3 + i]
    [] phase = "init_send"             -> Sendbit[i]
    [] phase \in TrigPhases            -> Sendbit[SendNo(req.pair)]

\* Slip: the pair lines carry the pair number as it was typed.
CurLevelAsTyped ==
  CASE phase = "pair" -> Bit(req.pair, i)
    [] phase = "cfg"  -> req.cfg[i]
    [] phase \in TrigPhases -> phase = "high"

CurLevel ==
  CASE phase = "pair" -> PairBits(req.pair)[i]
    [] phase = "cfg"  -> req.cfg[i]
    [] phase \in TrigPhases -> phase = "high"

NextPhase == IF i < LastIndex(phase) THEN phase ELSE After[phase]

Advance ==
  /\ phase' = NextPhase
  /\ i' = IF i < LastIndex(phase) THEN i + 1 ELSE 0
  /\ op' = FirstOp(NextPhase)
  /\ UNCHANGED <<req, status>>

-----------------------------------------------------------------------------
(* The CPLD.  A falling edge is certain to be taken over when HIGH and the *)
(* LOW before it each lasted more than 100 ms; a shorter pulse may be.     *)

Falls == {s \in Send : P!Level(Sendbit[s]) /\ ~P!Level(Sendbit[s])'}
Rises == {s \in Send : ~P!Level(Sendbit[s]) /\ P!Level(Sendbit[s])'}

Cpld ==
  /\ held' = held \ (Falls \cup Rises)
  /\ armed' = (armed \ Falls) \cup (Rises \cap held)
  /\ \E fire \in SUBSET Falls :
       /\ Falls \cap held \cap armed \subseteq fire
       /\ store' = [s \in Send |->
            IF s \in fire THEN [store[s] EXCEPT ![PairLines(s)] = CfgLines(s)]
            ELSE store[s]]

-----------------------------------------------------------------------------
Init ==
  /\ \E st \in PowerOn : use = st.use /\ out = st.out /\ latch = st.latch
  /\ \E c \in InitCfg : store = [s \in Send |-> [k \in Code |-> c]]
  /\ held \in {{}, Send}
  /\ armed \in {{}, Send}
  /\ req \in Req
  /\ status = "never"
  /\ phase = "exit"
  /\ i = 0
  /\ op = "none"

\* check_arguments has no upper bound for the pair.  Any time may have passed
\* since the last run.
Start(r) ==
  /\ status # "running"
  /\ r.pair >= 1
  /\ req' = r
  /\ status' = "running"
  /\ phase' = FirstPhase
  /\ i' = 0
  /\ op' = FirstOp(FirstPhase)
  /\ held' \in {held, Send}
  /\ UNCHANGED <<use, out, latch, store, armed>>

Enable ==
  /\ status = "running"
  /\ op = "use"
  /\ P!Enable(CurPin)
  /\ op' = "out"
  /\ UNCHANGED <<phase, i, req, status>>
  /\ Cpld

DirOut ==
  /\ status = "running"
  /\ op = "out"
  /\ P!DirOut(CurPin)
  /\ IF phase \in InitPhases THEN Advance
     ELSE op' = "lvl" /\ UNCHANGED <<phase, i, req, status>>
  /\ Cpld

SetLevel ==
  /\ status = "running"
  /\ op = "lvl"
  /\ P!SetLevel(CurPin, CurLevel)
  /\ Advance
  /\ Cpld

\* Slip: usleep returns at once.
DelayShort ==
  /\ status = "running"
  /\ phase \in DelayPhases
  /\ Advance
  /\ UNCHANGED <<use, out, latch, cpldVars>>

Delay ==
  /\ status = "running"
  /\ phase \in DelayPhases
  /\ Advance
  /\ held' = Send
  /\ UNCHANGED <<use, out, latch, store, armed>>

Finish ==
  /\ status = "running"
  /\ phase = "exit"
  /\ status' = "ok"
  /\ UNCHANGED <<use, out, latch, phase, i, op, req, cpldVars>>

Kill ==
  /\ status = "running"
  /\ status' = "killed"
  /\ phase' = "exit"
  /\ i' = 0
  /\ op' = "none"
  /\ UNCHANGED <<use, out, latch, req, cpldVars>>

Step == Enable \/ DirOut \/ SetLevel \/ Delay \/ Finish

Next == (\E r \in Req : Start(r)) \/ Step \/ Kill

Spec == Init /\ [][Next]_vars

\* A running process keeps being scheduled; nothing obliges anyone to start
\* or to kill it.
FairSpec == Spec /\ WF_vars(Step)

-----------------------------------------------------------------------------
(* Properties.                                                             *)

TypeOK ==
  /\ P!PinsTypeOK
  /\ phase \in Phases
  /\ i \in 0..LastIndex(phase)
  /\ op \in {"use", "out", "lvl", "none"}
  /\ req \in Req
  /\ status \in {"never", "running", "ok", "killed"}
  /\ store \in [Send -> [Code -> Cfg]]
  /\ held \subseteq Send
  /\ armed \subseteq Send

-----------------------------------------------------------------------------
(* The inductive invariant behind the properties below. *)

PairPin(k) == PairG[Group(req.pair) * 3 + k]
CfgPin(k)  == CfgG[Group(req.pair) * 3 + k]
SendPin    == Sendbit[SendNo(req.pair)]

Carries(g, high) == g \in P!Driven /\ (g \in latch <=> high)

\* The order of accesses within one write, for each backend.
AccessOrder ==
  /\ phase \in InitPhases => Backend = "AST" /\ op = "out"
  /\ phase \in WritePhases => op \in (CASE Backend = "PCH" -> {"use", "out", "lvl"}
                                       [] Backend = "F71" -> {"out", "lvl"}
                                       [] Backend = "AST" -> {"lvl"})
  /\ phase \in DelayPhases \cup {"exit"} => op = "none"
  /\ op = "out" /\ phase \in WritePhases => CurPin \in use
  /\ op = "lvl" => CurPin \in P!Driven

\* How far ast_gpio_init has come.
AstDirections == Backend = "AST" =>
  /\ \A k \in Bits : phase # "init_pair" \/ k < i => PairG[k] \in out
  /\ \A k \in Bits : phase \notin {"init_pair", "init_cfg"} \/ (phase = "init_cfg" /\ k < i)
       => CfgG[k] \in out
  /\ \A s \in Send : phase \notin InitPhases \/ (phase = "init_send" /\ s < i)
       => Sendbit[s] \in out

\* The lines written so far carry the request.
PairReady(k) == phase \notin InitPhases \cup {"pair"} \/ (phase = "pair" /\ k < i)
CfgReady(k)  == phase \notin InitPhases \cup {"pair", "cfg"} \/ (phase = "cfg" /\ k < i)
LinesReady ==
  \A k \in Bits :
    /\ PairReady(k) => Carries(PairPin(k), PairBits(req.pair)[k])
    /\ CfgReady(k) => Carries(CfgPin(k), req.cfg[k])

\* The shape of the pulse on the sendbit.
Pulse ==
  /\ phase \in {"delay_low", "high"} => Carries(SendPin, FALSE)
  /\ phase \in {"delay_high", "drop"} => Carries(SendPin, TRUE) /\ SendNo(req.pair) \in armed
  /\ phase \in {"high", "drop"} => SendNo(req.pair) \in held
  /\ phase = "exit" => store[SendNo(req.pair)][PairBits(req.pair)] = req.cfg

RunInv == AccessOrder /\ AstDirections /\ LinesReady /\ Pulse

IInv ==
  /\ TypeOK
  /\ Backend # "PCH" => use = Pin
  /\ status = "running" => RunInv
  /\ status = "ok" => store[SendNo(req.pair)][PairBits(req.pair)] = req.cfg

-----------------------------------------------------------------------------
(* What the tool must guarantee. *)

\* Whatever was killed before, the CPLD only ever takes over, for the pair
\* of the present run, the configuration of the present run: the lines are
\* complete before any edge of a sendbit (bypass_setup, ast_bypass_setup).
LatchOnlyRequested ==
  [][\A s \in Send : \A c \in Code :
       store'[s][c] # store[s][c] =>
         /\ status = "running"
         /\ s = SendNo(req.pair)
         /\ c = PairBits(req.pair)
         /\ store'[s][c] = req.cfg]_vars

\* A run that exits normally has delivered its configuration: the two delays
\* of cpld_trigger make its last edge one the CPLD cannot miss.
DeliveredOnExit ==
  status = "ok" => store[SendNo(req.pair)][PairBits(req.pair)] = req.cfg

\* A run changes the level of no pin but the lines and sendbit of the group
\* its pair belongs to (S0961 has three groups on one set of registers).  One
\* exception: ast_gpio_init makes both sendbits of S1451 outputs, and one that
\* was undriven over a HIGH latch rises.
OwnLines == {PairG[Group(req.pair) * 3 + k] : k \in Bits}
              \cup {CfgG[Group(req.pair) * 3 + k] : k \in Bits}
              \cup {Sendbit[SendNo(req.pair)]}
OnlyOwnLines ==
  [][\A g \in Pin : P!Level(g)' # P!Level(g) =>
       g \in OwnLines \/ (phase = "init_send" /\ g \in SendPins /\ P!Level(g)')]_vars

\* A run that is not killed ends, and its pair is then configured as asked.
RunDelivers ==
  status = "running" ~>
    \/ status = "killed"
    \/ status = "ok" /\ store[SendNo(req.pair)][PairBits(req.pair)] = req.cfg

\* The pairs the usage text and the comments name for each board.
Pairs == CASE Board = "S0961" -> 1..6 [] Board = "S1451" -> 1..16 [] OTHER -> 1..8

\* The command lines the usage text describes.
ReqInRange == \A r \in Req : r.pair \in Pairs

\* A pair's configuration never changes unless the command line named it
\* (usage text, bypass.c:885-892).
OnlyNamedPairChanges ==
  [][\A p \in Pairs :
       store'[SendNo(p)][PairBits(p)] # store[SendNo(p)][PairBits(p)]
         => p = req.pair]_vars

\* bypass.c:624-627 and 758-761: for pair 2 the lines carry the binary form
\* of 2, so that pair_g[1] is HIGH and the other two are LOW.
PairCommentEncoding ==
  phase = "cfg" /\ req.pair = 2 => PairLines(0) = [k \in Bits |-> k = 1]

\* The configuration of each pair as the CPLD holds it.
Table == [p \in Pairs |-> store[SendNo(p)][PairBits(p)]]

\* Each run is an atomic change of one pair's configuration, or none.
Abstract == INSTANCE BypassSpec WITH table <- Table
BypassAbstract == Abstract!Spec
=============================================================================
