----------------------------- MODULE BypassSpec -----------------------------
(***************************************************************************)
(* What a run of the bypass tool promises: it may change the configuration *)
(* of the pair it was asked for, to the configuration it was asked for,    *)
(* and nothing else; when it exits normally the change has been made; a    *)
(* run that is killed has either made the change or not.                   *)
(***************************************************************************)
CONSTANTS
  Pairs,   \* the pairs of network ports of the board
  Cfg,     \* what a pair can be configured to do
  Req      \* requests: records with a pair and a cfg

VARIABLES
  table,   \* the configuration each pair is in
  req,     \* the request of the present or last run
  status   \* how the last run stands

specVars == <<table, req, status>>

Init ==
  /\ table \in [Pairs -> Cfg]
  /\ req \in Req
  /\ status = "never"

Start(r) ==
  /\ status # "running"
  /\ req' = r
  /\ status' = "running"
  /\ UNCHANGED table

Apply ==
  /\ status = "running"
  /\ table' = [table EXCEPT ![req.pair] = req.cfg]
  /\ UNCHANGED <<req, status>>

Finish ==
  /\ status = "running"
  /\ table[req.pair] = req.cfg
  /\ status' = "ok"
  /\ UNCHANGED <<table, req>>

Kill ==
  /\ status = "running"
  /\ status' = "killed"
  /\ UNCHANGED <<table, req>>

Next == (\E r \in Req : Start(r)) \/ Apply \/ Finish \/ Kill

Spec == Init /\ [][Next]_specVars
=============================================================================
