------------------------------ MODULE Nct6683d ------------------------------
(***************************************************************************)
(* The embedded controller's registers of an NCT6683D (tools/nct6683d.c),  *)
(* reached through a page, an index and a data port.  The page port takes  *)
(* a page only when it holds FFh, which the tool sees to before and after  *)
(* every access.  One step is one access to a port; a run may be killed.   *)
(***************************************************************************)
EXTENDS Integers, Sequences

CONSTANTS
  Page, Index,    \* pages and indices of interest
  Val,  \* values of a register
  Call  \* calls: [op, page, index, data], op "read" or "write"

Released == 255

ASSUME EcAssumption ==
  /\ Released \notin Page
  /\ Call \subseteq [op : {"read", "write"}, page : Page, index : Index, data : Val]

VARIABLES
  ec,       \* the registers of the controller
  page,     \* the page port
  ecIndex,  \* the index port
  call,     \* the call
  ecPc,     \* the port access that is next, "done" when it returns
  seen,     \* the page port as read
  ecRes,    \* the byte returned
  had       \* what the register has held during the call, by page and index

ecVars == <<ec, page, ecIndex, call, ecPc, seen, ecRes, had>>

Cell == Page \X Index

EcInit ==
  /\ ec \in [Cell -> Val]
  /\ page \in Page \cup {Released}
  /\ ecIndex \in Index
  /\ call \in Call
  /\ ecPc = "check"
  /\ seen = Released
  /\ ecRes = CHOOSE v \in Val : TRUE
  /\ had = {ec[<<call.page, call.index>>]}

\* The controller measures: a register changes.
Measure ==
  /\ \E c \in Cell : \E v \in Val :
       /\ ec' = [ec EXCEPT ![c] = v]
       /\ had' = IF c = <<call.page, call.index>> THEN had \cup {v} ELSE had
  /\ UNCHANGED <<page, ecIndex, call, ecPc, seen, ecRes>>

\* Slip: the page port is not looked at.
CheckPageNot ==
  /\ ecPc = "check"
  /\ seen' = Released
  /\ ecPc' = "page"
  /\ UNCHANGED <<ec, page, ecIndex, call, ecRes, had>>

CheckPage ==
  /\ ecPc = "check"
  /\ seen' = page
  /\ ecPc' = IF page # Released THEN "release" ELSE "page"
  /\ UNCHANGED <<ec, page, ecIndex, call, ecRes, had>>

Release ==
  /\ ecPc \in {"release", "final"}
  /\ page' = Released
  /\ ecPc' = IF ecPc = "release" THEN "page" ELSE "done"
  /\ UNCHANGED <<ec, ecIndex, call, seen, ecRes, had>>

SetPage ==
  /\ ecPc = "page"
  /\ page' = IF page = Released THEN call.page ELSE page
  /\ ecPc' = "index"
  /\ UNCHANGED <<ec, ecIndex, call, seen, ecRes, had>>

SetIndex ==
  /\ ecPc = "index"
  /\ ecIndex' = call.index
  /\ ecPc' = "data"
  /\ UNCHANGED <<ec, page, call, seen, ecRes, had>>

Data ==
  /\ ecPc = "data"
  /\ IF call.op = "read" THEN ecRes' = ec[<<page, ecIndex>>] /\ UNCHANGED <<ec, had>>
     ELSE /\ ec' = [ec EXCEPT ![<<page, ecIndex>>] = call.data]
          /\ had' = {call.data}
          /\ UNCHANGED ecRes
  /\ ecPc' = "final"
  /\ UNCHANGED <<page, ecIndex, call, seen>>

\* The next call, or a new run after one that was killed anywhere.
EcAgain ==
  /\ call' \in Call
  /\ ecPc' = "check"
  /\ had' = {ec[<<call'.page, call'.index>>]}
  /\ UNCHANGED <<ec, page, ecIndex, seen, ecRes>>

EcNext == Measure \/ CheckPage \/ Release \/ SetPage \/ SetIndex \/ Data \/ EcAgain

EcSpec == EcInit /\ [][EcNext]_ecVars

-----------------------------------------------------------------------------
(* Properties. *)

EcTypeOK ==
  /\ ec \in [Cell -> Val]
  /\ page \in Page \cup {Released}
  /\ ecIndex \in Index
  /\ call \in Call
  /\ ecPc \in {"check", "release", "page", "index", "data", "final", "done"}
  /\ seen \in Page \cup {Released}
  /\ ecRes \in Val
  /\ had \subseteq Val

\* A call that has reached the data port works on the register it names, and
\* what it returns that register held during the call, wherever an earlier
\* run was killed (nct6683d_ec_read, nct6683d_ec_write).
RightRegister ==
  /\ ecPc = "data" => page = call.page /\ ecIndex = call.index
  /\ ecPc \in {"final", "done"} /\ call.op = "read" => ecRes \in had
  /\ ecPc = "done" => page = Released

\* How the call has come to it: the page port held FFh when the page was
\* written, and the register's value of the moment is among those of the call.
OnItsWay ==
  /\ ecPc = "page" => page = Released
  /\ ecPc = "index" => page = call.page
  /\ ec[<<call.page, call.index>>] \in had

EcInv == EcTypeOK /\ RightRegister /\ OnItsWay
=============================================================================
