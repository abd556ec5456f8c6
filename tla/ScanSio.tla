------------------------------ MODULE ScanSio ------------------------------
(***************************************************************************)
(* scan_sio (tools/scan_sio.c) looks for a super I/O chip at 4Eh and, when *)
(* nothing answers there, at 2Eh, and names it by its vendor and device    *)
(* numbers.  A step is a call of the library (see SioPorts).  A run may be *)
(* killed.                                                                 *)
(***************************************************************************)
EXTENDS Integers, Sequences

CONSTANT
  Found  \* chips: [vid, dev], by what their registers hold; a vendor number of
         \* FFFFh is that of no chip

VARIABLES
  sockets,   \* the chip at each address, NoChip if there is none
  isOpenAt,  \* the addresses whose chip is in its configuration mode
  addr,      \* the address sio_find works on
  scanPc,    \* the call that is next
  id,        \* what was read last, and what sio_find returns
  vid,       \* the vendor's name
  devid,     \* the chip's name
  printed    \* "none", or what is printed in the end

scanVars == <<sockets, isOpenAt, addr, scanPc, id, vid, devid, printed>>

Absent == 65535
NoChip == [vid |-> Absent, dev |-> Absent]

ASSUME FoundAssumption ==
  /\ Found \subseteq [vid : Nat, dev : Nat]
  /\ \A c \in Found : c.vid < Absent /\ c.dev <= Absent

\* Names of Fintek chips, and of Nuvoton chips whose last four bits are the version.
FintekNames == {
  <<2305, "F71808E">>, <<4097, "F71808A">>, <<1287, "F71858">>, <<1537, "F71862">>,
  <<4358, "F71868AD">>, <<2068, "F71869">>, <<4103, "F71869A">>, <<1345, "F71882">>,
  <<1827, "F71889">>, <<2313, "F71889E">>, <<4101, "F71889A">>, <<1409, "F8000">>,
  <<1796, "F81865">> }

NuvotonNames == {
  <<50256, "NCT6106">>, <<46192, "NCT6775">>, <<49968, "NCT6776">>,
  <<50528, "NCT6779">>, <<51200, "NCT6791">> }

FintekVid == 6452    \* 1934h

NameIn(names, n) == IF \E x \in names : x[1] = n
                    THEN (CHOOSE x \in names : x[1] = n)[2] ELSE "NOT_SUPPORT"

VidError == -1
DevError == -2

\* The cases for a device number that cannot be read: FFh for Fintek, FFFFh
\* for Nuvoton, whose version bits are masked out before.
FintekResult(n)  == IF n = 255 THEN DevError ELSE n
NuvotonResult(n) == IF n - (n % 16) = 65535 THEN DevError ELSE n

ScanInit ==
  /\ sockets \in [{78, 46} -> Found \cup {NoChip}]
  /\ isOpenAt \in SUBSET {a \in {78, 46} : sockets[a] # NoChip}
  /\ addr = 78
  /\ scanPc = "unlock"
  /\ id = 0
  /\ vid = "none"
  /\ devid = "none"
  /\ printed = "none"

Answer(r) == IF addr \in isOpenAt THEN sockets[addr][r] ELSE Absent

Unlock ==
  /\ printed = "none"
  /\ scanPc = "unlock"
  /\ isOpenAt' = isOpenAt \cup ({addr} \cap {a \in DOMAIN sockets : sockets[a] # NoChip})
  /\ scanPc' = "vid"
  /\ UNCHANGED <<sockets, addr, id, vid, devid, printed>>

ReadVendor ==
  /\ printed = "none"
  /\ scanPc = "vid"
  /\ IF Answer("vid") = Absent THEN id' = VidError /\ scanPc' = "lock"
     ELSE id' = Answer("vid") /\ scanPc' = "dev"
  /\ UNCHANGED <<sockets, isOpenAt, addr, vid, devid, printed>>

\* A chip that is no Fintek one is taken for a Nuvoton one.
ReadDevice ==
  /\ printed = "none"
  /\ scanPc = "dev"
  /\ LET n == Answer("dev") IN
       IF id = FintekVid
       THEN /\ vid' = "Fintek"
            /\ id' = FintekResult(n)
            /\ devid' = IF id' = DevError THEN devid ELSE NameIn(FintekNames, n)
       ELSE /\ vid' = IF n = Absent THEN vid ELSE "Nuvoton"
            /\ id' = NuvotonResult(n)
            /\ devid' = IF id' = DevError THEN devid ELSE NameIn(NuvotonNames, n - (n % 16))
  /\ scanPc' = "lock"
  /\ UNCHANGED <<sockets, isOpenAt, addr, printed>>

\* Slip: an address without a chip ends the search.
LockAndGiveUp ==
  /\ printed = "none"
  /\ scanPc = "lock"
  /\ isOpenAt' = isOpenAt \ {addr}
  /\ printed' = IF id = VidError THEN "nothing"
                ELSE IF id = DevError THEN "device error" ELSE "named"
  /\ UNCHANGED <<sockets, addr, scanPc, id, vid, devid>>

\* sio_find returns, and main goes on at 2Eh only when nothing answered.
LockChip ==
  /\ printed = "none"
  /\ scanPc = "lock"
  /\ isOpenAt' = isOpenAt \ {addr}
  /\ IF id = VidError /\ addr = 78
     THEN addr' = 46 /\ scanPc' = "unlock" /\ UNCHANGED printed
     ELSE /\ printed' = IF id = VidError THEN "nothing"
                     ELSE IF id = DevError THEN "device error" ELSE "named"
          /\ UNCHANGED <<addr, scanPc>>
  /\ UNCHANGED <<sockets, id, vid, devid>>

\* The run has ended, or is killed; another one starts.
ScanAgain ==
  /\ addr' = 78
  /\ scanPc' = "unlock"
  /\ id' = 0
  /\ vid' = "none"
  /\ devid' = "none"
  /\ printed' = "none"
  /\ UNCHANGED <<sockets, isOpenAt>>

ScanNext == Unlock \/ ReadVendor \/ ReadDevice \/ LockChip \/ ScanAgain

ScanSpec == ScanInit /\ [][ScanNext]_scanVars

-----------------------------------------------------------------------------
(* Properties. *)

ScanTypeOK ==
  /\ sockets \in [{78, 46} -> Found \cup {NoChip}]
  /\ isOpenAt \subseteq {a \in {78, 46} : sockets[a] # NoChip}
  /\ addr \in {78, 46}
  /\ scanPc \in {"unlock", "vid", "dev", "lock"}
  /\ printed \in {"none", "nothing", "device error", "named"}

\* The chip named is on the board, at the first address that has one, and
\* nothing is named only when there is no chip: a chip left in its
\* configuration mode by a killed run does not change the result, and a run
\* that ends leaves the chips it talked to locked (sio_find, main).
FirstChip == IF sockets[78] # NoChip THEN 78 ELSE 46
NamesTheChip ==
  /\ printed = "named" => /\ sockets[FirstChip] # NoChip
                          /\ addr = FirstChip
                          /\ id = sockets[FirstChip].dev
                          /\ addr \notin isOpenAt
  /\ printed = "nothing" => \A a \in {78, 46} : sockets[a] = NoChip

\* Once the present address has been asked, id tells what is there; 2Eh is
\* asked only when 4Eh has no chip.
AskedSoFar ==
  printed = "none" =>
    /\ addr = 46 => sockets[78] = NoChip
    /\ scanPc \in {"vid", "dev", "lock"} => (addr \in isOpenAt <=> sockets[addr] # NoChip)
    /\ scanPc = "dev" => sockets[addr] # NoChip
    /\ scanPc = "lock" =>
         /\ id = VidError <=> sockets[addr] = NoChip
         /\ id \notin {VidError, DevError} => id = sockets[addr].dev

ScanInv == ScanTypeOK /\ NamesTheChip /\ AskedSoFar
=============================================================================
