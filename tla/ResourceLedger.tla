--------------------------- MODULE ResourceLedger ---------------------------
(***************************************************************************)
(* The cross-application reservation table of one campaign                 *)
(* (src/src/iag/core/resource_ledger.py).  Every Application that wants to *)
(* spend first writes a row bound to the hash of the save it was planned   *)
(* from; SQLite serialises the transactions (BEGIN IMMEDIATE), so each     *)
(* public method is one step here.  A transaction that raises is rolled    *)
(* back: a refused reservation changes nothing, the superseding included.  *)
(***************************************************************************)
EXTENDS Integers, FiniteSets, FiniteSetsExt

CONSTANTS
  Reservations,   \* reservation_id values
  Saves,          \* source_save_sha256 values
  Resources,      \* resource names of a stockpile or a price
  Costs,          \* the prices spenders ask for; all zero: no known price
  Stock           \* Stock[s][r]: amount of r in save s (0 when it is absent)

ASSUME LedgerAssumption ==
  /\ Saves # {}
  /\ Costs \subseteq [Resources -> Nat]
  /\ Stock \in [Saves -> [Resources -> Nat]]

VARIABLE rows     \* the table resource_reservations, by primary key

ledgerVars == <<rows>>

NoCost  == [r \in Resources |-> 0]
States  == {"absent", "active", "superseded", "released"}
Row     == [state: States, save: Saves, costs: Costs \cup {NoCost},
            exclusive: BOOLEAN]

LedgerTypeOK == rows \in [Reservations -> Row]

\* The value a key without a row has; its other fields are never read.
NoRow == [state |-> "absent", save |-> CHOOSE s \in Saves : TRUE,
          costs |-> NoCost, exclusive |-> FALSE]

LedgerInit == rows = [i \in Reservations |-> NoRow]

(* _active_rows: what counts for the save the caller names.                *)
ActiveIn(tab, s) == {i \in Reservations : tab[i].state = "active" /\ tab[i].save = s}

\* Defect: a save change leaves the old reservations active.
NothingSuperseded(tab, s) == tab

(* _supersede_stale: every active row of ANY other save stops counting.    *)
Superseding(tab, s) ==
  [i \in Reservations |->
     IF tab[i].state = "active" /\ tab[i].save # s
     THEN [tab[i] EXCEPT !.state = "superseded"]
     ELSE tab[i]]

(* _summary: the reserved total of one resource, and what is left of it.   *)
Reserved(tab, s, r) == MapThenSumSet(LAMBDA i : tab[i].costs[r], ActiveIn(tab, s))

Available(tab, s, r) ==
  LET left == Stock[s][r] - Reserved(tab, s, r) IN IF left > 0 THEN left ELSE 0

ExclusiveActive(tab, s) == \E i \in ActiveIn(tab, s) : tab[i].exclusive

IdUnused(tab, i) == tab[i].state = "absent"

(* The checks reserve() makes before it inserts a row.                     *)
MayInsert(tab, i, s, c, x) ==
  /\ IdUnused(tab, i)
  /\ ~ExclusiveActive(tab, s)
  /\ x => ActiveIn(tab, s) = {}
  /\ \A r \in Resources : c[r] > 0 => c[r] <= Available(tab, s, r)

Inserted(tab, i, s, c, x) ==
  [tab EXCEPT ![i] = [state |-> "active", save |-> s, costs |-> c, exclusive |-> x]]

(* A call without a price and without exclusivity only reads the status.   *)
AsksToSpend(c, x) == x \/ c # NoCost

(* Repeating a reservation that is still active for the same save is a     *)
(* success that inserts nothing (but keeps the superseding).               *)
AlreadyHeld(tab, i, s) == tab[i].state = "active" /\ tab[i].save = s

ReserveSucceeds(i, s, c, x) ==
  \/ AlreadyHeld(rows, i, s)
  \/ MayInsert(Superseding(rows, s), i, s, c, x)

Reserve(i, s, c, x) ==
  /\ AsksToSpend(c, x)
  /\ LET tab == Superseding(rows, s)
     IN \/ /\ AlreadyHeld(rows, i, s)
           /\ rows' = tab
        \/ /\ MayInsert(tab, i, s, c, x)
           /\ rows' = Inserted(tab, i, s, c, x)

Releasing(tab, i) ==
  IF tab[i].state = "active" THEN [tab EXCEPT ![i].state = "released"] ELSE tab

(* release(): a no-op on a row that is not active.                         *)
Release(i) ==
  rows' = Releasing(rows, i)

LedgerNext ==
  \/ \E i \in Reservations, s \in Saves, c \in Costs \cup {NoCost}, x \in BOOLEAN :
       Reserve(i, s, c, x)
  \/ \E i \in Reservations : Release(i)

LedgerSpec == LedgerInit /\ [][LedgerNext]_ledgerVars

-----------------------------------------------------------------------------
(* Two active reservations never belong to different saves: a reservation  *)
(* is only ever compared with stock of the save it was made for (reserve). *)
OneActiveSave ==
  \A i, j \in Reservations :
    rows[i].state = "active" /\ rows[j].state = "active" => rows[i].save = rows[j].save

(* A spender of unknown price is alone: no other reservation is active      *)
(* while it is (the "exclusive" column of reserve).                         *)
ExclusiveIsAlone ==
  \A i, j \in Reservations :
    /\ rows[i].state = "active" /\ rows[i].exclusive
    /\ rows[j].state = "active"
    => i = j

(* A reservation that was released or superseded never counts again, and    *)
(* the terms of a written row are never rewritten: a retried request with   *)
(* an old identifier cannot take money twice.                               *)
ClosedRowsStay ==
  [][\A i \in Reservations :
       /\ rows[i].state \in {"released", "superseded"} => rows'[i] = rows[i]
       /\ rows[i].state = "active" =>
            /\ rows'[i].state # "absent"
            /\ rows'[i] = [rows[i] EXCEPT !.state = rows'[i].state]]_ledgerVars

=============================================================================
