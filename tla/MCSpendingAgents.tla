-------------------------- MODULE MCSpendingAgents ---------------------------
(* A bounded instance: three saves, the second one poor; an attack, a paid  *)
(* recruitment and an upgrade of unknown price beside one construction.     *)
EXTENDS SpendingAgents, TLC

Minerals(n) == "minerals" :> n
MCCosts == {Minerals(0), Minerals(1)}
MCStock == 1 :> Minerals(1) @@ 2 :> Minerals(0) @@ 3 :> Minerals(1)
MCPrice == "district" :> Minerals(1)
MCArmyPrice == Minerals(1)
MCFleetOrders == {"recruit_armies", "upgrade_fleet"}
MCOffers == 1 :> MCFleetOrders @@ 2 :> {"upgrade_fleet"} @@ 3 :> {"recruit_armies"}
MCReservations == {FleetId(r) : r \in Runs} \cup {EcoId(r, s) : r \in Runs, s \in Saves}
=============================================================================
