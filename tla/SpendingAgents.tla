--------------------------- MODULE SpendingAgents ----------------------------
(***************************************************************************)
(* The two Applications that spend: economy governance                     *)
(* (src/src/iag/applications/economy_governance/agent_tools.py) and fleet  *)
(* operations (src/src/iag/applications/fleet_operations/agent_tools.py).  *)
(* A round pins one save and runs both turns in threads of their own; each *)
(* prepares an order, reserves its price in the ResourceLedger, sends it   *)
(* and keeps or releases the reservation by the answer, while the game     *)
(* writes newer saves and the uploader brings them to the console later.   *)
(* A construction whose packet was rewritten without a readable answer     *)
(* waits for a later save to show whether it was built.                    *)
(*                                                                         *)
(* What a candidate is (planner.py, fleet_profiles.py, ...) is left to     *)
(* Offers and Offered; a construction lands before its answer or never.    *)
(***************************************************************************)
EXTENDS ResourceLedger

CONSTANTS
  Targets,      \* constructions the economy may choose
  Price,        \* Price[t]: what a construction costs (all zero: not known)
  FleetOrders,  \* fleet actions whose feature switch is on
  ArmyPrice,    \* total_cost of a recruitment
  Offers,       \* Offers[s]: fleet actions the profile of save s offers
  Policies,     \* the settings of inconclusive_rewrite_policy to consider
  Batch,        \* maximum_constructions_per_turn
  MaxLag,       \* maximum_source_save_lag_versions
  RunLimit      \* bound: run identifiers that are handed out

Runs == 1..RunLimit
EcoId(run, s) == <<"economy", run, s>>
FleetId(run)  == <<"fleet", run, 0>>

ASSUME SpendingAssumption ==
  /\ Saves \subseteq Nat /\ 1 \in Saves
  /\ Price \in [Targets -> Costs \cup {NoCost}] /\ ArmyPrice \in Costs
  /\ Offers \in [Saves -> SUBSET FleetOrders]
  /\ Policies \subseteq {"block_until_save", "allow_serial_provisional"} /\ Policies # {}
  /\ Batch \in 1..5 /\ MaxLag \in Nat /\ RunLimit \in Nat
  /\ \A r \in Runs : FleetId(r) \in Reservations /\ \A s \in Saves : EcoId(r, s) \in Reservations

VARIABLES
  written,   \* the newest save the game has written
  head,      \* the newest save that has arrived at the console
  game,      \* game[t]: constructions t the game really has
  shown,     \* shown[s][t]: constructions t (done or queued) that save s shows
  granted,   \* fleet permissions the player grants now
  runs,      \* run identifiers used so far
  lock,      \* who holds the execution lock: "none", "economy", "fleet"
  eco,       \* the economy toolbox of the turn
  fleet,     \* the fleet toolbox of the turn
  pending,   \* stored: constructions that wait for a save to confirm them
  landed,    \* history: constructions (run identifiers) the game carried out
  verdicts,  \* history: <<run, target, verdict, late>> by a later save
  kept       \* history: reservations of orders reported done or provisional

vars == <<rows, written, head, game, shown, granted, runs, lock, eco, fleet, pending,
          landed, verdicts, kept>>
world   == <<written, head, game, shown>>
history == <<landed, verdicts, kept>>

\* The permission each action asks for; the other actions ask for none.
PermissionOf ==
  [move_fleet |-> "allow_move", move_fleet_to_coordinate |-> "allow_move",
   attack_fleet |-> "allow_attack", reinforce_fleet_to_target |-> "allow_reinforce",
   orbital_bombardment |-> "allow_bombardment", land_armies |-> "allow_land_armies",
   repair_fleet |-> "allow_repair", upgrade_fleet |-> "allow_upgrade",
   configure_ship_automation |-> "allow_automation",
   build_starbase |-> "allow_build_starbase"]

Permissions == {PermissionOf[a] : a \in FleetOrders \cap DOMAIN PermissionOf}

Permitted(a) == a \in DOMAIN PermissionOf => PermissionOf[a] \in granted

\* Packets that are sent as one sequence under one action lock.
SequenceActions == {"orbital_bombardment", "land_armies", "recruit_armies"}

\* Packets sent one by one; what was confirmed before a failure counts.
SteppedActions == {"reinforce_fleet_to_target", "configure_new_fleet"}

\* Prices a save does not tell: the whole stock is taken.
ExclusiveActions ==
  {"build_starbase", "order_colony_ship_and_colonize", "upgrade_starbase",
   "set_starbase_module", "set_starbase_building", "upgrade_fleet"} \cup SteppedActions

StepsOf(a)   == IF a \in SequenceActions \cup SteppedActions THEN 2 ELSE 1
CostOf(a)    == IF a = "recruit_armies" THEN ArmyPrice ELSE NoCost
Exclusive(a) == a \in ExclusiveActions
Spends(a)    == AsksToSpend(CostOf(a), Exclusive(a))

NoVirtual == [t \in Targets |-> 0]
EcoOff == [pc |-> "off", pin |-> 1, policy |-> CHOOSE p \in Policies : TRUE, todo |-> {},
           want |-> "none", run |-> 0, target |-> "none", retry |-> FALSE,
           blocked |-> FALSE, submitted |-> 0, virt |-> NoVirtual, noop |-> FALSE]
FleetOff == [pc |-> "off", pin |-> 1, want |-> "none", run |-> 0, action |-> "none",
             steps |-> 0]

SpendingInit ==
  /\ LedgerInit
  /\ written = 1 /\ head = 1
  /\ game = NoVirtual /\ shown = [s \in Saves |-> NoVirtual]
  /\ granted \in SUBSET Permissions
  /\ runs = 0 /\ lock = "none"
  /\ eco = EcoOff /\ fleet = FleetOff
  /\ pending = {} /\ landed = {} /\ verdicts = {} /\ kept = {}

Lowest(S) == CHOOSE p \in S : \A q \in S : p.run <= q.run

\* Defect: a tool runs beside the one the other turn is executing.
NoExecutionLock == TRUE

\* execution_lock: prepare and execute tools of both turns exclude each other.
LockFree == lock = "none"

-----------------------------------------------------------------------------
(* The world outside the turns.                                            *)

(* The game writes a save of its state.  A save the uploader never brings  *)
(* shows the console nothing, so only those that arrive are numbered.      *)
GameSaves ==
  /\ written + 1 \in Saves
  /\ written' = written + 1
  /\ shown' = [shown EXCEPT ![written + 1] = game]
  /\ UNCHANGED <<rows, head, game, granted, runs, lock, eco, fleet, pending, history>>

(* receive_save: the save becomes current, its time that of its arrival.   *)
SaveArrives ==
  /\ head < written
  /\ head' = head + 1
  /\ UNCHANGED <<rows, written, game, shown, granted, runs, lock, eco, fleet, pending,
                 history>>

(* save_fleet_permission: no lock, at any time.                            *)
PlayerSetsPermissions ==
  /\ granted' \in SUBSET Permissions
  /\ UNCHANGED <<rows, world, runs, lock, eco, fleet, pending, history>>

(* One job at a time: a round of both Applications, or a chat with one,    *)
(* on one pinned save.                                                     *)
StartRound(apps, policy) ==
  /\ eco.pc = "off" /\ fleet.pc = "off"
  /\ eco' = IF "economy" \in apps
            THEN [EcoOff EXCEPT !.pc = "load", !.pin = head, !.policy = policy] ELSE EcoOff
  /\ fleet' = IF "fleet" \in apps
              THEN [FleetOff EXCEPT !.pc = "idle", !.pin = head] ELSE FleetOff
  /\ UNCHANGED <<rows, world, granted, runs, lock, pending, history>>

-----------------------------------------------------------------------------
(* Economy: what an earlier turn left open is settled first.               *)

(* snapshot_is_new_enough_to_reject: another save whose archive is newer   *)
(* than the answer.  The archive is as old as its arrival, not as the save *)
(* in the game.  (Its comparison of months is for records without times,   *)
(* and every record this code stores has them.)                            *)
NewEnough(p) == p.save # eco.pin /\ eco.pin > p.seen

\* Written before the answer, arrived after it.
ArrivedLate(p) == eco.pin > p.seen /\ eco.pin <= p.saves

\* Defect: any other save settles a rejection, even one written before the click.
AnyOtherSave(p) == p.save # eco.pin

ProvesRejection(p) == NewEnough(p)

Verdict(p) ==
  IF p.save # eco.pin /\ shown[eco.pin][p.target] > p.base THEN "confirmed_by_save"
  ELSE IF ProvesRejection(p) THEN "rejected_by_save" ELSE "awaiting_fresh_save"

(* _reconcile_pending_execution: the open ones occupy their slot.          *)
EcoReconcile ==
  /\ eco.pc = "load"
  /\ LET open == {p \in pending : Verdict(p) = "awaiting_fresh_save"}
     IN /\ pending' = open
        /\ verdicts' = verdicts \cup 
             {<<p.run, p.target, Verdict(p), ArrivedLate(p)>> : p \in pending \ open}
        /\ eco' = [eco EXCEPT
             !.pc = "carry",
             !.todo = {p \in open : Price[p.target] # NoCost},
             !.blocked = open # {} /\ eco.policy = "block_until_save",
             !.virt = [t \in Targets |-> Cardinality({p \in open : p.target = t})]]
  /\ UNCHANGED <<rows, world, granted, runs, lock, fleet, landed, kept>>

(* _refresh_resource_reservations: what is still open is reserved again    *)
(* against the pinned save; when the save is too poor the turn is blocked. *)
EcoCarry ==
  /\ eco.pc = "carry" /\ eco.todo # {}
  /\ LET p  == Lowest(eco.todo)
         id == EcoId(p.run, eco.pin)
     IN \/ /\ Reserve(id, eco.pin, Price[p.target], FALSE)
           /\ eco' = [eco EXCEPT !.todo = @ \ {p}]
           /\ kept' = kept \cup {id}
        \/ /\ ~ReserveSucceeds(id, eco.pin, Price[p.target], FALSE)
           /\ eco' = [eco EXCEPT !.todo = {}, !.blocked = TRUE, !.pc = "idle"]
           /\ UNCHANGED <<rows, kept>>
  /\ UNCHANGED <<world, granted, runs, lock, fleet, pending, landed, verdicts>>

EcoLoaded ==
  /\ eco.pc = "carry" /\ eco.todo = {}
  /\ eco' = [eco EXCEPT !.pc = "idle"]
  /\ UNCHANGED <<rows, world, granted, runs, lock, fleet, pending, history>>

-----------------------------------------------------------------------------
(* Economy: the tools.  A call passes assert_world_snapshot_current, then  *)
(* waits for the execution lock; a save may arrive in between.             *)

EcoCall ==
  /\ eco.pc = "idle" /\ eco.pin = head
  /\ \E w \in Targets \cup {"execute", "noop"} :
       eco' = [eco EXCEPT !.pc = "waiting", !.want = w]
  /\ UNCHANGED <<rows, world, granted, runs, lock, fleet, pending, history>>

\* A slot that holds a command not yet answered by a save is not offered.
Offered(t) == eco.virt[t] = 0

EcoMayPrepare(t) ==
  ~eco.noop /\ ~eco.blocked /\ eco.run = 0 /\ eco.submitted < Batch /\ Offered(t)

EcoPrepare(t) ==
  /\ eco.pc = "waiting" /\ eco.want = t /\ LockFree
  /\ EcoMayPrepare(t) /\ runs + 1 < RunLimit
  /\ runs' = runs + 1
  /\ eco' = [eco EXCEPT !.pc = "idle", !.run = runs + 1, !.target = t]
  /\ UNCHANGED <<rows, world, granted, lock, fleet, pending, history>>

EcoMayNoop == ~eco.blocked /\ eco.run = 0 /\ eco.submitted = 0 /\ ~eco.noop

EcoNoop ==
  /\ eco.pc = "waiting" /\ eco.want = "noop" /\ LockFree
  /\ EcoMayNoop
  /\ eco' = [eco EXCEPT !.pc = "idle", !.noop = TRUE]
  /\ UNCHANGED <<rows, world, granted, runs, lock, fleet, pending, history>>

EcoMayExecute == ~eco.blocked /\ eco.run # 0

(* A call the toolbox refuses changes nothing.                             *)
EcoRefuse ==
  /\ eco.pc = "waiting" /\ LockFree
  /\ \/ eco.want = "execute" /\ ~EcoMayExecute
     \/ eco.want = "noop" /\ ~EcoMayNoop
     \/ eco.want \in Targets /\ ~(EcoMayPrepare(eco.want) /\ runs + 1 < RunLimit)
  /\ eco' = [eco EXCEPT !.pc = "idle"]
  /\ UNCHANGED <<rows, world, granted, runs, lock, fleet, pending, history>>

HasPrice == Price[eco.target] # NoCost

EcoReservation == EcoId(eco.run, eco.pin)

(* _reserve_prepared_resources, before the command is sent.                *)
EcoReserve ==
  /\ \/ eco.pc = "waiting" /\ eco.want = "execute" /\ LockFree /\ EcoMayExecute
     \/ eco.pc = "again"
  /\ \/ /\ HasPrice
        /\ Reserve(EcoReservation, eco.pin, Price[eco.target], FALSE)
        /\ eco' = [eco EXCEPT !.pc = "reserved", !.retry = eco.pc = "again"]
        /\ lock' = "economy"
     \/ /\ ~HasPrice
        /\ eco' = [eco EXCEPT !.pc = "reserved", !.retry = eco.pc = "again"]
        /\ lock' = "economy" /\ UNCHANGED rows
     \/ /\ HasPrice
        /\ ~ReserveSucceeds(EcoReservation, eco.pin, Price[eco.target], FALSE)
        /\ eco' = [eco EXCEPT !.pc = "idle", !.blocked = TRUE]
        /\ lock' = "none" /\ UNCHANGED rows
  /\ UNCHANGED <<world, granted, runs, fleet, pending, history>>

EcoReleasing == IF HasPrice THEN Releasing(rows, EcoReservation) ELSE rows

(* validate_source_save: a plan too many saves behind is stale.            *)
Stale == head - eco.pin > MaxLag

EcoSend ==
  /\ eco.pc = "reserved" /\ ~Stale
  /\ eco' = [eco EXCEPT !.pc = "sent"]
  /\ UNCHANGED <<rows, world, granted, runs, lock, fleet, pending, history>>

(* A stale plan is prepared anew once, under a new run identifier, unless  *)
(* the batch has already changed the game; the snapshot stays the pinned   *)
(* one, so reloading it settles nothing new.                               *)
EcoRefresh ==
  /\ eco.pc = "reserved" /\ Stale /\ ~eco.retry /\ eco.submitted = 0
  /\ rows' = EcoReleasing
  /\ runs' = runs + 1
  /\ eco' = [eco EXCEPT !.pc = "again", !.run = runs + 1]
  /\ UNCHANGED <<world, granted, lock, fleet, pending, history>>

EcoGivesUp ==
  /\ eco.pc = "reserved" /\ Stale /\ (eco.retry \/ eco.submitted > 0)
  /\ rows' = EcoReleasing
  /\ eco' = [eco EXCEPT !.pc = "idle", !.blocked = TRUE]
  /\ lock' = "none"
  /\ UNCHANGED <<world, granted, runs, fleet, pending, history>>

EcoLand ==
  /\ eco.pc = "sent" /\ eco.run \notin landed
  /\ landed' = landed \cup {eco.run}
  /\ game' = [game EXCEPT ![eco.target] = @ + 1]
  /\ UNCHANGED <<rows, written, head, shown, granted, runs, lock, eco, fleet, pending,
                 verdicts, kept>>

(* construction_action_evidence on the projected snapshot.                 *)
Evidence(t) == shown[eco.pin][t] + eco.virt[t]

\* Defect: only a confirmed construction keeps its reservation.
KeptIfConfirmed(result) == result = "confirmed_by_packet"

KeepsReservation(result) == result \in {"confirmed_by_packet", "pending_save_confirmation"}

(* The answer of execute_run.  A host that echoes the command has carried  *)
(* it out; no readable echo is settled by a save; the rest is a failure,   *)
(* which may still have landed.                                            *)
EcoAnswer(result) ==
  /\ eco.pc = "sent"
  /\ result = "confirmed_by_packet" => eco.run \in landed
  /\ rows' = IF KeepsReservation(result) THEN rows ELSE EcoReleasing
  /\ lock' = "none"
  /\ IF result = "failed"
     THEN /\ eco' = [eco EXCEPT !.pc = "idle", !.blocked = TRUE]
          /\ UNCHANGED <<pending, kept>>
     ELSE /\ eco' = [eco EXCEPT
               !.pc = "idle", !.run = 0, !.submitted = @ + 1,
               !.virt[eco.target] = @ + 1,
               !.blocked = result # "confirmed_by_packet" /\ eco.policy = "block_until_save"]
          /\ kept' = IF HasPrice THEN kept \cup {EcoReservation} ELSE kept
          /\ pending' = IF result = "confirmed_by_packet" THEN pending
                        ELSE pending \cup {[run |-> eco.run, target |-> eco.target,
                                            save |-> eco.pin, seen |-> head,
                                            saves |-> written,  \* history
                                            base |-> Evidence(eco.target)]}
  /\ UNCHANGED <<world, granted, runs, fleet, landed, verdicts>>

EcoEnd ==
  /\ eco.pc = "idle"
  /\ eco' = EcoOff
  /\ UNCHANGED <<rows, world, granted, runs, lock, fleet, pending, history>>

-----------------------------------------------------------------------------
(* Fleet: every prepare replaces what was prepared before.                 *)

FleetCall ==
  /\ fleet.pc = "idle" /\ fleet.pin = head
  /\ \E w \in FleetOrders \cup {"execute"} :
       fleet' = [fleet EXCEPT !.pc = "waiting", !.want = w]
  /\ UNCHANGED <<rows, world, granted, runs, lock, eco, pending, history>>

(* prepare_*: an order is one the profile of the pinned save offers; what  *)
(* is done to a fleet of the player asks for the player's permission too.  *)
PreparesMilitary(a) ==
  a \in {"move_fleet", "move_fleet_to_coordinate", "attack_fleet"} /\ Permitted(a)

PreparesReinforcement(a) == a = "reinforce_fleet_to_target" /\ Permitted(a)

PreparesInvasion(a) ==
  \/ a \in {"orbital_bombardment", "land_armies"} /\ Permitted(a)
  \/ a = "recruit_armies"

PreparesMaintenance(a) == a \in {"repair_fleet", "upgrade_fleet"} /\ Permitted(a)

PreparesCivilian(a) ==
  a \in {"configure_ship_automation", "build_starbase"} /\ Permitted(a)

PreparesExpansion(a) ==
  a \in {"order_colony_ship_and_colonize", "upgrade_starbase", "set_starbase_module",
         "set_starbase_building"}

FleetMayPrepare(a) ==
  /\ a \in Offers[fleet.pin]
  /\ \/ PreparesMilitary(a) \/ PreparesReinforcement(a) \/ PreparesInvasion(a)
     \/ PreparesMaintenance(a) \/ PreparesCivilian(a) \/ PreparesExpansion(a)

FleetPrepare(a) ==
  /\ fleet.pc = "waiting" /\ fleet.want = a /\ LockFree
  /\ FleetMayPrepare(a) /\ runs + 1 < RunLimit
  /\ runs' = runs + 1
  /\ fleet' = [fleet EXCEPT !.pc = "idle", !.run = runs + 1, !.action = a, !.steps = 0]
  /\ UNCHANGED <<rows, world, granted, lock, eco, pending, history>>

(* execute / execute_ship_action ask for the permission again, then build  *)
(* the order anew from the profile, reserve and send.  The player may take *)
(* the permission back after it was read: nothing asks a third time.       *)
FleetMayExecute == fleet.run # 0 /\ Permitted(fleet.action)

FleetRefuse ==
  /\ fleet.pc = "waiting" /\ LockFree
  /\ \/ fleet.want = "execute" /\ ~FleetMayExecute
     \/ fleet.want \in FleetOrders /\ ~(FleetMayPrepare(fleet.want) /\ runs + 1 < RunLimit)
  /\ fleet' = [fleet EXCEPT !.pc = "idle"]
  /\ UNCHANGED <<rows, world, granted, runs, lock, eco, pending, history>>

FleetReserves ==
  Reserve(FleetId(fleet.run), fleet.pin, CostOf(fleet.action), Exclusive(fleet.action))

FleetCheck ==
  /\ fleet.pc = "waiting" /\ fleet.want = "execute" /\ LockFree /\ FleetMayExecute
  /\ fleet' = [fleet EXCEPT !.pc = "checked"]
  /\ lock' = "fleet"
  /\ UNCHANGED <<rows, world, granted, runs, eco, pending, history>>

FleetMaySend ==
  /\ fleet.action \in Offers[fleet.pin]
  /\ Spends(fleet.action) =>
       ReserveSucceeds(FleetId(fleet.run), fleet.pin, CostOf(fleet.action),
                       Exclusive(fleet.action))

FleetSend ==
  /\ fleet.pc = "checked"
  /\ \/ /\ FleetMaySend
        /\ IF Spends(fleet.action) THEN FleetReserves ELSE UNCHANGED rows
        /\ fleet' = [fleet EXCEPT !.pc = "sent", !.steps = 0]
        /\ UNCHANGED lock
     \/ /\ ~FleetMaySend
        /\ fleet' = [fleet EXCEPT !.pc = "idle"]
        /\ lock' = "none"
        /\ UNCHANGED rows
  /\ UNCHANGED <<world, granted, runs, eco, pending, history>>

(* The host confirms the next packet of the order.                         *)
FleetStep ==
  /\ fleet.pc = "sent" /\ fleet.steps < StepsOf(fleet.action)
  /\ fleet' = [fleet EXCEPT !.steps = @ + 1]
  /\ UNCHANGED <<rows, world, granted, runs, lock, eco, pending, history>>

FleetReleasing == Releasing(rows, FleetId(fleet.run))

ReleasedUnlessAny == fleet.steps = 0

(* The controller answers.  An order sent in several packets is recorded   *)
(* as far as it was confirmed; a single packet without confirmation is an  *)
(* error and stays prepared.                                               *)
FleetAnswer ==
  /\ fleet.pc = "sent"
  /\ rows' = IF ReleasedUnlessAny THEN FleetReleasing ELSE rows
  /\ kept' = IF Spends(fleet.action) /\ fleet.steps > 0
             THEN kept \cup {FleetId(fleet.run)} ELSE kept
  /\ fleet' = IF fleet.steps = 0 /\ StepsOf(fleet.action) = 1
              THEN [fleet EXCEPT !.pc = "idle"]
              ELSE [fleet EXCEPT !.pc = "idle", !.run = 0, !.action = "none"]
  /\ lock' = "none"
  /\ UNCHANGED <<world, granted, runs, eco, pending, landed, verdicts>>

(* A SessionProxyError ends execute() at any step: the reservation is      *)
(* released and the order stays prepared; the stepwise orders stop there   *)
(* and count what they have (FleetAnswer).                                 *)
FleetFails ==
  /\ fleet.pc = "sent" /\ fleet.action \notin SteppedActions
  /\ rows' = FleetReleasing
  /\ fleet' = [fleet EXCEPT !.pc = "idle"]
  /\ lock' = "none"
  /\ UNCHANGED <<world, granted, runs, eco, pending, history>>

FleetEnd ==
  /\ fleet.pc = "idle"
  /\ fleet' = FleetOff
  /\ UNCHANGED <<rows, world, granted, runs, lock, eco, pending, history>>

-----------------------------------------------------------------------------
EcoNext ==
  \/ EcoReconcile \/ EcoCarry \/ EcoLoaded
  \/ EcoCall \/ (\E t \in Targets : EcoPrepare(t)) \/ EcoNoop \/ EcoRefuse
  \/ EcoReserve \/ EcoSend \/ EcoRefresh \/ EcoGivesUp \/ EcoLand
  \/ \E result \in {"confirmed_by_packet", "pending_save_confirmation", "failed"} :
       EcoAnswer(result)
  \/ EcoEnd

FleetNext ==
  \/ FleetCall \/ (\E a \in FleetOrders : FleetPrepare(a)) \/ FleetRefuse
  \/ FleetCheck \/ FleetSend \/ FleetStep \/ FleetAnswer \/ FleetFails \/ FleetEnd

SpendingNext ==
  \/ GameSaves \/ SaveArrives \/ PlayerSetsPermissions
  \/ \E apps \in {{"economy"}, {"fleet"}, {"economy", "fleet"}}, policy \in Policies :
       StartRound(apps, policy)
  \/ EcoNext \/ FleetNext

SpendingSpec == SpendingInit /\ [][SpendingNext]_vars

-----------------------------------------------------------------------------
(* What the agents report as done, or as waiting for a save, never costs   *)
(* more than the save it was planned from holds: no reservation of a       *)
(* reported order is given back while its save is in use (the answers of   *)
(* execute_prepared_construction, execute and execute_ship_action).        *)
KeptWithinStock ==
  \A s \in Saves, r \in Resources :
    MapThenSumSet(LAMBDA id : rows[id].costs[r], {id \in kept : rows[id].save = s})
      <= Stock[s][r]

(* A command is in flight only under the execution lock, with an active    *)
(* reservation for the save of its turn, whatever the other turn loads or  *)
(* reserves meanwhile.                                                     *)
SentIsReserved ==
  /\ eco.pc = "sent" => lock = "economy" /\ fleet.pc # "sent"
  /\ eco.pc = "sent" /\ HasPrice =>
       rows[EcoReservation].state = "active" /\ rows[EcoReservation].save = eco.pin
  /\ fleet.pc = "sent" => lock = "fleet"
  /\ fleet.pc = "sent" /\ Spends(fleet.action) =>
       rows[FleetId(fleet.run)].state = "active" /\ rows[FleetId(fleet.run)].save = fleet.pin

(* A construction that a later save wrote off was not carried out, and is    *)
(* not later on: the turn may try it anew and spend its price again          *)
(* (_reconcile_pending_execution).  Excepted is the verdict of a save that   *)
(* was written before the answer and arrived after it: its archive is new    *)
(* enough, what it shows is not.                                             *)
RejectedWasLost ==
  \A v \in verdicts : v[3] = "rejected_by_save" /\ ~v[4] => v[1] \notin landed
=============================================================================
