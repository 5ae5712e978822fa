CONSTANTS
  Reservations <- MCReservations
  Saves = {1, 2, 3}
  Resources = {"minerals"}
  Costs <- MCCosts
  Stock <- MCStock
  Targets = {"district"}
  Price <- MCPrice
  FleetOrders <- MCFleetOrders
  ArmyPrice <- MCArmyPrice
  Offers <- MCOffers
  Policies = {"block_until_save", "allow_serial_provisional"}
  Batch = 2
  MaxLag = 1
  RunLimit = 3
SPECIFICATION SpendingSpec
INVARIANTS OneActiveSave KeptWithinStock SentIsReserved RejectedWasLost
