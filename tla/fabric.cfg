CONSTANTS
  N = 3
  Aws = {1}
  BaseDelay = 1
  CrossDelay = 1
  MaxFaults = 1
  MaxSent = 3
  MaxOut = 2
  Ticks = {0, 2}
SPECIFICATION FairSpec
INVARIANTS FabricInv DeliveredOnTime NoOvertaking
PROPERTIES CarriesOrDrops EventuallyDelivered
