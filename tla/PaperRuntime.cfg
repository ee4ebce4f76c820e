SPECIFICATION FairSpec
CONSTANTS
  Initial = 2
  AutoSettings = {TRUE}
  MaxTrades = 1
  MaxEvents = 1
INVARIANT SerialIsSound
PROPERTIES
  DurableBookings
  
