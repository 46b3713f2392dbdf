SPECIFICATION FairSpec
CONSTANTS
  Service <- MCService
  Registries <- MCRegistries
  MaxClicks = 2
  MaxOutages = 1
INVARIANTS TypeOK OrderKept
PROPERTIES ConfirmedFirst Converges EveryClickTried
