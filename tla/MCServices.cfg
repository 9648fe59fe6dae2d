INIT Init
NEXT Next
CONSTANTS
  Reader <- MemoryReaders
  MemoryWrite <- MemoryWrites
  MaxJournal = 6
  Agent <- TeamAgents
  Team = {"crew"}
  Recording <- TeamRecordings
  Membership <- Crews
  MaxExchanges = 3
  Key = {"k", "l"}
  Thing = {"e", "a", "b"}
  Assertion = {"a", "b"}
  Reads <- CacheReads
  Summary = {"s"}
  Capacity = 2
  MaxClock = 1
  PolicyPrincipal <- Principals
  Pack <- PolicyPacks
  PolicyRule <- Rules
  PolicyTenant = "t"
  MaxAudit = 3
  FederatedGraph <- Federated
  Asker = {"p", "q"}
  Entity = {"x", "y"}
  MaxLinks = 2
  MaxPlans = 1
  Anyone = "*"
  StorageEvent = {"a", "b"}
  MaxEvents = 2
  MaxCrashes = 2
CHECK_DEADLOCK FALSE
INVARIANTS
  StoredIsServed
  BeliefsExplained
  ReadsAreTrue
  
PROPERTIES
  
  HistoryStands
