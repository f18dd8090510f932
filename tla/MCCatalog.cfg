SPECIFICATION Spec
CONSTANTS
  None = None
  Device = dev
  BootstrapGeneration = 1
  Bootstrap = "bootstrap"
  Slots = {"bootstrap", "slot"}
  Releases <- MCReleases
  Garbage <- MCGarbage
  InitialFiles <- MCInitialFiles
  Catalogs <- MCCatalogs
  Commands <- MCCommands
  MaxChanges = 2
CHECK_DEADLOCK FALSE
INVARIANTS
  TypeOK
  ResolvedIsOneRelease
  StoreUsable
PROPERTY
  UndisturbedResolves
