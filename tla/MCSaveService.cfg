SPECIFICATION ServiceSpec
CONSTANTS
  Faults = {"write", "rename", "sync", "remove"}
  MaxSave = 2
  MaxMishap = 3
INVARIANTS EveryCrashIsRecoverable FreeMeansAlone OneSaveOneClient
PROPERTIES AlwaysComesBack SaveIsAnswered StoreIsAtomic
