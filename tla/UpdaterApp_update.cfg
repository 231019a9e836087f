\* A folder, an archive, a spared folder and an optional one, two updates.
CONSTANTS
  exe = exe
  lib = lib
  doc = doc
  ini = ini
  ad = ad
  junk = junk
  Files = {exe, lib, doc, ini, ad, junk}
  Components = {"program", "library", "settings", "advert"}
  FilesOf <- MCFilesOf
  Packages = {"library"}
  SkipExisting = {"settings"}
  Optional = {"advert"}
  PostActions = {"program"}
  Partial = FALSE
  FirstDisks <- MCFirstDisks
  MaxFails = 2
  MaxFaults = 2
  MaxRuns = 2
SPECIFICATION FairSpec
INVARIANTS TypeOK UpToDate RolledBack CopyExists FilesChangeAlone LeftRunning
PROPERTIES UpdateEnds
CHECK_DEADLOCK FALSE
