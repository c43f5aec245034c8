\* Two uploads of every kind of file, two packages and every fault.
SPECIFICATION FairSpec
CONSTANTS
  Uploads = {u1, u2}
  Files <- AllFiles
  Packages <- TwoPackages
  DefaultMax <- Default
  NoLimit = noLimit
  Faults <- AllFaults
INVARIANTS
  PagesWithinFile
  SavedWasAllowed
PROPERTIES
  UploadsEnd
CHECK_DEADLOCK FALSE
