CONSTANTS
  large = large
  small1 = small1
  small2 = small2
  Processes = {p1, p2}
  Handlers = {h}
  Executor = x
  Readers = {r}
  Imports = {large, small1, small2}
  Size <- SizeOf
  MaxStorage = 2
  MaxUploads = 1
  NoImport = NoImport
  MaxStamp = 1
  MaxEnds = 1
SPECIFICATION Spec
INVARIANTS QuotaHeld RegisteredHasFile CacheIsTrue FailedIsUnregistered Swept
SYMMETRY Interchangeable
