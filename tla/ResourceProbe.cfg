CONSTANTS
  d = d
  u = u
  Routes <- MCRoutes
  NoModel = NoModel
  Docker = {d}
  Units = {u}
  good = good
  bad = bad
  Identities <- MCIdentities
  Certified = {good}
  Processes = {x}
  Threads = {t1, t2}
  Main = Main
  Workers = {w}
  Observers = {o}
  Jobs <- MCJobs
  Coexist = {}
  None = None
  MaxGeneration = 3
  MaxStarts = 2
SPECIFICATION Spec
INVARIANTS ServedIsDurable SamplesAdvance NothingHidden ListedWasThere LeaseIsGrounded
PROPERTIES GenerationsOnlyGrow ResidentIsPreferred
SYMMETRY MCSymmetry
