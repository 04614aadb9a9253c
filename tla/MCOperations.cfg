SPECIFICATION OperationsSpec
CONSTANTS
  w1 = w1
  g1 = g1
  s1 = s1
  s2 = s2
  a1 = a1
  f1 = f1
  p1 = p1
  p2 = p2
  r1 = r1
  r2 = r2
  e1 = e1
  e2 = e2
  e3 = e3
  None = None
  Works = {w1}
  Gates = {g1}
  Sponsors = {s1}
  Callers = {a1}
  Incidents = {f1}
  Supervisors = {p1, p2}
  MaxClaims = 2
  MaxCrashes = 1
  Recipients = {s1, s2}
  Posters = {p1, p2}
  Writers = {w1, r1}
  Upgrades = {r1}
  Backups = {p1, p2}
  Threads = {p1, p2}
  Engines = {e1, e2, e3}
  NoEngine = None
  NoThread = None
  Operations = {p1, p2}
  Revisions = {r1, r2}
  BaseImage = e1
  NoImage = None
  NoOperation = None
  Repositories = {r1, r2}
  NoRepository = None
INVARIANTS OperationsTypeOK RequestFollowsRun SponsorsTold BackupComplete EnginesAccounted OneDeployed
PROPERTIES VerdictFinal RecoveryResolves WorkKept
