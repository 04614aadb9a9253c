SPECIFICATION ServicesSpec
CONSTANTS
  i1 = i1
  i2 = i2
  j1 = j1
  j2 = j2
  k1 = k1
  k2 = k2
  None = None
  Instances = {i1, i2}
  Items = {k1, k2}
  Retries = {k2}
  Digests = {j1, j2}
  MaxGen = 2
  MaxFaults = 2
  Drafts = {i1, i2}
  Configs = {j1, j2}
  Activators = {i1, i2}
  NoDigest = None
  NoDraft = None
  MaxRevisions = 2
  Monitors = {i1, i2}
  Works = {k1}
  Sponsored = {k1}
  NoMonitor = None
  MaxLeases = 2
  MaxVersion = 5
  Requests = {i1, i2}
  Readers = {k2}
  NoReading = None
  MaxVersions = 3
  MaxSource = 2
  Authors = {i1, i2}
  Collectors = {j1, j2}
  MaxTokens = 3
  Nil = None
  Contents = {j1, j2}
  Activations = {i1, i2}
  Importers = {i1, i2}
  NoImporter = None
  MaxAnswers = 4
  MaxPreviews = 3
  Projects = {k1, k2}
  Manifests = {1, 2, 3}
  ProjectOf <- MCProjectOf
  ResourcesOf <- MCResourcesOf
  RolesOf <- MCRolesOf
  ProjectManager = "manager"
  Places = {j1, j2}
  Registrars = {i1, i2}
  NoManifest = 0
  NoPlace = None
  NoRegistrar = None
SYMMETRY MCSymmetry
VIEW MCView
INVARIANTS ServicesTypeOK HolderOperates OnlyOverItsBaseline DispositionBacked RevisionTrail CountedOnce ImportApproved ProjectsApart
PROPERTIES AcknowledgedExclusive
