SPECIFICATION Spec
CONSTANTS
  Empty = Empty
  Torn = Torn
  Ids = {i1, i2, i3, i4, i5}
  Targets = {x}
  MaxProfiles = 2
  ConfigClients = {k1, k2}
  Fields = {version, engine}
  VersionField = version
  Values = {0, 1}
  OldVersions = {0}
  Defaults <- MCDefaults
  NoFile = NoFile
  VaultUsers = {u1, u2}
  Secrets = {s1, s2}
  MaxEntries = 2
  NoVault = NoVault
  ProfileRows = {r1, r2}
  MaxSessions = 2
  NoSession = 0
INVARIANTS StoresTypeOK ProfilesSafe StoresAgree
PROPERTIES StoresKeep
SYMMETRY Symmetry
