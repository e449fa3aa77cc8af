SPECIFICATION Spec
CONSTANTS
  Folders = {f1, f2}
  Hosts = {h1, h2}
  Ids = {i1, i2}
  FileIds = {n1, n2}
  Settings = {s1, s2}
  Unescapable = {s2}
  Versions = {v1}
  NoId = NoId
  NoVersion = NoVersion
  NoSettings = NoSettings
  Home = f1
  HomeHost = h1
INVARIANT TypeOK
INVARIANT UniqueIds
INVARIANT FileAgrees
INVARIANT KeepsSettings
PROPERTY IdKept
CHECK_DEADLOCK FALSE
SYMMETRY Symmetry
