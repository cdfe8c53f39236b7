SPECIFICATION Spec
CONSTANTS
  d = d
  i = i
  a = a
  source = source
  mirror = mirror
  Nothing = Nothing
  Dirs = {d}
  Images = {i}
  Tags = {a}
  Registries = {source, mirror}
  KindsOf <- MCKindsOf
  Preflight <- MCPreflight
  RegistryOf <- MCRegistryOf
  ImagesIn <- MCImagesIn
  TagsOf <- MCTagsOf
  WithImages = {}
  Chains = {"c1", "c2"}
  SourceDirs <- MCSourceDirs
  MaxExpired = 1
INVARIANTS
  TypeOK
  DigestKnown
  OneClientEach
PROPERTIES
  RichStays
  SettledForGood
  KeepsPromise
  Ends
