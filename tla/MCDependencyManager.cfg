SPECIFICATION Spec
CONSTANTS
  Refs = {app, ing, cert, crd}
  Versions = {1, 2}
  None = None
  Manifest <- MCManifest
  Available <- MCAvailable
  Namespaced <- MCNamespaced
  CacheLags = FALSE
  app = app
  ing = ing
  cert = cert
  crd = crd
INVARIANTS TypeOK RecursionBounded RequirementsAreMax PruneIsConfluent
PROPERTIES AdmissionKeepsFulfilled
