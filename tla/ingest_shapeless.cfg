SPECIFICATION Spec
CONSTANTS
  Tenants = {t1}
  Workers = {w1}
  Entities <- MCEntities
  Versions <- MCVersions
  Hashes <- MCHashes
  Inputs <- ShapelessInputs
  Records <- Shapeless
SYMMETRY Symmetry
INVARIANTS
  NoDataLost
