SPECIFICATION Spec
CONSTANTS
  Tenants = {t1}
  Workers = {w1}
  Entities <- MCEntities
  Versions <- MCVersions
  Hashes <- MCHashes
  Inputs <- RenamedInputs
  Records <- Renamed
SYMMETRY Symmetry
INVARIANTS
  StaleNeverCurrent
