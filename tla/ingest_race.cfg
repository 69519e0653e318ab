SPECIFICATION Spec
CONSTANTS
  Tenants = {t1}
  Workers = {w1, w2}
  Entities <- MCEntities
  Versions <- MCVersions
  Hashes <- MCHashes
  Inputs <- MixedInputs
  Records <- Mixed
SYMMETRY Symmetry
INVARIANTS
  TypeOK
  AnswersKept
  OneRowPerVersion
  OneWinner
  NothingSwallowed
PROPERTIES
  AppendOnly
  ImplementsSpine
