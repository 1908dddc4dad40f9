SPECIFICATION Spec
CONSTANTS
  j1 = j1
  j2 = j2
  Nobody = Nobody
  Job = {j1, j2}
  MaxRetries = 1
  MaxKills = 1
  File <- Sample
  Kind <- Kinds
  BatchSize = 2
  Threads = {1, 2}
  MaxSkipped = 1
SYMMETRY Symmetry
INVARIANTS FileKept RowNamesFile SuccessAccounts
