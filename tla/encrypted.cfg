\* Three clients, two of which may be killed.
CONSTANTS
  Clients = {"a", "b", "d"}
  MayBeKilled = {"a", "b"}
  StartsAfter <- MCStartsAfter
  FileOf <- MCFileOf
  IvOf <- MCIvOf
  KeyOf <- MCKeyOf
  ServerKeyOf <- MCServerKeyOf
  ECDH_compute_key <- MCSecret
  Substitute <- NoBoxes
  initial_permutation <- MCInitial
  expansion_table <- MCExpansion
  permutation_tab <- MCPermutation
  inverse_permutation <- MCInverse
  pc1 <- MCPc1
  pc2 <- MCPc2
  BlockBits = 16
  Rounds = 4
  HeaderBytes = 1
  Slots = 3
  Garbage = {0, 9}
SPECIFICATION FairSpec
INVARIANTS TypeOK InStep PictureOpens
PROPERTIES WholeFiles AllServed
