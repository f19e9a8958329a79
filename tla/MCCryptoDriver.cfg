\* A low-level driver that loads AES keys and serves every AES family, the
\* fallback serving DES and the hashes: whatever the order of loads, failed
\* loads, starts, stops and operations, key id 0 behaves as one slot.
CONSTANTS
  k1 = k1
  k2 = k2
  Keys <- MCKeys
  KeySizes <- MCKeySizes
  ValidKeySize <- MCValidKeySize
  LLDKeyAlgos <- MCLLDKeyAlgos
  LLDFamilies <- MCLLDFamilies
  USE_FALLBACK = TRUE
  ENFORCE_FALLBACK = FALSE

SYMMETRY KeySymmetry

INIT Init
NEXT Next

INVARIANT CryTypeOK
PROPERTY KeySlotRefinement
