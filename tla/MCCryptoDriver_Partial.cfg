\* A low-level driver without CFB and GCM: those calls reach a fallback
\* that never received the AES key.
CONSTANTS
  k1 = k1
  k2 = k2
  Keys <- MCKeys
  KeySizes <- MCKeySizes
  ValidKeySize <- MCValidKeySize
  LLDKeyAlgos <- MCLLDKeyAlgos
  LLDFamilies <- MCLLDPartial
  USE_FALLBACK = TRUE
  ENFORCE_FALLBACK = FALSE

SYMMETRY KeySymmetry

INIT Init
NEXT Next

PROPERTY KeySlotRefinement
