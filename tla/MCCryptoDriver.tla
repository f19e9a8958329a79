--------------------------- MODULE MCCryptoDriver ---------------------------
(***************************************************************************)
(* CryptoDriver instantiated for TLC: two keys, an AES and a DES key size, *)
(* a low-level driver that loads AES keys, the software fallback enabled.  *)
(* MCLLDFamilies gives the low-level driver every AES mode; MCLLDPartial   *)
(* gives it the modes of a peripheral without CFB and GCM.                 *)
(***************************************************************************)
EXTENDS CryptoDriver, TLC

CONSTANTS k1, k2

MCKeys == {k1, k2}
MCKeySizes == {8, 16}
MCValidKeySize == [a \in KeyAlgos |-> IF a = "cry_algo_aes" THEN {16} ELSE {8}]
MCLLDKeyAlgos == {"cry_algo_aes"}
MCLLDFamilies == {"AES", "AES_ECB", "AES_CBC", "AES_CFB", "AES_CTR", "AES_GCM"}
MCLLDPartial == {"AES", "AES_ECB", "AES_CBC", "AES_CTR"}

KeySymmetry == Permutations(MCKeys)

=============================================================================
