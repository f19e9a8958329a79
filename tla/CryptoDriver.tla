---------------------------- MODULE CryptoDriver ----------------------------
(***************************************************************************)
(* The ChibiOS cryptographic driver, hal_crypto.c.                         *)
(*                                                                         *)
(* The driver object CRYD1 goes CRY_UNINIT -> CRY_STOP -> CRY_READY.       *)
(* cryLoadTransientKey hands the key to the low-level driver and, when it  *)
(* answers CRY_ERR_INV_ALGO, to the software fallback; on success it       *)
(* records key0_type / key0_size.  Every operation asserts CRY_READY and   *)
(* is served by the low-level driver when its CRY_LLD_SUPPORTS_<family>    *)
(* switch is TRUE, else by the fallback when HAL_CRY_USE_FALLBACK is TRUE, *)
(* else returns CRY_ERR_INV_ALGO.                                          *)
(*                                                                         *)
(* Neither engine is in the repository.  An engine is modelled by the key  *)
(* algorithms its loadkey accepts and by the key it stores for key id 0:   *)
(* a transient-key operation succeeds when key0_type names the algorithm   *)
(* of the operation and the serving engine holds a key of it.              *)
(* Buffers, sizes and IVs are not modelled: the osalDbgCheck conditions on *)
(* them are the caller's contract and change no state.                     *)
(***************************************************************************)
EXTENDS FiniteSets

CONSTANTS
  Keys,            \* key material handed to cryLoadTransientKey
  KeySizes,        \* key sizes a caller may pass, within HAL_CRY_MAX_KEY_SIZE
  ValidKeySize,    \* [algorithm -> sizes an engine accepts]
  LLDKeyAlgos,     \* algorithms cry_lld_loadkey accepts
  LLDFamilies,     \* families whose CRY_LLD_SUPPORTS_<family> is TRUE
  USE_FALLBACK,    \* HAL_CRY_USE_FALLBACK
  ENFORCE_FALLBACK \* HAL_CRY_ENFORCE_FALLBACK

KeyAlgos == {"cry_algo_aes", "cry_algo_des"}
NoKey == [key |-> "none", algo |-> "cry_algo_none"]

(* The operation families; each stands for the functions named beside it. *)
AES         == [name |-> "AES",         algo |-> "cry_algo_aes"]  \* cryEncryptAES, cryDecryptAES
AES_ECB     == [name |-> "AES_ECB",     algo |-> "cry_algo_aes"]
AES_CBC     == [name |-> "AES_CBC",     algo |-> "cry_algo_aes"]
AES_CFB     == [name |-> "AES_CFB",     algo |-> "cry_algo_aes"]
AES_CTR     == [name |-> "AES_CTR",     algo |-> "cry_algo_aes"]
AES_GCM     == [name |-> "AES_GCM",     algo |-> "cry_algo_aes"]
DES         == [name |-> "DES",         algo |-> "cry_algo_des"]  \* also 3DES
DES_ECB     == [name |-> "DES_ECB",     algo |-> "cry_algo_des"]
DES_CBC     == [name |-> "DES_CBC",     algo |-> "cry_algo_des"]
SHA1        == [name |-> "SHA1",        algo |-> "cry_algo_none"] \* Init/Update/Final
SHA256      == [name |-> "SHA256",      algo |-> "cry_algo_none"]
SHA512      == [name |-> "SHA512",      algo |-> "cry_algo_none"]
HMAC_SHA256 == [name |-> "HMAC_SHA256", algo |-> "cry_algo_none"]
HMAC_SHA512 == [name |-> "HMAC_SHA512", algo |-> "cry_algo_none"]
TRNG        == [name |-> "TRNG",        algo |-> "cry_algo_none"]

Families == {AES, AES_ECB, AES_CBC, AES_CFB, AES_CTR, AES_GCM, DES, DES_ECB,
             DES_CBC, SHA1, SHA256, SHA512, HMAC_SHA256, HMAC_SHA512, TRNG}
FamilyNames == {f.name : f \in Families}
Keyed(f) == f.algo # "cry_algo_none"

ASSUME Keys # {} /\ "none" \notin Keys
ASSUME ValidKeySize \in [KeyAlgos -> SUBSET KeySizes]
ASSUME LLDKeyAlgos \subseteq KeyAlgos /\ LLDFamilies \subseteq FamilyNames
ASSUME USE_FALLBACK \in BOOLEAN /\ ENFORCE_FALLBACK \in BOOLEAN
(* hal_crypto.h: enforcing the fallback turns every CRY_LLD_SUPPORTS_*    *)
(* switch off.                                                             *)
ASSUME ENFORCE_FALLBACK => LLDFamilies = {}

Engines == {"lld", "fallback"}
Errors == {"CRY_NOERROR", "CRY_ERR_INV_ALGO", "CRY_ERR_INV_KEY_SIZE",
           "CRY_ERR_INV_KEY_TYPE", "CRY_ERR_INV_KEY_ID"}

VARIABLES
  state,      \* cryp->state
  config,     \* cryp->config is set (cryStart) or NULL
  key0_type,  \* cryp->key0_type
  key0_size,  \* cryp->key0_size
  engKey,     \* key id 0 as stored by each engine
  \* History variable, used only by the properties:
  lastOp      \* the last operation: family, engine, result, key used

vars == <<state, config, key0_type, key0_size, engKey, lastOp>>

NoOp == [fam |-> "none", engine |-> "none", result |-> "CRY_NOERROR",
         key |-> "none"]

-----------------------------------------------------------------------------
(* The key-loading engines' answer (cry_lld_loadkey, cry_fallback_loadkey) *)
LoadResult(accepted, algorithm, size) ==
  IF algorithm \notin accepted THEN "CRY_ERR_INV_ALGO"
  ELSE IF size \notin ValidKeySize[algorithm] THEN "CRY_ERR_INV_KEY_SIZE"
  ELSE "CRY_NOERROR"

(* Mutant: the fallback preferred over a low-level driver that supports   *)
(* the family.                                                             *)
EngineFallbackFirst(f) ==
  IF USE_FALLBACK THEN "fallback"
  ELSE IF f.name \in LLDFamilies THEN "lld"
  ELSE "none"

(* The #if chain of every operation: low-level driver, fallback or none.  *)
Engine(f) ==
  IF f.name \in LLDFamilies THEN "lld"
  ELSE IF USE_FALLBACK THEN "fallback"
  ELSE "none"

(* What the serving engine answers to an operation with key id 0, by the   *)
(* @retval list of each operation: CRY_ERR_INV_KEY_ID for an empty key     *)
(* slot, CRY_ERR_INV_KEY_TYPE for a key invalid for the operation.         *)
OpResult(f, e) ==
  IF e = "none" THEN "CRY_ERR_INV_ALGO"
  ELSE IF ~Keyed(f) THEN "CRY_NOERROR"
  ELSE IF key0_type = "cry_algo_none" THEN "CRY_ERR_INV_KEY_ID"
  ELSE IF key0_type # f.algo THEN "CRY_ERR_INV_KEY_TYPE"
  ELSE IF engKey[e].algo # f.algo THEN "CRY_ERR_INV_KEY_ID"
  ELSE "CRY_NOERROR"

-----------------------------------------------------------------------------
(* CRYD1 is a static object: zero-initialised, so key0_type is            *)
(* cry_algo_none before any key is loaded.                                 *)
Init ==
  /\ state = "CRY_UNINIT"
  /\ config = FALSE
  /\ key0_type = "cry_algo_none"
  /\ key0_size = 0
  /\ engKey = [e \in Engines |-> NoKey]
  /\ lastOp = NoOp

(* cryObjectInit: state CRY_STOP, config NULL.  cryInit only calls         *)
(* cry_lld_init, which is where the port initialises CRYD1.                *)
cryObjectInit ==
  /\ state = "CRY_UNINIT"
  /\ state' = "CRY_STOP"
  /\ config' = FALSE
  /\ UNCHANGED <<key0_type, key0_size, engKey, lastOp>>

(* cryStart: under the system lock, from CRY_STOP or CRY_READY.            *)
cryStart ==
  /\ state \in {"CRY_STOP", "CRY_READY"}
  /\ config' = TRUE
  /\ state' = "CRY_READY"
  /\ UNCHANGED <<key0_type, key0_size, engKey, lastOp>>

(* cryStop: config NULL, CRY_STOP; the transient key is left in place.     *)
cryStop ==
  /\ state \in {"CRY_STOP", "CRY_READY"}
  /\ config' = FALSE
  /\ state' = "CRY_STOP"
  /\ UNCHANGED <<key0_type, key0_size, engKey, lastOp>>

(* The answer of the engines to a key, and the engine that keeps it: the   *)
(* low-level driver first (skipped when the fallback is enforced), the     *)
(* fallback only on CRY_ERR_INV_ALGO.                                      *)
LoadErr(algorithm, size) ==
  LET lldErr == IF ENFORCE_FALLBACK THEN "CRY_ERR_INV_ALGO"
                ELSE LoadResult(LLDKeyAlgos, algorithm, size)
  IN  IF USE_FALLBACK /\ lldErr = "CRY_ERR_INV_ALGO"
        THEN [err |-> LoadResult(KeyAlgos, algorithm, size), into |-> "fallback"]
        ELSE [err |-> lldErr, into |-> "lld"]

(* Mutant: key0_type / key0_size recorded whatever the engines answered.  *)
LoadKeyUnchecked(k, algorithm, size) ==
  LET r == LoadErr(algorithm, size)
      ok == r.err = "CRY_NOERROR"
  IN  /\ engKey' = IF ok THEN [engKey EXCEPT ![r.into] = [key |-> k, algo |-> algorithm]]
                   ELSE engKey
      /\ key0_type' = algorithm
      /\ key0_size' = size
      /\ UNCHANGED <<state, config, lastOp>>

(* cryLoadTransientKey(cryp, algorithm, size, keyp): no state assertion;   *)
(* key0_type / key0_size are stored only on success.                      *)
LoadKey(k, algorithm, size) ==
  LET r == LoadErr(algorithm, size)
      ok == r.err = "CRY_NOERROR"
  IN  /\ engKey' = IF ok THEN [engKey EXCEPT ![r.into] = [key |-> k, algo |-> algorithm]]
                   ELSE engKey
      /\ key0_type' = IF ok THEN algorithm ELSE key0_type
      /\ key0_size' = IF ok THEN size ELSE key0_size
      /\ UNCHANGED <<state, config, lastOp>>

(* Any caller's cryLoadTransientKey, once cryObjectInit has run.           *)
cryLoadTransientKey ==
  /\ state # "CRY_UNINIT"
  /\ \E k \in Keys, algorithm \in KeyAlgos, size \in KeySizes :
       LoadKey(k, algorithm, size)

(* An encryption, decryption, hash or TRNG call of family f, key id 0.   *)
OperationOn(f) ==
  /\ state = "CRY_READY"
  /\ LET e == Engine(f)
         r == OpResult(f, e)
     IN lastOp' = [fam |-> f.name, engine |-> e, result |-> r,
                   key |-> IF r = "CRY_NOERROR" /\ Keyed(f)
                           THEN engKey[e].key ELSE "none"]
  /\ UNCHANGED <<state, config, key0_type, key0_size, engKey>>

Operation == \E f \in Families : OperationOn(f)

Next ==
  \/ cryObjectInit
  \/ cryStart
  \/ cryStop
  \/ cryLoadTransientKey
  \/ Operation

Spec == Init /\ [][Next]_vars

-----------------------------------------------------------------------------
FamilyOf(name) == CHOOSE f \in Families : f.name = name

(* Types of the driver object; key0_size is a size the engines accept for *)
(* key0_type, as cryLoadTransientKey records both only on success.         *)
CryTypeOK ==
  /\ state \in {"CRY_UNINIT", "CRY_STOP", "CRY_READY"}
  /\ config \in BOOLEAN
  /\ key0_type \in KeyAlgos \cup {"cry_algo_none"}
  /\ key0_size \in KeySizes \cup {0}
  /\ key0_type # "cry_algo_none" => key0_size \in ValidKeySize[key0_type]
  /\ \A e \in Engines : engKey[e] = NoKey \/ engKey[e].key \in Keys
  /\ lastOp.result \in Errors

(* The transient key as the driver holds it: key0_type, and the key kept  *)
(* by the engine that cryLoadTransientKey gives a key of that type to.     *)
KeyHeld ==
  IF key0_type = "cry_algo_none" THEN NoKey
  ELSE engKey[LoadErr(key0_type, key0_size).into]

KeySlotAbstract == INSTANCE KeySlot WITH
  Ops    <- Families,
  Served <- {f.name : f \in {g \in Families : Engine(g) # "none"}},
  slot   <- KeyHeld,
  last   <- [fam |-> lastOp.fam, result |-> lastOp.result, key |-> lastOp.key]

(* The key_id parameter documents "zero is the transient key": the driver  *)
(* behaves as one key slot.  A successful load fills it, a failed one      *)
(* leaves it; an operation that an engine serves fails only when the slot  *)
(* is empty or holds a key of another algorithm, and otherwise runs with   *)
(* the key of the last successful cryLoadTransientKey, whichever engine    *)
(* serves it;                                                              *)
(* before any successful load it fails with CRY_ERR_INV_KEY_ID.            *)
KeySlotRefinement == KeySlotAbstract!Spec

=============================================================================
