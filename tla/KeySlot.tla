------------------------------- MODULE KeySlot -------------------------------
(***************************************************************************)
(* What hal_crypto.c promises of key id 0, "the transient key": one slot   *)
(* that cryLoadTransientKey fills and every keyed operation reads.  An     *)
(* operation of a family that no engine serves answers CRY_ERR_INV_ALGO;   *)
(* a keyed one answers CRY_ERR_INV_KEY_ID while the slot is empty and     *)
(* CRY_ERR_INV_KEY_TYPE when its algorithm is not the slot's (the @retval *)
(* lists); every other one succeeds, and a keyed one with                  *)
(* the key in the slot.  Failed loads and driver start/stop are stuttering *)
(* steps here.                                                             *)
(***************************************************************************)
CONSTANTS
  Keys,      \* key material
  KeyAlgos,  \* algorithms a key can be for
  Ops,       \* operation families, records [name, algo]
  Served     \* names of the families some engine serves

VARIABLES
  slot,      \* the transient key: [key, algo]
  last       \* the last operation: [fam, result, key]

NoKey == [key |-> "none", algo |-> "cry_algo_none"]

Answer(f) ==
  IF f.name \notin Served THEN "CRY_ERR_INV_ALGO"
  ELSE IF f.algo = "cry_algo_none" THEN "CRY_NOERROR"
  ELSE IF slot.algo = "cry_algo_none" THEN "CRY_ERR_INV_KEY_ID"
  ELSE IF slot.algo # f.algo THEN "CRY_ERR_INV_KEY_TYPE"
  ELSE "CRY_NOERROR"

Init ==
  /\ slot = NoKey
  /\ last = [fam |-> "none", result |-> "CRY_NOERROR", key |-> "none"]

Load ==
  /\ \E k \in Keys, a \in KeyAlgos : slot' = [key |-> k, algo |-> a]
  /\ UNCHANGED last

Use ==
  /\ \E f \in Ops :
       last' = [fam |-> f.name, result |-> Answer(f),
                key |-> IF Answer(f) = "CRY_NOERROR" /\ f.algo # "cry_algo_none"
                        THEN slot.key ELSE "none"]
  /\ UNCHANGED slot

Spec == Init /\ [][Load \/ Use]_<<slot, last>>

=============================================================================
