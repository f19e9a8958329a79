------------------------------ MODULE MCBeaconTiming ------------------------------
(***************************************************************************)
(* Beacon instantiated for the timing properties.  One tick stands for 5 s *)
(* (the packet spacing); the system time wraps at 64 ticks, far enough     *)
(* that the shortest counterexamples do not need the wrap of systime_t,    *)
(* and tel_enc_cycle exceeds two beacon cycles as in the configuration     *)
(* (10800 s against 120 s), so that a group in two consecutive cycles is a *)
(* burst, not jitter.                                                      *)
(***************************************************************************)
EXTENDS Beacon

MCTickWrap == 64
MCInitDelay == 1
MCCycle == 10
MCTelEncCycle == 24
MCSpacing == 1
MCPositionWait == 3
MCCollectorDelays == {0, 1}
MCNumTelemGroups == 4

=============================================================================
