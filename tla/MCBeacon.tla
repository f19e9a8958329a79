------------------------------ MODULE MCBeacon ------------------------------
(***************************************************************************)
(* Beacon instantiated for TLC.  One tick stands for 5 s (the packet       *)
(* spacing); the system time wraps at 32 ticks so that the wrap of         *)
(* systime_t is reached, and tel_enc_cycle is longer than the beacon cycle *)
(* as in the configuration (10800 s against 120 s).                        *)
(***************************************************************************)
EXTENDS Beacon

MCTickWrap == 32
MCInitDelay == 1
MCCycle == 8
MCTelEncCycle == 12
MCSpacing == 1
MCPositionWait == 3
MCCollectorDelays == {0, 1}
MCNumTelemGroups == 4

=============================================================================
