------------------------------ MODULE MCPortab ------------------------------
(* Radio tables of up to four entries over two radio units.                *)
EXTENDS Portab

CONSTANTS PKT_RADIO_1, PKT_RADIO_2, PKT_RADIO_NONE

MCUnits == {PKT_RADIO_1, PKT_RADIO_2, PKT_RADIO_NONE}
=============================================================================
