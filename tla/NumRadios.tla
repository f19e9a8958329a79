------------------------------ MODULE NumRadios ------------------------------
(***************************************************************************)
(* What pktGetNumRadios promises: in one step, and eventually, the number  *)
(* of radios listed in radio_list before its PKT_RADIO_NONE terminator.   *)
(***************************************************************************)
EXTENDS Naturals, Sequences

CONSTANTS Units, NONE

VARIABLES radio_list, pc, numRadios

(* The reference count, by recursion on the table.                         *)
RECURSIVE CountBefore(_)
CountBefore(s) == IF Head(s) = NONE THEN 0 ELSE 1 + CountBefore(Tail(s))

Count ==
  /\ pc = "loop"
  /\ pc' = "done"
  /\ numRadios' = CountBefore(radio_list)
  /\ UNCHANGED radio_list

Spec ==
  /\ radio_list \in Seq(Units) /\ pc = "loop" /\ numRadios = 0
  /\ [][Count]_<<radio_list, pc, numRadios>>
  /\ WF_<<radio_list, pc, numRadios>>(Count)
=============================================================================
