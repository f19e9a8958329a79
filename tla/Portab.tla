------------------------------- MODULE Portab -------------------------------
(***************************************************************************)
(* Two board functions of cfg/pp10b/portab.c.                              *)
(*                                                                         *)
(* pktGetNumRadios walks the constant radio_list up to its PKT_RADIO_NONE  *)
(* terminator with a post-incremented index, one action per loop test.     *)
(* pktReadIOlines packs the levels of four GPIO lines into a byte; the     *)
(* levels change under it at any time (the environment action LineChange). *)
(***************************************************************************)
EXTENDS Naturals, Sequences, Bitwise

CONSTANTS
  Units,      \* radio units, PKT_RADIO_NONE among them
  NONE,       \* PKT_RADIO_NONE
  MaxList     \* longest radio_list considered

ASSUME NONE \in Units /\ MaxList \in Nat \ {0}

IOLines == {"LINE_GPIO_PIN1", "LINE_IO_TXD", "LINE_IO_RXD", "LINE_GPIO_PIN2"}

(* A radio_list the board file can declare: entries up to a terminator.    *)
RadioLists ==
  UNION {{s \in [1 .. n -> Units] : \E j \in 1 .. n : s[j] = NONE}
           : n \in 1 .. MaxList}

VARIABLES
  radio_list, \* the board's radio table
  i,          \* the loop index of pktGetNumRadios
  pc,         \* "loop" while the while() test runs, then "done"
  numRadios,  \* the value returned
  level,      \* palReadLine level of each IO line
  ioByte      \* the last value returned by pktReadIOlines

vars == <<radio_list, i, pc, numRadios, level, ioByte>>

(* The bit layout of pktReadIOlines.                                       *)
ReadIOlines(lv) ==
  lv["LINE_GPIO_PIN1"]
    | (lv["LINE_IO_TXD"] * 2)
    | (lv["LINE_IO_RXD"] * 4)
    | lv["LINE_GPIO_PIN2"]

-----------------------------------------------------------------------------
Init ==
  /\ radio_list \in RadioLists
  /\ i = 0
  /\ pc = "loop"
  /\ numRadios = 0
  /\ level \in [IOLines -> {0, 1}]
  /\ ioByte = 0

(* Mutant: the index returned without the final pre-decrement.             *)
LoopTestNoDecrement ==
  /\ pc = "loop"
  /\ i' = i + 1
  /\ IF radio_list[i + 1] = NONE
       THEN pc' = "done" /\ numRadios' = i + 1
       ELSE UNCHANGED <<pc, numRadios>>
  /\ UNCHANGED <<radio_list, level, ioByte>>

(* while(radio_list[i++].unit != PKT_RADIO_NONE); return --i;              *)
(* The C array is indexed from 0, the sequence from 1.                      *)
LoopTest ==
  /\ pc = "loop"
  /\ i' = i + 1
  /\ IF radio_list[i + 1] = NONE
       THEN pc' = "done" /\ numRadios' = i' - 1
       ELSE UNCHANGED <<pc, numRadios>>
  /\ UNCHANGED <<radio_list, level, ioByte>>

(* pktReadIOlines()                                                        *)
ReadLines ==
  /\ ioByte' = ReadIOlines(level)
  /\ UNCHANGED <<radio_list, i, pc, numRadios, level>>

(* A GPIO line changes level.                                              *)
LineChange ==
  /\ \E l \in IOLines : level' = [level EXCEPT ![l] = 1 - @]
  /\ UNCHANGED <<radio_list, i, pc, numRadios, ioByte>>

Next == LoopTest \/ ReadLines \/ LineChange

Spec == Init /\ [][Next]_vars

(* The shell or start-up code that calls pktGetNumRadios runs it to its    *)
(* return: the loop is never abandoned while it is enabled.                *)
FairSpec == Spec /\ WF_vars(LoopTest)

-----------------------------------------------------------------------------
(* pktGetNumRadios implements NumRadios: the loop's steps other than the  *)
(* last leave the count unchanged, the last one returns the number of      *)
(* radios before the terminator, and under fairness it is reached.        *)
Abstract == INSTANCE NumRadios
NumRadiosRefinement == Abstract!Spec

(* pktReadIOlines' comment: the result is the "state of lines", one bit    *)
(* per line, so the byte it returns tells every line's level apart.        *)
IOLinesDecodable ==
  \A other \in [IOLines -> {0, 1}] :
    other # level => ReadIOlines(other) # ReadIOlines(level)
=============================================================================
