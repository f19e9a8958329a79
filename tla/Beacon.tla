------------------------------- MODULE Beacon -------------------------------
(***************************************************************************)
(* The position beacon thread bcnThread (src/unnamed/part_000, the second  *)
(* file of the part, lines 195-328).                                       *)
(*                                                                         *)
(* One loop iteration: ask the collector for a data point (chMsgSend),     *)
(* skip the cycle if p_sleep() says so, wait 60 s and retry if there is no *)
(* valid position, send the APRS_NUM_TELEM_GROUPS telemetry configuration  *)
(* packets when tel_enc_cycle has elapsed since last_conf_transmission,    *)
(* send the position packet, send the APRSD packet, then either exit       *)
(* (run_once) or waitForTrigger(time, cycle).                              *)
(*                                                                         *)
(* Time is the ChibiOS system time, a counter that wraps at TickWrap;      *)
(* every sleep of the thread advances it.  The thread is the only actor:   *)
(* the collector, p_sleep() and transmitOnRadio() are environment choices  *)
(* made inside the step that calls them.                                   *)
(***************************************************************************)
EXTENDS Naturals

CONSTANTS
  TickWrap,        \* modulus of systime_t / sysinterval_t
  InitDelay,       \* conf->beacon.init_delay, in ticks
  Cycle,           \* conf->beacon.cycle
  TelEncCycle,     \* conf_sram.tel_enc_cycle, 0 disables telemetry config
  Spacing,         \* TIME_S2I(5), the pause after a packet
  PositionWait,    \* TIME_S2I(60), the pause while there is no position
  CollectorDelays, \* ticks chMsgSend(collector_thd, ...) may block for
  NumTelemGroups   \* APRS_NUM_TELEM_GROUPS

ASSUME TickWrap \in Nat \ {0}
ASSUME {InitDelay, Cycle, TelEncCycle, Spacing, PositionWait}
         \subseteq 0 .. TickWrap - 1
ASSUME CollectorDelays \subseteq 0 .. TickWrap - 1 /\ CollectorDelays # {}
ASSUME NumTelemGroups \in Nat \ {0}

VARIABLES
  pc,         \* where bcnThread is in its loop
  run_once,   \* conf->run_once
  now,        \* chVTGetSystemTime()
  time,       \* the reference passed to waitForTrigger
  last_conf,  \* last_conf_transmission
  type,       \* index of the telemetry configuration loop
  \* History variables, used only by the properties:
  groupOk,    \* telemetry types of the current group handed to the radio
  cfgEmitted, \* some complete configuration group has been handed over
  event,      \* packet kind handed to the radio by the last step
  since       \* ticks since the last position packet / config group

vars == <<pc, run_once, now, time, last_conf, type,
          groupOk, cfgEmitted, event, since>>

Kinds == {"none", "telem", "position", "aprsd"}

(* The result of encoding a packet (NULL when the packet pool is empty)   *)
(* and of transmitOnRadio().                                               *)
Outcomes == {"nopacket", "txfail", "sent"}

(* Time since an event saturates at the bound the properties compare it   *)
(* with.  A position packet may be delayed by the telemetry group and the *)
(* collector latency, and the first one also by init_delay (time is taken *)
(* before that sleep); the telemetry test is made once per beacon cycle,  *)
(* at the collector's reply.                                               *)
MaxDelay == CHOOSE d \in CollectorDelays : \A e \in CollectorDelays : e <= d
GroupTime == NumTelemGroups * Spacing
Minus(a, b) == IF a > b THEN a - b ELSE 0
MinPositionGap == Minus(Cycle, InitDelay + GroupTime + MaxDelay)
MinConfigGap == Minus(TelEncCycle, Cycle + MaxDelay)
SinceCap == [pos |-> MinPositionGap, cfg |-> MinConfigGap]

Sat(k, n) == IF n > SinceCap[k] THEN SinceCap[k] ELSE n

(* Modular system time arithmetic (chTimeAddX, chTimeDiffX).               *)
TimeAdd(t, d) == (t + d) % TickWrap
TimeDiff(start, end) == (end - start + TickWrap) % TickWrap

(* Sleep for dt ticks after the events in resets happened.                 *)
Elapse(dt, resets) ==
  /\ now' = TimeAdd(now, dt)
  /\ since' = [k \in DOMAIN since |->
                 Sat(k, IF k \in resets THEN dt ELSE since[k] + dt)]

-----------------------------------------------------------------------------
(* The telemetry test of lines 236-238, evaluated at time t:              *)
(* tel_enc_cycle != 0 && chVTTimeElapsedSinceX(last_conf_transmission) >=  *)
(* tel_enc_cycle, the elapsed time taken modulo the system time.           *)
TelemetryDue(t) ==
  /\ TelEncCycle # 0
  /\ TimeDiff(last_conf, t) >= TelEncCycle

(* chThdSleepUntilWindowed(prev, prev + cycle) inside waitForTrigger:      *)
(* sleep until the next tick of the schedule if now is before it, return   *)
(* at once otherwise; the new schedule reference is prev + cycle.          *)
WaitForTrigger ==
  LET next == TimeAdd(time, Cycle) IN
  /\ time' = next
  /\ IF TimeDiff(time, now) < TimeDiff(time, next)
       THEN Elapse(TimeDiff(now, next), {})
       ELSE Elapse(0, {})

-----------------------------------------------------------------------------
Init ==
  /\ pc = "start"
  /\ run_once \in BOOLEAN
  /\ now = 0
  /\ time = 0
  /\ last_conf = 0
  /\ type = 0
  /\ groupOk = {}
  /\ cfgEmitted = FALSE
  /\ event = "none"
  /\ since = [k \in DOMAIN SinceCap |-> SinceCap[k]]

(* Thread entry: last_conf_transmission = now - tel_enc_cycle, so that the *)
(* first cycle sends the configuration; time = now; sleep init_delay.      *)
Start ==
  /\ pc = "start"
  /\ last_conf' = (now + TickWrap - TelEncCycle) % TickWrap
  /\ time' = now
  /\ Elapse(InitDelay, {})
  /\ pc' = "collect"
  /\ event' = "none"
  /\ UNCHANGED <<run_once, type, groupOk, cfgEmitted>>

(* chMsgSend to the collector, then p_sleep(), the position check (sleep   *)
(* 60 s and continue, without touching time), and the telemetry test.      *)
Collect ==
  /\ pc = "collect"
  /\ event' = "none"
  /\ \E d \in CollectorDelays :
       LET t == TimeAdd(now, d) IN
       \/ /\ pc' = "trigger"                         \* p_sleep() is true
          /\ Elapse(d, {})
          /\ UNCHANGED <<type, groupOk>>
       \/ /\ pc' = "collect"                         \* no valid position
          /\ Elapse(d + PositionWait, {})
          /\ UNCHANGED <<type, groupOk>>
       \/ /\ pc' = IF TelemetryDue(t) THEN "telem" ELSE "position"
          /\ Elapse(d, {})
          /\ type' = 0
          /\ groupOk' = {}
  /\ UNCHANGED <<run_once, time, last_conf, cfgEmitted>>

(* Mutant: the loop bound type < APRS_NUM_TELEM_GROUPS dropped.            *)
TelemetryPacketUnbounded ==
  /\ pc = "telem"
  /\ \E r \in Outcomes :
       /\ event' = IF r = "sent" THEN "telem" ELSE "none"
       /\ groupOk' = IF r = "sent" THEN groupOk \cup {type} ELSE groupOk
       /\ Elapse(Spacing, {})
  /\ type' = type + 1
  /\ UNCHANGED <<pc, run_once, time, last_conf, cfgEmitted>>

(* One iteration of the telemetry configuration loop: encode (NULL when no *)
(* packet is free), transmitOnRadio, then sleep 5 s whatever happened.     *)
TelemetryPacket ==
  /\ pc = "telem"
  /\ type < NumTelemGroups
  /\ \E r \in Outcomes :
       /\ event' = IF r = "sent" THEN "telem" ELSE "none"
       /\ groupOk' = IF r = "sent" THEN groupOk \cup {type} ELSE groupOk
       /\ Elapse(Spacing, {})
  /\ type' = type + 1
  /\ UNCHANGED <<pc, run_once, time, last_conf, cfgEmitted>>

(* last_conf_transmission += tel_enc_cycle once the loop is over.          *)
TelemetryDone ==
  /\ pc = "telem"
  /\ type = NumTelemGroups
  /\ last_conf' = TimeAdd(last_conf, TelEncCycle)
  /\ cfgEmitted' = (cfgEmitted \/ groupOk = 0 .. NumTelemGroups - 1)
  /\ pc' = "position"
  /\ event' = "none"
  /\ since' = [since EXCEPT !.cfg = 0]
  /\ UNCHANGED <<run_once, now, time, type, groupOk>>

(* Position and telemetry packet; the 5 s pause only follows a packet that *)
(* could be encoded.                                                       *)
PositionPacket ==
  /\ pc = "position"
  /\ \E r \in Outcomes :
       /\ event' = IF r = "sent" THEN "position" ELSE "none"
       /\ Elapse(IF r = "nopacket" THEN 0 ELSE Spacing,
                 IF r = "sent" THEN {"pos"} ELSE {})
  /\ pc' = "aprsd"
  /\ UNCHANGED <<run_once, time, last_conf, type, groupOk, cfgEmitted>>

(* APRSD message to the base station or to the own call sign.              *)
AprsdPacket ==
  /\ pc = "aprsd"
  /\ \E r \in Outcomes :
       /\ event' = IF r = "sent" THEN "aprsd" ELSE "none"
       /\ Elapse(IF r = "nopacket" THEN 0 ELSE Spacing,
                 {})
  /\ pc' = "trigger"
  /\ UNCHANGED <<run_once, time, last_conf, type, groupOk, cfgEmitted>>

(* run_once: chThdExit(MSG_OK).                                            *)
Exit ==
  /\ pc = "trigger"
  /\ run_once
  /\ pc' = "exited"
  /\ event' = "none"
  /\ UNCHANGED <<run_once, now, time, last_conf, type, groupOk,
                 cfgEmitted, since>>

(* time = waitForTrigger(time, conf->beacon.cycle).                        *)
NextCycle ==
  /\ pc = "trigger"
  /\ ~run_once
  /\ WaitForTrigger
  /\ pc' = "collect"
  /\ event' = "none"
  /\ UNCHANGED <<run_once, last_conf, type, groupOk, cfgEmitted>>

Next ==
  \/ Start
  \/ Collect
  \/ TelemetryPacket
  \/ TelemetryDone
  \/ PositionPacket
  \/ AprsdPacket
  \/ Exit
  \/ NextCycle

Spec == Init /\ [][Next]_vars

-----------------------------------------------------------------------------
(* Types of the thread's variables; the telemetry loop index never passes *)
(* APRS_NUM_TELEM_GROUPS.                                                  *)
TypeOK ==
  /\ pc \in {"start", "collect", "telem", "position", "aprsd", "trigger",
             "exited"}
  /\ run_once \in BOOLEAN
  /\ {now, time, last_conf} \subseteq 0 .. TickWrap - 1
  /\ type \in 0 .. NumTelemGroups
  /\ groupOk \subseteq 0 .. NumTelemGroups - 1
  /\ cfgEmitted \in BOOLEAN
  /\ event \in Kinds
  /\ since \in [DOMAIN SinceCap -> Nat]
  /\ \A k \in DOMAIN since : since[k] <= SinceCap[k]

(* Spec 8.8: a complete telemetry configuration group is emitted before    *)
(* any position packet of the same boot.  The code advances               *)
(* last_conf_transmission even when the configuration packets could not be *)
(* encoded or transmitted.                                                 *)
TelemetryBeforePosition ==
  event = "position" => cfgEmitted

(* Spec 4.4: the configuration group is transmitted once per              *)
(* tel_enc_cycle.  Two groups never end closer than tel_enc_cycle less the *)
(* beacon cycle and the collector latency, the granularity of the test.   *)
ConfigCadence ==
  [][(pc = "telem" /\ pc' = "position") => since.cfg >= MinConfigGap]_vars

(* Spec 4.7: a position packet every cycle seconds.  Two position packets  *)
(* are never closer than the cycle less the delays (init_delay, telemetry  *)
(* group, collector latency) that can hold one of them back.               *)
BeaconCadence ==
  [][event' = "position" => since.pos >= MinPositionGap]_vars

=============================================================================
