# TLA+ models of the pecanpico10 tracker firmware

This directory holds TLA+ specifications of the parts of the pecanpico10
firmware that are in this repository (`src/`), the TLC configurations that
check them, and `PROJECT.json`, which records the components, runs, mutants,
the source lines each definition translates, the findings and the hazards.

## The system and its parts

The repository holds five source files:

| Part | Source | State and operations |
|---|---|---|
| Beacon thread | `src/unnamed/part_000` lines 178-342 | `bcnThread`: locals `last_conf_transmission`, `time`, the loop index `type`; a loop of collector request, `p_sleep` test, position check, telemetry configuration group, position packet, APRSD packet, `run_once` exit or `waitForTrigger`. `start_beacon_thread` creates it. |
| Debug shell commands | `src/unnamed/part_000` lines 1-177 | `printPicture`, `readLog`, `printConfig`, `send_aprs_message`, `command2Camera`, `test_rx`, `debugOnUSB`: stateless handlers that format data on a stream. |
| Collector types | `source/threads/collector.h` | `dataPoint_t`, the `sys_error` bit fields, the BME status macros, `hasGPSacquiredLock`: declarations only, no operation. |
| Static configuration | `config.c` | The `conf_t` default values: beacon cycle 120 s, `tel_enc_cycle` 10800 s, GPS power thresholds. It is data only, in a layout that the code here does not read. |
| Board support | `cfg/pp10b/portab.c` | `radio_list` and `pktGetNumRadios`, the band tables, `pktReadIOlines`, `pktWrite`. |
| Crypto driver | `ChibiOS/os/hal/src/hal_crypto.c` | `CRYD1`: `state`, `config`, `key0_type`, `key0_size`; `cryObjectInit`, `cryStart`, `cryStop`, `cryLoadTransientKey`, and the AES, DES, SHA, HMAC and TRNG operations. |

The beacon thread talks to components that are not in the repository:
- the data collector, through `chMsgSend`;
- the sleep policy, through `p_sleep`;
- the APRS encoders and the packet pool;
- the radio manager, through `transmitOnRadio`;
- the ChibiOS kernel: sleeps and wrapping system time.

`spec.md` describes these components (§4.4-§4.7, §6). Each model here turns such a call into an environment choice made inside the step that calls it. The crypto driver dispatches to a low-level driver and a software fallback; neither is in the repository.

### Behaviours that make these parts hard

- Beacon: modular 32-bit system time in every comparison. Several failure points in one loop iteration: no packet free, the radio refuses, no position fix. Cycles skipped by `p_sleep`. The `continue` of the no-position path, which skips the schedule update. The schedule reference `time` is carried across iterations.
- Crypto: one shared transient key (key id 0) with no lock. A load that falls back only on `CRY_ERR_INV_ALGO`, while each operation picks its engine by a separate compile-time switch. State assertions that exist only in debug builds.
- Board: bit packing of GPIO levels, and a post-increment/pre-decrement count loop.

## Modules

| Module | Models | Composition |
|---|---|---|
| `Beacon` | `bcnThread` (map: `part_000` 195-341) | standalone; its environment is nondeterministic |
| `MCBeacon` | small constants for `Beacon` | extends `Beacon` |
| `MCBeaconTiming` | larger constants, in which the cadence questions can be told apart | extends `Beacon` |
| `CryptoDriver` | `hal_crypto.c` | standalone |
| `MCCryptoDriver` | two keys, two key sizes, two low-level driver configurations | extends `CryptoDriver` |
| `Portab` | `pktGetNumRadios`, `pktReadIOlines` | standalone |
| `MCPortab` | radio units for `Portab` | extends `Portab` |
| `NumRadios` | what `pktGetNumRadios` promises: one step from the call to the count of entries before `PKT_RADIO_NONE` | abstract; `Portab` refines it |
| `KeySlot` | what `hal_crypto.c` documents for key id 0 ("zero is the transient key"): one slot, filled by a successful load and read by every keyed operation | abstract; `CryptoDriver` refines it |
| `Chprintf` | the `%d` conversion of ChibiOS `chprintf` (sign, digits, width, `'0'` filler) and the `"%d.%0kd"` fixed-point idiom, with a reference `DecimalText` | pure operators, used by `Shell` |
| `Shell` | the seven shell commands of `part_000` 1-177 | extends `Chprintf` |
| `MCShell` | coordinates, temperatures, voltages and frequencies at the edges of the formats | extends `Shell` |

### Beacon

Variables:
- `pc`: the place in the loop.
- `now`: the system time, modulo `TickWrap`.
- `time`, `last_conf`: the code's locals.
- `type`: the config loop index.
- `run_once`: the configuration flag, chosen at `Init`.

History variables:
- `event`: the kind of packet handed to the radio by the last step.
- `since`: saturating tick counters since the last position packet and the last configuration group.
- `groupOk`, `cfgEmitted`: which config packets of the group went out, and whether one complete group ever went out.

Actions, one per block of the loop:
- `Start`: lines 206-212.
- `Collect`: lines 224-233 and the test of 236. It has three disjuncts: `p_sleep` skips the cycle; no valid position, so sleep 60 s and continue; or proceed.
- `TelemetryPacket`: one iteration of lines 242-263. It chooses among no packet, radio refused, and sent, and always sleeps 5 s.
- `TelemetryDone`: line 264.
- `PositionPacket`, `AprsdPacket`: lines 267-322. The pause happens only when a packet was encoded.
- `Exit`: lines 324-325.
- `NextCycle`: line 326, `waitForTrigger`.

`waitForTrigger` and `chTimeDiffX`/`chTimeAddX` are not in the repository. They are modelled from ChibiOS' `chThdSleepUntilWindowed`, which sleeps to `prev+cycle` if `now` lies in the window `[prev, prev+cycle)` and otherwise returns at once. `TelemetryDue` is the test of lines 236-238, with the elapsed time taken modulo the wrap as `chVTTimeElapsedSinceX` does.

### CryptoDriver

Variables:
- `state`, `config`, `key0_type`, `key0_size`: the driver fields.
- `engKey`: what each engine (low-level driver, fallback) holds for key id 0.

History variable:
- `lastOp`: the last operation's family, engine, result and the key it used.

Constants give the build configuration:
- `LLDFamilies`: the `CRY_LLD_SUPPORTS_*` switches.
- `USE_FALLBACK`, `ENFORCE_FALLBACK`.
- `LLDKeyAlgos`: what `cry_lld_loadkey` accepts.

The model also has an `ASSUME`: enforcing the fallback turns every `CRY_LLD_SUPPORTS_*` switch off, as `hal_crypto.h` does.

Each of the fifteen operation families (AES, AES-ECB … TRNG) is a record. `Engine` is the `#if` chain that every operation function repeats. `OpResult` is the engine's documented answer for key id 0. `Operation` is any call, guarded by the `CRY_READY` assertion.

### Portab

- `LoopTest`: one test of the `while` of `pktGetNumRadios`, over every radio table of up to `MaxList` entries that ends in `PKT_RADIO_NONE`.
- `ReadIOlines`: the bit packing of `pktReadIOlines`.
- `ReadLines` / `LineChange`: calls to `pktReadIOlines`, interleaved with GPIO levels changing.

### NumRadios and the refinement

`NumRadios` is the abstract specification: a call of `pktGetNumRadios` on a table `radio_list` (any sequence of units with a `NONE` terminator) ends in one step with `numRadios` equal to `CountBefore(radio_list)`, a recursive count of the entries before the first `NONE`. `Portab` instantiates it with `Abstract == INSTANCE NumRadios`, mapping its own `radio_list`, `pc` and `numRadios`; each `LoopTest` step that does not leave the loop is a stuttering step of the abstract one. `NumRadiosRefinement == Abstract!Spec` is checked as a temporal property, so TLC checks both that every exit of the loop returns the right count and that the loop exits.

### KeySlot and the crypto refinement

`KeySlot` has two variables: `slot`, the transient key, and `last`, the last operation's family, result and key. `Load` fills the slot. `Use` answers by the documented return codes:
- `CRY_ERR_INV_ALGO` when no engine serves the family;
- `CRY_ERR_INV_KEY_ID` for a keyed family while the slot is empty (the `@retval` of every operation: "refers to an empty key slot");
- `CRY_ERR_INV_KEY_TYPE` when the slot holds a key of another algorithm;
- otherwise success, with the slot's key.

`CryptoDriver` instantiates it `WITH`:
- `slot <- KeyHeld`, where `KeyHeld` is `key0_type` together with the key kept by the engine that `cryLoadTransientKey` gives a key of that type to;
- `last <- lastOp` without its engine field;
- `Served <- the families whose Engine is not "none"`.

`KeySlotRefinement == KeySlotAbstract!Spec` then says that the driver behaves as one key slot, whichever engine serves an operation. Failed loads and `cryStart`/`cryStop` are stuttering steps of the slot.

### Shell and Chprintf

`chprintf` is part of ChibiOS and is not in the repository, so `Chprintf` is modelled from its documented behaviour: `%d` prints a `-`, then the decimal digits of the magnitude, padded to the width with spaces, or with zeros after the sign. `Fixed(ip, w, fp, k)` is the `"%wd.%0kd"` pair that the shell uses for fixed-point values. `Denotes(text, x, k)` compares a text with `DecimalText(x, k)`, the reference rendering of `x / 10^k` with `k` decimals.

`Shell` has one action per command. Its state is the little that the commands keep: `debug_on_usb`, `usb_buffer` (`ram`), `size_sampled` and whether `test_rx` started reception. `out` records what the last command printed or did, both the values and the texts. `printPicture` writes an image of `n` bytes over the start of `usb_buffer`, leaving older bytes beyond it. It then runs `Scan`, the recursive form of the APP0 search loop, which reads `ram[i+1]` even at the last image byte. The camera, the log, the configuration and the packet pool are inputs chosen inside the step.

## Runs

| Run | Expect | What it shows |
|---|---|---|
| `beacon_loop` (`MCBeacon.cfg`) | pass | `TypeOK`: over every path of the loop, including failed encodings and transmissions, `p_sleep` skips, no-position waits, `run_once` and the wrap of the system time, the telemetry loop index never passes `APRS_NUM_TELEM_GROUPS` (the bound of line 242). The run also fires every action of `Beacon`. |
| `beacon_config_before_position` | violation | `TelemetryBeforePosition` (spec §8.8): all four config packets fail, `last_conf_transmission` still advances, and the position packet goes out with no configuration ever sent. |
| `beacon_config_cadence` | violation | `ConfigCadence` (spec §4.4): after cycles skipped by `p_sleep`, `+= tel_enc_cycle` lags behind `now`, so groups go out in consecutive cycles. |
| `beacon_cadence` | violation | `BeaconCadence` (spec §4.7): after the no-position `continue`, `time` is stale. `waitForTrigger` returns at once, and two positions come a few ticks apart. |
| `crypto_transient_key` (`MCCryptoDriver.cfg`) | pass | The low-level driver accepts AES keys and supports every AES family; the fallback serves DES and the hashes. Any caller's loads (some with invalid sizes), operations and `cryStart`/`cryStop` can come in any order. The driver refines `KeySlot` (`KeySlotRefinement`): every operation answers as the one-slot transient key would, including `CRY_ERR_INV_KEY_ID` before any successful load, and keyed operations run with the last successfully loaded key. `CryTypeOK` also checks that a stored key always has a size valid for its algorithm. |
| `crypto_partial_lld` | violation | `KeySlotRefinement` fails if the low-level driver accepts AES keys but lacks CFB and GCM. Those calls go to the fallback, which never received the key, so they fail with `CRY_ERR_INV_KEY_ID` where the slot promises success. |
| `portab_num_radios` (`MCPortab.cfg`) | pass | Under `FairSpec`, the loop of `pktGetNumRadios` refines `NumRadios` (`NumRadiosRefinement`) for every table of up to four entries: it terminates and returns the number of entries before the terminator. |
| `portab_io_lines` | violation | `pktReadIOlines` maps different line states to one byte, because `LINE_GPIO_PIN2` is not shifted. |
| `shell_output` (`MCShell.cfg`) | pass | `PictureHeaderLength`: `printPicture` announces exactly as many bytes as it streams. |
| `shell_fixed_point` (`MCShell_FixedPoint.cfg`) | violation | `FixedPointText`: the shell prints fixed-point values as `x / 10^k`, a point, then `x % 10^k`, and three of its uses misprint. A latitude between -1 and 0 degrees (-5000000) prints as `0.50000`: the integer part `0` has no sign. A temperature of -1.50 °C (-150) prints as `-1.-50`, because C's remainder keeps the sign. A frequency of 144005500 Hz prints as `144.5500`: the not-whole-kHz branch prints `freq % 1000000` with `%03d`. The property is the conjunction of `LatitudeText`, `TemperatureText` and `FrequencyText`. Each fails on its own under this cfg. The voltages are left out: `adc_vbat` is unsigned and padded with `%03d`, so it prints as the reference does. |
| `shell_picture_start` (`MCShell_PictureStart.cfg`) | violation | `PictureStartInImage`: the APP0 test of line 59 reads `ram_buffer[i+1]` at the last image byte. An `FF` there, followed by an `E0` left by an earlier capture or lying past `usb_buffer`, starts the stream outside the image. |

Every property of a passing run has a mutant in `PROJECT.json`. The mutant is a plausible coding error that TLC catches:
- the telemetry loop bound dropped;
- `key0_type` stored on a failed load;
- the fallback preferred over the low-level driver;
- the final `--i` dropped;
- the APP0 marker byte left out of the stream.

`Shell` also states `NoNullTransmit`: spec §4 says a caller that gets NULL from the packet pool logs and drops it, while `send_aprs_message` hands the encoder's result to `transmitOnRadio` untested. TLC finds it false in one step. It is not a run, because `transmitOnRadio` is not in the repository and may test for NULL itself. The hazard at `part_000:164` records it.

### Bounds

- `MCBeacon` uses tick units in which the 5 s pause is 1 tick:
  - cycle 8, `tel_enc_cycle` 12, 60 s wait 3, `init_delay` 1;
  - collector latency 0 or 1;
  - the real four config packets;
  - the system time wraps at 32.

  With these values every path of the loop is taken, including wrapped time comparisons, in under 100 levels of search. The ratios in `config.c` are different: cycle 120 s, `tel_enc_cycle` 10800 s. But no branch of the code depends on their ratio beyond "telemetry is due in some cycles and not in others", which these values give.
- `MCBeaconTiming` wraps at 64, with cycle 10 and `tel_enc_cycle` 24. The cadence counterexamples then do not depend on the wrap.
- Crypto: two keys (a symmetry set), two sizes, one of them valid per algorithm. These cover every return path of `cryLoadTransientKey` and of the dispatch.
- Portab: tables up to length 4, every GPIO level combination.
- Shell: an image of 1 to 3 bytes in a 3-byte buffer, over the bytes FF, E0 and 00. This covers a marker at the last image byte, one whose second byte is a stale or out-of-buffer byte, and a second marker after the first. One log slot is enough: `readLog` formats each slot on its own, and two slots made the run too long for the time limit. Values are chosen at the edges of each format: negative fractions, a remainder below 100, and a frequency that is not a whole kHz.

### Fairness

`Portab`'s `FairSpec` assumes weak fairness of `LoopTest`. `pktGetNumRadios` runs on its caller's thread, with no wait or lock inside the loop, so once it is called, the next test of the loop condition is always enabled and does happen. Under this assumption, `NumRadiosRefinement` includes termination. The mutant that drops `--i` returns the wrong count. Every table in `RadioLists` ends in `PKT_RADIO_NONE`, as the board file's does, so a table without a terminator is not checked.

The other runs check safety only.

For the beacon, weak fairness of the thread would be justified: every step is a bounded sleep or a call that returns. Under it, TLC finds "if positions recur, configuration groups recur" false with the `MCBeacon` constants. The `p_sleep` pattern that does it skips cycles for a whole wrap of the system time. It then lets positions through only while the elapsed time modulo the wrap is below `tel_enc_cycle`. With a 32-bit `systime_t` that pattern spans days. It is neither a run nor a hazard: it needs `p_sleep` to hold the thread back for days.

## Not modelled, and why

- Shell: the stream writes themselves, the USB transport and the camera driver. Their effect is abstracted to the values and texts in `out`.
- `collector.h`: the `dataPoint_t` layout is a plain struct with no behaviour. `hasGPSacquiredLock` is a pure predicate that nothing in the repository uses. The status macros are constants, and their only writer, `setSystemStatus`, is in `collector.c`, which is not in the repository. Read with `BME_STATUS_BITS` for the misspelt `BME_STATUS)BITS` of line 23, `BMEE2_STATUS_SHIFT` is 10, the same as `BMEE1_STATUS_SHIFT`, where the bit-usage comment puts BMEe2 at bits 12-13. This is recorded as a hazard.
- Callers of the crypto driver: nothing in the repository calls `cry*` or uses `CRYD1`. Any caller's load or operation is an action of `CryptoDriver`. No caller is promised its own key 0, so no client threads are modelled.
- `config.c`: a static initialiser of `conf_t`; no operation changes state. Its layout is also not the one the code here reads. It has `pos_pri.thread_conf.cycle` and a per-thread `tel_enc_cycle`, while `bcnThread` reads `conf->beacon.cycle` and `conf_sram.tel_enc_cycle`, and the shell reads `config[id].frequency`. So its values cannot be attached to a model's constants. `MCBeacon` keeps only the relation `tel_enc_cycle` > cycle.
- Band tables, `debug_config`, `pktWrite`: constant data and I/O.
- Collector, radio manager, encoders, packet pool, sleep policy, geofence, image and log threads: not in the repository. They enter only as outcomes of beacon steps.

## Plan

In order of importance:
1. A spec-modelled radio manager (§4.6: priority queue, CCA retries), composed with two beacon threads, so that the spacing of packets can be asked of the radio. Within one beacon thread it holds by the shape of the code: every transmission is followed by its own `chThdSleep`.
2. An abstract beacon schedule, with `Beacon` refining it, and the liveness of position packets under fairness of the thread's steps.
