------------------------------- MODULE Shell --------------------------------
(***************************************************************************)
(* The debug shell commands of src/unnamed/part_000 (lines 1-177):         *)
(* debugOnUSB, printPicture, command2Camera, readLog, printConfig,         *)
(* send_aprs_message and test_rx.  The shell thread runs one command at a  *)
(* time, so each command is one action; out is what the last command       *)
(* printed or did, as values and the text chprintf renders for them.       *)
(*                                                                         *)
(* The camera, the log ring, the configuration table and the packet pool   *)
(* are inputs chosen by the command's step.  usb_buffer keeps what the     *)
(* last capture left beyond the new image.                                 *)
(***************************************************************************)
EXTENDS Integers, Sequences, Chprintf

CONSTANTS
  Lats,      \* trackPoint_t.gps_lat / gps_lon values, 1e-7 degree
  Temps,     \* sen_i1_temp values, 0.01 degree C
  Vbats,     \* adc_vbat values, mV
  LogLen,    \* slots getLogBuffer() returns before NULL
  Freqs,     \* frequency.hz / getFrequency() values, Hz
  RamSize,   \* sizeof(usb_buffer)
  Args       \* values atoi() may return for a command argument

ASSUME RamSize \in Nat \ {0} /\ LogLen \in Nat /\ 0 \in Args

(* Bytes of the JPEG stream that the scan tells apart.                     *)
Bytes == {"FF", "E0", "00"}

(* A log slot; id 0xFFFFFFFF marks an empty one.                           *)
TrackPoints == [lat : Lats, temp : Temps, vbat : Vbats]
EMPTY == [empty |-> TRUE]

VARIABLES
  debug_on_usb,  \* the global flag set by debugOnUSB
  ram,           \* usb_buffer
  size_sampled,  \* conf.size_sampled of the last capture
  rx_on,         \* receiveAFSK has been started by test_rx
  out            \* the last command's output

vars == <<debug_on_usb, ram, size_sampled, rx_on, out>>

-----------------------------------------------------------------------------
(* readLog's fields: "%d.%05d" for lat/lon, "%d.%03d" for the voltages and *)
(* "%2d.%02d" for the temperature.                                         *)
LatField(lat) ==
  Fixed(CDiv(lat, 10000000), 0,
        CMod((IF lat > 0 THEN 1 ELSE -1) * CDiv(lat, 100), 100000), 5)
VbatField(v) == Fixed(v \div 1000, 0, v % 1000, 3)
TempField(t) == Fixed(CDiv(t, 100), 2, CMod(t, 100), 2)

LogRow(tp) ==
  [lat |-> tp.lat, latText |-> LatField(tp.lat),
   vbat |-> tp.vbat, vbatText |-> VbatField(tp.vbat),
   temp |-> tp.temp, tempText |-> TempField(tp.temp)]

(* printConfig's "Frequency: %d.%03d MHz" for a static frequency.          *)
FreqField(freq) ==
  IF (freq \div 1000) * 1000 = freq
    THEN Fixed(freq \div 1000000, 0, (freq % 1000000) \div 1000, 3)
    ELSE Fixed(freq \div 1000000, 0, freq % 1000000, 3)

(* ram[j]; index RamSize is past usb_buffer, whatever byte follows it.     *)
ByteAt(buf, j, beyond) == IF j < RamSize THEN buf[j] ELSE beyond

IsApp0(buf, i, beyond) == buf[i] = "FF" /\ ByteAt(buf, i + 1, beyond) = "E0"

(* Mutant: the marker byte itself is not streamed (off by one).           *)
RECURSIVE ScanAfterMarker(_, _, _, _, _)
ScanAfterMarker(buf, n, beyond, i, detected) ==
  IF i >= n THEN <<>>
  ELSE LET hit == ~detected /\ IsApp0(buf, i, beyond)
       IN  (IF hit THEN <<"FF", "D8">> ELSE <<>>)
             \o (IF detected THEN <<buf[i]>> ELSE <<>>)
             \o ScanAfterMarker(buf, n, beyond, i + 1, detected \/ hit)

(* The loop of printPicture from index i: on the first APP0 marker put SOI *)
(* (FF D8), and from there on every byte.                                  *)
RECURSIVE Scan(_, _, _, _, _)
Scan(buf, n, beyond, i, detected) ==
  IF i >= n THEN <<>>
  ELSE LET hit == ~detected /\ IsApp0(buf, i, beyond)
           det == detected \/ hit
       IN  (IF hit THEN <<"FF", "D8">> ELSE <<>>)
             \o (IF det THEN <<buf[i]>> ELSE <<>>)
             \o Scan(buf, n, beyond, i + 1, det)

-----------------------------------------------------------------------------
Init ==
  /\ debug_on_usb = TRUE
  /\ ram = [j \in 0 .. RamSize - 1 |-> "00"]
  /\ size_sampled = 0
  /\ rx_on = FALSE
  /\ out = [cmd |-> "none"]

(* debugOnUSB: "Argument missing!" without an argument, else the flag is   *)
(* atoi(argv[0]) converted to bool.                                        *)
debugOnUSB ==
  /\ \/ out' = [cmd |-> "missing"] /\ UNCHANGED debug_on_usb
     \/ \E a \in Args : debug_on_usb' = (a # 0) /\ out' = [cmd |-> "debugOnUSB"]
  /\ UNCHANGED <<ram, size_sampled, rx_on>>

(* printPicture: takePicture writes n bytes of a new image into usb_buffer *)
(* and leaves the rest; then the scan streams it from the APP0 marker on,  *)
(* after the trace "image/jpeg,<size_sampled - i + 2>".                    *)
printPicture ==
  /\ \/ /\ \E n \in 1 .. RamSize : \E img \in [0 .. n - 1 -> Bytes], beyond \in Bytes :
             LET buf   == [j \in 0 .. RamSize - 1 |-> IF j < n THEN img[j] ELSE ram[j]]
                 hits  == {i \in 0 .. n - 1 : IsApp0(buf, i, beyond)}
                 start == IF hits = {} THEN -1
                          ELSE CHOOSE i \in hits : \A k \in hits : i <= k
             IN  /\ ram' = buf
                 /\ size_sampled' = n
                 /\ out' = [cmd |-> "printPicture", n |-> n, start |-> start,
                            header |-> IF start < 0 THEN 0 ELSE n - start + 2,
                            stream |-> Scan(buf, n, beyond, 0, FALSE)]
     \/ /\ out' = [cmd |-> "nocamera"]           \* "error,no camera found"
        /\ UNCHANGED <<ram, size_sampled>>
  /\ UNCHANGED <<debug_on_usb, rx_on>>

(* command2Camera: argc is not checked; an argument that was not given is  *)
(* read past argv and may be anything.                                     *)
command2Camera ==
  /\ \E reg, val \in Args : out' = [cmd |-> "command2Camera", reg |-> reg, val |-> val]
  /\ UNCHANGED <<debug_on_usb, ram, size_sampled, rx_on>>

(* readLog: one row per slot until getLogBuffer returns NULL, skipping     *)
(* empty slots.                                                            *)
readLog ==
  /\ \E log \in [1 .. LogLen -> TrackPoints \cup {EMPTY}] :
       LET full == {j \in 1 .. LogLen : log[j] # EMPTY} IN
       out' = [cmd |-> "readLog",
               rows |-> {<<j, LogRow(log[j])>> : j \in full}]
  /\ UNCHANGED <<debug_on_usb, ram, size_sampled, rx_on>>

(* printConfig: "Argument missing!" without an argument; else the static   *)
(* frequency, or getFrequency() for a region-dependent one, in MHz.        *)
printConfig ==
  /\ \/ out' = [cmd |-> "missing"]
     \/ \E freq \in Freqs :
          \/ out' = [cmd |-> "printConfig", hz |-> freq, text |-> FreqField(freq)]
          \/ out' = [cmd |-> "printConfig", hz |-> freq,
                     text |-> Fixed(freq \div 1000000, 0, (freq % 1000000) \div 1000, 3)]
  /\ UNCHANGED <<debug_on_usb, ram, size_sampled, rx_on>>

(* send_aprs_message: with two arguments, encode the message (NULL when    *)
(* the packet pool is empty) and hand the result to transmitOnRadio.       *)
send_aprs_message ==
  /\ \/ out' = [cmd |-> "missing"]
     \/ \E packet \in {"packet", "NULL"} : out' = [cmd |-> "transmit", packet |-> packet]
  /\ UNCHANGED <<debug_on_usb, ram, size_sampled, rx_on>>

(* test_rx: receiveAFSK on the frequency of config[2].                     *)
test_rx ==
  /\ rx_on' = TRUE
  /\ out' = [cmd |-> "test_rx"]
  /\ UNCHANGED <<debug_on_usb, ram, size_sampled>>

Next ==
  \/ debugOnUSB
  \/ printPicture
  \/ command2Camera
  \/ readLog
  \/ printConfig
  \/ send_aprs_message
  \/ test_rx

Spec == Init /\ [][Next]_vars

-----------------------------------------------------------------------------
Rows == IF out.cmd = "readLog" THEN {r[2] : r \in out.rows} ELSE {}

(* readLog prints every latitude and longitude as the logged value,        *)
(* truncated to 1e-5 degree, sign included.  The integer part is printed   *)
(* separately and is 0 between -1 and 0 degrees.                           *)
LatitudeText == \A r \in Rows : Denotes(r.latText, CDiv(r.lat, 100), 5)

(* readLog prints the temperature as the logged value in degrees; the      *)
(* remainder of a negative value is negative and gets its own '-'.         *)
TemperatureText == \A r \in Rows : Denotes(r.tempText, r.temp, 2)

(* printConfig prints a frequency in MHz with three decimals, the value    *)
(* truncated to kHz; frequencies that are not whole kHz print freq%1000000 *)
(* with %03d.                                                              *)
FrequencyText ==
  out.cmd = "printConfig" => Denotes(out.text, out.hz \div 1000, 3)

(* Every fixed-point number the shell prints with its split "%d.%0kd"      *)
(* idiom (x / 10^k, then x % 10^k) reads as the value it stands for,       *)
(* truncated to the printed decimals: readLog's coordinates and            *)
(* temperatures and printConfig's frequency.  (The voltages are unsigned  *)
(* and padded with %03d, so they print as the reference does.)             *)
FixedPointText ==
  /\ LatitudeText
  /\ TemperatureText
  /\ FrequencyText

(* printPicture announces, in the "image/jpeg,<n>" trace, exactly the      *)
(* number of bytes it then streams: the SOI it adds and the image from the *)
(* APP0 marker on.                                                         *)
PictureHeaderLength ==
  out.cmd = "printPicture" /\ out.start >= 0 => out.header = Len(out.stream)

(* printPicture starts the stream only at an APP0 marker that lies inside  *)
(* the captured image; at i = size_sampled - 1 it reads ram_buffer[i + 1], *)
(* a byte left from an earlier capture or past the buffer.                 *)
PictureStartInImage ==
  out.cmd = "printPicture" /\ out.start >= 0 => out.start + 1 < out.n

(* Spec 4 (packet pool): a caller that gets NULL logs and drops; the       *)
(* shell's send_aprs_message hands the encoder's result to the radio       *)
(* without a test.                                                         *)
NoNullTransmit == out.cmd = "transmit" => out.packet # "NULL"
=============================================================================
