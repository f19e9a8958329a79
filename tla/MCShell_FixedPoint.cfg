\* The shell's split fixed-point output breaks FixedPointText: a value
\* between -1 and 0 loses its sign, a negative temperature gets a second
\* '-', and a frequency that is not whole kHz prints its Hz remainder.
CONSTANTS
  Lats <- MCLats
  Temps <- MCTemps
  Vbats <- MCVbats
  Freqs <- MCFreqs
  LogLen = 1
  RamSize = 2
  Args = {0, 1}
SPECIFICATION Spec
INVARIANT FixedPointText
