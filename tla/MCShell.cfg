\* The shell commands: printPicture announces exactly the bytes it streams.
CONSTANTS
  Lats <- MCLats
  Temps <- MCTemps
  Vbats <- MCVbats
  Freqs <- MCFreqs
  LogLen = 1
  RamSize = 3
  Args = {0, 1}
SPECIFICATION Spec
INVARIANT PictureHeaderLength
