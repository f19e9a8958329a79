\* printPicture can start the stream at a marker whose second byte lies
\* past the captured image: a byte left by an earlier capture, or the byte
\* after usb_buffer when the image fills it.
CONSTANTS
  Lats <- MCLats
  Temps <- MCTemps
  Vbats <- MCVbats
  Freqs <- MCFreqs
  LogLen = 1
  RamSize = 3
  Args = {0, 1}
SPECIFICATION Spec
INVARIANT PictureStartInImage
