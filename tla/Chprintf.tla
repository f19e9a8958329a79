------------------------------ MODULE Chprintf ------------------------------
(***************************************************************************)
(* The integer conversions of ChibiOS chprintf() (hal/lib/streams, not in  *)
(* this repository) that the shell commands use, and the reference decimal *)
(* rendering their output is compared with.                                *)
(*                                                                         *)
(* Text is a sequence of one-character strings.                            *)
(***************************************************************************)
EXTENDS Integers, Sequences

Abs(x) == IF x < 0 THEN -x ELSE x

(* C division and remainder truncate toward zero.                          *)
CDiv(a, b) == IF (a < 0) = (b < 0) THEN Abs(a) \div Abs(b) ELSE -(Abs(a) \div Abs(b))
CMod(a, b) == a - CDiv(a, b) * b

DigitChar(d) == <<"0", "1", "2", "3", "4", "5", "6", "7", "8", "9">>[d + 1]

(* ltoa: the decimal digits of n >= 0, most significant first.             *)
RECURSIVE Digits(_)
Digits(n) == IF n < 10 THEN <<DigitChar(n)>>
             ELSE Digits(n \div 10) \o <<DigitChar(n % 10)>>

RECURSIVE Fill(_, _)
Fill(c, k) == IF k <= 0 THEN <<>> ELSE <<c>> \o Fill(c, k - 1)

(* %<width>d and %0<width>d: the sign, then ltoa of the magnitude; the     *)
(* field is padded on the left to width, and with the '0' filler the sign *)
(* is put before the padding.                                              *)
FmtD(n, width, zero) ==
  LET s   == (IF n < 0 THEN <<"-">> ELSE <<>>) \o Digits(Abs(n))
      pad == width - Len(s)
  IN  IF pad <= 0 THEN s
      ELSE IF zero /\ n < 0 THEN <<"-">> \o Fill("0", pad) \o Digits(Abs(n))
      ELSE Fill(IF zero THEN "0" ELSE " ", pad) \o s

(* "%d.%0<k>d" and the like: two conversions around a point.                *)
Fixed(ip, iwidth, fp, fwidth) ==
  FmtD(ip, iwidth, FALSE) \o <<".">> \o FmtD(fp, fwidth, TRUE)

-----------------------------------------------------------------------------
(* Reference: the number x / 10^k written with exactly k decimals.         *)
DecimalText(x, k) ==
  LET m == Abs(x)
      p == 10 ^ k
  IN  (IF x < 0 THEN <<"-">> ELSE <<>>)
        \o Digits(m \div p) \o <<".">> \o FmtD(m % p, k, TRUE)

(* Leading blanks of a right-aligned field are layout, not value.          *)
RECURSIVE TrimLeft(_)
TrimLeft(t) == IF t # <<>> /\ Head(t) = " " THEN TrimLeft(Tail(t)) ELSE t

(* A rendered field denotes x / 10^k.                                      *)
Denotes(text, x, k) == TrimLeft(text) = DecimalText(x, k)
=============================================================================
