---------------------------- MODULE MCUtf8Codec ----------------------------
(* The first and the last code point of every length. *)
EXTENDS Utf8Codec

Boundaries ==
  {0, 127, 128, 2047, 2048, 65535, 65536, 2097151, 2097152, 67108863, 67108864, 2147483647}
=============================================================================
