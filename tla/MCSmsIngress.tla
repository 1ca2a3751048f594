---------------------------- MODULE MCSmsIngress ----------------------------
(* Small instances of SmsIngress for TLC, with texts at the limits of the  *)
(* code: one that fits into 160 septets, one whose 153rd septet is an ESC, *)
(* and one whose 67th UTF-16 unit is a high surrogate.                     *)
EXTENDS SmsIngress

Repeat(c, n) == [i \in 1 .. n |-> c]

Texts ==
  [short |-> Repeat("a", 160),
   long  |-> Repeat("a", 152) \o <<"euro">> \o Repeat("b", 8),
   wide  |-> Repeat("zh", 66) \o <<"emoji">> \o Repeat("a", 4)]

Messages == DOMAIN Texts
=============================================================================
