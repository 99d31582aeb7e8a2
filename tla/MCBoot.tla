------------------------------- MODULE MCBoot -------------------------------
(* An instance of Boot for TLC: words of two bytes, so that sizes of one   *)
(* to three bytes take every remainder, and an empty section.              *)
EXTENDS Boot

MCCodeSizes == {2, 3}
MCDataSizes == {0, 1}
MCBssSizes == {0, 1, 3}
=============================================================================
