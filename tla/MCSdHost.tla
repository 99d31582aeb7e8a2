------------------------------ MODULE MCSdHost ------------------------------
(* Instances of SdHost for TLC: a sound card, one that reports errors, one *)
(* with every quirk, and the two controllers that sdhc_host_found can meet *)
(* besides the usual one.                                                  *)
EXTENDS SdHost

MCProfiles ==
    {{}, {"errors"}, {"slow", "bounce", "errors"}, {"nodma", "errors"},
     {"nodma", "slow", "bounce", "errors"}, {"noclock", "bounce"}}
MCSlow == {{"slow"}}
=============================================================================
