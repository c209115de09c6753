-------------------------- MODULE MCMtpController --------------------------
(* Constant definitions for the TLC run of MtpController and GraphedSteps. *)
EXTENDS GraphedSteps

CONSTANTS r1, r2

Policy == [interval |-> 2, probe_steps |-> 2, probe_interval |-> 5]

MCConfigs ==
  {[mode |-> "adaptive", fixed |-> 3, policy |-> Policy],
   [mode |-> "fixed", fixed |-> 1, policy |-> Policy]}

MCCaptureSizes == {1, 2, 4, 8, 16}

MCGraphModes == {"NONE", "PIECEWISE", "FULL", "FULL_DECODE_ONLY", "FULL_AND_PIECEWISE"}
=============================================================================
