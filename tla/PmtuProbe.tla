------------------------------ MODULE PmtuProbe ------------------------------
(***************************************************************************)
(* The search for the path MTU: PmtuProbe of tx/pmtu.rs.  Each method is   *)
(* an operator from the old record to the new one.  Sizes are usize and    *)
(* the arithmetic is that of a release build, which wraps.  last_success   *)
(* is left out: it only picks the delay until the next heartbeat.          *)
(***************************************************************************)
EXTENDS Integers

CONSTANTS InitPmtu,          \* 1200
          PROBE_STEP_SIZE,   \* 2048
          ProbeStepBack,     \* 128, lost in addition when a probe times out
          UsizeMod,          \* 2^64
          U32Mod             \* 2^32, what a heartbeat can carry

ASSUME ProbeAssumption ==
    /\ InitPmtu \in Nat /\ PROBE_STEP_SIZE \in Nat /\ ProbeStepBack \in Nat
    /\ UsizeMod \in Nat /\ InitPmtu < UsizeMod
    /\ U32Mod \in Nat \ {0} /\ U32Mod <= UsizeMod

Usize == 0 .. UsizeMod - 1

PmtuProbe ==
    [last_tested_size : Usize, highest_successful : Usize,
     probe_in_flight : BOOLEAN]

NewPmtuProbe ==
    [last_tested_size |-> InitPmtu, highest_successful |-> InitPmtu,
     probe_in_flight |-> FALSE]

NextProbeSize(p) ==
    [p EXCEPT !.last_tested_size = (@ + PROBE_STEP_SIZE) % UsizeMod,
              !.probe_in_flight = TRUE]

ProbeSuccess(p, size) ==
    [p EXCEPT !.highest_successful = IF @ >= size THEN @ ELSE size,
              !.probe_in_flight = FALSE]

ProbeTimedOut(p) ==
    [p EXCEPT !.last_tested_size = (@ - (PROBE_STEP_SIZE + ProbeStepBack)) % UsizeMod,
              !.probe_in_flight = FALSE]
=============================================================================
