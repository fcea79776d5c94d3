----------------------------- MODULE Congestion -----------------------------
(***************************************************************************)
(* The congestion controller of one destination: PerDestinationInfo of     *)
(* tx/congestion.rs.  Each method is an operator from the old record (and  *)
(* the method's arguments) to the new one.                                 *)
(***************************************************************************)
EXTENDS Integers

CONSTANTS PacketHeader,   \* the 12 bytes a pmtu loses to the packet header
          CwndFloor,      \* 4404 in the initial window formula
          CwndStep,       \* 1000, the cap on one congestion avoidance increase
          UsizeMax        \* usize::MAX, the initial ssthresh

ASSUME CongestionAssumption ==
    PacketHeader \in Nat /\ CwndFloor \in Nat /\ CwndStep \in Nat /\ UsizeMax \in Nat

CongestionState == {"SlowStart", "FastRecovery", "CongestionAvoidance", "LossRecovery"}

PerDestinationInfo ==
    [state : CongestionState, pmcds : Nat, cwnd : Nat, ssthresh : Nat,
     partial_bytes_acked : Nat]

MinOf(a, b) == IF a <= b THEN a ELSE b
MaxOf(a, b) == IF a >= b THEN a ELSE b

InitialCwnd(pmcds) == MinOf(4 * pmcds, MaxOf(2 * pmcds, CwndFloor))

NewPerDestinationInfo(pmtu) ==
    [state |-> "SlowStart", pmcds |-> pmtu - PacketHeader,
     cwnd |-> InitialCwnd(pmtu - PacketHeader), ssthresh |-> UsizeMax,
     partial_bytes_acked |-> 0]

UpdatePmtu(c, pmtu) == [c EXCEPT !.pmcds = pmtu - PacketHeader]

(* The three arms of the match in bytes_acked. *)
RecoveryBytesAcked_FastOnly(c, acked) ==
    IF acked > 0 /\ c.state = "FastRecovery" THEN [c EXCEPT !.state = "SlowStart"] ELSE c
RecoveryBytesAcked(c, acked) ==
    IF acked > 0 THEN [c EXCEPT !.state = "SlowStart"] ELSE c

AvoidanceBytesAcked(c, partial, acked, before) ==
    LET counted == c.partial_bytes_acked + acked + partial
    IN  IF counted < c.cwnd THEN [c EXCEPT !.partial_bytes_acked = counted]
        ELSE IF before < c.cwnd THEN [c EXCEPT !.partial_bytes_acked = c.cwnd]
        ELSE [c EXCEPT !.partial_bytes_acked = counted - c.cwnd,
                       !.cwnd = c.cwnd + MinOf(c.pmcds, CwndStep)]

SlowStartBytesAcked(c, acked, before) ==
    LET grown == IF before >= c.cwnd THEN c.cwnd + MaxOf(2 * c.pmcds, acked) ELSE c.cwnd
    IN  IF grown >= c.ssthresh
        THEN [c EXCEPT !.cwnd = c.ssthresh, !.state = "CongestionAvoidance"]
        ELSE [c EXCEPT !.cwnd = grown]

BytesAcked(c, partial, acked, before) ==
    CASE c.state \in {"FastRecovery", "LossRecovery"} -> RecoveryBytesAcked(c, acked)
      [] c.state = "CongestionAvoidance" -> AvoidanceBytesAcked(c, partial, acked, before)
      [] c.state = "SlowStart" -> SlowStartBytesAcked(c, acked, before)

EnterFastRecovery(c) ==
    IF c.state = "CongestionAvoidance"
    THEN [c EXCEPT !.ssthresh = c.cwnd \div 2,
                   !.cwnd = MaxOf(c.cwnd \div 2, InitialCwnd(c.pmcds)),
                   !.state = "FastRecovery"]
    ELSE c

RtoExpired(c) ==
    [c EXCEPT !.ssthresh = c.cwnd \div 2, !.cwnd = InitialCwnd(c.pmcds),
              !.state = "LossRecovery"]
=============================================================================
