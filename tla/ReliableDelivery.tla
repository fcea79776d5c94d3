-------------------------- MODULE ReliableDelivery --------------------------
(***************************************************************************)
(* What an association promises to the applications at its two ends, for   *)
(* one direction: every message accepted by try_send_data is returned by   *)
(* poll_data at most once, whole and unchanged, and the ordered messages   *)
(* of a stream are returned in the order in which they were accepted.      *)
(* TSNs, fragments, acknowledgements and the network do not occur.         *)
(***************************************************************************)
EXTENDS Naturals, Sequences

CONSTANT Message   \* records with the fields stream, unordered and octets

VARIABLES sent,      \* the messages try_send_data has accepted
          received   \* the messages poll_data has returned

Occurs(m, s) == \E i \in DOMAIN s : s[i] = m

(* Message m may not be returned before the messages it is ordered behind. *)
OrderedBehind(m) ==
    {sent[i] : i \in {k \in DOMAIN sent :
        /\ ~ m.unordered /\ ~ sent[k].unordered /\ sent[k].stream = m.stream
        /\ \E j \in DOMAIN sent : k < j /\ sent[j] = m}}

Init == sent = <<>> /\ received = <<>>

Accept(m) ==
    /\ ~ Occurs(m, sent)
    /\ sent' = Append(sent, m)
    /\ UNCHANGED received

Deliver(m) ==
    /\ Occurs(m, sent) /\ ~ Occurs(m, received)
    /\ \A n \in OrderedBehind(m) : Occurs(n, received)
    /\ received' = Append(received, m)
    /\ UNCHANGED sent

Next == \E m \in Message : Accept(m) \/ Deliver(m)

Spec == Init /\ [][Next]_<<sent, received>>
=============================================================================
