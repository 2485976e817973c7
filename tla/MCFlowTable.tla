---------------------------- MODULE MCFlowTable ----------------------------
(* Two packets, a match for one of them and one for both. *)
EXTENDS FlowTable

CONSTANTS p1, p2, m1

MCPacket   == {p1, p2}
MCMatch    == {{p1}, {p1, p2}}
MCFlowMods == {<<0, 1, m1>>, <<1, 2, NoMeter>>}

(* What can still matter of the entries that have left the table. *)
View == <<now, [i \in DOMAIN entry |-> IF i \in Live THEN entry[i]
                                      ELSE <<entry[i].match, entry[i].priority>>],
          lists, active_count, flow_refs, notices>>
=============================================================================
