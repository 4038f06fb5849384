----------------------------- MODULE MCReceive ------------------------------
(* Instances of Receive for TLC: a heartbeat response is its header alone,  *)
(* an INH response has two bytes more.  Offsets 0, 1 and 2 stand for the    *)
(* identifier, the type and the rest of the header.                         *)
EXTENDS Receive

CONSTANTS heartbeat_res, inh_res

MCKind == {heartbeat_res, inh_res}
MCTotal == [k \in AnyKind |-> IF k = inh_res THEN 5 ELSE 3]

=============================================================================
