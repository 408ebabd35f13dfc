------------------------- MODULE MCRegisterPolling -------------------------
(* TLC instance of RegisterPolling: register 1 has two platforms, register 2 is in a  *)
(* zone.  Each environment has the interleavings of one question.                     *)
EXTENDS RegisterPolling
CONSTANTS p1, p2, w1
MCRows == [r \in Registers |-> IF r = 1 THEN {"sensor", "number"} ELSE {"sensor"}]
MCRequired == [r \in Registers |-> IF r = 1 THEN 1 ELSE 2]
Answering(one, two) == [r \in Registers |-> IF r = 1 THEN one ELSE two]

(* Two refreshes while the register fails and the session changes. *)
Quarantining == [happens |-> {"reactivate", "session"}, callers |-> {p1, p2}, registers |-> {2},
                 answers |-> Answering({}, {"valid", "unsupported"}), levels |-> {0}]
(* Two refreshes while the register has intervals of sentinels and errors. *)
Retiring == [happens |-> {"reactivate"}, callers |-> {p1, p2}, registers |-> {2},
             answers |-> Answering({}, {"valid", "sentinel", "item"}), levels |-> {0}]
(* The user and the retirement of a register with two rows. *)
Household == [happens |-> {"user", "reactivate"}, callers |-> {p1}, registers |-> {1},
              answers |-> Answering({"valid", "item"}, {}), levels |-> {0}]
(* Two chunks; platforms and the entry come and go. *)
Chunks == [happens |-> {"platform", "shutdown", "reload"}, callers |-> {p1}, registers |-> {2},
           answers |-> Answering({"valid"}, {"valid", "unsupported"}), levels |-> {0}]
(* Writes of both origins beside a refresh. *)
Controls == [happens |-> {"zone"}, callers |-> {p1, w1}, registers |-> {2},
             answers |-> Answering({}, {"valid","garbled"}), levels |-> {0, 1, 2}]
MCEnvironments == {Quarantining, Retiring, Household, Controls, Chunks}
=============================================================================
