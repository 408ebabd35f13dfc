-------------------------- MODULE MCZoneProjection --------------------------
(* Model-checking instance of ZoneProjection.                              *)
EXTENDS ZoneProjection

Zoned == {"off", "on"}

(* What may happen, together, in one behaviour.                            *)
MCEnvironments ==
    {[happens |-> {"device", "reload", "unread"}, functions |-> Zoned],
     [happens |-> {"device", "save_fails"}, functions |-> Zoned],
     [happens |-> {"device", "deadline"}, functions |-> {"on", "strange"}],
     [happens |-> {"save_fails", "restart", "label"}, functions |-> Zoned],
     [happens |-> {"deadline", "unread", "budget", "load_fails"}, functions |-> {"on"}]}
=============================================================================
