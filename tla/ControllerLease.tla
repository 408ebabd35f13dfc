--------------------------- MODULE ControllerLease ---------------------------
(***************************************************************************)
(* What the Thin-RPC backends of custom_components/openrbus/transport.py   *)
(* promise about one shared ESPHome controller.  A backend holds the       *)
(* controller alone, attaches only to links that are up while it holds it, *)
(* and gives the controller back only when no link it attached to is still *)
(* up.  ThinLifecycle implements this specification.                       *)
(***************************************************************************)
EXTENDS Naturals

CONSTANTS Backends,   \* backend objects, one per coordinator generation
          NoBackend,  \* the controller is free
          MaxLinks    \* bound: how many of the latest physical links are told apart

(* What the constants have to satisfy: a hypothesis of the theorem about it. *)
LeaseAssumption == NoBackend \notin Backends /\ MaxLinks \in Nat \ {0}

VARIABLES
  holder,    \* the backend that owns the controller, or NoBackend
  up,        \* a physical link to the appliance exists
  count,     \* number of the latest physical link
  attached   \* for each link, the backends that ever attached to it

leaseVars == <<holder, up, count, attached>>

Links == 1 .. MaxLinks

LeaseTypeOK ==
  /\ holder \in Backends \cup {NoBackend}
  /\ up \in BOOLEAN
  /\ count \in 0 .. MaxLinks
  /\ attached \in [Links -> SUBSET Backends]

(* b is attached to the link that exists now. *)
HoldsLiveLink(b) == up /\ count \in Links /\ b \in attached[count]

LeaseInit ==
  /\ holder = NoBackend
  /\ up \in BOOLEAN
  /\ count = IF up THEN 1 ELSE 0
  /\ attached = [k \in Links |-> {}]

(* A free controller is claimed by one backend.                            *)
Acquire(b) ==
  /\ holder = NoBackend
  /\ holder' = b
  /\ UNCHANGED <<up, count, attached>>

(* The owner's session attaches to the link that is up.                    *)
Attach(b) ==
  /\ holder = b
  /\ up /\ count \in Links
  /\ attached' = [attached EXCEPT ![count] = @ \cup {b}]
  /\ UNCHANGED <<holder, up, count>>

(* The controller is free again once no link of the owner is up.           *)
GiveBack(b) ==
  /\ holder = b
  /\ ~HoldsLiveLink(b)
  /\ holder' = NoBackend
  /\ UNCHANGED <<up, count, attached>>

(* The proxy opens a link; once the numbers are used up, the oldest is     *)
(* forgotten.                                                              *)
LinkUp ==
  /\ ~up /\ count < MaxLinks
  /\ up' = TRUE
  /\ count' = count + 1
  /\ UNCHANGED <<holder, attached>>

LinkUpOn ==
  /\ ~up /\ count = MaxLinks
  /\ up' = TRUE
  /\ attached' = [k \in Links |-> IF k < MaxLinks THEN attached[k + 1] ELSE {}]
  /\ UNCHANGED <<holder, count>>

LinkDown ==
  /\ up
  /\ up' = FALSE
  /\ UNCHANGED <<holder, count, attached>>

LeaseNext ==
  \/ \E b \in Backends : Acquire(b) \/ Attach(b) \/ GiveBack(b)
  \/ LinkUp
  \/ LinkUpOn
  \/ LinkDown

LeaseSpec == LeaseInit /\ [][LeaseNext]_leaseVars

-----------------------------------------------------------------------------

(* No physical link is ever used by two backends: a new owner starts on a  *)
(* link its predecessor never touched (transport.py:2036, the safety       *)
(* boundary of _cleanup_owned_session).                                    *)
LinkHasOneUser ==
  \A k \in Links : \A b1, b2 \in attached[k] : b1 = b2

(* A backend attached to the link that is up owns the controller.          *)
LiveUserOwns == \A b \in Backends : HoldsLiveLink(b) => holder = b

(* Links the proxy has not opened yet have no user.                        *)
FutureLinksUnused == \A k \in Links : k > count => attached[k] = {}

(* All of it: what a claimed controller promises its owner (transport.py:  *)
(* 1901-1931, 2036-2098).                                                  *)
LeaseInv == LeaseTypeOK /\ LinkHasOneUser /\ LiveUserOwns /\ FutureLinksUnused
=============================================================================
