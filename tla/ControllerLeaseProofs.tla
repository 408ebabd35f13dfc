------------------------ MODULE ControllerLeaseProofs ------------------------
(***************************************************************************)
(* The controller lease keeps links private to one backend, for any number *)
(* of backends and links.                                                  *)
(***************************************************************************)
EXTENDS ControllerLease, TLAPS

(* One holder at a time, live links used by the holder only, and no user   *)
(* for links to come: together they keep every link private.               *)
THEOREM LeaseSafe == ASSUME LeaseAssumption PROVE LeaseSpec => []LeaseInv
<1> USE DEF LeaseAssumption, LeaseInv, LeaseTypeOK, LinkHasOneUser, LiveUserOwns, FutureLinksUnused,
            HoldsLiveLink, Links
<1>1. LeaseInit => LeaseInv
  BY DEF LeaseInit
<1>2. LeaseInv /\ [LeaseNext]_leaseVars => LeaseInv'
  <2> SUFFICES ASSUME LeaseInv, [LeaseNext]_leaseVars PROVE LeaseInv'
    OBVIOUS
  <2>1. ASSUME NEW b \in Backends, Acquire(b) PROVE LeaseInv'
    BY <2>1 DEF Acquire
  <2>2. ASSUME NEW b \in Backends, Attach(b) PROVE LeaseInv'
    <3>1. \A c \in attached[count] : c = b
      BY <2>2 DEF Attach
    <3>2. /\ attached'[count] = attached[count] \cup {b}
          /\ \A k \in Links : k # count => attached'[k] = attached[k]
      BY <2>2 DEF Attach
    <3>3. LeaseTypeOK'
      BY <2>2 DEF Attach
    <3>4. LinkHasOneUser'
      BY <3>1, <3>2
    <3>5. LiveUserOwns' /\ FutureLinksUnused'
      BY <2>2, <3>1, <3>2 DEF Attach
    <3>6. QED BY <3>3, <3>4, <3>5
  <2>3. ASSUME NEW b \in Backends, GiveBack(b) PROVE LeaseInv'
    BY <2>3 DEF GiveBack
  <2>4. CASE LinkUp
    BY <2>4 DEF LinkUp
  <2>5. CASE LinkUpOn
    <3>1. \A k \in Links : k < MaxLinks => k + 1 \in Links
      OBVIOUS
    <3>2. QED BY <2>5, <3>1 DEF LinkUpOn
  <2>6. CASE LinkDown
    BY <2>6 DEF LinkDown
  <2>7. CASE UNCHANGED leaseVars
    BY <2>7 DEF leaseVars
  <2>8. QED BY <2>1, <2>2, <2>3, <2>4, <2>5, <2>6, <2>7 DEF LeaseNext
<1>3. QED BY <1>1, <1>2, PTL DEF LeaseSpec
=============================================================================
