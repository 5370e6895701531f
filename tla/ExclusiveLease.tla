--------------------------- MODULE ExclusiveLease ---------------------------
(***************************************************************************)
(* What the machine's lease store promises of each resource: one holder,   *)
(* in generations.  A new generation is granted only when the last one has *)
(* lapsed; within a generation the lease moves from its holder to another  *)
(* process at most once for each ticket the holder issued.                 *)
(***************************************************************************)
EXTENDS Naturals

CONSTANTS Resources, Owners, Nobody

\* offers: the receivers the present holder may still pass the lease to.
VARIABLES holder, generation, lapsed, offers

leaseVars == <<holder, generation, lapsed, offers>>

LeaseInit ==
    /\ holder = [r \in Resources |-> Nobody]
    /\ generation = [r \in Resources |-> 0]
    /\ lapsed = [r \in Resources |-> TRUE]
    /\ offers = [r \in Resources |-> {}]

\* A grant may come too late to be of use: its time runs from the request.
Grant(r, o) ==
    /\ lapsed[r]
    /\ holder' = [holder EXCEPT ![r] = o]
    /\ generation' = [generation EXCEPT ![r] = @ + 1]
    /\ lapsed' \in {[lapsed EXCEPT ![r] = b] : b \in BOOLEAN}
    /\ offers' = [offers EXCEPT ![r] = {}]

Offer(r, o) ==
    /\ holder[r] \in Owners
    /\ offers[r] = {}
    /\ offers' = [offers EXCEPT ![r] = {o}]
    /\ UNCHANGED <<holder, generation, lapsed>>

Pass(r, o) ==
    /\ o \in offers[r]
    /\ holder' = [holder EXCEPT ![r] = o]
    /\ offers' = [offers EXCEPT ![r] = {}]
    /\ lapsed' \in {[lapsed EXCEPT ![r] = b] : b \in BOOLEAN}
    /\ UNCHANGED generation

GiveUp(r) ==
    /\ lapsed' = [lapsed EXCEPT ![r] = TRUE]
    /\ offers' = [offers EXCEPT ![r] = {}]
    /\ UNCHANGED <<holder, generation>>

\* The lease of a silent holder lapses, that of a late one is renewed.
RenewOrLapse ==
    /\ lapsed' \in [Resources -> BOOLEAN]
    /\ \A r \in Resources : holder[r] = Nobody => lapsed'[r]
    /\ UNCHANGED <<holder, generation, offers>>

LeaseNext ==
    \/ RenewOrLapse
    \/ \E r \in Resources :
          \/ GiveUp(r)
          \/ \E o \in Owners : Grant(r, o) \/ Offer(r, o) \/ Pass(r, o)

LeaseSpec == LeaseInit /\ [][LeaseNext]_leaseVars
=============================================================================
