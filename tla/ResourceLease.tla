--------------------------- MODULE ResourceLease ---------------------------
(***************************************************************************)
(* The machine's resource leases (adapters/jobs/machine_resource_lease.py):*)
(* a SQLite table with one row for each heavy production slot and each     *)
(* workspace that is being published to.  A process acquires a lease for a *)
(* time, renews it, releases it, or hands it to a child process with a     *)
(* ticket that the child adopts.  Every call reads the clock, then waits   *)
(* for the write lock, and so acts on a time that has passed.              *)
(***************************************************************************)
EXTENDS Naturals, FiniteSets

CONSTANTS Resources, Owners, Nobody,
          Ttl,       \* the time to live of leases and tickets
          MaxDelay,  \* how long a call waits for the write lock (busy_timeout)
          MaxTime, MaxTickets, MaxToken  \* bounds of the model

ASSUME LeaseAssumption ==
    /\ Ttl \in Nat \ {0} /\ MaxDelay \in Nat /\ MaxTime \in Nat /\ MaxTickets \in Nat
    /\ MaxToken \in Nat
    /\ Nobody \notin Owners

VARIABLES
    now,      \* the clock of the machine
    clock,    \* the time a process read for the call it is making
    row,      \* table resource_leases; token 0: no row; nonce 0: no handoff
    held,     \* the ResourceLease a process has in memory; token 0: none
    tickets,  \* every ResourceLeaseHandoff ever issued
    adopted,  \* the nonces of the tickets that were adopted
    alive     \* the processes that have not ended

vars == <<now, clock, row, held, tickets, adopted, alive>>

Time == 0..(MaxTime + Ttl)
Row == [owner : Owners \cup {Nobody}, token : Nat, expires : Time,
        to : Owners \cup {Nobody}, nonce : Nat, deadline : Time]
Lease == [token : Nat, expires : Time]
Ticket == [resource : Resources, from : Owners, to : Owners, token : Nat, nonce : Nat]

NoLease == [token |-> 0, expires |-> 0]

Init ==
    /\ now = 0
    /\ clock = [o \in Owners |-> Nobody]
    /\ row = [r \in Resources |-> [owner |-> Nobody, token |-> 0, expires |-> 0,
                                   to |-> Nobody, nonce |-> 0, deadline |-> 0]]
    /\ held = [o \in Owners |-> [r \in Resources |-> NoLease]]
    /\ tickets = {}
    /\ adopted = {}
    /\ alive = Owners

-----------------------------------------------------------------------------

\* Time passes, but no call waits longer than the store's busy timeout.
Tick ==
    /\ now < MaxTime
    /\ \A o \in alive : clock[o] # Nobody => now < clock[o] + MaxDelay
    /\ now' = now + 1
    /\ UNCHANGED <<clock, row, held, tickets, adopted, alive>>

\* now_ms = self._clock(), before BEGIN IMMEDIATE
ReadClock(o) ==
    /\ o \in alive /\ clock[o] = Nobody
    /\ clock' = [clock EXCEPT ![o] = now]
    /\ UNCHANGED <<now, row, held, tickets, adopted, alive>>

\* The call of o holds the write lock and computes from the time it read.
Calls(o) == o \in alive /\ clock[o] # Nobody /\ clock' = [clock EXCEPT ![o] = Nobody]

Owns(r, o, token) == row[r].owner = o /\ row[r].token = token /\ token # 0

Unexpired(r, o) == row[r].expires > clock[o]

WithoutHandoff(line) == [line EXCEPT !.to = Nobody, !.nonce = 0, !.deadline = 0]

GrantToken(r) == row[r].token + 1

\* The row is absent, or its lease ran out: a new fencing token.
Acquire(o, r) ==
    /\ held[o][r] = NoLease /\ row[r].token < MaxToken
    /\ Calls(o)
    /\ ~Unexpired(r, o)
    /\ LET lease == [token |-> GrantToken(r), expires |-> clock[o] + Ttl] IN
       /\ row' = [row EXCEPT ![r] = [WithoutHandoff(@) EXCEPT
                     !.owner = o, !.token = lease.token, !.expires = lease.expires]]
       /\ held' = [held EXCEPT ![o][r] = lease]
    /\ UNCHANGED <<now, tickets, adopted, alive>>

\* A call that raises (resource_busy, resource_lease_lost, resource_handoff_invalid)
\* or is abandoned.
CallFails(o) == Calls(o) /\ UNCHANGED <<now, row, held, tickets, adopted, alive>>

HandoffFree(r) == row[r].nonce = 0

\* handoff is to a process that does not exist yet: its identity is a new uuid.
Fresh(c) == /\ \A t \in tickets : t.to # c /\ t.from # c
            /\ held[c] = [r \in Resources |-> NoLease]
            /\ c \in alive /\ clock[c] = Nobody
            /\ \A r \in Resources : row[r].owner # c

Handoff(o, r, c) ==
    /\ held[o][r] # NoLease
    /\ Calls(o)
    /\ c # o /\ Fresh(c)
    /\ Owns(r, o, held[o][r].token) /\ Unexpired(r, o) /\ HandoffFree(r)
    /\ Cardinality(tickets) < MaxTickets
    /\ LET nonce == Cardinality(tickets) + 1 IN
       /\ row' = [row EXCEPT ![r].to = c, ![r].nonce = nonce, ![r].deadline = clock[o] + Ttl]
       /\ tickets' = tickets \cup {[resource |-> r, from |-> o, to |-> c,
                                    token |-> held[o][r].token, nonce |-> nonce]}
    /\ UNCHANGED <<now, held, adopted, alive>>

\* Mutant: the row's ticket is not cleared.
ConsumeTicketKept(line) == line

ConsumeTicket(line) == WithoutHandoff(line)

\* adopt: only the receiver has the ticket, and may present it again.
Adopt(t) ==
    LET r == t.resource  o == t.to IN
    /\ Calls(o)
    /\ row[r].token = t.token /\ row[r].to = o /\ row[r].nonce = t.nonce
    /\ Unexpired(r, o) /\ row[r].deadline > clock[o]
    /\ row' = [row EXCEPT ![r] = [ConsumeTicket(@) EXCEPT !.owner = o, !.expires = clock[o] + Ttl]]
    /\ held' = [held EXCEPT ![o][r] = [token |-> t.token, expires |-> clock[o] + Ttl]]
    /\ adopted' = adopted \cup {t.nonce}
    /\ UNCHANGED <<now, tickets, alive>>

\* ResourceLease.heartbeat
Heartbeat(o, r) ==
    /\ Calls(o)
    /\ Owns(r, o, held[o][r].token) /\ Unexpired(r, o)
    /\ row' = [row EXCEPT ![r].expires = clock[o] + Ttl]
    /\ held' = [held EXCEPT ![o][r].expires = clock[o] + Ttl]
    /\ UNCHANGED <<now, tickets, adopted, alive>>

\* heartbeat_adopted: the giver renews the lease of the receiver.
HeartbeatAdopted(t) ==
    /\ Calls(t.from)
    /\ Owns(t.resource, t.to, t.token) /\ Unexpired(t.resource, t.from)
    /\ row' = [row EXCEPT ![t.resource].expires = clock[t.from] + Ttl]
    /\ UNCHANGED <<now, held, tickets, adopted, alive>>

Expired(r) == [row EXCEPT ![r] = [WithoutHandoff(@) EXCEPT !.expires = 0]]

\* Mutant: UPDATE ... WHERE resource_name = ?
ReleaseUnfenced(o, r) ==
    /\ o \in alive /\ clock[o] = Nobody /\ held[o][r] # NoLease
    /\ row' = Expired(r)
    /\ held' = [held EXCEPT ![o][r] = NoLease]
    /\ UNCHANGED <<now, clock, tickets, adopted, alive>>

\* ResourceLease.release: forgets the lease, whether the row was still its own or not.
Release(o, r) ==
    /\ o \in alive /\ clock[o] = Nobody /\ held[o][r] # NoLease
    /\ row' = IF Owns(r, o, held[o][r].token) THEN Expired(r) ELSE row
    /\ held' = [held EXCEPT ![o][r] = NoLease]
    /\ UNCHANGED <<now, clock, tickets, adopted, alive>>

\* release_adopted, once the receiver has ended.
ReleaseAdopted(t) ==
    /\ t.from \in alive /\ clock[t.from] = Nobody
    /\ t.to \notin alive
    /\ Owns(t.resource, t.to, t.token)
    /\ row' = Expired(t.resource)
    /\ UNCHANGED <<now, clock, held, tickets, adopted, alive>>

\* A process ends or dies, with whatever it held.
End(o) ==
    /\ o \in alive
    /\ alive' = alive \ {o}
    /\ held' = [held EXCEPT ![o] = [r \in Resources |-> NoLease]]
    /\ clock' = [clock EXCEPT ![o] = Nobody]
    /\ UNCHANGED <<now, row, tickets, adopted>>

Next ==
    \/ Tick
    \/ \E o \in Owners : ReadClock(o) \/ CallFails(o) \/ End(o)
    \/ \E o \in Owners, r \in Resources : Acquire(o, r) \/ Heartbeat(o, r) \/ Release(o, r)
    \/ \E o \in Owners, r \in Resources, c \in Owners : Handoff(o, r, c)
    \/ \E t \in tickets : Adopt(t) \/ HeartbeatAdopted(t) \/ ReleaseAdopted(t)

Spec == Init /\ [][Next]_vars

-----------------------------------------------------------------------------
(* Properties.                                                             *)

\* The table's CHECKs: a handoff is whole or absent; no process is ahead of the clock.
TypeOK ==
    /\ now \in 0..MaxTime
    /\ clock \in [Owners -> 0..MaxTime \cup {Nobody}]
    /\ \A o \in Owners : clock[o] # Nobody => clock[o] <= now
    /\ row \in [Resources -> Row]
    /\ \A r \in Resources : /\ (row[r].to = Nobody) = (row[r].nonce = 0)
                            /\ (row[r].owner = Nobody) = (row[r].token = 0)
    /\ held \in [Owners -> [Resources -> Lease]]
    /\ tickets \subseteq Ticket
    /\ adopted \subseteq Nat /\ alive \subseteq Owners

\* A process that was given its lease by another is also renewed by it, perhaps
\* from a clock that is older than the one of its own last heartbeat.
Supervised(o) == \E t \in tickets : t.to = o

GivenAway(o, r) ==
    \E t \in tickets : t.from = o /\ t.resource = r /\ t.token = held[o][r].token
                       /\ t.nonce \in adopted

\* Until the time a process remembers has come, nobody else was given the slot:
\* whatever was delayed between reading the clock and holding the write lock.  A
\* supervised process may lose its slot earlier by the delay of one call.
BelievedLeasesHold ==
    \A o \in Owners, r \in Resources :
       LET slack == IF Supervised(o) THEN MaxDelay ELSE 0 IN
       /\ held[o][r] # NoLease /\ ~GivenAway(o, r)
       /\ held[o][r].expires > now + slack
       => row[r].owner = o /\ row[r].token = held[o][r].token

\* Within a fencing token a lease changes hands only through a ticket its owner
\* issued for that token and that was never adopted before.
OwnershipMovesByTicket ==
    [][\A r \in Resources :
          row'[r].token = row[r].token /\ row'[r].owner # row[r].owner =>
             \E t \in tickets : /\ t.nonce \notin adopted /\ t.nonce \in adopted'
                                /\ t.resource = r /\ t.token = row[r].token
                                /\ t.from = row[r].owner /\ t.to = row'[r].owner]_vars

\* A lease that was fenced, given away or given up never becomes its former owner's
\* again: heartbeats and releases of a process that was slow have no effect.
LostLeasesStayLost ==
    [][\A o \in Owners, r \in Resources :
          /\ held[o][r] # NoLease /\ held'[o][r].token = held[o][r].token
          /\ ~Owns(r, o, held[o][r].token)
          => ~Owns(r, o, held[o][r].token)']_vars

\* The store implements one holder in generations.
Abstract == INSTANCE ExclusiveLease WITH
    holder <- [r \in Resources |-> row[r].owner],
    generation <- [r \in Resources |-> row[r].token],
    lapsed <- [r \in Resources |-> row[r].expires <= now],
    offers <- [r \in Resources |-> IF row[r].nonce = 0 THEN {} ELSE {row[r].to}]

ImplementsExclusiveLease == Abstract!LeaseSpec
=============================================================================
