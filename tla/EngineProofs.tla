---------------------------- MODULE EngineProofs ----------------------------
(***************************************************************************)
(* Proofs about the engine process (EngineHost) and its dispatcher         *)
(* (EngineDispatcher), the instances Host and Dispatcher of MCEngine, and  *)
(* about the machine's resource leases (ResourceLease), for every value of *)
(* their constants: any number of hosts, clients and Jobs; any number of   *)
(* resources and processes, any time to live and any delay of a call.      *)
(***************************************************************************)
EXTENDS MCEngine, Sequences, FiniteSetTheorems, TLAPS

-----------------------------------------------------------------------------
(* EngineHost: the inductive invariant.                                    *)

Places == {"rest", "status", "probe", "probed", "remove", "launch", "await", "hello", "notify",
           "shutdown", "asked", "stopping", "stopped", "done"}

ClientRow == [at : Places, op : {"none", "ensure", "notify", "stop"},
              job : HostJobs \cup {Nobody}, engine : Hosts \cup {Nobody}]

\* Where a client waits for one host, or talks to it.
Contacting == {"await", "hello", "notify", "shutdown", "asked", "stopping"}

HostTypes ==
    /\ launch \in Clients \cup Hosts \cup {Nobody}
    /\ lifetime \in Clients \cup Hosts \cup {Nobody}
    /\ descriptor \in Hosts \cup {Nobody}
    /\ host \in [Hosts -> Host!HostStates]
    /\ accepted \in [Hosts -> SUBSET HostJobs]
    /\ draining \subseteq Hosts
    /\ requests \subseteq Host!Request
    /\ client \in [Clients -> ClientRow]
    /\ \A c \in Clients : client[c].at \in Contacting => client[c].engine \in Hosts
    /\ queued \subseteq HostJobs
    /\ hostBudget \in [kills : Nat, interrupts : 0 .. MaxInterrupts, faults : Nat]

\* The states in which a host holds the lifetime lock.
Owning == {"owning", "serving", "idle", "checking", "leaving", "unpublished"}

\* Who holds the two locks.
LocksInv ==
    /\ \A h \in Hosts : host[h] \in Owning <=> lifetime = h
    /\ \A c \in Clients : lifetime = c <=> client[c].at = "probed"
    /\ \A c \in Clients : launch = c <=> client[c].at # "rest"
    /\ \A h \in Hosts : host[h] = "checking" => launch = h
    /\ \A h \in Hosts : launch = h => host[h] \in {"checking", "leaving", "unpublished", "unlocked"}

\* A request whose client still waits is the only one of that client.
RequestsInv ==
    /\ \A q \in requests : q.from # Nobody => client[q.from].at = "asked"
    /\ \A q, r \in requests : q.from # Nobody /\ q.from = r.from => q = r

\* A host that leaves by itself drains and has nothing left to do.
LeavingInv ==
    \A h \in Hosts : host[h] \in {"leaving", "unpublished", "unlocked"} =>
        h \in draining /\ accepted[h] = {}

\* Without an interrupted client: a host that has not published yet is awaited by the
\* client that launched it, and a client that removes a descriptor or launches a host
\* is alone.
FoundInv ==
    hostBudget.interrupts = MaxInterrupts =>
        /\ \A h \in Hosts : Host!Answers(h) => descriptor = h
        /\ \A h \in Hosts : host[h] \in {"starting", "owning"} =>
              \E c \in Clients : client[c].at = "await" /\ client[c].engine = h
        /\ \A c \in Clients : client[c].at \in {"remove", "launch"} =>
              \A h \in Hosts : host[h] \notin Owning \cup {"starting"}
        /\ \A c \in Clients : client[c].at = "await" =>
              \A h \in Hosts : host[h] \in Owning \cup {"starting"} => client[c].engine = h

HostInv == HostTypes /\ LocksInv /\ RequestsInv /\ LeavingInv /\ FoundInv

\* Acquiring the launch lock.
LEMMA Acquired ==
    ASSUME HostTypes, NEW c \in Clients, Host!Acquire(c)
    PROVE  /\ client' \in [Clients -> ClientRow] /\ queued' \subseteq HostJobs
           /\ client[c].at = "rest" /\ client'[c].at = "status"
           /\ \A d \in Clients : d # c => client'[d] = client[d]
           /\ launch = Nobody /\ launch' = c
           /\ UNCHANGED <<lifetime, descriptor, Host!hosts, requests, hostBudget>>
<1> USE DEF HostTypes, ClientRow, Places, Host!AtRest
<1>1. /\ launch = Nobody /\ launch' = c /\ client[c].at = "rest"
      /\ UNCHANGED <<lifetime, descriptor, Host!hosts, requests, hostBudget>>
  BY DEF Host!Acquire
<1>2. CASE /\ \E op \in {"ensure", "stop"} :
                client' = [client EXCEPT ![c] = [Host!AtRest EXCEPT !.at = "status", !.op = op]]
           /\ UNCHANGED queued
  <2>1. PICK op \in {"ensure", "stop"} :
          client' = [client EXCEPT ![c] = [Host!AtRest EXCEPT !.at = "status", !.op = op]]
    BY <1>2
  <2> DEFINE moved == [Host!AtRest EXCEPT !.at = "status", !.op = op]
  <2>2. moved \in ClientRow /\ moved.at = "status"
    OBVIOUS
  <2>3. client' = [client EXCEPT ![c] = moved]
    BY <2>1
  <2> HIDE DEF moved
  <2> QED
    BY <1>1, <1>2, <2>2, <2>3
<1>3. CASE \E j \in HostJobs :
             /\ queued' = queued \cup {j}
             /\ client' = [client EXCEPT ![c] = [at |-> "status", op |-> "notify", job |-> j,
                                                engine |-> Nobody]]
  BY <1>1, <1>3
<1> QED
  BY <1>2, <1>3 DEF Host!Acquire

\* A request that is sent.
LEMMA Sent ==
    ASSUME HostTypes, NEW c \in Clients, Host!Send(c)
    PROVE  \/ /\ \E q \in Host!Request : q.from = c /\ requests' = requests \cup {q}
              /\ client' = [client EXCEPT ![c].at = "asked"] /\ UNCHANGED launch
           \/ Host!Leave(c) /\ UNCHANGED requests
<1> USE DEF HostTypes
<1>1. CASE Host!Answers(client[c].engine)
  <2> DEFINE q == [from |-> c, to |-> client[c].engine,
                   method |-> Host!MethodAt[client[c].at], job |-> client[c].job,
                   active |-> FALSE]
  <2>1. client[c].engine \in Hosts
    BY DEF Contacting, Host!Send, Host!MethodAt
  <2>2. q \in Host!Request /\ q.from = c
    BY <2>1 DEF Host!Request, Host!Send, Host!MethodAt, ClientRow
  <2>3. requests' = requests \cup {q} /\ Host!Goto(c, "asked") /\ UNCHANGED launch
    BY <1>1 DEF Host!Send
  <2> HIDE DEF q
  <2> QED
    BY <2>2, <2>3 DEF Host!Goto
<1>2. CASE ~Host!Answers(client[c].engine)
  BY <1>2 DEF Host!Send
<1> QED
  BY <1>1, <1>2

\* The row of a client that launched a host.
LEMMA LaunchedRow ==
    ASSUME NEW r \in ClientRow, NEW h \in Hosts
    PROVE  [r EXCEPT !.at = "await", !.engine = h] \in
               {s \in ClientRow : s.at = "await" /\ s.engine = h}
BY DEF ClientRow, Places

\* A request that a thread of the host took in hand.
LEMMA AcceptedRequest ==
    ASSUME NEW q \in Host!Request
    PROVE  [q EXCEPT !.active = TRUE] \in {r \in Host!Request : r.from = q.from}
BY DEF Host!Request

\* The types are kept.
LEMMA HostTypesStep ==
    ASSUME HostInv, Host!Next
    PROVE  HostTypes'
<1> USE EngineAssumption
        DEF Host!HostAssumption, HostInv, HostTypes, ClientRow, Places, Host!HostStates,
            Host!Request, LocksInv, RequestsInv, Contacting, Host!Spend, Host!Goto, Host!Leave,
            Host!AtRest, Host!Found, Host!Live, Host!Answers, Host!Exit, Host!MethodAt,
            Host!Reply, Host!Active, Host!StillIdle, Host!OwnDescriptor, Host!locks, Host!hosts
<1>1. ASSUME NEW c \in Clients, Host!Acquire(c) PROVE HostTypes'
  BY <1>1, Acquired
<1>2. ASSUME NEW c \in Clients, Host!StatusRunning(c) PROVE HostTypes'
  BY <1>2 DEF Host!StatusRunning
<1>3. ASSUME NEW c \in Clients, Host!StatusNotRunning(c) PROVE HostTypes'
  BY <1>3 DEF Host!StatusNotRunning
<1>4. ASSUME NEW c \in Clients, Host!Probe(c) PROVE HostTypes'
  BY <1>4 DEF Host!Probe
<1>5. ASSUME NEW c \in Clients, Host!ProbeEnds(c) PROVE HostTypes'
  BY <1>5 DEF Host!ProbeEnds
<1>6. ASSUME NEW c \in Clients, Host!RemoveStale(c) PROVE HostTypes'
  BY <1>6 DEF Host!RemoveStale
<1>7. ASSUME NEW c \in Clients, Host!LaunchFails(c) PROVE HostTypes'
  BY <1>7 DEF Host!LaunchFails
<1>8. ASSUME NEW c \in Clients, Host!AwaitRunning(c) PROVE HostTypes'
  BY <1>8 DEF Host!AwaitRunning
<1>9. ASSUME NEW c \in Clients, Host!AwaitFails(c) PROVE HostTypes'
  BY <1>9 DEF Host!AwaitFails
<1>10. ASSUME NEW c \in Clients, Host!AwaitInterrupted(c) PROVE HostTypes'
  BY <1>10 DEF Host!AwaitInterrupted
<1>11. ASSUME NEW c \in Clients, Host!Send(c) PROVE HostTypes'
  BY <1>11, Sent DEF Host!Send
<1>12. ASSUME NEW c \in Clients, Host!GiveUp(c) PROVE HostTypes'
  BY <1>12 DEF Host!GiveUp
<1>13. ASSUME NEW c \in Clients, Host!StopSeesEnd(c) PROVE HostTypes'
  BY <1>13 DEF Host!StopSeesEnd
<1>14. ASSUME NEW c \in Clients, Host!StopTimesOut(c) PROVE HostTypes'
  BY <1>14 DEF Host!StopTimesOut
<1>15. ASSUME NEW c \in Clients, Host!Return(c) PROVE HostTypes'
  BY <1>15 DEF Host!Return
<1>16. ASSUME NEW c \in Clients, NEW h \in Hosts, Host!Launch(c, h) PROVE HostTypes'
  <2> DEFINE moved == [client[c] EXCEPT !.at = "await", !.engine = h]
  <2>0. client[c] \in ClientRow /\ client \in [Clients -> ClientRow]
    BY DEF ClientRow, Places
  <2>1. moved \in ClientRow /\ moved.engine = h
    BY <2>0, LaunchedRow
  <2>2. client' = [client EXCEPT ![c] = moved]
    BY <1>16, <2>0 DEF Host!Launch
  <2>3. /\ host' = [host EXCEPT ![h] = "starting"]
        /\ UNCHANGED <<Host!locks, descriptor, accepted, draining, requests, queued, hostBudget>>
    BY <1>16 DEF Host!Launch
  <2> HIDE DEF moved
  <2> QED
    BY <2>1, <2>2, <2>3
<1>17. ASSUME NEW h \in Hosts, Host!Start(h) PROVE HostTypes'
  BY <1>17 DEF Host!Start
<1>18. ASSUME NEW h \in Hosts, Host!Publish(h) PROVE HostTypes'
  BY <1>18 DEF Host!Publish
<1>19. ASSUME NEW h \in Hosts, Host!Reconcile(h) PROVE HostTypes'
  BY <1>19 DEF Host!Reconcile
<1>20. ASSUME NEW h \in Hosts, Host!IdleSees(h) PROVE HostTypes'
  BY <1>20 DEF Host!IdleSees
<1>21. ASSUME NEW h \in Hosts, Host!IdleLock(h) PROVE HostTypes'
  BY <1>21 DEF Host!IdleLock
<1>22. ASSUME NEW h \in Hosts, Host!IdleDecides(h) PROVE HostTypes'
  BY <1>22 DEF Host!IdleDecides
<1>23. ASSUME NEW h \in Hosts, Host!IdleReconcileFails(h) PROVE HostTypes'
  BY <1>23 DEF Host!IdleReconcileFails
<1>24. ASSUME NEW h \in Hosts, Host!GracefulEnd(h) PROVE HostTypes'
  BY <1>24 DEF Host!GracefulEnd
<1>25. ASSUME NEW h \in Hosts, Host!Unpublish(h) PROVE HostTypes'
  BY <1>25 DEF Host!Unpublish
<1>26. ASSUME NEW h \in Hosts, Host!UnlockLifetime(h) PROVE HostTypes'
  BY <1>26 DEF Host!UnlockLifetime
<1>27. ASSUME NEW h \in Hosts, Host!UnlockLaunch(h) PROVE HostTypes'
  BY <1>27 DEF Host!UnlockLaunch
<1>28. ASSUME NEW h \in Hosts, Host!IdleTimePasses(h) PROVE HostTypes'
  BY <1>28 DEF Host!IdleTimePasses
<1>29. ASSUME NEW h \in Hosts, Host!Kill(h) PROVE HostTypes'
  BY <1>29 DEF Host!Kill
<1>30. ASSUME NEW h \in Hosts, Host!Forget(h) PROVE HostTypes'
  BY <1>30 DEF Host!Forget
<1>31. ASSUME NEW h \in Hosts, NEW j \in HostJobs, Host!Work(h, j) PROVE HostTypes'
  BY <1>31 DEF Host!Work
<1>32. ASSUME NEW q \in requests, Host!Accept(q) PROVE HostTypes'
  <2> DEFINE r == [q EXCEPT !.active = TRUE]
  <2>1. q \in Host!Request
    OBVIOUS
  <2>2. r \in Host!Request /\ r.from = q.from
    BY <2>1, AcceptedRequest
  <2>3. requests' = (requests \ {q}) \cup {r}
    BY <1>32 DEF Host!Accept
  <2> HIDE DEF r
  <2> QED
    BY <1>32, <2>2, <2>3 DEF Host!Accept
<1>33. ASSUME NEW q \in requests, Host!Handle(q) PROVE HostTypes'
  BY <1>33 DEF Host!Handle
<1> QED
  BY <1>1, <1>2, <1>3, <1>4, <1>5, <1>6, <1>7, <1>8, <1>9, <1>10, <1>11, <1>12, <1>13, <1>14,
     <1>15, <1>16, <1>17, <1>18, <1>19, <1>20, <1>21, <1>22, <1>23, <1>24, <1>25, <1>26, <1>27,
     <1>28, <1>29, <1>30, <1>31, <1>32, <1>33
     DEF Host!Next, Host!ClientStep, Host!HostStep

\* Both locks stay with their holders.
LEMMA LocksStep ==
    ASSUME HostInv, Host!Next
    PROVE  LocksInv'
<1> USE EngineAssumption
        DEF Host!HostAssumption, HostInv, HostTypes, ClientRow, Host!HostStates, Host!Request,
            RequestsInv, LocksInv, Owning, Host!Spend, Host!Goto, Host!Leave, Host!AtRest,
            Host!Found, Host!Live, Host!Answers, Host!Exit, Host!MethodAt, Host!Reply,
            Host!Active, Host!StillIdle, Host!OwnDescriptor, Host!locks, Host!hosts
<1>1. ASSUME NEW c \in Clients, Host!Acquire(c) PROVE LocksInv'
  BY <1>1, Acquired
<1>2. ASSUME NEW c \in Clients, Host!StatusRunning(c) PROVE LocksInv'
  BY <1>2 DEF Host!StatusRunning
<1>3. ASSUME NEW c \in Clients, Host!StatusNotRunning(c) PROVE LocksInv'
  BY <1>3 DEF Host!StatusNotRunning
<1>4. ASSUME NEW c \in Clients, Host!Probe(c) PROVE LocksInv'
  BY <1>4 DEF Host!Probe
<1>5. ASSUME NEW c \in Clients, Host!ProbeEnds(c) PROVE LocksInv'
  BY <1>5 DEF Host!ProbeEnds
<1>6. ASSUME NEW c \in Clients, Host!RemoveStale(c) PROVE LocksInv'
  BY <1>6 DEF Host!RemoveStale
<1>7. ASSUME NEW c \in Clients, Host!LaunchFails(c) PROVE LocksInv'
  BY <1>7 DEF Host!LaunchFails
<1>8. ASSUME NEW c \in Clients, Host!AwaitRunning(c) PROVE LocksInv'
  BY <1>8 DEF Host!AwaitRunning
<1>9. ASSUME NEW c \in Clients, Host!AwaitFails(c) PROVE LocksInv'
  BY <1>9 DEF Host!AwaitFails
<1>10. ASSUME NEW c \in Clients, Host!AwaitInterrupted(c) PROVE LocksInv'
  BY <1>10 DEF Host!AwaitInterrupted
<1>11. ASSUME NEW c \in Clients, Host!Send(c) PROVE LocksInv'
  BY <1>11 DEF Host!Send
<1>12. ASSUME NEW c \in Clients, Host!GiveUp(c) PROVE LocksInv'
  BY <1>12 DEF Host!GiveUp
<1>13. ASSUME NEW c \in Clients, Host!StopSeesEnd(c) PROVE LocksInv'
  BY <1>13 DEF Host!StopSeesEnd
<1>14. ASSUME NEW c \in Clients, Host!StopTimesOut(c) PROVE LocksInv'
  BY <1>14 DEF Host!StopTimesOut
<1>15. ASSUME NEW c \in Clients, Host!Return(c) PROVE LocksInv'
  BY <1>15 DEF Host!Return
<1>16. ASSUME NEW c \in Clients, NEW h \in Hosts, Host!Launch(c, h) PROVE LocksInv'
  BY <1>16 DEF Host!Launch
<1>17. ASSUME NEW h \in Hosts, Host!Start(h) PROVE LocksInv'
  BY <1>17 DEF Host!Start
<1>18. ASSUME NEW h \in Hosts, Host!Publish(h) PROVE LocksInv'
  BY <1>18 DEF Host!Publish
<1>19. ASSUME NEW h \in Hosts, Host!Reconcile(h) PROVE LocksInv'
  BY <1>19 DEF Host!Reconcile
<1>20. ASSUME NEW h \in Hosts, Host!IdleSees(h) PROVE LocksInv'
  BY <1>20 DEF Host!IdleSees
<1>21. ASSUME NEW h \in Hosts, Host!IdleLock(h) PROVE LocksInv'
  BY <1>21 DEF Host!IdleLock
<1>22. ASSUME NEW h \in Hosts, Host!IdleDecides(h) PROVE LocksInv'
  BY <1>22 DEF Host!IdleDecides
<1>23. ASSUME NEW h \in Hosts, Host!IdleReconcileFails(h) PROVE LocksInv'
  BY <1>23 DEF Host!IdleReconcileFails
<1>24. ASSUME NEW h \in Hosts, Host!GracefulEnd(h) PROVE LocksInv'
  BY <1>24 DEF Host!GracefulEnd
<1>25. ASSUME NEW h \in Hosts, Host!Unpublish(h) PROVE LocksInv'
  BY <1>25 DEF Host!Unpublish
<1>26. ASSUME NEW h \in Hosts, Host!UnlockLifetime(h) PROVE LocksInv'
  BY <1>26 DEF Host!UnlockLifetime
<1>27. ASSUME NEW h \in Hosts, Host!UnlockLaunch(h) PROVE LocksInv'
  BY <1>27 DEF Host!UnlockLaunch
<1>28. ASSUME NEW h \in Hosts, Host!IdleTimePasses(h) PROVE LocksInv'
  BY <1>28 DEF Host!IdleTimePasses
<1>29. ASSUME NEW h \in Hosts, Host!Kill(h) PROVE LocksInv'
  BY <1>29 DEF Host!Kill
<1>30. ASSUME NEW h \in Hosts, Host!Forget(h) PROVE LocksInv'
  BY <1>30 DEF Host!Forget
<1>31. ASSUME NEW h \in Hosts, NEW j \in HostJobs, Host!Work(h, j) PROVE LocksInv'
  BY <1>31 DEF Host!Work
<1>32. ASSUME NEW q \in requests, Host!Accept(q) PROVE LocksInv'
  BY <1>32 DEF Host!Accept
<1>33. ASSUME NEW q \in requests, Host!Handle(q) PROVE LocksInv'
  BY <1>33 DEF Host!Handle
<1> QED
  BY <1>1, <1>2, <1>3, <1>4, <1>5, <1>6, <1>7, <1>8, <1>9, <1>10, <1>11, <1>12, <1>13, <1>14,
     <1>15, <1>16, <1>17, <1>18, <1>19, <1>20, <1>21, <1>22, <1>23, <1>24, <1>25, <1>26, <1>27,
     <1>28, <1>29, <1>30, <1>31, <1>32, <1>33
     DEF Host!Next, Host!ClientStep, Host!HostStep

\* A client that waits has one request.
LEMMA RequestsStep ==
    ASSUME HostInv, Host!Next
    PROVE  RequestsInv'
<1> USE EngineAssumption
        DEF Host!HostAssumption, HostInv, HostTypes, ClientRow, Host!Request, RequestsInv,
            LocksInv, Host!Spend, Host!Goto, Host!Leave, Host!AtRest, Host!Found, Host!Live,
            Host!Answers, Host!Exit, Host!MethodAt, Host!Reply, Host!Active, Host!StillIdle,
            Host!OwnDescriptor, Host!locks, Host!hosts
<1>1. ASSUME NEW c \in Clients, Host!Acquire(c) PROVE RequestsInv'
  BY <1>1 DEF Host!Acquire
<1>2. ASSUME NEW c \in Clients, Host!StatusRunning(c) PROVE RequestsInv'
  BY <1>2 DEF Host!StatusRunning
<1>3. ASSUME NEW c \in Clients, Host!StatusNotRunning(c) PROVE RequestsInv'
  BY <1>3 DEF Host!StatusNotRunning
<1>4. ASSUME NEW c \in Clients, Host!Probe(c) PROVE RequestsInv'
  BY <1>4 DEF Host!Probe
<1>5. ASSUME NEW c \in Clients, Host!ProbeEnds(c) PROVE RequestsInv'
  BY <1>5 DEF Host!ProbeEnds
<1>6. ASSUME NEW c \in Clients, Host!RemoveStale(c) PROVE RequestsInv'
  BY <1>6 DEF Host!RemoveStale
<1>7. ASSUME NEW c \in Clients, Host!LaunchFails(c) PROVE RequestsInv'
  BY <1>7 DEF Host!LaunchFails
<1>8. ASSUME NEW c \in Clients, Host!AwaitRunning(c) PROVE RequestsInv'
  BY <1>8 DEF Host!AwaitRunning
<1>9. ASSUME NEW c \in Clients, Host!AwaitFails(c) PROVE RequestsInv'
  BY <1>9 DEF Host!AwaitFails
<1>10. ASSUME NEW c \in Clients, Host!AwaitInterrupted(c) PROVE RequestsInv'
  BY <1>10 DEF Host!AwaitInterrupted
<1>11. ASSUME NEW c \in Clients, Host!Send(c) PROVE RequestsInv'
  BY <1>11, Sent DEF Host!Send
<1>12. ASSUME NEW c \in Clients, Host!GiveUp(c) PROVE RequestsInv'
  BY <1>12 DEF Host!GiveUp
<1>13. ASSUME NEW c \in Clients, Host!StopSeesEnd(c) PROVE RequestsInv'
  BY <1>13 DEF Host!StopSeesEnd
<1>14. ASSUME NEW c \in Clients, Host!StopTimesOut(c) PROVE RequestsInv'
  BY <1>14 DEF Host!StopTimesOut
<1>15. ASSUME NEW c \in Clients, Host!Return(c) PROVE RequestsInv'
  BY <1>15 DEF Host!Return
<1>16. ASSUME NEW c \in Clients, NEW h \in Hosts, Host!Launch(c, h) PROVE RequestsInv'
  BY <1>16 DEF Host!Launch
<1>17. ASSUME NEW h \in Hosts, Host!Start(h) PROVE RequestsInv'
  BY <1>17 DEF Host!Start
<1>18. ASSUME NEW h \in Hosts, Host!Publish(h) PROVE RequestsInv'
  BY <1>18 DEF Host!Publish
<1>19. ASSUME NEW h \in Hosts, Host!Reconcile(h) PROVE RequestsInv'
  BY <1>19 DEF Host!Reconcile
<1>20. ASSUME NEW h \in Hosts, Host!IdleSees(h) PROVE RequestsInv'
  BY <1>20 DEF Host!IdleSees
<1>21. ASSUME NEW h \in Hosts, Host!IdleLock(h) PROVE RequestsInv'
  BY <1>21 DEF Host!IdleLock
<1>22. ASSUME NEW h \in Hosts, Host!IdleDecides(h) PROVE RequestsInv'
  BY <1>22 DEF Host!IdleDecides
<1>23. ASSUME NEW h \in Hosts, Host!IdleReconcileFails(h) PROVE RequestsInv'
  BY <1>23 DEF Host!IdleReconcileFails
<1>24. ASSUME NEW h \in Hosts, Host!GracefulEnd(h) PROVE RequestsInv'
  BY <1>24 DEF Host!GracefulEnd
<1>25. ASSUME NEW h \in Hosts, Host!Unpublish(h) PROVE RequestsInv'
  BY <1>25 DEF Host!Unpublish
<1>26. ASSUME NEW h \in Hosts, Host!UnlockLifetime(h) PROVE RequestsInv'
  BY <1>26 DEF Host!UnlockLifetime
<1>27. ASSUME NEW h \in Hosts, Host!UnlockLaunch(h) PROVE RequestsInv'
  BY <1>27 DEF Host!UnlockLaunch
<1>28. ASSUME NEW h \in Hosts, Host!IdleTimePasses(h) PROVE RequestsInv'
  BY <1>28 DEF Host!IdleTimePasses
<1>29. ASSUME NEW h \in Hosts, Host!Kill(h) PROVE RequestsInv'
  BY <1>29 DEF Host!Kill
<1>30. ASSUME NEW h \in Hosts, Host!Forget(h) PROVE RequestsInv'
  BY <1>30 DEF Host!Forget
<1>31. ASSUME NEW h \in Hosts, NEW j \in HostJobs, Host!Work(h, j) PROVE RequestsInv'
  BY <1>31 DEF Host!Work
<1>32. ASSUME NEW q \in requests, Host!Accept(q) PROVE RequestsInv'
  <2> DEFINE r == [q EXCEPT !.active = TRUE]
  <2>1. q \in Host!Request
    OBVIOUS
  <2>2. r \in Host!Request /\ r.from = q.from
    BY <2>1, AcceptedRequest
  <2>3. requests' = (requests \ {q}) \cup {r}
    BY <1>32 DEF Host!Accept
  <2> HIDE DEF r
  <2> QED
    BY <1>32, <2>2, <2>3 DEF Host!Accept
<1>33. ASSUME NEW q \in requests, Host!Handle(q) PROVE RequestsInv'
  BY <1>33 DEF Host!Handle
<1> QED
  BY <1>1, <1>2, <1>3, <1>4, <1>5, <1>6, <1>7, <1>8, <1>9, <1>10, <1>11, <1>12, <1>13, <1>14,
     <1>15, <1>16, <1>17, <1>18, <1>19, <1>20, <1>21, <1>22, <1>23, <1>24, <1>25, <1>26, <1>27,
     <1>28, <1>29, <1>30, <1>31, <1>32, <1>33
     DEF Host!Next, Host!ClientStep, Host!HostStep

\* A host that leaves has let go of every Job.
LEMMA LeavingStep ==
    ASSUME HostInv, Host!Next
    PROVE  LeavingInv'
<1> USE EngineAssumption
        DEF Host!HostAssumption, HostInv, HostTypes, Host!HostStates, LeavingInv, LocksInv,
            Host!Request, Host!Spend, Host!Goto, Host!Leave, Host!AtRest, Host!Found, Host!Live,
            Host!Answers, Host!Exit, Host!MethodAt, Host!Reply, Host!Active, Host!StillIdle,
            Host!OwnDescriptor, Host!locks, Host!hosts
<1>1. ASSUME NEW c \in Clients, Host!Acquire(c) PROVE LeavingInv'
  BY <1>1 DEF Host!Acquire
<1>2. ASSUME NEW c \in Clients, Host!StatusRunning(c) PROVE LeavingInv'
  BY <1>2 DEF Host!StatusRunning
<1>3. ASSUME NEW c \in Clients, Host!StatusNotRunning(c) PROVE LeavingInv'
  BY <1>3 DEF Host!StatusNotRunning
<1>4. ASSUME NEW c \in Clients, Host!Probe(c) PROVE LeavingInv'
  BY <1>4 DEF Host!Probe
<1>5. ASSUME NEW c \in Clients, Host!ProbeEnds(c) PROVE LeavingInv'
  BY <1>5 DEF Host!ProbeEnds
<1>6. ASSUME NEW c \in Clients, Host!RemoveStale(c) PROVE LeavingInv'
  BY <1>6 DEF Host!RemoveStale
<1>7. ASSUME NEW c \in Clients, Host!LaunchFails(c) PROVE LeavingInv'
  BY <1>7 DEF Host!LaunchFails
<1>8. ASSUME NEW c \in Clients, Host!AwaitRunning(c) PROVE LeavingInv'
  BY <1>8 DEF Host!AwaitRunning
<1>9. ASSUME NEW c \in Clients, Host!AwaitFails(c) PROVE LeavingInv'
  BY <1>9 DEF Host!AwaitFails
<1>10. ASSUME NEW c \in Clients, Host!AwaitInterrupted(c) PROVE LeavingInv'
  BY <1>10 DEF Host!AwaitInterrupted
<1>11. ASSUME NEW c \in Clients, Host!Send(c) PROVE LeavingInv'
  BY <1>11 DEF Host!Send
<1>12. ASSUME NEW c \in Clients, Host!GiveUp(c) PROVE LeavingInv'
  BY <1>12 DEF Host!GiveUp
<1>13. ASSUME NEW c \in Clients, Host!StopSeesEnd(c) PROVE LeavingInv'
  BY <1>13 DEF Host!StopSeesEnd
<1>14. ASSUME NEW c \in Clients, Host!StopTimesOut(c) PROVE LeavingInv'
  BY <1>14 DEF Host!StopTimesOut
<1>15. ASSUME NEW c \in Clients, Host!Return(c) PROVE LeavingInv'
  BY <1>15 DEF Host!Return
<1>16. ASSUME NEW c \in Clients, NEW h \in Hosts, Host!Launch(c, h) PROVE LeavingInv'
  BY <1>16 DEF Host!Launch
<1>17. ASSUME NEW h \in Hosts, Host!Start(h) PROVE LeavingInv'
  BY <1>17 DEF Host!Start
<1>18. ASSUME NEW h \in Hosts, Host!Publish(h) PROVE LeavingInv'
  BY <1>18 DEF Host!Publish
<1>19. ASSUME NEW h \in Hosts, Host!Reconcile(h) PROVE LeavingInv'
  BY <1>19 DEF Host!Reconcile
<1>20. ASSUME NEW h \in Hosts, Host!IdleSees(h) PROVE LeavingInv'
  BY <1>20 DEF Host!IdleSees
<1>21. ASSUME NEW h \in Hosts, Host!IdleLock(h) PROVE LeavingInv'
  BY <1>21 DEF Host!IdleLock
<1>22. ASSUME NEW h \in Hosts, Host!IdleDecides(h) PROVE LeavingInv'
  BY <1>22 DEF Host!IdleDecides
<1>23. ASSUME NEW h \in Hosts, Host!IdleReconcileFails(h) PROVE LeavingInv'
  BY <1>23 DEF Host!IdleReconcileFails
<1>24. ASSUME NEW h \in Hosts, Host!GracefulEnd(h) PROVE LeavingInv'
  BY <1>24 DEF Host!GracefulEnd
<1>25. ASSUME NEW h \in Hosts, Host!Unpublish(h) PROVE LeavingInv'
  BY <1>25 DEF Host!Unpublish
<1>26. ASSUME NEW h \in Hosts, Host!UnlockLifetime(h) PROVE LeavingInv'
  BY <1>26 DEF Host!UnlockLifetime
<1>27. ASSUME NEW h \in Hosts, Host!UnlockLaunch(h) PROVE LeavingInv'
  BY <1>27 DEF Host!UnlockLaunch
<1>28. ASSUME NEW h \in Hosts, Host!IdleTimePasses(h) PROVE LeavingInv'
  BY <1>28 DEF Host!IdleTimePasses
<1>29. ASSUME NEW h \in Hosts, Host!Kill(h) PROVE LeavingInv'
  BY <1>29 DEF Host!Kill
<1>30. ASSUME NEW h \in Hosts, Host!Forget(h) PROVE LeavingInv'
  BY <1>30 DEF Host!Forget
<1>31. ASSUME NEW h \in Hosts, NEW j \in HostJobs, Host!Work(h, j) PROVE LeavingInv'
  BY <1>31 DEF Host!Work
<1>32. ASSUME NEW q \in requests, Host!Accept(q) PROVE LeavingInv'
  BY <1>32 DEF Host!Accept
<1>33. ASSUME NEW q \in requests, Host!Handle(q) PROVE LeavingInv'
  BY <1>33 DEF Host!Handle
<1> QED
  BY <1>1, <1>2, <1>3, <1>4, <1>5, <1>6, <1>7, <1>8, <1>9, <1>10, <1>11, <1>12, <1>13, <1>14,
     <1>15, <1>16, <1>17, <1>18, <1>19, <1>20, <1>21, <1>22, <1>23, <1>24, <1>25, <1>26, <1>27,
     <1>28, <1>29, <1>30, <1>31, <1>32, <1>33
     DEF Host!Next, Host!ClientStep, Host!HostStep

\* The descriptor follows the host that serves.
LEMMA FoundStep ==
    ASSUME HostInv, Host!Next
    PROVE  FoundInv'
<1> USE EngineAssumption
        DEF Host!HostAssumption, HostInv, HostTypes, ClientRow, Host!HostStates, LocksInv,
            RequestsInv, FoundInv, Owning, Host!Request, Host!Spend, Host!Goto, Host!Leave,
            Host!AtRest, Host!Found, Host!Live, Host!Answers, Host!Exit, Host!MethodAt,
            Host!Reply, Host!Active, Host!StillIdle, Host!OwnDescriptor, Host!locks, Host!hosts
<1>1. ASSUME NEW c \in Clients, Host!Acquire(c) PROVE FoundInv'
  BY <1>1, Acquired
<1>2. ASSUME NEW c \in Clients, Host!StatusRunning(c) PROVE FoundInv'
  BY <1>2 DEF Host!StatusRunning
<1>3. ASSUME NEW c \in Clients, Host!StatusNotRunning(c) PROVE FoundInv'
  BY <1>3 DEF Host!StatusNotRunning
<1>4. ASSUME NEW c \in Clients, Host!Probe(c) PROVE FoundInv'
  BY <1>4 DEF Host!Probe
<1>5. ASSUME NEW c \in Clients, Host!ProbeEnds(c) PROVE FoundInv'
  BY <1>5 DEF Host!ProbeEnds
<1>6. ASSUME NEW c \in Clients, Host!RemoveStale(c) PROVE FoundInv'
  BY <1>6 DEF Host!RemoveStale
<1>7. ASSUME NEW c \in Clients, Host!LaunchFails(c) PROVE FoundInv'
  BY <1>7 DEF Host!LaunchFails
<1>8. ASSUME NEW c \in Clients, Host!AwaitRunning(c) PROVE FoundInv'
  BY <1>8 DEF Host!AwaitRunning
<1>9. ASSUME NEW c \in Clients, Host!AwaitFails(c) PROVE FoundInv'
  BY <1>9 DEF Host!AwaitFails
<1>10. ASSUME NEW c \in Clients, Host!AwaitInterrupted(c) PROVE FoundInv'
  BY <1>10 DEF Host!AwaitInterrupted
<1>11. ASSUME NEW c \in Clients, Host!Send(c) PROVE FoundInv'
  BY <1>11 DEF Host!Send
<1>12. ASSUME NEW c \in Clients, Host!GiveUp(c) PROVE FoundInv'
  BY <1>12 DEF Host!GiveUp
<1>13. ASSUME NEW c \in Clients, Host!StopSeesEnd(c) PROVE FoundInv'
  BY <1>13 DEF Host!StopSeesEnd
<1>14. ASSUME NEW c \in Clients, Host!StopTimesOut(c) PROVE FoundInv'
  BY <1>14 DEF Host!StopTimesOut
<1>15. ASSUME NEW c \in Clients, Host!Return(c) PROVE FoundInv'
  BY <1>15 DEF Host!Return
<1>16. ASSUME NEW c \in Clients, NEW h \in Hosts, Host!Launch(c, h) PROVE FoundInv'
  BY <1>16 DEF Host!Launch
<1>17. ASSUME NEW h \in Hosts, Host!Start(h) PROVE FoundInv'
  BY <1>17 DEF Host!Start
<1>18. ASSUME NEW h \in Hosts, Host!Publish(h) PROVE FoundInv'
  BY <1>18 DEF Host!Publish
<1>19. ASSUME NEW h \in Hosts, Host!Reconcile(h) PROVE FoundInv'
  BY <1>19 DEF Host!Reconcile
<1>20. ASSUME NEW h \in Hosts, Host!IdleSees(h) PROVE FoundInv'
  BY <1>20 DEF Host!IdleSees
<1>21. ASSUME NEW h \in Hosts, Host!IdleLock(h) PROVE FoundInv'
  BY <1>21 DEF Host!IdleLock
<1>22. ASSUME NEW h \in Hosts, Host!IdleDecides(h) PROVE FoundInv'
  BY <1>22 DEF Host!IdleDecides
<1>23. ASSUME NEW h \in Hosts, Host!IdleReconcileFails(h) PROVE FoundInv'
  BY <1>23 DEF Host!IdleReconcileFails
<1>24. ASSUME NEW h \in Hosts, Host!GracefulEnd(h) PROVE FoundInv'
  BY <1>24 DEF Host!GracefulEnd
<1>25. ASSUME NEW h \in Hosts, Host!Unpublish(h) PROVE FoundInv'
  BY <1>25 DEF Host!Unpublish
<1>26. ASSUME NEW h \in Hosts, Host!UnlockLifetime(h) PROVE FoundInv'
  BY <1>26 DEF Host!UnlockLifetime
<1>27. ASSUME NEW h \in Hosts, Host!UnlockLaunch(h) PROVE FoundInv'
  BY <1>27 DEF Host!UnlockLaunch
<1>28. ASSUME NEW h \in Hosts, Host!IdleTimePasses(h) PROVE FoundInv'
  BY <1>28 DEF Host!IdleTimePasses
<1>29. ASSUME NEW h \in Hosts, Host!Kill(h) PROVE FoundInv'
  BY <1>29 DEF Host!Kill
<1>30. ASSUME NEW h \in Hosts, Host!Forget(h) PROVE FoundInv'
  BY <1>30 DEF Host!Forget
<1>31. ASSUME NEW h \in Hosts, NEW j \in HostJobs, Host!Work(h, j) PROVE FoundInv'
  BY <1>31 DEF Host!Work
<1>32. ASSUME NEW q \in requests, Host!Accept(q) PROVE FoundInv'
  BY <1>32 DEF Host!Accept
<1>33. ASSUME NEW q \in requests, Host!Handle(q) PROVE FoundInv'
  BY <1>33 DEF Host!Handle
<1> QED
  BY <1>1, <1>2, <1>3, <1>4, <1>5, <1>6, <1>7, <1>8, <1>9, <1>10, <1>11, <1>12, <1>13, <1>14,
     <1>15, <1>16, <1>17, <1>18, <1>19, <1>20, <1>21, <1>22, <1>23, <1>24, <1>25, <1>26, <1>27,
     <1>28, <1>29, <1>30, <1>31, <1>32, <1>33
     DEF Host!Next, Host!ClientStep, Host!HostStep

-----------------------------------------------------------------------------
(* EngineHost: the theorems.                                               *)

\* The invariant of the hosts and their clients.
THEOREM HostInvariant == Host!Spec => []HostInv
<1>1. Host!Init => HostInv
  BY EngineAssumption
     DEF Host!Init, HostInv, HostTypes, LocksInv, RequestsInv, LeavingInv, FoundInv, Owning,
         ClientRow, Places, Contacting, Host!AtRest, Host!HostStates, Host!Request,
         Host!HostAssumption, Host!Answers
<1>2. HostInv /\ [Host!Next]_Host!vars => HostInv'
  <2>1. CASE Host!Next
    BY <2>1, HostTypesStep, LocksStep, RequestsStep, LeavingStep, FoundStep DEF HostInv
  <2>2. CASE UNCHANGED Host!vars
    BY <2>2
       DEF Host!vars, Host!locks, Host!hosts, HostInv, HostTypes, LocksInv, RequestsInv,
           LeavingInv, FoundInv, Host!Answers
  <2> QED
    BY <2>1, <2>2
<1> QED
  BY <1>1, <1>2, PTL DEF Host!Spec

\* Unless a client was interrupted while it waited for the engine it launched, an engine
\* that serves is the one its descriptor names, whatever process is killed.
THEOREM ServingEngineIsFoundHolds == Host!Spec => []ServingEngineIsFound
<1>1. HostInv => ServingEngineIsFound
  BY DEF HostInv, FoundInv, ServingEngineIsFound, Host!ServingEngineIsFound
<1> QED
  BY <1>1, HostInvariant, PTL

\* A host lets go of a Job it accepted only when the Job is done, a stop was asked for or
\* the host was killed.
THEOREM AcceptedJobsAreKeptHolds == Host!Spec => AcceptedJobsAreKept
<1> DEFINE Kept == \A h \in Hosts : \A j \in accepted[h] \ accepted'[h] :
                      \/ j \notin queued'
                      \/ h \in asked'
                      \/ host'[h] = "exited" /\ host[h] # "unlocked"
<1>1. HostInv /\ [Host!Next]_Host!vars => [Kept]_Host!vars
  <2> SUFFICES ASSUME HostInv, Host!Next PROVE Kept
    OBVIOUS
  <2> USE DEF HostInv, HostTypes, LeavingInv, Host!HostStates, Host!Exit
  <2>1. ASSUME UNCHANGED accepted PROVE Kept
    BY <2>1
  <2>2. ASSUME NEW h \in Hosts, Host!Exit(h), host[h] # "unlocked" \/ accepted[h] = {}
        PROVE  Kept
    BY <2>2
  <2>3. ASSUME NEW c \in Clients, Host!AwaitFails(c) PROVE Kept
    BY <2>2, <2>3 DEF Host!AwaitFails, Contacting
  <2>4. ASSUME NEW h \in Hosts, Host!UnlockLaunch(h) \/ Host!Kill(h) PROVE Kept
    BY <2>2, <2>4 DEF Host!UnlockLaunch, Host!Kill
  <2>5. ASSUME NEW h \in Hosts, Host!Reconcile(h) PROVE Kept
    BY <2>5 DEF Host!Reconcile, Host!hosts
  <2>6. ASSUME NEW h \in Hosts, Host!IdleDecides(h) PROVE Kept
    BY <2>6 DEF Host!IdleDecides, Host!StillIdle
  <2>7. ASSUME NEW h \in Hosts, NEW j \in HostJobs, Host!Work(h, j) PROVE Kept
    BY <2>7 DEF Host!Work
  <2>8. ASSUME NEW q \in requests, Host!Handle(q) PROVE Kept
    <3> DEFINE h == q.to
    <3>1. h \in Hosts
      BY DEF Host!Request
    <3>2. CASE q.method = "hello"
      BY <2>1, <2>8, <3>2 DEF Host!Handle
    <3>3. CASE q.method = "job.notify"
      <4>1. \A g \in Hosts : accepted[g] \subseteq accepted'[g]
        BY <2>8, <3>1, <3>3 DEF Host!Handle
      <4> QED
        BY <4>1
    <3>4. CASE q.method = "shutdown"
      <4>1. /\ h \in asked'
            /\ \A g \in Hosts : g # h => accepted'[g] = accepted[g]
        BY <2>8, <3>1, <3>4 DEF Host!Handle
      <4> QED
        BY <4>1
    <3> QED
      BY <3>2, <3>3, <3>4 DEF Host!Request
  <2>9. CASE UNCHANGED accepted
    BY <2>1, <2>9
  <2> QED
    BY <2>1, <2>3, <2>4, <2>5, <2>6, <2>7, <2>8
       DEF Host!Next, Host!ClientStep, Host!HostStep, Host!hosts, Host!Acquire,
           Host!StatusRunning, Host!StatusNotRunning, Host!Probe, Host!ProbeEnds,
           Host!RemoveStale, Host!LaunchFails, Host!Launch, Host!AwaitRunning,
           Host!AwaitInterrupted, Host!Send, Host!GiveUp, Host!StopSeesEnd,
           Host!StopTimesOut, Host!Return, Host!Start, Host!Publish, Host!IdleSees,
           Host!IdleLock, Host!IdleReconcileFails, Host!GracefulEnd, Host!Unpublish,
           Host!UnlockLifetime, Host!IdleTimePasses, Host!Forget, Host!Accept
<1> QED
  BY <1>1, HostInvariant, PTL DEF Host!Spec, AcceptedJobsAreKept, Host!AcceptedJobsAreKept

-----------------------------------------------------------------------------
(* EngineDispatcher: the inductive invariant of the launch budget.         *)

Phase == {"none", "launch", "run", "settle", "finish"}

WorkerRow == [phase : Phase, count : Nat, done : BOOLEAN, controlled : BOOLEAN, clean : BOOLEAN]

DispatcherTypes ==
    /\ launches \in [DispatcherJobs -> Nat]
    /\ worker \in [DispatcherJobs -> WorkerRow]
    /\ loop = [at |-> loop.at, ref |-> loop.ref]
    /\ pending \in Seq(known)

\* A reference waits once, and never while it is active.
QueueInv ==
    /\ active \subseteq known
    /\ \A i \in 1 .. Len(pending) : pending[i] \notin active
    /\ \A i, k \in 1 .. Len(pending) : i # k => pending[i] # pending[k]

\* The dispatcher thread has its reference in hand, up to the claim.
InHand(j) == loop.at \in {"admit", "claim"} /\ loop.ref = j

\* An active reference has one thread behind it.
OneThreadInv ==
    /\ loop.at \in {"admit", "claim"} => loop.ref \in active
    /\ \A j \in DispatcherJobs : worker[j].phase # "none" => j \in active /\ ~InHand(j)

\* A launch that will be recorded is within the budget.
BudgetInv ==
    \A j \in DispatcherJobs :
        /\ launches[j] <= MaxLaunches
        /\ worker[j].phase = "launch" \/ (loop.at = "claim" /\ loop.ref = j) =>
               launches[j] < MaxLaunches

DispatcherInv == DispatcherTypes /\ QueueInv /\ OneThreadInv /\ BudgetInv

\* What the invariant is about.
budgeted == <<launches, pending, known, active, worker, loop>>

\* A step that leaves all of it alone.
LEMMA Unmoved == DispatcherInv /\ UNCHANGED budgeted => DispatcherInv'
BY DEF budgeted, DispatcherInv, DispatcherTypes, QueueInv, OneThreadInv, InHand, BudgetInv

\* The thread that moves on without a reference.
LEMMA LoopMoved ==
    ASSUME DispatcherInv, UNCHANGED <<launches, pending, known, active, worker>>,
           \/ loop' = loop
           \/ \E at \in {"top", "next", "reconcile", "joining", "dead"} :
                 loop' = [loop EXCEPT !.at = at]
    PROVE  DispatcherInv'
BY DEF DispatcherInv, DispatcherTypes, QueueInv, OneThreadInv, InHand, BudgetInv

\* A sequence of elements of T.
LEMMA SeqOver ==
    ASSUME NEW S, NEW T, NEW s \in Seq(S), \A i \in 1 .. Len(s) : s[i] \in T
    PROVE  s \in Seq(T)
OBVIOUS

\* A reference that is not known is queued.
LEMMA Enqueued ==
    ASSUME DispatcherInv, NEW j, Dispatcher!Accepts(j), Dispatcher!Enqueue(j),
           UNCHANGED <<launches, active, worker, loop>>
    PROVE  DispatcherInv'
<1>1. j \notin known /\ known' = known \cup {j} /\ pending' = Append(pending, j)
  BY DEF Dispatcher!Accepts, Dispatcher!Enqueue
<1>2. pending \in Seq(known \cup {j})
  BY SeqOver DEF DispatcherInv, DispatcherTypes
<1>3. /\ pending' \in Seq(known') /\ Len(pending') = Len(pending) + 1
      /\ pending'[Len(pending) + 1] = j
      /\ \A i \in 1 .. Len(pending) : pending'[i] = pending[i] /\ pending[i] \in known
  BY <1>1, <1>2 DEF DispatcherInv, DispatcherTypes
<1>4. QueueInv'
  BY <1>1, <1>2, <1>3 DEF DispatcherInv, QueueInv
<1> QED
  BY <1>1, <1>3, <1>4 DEF DispatcherInv, DispatcherTypes, OneThreadInv, InHand, BudgetInv

\* _finish_reference: what is queued stays known.
LEMMA Finished ==
    ASSUME DispatcherInv, NEW j \in active, NEW b, Dispatcher!Finish(j, b), UNCHANGED pending
    PROVE  /\ pending' \in Seq(known') /\ QueueInv'
           /\ active' = active \ {j}
<1>1. known' = known \ {j} /\ active' = active \ {j}
  BY DEF Dispatcher!Finish
<1>2. \A i \in 1 .. Len(pending) : pending[i] \in known \ {j}
  BY DEF DispatcherInv, DispatcherTypes, QueueInv
<1>3. pending \in Seq(known \ {j})
  BY <1>2, SeqOver DEF DispatcherInv, DispatcherTypes
<1> QED
  BY <1>1, <1>3 DEF DispatcherInv, QueueInv

\* The budget allows one launch.
LEMMA LaunchBound == MaxLaunches \in Nat \ {0}
BY EngineAssumption DEF Dispatcher!DispatcherAssumption

\* The dispatcher thread drops the reference it has in hand.
LEMMA Dropped ==
    ASSUME DispatcherInv, NEW b, Dispatcher!Drop(b), loop.at \in {"admit", "claim"},
           UNCHANGED <<pending, worker>>,
           launches' \in [DispatcherJobs -> Nat],
           \A j \in DispatcherJobs : launches'[j] = launches[j] \/ launches'[j] = 0
    PROVE  DispatcherInv'
<1>1. /\ pending' \in Seq(known') /\ QueueInv' /\ active' = active \ {loop.ref}
      /\ loop' = [at |-> "top", ref |-> 0]
  BY Finished DEF Dispatcher!Drop, DispatcherInv, OneThreadInv
<1>2. OneThreadInv'
  BY <1>1 DEF DispatcherInv, OneThreadInv, InHand
<1>3. BudgetInv'
  <2> SUFFICES ASSUME NEW j \in DispatcherJobs
               PROVE  launches'[j] <= MaxLaunches
                      /\ (worker[j].phase = "launch" => launches'[j] < MaxLaunches)
    BY <1>1 DEF BudgetInv
  <2>1. launches[j] <= MaxLaunches /\ (worker[j].phase = "launch" => launches[j] < MaxLaunches)
    BY DEF DispatcherInv, BudgetInv
  <2>2. launches'[j] = launches[j] \/ launches'[j] = 0
    OBVIOUS
  <2> QED
    BY <2>1, <2>2, LaunchBound
<1> QED
  BY <1>1, <1>2, <1>3 DEF DispatcherInv, DispatcherTypes

\* A worker moves on, its reference stays active.
LEMMA WorkerMoved ==
    ASSUME DispatcherInv, NEW j \in DispatcherJobs, UNCHANGED <<pending, known, active, loop>>,
           worker[j].phase # "none", worker'[j].phase \in Phase \ {"none", "launch"},
           worker' \in [DispatcherJobs -> WorkerRow],
           \A k \in DispatcherJobs : k # j => worker'[k] = worker[k],
           launches' \in [DispatcherJobs -> Nat],
           \A k \in DispatcherJobs :
               \/ launches'[k] \in {launches[k], 0}
               \/ k = j /\ worker[j].phase = "launch" /\ launches'[j] = launches[j] + 1
    PROVE  DispatcherInv'
<1>1. OneThreadInv' /\ QueueInv'
  BY DEF DispatcherInv, OneThreadInv, InHand, QueueInv, Phase
<1>2. BudgetInv'
  <2> SUFFICES ASSUME NEW k \in DispatcherJobs
               PROVE  /\ launches'[k] <= MaxLaunches
                      /\ ((worker'[k].phase = "launch" \/ (loop.at = "claim" /\ loop.ref = k))
                            => launches'[k] < MaxLaunches)
    BY DEF BudgetInv
  <2>1. /\ launches[k] \in Nat /\ launches[k] <= MaxLaunches
        /\ ((worker[k].phase = "launch" \/ (loop.at = "claim" /\ loop.ref = k))
              => launches[k] < MaxLaunches)
    BY DEF DispatcherInv, DispatcherTypes, BudgetInv
  <2>2. worker'[k].phase = "launch" => k # j /\ worker[k].phase = "launch"
    OBVIOUS
  <2>3. k = j => ~(loop.at = "claim" /\ loop.ref = k)
    BY DEF DispatcherInv, OneThreadInv, InHand
  <2>4. CASE launches'[k] = launches[k] \/ launches'[k] = 0
    BY <2>1, <2>2, <2>4, LaunchBound
  <2>5. CASE k = j /\ worker[j].phase = "launch" /\ launches'[j] = launches[j] + 1
    BY <2>1, <2>2, <2>3, <2>5, LaunchBound
  <2> QED
    BY <2>4, <2>5
<1> QED
  BY <1>1, <1>2 DEF DispatcherInv, DispatcherTypes

\* _next_reference: the head of the queue becomes active.
LEMMA Taken == ASSUME DispatcherInv, Dispatcher!TakeReference PROVE DispatcherInv'
<1> USE DEF DispatcherInv, DispatcherTypes
<1>1. /\ pending # <<>> /\ pending' = Tail(pending) /\ active' = active \cup {Head(pending)}
      /\ loop' = [at |-> "admit", ref |-> Head(pending)]
      /\ UNCHANGED <<launches, known, worker>>
  BY DEF Dispatcher!TakeReference, Dispatcher!durable
<1>2. /\ Head(pending) = pending[1] /\ Len(pending) \in Nat \ {0}
      /\ Len(pending') = Len(pending) - 1 /\ pending' \in Seq(known)
      /\ \A i \in 1 .. Len(pending') : pending'[i] = pending[i + 1] /\ i + 1 \in 1 .. Len(pending)
  BY <1>1
<1>3. pending[1] \in known /\ pending[1] \notin active
      /\ \A i \in 1 .. Len(pending') : pending[i + 1] \notin active \cup {pending[1]}
  <2>1. 1 \in 1 .. Len(pending)
    BY <1>2
  <2>2. \A i \in 1 .. Len(pending') : i + 1 \in 1 .. Len(pending) /\ i + 1 # 1
    BY <1>2
  <2> QED
    BY <2>1, <2>2 DEF QueueInv
<1>4. QueueInv'
  <2>1. \A i, k \in 1 .. Len(pending') : i # k => pending'[i] # pending'[k]
    <3> SUFFICES ASSUME NEW i \in 1 .. Len(pending'), NEW k \in 1 .. Len(pending'), i # k
                 PROVE  pending'[i] # pending'[k]
      OBVIOUS
    <3>1. i + 1 \in 1 .. Len(pending) /\ k + 1 \in 1 .. Len(pending) /\ i + 1 # k + 1
      BY <1>2
    <3> QED
      BY <1>2, <3>1 DEF QueueInv
  <2>2. \A i \in 1 .. Len(pending') : pending'[i] \notin active'
    BY <1>1, <1>2, <1>3
  <2>3. active' \subseteq known'
    BY <1>1, <1>2, <1>3 DEF QueueInv
  <2> QED
    BY <2>1, <2>2, <2>3 DEF QueueInv
<1>5. OneThreadInv'
  BY <1>1, <1>2, <1>3 DEF OneThreadInv, InHand
<1>6. BudgetInv'
  BY <1>1 DEF BudgetInv
<1> QED
  BY <1>1, <1>2, <1>4, <1>5, <1>6

\* A process that starts, or was killed.
LEMMA Forgotten ==
    ASSUME DispatcherInv, NEW h, Dispatcher!Forget(h), UNCHANGED launches
    PROVE  DispatcherInv'
BY DEF DispatcherInv, DispatcherTypes, QueueInv, OneThreadInv, InHand, BudgetInv,
       Dispatcher!Forget, Dispatcher!NoWorker, Phase, WorkerRow

\* begin_graceful_shutdown lets go of what is queued.
LEMMA Drained == ASSUME DispatcherInv, Dispatcher!GracefulShutdown PROVE DispatcherInv'
<1>1. /\ pending' = <<>> /\ known' = known \ Dispatcher!Range(pending)
      /\ UNCHANGED <<launches, active, worker, loop>>
  BY DEF Dispatcher!GracefulShutdown, Dispatcher!durable
<1>2. \A x \in Dispatcher!Range(pending) : x \notin active
  BY DEF Dispatcher!Range, DispatcherInv, DispatcherTypes, QueueInv
<1>3. active' \subseteq known'
  BY <1>1, <1>2 DEF DispatcherInv, QueueInv
<1> QED
  BY <1>1, <1>3
     DEF DispatcherInv, DispatcherTypes, QueueInv, OneThreadInv, InHand, BudgetInv

\* What settling an exhausted Job does to its launch count.
LEMMA Exhausted ==
    ASSUME DispatcherInv, NEW j, Dispatcher!SettleExhausted(j)
    PROVE  /\ launches' \in [DispatcherJobs -> Nat]
           /\ \A k \in DispatcherJobs : launches'[k] \in {launches[k], 0}
BY DEF DispatcherInv, DispatcherTypes, Dispatcher!SettleExhausted

\* _admit_worker
LEMMA Admitted ==
    ASSUME DispatcherInv,
           \/ Dispatcher!AdmitEnded \/ Dispatcher!AdmitSpent \/ Dispatcher!AdmitBusy
           \/ Dispatcher!AdmitSlot \/ Dispatcher!AdmitFails \/ Dispatcher!AdmitClaim
    PROVE  DispatcherInv'
<1> USE DEF Dispatcher!durable
<1>0. launches \in [DispatcherJobs -> Nat]
  BY DEF DispatcherInv, DispatcherTypes
<1>1. CASE Dispatcher!AdmitEnded
  BY <1>0, <1>1, Dropped DEF Dispatcher!AdmitEnded
<1>2. CASE Dispatcher!AdmitSpent
  <2>1. CASE loop.ref \in orphans
    BY <1>0, <1>2, <2>1, Dropped DEF Dispatcher!AdmitSpent
  <2>2. CASE loop.ref \notin orphans
    <3>1. Dispatcher!Drop(TRUE) /\ Dispatcher!SettleExhausted(loop.ref)
          /\ loop.at = "admit" /\ UNCHANGED <<pending, worker>>
      BY <1>2, <2>2 DEF Dispatcher!AdmitSpent
    <3> QED
      BY <3>1, Exhausted, Dropped
  <2> QED
    BY <2>1, <2>2
<1>3. CASE Dispatcher!AdmitBusy
  BY <1>0, <1>3, Dropped DEF Dispatcher!AdmitBusy
<1>4. CASE Dispatcher!AdmitSlot
  <2>1. /\ loop.at = "admit" /\ loop' = [loop EXCEPT !.at = "claim"]
        /\ ~(launches[loop.ref] >= MaxLaunches)
        /\ UNCHANGED <<launches, pending, known, active, worker>>
    BY <1>4 DEF Dispatcher!AdmitSlot, Dispatcher!Spent, Dispatcher!queue
  <2>2. loop'.at = "claim" /\ loop'.ref = loop.ref /\ loop' = [at |-> "claim", ref |-> loop.ref]
    BY <2>1 DEF DispatcherInv, DispatcherTypes
  <2>3. DispatcherTypes' /\ QueueInv' /\ OneThreadInv'
    BY <2>1, <2>2 DEF DispatcherInv, DispatcherTypes, QueueInv, OneThreadInv, InHand
  <2>4. BudgetInv'
    BY <2>1, <2>2, <1>0, LaunchBound DEF DispatcherInv, BudgetInv
  <2> QED
    BY <2>3, <2>4 DEF DispatcherInv
<1>5. CASE Dispatcher!AdmitFails
  BY <1>0, <1>5, Dropped DEF Dispatcher!AdmitFails
<1>6. CASE Dispatcher!AdmitClaim
  <2>1. CASE loop.ref \in orphans \/ ~Dispatcher!Ready(loop.ref)
    BY <1>0, <1>6, <2>1, Dropped DEF Dispatcher!AdmitClaim
  <2>2. CASE ~(loop.ref \in orphans \/ ~Dispatcher!Ready(loop.ref))
    <3>1. /\ loop.at = "claim" /\ loop' = [at |-> "top", ref |-> 0]
          /\ worker' = [worker EXCEPT ![loop.ref].phase = "launch"]
          /\ UNCHANGED <<launches, pending, known, active>>
      BY <1>6, <2>2 DEF Dispatcher!AdmitClaim
    <3>2. DispatcherTypes' /\ QueueInv'
      BY <3>1 DEF DispatcherInv, DispatcherTypes, QueueInv, Phase, WorkerRow
    <3>3. OneThreadInv'
      BY <3>1 DEF DispatcherInv, DispatcherTypes, OneThreadInv, InHand
    <3>4. BudgetInv'
      BY <3>1 DEF DispatcherInv, DispatcherTypes, BudgetInv
    <3> QED
      BY <3>2, <3>3, <3>4 DEF DispatcherInv
  <2> QED
    BY <2>1, <2>2
<1> QED
  BY <1>1, <1>2, <1>3, <1>4, <1>5, <1>6

\* The supervisor thread of a Job, and its worker process.
LEMMA WorkerStepped ==
    ASSUME DispatcherInv, NEW j \in DispatcherJobs,
           Dispatcher!SuperviseStep(j) \/ Dispatcher!WorkerWorks(j)
    PROVE  DispatcherInv'
<1> USE DEF Dispatcher!durable, Dispatcher!queue
<1>0. /\ launches \in [DispatcherJobs -> Nat]
      /\ worker \in [DispatcherJobs -> WorkerRow]
  BY DEF DispatcherInv, DispatcherTypes
<1>1. CASE Dispatcher!RecordLaunch(j)
  <2>1. /\ worker[j].phase = "launch" /\ UNCHANGED <<pending, known, active, loop>>
        /\ \/ /\ launches' = [launches EXCEPT ![j] = @ + 1]
              /\ worker' = [worker EXCEPT ![j].phase = "run", ![j].count = launches[j] + 1]
           \/ worker' = [worker EXCEPT ![j].phase = "settle"] /\ UNCHANGED launches
    BY <1>1 DEF Dispatcher!RecordLaunch
  <2>2. /\ worker' \in [DispatcherJobs -> WorkerRow] /\ worker'[j].phase \in {"run", "settle"}
        /\ \A k \in DispatcherJobs : k # j => worker'[k] = worker[k]
    BY <1>0, <2>1 DEF WorkerRow, Phase
  <2>3. /\ launches' \in [DispatcherJobs -> Nat]
        /\ \A k \in DispatcherJobs : \/ launches'[k] = launches[k]
                                     \/ (k = j /\ launches'[j] = launches[j] + 1)
    BY <1>0, <2>1
  <2> QED
    BY <2>1, <2>2, <2>3, WorkerMoved DEF Phase
<1>2. CASE Dispatcher!WorkerWorks(j)
  <2>1. /\ worker[j].phase = "run" /\ UNCHANGED <<pending, known, active, loop>>
        /\ worker' = [worker EXCEPT ![j].done = TRUE]
        /\ launches' = [launches EXCEPT ![j] = 0] \/ UNCHANGED launches
    BY <1>2 DEF Dispatcher!WorkerWorks
  <2>2. /\ worker' \in [DispatcherJobs -> WorkerRow] /\ worker'[j].phase = "run"
        /\ \A k \in DispatcherJobs : k # j => worker'[k] = worker[k]
    BY <1>0, <2>1 DEF WorkerRow, Phase
  <2>3. /\ launches' \in [DispatcherJobs -> Nat]
        /\ \A k \in DispatcherJobs : launches'[k] \in {launches[k], 0}
    BY <1>0, <2>1
  <2> QED
    BY <2>1, <2>2, <2>3, WorkerMoved DEF Phase
<1>3. CASE Dispatcher!WorkerExits(j)
  <2>1. PICK clean \in {FALSE, worker[j].done \/ ~Dispatcher!Ready(j)} :
          worker' = [worker EXCEPT ![j].phase = "settle", ![j].clean = clean]
    BY <1>3 DEF Dispatcher!WorkerExits
  <2>2. clean \in BOOLEAN /\ worker[j].phase = "run"
        /\ UNCHANGED <<launches, pending, known, active, loop>>
    BY <1>0, <1>3, <2>1 DEF Dispatcher!WorkerExits, WorkerRow
  <2>3. /\ worker' \in [DispatcherJobs -> WorkerRow] /\ worker'[j].phase = "settle"
        /\ \A k \in DispatcherJobs : k # j => worker'[k] = worker[k]
    BY <1>0, <2>1, <2>2 DEF WorkerRow, Phase
  <2> QED
    BY <1>0, <2>2, <2>3, WorkerMoved DEF Phase
<1>4. CASE Dispatcher!WorkerStopped(j)
  <2>1. /\ worker[j].phase = "run" /\ UNCHANGED <<launches, pending, known, active, loop>>
        /\ worker' = [worker EXCEPT ![j].phase = "settle", ![j].controlled = TRUE]
    BY <1>4 DEF Dispatcher!WorkerStopped
  <2>2. /\ worker' \in [DispatcherJobs -> WorkerRow] /\ worker'[j].phase = "settle"
        /\ \A k \in DispatcherJobs : k # j => worker'[k] = worker[k]
    BY <1>0, <2>1 DEF WorkerRow, Phase
  <2> QED
    BY <1>0, <2>1, <2>2, WorkerMoved DEF Phase
<1>5. CASE Dispatcher!Settle(j)
  <2>1. /\ worker[j].phase = "settle" /\ UNCHANGED <<pending, known, active, loop>>
        /\ worker' = [worker EXCEPT ![j].phase = "finish"]
        /\ \/ launches' = [launches EXCEPT ![j] = 0]
           \/ UNCHANGED launches
           \/ Dispatcher!SettleExhausted(j)
    BY <1>5 DEF Dispatcher!Settle
  <2>2. /\ launches' \in [DispatcherJobs -> Nat]
        /\ \A k \in DispatcherJobs : launches'[k] \in {launches[k], 0}
    BY <1>0, <2>1, Exhausted
  <2>3. /\ worker' \in [DispatcherJobs -> WorkerRow] /\ worker'[j].phase = "finish"
        /\ \A k \in DispatcherJobs : k # j => worker'[k] = worker[k]
    BY <1>0, <2>1 DEF WorkerRow, Phase
  <2> QED
    BY <2>1, <2>2, <2>3, WorkerMoved DEF Phase
<1>6. CASE Dispatcher!FinishWorker(j)
  <2>1. /\ worker[j].phase = "finish" /\ worker' = [worker EXCEPT ![j] = Dispatcher!NoWorker]
        /\ Dispatcher!Finish(j, worker[j].clean) /\ UNCHANGED <<launches, pending, loop>>
    BY <1>6 DEF Dispatcher!FinishWorker
  <2>2. j \in active /\ ~InHand(j)
    BY <2>1 DEF DispatcherInv, OneThreadInv
  <2>3. pending' \in Seq(known') /\ QueueInv' /\ active' = active \ {j}
    BY <2>1, <2>2, Finished
  <2>4. /\ worker' \in [DispatcherJobs -> WorkerRow]
        /\ worker'[j].phase = "none"
        /\ \A k \in DispatcherJobs : k # j => worker'[k] = worker[k]
    BY <1>0, <2>1 DEF Dispatcher!NoWorker, WorkerRow, Phase
  <2>5. OneThreadInv'
    BY <2>1, <2>2, <2>3, <2>4 DEF DispatcherInv, OneThreadInv, InHand
  <2>6. BudgetInv'
    BY <2>1, <2>4 DEF DispatcherInv, BudgetInv
  <2> QED
    BY <2>1, <2>3, <2>4, <2>5, <2>6 DEF DispatcherInv, DispatcherTypes
<1> QED
  BY <1>1, <1>2, <1>3, <1>4, <1>5, <1>6 DEF Dispatcher!SuperviseStep

\* The worker of a killed engine ends.
LEMMA OrphanEnded ==
    ASSUME DispatcherInv, NEW j \in DispatcherJobs, Dispatcher!OrphanEnds(j)
    PROVE  DispatcherInv'
<1>1. /\ launches' \in [DispatcherJobs -> Nat]
      /\ \A k \in DispatcherJobs : launches'[k] \in {launches[k], 0}
      /\ UNCHANGED <<pending, known, active, worker, loop>>
  <2>1. /\ launches' = launches \/ launches' = [launches EXCEPT ![j] = 0]
        /\ UNCHANGED <<pending, known, active, worker, loop>>
    BY DEF Dispatcher!OrphanEnds, Dispatcher!queue
  <2>2. launches \in [DispatcherJobs -> Nat]
    BY DEF DispatcherInv, DispatcherTypes
  <2> QED
    BY <2>1, <2>2
<1>2. BudgetInv'
  BY <1>1, LaunchBound DEF DispatcherInv, BudgetInv
<1> QED
  BY <1>1, <1>2 DEF DispatcherInv, DispatcherTypes, QueueInv, OneThreadInv, InHand

\* The steps of a scan.
LEMMA Scanned ==
    ASSUME DispatcherInv, Dispatcher!ScanStep
    PROVE  DispatcherInv'
<1> USE DEF Dispatcher!durable, Dispatcher!queue
<1>1. CASE Dispatcher!ReadPage \/ Dispatcher!OpenFails \/ Dispatcher!ScanKnown
  BY <1>1, Unmoved DEF budgeted, Dispatcher!ReadPage, Dispatcher!OpenFails, Dispatcher!ScanKnown
<1>2. CASE Dispatcher!ScanEnqueue
  BY <1>2, Enqueued DEF Dispatcher!ScanEnqueue
<1>3. ASSUME NEW raised, Dispatcher!Resume(raised),
             UNCHANGED <<launches, pending, known, active, worker>>
      PROVE  DispatcherInv'
  BY <1>3, LoopMoved DEF Dispatcher!Resume
<1>4. CASE \/ Dispatcher!ReadFails \/ Dispatcher!ScanBackpressure \/ Dispatcher!ScanDraining
           \/ Dispatcher!EndReconcile
  BY <1>3, <1>4 DEF Dispatcher!ReadFails, Dispatcher!ScanBackpressure, Dispatcher!ScanDraining,
                    Dispatcher!EndReconcile
<1> QED
  BY <1>1, <1>2, <1>4 DEF Dispatcher!ScanStep

\* The steps of the dispatcher thread and of the host without a reference.
LEMMA Looped ==
    ASSUME DispatcherInv,
           \/ Dispatcher!Top \/ Dispatcher!NextReferenceReturns \/ Dispatcher!Joined
           \/ Dispatcher!BeginReconcile("loop") \/ Dispatcher!BeginReconcile("host")
    PROVE  DispatcherInv'
<1> USE DEF Dispatcher!durable, Dispatcher!queue
<1>1. CASE Dispatcher!Top
  BY <1>1, LoopMoved DEF Dispatcher!Top
<1>2. CASE Dispatcher!NextReferenceReturns
  BY <1>2, LoopMoved DEF Dispatcher!NextReferenceReturns
<1>3. CASE Dispatcher!Joined
  BY <1>3, LoopMoved DEF Dispatcher!Joined
<1>4. CASE Dispatcher!BeginReconcile("loop") \/ Dispatcher!BeginReconcile("host")
  BY <1>4, LoopMoved DEF Dispatcher!BeginReconcile
<1> QED
  BY <1>1, <1>2, <1>3, <1>4

\* The invariant of the dispatcher's queue, its threads and the launch counts.
THEOREM DispatcherInvariant == Dispatcher!Spec => []DispatcherInv
<1>1. Dispatcher!Init => DispatcherInv
  BY LaunchBound
     DEF Dispatcher!Init, DispatcherInv, DispatcherTypes, QueueInv, OneThreadInv, InHand,
         BudgetInv, Dispatcher!NoWorker, Phase, WorkerRow
<1>2. ASSUME DispatcherInv, Dispatcher!Next PROVE DispatcherInv'
  <2> USE DEF budgeted, Dispatcher!durable, Dispatcher!queue
  <2>1. CASE Dispatcher!ScanStep
    BY <1>2, <2>1, Scanned
  <2>2. CASE Dispatcher!LoopStep
    BY <1>2, <2>2, Looped, Taken, Admitted DEF Dispatcher!LoopStep
  <2>3. CASE Dispatcher!HostStep
    BY <1>2, <2>3, Looped, Unmoved
       DEF Dispatcher!HostStep, Dispatcher!HostDecides, Dispatcher!HostReady,
           Dispatcher!HostCloses, Dispatcher!HostGone
  <2>4. CASE Dispatcher!TimerExpires \/ Dispatcher!HostIdle \/ Dispatcher!GracefulShutdown
    BY <1>2, <2>4, Unmoved, Drained DEF Dispatcher!TimerExpires, Dispatcher!HostIdle
  <2>5. ASSUME NEW j \in DispatcherJobs,
               Dispatcher!Notify(j) \/ Dispatcher!NotifyEnqueue(j) \/ Dispatcher!SuperviseStep(j)
        PROVE  DispatcherInv'
    <3>1. CASE Dispatcher!NotifyEnqueue(j)
      BY <1>2, <3>1, Enqueued, Unmoved DEF Dispatcher!NotifyEnqueue
    <3>2. CASE Dispatcher!Notify(j)
      BY <1>2, <3>2, Unmoved DEF Dispatcher!Notify
    <3>3. CASE Dispatcher!SuperviseStep(j)
      BY <1>2, <3>3, WorkerStepped
    <3> QED
      BY <2>5, <3>1, <3>2, <3>3
  <2>6. CASE Dispatcher!Environment
    <3>1. ASSUME NEW j \in DispatcherJobs,
                 \/ Dispatcher!Submit(j) \/ Dispatcher!Respond(j) \/ Dispatcher!Cancel(j)
                 \/ Dispatcher!ClientLost(j)
          PROVE  DispatcherInv'
      BY <1>2, <3>1, Unmoved
         DEF Dispatcher!Submit, Dispatcher!Respond, Dispatcher!Cancel, Dispatcher!ClientLost
    <3>2. CASE Dispatcher!OthersTake \/ Dispatcher!OthersFree
      BY <1>2, <3>2, Unmoved DEF Dispatcher!OthersTake, Dispatcher!OthersFree
    <3>3. CASE Dispatcher!Crash \/ Dispatcher!EngineStarts
      BY <1>2, <3>3, Forgotten DEF Dispatcher!Crash, Dispatcher!EngineStarts
    <3> QED
      BY <1>2, <2>6, <3>1, <3>2, <3>3, OrphanEnded, WorkerStepped DEF Dispatcher!Environment
  <2> QED
    BY <1>2, <2>1, <2>2, <2>3, <2>4, <2>5, <2>6 DEF Dispatcher!Next
<1>3. DispatcherInv /\ UNCHANGED Dispatcher!vars => DispatcherInv'
  BY Unmoved DEF budgeted, Dispatcher!vars, Dispatcher!durable, Dispatcher!queue
<1> QED
  BY <1>1, <1>2, <1>3, PTL DEF Dispatcher!Spec

\* A Job that neither ended nor asked is launched at most MaxLaunches times, over all the
\* engines that launch it.
THEOREM LaunchBudgetHoldsAlways == Dispatcher!Spec => []LaunchBudgetHolds
<1>1. DispatcherInv => LaunchBudgetHolds
  BY DEF DispatcherInv, BudgetInv, LaunchBudgetHolds, Dispatcher!LaunchBudgetHolds
<1> QED
  BY <1>1, DispatcherInvariant, PTL

-----------------------------------------------------------------------------
(* ResourceLease: the inductive invariant.                                 *)

Slack(o) == IF Supervised(o) THEN MaxDelay ELSE 0

\* No call acts on a time older than the longest wait, and no lease runs longer than
\* its time to live; a process that ended remembers nothing.
ClocksInv ==
    /\ \A o \in alive : clock[o] # Nobody => now <= clock[o] + MaxDelay
    /\ \A o \in Owners, r \in Resources : held[o][r].expires <= now + Ttl
    /\ \A o \in Owners \ alive, r \in Resources : held[o][r] = NoLease

\* The ticket in the row is one its owner issued, that was never adopted and whose
\* receiver does not hold the slot.
RowTicket(r) ==
    [resource |-> r, from |-> row[r].owner, to |-> row[r].to,
     token |-> row[r].token, nonce |-> row[r].nonce]

TicketsInv ==
    /\ IsFiniteSet(tickets)
    /\ \A t \in tickets : 0 < t.nonce /\ t.nonce <= Cardinality(tickets) /\ t.token > 0
    /\ \A n \in adopted : n <= Cardinality(tickets)
    /\ \A t, u \in tickets : t.nonce = u.nonce => t = u
    /\ \A r \in Resources : row[r].nonce # 0 =>
          /\ RowTicket(r) \in tickets
          /\ row[r].nonce \notin adopted
          /\ held[row[r].to][r].token # row[r].token
    /\ \A r \in Resources : row[r].owner = Nobody => row[r].expires = 0

\* A lease in memory is in the table as well, or it has run out.
Believed(o, r) ==
    held[o][r] # NoLease /\ ~GivenAway(o, r) =>
        \/ /\ row[r].owner = o
           /\ row[r].token = held[o][r].token
           /\ held[o][r].expires <= row[r].expires + Slack(o)
        \/ held[o][r].expires <= now + Slack(o)

BelievedInv == \A o \in Owners, r \in Resources : Believed(o, r)

LeaseInv == TypeOK /\ ClocksInv /\ TicketsInv /\ BelievedInv

-----------------------------------------------------------------------------
(* What a step does to the table, the memories and the tickets.            *)

\* A row without a handoff, leased by o until `expires'.
Leased(line, o, token, expires) ==
    /\ line \in Row
    /\ line.owner = o /\ line.token = token /\ line.expires = expires
    /\ line.to = Nobody /\ line.nonce = 0

\* Only the row of r changes, and only the memory o has of r.
OnlyRow(r) == \A q \in Resources : q # r => row'[q] = row[q]
OnlyHeld(o, r) == \A p \in Owners, q \in Resources : p # o \/ q # r => held'[p][q] = held[p][q]

\* Clearing the ticket and writing the owner, token and expiry leaves no other field.
LEMMA RowWritten ==
    ASSUME NEW line \in Row, NEW o \in Owners \cup {Nobody}, NEW token \in Nat, NEW expires \in Time
    PROVE  /\ Leased([WithoutHandoff(line) EXCEPT !.owner = o, !.token = token, !.expires = expires],
                     o, token, expires)
           /\ Leased([WithoutHandoff(line) EXCEPT !.owner = o, !.expires = expires],
                     o, line.token, expires)
           /\ Leased([WithoutHandoff(line) EXCEPT !.expires = expires],
                     line.owner, line.token, expires)
<1>1. 0 \in Time
  BY LeaseAssumption DEF Time
<1>2. /\ WithoutHandoff(line) \in Row
      /\ WithoutHandoff(line).owner = line.owner /\ WithoutHandoff(line).token = line.token
      /\ WithoutHandoff(line).to = Nobody /\ WithoutHandoff(line).nonce = 0
  BY <1>1 DEF WithoutHandoff, Row
<1> DEFINE clear == WithoutHandoff(line)
<1>3. clear \in Row /\ clear.to = Nobody /\ clear.nonce = 0
  BY <1>2
<1> HIDE DEF clear
<1>4. /\ Leased([clear EXCEPT !.owner = o, !.token = token, !.expires = expires],
                o, token, expires)
      /\ Leased([clear EXCEPT !.owner = o, !.expires = expires], o, clear.token, expires)
      /\ Leased([clear EXCEPT !.expires = expires], clear.owner, clear.token, expires)
  BY <1>3 DEF Leased, Row
<1> QED
  BY <1>2, <1>4 DEF clear

\* Acquire leaves a row without a handoff that names the process and its new token.
LEMMA AcquireEffect ==
    ASSUME TypeOK, NEW o \in Owners, NEW r \in Resources, Acquire(o, r)
    PROVE  /\ row' \in [Resources -> Row] /\ held' \in [Owners -> [Resources -> Lease]]
           /\ clock[o] \in 0..MaxTime /\ clock[o] <= now
           /\ Leased(row'[r], o, row[r].token + 1, clock[o] + Ttl)
           /\ held'[o][r].token = row[r].token + 1 /\ held'[o][r].expires = clock[o] + Ttl
           /\ OnlyRow(r) /\ OnlyHeld(o, r)
           /\ row[r].expires <= clock[o] /\ held[o][r] = NoLease
<1>1. clock[o] \in 0..MaxTime /\ clock[o] <= now
  BY DEF TypeOK, Acquire, Calls
<1>2. row[r] \in Row
  BY DEF TypeOK
<1>3. row[r].token \in Nat /\ row[r].token + 1 \in Nat /\ clock[o] + Ttl \in Time
  BY <1>1, <1>2, LeaseAssumption DEF Row, Time
<1> DEFINE line == [WithoutHandoff(row[r]) EXCEPT !.owner = o, !.token = row[r].token + 1,
                                                  !.expires = clock[o] + Ttl]
<1>4. Leased(line, o, row[r].token + 1, clock[o] + Ttl)
  BY <1>2, <1>3, RowWritten
<1>5. row' = [row EXCEPT ![r] = line]
  BY DEF Acquire, GrantToken
<1> HIDE DEF line
<1>6. row' \in [Resources -> Row] /\ row'[r] = line /\ OnlyRow(r)
  BY <1>4, <1>5 DEF TypeOK, OnlyRow, Leased
<1> DEFINE lease == [token |-> row[r].token + 1, expires |-> clock[o] + Ttl]
<1>7. held' = [held EXCEPT ![o][r] = lease]
  BY DEF Acquire, GrantToken
<1>8. lease \in Lease
  BY <1>3 DEF Lease
<1>9. held' \in [Owners -> [Resources -> Lease]] /\ held'[o][r] = lease /\ OnlyHeld(o, r)
  BY <1>7, <1>8 DEF TypeOK, OnlyHeld
<1>10. row[r].expires <= clock[o] /\ held[o][r] = NoLease
  BY <1>1, <1>2 DEF Acquire, Unexpired, Row, Time
<1>11. lease.token = row[r].token + 1 /\ lease.expires = clock[o] + Ttl
  OBVIOUS
<1> HIDE DEF lease
<1> QED
  BY <1>1, <1>4, <1>6, <1>9, <1>10, <1>11

\* Adopt makes the receiver of the ticket the owner, under the same token.
LEMMA AdoptEffect ==
    ASSUME TypeOK, NEW t \in tickets, Adopt(t)
    PROVE  /\ row' \in [Resources -> Row] /\ held' \in [Owners -> [Resources -> Lease]]
           /\ t.to \in Owners /\ t.resource \in Resources
           /\ clock[t.to] \in 0..MaxTime /\ clock[t.to] <= now
           /\ Leased(row'[t.resource], t.to, t.token, clock[t.to] + Ttl)
           /\ held'[t.to][t.resource].token = t.token
           /\ held'[t.to][t.resource].expires = clock[t.to] + Ttl
           /\ OnlyRow(t.resource) /\ OnlyHeld(t.to, t.resource)
           /\ row[t.resource].token = t.token
           /\ row[t.resource].to = t.to /\ row[t.resource].nonce = t.nonce
<1>0. t \in Ticket
  BY DEF TypeOK
<1>1. t.to \in Owners /\ t.resource \in Resources /\ t.token \in Nat
  BY <1>0 DEF Ticket
<1> DEFINE r == t.resource
           o == t.to
<1>2. clock[o] \in 0..MaxTime /\ clock[o] <= now
  BY <1>1 DEF TypeOK, Adopt, Calls
<1>3. row[r] \in Row /\ row[r].token = t.token /\ row[r].to = o /\ row[r].nonce = t.nonce
  BY <1>1 DEF TypeOK, Adopt
<1>4. clock[o] + Ttl \in Time
  BY <1>2, LeaseAssumption DEF Time
<1> DEFINE line == [ConsumeTicket(row[r]) EXCEPT !.owner = o, !.expires = clock[o] + Ttl]
<1>5. Leased(line, o, t.token, clock[o] + Ttl)
  BY <1>1, <1>3, <1>4, RowWritten DEF ConsumeTicket
<1>6. row' = [row EXCEPT ![r] = line]
  BY DEF Adopt
<1> HIDE DEF line
<1>7. row' \in [Resources -> Row] /\ row'[r] = line /\ OnlyRow(r)
  BY <1>1, <1>5, <1>6 DEF TypeOK, OnlyRow, Leased
<1> DEFINE lease == [token |-> t.token, expires |-> clock[o] + Ttl]
<1>8. held' = [held EXCEPT ![o][r] = lease]
  BY DEF Adopt
<1>9. lease \in Lease
  BY <1>1, <1>4 DEF Lease
<1>10. held' \in [Owners -> [Resources -> Lease]] /\ held'[o][r] = lease /\ OnlyHeld(o, r)
  BY <1>1, <1>8, <1>9 DEF TypeOK, OnlyHeld
<1>11. lease.token = t.token /\ lease.expires = clock[o] + Ttl
  OBVIOUS
<1> HIDE DEF lease
<1> QED
  BY <1>1, <1>2, <1>3, <1>5, <1>7, <1>10, <1>11

\* Handoff writes the ticket into the row, and nothing else.
LEMMA HandoffEffect ==
    ASSUME TypeOK, TicketsInv, NEW o \in Owners, NEW r \in Resources, NEW c \in Owners,
           Handoff(o, r, c)
    PROVE  /\ row' \in [Resources -> Row]
           /\ row'[r].owner = row[r].owner /\ row'[r].token = row[r].token
           /\ row'[r].expires = row[r].expires
           /\ row'[r].to = c /\ row'[r].nonce = Cardinality(tickets) + 1
           /\ OnlyRow(r)
           /\ row[r].owner = o /\ row[r].token = held[o][r].token /\ row[r].token # 0
           /\ row[r].nonce = 0 /\ held[c][r] = NoLease /\ held' = held
           /\ tickets' = tickets \cup {RowTicket(r)'}
           /\ IsFiniteSet(tickets') /\ Cardinality(tickets') = Cardinality(tickets) + 1
           /\ Cardinality(tickets) \in Nat
           /\ RowTicket(r)' \in Ticket
<1>1. clock[o] \in 0..MaxTime
  BY DEF TypeOK, Handoff, Calls
<1>2. row[r] \in Row
  BY DEF TypeOK
<1>3. Cardinality(tickets) \in Nat
  BY FS_CardinalityType DEF TicketsInv
<1> DEFINE line == [row[r] EXCEPT !.to = c, !.nonce = Cardinality(tickets) + 1,
                                  !.deadline = clock[o] + Ttl]
<1>4. row' = [row EXCEPT ![r] = line]
  BY <1>2 DEF Handoff, Row, TypeOK
<1>5. clock[o] + Ttl \in Time
  BY <1>1, LeaseAssumption DEF Time
<1>6. /\ line \in Row
      /\ line.owner = row[r].owner /\ line.token = row[r].token /\ line.expires = row[r].expires
      /\ line.to = c /\ line.nonce = Cardinality(tickets) + 1
  <2>1. PICK n \in Nat : n = Cardinality(tickets) + 1
    BY <1>3
  <2>2. PICK e \in Time : e = clock[o] + Ttl
    BY <1>5
  <2>3. line = [row[r] EXCEPT !.to = c, !.nonce = n, !.deadline = e]
    BY <2>1, <2>2
  <2>4. /\ [row[r] EXCEPT !.to = c, !.nonce = n, !.deadline = e] \in Row
        /\ line.owner = row[r].owner /\ line.token = row[r].token
        /\ line.expires = row[r].expires /\ line.to = c /\ line.nonce = n
    BY <1>2, <2>3 DEF Row
  <2> QED  BY <2>1, <2>3, <2>4
<1> HIDE DEF line
<1>7. row' \in [Resources -> Row] /\ row'[r] = line /\ OnlyRow(r)
  BY <1>4, <1>6 DEF TypeOK, OnlyRow
<1>8. /\ row[r].owner = o /\ row[r].token = held[o][r].token /\ row[r].token # 0
      /\ row[r].nonce = 0 /\ held[c][r] = NoLease /\ held' = held
  <2>1. row[r].owner = o /\ row[r].token = held[o][r].token /\ row[r].token # 0
    BY DEF Handoff, Owns
  <2>2. row[r].nonce = 0 /\ held' = held
    BY DEF Handoff, HandoffFree
  <2>3. held[c] = [q \in Resources |-> NoLease]
    BY DEF Handoff, Fresh
  <2> QED  BY <2>1, <2>2, <2>3
<1>9. RowTicket(r)' = [resource |-> r, from |-> o, to |-> c, token |-> held[o][r].token,
                       nonce |-> Cardinality(tickets) + 1]
  BY <1>6, <1>7, <1>8 DEF RowTicket
<1>10. tickets' = tickets \cup {RowTicket(r)'}
  BY <1>9 DEF Handoff
<1>11. RowTicket(r)' \in Ticket
  BY <1>2, <1>3, <1>8, <1>9 DEF Ticket, Row
<1>12. RowTicket(r)' \notin tickets
  <2> SUFFICES ASSUME RowTicket(r)' \in tickets PROVE FALSE
    OBVIOUS
  <2>1. RowTicket(r)'.nonce <= Cardinality(tickets)
    BY DEF TicketsInv
  <2>2. RowTicket(r)'.nonce = Cardinality(tickets) + 1
    BY <1>9
  <2> QED  BY <1>3, <2>1, <2>2
<1>13. IsFiniteSet(tickets') /\ Cardinality(tickets') = Cardinality(tickets) + 1
  BY <1>10, <1>12, FS_AddElement DEF TicketsInv
<1> QED
  BY <1>3, <1>6, <1>7, <1>8, <1>10, <1>11, <1>13

\* A heartbeat, of the owner or of the process that gave it the lease, moves the expiry only.
Renewed(r, expires) ==
    /\ row' \in [Resources -> Row] /\ row'[r].expires = expires
    /\ row'[r].owner = row[r].owner /\ row'[r].token = row[r].token
    /\ row'[r].to = row[r].to /\ row'[r].nonce = row[r].nonce
    /\ OnlyRow(r)

\* heartbeat by the owner moves the expiry and nothing else in the table.
LEMMA HeartbeatEffect ==
    ASSUME TypeOK, NEW o \in Owners, NEW r \in Resources, Heartbeat(o, r)
    PROVE  /\ Renewed(r, clock[o] + Ttl)
           /\ held' \in [Owners -> [Resources -> Lease]]
           /\ held'[o][r].token = held[o][r].token /\ held'[o][r].expires = clock[o] + Ttl
           /\ OnlyHeld(o, r)
           /\ row[r].owner = o /\ row[r].token = held[o][r].token /\ row[r].token # 0
           /\ clock[o] \in 0..MaxTime /\ clock[o] <= now
<1>1. clock[o] \in 0..MaxTime /\ clock[o] <= now
  BY DEF TypeOK, Heartbeat, Calls
<1>2. row[r] \in Row /\ held[o][r] \in Lease
  BY DEF TypeOK
<1>3. clock[o] + Ttl \in Time
  BY <1>1, LeaseAssumption DEF Time
<1>4. row' = [row EXCEPT ![r] = [row[r] EXCEPT !.expires = clock[o] + Ttl]]
  BY DEF Heartbeat
<1>5. [row[r] EXCEPT !.expires = clock[o] + Ttl] \in Row
  BY <1>2, <1>3 DEF Row
<1>6. Renewed(r, clock[o] + Ttl)
  BY <1>2, <1>3, <1>4, <1>5 DEF TypeOK, OnlyRow, Renewed, Row
<1> DEFINE lease == [held[o][r] EXCEPT !.expires = clock[o] + Ttl]
<1>7. held' = [held EXCEPT ![o][r] = lease]
  BY DEF Heartbeat
<1>8. lease \in Lease /\ lease.token = held[o][r].token /\ lease.expires = clock[o] + Ttl
  BY <1>2, <1>3 DEF Lease
<1> HIDE DEF lease
<1>9. held' \in [Owners -> [Resources -> Lease]] /\ held'[o][r] = lease /\ OnlyHeld(o, r)
  BY <1>7, <1>8 DEF TypeOK, OnlyHeld
<1>10. row[r].owner = o /\ row[r].token = held[o][r].token /\ row[r].token # 0
  BY DEF Heartbeat, Owns
<1> QED
  BY <1>1, <1>6, <1>8, <1>9, <1>10

\* The heartbeat of a parent for the worker that adopted its ticket moves the expiry likewise.
LEMMA HeartbeatAdoptedEffect ==
    ASSUME TypeOK, NEW t \in tickets, HeartbeatAdopted(t)
    PROVE  /\ t.from \in Owners /\ t.to \in Owners /\ t.resource \in Resources
           /\ Renewed(t.resource, clock[t.from] + Ttl)
           /\ row[t.resource].owner = t.to /\ row[t.resource].token = t.token
           /\ clock[t.from] \in 0..MaxTime /\ clock[t.from] <= now
           /\ t.from \in alive /\ clock[t.from] # Nobody
<1>0. t \in Ticket
  BY DEF TypeOK
<1>1. t.from \in Owners /\ t.to \in Owners /\ t.resource \in Resources
  BY <1>0 DEF Ticket
<1> DEFINE r == t.resource
           o == t.from
<1>2. clock[o] \in 0..MaxTime /\ clock[o] <= now /\ o \in alive /\ clock[o] # Nobody
  BY <1>1 DEF TypeOK, HeartbeatAdopted, Calls
<1>3. row[r] \in Row
  BY <1>1 DEF TypeOK
<1>4. clock[o] + Ttl \in Time
  BY <1>2, LeaseAssumption DEF Time
<1>5. row' = [row EXCEPT ![r] = [row[r] EXCEPT !.expires = clock[o] + Ttl]]
  BY DEF HeartbeatAdopted
<1>6. [row[r] EXCEPT !.expires = clock[o] + Ttl] \in Row
  BY <1>3, <1>4 DEF Row
<1>7. Renewed(r, clock[o] + Ttl)
  BY <1>1, <1>3, <1>4, <1>5, <1>6 DEF TypeOK, OnlyRow, Renewed, Row
<1> QED
  BY <1>1, <1>2, <1>7 DEF HeartbeatAdopted, Owns

\* A release ends the lease in the table, without a handoff, and keeps owner and token.
LEMMA ExpiredEffect ==
    ASSUME TypeOK, NEW r \in Resources, row' = Expired(r)
    PROVE  /\ row' \in [Resources -> Row]
           /\ Leased(row'[r], row[r].owner, row[r].token, 0)
           /\ OnlyRow(r)
<1>1. row[r] \in Row /\ 0 \in Time
  BY LeaseAssumption DEF TypeOK, Time
<1>2. row[r].owner \in Owners \cup {Nobody} /\ row[r].token \in Nat
  BY <1>1 DEF Row
<1> DEFINE line == [WithoutHandoff(row[r]) EXCEPT !.expires = 0]
<1>3. Leased(line, row[r].owner, row[r].token, 0)
  BY <1>1, <1>2, RowWritten
<1>4. row' = [row EXCEPT ![r] = line]
  BY DEF Expired
<1> HIDE DEF line
<1> QED
  BY <1>3, <1>4 DEF TypeOK, OnlyRow, Leased

-----------------------------------------------------------------------------
(* The types.                                                              *)

\* A handoff in a row is whole or absent, and so is its owner.
WholeRow(line) == (line.to = Nobody <=> line.nonce = 0) /\ (line.owner = Nobody <=> line.token = 0)

\* Writing one row leaves the table well typed when that row is.
LEMMA RowsTyped ==
    ASSUME TypeOK, NEW r \in Resources, row' \in [Resources -> Row], OnlyRow(r), WholeRow(row'[r])
    PROVE  \A q \in Resources : /\ (row'[q].to = Nobody) = (row'[q].nonce = 0)
                                /\ (row'[q].owner = Nobody) = (row'[q].token = 0)
BY DEF TypeOK, OnlyRow, WholeRow

\* A call ends with its process at no clock.
LEMMA CallEnds ==
    ASSUME TypeOK, NEW o \in Owners, Calls(o)
    PROVE  /\ clock' \in [Owners -> 0..MaxTime \cup {Nobody}]
           /\ \A p \in Owners : clock'[p] # Nobody => clock'[p] = clock[p]
           /\ clock'[o] = Nobody
BY DEF TypeOK, Calls

\* Init and every step keep the types.
LEMMA TypeStep ==
    ASSUME TypeOK, TicketsInv, [Next]_vars
    PROVE  TypeOK'
<1>1. CASE Tick
  <2>1. now' = now + 1 /\ now' \in 0..MaxTime /\ now \in Nat
    BY <1>1, LeaseAssumption DEF TypeOK, Tick
  <2>2. UNCHANGED <<clock, row, held, tickets, adopted, alive>>
    BY <1>1 DEF Tick
  <2>3. \A o \in Owners : clock[o] # Nobody => clock[o] \in 0..MaxTime /\ clock[o] <= now
    BY DEF TypeOK
  <2>4. \A o \in Owners : clock'[o] # Nobody => clock'[o] <= now'
    BY <2>1, <2>2, <2>3
  <2> QED  BY <2>1, <2>2, <2>4 DEF TypeOK
<1>2. ASSUME NEW o \in Owners, ReadClock(o) PROVE TypeOK'
  BY <1>2 DEF TypeOK, ReadClock
<1>3. ASSUME NEW o \in Owners, CallFails(o) PROVE TypeOK'
  BY <1>3, CallEnds DEF TypeOK, CallFails
<1>4. ASSUME NEW o \in Owners, End(o) PROVE TypeOK'
  <2>1. NoLease \in Lease
    BY LeaseAssumption DEF NoLease, Lease, Time
  <2>2. held' \in [Owners -> [Resources -> Lease]]
    BY <1>4, <2>1 DEF TypeOK, End
  <2>3. /\ clock' \in [Owners -> 0..MaxTime \cup {Nobody}]
        /\ \A p \in Owners : clock'[p] # Nobody => clock'[p] <= now
    BY <1>4 DEF TypeOK, End
  <2> QED  BY <1>4, <2>2, <2>3 DEF TypeOK, End
<1>5. ASSUME NEW o \in Owners, NEW r \in Resources, Acquire(o, r) PROVE TypeOK'
  <2>1. row[r].token \in Nat
    BY DEF TypeOK, Row
  <2>2. WholeRow(row'[r])
    <3>1. Leased(row'[r], o, row[r].token + 1, clock[o] + Ttl)
      BY <1>5, AcquireEffect
    <3>2. row[r].token + 1 # 0 /\ o # Nobody
      BY <2>1, LeaseAssumption
    <3> QED  BY <3>1, <3>2 DEF WholeRow, Leased
  <2>3. Calls(o) /\ UNCHANGED <<now, tickets, adopted, alive>>
    BY <1>5 DEF Acquire
  <2> QED  BY <1>5, <2>2, <2>3, AcquireEffect, RowsTyped, CallEnds DEF TypeOK
<1>6. ASSUME NEW o \in Owners, NEW r \in Resources, NEW c \in Owners, Handoff(o, r, c) PROVE TypeOK'
  <2>1. WholeRow(row'[r])
    BY <1>6, HandoffEffect, LeaseAssumption DEF WholeRow
  <2>2. Calls(o) /\ UNCHANGED <<now, held, adopted, alive>>
    BY <1>6 DEF Handoff
  <2>3. tickets' \subseteq Ticket
    BY <1>6, HandoffEffect DEF TypeOK
  <2> QED  BY <1>6, <2>1, <2>2, <2>3, HandoffEffect, RowsTyped, CallEnds DEF TypeOK
<1>7. ASSUME NEW t \in tickets, Adopt(t) PROVE TypeOK'
  <2>1. t \in Ticket /\ t.token > 0 /\ t.nonce \in Nat
    BY DEF TypeOK, TicketsInv, Ticket
  <2>2. WholeRow(row'[t.resource])
    <3>1. Leased(row'[t.resource], t.to, t.token, clock[t.to] + Ttl) /\ t.to \in Owners
      BY <1>7, AdoptEffect
    <3>2. t.token # 0 /\ t.to # Nobody
      BY <2>1, <3>1, LeaseAssumption DEF Ticket
    <3> QED  BY <3>1, <3>2 DEF WholeRow, Leased
  <2>3. Calls(t.to) /\ UNCHANGED <<now, tickets, alive>> /\ adopted' = adopted \cup {t.nonce}
    BY <1>7 DEF Adopt
  <2> QED  BY <1>7, <2>1, <2>2, <2>3, AdoptEffect, RowsTyped, CallEnds DEF TypeOK
<1>8. ASSUME NEW o \in Owners, NEW r \in Resources, Heartbeat(o, r) PROVE TypeOK'
  <2>1. WholeRow(row'[r])
    BY <1>8, HeartbeatEffect DEF TypeOK, WholeRow, Renewed
  <2>2. Calls(o) /\ UNCHANGED <<now, tickets, adopted, alive>>
    BY <1>8 DEF Heartbeat
  <2> QED  BY <1>8, <2>1, <2>2, HeartbeatEffect, RowsTyped, CallEnds DEF TypeOK, Renewed
<1>9. ASSUME NEW t \in tickets, HeartbeatAdopted(t) PROVE TypeOK'
  <2>1. WholeRow(row'[t.resource])
    BY <1>9, HeartbeatAdoptedEffect DEF TypeOK, WholeRow, Renewed
  <2>2. Calls(t.from) /\ UNCHANGED <<now, held, tickets, adopted, alive>>
    BY <1>9 DEF HeartbeatAdopted
  <2> QED  BY <1>9, <2>1, <2>2, HeartbeatAdoptedEffect, RowsTyped, CallEnds DEF TypeOK, Renewed
<1>10. ASSUME NEW r \in Resources, row' = Expired(r), UNCHANGED <<now, clock, tickets, adopted, alive>>,
              held' \in [Owners -> [Resources -> Lease]]
       PROVE  TypeOK'
  <2>1. WholeRow(row'[r])
    BY <1>10, ExpiredEffect DEF TypeOK, WholeRow, Leased
  <2> QED  BY <1>10, <2>1, ExpiredEffect, RowsTyped DEF TypeOK
<1>11. ASSUME NEW o \in Owners, NEW r \in Resources, Release(o, r) PROVE TypeOK'
  <2>1. NoLease \in Lease
    BY LeaseAssumption DEF NoLease, Lease, Time
  <2>2. held' \in [Owners -> [Resources -> Lease]]
    BY <1>11, <2>1 DEF TypeOK, Release
  <2>3. CASE row' = row
    BY <1>11, <2>2, <2>3 DEF TypeOK, Release
  <2> QED  BY <1>10, <1>11, <2>2, <2>3 DEF Release
<1>12. ASSUME NEW t \in tickets, ReleaseAdopted(t) PROVE TypeOK'
  <2>1. t.resource \in Resources
    BY DEF TypeOK, Ticket
  <2> QED  BY <1>10, <1>12, <2>1 DEF ReleaseAdopted, TypeOK
<1>13. CASE UNCHANGED vars
  BY <1>13 DEF TypeOK, vars
<1> QED
  BY <1>1, <1>2, <1>3, <1>4, <1>5, <1>6, <1>7, <1>8, <1>9, <1>11, <1>12, <1>13 DEF Next


-----------------------------------------------------------------------------
(* The clocks.                                                             *)

\* Whatever a live process writes to its memory at its own clock runs out in time.
LEMMA CallKeepsClocks ==
    ASSUME TypeOK, ClocksInv, NEW o \in Owners, Calls(o), UNCHANGED <<now, alive>>,
           \/ held' = held
           \/ \E r \in Resources : OnlyHeld(o, r) /\ held'[o][r].expires = clock[o] + Ttl
    PROVE  ClocksInv'
<1>1. o \in alive /\ clock[o] \in Nat /\ clock[o] <= now /\ now \in Nat
  BY LeaseAssumption DEF TypeOK, Calls
<1>2. \A p \in alive' : clock'[p] # Nobody => now' <= clock'[p] + MaxDelay
  <2>1. \A p \in Owners : clock'[p] # Nobody => clock'[p] = clock[p]
    BY CallEnds
  <2> QED  BY <2>1 DEF TypeOK, ClocksInv
<1>3. CASE held' = held
  BY <1>2, <1>3 DEF ClocksInv
<1>4. ASSUME NEW r \in Resources, OnlyHeld(o, r), held'[o][r].expires = clock[o] + Ttl
      PROVE  ClocksInv'
  <2>1. ASSUME NEW p \in Owners, NEW q \in Resources PROVE held'[p][q].expires <= now' + Ttl
    BY <1>1, <1>4, LeaseAssumption DEF ClocksInv, OnlyHeld
  <2>2. ASSUME NEW p \in Owners \ alive', NEW q \in Resources PROVE held'[p][q] = NoLease
    BY <1>1, <1>4 DEF ClocksInv, OnlyHeld
  <2> QED  BY <1>2, <2>1, <2>2 DEF ClocksInv
<1> QED
  BY <1>3, <1>4

\* Init and every step keep the clocks.
LEMMA ClocksStep ==
    ASSUME TypeOK, TicketsInv, ClocksInv, [Next]_vars
    PROVE  ClocksInv'
<1> USE LeaseAssumption
<1>1. CASE Tick
  <2>1. now' = now + 1 /\ now \in Nat /\ UNCHANGED <<clock, held, alive>>
    BY <1>1 DEF TypeOK, Tick
  <2>2. ASSUME NEW o \in alive, clock[o] # Nobody PROVE now' <= clock[o] + MaxDelay
    <3>1. now < clock[o] + MaxDelay /\ clock[o] \in Nat
      BY <1>1, <2>2 DEF Tick, TypeOK
    <3> QED  BY <2>1, <3>1
  <2>3. ASSUME NEW o \in Owners, NEW r \in Resources PROVE held[o][r].expires <= now' + Ttl
    <3>1. held[o][r].expires <= now + Ttl /\ held[o][r].expires \in Nat
      BY DEF ClocksInv, TypeOK, Lease, Time
    <3> QED  BY <2>1, <3>1
  <2> QED  BY <2>1, <2>2, <2>3 DEF ClocksInv
<1>2. ASSUME NEW o \in Owners, ReadClock(o) PROVE ClocksInv'
  <2>1. \A p \in alive : clock'[p] # Nobody => now <= clock'[p] + MaxDelay
    BY <1>2 DEF TypeOK, ClocksInv, ReadClock
  <2> QED  BY <1>2, <2>1 DEF ClocksInv, ReadClock
<1>3. ASSUME NEW o \in Owners, CallFails(o) PROVE ClocksInv'
  BY <1>3, CallKeepsClocks DEF CallFails
<1>4. ASSUME NEW o \in Owners, NEW r \in Resources, End(o) \/ Release(o, r) PROVE ClocksInv'
  <2>1. now' = now /\ now \in Nat /\ alive' \subseteq alive /\ alive \ alive' \subseteq {o}
    BY <1>4 DEF End, Release, TypeOK
  <2>2. \A p \in Owners, q \in Resources :
           held'[p][q] = held[p][q] \/ (held'[p][q] = NoLease /\ p = o)
    BY <1>4 DEF End, Release, TypeOK
  <2>3. o \notin alive' => \A q \in Resources : held'[o][q] = NoLease
    BY <1>4 DEF End, Release, TypeOK
  <2>4. \A p \in alive' : clock'[p] = clock[p] /\ p \in alive
    BY <1>4 DEF End, Release, TypeOK
  <2>5. NoLease.expires = 0
    BY DEF NoLease
  <2>6. \A p \in Owners, q \in Resources : held'[p][q].expires <= now' + Ttl
    BY <2>1, <2>2, <2>5 DEF ClocksInv
  <2>7. \A p \in Owners \ alive', q \in Resources : held'[p][q] = NoLease
    BY <2>1, <2>2, <2>3 DEF ClocksInv
  <2> QED  BY <2>1, <2>4, <2>6, <2>7 DEF ClocksInv
<1>5. ASSUME NEW o \in Owners, NEW r \in Resources, Acquire(o, r) PROVE ClocksInv'
  <2>1. OnlyHeld(o, r) /\ held'[o][r].expires = clock[o] + Ttl
    BY <1>5, AcquireEffect
  <2>2. Calls(o) /\ UNCHANGED <<now, alive>>
    BY <1>5 DEF Acquire
  <2> QED  BY <2>1, <2>2, CallKeepsClocks
<1>6. ASSUME NEW o \in Owners, NEW r \in Resources, NEW c \in Owners, Handoff(o, r, c)
      PROVE  ClocksInv'
  BY <1>6, CallKeepsClocks DEF Handoff
<1>7. ASSUME NEW t \in tickets, Adopt(t) PROVE ClocksInv'
  <2>1. /\ t.to \in Owners /\ t.resource \in Resources
        /\ OnlyHeld(t.to, t.resource) /\ held'[t.to][t.resource].expires = clock[t.to] + Ttl
    BY <1>7, AdoptEffect
  <2>2. Calls(t.to) /\ UNCHANGED <<now, alive>>
    BY <1>7 DEF Adopt
  <2> QED  BY <2>1, <2>2, CallKeepsClocks
<1>8. ASSUME NEW o \in Owners, NEW r \in Resources, Heartbeat(o, r) PROVE ClocksInv'
  <2>1. OnlyHeld(o, r) /\ held'[o][r].expires = clock[o] + Ttl
    BY <1>8, HeartbeatEffect
  <2>2. Calls(o) /\ UNCHANGED <<now, alive>>
    BY <1>8 DEF Heartbeat
  <2> QED  BY <2>1, <2>2, CallKeepsClocks
<1>9. ASSUME NEW t \in tickets, HeartbeatAdopted(t) PROVE ClocksInv'
  <2>1. t.from \in Owners
    BY DEF TypeOK, Ticket
  <2> QED  BY <1>9, <2>1, CallKeepsClocks DEF HeartbeatAdopted
<1>10. ASSUME NEW t \in tickets, ReleaseAdopted(t) PROVE ClocksInv'
  BY <1>10 DEF ReleaseAdopted, ClocksInv
<1>11. CASE UNCHANGED vars
  BY <1>11 DEF ClocksInv, vars
<1>12. ASSUME NEW o \in Owners, End(o) PROVE ClocksInv'
  <2>1. CASE Resources = {}
    BY <1>12, <2>1 DEF ClocksInv, End, TypeOK
  <2> QED  BY <1>4, <1>12, <2>1
<1> QED
  BY <1>1, <1>2, <1>3, <1>4, <1>5, <1>6, <1>7, <1>8, <1>9, <1>10, <1>11, <1>12 DEF Next

-----------------------------------------------------------------------------
(* The tickets.                                                            *)

\* A row that lost its ticket, or kept it with its owner and token, is sound, as long as
\* the receiver's memory of the slot, if it changed, is of no token.
TicketKept(r) ==
    \/ row'[r].nonce = 0
    \/ /\ row'[r].owner = row[r].owner /\ row'[r].token = row[r].token
       /\ row'[r].to = row[r].to /\ row'[r].nonce = row[r].nonce
       /\ \/ held'[row[r].to][r].token = held[row[r].to][r].token
          \/ held'[row[r].to][r] = NoLease

\* While no ticket is made or used, the rows decide whether the tickets stay sound.
LEMMA TicketsKept ==
    ASSUME TypeOK, TicketsInv, UNCHANGED <<tickets, adopted>>,
           \A r \in Resources : TicketKept(r),
           \A r \in Resources : row'[r].owner = Nobody => row'[r].expires = 0
    PROVE  TicketsInv'
<1>1. ASSUME NEW r \in Resources, row'[r].nonce # 0
      PROVE  /\ RowTicket(r)' \in tickets'
             /\ row'[r].nonce \notin adopted'
             /\ held'[row'[r].to][r].token # row'[r].token
  <2>1. /\ row'[r].owner = row[r].owner /\ row'[r].token = row[r].token
        /\ row'[r].to = row[r].to /\ row'[r].nonce = row[r].nonce
        /\ \/ held'[row[r].to][r].token = held[row[r].to][r].token
           \/ held'[row[r].to][r] = NoLease
    BY <1>1 DEF TicketKept
  <2>2. RowTicket(r) \in tickets /\ row[r].nonce \notin adopted
    BY <1>1, <2>1 DEF TicketsInv
  <2>3. row[r].token > 0
    BY <2>2 DEF TicketsInv, RowTicket
  <2>4. held'[row[r].to][r].token # row[r].token
    BY <1>1, <2>1, <2>3 DEF TicketsInv, NoLease
  <2> QED  BY <2>1, <2>2, <2>4 DEF RowTicket
<1> QED
  BY <1>1 DEF TicketsInv

\* No operation on a lease makes a ticket unsound.
LEMMA TicketsStep ==
    ASSUME TypeOK, TicketsInv, [Next]_vars
    PROVE  TicketsInv'
<1> USE LeaseAssumption
<1>1. ASSUME UNCHANGED <<row, held, tickets, adopted>> PROVE TicketsInv'
  BY <1>1, TicketsKept DEF TicketKept, TicketsInv
<1>2. ASSUME NEW o \in Owners, End(o) PROVE TicketsInv'
  <2>1. ASSUME NEW r \in Resources PROVE TicketKept(r)
    <3>1. row[r].nonce # 0 => row[r].to \in Owners
      BY DEF TypeOK, Row
    <3> QED  BY <1>2, <3>1 DEF End, TicketKept, TypeOK
  <2> QED  BY <1>2, <2>1, TicketsKept DEF End, TicketsInv
<1>3. ASSUME NEW o \in Owners, NEW r \in Resources, Acquire(o, r) PROVE TicketsInv'
  <2>1. /\ Leased(row'[r], o, row[r].token + 1, clock[o] + Ttl)
        /\ OnlyRow(r) /\ OnlyHeld(o, r)
    BY <1>3, AcquireEffect
  <2>2. ASSUME NEW q \in Resources PROVE TicketKept(q)
    <3>1. row[q].nonce # 0 => row[q].to \in Owners
      BY DEF TypeOK, Row
    <3> QED  BY <2>1, <3>1 DEF TicketKept, Leased, OnlyRow, OnlyHeld
  <2>3. \A q \in Resources : row'[q].owner = Nobody => row'[q].expires = 0
    BY <2>1 DEF TicketsInv, Leased, OnlyRow
  <2> QED  BY <1>3, <2>2, <2>3, TicketsKept DEF Acquire
<1>4. ASSUME NEW o \in Owners, NEW r \in Resources, Heartbeat(o, r) PROVE TicketsInv'
  <2>1. /\ Renewed(r, clock[o] + Ttl) /\ OnlyHeld(o, r)
        /\ held'[o][r].token = held[o][r].token /\ row[r].owner = o
    BY <1>4, HeartbeatEffect
  <2>2. ASSUME NEW q \in Resources PROVE TicketKept(q)
    <3>1. row[q].nonce # 0 => row[q].to \in Owners
      BY DEF TypeOK, Row
    <3> QED  BY <2>1, <3>1 DEF TicketKept, Renewed, OnlyRow, OnlyHeld
  <2>3. \A q \in Resources : row'[q].owner = Nobody => row'[q].expires = 0
    BY <2>1 DEF TicketsInv, Renewed, OnlyRow
  <2> QED  BY <1>4, <2>2, <2>3, TicketsKept DEF Heartbeat
<1>5. ASSUME NEW t \in tickets, HeartbeatAdopted(t) PROVE TicketsInv'
  <2>1. /\ t.to \in Owners /\ t.resource \in Resources
        /\ Renewed(t.resource, clock[t.from] + Ttl) /\ row[t.resource].owner = t.to
    BY <1>5, HeartbeatAdoptedEffect
  <2>2. UNCHANGED <<held, tickets, adopted>>
    BY <1>5 DEF HeartbeatAdopted
  <2>3. ASSUME NEW q \in Resources PROVE TicketKept(q)
    BY <2>1, <2>2 DEF TicketKept, Renewed, OnlyRow
  <2>4. \A q \in Resources : row'[q].owner = Nobody => row'[q].expires = 0
    BY <2>1 DEF TicketsInv, Renewed, OnlyRow
  <2> QED  BY <2>2, <2>3, <2>4, TicketsKept
<1>6. ASSUME NEW r \in Resources, row' = Expired(r), UNCHANGED <<tickets, adopted>>,
             \A p \in Owners, q \in Resources :
                held'[p][q] = held[p][q] \/ held'[p][q] = NoLease
      PROVE  TicketsInv'
  <2>1. Leased(row'[r], row[r].owner, row[r].token, 0) /\ OnlyRow(r)
    BY <1>6, ExpiredEffect
  <2>2. ASSUME NEW q \in Resources PROVE TicketKept(q)
    <3>1. row[q].nonce # 0 => row[q].to \in Owners
      BY DEF TypeOK, Row
    <3> QED  BY <1>6, <2>1, <3>1 DEF TicketKept, Leased, OnlyRow
  <2>3. \A q \in Resources : row'[q].owner = Nobody => row'[q].expires = 0
    BY <2>1 DEF TicketsInv, Leased, OnlyRow
  <2> QED  BY <1>6, <2>2, <2>3, TicketsKept
<1>7. ASSUME NEW o \in Owners, NEW r \in Resources, Release(o, r) PROVE TicketsInv'
  <2>1. \A p \in Owners, q \in Resources : held'[p][q] = held[p][q] \/ held'[p][q] = NoLease
    BY <1>7 DEF Release, TypeOK
  <2>2. CASE row' = row
    <3>1. ASSUME NEW q \in Resources PROVE TicketKept(q)
      <4>1. row[q].nonce # 0 => row[q].to \in Owners
        BY DEF TypeOK, Row
      <4> QED  BY <2>1, <2>2, <4>1 DEF TicketKept
    <3> QED  BY <1>7, <2>2, <3>1, TicketsKept DEF Release, TicketsInv
  <2> QED  BY <1>6, <1>7, <2>1, <2>2 DEF Release
<1>8. ASSUME NEW t \in tickets, ReleaseAdopted(t) PROVE TicketsInv'
  <2>1. t.resource \in Resources
    BY DEF TypeOK, Ticket
  <2> QED  BY <1>6, <1>8, <2>1 DEF ReleaseAdopted
<1>9. ASSUME NEW o \in Owners, NEW r \in Resources, NEW c \in Owners, Handoff(o, r, c)
      PROVE  TicketsInv'
  <2> DEFINE n == Cardinality(tickets)
  <2>1. /\ n \in Nat /\ IsFiniteSet(tickets') /\ Cardinality(tickets') = n + 1
        /\ tickets' = tickets \cup {RowTicket(r)'}
        /\ row'[r].nonce = n + 1 /\ row'[r].token = row[r].token /\ row[r].token # 0
        /\ row'[r].owner = row[r].owner /\ row'[r].expires = row[r].expires
        /\ row'[r].to = c /\ held[c][r] = NoLease /\ held' = held /\ OnlyRow(r)
    BY <1>9, HandoffEffect
  <2>2. RowTicket(r)'.nonce = n + 1 /\ RowTicket(r)'.token = row[r].token
    BY <2>1 DEF RowTicket
  <2>3. row[r].token \in Nat /\ \A t \in tickets : t.nonce \in Nat
    BY DEF TypeOK, Row, Ticket
  <2>4. adopted' = adopted /\ \A k \in adopted : k \in Nat /\ k <= n
    BY <1>9 DEF Handoff, TypeOK, TicketsInv
  <2>5. \A t \in tickets : 0 < t.nonce /\ t.nonce <= n /\ t.token > 0
    BY DEF TicketsInv
  <2> HIDE DEF n
  <2>6. \A t \in tickets' : 0 < t.nonce /\ t.nonce <= n + 1 /\ t.token > 0
    BY <2>1, <2>2, <2>3, <2>5
  <2>7. \A k \in adopted' : k <= n + 1
    BY <2>1, <2>4
  <2>8. \A t, u \in tickets' : t.nonce = u.nonce => t = u
    <3>1. \A t \in tickets : t.nonce # n + 1
      BY <2>1, <2>3, <2>5
    <3> QED  BY <2>1, <2>2, <3>1 DEF TicketsInv
  <2>9. ASSUME NEW q \in Resources, row'[q].nonce # 0
        PROVE  /\ RowTicket(q)' \in tickets'
               /\ row'[q].nonce \notin adopted'
               /\ held'[row'[q].to][q].token # row'[q].token
    <3>1. CASE q = r
      <4>1. NoLease.token = 0
        BY DEF NoLease
      <4>2. n + 1 \notin adopted'
        BY <2>1, <2>4
      <4> QED  BY <2>1, <3>1, <4>1, <4>2
    <3>2. CASE q # r
      <4>1. row'[q] = row[q] /\ RowTicket(q)' = RowTicket(q)
        BY <2>1, <3>2 DEF OnlyRow, RowTicket
      <4> QED  BY <2>1, <2>4, <2>9, <4>1 DEF TicketsInv
    <3> QED  BY <3>1, <3>2
  <2>10. \A q \in Resources : row'[q].owner = Nobody => row'[q].expires = 0
    BY <2>1 DEF TicketsInv, OnlyRow
  <2> QED  BY <2>1, <2>6, <2>7, <2>8, <2>9, <2>10 DEF TicketsInv
<1>10. ASSUME NEW t \in tickets, Adopt(t) PROVE TicketsInv'
  <2> DEFINE r == t.resource
             o == t.to
  <2>1. /\ o \in Owners /\ r \in Resources
        /\ Leased(row'[r], o, t.token, clock[o] + Ttl)
        /\ OnlyRow(r) /\ OnlyHeld(o, r) /\ row[r].nonce = t.nonce
    BY <1>10, AdoptEffect
  <2>2. tickets' = tickets /\ adopted' = adopted \cup {t.nonce}
    BY <1>10 DEF Adopt
  <2>3. \A k \in adopted' : k <= Cardinality(tickets')
    BY <2>2 DEF TicketsInv
  <2>4. ASSUME NEW q \in Resources, row'[q].nonce # 0
        PROVE  /\ RowTicket(q)' \in tickets'
               /\ row'[q].nonce \notin adopted'
               /\ held'[row'[q].to][q].token # row'[q].token
    <3>1. q # r
      BY <2>1, <2>4 DEF Leased
    <3>2. row'[q] = row[q] /\ RowTicket(q)' = RowTicket(q)
      BY <2>1, <3>1 DEF OnlyRow, RowTicket
    <3>3. RowTicket(q) \in tickets /\ row[q].nonce \notin adopted
      BY <2>4, <3>2 DEF TicketsInv
    <3>4. RowTicket(q).resource # t.resource
      BY <3>1 DEF RowTicket
    <3>5. row[q].nonce # t.nonce
      <4>1. RowTicket(q).nonce = row[q].nonce
        BY DEF RowTicket
      <4> QED  BY <3>3, <3>4, <4>1 DEF TicketsInv
    <3>6. row[q].to \in Owners
      BY <2>4, <3>2 DEF TypeOK, Row
    <3>7. held'[row[q].to][q] = held[row[q].to][q]
      BY <2>1, <3>1, <3>6 DEF OnlyHeld
    <3> QED  BY <2>2, <2>4, <3>2, <3>3, <3>5, <3>7 DEF TicketsInv
  <2>5. \A q \in Resources : row'[q].owner = Nobody => row'[q].expires = 0
    BY <2>1 DEF TicketsInv, Leased, OnlyRow
  <2> QED  BY <2>2, <2>3, <2>4, <2>5 DEF TicketsInv
<1> QED
  BY <1>1, <1>2, <1>3, <1>4, <1>5, <1>7, <1>8, <1>9, <1>10
  DEF Next, vars, Tick, ReadClock, CallFails


-----------------------------------------------------------------------------
(* The leases processes believe in.                                        *)

\* A step that issues no ticket keeps the slack of every process, and one that issues
\* one does not shrink it.
LEMMA SlackGrows ==
    ASSUME tickets \subseteq tickets', NEW o \in Owners
    PROVE  Slack(o) \in Nat /\ Slack(o)' \in Nat /\ Slack(o) <= Slack(o)'
BY LeaseAssumption DEF Slack, Supervised

\* A lease that was given away stays given away while its token is remembered.
LEMMA GivenAwayStays ==
    ASSUME tickets \subseteq tickets', adopted \subseteq adopted', NEW o, NEW r,
           held'[o][r].token = held[o][r].token, GivenAway(o, r)
    PROVE  GivenAway(o, r)'
BY DEF GivenAway

\* A process whose memory of a slot a step leaves alone still has it in the table, or it
\* has run out, if the row keeps owner, token and expiry, or if the lease of the row was
\* another's, or had run out.
LEMMA BelievedKept ==
    ASSUME TypeOK, TypeOK', tickets \subseteq tickets', adopted \subseteq adopted', now <= now',
           NEW o \in Owners, NEW r \in Resources, Believed(o, r),
           held'[o][r] = held[o][r],
           \/ /\ row'[r].owner = row[r].owner /\ row'[r].token = row[r].token
              /\ row'[r].expires = row[r].expires
           \/ row[r].owner # o
           \/ row[r].expires <= now
    PROVE  Believed(o, r)'
<1>1. SUFFICES ASSUME held'[o][r] # NoLease, ~GivenAway(o, r)'
               PROVE  \/ /\ row'[r].owner = o /\ row'[r].token = held'[o][r].token
                         /\ held'[o][r].expires <= row'[r].expires + Slack(o)'
                      \/ held'[o][r].expires <= now' + Slack(o)'
  BY DEF Believed
<1>2. ~GivenAway(o, r)
  BY <1>1, GivenAwayStays
<1>3. \/ /\ row[r].owner = o /\ row[r].token = held[o][r].token
         /\ held[o][r].expires <= row[r].expires + Slack(o)
      \/ held[o][r].expires <= now + Slack(o)
  BY <1>1, <1>2 DEF Believed
<1>4. Slack(o) \in Nat /\ Slack(o)' \in Nat /\ Slack(o) <= Slack(o)'
  BY SlackGrows
<1>5. now \in Nat /\ now' \in Nat /\ held[o][r].expires \in Nat /\ row[r].expires \in Nat
  BY DEF TypeOK, Lease, Row, Time
<1> HIDE DEF Slack
<1> QED
  BY <1>1, <1>3, <1>4, <1>5

\* A lease whose memory is no longer than its row's expiry, and in the row, is believed in
\* rightly.
LEMMA BelievedNow ==
    ASSUME TypeOK', NEW o \in Owners, NEW r \in Resources,
           row'[r].owner = o, row'[r].token = held'[o][r].token,
           held'[o][r].expires = row'[r].expires
    PROVE  Believed(o, r)'
<1>1. held'[o][r].expires \in Nat /\ Slack(o)' \in Nat
  BY LeaseAssumption DEF TypeOK, Lease, Time, Slack
<1> HIDE DEF Slack
<1>2. held'[o][r].expires <= row'[r].expires + Slack(o)'
  BY <1>1
<1> QED
  BY <1>2 DEF Believed

\* Every step keeps the beliefs of every process right.
LEMMA BelievedStep ==
    ASSUME LeaseInv, TypeOK', [Next]_vars, NEW p \in Owners, NEW q \in Resources
    PROVE  Believed(p, q)'
<1> USE LeaseAssumption
<1> TypeOK /\ ClocksInv /\ TicketsInv /\ BelievedInv
  BY DEF LeaseInv
<1>0. now \in Nat /\ Believed(p, q) /\ row[q].expires \in Nat
  BY DEF TypeOK, BelievedInv, Row, Time
<1>1. ASSUME UNCHANGED <<row, held, tickets, adopted>>, now <= now' PROVE Believed(p, q)'
  BY <1>0, <1>1, BelievedKept
<1>2. ASSUME held'[p][q] = NoLease PROVE Believed(p, q)'
  BY <1>2 DEF Believed
<1>3. ASSUME NEW o \in Owners, End(o) PROVE Believed(p, q)'
  <2>1. CASE p = o
    BY <1>2, <1>3, <2>1 DEF End, TypeOK
  <2>2. CASE p # o
    BY <1>0, <1>3, <2>2, BelievedKept DEF End, TypeOK
  <2> QED  BY <2>1, <2>2
<1>4. ASSUME NEW o \in Owners, NEW r \in Resources, Acquire(o, r) PROVE Believed(p, q)'
  <2>1. /\ Leased(row'[r], o, row[r].token + 1, clock[o] + Ttl)
        /\ held'[o][r].token = row[r].token + 1 /\ held'[o][r].expires = clock[o] + Ttl
        /\ OnlyRow(r) /\ OnlyHeld(o, r) /\ row[r].expires <= clock[o] /\ clock[o] <= now
        /\ clock[o] \in Nat
    BY <1>4, AcquireEffect
  <2>2. UNCHANGED <<now, tickets, adopted>>
    BY <1>4 DEF Acquire
  <2>3. CASE p = o /\ q = r
    BY <2>1, <2>3, BelievedNow DEF Leased
  <2>4. CASE q # r
    BY <1>0, <2>1, <2>2, <2>4, BelievedKept DEF OnlyRow, OnlyHeld
  <2>5. CASE p # o /\ q = r
    <3>1. row[q].expires <= now
      BY <1>0, <2>1, <2>5
    <3>2. held'[p][q] = held[p][q]
      BY <2>1, <2>5 DEF OnlyHeld
    <3> QED  BY <1>0, <2>2, <3>1, <3>2, BelievedKept
  <2> QED  BY <2>3, <2>4, <2>5
<1>5. ASSUME NEW o \in Owners, NEW r \in Resources, NEW c \in Owners, Handoff(o, r, c)
      PROVE  Believed(p, q)'
  <2>1. /\ row'[r].owner = row[r].owner /\ row'[r].token = row[r].token
        /\ row'[r].expires = row[r].expires /\ OnlyRow(r)
        /\ held' = held /\ tickets \subseteq tickets'
    BY <1>5, HandoffEffect
  <2>2. UNCHANGED <<now, adopted>>
    BY <1>5 DEF Handoff
  <2> QED  BY <1>0, <2>1, <2>2, BelievedKept DEF OnlyRow
<1>6. ASSUME NEW t \in tickets, Adopt(t) PROVE Believed(p, q)'
  <2> DEFINE r == t.resource
             o == t.to
  <2>1. /\ o \in Owners /\ r \in Resources
        /\ Leased(row'[r], o, t.token, clock[o] + Ttl)
        /\ held'[o][r].token = t.token /\ held'[o][r].expires = clock[o] + Ttl
        /\ OnlyRow(r) /\ OnlyHeld(o, r)
        /\ row[r].token = t.token /\ row[r].to = t.to /\ row[r].nonce = t.nonce
    BY <1>6, AdoptEffect
  <2>2. UNCHANGED <<now, tickets>> /\ adopted' = adopted \cup {t.nonce}
    BY <1>6 DEF Adopt
  <2>3. CASE p = o /\ q = r
    BY <2>1, <2>3, BelievedNow DEF Leased
  <2>4. CASE q # r
    BY <1>0, <2>1, <2>2, <2>4, BelievedKept DEF OnlyRow, OnlyHeld
  <2>5. CASE p # o /\ q = r
    <3>1. held'[p][q] = held[p][q]
      BY <2>1, <2>5 DEF OnlyHeld
    <3>2. CASE row[r].owner # p
      BY <1>0, <2>2, <2>5, <3>1, <3>2, BelievedKept
    <3>3. CASE row[r].owner = p
      <4>1. row[r].nonce # 0 /\ t.nonce > 0
        BY <2>1 DEF TicketsInv
      <4>2. RowTicket(r) \in tickets /\ RowTicket(r).nonce = t.nonce
        BY <2>1, <4>1 DEF TicketsInv, RowTicket
      <4>3. RowTicket(r) = t /\ RowTicket(r).from = p
        BY <3>3, <4>2 DEF TicketsInv, RowTicket
      <4>4. CASE held[p][q].token = t.token
        <5>1. GivenAway(p, q)'
          BY <2>2, <2>5, <3>1, <4>3, <4>4 DEF GivenAway
        <5> QED  BY <5>1 DEF Believed
      <4>5. CASE held[p][q].token # t.token
        <5>1. held'[p][q] # NoLease /\ ~GivenAway(p, q)' =>
                 held[p][q].expires <= now + Slack(p)
          <6>1. SUFFICES ASSUME held'[p][q] # NoLease, ~GivenAway(p, q)'
                         PROVE  held[p][q].expires <= now + Slack(p)
            OBVIOUS
          <6>2. ~GivenAway(p, q)
            BY <2>2, <3>1, <6>1, GivenAwayStays
          <6> QED  BY <1>0, <2>1, <2>5, <3>1, <4>5, <6>1, <6>2 DEF Believed
        <5>2. Slack(p)' = Slack(p)
          BY <2>2 DEF Slack, Supervised
        <5> QED  BY <2>2, <3>1, <5>1, <5>2 DEF Believed
      <4> QED  BY <4>4, <4>5
    <3> QED  BY <3>2, <3>3
  <2> QED  BY <2>3, <2>4, <2>5
<1>7. ASSUME NEW o \in Owners, NEW r \in Resources, Heartbeat(o, r) PROVE Believed(p, q)'
  <2>1. /\ Renewed(r, clock[o] + Ttl) /\ OnlyHeld(o, r)
        /\ held'[o][r].token = held[o][r].token /\ held'[o][r].expires = clock[o] + Ttl
        /\ row[r].owner = o /\ row[r].token = held[o][r].token
    BY <1>7, HeartbeatEffect
  <2>2. UNCHANGED <<now, tickets, adopted>>
    BY <1>7 DEF Heartbeat
  <2>3. CASE p = o /\ q = r
    BY <2>1, <2>3, BelievedNow DEF Renewed
  <2>4. CASE q # r
    BY <1>0, <2>1, <2>2, <2>4, BelievedKept DEF OnlyRow, OnlyHeld, Renewed
  <2>5. CASE p # o /\ q = r
    BY <1>0, <2>1, <2>2, <2>5, BelievedKept DEF OnlyHeld
  <2> QED  BY <2>3, <2>4, <2>5
<1>8. ASSUME NEW t \in tickets, HeartbeatAdopted(t) PROVE Believed(p, q)'
  <2> DEFINE r == t.resource
             o == t.from
  <2>1. /\ o \in alive /\ t.to \in Owners /\ r \in Resources /\ clock[o] # Nobody
        /\ Renewed(r, clock[o] + Ttl) /\ row[r].owner = t.to
        /\ clock[o] \in Nat /\ clock[o] <= now
    BY <1>8, HeartbeatAdoptedEffect
  <2>2. UNCHANGED <<now, held, tickets, adopted>>
    BY <1>8 DEF HeartbeatAdopted
  <2>3. CASE q # r
    BY <1>0, <2>1, <2>2, <2>3, BelievedKept DEF OnlyRow, Renewed
  <2>4. CASE q = r /\ row[r].owner # p
    BY <1>0, <2>1, <2>2, <2>4, BelievedKept
  <2>5. CASE q = r /\ row[r].owner = p
    <3>1. Supervised(p)' /\ Slack(p)' = MaxDelay /\ Slack(p) = MaxDelay
      BY <2>1, <2>2, <2>5 DEF Supervised, Slack
    <3>2. held[p][q].expires <= now + Ttl /\ held[p][q].expires \in Nat
      BY DEF ClocksInv, TypeOK, Lease, Time
    <3>3. now <= clock[o] + MaxDelay
      BY <2>1 DEF ClocksInv
    <3>4. held[p][q].expires <= (clock[o] + Ttl) + MaxDelay
      BY <1>0, <2>1, <3>2, <3>3
    <3>5. row'[q].expires = clock[o] + Ttl /\ row'[q].owner = p /\ row'[q].token = row[q].token
      BY <2>1, <2>5 DEF Renewed
    <3>6. held'[p][q].expires <= row'[q].expires + Slack(p)'
      BY <2>2, <3>1, <3>4, <3>5
    <3>7. CASE row[q].token = held[p][q].token
      BY <2>2, <3>5, <3>6, <3>7 DEF Believed
    <3>8. CASE row[q].token # held[p][q].token
      <4>1. held'[p][q] # NoLease /\ ~GivenAway(p, q)' => held'[p][q].expires <= now' + Slack(p)'
        BY <1>0, <2>2, <3>1, <3>8 DEF Believed, GivenAway
      <4> QED  BY <4>1 DEF Believed
    <3> QED  BY <3>7, <3>8
  <2> QED  BY <2>3, <2>4, <2>5
<1>9. ASSUME NEW o \in Owners, NEW r \in Resources, Release(o, r) PROVE Believed(p, q)'
  <2>1. UNCHANGED <<now, tickets, adopted>> /\ held' = [held EXCEPT ![o][r] = NoLease]
    BY <1>9 DEF Release
  <2>2. CASE p = o /\ q = r
    BY <1>2, <2>1, <2>2 DEF TypeOK
  <2>3. CASE ~(p = o /\ q = r)
    <3>1. held'[p][q] = held[p][q]
      BY <2>1, <2>3 DEF TypeOK
    <3>2. CASE row' = row
      BY <1>0, <2>1, <3>1, <3>2, BelievedKept
    <3>3. CASE Owns(r, o, held[o][r].token) /\ row' = Expired(r)
      <4>1. OnlyRow(r)
        BY <3>3, ExpiredEffect
      <4>2. CASE q # r
        BY <1>0, <2>1, <3>1, <4>1, <4>2, BelievedKept DEF OnlyRow
      <4>3. CASE q = r /\ row[q].owner # p
        BY <1>0, <2>1, <3>1, <4>3, BelievedKept
      <4> QED  BY <2>3, <3>3, <4>2, <4>3 DEF Owns
    <3> QED  BY <1>9, <3>2, <3>3 DEF Release
  <2> QED  BY <2>2, <2>3
<1>10. ASSUME NEW t \in tickets, ReleaseAdopted(t) PROVE Believed(p, q)'
  <2> DEFINE r == t.resource
  <2>1. /\ UNCHANGED <<now, held, tickets, adopted>> /\ t.to \notin alive
        /\ row[r].owner = t.to /\ row' = Expired(r)
    BY <1>10 DEF ReleaseAdopted, Owns
  <2>2. r \in Resources /\ t.to \in Owners
    BY DEF TypeOK, Ticket
  <2>3. OnlyRow(r)
    BY <2>1, <2>2, ExpiredEffect
  <2>4. CASE q # r
    BY <1>0, <2>1, <2>3, <2>4, BelievedKept DEF OnlyRow
  <2>5. CASE q = r /\ p # t.to
    BY <1>0, <2>1, <2>5, BelievedKept
  <2>6. CASE p = t.to
    BY <1>2, <2>1, <2>2, <2>6 DEF ClocksInv
  <2> QED  BY <2>4, <2>5, <2>6
<1>11. CASE Tick
  BY <1>0, <1>1, <1>11 DEF Tick
<1>12. CASE UNCHANGED vars
  BY <1>0, <1>1, <1>12 DEF vars
<1>13. ASSUME NEW o \in Owners, ReadClock(o) \/ CallFails(o) PROVE Believed(p, q)'
  BY <1>0, <1>1, <1>13 DEF ReadClock, CallFails
<1> QED
  BY <1>3, <1>4, <1>5, <1>6, <1>7, <1>8, <1>9, <1>10, <1>11, <1>12, <1>13 DEF Next


\* The initial state satisfies the invariant.
LEMMA LeaseInitially == Init => LeaseInv
<1> SUFFICES ASSUME Init PROVE LeaseInv
  OBVIOUS
<1> USE LeaseAssumption
<1>1. NoLease \in Lease /\ NoLease.expires = 0
  BY DEF NoLease, Lease, Time
<1>2. TypeOK
  <2>1. row \in [Resources -> Row]
    BY DEF Init, Row, Time
  <2>2. \A r \in Resources : row[r].to = Nobody /\ row[r].nonce = 0 /\ row[r].owner = Nobody
                             /\ row[r].token = 0
    BY DEF Init
  <2>3. /\ now \in 0..MaxTime /\ clock \in [Owners -> 0..MaxTime \cup {Nobody}]
        /\ held \in [Owners -> [Resources -> Lease]]
        /\ \A o \in Owners : clock[o] # Nobody => clock[o] <= now
    BY <1>1 DEF Init
  <2> QED  BY <2>1, <2>2, <2>3 DEF Init, TypeOK
<1>3. ClocksInv
  <2>1. now = 0 /\ alive = Owners /\ \A o \in Owners : clock[o] = Nobody
    BY DEF Init
  <2>2. \A o \in Owners, r \in Resources : held[o][r] = NoLease
    BY DEF Init
  <2> QED  BY <1>1, <2>1, <2>2 DEF ClocksInv
<1>4. TicketsInv
  <2>1. tickets = {} /\ adopted = {}
    BY DEF Init
  <2>2. \A r \in Resources : row[r].nonce = 0 /\ row[r].expires = 0
    BY DEF Init
  <2> QED  BY <2>1, <2>2, FS_EmptySet DEF TicketsInv
<1>5. BelievedInv
  BY DEF Init, BelievedInv, Believed
<1> QED
  BY <1>2, <1>3, <1>4, <1>5 DEF LeaseInv

\* The invariant is inductive.
LEMMA LeaseInvHolds == Spec => []LeaseInv
<1>1. LeaseInv /\ [Next]_vars => LeaseInv'
  <2> SUFFICES ASSUME LeaseInv, [Next]_vars PROVE LeaseInv'
    OBVIOUS
  <2>1. TypeOK' /\ ClocksInv' /\ TicketsInv'
    BY TypeStep, ClocksStep, TicketsStep DEF LeaseInv
  <2>2. BelievedInv'
    BY <2>1, BelievedStep DEF BelievedInv
  <2> QED  BY <2>1, <2>2 DEF LeaseInv
<1> QED
  BY <1>1, LeaseInitially, PTL DEF Spec

-----------------------------------------------------------------------------
(* The theorems.                                                           *)

\* The clock, the table, the memories and the tickets keep their types, a handoff in a
\* row is whole or absent, and no process is ahead of the clock.
THEOREM LeasesAreTyped == Spec => []TypeOK
<1>1. LeaseInv => TypeOK
  BY DEF LeaseInv
<1> QED
  BY <1>1, LeaseInvHolds, PTL

\* Until the time a process remembers has come, the slot it leased is its own in the
\* table, however long its calls waited for the write lock.
THEOREM BelievedLeasesAreHeld == Spec => []BelievedLeasesHold
<1>1. ASSUME LeaseInv PROVE BelievedLeasesHold
  <2>1. SUFFICES ASSUME NEW o \in Owners, NEW r \in Resources,
                        held[o][r] # NoLease, ~GivenAway(o, r),
                        held[o][r].expires > now + Slack(o)
                 PROVE  row[r].owner = o /\ row[r].token = held[o][r].token
    BY DEF BelievedLeasesHold, Slack
  <2>2. held[o][r].expires \in Nat /\ now \in Nat /\ Slack(o) \in Nat
    BY <1>1, LeaseAssumption DEF LeaseInv, TypeOK, Lease, Time, Slack
  <2>3. Believed(o, r)
    BY <1>1 DEF LeaseInv, BelievedInv
  <2> HIDE DEF Slack
  <2> QED  BY <2>1, <2>2, <2>3 DEF Believed
<1> QED
  BY <1>1, LeaseInvHolds, PTL

\* What a step does to the owner and token of a row: nothing, a grant of the next token,
\* or the adoption of a ticket its owner issued.
LEMMA OwnersStep ==
    ASSUME LeaseInv, [Next]_vars, NEW r \in Resources
    PROVE  \/ row'[r].owner = row[r].owner /\ row'[r].token = row[r].token
           \/ \E o \in Owners : /\ row'[r].owner = o /\ row'[r].token = row[r].token + 1
                                /\ held[o][r] = NoLease
           \/ \E t \in tickets :
                 /\ t.resource = r /\ t.from = row[r].owner /\ t.to = row'[r].owner
                 /\ t.token = row[r].token /\ row'[r].token = row[r].token
                 /\ t.nonce \notin adopted /\ t.nonce \in adopted'
                 /\ row[r].nonce # 0 /\ t.to = row[r].to
<1> DEFINE Kept == row'[r].owner = row[r].owner /\ row'[r].token = row[r].token
<1> TypeOK /\ TicketsInv
  BY DEF LeaseInv
<1>1. ASSUME row' = row PROVE Kept
  BY <1>1
<1>2. ASSUME NEW o \in Owners, NEW q \in Resources, Acquire(o, q)
      PROVE  Kept \/ \E w \in Owners : /\ row'[r].owner = w /\ row'[r].token = row[r].token + 1
                                       /\ held[w][r] = NoLease
  <2>1. /\ Leased(row'[q], o, row[q].token + 1, clock[o] + Ttl)
        /\ OnlyRow(q) /\ held[o][q] = NoLease
    BY <1>2, AcquireEffect
  <2> QED  BY <2>1 DEF Leased, OnlyRow
<1>3. ASSUME NEW o \in Owners, NEW q \in Resources, NEW c \in Owners, Handoff(o, q, c) PROVE Kept
  <2>1. row'[q].owner = row[q].owner /\ row'[q].token = row[q].token /\ OnlyRow(q)
    BY <1>3, HandoffEffect
  <2> QED  BY <2>1 DEF OnlyRow
<1>4. ASSUME NEW u \in tickets, Adopt(u)
      PROVE  Kept \/ \E t \in tickets :
                 /\ t.resource = r /\ t.from = row[r].owner /\ t.to = row'[r].owner
                 /\ t.token = row[r].token /\ row'[r].token = row[r].token
                 /\ t.nonce \notin adopted /\ t.nonce \in adopted'
                 /\ row[r].nonce # 0 /\ t.to = row[r].to
  <2>1. /\ u.resource \in Resources /\ Leased(row'[u.resource], u.to, u.token, clock[u.to] + Ttl)
        /\ OnlyRow(u.resource) /\ row[u.resource].token = u.token
        /\ row[u.resource].to = u.to /\ row[u.resource].nonce = u.nonce
    BY <1>4, AdoptEffect
  <2>2. adopted' = adopted \cup {u.nonce}
    BY <1>4 DEF Adopt
  <2>3. CASE u.resource # r
    BY <2>1, <2>3 DEF OnlyRow
  <2>4. CASE u.resource = r
    <3>1. row[r].nonce # 0
      BY <2>1, <2>4 DEF TicketsInv
    <3>2. RowTicket(r) \in tickets /\ RowTicket(r).nonce = u.nonce /\ u.nonce \notin adopted
      BY <2>1, <2>4, <3>1 DEF TicketsInv, RowTicket
    <3>3. RowTicket(r) = u /\ RowTicket(r).from = row[r].owner
      BY <3>2 DEF TicketsInv, RowTicket
    <3> QED  BY <2>1, <2>2, <2>4, <3>1, <3>2, <3>3 DEF Leased
  <2> QED  BY <2>3, <2>4
<1>5. ASSUME NEW o \in Owners, NEW q \in Resources, Heartbeat(o, q) PROVE Kept
  <2>1. Renewed(q, clock[o] + Ttl)
    BY <1>5, HeartbeatEffect
  <2> QED  BY <2>1 DEF Renewed, OnlyRow
<1>6. ASSUME NEW t \in tickets, HeartbeatAdopted(t) PROVE Kept
  <2>1. Renewed(t.resource, clock[t.from] + Ttl)
    BY <1>6, HeartbeatAdoptedEffect
  <2> QED  BY <2>1 DEF Renewed, OnlyRow
<1>7. ASSUME NEW q \in Resources, row' = Expired(q) PROVE Kept
  <2>1. Leased(row'[q], row[q].owner, row[q].token, 0) /\ OnlyRow(q)
    BY <1>7, ExpiredEffect
  <2> QED  BY <2>1 DEF Leased, OnlyRow
<1>8. ASSUME NEW o \in Owners, NEW q \in Resources, Release(o, q) PROVE Kept
  BY <1>1, <1>7, <1>8 DEF Release
<1>9. ASSUME NEW t \in tickets, ReleaseAdopted(t) PROVE Kept
  <2>1. t.resource \in Resources
    BY DEF TypeOK, Ticket
  <2> QED  BY <1>7, <1>9, <2>1 DEF ReleaseAdopted
<1> QED
  BY <1>1, <1>2, <1>3, <1>4, <1>5, <1>6, <1>8, <1>9
  DEF Next, vars, Tick, ReadClock, CallFails, End

\* Within a fencing token a lease changes hands only through a ticket its owner issued and
\* that was never adopted before.
THEOREM OwnersMoveByTicket == Spec => OwnershipMovesByTicket
<1>1. ASSUME LeaseInv, [Next]_vars, NEW r \in Resources,
             row'[r].token = row[r].token, row'[r].owner # row[r].owner
      PROVE  \E t \in tickets : /\ t.nonce \notin adopted /\ t.nonce \in adopted'
                                /\ t.resource = r /\ t.token = row[r].token
                                /\ t.from = row[r].owner /\ t.to = row'[r].owner
  <2>1. row[r].token \in Nat
    BY <1>1 DEF LeaseInv, TypeOK, Row
  <2> QED  BY <1>1, <2>1, OwnersStep
<1>2. LeaseInv /\ [Next]_vars =>
         [\A r \in Resources :
             row'[r].token = row[r].token /\ row'[r].owner # row[r].owner =>
                \E t \in tickets : /\ t.nonce \notin adopted /\ t.nonce \in adopted'
                                   /\ t.resource = r /\ t.token = row[r].token
                                   /\ t.from = row[r].owner /\ t.to = row'[r].owner]_vars
  BY <1>1
<1> QED
  BY <1>2, LeaseInvHolds, PTL DEF Spec, OwnershipMovesByTicket

\* A lease that was fenced, given away or given up never becomes its former owner's again.
THEOREM LostLeasesAreGone == Spec => LostLeasesStayLost
<1>1. ASSUME LeaseInv, [Next]_vars, NEW o \in Owners, NEW r \in Resources,
             held[o][r] # NoLease, held'[o][r].token = held[o][r].token,
             ~Owns(r, o, held[o][r].token), Owns(r, o, held[o][r].token)'
      PROVE  FALSE
  <2>1. row'[r].owner = o /\ row'[r].token = held[o][r].token /\ held[o][r].token # 0
    BY <1>1 DEF Owns
  <2>2. row[r].owner # o \/ row[r].token # held[o][r].token
    BY <1>1, <2>1 DEF Owns
  <2>3. \E t \in tickets : /\ t.to = row'[r].owner /\ row'[r].token = row[r].token
                           /\ row[r].nonce # 0 /\ t.to = row[r].to
    BY <1>1, <2>1, <2>2, OwnersStep
  <2>4. held[row[r].to][r].token # row[r].token
    BY <1>1, <2>3 DEF LeaseInv, TicketsInv
  <2> QED  BY <2>1, <2>3, <2>4
<1>2. LeaseInv /\ [Next]_vars =>
         [\A o \in Owners, r \in Resources :
             /\ held[o][r] # NoLease /\ held'[o][r].token = held[o][r].token
             /\ ~Owns(r, o, held[o][r].token)
             => ~Owns(r, o, held[o][r].token)']_vars
  BY <1>1
<1> QED
  BY <1>2, LeaseInvHolds, PTL DEF Spec, LostLeasesStayLost


-----------------------------------------------------------------------------
(* The refinement: the values of the abstract variables.                   *)

Holder == [r \in Resources |-> row[r].owner]
Generation == [r \in Resources |-> row[r].token]
Lapsed == [r \in Resources |-> row[r].expires <= now]
Offers == [r \in Resources |-> IF row[r].nonce = 0 THEN {} ELSE {row[r].to}]

\* A row that keeps a field keeps its abstract value.
LEMMA SameRows ==
    ASSUME NEW r \in Resources, OnlyRow(r), now' = now
    PROVE  /\ row'[r].owner = row[r].owner => Holder' = Holder
           /\ row'[r].token = row[r].token => Generation' = Generation
           /\ row'[r].nonce = row[r].nonce /\ row'[r].to = row[r].to => Offers' = Offers
           /\ \E b \in BOOLEAN : Lapsed' = [Lapsed EXCEPT ![r] = b]
<1>1. \A q \in Resources : q # r => row'[q] = row[q]
  BY DEF OnlyRow
<1>2. row'[r].owner = row[r].owner => Holder' = Holder
  BY <1>1 DEF Holder
<1>3. row'[r].token = row[r].token => Generation' = Generation
  BY <1>1 DEF Generation
<1>4. row'[r].nonce = row[r].nonce /\ row'[r].to = row[r].to => Offers' = Offers
  BY <1>1 DEF Offers
<1>5. \E b \in BOOLEAN : Lapsed' = [Lapsed EXCEPT ![r] = b]
  <2> DEFINE b == row'[r].expires <= now
  <2>1. b \in BOOLEAN
    OBVIOUS
  <2>2. Lapsed' = [Lapsed EXCEPT ![r] = b]
    BY <1>1 DEF Lapsed
  <2> QED  BY <2>1, <2>2
<1> QED
  BY <1>2, <1>3, <1>4, <1>5

\* Every step of the leases is a step of the abstract lease, or leaves it as it was.
LEMMA LeaseRefines ==
    ASSUME LeaseInv, LeaseInv', [Next]_vars
    PROVE  [Abstract!LeaseNext]_(Abstract!leaseVars)
<1> USE LeaseAssumption
<1> DEFINE Goal == [Abstract!LeaseNext]_(Abstract!leaseVars)
<1> TypeOK /\ TicketsInv
  BY DEF LeaseInv
<1>1. ASSUME row' = row, now' = now PROVE Goal
  BY <1>1 DEF Abstract!leaseVars
<1>2. CASE Tick
  <2>1. row' = row
    BY <1>2 DEF Tick
  <2>2. Holder' = Holder /\ Generation' = Generation /\ Offers' = Offers
    BY <2>1 DEF Holder, Generation, Offers
  <2>3. Lapsed' \in [Resources -> BOOLEAN]
    BY DEF Lapsed
  <2>4. ASSUME NEW r \in Resources, Holder[r] = Nobody PROVE Lapsed'[r]
    <3>1. row[r].owner = Nobody
      BY <2>4 DEF Holder
    <3>2. row'[r].expires = 0 /\ now' \in Nat
      BY <1>2, <2>1, <3>1 DEF TicketsInv, TypeOK, Tick
    <3>3. row'[r].expires <= now'
      BY <3>2
    <3> QED  BY <3>3, Zenon DEF Lapsed
  <2>5. Abstract!RenewOrLapse
    BY <2>2, <2>3, <2>4 DEF Abstract!RenewOrLapse, Holder, Generation, Offers, Lapsed
  <2> QED  BY <2>5 DEF Abstract!LeaseNext
<1>3. ASSUME NEW r \in Resources, Renewed(r, row'[r].expires), now' = now, row[r].owner # Nobody
      PROVE  Goal
  <2>1. Holder' = Holder /\ Generation' = Generation /\ Offers' = Offers
    BY <1>3, SameRows DEF Renewed
  <2>2. Lapsed' \in [Resources -> BOOLEAN]
    BY DEF Lapsed
  <2>3. ASSUME NEW q \in Resources, Holder[q] = Nobody PROVE Lapsed'[q]
    <3>1. row[q].owner = Nobody /\ q # r
      BY <1>3, <2>3 DEF Holder
    <3>2. row'[q] = row[q]
      BY <1>3, <3>1 DEF Renewed, OnlyRow
    <3>3. row'[q].expires = 0 /\ now' \in Nat
      BY <1>3, <3>1, <3>2 DEF TicketsInv, TypeOK
    <3>4. row'[q].expires <= now'
      BY <3>3
    <3> QED  BY <3>4, Zenon DEF Lapsed
  <2>4. Abstract!RenewOrLapse
    BY <2>1, <2>2, <2>3 DEF Abstract!RenewOrLapse, Holder, Generation, Offers, Lapsed
  <2> QED  BY <2>4 DEF Abstract!LeaseNext
<1>4. ASSUME NEW o \in Owners, NEW r \in Resources, Acquire(o, r) PROVE Goal
  <2>1. /\ Leased(row'[r], o, row[r].token + 1, clock[o] + Ttl) /\ OnlyRow(r)
        /\ row[r].expires <= clock[o] /\ clock[o] <= now /\ clock[o] \in Nat
    BY <1>4, AcquireEffect
  <2>2. now' = now /\ now \in Nat /\ row[r].expires \in Nat
    BY <1>4 DEF Acquire, TypeOK, Row, Time
  <2>3. Lapsed[r]
    <3>1. row[r].expires <= now
      BY <2>1, <2>2
    <3> QED  BY <3>1, Zenon DEF Lapsed
  <2>4. Holder' = [Holder EXCEPT ![r] = o]
    BY <2>1 DEF Holder, Leased, OnlyRow
  <2>5. Generation' = [Generation EXCEPT ![r] = @ + 1]
    BY <2>1 DEF Generation, Leased, OnlyRow
  <2>6. Offers' = [Offers EXCEPT ![r] = {}]
    BY <2>1 DEF Offers, Leased, OnlyRow
  <2>7. \E b \in BOOLEAN : Lapsed' = [Lapsed EXCEPT ![r] = b]
    BY <2>1, <2>2, SameRows
  <2>8. Abstract!Grant(r, o)
    BY <2>3, <2>4, <2>5, <2>6, <2>7 DEF Abstract!Grant, Holder, Generation, Offers, Lapsed
  <2> QED  BY <2>8 DEF Abstract!LeaseNext
<1>5. ASSUME NEW o \in Owners, NEW r \in Resources, NEW c \in Owners, Handoff(o, r, c) PROVE Goal
  <2>1. /\ row'[r].owner = row[r].owner /\ row'[r].token = row[r].token
        /\ row'[r].expires = row[r].expires /\ row'[r].to = c
        /\ row'[r].nonce # 0 /\ OnlyRow(r) /\ row[r].owner = o /\ row[r].nonce = 0
    <3>1. /\ row'[r].nonce = Cardinality(tickets) + 1 /\ Cardinality(tickets) \in Nat
      BY <1>5, HandoffEffect
    <3>2. row'[r].nonce # 0
      BY <3>1
    <3> QED  BY <1>5, <3>2, HandoffEffect
  <2>2. now' = now
    BY <1>5 DEF Handoff
  <2>3. Holder' = Holder /\ Generation' = Generation
    BY <2>1, <2>2, SameRows
  <2>4. Lapsed' = Lapsed
    BY <2>1, <2>2 DEF Lapsed, OnlyRow
  <2>5. Offers' = [Offers EXCEPT ![r] = {c}] /\ Offers[r] = {} /\ Holder[r] \in Owners
    BY <2>1 DEF Offers, OnlyRow, Holder
  <2>6. Abstract!Offer(r, c)
    BY <2>3, <2>4, <2>5 DEF Abstract!Offer, Holder, Generation, Offers, Lapsed
  <2> QED  BY <2>6 DEF Abstract!LeaseNext
<1>6. ASSUME NEW t \in tickets, Adopt(t) PROVE Goal
  <2> DEFINE r == t.resource
  <2>1. /\ r \in Resources /\ t.to \in Owners /\ OnlyRow(r)
        /\ Leased(row'[r], t.to, t.token, clock[t.to] + Ttl)
        /\ row[r].token = t.token /\ row[r].to = t.to /\ row[r].nonce = t.nonce
    BY <1>6, AdoptEffect
  <2>2. now' = now
    BY <1>6 DEF Adopt
  <2>3. t.nonce # 0
    BY DEF TicketsInv
  <2> HIDE DEF r
  <2>4. t.to \in Offers[r]
    BY <2>1, <2>3 DEF Offers
  <2>5. Holder' = [Holder EXCEPT ![r] = t.to]
    BY <2>1 DEF Holder, Leased, OnlyRow
  <2>6. Offers' = [Offers EXCEPT ![r] = {}]
    BY <2>1 DEF Offers, Leased, OnlyRow
  <2>7. Generation' = Generation /\ \E b \in BOOLEAN : Lapsed' = [Lapsed EXCEPT ![r] = b]
    BY <2>1, <2>2, SameRows DEF Leased
  <2>8. Abstract!Pass(r, t.to)
    BY <2>4, <2>5, <2>6, <2>7 DEF Abstract!Pass, Holder, Generation, Offers, Lapsed
  <2> QED  BY <2>1, <2>8 DEF Abstract!LeaseNext
<1>7. ASSUME NEW o \in Owners, NEW r \in Resources, Heartbeat(o, r) PROVE Goal
  <2>1. Renewed(r, row'[r].expires) /\ row[r].owner = o
    BY <1>7, HeartbeatEffect DEF Renewed
  <2> QED  BY <1>3, <1>7, <2>1 DEF Heartbeat
<1>8. ASSUME NEW t \in tickets, HeartbeatAdopted(t) PROVE Goal
  <2>1. /\ Renewed(t.resource, row'[t.resource].expires) /\ row[t.resource].owner = t.to
        /\ t.resource \in Resources /\ t.to \in Owners
    BY <1>8, HeartbeatAdoptedEffect DEF Renewed
  <2> QED  BY <1>3, <1>8, <2>1 DEF HeartbeatAdopted
<1>9. ASSUME NEW r \in Resources, row' = Expired(r), now' = now PROVE Goal
  <2>1. Leased(row'[r], row[r].owner, row[r].token, 0) /\ OnlyRow(r)
    BY <1>9, ExpiredEffect
  <2>2. Holder' = Holder /\ Generation' = Generation
    BY <1>9, <2>1, SameRows DEF Leased
  <2>3. Offers' = [Offers EXCEPT ![r] = {}]
    BY <2>1 DEF Offers, Leased, OnlyRow
  <2>4. row'[r].expires <= now
    BY <2>1 DEF Leased, TypeOK
  <2>5. Lapsed' = [Lapsed EXCEPT ![r] = TRUE]
    BY <1>9, <2>1, <2>4 DEF Lapsed, OnlyRow
  <2>6. Abstract!GiveUp(r)
    BY <2>2, <2>3, <2>5 DEF Abstract!GiveUp, Holder, Generation, Offers, Lapsed
  <2> QED  BY <2>6 DEF Abstract!LeaseNext
<1>10. ASSUME NEW o \in Owners, NEW r \in Resources, Release(o, r) PROVE Goal
  BY <1>1, <1>9, <1>10 DEF Release
<1>11. ASSUME NEW t \in tickets, ReleaseAdopted(t) PROVE Goal
  <2>1. t.resource \in Resources
    BY DEF TypeOK, Ticket
  <2> QED  BY <1>9, <1>11, <2>1 DEF ReleaseAdopted
<1>12. ASSUME NEW o \in Owners, ReadClock(o) \/ CallFails(o) \/ End(o) PROVE Goal
  BY <1>1, <1>12 DEF ReadClock, CallFails, End
<1>13. CASE UNCHANGED vars
  BY <1>1, <1>13 DEF vars
<1> QED
  BY <1>2, <1>4, <1>5, <1>6, <1>7, <1>8, <1>10, <1>11, <1>12, <1>13 DEF Next

\* The table, the tickets and the memories of the processes implement a lease with one
\* holder in generations, which moves within a generation only as its holder offered.
THEOREM LeasesAreExclusive == Spec => ImplementsExclusiveLease
<1>1. ASSUME Init PROVE Abstract!LeaseInit
  <2>1. \A r \in Resources : /\ row[r].owner = Nobody /\ row[r].token = 0
                             /\ row[r].nonce = 0 /\ row[r].expires <= now
    BY <1>1 DEF Init
  <2> QED  BY <2>1 DEF Abstract!LeaseInit
<1>2. LeaseInv /\ LeaseInv' /\ [Next]_vars => [Abstract!LeaseNext]_(Abstract!leaseVars)
  BY LeaseRefines
<1> QED
  BY <1>1, <1>2, LeaseInvHolds, PTL DEF Spec, ImplementsExclusiveLease, Abstract!LeaseSpec

=============================================================================
