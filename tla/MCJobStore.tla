----------------------------- MODULE MCJobStore -----------------------------
(***************************************************************************)
(* Instances of JobStore for TLC.  Every table at its full size at once is *)
(* too much: a behaviour keeps within one of the sizes in Sizes.           *)
(***************************************************************************)
EXTENDS JobStore, TLC

CONSTANTS j1, j2, w1, w2, k1, k2, p1, p2, p3, c1, c2, r1, s1

VARIABLE focus

\* How many ids and generations a behaviour may use: takeovers, questions to the user,
\* paid calls, submissions.
Sizes ==
    [attempts   |-> [jobs |-> 1, owners |-> 2, generations |-> 3, attempts |-> 2,
                     operations |-> 0, challenges |-> 0, clients |-> 0],
     challenges |-> [jobs |-> 1, owners |-> 1, generations |-> 1, attempts |-> 3,
                     operations |-> 1, challenges |-> 2, clients |-> 0],
     operations |-> [jobs |-> 1, owners |-> 2, generations |-> 2, attempts |-> 2,
                     operations |-> 3, challenges |-> 0, clients |-> 0],
     retry      |-> [jobs |-> 2, owners |-> 1, generations |-> 1, attempts |-> 1,
                     operations |-> 0, challenges |-> 0, clients |-> 2]]

\* Jobs, client ids and Challenges are compared for equality only, and a used one stays
\* used: the order in which they are taken loses no behaviour.
InOrder ==
    /\ job[j2].state # "absent" => job[j1].state # "absent"
    /\ challenge[c2].state # "absent" => challenge[c1].state # "absent"
    /\ (\E j \in Jobs : job[j].client = k2) => \E j \in Jobs : job[j].client = k1

Fits ==
    LET size == Sizes[focus]
    IN  /\ Cardinality({j \in Jobs : job[j].state # "absent"}) <= size.jobs
        /\ Cardinality({a \in Attempts : attempt[a].state # "absent"}) <= size.attempts
        /\ Cardinality({o \in Operations : operation[o].state # "absent"}) <= size.operations
        /\ Cardinality({c \in Challenges : challenge[c].state # "absent"}) <= size.challenges
        /\ Cardinality({auth.owner : auth \in authorities}) <= size.owners
        /\ Cardinality({job[j].client : j \in Jobs} \ {Nobody}) <= size.clients
        /\ \A j \in Jobs : /\ claim[j].generation <= size.generations
                           /\ claim[j].launches <= size.clients
        /\ InOrder

FocusInit == Init /\ focus \in DOMAIN Sizes
FocusNext == UNCHANGED focus /\ Next /\ Fits'
FocusSpec == FocusInit /\ [][FocusNext]_<<vars, focus>>

\* So are owners and operations.
Symmetry == Permutations(Owners) \cup Permutations(Operations)

=============================================================================
