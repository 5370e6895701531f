-------------------------- MODULE KnowledgeCompiler --------------------------
(***************************************************************************)
(* The compiler of knowledge notes: a plan cuts the transcript into        *)
(* chunks, a concurrent wave extracts knowledge items from every chunk,    *)
(* waves of consolidation merge the items until one request can hold them, *)
(* a composer writes the article, and a gate repairs it at most once.      *)
(*                                                                         *)
(* Texts are abstracted to their sizes, to the items they account for and  *)
(* to whether the checks pass.  Tokens and bytes are one unit here: both   *)
(* budgets bound the encoded request.                                      *)
(***************************************************************************)
EXTENDS Integers, FiniteSets, SequencesExt, Totals

CONSTANTS
    Transcripts,      \* the transcripts to compile: sequences of segment sizes
    MaxLength,        \* segments that fit into the duration of a chunk
    Budget,           \* the safe input of one request
    Overhead,         \* what the planner reserves for the prompt
    MapBase, ConsolidateBase, ComposeBase, \* what the three prompts take without data
    Estimate,         \* the output of a map request the planner reckons with
    MapOut,           \* the largest projection of such an output into a later request
    MaxItems,         \* items of one response
    MaxCovered, MaxOmitted, \* the two halves of a coverage ledger
    Workers,          \* concurrent map requests
    Observations      \* what the analysis of the frames adds to the composer's prompt

CompilerAssumption ==
    /\ Transcripts \subseteq Seq(Nat \ {0}) \ {<<>>}
    /\ {MaxLength, Budget, Estimate, MapOut, MaxItems, Workers, MaxCovered} \subseteq Nat \ {0}
    /\ {Overhead, MapBase, ConsolidateBase, ComposeBase, MaxOmitted, Observations} \subseteq Nat
    /\ Overhead < Budget
    /\ ComposeBase <= ConsolidateBase + MapOut

VARIABLES
    transcript,
    illustrated,        \* the request has video frames
    phase,
    topology, expected, chunks, \* the frozen plan; chunks counts them
    reads,              \* per chunk: the state of its map request
    maps,               \* per chunk: the sizes of its items
    items,              \* the items to compose from: records of id and size
    lineage,            \* item id -> the roots it stands for
    rest, next, nextLineage, \* the wave under way
    batches,            \* batch_ordinal
    waves,              \* finished consolidation waves
    dropped,            \* sequence of the roots omitted by consolidations
    coverage,           \* the ledger of the article: what it covers and what it omits
    text,               \* the flaws of the article
    repairs,            \* repairs left
    calls, repaired, sequential, \* answered model calls, repairs among them, waves
    error

vars == <<transcript, illustrated, phase, topology, expected, chunks, reads, maps, items, lineage, rest, next,
          nextLineage, batches, waves, dropped, coverage, text, repairs, calls, repaired,
          sequential, error>>
plan == <<transcript, illustrated, topology, expected, chunks>>
wave == <<rest, next, nextLineage, batches>>
article == <<coverage, text, repairs>>
account == <<calls, repaired, sequential>>

-----------------------------------------------------------------------------
(* The planner.                                                            *)
Ceiling(a, b) == (a + b - 1) \div b

(* Whether a segment still goes into the chunk being filled.               *)
Joins(chunk, size) ==
    /\ chunk # <<>>
    /\ Overhead + Total(chunk) + size <= Budget
    /\ Len(chunk) < MaxLength

Place(acc, size) ==
    IF Joins(acc.open, size) \/ acc.open = <<>>
    THEN [acc EXCEPT !.open = Append(@, size)]
    ELSE [done |-> Append(acc.done, acc.open), open |-> <<size>>]

(* The chunks: the last one is flushed at the end.                         *)
ChunksOf(t) ==
    LET f[n \in 0 .. Len(t)] ==
            IF n = 0 THEN [done |-> <<>>, open |-> <<>>] ELSE Place(f[n - 1], t[n])
    IN  Append(f[Len(t)].done, f[Len(t)].open)

Many(t) == Len(ChunksOf(t))

(* The waves the planner expects of a hierarchy: chunks, not items, count. *)
Shrink(n, fan, left) ==
    LET f[r \in 0 .. n] == IF r * Estimate <= left THEN 0 ELSE 1 + f[Ceiling(r, fan)]
    IN  f[n]

PlannerFanIn == (Budget - Overhead) \div Estimate

SegmentTooLarge(t) == \E i \in DOMAIN t : Overhead + t[i] > Budget

Planned(t) ==
    IF Many(t) = 1 THEN [topology |-> "direct", expected |-> 1]
    ELSE IF Many(t) * Estimate <= Budget - Overhead
         THEN [topology |-> "map", expected |-> 2]
         ELSE [topology |-> "hierarchy",
               expected |-> 2 + Shrink(Many(t), PlannerFanIn, Budget - Overhead)]

Plannable(t) ==
    /\ ~SegmentTooLarge(t)
    /\ Planned(t).topology = "hierarchy" => PlannerFanIn >= 2

-----------------------------------------------------------------------------
(* The topology is frozen before the first paid call.                      *)
ItemCapacity == MaxCovered + MaxOmitted
ComposerBase == ComposeBase + (IF illustrated THEN Observations ELSE 0)

(* Mutant: the bytes of the composer's prompt are not reckoned with.       *)
MapComposeFeasibleByTokens(t) ==
    Many(t) * MaxItems <= ItemCapacity /\ Many(t) * Estimate <= Budget - Overhead
MapComposeFeasible(t) ==
    /\ Many(t) * MaxItems <= ItemCapacity
    /\ Many(t) * Estimate <= Budget - Overhead
    /\ ComposeBase + Many(t) * MapOut <= Budget

DirectFits(t) == Len(t) <= ItemCapacity /\ ComposeBase + Total(t) <= Budget

FanIn == IF Budget > ConsolidateBase THEN (Budget - ConsolidateBase) \div MapOut ELSE 0
HierarchyFeasible == MaxCovered >= 2 /\ FanIn >= 2

Frozen(t) ==
    LET p == Planned(t)
        deeper == [topology |-> "hierarchy", expected |-> IF p.expected > 3 THEN p.expected ELSE 3]
    IN  IF p.topology = "direct" /\ ~DirectFits(t)
        THEN IF MapComposeFeasible(t) THEN [topology |-> "map", expected |-> 2] ELSE deeper
        ELSE IF p.topology = "map" /\ ~MapComposeFeasible(t) THEN deeper ELSE p

MapRequestsFit(t) ==
    \A c \in DOMAIN ChunksOf(t) : MapBase + Total(ChunksOf(t)[c]) <= Budget

Acceptable(t) ==
    /\ Plannable(t)
    /\ Frozen(t).topology = "hierarchy" => HierarchyFeasible
    /\ Frozen(t).topology # "direct" => MapRequestsFit(t) /\ ~illustrated

-----------------------------------------------------------------------------
Empty == [x \in {} |-> x]
Nothing == [covered |-> {}, omitted |-> {}]

Init ==
    /\ transcript \in Transcripts /\ illustrated \in BOOLEAN
    /\ phase = "new" /\ topology = "direct" /\ expected = 0 /\ chunks = 0
    /\ reads = <<>> /\ maps = <<>>
    /\ items = <<>> /\ lineage = Empty /\ rest = <<>> /\ next = <<>> /\ nextLineage = Empty
    /\ batches = 0 /\ waves = 0 /\ dropped = <<>>
    /\ coverage = Nothing /\ text = {} /\ repairs = 1
    /\ calls = 0 /\ repaired = 0 /\ sequential = 0 /\ error = "none"

Raise(e) == phase' = "failed" /\ error' = e

Prepare ==
    /\ phase = "new" /\ Acceptable(transcript)
    /\ topology' = Frozen(transcript).topology
    /\ expected' = Frozen(transcript).expected + (IF illustrated THEN 2 ELSE 0)
    /\ chunks' = Many(transcript)
    /\ reads' = [c \in 1 .. chunks' |-> "waiting"] /\ maps' = [c \in 1 .. chunks' |-> <<>>]
    /\ phase' = IF illustrated THEN "analyze" ELSE IF topology' = "direct" THEN "compose" ELSE "map"
    /\ UNCHANGED <<transcript, illustrated, items, lineage, wave, waves, dropped, article,
                   account, error>>

Reject ==
    /\ phase = "new" /\ ~Acceptable(transcript) /\ Raise("rejected")
    /\ UNCHANGED <<plan, reads, maps, items, lineage, wave, waves, dropped, article, account>>

(* A call of the compile thread is answered, or ends in an error: of the   *)
(* provider, of the parser or of a contract.                               *)
Answer(next_) == calls' = calls + 1 /\ phase' = next_ /\ UNCHANGED error
Refused == Raise("response") /\ UNCHANGED calls

Analyze ==
    /\ phase = "analyze"
    /\ \/ Answer("compose")
       \/ Refused
    /\ UNCHANGED <<plan, reads, maps, items, lineage, wave, waves, dropped, article, repaired,
                   sequential>>

-----------------------------------------------------------------------------
(* The map wave.  The pool takes the chunks in order; its results are read *)
(* in order too, so that a failure is noticed after the chunks before it.  *)
Chunks == 1 .. chunks
Running == {c \in Chunks : reads[c] = "running"}

Failing == \E c \in Chunks : reads[c] = "failed" /\ \A d \in 1 .. c - 1 : reads[d] = "answered"

StartMap(c) ==
    /\ phase = "map" /\ reads[c] = "waiting" /\ ~Failing
    /\ \A d \in 1 .. c - 1 : reads[d] # "waiting"
    /\ Cardinality(Running) < Workers
    /\ reads' = [reads EXCEPT ![c] = "running"]
    /\ UNCHANGED <<plan, phase, maps, items, lineage, wave, waves, dropped, article, account, error>>

(* What the parser accepts: at least one item, in bounds.                  *)
Responses ==
    {s \in UNION {[1 .. n -> 1 .. MapOut] : n \in 1 .. MaxItems} : Total(s) <= MapOut}

EndMap(c) ==
    /\ phase = "map" /\ reads[c] = "running"
    /\ \/ \E s \in Responses :
             /\ maps' = [maps EXCEPT ![c] = s] /\ calls' = calls + 1
             /\ reads' = [reads EXCEPT ![c] = "answered"]
       \/ /\ reads' = [reads EXCEPT ![c] = "failed"] /\ UNCHANGED <<maps, calls>>
    /\ UNCHANGED <<plan, phase, items, lineage, wave, waves, dropped, article, repaired, sequential,
                   error>>

(* The chunks that have not begun are cancelled; those that run are        *)
(* awaited.                                                                *)
FailMap ==
    /\ phase = "map" /\ Failing /\ Running = {} /\ Raise("response")
    /\ UNCHANGED <<plan, reads, maps, items, lineage, wave, waves, dropped, article, account>>

Root(c, i) == <<0, c, i>>
RootsOf(c) == [i \in DOMAIN maps[c] |-> [id |-> Root(c, i), size |-> maps[c][i]]]
RootItems == FlattenSeq([c \in Chunks |-> RootsOf(c)])
Ids(s) == {s[i].id : i \in DOMAIN s}
Roots == UNION {{Root(c, i) : i \in DOMAIN maps[c]} : c \in Chunks}

CollectMaps ==
    /\ phase = "map" /\ \A c \in Chunks : reads[c] = "answered"
    /\ items' = RootItems /\ lineage' = [r \in Roots |-> {r}]
    /\ sequential' = 2
    /\ phase' = IF topology = "hierarchy" THEN "consolidate" ELSE "compose"
    /\ UNCHANGED <<plan, reads, maps, wave, waves, dropped, article, calls, repaired, error>>

-----------------------------------------------------------------------------
(* Consolidation.                                                          *)
SizeOf(s) == Total([i \in DOMAIN s |-> s[i].size])
Composable(s) == Len(s) <= MaxCovered /\ ComposeBase + SizeOf(s) <= Budget

Lesser(a, b) == IF a < b THEN a ELSE b
Greater(a, b) == IF a < b THEN b ELSE a
BatchSize == Lesser(MaxCovered, Greater(2, FanIn * MaxItems))
MaxWaves == Greater(1, Cardinality(Roots) - 1)

(* A wave begins, or the items cannot be made to fit.                      *)
BeginWave ==
    /\ phase = "consolidate" /\ ~Composable(items)
    /\ IF Len(items) >= 2 /\ waves < MaxWaves
       THEN rest' = items /\ next' = <<>> /\ nextLineage' = Empty /\ phase' = "wave"
            /\ UNCHANGED error
       ELSE Raise("context") /\ UNCHANGED <<rest, next, nextLineage>>
    /\ UNCHANGED <<plan, reads, maps, items, lineage, batches, waves, dropped, article, account>>

LeaveConsolidation ==
    /\ phase = "consolidate" /\ Composable(items)
    /\ phase' = "compose" /\ sequential' = sequential + waves
    /\ UNCHANGED <<plan, reads, maps, items, lineage, wave, waves, dropped, article, calls,
                   repaired, error>>

(* A single item left over passes through the wave.                        *)
PassSingle ==
    /\ phase = "wave" /\ Len(rest) = 1
    /\ next' = next \o rest
    /\ nextLineage' = [x \in DOMAIN nextLineage \cup {rest[1].id} |->
                          IF x = rest[1].id THEN lineage[x] ELSE nextLineage[x]]
    /\ rest' = <<>>
    /\ UNCHANGED <<plan, phase, reads, maps, items, lineage, batches, waves, dropped, article,
                   account, error>>

(* The longest batch whose request fits, of two items at least.            *)
Fits(n) == ConsolidateBase + SizeOf(SubSeq(rest, 1, n)) <= Budget
Batch ==
    LET most == Lesser(BatchSize, Len(rest))
        ok == {n \in 2 .. most : Fits(n)}
    IN  SubSeq(rest, 1, IF ok = {} THEN 2 ELSE CHOOSE n \in ok : \A m \in ok : m <= n)

(* What the parser accepts for a batch: outcome[i] is the output item that *)
(* takes input i, 0 if the input is omitted.  Every output has an input,   *)
(* there are fewer outputs than inputs, and every input has one outcome.   *)
Outcomes(batch) ==
    {o \in [DOMAIN batch -> 0 .. Lesser(MaxItems, Len(batch) - 1)] :
        LET used == {o[i] : i \in DOMAIN batch} \ {0}
        IN  /\ used # {} /\ used = 1 .. Cardinality(used)
            /\ Cardinality({i \in DOMAIN batch : o[i] = 0}) <= MaxOmitted}

Outputs(o) == {o[i] : i \in DOMAIN o} \ {0}
NewId(k) == <<1, batches, k>>

(* The roots an output stands for, and those its omissions drop.           *)
Merged(batch, o, k) == UNION {lineage[batch[i].id] : i \in {j \in DOMAIN batch : o[j] = k}}
(* Mutant: the inputs that are omitted are recorded, not their roots.      *)
DroppedInputs(batch, o) == {batch[i].id : i \in {j \in DOMAIN batch : o[j] = 0}}
Dropped(batch, o) == Merged(batch, o, 0)

Take(batch, o, size) ==
    LET outs == Outputs(o)
        new == [k \in 1 .. Cardinality(outs) |-> [id |-> NewId(k), size |-> size]]
    IN  /\ Cardinality(outs) * size <= MapOut
        /\ next' = next \o new
        /\ nextLineage' = [x \in DOMAIN nextLineage \cup Ids(new) |->
                              IF x \in Ids(new) THEN Merged(batch, o, x[3]) ELSE nextLineage[x]]
        /\ dropped' = dropped \o SetToSeq(Dropped(batch, o))
        /\ rest' = SubSeq(rest, Len(batch) + 1, Len(rest))
        /\ batches' = batches + 1

Consolidate ==
    /\ phase = "wave" /\ Len(rest) >= 2
    /\ IF Fits(Len(Batch))
       THEN \/ \E o \in Outcomes(Batch), size \in 1 .. MapOut :
                  Take(Batch, o, size) /\ Answer("wave")
            \/ Refused /\ UNCHANGED <<wave, dropped>>
       ELSE Raise("budget") /\ UNCHANGED <<wave, dropped, calls>>
    /\ UNCHANGED <<plan, reads, maps, items, lineage, waves, article, repaired, sequential>>

EndWave ==
    /\ phase = "wave" /\ rest = <<>>
    /\ items' = next /\ lineage' = nextLineage
    /\ IF Len(next) >= Len(items) THEN Raise("no_progress") /\ UNCHANGED waves
       ELSE phase' = "consolidate" /\ waves' = waves + 1 /\ UNCHANGED error
    /\ UNCHANGED <<plan, reads, maps, wave, dropped, article, account>>

-----------------------------------------------------------------------------
(* Composition.  Segments are the inputs of a direct one.                  *)
Inputs == IF topology = "direct" THEN {<<2, 0, i>> : i \in DOMAIN transcript} ELSE Ids(items)
Required == IF topology = "direct" THEN Inputs ELSE Roots

ComposeSize ==
    ComposerBase + (IF topology = "direct" THEN Total(transcript) ELSE SizeOf(items))

Ledgers(inputs) ==
    {[covered |-> inputs \ o, omitted |-> o] : o \in
        {x \in SUBSET inputs : /\ Cardinality(x) <= MaxOmitted
                              /\ Cardinality(inputs \ x) <= MaxCovered}}

(* The ledger in terms of the roots.  `dropped' and the lineages of the    *)
(* inputs must be disjoint and cover the roots.                            *)
Lines(ids) == UNION {lineage[x] : x \in ids}
Expanded(l) ==
    IF topology # "hierarchy" THEN l
    ELSE [covered |-> Lines(l.covered), omitted |-> Lines(l.omitted) \cup ToSet(dropped)]

Expandable(l) ==
    topology = "hierarchy" =>
        /\ Expanded(l).covered \cup Expanded(l).omitted = Roots
        /\ Total([i \in DOMAIN items |-> Cardinality(lineage[items[i].id])]) + Len(dropped)
             = Cardinality(Roots)

(* The flaws the checks of the layout and of the gate can find.            *)
Flaws == IF illustrated THEN {"layout", "quality"} ELSE {"quality"}

Compose ==
    /\ phase = "compose" /\ ComposeSize <= Budget
    /\ \/ \E l \in Ledgers(Inputs), flaws \in SUBSET Flaws :
             /\ calls' = calls + 1
             /\ IF Expandable(l)
                THEN /\ coverage' = Expanded(l) /\ text' = flaws
                     /\ phase' = IF illustrated THEN "layout" ELSE "gate"
                     /\ UNCHANGED error
                ELSE Raise("coverage") /\ UNCHANGED <<coverage, text>>
             /\ sequential' = IF topology = "direct" THEN 1 ELSE sequential
       \/ Refused /\ UNCHANGED <<coverage, text, sequential>>
    /\ UNCHANGED <<plan, reads, maps, items, lineage, wave, waves, dropped, repairs, repaired>>

ComposeTooLarge ==
    /\ phase = "compose" /\ ComposeSize > Budget /\ Raise("budget")
    /\ UNCHANGED <<plan, reads, maps, items, lineage, wave, waves, dropped, article, account>>

(* A repair answers with the whole article.  It must keep the ledger,      *)
(* which the parser accepts only within its bounds.                        *)
KeepsLedger ==
    /\ Cardinality(coverage.covered) <= MaxCovered
    /\ Cardinality(coverage.omitted) <= MaxOmitted

Repair(flaws, to) ==
    /\ repairs = 1
    /\ \/ /\ KeepsLedger
          /\ text' \in SUBSET flaws
          /\ calls' = calls + 1 /\ repaired' = repaired + 1 /\ sequential' = sequential + 1
          /\ IF text' \cap {"layout"} = {} \/ to # "gate" THEN phase' = to /\ UNCHANGED error
             ELSE Raise("layout")
       \/ Refused /\ UNCHANGED <<text, repaired, sequential>>

(* The ranges of the chapters are bound; the repair of the layout takes    *)
(* the repair of the gate.                                                 *)
BindRanges ==
    /\ phase = "layout"
    /\ \/ /\ "layout" \notin text /\ phase' = "gate"
          /\ UNCHANGED <<text, repairs, account, error>>
       \/ /\ "layout" \in text /\ Repair(Flaws, "gate") /\ repairs' = 0
    /\ UNCHANGED <<plan, reads, maps, items, lineage, wave, waves, dropped, coverage>>

AfterGate == IF illustrated THEN "review" ELSE "final"

Pass ==
    /\ phase = "gate" /\ "quality" \notin text /\ phase' = AfterGate
    /\ UNCHANGED <<plan, reads, maps, items, lineage, wave, waves, dropped, article, account, error>>

(* One repair; what it leaves is assessed again.                           *)
RepairText ==
    /\ phase = "gate" /\ "quality" \in text /\ Repair({"quality"}, "regate")
    /\ UNCHANGED <<plan, reads, maps, items, lineage, wave, waves, dropped, coverage, repairs>>

GateFails ==
    /\ \/ phase = "gate" /\ "quality" \in text /\ repairs = 0
       \/ phase = "regate" /\ "quality" \in text
    /\ Raise("quality")
    /\ UNCHANGED <<plan, reads, maps, items, lineage, wave, waves, dropped, article, account>>

Regated ==
    /\ phase = "regate" /\ "quality" \notin text /\ phase' = AfterGate
    /\ UNCHANGED <<plan, reads, maps, items, lineage, wave, waves, dropped, article, account, error>>

(* The frames must be well chosen and the model must pass the note.        *)
Review ==
    /\ phase = "review"
    /\ \/ Answer("final") /\ sequential' = sequential + 2
       \/ Refused /\ UNCHANGED sequential
    /\ UNCHANGED <<plan, reads, maps, items, lineage, wave, waves, dropped, article, repaired>>

(* All results must come from the bound model.                             *)
Finish ==
    /\ phase = "final"
    /\ \/ phase' = "done" /\ UNCHANGED error
       \/ Raise("identity")
    /\ UNCHANGED <<plan, reads, maps, items, lineage, wave, waves, dropped, article, account>>

Next ==
    \/ Prepare \/ Reject \/ Analyze
    \/ \E c \in Chunks : StartMap(c) \/ EndMap(c)
    \/ FailMap \/ CollectMaps
    \/ BeginWave \/ LeaveConsolidation \/ PassSingle \/ Consolidate \/ EndWave
    \/ Compose \/ ComposeTooLarge \/ BindRanges \/ Pass \/ RepairText \/ GateFails \/ Regated
    \/ Review \/ Finish

Spec == Init /\ [][Next]_vars
FairSpec == Spec /\ WF_vars(Next)

-----------------------------------------------------------------------------
(* Every knowledge item of every chunk is covered by the article or        *)
(* omitted with a reason, exactly once, through all waves of merging; the  *)
(* expansion of the ledger never finds that it is not.                     *)
RootsAccounted ==
    /\ error # "coverage"
    /\ phase = "done" =>
          /\ coverage.covered \cup coverage.omitted = Required
          /\ coverage.covered \cap coverage.omitted = {}

(* What a plan accepted fits: no request of a compilation without frames   *)
(* is found too large, and no items cannot be made to fit, once a call was *)
(* paid (`_freeze_feasible_topology').                                     *)
CapacityKnownFirst ==
    ~illustrated => (error \in {"budget", "context", "no_progress"} => calls = 0)

(* The summary that goes with a note is one its contract accepts.          *)
SummaryWithinContract == phase = "done" => 1 <= sequential /\ sequential <= calls

(* The one repair is spent once, wherever it was needed.                   *)
RepairedOnce == repaired <= 1

(* The chunks of a plan are the transcript, in order, each one within the  *)
(* planner's budget.                                                       *)
ChunksAreTheTranscript ==
    \A t \in Transcripts :
        Plannable(t) =>
            /\ FlattenSeq(ChunksOf(t)) = t
            /\ \A c \in DOMAIN ChunksOf(t) :
                  /\ ChunksOf(t)[c] # <<>> /\ Len(ChunksOf(t)[c]) <= MaxLength
                  /\ Overhead + Total(ChunksOf(t)[c]) <= Budget

(* The service reports a repair iff more waves ran than the plan expected. *)
ReportedRepairs == IF sequential > expected THEN 1 ELSE 0

(* What the quality record of the bundle says of repairs is what happened. *)
RepairsReported == phase = "done" => ReportedRepairs = repaired

(* A compilation ends.                                                     *)
CompilationEnds == <>(phase \in {"done", "failed"})
=============================================================================
