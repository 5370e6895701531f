--------------------------- MODULE FaithfulEdition ---------------------------
(***************************************************************************)
(* The compiler of faithful editions (core/application/                    *)
(* faithful_edition_compiler.py) and the gate behind it in VideoService.   *)
(* A transcript is corrected batch by batch, then edited section by        *)
(* section: every model answer passes deterministic checks and an          *)
(* independent review, failing sections are repaired once for the checks   *)
(* and once for the review, and, when partial fallback is allowed, what    *)
(* still fails keeps the wording of the source.  Every wave is a thread    *)
(* pool whose results the compiler takes in order.  Groups of calls that   *)
(* were approved are kept for later Jobs (reviewed_call_cache.py).         *)
(***************************************************************************)
EXTENDS Naturals, FiniteSets, FiniteSetsExt

CONSTANTS
    Requests, \* FaithfulEditionRequestV1: the sections and correction batches it is cut into
    MaxJobs   \* bound on Jobs with the same request

EditionAssumption ==
    /\ \A r \in Requests :
          /\ r.sections \subseteq Nat /\ r.batches \subseteq Nat
          /\ r.sections \cap r.batches = {} /\ r.sections # {}
          /\ IsFiniteSet(r.sections) /\ IsFiniteSet(r.batches)
          /\ r.concurrency \in Nat \ {0} /\ r.repairs \in 0..1
          /\ {r.partial, r.contextual} \subseteq BOOLEAN
    /\ MaxJobs \in Nat \ {0}

VARIABLES
    request,  \* what the Jobs ask for
    job,      \* number of the Job
    phase,    \* where compile is
    todo,     \* units of the current wave
    work,     \* step of each unit's worker
    plan,     \* the Job whose chapter plan is in use, 0 for none
    calls,    \* model results of each batch
    ground,   \* each batch: the Job that corrected it, 0 for source wording
    text,     \* sections by ordinal
    early,    \* reviews made in the edit wave
    review,   \* reviews in force
    excluded, \* excluded_auxiliaries
    summary,  \* execution_summary, assessment and the error raised
    cache     \* reviewed groups, kept across Jobs

vars == <<request, job, phase, todo, work, plan, calls, ground, text, early, review, excluded,
          summary, cache>>
Control == <<phase, todo, work>>
Grounding == <<plan, calls, ground>>
Judgement == <<early, review, excluded>>

(* Ordinals of the plan; those of the correction batches are others.       *)
Sections == request.sections
Batches == request.batches
Concurrency == request.concurrency \* of the model binding
MaxRepair == request.repairs
Partial == request.partial         \* allow_partial_fallback
Contextual == request.contextual

Units == Sections \union Batches
Jobs == 1..MaxJobs

(* A group of calls is found again by the whole request it was made for.   *)
Basis == [plan |-> plan, ground |-> ground]
BasisOf(u) == IF u \in Batches THEN [plan |-> plan] ELSE Basis
Cached(u) == {g \in cache : g.unit = u /\ g.basis = BasisOf(u)}

(* What assess_faithful_edition says of a section: a lost number or token  *)
(* names the section, a lost segment only fails the document, and unsafe   *)
(* Markdown is no fault of any section.                                    *)
Checks == {"ok", "anchors", "mapping", "unsafe"}
Text(by, check) == [by |-> by, check |-> check, partial |-> FALSE, from |-> Basis]
NoText == [by |-> "none"]
Source == Text("source", "ok")
Local(t) == t.by = "source" \/ t.partial

(* A verdict, with the text it is about; located says that some paragraphs *)
(* and not all of them match the source.                                   *)
NoReview == [of |-> NoText]
Verdict(t, body, aux, located) == [of |-> t, body |-> body, aux |-> aux, located |-> located]
Unreviewed(t) == Verdict(t, FALSE, FALSE, FALSE)
Approved(r) == r.body /\ r.aux

Fresh == [ops |-> 0, repairs |-> 0, waves |-> 0, prep |-> 0, contract |-> FALSE,
          overall |-> "pass", error |-> "none"]

Init ==
    /\ request \in Requests
    /\ job = 1 /\ phase = "context" /\ todo = {} /\ work = [u \in Units |-> "idle"]
    /\ plan = 0 /\ calls = [b \in Batches |-> 0] /\ ground = [b \in Batches |-> 0]
    /\ text = [s \in Sections |-> NoText]
    /\ early = [s \in Sections |-> NoReview] /\ review = [s \in Sections |-> NoReview]
    /\ excluded = {} /\ summary = Fresh /\ cache = {}

-----------------------------------------------------------------------------
(* A wave: ThreadPoolExecutor and pool.map.                                *)

Over == {"done", "content", "fatal", "dropped"}
Running == {u \in Units : work[u] \notin Over \union {"idle", "queued"}}
Ended == {"failed", "published", "rejected"}

Wave(p, units) ==
    /\ phase' = p /\ todo' = units
    /\ work' = [u \in Units |-> IF u \in units THEN "queued" ELSE "idle"]

Leave(p) == Wave(p, {})
Step(u, at) == work' = [work EXCEPT ![u] = at] /\ UNCHANGED <<phase, todo>>
Count(n) == summary' = [summary EXCEPT !.ops = @ + n]

Break(e) ==
    /\ Leave("failed")
    /\ summary' = [summary EXCEPT !.error = e]

(* _can_fallback: content errors, and those only, may stay local.          *)
Errors == IF Partial THEN {"fatal"} ELSE {"content", "fatal"}

FirstStep == CASE phase = "ground" -> "prepare"
               [] phase = "edit" -> "facts"
               [] phase \in {"repair", "rewrite"} -> "write"
               [] OTHER -> "review"

Start(u) ==
    /\ work[u] = "queued" /\ Cardinality(Running) < Concurrency
    /\ \A v \in todo : work[v] = "queued" => u <= v
    /\ Step(u, FirstStep)
    /\ UNCHANGED <<request, job, Grounding, text, Judgement, summary, cache>>

(* The compiler waits for the results in order; the first one that failed  *)
(* drops what no thread has taken yet and is raised once the pool is down. *)
Raised(u) == work[u] \in {"content", "fatal"} /\ \A v \in todo : v < u => work[v] = "done"

Abandon ==
    /\ \E u \in todo : Raised(u)
    /\ \E u \in todo : work[u] = "queued"
    /\ work' = [u \in Units |-> IF work[u] = "queued" THEN "dropped" ELSE work[u]]
    /\ UNCHANGED <<request, job, phase, todo, Grounding, text, Judgement, summary, cache>>

Fail ==
    /\ \A u \in todo : work[u] \in Over
    /\ \E u \in todo : Raised(u) /\ Break(work[u])
    /\ UNCHANGED <<request, job, Grounding, text, Judgement, cache>>

Collected(p) == phase = p /\ \A u \in todo : work[u] = "done"

-----------------------------------------------------------------------------
(* Before the sections: the chapter plan, then the corrections of the      *)
(* source, each proposed, checked, and proposed once more.                 *)

Begin == IF Batches = {} THEN Wave("edit", Sections) ELSE Wave("ground", Batches)

PlanContext ==
    /\ phase = "context"
    /\ \/ ~Contextual /\ Begin /\ UNCHANGED <<plan, summary>>
       \/ Contextual /\ Begin /\ plan' \in 0..job
          /\ summary' = [summary EXCEPT !.prep = 1, !.ops = 1]
       \/ Contextual /\ Begin /\ plan' = 0 /\ summary' = [summary EXCEPT !.prep = 1]
       \/ Contextual /\ (\E e \in Errors : Break(e)) /\ UNCHANGED plan
    /\ UNCHANGED <<request, job, calls, ground, text, Judgement, cache>>

GiveUp(b) == Step(b, IF Partial THEN "done" ELSE "content")
Again(b) == IF work[b] \in {"prepare", "check"} /\ MaxRepair = 1
            THEN Step(b, "reprepare") ELSE GiveUp(b)
Called(b) == calls' = [calls EXCEPT ![b] = @ + 1]

Prepare(b) ==
    /\ work[b] \in {"prepare", "reprepare"}
    /\ \/ \E g \in Cached(b) :
            /\ Step(b, "done")
            /\ ground' = [ground EXCEPT ![b] = g.job]
            /\ calls' = [calls EXCEPT ![b] = g.calls]
       \/ /\ Cached(b) = {} /\ UNCHANGED ground
          /\ \/ Called(b) /\ Step(b, IF work[b] = "prepare" THEN "check" ELSE "recheck")
             \/ Called(b) /\ Again(b)
             \/ UNCHANGED calls /\ GiveUp(b)
       \/ Step(b, "fatal") /\ UNCHANGED <<calls, ground>>
    /\ UNCHANGED <<request, job, plan, text, Judgement, summary, cache>>

Check(b) ==
    /\ work[b] \in {"check", "recheck"}
    /\ \/ /\ Called(b) /\ Step(b, "done")
          /\ ground' = [ground EXCEPT ![b] = job]
          /\ cache' = cache \union {[unit |-> b, basis |-> BasisOf(b), job |-> job,
                                     calls |-> calls[b] + 1]}
       \/ Called(b) /\ (Again(b) \/ GiveUp(b)) /\ UNCHANGED <<ground, cache>>
       \/ GiveUp(b) /\ UNCHANGED <<calls, ground, cache>>
       \/ Step(b, "fatal") /\ UNCHANGED <<calls, ground, cache>>
    /\ UNCHANGED <<request, job, plan, text, Judgement, summary>>

AfterGround ==
    /\ Collected("ground") /\ Wave("edit", Sections)
    /\ summary' = [summary EXCEPT !.prep = @ + Max({calls[b] : b \in Batches}),
                                  !.ops = @ + MapThenSumSet(LAMBDA b : calls[b], Batches)]
    /\ UNCHANGED <<request, job, Grounding, text, Judgement, cache>>

-----------------------------------------------------------------------------
(* The workers of the edit, repair and rewrite waves, and of the reviews.  *)

(* A section that falls back loses the results of its earlier calls.       *)
Retain(s) ==
    IF Partial THEN text' = [text EXCEPT ![s] = Source] /\ Step(s, "done")
               ELSE Step(s, "content") /\ UNCHANGED text

Facts(s) ==
    /\ work[s] = "facts"
    /\ \/ \E g \in Cached(s) :
            /\ Step(s, "done") /\ Count(3)
            /\ text' = [text EXCEPT ![s] = g.review.of]
            /\ early' = [early EXCEPT ![s] = g.review]
       \/ /\ Cached(s) = {} /\ UNCHANGED <<early, summary>>
          /\ (Step(s, "write") /\ UNCHANGED text) \/ Retain(s)
       \/ Step(s, "fatal") /\ UNCHANGED <<text, early, summary>>
    /\ UNCHANGED <<request, job, Grounding, review, excluded, cache>>

Written == IF phase = "edit" THEN 2 ELSE 1

Write(s) ==
    /\ work[s] = "write"
    /\ \/ \E c \in Checks :
            /\ text' = [text EXCEPT ![s] = Text(phase, c)]
            /\ IF phase = "edit" /\ c = "ok" THEN Step(s, "review") /\ Count(0)
               ELSE Step(s, "done") /\ Count(Written)
       \/ /\ phase = "edit" /\ ~(Partial /\ MaxRepair = 0) \* a broken response
          /\ Step(s, "done") /\ Count(2) /\ UNCHANGED text
       \/ Retain(s) /\ Count(0)
       \/ Step(s, "fatal") /\ UNCHANGED <<text, summary>>
    /\ UNCHANGED <<request, job, Grounding, Judgement, cache>>

StoreFirst(s, r) ==
    IF phase = "edit" THEN early' = [early EXCEPT ![s] = r] /\ UNCHANGED review
    ELSE review' = [review EXCEPT ![s] = IF phase = "recheck" THEN @ ELSE r]
         /\ UNCHANGED early

Store(s, r) ==
    IF phase = "edit" THEN early' = [early EXCEPT ![s] = r] /\ UNCHANGED review
                      ELSE review' = [review EXCEPT ![s] = r] /\ UNCHANGED early

SaveAll(s, r) ==
    cache' = IF phase = "edit" THEN cache \union {[unit |-> s, basis |-> BasisOf(s), review |-> r]}
             ELSE cache

Save(s, r) ==
    cache' = IF phase = "edit" /\ Approved(r)
             THEN cache \union {[unit |-> s, basis |-> BasisOf(s), review |-> r]}
             ELSE cache

Extra == IF phase = "edit" THEN 2 ELSE 0

Review(s) ==
    /\ work[s] = "review"
    /\ \/ /\ ~Local(text[s])
          /\ \E body, aux, located \in BOOLEAN :
               LET r == Verdict(text[s], body, aux, located /\ ~body)
               IN Store(s, r) /\ Save(s, r)
          /\ Step(s, "done") /\ Count(Extra + 1)
       \/ /\ Local(text[s]) \/ Partial
          /\ Store(s, Unreviewed(text[s])) /\ UNCHANGED cache
          /\ Step(s, "done") /\ Count(Extra)
       \/ /\ ~Local(text[s])
          /\ \E e \in Errors : Step(s, e)
          /\ UNCHANGED <<early, review, summary, cache>>
    /\ UNCHANGED <<request, job, Grounding, text, excluded>>

-----------------------------------------------------------------------------
(* The compiler's own thread, between the waves.                           *)

AfterEdit ==
    /\ Collected("edit")
    /\ LET missing == {s \in Sections : text[s] = NoText}
           counted == [summary EXCEPT !.prep = @ + 1, !.waves = 1]
       IN \/ /\ missing # {} /\ MaxRepair = 0
             /\ Break("content")
          \/ /\ missing # {} /\ MaxRepair = 1 /\ Wave("repair", missing)
             /\ summary' = [counted EXCEPT !.contract = TRUE]
          \/ missing = {} /\ Leave("assess") /\ summary' = counted
    /\ UNCHANGED <<request, job, Grounding, text, Judgement, cache>>

Broken == {s \in Sections : text[s].check = "anchors"}

Assess ==
    /\ phase = "assess"
    /\ IF Broken # {} /\ MaxRepair = 1 /\ ~summary.contract
       THEN Wave("repair", Broken) ELSE Leave("gate")
    /\ UNCHANGED <<request, job, Grounding, text, Judgement, summary, cache>>

Repaired == summary' = [summary EXCEPT !.repairs = @ + Cardinality(todo), !.waves = @ + 1]

AfterRepair ==
    /\ Collected("repair") /\ Repaired
    /\ Leave(IF summary.contract THEN "assess" ELSE "gate")
    /\ UNCHANGED <<request, job, Grounding, text, Judgement, cache>>

(* Only sections that lost a number, a token or a segment fall back here.  *)
Gate ==
    /\ phase = "gate"
    /\ text' = [s \in Sections |-> IF Partial /\ text[s].check \in {"anchors", "mapping"}
                                   THEN Source ELSE text[s]]
    /\ IF \A s \in Sections : text'[s].check = "ok"
       THEN /\ Wave("review", {s \in Sections : early[s].of # text'[s]})
            /\ summary' = [summary EXCEPT !.waves = @ + 1]
            /\ review' = early
       ELSE /\ Leave("overview")
            /\ summary' = [summary EXCEPT !.overall = "fail"]
            /\ UNCHANGED review
    /\ UNCHANGED <<request, job, Grounding, early, excluded, cache>>

Judge ==
    /\ Collected("review")
    /\ LET failed == {s \in Sections : /\ ~Local(text[s])
                                       /\ ~review[s].body \/ (~Partial /\ ~review[s].aux)}
       IN IF failed # {} /\ MaxRepair = 1 THEN Wave("rewrite", failed) ELSE Leave("settle")
    /\ UNCHANGED <<request, job, Grounding, text, Judgement, summary, cache>>

AfterRewrite ==
    /\ Collected("rewrite")
    /\ LET whole == \A s \in Sections : text[s].check = "ok"
       IN \/ ~whole /\ ~Partial /\ Break("content") /\ UNCHANGED text
          \/ /\ whole \/ Partial
             /\ Wave("recheck", todo) /\ Repaired
             /\ text' = [s \in Sections |-> IF s \in todo /\ ~whole THEN Source ELSE text[s]]
    /\ UNCHANGED <<request, job, Grounding, Judgement, cache>>

AfterRecheck ==
    /\ Collected("recheck") /\ Leave("settle")
    /\ summary' = [summary EXCEPT !.waves = @ + 1]
    /\ UNCHANGED <<request, job, Grounding, text, Judgement, cache>>

Fallback(s) ==
    IF review[s].body \/ Local(text[s]) THEN text[s]
    ELSE IF Contextual /\ review[s].located THEN [text[s] EXCEPT !.partial = TRUE]
    ELSE Source

Unread == {s \in Sections : ~review[s].aux}

Settle ==
    /\ phase = "settle"
    /\ IF ~Partial /\ \E s \in Sections : ~review[s].body
       THEN Break("content") /\ UNCHANGED <<text, excluded>>
       ELSE /\ text' = [s \in Sections |-> Fallback(s)]
            /\ excluded' = Unread
            /\ Leave("overview") /\ UNCHANGED summary
    /\ UNCHANGED <<request, job, Grounding, early, review, cache>>

(* Sections with a summary are candidates; a model may leave it empty.     *)
Overview ==
    /\ phase = "overview"
    /\ \/ Leave("returned") /\ UNCHANGED summary
       \/ /\ Contextual /\ \E s \in Sections \ excluded : ~Local(text[s])
          /\ \/ /\ Leave("returned")
                /\ \E n \in 0..1 : summary' = [summary EXCEPT !.prep = @ + 1, !.ops = @ + n]
             \/ \E e \in Errors : Break(e)
    /\ UNCHANGED <<request, job, Grounding, text, Judgement, cache>>

Waves == summary.waves + summary.prep

(* What VideoService and the portable bundle ask of the result.            *)
Accepted ==
    /\ summary.overall # "fail"
    /\ summary.ops >= Cardinality(Sections)
    /\ Waves \in 1..9 /\ Waves <= summary.ops
    /\ summary.repairs <= summary.ops

Deliver ==
    /\ phase = "returned" /\ Leave(IF Accepted THEN "published" ELSE "rejected")
    /\ UNCHANGED <<request, job, Grounding, text, Judgement, summary, cache>>

(* The same request in a new Job, after the end or the death of this one.  *)
NewJob ==
    /\ job < MaxJobs /\ job' = job + 1
    /\ phase' = "context" /\ todo' = {} /\ work' = [u \in Units |-> "idle"]
    /\ plan' = 0 /\ calls' = [b \in Batches |-> 0] /\ ground' = [b \in Batches |-> 0]
    /\ text' = [s \in Sections |-> NoText]
    /\ early' = [s \in Sections |-> NoReview] /\ review' = [s \in Sections |-> NoReview]
    /\ excluded' = {} /\ summary' = Fresh
    /\ UNCHANGED <<request, cache>>

Worker(u) ==
    \/ Start(u)
    \/ u \in Batches /\ (Prepare(u) \/ Check(u))
    \/ u \in Sections /\ (Facts(u) \/ Write(u) \/ Review(u))

Compile ==
    \/ Abandon \/ Fail
    \/ PlanContext \/ AfterGround \/ AfterEdit \/ Assess \/ AfterRepair \/ Gate
    \/ Judge \/ AfterRewrite \/ AfterRecheck \/ Settle \/ Overview \/ Deliver

Next == Compile \/ NewJob \/ \E u \in Units : Worker(u)

Spec == Init /\ [][Next]_vars
FairSpec == Spec /\ WF_vars(Compile) /\ \A u \in Units : WF_vars(Worker(u))

-----------------------------------------------------------------------------
(* Types, and the compiler's own assertion: once the edit wave and its     *)
(* repair are over, `assert section is not None` holds of every section.   *)
TypeOK ==
    /\ request \in Requests /\ job \in Jobs /\ plan \in 0..job /\ todo \subseteq Units
    /\ ground \in [Batches -> 0..job] /\ calls \in [Batches -> 0..4]
    /\ excluded \subseteq Sections
    /\ DOMAIN text = Sections /\ DOMAIN early = Sections /\ DOMAIN review = Sections
    /\ phase \notin {"context", "ground", "edit", "repair", "failed"} =>
         \A s \in Sections : text[s] # NoText

(* "A repaired section must never inherit the review of its earlier text": *)
(* a published section is source wording, or its very text passed its      *)
(* review, or what it keeps of it was found to match by that review.       *)
PublishedTextReviewed ==
    phase = "published" =>
        \A s \in Sections :
            \/ text[s].by = "source"
            \/ /\ review[s].of = [text[s] EXCEPT !.partial = FALSE]
               /\ IF text[s].partial THEN review[s].located ELSE review[s].body

(* The summaries of a published edition passed the review of their own     *)
(* section's text; an omitted one may have failed it.                      *)
PublishedSummariesReviewed ==
    phase = "published" =>
        \A s \in Sections \ excluded :
            ~Local(text[s]) => review[s].of = text[s] /\ review[s].aux

(* FaithfulCompilationSummaryV1 accepts the result: at most twelve waves   *)
(* and two repairs of a section, counted over every path to the end.       *)
SummaryWithinContract ==
    phase \in {"returned", "published", "rejected"} =>
        Waves \in 1..12 /\ summary.repairs <= 2 * Cardinality(Sections)

(* "Rejected/partial groups are never published": what is kept for later   *)
(* Jobs of a section passed its own review, body and summary.              *)
KeptGroupsApproved ==
    \A g \in cache : g.unit \in Sections => Approved(g.review) /\ ~Local(g.review.of)

(* No text of an earlier Job is used under another chapter plan or other   *)
(* corrections of the source than those it was written and reviewed for.   *)
ReusedTextsCurrent ==
    \A s \in Sections : text[s] # NoText => text[s].from = Basis

(* With partial fallback a bad answer stays local: only an error that is   *)
(* no fault of the content, or unsafe Markdown, costs the whole document.  *)
LocalFailureStaysLocal ==
    Partial => /\ summary.error # "content"
               /\ summary.overall = "fail" => \E s \in Sections : text[s].check = "unsafe"

(* compile returns or raises only when no thread of its pools is at work.  *)
QuietAfterEnd == phase \in Ended => Running = {}

(* Every compilation comes to an end.                                      *)
EveryJobEnds == <>(phase \in Ended)

(* "test_capacity_exhaustion_outputs_source_without_claiming_model_success":*)
(* a document that kept the wording of the source throughout is not lost.  *)
FallbackPublished ==
    phase = "rejected" /\ summary.overall # "fail" => \E s \in Sections : text[s].by # "source"

(* "Source prepare/check/repair/recheck + facts (5), then edit, contract   *)
(* repair, review, semantic repair and recheck (5).  Optional              *)
(* source-context planning and final overview selection add two waves":    *)
(* a document whose checks passed is not lost for using those waves.       *)
WavesAgree == phase = "rejected" /\ summary.overall # "fail" => Waves \notin 10..12
=============================================================================
