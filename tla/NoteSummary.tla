---------------------------- MODULE NoteSummary ----------------------------
(***************************************************************************)
(* The chunked summary of the legacy note backend: UniversalGPT.summarize  *)
(* and _merge_partials of backend/app/gpt/universal_gpt.py.                *)
(*                                                                         *)
(* A transcript too large for one request is cut into chunks.  Each chunk  *)
(* is answered by one model call; the answers ("partials") are merged in   *)
(* rounds, group by group, until one text is left.  After every answer the *)
(* partials are saved in a checkpoint file named after the task, so that a *)
(* retry of the task need not pay for the same calls again.  The           *)
(* checkpoint carries the signature of its source (transcript, model,      *)
(* style ...) and the phase it was saved in.                               *)
(*                                                                         *)
(* A text is the sequence of the <<source, chunk>> pairs it covers and a   *)
(* size; the text of an answer is the model's, so its size is any of       *)
(* Sizes.  A crash of the backend ends every run and keeps the file.       *)
(***************************************************************************)
EXTENDS Naturals, Sequences, SequencesExt, FiniteSetsExt, Totals

CONSTANTS
  Runs,          \* executions of summarize for the one task of this module
  Sources,       \* the signatures of the sources the task is asked with
  NumChunks,     \* [Sources -> Nat]: what RequestChunker cuts each source into
  Sizes,         \* the sizes an answer of the model may have
  Budget,        \* max_request_bytes, less the merge prompt
  MaxAttempts,   \* OPENAI_RETRY_ATTEMPTS
  MaxCrashes,    \* bound: crashes of the backend
  None

NumChunksAssumption == NumChunks \in [Sources -> Nat]
SizesAssumption == Sizes \subseteq Nat \ {0} /\ Budget \in Nat /\ MaxAttempts \in Nat \ {0}

VARIABLES
  run,          \* run[r]: the local state of one call of summarize
  checkpoint,   \* <task>.gpt.checkpoint.json, or None
  answered,     \* answered[s][c]: answers paid for chunk c of source s
  crashes

vars == <<run, checkpoint, answered, crashes>>

Phases == {"idle", "chunks", "merge", "noted", "failed", "lost"}
Working(r) == run[r].pc \in {"chunks", "merge"}

(* A run that has not begun.                                               *)
Fresh == [pc |-> "idle", source |-> None, partials |-> <<>>, rest |-> <<>>,
          merged |-> <<>>, unsaved |-> FALSE, attempt |-> 1, resumed |-> None]

Init ==
  /\ run = [r \in Runs |-> Fresh]
  /\ checkpoint = None
  /\ answered = [s \in Sources |-> [c \in 1..NumChunks[s] |-> 0]]
  /\ crashes = 0

----------------------------------------------------------------------------
(* Texts.                                                                  *)

SizeOf(texts) == Total([i \in DOMAIN texts |-> texts[i].size])

(* RequestChunker.group_texts_by_budget takes texts greedily: the next     *)
(* group is the longest prefix whose request fits.                         *)
NextGroup(texts) ==
  LET fits == {n \in 1..Len(texts) : SizeOf(SubSeq(texts, 1, n)) <= Budget}
  IN  SubSeq(texts, 1, CHOOSE n \in fits : \A m \in fits : m <= n)

(* "single text block exceeds max_bytes": raised before the round's first  *)
(* call, outside the handler that saves the checkpoint.                    *)
Groupable(texts) == \A i \in 1..Len(texts) : texts[i].size <= Budget

Merged(texts, size) ==
  [covers |-> FlattenSeq([i \in DOMAIN texts |-> texts[i].covers]), size |-> size]

----------------------------------------------------------------------------
(* The checkpoint file.                                                    *)

Saved(r, texts, phase) == [source |-> run[r].source, partials |-> texts, phase |-> phase]

(* Mutant: the signature is not compared.                                  *)
LoadedUnsigned(s) == IF checkpoint = None THEN <<>> ELSE checkpoint.partials

(* _load_checkpoint: one of another source is deleted.                     *)
Loaded(s) ==
  IF checkpoint = None \/ checkpoint.source # s THEN <<>> ELSE checkpoint.partials

(* The phase of the checkpoint is not read: partials of a merge round are  *)
(* taken for the answers of the first chunks.                              *)
Usable(s) == IF Len(Loaded(s)) > NumChunks[s] THEN <<>> ELSE Loaded(s)

(* The run is over; its local state is gone but for the result.            *)
Over(r, pc, note) ==
  run' = [run EXCEPT ![r] = [@ EXCEPT !.pc = pc, !.partials = note, !.rest = <<>>,
                                      !.merged = <<>>, !.unsaved = FALSE, !.attempt = 1]]

----------------------------------------------------------------------------
(* summarize                                                               *)

Start(r, s) ==
  /\ run[r].pc = "idle"
  /\ run' = [run EXCEPT ![r] = [Fresh EXCEPT !.pc = "chunks", !.source = s,
                !.partials = Usable(s),
                !.resumed = IF Loaded(s) = <<>> THEN None ELSE checkpoint.phase]]
  /\ checkpoint' = IF checkpoint # None /\ checkpoint.source # s THEN None ELSE checkpoint
  /\ UNCHANGED <<answered, crashes>>

(* The answer of the next chunk.                                           *)
AnswerChunk(r, size) ==
  /\ run[r].pc = "chunks" /\ ~run[r].unsaved
  /\ Len(run[r].partials) < NumChunks[run[r].source]
  /\ LET s == run[r].source
         c == Len(run[r].partials) + 1
         told == [covers |-> <<<<s, c>>>>, size |-> size]
     IN  /\ run' = [run EXCEPT ![r] = [@ EXCEPT !.partials = Append(run[r].partials, told),
                                                !.unsaved = TRUE, !.attempt = 1]]
         /\ answered' = [answered EXCEPT ![s][c] = @ + 1]
  /\ UNCHANGED <<checkpoint, crashes>>

SaveChunk(r) ==
  /\ run[r].pc = "chunks" /\ run[r].unsaved
  /\ checkpoint' = Saved(r, run[r].partials, "summarize")
  /\ run' = [run EXCEPT ![r].unsaved = FALSE]
  /\ UNCHANGED <<answered, crashes>>

AllAnswered(r) ==
  /\ run[r].pc = "chunks" /\ ~run[r].unsaved
  /\ Len(run[r].partials) = NumChunks[run[r].source]

(* One partial is the note.                                                *)
OnlyChunk(r) ==
  /\ AllAnswered(r) /\ Len(run[r].partials) = 1
  /\ checkpoint' = None
  /\ Over(r, "noted", run[r].partials)
  /\ UNCHANGED <<answered, crashes>>

(* No chunk at all: _merge_partials indexes an empty list.                 *)
NothingToMerge(r) ==
  /\ AllAnswered(r) /\ run[r].partials = <<>>
  /\ Over(r, "failed", <<>>)
  /\ UNCHANGED <<checkpoint, answered, crashes>>

BeginMerge(r) ==
  /\ AllAnswered(r) /\ Len(run[r].partials) > 1
  /\ run' = [run EXCEPT ![r].pc = "merge"]
  /\ UNCHANGED <<checkpoint, answered, crashes>>

----------------------------------------------------------------------------
(* _merge_partials: partials is the round's input (current_partials),      *)
(* merged the answers of the round, rest what no group has taken yet.      *)

BetweenRounds(r) ==
  /\ run[r].pc = "merge" /\ ~run[r].unsaved
  /\ run[r].rest = <<>>

BeginRound(r) ==
  /\ BetweenRounds(r) /\ Len(run[r].partials) > 1 /\ run[r].merged = <<>>
  /\ IF Groupable(run[r].partials)
     THEN run' = [run EXCEPT ![r].rest = run[r].partials]
     ELSE Over(r, "failed", <<>>)
  /\ UNCHANGED <<checkpoint, answered, crashes>>

AnswerMerge(r, size) ==
  /\ run[r].pc = "merge" /\ ~run[r].unsaved /\ run[r].rest # <<>>
  /\ LET rest == run[r].rest
         group == NextGroup(rest)
     IN  run' = [run EXCEPT ![r] = [@ EXCEPT !.merged = Append(run[r].merged, Merged(group, size)),
                                             !.rest = SubSeq(rest, Len(group) + 1, Len(rest)),
                                             !.unsaved = TRUE, !.attempt = 1]]
  /\ UNCHANGED <<checkpoint, answered, crashes>>

SaveMerge(r) ==
  /\ run[r].pc = "merge" /\ run[r].unsaved
  /\ checkpoint' = Saved(r, run[r].merged \o run[r].rest, "merge")
  /\ run' = [run EXCEPT ![r].unsaved = FALSE]
  /\ UNCHANGED <<answered, crashes>>

EndRound(r) ==
  /\ BetweenRounds(r) /\ run[r].merged # <<>>
  /\ IF Len(run[r].merged) = 1
     THEN checkpoint' = None /\ Over(r, "noted", run[r].merged)
     ELSE /\ run' = [run EXCEPT ![r] = [@ EXCEPT !.partials = run[r].merged, !.merged = <<>>]]
          /\ UNCHANGED checkpoint
  /\ UNCHANGED <<answered, crashes>>

----------------------------------------------------------------------------
(* _chat_completion_create                                                 *)

Calling(r) ==
  /\ ~run[r].unsaved
  /\ \/ run[r].pc = "chunks" /\ Len(run[r].partials) < NumChunks[run[r].source]
     \/ run[r].pc = "merge" /\ run[r].rest # <<>>

(* A retryable error with attempts left: wait and call again.              *)
RetryCall(r) ==
  /\ Calling(r) /\ run[r].attempt < MaxAttempts
  /\ run' = [run EXCEPT ![r].attempt = @ + 1]
  /\ UNCHANGED <<checkpoint, answered, crashes>>

(* Any other error, or the last attempt: what the phase began with is      *)
(* saved, for a merge round its input and not its answers so far.          *)
FailCall(r) ==
  /\ Calling(r)
  /\ checkpoint' = Saved(r, run[r].partials, IF run[r].pc = "chunks" THEN "summarize" ELSE "merge")
  /\ Over(r, "failed", <<>>)
  /\ UNCHANGED <<answered, crashes>>

Crash ==
  /\ crashes < MaxCrashes
  /\ \E r \in Runs : Working(r)
  /\ crashes' = crashes + 1
  /\ run' = [r \in Runs |->
       IF Working(r) THEN [Fresh EXCEPT !.pc = "lost", !.source = run[r].source,
                                        !.resumed = run[r].resumed]
       ELSE run[r]]
  /\ UNCHANGED <<checkpoint, answered>>

Advance(r) ==
  \/ \E size \in Sizes : AnswerChunk(r, size)
  \/ SaveChunk(r)
  \/ OnlyChunk(r)
  \/ NothingToMerge(r)
  \/ BeginMerge(r)
  \/ BeginRound(r)
  \/ \E size \in Sizes : AnswerMerge(r, size)
  \/ SaveMerge(r)
  \/ EndRound(r)

(* The task is retried after the earlier run has ended.                    *)
StartNext(r) ==
  /\ \A q \in Runs : ~Working(q)
  /\ \E s \in Sources : Start(r, s)

Next ==
  \/ \E r \in Runs : StartNext(r) \/ Advance(r) \/ RetryCall(r) \/ FailCall(r)
  \/ Crash

Spec == Init /\ [][Next]_vars

(* A run that works goes on: the thread of the executor is never blocked   *)
(* for good, and a call that is tried MaxAttempts times ends.              *)
FairSpec == Spec /\ \A r \in Runs : WF_vars(Advance(r))

----------------------------------------------------------------------------
(* Properties                                                              *)

Texts == [covers : Seq(Sources \X Nat), size : Nat]

TypeOK ==
  /\ \A r \in Runs :
       /\ run[r].pc \in Phases
       /\ run[r].source \in Sources \union {None}
       /\ run[r].partials \in Seq(Texts) /\ run[r].rest \in Seq(Texts)
       /\ run[r].merged \in Seq(Texts)
       /\ run[r].unsaved \in BOOLEAN /\ run[r].attempt \in 1..MaxAttempts
       /\ run[r].resumed \in {None, "summarize", "merge"}
  /\ checkpoint # None => /\ checkpoint.source \in Sources
                          /\ checkpoint.partials \in Seq(Texts)
                          /\ checkpoint.phase \in {"summarize", "merge"}
  /\ crashes \in 0..MaxCrashes

Note(r) == run[r].partials[1].covers
ChunksOf(s) == {<<s, c>> : c \in 1..NumChunks[s]}

(* Whatever failed, crashed or was resumed before, a note covers every     *)
(* chunk of the source it was asked for and no other source's.             *)
NoteCoversItsSource ==
  \A r \in Runs : run[r].pc = "noted" => ToSet(Note(r)) = ChunksOf(run[r].source)

(* As long as no run has resumed the partials of a merge, a note covers    *)
(* each chunk once and in the order of the transcript.                     *)
NoteInOrder ==
  \A r \in Runs : run[r].pc = "noted" /\ (\A q \in Runs : run[q].resumed # "merge") =>
    Note(r) = [c \in 1..NumChunks[run[r].source] |-> <<run[r].source, c>>]

(* How many answers were paid for chunks that had been answered before.    *)
Repeated ==
  FoldSet(LAMBDA sc, n : (IF answered[sc[1]][sc[2]] > 1 THEN answered[sc[1]][sc[2]] - 1 ELSE 0) + n,
          0, UNION {ChunksOf(s) : s \in Sources})

(* With one source and before the first note, a crash costs one answer at  *)
(* most, and a failed call costs none.                                     *)
OneAnswerLostPerCrash ==
  (\A r \in Runs : run[r].pc # "noted" /\ run[r].resumed # "merge") => Repeated <= crashes

(* What a checkpoint of the merge phase promises: its partials are merged  *)
(* further, and no chunk they cover is asked and told again.               *)
MergeResumes ==
  \A r \in Runs : run[r].pc = "noted" /\ run[r].resumed = "merge" =>
    Len(Note(r)) = NumChunks[run[r].source]

(* Every run ends.                                                         *)
EveryRunEnds == \A r \in Runs : Working(r) ~> ~Working(r)
=============================================================================
