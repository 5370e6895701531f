----------------------------- MODULE NotesProofs -----------------------------
(***************************************************************************)
(* Proofs about the notes of the legacy backend, for the instances of      *)
(* MCNotes: what its clients show of a task (Task), for every number of    *)
(* submissions, of requests in flight and of restarts; what a note made of *)
(* partial notes tells (Summary), for every source, size and budget; and   *)
(* what the requests hold that a transcript is cut into (Chunker).         *)
(***************************************************************************)
EXTENDS MCNotes, SequenceLemmas

\* What result may hold and a response carry.
NoteOr == Submissions \cup {None, "partial"}

IsPoll(row) ==
    row = [at |-> row.at, seen |-> row.seen, answer |-> row.answer, note |-> row.note]

\* The columns that an answer is made of.
NoteTypes ==
    /\ result \in NoteOr
    /\ versions \in Seq(Submissions)
    /\ poll = [k \in Polls |-> poll[k]]
    /\ \A k \in Polls : IsPoll(poll[k])

\* An answer SUCCESS carries a whole note.
AnswersInv ==
    \A k \in Polls : poll[k].at = "answered" /\ poll[k].answer = "SUCCESS" =>
        poll[k].note \in Submissions

\* The client shows SUCCESS only with a note.
ShownInv == shown = "SUCCESS" => versions # <<>>

NotesInv == NoteTypes /\ AnswersInv /\ ShownInv

\* SUCCESS is the answer of a whole note.
LEMMA ResultAnswered ==
    ASSUME NoteTypes, Task!ResultAnswer = "SUCCESS"
    PROVE  result \in Submissions
BY DEF NoteTypes, NoteOr, Task!ResultAnswer

\* A new version in front.
LEMMA Prepended ==
    ASSUME NEW n \in Submissions, versions \in Seq(Submissions)
    PROVE  <<n>> \o versions \in Seq(Submissions) /\ <<n>> \o versions # <<>>
<1>1. <<n>> \in Seq(Submissions)
  OBVIOUS
<1>2. Len(<<n>> \o versions) = 1 + Len(versions)
  BY <1>1
<1> QED
  BY <1>1, <1>2

\* updateTaskContent: a note comes with SUCCESS.
LEMMA Updated ==
    ASSUME NotesInv, NEW s, NEW note, Task!Update(s, note), s = "SUCCESS" => note \in Submissions
    PROVE  versions' \in Seq(Submissions) /\ ShownInv'
BY Prepended DEF NotesInv, NoteTypes, ShownInv, Task!Update

\* The row of a request that a restart breaks off.
LEMMA RowAnswered ==
    ASSUME NEW row, IsPoll(row), NEW at, NEW answer
    PROVE  [row EXCEPT !.at = at, !.answer = answer]
               = [at |-> at, seen |-> row.seen, answer |-> answer, note |-> row.note]
<1>1. PICK one : one = [row EXCEPT !.at = at]
  OBVIOUS
<1>2. one = [at |-> at, seen |-> row.seen, answer |-> row.answer, note |-> row.note]
  BY <1>1 DEF IsPoll
<1>3. [one EXCEPT !.answer = answer]
          = [at |-> at, seen |-> row.seen, answer |-> answer, note |-> row.note]
  BY <1>2
<1> QED
  BY <1>1, <1>3

\* The row of a request that is sent.
LEMMA RowAsked ==
    ASSUME NEW seen
    PROVE  [Task!NoPoll EXCEPT !.at = "asked", !.seen = seen]
               = [at |-> "asked", seen |-> seen, answer |-> "none", note |-> None]
<1>1. PICK one : one = [Task!NoPoll EXCEPT !.at = "asked"]
  OBVIOUS
<1>2. one = [at |-> "asked", seen |-> "none", answer |-> "none", note |-> None]
  BY <1>1 DEF Task!NoPoll
<1>3. [one EXCEPT !.seen = seen]
          = [at |-> "asked", seen |-> seen, answer |-> "none", note |-> None]
  BY <1>2
<1> QED
  BY <1>1, <1>3

\* One request of the web client moves.
LEMMA PollMoved ==
    ASSUME NoteTypes, NEW k \in Polls, NEW row, IsPoll(row), poll' = [poll EXCEPT ![k] = row],
           UNCHANGED <<result, versions>>
    PROVE  NoteTypes' /\ poll'[k] = row /\ \A l \in Polls : l # k => poll'[l] = poll[l]
BY DEF NoteTypes

\* The steps of the backend's runs.
LEMMA RunStepKeeps ==
    ASSUME NotesInv, NEW r \in Submissions, Task!Send(r) \/ Task!RunStep(r)
    PROVE  NotesInv'
<1>1. /\ UNCHANGED <<versions, poll>>
      /\ shown' \in {shown, "PENDING"}
      /\ result' \in {result, "partial", r}
  BY DEF Task!Send, Task!RunStep, Task!Open, Task!Write, Task!Rename, Task!Accept, Task!Reply,
         Task!LoseReply, Task!Replied, Task!Begin, Task!Download, Task!Transcribe,
         Task!Summarize, Task!Save, Task!Succeed, Task!Fail, Task!EndFailed, Task!OpenNote,
         Task!WriteNote, Task!Files, Task!Web
<1> QED
  BY <1>1 DEF NotesInv, NoteTypes, NoteOr, AnswersInv, ShownInv

\* The steps of one request of the web client.
LEMMA PollStepKeeps ==
    ASSUME NotesInv, NEW k \in Polls, Task!PollStep(k)
    PROVE  NotesInv'
<1> USE DEF NotesInv, NoteTypes, AnswersInv, ShownInv, Task!Files
<1>1. CASE Task!Tick(k)
  <2> DEFINE row == [at |-> "asked", seen |-> shown, answer |-> "none", note |-> None]
  <2>1. poll' = [poll EXCEPT ![k] = row] /\ UNCHANGED <<result, versions, shown>>
    BY <1>1, RowAsked DEF Task!Tick
  <2> QED
    BY <2>1, PollMoved DEF IsPoll
<1>2. CASE Task!AnswerStatus(k)
  <2> DEFINE row == [at |-> IF Task!StatusAnswer = "SUCCESS" THEN "reading" ELSE "answered",
                     seen |-> poll[k].seen, answer |-> Task!StatusAnswer, note |-> poll[k].note]
  <2>1. poll' = [poll EXCEPT ![k] = row] /\ UNCHANGED <<result, versions, shown>>
    BY <1>2 DEF Task!AnswerStatus
  <2> QED
    BY <2>1, PollMoved DEF IsPoll
<1>3. CASE Task!AnswerResult(k)
  <2> DEFINE row == [at |-> "answered", seen |-> poll[k].seen, answer |-> Task!ResultAnswer,
                     note |-> result]
  <2>1. poll' = [poll EXCEPT ![k] = row] /\ UNCHANGED <<result, versions, shown>>
    BY <1>3 DEF Task!AnswerResult
  <2> QED
    BY <2>1, PollMoved, ResultAnswered DEF IsPoll
<1>4. CASE Task!Deliver(k)
  <2>1. /\ UNCHANGED result
        /\ poll' = [poll EXCEPT ![k] = Task!NoPoll]
    BY <1>4 DEF Task!Deliver
  <2>2. versions' \in Seq(Submissions) /\ ShownInv'
    <3>1. CASE UNCHANGED <<shown, versions>>
      BY <3>1
    <3>2. CASE Task!Update("FAILED", None)
      BY <3>2, Updated
    <3>3. CASE Task!Update(poll[k].answer, poll[k].note)
      BY <1>4, <3>3, Updated DEF Task!Deliver
    <3> QED
      BY <1>4, <3>1, <3>2, <3>3 DEF Task!Deliver
  <2> QED
    BY <2>1, <2>2 DEF IsPoll, Task!NoPoll
<1>5. CASE Task!LosePoll(k)
  BY <1>5 DEF Task!LosePoll, IsPoll, Task!NoPoll
<1> QED
  BY <1>1, <1>2, <1>3, <1>4, <1>5 DEF Task!PollStep

\* The invariant of the notes a client is given.
THEOREM NotesInvariant == Task!Spec => []NotesInv
<1>1. Task!Init => NotesInv
  BY DEF Task!Init, NotesInv, NoteTypes, NoteOr, AnswersInv, ShownInv, IsPoll, Task!NoPoll
<1>2. NotesInv /\ [Task!Next]_Task!vars => NotesInv'
  <2> SUFFICES ASSUME NotesInv, [Task!Next]_Task!vars PROVE NotesInv'
    OBVIOUS
  <2>1. CASE Task!ExtPoll
    BY <2>1 DEF Task!ExtPoll, Task!Files, Task!Web, NotesInv, NoteTypes, AnswersInv, ShownInv
  <2>2. CASE Task!Restart
    <3>1. /\ UNCHANGED <<result, versions, shown>>
          /\ poll' = [k \in Polls |-> IF poll[k].at = "idle" THEN poll[k]
                        ELSE [at |-> "answered", seen |-> poll[k].seen, answer |-> "error",
                              note |-> poll[k].note]]
      BY <2>2, RowAnswered DEF Task!Restart, Task!Files, NotesInv, NoteTypes
    <3> QED
      BY <3>1 DEF NotesInv, NoteTypes, IsPoll, AnswersInv, ShownInv
  <2>3. CASE UNCHANGED Task!vars
    BY <2>3 DEF Task!vars, NotesInv, NoteTypes, AnswersInv, ShownInv
  <2> QED
    BY <2>1, <2>2, <2>3, RunStepKeeps, PollStepKeeps DEF Task!Next
<1> QED
  BY <1>1, <1>2, PTL DEF Task!Spec

\* Whatever is half written, overtaken by a retry or cut off by a restart: every version
\* the web client shows is the whole note of one submission, and it shows SUCCESS only
\* with a note.
THEOREM ShownNotesAreWhole == Task!Spec => []ShownNotesAreComplete
<1>1. NotesInv => ShownNotesAreComplete
  BY DEF NotesInv, NoteTypes, ShownInv, ShownNotesAreComplete, Task!ShownNotesAreComplete
<1> QED
  BY <1>1, NotesInvariant, PTL

-----------------------------------------------------------------------------
(* The notes of a long source: NoteSummary, the instance Summary.           *)

\* A text: the chunks it tells and its size.
ATell == Seq(Sources \X Nat)
AText == [covers : ATell, size : Nat]
Covered(seq) == UNION {ToSet(seq[i].covers) : i \in DOMAIN seq}

\* NoteSummary's concatenation of sequences is the library's.
LEMMA SameJoin == ASSUME NEW seq PROVE Summary!FlattenSeq(seq) = FlattenSeq(seq)
BY DEF Summary!FlattenSeq, FlattenSeq

\* NoteSummary's sum is that of Totals.
LEMMA SameTotal == ASSUME NEW seq PROVE Summary!Total(seq) = Total(seq)
BY DEF Summary!Total, Total

\* NoteSummary's set of elements is the library's.
LEMMA SameToSet == ASSUME NEW seq PROVE Summary!ToSet(seq) = ToSet(seq)
BY DEF Summary!ToSet, ToSet

\* Two lists of texts tell what either tells.
LEMMA CoveredConcat ==
    ASSUME NEW a \in Seq(AText), NEW b \in Seq(AText)
    PROVE  Covered(a \o b) = Covered(a) \cup Covered(b)
<1>1. /\ DOMAIN (a \o b) = 1 .. Len(a) + Len(b) /\ DOMAIN a = 1 .. Len(a) /\ DOMAIN b = 1 .. Len(b)
      /\ Len(a) \in Nat /\ Len(b) \in Nat
  OBVIOUS
<1>2. \A i \in 1 .. Len(a) : (a \o b)[i] = a[i]
  OBVIOUS
<1>3. \A i \in 1 .. Len(b) : (a \o b)[Len(a) + i] = b[i]
  OBVIOUS
<1>4. Covered(a) \subseteq Covered(a \o b)
  BY <1>1, <1>2 DEF Covered
<1>5. Covered(b) \subseteq Covered(a \o b)
  <2> SUFFICES ASSUME NEW i \in 1 .. Len(b) PROVE ToSet(b[i].covers) \subseteq Covered(a \o b)
    BY <1>1 DEF Covered
  <2>1. Len(a) + i \in DOMAIN (a \o b)
    BY <1>1
  <2> QED
    BY <2>1, <1>3 DEF Covered
<1>6. ASSUME NEW i \in DOMAIN (a \o b) PROVE ToSet((a \o b)[i].covers) \subseteq Covered(a) \cup Covered(b)
  <2>1. CASE i \in 1 .. Len(a)
    BY <2>1, <1>1, <1>2 DEF Covered
  <2>2. CASE i \notin 1 .. Len(a)
    <3>1. i - Len(a) \in 1 .. Len(b) /\ Len(a) + (i - Len(a)) = i
      BY <1>1, <2>2
    <3>2. (a \o b)[i] = b[i - Len(a)]
      BY <3>1, <1>3
    <3> QED
      BY <3>1, <3>2, <1>1 DEF Covered
  <2> QED
    BY <2>1, <2>2
<1>7. Covered(a \o b) \subseteq Covered(a) \cup Covered(b)
  BY <1>6 DEF Covered
<1> QED
  BY <1>4, <1>5, <1>7

\* A list of one text tells what the text tells.
LEMMA CoveredSingle ==
    ASSUME NEW t
    PROVE  Covered(<<t>>) = ToSet(t.covers)
<1>1. DOMAIN <<t>> = {1} /\ <<t>>[1] = t
  OBVIOUS
<1> QED
  BY <1>1 DEF Covered

\* No text tells nothing.
LEMMA CoveredEmpty == Covered(<<>>) = {}
BY DEF Covered

\* A text more tells what it tells more.
LEMMA CoveredAppend ==
    ASSUME NEW a \in Seq(AText), NEW t \in AText
    PROVE  Covered(Append(a, t)) = Covered(a) \cup ToSet(t.covers)
<1>1. Append(a, t) = a \o <<t>> /\ <<t>> \in Seq(AText)
  OBVIOUS
<1> QED
  BY <1>1, CoveredConcat, CoveredSingle

\* A list of texts split in two tells the same.
LEMMA CoveredSplit ==
    ASSUME NEW a \in Seq(AText), NEW n \in 0 .. Len(a)
    PROVE  Covered(a) = Covered(SubSeq(a, 1, n)) \cup Covered(SubSeq(a, n + 1, Len(a)))
<1>1. /\ SubSeq(a, 1, n) \in Seq(AText) /\ SubSeq(a, n + 1, Len(a)) \in Seq(AText)
      /\ a = SubSeq(a, 1, n) \o SubSeq(a, n + 1, Len(a))
  BY ONLY n \in 0 .. Len(a), a \in Seq(AText), HeadAndRest
<1>2. Covered(SubSeq(a, 1, n) \o SubSeq(a, n + 1, Len(a)))
        = Covered(SubSeq(a, 1, n)) \cup Covered(SubSeq(a, n + 1, Len(a)))
  BY ONLY <1>1, CoveredConcat
<1> QED
  BY ONLY <1>1, <1>2

\* A merged text tells what its group tells.
LEMMA MergedCovers ==
    ASSUME NEW g \in Seq(AText), NEW size \in Nat
    PROVE  /\ Summary!Merged(g, size) \in AText
           /\ ToSet(Summary!Merged(g, size).covers) = Covered(g)
<1> DEFINE told == [i \in DOMAIN g |-> g[i].covers]
<1>1. told \in Seq(ATell) /\ DOMAIN told = DOMAIN g
  <2>1. Len(g) \in Nat /\ DOMAIN g = 1 .. Len(g)
    OBVIOUS
  <2>2. ASSUME NEW i \in 1 .. Len(g) PROVE g[i].covers \in ATell
    <3>1. g[i] \in AText
      BY ElementOfSeq
    <3> QED
      BY ONLY <3>1 DEF AText
  <2>3. told \in [1 .. Len(g) -> ATell]
    BY <2>1, <2>2
  <2> QED
    BY <2>1, <2>3, FunctionIsSequence
<1>2. Summary!Merged(g, size) = [covers |-> FlattenSeq(told), size |-> size]
  BY SameJoin DEF Summary!Merged
<1>3. UNION {ToSet(told[i]) : i \in DOMAIN told} = Covered(g)
  BY <1>1 DEF Covered
<1> HIDE DEF told
<1>4. FlattenSeq(told) \in ATell
  BY <1>1, FlattenType DEF ATell
<1>5. ToSet(FlattenSeq(told)) = UNION {ToSet(told[i]) : i \in DOMAIN told}
  BY <1>1, ElementsOfFlatten DEF ATell
<1>6. Summary!Merged(g, size) \in AText
  BY <1>2, <1>4 DEF AText
<1>7. Summary!Merged(g, size).covers = FlattenSeq(told)
  BY <1>2
<1> QED
  BY <1>3, <1>5, <1>6, <1>7

\* The next group of texts that each fit is a head of them that is not empty.
LEMMA GroupIsHead ==
    ASSUME NEW a \in Seq(AText), a # <<>>, Summary!Groupable(a), MergeBudget \in Nat
    PROVE  \E n \in 1 .. Len(a) : Summary!NextGroup(a) = SubSeq(a, 1, n)
<1> DEFINE fits == {n \in 1 .. Len(a) : Summary!SizeOf(SubSeq(a, 1, n)) <= MergeBudget}
<1>1. Len(a) \in Nat /\ 1 \in 1 .. Len(a)
  OBVIOUS
<1>2. 1 \in fits
  <2>1. SubSeq(a, 1, 1) = <<a[1]>>
    BY FirstAlone
  <2>2. [i \in DOMAIN <<a[1]>> |-> <<a[1]>>[i].size] = <<a[1].size>>
    OBVIOUS
  <2>3. a[1].size \in Nat /\ a[1].size <= MergeBudget
    <3>1. a[1] \in AText
      BY <1>1
    <3> QED
      BY <1>1, <3>1 DEF AText, Summary!Groupable
  <2>4. Total(<<a[1].size>>) = a[1].size
    BY <2>3, TotalSingle
  <2> QED
    BY <1>1, <2>1, <2>2, <2>3, <2>4, SameTotal DEF Summary!SizeOf
<1>3. fits \subseteq 0 .. Len(a) /\ fits # {}
  BY <1>1, <1>2
<1>4. \E n \in fits : \A m \in fits : m <= n
  BY ONLY <1>1, <1>3, GreatestUpTo
<1>5. (CHOOSE n \in fits : \A m \in fits : m <= n) \in fits
  BY <1>4
<1> QED
  BY <1>5 DEF Summary!NextGroup

-----------------------------------------------------------------------------
\* The partials a run may go on from.
Partials(s, seq) ==
    /\ s \in Sources /\ seq \in Seq(AText)
    /\ \A c \in 1 .. NumChunks[s] : c <= Len(seq) => <<s, c>> \in Covered(seq)
    /\ Covered(seq) \subseteq Summary!ChunksOf(s)

\* Partials of which a merge makes the note.
AllOf(s, seq) == s \in Sources /\ seq \in Seq(AText) /\ Covered(seq) = Summary!ChunksOf(s)

IsRun(row) ==
    row = [pc |-> row.pc, source |-> row.source, partials |-> row.partials, rest |-> row.rest,
           merged |-> row.merged, unsaved |-> row.unsaved, attempt |-> row.attempt,
           resumed |-> row.resumed]

RunInv(row) ==
    /\ row.pc = "chunks" =>
          /\ Partials(row.source, row.partials) /\ Len(row.partials) <= NumChunks[row.source]
          /\ row.merged = <<>> /\ row.rest = <<>>
    /\ row.pc = "merge" =>
          /\ AllOf(row.source, row.partials)
          /\ row.merged \in Seq(AText) /\ row.rest \in Seq(AText)
          /\ Summary!Groupable(row.rest)
          /\ IF row.merged = <<>> /\ row.rest = <<>> THEN ~row.unsaved
             ELSE Covered(row.merged) \cup Covered(row.rest) = Summary!ChunksOf(row.source)
    /\ row.pc = "noted" => AllOf(row.source, row.partials) /\ Len(row.partials) = 1

CheckpointInv == checkpoint # None => Partials(checkpoint.source, checkpoint.partials)

SummaryInv ==
    /\ run = [r \in SummaryRuns |-> run[r]]
    /\ \A r \in SummaryRuns : IsRun(run[r]) /\ RunInv(run[r])
    /\ CheckpointInv

\* Texts that tell the whole source are texts of it.
LEMMA WholeIsPartials ==
    ASSUME NEW s, NEW seq, AllOf(s, seq)
    PROVE  Partials(s, seq)
BY DEF AllOf, Partials, Summary!ChunksOf

\* As many partial notes as there are chunks tell the whole source.
LEMMA PartialsAreWhole ==
    ASSUME NEW s, NEW seq, Partials(s, seq), Len(seq) = NumChunks[s], NumChunks[s] \in Nat
    PROVE  AllOf(s, seq)
BY DEF AllOf, Partials, Summary!ChunksOf

\* The empty list of partial notes is one of every source.
LEMMA NoPartials == ASSUME NEW s \in Sources PROVE Partials(s, <<>>)
BY CoveredEmpty DEF Partials

\* One run moves; what it moves to satisfies the invariant, and so does what it saves.
LEMMA RunMoved ==
    ASSUME SummaryInv, NEW r \in SummaryRuns, NEW row, run' = [run EXCEPT ![r] = row],
           IsRun(row), RunInv(row), CheckpointInv'
    PROVE  SummaryInv'
<1>1. run' = [q \in SummaryRuns |-> run'[q]]
  BY DEF SummaryInv
<1>2. \A q \in SummaryRuns : run'[q] = IF q = r THEN row ELSE run[q]
  BY DEF SummaryInv
<1> QED
  BY <1>1, <1>2 DEF SummaryInv

Row(p, s, seq, left, out, u, a, from) ==
    [pc |-> p, source |-> s, partials |-> seq, rest |-> left, merged |-> out, unsaved |-> u,
     attempt |-> a, resumed |-> from]

\* What the columns of a row of the summary are.
LEMMA RowFields ==
    ASSUME NEW p, NEW s, NEW seq, NEW left, NEW out, NEW u, NEW a, NEW from,
           NEW row, row = Row(p, s, seq, left, out, u, a, from)
    PROVE  /\ IsRun(row) /\ row.pc = p /\ row.source = s /\ row.partials = seq
           /\ row.rest = left /\ row.merged = out /\ row.unsaved = u
BY DEF IsRun, Row

\* What the phases of a run ask of its record.
LEMMA InChunks ==
    ASSUME NEW s, NEW seq, NEW u, NEW a, NEW from, Partials(s, seq), Len(seq) <= NumChunks[s],
           NEW row, row = Row("chunks", s, seq, <<>>, <<>>, u, a, from)
    PROVE  IsRun(row) /\ RunInv(row)
<1>1. /\ IsRun(row) /\ row.pc = "chunks" /\ row.source = s /\ row.partials = seq
      /\ row.rest = <<>> /\ row.merged = <<>>
  BY RowFields
<1> QED
  BY <1>1 DEF RunInv

\* The invariant of a run that merges, from its columns.
LEMMA InMerge ==
    ASSUME NEW s, NEW seq, NEW left \in Seq(AText), NEW out \in Seq(AText), NEW u, NEW a, NEW from,
           AllOf(s, seq), Summary!Groupable(left),
           IF out = <<>> /\ left = <<>> THEN ~u
           ELSE Covered(out) \cup Covered(left) = Summary!ChunksOf(s),
           NEW row, row = Row("merge", s, seq, left, out, u, a, from)
    PROVE  IsRun(row) /\ RunInv(row)
<1>1. /\ IsRun(row) /\ row.pc = "merge" /\ row.source = s /\ row.partials = seq
      /\ row.rest = left /\ row.merged = out /\ row.unsaved = u
  BY RowFields
<1> QED
  BY <1>1 DEF RunInv

\* The invariant of a run that has ended, from its columns.
LEMMA InEnd ==
    ASSUME NEW p, p \notin {"chunks", "merge"}, NEW s, NEW seq, NEW left, NEW out, NEW u, NEW a,
           NEW from, p = "noted" => AllOf(s, seq) /\ Len(seq) = 1,
           NEW row, row = Row(p, s, seq, left, out, u, a, from)
    PROVE  IsRun(row) /\ RunInv(row)
<1>1. IsRun(row) /\ row.pc = p /\ row.source = s /\ row.partials = seq
  BY RowFields
<1> QED
  BY <1>1 DEF RunInv

\* The record a run that ends leaves.
LEMMA OverRow ==
    ASSUME NEW old, IsRun(old), NEW p, NEW note
    PROVE  [old EXCEPT !.pc = p, !.partials = note, !.rest = <<>>, !.merged = <<>>,
                       !.unsaved = FALSE, !.attempt = 1]
               = Row(p, old.source, note, <<>>, <<>>, FALSE, 1, old.resumed)
<1>1. PICK r1 : r1 = [old EXCEPT !.pc = p]
  OBVIOUS
<1>2. r1 = Row(p, old.source, old.partials, old.rest, old.merged, old.unsaved, old.attempt, old.resumed)
  BY <1>1 DEF Row, IsRun
<1>3. PICK r2 : r2 = [r1 EXCEPT !.partials = note]
  OBVIOUS
<1>4. r2 = Row(p, old.source, note, old.rest, old.merged, old.unsaved, old.attempt, old.resumed)
  BY <1>3, <1>2 DEF Row
<1>5. PICK r3 : r3 = [r2 EXCEPT !.rest = <<>>]
  OBVIOUS
<1>6. r3 = Row(p, old.source, note, <<>>, old.merged, old.unsaved, old.attempt, old.resumed)
  BY <1>5, <1>4 DEF Row
<1>7. PICK r4 : r4 = [r3 EXCEPT !.merged = <<>>]
  OBVIOUS
<1>8. r4 = Row(p, old.source, note, <<>>, <<>>, old.unsaved, old.attempt, old.resumed)
  BY <1>7, <1>6 DEF Row
<1>9. PICK r5 : r5 = [r4 EXCEPT !.unsaved = FALSE]
  OBVIOUS
<1>10. r5 = Row(p, old.source, note, <<>>, <<>>, FALSE, old.attempt, old.resumed)
  BY <1>9, <1>8 DEF Row
<1>11. PICK r6 : r6 = [r5 EXCEPT !.attempt = 1]
  OBVIOUS
<1>12. r6 = Row(p, old.source, note, <<>>, <<>>, FALSE, 1, old.resumed)
  BY <1>11, <1>10 DEF Row
<1> QED
  BY <1>1, <1>3, <1>5, <1>7, <1>9, <1>11, <1>12

\* A run that ends.
LEMMA RunOver ==
    ASSUME SummaryInv, NEW r \in SummaryRuns, NEW p, NEW note, Summary!Over(r, p, note)
    PROVE  run' = [run EXCEPT ![r] =
               Row(p, run[r].source, note, <<>>, <<>>, FALSE, 1, run[r].resumed)]
<1> DEFINE old == run[r]
<1>1. IsRun(old)
  BY DEF SummaryInv
<1>2. run' = [run EXCEPT ![r] = [old EXCEPT !.pc = p, !.partials = note, !.rest = <<>>,
                                   !.merged = <<>>, !.unsaved = FALSE, !.attempt = 1]]
  BY DEF Summary!Over, SummaryInv
<1> HIDE DEF old
<1>3. [old EXCEPT !.pc = p, !.partials = note, !.rest = <<>>, !.merged = <<>>, !.unsaved = FALSE,
                  !.attempt = 1]
        = Row(p, old.source, note, <<>>, <<>>, FALSE, 1, old.resumed)
  BY <1>1, OverRow
<1> QED
  BY <1>2, <1>3 DEF old

\* A run that starts, with the checkpoint of its source or without.
LEMMA StartKeeps ==
    ASSUME SummaryInv, NEW r \in SummaryRuns, NEW s \in Sources, Summary!Start(r, s),
           NumChunks[s] \in Nat
    PROVE  SummaryInv'
<1> DEFINE from == IF Summary!Loaded(s) = <<>> THEN None ELSE checkpoint.phase
           row == Row("chunks", s, Summary!Usable(s), <<>>, <<>>, FALSE, 1, from)
<1>1. run' = [run EXCEPT ![r] = row]
  <2>1. [Summary!Fresh EXCEPT !.pc = "chunks", !.source = s, !.partials = Summary!Usable(s),
                              !.resumed = from] = row
    <3>1. PICK r1 : r1 = [Summary!Fresh EXCEPT !.pc = "chunks"]
      OBVIOUS
    <3>2. r1 = Row("chunks", None, <<>>, <<>>, <<>>, FALSE, 1, None)
      BY <3>1 DEF Summary!Fresh, Row
    <3>3. PICK r2 : r2 = [r1 EXCEPT !.source = s]
      OBVIOUS
    <3>4. r2 = Row("chunks", s, <<>>, <<>>, <<>>, FALSE, 1, None)
      BY <3>2, <3>3 DEF Row
    <3>5. PICK r3 : r3 = [r2 EXCEPT !.partials = Summary!Usable(s)]
      OBVIOUS
    <3>6. r3 = Row("chunks", s, Summary!Usable(s), <<>>, <<>>, FALSE, 1, None)
      BY <3>4, <3>5 DEF Row
    <3>7. PICK r4 : r4 = [r3 EXCEPT !.resumed = from]
      OBVIOUS
    <3>8. r4 = row
      BY <3>6, <3>7 DEF Row
    <3> QED
      BY <3>1, <3>3, <3>5, <3>7, <3>8
  <2> QED
    BY <2>1 DEF Summary!Start
<1>2. Partials(s, Summary!Usable(s)) /\ Len(Summary!Usable(s)) <= NumChunks[s]
  <2>1. Partials(s, Summary!Loaded(s))
    BY NoPartials DEF SummaryInv, CheckpointInv, Summary!Loaded
  <2> QED
    BY <2>1, NoPartials DEF Summary!Usable, Partials
<1>3. IsRun(row) /\ RunInv(row)
  BY <1>2, InChunks
<1>4. CheckpointInv'
  BY DEF Summary!Start, SummaryInv, CheckpointInv
<1> HIDE DEF row
<1> QED
  BY <1>1, <1>3, <1>4, RunMoved

\* The record after the answer of a chunk.
LEMMA AnsweredRow ==
    ASSUME NEW old, IsRun(old), NEW seq
    PROVE  [old EXCEPT !.partials = seq, !.unsaved = TRUE, !.attempt = 1]
               = Row(old.pc, old.source, seq, old.rest, old.merged, TRUE, 1, old.resumed)
<1>1. PICK r1 : r1 = [old EXCEPT !.partials = seq]
  OBVIOUS
<1>2. r1 = Row(old.pc, old.source, seq, old.rest, old.merged, old.unsaved, old.attempt, old.resumed)
  BY <1>1 DEF Row, IsRun
<1>3. PICK r2 : r2 = [r1 EXCEPT !.unsaved = TRUE]
  OBVIOUS
<1>4. r2 = Row(old.pc, old.source, seq, old.rest, old.merged, TRUE, old.attempt, old.resumed)
  BY <1>3, <1>2 DEF Row
<1>5. PICK r3 : r3 = [r2 EXCEPT !.attempt = 1]
  OBVIOUS
<1>6. r3 = Row(old.pc, old.source, seq, old.rest, old.merged, TRUE, 1, old.resumed)
  BY <1>5, <1>4 DEF Row
<1> QED
  BY <1>1, <1>3, <1>5, <1>6

\* The record after the answer of a merge.
LEMMA MergedRow ==
    ASSUME NEW old, IsRun(old), NEW out, NEW left
    PROVE  [old EXCEPT !.merged = out, !.rest = left, !.unsaved = TRUE, !.attempt = 1]
               = Row(old.pc, old.source, old.partials, left, out, TRUE, 1, old.resumed)
<1>1. PICK r1 : r1 = [old EXCEPT !.merged = out]
  OBVIOUS
<1>2. r1 = Row(old.pc, old.source, old.partials, old.rest, out, old.unsaved, old.attempt, old.resumed)
  BY <1>1 DEF Row, IsRun
<1>3. PICK r2 : r2 = [r1 EXCEPT !.rest = left]
  OBVIOUS
<1>4. r2 = Row(old.pc, old.source, old.partials, left, out, old.unsaved, old.attempt, old.resumed)
  BY <1>3, <1>2 DEF Row
<1>5. PICK r3 : r3 = [r2 EXCEPT !.unsaved = TRUE]
  OBVIOUS
<1>6. r3 = Row(old.pc, old.source, old.partials, left, out, TRUE, old.attempt, old.resumed)
  BY <1>5, <1>4 DEF Row
<1>7. PICK r4 : r4 = [r3 EXCEPT !.attempt = 1]
  OBVIOUS
<1>8. r4 = Row(old.pc, old.source, old.partials, left, out, TRUE, 1, old.resumed)
  BY <1>7, <1>6 DEF Row
<1> QED
  BY <1>1, <1>3, <1>5, <1>7, <1>8

\* The record after a round.
LEMMA RoundRow ==
    ASSUME NEW old, IsRun(old), NEW seq
    PROVE  [old EXCEPT !.partials = seq, !.merged = <<>>]
               = Row(old.pc, old.source, seq, old.rest, <<>>, old.unsaved, old.attempt, old.resumed)
<1>1. PICK r1 : r1 = [old EXCEPT !.partials = seq]
  OBVIOUS
<1>2. r1 = Row(old.pc, old.source, seq, old.rest, old.merged, old.unsaved, old.attempt, old.resumed)
  BY <1>1 DEF Row, IsRun
<1>3. PICK r2 : r2 = [r1 EXCEPT !.merged = <<>>]
  OBVIOUS
<1>4. r2 = Row(old.pc, old.source, seq, old.rest, <<>>, old.unsaved, old.attempt, old.resumed)
  BY <1>3, <1>2 DEF Row
<1> QED
  BY <1>1, <1>3, <1>4

\* The record after its partials were saved.
LEMMA SavedRow ==
    ASSUME NEW old, IsRun(old)
    PROVE  [old EXCEPT !.unsaved = FALSE]
               = Row(old.pc, old.source, old.partials, old.rest, old.merged, FALSE, old.attempt, old.resumed)
<1>1. PICK r1 : r1 = [old EXCEPT !.unsaved = FALSE]
  OBVIOUS
<1>2. r1 = Row(old.pc, old.source, old.partials, old.rest, old.merged, FALSE, old.attempt, old.resumed)
  BY <1>1 DEF Row, IsRun
<1> QED
  BY <1>1, <1>2

\* The record of a run that begins to merge.
LEMMA MergingRow ==
    ASSUME NEW old, IsRun(old)
    PROVE  [old EXCEPT !.pc = "merge"]
               = Row("merge", old.source, old.partials, old.rest, old.merged, old.unsaved, old.attempt, old.resumed)
<1>1. PICK r1 : r1 = [old EXCEPT !.pc = "merge"]
  OBVIOUS
<1>2. r1 = Row("merge", old.source, old.partials, old.rest, old.merged, old.unsaved, old.attempt, old.resumed)
  BY <1>1 DEF Row, IsRun
<1> QED
  BY <1>1, <1>2

\* The record of a run that begins a round.
LEMMA BegunRow ==
    ASSUME NEW old, IsRun(old), NEW left
    PROVE  [old EXCEPT !.rest = left]
               = Row(old.pc, old.source, old.partials, left, old.merged, old.unsaved, old.attempt, old.resumed)
<1>1. PICK r1 : r1 = [old EXCEPT !.rest = left]
  OBVIOUS
<1>2. r1 = Row(old.pc, old.source, old.partials, left, old.merged, old.unsaved, old.attempt, old.resumed)
  BY <1>1 DEF Row, IsRun
<1> QED
  BY <1>1, <1>2

\* The record of a run that calls again.
LEMMA RetriedRow ==
    ASSUME NEW old, IsRun(old), NEW a
    PROVE  [old EXCEPT !.attempt = a]
               = Row(old.pc, old.source, old.partials, old.rest, old.merged, old.unsaved, a, old.resumed)
<1>1. PICK r1 : r1 = [old EXCEPT !.attempt = a]
  OBVIOUS
<1>2. r1 = Row(old.pc, old.source, old.partials, old.rest, old.merged, old.unsaved, a, old.resumed)
  BY <1>1 DEF Row, IsRun
<1> QED
  BY <1>1, <1>2

\* A row has the shape of its columns.
LEMMA OldRow ==
    ASSUME NEW old, IsRun(old)
    PROVE  old = Row(old.pc, old.source, old.partials, old.rest, old.merged, old.unsaved,
                     old.attempt, old.resumed)
BY DEF IsRun, Row

\* The answer for a chunk is the next partial note.
LEMMA AnswerChunkKeeps ==
    ASSUME SummaryInv, NEW r \in SummaryRuns, NEW size \in Nat, Summary!AnswerChunk(r, size),
           NumChunks \in [Sources -> Nat]
    PROVE  SummaryInv'
<1> DEFINE old == run[r]
           c == Len(old.partials) + 1
           told == [covers |-> <<<<old.source, c>>>>, size |-> size]
           seq == Append(old.partials, told)
           row == Row("chunks", old.source, seq, <<>>, <<>>, TRUE, 1, old.resumed)
<1>1. /\ IsRun(old) /\ old.pc = "chunks" /\ Partials(old.source, old.partials)
      /\ Len(old.partials) < NumChunks[old.source] /\ old.merged = <<>> /\ old.rest = <<>>
  BY DEF SummaryInv, RunInv, Summary!AnswerChunk
<1>2. run' = [run EXCEPT ![r] = [old EXCEPT !.partials = seq, !.unsaved = TRUE, !.attempt = 1]]
  BY DEF Summary!AnswerChunk, SummaryInv
<1>3. c \in 1 .. NumChunks[old.source] /\ c \in Nat /\ Len(old.partials) \in Nat
  BY <1>1 DEF Partials
<1>4. told \in AText /\ ToSet(told.covers) = {<<old.source, c>>}
  <2>1. <<old.source, c>> \in Sources \X Nat
    BY <1>1, <1>3 DEF Partials
  <2> QED
    BY <2>1 DEF AText, ATell, ToSet
<1> HIDE DEF told
<1>5. Partials(old.source, seq) /\ Len(seq) <= NumChunks[old.source]
  <2>1. old.partials \in Seq(AText)
    BY <1>1 DEF Partials
  <2>2. seq \in Seq(AText) /\ Len(seq) = c
    BY <2>1, <1>4
  <2>3. Covered(seq) = Covered(old.partials) \cup {<<old.source, c>>}
    BY <2>1, <1>4, CoveredAppend
  <2> HIDE DEF seq
  <2>4. Covered(seq) \subseteq Summary!ChunksOf(old.source)
    BY <2>3, <1>1, <1>3 DEF Partials, Summary!ChunksOf
  <2>5. ASSUME NEW d \in 1 .. NumChunks[old.source], d <= Len(seq)
        PROVE  <<old.source, d>> \in Covered(seq)
    <3>1. CASE d = c
      BY <3>1, <2>3
    <3>2. CASE d <= Len(old.partials)
      BY <3>2, <2>3, <1>1 DEF Partials
    <3>3. d \in Nat /\ (d = c \/ d <= Len(old.partials))
      <4>1. NumChunks[old.source] \in Nat
        BY <1>1 DEF Partials
      <4>2. Len(seq) = c /\ c = Len(old.partials) + 1 /\ Len(old.partials) \in Nat
        BY <2>2, <1>3
      <4> HIDE DEF c, old
      <4> QED
        BY <2>5, <4>1, <4>2
    <3> QED
      BY <3>1, <3>2, <3>3
  <2> QED
    BY <2>2, <2>4, <2>5, <1>1, <1>3 DEF Partials
<1> HIDE DEF seq, c
<1>6. [old EXCEPT !.partials = seq, !.unsaved = TRUE, !.attempt = 1] = row
  BY <1>1, AnsweredRow
<1>7. IsRun(row) /\ RunInv(row)
  BY <1>5, InChunks
<1>8. CheckpointInv'
  BY DEF Summary!AnswerChunk, SummaryInv, CheckpointInv
<1> HIDE DEF old, row
<1> QED
  BY <1>2, <1>6, <1>7, <1>8, RunMoved DEF old

\* The checkpoint written after a chunk holds the partial notes.
LEMMA SaveChunkKeeps ==
    ASSUME SummaryInv, NEW r \in SummaryRuns, Summary!SaveChunk(r)
    PROVE  SummaryInv'
<1> DEFINE old == run[r]
           row == Row("chunks", old.source, old.partials, <<>>, <<>>, FALSE, old.attempt, old.resumed)
<1>1. /\ IsRun(old) /\ old.pc = "chunks" /\ Partials(old.source, old.partials)
      /\ Len(old.partials) <= NumChunks[old.source] /\ old.merged = <<>> /\ old.rest = <<>>
  BY DEF SummaryInv, RunInv, Summary!SaveChunk
<1>2. run' = [run EXCEPT ![r] = [old EXCEPT !.unsaved = FALSE]]
  BY DEF Summary!SaveChunk, SummaryInv
<1>3. CheckpointInv'
  BY <1>1 DEF Summary!SaveChunk, Summary!Saved, CheckpointInv
<1> HIDE DEF old
<1>4. [old EXCEPT !.unsaved = FALSE] = row
  BY <1>1, SavedRow
<1>5. IsRun(row) /\ RunInv(row)
  BY <1>1, InChunks
<1> HIDE DEF row
<1> QED
  BY <1>2, <1>3, <1>4, <1>5, RunMoved DEF old

\* The only chunk of a source is its note.
LEMMA OnlyChunkKeeps ==
    ASSUME SummaryInv, NEW r \in SummaryRuns, Summary!OnlyChunk(r),
           NumChunks \in [Sources -> Nat]
    PROVE  SummaryInv'
<1> DEFINE old == run[r]
           row == Row("noted", old.source, old.partials, <<>>, <<>>, FALSE, 1, old.resumed)
<1>1. /\ Partials(old.source, old.partials) /\ Len(old.partials) = 1
      /\ Len(old.partials) = NumChunks[old.source]
  BY DEF SummaryInv, RunInv, Summary!OnlyChunk, Summary!AllAnswered
<1>2. run' = [run EXCEPT ![r] = row]
  BY RunOver DEF Summary!OnlyChunk
<1>3. CheckpointInv'
  BY DEF Summary!OnlyChunk, CheckpointInv
<1> HIDE DEF old
<1>4. NumChunks[old.source] \in Nat
  BY <1>1 DEF Partials
<1>5. AllOf(old.source, old.partials)
  BY <1>1, <1>4, PartialsAreWhole
<1>6. IsRun(row) /\ RunInv(row)
  BY <1>1, <1>5, InEnd
<1> HIDE DEF row
<1> QED
  BY <1>2, <1>3, <1>6, RunMoved DEF old

\* One partial note that a checkpoint held is the note.
LEMMA NothingToMergeKeeps ==
    ASSUME SummaryInv, NEW r \in SummaryRuns, Summary!NothingToMerge(r)
    PROVE  SummaryInv'
<1> DEFINE row == Row("failed", run[r].source, <<>>, <<>>, <<>>, FALSE, 1, run[r].resumed)
<1>1. run' = [run EXCEPT ![r] = row]
  BY RunOver DEF Summary!NothingToMerge
<1>2. CheckpointInv'
  BY DEF Summary!NothingToMerge, SummaryInv, CheckpointInv
<1>3. IsRun(row) /\ RunInv(row)
  BY InEnd
<1> HIDE DEF row
<1> QED
  BY <1>1, <1>2, <1>3, RunMoved

\* The partial notes of all chunks are what is merged.
LEMMA BeginMergeKeeps ==
    ASSUME SummaryInv, NEW r \in SummaryRuns, Summary!BeginMerge(r),
           NumChunks \in [Sources -> Nat]
    PROVE  SummaryInv'
<1> DEFINE old == run[r]
           row == Row("merge", old.source, old.partials, old.rest, old.merged, old.unsaved,
                      old.attempt, old.resumed)
<1>1. /\ IsRun(old) /\ Partials(old.source, old.partials)
      /\ Len(old.partials) = NumChunks[old.source] /\ old.merged = <<>> /\ old.rest = <<>>
  BY DEF SummaryInv, RunInv, Summary!BeginMerge, Summary!AllAnswered
<1>2. run' = [run EXCEPT ![r] = [old EXCEPT !.pc = "merge"]]
  BY DEF Summary!BeginMerge, SummaryInv
<1>3. CheckpointInv'
  BY DEF Summary!BeginMerge, SummaryInv, CheckpointInv
<1>4. ~old.unsaved
  BY DEF Summary!BeginMerge, Summary!AllAnswered
<1> HIDE DEF old
<1>5. [old EXCEPT !.pc = "merge"] = row
  BY <1>1, MergingRow
<1>6. NumChunks[old.source] \in Nat
  BY <1>1 DEF Partials
<1>7. AllOf(old.source, old.partials)
  BY <1>1, <1>6, PartialsAreWhole
<1>8. old.rest \in Seq(AText) /\ old.merged \in Seq(AText) /\ Summary!Groupable(old.rest)
  BY <1>1 DEF Summary!Groupable
<1>9. IsRun(row) /\ RunInv(row)
  BY <1>1, <1>4, <1>7, <1>8, InMerge
<1> HIDE DEF row
<1> QED
  BY <1>2, <1>3, <1>5, <1>9, RunMoved DEF old

\* The next round merges what the last one made.
LEMMA BeginRoundKeeps ==
    ASSUME SummaryInv, NEW r \in SummaryRuns, Summary!BeginRound(r)
    PROVE  SummaryInv'
<1> DEFINE old == run[r]
<1>1. /\ IsRun(old) /\ AllOf(old.source, old.partials) /\ old.pc = "merge" /\ old.merged = <<>>
      /\ Len(old.partials) > 1
  BY DEF SummaryInv, RunInv, Summary!BeginRound, Summary!BetweenRounds
<1>2. CheckpointInv'
  BY DEF Summary!BeginRound, SummaryInv, CheckpointInv
<1>3. CASE Summary!Groupable(old.partials)
  <2> DEFINE row == Row("merge", old.source, old.partials, old.partials, old.merged, old.unsaved,
                        old.attempt, old.resumed)
  <2>1. run' = [run EXCEPT ![r] = [old EXCEPT !.rest = old.partials]]
    BY <1>3 DEF Summary!BeginRound, SummaryInv
  <2> HIDE DEF old
  <2>2. [old EXCEPT !.rest = old.partials] = row
    BY <1>1, BegunRow
  <2>3. /\ old.partials \in Seq(AText) /\ old.merged \in Seq(AText)
        /\ Covered(old.merged) \cup Covered(old.partials) = Summary!ChunksOf(old.source)
        /\ old.partials # <<>>
    BY <1>1, CoveredEmpty DEF AllOf
  <2>4. IsRun(row) /\ RunInv(row)
    BY <1>1, <1>3, <2>3, InMerge
  <2> HIDE DEF row
  <2> QED
    BY <2>1, <2>2, <2>4, <1>2, RunMoved DEF old
<1>4. CASE ~Summary!Groupable(old.partials)
  <2> DEFINE row == Row("failed", run[r].source, <<>>, <<>>, <<>>, FALSE, 1, run[r].resumed)
  <2>1. run' = [run EXCEPT ![r] = row]
    BY <1>4, RunOver DEF Summary!BeginRound
  <2>2. IsRun(row) /\ RunInv(row)
    BY InEnd
  <2> HIDE DEF row
  <2> QED
    BY <1>2, <2>1, <2>2, RunMoved
<1> QED
  BY <1>3, <1>4

\* The answer of a merge tells what the texts of its group tell.
LEMMA AnswerMergeKeeps ==
    ASSUME SummaryInv, NEW r \in SummaryRuns, NEW size \in Nat, Summary!AnswerMerge(r, size),
           MergeBudget \in Nat
    PROVE  SummaryInv'
<1> DEFINE old == run[r]
           group == Summary!NextGroup(old.rest)
           out == Append(old.merged, Summary!Merged(group, size))
           left == SubSeq(old.rest, Len(group) + 1, Len(old.rest))
           row == Row("merge", old.source, old.partials, left, out, TRUE, 1, old.resumed)
<1>1. /\ IsRun(old) /\ old.pc = "merge" /\ AllOf(old.source, old.partials)
      /\ old.rest # <<>> /\ old.rest \in Seq(AText) /\ old.merged \in Seq(AText)
      /\ Summary!Groupable(old.rest)
      /\ Covered(old.merged) \cup Covered(old.rest) = Summary!ChunksOf(old.source)
  BY DEF SummaryInv, RunInv, Summary!AnswerMerge
<1>2. run' = [run EXCEPT ![r] = [old EXCEPT !.merged = out, !.rest = left, !.unsaved = TRUE,
                                            !.attempt = 1]]
  BY DEF Summary!AnswerMerge, SummaryInv
<1>3. CheckpointInv'
  BY DEF Summary!AnswerMerge, SummaryInv, CheckpointInv
<1> HIDE DEF old
<1>4. PICK n \in 1 .. Len(old.rest) : group = SubSeq(old.rest, 1, n)
  BY <1>1, GroupIsHead
<1>5. n \in 0 .. Len(old.rest) /\ Len(old.rest) \in Nat
  BY <1>1, <1>4
<1>6. /\ group \in Seq(AText) /\ Len(group) = n
      /\ left \in Seq(AText)
  BY <1>1, <1>4, <1>5, HeadAndRest
<1>7. Covered(old.rest) = Covered(group) \cup Covered(left)
  BY <1>1, <1>4, <1>5, <1>6, CoveredSplit
<1>8. Summary!Groupable(left)
  <2>1. Len(left) = Len(old.rest) - n /\ \A i \in 1 .. Len(left) : left[i] = old.rest[n + i]
    <3> DEFINE all == old.rest
    <3>1. all \in Seq(AText) /\ n \in 0 .. Len(all) /\ left = SubSeq(all, n + 1, Len(all))
      BY <1>1, <1>5, <1>6
    <3> HIDE DEF all
    <3>2. Len(SubSeq(all, n + 1, Len(all))) = Len(all) - n
      BY <3>1, HeadAndRest
    <3>3. \A i \in 1 .. Len(all) - n : SubSeq(all, n + 1, Len(all))[i] = all[n + i]
      BY <3>1
    <3> QED
      BY <3>1, <3>2, <3>3 DEF all
  <2> HIDE DEF left
  <2>2. ASSUME NEW i \in 1 .. Len(left) PROVE left[i].size <= MergeBudget
    <3>1. n + i \in 1 .. Len(old.rest) /\ left[i] = old.rest[n + i]
      BY <1>5, <2>1, <2>2
    <3> QED
      BY <1>1, <3>1 DEF Summary!Groupable
  <2> QED
    BY <2>2 DEF Summary!Groupable
<1> HIDE DEF group, left
<1>9. /\ Summary!Merged(group, size) \in AText
      /\ ToSet(Summary!Merged(group, size).covers) = Covered(group)
  BY <1>6, MergedCovers
<1>10. out \in Seq(AText) /\ out # <<>> /\ Covered(out) = Covered(old.merged) \cup Covered(group)
  BY <1>1, <1>9, CoveredAppend
<1> HIDE DEF out
<1>11. Covered(out) \cup Covered(left) = Summary!ChunksOf(old.source)
  BY <1>1, <1>7, <1>10
<1>12. [old EXCEPT !.merged = out, !.rest = left, !.unsaved = TRUE, !.attempt = 1] = row
  BY <1>1, MergedRow
<1>13. IsRun(row) /\ RunInv(row)
  BY <1>1, <1>6, <1>8, <1>10, <1>11, InMerge
<1> HIDE DEF row
<1> QED
  BY <1>2, <1>3, <1>12, <1>13, RunMoved DEF old

\* The checkpoint of a merge holds what is merged and what is left.
LEMMA SaveMergeKeeps ==
    ASSUME SummaryInv, NEW r \in SummaryRuns, Summary!SaveMerge(r)
    PROVE  SummaryInv'
<1> DEFINE old == run[r]
           row == Row("merge", old.source, old.partials, old.rest, old.merged, FALSE,
                      old.attempt, old.resumed)
<1>1. /\ IsRun(old) /\ old.pc = "merge" /\ AllOf(old.source, old.partials)
      /\ old.rest \in Seq(AText) /\ old.merged \in Seq(AText) /\ Summary!Groupable(old.rest)
      /\ IF old.merged = <<>> /\ old.rest = <<>> THEN ~old.unsaved
         ELSE Covered(old.merged) \cup Covered(old.rest) = Summary!ChunksOf(old.source)
  BY DEF SummaryInv, RunInv, Summary!SaveMerge
<1>2. old.unsaved /\ run' = [run EXCEPT ![r] = [old EXCEPT !.unsaved = FALSE]]
  BY DEF Summary!SaveMerge, SummaryInv
<1>3. Covered(old.merged) \cup Covered(old.rest) = Summary!ChunksOf(old.source)
  BY <1>1, <1>2
<1>4. CheckpointInv'
  <2>1. checkpoint' = [source |-> old.source, partials |-> old.merged \o old.rest,
                       phase |-> "merge"]
    BY DEF Summary!SaveMerge, Summary!Saved
  <2> HIDE DEF old
  <2>2. Covered(old.merged \o old.rest) = Summary!ChunksOf(old.source)
    BY <1>1, <1>3, CoveredConcat
  <2>3. old.merged \o old.rest \in Seq(AText)
    BY <1>1
  <2>4. AllOf(old.source, old.merged \o old.rest)
    BY <1>1, <2>2, <2>3 DEF AllOf
  <2> QED
    BY <2>1, <2>4, WholeIsPartials DEF CheckpointInv
<1> HIDE DEF old
<1>5. [old EXCEPT !.unsaved = FALSE] = Row(old.pc, old.source, old.partials, old.rest, old.merged,
                                           FALSE, old.attempt, old.resumed)
  BY <1>1, SavedRow
<1>6. IsRun(row) /\ RunInv(row)
  BY <1>1, <1>3, InMerge
<1>7. [old EXCEPT !.unsaved = FALSE] = row
  BY <1>1, <1>5
<1> HIDE DEF row
<1> QED
  BY <1>2, <1>4, <1>6, <1>7, RunMoved DEF old

\* A round that leaves one text leaves the note.
LEMMA EndRoundKeeps ==
    ASSUME SummaryInv, NEW r \in SummaryRuns, Summary!EndRound(r)
    PROVE  SummaryInv'
<1> DEFINE old == run[r]
<1>1. /\ IsRun(old) /\ old.pc = "merge" /\ AllOf(old.source, old.partials)
      /\ old.rest = <<>> /\ old.merged \in Seq(AText) /\ old.merged # <<>> /\ ~old.unsaved
      /\ Covered(old.merged) \cup Covered(old.rest) = Summary!ChunksOf(old.source)
  BY DEF SummaryInv, RunInv, Summary!EndRound, Summary!BetweenRounds
<1>2. AllOf(old.source, old.merged)
  BY <1>1, CoveredEmpty DEF AllOf
<1>3. CheckpointInv'
  BY DEF Summary!EndRound, SummaryInv, CheckpointInv
<1>4. CASE Len(old.merged) = 1
  <2> DEFINE row == Row("noted", old.source, old.merged, <<>>, <<>>, FALSE, 1, old.resumed)
  <2>1. run' = [run EXCEPT ![r] = row]
    BY <1>4, RunOver DEF Summary!EndRound
  <2>2. IsRun(row) /\ RunInv(row)
    BY <1>2, <1>4, InEnd
  <2> HIDE DEF row
  <2> QED
    BY <1>3, <2>1, <2>2, RunMoved
<1>5. CASE Len(old.merged) # 1
  <2> DEFINE row == Row(old.pc, old.source, old.merged, old.rest, <<>>, old.unsaved, old.attempt,
                        old.resumed)
  <2>1. run' = [run EXCEPT ![r] = [old EXCEPT !.partials = old.merged, !.merged = <<>>]]
    BY <1>5 DEF Summary!EndRound, SummaryInv
  <2> HIDE DEF old
  <2>2. [old EXCEPT !.partials = old.merged, !.merged = <<>>] = row
    BY <1>1, RoundRow
  <2>3. <<>> \in Seq(AText) /\ Summary!Groupable(<<>>)
    BY DEF Summary!Groupable
  <2>4. row = Row("merge", old.source, old.merged, <<>>, <<>>, old.unsaved, old.attempt, old.resumed)
    BY <1>1
  <2>5. IsRun(row) /\ RunInv(row)
    BY <1>1, <1>2, <2>3, <2>4, InMerge
  <2> HIDE DEF row
  <2> QED
    BY <1>3, <2>1, <2>2, <2>5, RunMoved DEF old
<1> QED
  BY <1>4, <1>5

\* A call tried again changes no text.
LEMMA RetryCallKeeps ==
    ASSUME SummaryInv, NEW r \in SummaryRuns, Summary!RetryCall(r)
    PROVE  SummaryInv'
<1> DEFINE old == run[r]
           a == old.attempt + 1
           row == Row(old.pc, old.source, old.partials, old.rest, old.merged, old.unsaved, a,
                      old.resumed)
<1>1. IsRun(old) /\ RunInv(old)
  BY DEF SummaryInv
<1>2. run' = [run EXCEPT ![r] = [old EXCEPT !.attempt = a]]
  BY DEF Summary!RetryCall, SummaryInv
<1>3. CheckpointInv'
  BY DEF Summary!RetryCall, SummaryInv, CheckpointInv
<1> HIDE DEF old, a
<1>4. [old EXCEPT !.attempt = a] = row
  BY <1>1, RetriedRow
<1>5. /\ IsRun(row) /\ row.pc = old.pc /\ row.source = old.source /\ row.partials = old.partials
      /\ row.rest = old.rest /\ row.merged = old.merged /\ row.unsaved = old.unsaved
  BY RowFields
<1> HIDE DEF row
<1>6. RunInv(row)
  BY <1>1, <1>5 DEF RunInv
<1> QED
  BY <1>2, <1>3, <1>4, <1>5, <1>6, RunMoved DEF old

\* A call that fails for good makes no note.
LEMMA FailCallKeeps ==
    ASSUME SummaryInv, NEW r \in SummaryRuns, Summary!FailCall(r)
    PROVE  SummaryInv'
<1> DEFINE row == Row("failed", run[r].source, <<>>, <<>>, <<>>, FALSE, 1, run[r].resumed)
<1>1. run' = [run EXCEPT ![r] = row]
  BY RunOver DEF Summary!FailCall
<1>2. Partials(run[r].source, run[r].partials)
  BY WholeIsPartials DEF Summary!FailCall, Summary!Calling, SummaryInv, RunInv
<1>3. CheckpointInv'
  BY <1>2 DEF Summary!FailCall, Summary!Saved, CheckpointInv
<1>4. IsRun(row) /\ RunInv(row)
  BY InEnd
<1> HIDE DEF row
<1> QED
  BY <1>1, <1>3, <1>4, RunMoved

\* A crash loses the run and leaves the checkpoint.
LEMMA CrashKeeps ==
    ASSUME SummaryInv, Summary!Crash
    PROVE  SummaryInv'
<1> DEFINE Lost(r) == [Summary!Fresh EXCEPT !.pc = "lost", !.source = run[r].source,
                                            !.resumed = run[r].resumed]
<1>1. run' = [r \in SummaryRuns |-> IF Summary!Working(r) THEN Lost(r) ELSE run[r]]
  BY DEF Summary!Crash
<1>2. ASSUME NEW r \in SummaryRuns PROVE IsRun(Lost(r)) /\ Lost(r).pc = "lost"
  <2>1. PICK r1 : r1 = [Summary!Fresh EXCEPT !.pc = "lost"]
    OBVIOUS
  <2>2. r1 = Row("lost", None, <<>>, <<>>, <<>>, FALSE, 1, None)
    BY <2>1 DEF Summary!Fresh, Row
  <2>3. PICK r2 : r2 = [r1 EXCEPT !.source = run[r].source]
    OBVIOUS
  <2>4. r2 = Row("lost", run[r].source, <<>>, <<>>, <<>>, FALSE, 1, None)
    BY <2>2, <2>3 DEF Row
  <2>5. PICK r3 : r3 = [r2 EXCEPT !.resumed = run[r].resumed]
    OBVIOUS
  <2>6. r3 = Row("lost", run[r].source, <<>>, <<>>, <<>>, FALSE, 1, run[r].resumed)
    BY <2>4, <2>5 DEF Row
  <2>7. IsRun(r3) /\ r3.pc = "lost"
    BY <2>6 DEF Row, IsRun
  <2> QED
    BY <2>1, <2>3, <2>5, <2>7
<1> HIDE DEF Lost
<1>3. run' = [r \in SummaryRuns |-> run'[r]]
  BY <1>1
<1>4. ASSUME NEW r \in SummaryRuns PROVE IsRun(run'[r]) /\ RunInv(run'[r])
  <2>1. CASE Summary!Working(r)
    BY <1>1, <1>2, <2>1 DEF RunInv
  <2>2. CASE ~Summary!Working(r)
    BY <1>1, <2>2 DEF SummaryInv
  <2> QED
    BY <2>1, <2>2
<1>5. CheckpointInv'
  BY DEF Summary!Crash, SummaryInv, CheckpointInv
<1> QED
  BY <1>3, <1>4, <1>5 DEF SummaryInv

\* summarize: the texts a run holds, and those the checkpoint holds, tell the chunks they
\* stand for, whatever is answered, tried again, crashed and resumed (universal_gpt.py).
THEOREM SummaryInvariant == Summary!Spec => []SummaryInv
<1>1. /\ NumChunks \in [Sources -> Nat] /\ AnswerSizes \subseteq Nat /\ MergeBudget \in Nat
  BY NotesAssumption DEF NotesAssumption, Summary!NumChunksAssumption, Summary!SizesAssumption
<1>2. Summary!Init => SummaryInv
  <2> SUFFICES ASSUME Summary!Init PROVE SummaryInv
    OBVIOUS
  <2>1. run = [r \in SummaryRuns |-> Summary!Fresh] /\ checkpoint = None
    BY DEF Summary!Init
  <2>2. IsRun(Summary!Fresh) /\ RunInv(Summary!Fresh)
    BY DEF IsRun, RunInv, Summary!Fresh
  <2> QED
    BY <2>1, <2>2 DEF SummaryInv, CheckpointInv
<1>3. SummaryInv /\ [Summary!Next]_Summary!vars => SummaryInv'
  <2> SUFFICES ASSUME SummaryInv, [Summary!Next]_Summary!vars PROVE SummaryInv'
    OBVIOUS
  <2>1. ASSUME NEW r \in SummaryRuns, Summary!StartNext(r) PROVE SummaryInv'
    BY <1>1, <2>1, StartKeeps DEF Summary!StartNext
  <2>2. ASSUME NEW r \in SummaryRuns, Summary!Advance(r) PROVE SummaryInv'
    <3>1. ASSUME NEW size \in AnswerSizes, Summary!AnswerChunk(r, size) PROVE SummaryInv'
      BY <1>1, <3>1, AnswerChunkKeeps
    <3>2. ASSUME NEW size \in AnswerSizes, Summary!AnswerMerge(r, size) PROVE SummaryInv'
      BY <1>1, <3>2, AnswerMergeKeeps
    <3> QED
      BY <1>1, <2>2, <3>1, <3>2, SaveChunkKeeps, OnlyChunkKeeps, NothingToMergeKeeps,
         BeginMergeKeeps, BeginRoundKeeps, SaveMergeKeeps, EndRoundKeeps DEF Summary!Advance
  <2>3. CASE UNCHANGED Summary!vars
    BY <2>3 DEF Summary!vars, SummaryInv, CheckpointInv
  <2> QED
    BY <2>1, <2>2, <2>3, RetryCallKeeps, FailCallKeeps, CrashKeeps DEF Summary!Next
<1> QED
  BY <1>2, <1>3, PTL DEF Summary!Spec

\* A note that summarize returns tells every chunk of its source, however often the partial
\* notes were merged and the run resumed.
THEOREM NotesCoverTheirSource == Summary!Spec => []NoteCoversItsSource
<1>1. SummaryInv => NoteCoversItsSource
  <2> SUFFICES ASSUME SummaryInv, NEW r \in SummaryRuns, run[r].pc = "noted"
               PROVE  ToSet(run[r].partials[1].covers) = Summary!ChunksOf(run[r].source)
    BY SameToSet DEF NoteCoversItsSource, Summary!NoteCoversItsSource, Summary!Note
  <2>1. /\ Covered(run[r].partials) = Summary!ChunksOf(run[r].source)
        /\ run[r].partials \in Seq(AText) /\ Len(run[r].partials) = 1
    BY DEF SummaryInv, RunInv, AllOf
  <2>2. run[r].partials = <<run[r].partials[1]>>
    BY <2>1
  <2> QED
    BY <2>1, <2>2, CoveredSingle
<1> QED
  BY <1>1, SummaryInvariant, PTL

-----------------------------------------------------------------------------
(* The requests a transcript is cut into: RequestChunker, Chunker.         *)

\* RequestChunker's concatenation of sequences is the library's.
LEMMA ChunkerJoin == ASSUME NEW seq PROVE Chunker!FlattenSeq(seq) = FlattenSeq(seq)
BY DEF Chunker!FlattenSeq, FlattenSeq

APiece == {p \in [segment : Nat, from : Nat, to : Nat] : p.from <= p.to + 1}
ALetter == Nat \X Nat
AChunk == [segments : Seq(APiece), images : Seq(Nat)]

\* What the pieces of a text spell.
Spelled(ps) == [k \in 1 .. Len(ps) |-> Chunker!Letters(ps[k])]

\* A piece has as many characters as it is long.
LEMMA LettersType ==
    ASSUME NEW p \in APiece
    PROVE  /\ Chunker!Letters(p) \in Seq(ALetter) /\ Chunker!Length(p) \in Nat
           /\ Len(Chunker!Letters(p)) = Chunker!Length(p)
<1>1. Chunker!Length(p) \in Nat
  BY DEF APiece, Chunker!Length
<1>2. ASSUME NEW n \in 1 .. Chunker!Length(p) PROVE <<p.segment, p.from + n - 1>> \in ALetter
  BY <1>1, <1>2 DEF APiece, ALetter
<1>3. Chunker!Letters(p) \in [1 .. Chunker!Length(p) -> ALetter]
  BY <1>2 DEF Chunker!Letters
<1> QED
  BY <1>1, <1>3, FunctionIsSequence

\* One text of characters per piece.
LEMMA SpelledType ==
    ASSUME NEW ps \in Seq(APiece)
    PROVE  Spelled(ps) \in Seq(Seq(ALetter)) /\ Len(Spelled(ps)) = Len(ps)
<1>1. ASSUME NEW k \in 1 .. Len(ps) PROVE Chunker!Letters(ps[k]) \in Seq(ALetter)
  BY LettersType, ElementOfSeq
<1>2. Len(ps) \in Nat
  OBVIOUS
<1>3. Spelled(ps) \in [1 .. Len(ps) -> Seq(ALetter)]
  BY <1>1 DEF Spelled
<1> QED
  BY <1>2, <1>3, FunctionIsSequence

\* Pieces in a row spell what they spell one after the other.
LEMMA SpelledConcat ==
    ASSUME NEW a \in Seq(APiece), NEW b \in Seq(APiece)
    PROVE  Spelled(a \o b) = Spelled(a) \o Spelled(b)
<1>1. /\ a \o b \in Seq(APiece) /\ Len(a \o b) = Len(a) + Len(b) /\ Len(a) \in Nat /\ Len(b) \in Nat
      /\ \A k \in 1 .. Len(a) + Len(b) : (a \o b)[k] = IF k <= Len(a) THEN a[k] ELSE b[k - Len(a)]
  BY ConcatProperties
<1>2. /\ Spelled(a \o b) \in Seq(Seq(ALetter)) /\ Len(Spelled(a \o b)) = Len(a \o b)
      /\ Spelled(a) \in Seq(Seq(ALetter)) /\ Len(Spelled(a)) = Len(a)
      /\ Spelled(b) \in Seq(Seq(ALetter)) /\ Len(Spelled(b)) = Len(b)
  BY <1>1, SpelledType
<1>3. /\ Spelled(a) \o Spelled(b) \in Seq(Seq(ALetter))
      /\ Len(Spelled(a) \o Spelled(b)) = Len(a) + Len(b)
      /\ \A k \in 1 .. Len(a) + Len(b) :
            (Spelled(a) \o Spelled(b))[k] = IF k <= Len(a) THEN Spelled(a)[k] ELSE Spelled(b)[k - Len(a)]
  <2> DEFINE sa == Spelled(a) sb == Spelled(b)
  <2>1. sa \in Seq(Seq(ALetter)) /\ sb \in Seq(Seq(ALetter)) /\ Len(sa) = Len(a) /\ Len(sb) = Len(b)
    BY <1>2
  <2> HIDE DEF sa, sb
  <2>2. /\ sa \o sb \in Seq(Seq(ALetter)) /\ Len(sa \o sb) = Len(sa) + Len(sb)
        /\ \A k \in 1 .. Len(sa) + Len(sb) :
              (sa \o sb)[k] = IF k <= Len(sa) THEN sa[k] ELSE sb[k - Len(sa)]
    BY <2>1, ConcatProperties
  <2> QED
    BY <2>1, <2>2 DEF sa, sb
<1>4. ASSUME NEW k \in 1 .. Len(a) + Len(b)
      PROVE  Spelled(a \o b)[k] = (Spelled(a) \o Spelled(b))[k]
  <2>1. Spelled(a \o b)[k] = Chunker!Letters((a \o b)[k])
    BY <1>1 DEF Spelled
  <2>2. CASE k <= Len(a)
    <3>1. k \in 1 .. Len(a)
      BY <1>1, <2>2
    <3>2. Spelled(a)[k] = Chunker!Letters(a[k])
      BY <3>1 DEF Spelled
    <3> QED
      BY <1>1, <1>3, <2>1, <2>2, <3>2
  <2>3. CASE ~(k <= Len(a))
    <3>1. k - Len(a) \in 1 .. Len(b)
      BY <1>1, <2>3
    <3>2. Spelled(b)[k - Len(a)] = Chunker!Letters(b[k - Len(a)])
      BY <3>1 DEF Spelled
    <3> QED
      BY <1>1, <1>3, <2>1, <2>3, <3>2
  <2> QED
    BY <2>2, <2>3
<1> QED
  BY <1>1, <1>2, <1>3, <1>4, SeqEqual

\* The characters of pieces are those of each, joined.
LEMMA CharactersAre ==
    ASSUME NEW ps \in Seq(APiece)
    PROVE  Chunker!Characters(ps) = FlattenSeq(Spelled(ps)) /\ Chunker!Characters(ps) \in Seq(ALetter)
<1>1. Chunker!Characters(ps) = FlattenSeq(Spelled(ps))
  BY ChunkerJoin DEF Chunker!Characters, Spelled
<1> QED
  BY <1>1, SpelledType, FlattenType

\* The characters of two lists of pieces are those of the first and then the second.
LEMMA CharactersConcat ==
    ASSUME NEW a \in Seq(APiece), NEW b \in Seq(APiece)
    PROVE  Chunker!Characters(a \o b) = Chunker!Characters(a) \o Chunker!Characters(b)
<1>1. a \o b \in Seq(APiece)
  OBVIOUS
<1>2. Spelled(a) \in Seq(Seq(ALetter)) /\ Spelled(b) \in Seq(Seq(ALetter))
  BY SpelledType
<1>3. FlattenSeq(Spelled(a) \o Spelled(b)) = FlattenSeq(Spelled(a)) \o FlattenSeq(Spelled(b))
  BY <1>2, FlattenConcat
<1>4. FlattenSeq(Spelled(a \o b)) = FlattenSeq(Spelled(a)) \o FlattenSeq(Spelled(b))
  BY <1>3, SpelledConcat
<1> QED
  BY <1>1, <1>4, CharactersAre

\* The characters of one piece.
LEMMA CharactersOfOne ==
    ASSUME NEW p \in APiece
    PROVE  Chunker!Characters(<<p>>) = Chunker!Letters(p)
<1>1. <<p>> \in Seq(APiece) /\ Spelled(<<p>>) = <<Chunker!Letters(p)>>
  BY DEF Spelled
<1> QED
  BY <1>1, CharactersAre, LettersType, FlattenSingle

\* No piece has no characters.
LEMMA CharactersOfNone == Chunker!Characters(<<>>) = <<>>
<1>1. <<>> \in Seq(APiece) /\ Spelled(<<>>) = <<>>
  BY DEF Spelled
<1> QED
  BY <1>1, CharactersAre, FlattenEmpty

\* A piece cut in two spells what it spelled.
LEMMA CharactersOfSplit ==
    ASSUME NEW p \in APiece, NEW n \in 1 .. Chunker!Length(p)
    PROVE  LET head == Chunker!Piece(p.segment, p.from, p.from + n - 1)
               tail == Chunker!Piece(p.segment, p.from + n, p.to)
           IN  /\ head \in APiece /\ tail \in APiece
               /\ Chunker!Characters(<<head, tail>>) = Chunker!Characters(<<p>>)
<1> DEFINE head == Chunker!Piece(p.segment, p.from, p.from + n - 1)
           tail == Chunker!Piece(p.segment, p.from + n, p.to)
<1>1. /\ p.segment \in Nat /\ p.from \in Nat /\ p.to \in Nat /\ Chunker!Length(p) \in Nat
      /\ Chunker!Length(p) = p.to + 1 - p.from /\ n \in Nat /\ 1 <= n /\ n <= Chunker!Length(p)
  BY LettersType DEF APiece, Chunker!Length
<1>2. head = [segment |-> p.segment, from |-> p.from, to |-> p.from + n - 1]
      /\ tail = [segment |-> p.segment, from |-> p.from + n, to |-> p.to]
  BY DEF Chunker!Piece
<1> HIDE DEF head, tail
<1>3. /\ head \in APiece /\ tail \in APiece /\ Chunker!Length(head) = n
      /\ Chunker!Length(tail) = Chunker!Length(p) - n
  BY <1>1, <1>2 DEF APiece, Chunker!Length
<1>4. Chunker!Letters(p) = Chunker!Letters(head) \o Chunker!Letters(tail)
  <2> DEFINE lp == Chunker!Letters(p) lh == Chunker!Letters(head) lt == Chunker!Letters(tail)
  <2>1. /\ lp \in Seq(ALetter) /\ lh \in Seq(ALetter) /\ lt \in Seq(ALetter)
        /\ Len(lp) = Chunker!Length(p) /\ Len(lh) = n /\ Len(lt) = Chunker!Length(p) - n
    BY <1>3, LettersType
  <2>2. /\ lh \o lt \in Seq(ALetter) /\ Len(lh \o lt) = Len(lh) + Len(lt)
        /\ \A i \in 1 .. Len(lh) + Len(lt) : (lh \o lt)[i] = IF i <= Len(lh) THEN lh[i] ELSE lt[i - Len(lh)]
    BY <2>1, ConcatProperties
  <2>3. ASSUME NEW i \in 1 .. Chunker!Length(p) PROVE lp[i] = (lh \o lt)[i]
    <3>1. lp[i] = <<p.segment, p.from + i - 1>>
      BY DEF Chunker!Letters
    <3>2. CASE i <= n
      <4>1. lh[i] = <<head.segment, head.from + i - 1>>
        BY <1>1, <1>3, <3>2 DEF Chunker!Letters
      <4>2. (lh \o lt)[i] = lh[i]
        BY <1>1, <2>1, <2>2, <3>2
      <4>3. head.segment = p.segment /\ head.from = p.from
        BY <1>2
      <4> QED
        BY <3>1, <4>1, <4>2, <4>3
    <3>3. CASE ~(i <= n)
      <4>1. lt[i - n] = <<tail.segment, tail.from + (i - n) - 1>>
        BY <1>1, <1>3, <3>3 DEF Chunker!Letters
      <4>2. tail.from + (i - n) - 1 = p.from + i - 1
        BY <1>1, <1>2
      <4>3. (lh \o lt)[i] = lt[i - n]
        BY <1>1, <2>1, <2>2, <3>3
      <4> QED
        BY <1>2, <3>1, <4>1, <4>2, <4>3
    <3> QED
      BY <3>2, <3>3
  <2> HIDE DEF lp, lh, lt
  <2>4. lp = lh \o lt
    <3>1. Len(lp) = Len(lh \o lt) /\ \A i \in 1 .. Len(lp) : lp[i] = (lh \o lt)[i]
      BY <1>1, <2>1, <2>2, <2>3
    <3> QED
      BY <2>1, <2>2, <3>1, SeqEqual
  <2> QED
    BY <2>4 DEF lp, lh, lt
<1>5. <<head, tail>> = <<head>> \o <<tail>> /\ <<head>> \in Seq(APiece) /\ <<tail>> \in Seq(APiece)
  BY <1>3, TwoInARow
<1>6. Chunker!Characters(<<head>> \o <<tail>>) = Chunker!Characters(<<head>>) \o Chunker!Characters(<<tail>>)
  BY <1>5, CharactersConcat
<1>7. Chunker!Characters(<<head, tail>>) = Chunker!Characters(<<p>>)
  BY <1>3, <1>4, <1>5, <1>6, CharactersOfOne
<1> QED
  BY <1>3, <1>7 DEF head, tail

\* The texts of the chunks.
Bodies(cs) == [c \in 1 .. Len(cs) |-> cs[c].segments]

\* One list of pieces per request.
LEMMA BodiesType ==
    ASSUME NEW cs \in Seq(AChunk)
    PROVE  Bodies(cs) \in Seq(Seq(APiece)) /\ Len(Bodies(cs)) = Len(cs)
<1>1. ASSUME NEW c \in 1 .. Len(cs) PROVE cs[c].segments \in Seq(APiece)
  <2>1. cs[c] \in AChunk
    BY ElementOfSeq
  <2> QED
    BY ONLY <2>1 DEF AChunk
<1>2. Len(cs) \in Nat
  OBVIOUS
<1>3. Bodies(cs) \in [1 .. Len(cs) -> Seq(APiece)]
  BY <1>1 DEF Bodies
<1> QED
  BY <1>2, <1>3, FunctionIsSequence

\* The text of the requests is the text of each, joined.
LEMMA TextsAre ==
    ASSUME NEW cs \in Seq(AChunk)
    PROVE  Chunker!TextsOf(cs) = FlattenSeq(Bodies(cs)) /\ Chunker!TextsOf(cs) \in Seq(APiece)
<1>1. Chunker!TextsOf(cs) = FlattenSeq(Bodies(cs))
  BY ChunkerJoin DEF Chunker!TextsOf, Bodies
<1> QED
  BY <1>1, BodiesType, FlattenType

\* No request has no text.
LEMMA TextsOfNone == Chunker!TextsOf(<<>>) = <<>>
<1>1. <<>> \in Seq(AChunk) /\ Bodies(<<>>) = <<>>
  BY DEF Bodies
<1> QED
  BY <1>1, TextsAre, FlattenEmpty

\* A request more adds its text at the end.
LEMMA TextsAppend ==
    ASSUME NEW cs \in Seq(AChunk), NEW c \in AChunk
    PROVE  Chunker!TextsOf(Append(cs, c)) = Chunker!TextsOf(cs) \o c.segments
<1>1. /\ Append(cs, c) \in Seq(AChunk) /\ Len(Append(cs, c)) = Len(cs) + 1 /\ Len(cs) \in Nat
      /\ \A i \in 1 .. Len(cs) : Append(cs, c)[i] = cs[i]
      /\ Append(cs, c)[Len(cs) + 1] = c
  BY AppendProperties
<1>2. c.segments \in Seq(APiece)
  BY DEF AChunk
<1> DEFINE more == Append(cs, c)
<1> HIDE DEF more
<1>3. Bodies(more) = Append(Bodies(cs), c.segments)
  <2> DEFINE s == Bodies(more) t == Append(Bodies(cs), c.segments)
  <2>1. s \in Seq(Seq(APiece)) /\ Len(s) = Len(cs) + 1
    BY <1>1, BodiesType DEF more
  <2>2. Bodies(cs) \in Seq(Seq(APiece)) /\ Len(Bodies(cs)) = Len(cs)
    BY BodiesType
  <2>3. /\ t \in Seq(Seq(APiece)) /\ Len(t) = Len(cs) + 1 /\ t[Len(cs) + 1] = c.segments
        /\ \A i \in 1 .. Len(cs) : t[i] = Bodies(cs)[i]
    <3> DEFINE b == Bodies(cs) d == c.segments
    <3>1. b \in Seq(Seq(APiece)) /\ Len(b) = Len(cs) /\ d \in Seq(APiece)
      BY <1>2, <2>2
    <3> HIDE DEF b, d
    <3>2. /\ Append(b, d) \in Seq(Seq(APiece)) /\ Len(Append(b, d)) = Len(b) + 1
          /\ Append(b, d)[Len(b) + 1] = d /\ \A i \in 1 .. Len(b) : Append(b, d)[i] = b[i]
      BY ONLY <3>1, AppendProperties
    <3> QED
      BY <3>1, <3>2 DEF b, d
  <2>4. ASSUME NEW i \in 1 .. Len(cs) + 1 PROVE s[i] = t[i]
    <3>1. s[i] = more[i].segments
      BY <1>1 DEF Bodies, more
    <3>2. CASE i = Len(cs) + 1
      BY <1>1, <2>3, <3>1, <3>2 DEF more
    <3>3. CASE i # Len(cs) + 1
      <4>1. i \in 1 .. Len(cs)
        BY <1>1, <3>3
      <4>2. t[i] = cs[i].segments
        BY <2>3, <4>1 DEF Bodies
      <4> QED
        BY <1>1, <3>1, <4>1, <4>2 DEF more
    <3> QED
      BY <3>2, <3>3
  <2> HIDE DEF s, t
  <2>5. s = t
    <3>1. Len(s) = Len(t) /\ \A i \in 1 .. Len(s) : s[i] = t[i]
      BY <2>1, <2>3, <2>4
    <3> QED
      BY <2>1, <2>3, <3>1, SeqEqual
  <2> QED
    BY <2>5 DEF s, t
<1>4. Bodies(cs) \in Seq(Seq(APiece))
  BY BodiesType
<1>5. FlattenSeq(Append(Bodies(cs), c.segments)) = FlattenSeq(Bodies(cs)) \o c.segments
  BY <1>2, <1>4, FlattenAppend
<1> QED
  BY <1>1, <1>3, <1>5, TextsAre DEF more

\* A request without text adds no text.
LEMMA TextsWithEmpty ==
    ASSUME NEW cs \in Seq(AChunk), NEW c \in AChunk, c.segments = <<>>
    PROVE  Chunker!TextsOf(Append(cs, c)) = Chunker!TextsOf(cs)
BY TextsAppend, TextsAre, ConcatEmptySeq

\* What a request costs does not change.
LEMMA CostStays ==
    ASSUME NEW ps, NEW is, UNCHANGED <<prompt, frames>>
    PROVE  Chunker!Fits(ps, is)' <=> Chunker!Fits(ps, is)
BY DEF Chunker!Fits, Chunker!Cost, Chunker!ImageCost

ChunkerTypes ==
    /\ lengths \in Seq(Nat) /\ frames \in Seq(Nat) /\ withImages \in BOOLEAN
    /\ segments \in Seq(APiece) /\ batch \in Seq(APiece) /\ chunks \in Seq(AChunk)
    /\ placed \in Nat /\ texts \in Nat
    /\ pc \in {"text", "images", "done", "refused"}

\* What is cut, in hand and not yet taken is the transcript.
KeptInv ==
    /\ Chunker!Characters(Chunker!TextsOf(chunks))
          \o (Chunker!Characters(batch) \o Chunker!Characters(segments))
        = Chunker!Characters(Chunker!Whole(lengths))
    /\ pc \in {"images", "done"} => segments = <<>> /\ batch = <<>>

Good(c) == Chunker!Fits(c.segments, c.images) /\ (c.segments # <<>> \/ c.images # <<>>)

\* Without text, one empty request waits for the first frame.
Waiting ==
    /\ chunks = <<Chunker!Chunk(<<>>, <<>>)>> /\ placed = 0 /\ texts = 0 /\ Chunker!Images > 0
    /\ pc = "images"

FitInv ==
    /\ Waiting \/ \A i \in 1 .. Len(chunks) : Good(chunks[i])
    /\ batch # <<>> => Chunker!Fits(batch, <<>>)

\* No frame is placed while the text is cut.
StartInv == pc = "text" => placed = 0

ChunkerInv == ChunkerTypes /\ KeptInv /\ FitInv /\ StartInv

\* The transcript before it is cut is a list of pieces.
LEMMA WholeType ==
    ASSUME NEW ls \in Seq(Nat)
    PROVE  Chunker!Whole(ls) \in Seq(APiece)
<1>1. ASSUME NEW i \in 1 .. Len(ls) PROVE Chunker!Piece(i, 1, ls[i]) \in APiece
  <2>1. ls[i] \in Nat /\ i \in Nat
    BY <1>1
  <2> QED
    BY <2>1 DEF APiece, Chunker!Piece
<1>2. Len(ls) \in Nat
  OBVIOUS
<1>3. Chunker!Whole(ls) \in [1 .. Len(ls) -> APiece]
  BY <1>1 DEF Chunker!Whole
<1> QED
  BY <1>2, <1>3, FunctionIsSequence

\* A segment taken into the batch stays in its place.
LEMMA TakeSegmentKeeps ==
    ASSUME ChunkerInv, Chunker!TakeSegment
    PROVE  ChunkerInv'
<1> DEFINE p == Head(segments)
<1>1. /\ pc = "text" /\ segments # <<>> /\ Chunker!Fits(Append(batch, p), <<>>)
      /\ batch' = Append(batch, p) /\ segments' = Tail(segments)
      /\ UNCHANGED <<lengths, frames, prompt, chunks, placed, texts, withImages, pc>>
  BY DEF Chunker!TakeSegment, Chunker!NextFits
<1>2. segments \in Seq(APiece) /\ batch \in Seq(APiece)
  BY DEF ChunkerInv, ChunkerTypes
<1>3. p \in APiece /\ Tail(segments) \in Seq(APiece)
  BY <1>1, <1>2, HeadTailProperties
<1>4. segments = <<p>> \o Tail(segments) /\ <<p>> \in Seq(APiece)
  BY <1>1, <1>2, <1>3
<1> HIDE DEF p
<1>5. ChunkerTypes'
  BY <1>1, <1>2, <1>3 DEF ChunkerInv, ChunkerTypes
<1>6. Chunker!Characters(batch') \o Chunker!Characters(segments')
        = Chunker!Characters(batch) \o Chunker!Characters(segments)
  <2> DEFINE t == Tail(segments) cb == Chunker!Characters(batch) cp == Chunker!Characters(<<p>>)
             ct == Chunker!Characters(t)
  <2>1. Append(batch, p) = batch \o <<p>>
    BY <1>2, <1>3, AppendIsConcat
  <2>2. Chunker!Characters(batch \o <<p>>) = cb \o cp
    BY <1>2, <1>4, CharactersConcat
  <2>3. Chunker!Characters(<<p>> \o t) = cp \o ct
    BY <1>3, <1>4, CharactersConcat
  <2>4. cb \in Seq(ALetter) /\ cp \in Seq(ALetter) /\ ct \in Seq(ALetter)
    BY <1>2, <1>3, <1>4, CharactersAre
  <2>5. Chunker!Characters(batch') = cb \o cp /\ Chunker!Characters(segments) = cp \o ct
        /\ Chunker!Characters(segments') = ct
    BY <1>1, <1>4, <2>1, <2>2, <2>3
  <2> HIDE DEF cb, cp, ct, t
  <2>6. (cb \o cp) \o ct = cb \o (cp \o ct)
    BY <2>4, ConcatAssociative
  <2> QED
    BY <2>5, <2>6 DEF cb
<1>7. KeptInv'
  BY <1>1, <1>6 DEF ChunkerInv, KeptInv
<1>8. FitInv'
  BY <1>1, CostStays DEF ChunkerInv, FitInv, Waiting, Good, Chunker!Images
<1> QED
  BY <1>1, <1>5, <1>7, <1>8 DEF ChunkerInv, StartInv

\* A segment cut in two spells what it spelled.
LEMMA SplitSegmentKeeps ==
    ASSUME ChunkerInv, Chunker!SplitSegment
    PROVE  ChunkerInv'
<1> DEFINE p == Head(segments)
           most == Chunker!Max(Chunker!Heads(p))
           head == Chunker!Piece(p.segment, p.from, p.from + most - 1)
           tail == Chunker!Piece(p.segment, p.from + most, p.to)
<1>1. /\ pc = "text" /\ segments # <<>> /\ batch = <<>> /\ Chunker!Heads(p) # {}
      /\ UNCHANGED <<lengths, frames, prompt, batch, chunks, placed, texts, withImages, pc>>
  BY DEF Chunker!SplitSegment
<1>2. segments \in Seq(APiece)
  BY DEF ChunkerInv, ChunkerTypes
<1>3. p \in APiece /\ Tail(segments) \in Seq(APiece)
  BY <1>1, <1>2, HeadTailProperties
<1>4. segments = <<p>> \o Tail(segments) /\ <<p>> \in Seq(APiece)
  BY <1>1, <1>2, <1>3
<1>5. most \in 1 .. Chunker!Length(p)
  <2>1. Chunker!Length(p) \in Nat
    BY <1>3, LettersType
  <2> DEFINE H == Chunker!Heads(p) n == Chunker!Length(p)
  <2>2. H \subseteq 1 .. n /\ H \subseteq 0 .. n /\ H # {} /\ n \in Nat
    BY <1>1, <2>1 DEF Chunker!Heads
  <2> HIDE DEF H, n
  <2>3. PICK m \in H : \A k \in H : k <= m
    BY <2>2, GreatestUpTo
  <2>4. \A k \in H : m >= k
    BY <2>2, <2>3
  <2>5. Chunker!Max(H) \in H
    BY <2>3, <2>4 DEF Chunker!Max
  <2> QED
    BY <2>2, <2>5 DEF H, n
<1> HIDE DEF most
<1>6. segments' = <<head, tail>> \o Tail(segments)
  <2>1. segments' = <<Chunker!Piece(p.segment, p.from, Chunker!SplitAt(p)), Chunker!TailOf(p)>>
                      \o Tail(segments)
    BY DEF Chunker!SplitSegment
  <2>2. Chunker!SplitAt(p) = p.from + most - 1
    BY DEF Chunker!SplitAt, most
  <2>3. p.from + most - 1 + 1 = p.from + most
    BY <1>3, <1>5, LettersType DEF APiece
  <2> QED
    BY <2>1, <2>2, <2>3 DEF Chunker!TailOf
<1>7. /\ head \in APiece /\ tail \in APiece
      /\ Chunker!Characters(<<head, tail>>) = Chunker!Characters(<<p>>)
  BY <1>3, <1>5, CharactersOfSplit
<1> HIDE DEF p, head, tail
<1>8. <<head, tail>> \in Seq(APiece)
  BY <1>7
<1>9. ChunkerTypes'
  <2>1. segments' \in Seq(APiece)
    BY <1>3, <1>6, <1>8
  <2> QED
    BY <1>1, <2>1 DEF ChunkerInv, ChunkerTypes
<1>10. Chunker!Characters(segments') = Chunker!Characters(segments)
  <2> DEFINE t == Tail(segments)
  <2>1. Chunker!Characters(<<head, tail>> \o t) = Chunker!Characters(<<head, tail>>) \o Chunker!Characters(t)
    BY <1>3, <1>8, CharactersConcat
  <2>2. Chunker!Characters(<<p>> \o t) = Chunker!Characters(<<p>>) \o Chunker!Characters(t)
    BY <1>3, <1>4, CharactersConcat
  <2> HIDE DEF t
  <2> QED
    BY <1>4, <1>6, <1>7, <2>1, <2>2 DEF t
<1>11. KeptInv'
  BY <1>1, <1>10 DEF ChunkerInv, KeptInv
<1>12. FitInv'
  BY <1>1, CostStays DEF ChunkerInv, FitInv, Waiting, Good, Chunker!Images
<1> QED
  BY <1>1, <1>9, <1>11, <1>12 DEF ChunkerInv, StartInv

\* One more request that fits.
LEMMA GoodAppended ==
    ASSUME NEW cs \in Seq(AChunk), NEW c \in AChunk, Good(c),
           \A i \in 1 .. Len(cs) : Good(cs[i])
    PROVE  \A i \in 1 .. Len(Append(cs, c)) : Good(Append(cs, c)[i])
<1>1. /\ Append(cs, c) \in Seq(AChunk) /\ Len(Append(cs, c)) = Len(cs) + 1 /\ Len(cs) \in Nat
      /\ \A i \in 1 .. Len(cs) : Append(cs, c)[i] = cs[i]
      /\ Append(cs, c)[Len(cs) + 1] = c
  BY AppendProperties
<1> DEFINE more == Append(cs, c)
<1> HIDE DEF more
<1>2. ASSUME NEW i \in 1 .. Len(cs) + 1 PROVE Good(more[i])
  <2>1. CASE i = Len(cs) + 1
    BY <1>1, <2>1 DEF more
  <2>2. CASE i # Len(cs) + 1
    <3>1. i \in 1 .. Len(cs)
      BY <1>1, <2>2
    <3> QED
      BY <1>1, <3>1 DEF more
  <2> QED
    BY <2>1, <2>2
<1> QED
  BY <1>1, <1>2 DEF more

\* Requests stay within the budget as long as the prompt and the frames do not change.
LEMMA GoodStays ==
    ASSUME UNCHANGED <<prompt, frames>>, NEW cs, \A i \in 1 .. Len(cs) : Good(cs[i]), chunks' = cs
    PROVE  (\A i \in 1 .. Len(chunks) : Good(chunks[i]))'
<1>1. \A c : Good(c) => Chunker!Fits(c.segments, c.images)' /\ (c.segments # <<>> \/ c.images # <<>>)
  BY CostStays DEF Good
<1> QED
  BY <1>1 DEF Good

\* A batch that is closed becomes a request that fits.
LEMMA CloseChunkKeeps ==
    ASSUME ChunkerInv, Chunker!CloseChunk
    PROVE  ChunkerInv'
<1> DEFINE c == Chunker!Chunk(batch, <<>>)
<1>1. /\ pc = "text" /\ batch # <<>> /\ chunks' = Append(chunks, c) /\ batch' = <<>>
      /\ UNCHANGED <<lengths, frames, prompt, segments, placed, texts, withImages, pc>>
  BY DEF Chunker!CloseChunk
<1>2. segments \in Seq(APiece) /\ batch \in Seq(APiece) /\ chunks \in Seq(AChunk)
  BY DEF ChunkerInv, ChunkerTypes
<1>3. c \in AChunk /\ c.segments = batch /\ c.images = <<>>
  BY <1>2 DEF AChunk, Chunker!Chunk
<1>4. Good(c)
  BY <1>1, <1>3 DEF ChunkerInv, FitInv, Good
<1> HIDE DEF c
<1>5. ChunkerTypes'
  BY <1>1, <1>2, <1>3 DEF ChunkerInv, ChunkerTypes
<1>6. KeptInv'
  <2> DEFINE cx == Chunker!Characters(Chunker!TextsOf(chunks)) cb == Chunker!Characters(batch)
             cs == Chunker!Characters(segments)
  <2>1. Chunker!TextsOf(chunks) \in Seq(APiece)
    BY <1>2, TextsAre
  <2>2. cx \in Seq(ALetter) /\ cb \in Seq(ALetter) /\ cs \in Seq(ALetter)
    BY <1>2, <2>1, CharactersAre
  <2>3. Chunker!TextsOf(chunks') = Chunker!TextsOf(chunks) \o batch
    BY <1>1, <1>2, <1>3, TextsAppend
  <2>4. Chunker!Characters(Chunker!TextsOf(chunks')) = cx \o cb
    BY <1>2, <2>1, <2>3, CharactersConcat
  <2>5. Chunker!Characters(batch') = <<>> /\ Chunker!Characters(segments') = cs
    BY <1>1, CharactersOfNone
  <2> HIDE DEF cx, cb, cs
  <2>6. (cx \o cb) \o (<<>> \o cs) = cx \o (cb \o cs)
    BY <2>2, ConcatAssociative, ConcatEmptySeq
  <2>7. cx \o (cb \o cs) = Chunker!Characters(Chunker!Whole(lengths))
    BY DEF ChunkerInv, KeptInv, cx, cb, cs
  <2>8. Chunker!Characters(Chunker!TextsOf(chunks)')
          \o (Chunker!Characters(batch') \o Chunker!Characters(segments'))
        = Chunker!Characters(Chunker!Whole(lengths))
    BY <2>4, <2>5, <2>6, <2>7
  <2> QED
    BY <1>1, <2>8 DEF KeptInv
<1>7. FitInv'
  <2>1. \A i \in 1 .. Len(chunks) : Good(chunks[i])
    BY <1>1 DEF ChunkerInv, FitInv, Waiting
  <2>2. \A i \in 1 .. Len(Append(chunks, c)) : Good(Append(chunks, c)[i])
    BY <1>2, <1>3, <1>4, <2>1, GoodAppended
  <2>3. (\A i \in 1 .. Len(chunks) : Good(chunks[i]))'
    BY <1>1, <2>2, GoodStays
  <2> QED
    BY <1>1, <2>3 DEF FitInv
<1> QED
  BY <1>1, <1>5, <1>6, <1>7 DEF ChunkerInv, StartInv

\* When the text is cut, the frames follow, or the requests are done.
LEMMA EndTextKeeps ==
    ASSUME ChunkerInv, Chunker!EndText
    PROVE  ChunkerInv'
<1> DEFINE c == Chunker!Chunk(<<>>, <<>>)
<1>1. /\ pc = "text" /\ segments = <<>> /\ batch = <<>>
      /\ UNCHANGED <<lengths, frames, prompt, segments, batch, placed, withImages>>
  BY DEF Chunker!EndText
<1>2. chunks \in Seq(AChunk) /\ Len(chunks) \in Nat /\ frames \in Seq(Nat)
  BY DEF ChunkerInv, ChunkerTypes
<1>3. c \in AChunk /\ c.segments = <<>> /\ c.images = <<>>
  BY DEF AChunk, Chunker!Chunk
<1>4. \A i \in 1 .. Len(chunks) : Good(chunks[i])
  BY <1>1 DEF ChunkerInv, FitInv, Waiting
<1>5. CASE Chunker!Images = 0
  <2>1. pc' = "done" /\ UNCHANGED <<chunks, texts>>
    BY <1>5 DEF Chunker!EndText
  <2>2. (\A i \in 1 .. Len(chunks) : Good(chunks[i]))'
    BY <1>1, <1>4, <2>1, GoodStays
  <2> QED
    BY <1>1, <2>1, <2>2 DEF ChunkerInv, ChunkerTypes, KeptInv, FitInv, StartInv
<1>6. CASE Chunker!Images # 0
  <2>1. /\ pc' = "images" /\ texts' = Len(chunks)
        /\ chunks' = IF chunks = <<>> THEN <<c>> ELSE chunks
    BY <1>6 DEF Chunker!EndText
  <2>2. CASE chunks # <<>>
    <3>1. (\A i \in 1 .. Len(chunks) : Good(chunks[i]))'
      BY <1>1, <1>4, <2>1, <2>2, GoodStays
    <3> QED
      BY <1>1, <1>2, <2>1, <2>2, <3>1 DEF ChunkerInv, ChunkerTypes, KeptInv, FitInv, StartInv
  <2>3. CASE chunks = <<>>
    <3>1. chunks' = <<c>> /\ <<c>> = Append(<<>>, c) /\ <<>> \in Seq(AChunk) /\ texts' = 0
      BY <2>1, <2>3
    <3>2. Chunker!TextsOf(<<c>>) = Chunker!TextsOf(<<>>)
      BY <1>3, <3>1, TextsWithEmpty
    <3>3. KeptInv'
      BY <1>1, <2>3, <3>1, <3>2 DEF ChunkerInv, KeptInv
    <3>4. Chunker!Images > 0 /\ Chunker!Images' = Chunker!Images
      BY <1>1, <1>2, <1>6 DEF Chunker!Images
    <3>5. placed = 0
      BY <1>1 DEF ChunkerInv, StartInv
    <3>6. FitInv'
      BY <1>1, <2>1, <3>1, <3>4, <3>5 DEF FitInv, Waiting
    <3>7. ChunkerTypes'
      BY <1>1, <1>2, <1>3, <2>1, <3>1 DEF ChunkerInv, ChunkerTypes
    <3> QED
      BY <2>1, <3>3, <3>6, <3>7 DEF ChunkerInv, StartInv
  <2> QED
    BY <2>2, <2>3
<1> QED
  BY <1>5, <1>6

\* The least of a set of numbers above a bound.
LEMMA ChunkerMin ==
    ASSUME NEW T, NEW lo \in Int, T # {}, \A t \in T : t \in Int /\ lo <= t
    PROVE  Chunker!Min(T) \in T
<1> DEFINE R == {n \in Nat : lo + n \in T}
<1>1. PICK t \in T : t \in Int /\ lo <= t
  OBVIOUS
<1>2. t - lo \in R
  BY <1>1
<1>3. PICK n \in R : \A m \in R : n <= m
  BY <1>2, LeastNatural
<1>4. lo + n \in T /\ n \in Nat
  BY <1>3
<1>5. \A u \in T : lo + n <= u
  <2> TAKE u \in T
  <2>1. u - lo \in R /\ u \in Int
    OBVIOUS
  <2>2. n <= u - lo
    BY <1>3, <2>1
  <2> QED
    BY <1>4, <2>1, <2>2
<1>6. \E x \in T : \A y \in T : x <= y
  BY <1>4, <1>5
<1> QED
  BY <1>6 DEF Chunker!Min

\* The request a frame is wanted in is a number.
LEMMA PreferredType ==
    ASSUME ChunkerTypes, pc = "images", placed < Chunker!Images
    PROVE  Chunker!Preferred(placed + 1) \in Int
<1>1. /\ Len(chunks) \in Nat /\ Len(frames) \in Nat /\ placed \in Nat /\ texts \in Nat
      /\ Len(frames) > 0
  BY DEF ChunkerTypes, Chunker!Images
<1>2. CASE texts = 0
  BY <1>1, <1>2 DEF Chunker!Preferred
<1>3. CASE texts # 0
  <2> DEFINE even == (placed * texts) \div Len(frames)
             S == {texts - 1, even}
  <2>1. placed * texts \in Int
    BY <1>1
  <2>2. even \in Int
    BY <1>1, <2>1
  <2>3. texts - 1 \in Int
    BY <1>1
  <2> HIDE DEF even
  <2>4. Chunker!Min(S) \in S
    <3>1. \E lo \in Int : lo <= texts - 1 /\ lo <= even
      <4>1. CASE texts - 1 <= even
        BY <2>2, <2>3, <4>1
      <4>2. CASE ~(texts - 1 <= even)
        BY <2>2, <2>3, <4>2
      <4> QED
        BY <4>1, <4>2
    <3>2. PICK lo \in Int : lo <= texts - 1 /\ lo <= even
      BY <3>1
    <3>3. S # {} /\ \A t \in S : t \in Int /\ lo <= t
      BY <2>2, <2>3, <3>2
    <3> HIDE DEF S
    <3> QED
      BY <3>3, ChunkerMin
  <2>5. Chunker!Min(S) \in Int
    BY <2>2, <2>3, <2>4
  <2>6. Chunker!Preferred(placed + 1) = Chunker!Min(S) + 1
    <3>1. (placed + 1) - 1 = placed
      BY <1>1
    <3> QED
      BY <1>3, <3>1 DEF Chunker!Preferred, even
  <2> QED
    BY <2>5, <2>6
<1> QED
  BY <1>2, <1>3

\* The request a frame is placed in is one it fits.
LEMMA PlacedInRoom ==
    ASSUME ChunkerTypes, pc = "images", placed < Chunker!Images, NEW c,
           Chunker!Place(placed + 1, c)
    PROVE  c \in Chunker!Room(placed + 1)
<1> DEFINE R == Chunker!Room(placed + 1) lo == Chunker!Preferred(placed + 1)
<1>1. lo \in Int
  BY PreferredType
<1>2. R # {} /\ c = Chunker!Min(R)
  BY DEF Chunker!Place
<1>3. \A t \in R : t \in Int /\ lo <= t
  BY <1>1 DEF Chunker!Room, ChunkerTypes
<1> HIDE DEF R, lo
<1>4. Chunker!Min(R) \in R
  BY <1>1, <1>2, <1>3, ChunkerMin
<1> QED
  BY <1>2, <1>4 DEF R

\* A frame more in one of the requests.
WithFrame(cs, c, i) == [cs EXCEPT ![c].images = Append(@, i)]

\* A frame more in a request changes neither the text nor the other requests.
LEMMA ImageAdded ==
    ASSUME NEW cs \in Seq(AChunk), NEW c \in 1 .. Len(cs), NEW i \in Nat, NEW new,
           new = WithFrame(cs, c, i)
    PROVE  /\ new \in Seq(AChunk) /\ Len(new) = Len(cs)
           /\ new[c].segments = cs[c].segments /\ new[c].images = Append(cs[c].images, i)
           /\ \A d \in 1 .. Len(cs) : d # c => new[d] = cs[d]
           /\ Bodies(new) = Bodies(cs)
<1>1. cs[c] \in AChunk
  BY ElementOfSeq
<1>2. cs[c] = [segments |-> cs[c].segments, images |-> cs[c].images]
      /\ cs[c].segments \in Seq(APiece) /\ cs[c].images \in Seq(Nat)
  BY ONLY <1>1 DEF AChunk
<1>3. PICK row : row = [cs[c] EXCEPT !.images = Append(cs[c].images, i)]
  OBVIOUS
<1>4. row = [segments |-> cs[c].segments, images |-> Append(cs[c].images, i)]
  BY <1>2, <1>3
<1>5. row \in AChunk
  BY <1>2, <1>4 DEF AChunk
<1>6. new = [cs EXCEPT ![c] = row]
  BY <1>3 DEF WithFrame
<1>7. new \in Seq(AChunk) /\ Len(new) = Len(cs)
      /\ \A d \in 1 .. Len(cs) : new[d] = IF d = c THEN row ELSE cs[d]
  <2>1. /\ [cs EXCEPT ![c] = row] \in Seq(AChunk) /\ Len([cs EXCEPT ![c] = row]) = Len(cs)
        /\ \A d \in 1 .. Len(cs) : [cs EXCEPT ![c] = row][d] = IF d = c THEN row ELSE cs[d]
    BY ONLY <1>5, cs \in Seq(AChunk), c \in 1 .. Len(cs), ExceptSeq
  <2> QED
    BY ONLY <1>6, <2>1, Zenon
<1>8. \A d \in 1 .. Len(cs) : new[d].segments = cs[d].segments
  BY <1>4, <1>7
<1>9. Bodies(new) = Bodies(cs)
  BY <1>7, <1>8 DEF Bodies
<1> QED
  BY <1>4, <1>7, <1>9

\* A frame is placed in a request that holds it together with its text.
LEMMA PlaceImageKeeps ==
    ASSUME ChunkerInv, Chunker!PlaceImage
    PROVE  ChunkerInv'
<1>1. /\ pc = "images" /\ placed < Chunker!Images /\ placed' = placed + 1
      /\ UNCHANGED <<lengths, frames, prompt, segments, batch, texts, withImages, pc>>
  BY DEF Chunker!PlaceImage
<1>2. PICK c \in 1 .. Len(chunks) :
          /\ Chunker!Place(placed + 1, c)
          /\ chunks' = [chunks EXCEPT ![c].images = Append(@, placed + 1)]
  BY DEF Chunker!PlaceImage
<1>3. chunks \in Seq(AChunk) /\ placed \in Nat /\ placed + 1 \in Nat
  BY DEF ChunkerInv, ChunkerTypes
<1>14. PICK i \in Nat : i = placed + 1
  BY <1>3
<1>12. PICK new : new = WithFrame(chunks, c, i)
  OBVIOUS
<1>13. i = placed + 1 /\ i \in Nat
  BY <1>14
<1>4. /\ new \in Seq(AChunk) /\ Len(new) = Len(chunks)
      /\ new[c].segments = chunks[c].segments /\ new[c].images = Append(chunks[c].images, placed + 1)
      /\ \A d \in 1 .. Len(chunks) : d # c => new[d] = chunks[d]
      /\ Bodies(new) = Bodies(chunks)
  <2>1. /\ new \in Seq(AChunk) /\ Len(new) = Len(chunks)
        /\ new[c].segments = chunks[c].segments /\ new[c].images = Append(chunks[c].images, i)
        /\ \A d \in 1 .. Len(chunks) : d # c => new[d] = chunks[d]
        /\ Bodies(new) = Bodies(chunks)
    BY <1>3, <1>12, ImageAdded
  <2> QED
    BY <1>13, <2>1
<1>5. chunks' = new
  BY <1>2, <1>12, <1>13 DEF WithFrame
<1>6. c \in Chunker!Room(placed + 1)
  BY <1>1, <1>2, PlacedInRoom DEF ChunkerInv
<1>7. Good(new[c])
  <2>1. Chunker!Fits(chunks[c].segments, Append(chunks[c].images, placed + 1))
    BY <1>6 DEF Chunker!Room
  <2>2. Append(chunks[c].images, placed + 1) # <<>>
    <3>1. chunks[c] \in AChunk
      BY <1>3, ElementOfSeq
    <3>2. chunks[c].images \in Seq(Nat)
      BY ONLY <3>1 DEF AChunk
    <3> QED
      BY <1>3, <3>2, AppendProperties
  <2> QED
    BY <1>4, <2>1, <2>2 DEF Good
<1>8. \A d \in 1 .. Len(new) : Good(new[d])
  <2>1. CASE Waiting
    <3>1. Len(chunks) = 1
      BY <2>1 DEF Waiting
    <3> QED
      BY <1>2, <1>4, <1>7, <3>1
  <2>2. CASE \A d \in 1 .. Len(chunks) : Good(chunks[d])
    BY <1>4, <1>7, <2>2
  <2> QED
    BY <2>1, <2>2 DEF ChunkerInv, FitInv
<1>9. FitInv'
  <2>1. (\A d \in 1 .. Len(chunks) : Good(chunks[d]))'
    BY <1>1, <1>5, <1>8, GoodStays
  <2> QED
    BY <1>1, <2>1 DEF ChunkerInv, KeptInv, FitInv
<1>10. ChunkerTypes'
  BY <1>1, <1>3, <1>4, <1>5 DEF ChunkerInv, ChunkerTypes
<1>11. KeptInv'
  <2>1. Chunker!TextsOf(chunks') = Chunker!TextsOf(chunks)
    BY <1>3, <1>4, <1>5, TextsAre
  <2> QED
    BY <1>1, <2>1 DEF ChunkerInv, KeptInv
<1> QED
  BY <1>1, <1>9, <1>10, <1>11 DEF ChunkerInv, StartInv

\* A frame no request has room for gets one of its own.
LEMMA AppendImageChunkKeeps ==
    ASSUME ChunkerInv, Chunker!AppendImageChunk
    PROVE  ChunkerInv'
<1> DEFINE c == Chunker!ImageChunk(placed + 1)
<1>1. /\ pc = "images" /\ placed < Chunker!Images /\ placed' = placed + 1
      /\ Chunker!Room(placed + 1) = {} /\ Chunker!Fits(<<>>, <<placed + 1>>)
      /\ chunks' = Append(chunks, c)
      /\ UNCHANGED <<lengths, frames, prompt, segments, batch, texts, withImages, pc>>
  BY DEF Chunker!AppendImageChunk
<1>2. chunks \in Seq(AChunk) /\ placed \in Nat /\ placed + 1 \in Nat
  BY DEF ChunkerInv, ChunkerTypes
<1>3. c \in AChunk /\ c.segments = <<>> /\ c.images = <<placed + 1>>
  BY <1>2 DEF AChunk, Chunker!ImageChunk, Chunker!Chunk
<1>4. Good(c)
  BY <1>1, <1>3 DEF Good
<1> HIDE DEF c
<1>5. ~Waiting
  <2> SUFFICES ASSUME Waiting PROVE FALSE
    OBVIOUS
  <2>1. /\ Len(chunks) = 1 /\ texts = 0 /\ placed = 0
        /\ chunks[1].segments = <<>> /\ chunks[1].images = <<>>
    BY DEF Waiting, Chunker!Chunk
  <2>2. Chunker!Preferred(placed + 1) = 1
    BY <2>1 DEF Chunker!Preferred
  <2>3. Append(<<>>, placed + 1) = <<placed + 1>>
    OBVIOUS
  <2>4. 1 \in Chunker!Room(placed + 1)
    <3>1. 1 \in 1 .. Len(chunks)
      BY <2>1
    <3>2. Append(chunks[1].images, placed + 1) = <<placed + 1>>
      BY <2>1, <2>3
    <3>3. Chunker!Fits(chunks[1].segments, Append(chunks[1].images, placed + 1))
      BY ONLY <1>1, <2>1, <3>2
    <3> QED
      BY ONLY <2>2, <3>1, <3>3 DEF Chunker!Room
  <2> QED
    BY <1>1, <2>4
<1>6. FitInv'
  <2>1. \A i \in 1 .. Len(chunks) : Good(chunks[i])
    BY <1>5 DEF ChunkerInv, FitInv
  <2>2. \A i \in 1 .. Len(Append(chunks, c)) : Good(Append(chunks, c)[i])
    BY <1>2, <1>3, <1>4, <2>1, GoodAppended
  <2>3. (\A i \in 1 .. Len(chunks) : Good(chunks[i]))'
    BY <1>1, <2>2, GoodStays
  <2> QED
    BY <1>1, <2>3 DEF ChunkerInv, KeptInv, FitInv
<1>7. ChunkerTypes'
  BY <1>1, <1>2, <1>3 DEF ChunkerInv, ChunkerTypes
<1>8. KeptInv'
  <2>1. Chunker!TextsOf(chunks') = Chunker!TextsOf(chunks)
    BY <1>1, <1>2, <1>3, TextsWithEmpty
  <2> QED
    BY <1>1, <2>1 DEF ChunkerInv, KeptInv
<1> QED
  BY <1>1, <1>6, <1>7, <1>8 DEF ChunkerInv, StartInv

\* When all frames are placed the requests are done.
LEMMA EndImagesKeeps ==
    ASSUME ChunkerInv, Chunker!EndImages
    PROVE  ChunkerInv'
<1>1. /\ pc = "images" /\ placed = Chunker!Images /\ pc' = "done"
      /\ UNCHANGED <<lengths, frames, prompt, segments, batch, chunks, placed, texts, withImages>>
  BY DEF Chunker!EndImages
<1>2. \A i \in 1 .. Len(chunks) : Good(chunks[i])
  BY <1>1 DEF ChunkerInv, FitInv, Waiting
<1>3. (\A i \in 1 .. Len(chunks) : Good(chunks[i]))'
  BY <1>1, <1>2, GoodStays
<1> QED
  BY <1>1, <1>3 DEF ChunkerInv, ChunkerTypes, KeptInv, FitInv, StartInv

\* Before the first request, all of the transcript is yet to be cut.
LEMMA FromTheStart ==
    ASSUME NEW ls \in Seq(Nat)
    PROVE  Chunker!Characters(Chunker!TextsOf(<<>>))
             \o (Chunker!Characters(<<>>) \o Chunker!Characters(Chunker!Whole(ls)))
           = Chunker!Characters(Chunker!Whole(ls))
<1> DEFINE w == Chunker!Characters(Chunker!Whole(ls))
<1>1. w \in Seq(ALetter)
  BY WholeType, CharactersAre
<1>2. Chunker!Characters(Chunker!TextsOf(<<>>)) = <<>> /\ Chunker!Characters(<<>>) = <<>>
  BY TextsOfNone, CharactersOfNone
<1> HIDE DEF w
<1>3. <<>> \o (<<>> \o w) = w
  BY <1>1, ConcatEmptySeq
<1> QED
  BY <1>2, <1>3 DEF w

\* The call without frames cuts the transcript from the start.
LEMMA TryWithoutImagesKeeps ==
    ASSUME ChunkerInv, Chunker!TryWithoutImages
    PROVE  ChunkerInv'
<1>1. /\ withImages' = FALSE /\ pc' = "text" /\ segments' = Chunker!Whole(lengths)
      /\ batch' = <<>> /\ chunks' = <<>> /\ placed' = 0 /\ texts' = 0
      /\ UNCHANGED <<lengths, frames, prompt>>
  BY DEF Chunker!TryWithoutImages
<1>2. lengths \in Seq(Nat)
  BY DEF ChunkerInv, ChunkerTypes
<1>3. Chunker!Whole(lengths) \in Seq(APiece) /\ <<>> \in Seq(APiece) /\ <<>> \in Seq(AChunk)
  BY <1>2, WholeType
<1>4. ChunkerTypes'
  BY <1>1, <1>3 DEF ChunkerInv, ChunkerTypes
<1>5. KeptInv'
  BY <1>1, <1>2, FromTheStart DEF KeptInv
<1>6. FitInv'
  BY <1>1 DEF FitInv
<1> QED
  BY <1>1, <1>4, <1>5, <1>6 DEF ChunkerInv, StartInv

\* A refusal leaves the requests as they are.
LEMMA RefuseKeeps ==
    ASSUME ChunkerInv, Chunker!Refuse
    PROVE  ChunkerInv'
<1>1. /\ Chunker!Unable /\ ~withImages /\ pc' = "refused"
      /\ UNCHANGED <<lengths, frames, prompt, segments, batch, chunks, placed, texts, withImages>>
  BY DEF Chunker!Refuse
<1>2. Chunker!Images = 0
  BY <1>1 DEF Chunker!Images
<1>3. \A i \in 1 .. Len(chunks) : Good(chunks[i])
  BY <1>2 DEF ChunkerInv, FitInv, Waiting
<1>4. (\A i \in 1 .. Len(chunks) : Good(chunks[i]))'
  BY <1>1, <1>3, GoodStays
<1>5. batch # <<>> => Chunker!Fits(batch, <<>>)'
  BY <1>1, CostStays DEF ChunkerInv, FitInv
<1> QED
  BY <1>1, <1>4, <1>5 DEF ChunkerInv, ChunkerTypes, KeptInv, FitInv, StartInv

\* RequestChunker.chunk: the requests made, the batch in hand and the segments left spell the
\* transcript at every step, and every request made fits the budget (request_chunker.py).
THEOREM ChunkerInvariant == Chunker!Spec => []ChunkerInv
<1>1. /\ SegmentSizes \subseteq Nat /\ ImageSizes \subseteq Nat
      /\ MaxSegments \in Nat /\ MaxImages \in Nat
  BY NotesAssumption DEF NotesAssumption, Chunker!SizesAreNaturals
<1>2. Chunker!Init => ChunkerInv
  <2> SUFFICES ASSUME Chunker!Init PROVE ChunkerInv
    OBVIOUS
  <2>1. lengths \in Seq(Nat) /\ frames \in Seq(Nat)
    <3>1. PICK n \in 0 .. MaxSegments : lengths \in [1 .. n -> SegmentSizes]
      BY DEF Chunker!Init
    <3>2. PICK m \in 0 .. MaxImages : frames \in [1 .. m -> ImageSizes]
      BY DEF Chunker!Init
    <3>3. n \in Nat /\ m \in Nat
      BY <1>1
    <3>4. lengths \in [1 .. n -> Nat]
      BY <1>1, <3>1
    <3>5. frames \in [1 .. m -> Nat]
      BY <1>1, <3>2
    <3> QED
      BY <3>3, <3>4, <3>5, FunctionIsSequence
  <2>2. /\ segments = Chunker!Whole(lengths) /\ batch = <<>> /\ chunks = <<>> /\ placed = 0
        /\ texts = 0 /\ withImages = TRUE /\ pc = "text"
    BY DEF Chunker!Init
  <2>3. Chunker!Whole(lengths) \in Seq(APiece) /\ <<>> \in Seq(APiece) /\ <<>> \in Seq(AChunk)
    BY <2>1, WholeType
  <2>4. ChunkerTypes
    BY <2>1, <2>2, <2>3 DEF ChunkerTypes
  <2>5. KeptInv
    BY <2>1, <2>2, FromTheStart DEF KeptInv
  <2> QED
    BY <2>2, <2>4, <2>5 DEF ChunkerInv, FitInv, StartInv
<1>3. ChunkerInv /\ [Chunker!Next]_Chunker!vars => ChunkerInv'
  <2> SUFFICES ASSUME ChunkerInv, [Chunker!Next]_Chunker!vars PROVE ChunkerInv'
    OBVIOUS
  <2>1. CASE UNCHANGED Chunker!vars
    <3>1. UNCHANGED <<lengths, frames, prompt, segments, batch, chunks, placed, texts, withImages, pc>>
      BY <2>1 DEF Chunker!vars
    <3>2. Chunker!Fits(batch, <<>>)' <=> Chunker!Fits(batch, <<>>)
      BY <3>1, CostStays
    <3>3. (\A i \in 1 .. Len(chunks) : Good(chunks[i])) => (\A i \in 1 .. Len(chunks) : Good(chunks[i]))'
      BY <3>1, GoodStays
    <3>4. Waiting' <=> Waiting
      BY <3>1 DEF Waiting, Chunker!Images
    <3> QED
      BY <3>1, <3>2, <3>3, <3>4 DEF ChunkerInv, ChunkerTypes, KeptInv, FitInv, StartInv
  <2>2. CASE Chunker!SplitSegment
    BY <2>2, SplitSegmentKeeps
  <2> QED
    BY <2>1, <2>2, TakeSegmentKeeps, CloseChunkKeeps, EndTextKeeps, PlaceImageKeeps,
       AppendImageChunkKeeps, EndImagesKeeps, TryWithoutImagesKeeps, RefuseKeeps DEF Chunker!Next
<1> QED
  BY <1>2, <1>3, PTL DEF Chunker!Spec

\* The requests of a chunked transcript carry every character of it once and in order, each
\* within max_request_bytes and none empty, for every transcript, frames and budget.
THEOREM RequestsHoldEverything == Chunker!Spec => []RequestsHoldTheTranscript
<1>1. ChunkerInv => RequestsHoldTheTranscript
  <2> SUFFICES ASSUME ChunkerInv, pc = "done"
               PROVE  /\ Chunker!Characters(Chunker!TextsOf(chunks))
                            = Chunker!Characters(Chunker!Whole(lengths))
                      /\ \A i \in 1 .. Len(chunks) : Good(chunks[i])
    BY DEF RequestsHoldTheTranscript, Chunker!TranscriptKept, Chunker!RequestsFit, Good
  <2>1. \A i \in 1 .. Len(chunks) : Good(chunks[i])
    BY DEF ChunkerInv, FitInv, Waiting
  <2> DEFINE cx == Chunker!Characters(Chunker!TextsOf(chunks))
  <2>2. cx \in Seq(ALetter)
    BY TextsAre, CharactersAre DEF ChunkerInv, ChunkerTypes
  <2>3. cx \o (<<>> \o <<>>) = Chunker!Characters(Chunker!Whole(lengths))
    BY CharactersOfNone DEF ChunkerInv, KeptInv
  <2> HIDE DEF cx
  <2>4. cx \o (<<>> \o <<>>) = cx
    BY <2>2, ConcatEmptySeq
  <2> QED
    BY <2>1, <2>3, <2>4 DEF cx
<1> QED
  BY <1>1, ChunkerInvariant, PTL
=============================================================================
