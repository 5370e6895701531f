--------------------------- MODULE RequestChunker ---------------------------
(***************************************************************************)
(* How a transcript and the frames of its video are cut into requests:     *)
(* RequestChunker.chunk of backend/app/gpt/request_chunker.py and the call *)
(* of UniversalGPT.summarize that tries again without frames.              *)
(*                                                                         *)
(* A segment is its number and the range of its text that is left of it    *)
(* after splitting; a frame is its number.  A request costs prompt, each   *)
(* segment Overhead (time stamp, line break) and its text, each frame its  *)
(* size, and must not cost more than Budget (max_request_bytes).  One      *)
(* iteration of a loop of the code is one step; the input is any of the    *)
(* bounded sequences of Init.                                              *)
(***************************************************************************)
EXTENDS Naturals, Sequences, SequencesExt, FiniteSetsExt, Totals

CONSTANTS
  MaxSegments, SegmentSizes,   \* bounds: the transcripts considered
  MaxImages, ImageSizes,       \* bounds: the frames considered
  Prompts,                     \* what title, style and extras may cost
  Overhead, Budget

SizesAreNaturals ==
  /\ SegmentSizes \subseteq Nat /\ ImageSizes \subseteq Nat
  /\ {Overhead, Budget, MaxSegments, MaxImages} \union Prompts \subseteq Nat

VARIABLES
  lengths, frames,  \* the input: text length per segment, size per frame
  prompt,           \* the input: size of the request without either
  segments,         \* what the text loop has not taken yet
  batch,            \* batch_segments
  chunks,           \* Seq of [segments, images]
  placed,           \* frames placed so far
  texts,            \* chunk_count: the chunks the text loop made
  withImages,       \* FALSE in the second call of summarize
  pc                \* "text", "images", "done" or "refused"

vars == <<lengths, frames, prompt, segments, batch, chunks, placed, texts, withImages, pc>>

----------------------------------------------------------------------------
Piece(i, from, to) == [segment |-> i, from |-> from, to |-> to]
Whole(ls) == [i \in 1..Len(ls) |-> Piece(i, 1, ls[i])]
Length(p) == p.to + 1 - p.from

TextCost(ps) == Total([k \in DOMAIN ps |-> Overhead + Length(ps[k])])
ImageCost(is) == Total([k \in DOMAIN is |-> frames[is[k]]])
Cost(ps, is) == prompt + TextCost(ps) + ImageCost(is)
Fits(ps, is) == Cost(ps, is) <= Budget

Chunk(ps, is) == [segments |-> ps, images |-> is]

(* The longest head of a piece that fits a request of its own; the code    *)
(* searches it by bisection, the cost growing with the length.             *)
Heads(p) == {n \in 1..Length(p) : prompt + Overhead + n <= Budget}

Init ==
  /\ lengths \in UNION {[1..n -> SegmentSizes] : n \in 0..MaxSegments}
  /\ frames \in UNION {[1..n -> ImageSizes] : n \in 0..MaxImages}
  /\ prompt \in Prompts
  /\ segments = Whole(lengths)
  /\ batch = <<>> /\ chunks = <<>> /\ placed = 0 /\ texts = 0
  /\ withImages = TRUE
  /\ pc = "text"

Images == IF withImages THEN Len(frames) ELSE 0

----------------------------------------------------------------------------
(* The text loop.                                                          *)

NextFits == segments # <<>> /\ Fits(Append(batch, Head(segments)), <<>>)

TakeSegment ==
  /\ pc = "text" /\ NextFits
  /\ batch' = Append(batch, Head(segments))
  /\ segments' = Tail(segments)
  /\ UNCHANGED <<lengths, frames, prompt, chunks, placed, texts, withImages, pc>>

(* The last character of the head.                                         *)
SplitAt(p) == p.from + Max(Heads(p)) - 1

(* Mutant: the tail begins where the head ends.                            *)
TailOfOverlap(p) == Piece(p.segment, SplitAt(p), p.to)
TailOf(p) == Piece(p.segment, SplitAt(p) + 1, p.to)

(* Only a segment that begins a batch is split; the loop takes its head in *)
(* the next iteration.                                                     *)
SplitSegment ==
  /\ pc = "text" /\ segments # <<>> /\ ~NextFits /\ batch = <<>>
  /\ LET p == Head(segments)
     IN  /\ Heads(p) # {}
         /\ segments' = <<Piece(p.segment, p.from, SplitAt(p)), TailOf(p)>> \o Tail(segments)
  /\ UNCHANGED <<lengths, frames, prompt, batch, chunks, placed, texts, withImages, pc>>

CloseChunk ==
  /\ pc = "text" /\ batch # <<>>
  /\ ~NextFits
  /\ chunks' = Append(chunks, Chunk(batch, <<>>))
  /\ batch' = <<>>
  /\ UNCHANGED <<lengths, frames, prompt, segments, placed, texts, withImages, pc>>

EndText ==
  /\ pc = "text" /\ segments = <<>> /\ batch = <<>>
  /\ IF Images = 0
     THEN pc' = "done" /\ UNCHANGED <<chunks, texts>>
     ELSE /\ pc' = "images"
          /\ chunks' = IF chunks = <<>> THEN <<Chunk(<<>>, <<>>)>> ELSE chunks
          /\ texts' = Len(chunks)
  /\ UNCHANGED <<lengths, frames, prompt, segments, batch, placed, withImages>>

----------------------------------------------------------------------------
(* The frames are spread evenly over the chunks; without text only the     *)
(* last chunk is tried.                                                    *)

Preferred(i) ==
  IF texts = 0 THEN Len(chunks)
  ELSE LET even == ((i - 1) * texts) \div Len(frames)
       IN  Min({texts - 1, even}) + 1

Room(i) == {c \in Preferred(i)..Len(chunks) : Fits(chunks[c].segments, Append(chunks[c].images, i))}

(* Mutant: the text of the chunk is not counted.                           *)
PlaceUncounted(i, c) ==
  LET room == {d \in Preferred(i)..Len(chunks) : Fits(<<>>, Append(chunks[d].images, i))}
  IN  room # {} /\ c = Min(room)
Place(i, c) == Room(i) # {} /\ c = Min(Room(i))

PlaceImage ==
  /\ pc = "images" /\ placed < Images
  /\ \E c \in 1..Len(chunks) :
       /\ Place(placed + 1, c)
       /\ chunks' = [chunks EXCEPT ![c].images = Append(@, placed + 1)]
  /\ placed' = placed + 1
  /\ UNCHANGED <<lengths, frames, prompt, segments, batch, texts, withImages, pc>>

ImageChunk(i) == Chunk(<<>>, <<i>>)

AppendImageChunk ==
  /\ pc = "images" /\ placed < Images
  /\ Room(placed + 1) = {} /\ Fits(<<>>, <<placed + 1>>)
  /\ chunks' = Append(chunks, ImageChunk(placed + 1))
  /\ placed' = placed + 1
  /\ UNCHANGED <<lengths, frames, prompt, segments, batch, texts, withImages, pc>>

EndImages ==
  /\ pc = "images" /\ placed = Images
  /\ pc' = "done"
  /\ UNCHANGED <<lengths, frames, prompt, segments, batch, chunks, placed, texts, withImages>>

----------------------------------------------------------------------------
(* A ValueError of chunk: a text or a frame that fits no request.          *)

Unable ==
  \/ /\ pc = "text" /\ segments # <<>> /\ ~NextFits /\ batch = <<>>
     /\ Heads(Head(segments)) = {}
  \/ /\ pc = "images" /\ placed < Images
     /\ Room(placed + 1) = {} /\ ~Fits(<<>>, <<placed + 1>>)

(* summarize asks again without any frame.                                 *)
TryWithoutImages ==
  /\ Unable /\ withImages
  /\ withImages' = FALSE /\ pc' = "text"
  /\ segments' = Whole(lengths)
  /\ batch' = <<>> /\ chunks' = <<>> /\ placed' = 0 /\ texts' = 0
  /\ UNCHANGED <<lengths, frames, prompt>>

Refuse ==
  /\ Unable /\ ~withImages
  /\ pc' = "refused"
  /\ UNCHANGED <<lengths, frames, prompt, segments, batch, chunks, placed, texts, withImages>>

Next ==
  \/ TakeSegment \/ SplitSegment \/ CloseChunk \/ EndText
  \/ PlaceImage \/ AppendImageChunk \/ EndImages
  \/ TryWithoutImages \/ Refuse

Spec == Init /\ [][Next]_vars

(* One thread runs the loops.                                              *)
FairSpec == Spec /\ WF_vars(Next)

----------------------------------------------------------------------------
(* Properties                                                              *)

TypeOK ==
  /\ pc \in {"text", "images", "done", "refused"}
  /\ \A c \in 1..Len(chunks) : \A i \in 1..Len(chunks[c].images) : chunks[c].images[i] \in 1..placed
  /\ placed \in 0..Len(frames) /\ texts \in 0..Len(chunks)
  /\ withImages \in BOOLEAN

TextsOf(cs) == FlattenSeq([c \in 1..Len(cs) |-> cs[c].segments])
ImagesOf(cs) == FlattenSeq([c \in 1..Len(cs) |-> cs[c].images])

(* The characters of a piece, and of a sequence of pieces, one by one.     *)
Letters(p) == [n \in 1..Length(p) |-> <<p.segment, p.from + n - 1>>]
Characters(ps) == FlattenSeq([k \in 1..Len(ps) |-> Letters(ps[k])])

(* However segments are split, the requests carry the whole transcript,    *)
(* each character once and in order.                                       *)
TranscriptKept == pc = "done" => Characters(TextsOf(chunks)) = Characters(Whole(lengths))

(* No request is over the budget, frames included, and none is empty.      *)
RequestsFit ==
  pc = "done" => \A c \in 1..Len(chunks) :
    /\ Fits(chunks[c].segments, chunks[c].images)
    /\ chunks[c].segments # <<>> \/ chunks[c].images # <<>>

(* All frames are sent, each once, or none is.                             *)
FramesAllOrNone ==
  pc = "done" => LET sent == ImagesOf(chunks)
                 IN  /\ Len(sent) = Images
                     /\ ToSet(sent) = 1..Images

(* What the tests of the chunker assert: the requests carry the frames in  *)
(* the order of the video.                                                 *)
FramesInOrder == pc = "done" => ImagesOf(chunks) = [i \in 1..Images |-> i]

(* Every transcript is cut or refused: a split makes progress.             *)
ChunkingEnds == <>(pc \in {"done", "refused"})
=============================================================================
