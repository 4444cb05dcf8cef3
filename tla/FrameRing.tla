------------------------------- MODULE FrameRing -------------------------------
(***************************************************************************)
(* One video stream of the RTSP server: the vendor's encoder writes frames *)
(* into a ring in shared memory, the capture thread follows it without a   *)
(* lock and fills a bounded queue, and the network thread plays from the   *)
(* queue.  A frame is its number and takes one cell; every Gop-th is a key *)
(* frame with its parameter sets.  The ring is long enough for the encoder *)
(* never to come round to frames the capture thread has still to copy.     *)
(***************************************************************************)
EXTENDS Integers, Sequences

CONSTANTS
    Cells,      \* cells of the ring
    MaxBatch,   \* 10: headers of one walk
    QueueMax,   \* MAX_QUEUE_SIZE
    StartMin,   \* 5: frames a new session waits for
    Modulus,    \* 65536: frames carry their number modulo this
    Gop,        \* distance of key frames
    First, Last \* bounds: the frames considered

\* The constants of an instance.
FrameRingAssumption ==
    /\ Cells \in Nat /\ MaxBatch \in Nat /\ 1 < MaxBatch /\ MaxBatch < Cells
    /\ QueueMax \in Nat \ {0} /\ StartMin \in 1..QueueMax /\ Gop \in Nat \ {0}
    /\ First \in Nat /\ Last \in Nat /\ First <= Last
    /\ Modulus \in Nat /\ Last - First < Modulus

VARIABLES
    ring,     \* per cell the number of the frame in it
    torn,     \* the cell that is being written, or Cells
    written,  \* the number of the newest frame
    start, end,  \* header words: where the newest frame is, where the next will be
    pc,       \* the capture thread: "poll", "confirm" or "copy"
    guess,    \* the end that the words read so far imply
    prev,     \* buf_idx_end_prev, 0..Cells: Cells is the unwrapped end of the buffer
    batch,    \* addresses of frames to copy
    codec,    \* has a key frame been seen
    queue,    \* sequence of [num, whole]
    started, last,  \* fHaveStartedReading; the frame fLastCounter is of, or -1
    playing,  \* does a client play
    heard     \* the frame delivered last in this session and the one before it, or -1

encoder == <<ring, torn, written, start, end>>
capture == <<pc, guess, prev, batch, codec>>
source == <<started, last, playing, heard>>
vars == <<encoder, capture, queue, source>>

Key(k) == k % Gop = 0
Cell(p) == p % Cells

TypeOK ==
    /\ ring \in [0..(Cells - 1) -> 0..Last] /\ torn \in 0..Cells /\ written \in First..Last
    /\ start \in 0..(Cells - 1) /\ end \in 0..(Cells - 1)
    /\ guess \in 0..(Cells - 1) /\ prev \in 0..Cells
    /\ batch \in Seq(0..Cells) /\ Len(batch) < MaxBatch
    /\ Len(queue) <= QueueMax
    /\ last \in -1..Last /\ heard \in (-1..Last) \X (-1..Last)

Init ==
    /\ ring = [c \in 0..(Cells - 1) |-> IF c = Cell(First) THEN First ELSE 0]
    /\ torn = Cells /\ written = First
    /\ start = Cell(First) /\ end = Cell(First + 1)
    /\ pc = "poll" /\ guess = 0 /\ prev = Cell(First + 1) /\ batch = <<>> /\ codec = FALSE
    /\ queue = <<>>
    /\ started = FALSE /\ last = -1 /\ playing = FALSE /\ heard = <<-1, -1>>

-----------------------------------------------------------------------------
(* The encoder                                                             *)
Backlog == Cell(end + Cells - prev)

\* A frame begins in the cell after the newest; the header follows word by word.
Begin ==
    /\ torn = Cells /\ start = Cell(written) /\ end = Cell(written + 1)
    /\ written < Last /\ Backlog + Len(batch) + 1 < Cells
    /\ written' = written + 1
    /\ torn' = Cell(written + 1)
    /\ ring' = [ring EXCEPT ![Cell(written + 1)] = written + 1]
    /\ UNCHANGED <<start, end>>

HeaderWord ==
    /\ \/ start # Cell(written) /\ start' = Cell(written) /\ UNCHANGED end
       \/ end # Cell(written + 1) /\ end' = Cell(written + 1) /\ UNCHANGED start
    /\ UNCHANGED <<ring, torn, written>>

Finish == torn # Cells /\ torn' = Cells /\ UNCHANGED <<ring, written, start, end>>

Encode == (Begin \/ HeaderWord \/ Finish) /\ UNCHANGED <<capture, queue, source>>

-----------------------------------------------------------------------------
(* The capture thread                                                      *)
\* The words at 16 and 4.
Poll ==
    /\ pc = "poll"
    /\ guess' = Cell(start + 1)
    /\ pc' = "confirm"
    /\ UNCHANGED <<prev, batch, codec, encoder, queue, source>>

\* cb_move by n frames: an address at the very end of the buffer is kept.
Move(p, n) == IF p + n > Cells THEN p + n - Cells ELSE p + n

\* The addresses of the headers from prev to the end, at most MaxBatch.
Walk(to) ==
    LET ends == {i \in 1..MaxBatch : Move(prev, i - 1) = to}
        n == IF ends = {} THEN MaxBatch ELSE (CHOOSE i \in ends : \A j \in ends : i <= j) - 1
    IN  [i \in 1..n |-> Move(prev, i - 1)]

\* The word at 12 must agree.  A walk that finds a header that cannot be, or
\* does not come to the end, gives up what it has; the last frame is left.
Confirm ==
    /\ pc = "confirm"
    /\ LET to == end
           frames == Walk(to)
           n == Len(frames)
       IN  \/ (to # guess \/ to = prev)
              /\ pc' = "poll" /\ UNCHANGED <<prev, batch>>
           \/ to = guess /\ to # prev /\ n = 1
              /\ pc' = "poll" /\ UNCHANGED <<prev, batch>>
           \/ to = guess /\ to # prev /\ (n = MaxBatch \/ (\E i \in 1..n : Cell(frames[i]) = torn))
              /\ prev' = to /\ pc' = "poll" /\ UNCHANGED batch
           \/ to = guess /\ to # prev /\ 1 < n /\ n < MaxBatch
              /\ prev' = frames[n] /\ batch' = SubSeq(frames, 1, n - 1) /\ pc' = "copy"
    /\ UNCHANGED <<guess, codec, encoder, queue, source>>

Newest(q) == IF Len(q) > QueueMax THEN Tail(q) ELSE q

\* A frame is copied and, once the codec is known, queued; the oldest makes room.
Copy ==
    /\ pc = "copy"
    /\ LET c == Cell(Head(batch))
       IN  /\ codec' = (codec \/ Key(ring[c]))
           /\ queue' = IF codec' THEN Newest(Append(queue, [num |-> ring[c], whole |-> c # torn])) ELSE queue
    /\ batch' = Tail(batch)
    /\ pc' = IF Tail(batch) = <<>> THEN "poll" ELSE "copy"
    /\ UNCHANGED <<guess, prev, encoder, source>>

-----------------------------------------------------------------------------
(* VideoFramedMemorySource on the network thread                           *)
\* doGetNextFrame of a session that has not begun.
WaitToStart ==
    /\ playing /\ ~started /\ Len(queue) >= StartMin
    /\ started' = TRUE /\ last' = -1
    /\ UNCHANGED <<playing, heard, encoder, capture, queue>>

Discontinuity(k) == last = -1 \/ k % Modulus # (last + 1) % Modulus

\* MUTANT: a frame that is too large counts as delivered.
TooLargeCounted ==
    /\ playing /\ started /\ queue # <<>>
    /\ ~Discontinuity(Head(queue).num) \/ Key(Head(queue).num)
    /\ queue' = Tail(queue) /\ last' = Head(queue).num
    /\ UNCHANGED <<started, playing, heard, encoder, capture>>

\* A frame larger than the packet buffer is dropped.
TooLarge ==
    /\ playing /\ started /\ queue # <<>>
    /\ ~Discontinuity(Head(queue).num) \/ Key(Head(queue).num)
    /\ queue' = Tail(queue)
    /\ UNCHANGED <<source, encoder, capture>>

\* After a discontinuity only a key frame is delivered.
Skip ==
    /\ playing /\ started /\ queue # <<>>
    /\ Discontinuity(Head(queue).num) /\ ~Key(Head(queue).num)
    /\ queue' = Tail(queue)
    /\ UNCHANGED <<source, encoder, capture>>

Deliver ==
    /\ playing /\ started /\ queue # <<>>
    /\ ~Discontinuity(Head(queue).num) \/ Key(Head(queue).num)
    /\ queue' = Tail(queue)
    /\ last' = Head(queue).num
    /\ heard' = <<Head(queue).num, heard[1]>>
    /\ UNCHANGED <<started, playing, encoder, capture>>

Play == ~playing /\ playing' = TRUE /\ heard' = <<-1, -1>> /\ UNCHANGED <<started, last, encoder, capture, queue>>

\* doStopGettingFrames: what is queued stays.
StopPlaying ==
    /\ playing /\ playing' = FALSE
    /\ started' = FALSE
    /\ UNCHANGED <<last, heard, encoder, capture, queue>>

Next ==
    \/ Encode
    \/ Poll \/ Confirm \/ Copy
    \/ Play \/ WaitToStart \/ TooLarge \/ Skip \/ Deliver \/ StopPlaying

Spec == Init /\ [][Next]_vars

-----------------------------------------------------------------------------
(* rRTSPServer.cpp:608, "Ignore last frame, it could be corrupted": although *)
(* nothing is locked, a frame that the encoder is writing is not copied.   *)
NoTornFrame == \A i \in 1..Len(queue) : queue[i].whole

(* The capture thread queues frames in the order of the encoder, each one  *)
(* once, whatever batches it gave up and wherever the ring wrapped.        *)
InOrder == \A i \in 1..(Len(queue) - 1) : queue[i].num < queue[i + 1].num

(* VideoFramedMemorySource.cpp:157, "resume only at a decoder sync point": *)
(* a client gets a frame it can decode.  Either it is a key frame, or the  *)
(* frame before it was delivered in the same session, whatever the queue   *)
(* dropped, the capture thread lost or the client missed.                  *)
Decodable == heard[1] = -1 \/ Key(heard[1]) \/ heard[2] = heard[1] - 1
===============================================================================
