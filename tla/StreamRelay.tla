----------------------------- MODULE StreamRelay -----------------------------
(***************************************************************************)
(* One streamed chat response: the provider's bytes arrive in chunks that   *)
(* respect no boundary, SseValidator cuts them into frames and checks each, *)
(* and the valid data frames are passed on until [DONE].  Until a valid     *)
(* data frame has arrived the request can still fail over; from then on the *)
(* client has a response, and whatever goes wrong ends it with an error     *)
(* frame.  The final frame waits for the ledger.                            *)
(*                                                                         *)
(* The wire carries lines and line breaks; a chunk may end between any two  *)
(* of them.  A line of data is a chunk of the message "a" or "b", [DONE],   *)
(* one that validate_frame rejects ("bad"), nothing but white space         *)
(* ("blank"), or a part of a chunk of "a" that is written over two lines    *)
(* ("head", "tail"); other lines are comments and fields ("note") or        *)
(* neither ("junk").  RequestLedger tells what the ledger makes of the      *)
(* writes; here the row of the request is enough.                           *)
(***************************************************************************)
EXTENDS Naturals, Sequences, SequencesExt

CONSTANTS
  Frame,      \* frames a provider may send: sequences of lines
  MaxFrames,  \* bound on the frames of a response
  Rest        \* what may follow the last whole frame: none is whole here

ChunkLines == {"a", "b", "head", "tail"}
DataLines == ChunkLines \cup {"done", "bad", "blank"}
Line == DataLines \cup {"note", "junk"}

ASSUME StreamAssumption ==
  /\ Frame \subseteq Seq(Line)
  /\ Rest \subseteq Seq({"a", "note", "break"})
  /\ \A rest \in Rest : ~\E i \in 1 .. Len(rest) - 1 : rest[i] = "break" /\ rest[i + 1] = "break"
  /\ MaxFrames \in Nat

VARIABLES
  script,   \* what the provider sends if nobody stops it: frames and a tail
  wire,     \* what has not arrived
  parser,   \* SseValidator
  queue,    \* prefix: frames to be passed on
  stage,    \* where the handler, or the stream it has become, stands
  guard,    \* StreamAttemptGuard: what its Drop would write, and bytes_out
  row,      \* the row of the request
  out       \* the data frames the client has been given, and its final frame

vars == <<script, wire, parser, queue, stage, guard, row, out>>

-----------------------------------------------------------------------------

(* Every piece on the wire names the frame it belongs to. *)
Piece == [text: Line \cup {"break"}, of: Nat]
Text(frame) == IF frame = <<>> THEN <<>>
               ELSE [i \in 1 .. 2 * Len(frame) - 1 |->
                       IF i % 2 = 1 THEN frame[(i + 1) \div 2] ELSE "break"]
Pieces(text, n) == [i \in 1 .. Len(text) |-> [text |-> text[i], of |-> n]]
Whole(frame, n) == Pieces(Text(frame) \o <<"break", "break">>, n)
Sent(s) ==
  FlattenSeq([n \in 1 .. Len(s.frames) |-> Whole(s.frames[n], n)])
    \o Pieces(s.tail, Len(s.frames) + 1)

Script == [frames: UNION {[1 .. n -> Frame] : n \in 0 .. MaxFrames}, tail: Rest]

NoMessage == "none"
Parser == [buffer: Seq(Piece), emitted: Seq(Nat), done: BOOLEAN, count: Nat,
           message: {"a", "b", NoMessage}, error: BOOLEAN]
Fresh == [buffer |-> <<>>, emitted |-> <<>>, done |-> FALSE, count |-> 0,
          message |-> NoMessage, error |-> FALSE]

Stage == {"priming", "handing", "relaying", "accounting", "closing", "recovering", "over",
          "failover", "refused", "dropped"}
Verdict == {"open", "succeeded", "failed", "cancelled"}
Class == {"none", "protocol", "error", "incomplete", "idle", "accounting", "evidence"}

(* The final frame is a bare [DONE] ("done") or the error frame of a class, *)
(* an error event and [DONE], and each has a length of its own: bytes_out   *)
(* is known by the frames it adds up.                                       *)
Final == Class \cup {"done"}
Bytes == [frames: Nat, final: Final]

TypeOK ==
  /\ script \in Script
  /\ wire \in Seq(Piece)
  /\ parser \in Parser
  /\ queue \in Seq(Nat)
  /\ stage \in Stage
  /\ guard \in [drop: {"failed", "cancelled"}, bytes: Bytes, want: Verdict, class: Class,
                armed: BOOLEAN]
  /\ row \in [verdict: Verdict, class: Class, bytes: Bytes]
  /\ out \in [given: Seq(Nat), final: Final]

Nothing == [given |-> <<>>, final |-> "none"]
NoBytes == [frames |-> 0, final |-> "none"]

Init ==
  /\ script \in Script
  /\ wire = Sent(script)
  /\ parser = Fresh
  /\ queue = <<>>
  /\ stage = "priming"
  /\ guard = [drop |-> "failed", bytes |-> NoBytes, want |-> "open", class |-> "none",
              armed |-> TRUE]
  /\ row = [verdict |-> "open", class |-> "none", bytes |-> NoBytes]
  /\ out = Nothing

-----------------------------------------------------------------------------
(* SseValidator *)

(* The places of the data lines, and of those that say something. The       *)
(* values are joined with line breaks, which JSON and the trim before       *)
(* [DONE] read over as they do over blank ones.                             *)
Data(frame) == {i \in 1 .. Len(frame) : frame[i].text \in DataLines}
Said(frame) == {i \in Data(frame) : frame[i].text # "blank"}
Alone(frame, text) == \E i \in Said(frame) : Said(frame) = {i} /\ frame[i].text = text
SplitChunk(frame) ==
  \E i, j \in Said(frame) :
    i < j /\ Said(frame) = {i, j} /\ frame[i].text = "head" /\ frame[j].text = "tail"
Says(frame, text) == Alone(frame, text) \/ (text = "a" /\ SplitChunk(frame))
Texts(lines) == {lines[i].text : i \in 1 .. Len(lines)}

Rejected(v) == [v EXCEPT !.error = TRUE]

(* A chunk of another message, or with another model, is rejected. *)
SameMessage(v, text) == v.message \in {NoMessage, text}

(* validate_frame *)
Validated(v, frame) ==
  LET number == frame[CHOOSE i \in Data(frame) : TRUE].of
      message == IF Says(frame, "a") THEN "a" ELSE "b"
  IN  CASE frame = <<>> -> v
        [] frame # <<>> /\ (v.done \/ "junk" \in Texts(frame)) -> Rejected(v)
        [] frame # <<>> /\ ~v.done /\ "junk" \notin Texts(frame) ->
             IF Data(frame) = {} THEN v
             ELSE IF Says(frame, "done") THEN [v EXCEPT !.done = TRUE]
             ELSE IF Says(frame, message) /\ SameMessage(v, message)
                    THEN [v EXCEPT !.count = @ + 1, !.message = message,
                                   !.emitted = Append(@, number)]
             ELSE Rejected([v EXCEPT !.count = @ + 1])

(* feed cuts the buffer at every empty line; a rejected frame ends it. *)
Fed(v, piece) ==
  LET buffer == Append(v.buffer, piece)
      n == Len(buffer)
  IN  IF v.error THEN v
      ELSE IF n >= 2 /\ buffer[n].text = "break" /\ buffer[n - 1].text = "break"
             THEN Validated([v EXCEPT !.buffer = <<>>], SubSeq(buffer, 1, n - 2))
      ELSE [v EXCEPT !.buffer = buffer]

FeedAlone(v, chunk) == FoldLeft(Fed, [v EXCEPT !.buffer = <<>>], chunk)
Feed(v, chunk) == FoldLeft(Fed, v, chunk)

Empty(buffer) == buffer = <<>>
Blank(buffer) == Texts(buffer) \subseteq {"break"}
Finished(v) == Blank(v.buffer) /\ v.done /\ v.count >= 1

-----------------------------------------------------------------------------
(* Priming: nothing has been given to the client *)

(* What a chunk brings; the frames it completed move to the queue. *)
Arrives(n) ==
  /\ wire' = SubSeq(wire, n + 1, Len(wire))
  /\ LET v == Feed(parser, SubSeq(wire, 1, n)) IN
     /\ parser' = [v EXCEPT !.emitted = <<>>]
     /\ queue' = IF v.error THEN queue ELSE queue \o v.emitted

PrimeChunk ==
  /\ stage = "priming"
  /\ \E n \in 1 .. Len(wire) : Arrives(n)
  /\ stage' = IF parser'.error THEN "failover"
              ELSE IF parser'.count > 0 THEN "handing" ELSE "priming"
  /\ UNCHANGED <<script, guard, row, out>>

(* An error, the end of the body or STREAM_PRIME_TIMEOUT *)
PrimeEnds ==
  /\ stage = "priming"
  /\ stage' = "failover"
  /\ UNCHANGED <<script, wire, parser, queue, guard, row, out>>

(* attempt_response_started, then Actix owns the body.  When the write      *)
(* fails the client gets an error status, and the guard writes the row.     *)
HandOver ==
  /\ stage = "handing"
  /\ stage' = "relaying"
  /\ guard' = [guard EXCEPT !.drop = "cancelled"]
  /\ UNCHANGED <<script, wire, parser, queue, row, out>>

HandOverFails ==
  /\ stage = "handing"
  /\ stage' = "refused"
  /\ UNCHANGED <<script, wire, parser, queue, guard, row, out>>

-----------------------------------------------------------------------------
(* chat_response_stream: one poll of the body after the other *)

PassOn ==
  /\ stage = "relaying" /\ queue # <<>>
  /\ out' = [out EXCEPT !.given = Append(@, Head(queue))]
  /\ queue' = Tail(queue)
  /\ guard' = [guard EXCEPT !.bytes.frames = @ + 1]
  /\ UNCHANGED <<script, wire, parser, stage, row>>

Waiting == stage = "relaying" /\ queue = <<>> /\ ~Finished(parser)

(* finish_stream_failure: the error frame is counted, the ledger written. *)
Fails(class) ==
  /\ guard' = [guard EXCEPT !.bytes.final = class, !.want = "failed", !.class = class]
  /\ stage' = "closing"

RelayChunk ==
  /\ Waiting
  /\ \E n \in 1 .. Len(wire) : Arrives(n)
  /\ IF parser'.error THEN Fails("protocol") ELSE UNCHANGED <<guard, stage>>
  /\ UNCHANGED <<script, row, out>>

ProviderFails ==
  /\ Waiting
  /\ Fails("error")
  /\ UNCHANGED <<script, wire, parser, queue, row, out>>

ProviderEnds ==
  /\ Waiting /\ wire = <<>>
  /\ Fails("incomplete")
  /\ UNCHANGED <<script, wire, parser, queue, row, out>>

IdleTimeout ==
  /\ Waiting
  /\ Fails("idle")
  /\ UNCHANGED <<script, wire, parser, queue, row, out>>

(* [DONE] ends the stream whether or not the body stays open. *)
SeesDone ==
  /\ stage = "relaying" /\ queue = <<>> /\ Finished(parser)
  /\ stage' = "accounting"
  /\ UNCHANGED <<script, wire, parser, queue, guard, row, out>>

(* record_request on the key, before the ledger *)
Accounts ==
  /\ stage = "accounting"
  /\ \/ guard' = [guard EXCEPT !.want = "succeeded"]
     \/ guard' = [guard EXCEPT !.want = "failed", !.class = "accounting",
                               !.bytes.final = "accounting"]
  /\ stage' = "closing"
  /\ UNCHANGED <<script, wire, parser, queue, row, out>>

-----------------------------------------------------------------------------
(* finish_request_and_attempt *)

Close(verdict, class, bytes) ==
  row' = IF row.verdict = "open" THEN [verdict |-> verdict, class |-> class, bytes |-> bytes]
         ELSE row

(* The totals of a successful end, which the answer of the write chooses    *)
(* between; a failure has counted its error frame already.                  *)
CountedWith(final) ==
  IF guard.want = "succeeded" THEN [guard.bytes EXCEPT !.final = final] ELSE guard.bytes
SuccessBytes == CountedWith("done")
RecoveryBytesWithDone == SuccessBytes
RecoveryBytes == CountedWith("evidence")

FinalFrame == IF guard.want = "succeeded" THEN "done" ELSE guard.class
ErrorFrame == IF guard.want = "succeeded" THEN "evidence" ELSE guard.class

(* The first write commits, and the client gets the final frame. *)
CloseCommits ==
  /\ stage = "closing"
  /\ Close(guard.want, guard.class, SuccessBytes)
  /\ guard' = [guard EXCEPT !.bytes = SuccessBytes, !.armed = FALSE]
  /\ out' = [out EXCEPT !.final = FinalFrame]
  /\ stage' = "over"
  /\ UNCHANGED <<script, wire, parser, queue>>

(* It fails, or its answer is lost: the guard is set to what the recovery   *)
(* is about to write.                                                       *)
CloseFails ==
  /\ stage = "closing"
  /\ \/ UNCHANGED row
     \/ Close(guard.want, guard.class, SuccessBytes)
  /\ guard' = [guard EXCEPT !.bytes = RecoveryBytes, !.drop = "failed"]
  /\ stage' = "recovering"
  /\ UNCHANGED <<script, wire, parser, queue, out>>

(* The recovery writes an evidence failure, with or without an answer, or   *)
(* it fails, as it does on a closed row; without an answer the guard stays  *)
(* armed.                                                                   *)
Recovers ==
  /\ stage = "recovering"
  /\ \/ /\ row.verdict = "open"
        /\ Close("failed", "evidence", guard.bytes)
        /\ \E answered \in BOOLEAN : guard' = [guard EXCEPT !.armed = ~answered]
     \/ UNCHANGED <<row, guard>>
  /\ out' = [out EXCEPT !.final = ErrorFrame]
  /\ stage' = "over"
  /\ UNCHANGED <<script, wire, parser, queue>>

(* Drop: the body is dropped once it is over, or by a client that leaves.   *)
DropWrites ==
  IF guard.armed THEN \/ Close(guard.drop, "none", guard.bytes)
                      \/ UNCHANGED row
  ELSE UNCHANGED row

Drop ==
  /\ stage \in Stage \ {"failover", "dropped"}
  /\ DropWrites
  /\ stage' = "dropped"
  /\ UNCHANGED <<script, wire, parser, queue, guard, out>>

Next ==
  \/ PrimeChunk \/ PrimeEnds \/ HandOver \/ HandOverFails
  \/ PassOn \/ RelayChunk \/ ProviderFails \/ ProviderEnds \/ IdleTimeout
  \/ SeesDone \/ Accounts \/ CloseCommits \/ CloseFails \/ Recovers
  \/ Drop

Spec == Init /\ [][Next]_vars

-----------------------------------------------------------------------------
(* Properties.  The reference reads the script frame by frame, knows        *)
(* nothing of chunks, and is asked about the frames that have arrived.      *)

Arrived(n) == wire = <<>> \/ Head(wire).of > n

DataOf(frame) == {j \in 1 .. Len(frame) : frame[j] \in DataLines}
WordsOf(frame) == {j \in DataOf(frame) : frame[j] # "blank"}
Holds(frame, text) ==
  \/ \E j \in WordsOf(frame) : WordsOf(frame) = {j} /\ frame[j] = text
  \/ /\ text = "a"
     /\ \E j, k \in WordsOf(frame) :
          j < k /\ WordsOf(frame) = {j, k} /\ frame[j] = "head" /\ frame[k] = "tail"
IsDone(frame) == Holds(frame, "done")
IsChunk(frame) == Holds(frame, "a") \/ Holds(frame, "b")
SameText(f, g) == \A text \in {"a", "b"} : Holds(f, text) <=> Holds(g, text)

(* What a reader of server-sent events finds in a frame that is passed on   *)
(* as "data: {data}\n\n": the lines after the first have lost their prefix.  *)
Legible(frame) ==
  \E j \in DataOf(frame) : frame[j] \in {"a", "b"} /\ \A k \in DataOf(frame) : j <= k
OnOneLine(frame) == \E j \in DataOf(frame) : DataOf(frame) = {j}

(* The first n frames are what a well-behaved provider may send. *)
Acceptable(frames, n) ==
  \A i \in 1 .. n :
    /\ \A j \in 1 .. Len(frames[i]) : frames[i][j] # "junk"
    /\ DataOf(frames[i]) = {} \/ IsDone(frames[i]) \/ IsChunk(frames[i])
    /\ frames[i] # <<>> => \A j \in 1 .. i - 1 : ~IsDone(frames[j])
    /\ IsChunk(frames[i]) =>
         \A j \in 1 .. i - 1 : IsChunk(frames[j]) => SameText(frames[j], frames[i])

ChunksTo(frames, n) == {i \in 1 .. n : IsChunk(frames[i])}
Complete(frames, n) ==
  /\ Acceptable(frames, n) /\ ChunksTo(frames, n) # {}
  /\ \E i \in 1 .. n : IsDone(frames[i])
ToFrame == 0 .. Len(script.frames)

(* The chunks of the first n frames, each once and in order *)
Ascends(numbers) == \A i, j \in 1 .. Len(numbers) : i < j => numbers[i] < numbers[j]
Lists(numbers, frames, n) == Ascends(numbers) /\ ToSet(numbers) = ChunksTo(frames, n)

(* The client is given the data frames of one message in the order they     *)
(* were sent, none twice and none left out, however the bytes were cut, and *)
(* can read those that were sent on one line; one that is told [DONE] has   *)
(* them all; and one whose request can still fail over has nothing.         *)
ClientSeesWhatWasSent ==
  /\ \E n \in ToFrame :
       Arrived(n) /\ Acceptable(script.frames, n) /\ Lists(out.given, script.frames, n)
  /\ \A i \in 1 .. Len(out.given) :
       OnOneLine(script.frames[out.given[i]]) => Legible(script.frames[out.given[i]])
  /\ out.final = "done" =>
       \E n \in ToFrame : Complete(script.frames, n) /\ Lists(out.given, script.frames, n)
  /\ stage \in {"priming", "failover", "refused"} => out = Nothing

(* The same of every frame. It does not hold: data that is valid over       *)
(* several lines is passed on with a prefix on the first one only.          *)
FramesArriveWhole ==
  \A i \in 1 .. Len(out.given) : Legible(script.frames[out.given[i]])

(* A stream fails for a fault of the provider: a protocol error needs a     *)
(* frame that no reader would accept, and a stream whose last word was      *)
(* [DONE] neither times out nor counts as broken off, whatever the provider *)
(* does with the connection.                                                *)
OnlyBreaksSince(n) ==
  \A i \in 1 .. Len(Sent(script)) - Len(wire) :
    Sent(script)[i].of > n => Sent(script)[i].text = "break"
StreamsFailForCause ==
  /\ row.class = "protocol" =>
       \E n \in ToFrame : Arrived(n) /\ ~Acceptable(script.frames, n)
  /\ row.class \in {"error", "incomplete", "idle"} =>
       ~\E n \in ToFrame : Arrived(n) /\ Complete(script.frames, n) /\ OnlyBreaksSince(n)

(* A client that is told [DONE] has a row that succeeded; and a row closed  *)
(* for a client that was told anything counts what that client was given,   *)
(* byte for byte, through failed writes, lost answers and the retry of the  *)
(* Drop. The exception is a success whose answer was lost: the row counts   *)
(* [DONE], the client gets the error frame, and the guard, which does not   *)
(* know that the row is closed, is armed still.                             *)
LedgerMatchesTheClient ==
  /\ out.final = "done" => row.verdict = "succeeded"
  /\ out.final # "none" /\ row.verdict # "open" =>
       row.bytes = [frames |-> Len(out.given),
                    final |-> IF row.verdict = "succeeded" THEN "done" ELSE out.final]
  /\ out.final # "none" /\ row.verdict = "succeeded" /\ ~guard.armed => out.final = "done"

(* "The typed finalizer rolled back" (streaming.rs) when it returned an     *)
(* error: a client that is told an error then has no row that succeeded. It *)
(* does not hold when only the answer of the commit was lost.               *)
ErrorsAreNoSuccess ==
  out.final \in Class \ {"none"} => row.verdict # "succeeded"

=============================================================================
