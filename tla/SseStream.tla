------------------------------ MODULE SseStream ------------------------------
(***************************************************************************)
(* POST /dify/chat/stream: the chat service's answer, a body of server-sent*)
(* events, is read in chunks, decoded, cut into lines, and each event is   *)
(* written to the client (DifyService, DifyController).                    *)
(*                                                                         *)
(* A step is one turn of Node's event loop: a read of the body, or a tick  *)
(* on which a stream starts to flow, emits 'end' or emits 'error'.  Of the *)
(* streams of Node the model has what these two use: a pushed chunk reaches*)
(* a flowing stream's reader at once, 'end' and 'error' come a tick later, *)
(* a push after push(null) destroys the stream with an error, and a        *)
(* destroyed stream takes no push and emits no data.                       *)
(***************************************************************************)
EXTENDS Integers, Sequences, FiniteSets, SequencesExt

CONSTANT MaxLines   \* bound on the lines of the body

ASSUME SseBounds == MaxLines \in Nat

VARIABLES
  kinds,     \* of each line of the body: an event, [DONE], or what is skipped
  size,      \* the bytes of the body: it may stop within a line
  pos,       \* the bytes read so far
  held,      \* the first byte of a character whose rest is still to come
  source,    \* nodeStream: the chunks it holds, and how it has ended
  flowing,   \* the handlers are attached, and both streams flow
  buffer,    \* the text since the last newline
  parsed,    \* parsedStream: how it has ended
  pc,        \* of the controller
  res,       \* the events written, and how the response has ended
  cause      \* history: a read has failed, or brought an event after [DONE]

sseVars == <<kinds, size, pos, held, source, flowing, buffer, parsed, pc, res, cause>>

-----------------------------------------------------------------------------

Kinds == {"event", "done", "noise"}

\* A line, in bytes and in text: its beginning, a character of two bytes, and
\* the newline.
Bytes(i) == <<<<i, "head">>, <<i, "lead">>, <<i, "rest">>, <<i, "nl">>>>
Text(i) == <<<<i, "head">>, <<i, "wide">>>>
Body == [k \in 1..4 * Len(kinds) |-> Bytes((k + 3) \div 4)[1 + ((k - 1) % 4)]]

\* What seq has at the positions in S, in order
Picked(seq, S) ==
  [k \in 1..Cardinality(S) |-> seq[CHOOSE i \in S : Cardinality({j \in S : j < i}) = k - 1]]

\* The events of the lines that are complete, up to the first [DONE]
Full ==
  LET ends == {i \in DOMAIN kinds : kinds[i] = "done" \/ size < 4 * i}
  IN  {i \in DOMAIN kinds : kinds[i] = "event" /\ \A j \in ends : i < j}
Due == Picked([i \in DOMAIN kinds |-> Text(i)], Full)

-----------------------------------------------------------------------------
(* The text of the body *)

\* Mutant of Decode: the decoder is not told that there is more to come.
DecodeEach(bytes) ==
  [text |-> [k \in DOMAIN bytes |-> CASE bytes[k][2] = "rest" -> <<bytes[k][1], "bad">>
                                      [] bytes[k][2] = "lead" -> <<bytes[k][1], "bad">>
                                      [] OTHER -> bytes[k]],
   held |-> <<>>]

\* decoder.decode(value, {stream: true}), of what it has kept and the new bytes
Decode(bytes) ==
  LET whole == Picked(bytes, {k \in DOMAIN bytes : bytes[k][2] # "lead"})
  IN  [text |-> [k \in DOMAIN whole |-> IF whole[k][2] = "rest"
                                        THEN <<whole[k][1], "wide">> ELSE whole[k]],
       held |-> IF bytes # <<>> /\ Last(bytes)[2] = "lead" THEN <<Last(bytes)>> ELSE <<>>]

EOF == <<>>

Kind(line) ==
  IF Len(line) > 1 /\ line[1][2] = "head" THEN kinds[line[1][1]] ELSE "noise"

\* parsedStream.push of each of pushes, push(null) for EOF: out is what it
\* emits, or holds until it flows.
Push(status, pushes) ==
  LET late(k) == status = "eof" \/ \E j \in 1..k - 1 : pushes[j] = EOF
      early == {k \in DOMAIN pushes : ~late(k) /\ pushes[k] # EOF}
  IN  [out |-> IF status = "open" THEN SubSeq(pushes, 1, Cardinality(early)) ELSE <<>>,
       parsed |-> IF status \in {"failed", "closed"} THEN status
                  ELSE IF \E k \in DOMAIN pushes : late(k) /\ pushes[k] # EOF THEN "failed"
                  ELSE IF EOF \in ToSet(pushes) THEN "eof" ELSE status]

\* A line of a chunk pushes an event, or ends the stream; the lines after
\* [DONE] in the chunk are dropped.
Pushes(lines) ==
  LET ends == {i \in DOMAIN lines : Kind(lines[i]) = "done"}
      heard == {i \in DOMAIN lines : Kind(lines[i]) = "event" /\ \A j \in ends : i < j}
  IN  Picked(lines, heard) \o (IF ends = {} THEN <<>> ELSE <<EOF>>)

\* split('\n'), and pop of what comes after the last newline
Split(text) ==
  LET newlines == {k \in DOMAIN text : text[k][2] = "nl"}
      ends == Picked([k \in DOMAIN text |-> k], newlines)
      from(i) == IF i = 1 THEN 1 ELSE ends[i - 1] + 1
  IN  [lines |-> [i \in DOMAIN ends |-> SubSeq(text, from(i), ends[i] - 1)],
       rest |-> SubSeq(text, from(Len(ends) + 1), Len(text))]

\* Mutant of OnData: the text after the last newline is not kept.
OnDataWholeLines(st, chunk) ==
  LET push == Push(st.parsed, Pushes(Split(st.buffer \o chunk).lines))
  IN  [buffer |-> <<>>, parsed |-> push.parsed, out |-> st.out \o push.out]

\* Mutant of OnData: the lines after [DONE] are not dropped.
OnDataPastDone(st, chunk) ==
  LET split == Split(st.buffer \o chunk)
      push == Push(st.parsed,
                   FlattenSeq([i \in DOMAIN split.lines |-> Pushes(<<split.lines[i]>>)]))
  IN  [buffer |-> split.rest, parsed |-> push.parsed, out |-> st.out \o push.out]

\* The 'data' handler of parseSSEStream
OnData(st, chunk) ==
  LET split == Split(st.buffer \o chunk)
      push == Push(st.parsed, Pushes(split.lines))
  IN  [buffer |-> split.rest, parsed |-> push.parsed, out |-> st.out \o push.out]

\* ... for each of the chunks
OnAll(chunks) ==
  LET after[n \in 0..Len(chunks)] ==
        IF n = 0 THEN [buffer |-> buffer, parsed |-> parsed, out |-> <<>>]
        ELSE LET before == after[n - 1] IN OnData(before, chunks[n])
  IN  after[Len(chunks)]

\* res.write and res.end: a client that has gone gets neither.
Write(events) ==
  IF res.end = "open" THEN [res EXCEPT !.events = @ \o events] ELSE res
End(how) == IF res.end = "open" THEN [res EXCEPT !.end = how] ELSE res

-----------------------------------------------------------------------------
(* The request *)

\* The call to the service fails, or is answered with an error or no body.
Refuse ==
  /\ pc = "call"
  /\ pc' = "refused"
  /\ res' = End("refused")
  /\ UNCHANGED <<kinds, size, pos, held, source, flowing, buffer, parsed, cause>>

\* The service answers: pump starts, and the handlers are attached before the
\* next tick.
Open ==
  /\ pc = "call"
  /\ pc' = "stream"
  /\ UNCHANGED <<kinds, size, pos, held, source, flowing, buffer, parsed, res, cause>>

(* pump *)

\* An event line is completed by the next n bytes, [DONE] was before.
LateEvent(n) ==
  \E i, j \in DOMAIN kinds :
    kinds[i] = "done" /\ 4 * i <= pos /\ kinds[j] = "event" /\ 4 * j \in pos + 1..pos + n

\* reader.read() yields the next n bytes.
Read(n) ==
  /\ pc = "stream" /\ source.end = "open"
  /\ n <= size - pos
  /\ pos' = pos + n
  /\ LET d == Decode(held \o SubSeq(Body, pos + 1, pos + n))
         st == OnAll(<<d.text>>)
     IN  /\ held' = d.held
         /\ IF flowing
            THEN /\ buffer' = st.buffer
                 /\ parsed' = st.parsed
                 /\ res' = Write(st.out)
                 /\ UNCHANGED source
            ELSE /\ source' = [source EXCEPT !.chunks = Append(@, d.text)]
                 /\ UNCHANGED <<buffer, parsed, res>>
  /\ cause' = (cause \/ LateEvent(n))
  /\ UNCHANGED <<kinds, size, flowing, pc>>

ReadDone ==
  /\ pc = "stream" /\ source.end = "open"
  /\ pos = size
  /\ source' = [source EXCEPT !.end = "eof"]
  /\ UNCHANGED <<kinds, size, pos, held, flowing, buffer, parsed, pc, res, cause>>

\* The read fails: the stream is destroyed with what it still holds.
ReadFail ==
  /\ pc = "stream" /\ source.end = "open"
  /\ source' = [chunks |-> <<>>, end |-> "failed"]
  /\ cause' = TRUE
  /\ UNCHANGED <<kinds, size, pos, held, flowing, buffer, parsed, pc, res>>

(* parseSSEStream, and the handlers of the controller *)

\* The tick on which both streams start to flow: the chunks held so far are
\* handled, and what they push is written unless it destroys parsedStream.
Flow ==
  /\ pc = "stream" /\ ~flowing
  /\ flowing' = TRUE
  /\ LET st == OnAll(source.chunks)
     IN  /\ buffer' = st.buffer
         /\ parsed' = st.parsed
         /\ res' = IF st.parsed = "failed" THEN res ELSE Write(st.out)
  /\ source' = [source EXCEPT !.chunks = <<>>]
  /\ UNCHANGED <<kinds, size, pos, held, pc, cause>>

\* Mutant of SourceEnd: nobody hears that the source has ended.
SourceEndUnheard ==
  /\ flowing /\ source.end = "eof"
  /\ source' = [source EXCEPT !.end = "over"]
  /\ UNCHANGED <<kinds, size, pos, held, flowing, buffer, parsed, pc, res, cause>>

\* 'end' of the source: what buffer holds is no line, and is dropped.
SourceEnd ==
  /\ flowing /\ source.end = "eof"
  /\ source' = [source EXCEPT !.end = "over"]
  /\ parsed' = Push(parsed, <<EOF>>).parsed
  /\ UNCHANGED <<kinds, size, pos, held, flowing, buffer, pc, res, cause>>

\* 'error' of the source: parsedStream is destroyed with the error.
SourceError ==
  /\ source.end = "failed"
  /\ source' = [source EXCEPT !.end = "over"]
  /\ parsed' = IF parsed \in {"open", "eof"} THEN "failed" ELSE parsed
  /\ UNCHANGED <<kinds, size, pos, held, flowing, buffer, pc, res, cause>>

\* 'end' of parsedStream: data: [DONE] is written, and the response ends.
EmitEnd ==
  /\ flowing /\ parsed = "eof"
  /\ parsed' = "closed"
  /\ res' = End("done")
  /\ UNCHANGED <<kinds, size, pos, held, source, flowing, buffer, pc, cause>>

\* 'error' of parsedStream: event: error is written, and the response ends.
EmitError ==
  /\ parsed = "failed"
  /\ parsed' = "closed"
  /\ res' = End("error")
  /\ UNCHANGED <<kinds, size, pos, held, source, flowing, buffer, pc, cause>>

\* The client goes.  The request says 'close' when its connection closes or,
\* in later versions of Node, when its body has been read, long before: the
\* handler that destroys parsedStream runs or does not.
Disconnect ==
  /\ res.end = "open"
  /\ res' = End("gone")
  /\ parsed' \in {parsed, "closed"}
  /\ parsed' = "closed" => pc = "stream"
  /\ UNCHANGED <<kinds, size, pos, held, source, flowing, buffer, pc, cause>>

-----------------------------------------------------------------------------

Init ==
  /\ kinds \in UNION {[1..n -> Kinds] : n \in 0..MaxLines}
  /\ size \in 0..4 * Len(kinds)
  /\ pos = 0
  /\ held = <<>>
  /\ source = [chunks |-> <<>>, end |-> "open"]
  /\ flowing = FALSE
  /\ buffer = <<>>
  /\ parsed = "open"
  /\ pc = "call"
  /\ res = [events |-> <<>>, end |-> "open"]
  /\ cause = FALSE

Next ==
  \/ Refuse \/ Open
  \/ \E n \in 1..4 * MaxLines : Read(n)
  \/ ReadDone \/ ReadFail
  \/ Flow \/ SourceEnd \/ SourceError \/ EmitEnd \/ EmitError
  \/ Disconnect

\* The event loop gets to every tick that is due; nothing says that the service
\* ever answers, or ends its answer.  (Flow is the step that sets flowing.)
Ticks ==
  /\ WF_flowing(pc = "stream" /\ ~flowing /\ flowing' = TRUE)
  /\ WF_sseVars(SourceEnd \/ SourceError)
  /\ WF_sseVars(EmitEnd \/ EmitError)

Spec == Init /\ [][Next]_sseVars /\ Ticks

-----------------------------------------------------------------------------
(* Properties *)

\* The variables have their types: text is kept in characters, and half a
\* character only in the decoder.
TypeOK ==
  /\ kinds \in Seq(Kinds) /\ Len(kinds) <= MaxLines
  /\ size \in 0..4 * Len(kinds) /\ pos \in 0..size
  /\ held \in {<<>>} \cup {<<<<i, "lead">>>> : i \in DOMAIN kinds}
  /\ source.end \in {"open", "eof", "failed", "over"}
  /\ \A c \in ToSet(source.chunks) : c \in Seq((DOMAIN kinds) \X {"head", "wide", "nl"})
  /\ flowing \in BOOLEAN /\ cause \in BOOLEAN
  /\ buffer \in Seq((DOMAIN kinds) \X {"head", "wide"})
  /\ parsed \in {"open", "eof", "failed", "closed"}
  /\ pc \in {"call", "refused", "stream"}
  /\ res.events \in Seq({Text(i) : i \in DOMAIN kinds})
  /\ res.end \in {"open", "refused", "done", "error", "gone"}

\* The stream implements EventRelay: wherever the reads cut the body, in a line
\* or in a character, and however many come before the handlers are attached,
\* the client gets the events of the service in order, none altered, left out
\* or repeated, nothing after the end, and [DONE] only after the last.
Relay == INSTANCE EventRelay WITH
  Event <- {Text(i) : i \in 1..MaxLines},
  due <- Due,
  sent <- res.events,
  over <- IF res.end = "refused" THEN "error" ELSE res.end

Relayed == Relay!Spec

\* The response ends with an error only after a failed read, or when a read has
\* brought an event after an earlier one brought [DONE]: no cut of a body that
\* ends with [DONE] destroys the stream, nor does what follows [DONE] in a read.
ErrorHasCause == res.end = "error" => cause

\* Once the service has ended its answer, by a last byte, an error or [DONE],
\* the response ends: neither stream is left open with nothing to close it.
AnswerEnds ==
  (source.end # "open" \/ parsed # "open") ~> (res.end # "open")
=============================================================================
