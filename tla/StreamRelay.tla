----------------------------- MODULE StreamRelay -----------------------------
(***************************************************************************)
(* A streamed answer on its way to the client.  The bytes of the provider  *)
(* arrive in chunks cut anywhere; they pass through up to three generators *)
(* chained by polling: the translation from the Anthropic format to the    *)
(* OpenAI one, or nothing (src/src/providers), tap_stream, which counts    *)
(* and records (src/src/pipeline.rs), and a translation to the format of   *)
(* the client, or nothing (src/src/protocols).  Each reassembles events    *)
(* for itself.                                                             *)
(*                                                                         *)
(* Bytes are abstracted to pieces, two per event: a chunk boundary falls   *)
(* between events or in the middle of one, and there, if the event is cut, *)
(* inside a character.  The second piece ends with the empty line.         *)
(***************************************************************************)
EXTENDS Naturals, Sequences, SequencesExt

CONSTANTS Scripts,        \* what providers send: [provider, events]
          Words,          \* of which texts are made
          Formats,        \* of clients: "openai", "completions", "anthropic"
          CharsPerDelta

(* One shape serves the events of all formats: text is the pair of the two halves
   of a delta's text, in and out are token counts. *)
Types == {"role", "delta", "finish", "usage", "done", "error", "other", "message_start",
          "block_start", "block_stop", "message_delta", "message_stop"}

AnEvent ==
  {e \in [type : Types, text : {<<>>} \cup (Words \X Words), in : Nat, out : Nat,
          cut : BOOLEAN] : e.type = "delta" => e.text \in Words \X Words}

ASSUME RelayAssumption ==
  /\ Formats \subseteq {"openai", "completions", "anthropic"}
  /\ CharsPerDelta \in Nat

(* What a provider of either kind sends: [DONE] as the last, if at all; no second
   message after the first has told its usage. *)
ASSUME ScriptsAssumption ==
  \A s \in Scripts :
    /\ s \in [provider : {"openai", "anthropic"}, events : Seq(AnEvent)]
    /\ \A i \in DOMAIN s.events :
         LET e == s.events[i] IN
         /\ s.provider = "openai" /\ e.type = "done" => i = Len(s.events)
         /\ s.provider = "anthropic" /\ e.type = "message_delta" =>
              \A j \in i .. Len(s.events) : s.events[j].type # "message_start"

VARIABLES script,   \* what the provider sends in this stream
          format,   \* what the client wants
          sent,     \* pieces received from the provider
          upstream, \* "open" or "ended"
          bufIn, input, roleSent,          \* anthropic_to_openai_sse
          mid,                             \* its output not yet polled: chunks
          bufTap, usage, gotUsage, chars,  \* tap_stream
          bufOut, told,                    \* the translation for the client
          out,                             \* its output not yet polled
          got,                             \* what the client has
          status,   \* "open", "recorded", "closed", "broken" or "left"
          records   \* RequestRecords of this stream: their tokens

relay == <<bufIn, input, roleSent, mid, bufTap, usage, gotUsage, chars, bufOut, told>>
vars == <<script, format, sent, upstream, relay, out, got, status, records>>

-----------------------------------------------------------------------------
Event(type, text, in, o, cut) ==
  [type |-> type, text |-> text, in |-> in, out |-> o, cut |-> cut]

Plain(type) == Event(type, <<>>, 0, 0, FALSE)
Text(id, cut) == Event("delta", <<id, id>>, 0, 0, cut)
UsageOf(in, o) == Event("usage", <<>>, in, o, FALSE)

Pieces(e) == <<[of |-> e, half |-> 1], [of |-> e, half |-> 2]>>
Bytes(events) ==
  [i \in 1 .. 2 * Len(events) |-> [of |-> events[(i + 1) \div 2], half |-> 2 - (i % 2)]]

(* from_utf8: a chunk that starts or ends inside a character is not a str. *)
Utf8(chunk) ==
  /\ ~ (Head(chunk).of.cut /\ Head(chunk).half = 2)
  /\ ~ (Last(chunk).of.cut /\ Last(chunk).half = 1)

(* The lines of one event, up to the empty line, parsed as JSON: halves of two
   deltas make a delta, other mixtures make nothing. *)
Parse(buf, p) ==
  IF Len(buf) # 1 \/ buf[1].of.type # p.of.type THEN <<>>
  ELSE IF p.of.type = "delta"
       THEN <<[p.of EXCEPT !.text = <<buf[1].of.text[1], p.of.text[2]>>]>>
       ELSE <<buf[1].of>>

\* Slip: the empty line that ends an event is left in the buffer.
LeftShort(buf, bytes) ==
  LET left[i \in 0 .. Len(bytes)] ==
        IF i = 0 THEN buf
        ELSE IF bytes[i].half = 2 THEN <<bytes[i]>> ELSE Append(left[i - 1], bytes[i])
  IN  left

(* What is left in the buffer of the first i of the bytes: those after the last
   complete event. *)
Left(buf, bytes) ==
  LET left[i \in 0 .. Len(bytes)] ==
        IF i = 0 THEN buf
        ELSE IF bytes[i].half = 2 THEN <<>> ELSE Append(left[i - 1], bytes[i])
  IN  left

(* The events complete in the first i of the bytes. *)
Complete(buf, bytes) ==
  LET read[i \in 0 .. Len(bytes)] ==
        IF i = 0 THEN <<>>
        ELSE IF bytes[i].half = 2
             THEN read[i - 1] \o Parse(Left(buf, bytes)[i - 1], bytes[i])
             ELSE read[i - 1]
  IN  read

(* while let Some(idx) = buf.find("\n\n"). *)
Drain(buf, bytes) == [buf |-> Left(buf, bytes)[Len(bytes)],
                      events |-> Complete(buf, bytes)[Len(bytes)]]

\* Slip: the bytes after the first complete event of a chunk are discarded.
ReadFirst(buf, chunk) ==
  LET r == IF Utf8(chunk) THEN Drain(buf, chunk) ELSE Drain(buf, <<>>)
  IN  IF r.events = <<>> THEN r ELSE [buf |-> <<>>, events |-> <<Head(r.events)>>]

(* What every generator does with a chunk; one that is not UTF-8 is skipped. *)
Read(buf, chunk) == IF Utf8(chunk) THEN Drain(buf, chunk) ELSE Drain(buf, <<>>)

-----------------------------------------------------------------------------
(* The events of these types, in order. *)
Of(types, events) ==
  LET kept[i \in 0 .. Len(events)] ==
        IF i = 0 THEN <<>>
        ELSE IF events[i].type \in types THEN Append(kept[i - 1], events[i])
             ELSE kept[i - 1]
  IN  kept[Len(events)]

(* anthropic_to_openai_sse: one event in; each event out is a chunk of its own. *)
ToOpenAI(e, in, first) ==
  IF e.type = "message_start" /\ first THEN <<Plain("role")>>
  ELSE IF e.type = "delta" THEN <<e>>
  ELSE IF e.type = "message_delta" THEN <<Plain("finish"), UsageOf(in, e.out)>>
  ELSE <<>>

ToldOpenAI(acc, e) ==
  LET in == IF e.type = "message_start" THEN e.in ELSE acc.input
  IN  [input |-> in,
       roleSent |-> acc.roleSent \/ e.type = "message_start",
       out |-> acc.out \o ToOpenAI(e, in, ~acc.roleSent)]

Translation(in, sentBefore, events) ==
  LET upto[i \in 0 .. Len(events)] ==
        IF i = 0 THEN [input |-> in, roleSent |-> sentBefore, out |-> <<>>]
        ELSE ToldOpenAI(upto[i - 1], events[i])
  IN  upto[Len(events)]

Chunks(events) == [i \in 1 .. Len(events) |-> Pieces(events[i])]

FromAnthropic(chunk) ==
  LET r == Read(bufIn, chunk)
      t == Translation(input, roleSent, r.events)
  IN  /\ bufIn' = r.buf
      /\ input' = t.input
      /\ roleSent' = t.roleSent
      /\ mid' = Chunks(t.out)

\* Slip: the usage of the first chunk that has one is kept.
TapFirst(chunk) ==
  LET r == Read(bufTap, chunk)
      usages == Of({"usage"}, r.events)
      deltas == Of({"delta"}, r.events)
  IN  /\ bufTap' = r.buf
      /\ usage' = IF usages = <<>> \/ gotUsage THEN usage
                  ELSE [in |-> Head(usages).in, out |-> Head(usages).out]
      /\ gotUsage' = (gotUsage \/ usages # <<>>)
      /\ chars' = chars + CharsPerDelta * Len(deltas)

(* tap_stream: the last usage counts, and the text in case there is none. *)
Tap(chunk) ==
  LET r == Read(bufTap, chunk)
      usages == Of({"usage"}, r.events)
      deltas == Of({"delta"}, r.events)
  IN  /\ bufTap' = r.buf
      /\ usage' = IF usages = <<>> THEN usage
                  ELSE [in |-> Last(usages).in, out |-> Last(usages).out]
      /\ gotUsage' = (gotUsage \/ usages # <<>>)
      /\ chars' = chars + CharsPerDelta * Len(deltas)

(* openai_to_anthropic_sse forwards text and keeps the count of tokens;
   chat_to_completions_sse forwards text, usage and the end; another client
   gets the chunk as it is. *)
Forwarded == IF format = "anthropic" THEN {"delta"} ELSE {"delta", "usage", "done"}

Translate(chunk) ==
  IF format = "openai"
  THEN out' = chunk /\ UNCHANGED <<bufOut, told>>
  ELSE LET r == Read(bufOut, chunk)
           usages == Of({"usage"}, r.events)
       IN  /\ bufOut' = r.buf
           /\ told' = IF usages = <<>> THEN told ELSE Last(usages).out
           /\ out' = Of(Forwarded, r.events)

Opening ==
  IF format = "anthropic" THEN <<Plain("message_start"), Plain("block_start")>> ELSE <<>>

Closing ==
  IF format = "anthropic"
  THEN <<Plain("block_stop"), Event("message_delta", <<>>, 0, told, FALSE),
         Plain("message_stop")>>
  ELSE <<>>

-----------------------------------------------------------------------------
(* A buffer between chunks holds no complete event. *)
Unfinished(buf) == \A i \in 1 .. Len(buf) : buf[i].half = 1

TypeOK ==
  /\ script \in Scripts /\ format \in Formats
  /\ sent \in 0 .. Len(Bytes(script.events))
  /\ upstream \in {"open", "ended"}
  /\ Unfinished(bufIn) /\ Unfinished(bufTap) /\ Unfinished(bufOut)
  /\ usage \in [in : Nat, out : Nat]
  /\ {input, chars, told} \subseteq Nat /\ {roleSent, gotUsage} \subseteq BOOLEAN
  /\ status \in {"open", "recorded", "closed", "broken", "left"}
  /\ records \in Seq([in : Nat, out : Nat])

Init ==
  /\ script \in Scripts /\ format \in Formats
  /\ sent = 0 /\ upstream = "open"
  /\ bufIn = <<>> /\ input = 0 /\ roleSent = FALSE /\ mid = <<>>
  /\ bufTap = <<>> /\ usage = [in |-> 0, out |-> 0] /\ gotUsage = FALSE /\ chars = 0
  /\ bufOut = <<>> /\ told = 0
  /\ out = Opening /\ got = <<>>
  /\ status = "open" /\ records = <<>>

(* Generators run when polled: a chunk is read when nothing is left of the
   one before. *)
Starved == status = "open" /\ out = <<>> /\ mid = <<>>

(* The next bytes of the provider, cut anywhere. *)
Receive(n) ==
  /\ Starved /\ upstream = "open"
  /\ LET bytes == Bytes(script.events)
         chunk == SubSeq(bytes, sent + 1, sent + n)
     IN  /\ sent + n <= Len(bytes)
         /\ sent' = sent + n
         /\ IF script.provider = "anthropic"
            THEN FromAnthropic(chunk)
            ELSE mid' = <<chunk>> /\ UNCHANGED <<bufIn, input, roleSent>>
  /\ UNCHANGED <<script, format, upstream, bufTap, usage, gotUsage, chars, bufOut, told,
                 out, got, status, records>>

(* The provider has closed its stream.  The translation adds its own end. *)
UpstreamEnds ==
  /\ Starved /\ upstream = "open" /\ sent = Len(Bytes(script.events))
  /\ upstream' = "ended"
  /\ mid' = IF script.provider = "anthropic" THEN <<Pieces(Plain("done"))>> ELSE <<>>
  /\ UNCHANGED <<script, format, sent, bufIn, input, roleSent, bufTap, usage, gotUsage,
                 chars, bufOut, told, out, got, status, records>>

(* The connection to the provider breaks: every generator passes the error on,
   and the server drops the body, and them with it, at the first error. *)
UpstreamFails ==
  /\ Starved /\ upstream = "open"
  /\ status' = "broken"
  /\ UNCHANGED <<script, format, sent, upstream, relay, out, got, records>>

\* Slip: the end of the stream is told when its marker passes, and again at the end.
RelayTellingEnd ==
  /\ status = "open" /\ out = <<>> /\ mid # <<>>
  /\ mid' = Tail(mid)
  /\ Tap(Head(mid)) /\ UNCHANGED <<bufOut, told>>
  /\ LET r == Read(bufOut, Head(mid))
     IN  out' = Of(Forwarded, r.events)
                \o IF Last(Head(mid)).of.type = "done" THEN Closing ELSE <<>>
  /\ UNCHANGED <<script, format, sent, upstream, bufIn, input, roleSent, got, status,
                 records>>

(* The next chunk passes through tap_stream to the client's translation. *)
Relay ==
  /\ status = "open" /\ out = <<>> /\ mid # <<>>
  /\ mid' = Tail(mid)
  /\ Tap(Head(mid)) /\ Translate(Head(mid))
  /\ UNCHANGED <<script, format, sent, upstream, bufIn, input, roleSent, got, status,
                 records>>

\* Slip: the end waits for a usage.
FinishCounted ==
  /\ Starved /\ upstream = "ended" /\ gotUsage
  /\ status' = "recorded"
  /\ records' = Append(records, usage)
  /\ out' = Closing
  /\ UNCHANGED <<script, format, sent, upstream, relay, got>>

(* tap_stream has passed on everything: it records the request, with an
   estimate where the provider told no usage, and the translation closes. *)
Finish ==
  /\ Starved /\ upstream = "ended"
  /\ status' = "recorded"
  /\ records' = Append(records,
       IF gotUsage THEN usage ELSE [usage EXCEPT !.out = chars \div 4])
  /\ out' = Closing
  /\ UNCHANGED <<script, format, sent, upstream, relay, got>>

(* The client reads on, *)
Deliver ==
  /\ status \in {"open", "recorded"} /\ out # <<>>
  /\ got' = Append(got, Head(out))
  /\ out' = Tail(out)
  /\ UNCHANGED <<script, format, sent, upstream, relay, status, records>>

(* to the end, *)
Close ==
  /\ status = "recorded" /\ out = <<>>
  /\ status' = "closed"
  /\ UNCHANGED <<script, format, sent, upstream, relay, out, got, records>>

(* or disconnects, and the generators are dropped where they are. *)
Leave ==
  /\ status \in {"open", "recorded"}
  /\ status' = "left"
  /\ UNCHANGED <<script, format, sent, upstream, relay, out, got, records>>

Over == status \in {"closed", "broken", "left"} /\ UNCHANGED vars

Reads == Relay \/ Finish \/ Deliver \/ Close

Next ==
  \/ \E n \in 1 .. Len(Bytes(script.events)) : Receive(n)
  \/ UpstreamEnds \/ UpstreamFails \/ Reads \/ Leave \/ Over

Spec == Init /\ [][Next]_vars

(* The server polls for as long as the client is there and reads; a client need
   not leave.  Nothing is assumed of the provider, which may fall silent. *)
FairSpec == Spec /\ WF_vars(Reads)

-----------------------------------------------------------------------------
TextsOf(events) ==
  LET deltas == Of({"delta"}, events)
  IN  [i \in 1 .. Len(deltas) |-> deltas[i].text]

(* What the client makes of what it got.  A client of the OpenAI format reads
   bytes and decodes whole events, whatever the chunks. *)
Received == IF format = "openai" THEN Drain(<<>>, got).events ELSE got

Service ==
  INSTANCE AnswerStream
  WITH Answers <- {TextsOf(s.events) : s \in Scripts},
       answer <- TextsOf(script.events),
       shown <- TextsOf(Received),
       state <- CASE status = "closed" -> "complete"
                  [] status \in {"broken", "left"} -> "broken"
                  [] OTHER -> "open"

(* Refinement, docs/PROTOCOLS.md "the gateway translates ... in both directions":
   wherever between two characters the chunks are cut and whatever the two formats,
   the text reaches the client whole and in order before the answer is shown as
   complete. A cut inside a character loses text: TextIntact, StreamCut.cfg. *)
AnswerPromise == Service!Spec

(* The same as a state property: what the client has of the text is always a
   beginning of what the model said. *)
TextIntact == IsPrefix(TextsOf(Received), TextsOf(script.events))

TypesOf(events) == [i \in 1 .. Len(events) |-> events[i].type]

(* docs/PROTOCOLS.md, "Streaming uses native Anthropic events": a client of that
   format sees one message of one block, each opened before its text and closed
   once after it; one of the completions format sees [DONE] once, as the last. *)
EventOrder ==
  LET n == Len(TextsOf(got))
      message == <<"message_start", "block_start">> \o [i \in 1 .. n |-> "delta"]
                   \o <<"block_stop", "message_delta", "message_stop">>
  IN  /\ format = "anthropic" =>
           IF status = "closed" THEN TypesOf(got) = message
                                ELSE IsPrefix(TypesOf(got), message)
      /\ format = "completions" =>
           \A i \in 1 .. Len(got) : got[i].type = "done" => i = Len(got)

(* What a stream is to be recorded with: the last word of the provider. *)
Reports == Of({IF script.provider = "anthropic" THEN "message_delta" ELSE "usage"},
              script.events)
Starts == Of({"message_start"}, script.events)

Due ==
  IF Reports = <<>>
  THEN [in |-> 0, out |-> (CharsPerDelta * Len(TextsOf(script.events))) \div 4]
  ELSE [in |-> IF script.provider = "openai" THEN Last(Reports).in
               ELSE IF Starts = <<>> THEN 0 ELSE Last(Starts).in,
        out |-> Last(Reports).out]

(* pipeline.rs, "record statistics when the stream completes": a stream that is
   complete for the client has been recorded, once, with the usage the provider
   told, in whichever chunk and format, or the estimate; and the client of the
   Anthropic format was told the same usage. *)
RecordTruthful ==
  /\ records \in {<<>>, <<Due>>}
  /\ status \in {"recorded", "closed"} => records # <<>>
  /\ status = "closed" /\ format = "anthropic" /\ Reports # <<>> =>
       got[Len(got) - 1].out = Due.out

(* The end of the provider's stream reaches every client that stays. *)
EndReachesClient == upstream = "ended" ~> status \in {"closed", "left"}
=============================================================================
