---------------------------- MODULE MCStreamRelay ----------------------------
(* Small streams for StreamRelay: of both kinds of provider, with and without
   usage, with usage told twice, broken off by an error event or without an end. *)
EXTENDS StreamRelay

MCWords == 1 .. 3
D(i) == Text(i, FALSE)
Start == Event("message_start", <<>>, 7, 0, FALSE)
Delta(o) == Event("message_delta", <<>>, 0, o, FALSE)
Other == Plain("other")

Stream(p, events) == [provider |-> p, events |-> events]

MCScripts == {
  Stream("openai", <<Plain("role"), D(1), D(2), Plain("finish"), UsageOf(7, 5),
                     Plain("done")>>),
  Stream("openai", <<D(1), UsageOf(7, 1), D(2), UsageOf(7, 2), Plain("done")>>),
  Stream("openai", <<D(1), D(2), Plain("error")>>),
  Stream("anthropic", <<Start, Other, D(1), D(2), Other, Delta(5), Other>>),
  Stream("anthropic", <<Start, D(1), D(2), Plain("error")>>),
  Stream("anthropic", <<>>)}

(* Text that is not ASCII, in a stream long enough for the halves of two deltas
   to meet. *)
Cut(i) == Text(i, TRUE)

CutScripts == {
  Stream("openai", <<Cut(1), Cut(2), D(3), Plain("done")>>),
  Stream("anthropic", <<Start, Cut(1), D(2), Delta(5)>>)}

AllFormats == {"openai", "completions", "anthropic"}
=============================================================================
