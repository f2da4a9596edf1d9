------------------------------ MODULE Journal ------------------------------
(***************************************************************************)
(* The JSONL files the gateway appends to and replays at start             *)
(* (src/src/promotion.rs, src/src/stats.rs).  Every writer opens the file  *)
(* in append mode and calls writeln!, which issues two writes, the text    *)
(* and then the newline; nothing keeps another writer from getting in      *)
(* between.  A file is the sequence of what was written: texts and         *)
(* newlines.                                                               *)
(***************************************************************************)
EXTENDS Naturals, Sequences

CONSTANT NewLine

(* `content.lines()` and the parser: a text is read back only if it has a line
   to itself.  Of two texts on one line neither parses, and both are skipped. *)
Readable(f) ==
  {i \in DOMAIN f :
     /\ f[i] # NewLine
     /\ i = 1 \/ f[i - 1] = NewLine
     /\ i = Len(f) \/ f[i + 1] = NewLine}
=============================================================================
