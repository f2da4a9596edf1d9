----------------------------- MODULE Promotion -----------------------------
(***************************************************************************)
(* The promotion table of the self-warming loop (src/src/promotion.rs).    *)
(* Shadow tasks record judgments of local answers; each judgment moves its *)
(* label through the lifecycle and is appended to judge.jsonl, which is    *)
(* replayed at the next start.                                             *)
(*                                                                         *)
(* record() updates the table under its lock and appends to the file after *)
(* the lock is released, so the appends of several tasks interleave, and   *)
(* the process may be killed before, between and after the two writes of   *)
(* an append.                                                              *)
(***************************************************************************)
EXTENDS Journal, Integers, FiniteSets

CONSTANTS Labels,        \* task labels
          Tasks,         \* shadow tasks that may be recording at once
          Window,        \* rolling judgments per label
          NMin,          \* judgments before promotion is considered
          PromoteLb,     \* Wilson bound to clear, a fraction <<a, b>>
          DemotePass,    \* pass rate below which a label is demoted, a fraction
          Soak,          \* canary judgments before full local serving
          Recent,        \* the newest judgments in which hard fails count (50)
          MaxJudgments, MaxFaults    \* bounds

Fraction == Nat \X (Nat \ {0})

ASSUME PromotionAssumption ==
  /\ Window \in Nat /\ NMin \in Nat /\ Soak \in Nat /\ Recent \in Nat
  /\ PromoteLb \in Fraction /\ DemotePass \in Fraction

(* What shadow_capture makes of a verdict: a hard fail is never a pass. *)
Judgment ==
  {j \in [label: Labels, pass: BOOLEAN, hardFail: BOOLEAN] : j.hardFail => ~j.pass}

ASSUME NewLineAssumption == NewLine \notin Judgment

States == {"CloudOnly", "ShadowJudged", "Canary", "LocalServed", "Demoted"}
Serving == {"Canary", "LocalServed"}

LabelState == [passes: Seq(BOOLEAN), hardFails: Seq(BOOLEAN), state: States, soaked: Nat]

(* A label nothing was recorded of: not in the map, reported as CloudOnly. *)
Unknown == [passes |-> <<>>, hardFails |-> <<>>, state |-> "CloudOnly", soaked |-> 0]

-----------------------------------------------------------------------------
Count(q) == Cardinality({i \in DOMAIN q : q[i]})

\* Slip: the queue is never trimmed.
PushUncapped(q, v) == Append(q, v)

(* push_cap, of a queue that holds at most Window values. *)
PushCap(q, v) == IF Len(q) < Window THEN Append(q, v) ELSE Tail(Append(q, v))

(* wilson_bound(s, n, 1.96, false) >= a / b, in integers: a / b is at or below
   the lower root of n (s/n - x)^2 = z^2 x (1 - x), where z^2 = 2401/625. *)
WilsonAtLeast(s, n, bound) ==
  LET a == bound[1]
      b == bound[2]
      d == s * b - a * n
  IN  IF n = 0 THEN a = 0
      ELSE a < b /\ s * b >= a * n /\ 625 * d * d >= 2401 * a * (b - a) * n

\* Slip: the pass rate itself is compared with the bound.
BarPoint(ls) ==
  LET n == Len(ls.passes) IN
  /\ n >= NMin
  /\ Count(ls.passes) * PromoteLb[2] >= PromoteLb[1] * n
  /\ Count(ls.hardFails) = 0

Bar(ls) ==
  LET n == Len(ls.passes) IN
  /\ n >= NMin
  /\ WilsonAtLeast(Count(ls.passes), n, PromoteLb)
  /\ Count(ls.hardFails) = 0

(* The hard fails among the newest `Recent` judgments. *)
RecentFails(q) == Cardinality({i \in DOMAIN q : q[i] /\ i + Recent > Len(q)})

PassRateBelow(q, bound) ==
  IF Len(q) = 0 THEN bound[1] > 0
  ELSE Count(q) * bound[2] < bound[1] * Len(q)

Regressed(ls) ==
  PassRateBelow(ls.passes, DemotePass) \/ RecentFails(ls.hardFails) >= 2

\* Slip: a label served in full is not watched any more.
AdvanceFinal(ls) ==
  CASE ls.state \in {"CloudOnly", "ShadowJudged"} ->
         IF Bar(ls) THEN [ls EXCEPT !.state = "Canary", !.soaked = 0]
         ELSE [ls EXCEPT !.state = "ShadowJudged"]
    [] ls.state = "Canary" /\ ~Regressed(ls) ->
         [ls EXCEPT !.soaked = @ + 1,
                    !.state = IF ls.soaked + 1 >= Soak /\ Bar(ls)
                              THEN "LocalServed" ELSE "Canary"]
    [] ls.state = "Canary" /\ Regressed(ls) -> [ls EXCEPT !.state = "Demoted"]
    [] ls.state = "LocalServed" -> ls
    [] ls.state = "Demoted" -> [ls EXCEPT !.state = "ShadowJudged"]

(* Promotion::advance *)
Advance(ls) ==
  CASE ls.state \in {"CloudOnly", "ShadowJudged"} ->
         IF Bar(ls) THEN [ls EXCEPT !.state = "Canary", !.soaked = 0]
         ELSE [ls EXCEPT !.state = "ShadowJudged"]
    [] ls.state \in Serving /\ Regressed(ls) -> [ls EXCEPT !.state = "Demoted"]
    [] ls.state = "Canary" /\ ~Regressed(ls) ->
         [ls EXCEPT !.soaked = @ + 1,
                    !.state = IF ls.soaked + 1 >= Soak /\ Bar(ls)
                              THEN "LocalServed" ELSE "Canary"]
    [] ls.state = "LocalServed" /\ ~Regressed(ls) -> ls
    [] ls.state = "Demoted" -> [ls EXCEPT !.state = "ShadowJudged"]

(* Promotion::apply, on the whole table. *)
Apply(table, j) ==
  LET old == table[j.label]
      new == [old EXCEPT !.passes = PushCap(old.passes, j.pass),
                         !.hardFails = PushCap(old.hardFails, j.hardFail)]
  IN  [table EXCEPT ![j.label] = Advance(new)]

-----------------------------------------------------------------------------
VARIABLES table,     \* Labels -> LabelState
          file,      \* judge.jsonl
          pending,   \* Tasks -> the writes a recording task still has to issue
          phase,     \* up | down | replaying
          cursor,    \* texts and newlines the replay has read
          judgments, faults   \* bounded counters

(* History: per label, the judgments the table was built from since the start;
   how many appends succeeded; and whether every judgment reached the file whole
   and in order. *)
VARIABLES applied, written, clean

vars == <<table, file, pending, phase, cursor, judgments, faults, applied, written, clean>>

Empty == [l \in Labels |-> Unknown]
Text == Judgment \cup {NewLine}

TypeOK ==
  /\ table \in [Labels -> LabelState]
  /\ \A l \in Labels : /\ Len(table[l].passes) <= Window
                       /\ Len(table[l].hardFails) = Len(table[l].passes)
  /\ file \in Seq(Text)
  /\ pending \in [Tasks -> Seq(Text)]
  /\ phase \in {"up", "down", "replaying"}
  /\ cursor \in Nat
  /\ judgments \in Nat /\ faults \in Nat
  /\ applied \in [Labels -> Seq(Judgment)]
  /\ written \in Nat
  /\ clean \in BOOLEAN

Init ==
  /\ table = Empty
  /\ file = <<>>
  /\ pending = [t \in Tasks |-> <<>>]
  /\ phase = "up"
  /\ cursor = 0
  /\ judgments = 0 /\ faults = 0
  /\ applied = [l \in Labels |-> <<>>] /\ written = 0 /\ clean = TRUE

(* The history with judgment j added. *)
Noted(j) == [applied EXCEPT ![j.label] = Append(@, j)]

Quiet == \A t \in Tasks : pending[t] = <<>>

(* record(): the table moves under its lock; the append is still to come. *)
Judge(t, j) ==
  /\ phase = "up" /\ pending[t] = <<>>
  /\ judgments < MaxJudgments
  /\ judgments' = judgments + 1
  /\ table' = Apply(table, j)
  /\ applied' = Noted(j)
  /\ pending' = [pending EXCEPT ![t] = <<j, NewLine>>]
  /\ clean' = (clean /\ Quiet)
  /\ UNCHANGED <<file, phase, cursor, faults, written>>

(* writeln! *)
Write(t) ==
  /\ pending[t] # <<>>
  /\ file' = Append(file, Head(pending[t]))
  /\ pending' = [pending EXCEPT ![t] = Tail(@)]
  /\ written' = IF Tail(pending[t]) = <<>> THEN written + 1 ELSE written
  /\ UNCHANGED <<table, phase, cursor, judgments, faults, applied, clean>>

(* The file cannot be opened or a write fails: the error is dropped. *)
WriteFails(t) ==
  /\ pending[t] # <<>>
  /\ faults < MaxFaults
  /\ faults' = faults + 1
  /\ pending' = [pending EXCEPT ![t] = <<>>]
  /\ clean' = FALSE
  /\ UNCHANGED <<table, file, phase, cursor, judgments, applied, written>>

(* The process is killed, the table with it. *)
Crash ==
  /\ phase # "down" /\ faults < MaxFaults
  /\ faults' = faults + 1
  /\ phase' = "down"
  /\ pending' = [t \in Tasks |-> <<>>]
  /\ table' = Empty
  /\ applied' = [l \in Labels |-> <<>>]
  /\ clean' = (clean /\ Quiet)
  /\ UNCHANGED <<file, cursor, judgments, written>>

(* Promotion::new replays the file before the gateway serves anything; one
   action per line of the loop. *)
Start ==
  /\ phase = "down"
  /\ phase' = "replaying"
  /\ cursor' = 0
  /\ UNCHANGED <<table, file, pending, judgments, faults, applied, written, clean>>

\* Slip: replayed judgments fill the windows but move no label.
ReplayPassive(i) ==
  /\ phase = "replaying" /\ cursor < Len(file) /\ i = cursor + 1
  /\ cursor' = i
  /\ IF i \in Readable(file)
     THEN /\ table' = [table EXCEPT ![file[i].label].passes = PushCap(@, file[i].pass),
                                    ![file[i].label].hardFails =
                                       PushCap(@, file[i].hardFail)]
          /\ applied' = Noted(file[i])
     ELSE UNCHANGED <<table, applied>>
  /\ UNCHANGED <<file, pending, phase, judgments, faults, written, clean>>

ReplayNext(i) ==
  /\ phase = "replaying" /\ cursor < Len(file) /\ i = cursor + 1
  /\ cursor' = i
  /\ IF i \in Readable(file)
     THEN table' = Apply(table, file[i]) /\ applied' = Noted(file[i])
     ELSE UNCHANGED <<table, applied>>
  /\ UNCHANGED <<file, pending, phase, judgments, faults, written, clean>>

Ready ==
  /\ phase = "replaying" /\ cursor = Len(file)
  /\ phase' = "up"
  /\ UNCHANGED <<table, file, pending, cursor, judgments, faults, applied, written, clean>>

Next ==
  \/ \E t \in Tasks : \/ \E j \in Judgment : Judge(t, j)
                      \/ Write(t) \/ WriteFails(t)
  \/ Crash
  \/ Start
  \/ \E i \in DOMAIN file : ReplayNext(i)
  \/ Ready

Spec == Init /\ [][Next]_vars

-----------------------------------------------------------------------------
(* A served label is always within its limits, whatever order judgments of
   several tasks arrive in, and after any restart: no request is answered by the
   local model for a label whose window shows too few passes or two recent hard
   fails.  Nothing compares the configurable promote_lb with the fixed
   demote_pass, so a label that its last judgment has just promoted is held to
   the bar instead: it is demoted by the next judgment if that is too low. *)
JustPromoted(ls) == ls.state = "Canary" /\ ls.soaked = 0 /\ Bar(ls)

ServedWithinLimits ==
  \A l \in Labels :
    table[l].state \in Serving =>
      /\ RecentFails(table[l].hardFails) < 2
      /\ ~PassRateBelow(table[l].passes, DemotePass) \/ JustPromoted(table[l])

(* Serving is earned, said of the judgments themselves: there was one after
   which the last Window judgments of the label met the bar, no judgment since
   has shown a regression, and `Soak` of them came before full serving. *)
Last(h, k) == SubSeq(h, IF k > Window THEN k - Window + 1 ELSE 1, k)
Passes(w) == Cardinality({i \in DOMAIN w : w[i].pass})
HardFails(w, n) == Cardinality({i \in DOMAIN w : w[i].hardFail /\ i + n > Len(w)})

Convincing(w) ==
  /\ Len(w) >= NMin
  /\ WilsonAtLeast(Passes(w), Len(w), PromoteLb)
  /\ HardFails(w, Len(w)) = 0

Poor(w) ==
  \/ Passes(w) * DemotePass[2] < DemotePass[1] * Len(w)
  \/ HardFails(w, Recent) >= 2

ServingIsEarned ==
  \A l \in Labels :
    LET h == applied[l]
        Earned(k) == /\ Convincing(Last(h, k))
                     /\ \A m \in k + 1 .. Len(h) : ~Poor(Last(h, m))
    IN  /\ table[l].state = "Canary" => \E k \in DOMAIN h : Earned(k)
        /\ table[l].state = "LocalServed" =>
             \E k \in DOMAIN h : Earned(k) /\ Len(h) > k /\ Len(h) >= k + Soak

(* The table is the file, replayed: as long as every judgment reached the file
   whole and in order, a restart at any quiet moment changes nothing. *)
ReplayOf(f) ==
  LET after[i \in 0 .. Len(f)] ==
        IF i = 0 THEN Empty
        ELSE IF i \in Readable(f) THEN Apply(after[i - 1], f[i]) ELSE after[i - 1]
  IN  after[Len(f)]

RestartChangesNothing == phase = "up" /\ clean /\ Quiet => table = ReplayOf(file)

(* promotion.rs: "One judgment of a local answer (JSONL line, replayed on
   startup)". A judgment whose append succeeded can be read back. *)
JudgmentsReplayed == Cardinality(Readable(file)) >= written
=============================================================================
