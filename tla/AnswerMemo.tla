----------------------------- MODULE AnswerMemo -----------------------------
(***************************************************************************)
(* What the semantic cache promises: it acts as a list of all the answers  *)
(* ever stored, of which the last Capacity can be found, by a question of  *)
(* the same signature that is similar enough, until they are TTL old; one  *)
(* that can be found is found.                                             *)
(***************************************************************************)
EXTENDS Naturals, Sequences

CONSTANTS Questions, Sigs, Vecs, Similarity(_, _), Threshold, TTL, Capacity

VARIABLES log,    \* every answer stored: [sig, vec, ts, by]
          clock,
          asked,  \* Questions -> [sig, vec, at] once looked up, or {}
          result  \* Questions -> {}, {"miss"} or {the question answered before}

Init ==
  /\ log = <<>> /\ clock = 0
  /\ asked = [q \in Questions |-> {}]
  /\ result = [q \in Questions |-> {}]

Tick == clock' = clock + 1 /\ UNCHANGED <<log, asked, result>>

Ask(q, s, v) ==
  /\ asked[q] = {}
  /\ asked' = [asked EXCEPT ![q] = {[sig |-> s, vec |-> v, at |-> clock]}]
  /\ UNCHANGED <<log, clock, result>>

Fits(q, i) ==
  /\ i \in 1 .. Len(log) /\ i + Capacity > Len(log)
  /\ \E a \in asked[q] :
       /\ log[i].sig = a.sig /\ log[i].ts + TTL >= a.at
       /\ Similarity(log[i].vec, a.vec) >= Threshold

Closer(q, i, j) ==
  \E a \in asked[q] : Similarity(log[i].vec, a.vec) > Similarity(log[j].vec, a.vec)

Hit(q, i) ==
  /\ result[q] = {} /\ Fits(q, i)
  /\ ~ \E j \in 1 .. Len(log) : Fits(q, j) /\ Closer(q, j, i)
  /\ result' = [result EXCEPT ![q] = {log[i].by}]
  /\ UNCHANGED <<log, clock, asked>>

Miss(q) ==
  /\ asked[q] # {} /\ result[q] = {} /\ \A i \in 1 .. Len(log) : ~Fits(q, i)
  /\ result' = [result EXCEPT ![q] = {"miss"}]
  /\ UNCHANGED <<log, clock, asked>>

(* Only after a miss is an answer paid for and stored, under the question. *)
Store(q) ==
  /\ result[q] = {"miss"} /\ \A i \in 1 .. Len(log) : log[i].by # q
  /\ \E a \in asked[q] :
       log' = Append(log, [sig |-> a.sig, vec |-> a.vec, ts |-> clock, by |-> q])
  /\ UNCHANGED <<clock, asked, result>>

Next ==
  \/ Tick
  \/ \E q \in Questions : \/ \E s \in Sigs, v \in Vecs : Ask(q, s, v)
                          \/ \E i \in 1 .. Len(log) : Hit(q, i)
                          \/ Miss(q) \/ Store(q)

Spec == Init /\ [][Next]_<<log, clock, asked, result>>
=============================================================================
