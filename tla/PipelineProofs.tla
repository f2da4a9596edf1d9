--------------------------- MODULE PipelineProofs ---------------------------
(***************************************************************************)
(* Theorems of module Pipeline, for every set of models, configurations    *)
(* and requests: its type invariant, the one-record rule of the            *)
(* statistics, that it implements the abstract GatewayService, and the     *)
(* rules of failover and pins.                                             *)
(***************************************************************************)
EXTENDS Pipeline, TLAPS

-----------------------------------------------------------------------------
(* Lemmas on routing decisions. *)

(* Every list of local candidates is a list of models. *)
LEMMA LocalCandidatesType ==
  ASSUME NEW c \in Configs
  PROVE  LocalCandidates(c) \subseteq Seq(Models)
<1>1. c \in ConfigType /\ Valid(c)
  BY ConfigsAssumption
<1>2. c.servers \in Seq(Models) /\ c.models \subseteq Models
  BY <1>1 DEF ConfigType
<1>3. c.default # NoModel => Append(c.servers, c.default) \in Seq(Models)
  BY <1>1, <1>2 DEF ConfigType
<1>4. \A m \in c.models : <<m>> \in Seq(Models)
  BY <1>2
<1>5. <<>> \in Seq(Models)
  OBVIOUS
<1>6. QED
  BY <1>2, <1>3, <1>4, <1>5 DEF LocalCandidates

(* A list of models is a list of models or the empty id. *)
LEMMA ModelLists == Seq(Models) \subseteq Seq(Models \cup {NoModel})
OBVIOUS

(* So is every list of a tier. *)
LEMMA TierCandidatesType ==
  ASSUME NEW c \in Configs, NEW t \in Tiers
  PROVE  TierCandidates(c, t) \in Seq(Models \cup {NoModel})
<1>1. c \in ConfigType
  BY ConfigsAssumption
<1>2. c.tiers[t] \in Seq(Models \cup {NoModel})
  BY <1>1, ModelLists DEF ConfigType
<1>3. <<c.default>> \in Seq(Models \cup {NoModel})
  BY <1>1 DEF ConfigType
<1>4. QED
  BY <1>2, <1>3 DEF TierCandidates

(* What resolve() decides, the safety net included, is a decision. *)
LEMMA DecisionTyped ==
  ASSUME NEW c \in Configs, NEW q \in Asks,
         NEW d \in Decisions(c, q), NEW e \in Netted(c, q, d)
  PROVE  /\ e \in DecisionType
         /\ e.label \in Labels \cup LocalLabels
<1>1. q \in RequestType
  BY ConfigsAssumption
<1>2. d \in DecisionType /\ d.label \in Labels \cup LocalLabels
  <2>1. ASSUME NEW l \in LocalLabels, NEW src \in Sources,
               d \in Local(c, l, src)
        PROVE  d \in DecisionType /\ d.label \in Labels \cup LocalLabels
    BY <2>1, LocalCandidatesType, ModelLists DEF Local, Decision, DecisionType
  <2>2. ASSUME d \in Routed(c)
        PROVE  d \in DecisionType /\ d.label \in Labels \cup LocalLabels
    BY <2>2, TierCandidatesType DEF Routed, Decision, DecisionType, Sources
  <2>3. ASSUME Pinned(q), d = Decision("pinned", "pinned", "pinned", <<q.pin>>)
        PROVE  d \in DecisionType /\ d.label \in Labels \cup LocalLabels
    <3>1. <<q.pin>> \in Seq(Models \cup {NoModel})
      BY <2>3, <1>1 DEF RequestType, Pinned
    <3>2. QED
      BY <2>3, <3>1 DEF Decision, DecisionType, Sources, LocalLabels
  <2>4. QED
    BY <2>1, <2>2, <2>3 DEF Decisions, Sources, LocalLabels
<1>3. CASE e = d
  BY <1>2, <1>3
<1>4. CASE \E s \in LocalCandidates(c) : e = [d EXCEPT !.cands = s]
  BY <1>2, <1>4, LocalCandidatesType, ModelLists DEF DecisionType
<1>5. QED
  BY <1>3, <1>4 DEF Netted

(* A candidate that survives the capability filter is one the request may be
   answered by. *)
LEMMA KeptEligible ==
  ASSUME NEW c \in Configs, NEW q \in Asks,
         NEW d \in Decisions(c, q), NEW e \in Netted(c, q, d),
         NEW i \in Kept(c, q, e.cands)
  PROVE  e.cands[i] \in Eligible(c, q)
<1>1. Fits(c, q, e.cands[i]) /\ i \in DOMAIN e.cands
  BY DEF Kept
<1>2. ASSUME NEW s \in LocalCandidates(c), e.cands = s,
             c.localOnly \/ ~Pinned(q)
      PROVE  e.cands[i] \in Eligible(c, q)
  <2>1. e.cands[i] \in LocalPool(c)
    BY <1>1, <1>2 DEF LocalPool, Range
  <2>2. QED
    BY <1>1, <1>2, <2>1 DEF Eligible
<1>3. CASE e = d
  <2>1. CASE c.localOnly
    BY <2>1, <1>2, <1>3 DEF Decisions, Local, Decision
  <2>2. CASE ~c.localOnly /\ Pinned(q)
    <3>1. e.cands = <<q.pin>>
      BY <2>2, <1>3 DEF Decisions, Decision
    <3>2. e.cands[i] = q.pin
      BY <3>1, <1>1
    <3>3. QED
      BY <2>2, <3>2, <1>1 DEF Eligible
  <2>3. CASE ~c.localOnly /\ ~Pinned(q) /\ d \in Routed(c)
    <3>1. PICK t \in Tiers : e.cands = TierCandidates(c, t)
      BY <2>3, <1>3 DEF Routed, Decision
    <3>2. e.cands[i] \in TierPool(c)
      BY <3>1, <1>1 DEF TierPool, Range
    <3>3. QED
      BY <2>3, <3>2, <1>1 DEF Eligible
  <2>4. CASE ~c.localOnly /\ ~Pinned(q) /\ d \notin Routed(c)
    BY <2>4, <1>2, <1>3 DEF Decisions, Local, Decision
  <2>5. QED
    BY <2>1, <2>2, <2>3, <2>4
<1>4. CASE e # d
  <2>1. PICK s \in LocalCandidates(c) : e = [d EXCEPT !.cands = s]
    BY <1>4 DEF Netted
  <2>2. ~Pinned(q)
    BY <1>4 DEF Netted
  <2>3. e.cands = s
    <3>1. "cands" \in DOMAIN d
      BY DEF Decisions, Local, Routed, Decision
    <3>2. QED
      BY <2>1, <3>1
  <2>4. QED
    BY <2>1, <2>2, <2>3, <1>2
<1>5. QED
  BY <1>3, <1>4

-----------------------------------------------------------------------------
(* Type correctness. *)

(* A task past resolve() has a real decision: the label that a judgment may
   promote is one of the router's, or one of the local rules'. *)
Decided ==
  \A r \in Requests :
    pc[r] \in {"trying", "streaming"} \/ job[r] # "none"
      => decision[r].label \in Labels \cup LocalLabels

TypeInv == TypeOK /\ Decided

USE DEF plan, vars, Settled, Goto

(* Log appends one well-formed record. *)
LEMMA LogTyped ==
  ASSUME TypeOK, NEW r \in Requests, NEW m \in Models \cup {NoModel},
         NEW s \in Sources \cup {"cache"}, NEW o \in {"ok", "error"},
         NEW f \in BOOLEAN, Log(r, m, s, o, f)
  PROVE  records' \in [Requests -> Seq(Record)]
<1>1. [model |-> m, source |-> s, outcome |-> o, failover |-> f] \in Record
  BY DEF Record
<1>2. records[r] \in Seq(Record)
  BY DEF TypeOK
<1>3. Append(records[r], [model |-> m, source |-> s, outcome |-> o, failover |-> f])
        \in Seq(Record)
  BY <1>1, <1>2
<1>4. QED
  BY <1>3 DEF Log, TypeOK

(* The positions kept by the filter are numbers. *)
LEMMA KeptNat ==
  ASSUME NEW c, NEW q, NEW s \in Seq(Models \cup {NoModel})
  PROVE  Kept(c, q, s) \subseteq Nat
BY DEF Kept

(* What a configuration registers are models. *)
LEMMA RegisteredAreModels ==
  ASSUME NEW c \in Configs
  PROVE  c.models \subseteq Models /\ c.local \in Models \cup {NoModel}
BY ConfigsAssumption DEF ConfigType

(* Every step keeps the types. *)
LEMMA TypeStep == TypeInv /\ [Next]_vars => TypeInv'
<1> SUFFICES ASSUME TypeInv, [Next]_vars PROVE TypeInv'
  OBVIOUS
<1> USE DEF TypeInv, TypeOK, Decided
<1>1. CASE UNCHANGED vars
  BY <1>1
<1>2. ASSUME NEW c \in Configs, Reload(c) PROVE TypeInv'
  BY <1>2 DEF Reload
<1>3. ASSUME NEW e \in cache, Forget(e) PROVE TypeInv'
  BY <1>3 DEF Forget
<1>4. ASSUME NEW r \in Requests, RequestStep(r) PROVE TypeInv'
  <2>1. CASE Arrive(r)
    BY <2>1 DEF Arrive
  <2>2. ASSUME NEW e \in cache, CacheHit(r, e) PROVE TypeInv'
    <3>1. e.model \in Models
      OBVIOUS
    <3>2. records' \in [Requests -> Seq(Record)]
      BY <2>2, <3>1, LogTyped DEF CacheHit
    <3>3. QED
      BY <2>2, <3>1, <3>2 DEF CacheHit
  <2>3. ASSUME NEW b \in BOOLEAN, CacheMiss(r, b) PROVE TypeInv'
    BY <2>3 DEF CacheMiss
  <2>4. CASE CaptureShadow(r)
    BY <2>4 DEF CaptureShadow
  <2>5. CASE TakeSnapshot(r)
    BY <2>5 DEF TakeSnapshot
  <2>6. CASE Resolve(r)
    <3>0. PICK d \in Decisions(snap[r], request[r]) :
            \E e \in Netted(snap[r], request[r], d) : Refuse(r, e) \/ Plan(r, e)
      BY <2>6 DEF Resolve
    <3>1. PICK e \in Netted(snap[r], request[r], d) : Refuse(r, e) \/ Plan(r, e)
      BY <3>0
    <3>2. e \in DecisionType /\ e.label \in Labels \cup LocalLabels
      BY DecisionTyped
    <3>3. Kept(snap[r], request[r], e.cands) \subseteq Nat
      BY <3>2, KeptNat DEF DecisionType
    <3>4. CASE Refuse(r, e)
      <4>1. records' \in [Requests -> Seq(Record)]
        BY <3>4, LogTyped DEF Refuse, Sources
      <4>2. QED
        BY <2>6, <3>2, <3>4, <4>1 DEF Resolve, Refuse
    <3>5. CASE Plan(r, e)
      <4>1. snap[r].local \in Models \cup {NoModel}
        BY RegisteredAreModels
      <4>2. front' \in [Requests -> Models \cup {NoModel}]
        BY <3>5, <4>1 DEF Plan
      <4>3. todo' \in [Requests -> SUBSET Nat]
        BY <3>5, <3>3 DEF Plan
      <4>4. decision' \in [Requests -> DecisionType]
        BY <3>5, <3>2 DEF Plan
      <4>5. QED
        BY <2>6, <3>2, <3>5, <4>2, <4>3, <4>4 DEF Resolve, Plan
    <3>6. QED
      BY <3>1, <3>4, <3>5
  <2>7. ASSUME NEW i \in todo[r], Skip(r, i) PROVE TypeInv'
    BY <2>7 DEF Skip
  <2>8. ASSUME NEW i \in todo[r], CallFails(r, i) PROVE TypeInv'
    BY <2>8 DEF CallFails
  <2>9. ASSUME NEW i \in todo[r], StreamOpens(r, i) PROVE TypeInv'
    <3>1. ModelAt(r, i) \in Models
      BY <2>9, RegisteredAreModels DEF StreamOpens
    <3>2. QED
      BY <2>9, <3>1 DEF StreamOpens, AtCandidate
  <2>10. ASSUME NEW i \in todo[r], NEW empty \in BOOLEAN, NEW sampled \in BOOLEAN,
                CallAnswers(r, i, empty, sampled)
         PROVE  TypeInv'
    <3>1. ModelAt(r, i) \in Models
      BY <2>10, RegisteredAreModels DEF CallAnswers
    <3>2. records' \in [Requests -> Seq(Record)]
      <4>1. Log(r, ModelAt(r, i), decision[r].source, "ok", attempt[r] > 0)
        BY <2>10 DEF CallAnswers
      <4>2. (attempt[r] > 0) \in BOOLEAN /\ decision[r].source \in Sources
        BY DEF DecisionType
      <4>3. TypeOK
        OBVIOUS
      <4> HIDE DEF TypeOK
      <4>4. QED
        BY <3>1, <4>1, <4>2, <4>3, LogTyped, Zenon
    <3>3. request[r].pin \in Models \cup {NoModel} /\ request[r].prompt \in Prompts
      BY ConfigsAssumption DEF RequestType
    <3>4. cache' \subseteq [pin: Models \cup {NoModel}, prompt: Prompts, model: Models]
      BY <2>10, <3>1, <3>3 DEF CallAnswers
    <3>5. job' \in [Requests -> {"none", "spawned", "judging"}]
      BY <2>10 DEF CallAnswers
    <3>6. Decided'
      BY <2>10 DEF CallAnswers, AtCandidate
    <3>7. QED
      BY <2>10, <3>1, <3>2, <3>4, <3>5, <3>6 DEF CallAnswers
  <2>11. CASE GiveUp(r)
    <3>1. records' \in [Requests -> Seq(Record)]
      BY <2>11, LogTyped DEF GiveUp, Sources
    <3>2. QED
      BY <2>11, <3>1 DEF GiveUp
  <2>12. ASSUME NEW o \in {"ok", "error"}, StreamEnds(r, o) PROVE TypeInv'
    <3>1. records' \in [Requests -> Seq(Record)]
      <4>1. Log(r, reply[r], decision[r].source, o, attempt[r] > 0)
        BY <2>12 DEF StreamEnds
      <4>2. (attempt[r] > 0) \in BOOLEAN /\ decision[r].source \in Sources
        BY DEF DecisionType
      <4>3. reply[r] \in Models \cup {NoModel}
        OBVIOUS
      <4>4. TypeOK
        OBVIOUS
      <4> HIDE DEF TypeOK
      <4>5. QED
        BY <4>1, <4>2, <4>3, <4>4, LogTyped, Zenon
    <3>2. QED
      BY <2>12, <3>1 DEF StreamEnds
  <2>13. CASE Drop(r)
    BY <2>13 DEF Drop
  <2>14. QED
    BY <1>4, <2>1, <2>2, <2>3, <2>4, <2>5, <2>6, <2>7, <2>8, <2>9, <2>10,
       <2>11, <2>12, <2>13 DEF RequestStep
<1>5. ASSUME NEW r \in Requests, ShadowStep(r) PROVE TypeInv'
  <2>1. CASE ShadowStarts(r)
    BY <2>1 DEF ShadowStarts, Advance
  <2>2. CASE ShadowFails(r)
    BY <2>2 DEF ShadowFails, Advance
  <2>3. CASE ShadowJudged(r)
    BY <2>3 DEF ShadowJudged, Advance
  <2>4. QED
    BY <1>5, <2>1, <2>2, <2>3 DEF ShadowStep
<1>6. CASE Quiesced
  BY <1>1, <1>6 DEF Quiesced
<1>7. QED
  BY <1>1, <1>2, <1>3, <1>4, <1>5, <1>6 DEF Next

(* And they hold initially. *)
LEMMA TypeInit == Init => TypeInv
BY DEF Init, TypeInv, TypeOK, Decided, NoDecision, Decision, DecisionType, Sources

(* Every variable keeps its type; in particular only labels that a decision
   carried are ever promoted. *)
THEOREM TypeCorrect == Spec => []TypeOK
<1>1. Spec => []TypeInv
  BY TypeInit, TypeStep, PTL DEF Spec
<1>2. TypeInv => TypeOK
  BY DEF TypeInv
<1>3. QED
  BY <1>1, <1>2, PTL
-----------------------------------------------------------------------------
(* The statistics. *)

(* The inductive form of LedgerExact: a request that is still being planned
   or tried has no reply yet, so that a refusal agrees with the client. *)
LedgerInv ==
  /\ LedgerExact
  /\ \A r \in Requests :
       pc[r] \notin {"done", "streaming", "gone"} => reply[r] = NoModel

(* Log puts one record at the end of r's, and leaves the others alone. *)
LEMMA LogFirst ==
  ASSUME TypeOK, NEW r \in Requests, records[r] = <<>>,
         NEW m, NEW s, NEW o, NEW f, Log(r, m, s, o, f)
  PROVE  /\ Len(records'[r]) = 1
         /\ records'[r][1].model = m
         /\ records'[r][1].outcome = o
         /\ \A x \in Requests \ {r} : records'[x] = records[x]
<1>1. records'[r] = <<[model |-> m, source |-> s, outcome |-> o, failover |-> f]>>
  BY DEF Log, TypeOK
<1>2. QED
  BY <1>1 DEF Log, TypeOK

(* So it settles r, whose reply is the model it names. *)
LEMMA LoggedOnce ==
  ASSUME TypeOK, LedgerInv, NEW r \in Requests, records[r] = <<>>,
         NEW m \in Models \cup {NoModel}, NEW s, NEW o, NEW f, Log(r, m, s, o, f),
         reply' = [reply EXCEPT ![r] = m],
         NEW l \in {"done", "failed"}, Goto(r, l),
         l = "failed" => o = "error" /\ m = NoModel
  PROVE  LedgerInv'
<1>1. /\ Len(records'[r]) = 1
      /\ records'[r][1].model = m
      /\ records'[r][1].outcome = o
      /\ \A x \in Requests \ {r} : records'[x] = records[x]
  BY LogFirst
<1>2. /\ pc'[r] = l /\ reply'[r] = m
      /\ \A x \in Requests \ {r} : pc'[x] = pc[x] /\ reply'[x] = reply[x]
  BY DEF TypeOK
<1>3. QED
  BY <1>1, <1>2 DEF LedgerInv, LedgerExact

LEMMA LedgerStep == TypeInv /\ LedgerInv /\ [Next]_vars => LedgerInv'
<1> SUFFICES ASSUME TypeInv, LedgerInv, [Next]_vars PROVE LedgerInv'
  OBVIOUS
<1>0. TypeOK
  BY DEF TypeInv
<1> USE <1>0 DEF LedgerInv, LedgerExact
<1>1. CASE UNCHANGED vars
  BY <1>1
<1>2. ASSUME NEW c \in Configs, Reload(c) PROVE LedgerInv'
  BY <1>2 DEF Reload
<1>3. ASSUME NEW e \in cache, Forget(e) PROVE LedgerInv'
  BY <1>3 DEF Forget
<1>4. ASSUME NEW r \in Requests, RequestStep(r) PROVE LedgerInv'
  <2>0. pc \in [Requests -> {"idle", "embedding", "planning", "starting",
                "resolving", "trying", "streaming", "done", "failed", "gone"}]
        /\ reply \in [Requests -> Models \cup {NoModel}]
    BY DEF TypeOK
  <2>1. CASE Arrive(r)
    BY <2>0, <2>1 DEF Arrive
  <2>2. ASSUME NEW e \in cache, CacheHit(r, e) PROVE LedgerInv'
    <3>1. /\ Log(r, e.model, "cache", "ok", FALSE) /\ records[r] = <<>>
          /\ reply' = [reply EXCEPT ![r] = e.model] /\ Goto(r, "done")
      BY <2>2 DEF CacheHit
    <3>2. e.model \in Models \cup {NoModel}
      BY DEF TypeOK
    <3>3. QED
      BY <3>1, <3>2, LoggedOnce
  <2>3. ASSUME NEW b \in BOOLEAN, CacheMiss(r, b) PROVE LedgerInv'
    BY <2>0, <2>3 DEF CacheMiss
  <2>4. CASE CaptureShadow(r)
    BY <2>0, <2>4 DEF CaptureShadow
  <2>5. CASE TakeSnapshot(r)
    BY <2>0, <2>5 DEF TakeSnapshot
  <2>6. CASE Resolve(r)
    <3>0. PICK d \in Decisions(snap[r], request[r]) :
            \E e \in Netted(snap[r], request[r], d) : Refuse(r, e) \/ Plan(r, e)
      BY <2>6 DEF Resolve
    <3>1. PICK e \in Netted(snap[r], request[r], d) : Refuse(r, e) \/ Plan(r, e)
      BY <3>0
    <3>2. UNCHANGED reply /\ pc[r] = "resolving"
      BY <2>6 DEF Resolve
    <3>3. CASE Refuse(r, e)
      <4>1. Log(r, NoModel, "none", "error", FALSE) /\ records[r] = <<>>
        BY <3>2, <3>3 DEF Refuse
      <4>2. QED
        <5>1. Goto(r, "failed") /\ reply' = [reply EXCEPT ![r] = NoModel]
          BY <2>0, <3>2, <3>3 DEF Refuse
        <5>2. QED
          BY <4>1, <5>1, LoggedOnce
    <3>4. CASE Plan(r, e)
      BY <2>0, <3>2, <3>4 DEF Plan
    <3>5. QED
      BY <3>1, <3>3, <3>4
  <2>7. ASSUME NEW i \in todo[r], Skip(r, i) PROVE LedgerInv'
    BY <2>7 DEF Skip
  <2>8. ASSUME NEW i \in todo[r], CallFails(r, i) PROVE LedgerInv'
    BY <2>8 DEF CallFails
  <2>9. ASSUME NEW i \in todo[r], StreamOpens(r, i) PROVE LedgerInv'
    BY <2>0, <2>9 DEF StreamOpens, AtCandidate
  <2>10. ASSUME NEW i \in todo[r], NEW empty \in BOOLEAN, NEW sampled \in BOOLEAN,
                CallAnswers(r, i, empty, sampled)
         PROVE  LedgerInv'
    <3>1. /\ Log(r, ModelAt(r, i), decision[r].source, "ok", attempt[r] > 0)
          /\ records[r] = <<>>
      BY <2>10 DEF CallAnswers, AtCandidate
    <3>2. reply' = [reply EXCEPT ![r] = ModelAt(r, i)] /\ Goto(r, "done")
      BY <2>10 DEF CallAnswers
    <3>3. ModelAt(r, i) \in Models \cup {NoModel}
      BY <2>10, RegisteredAreModels DEF CallAnswers, TypeOK
    <3>4. QED
      BY <3>1, <3>2, <3>3, LoggedOnce
  <2>11. CASE GiveUp(r)
    <3>1. Log(r, NoModel, "none", "error", FALSE) /\ records[r] = <<>>
      BY <2>11 DEF GiveUp
    <3>2. Goto(r, "failed") /\ reply' = [reply EXCEPT ![r] = NoModel]
      BY <2>0, <2>11 DEF GiveUp
    <3>3. QED
      BY <3>1, <3>2, LoggedOnce
  <2>12. ASSUME NEW o \in {"ok", "error"}, StreamEnds(r, o) PROVE LedgerInv'
    <3>1. /\ Log(r, reply[r], decision[r].source, o, attempt[r] > 0)
          /\ records[r] = <<>>
      BY <2>12 DEF StreamEnds
    <3>2. reply' = [reply EXCEPT ![r] = reply[r]] /\ Goto(r, "done")
      BY <2>0, <2>12 DEF StreamEnds
    <3>3. QED
      BY <2>0, <3>1, <3>2, LoggedOnce
  <2>13. CASE Drop(r)
    <3>1. pc[r] \notin {"done", "failed"}
      BY <2>13 DEF Drop, Awaiting, AtCandidate
    <3>2. QED
      BY <2>0, <2>13, <3>1 DEF Drop
  <2>14. QED
    BY <1>4, <2>1, <2>2, <2>3, <2>4, <2>5, <2>6, <2>7, <2>8, <2>9, <2>10,
       <2>11, <2>12, <2>13 DEF RequestStep
<1>5. ASSUME NEW r \in Requests, ShadowStep(r) PROVE LedgerInv'
  BY <1>5 DEF ShadowStep, ShadowStarts, ShadowFails, ShadowJudged, Advance
<1>6. CASE Quiesced
  BY <1>1, <1>6 DEF Quiesced
<1>7. QED
  BY <1>1, <1>2, <1>3, <1>4, <1>5, <1>6 DEF Next

(* The statistics hold one record of every request that was answered or
   refused, naming the model of the reply, and none of any other request. *)
THEOREM RecordedOnce == Spec => []LedgerExact
<1>1. Init => LedgerInv
  BY DEF Init, LedgerInv, LedgerExact
<1>2. Spec => [](TypeInv /\ LedgerInv)
  BY <1>1, TypeInit, TypeStep, LedgerStep, PTL DEF Spec
<1>3. LedgerInv => LedgerExact
  BY DEF LedgerInv
<1>4. QED
  BY <1>2, <1>3, PTL

-----------------------------------------------------------------------------
(* The promise of GatewayService. *)

Pending(r) == pc[r] \in {"embedding", "planning", "starting", "resolving", "trying"}

(* The configuration a request works on was live while it was pending. *)
SnapInWindow ==
  \A r \in Requests :
    /\ Pending(r) => live \in window[r]
    /\ pc[r] \in {"resolving", "trying"} => snap[r] \in window[r]

(* Every candidate still to try, if registered, is one the configuration
   offered the request: the capability filter, the safety net and the
   promoted model put nothing else on the list. *)
PlanEligible ==
  \A r \in Requests : pc[r] = "trying" =>
    \A i \in todo[r] : ModelAt(r, i) \in snap[r].models
                         => ModelAt(r, i) \in Eligible(snap[r], request[r])

(* Every cached answer was given in full to a request for the same thing. *)
CacheGiven ==
  /\ \A e \in cache : \E o \in Requests :
       /\ pc[o] = "done" /\ reply[o] = e.model /\ ~request[o].stream
       /\ request[o].pin = e.pin /\ request[o].prompt = e.prompt
  /\ \A r \in Requests : pc[r] = "embedding" => ~request[r].stream

PromiseInv == SnapInWindow /\ PlanEligible /\ CacheGiven

LEMMA PromiseInit == Init => PromiseInv
BY DEF Init, PromiseInv, SnapInWindow, PlanEligible, CacheGiven, Pending

(* resolve() and the promotion put only eligible models on the list. *)
LEMMA PlanIsEligible ==
  ASSUME TypeOK, NEW r \in Requests,
         NEW d \in Decisions(snap[r], request[r]),
         NEW e \in Netted(snap[r], request[r], d), Plan(r, e),
         snap' = snap, request' = request
  PROVE  \A i \in todo'[r] : ModelAt(r, i)' \in snap[r].models
           => ModelAt(r, i)' \in Eligible(snap[r], request[r])
<1> SUFFICES ASSUME NEW i \in todo'[r], ModelAt(r, i)' \in snap[r].models
             PROVE  ModelAt(r, i)' \in Eligible(snap[r], request[r])
  OBVIOUS
<1>1. /\ snap[r] \in Configs /\ request[r] \in Asks
      /\ decision'[r] = e
      /\ front'[r] = IF LocalFirst(snap[r], request[r], e) THEN snap[r].local
                     ELSE NoModel
  BY DEF TypeOK, Plan
<1>2. NoModel \notin snap[r].models
  BY <1>1, RegisteredAreModels, ConfigsAssumption
<1>3. CASE i = 0
  <2>1. ModelAt(r, i)' = front'[r]
    BY <1>3 DEF ModelAt
  <2>2. front'[r] = snap[r].local /\ LocalFirst(snap[r], request[r], e)
    BY <1>1, <1>2, <2>1
  <2>3. QED
    BY <2>1, <2>2 DEF LocalFirst, Eligible
<1>4. CASE i # 0
  <2>1. i \in Kept(snap[r], request[r], e.cands)
    BY <1>4 DEF Plan, TypeOK
  <2>2. ModelAt(r, i)' = e.cands[i]
    BY <1>1, <1>4 DEF ModelAt
  <2>3. QED
    BY <1>1, <2>1, <2>2, KeptEligible
<1>5. QED
  BY <1>3, <1>4

LEMMA SnapStep == TypeOK /\ SnapInWindow /\ [Next]_vars => SnapInWindow'
<1> SUFFICES ASSUME TypeOK, SnapInWindow, [Next]_vars PROVE SnapInWindow'
  OBVIOUS
<1> USE DEF TypeOK, SnapInWindow, Pending
<1>1. CASE UNCHANGED vars
  BY <1>1
<1>2. ASSUME NEW c \in Configs, Reload(c) PROVE SnapInWindow'
  BY <1>2 DEF Reload
<1>3. ASSUME NEW e \in cache, Forget(e) PROVE SnapInWindow'
  BY <1>3 DEF Forget
<1>4. ASSUME NEW r \in Requests, RequestStep(r) PROVE SnapInWindow'
  <2>1. CASE Arrive(r)
    BY <2>1 DEF Arrive
  <2>2. ASSUME NEW e \in cache, CacheHit(r, e) PROVE SnapInWindow'
    BY <2>2 DEF CacheHit
  <2>3. ASSUME NEW b \in BOOLEAN, CacheMiss(r, b) PROVE SnapInWindow'
    BY <2>3 DEF CacheMiss
  <2>4. CASE CaptureShadow(r)
    BY <2>4 DEF CaptureShadow
  <2>5. CASE TakeSnapshot(r)
    BY <2>5 DEF TakeSnapshot
  <2>6. CASE Resolve(r)
    BY <2>6 DEF Resolve, Refuse, Plan
  <2>7. ASSUME NEW i \in todo[r],
               \/ Skip(r, i) \/ CallFails(r, i) \/ StreamOpens(r, i)
               \/ \E empty, sampled \in BOOLEAN : CallAnswers(r, i, empty, sampled)
        PROVE  SnapInWindow'
    BY <2>7 DEF Skip, CallFails, StreamOpens, CallAnswers, AtCandidate
  <2>8. CASE GiveUp(r)
    BY <2>8 DEF GiveUp
  <2>9. ASSUME NEW o, StreamEnds(r, o) PROVE SnapInWindow'
    BY <2>9 DEF StreamEnds
  <2>10. CASE Drop(r)
    BY <2>10 DEF Drop
  <2>11. QED
    BY <1>4, <2>1, <2>2, <2>3, <2>4, <2>5, <2>6, <2>7, <2>8, <2>9, <2>10
       DEF RequestStep
<1>5. ASSUME NEW r \in Requests, ShadowStep(r) PROVE SnapInWindow'
  BY <1>5 DEF ShadowStep, ShadowStarts, ShadowFails, ShadowJudged, Advance
<1>6. CASE Quiesced
  BY <1>1, <1>6 DEF Quiesced
<1>7. QED
  BY <1>1, <1>2, <1>3, <1>4, <1>5, <1>6 DEF Next

LEMMA PlanStep == TypeOK /\ PlanEligible /\ [Next]_vars => PlanEligible'
<1> SUFFICES ASSUME TypeOK, PlanEligible, [Next]_vars PROVE PlanEligible'
  OBVIOUS
<1>0. /\ pc \in [Requests -> {"idle", "embedding", "planning", "starting",
                "resolving", "trying", "streaming", "done", "failed", "gone"}]
      /\ todo \in [Requests -> SUBSET Nat]
  BY DEF TypeOK
(* A step that leaves the plan of whoever is trying, or shortens it. *)
<1>1. ASSUME \A r \in Requests : pc'[r] = "trying" =>
               /\ pc[r] = "trying" /\ todo'[r] \subseteq todo[r]
               /\ snap'[r] = snap[r] /\ request'[r] = request[r]
               /\ front'[r] = front[r] /\ decision'[r] = decision[r]
      PROVE  PlanEligible'
  BY <1>1 DEF PlanEligible, ModelAt
<1>2. CASE UNCHANGED vars
  BY <1>1, <1>2
<1>3. ASSUME NEW c \in Configs, Reload(c) PROVE PlanEligible'
  BY <1>1, <1>3 DEF Reload
<1>4. ASSUME NEW e \in cache, Forget(e) PROVE PlanEligible'
  BY <1>1, <1>4 DEF Forget
<1>5. ASSUME NEW r \in Requests, RequestStep(r) PROVE PlanEligible'
  <2>1. CASE Arrive(r)
    BY <1>0, <1>1, <2>1 DEF Arrive
  <2>2. ASSUME NEW e \in cache, CacheHit(r, e) PROVE PlanEligible'
    BY <1>0, <1>1, <2>2 DEF CacheHit
  <2>3. ASSUME NEW b \in BOOLEAN, CacheMiss(r, b) PROVE PlanEligible'
    BY <1>0, <1>1, <2>3 DEF CacheMiss
  <2>4. CASE CaptureShadow(r)
    BY <1>0, <1>1, <2>4 DEF CaptureShadow
  <2>5. CASE TakeSnapshot(r)
    <3>1. /\ pc'[r] # "trying"
          /\ \A x \in Requests \ {r} : pc'[x] = pc[x] /\ snap'[x] = snap[x]
      BY <1>0, <2>5 DEF TakeSnapshot, TypeOK
    <3>2. QED
      BY <1>1, <2>5, <3>1 DEF TakeSnapshot
  <2>6. CASE Resolve(r)
    <3>0. PICK d \in Decisions(snap[r], request[r]) :
            \E e \in Netted(snap[r], request[r], d) : Refuse(r, e) \/ Plan(r, e)
      BY <2>6 DEF Resolve
    <3>1. PICK e \in Netted(snap[r], request[r], d) : Refuse(r, e) \/ Plan(r, e)
      BY <3>0
    <3>2. snap' = snap /\ request' = request /\ pc[r] = "resolving"
      BY <2>6 DEF Resolve
    <3>3. \A x \in Requests \ {r} :
            /\ pc'[x] = pc[x] /\ todo'[x] = todo[x]
            /\ front'[x] = front[x] /\ decision'[x] = decision[x]
      BY <3>1 DEF Refuse, Plan, TypeOK
    <3>4. CASE Refuse(r, e)
      <4>1. pc'[r] = "failed"
        BY <1>0, <3>4 DEF Refuse
      <4>2. QED
        BY <1>1, <3>2, <3>3, <4>1
    <3>5. CASE Plan(r, e)
      <4>1. \A i \in todo'[r] : ModelAt(r, i)' \in snap[r].models
              => ModelAt(r, i)' \in Eligible(snap[r], request[r])
        BY <3>2, <3>5, PlanIsEligible
      <4>2. QED
        BY <3>2, <3>3, <4>1 DEF PlanEligible, ModelAt
    <3>6. QED
      BY <3>1, <3>4, <3>5
  <2>7. ASSUME NEW i \in todo[r], Skip(r, i) \/ CallFails(r, i) PROVE PlanEligible'
    BY <1>0, <1>1, <2>7 DEF Skip, CallFails
  <2>8. ASSUME NEW i \in todo[r],
               \/ StreamOpens(r, i)
               \/ \E empty, sampled \in BOOLEAN : CallAnswers(r, i, empty, sampled)
        PROVE  PlanEligible'
    BY <1>0, <1>1, <2>8 DEF StreamOpens, CallAnswers
  <2>9. CASE GiveUp(r)
    BY <1>0, <1>1, <2>9 DEF GiveUp
  <2>10. ASSUME NEW o, StreamEnds(r, o) PROVE PlanEligible'
    BY <1>0, <1>1, <2>10 DEF StreamEnds
  <2>11. CASE Drop(r)
    BY <1>0, <1>1, <2>11 DEF Drop
  <2>12. QED
    BY <1>5, <2>1, <2>2, <2>3, <2>4, <2>5, <2>6, <2>7, <2>8, <2>9, <2>10, <2>11
       DEF RequestStep
<1>6. ASSUME NEW r \in Requests, ShadowStep(r) PROVE PlanEligible'
  BY <1>1, <1>6 DEF ShadowStep, ShadowStarts, ShadowFails, ShadowJudged, Advance
<1>7. CASE Quiesced
  BY <1>2, <1>7 DEF Quiesced
<1>8. QED
  BY <1>2, <1>3, <1>4, <1>5, <1>6, <1>7 DEF Next

LEMMA CacheStep == TypeOK /\ CacheGiven /\ [Next]_vars => CacheGiven'
<1> SUFFICES ASSUME TypeOK, CacheGiven, [Next]_vars PROVE CacheGiven'
  OBVIOUS
<1>0. /\ pc \in [Requests -> {"idle", "embedding", "planning", "starting",
                "resolving", "trying", "streaming", "done", "failed", "gone"}]
      /\ reply \in [Requests -> Models \cup {NoModel}]
  BY DEF TypeOK
(* A step that only drops entries and disturbs no settled request. *)
<1>1. ASSUME cache' \subseteq cache, request' = request,
             \A r \in Requests : pc[r] = "done" => pc'[r] = "done" /\ reply'[r] = reply[r],
             \A r \in Requests : pc'[r] = "embedding" =>
                                   pc[r] = "embedding" \/ ~request[r].stream
      PROVE  CacheGiven'
  BY <1>1 DEF CacheGiven
<1>2. CASE UNCHANGED vars
  BY <1>1, <1>2
<1>3. ASSUME NEW c \in Configs, Reload(c) PROVE CacheGiven'
  BY <1>1, <1>3 DEF Reload
<1>4. ASSUME NEW e \in cache, Forget(e) PROVE CacheGiven'
  BY <1>1, <1>4 DEF Forget
<1>5. ASSUME NEW r \in Requests, RequestStep(r) PROVE CacheGiven'
  <2>1. CASE Arrive(r)
    BY <1>0, <1>1, <2>1 DEF Arrive
  <2>2. ASSUME NEW e \in cache, CacheHit(r, e) PROVE CacheGiven'
    BY <1>0, <1>1, <2>2 DEF CacheHit
  <2>3. ASSUME NEW b \in BOOLEAN, CacheMiss(r, b) PROVE CacheGiven'
    BY <1>0, <1>1, <2>3 DEF CacheMiss
  <2>4. CASE CaptureShadow(r)
    BY <1>0, <1>1, <2>4 DEF CaptureShadow
  <2>5. CASE TakeSnapshot(r)
    BY <1>0, <1>1, <2>5 DEF TakeSnapshot
  <2>6. CASE Resolve(r)
    BY <1>0, <1>1, <2>6 DEF Resolve, Refuse, Plan
  <2>7. ASSUME NEW i \in todo[r], Skip(r, i) \/ CallFails(r, i) \/ StreamOpens(r, i)
        PROVE  CacheGiven'
    BY <1>0, <1>1, <2>7 DEF Skip, CallFails, StreamOpens, AtCandidate
  <2>8. ASSUME NEW i \in todo[r], NEW empty \in BOOLEAN, NEW sampled \in BOOLEAN,
               CallAnswers(r, i, empty, sampled)
        PROVE  CacheGiven'
    <3>1. /\ pc'[r] = "done" /\ reply'[r] = ModelAt(r, i)
          /\ \A x \in Requests \ {r} : pc'[x] = pc[x] /\ reply'[x] = reply[x]
          /\ pc[r] = "trying" /\ ~request[r].stream /\ request' = request
      BY <1>0, <2>8 DEF CallAnswers, AtCandidate
    <3>2. cache' \subseteq cache \cup
            {[pin |-> request[r].pin, prompt |-> request[r].prompt,
              model |-> ModelAt(r, i)]}
      BY <2>8 DEF CallAnswers
    <3>3. QED
      BY <3>1, <3>2 DEF CacheGiven
  <2>9. CASE GiveUp(r)
    BY <1>0, <1>1, <2>9 DEF GiveUp
  <2>10. ASSUME NEW o, StreamEnds(r, o) PROVE CacheGiven'
    BY <1>0, <1>1, <2>10 DEF StreamEnds
  <2>11. CASE Drop(r)
    <3>1. pc[r] # "done"
      BY <2>11 DEF Drop, Awaiting, AtCandidate
    <3>2. QED
      BY <1>0, <1>1, <2>11, <3>1 DEF Drop
  <2>12. QED
    BY <1>5, <2>1, <2>2, <2>3, <2>4, <2>5, <2>6, <2>7, <2>8, <2>9, <2>10, <2>11
       DEF RequestStep
<1>6. ASSUME NEW r \in Requests, ShadowStep(r) PROVE CacheGiven'
  BY <1>1, <1>6 DEF ShadowStep, ShadowStarts, ShadowFails, ShadowJudged, Advance
<1>7. CASE Quiesced
  BY <1>2, <1>7 DEF Quiesced
<1>8. QED
  BY <1>2, <1>3, <1>4, <1>5, <1>6, <1>7 DEF Next

(* The steps of Pipeline as steps of GatewayService.  Phase and Ledger are
   what the mapping reads of it. *)
Phase == [r \in Requests |-> ServicePhase(r)]
Ledger == [r \in Requests |-> Len(records[r])]

(* A step of r that leaves the others alone changes r's phase only. *)
LEMMA PhaseOfStep ==
  ASSUME TypeOK, NEW r \in Requests, NEW l, Goto(r, l)
  PROVE  Phase' = [Phase EXCEPT ![r] = ServicePhase(r)']
<1>1. \A x \in Requests \ {r} : pc'[x] = pc[x]
  BY DEF TypeOK
<1>2. \A x \in Requests \ {r} : ServicePhase(x)' = ServicePhase(x)
  BY <1>1 DEF ServicePhase
<1>3. QED
  BY <1>2 DEF Phase

LEMMA LedgerOfStep ==
  ASSUME TypeOK, NEW r \in Requests, records[r] = <<>>,
         NEW m, NEW s, NEW o, NEW f, Log(r, m, s, o, f)
  PROVE  Ledger' = [Ledger EXCEPT ![r] = 1]
BY LogFirst DEF Ledger

(* A task that moves on without settling leaves its phase as it is. *)
LEMMA PendingStutters ==
  ASSUME TypeOK, NEW r \in Requests, Pending(r),
         NEW l \in {"embedding", "planning", "starting", "resolving", "trying"},
         Goto(r, l), UNCHANGED <<live, request, window, reply, records>>
  PROVE  UNCHANGED Service!vars
<1>1. ServicePhase(r) = "pending" /\ ServicePhase(r)' = "pending"
  BY DEF TypeOK, Pending, ServicePhase
<1>2. Phase' = Phase
  BY <1>1, PhaseOfStep DEF Phase
<1>3. QED
  BY <1>2 DEF Service!vars, Phase

(* The promise reads configurations as the pipeline does. *)
LEMMA SameEligible ==
  ASSUME NEW c, NEW q
  PROVE  Service!Eligible(c, q) = Eligible(c, q)
<1>1. Service!LocalCandidates(c) = LocalCandidates(c)
  BY DEF Service!LocalCandidates, LocalCandidates, Service!Range, Range
<1>2. \A t \in Tiers : Service!TierCandidates(c, t) = TierCandidates(c, t)
  BY DEF Service!TierCandidates, TierCandidates
<1>3. Service!LocalPool(c) = LocalPool(c) /\ Service!TierPool(c) = TierPool(c)
  BY <1>1, <1>2 DEF Service!LocalPool, LocalPool, Service!TierPool, TierPool,
                     Service!Range, Range
<1>4. Service!Pinned(q) = Pinned(q)
  BY DEF Service!Pinned, Pinned
<1>5. \A m : Service!Fits(c, q, m) = Fits(c, q, m)
  BY DEF Service!Fits, Fits
<1>6. QED
  BY <1>3, <1>4, <1>5 DEF Service!Eligible, Eligible

LEMMA ServiceInit == Init => Service!Init
BY DEF Init, Service!Init, ServicePhase

LEMMA ServiceStep ==
  TypeInv /\ LedgerInv /\ PromiseInv /\ [Next]_vars => [Service!Next]_(Service!vars)
<1> SUFFICES ASSUME TypeInv, LedgerInv, PromiseInv, [Next]_vars
             PROVE  Service!Next \/ UNCHANGED Service!vars
  OBVIOUS
<1>0. /\ TypeOK
      /\ pc \in [Requests -> {"idle", "embedding", "planning", "starting",
                "resolving", "trying", "streaming", "done", "failed", "gone"}]
      /\ reply \in [Requests -> Models \cup {NoModel}]
  BY DEF TypeInv, TypeOK
<1> USE <1>0
<1>a. \A r \in Requests : pc[r] \notin {"done", "failed"} => records[r] = <<>>
  BY DEF LedgerInv, LedgerExact
<1>1. CASE UNCHANGED vars
  BY <1>1 DEF Service!vars, ServicePhase
<1>2. ASSUME NEW c \in Configs, Reload(c) PROVE Service!Next
  <2>1. \A r \in Requests : Phase[r] = "pending" <=>
                              pc[r] \notin {"done", "failed", "gone", "idle", "streaming"}
    BY DEF Phase, ServicePhase
  <2>2. UNCHANGED <<Phase, Ledger, request, reply>>
    BY <1>2 DEF Reload, Phase, ServicePhase, Ledger
  <2>3. Service!Reload(c)
    BY <1>2, <2>1, <2>2 DEF Reload, Service!Reload, Phase, Ledger
  <2>4. QED
    BY <2>3 DEF Service!Next
<1>3. ASSUME NEW e \in cache, Forget(e) PROVE UNCHANGED Service!vars
  BY <1>3 DEF Forget, Service!vars, ServicePhase
<1>4. ASSUME NEW r \in Requests, RequestStep(r)
      PROVE  Service!Next \/ UNCHANGED Service!vars
  <2>1. CASE Arrive(r)
    <3>1. PICK l \in {"starting", "embedding", "planning"} : Goto(r, l)
      BY <2>1 DEF Arrive
    <3>2. ServicePhase(r) = "idle" /\ ServicePhase(r)' = "pending"
      BY <2>1, <3>1 DEF Arrive, ServicePhase
    <3>3. Phase' = [Phase EXCEPT ![r] = "pending"] /\ Phase[r] = "idle"
      BY <3>1, <3>2, PhaseOfStep DEF Phase
    <3>4. Service!Arrive(r)
      BY <2>1, <3>3 DEF Arrive, Service!Arrive, Phase
    <3>5. QED
      BY <3>4 DEF Service!Next
  <2>2. ASSUME NEW e \in cache, CacheHit(r, e) PROVE Service!Next
    <3>1. PICK o \in Requests :
            /\ pc[o] = "done" /\ reply[o] = e.model /\ ~request[o].stream
            /\ request[o].pin = e.pin /\ request[o].prompt = e.prompt
      BY DEF PromiseInv, CacheGiven
    <3>2. Service!Repeats(request[r], o, e.model)
      BY <2>2, <3>1 DEF CacheHit, Service!Repeats, ServicePhase
    <3>3. ServicePhase(r) = "pending" /\ ServicePhase(r)' = "answered"
      BY <2>2 DEF CacheHit, ServicePhase
    <3>4. Phase' = [Phase EXCEPT ![r] = "answered"] /\ Phase[r] = "pending"
      BY <2>2, <3>3, PhaseOfStep DEF CacheHit, Phase
    <3>5. Ledger' = [Ledger EXCEPT ![r] = 1]
      BY <1>a, <2>2, LedgerOfStep DEF CacheHit
    <3>6. e.model \in Models /\ ~request[r].stream
      BY <2>2 DEF TypeOK, CacheHit, PromiseInv, CacheGiven
    <3>7. Service!AnswerAgain(r, e.model)
      BY <2>2, <3>2, <3>4, <3>5, <3>6 DEF CacheHit, Service!AnswerAgain, Phase, Ledger
    <3>8. QED
      BY <3>6, <3>7 DEF Service!Next
  <2>3. ASSUME NEW b \in BOOLEAN, CacheMiss(r, b) PROVE UNCHANGED Service!vars
    BY <2>3, PendingStutters DEF CacheMiss, Pending
  <2>4. CASE CaptureShadow(r)
    BY <2>4, PendingStutters DEF CaptureShadow, Pending
  <2>5. CASE TakeSnapshot(r)
    BY <2>5, PendingStutters DEF TakeSnapshot, Pending
  <2>f. ASSUME Goto(r, "failed"), Log(r, NoModel, "none", "error", FALSE), Pending(r),
               UNCHANGED <<live, request, window, reply>>
        PROVE  Service!Next
    <3>1. ServicePhase(r) = "pending" /\ ServicePhase(r)' = "failed"
      BY <2>f DEF Pending, ServicePhase
    <3>2. Phase' = [Phase EXCEPT ![r] = "failed"] /\ Phase[r] = "pending"
      BY <2>f, <3>1, PhaseOfStep DEF Phase
    <3>3. Ledger' = [Ledger EXCEPT ![r] = 1]
      BY <1>a, <2>f, LedgerOfStep DEF Pending
    <3>4. Service!Fail(r)
      BY <2>f, <3>2, <3>3 DEF Service!Fail, Phase, Ledger
    <3>5. QED
      BY <3>4 DEF Service!Next
  <2>6. CASE Resolve(r)
    <3>0. PICK d \in Decisions(snap[r], request[r]) :
            \E e \in Netted(snap[r], request[r], d) : Refuse(r, e) \/ Plan(r, e)
      BY <2>6 DEF Resolve
    <3>1. PICK e \in Netted(snap[r], request[r], d) : Refuse(r, e) \/ Plan(r, e)
      BY <3>0
    <3>2. UNCHANGED <<live, request, window, reply>> /\ Pending(r)
      BY <2>6 DEF Resolve, Pending
    <3>3. CASE Refuse(r, e)
      BY <2>f, <3>2, <3>3 DEF Refuse
    <3>4. CASE Plan(r, e)
      BY <3>2, <3>4, PendingStutters DEF Plan
    <3>5. QED
      BY <3>1, <3>3, <3>4
  <2>7. ASSUME NEW i \in todo[r], Skip(r, i) \/ CallFails(r, i)
        PROVE  UNCHANGED Service!vars
    BY <2>7 DEF Skip, CallFails, Service!vars, ServicePhase
  <2>e. ASSUME NEW i \in todo[r], AtCandidate(r, i), ModelAt(r, i) \in snap[r].models
        PROVE  /\ ModelAt(r, i) \in Models
               /\ \E c \in window[r] : ModelAt(r, i) \in Eligible(c, request[r])
    <3>1. ModelAt(r, i) \in Eligible(snap[r], request[r]) /\ snap[r] \in window[r]
      BY <2>e DEF AtCandidate, PromiseInv, PlanEligible, SnapInWindow
    <3>2. snap[r] \in Configs
      BY DEF TypeOK
    <3>3. QED
      BY <2>e, <3>1, <3>2, RegisteredAreModels
  <2>8. ASSUME NEW i \in todo[r], StreamOpens(r, i) PROVE Service!Next
    <3>1. ServicePhase(r) = "pending" /\ ServicePhase(r)' = "streaming"
      BY <2>8 DEF StreamOpens, AtCandidate, ServicePhase
    <3>2. Phase' = [Phase EXCEPT ![r] = "streaming"] /\ Phase[r] = "pending"
      BY <2>8, <3>1, PhaseOfStep DEF StreamOpens, Phase
    <3>3. /\ ModelAt(r, i) \in Models
          /\ \E c \in window[r] : ModelAt(r, i) \in Eligible(c, request[r])
      BY <2>8, <2>e DEF StreamOpens
    <3>4. /\ request[r].stream /\ reply' = [reply EXCEPT ![r] = ModelAt(r, i)]
          /\ UNCHANGED <<live, request, window, records>>
      BY <2>8 DEF StreamOpens
    <3>5. Service!StartStream(r, ModelAt(r, i))
      BY <3>2, <3>3, <3>4, SameEligible DEF Service!StartStream, Phase
    <3>6. QED
      BY <3>3, <3>5 DEF Service!Next
  <2>9. ASSUME NEW i \in todo[r], NEW empty \in BOOLEAN, NEW sampled \in BOOLEAN,
               CallAnswers(r, i, empty, sampled)
        PROVE  Service!Next
    <3>1. ServicePhase(r) = "pending" /\ ServicePhase(r)' = "answered"
      BY <2>9 DEF CallAnswers, AtCandidate, ServicePhase
    <3>2. Phase' = [Phase EXCEPT ![r] = "answered"] /\ Phase[r] = "pending"
      BY <2>9, <3>1, PhaseOfStep DEF CallAnswers, Phase
    <3>3. PICK m \in Models : /\ m = ModelAt(r, i)
                              /\ \E c \in window[r] : m \in Eligible(c, request[r])
      BY <2>9, <2>e DEF CallAnswers
    <3>4. Ledger' = [Ledger EXCEPT ![r] = 1]
      BY <1>a, <2>9, LedgerOfStep DEF CallAnswers, AtCandidate
    <3>5. /\ reply' = [reply EXCEPT ![r] = m]
          /\ UNCHANGED <<live, request, window>>
      BY <2>9, <3>3 DEF CallAnswers
    <3>6. Service!Answer(r, m)
      BY <3>2, <3>3, <3>4, <3>5, SameEligible DEF Service!Answer, Phase, Ledger
    <3>7. QED
      BY <3>6 DEF Service!Next
  <2>10. CASE GiveUp(r)
    BY <2>f, <2>10 DEF GiveUp, Pending
  <2>11. ASSUME NEW o \in {"ok", "error"}, StreamEnds(r, o) PROVE Service!Next
    <3>1. ServicePhase(r) = "streaming" /\ ServicePhase(r)' = "answered"
      BY <2>11 DEF StreamEnds, ServicePhase
    <3>2. Phase' = [Phase EXCEPT ![r] = "answered"] /\ Phase[r] = "streaming"
      BY <2>11, <3>1, PhaseOfStep DEF StreamEnds, Phase
    <3>3. Ledger' = [Ledger EXCEPT ![r] = 1]
      BY <1>a, <2>11, LedgerOfStep DEF StreamEnds
    <3>4. UNCHANGED <<live, request, window, reply>>
      BY <2>11 DEF StreamEnds
    <3>5. Service!EndStream(r)
      BY <3>2, <3>3, <3>4 DEF Service!EndStream, Phase, Ledger
    <3>6. QED
      BY <3>5 DEF Service!Next
  <2>12. CASE Drop(r)
    <3>1. ServicePhase(r) \in {"pending", "streaming"} /\ ServicePhase(r)' = "gone"
      BY <2>12 DEF Drop, Awaiting, AtCandidate, ServicePhase
    <3>2. Phase' = [Phase EXCEPT ![r] = "gone"] /\ Phase[r] \in {"pending", "streaming"}
      BY <2>12, <3>1, PhaseOfStep DEF Drop, Phase
    <3>3. UNCHANGED <<live, request, window, reply, records>>
      BY <2>12 DEF Drop
    <3>4. Service!Abandon(r)
      BY <3>2, <3>3 DEF Service!Abandon, Phase
    <3>5. QED
      BY <3>4 DEF Service!Next
  <2>13. QED
    BY <1>4, <2>1, <2>2, <2>3, <2>4, <2>5, <2>6, <2>7, <2>8, <2>9, <2>10, <2>11, <2>12
       DEF RequestStep
<1>5. ASSUME NEW r \in Requests, ShadowStep(r) PROVE UNCHANGED Service!vars
  BY <1>5 DEF ShadowStep, ShadowStarts, ShadowFails, ShadowJudged, Advance,
              Service!vars, ServicePhase
<1>6. CASE Quiesced
  BY <1>1, <1>6 DEF Quiesced
<1>7. QED
  BY <1>1, <1>2, <1>3, <1>4, <1>5, <1>6 DEF Next

(* The pipeline implements GatewayService: whatever reloads, failovers, cache
   hits and promotions happen, every request is served as if under one
   configuration that was live while it was pending, or repeats such an answer
   from the cache, and is settled and recorded once. *)
THEOREM KeepsPromise == Spec => ServicePromise
<1>1. Spec => [](TypeInv /\ LedgerInv /\ PromiseInv)
  <2>1. Init => TypeInv /\ LedgerInv /\ PromiseInv
    BY TypeInit, PromiseInit DEF Init, LedgerInv, LedgerExact
  <2>2. TypeInv /\ LedgerInv /\ PromiseInv /\ [Next]_vars
          => (TypeInv /\ LedgerInv /\ PromiseInv)'
    BY TypeStep, LedgerStep, SnapStep, PlanStep, CacheStep DEF PromiseInv, TypeInv
  <2>3. QED
    BY <2>1, <2>2, PTL DEF Spec
<1>2. Spec => Service!Init /\ [][Service!Next]_(Service!vars)
  BY <1>1, ServiceInit, ServiceStep, PTL DEF Spec
<1>3. QED
  BY <1>2 DEF ServicePromise, Service!Spec

-----------------------------------------------------------------------------
(* Failover and pins: candidates are tried in the order of preference, an error
   means that nothing was left to try, and a pin goes elsewhere only through
   local-only. *)

Before == {"idle", "embedding", "planning", "starting", "resolving"}

KeptOf(r) == Kept(snap[r], request[r], decision[r].cands)

(* Every usable candidate is still to be tried, or was called in vain. *)
Covered(r) ==
  /\ KeptOf(r) \subseteq todo[r] \cup failed[r]
  /\ front[r] \in snap[r].models => 0 \in todo[r] \cup failed[r]

(* The inductive form: before resolve() nothing is planned or tried, after it
   there is something usable, of which nothing gets lost. *)
PlanOf(r) ==
  /\ pc[r] \in Before => decision[r] = NoDecision /\ front[r] = NoModel /\ failed[r] = {}
  /\ pc[r] = "trying" => decision[r] # NoDecision /\ KeptOf(r) # {} /\ Covered(r)
  /\ attempt[r] > 0 <=> failed[r] # {}

FailoverOf(r) ==
  PlanOf(r) /\ ByPreference(r) /\ (pc[r] = "failed" => Exhausted(r))

FailoverInv == \A r \in Requests : FailoverOf(r)

-----------------------------------------------------------------------------
(* Lemmas on routing decisions. *)

(* A decision that was taken is told from none by its source. *)
LEMMA DecisionTaken ==
  ASSUME NEW c, NEW q, NEW d \in Decisions(c, q), NEW e \in Netted(c, q, d)
  PROVE  e # NoDecision
<1>1. d.source \in {"local", "pinned", "router", "fallback"}
  BY DEF Decisions, Local, Routed, Decision
<1>2. e.source = d.source
  BY DEF Netted, Decisions, Local, Routed, Decision
<1>3. NoDecision.source = "none"
  BY DEF NoDecision, Decision
<1>4. QED
  BY <1>1, <1>2, <1>3

(* Where the safety net has nothing either, no managed server and no default
   could have served the request. *)
LEMMA NetHasNothing ==
  ASSUME NEW c \in Configs, NEW q \in Asks,
         NEW d \in Decisions(c, q), NEW e \in Netted(c, q, d),
         Kept(c, q, e.cands) = {}, ~Pinned(q), c.manage,
         NEW m \in Range(c.servers) \cup {c.default}
  PROVE  ~Fits(c, q, m)
<1>1. c.servers \in Seq(Models) /\ NoModel \notin c.models
  BY ConfigsAssumption DEF ConfigType
<1>2. PICK s \in LocalCandidates(c) : e = [d EXCEPT !.cands = s]
  BY DEF Netted
<1>3. e.cands = s
  <2>1. "cands" \in DOMAIN d
    BY DEF Decisions, Local, Routed, Decision
  <2>2. QED
    BY <1>2, <2>1
<1> DEFINE listed == IF c.default = NoModel \/ c.default \in Range(c.servers)
                     THEN c.servers ELSE Append(c.servers, c.default)
<1>4. CASE m = NoModel
  BY <1>1, <1>4 DEF Fits
<1>5. CASE m # NoModel
  <2>1. PICK i \in DOMAIN listed : listed[i] = m
    <3>1. CASE m \in Range(c.servers)
      <4>1. PICK i \in DOMAIN c.servers : c.servers[i] = m
        BY <3>1 DEF Range
      <4>2. i \in DOMAIN listed /\ listed[i] = m
        BY <4>1, <1>1
      <4>3. QED
        BY <4>2
    <3>2. CASE m \notin Range(c.servers)
      <4>1. m = c.default /\ listed = Append(c.servers, m)
        BY <3>2, <1>5
      <4>2. Len(c.servers) + 1 \in DOMAIN listed /\ listed[Len(c.servers) + 1] = m
        BY <4>1, <1>1
      <4>3. QED
        BY <4>2
    <3>3. QED
      BY <3>1, <3>2
  <2>2. listed # <<>>
    BY <2>1
  <2>3. LocalCandidates(c) = {listed}
    BY <2>2 DEF LocalCandidates
  <2>4. s = listed
    BY <2>3, <1>2
  <2>5. QED
    BY <2>1, <2>4, <1>3 DEF Kept
<1>6. QED
  BY <1>4, <1>5

-----------------------------------------------------------------------------
(* Failover. *)

(* What is kept by a step that leaves a request alone. *)
LEMMA Untouched ==
  ASSUME NEW x \in Requests, FailoverOf(x),
         pc'[x] = pc[x], snap'[x] = snap[x], request'[x] = request[x],
         decision'[x] = decision[x], front'[x] = front[x], todo'[x] = todo[x],
         attempt'[x] = attempt[x], failed'[x] = failed[x],
         winner'[x] = winner[x], records'[x] = records[x]
  PROVE  FailoverOf(x)'
BY DEF FailoverOf, PlanOf, ByPreference, Exhausted, KeptOf, Covered, AnsweredByCall

(* And by a step of a request that has no decision yet and gets none. *)
LEMMA Undecided ==
  ASSUME NEW r \in Requests, FailoverOf(r), pc[r] \in Before, pc'[r] \notin {"trying", "failed"},
         decision'[r] = decision[r], front'[r] = front[r],
         attempt'[r] = attempt[r], failed'[r] = failed[r]
  PROVE  FailoverOf(r)'
BY DEF FailoverOf, PlanOf, ByPreference, KeptOf, AnsweredByCall, Before

(* resolve() refuses what nothing can serve, and plans what something can. *)
LEMMA ResolveDecides ==
  ASSUME TypeOK, NEW r \in Requests, FailoverOf(r), Resolve(r)
  PROVE  FailoverOf(r)'
<1>1. PICK d \in Decisions(snap[r], request[r]) :
        \E e \in Netted(snap[r], request[r], d) : Refuse(r, e) \/ Plan(r, e)
  BY DEF Resolve
<1>2. PICK e \in Netted(snap[r], request[r], d) : Refuse(r, e) \/ Plan(r, e)
  BY <1>1
<1>3. /\ pc[r] = "resolving" /\ front[r] = NoModel /\ failed[r] = {}
      /\ snap' = snap /\ request' = request /\ attempt' = attempt /\ failed' = failed
      /\ snap[r] \in Configs /\ request[r] \in Asks
      /\ attempt[r] > 0 <=> failed[r] # {}
  BY DEF Resolve, FailoverOf, PlanOf, Before, TypeOK
<1>4. e # NoDecision
  BY DecisionTaken
<1>5. NoModel \notin snap[r].models
  BY <1>3, RegisteredAreModels, ConfigsAssumption
<1>6. CASE Refuse(r, e)
  <2>1. /\ Kept(snap[r], request[r], e.cands) = {} /\ decision'[r] = e
        /\ pc'[r] = "failed" /\ front' = front
    BY <1>6 DEF Refuse, TypeOK
  <2>2. ~Pinned(request[r]) /\ snap[r].manage =>
          \A m \in Range(snap[r].servers) \cup {snap[r].default} :
            ~Fits(snap[r], request[r], m)
    BY <1>3, <2>1, NetHasNothing
  <2>3. Exhausted(r)'
    BY <1>3, <1>5, <2>1, <2>2 DEF Exhausted
  <2>4. QED
    BY <1>3, <2>1, <2>3 DEF FailoverOf, PlanOf, ByPreference, AnsweredByCall, Before
<1>7. CASE Plan(r, e)
  <2>1. /\ Kept(snap[r], request[r], e.cands) # {} /\ decision'[r] = e
        /\ pc'[r] = "trying"
        /\ Kept(snap[r], request[r], e.cands) \subseteq todo'[r]
        /\ front'[r] # NoModel => 0 \in todo'[r]
    BY <1>7 DEF Plan, TypeOK
  <2>2. Covered(r)'
    BY <1>3, <1>5, <2>1 DEF Covered, KeptOf
  <2>3. QED
    BY <1>3, <1>4, <2>1, <2>2
    DEF FailoverOf, PlanOf, ByPreference, AnsweredByCall, Before, KeptOf
<1>8. QED
  BY <1>2, <1>6, <1>7

(* Only what has no provider is passed over, and only a failed call counts. *)
LEMMA LoopCovers ==
  ASSUME TypeOK, NEW r \in Requests, FailoverOf(r), NEW i \in todo[r],
         Skip(r, i) \/ CallFails(r, i)
  PROVE  FailoverOf(r)'
<1>1. /\ pc'[r] = "trying" /\ pc[r] = "trying"
      /\ decision' = decision /\ snap' = snap /\ request' = request /\ front' = front
      /\ todo'[r] = todo[r] \ {i}
      /\ decision[r] # NoDecision /\ KeptOf(r) # {} /\ Covered(r)
      /\ attempt[r] \in Nat /\ (attempt[r] > 0 <=> failed[r] # {})
  BY DEF Skip, CallFails, AtCandidate, TypeOK, FailoverOf, PlanOf
<1>2. CASE Skip(r, i)
  <2>1. /\ attempt' = attempt /\ failed' = failed
        /\ ModelAt(r, i) \notin snap[r].models
    BY <1>2 DEF Skip
  <2>2. i \notin KeptOf(r) \/ i = 0
    BY <2>1 DEF KeptOf, Kept, Fits, ModelAt
  <2>3. 0 \notin KeptOf(r)
    BY DEF KeptOf, Kept, TypeOK, DecisionType
  <2>4. i = 0 => front[r] \notin snap[r].models
    BY <2>1 DEF ModelAt
  <2>5. Covered(r)'
    BY <1>1, <2>1, <2>2, <2>3, <2>4 DEF Covered, KeptOf
  <2>6. QED
    BY <1>1, <2>1, <2>5 DEF FailoverOf, PlanOf, ByPreference, AnsweredByCall, Before, KeptOf
<1>3. CASE CallFails(r, i)
  <2>1. attempt'[r] = attempt[r] + 1 /\ failed'[r] = failed[r] \cup {i}
    BY <1>3 DEF CallFails, TypeOK
  <2>2. Covered(r)'
    BY <1>1, <2>1 DEF Covered, KeptOf
  <2>3. QED
    BY <1>1, <2>1, <2>2 DEF FailoverOf, PlanOf, ByPreference, AnsweredByCall, Before, KeptOf
<1>4. QED
  BY <1>2, <1>3

(* The model that answers is the first that is left. *)
LEMMA AnswerPreferred ==
  ASSUME TypeOK, NEW r \in Requests, FailoverOf(r), NEW i \in todo[r],
         AtCandidate(r, i), winner'[r] = i, pc'[r] \in {"done", "streaming"},
         pc'[r] = "done" => records'[r][1].failover = (attempt[r] > 0),
         UNCHANGED <<snap, request, decision, front, todo, attempt, failed>>
  PROVE  FailoverOf(r)'
<1>1. /\ Covered(r) /\ pc[r] = "trying" /\ (attempt[r] > 0 <=> failed[r] # {})
      /\ \A j \in todo[r] : i <= j
      /\ i \in Nat /\ todo[r] \subseteq Nat /\ KeptOf(r) \subseteq Nat
  BY DEF FailoverOf, PlanOf, AtCandidate, TypeOK, KeptOf, Kept, DecisionType
<1>2. \A j \in KeptOf(r) : j < i => j \in failed[r]
  BY <1>1 DEF Covered
<1>3. front[r] \in snap[r].models /\ i > 0 => 0 \in failed[r]
  BY <1>1 DEF Covered
<1>4. ByPreference(r)'
  BY <1>1, <1>2, <1>3 DEF ByPreference, KeptOf
<1>5. QED
  BY <1>1, <1>4 DEF FailoverOf, PlanOf, Before

(* The first record that Log writes of a request has the flag it is given. *)
LEMMA LoggedFlag ==
  ASSUME TypeOK, NEW r \in Requests, records[r] = <<>>,
         NEW m, NEW s, NEW o, NEW f, Log(r, m, s, o, f)
  PROVE  records'[r][1].failover = f
<1>1. records'[r] = <<[model |-> m, source |-> s, outcome |-> o, failover |-> f]>>
  BY DEF Log, TypeOK
<1>2. QED
  BY <1>1

LEMMA FailoverStep ==
  TypeOK /\ LedgerInv /\ FailoverInv /\ [Next]_vars => FailoverInv'
<1> SUFFICES ASSUME TypeOK, LedgerInv, FailoverInv, [Next]_vars PROVE FailoverInv'
  OBVIOUS
(* A step of one request has to be checked for that one only. *)
<1>1. ASSUME NEW r \in Requests, FailoverOf(r)',
             \A x \in Requests \ {r} :
               /\ pc'[x] = pc[x] /\ snap'[x] = snap[x] /\ request'[x] = request[x]
               /\ decision'[x] = decision[x] /\ front'[x] = front[x] /\ todo'[x] = todo[x]
               /\ attempt'[x] = attempt[x] /\ failed'[x] = failed[x]
               /\ winner'[x] = winner[x] /\ records'[x] = records[x]
      PROVE  FailoverInv'
  BY <1>1, Untouched DEF FailoverInv
<1>2. ASSUME UNCHANGED <<pc, plan, request, winner, records>> PROVE FailoverInv'
  BY <1>2, Untouched DEF FailoverInv
<1>3. CASE UNCHANGED vars
  BY <1>2, <1>3
<1>4. ASSUME NEW c \in Configs, Reload(c) PROVE FailoverInv'
  BY <1>2, <1>4 DEF Reload
<1>5. ASSUME NEW e \in cache, Forget(e) PROVE FailoverInv'
  BY <1>2, <1>5 DEF Forget
<1>6. ASSUME NEW r \in Requests, RequestStep(r) PROVE FailoverInv'
  <2>0. /\ FailoverOf(r)
        /\ pc[r] \notin {"done", "failed"} => records[r] = <<>>
    BY DEF FailoverInv, LedgerInv, LedgerExact
  <2>1. ASSUME Arrive(r) \/ CaptureShadow(r) \/ (\E b \in BOOLEAN : CacheMiss(r, b))
        PROVE  FailoverInv'
    <3>1. FailoverOf(r)'
      BY <2>0, <2>1, Undecided DEF Arrive, CaptureShadow, CacheMiss, Before, TypeOK
    <3>2. QED
      BY <1>1, <2>1, <3>1 DEF Arrive, CaptureShadow, CacheMiss, TypeOK
  <2>2. ASSUME NEW e \in cache, CacheHit(r, e) PROVE FailoverInv'
    <3>1. FailoverOf(r)'
      BY <2>0, <2>2, Undecided DEF CacheHit, Before, TypeOK
    <3>2. QED
      BY <1>1, <2>2, <3>1 DEF CacheHit, Log, TypeOK
  <2>3. CASE TakeSnapshot(r)
    <3>1. FailoverOf(r)'
      BY <2>0, <2>3, Undecided DEF TakeSnapshot, Before, TypeOK
    <3>2. QED
      BY <1>1, <2>3, <3>1 DEF TakeSnapshot, TypeOK
  <2>4. CASE Resolve(r)
    <3>1. FailoverOf(r)'
      BY <2>0, <2>4, ResolveDecides
    <3>2. QED
      BY <1>1, <2>4, <3>1 DEF Resolve, Refuse, Plan, Log, TypeOK
  <2>5. ASSUME NEW i \in todo[r], Skip(r, i) \/ CallFails(r, i) PROVE FailoverInv'
    <3>1. FailoverOf(r)'
      BY <2>0, <2>5, LoopCovers
    <3>2. QED
      BY <1>1, <2>5, <3>1 DEF Skip, CallFails, TypeOK
  <2>6. ASSUME NEW i \in todo[r], StreamOpens(r, i) PROVE FailoverInv'
    <3>1. FailoverOf(r)'
      BY <2>0, <2>6, AnswerPreferred DEF StreamOpens, TypeOK
    <3>2. QED
      BY <1>1, <2>6, <3>1 DEF StreamOpens, TypeOK
  <2>7. ASSUME NEW i \in todo[r], NEW empty \in BOOLEAN, NEW sampled \in BOOLEAN,
               CallAnswers(r, i, empty, sampled)
        PROVE  FailoverInv'
    <3>1. Log(r, ModelAt(r, i), decision[r].source, "ok", attempt[r] > 0)
          /\ AtCandidate(r, i) /\ records[r] = <<>>
      BY <2>0, <2>7 DEF CallAnswers, AtCandidate
    <3>2. records'[r][1].failover = (attempt[r] > 0)
      BY <3>1, LoggedFlag
    <3>3. winner'[r] = i /\ pc'[r] = "done"
          /\ UNCHANGED <<snap, request, decision, front, todo, attempt, failed>>
      BY <2>7 DEF CallAnswers, TypeOK
    <3>4. FailoverOf(r)'
      BY <2>0, <3>1, <3>2, <3>3, AnswerPreferred
    <3>5. QED
      BY <1>1, <2>7, <3>4 DEF CallAnswers, Log, TypeOK
  <2>8. CASE GiveUp(r)
    <3>1. /\ pc'[r] = "failed" /\ KeptOf(r) \subseteq failed[r] /\ KeptOf(r) # {}
          /\ front[r] \in snap[r].models => 0 \in failed[r]
          /\ UNCHANGED <<snap, request, decision, front, todo, attempt, failed>>
          /\ attempt[r] > 0 <=> failed[r] # {}
      BY <2>0, <2>8 DEF GiveUp, FailoverOf, PlanOf, Covered, TypeOK
    <3>2. FailoverOf(r)'
      BY <3>1 DEF FailoverOf, PlanOf, ByPreference, AnsweredByCall, Exhausted, KeptOf, Before
    <3>3. QED
      BY <1>1, <2>8, <3>2 DEF GiveUp, Log, TypeOK
  <2>9. ASSUME NEW o \in {"ok", "error"}, StreamEnds(r, o) PROVE FailoverInv'
    <3>1. records'[r][1].failover = (attempt[r] > 0)
      BY <2>0, <2>9, LoggedFlag DEF StreamEnds
    <3>2. FailoverOf(r)'
      BY <2>0, <2>9, <3>1
      DEF StreamEnds, FailoverOf, PlanOf, ByPreference, AnsweredByCall, Before, TypeOK
    <3>3. QED
      BY <1>1, <2>9, <3>2 DEF StreamEnds, Log, TypeOK
  <2>10. CASE Drop(r)
    <3>1. FailoverOf(r)'
      BY <2>0, <2>10 DEF Drop, FailoverOf, PlanOf, ByPreference, AnsweredByCall, Before, TypeOK
    <3>2. QED
      BY <1>1, <2>10, <3>1 DEF Drop, TypeOK
  <2>11. QED
    BY <1>6, <2>1, <2>2, <2>3, <2>4, <2>5, <2>6, <2>7, <2>8, <2>9, <2>10 DEF RequestStep
<1>7. ASSUME NEW r \in Requests, ShadowStep(r) PROVE FailoverInv'
  BY <1>2, <1>7 DEF ShadowStep, ShadowStarts, ShadowFails, ShadowJudged, Advance
<1>8. CASE Quiesced
  BY <1>3, <1>8 DEF Quiesced
<1>9. QED
  BY <1>3, <1>4, <1>5, <1>6, <1>7, <1>8 DEF Next

LEMMA FailoverInit == Init => FailoverInv
BY DEF Init, FailoverInv, FailoverOf, PlanOf, ByPreference, AnsweredByCall

LEMMA InvariantsHold == Spec => [](TypeOK /\ LedgerInv /\ PromiseInv /\ FailoverInv)
<1>1. Init => TypeInv /\ LedgerInv /\ PromiseInv /\ FailoverInv
  BY TypeInit, PromiseInit, FailoverInit DEF Init, LedgerInv, LedgerExact
<1>2. TypeInv /\ LedgerInv /\ PromiseInv /\ FailoverInv /\ [Next]_vars
        => (TypeInv /\ LedgerInv /\ PromiseInv /\ FailoverInv)'
  BY TypeStep, LedgerStep, SnapStep, PlanStep, CacheStep, FailoverStep DEF PromiseInv, TypeInv
<1>3. TypeInv => TypeOK
  BY DEF TypeInv
<1>4. QED
  BY <1>1, <1>2, <1>3, PTL DEF Spec

(* PreferenceRespected: the model that answers was preceded only by candidates
   that were called and failed, and `failover` says so. *)
THEOREM PreferredFirst == Spec => []PreferenceRespected
<1>1. FailoverInv => PreferenceRespected
  BY DEF FailoverInv, FailoverOf, PreferenceRespected
<1>2. QED
  BY <1>1, InvariantsHold, PTL

(* FailureExhaustive: an error reaches the client only when every usable
   candidate was called in vain, and the safety net had nothing. *)
THEOREM ErrorsAreLast == Spec => []FailureExhaustive
<1>1. FailoverInv => FailureExhaustive
  BY DEF FailoverInv, FailoverOf, FailureExhaustive
<1>2. QED
  BY <1>1, InvariantsHold, PTL

-----------------------------------------------------------------------------
(* Pins. *)

(* Model m was given in full, under local-only, to a request pinned to p. *)
GivenLocally(p, m) ==
  \E o \in Requests : /\ pc[o] = "done" /\ decision[o] # NoDecision /\ snap[o].localOnly
                       /\ request[o].pin = p /\ reply[o] = m

(* The inductive form: so are the diverted answers of the cache, and a diverted
   request was given one of those, or an answer under local-only itself.  (That
   the witness of another request is done, and not still streaming, matters: a
   stream may be dropped.) *)
DivertedInCache ==
  \A e \in cache : e.pin # NoModel /\ e.model # e.pin => GivenLocally(e.pin, e.model)

DivertedOf(r) ==
  Pinned(request[r]) /\ pc[r] \in {"done", "streaming"} /\ reply[r] # request[r].pin =>
    \/ decision[r] # NoDecision /\ snap[r].localOnly
    \/ GivenLocally(request[r].pin, reply[r])

PinInv == DivertedInCache /\ \A r \in Requests : DivertedOf(r)

(* Nothing is taken back from a request that is done. *)
LEMMA DoneStays ==
  ASSUME TypeOK, [Next]_vars, NEW o \in Requests, pc[o] = "done"
  PROVE  /\ pc'[o] = "done" /\ decision'[o] = decision[o] /\ snap'[o] = snap[o]
         /\ request'[o] = request[o] /\ reply'[o] = reply[o]
<1> USE DEF TypeOK
<1>1. CASE UNCHANGED vars
  BY <1>1
<1>2. ASSUME NEW c \in Configs, Reload(c)
      PROVE  UNCHANGED <<pc, decision, snap, request, reply>>
  BY <1>2 DEF Reload
<1>3. ASSUME NEW e \in cache, Forget(e)
      PROVE  UNCHANGED <<pc, decision, snap, request, reply>>
  BY <1>3 DEF Forget
<1>4. ASSUME NEW r \in Requests, RequestStep(r)
      PROVE  /\ pc'[o] = "done" /\ decision'[o] = decision[o] /\ snap'[o] = snap[o]
             /\ request'[o] = request[o] /\ reply'[o] = reply[o]
  <2> DEFINE Same == /\ pc'[o] = "done" /\ decision'[o] = decision[o] /\ snap'[o] = snap[o]
                     /\ request'[o] = request[o] /\ reply'[o] = reply[o]
  <2>1. CASE Arrive(r)
    BY <2>1 DEF Arrive
  <2>2. ASSUME NEW e \in cache, CacheHit(r, e) PROVE Same
    BY <2>2 DEF CacheHit
  <2>3. ASSUME NEW b \in BOOLEAN, CacheMiss(r, b) PROVE Same
    BY <2>3 DEF CacheMiss
  <2>4. CASE CaptureShadow(r) \/ TakeSnapshot(r) \/ GiveUp(r)
    BY <2>4 DEF CaptureShadow, TakeSnapshot, GiveUp
  <2>5. CASE Resolve(r)
    BY <2>5 DEF Resolve, Refuse, Plan
  <2>6. ASSUME NEW i \in todo[r], Skip(r, i) \/ CallFails(r, i) \/ StreamOpens(r, i) PROVE Same
    BY <2>6 DEF Skip, CallFails, StreamOpens, AtCandidate
  <2>7. ASSUME NEW i \in todo[r], NEW empty \in BOOLEAN, NEW sampled \in BOOLEAN,
               CallAnswers(r, i, empty, sampled)
        PROVE  Same
    BY <2>7 DEF CallAnswers, AtCandidate
  <2>8. ASSUME NEW outcome \in {"ok", "error"}, StreamEnds(r, outcome) PROVE Same
    BY <2>8 DEF StreamEnds, Awaiting
  <2>9. CASE Drop(r)
    <3>1. pc[r] # "done"
      BY <2>9 DEF Drop, Awaiting, AtCandidate
    <3>2. UNCHANGED <<decision, snap, request, reply>> /\ pc' = [pc EXCEPT ![r] = "gone"]
      BY <2>9 DEF Drop, plan
    <3>3. r # o
      BY <3>1
    <3>4. QED
      BY <3>2, <3>3
  <2>10. QED
    BY <1>4, <2>1, <2>2, <2>3, <2>4, <2>5, <2>6, <2>7, <2>8, <2>9 DEF RequestStep
<1>5. ASSUME NEW r \in Requests, ShadowStep(r)
      PROVE  UNCHANGED <<pc, decision, snap, request, reply>>
  BY <1>5 DEF ShadowStep, ShadowStarts, ShadowFails, ShadowJudged, Advance
<1>6. CASE Quiesced
  BY <1>1, <1>6 DEF Quiesced
<1>7. QED
  BY <1>1, <1>2, <1>3, <1>4, <1>5, <1>6 DEF Next

LEMMA GivenStays ==
  ASSUME TypeOK, [Next]_vars, NEW p, NEW m, GivenLocally(p, m)
  PROVE  GivenLocally(p, m)'
<1>1. PICK o \in Requests : /\ pc[o] = "done" /\ decision[o] # NoDecision
                            /\ snap[o].localOnly /\ request[o].pin = p /\ reply[o] = m
  BY DEF GivenLocally
<1>2. /\ pc'[o] = "done" /\ decision'[o] = decision[o] /\ snap'[o] = snap[o]
      /\ request'[o] = request[o] /\ reply'[o] = reply[o]
  BY <1>1, DoneStays
<1>3. QED
  BY <1>1, <1>2 DEF GivenLocally, NoDecision, Decision

(* A pin without local-only is offered its model alone. *)
LEMMA PinHeld ==
  ASSUME PlanEligible, NEW r \in Requests, NEW i \in todo[r], AtCandidate(r, i),
         ModelAt(r, i) \in snap[r].models, Pinned(request[r]), ~snap[r].localOnly
  PROVE  ModelAt(r, i) = request[r].pin
<1>1. ModelAt(r, i) \in Eligible(snap[r], request[r])
  BY DEF PlanEligible, AtCandidate
<1>2. QED
  BY <1>1 DEF Eligible

LEMMA PinStep ==
  TypeOK /\ PromiseInv /\ FailoverInv /\ PinInv /\ [Next]_vars => PinInv'
<1> SUFFICES ASSUME TypeOK, PromiseInv, FailoverInv, PinInv, [Next]_vars PROVE PinInv'
  OBVIOUS
(* A step that adds nothing to the cache, and to no request a reply. *)
<1>1. ASSUME cache' \subseteq cache PROVE DivertedInCache'
  BY <1>1, GivenStays DEF PinInv, DivertedInCache
<1>2. ASSUME NEW x \in Requests, pc'[x] \in {"done", "streaming"} => pc[x] \in {"done", "streaming"},
             decision'[x] = decision[x], snap'[x] = snap[x],
             request'[x] = request[x], reply'[x] = reply[x]
      PROVE  DivertedOf(x)'
  BY <1>2, GivenStays DEF PinInv, DivertedOf
<1>3. CASE UNCHANGED vars
  BY <1>1, <1>2, <1>3 DEF PinInv
<1>4. ASSUME NEW c \in Configs, Reload(c) PROVE PinInv'
  BY <1>1, <1>2, <1>4 DEF Reload, PinInv
<1>5. ASSUME NEW e \in cache, Forget(e) PROVE PinInv'
  BY <1>1, <1>2, <1>5 DEF Forget, PinInv
<1>6. ASSUME NEW r \in Requests, RequestStep(r) PROVE PinInv'
  <2>1. ASSUME DivertedOf(r)', cache' \subseteq cache,
               \A x \in Requests \ {r} :
                 /\ pc'[x] = pc[x] /\ snap'[x] = snap[x] /\ request'[x] = request[x]
                 /\ decision'[x] = decision[x] /\ reply'[x] = reply[x]
        PROVE  PinInv'
    BY <1>1, <1>2, <2>1 DEF PinInv
  <2>2. ASSUME Arrive(r) \/ (\E b \in BOOLEAN : CacheMiss(r, b)) \/ CaptureShadow(r)
               \/ GiveUp(r) \/ Drop(r) \/ (\E i \in todo[r] : Skip(r, i) \/ CallFails(r, i))
        PROVE  PinInv'
    <3>1. /\ UNCHANGED <<cache, decision, snap, request, reply>>
          /\ \A x \in Requests \ {r} : pc'[x] = pc[x]
          /\ pc'[r] \notin {"done", "streaming"}
      BY <2>2 DEF Arrive, CacheMiss, CaptureShadow, GiveUp, Drop, Skip, CallFails,
                  AtCandidate, TypeOK
    <3>2. QED
      BY <1>2, <2>1, <3>1
  <2>3. ASSUME TakeSnapshot(r) \/ Resolve(r) PROVE PinInv'
    <3>1. /\ cache' = cache /\ pc'[r] \notin {"done", "streaming"}
          /\ \A x \in Requests \ {r} :
               /\ pc'[x] = pc[x] /\ snap'[x] = snap[x] /\ request'[x] = request[x]
               /\ decision'[x] = decision[x] /\ reply'[x] = reply[x]
      BY <2>3 DEF TakeSnapshot, Resolve, Refuse, Plan, TypeOK
    <3>2. DivertedOf(r)'
      BY <3>1 DEF DivertedOf
    <3>3. QED
      BY <2>1, <3>1, <3>2
  <2>4. ASSUME NEW e \in cache, CacheHit(r, e) PROVE PinInv'
    <3>1. /\ reply'[r] = e.model /\ request' = request /\ e.pin = request[r].pin
          /\ \A x \in Requests \ {r} : pc'[x] = pc[x] /\ reply'[x] = reply[x]
          /\ UNCHANGED <<cache, snap, decision>>
      BY <2>4 DEF CacheHit, TypeOK
    <3>2. Pinned(request[r]) /\ e.model # e.pin => GivenLocally(e.pin, e.model)'
      BY <3>1, GivenStays DEF PinInv, DivertedInCache, Pinned
    <3>3. DivertedOf(r)'
      BY <3>1, <3>2 DEF DivertedOf
    <3>4. QED
      BY <2>1, <3>1, <3>3
  <2>5. ASSUME NEW i \in todo[r], StreamOpens(r, i) PROVE PinInv'
    <3>1. /\ reply'[r] = ModelAt(r, i) /\ decision[r] # NoDecision
          /\ \A x \in Requests \ {r} : pc'[x] = pc[x] /\ reply'[x] = reply[x]
          /\ UNCHANGED <<cache, snap, decision, request>>
      BY <2>5 DEF StreamOpens, AtCandidate, TypeOK, FailoverInv, FailoverOf, PlanOf
    <3>2. Pinned(request[r]) /\ ~snap[r].localOnly => ModelAt(r, i) = request[r].pin
      BY <2>5, PinHeld DEF StreamOpens, PromiseInv
    <3>3. DivertedOf(r)'
      BY <3>1, <3>2 DEF DivertedOf, NoDecision, Decision
    <3>4. QED
      BY <2>1, <3>1, <3>3
  <2>6. ASSUME NEW i \in todo[r], NEW empty \in BOOLEAN, NEW sampled \in BOOLEAN,
               CallAnswers(r, i, empty, sampled)
        PROVE  PinInv'
    <3>1. /\ reply'[r] = ModelAt(r, i) /\ decision[r] # NoDecision /\ pc'[r] = "done"
          /\ \A x \in Requests \ {r} : pc'[x] = pc[x] /\ reply'[x] = reply[x]
          /\ UNCHANGED <<snap, decision, request>>
      BY <2>6 DEF CallAnswers, AtCandidate, TypeOK, FailoverInv, FailoverOf, PlanOf
    <3>2. Pinned(request[r]) /\ ~snap[r].localOnly => ModelAt(r, i) = request[r].pin
      BY <2>6, PinHeld DEF CallAnswers, PromiseInv
    <3>3. DivertedOf(r)'
      BY <3>1, <3>2 DEF DivertedOf, NoDecision, Decision
    <3>4. ASSUME NEW e \in cache', e \notin cache, e.pin # NoModel, e.model # e.pin
          PROVE  GivenLocally(e.pin, e.model)'
      <4>1. e.pin = request[r].pin /\ e.model = ModelAt(r, i)
        BY <2>6, <3>4 DEF CallAnswers
      <4>2. snap[r].localOnly
        BY <3>2, <3>4, <4>1 DEF Pinned
      <4>3. QED
        BY <3>1, <4>1, <4>2 DEF GivenLocally, NoDecision, Decision
    <3>5. DivertedInCache'
      BY <3>4, GivenStays DEF PinInv, DivertedInCache
    <3>6. \A x \in Requests \ {r} : DivertedOf(x)'
      BY <1>2, <3>1
    <3>7. QED
      BY <3>3, <3>5, <3>6 DEF PinInv
  <2>7. ASSUME NEW o \in {"ok", "error"}, StreamEnds(r, o) PROVE PinInv'
    <3>1. /\ UNCHANGED <<cache, decision, snap, request, reply>> /\ pc[r] = "streaming"
          /\ \A x \in Requests \ {r} : pc'[x] = pc[x]
      BY <2>7 DEF StreamEnds, TypeOK
    <3>2. QED
      BY <1>2, <2>1, <3>1
  <2>8. QED
    BY <1>6, <2>2, <2>3, <2>4, <2>5, <2>6, <2>7 DEF RequestStep
<1>7. ASSUME NEW r \in Requests, ShadowStep(r) PROVE PinInv'
  BY <1>1, <1>2, <1>7
  DEF ShadowStep, ShadowStarts, ShadowFails, ShadowJudged, Advance, PinInv
<1>8. CASE Quiesced
  BY <1>3, <1>8 DEF Quiesced
<1>9. QED
  BY <1>3, <1>4, <1>5, <1>6, <1>7, <1>8 DEF Next

(* PinDivertedOnlyByLocalOnly: only local-only answers a pin with another model,
   itself or by way of the cache. *)
THEOREM PinsDivertedLocally == Spec => []PinDivertedOnlyByLocalOnly
<1>1. Init => PinInv
  BY DEF Init, PinInv, DivertedInCache, DivertedOf
<1>2. Spec => []PinInv
  BY <1>1, PinStep, InvariantsHold, PTL DEF Spec
<1>3. PinInv => PinDivertedOnlyByLocalOnly
  BY DEF PinInv, DivertedOf, GivenLocally, PinDivertedOnlyByLocalOnly, AnsweredByCall
<1>4. QED
  BY <1>2, <1>3, PTL
=============================================================================
