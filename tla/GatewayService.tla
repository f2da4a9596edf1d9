--------------------------- MODULE GatewayService ---------------------------
(***************************************************************************)
(* What the gateway promises a client, with no routing, failover, cache or *)
(* reload machinery: every request is served as if under ONE configuration *)
(* that was live at some moment while the request was being processed.     *)
(* Reloads may happen at any time; a request neither mixes two             *)
(* configurations nor is served by a model no configuration offered it.    *)
(* A cached reply repeats a reply that was given, in full, to an earlier   *)
(* request with the same directive and prompt.  Each request is settled at *)
(* most once, and a settled request enters the ledger of statistics.       *)
(***************************************************************************)
EXTENDS LiveConfig

CONSTANTS Requests    \* request slots

VARIABLES live,       \* the configuration in force
          phase,      \* Requests -> idle | pending | answered | failed |
                      \*             streaming | gone
          request,    \* Requests -> what was asked
          window,     \* Requests -> configurations live while it was pending
          reply,      \* Requests -> the model that answered, or NoModel
          ledger      \* Requests -> number of statistics records

vars == <<live, phase, request, window, reply, ledger>>

Init ==
  /\ live \in Configs
  /\ phase = [r \in Requests |-> "idle"]
  /\ request \in [Requests -> Asks]
  /\ window = [r \in Requests |-> {}]
  /\ reply = [r \in Requests |-> NoModel]
  /\ ledger = [r \in Requests |-> 0]

Arrive(r) ==
  /\ phase[r] = "idle"
  /\ phase' = [phase EXCEPT ![r] = "pending"]
  /\ window' = [window EXCEPT ![r] = {live}]
  /\ UNCHANGED <<live, request, reply, ledger>>

Reload(c) ==
  /\ live' = c
  /\ window' = [r \in Requests |->
                  IF phase[r] = "pending" THEN window[r] \cup {c} ELSE window[r]]
  /\ UNCHANGED <<phase, request, reply, ledger>>

Answer(r, m) ==
  /\ phase[r] = "pending"
  /\ \E c \in window[r] : m \in Eligible(c, request[r])
  /\ reply' = [reply EXCEPT ![r] = m]
  /\ phase' = [phase EXCEPT ![r] = "answered"]
  /\ ledger' = [ledger EXCEPT ![r] = 1]
  /\ UNCHANGED <<live, request, window>>

(* m answered request o in full, and o asked the same thing as q. *)
Repeats(q, o, m) ==
  /\ phase[o] = "answered" /\ reply[o] = m
  /\ ~request[o].stream
  /\ request[o].pin = q.pin /\ request[o].prompt = q.prompt

AnswerAgain(r, m) ==
  /\ phase[r] = "pending"
  /\ ~request[r].stream
  /\ \E o \in Requests : Repeats(request[r], o, m)
  /\ reply' = [reply EXCEPT ![r] = m]
  /\ phase' = [phase EXCEPT ![r] = "answered"]
  /\ ledger' = [ledger EXCEPT ![r] = 1]
  /\ UNCHANGED <<live, request, window>>

Fail(r) ==
  /\ phase[r] = "pending"
  /\ phase' = [phase EXCEPT ![r] = "failed"]
  /\ ledger' = [ledger EXCEPT ![r] = 1]
  /\ UNCHANGED <<live, request, window, reply>>

StartStream(r, m) ==
  /\ phase[r] = "pending"
  /\ request[r].stream
  /\ \E c \in window[r] : m \in Eligible(c, request[r])
  /\ reply' = [reply EXCEPT ![r] = m]
  /\ phase' = [phase EXCEPT ![r] = "streaming"]
  /\ UNCHANGED <<live, request, window, ledger>>

EndStream(r) ==
  /\ phase[r] = "streaming"
  /\ phase' = [phase EXCEPT ![r] = "answered"]
  /\ ledger' = [ledger EXCEPT ![r] = 1]
  /\ UNCHANGED <<live, request, window, reply>>

Abandon(r) ==
  /\ phase[r] \in {"pending", "streaming"}
  /\ phase' = [phase EXCEPT ![r] = "gone"]
  /\ UNCHANGED <<live, request, window, reply, ledger>>

Next ==
  \/ \E c \in Configs : Reload(c)
  \/ \E r \in Requests :
       \/ Arrive(r)
       \/ Fail(r)
       \/ EndStream(r)
       \/ Abandon(r)
       \/ \E m \in Models : Answer(r, m) \/ AnswerAgain(r, m) \/ StartStream(r, m)

Spec == Init /\ [][Next]_vars
=============================================================================
