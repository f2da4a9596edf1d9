------------------------------- MODULE Stats -------------------------------
(***************************************************************************)
(* Request statistics (src/src/stats.rs): all-time counters, per-minute    *)
(* buckets for the retention window, a ring of recent requests, and the    *)
(* JSONL log they are rebuilt from.                                        *)
(*                                                                         *)
(* A request reads the clock, then takes the lock, then appends to the log *)
(* without the lock; "clear logs" resets the memory under the lock and     *)
(* truncates the log without it.  Of a record only its time and its model  *)
(* are kept, and of a Totals the number of requests: the other sums are    *)
(* made in the same places.                                                *)
(***************************************************************************)
EXTENDS Journal, Integers, FiniteSets, FiniteSetsExt

CONSTANTS Models, Tasks,
          RingSize,     \* recent requests kept
          Retention,    \* of the aggregates, in ticks of the clock
          Minute,       \* ticks per minute
          MaxNow, MaxRecords, MaxClears, MaxFaults     \* bounds

ASSUME StatsAssumption ==
  /\ RingSize \in Nat \ {0}
  /\ Retention \in Nat
  /\ Minute \in Nat \ {0}

(* `era` is history: the number of clears when the record was counted. *)
Record == [ts: Nat, model: Models, era: Nat]

ASSUME NewLineAssumption == NewLine \notin Record

Bucket == [minute: Nat, requests: Nat, byModel: [Models -> Nat]]

Inner == [total: Nat, byModel: [Models -> Nat], buckets: Seq(Bucket), recent: Seq(Record)]

None == [m \in Models |-> 0]
Default == [total |-> 0, byModel |-> None, buckets |-> <<>>, recent |-> <<>>]

-----------------------------------------------------------------------------
MinuteOf(ts) == ts - (ts % Minute)

(* now_secs().saturating_sub(range) *)
Cutoff(t, range) == IF t > range THEN t - range ELSE 0

\* Slip: the ring is not trimmed.
PushUnbounded(q, r) == Append(q, r)

PushRecent(q, r) == IF Len(q) < RingSize THEN Append(q, r) ELSE Tail(Append(q, r))

FillBucket(b, r) ==
  [b EXCEPT !.requests = @ + 1, !.byModel[r.model] = @ + 1]

\* Slip: a bucket is dropped only once its successor has expired too.
TrimOne(q, cutoff) ==
  IF Len(q) > 1 /\ q[2].minute < cutoff THEN Tail(q) ELSE q

(* Buckets are dropped from the front up to the first inside the window. *)
Trim(q, cutoff) ==
  LET old == {i \in DOMAIN q : \A k \in 1 .. i : q[k].minute < cutoff}
  IN  SubSeq(q, Cardinality(old) + 1, Len(q))

\* Slip: any record that does not belong to the last bucket starts a new one.
PlacedAnywhere(q, r) ==
  LET m == MinuteOf(r.ts)
      new == FillBucket([minute |-> m, requests |-> 0, byModel |-> None], r)
  IN  IF q # <<>> /\ q[Len(q)].minute = m
      THEN [q EXCEPT ![Len(q)] = FillBucket(q[Len(q)], r)]
      ELSE Append(q, new)

(* A record belongs to the last bucket, starts a new one, or, when it is older
   than the last bucket, is not in the series at all. *)
Placed(q, r) ==
  LET m == MinuteOf(r.ts)
      new == FillBucket([minute |-> m, requests |-> 0, byModel |-> None], r)
  IN  IF q = <<>> THEN <<new>>
      ELSE LET last == q[Len(q)] IN
           CASE last.minute = m -> [q EXCEPT ![Len(q)] = FillBucket(last, r)]
             [] last.minute > m -> q
             [] last.minute < m -> Append(q, new)

(* Stats::apply_aggregates at time t *)
ApplyAggregates(s, r, t) ==
  [s EXCEPT !.total = @ + 1,
            !.byModel[r.model] = @ + 1,
            !.buckets = Trim(Placed(s.buckets, r), Cutoff(t, Retention))]

\* Slip: the ring is rebuilt from the retention window only.
ReplayedWindow(f, t) ==
  LET from[i \in 0 .. Len(f)] ==
        IF i = 0 THEN Default
        ELSE IF i \in Readable(f) /\ f[i].ts >= Cutoff(t, Retention)
             THEN ApplyAggregates([from[i - 1] EXCEPT !.recent = PushRecent(@, f[i])], f[i], t)
             ELSE from[i - 1]
  IN  from[Len(f)]

(* Stats::replay of the log f at time t *)
Replayed(f, t) ==
  LET from[i \in 0 .. Len(f)] ==
        IF i = 0 THEN Default
        ELSE IF i \notin Readable(f) THEN from[i - 1]
             ELSE LET s == [from[i - 1] EXCEPT !.recent = PushRecent(@, f[i])]
                  IN  IF f[i].ts >= Cutoff(t, Retention)
                      THEN ApplyAggregates(s, f[i], t) ELSE s
  IN  from[Len(f)]

(* The records of the log f, in order. *)
Records(f) ==
  LET upto[i \in 0 .. Len(f)] ==
        IF i = 0 THEN <<>>
        ELSE IF i \in Readable(f) THEN Append(upto[i - 1], f[i]) ELSE upto[i - 1]
  IN  upto[Len(f)]

(* Stats::snapshot at time t: the requests of one model, and of all, in the
   buckets of the last `range` ticks. *)
InWindow(s, range, t) == {i \in DOMAIN s.buckets : s.buckets[i].minute >= Cutoff(t, range)}

Requests(s, range, t) ==
  SumFunctionOnSet([i \in DOMAIN s.buckets |-> s.buckets[i].requests],
                   InWindow(s, range, t))

RequestsOf(m, s, range, t) ==
  SumFunctionOnSet([i \in DOMAIN s.buckets |-> s.buckets[i].byModel[m]],
                   InWindow(s, range, t))

-----------------------------------------------------------------------------
VARIABLES now,
          inner,       \* Inner, behind its lock
          file,        \* stats.jsonl
          stamped,     \* Tasks -> the record whose time has been read, if any
          pending,     \* Tasks -> the writes still to be issued
          truncating,  \* a clear has reset the memory and not yet the log
          phase,       \* up | down
          records, clears, faults      \* bounded counters

(* History: the records counted since the start or the last clear, those the
   start replayed first; and whether log and memory were changed in step. *)
VARIABLES log, clean

vars == <<now, inner, file, stamped, pending, truncating, phase,
          records, clears, faults, log, clean>>

NoRecord == [era |-> -1]
Text == Record \cup {NewLine}

TypeOK ==
  /\ now \in Nat
  /\ inner \in Inner /\ Len(inner.recent) <= RingSize
  /\ file \in Seq(Text)
  /\ stamped \in [Tasks -> Record \cup {NoRecord}]
  /\ pending \in [Tasks -> Seq(Text)]
  /\ truncating \in BOOLEAN /\ clean \in BOOLEAN
  /\ phase \in {"up", "down"}
  /\ records \in Nat /\ clears \in Nat /\ faults \in Nat
  /\ log \in Seq(Record)

Init ==
  /\ now = 0
  /\ inner = Default
  /\ file = <<>>
  /\ stamped = [t \in Tasks |-> NoRecord]
  /\ pending = [t \in Tasks |-> <<>>]
  /\ truncating = FALSE
  /\ phase = "up"
  /\ records = 0 /\ clears = 0 /\ faults = 0
  /\ log = <<>> /\ clean = TRUE

Quiet == ~truncating /\ \A t \in Tasks : pending[t] = <<>>

Tick ==
  /\ now < MaxNow
  /\ now' = now + 1
  /\ UNCHANGED <<inner, file, stamped, pending, truncating, phase,
                 records, clears, faults, log, clean>>

(* The caller reads the clock. *)
Stamp(t, m) ==
  /\ phase = "up" /\ stamped[t] = NoRecord /\ pending[t] = <<>>
  /\ records < MaxRecords
  /\ records' = records + 1
  /\ stamped' = [stamped EXCEPT ![t] = [ts |-> now, model |-> m, era |-> clears]]
  /\ UNCHANGED <<now, inner, file, pending, truncating, phase, clears, faults, log, clean>>

(* Stats::record, under the lock. *)
Count(t) ==
  /\ stamped[t] # NoRecord
  /\ LET r == [stamped[t] EXCEPT !.era = clears]
         s == ApplyAggregates(inner, r, now)
     IN  /\ inner' = [s EXCEPT !.recent = PushRecent(@, r)]
         /\ pending' = [pending EXCEPT ![t] = <<r, NewLine>>]
         /\ log' = Append(log, r)
  /\ stamped' = [stamped EXCEPT ![t] = NoRecord]
  /\ clean' = (clean /\ Quiet)
  /\ UNCHANGED <<now, file, truncating, phase, records, clears, faults>>

Write(t) ==
  /\ pending[t] # <<>>
  /\ file' = Append(file, Head(pending[t]))
  /\ pending' = [pending EXCEPT ![t] = Tail(@)]
  /\ UNCHANGED <<now, inner, stamped, truncating, phase, records, clears, faults, log, clean>>

(* The log cannot be opened or written: the error is dropped. *)
WriteFails(t) ==
  /\ pending[t] # <<>>
  /\ faults < MaxFaults
  /\ faults' = faults + 1
  /\ pending' = [pending EXCEPT ![t] = <<>>]
  /\ clean' = FALSE
  /\ UNCHANGED <<now, inner, file, stamped, truncating, phase, records, clears, log>>

(* Stats::clear: the memory first, *)
Clear ==
  /\ phase = "up" /\ ~truncating
  /\ clears < MaxClears
  /\ clears' = clears + 1
  /\ inner' = Default
  /\ truncating' = TRUE
  /\ log' = <<>>
  /\ clean' = (clean /\ Quiet)
  /\ UNCHANGED <<now, file, stamped, pending, phase, records, faults>>

(* and then the log. *)
Truncate ==
  /\ truncating
  /\ truncating' = FALSE
  /\ file' = <<>>
  /\ UNCHANGED <<now, inner, stamped, pending, phase, records, clears, faults, log, clean>>

TruncateFails ==
  /\ truncating
  /\ faults < MaxFaults
  /\ faults' = faults + 1
  /\ truncating' = FALSE
  /\ clean' = FALSE
  /\ UNCHANGED <<now, inner, file, stamped, pending, phase, records, clears, log>>

Crash ==
  /\ phase = "up" /\ faults < MaxFaults
  /\ faults' = faults + 1
  /\ phase' = "down"
  /\ inner' = Default
  /\ stamped' = [t \in Tasks |-> NoRecord]
  /\ pending' = [t \in Tasks |-> <<>>]
  /\ truncating' = FALSE
  /\ log' = <<>>
  /\ clean' = (clean /\ Quiet)
  /\ UNCHANGED <<now, file, records, clears>>

(* Stats::new: nothing is served before the log is replayed. *)
Start ==
  /\ phase = "down"
  /\ phase' = "up"
  /\ inner' = Replayed(file, now)
  /\ log' = Records(file)
  /\ UNCHANGED <<now, file, stamped, pending, truncating, records, clears, faults, clean>>

Next ==
  \/ Tick
  \/ \E t \in Tasks : \/ \E m \in Models : Stamp(t, m)
                      \/ Count(t) \/ Write(t) \/ WriteFails(t)
  \/ Clear \/ Truncate \/ TruncateFails
  \/ Crash \/ Start

Spec == Init /\ [][Next]_vars

-----------------------------------------------------------------------------
(* What a dashboard window shows is what was counted: whatever order requests
   that raced for the lock were counted in, whatever was trimmed, cleared and
   replayed, a window no longer than the retention holds each record of its
   minutes once, save those that came after one of a later minute, for which
   the code says "ignore for series". *)
Late(i) == \E j \in 1 .. i - 1 : MinuteOf(log[j].ts) > MinuteOf(log[i].ts)

SnapshotExact ==
  phase = "up" =>
    \A range \in 0 .. Retention :
      LET shown == {i \in DOMAIN log : /\ MinuteOf(log[i].ts) >= Cutoff(now, range)
                                       /\ ~Late(i)}
      IN  /\ Requests(inner, range, now) = Cardinality(shown)
          /\ \A m \in Models :
               RequestsOf(m, inner, range, now)
                 = Cardinality({i \in shown : log[i].model = m})

(* Memory stays bounded however long the gateway runs and however its clock
   readings race: one bucket for each minute of the retention window, in order. *)
MemoryBounded ==
  /\ Len(inner.buckets) <= Retention \div Minute + 1
  /\ \A i, j \in DOMAIN inner.buckets :
       i < j => inner.buckets[i].minute < inner.buckets[j].minute

(* stats.rs: "statistics survive a restart". A restart between requests changes
   neither what any window shows nor the recent requests, as long as every
   record and every clear reached memory and log without another in between. *)
SurvivesRestart ==
  phase = "up" /\ clean /\ Quiet =>
    LET fresh == Replayed(file, now) IN
    /\ fresh.recent = inner.recent
    /\ \A range \in 0 .. Retention : \A m \in Models :
         RequestsOf(m, fresh, range, now) = RequestsOf(m, inner, range, now)

(* stats.rs: "Reset all in-memory stats and truncate the JSONL log". Once a
   clear is over and no append is in flight, the log holds no record that was
   counted before it. *)
ClearForgets ==
  phase = "up" /\ Quiet => \A i \in Readable(file) : file[i].era = clears
=============================================================================
