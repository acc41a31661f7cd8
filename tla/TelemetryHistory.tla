-------------------------- MODULE TelemetryHistory --------------------------
(***************************************************************************)
(* From the byte counter of a router to the rates of a chart.  The agent   *)
(* keeps the reports that failed and sends them again after the next one   *)
(* that succeeds; the counter begins anew when the router restarts; the    *)
(* server computes the rate of a report when it stores it, shows averages  *)
(* of several, and falls back on the raw reports when the metrics have     *)
(* been deleted.                                                           *)
(*                                                                         *)
(* One counter stands for the two, and for the gauges, which are averaged  *)
(* in the same way.  The network takes less time than a tick.              *)
(***************************************************************************)
EXTENDS Integers, Sequences, FiniteSets, FiniteSetsExt, SequencesExt

CONSTANTS
  Traffic,          \* bytes the router may carry in a tick
  BufferLimit,      \* reports the agent keeps (60)
  Keep, KeepFor,    \* raw reports (100) and age of metrics (45 days)
  Window, Target,   \* a range of the chart and its number of points
  MaxClock, MaxReports, MaxRestarts  \* bounds

VARIABLES
  clock, carried,   \* carried: history, bytes carried so far
  boot, base,       \* restarts so far, bytes carried before the last one
  nr,               \* reports taken so far
  kept, sending,    \* the agent's buffer, and what it is sending from it
  waiting,          \* the report whose answer the agent awaits
  handling,         \* reports the server has received and not stored
  metrics, raw      \* stored, in this order

historyVars == <<clock, carried, boot, base, nr, kept, sending, waiting, handling,
                 metrics, raw>>

-----------------------------------------------------------------------------
Unknown == -1
Nothing == [bytes |-> Unknown, boot |-> 0, again |-> FALSE]

\* What the rows tell of their origin is history: "again" of a report that was not
\* sent when it was taken, "sum" of all bytes carried when it was received.
HistoryInit ==
  /\ clock = 0 /\ carried = 0 /\ boot = 0 /\ base = 0 /\ nr = 0
  /\ kept = <<>> /\ sending = <<>> /\ waiting = Nothing
  /\ handling = {} /\ metrics = <<>> /\ raw = <<>>

Tick ==
  /\ clock < MaxClock /\ clock' = clock + 1
  /\ \E bytes \in Traffic : carried' = carried + bytes
  /\ UNCHANGED <<boot, base, nr, kept, sending, waiting, handling, metrics, raw>>

Newest(s, n) == SubSeq(s, Max({1, Len(s) - n + 1}), Len(s))

\* A report with the time of its arrival.
Stamped(body, at, sum) ==
  [at |-> at, sum |-> sum, bytes |-> body.bytes, boot |-> body.boot, again |-> body.again]
Received(body) == handling' = handling \cup {Stamped(body, clock, carried)}

\* telemetry: a report is taken and sent, or kept because the server is out of reach.
Report ==
  /\ waiting = Nothing /\ sending = <<>>
  /\ nr < MaxReports /\ nr' = nr + 1
  /\ LET body == [bytes |-> carried - base, boot |-> boot, again |-> FALSE]
     IN \/ Received(body) /\ waiting' = body /\ UNCHANGED kept
        \/ kept' = Newest(Append(kept, [body EXCEPT !.again = TRUE]), BufferLimit)
           /\ UNCHANGED <<waiting, handling>>
  /\ UNCHANGED <<clock, carried, boot, base, sending, metrics, raw>>

\* The oldest of the reports kept is sent; when that fails all are kept again.
SendKept ==
  /\ waiting = Nothing /\ sending # <<>>
  /\ \/ Received(Head(sending)) /\ waiting' = Head(sending) /\ UNCHANGED <<kept, sending>>
     \/ kept' = sending /\ sending' = <<>> /\ UNCHANGED <<waiting, handling>>
  /\ UNCHANGED <<clock, carried, boot, base, nr, metrics, raw>>

\* The answer: the next of those that were kept.
Answered ==
  /\ IF waiting.again THEN sending' = Tail(sending) /\ UNCHANGED kept
     ELSE sending' = kept /\ kept' = <<>>
  /\ waiting' = Nothing
\* No answer in time: the report is kept, although the server may have it.
GiveUp ==
  /\ waiting # Nothing /\ waiting' = Nothing
  /\ IF waiting.again THEN kept' = sending /\ sending' = <<>>
     ELSE kept' = Newest(Append(kept, [waiting EXCEPT !.again = TRUE]), BufferLimit)
          /\ UNCHANGED sending
  /\ UNCHANGED <<clock, carried, boot, base, nr, handling, metrics, raw>>

\* The router restarts: /tmp and the counters begin anew.
Restart ==
  /\ boot < MaxRestarts /\ boot' = boot + 1
  /\ base' = carried /\ kept' = <<>> /\ sending' = <<>> /\ waiting' = Nothing
  /\ UNCHANGED <<clock, carried, nr, handling, metrics, raw>>

-----------------------------------------------------------------------------
\* round: the nearest integer (halves go up).
Round(n, d) == (2 * n + d) \div (2 * d)

\* The entries of s that have a rank, in the order of their ranks.
Arranged(s, rank) ==
  [i \in 1..Cardinality(DOMAIN rank) |-> s[CHOOSE k \in DOMAIN rank : rank[k] = i]]
\* The entries at the positions I; all entries, the older ones first.
Picked(s, I) == Arranged(s, [k \in I |-> Cardinality({j \in I : j <= k})])
ByTime(s) == Arranged(s, [k \in DOMAIN s |-> Cardinality(
  {j \in DOMAIN s : s[j].at < s[k].at \/ (s[j].at = s[k].at /\ j <= k)})])
Since(s, time) == Picked(s, {k \in DOMAIN s : s[k].at >= time})

\* Mutant: a counter that began anew is not noticed.
RateUnsigned(previous, h) ==
  IF h.at <= previous.at THEN Unknown ELSE Round(8 * (h.bytes - previous.bytes), h.at - previous.at)
\* The rate of a report that follows another one.
Rate(previous, h) ==
  IF h.at <= previous.at \/ h.bytes < previous.bytes THEN Unknown
  ELSE Round(8 * (h.bytes - previous.bytes), h.at - previous.at)

\* cleanup_device_telemetry_metrics and cleanup_device_telemetry.
Young(s) == Since(s, clock - KeepFor)
Last100(s) == Newest(ByTime(s), Keep)

\* The rate of a report h, and the report before it.
Row(h, rate, after) ==
  [rate |-> rate, after |-> after,
   at |-> h.at, sum |-> h.sum, bytes |-> h.bytes, boot |-> h.boot, again |-> h.again]
\* record_device_telemetry_metric: it follows the newest metric.
Measured(h) ==
  IF metrics = <<>> THEN Row(h, Unknown, <<>>)
  ELSE LET newest == Last(ByTime(metrics))
       IN Row(h, Rate(newest, h), <<Stamped(newest, newest.at, newest.sum)>>)

\* agent_telemetry
Store(h) ==
  /\ h \in handling /\ handling' = handling \ {h}
  /\ metrics' = Young(Append(metrics, Measured(h)))
  /\ raw' = Last100(Append(raw, h))
  /\ \/ waiting = [bytes |-> h.bytes, boot |-> h.boot, again |-> h.again] /\ Answered
     \/ UNCHANGED <<kept, sending, waiting>>
  /\ UNCHANGED <<clock, carried, boot, base, nr>>

\* run_housekeeping of a device that may be silent.
Clean ==
  /\ metrics' = Young(metrics)
  /\ UNCHANGED <<clock, carried, boot, base, nr, kept, sending, waiting, handling, raw>>

HistoryNext ==
  \/ Tick
  \/ Report
  \/ SendKept
  \/ GiveUp
  \/ Restart
  \/ \E h \in handling : Store(h)
  \/ Clean

HistorySpec == HistoryInit /\ [][HistoryNext]_historyVars

-----------------------------------------------------------------------------
(* device_telemetry_history. *)

Known(bucket) == Picked(bucket, {k \in DOMAIN bucket : bucket[k].rate # Unknown})
Sum1(s) == LET sum[k \in 0..Len(s)] == IF k = 0 THEN 0 ELSE sum[k - 1] + s[k].rate
           IN sum[Len(s)]
\* Mutant: what is not known counts as nothing.
AverageAll(bucket) == Round(Sum1(Known(bucket)), Len(bucket))
\* _average_optional
Average(bucket) ==
  IF Known(bucket) = <<>> THEN Unknown ELSE Round(Sum1(Known(bucket)), Len(Known(bucket)))

\* downsample_telemetry_metrics: the rows each point stands for.
Buckets(s) ==
  LET size == Max({1, (Len(s) + Target - 1) \div Target})
  IN [k \in 1..((Len(s) + size - 1) \div size) |->
        SubSeq(s, (k - 1) * size + 1, Min({k * size, Len(s)}))]
Points(s) == [k \in DOMAIN Buckets(s) |->
                [rate |-> Average(Buckets(s)[k]), rows |-> Buckets(s)[k]]]

\* build_telemetry_history: rates from the raw reports, 0 where there is none.
FromRaw == [k \in DOMAIN raw |->
  LET rate == IF k = 1 THEN 0 ELSE Max({0, Rate(raw[k - 1], raw[k])})
  IN [rate |-> rate,
      rows |-> <<Row(raw[k], rate, IF k = 1 THEN <<>> ELSE <<raw[k - 1]>>)>>]]

\* The chart of a range.
Chart ==
  LET recent == Since(ByTime(metrics), clock - Window)
  IN IF recent # <<>> THEN Points(recent)
     ELSE IF metrics # <<>>
     THEN [k \in DOMAIN metrics |-> [rate |-> ByTime(metrics)[k].rate,
                                     rows |-> <<ByTime(metrics)[k]>>]]
     ELSE FromRaw

\* Nothing that was sent again is in it, so that its rate can be told.
Plain(row) == /\ ~row.again
              /\ row.after = <<>> \/ ~row.after[1].again
\* Bits carried between the two reports of a row, at a rate of r: more or less,
\* as the rate was rounded.
Carried(row) == 8 * (row.sum - row.after[1].sum)
AtMost(r, row) == 2 * r * (row.at - row.after[1].at) <= 2 * Carried(row) + (row.at - row.after[1].at)
AtLeast(r, row) == 2 * r * (row.at - row.after[1].at) + (row.at - row.after[1].at) >= 2 * Carried(row)

\* A rate tells what the router carried between two reports (telemetry_history.py:
\* record_device_telemetry_metric): never a negative one or more than that, whatever
\* restarts, lost answers and overlapping requests there were; and no less, unless
\* the router was restarted.  A point of the chart lies between the rates it stands
\* for, and is unknown only if they are.  Reports that were sent again are excepted:
\* they are dated when they arrive.
RatesAreTrue ==
  /\ \A k \in DOMAIN metrics :
       metrics[k].rate # Unknown /\ Plain(metrics[k]) =>
         /\ metrics[k].rate >= 0 /\ AtMost(metrics[k].rate, metrics[k])
         /\ metrics[k].boot = metrics[k].after[1].boot => AtLeast(metrics[k].rate, metrics[k])
  /\ LET chart == Chart
     IN /\ Len(chart) <= Max({Target, Len(raw), Len(metrics)})
        /\ \A k \in DOMAIN chart :
             LET known == {r \in ToSet(chart[k].rows) : r.rate # Unknown}
             IN IF known = {} THEN chart[k].rate = Unknown
                ELSE /\ \E r \in known : chart[k].rate <= r.rate
                     /\ \E r \in known : chart[k].rate >= r.rate
                     /\ (\A r \in known : Plain(r)) =>
                          \E r \in known : r.after = <<>> \/ AtMost(chart[k].rate, r)

-----------------------------------------------------------------------------
(* Why: the inductive invariant. *)

Body == [bytes : Nat, boot : Nat, again : BOOLEAN]
Arrived == [at : Nat, sum : Nat, bytes : Nat, boot : Nat, again : BOOLEAN]
Metric == [rate : Int, after : Seq(Arrived),
           at : Nat, sum : Nat, bytes : Nat, boot : Nat, again : BOOLEAN]

HistoryTypeOK ==
  /\ {clock, carried, boot, base} \subseteq Nat /\ base <= carried
  /\ kept \in Seq(Body) /\ sending \in Seq(Body)
  /\ waiting \in Body \cup {Nothing} /\ (waiting.again => sending # <<>>)
  /\ \A k \in DOMAIN kept : kept[k].again
  /\ \A k \in DOMAIN sending : sending[k].again
  /\ handling \subseteq Arrived /\ metrics \in Seq(Metric) /\ raw \in Seq(Arrived)

\* Report x and a report y tell of one history of the router: the later knows of more
\* bytes; of two that were sent at once, the counters differ by what was carried, or the
\* later counts from a restart that the earlier does not know.
InTime(x, y) ==
  /\ x.at <= y.at => x.sum <= y.sum
  /\ ~x.again /\ ~y.again =>
       /\ x.at < y.at => x.boot <= y.boot
       /\ x.boot = y.boot => y.bytes - x.bytes = y.sum - x.sum
       /\ x.boot < y.boot => y.bytes <= y.sum - x.sum

\* What would be reported now.
Present == Stamped([bytes |-> carried - base, boot |-> boot, again |-> FALSE], clock, carried)
\* Nothing that was received is of a later time than now.
Past(x) ==
  /\ x.at <= clock /\ (x.at = clock => x.sum = carried)
  /\ ~x.again => x.boot <= boot
  /\ InTime(x, Present)

Stored == handling \cup ToSet(metrics) \cup ToSet(raw)

ReportsAgree == \A x \in Stored : Past(x) /\ \A y \in Stored : InTime(x, y)

RatesComputed ==
  \A k \in DOMAIN metrics :
    \/ metrics[k].after = <<>> /\ metrics[k].rate = Unknown
    \/ /\ Len(metrics[k].after) = 1 /\ InTime(metrics[k].after[1], metrics[k])
       /\ metrics[k].rate = Rate(metrics[k].after[1], metrics[k])

RawInOrder == \A i \in DOMAIN raw : \A j \in DOMAIN raw : i <= j => raw[i].at <= raw[j].at

HistoryInv == HistoryTypeOK /\ ReportsAgree /\ RatesComputed /\ RawInOrder
=============================================================================
