--------------------------- MODULE TrafficMetrics ---------------------------
(***************************************************************************)
(* The traffic dashboard: Caddy counts requests since it started           *)
(* (external), MetricsScraperService stores the counters in rows, and      *)
(* TrafficMetricsService turns the rows of a range into a series of        *)
(* differences (backend/internal/service/metrics_scraper_service.go,       *)
(* traffic_metrics_service.go, caddy/metrics/parse.go).  Caddy restarts    *)
(* with counters at zero, and nothing tells the scraper.                   *)
(*                                                                         *)
(* Bytes are summed and subtracted like the request classes and are left   *)
(* out; latencies fall into finite buckets 1 .. Len(Les) and +Inf above.   *)
(***************************************************************************)
EXTENDS Integers, Sequences, FiniteSetsExt, Functions

CONSTANTS
    Codes,          \* values of the `code` label, 0 without one
    Les,            \* upper bounds of the finite latency buckets
    Ranges,         \* duration and step of each range
    KeepFor,        \* retentionPeriod
    MaxRequests, MaxRestarts, MaxTime   \* bounds

ASSUME TrafficAssumption ==
    /\ Codes \subseteq Nat /\ IsFiniteSet(Codes) /\ Les \in Seq(Nat \ {0}) /\ Les # <<>>
    /\ \A i \in 2 .. Len(Les) : Les[i - 1] < Les[i]
    /\ \A r \in Ranges : r.duration \in Nat /\ r.step \in Nat \ {0}
    /\ KeepFor \in Nat /\ MaxRequests \in Nat /\ MaxRestarts \in Nat /\ MaxTime \in Nat

Classes == {0, 2, 3, 4, 5}          \* ReqOther, Req2xx .. Req5xx
Inf == Len(Les) + 1
LeIndex == 1 .. Inf

VARIABLES
    live,       \* Caddy: requests by code and latency bucket since it started
    ever,       \* ghost: requests by class since the beginning
    boots,      \* Caddy restarts
    now,
    samples     \* traffic_samples by collected_at

trafficVars == <<live, ever, boots, now, samples>>

\* addByCodeClass: the first digit of the code.
ClassOf(code) == IF code \div 100 \in 2 .. 5 THEN code \div 100 ELSE 0

\* Mutant of ParseSnapshot: the row carries the time of the next tick.
ParseSnapshotAhead(t) ==
    [at |-> t + 1, ever |-> ever, boots |-> boots,
     req |-> [c \in Classes |-> SumFunctionOnSet(live, {s \in DOMAIN live : ClassOf(s[1]) = c})],
     count |-> SumFunction(live),
     le |-> [b \in LeIndex |-> SumFunctionOnSet(live, {s \in DOMAIN live : s[2] <= b})]]

\* A row: ParseSnapshot sums the series of all labels, per class, per cumulative
\* bucket and in all; what was served so far is kept with it as a ghost.
ParseSnapshot(t) ==
    [at |-> t, ever |-> ever, boots |-> boots,
     req |-> [c \in Classes |-> SumFunctionOnSet(live, {s \in DOMAIN live : ClassOf(s[1]) = c})],
     count |-> SumFunction(live),
     le |-> [b \in LeIndex |-> SumFunctionOnSet(live, {s \in DOMAIN live : s[2] <= b})]]

TrafficInit ==
    /\ live = [s \in Codes \X LeIndex |-> 0]
    /\ ever = [c \in Classes |-> 0]
    /\ boots = 0
    /\ now = 0
    /\ samples = <<>>

\* Caddy answers a request.
Serve(code, b) ==
    /\ SumFunction(ever) < MaxRequests
    /\ live' = [live EXCEPT ![<<code, b>>] = @ + 1]
    /\ ever' = [ever EXCEPT ![ClassOf(code)] = @ + 1]
    /\ UNCHANGED <<boots, now, samples>>

CaddyRestarts ==
    /\ boots < MaxRestarts
    /\ boots' = boots + 1
    /\ live' = [s \in DOMAIN live |-> 0]
    /\ UNCHANGED <<ever, now, samples>>

\* The ticker passes without a row: Get, the parser or Create failed.
ScrapeFails ==
    /\ now < MaxTime
    /\ now' = now + 1
    /\ UNCHANGED <<live, ever, boots, samples>>

\* The rows of a time and later; rows are in order of time.
KeptSince(rows, t) == SubSeq(rows, Cardinality({i \in DOMAIN rows : rows[i].at < t}) + 1, Len(rows))

\* scrape: a row, then the rows older than the retention period go, or stay
\* when that delete fails.
Scrape ==
    /\ now < MaxTime
    /\ now' = now + 1
    /\ LET rows == Append(samples, ParseSnapshot(now'))
       IN  \/ samples' = KeptSince(rows, now' - KeepFor)
           \/ samples' = rows
    /\ UNCHANGED <<live, ever, boots>>

TrafficNext ==
    \/ \E code \in Codes, b \in LeIndex : Serve(code, b)
    \/ CaddyRestarts \/ Scrape \/ ScrapeFails

TrafficSpec == TrafficInit /\ [][TrafficNext]_trafficVars
-----------------------------------------------------------------------------
\* computeSeries, over the rows ListSince returns.

\* Mutant of clampNeg: a difference below zero is kept.
keepNeg(d) == d
clampNeg(d) == IF d < 0 THEN 0 ELSE d

\* A drop of the request count is a restart: the pair counts for nothing.
Reset(prev, cur) == cur.count < prev.count
Delta(prev, cur) ==
    [req |-> [c \in Classes |-> IF Reset(prev, cur) THEN 0 ELSE clampNeg(cur.req[c] - prev.req[c])],
     le |-> [b \in LeIndex |-> IF Reset(prev, cur) THEN 0 ELSE clampNeg(cur.le[b] - prev.le[b])]]

Truncate(t, step) == t - (t % step)

\* The points by the boundary of the step the later row of a pair falls into.
ComputeSeries(rows, step) ==
    LET pairs == 2 .. Len(rows)
        boundary(i) == Truncate(rows[i].at, step)
        delta(i) == Delta(rows[i - 1], rows[i])
        in(t) == {i \in pairs : boundary(i) = t}
    IN  [t \in {boundary(i) : i \in pairs} |->
            [req |-> [c \in Classes |-> SumFunctionOnSet([i \in pairs |-> delta(i).req[c]], in(t))],
             le |-> [b \in LeIndex |-> SumFunctionOnSet([i \in pairs |-> delta(i).le[b]], in(t))]]]

\* GetTraffic.
InRange(r) == KeptSince(samples, now - r.duration)
GetTraffic(r) == ComputeSeries(InRange(r), r.step)

\* Mutant of histogramQuantile: a point without requests and an empty bucket are
\* not told apart.
histogramQuantileEmpty(q, le) ==
    LET reach == {b \in LeIndex : 100 * le[b] >= q * le[Inf]}
        b == Min(reach)
        lower == IF b = 1 THEN 0 ELSE Les[b - 1]
        lowerCount == IF b = 1 THEN 0 ELSE le[b - 1]
    IN  IF b = Inf THEN [num |-> Les[Inf - 1], den |-> 1]
        ELSE [num |-> lower * 100 * (le[b] - lowerCount)
                         + (q * le[Inf] - 100 * lowerCount) * (Les[b] - lower),
              den |-> 100 * (le[b] - lowerCount)]

\* histogramQuantile at q percent, as the fraction num / den: the first bucket
\* whose count reaches the rank, linear inside it, the largest finite bound when
\* that is +Inf, zero without requests.  computeQuantiles sorts the buckets.
histogramQuantile(q, le) ==
    LET total == le[Inf]
        reach == {b \in LeIndex : 100 * le[b] >= q * total}
        b == Min(reach)
        lower == IF b = 1 THEN 0 ELSE Les[b - 1]
        lowerCount == IF b = 1 THEN 0 ELSE le[b - 1]
    IN  IF total = 0 THEN [num |-> 0, den |-> 1]
        ELSE IF b = Inf THEN [num |-> Les[Inf - 1], den |-> 1]
        ELSE IF le[b] = lowerCount THEN [num |-> lower, den |-> 1]
        ELSE [num |-> lower * 100 * (le[b] - lowerCount)
                         + (q * total - 100 * lowerCount) * (Les[b] - lower),
              den |-> 100 * (le[b] - lowerCount)]
-----------------------------------------------------------------------------
\* Type correctness.
TrafficTypeOK ==
    /\ live \in [Codes \X LeIndex -> Nat] /\ ever \in [Classes -> Nat]
    /\ boots \in 0 .. MaxRestarts /\ now \in 0 .. MaxTime
    /\ \A i \in DOMAIN samples :
          /\ samples[i].at \in 1 .. now /\ samples[i].count \in Nat
          /\ samples[i].req \in [Classes -> Nat] /\ samples[i].le \in [LeIndex -> Nat]

Reported(series, c) == SumFunction([t \in DOMAIN series |-> series[t].req[c]])

\* However Caddy restarts and scrapes fail, a series never reports more requests
\* of a class than were served between its first and last row, and at least
\* those of every pair of rows without a restart in between.
SeriesMatchesTraffic ==
    \A r \in Ranges :
        LET rows == InRange(r)
            pairs == 2 .. Len(rows)
            served(c) == [i \in pairs |-> rows[i].ever[c] - rows[i - 1].ever[c]]
            steady == {i \in pairs : rows[i].boots = rows[i - 1].boots}
        IN  \A c \in Classes :
                /\ Reported(GetTraffic(r), c) <= SumFunction(served(c))
                /\ Reported(GetTraffic(r), c) >= SumFunctionOnSet(served(c), steady)

AtMost(x, y) == x.num * y.den <= y.num * x.den

\* The latencies of a point are in order and within the buckets, 0 <= p50 <= p95
\* <= the largest finite bound, and no division by zero happens, although a
\* restart the scraper missed makes the bucket differences fall where they ought
\* to rise.
QuantilesOrdered ==
    \A r \in Ranges :
        \A t \in DOMAIN GetTraffic(r) :
            LET le == GetTraffic(r)[t].le
                p50 == histogramQuantile(50, le)
                p95 == histogramQuantile(95, le)
            IN  /\ p50.den > 0 /\ p95.den > 0 /\ p50.num >= 0
                /\ AtMost(p50, p95)
                /\ AtMost(p95, [num |-> Les[Len(Les)], den |-> 1])
=============================================================================
