--------------------------- MODULE CacheAnalyzer ----------------------------
(***************************************************************************)
(* The two cache doctors (internal/analyze, Cache and Wire).  Both walk the*)
(* requests of all sessions, sorted by session and time, keep the previous *)
(* request of each model, and compare what a request read from the cache   *)
(* with the prompt of the previous one.  The offline doctor names a cause  *)
(* from the times alone, the wire doctor from the prefix hash chains.      *)
(* A request is a record [session, at, model, input, cread, cwrite, short, *)
(* chain]; short says that its cache writes were mostly 5-minute ones.     *)
(***************************************************************************)
EXTENDS Integers, Sequences, FiniteSets

CONSTANTS
    minPrefixTokens,
    minShortfall,
    ttlShort, ttlLong,     \* in ticks
    Second                 \* ticks of a second, the unit of the wire doctor's gap

ASSUME AnalyzerAssumption ==
    /\ minPrefixTokens \in Nat \ {0} /\ minShortfall \in Nat \ {0}
    /\ ttlShort \in Nat /\ ttlLong \in Nat /\ Second \in Nat \ {0}

\* cache_read of at least 80% of what was expected (readRatioBar).
WarmEnough(read, expected) == 5 * read >= 4 * expected

Prompt(r) == r.input + r.cread + r.cwrite

Least(a, b) == IF a <= b THEN a ELSE b

\* A backend that reports caching, and a prompt that can be cached.
Accrues(prev, cur) ==
    /\ prev.cread + prev.cwrite + cur.cread + cur.cwrite > 0
    /\ Prompt(prev) >= minPrefixTokens

Shortfall(prev, cur) == Prompt(prev) - cur.cread

Costs(prev, cur) ==
    /\ Accrues(prev, cur)
    /\ Shortfall(prev, cur) >= minShortfall
    /\ ~WarmEnough(cur.cread, Prompt(prev))

\* Mutant: a boundary at the time of the previous request counts again.
BoundaryFrom(prev, cur, compactions) == \E c \in compactions : prev.at <= c /\ c <= cur.at

Boundary(prev, cur, compactions) == \E c \in compactions : prev.at < c /\ c <= cur.at

classify(prev, cur, compactions) ==
    LET gap == cur.at - prev.at
    IN  IF Boundary(prev, cur, compactions) THEN "compaction"
        ELSE IF gap > ttlLong \/ (gap > ttlShort /\ prev.short) THEN "ttl_expiry"
        ELSE "history_edit"
-----------------------------------------------------------------------------
NewScore(session) ==
    [session |-> session, requests |-> 0, events |-> 0, expected |-> 0, read |-> 0, shortfall |-> 0]

\* What a request adds to the score of its session.
Scored(score, accrues, costs, prev, cur) ==
    LET one     == [score EXCEPT !.requests = @ + 1]
        accrued == [one EXCEPT !.expected = @ + Prompt(prev),
                               !.read = @ + Least(cur.cread, Prompt(prev))]
    IN  IF ~accrues THEN one
        ELSE IF ~costs THEN accrued
        ELSE [accrued EXCEPT !.events = @ + 1, !.shortfall = @ + Shortfall(prev, cur)]

\* Only sessions that accrued expectations are reported.
Flushed(acc) == IF acc.score.expected > 0 THEN acc.sessions \cup {acc.score} ELSE acc.sessions

\* Mutant: the previous requests of the last session stay.
EntersKeeps(acc, cur) ==
    IF acc.score.session = cur.session THEN acc
    ELSE [score |-> NewScore(cur.session), prev |-> acc.prev,
          sessions |-> Flushed(acc), events |-> acc.events]

\* flush: a new session starts without previous requests.
Enters(acc, cur) ==
    IF acc.score.session = cur.session THEN acc
    ELSE [score |-> NewScore(cur.session), prev |-> <<>>,
          sessions |-> Flushed(acc), events |-> acc.events]

\* prev[r.Model] = r
Remember(prev, cur) ==
    [m \in DOMAIN prev \cup {cur.model} |-> IF m = cur.model THEN cur ELSE prev[m]]

Start == [score |-> NewScore(0), prev |-> <<>>, sessions |-> {}, events |-> <<>>]

CacheStep(acc0, cur, compactions) ==
    LET acc   == Enters(acc0, cur)
        known == cur.model \in DOMAIN acc.prev
        prev  == IF known THEN acc.prev[cur.model] ELSE cur
        event == [session |-> cur.session, at |-> cur.at, model |-> cur.model,
                  cause |-> classify(prev, cur, compactions[cur.session]),
                  shortfall |-> Shortfall(prev, cur)]
    IN  [score    |-> Scored(acc.score, known /\ Accrues(prev, cur), Costs(prev, cur), prev, cur),
         prev     |-> Remember(acc.prev, cur),
         sessions |-> acc.sessions,
         events   |-> IF known /\ Costs(prev, cur) THEN Append(acc.events, event) ELSE acc.events]

\* The state after each of the requests.
CacheRun(reqs, compactions) ==
    LET after[n \in 0 .. Len(reqs)] ==
            IF n = 0 THEN Start ELSE CacheStep(after[n - 1], reqs[n], compactions)
    IN  after

\* Cache: the scored sessions and the events.
Cache(reqs, compactions) ==
    LET acc == CacheRun(reqs, compactions)[Len(reqs)]
    IN  [sessions |-> Flushed(acc), events |-> acc.events]
-----------------------------------------------------------------------------
Common(a, b) ==
    CHOOSE n \in 0 .. Least(Len(a), Len(b)) :
        /\ \A i \in 1 .. n : a[i] = b[i]
        /\ n < Least(Len(a), Len(b)) => a[n + 1] # b[n + 1]

\* diffChains: the class of the chain difference alone.
diffChains(prev, cur, compactions) ==
    LET common == Common(prev.chain, cur.chain)
        before == Len(prev.chain)
    IN  CASE common = before /\ common = Len(cur.chain) -> "identical"
          [] common = before /\ common < Len(cur.chain) -> "append"
          [] common < before /\ common = Len(cur.chain) -> "truncated"
          [] OTHER ->
               IF common = before - 1 /\ before >= 4 THEN "marker_rotation"
               ELSE IF common = 0 THEN "tools_changed"
               ELSE IF common = 1 THEN "system_changed"
               ELSE IF Boundary(prev, cur, compactions) THEN "compaction" ELSE "history_edit"

Unchanged == {"append", "identical", "marker_rotation"}

\* eventCause, with the gap in whole seconds.
eventCause(class, prev, cur) ==
    LET gap == ((cur.at - prev.at) \div Second) * Second
    IN  IF class = "compaction" THEN class
        ELSE IF gap > ttlLong \/ (gap > ttlShort /\ (prev.short \/ class \in Unchanged)) THEN "ttl_expiry"
        ELSE IF class \in Unchanged THEN "unexplained_miss"
        ELSE class

\* The wire doctor has gates of its own.
\* Mutant: the signal is not asked for, as in a backend without a cache.
WireAccruesAnyBackend(prev, cur) == Prompt(prev) >= minPrefixTokens

WireAccrues(prev, cur) ==
    /\ Prompt(prev) >= minPrefixTokens
    /\ prev.cread + prev.cwrite + cur.cread + cur.cwrite > 0

WireCosts(prev, cur) ==
    WireAccrues(prev, cur) /\ Shortfall(prev, cur) >= minShortfall
                           /\ ~WarmEnough(cur.cread, Prompt(prev))

WireStep(acc0, cur, compactions) ==
    LET acc   == Enters(acc0, cur)
        known == cur.model \in DOMAIN acc.prev
        prev  == IF known THEN acc.prev[cur.model] ELSE cur
        class == diffChains(prev, cur, compactions[cur.session])
        event == WireCosts(prev, cur)
        tr    == [session |-> cur.session, at |-> cur.at, model |-> cur.model, event |-> event,
                  class |-> IF event THEN eventCause(class, prev, cur) ELSE class,
                  shortfall |-> IF WireAccrues(prev, cur) /\ Shortfall(prev, cur) > 0
                                THEN Shortfall(prev, cur) ELSE 0]
    IN  [score    |-> Scored(acc.score, known /\ WireAccrues(prev, cur), event, prev, cur),
         prev     |-> Remember(acc.prev, cur),
         sessions |-> acc.sessions,
         events   |-> IF known THEN Append(acc.events, tr) ELSE acc.events]

WireRun(reqs, compactions) ==
    LET after[n \in 0 .. Len(reqs)] ==
            IF n = 0 THEN Start ELSE WireStep(after[n - 1], reqs[n], compactions)
    IN  after

\* Wire: the scored sessions and the transitions.
Wire(reqs, compactions) ==
    LET acc == WireRun(reqs, compactions)[Len(reqs)]
    IN  [sessions |-> Flushed(acc), transitions |-> acc.events]
=============================================================================
