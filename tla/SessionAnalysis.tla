-------------------------- MODULE SessionAnalysis ---------------------------
(***************************************************************************)
(* The life of sessions as the harness stamps it, request by request and   *)
(* block by block, and what the analyzers make of the stamps afterwards.   *)
(* The context a request carries is kept beside the stamps, step by step,  *)
(* for the residency estimate to be compared with.                         *)
(***************************************************************************)
EXTENDS CacheAnalyzer, Residency, SessionView

CONSTANTS
    Shapes,        \* what a request may be, but for its session and time
    Bodies,        \* kind -> the attributes its blocks have in turn: [tool, mcp, file, tokens]
    Gaps,          \* ticks between an entry and the one before
    MaxEntries     \* bound on the entries of all sessions

Kinds == {"user_text", "thinking", "tool_result"}

Attributes == [tool : STRING, mcp : STRING, file : STRING, tokens : Nat]

ASSUME SessionAssumption ==
    /\ \A shape \in Shapes : shape.input \in Nat /\ shape.cread \in Nat /\ shape.cwrite \in Nat
    /\ DOMAIN Bodies = Kinds
    /\ \A kind \in Kinds : Bodies[kind] \in Seq(Attributes) \ {<<>>}
    /\ Gaps \subseteq Nat /\ MaxEntries \in Nat

VARIABLES
    session, now,
    reqs,          \* requests, by session and time
    blocks,        \* blocks, each with the tokens it is estimated at
    compactions,   \* session -> times of its boundaries
    context,       \* blocks a request of the session would carry, by number
    carried        \* block -> requests that carried it

vars == <<session, now, reqs, blocks, compactions, context, carried>>

Sessions == 1 .. session

Init ==
    /\ session = 1 /\ now = 0
    /\ reqs = <<>> /\ blocks = <<>>
    /\ compactions = [s \in Sessions |-> {}]
    /\ context = {} /\ carried = <<>>

\* Sessions after the first count as an entry.
Entries == Len(reqs) + Len(blocks) + session - 1
             + SumFunction([s \in Sessions |-> Cardinality(compactions[s])])

Entry == \E gap \in Gaps :
    /\ Entries < MaxEntries
    /\ now' = now + gap

\* A request carries what entered before it.
Request ==
    /\ Entry
    /\ \E shape \in Shapes :
          reqs' = Append(reqs, [session |-> session, at |-> now', input |-> shape.input,
                                cread |-> shape.cread, cwrite |-> shape.cwrite, model |-> shape.model,
                                short |-> shape.short, chain |-> shape.chain])
    /\ carried' = [i \in DOMAIN blocks |->
                     carried[i] + (IF i \in context /\ blocks[i].at < now' THEN 1 ELSE 0)]
    /\ UNCHANGED <<session, blocks, compactions, context>>

\* What ends a stay is stamped before the requests of its millisecond.
BeforeRequests == \A i \in DOMAIN reqs : reqs[i].session = session => reqs[i].at < now'

Body(kind) == Bodies[kind][1 + (Len(blocks) % Len(Bodies[kind]))]

Enter(kind, left) ==
    /\ blocks' = Append(blocks, [session |-> session, at |-> now', kind |-> kind, tokens |-> Body(kind).tokens,
                                 tool |-> Body(kind).tool, mcp |-> Body(kind).mcp, file |-> Body(kind).file])
    /\ context' = (context \ left) \cup {Len(blocks) + 1}
    /\ carried' = Append(carried, 0)
    /\ UNCHANGED <<session, reqs, compactions>>

Earlier(kinds) == {i \in context : blocks[i].at < now' /\ blocks[i].kind \in kinds}

Block == Entry /\ \E kind \in Kinds \ {"user_text"} : Enter(kind, {})

\* The next turn: the thinking of the last one is stripped.
UserText == Entry /\ BeforeRequests /\ Enter("user_text", Earlier({"thinking"}))

Compact ==
    /\ Entry /\ BeforeRequests
    /\ compactions' = [compactions EXCEPT ![session] = @ \cup {now'}]
    /\ context' = context \ Earlier(Kinds)
    /\ UNCHANGED <<session, reqs, blocks, carried>>

NextSession ==
    /\ session' = session + 1 /\ now' = 0
    /\ Entries < MaxEntries
    /\ compactions' = [s \in 1 .. session + 1 |-> IF s \in Sessions THEN compactions[s] ELSE {}]
    /\ context' = {}
    /\ UNCHANGED <<reqs, blocks, carried>>

Next == Request \/ Block \/ UserText \/ Compact \/ NextSession

Spec == Init /\ [][Next]_vars
-----------------------------------------------------------------------------
\* The rows with these numbers, in their order.
RowsAt(rows, numbers) ==
    LET first[n \in 0 .. Len(rows)] ==
            IF n = 0 THEN <<>>
            ELSE IF n \in numbers THEN Append(first[n - 1], rows[n]) ELSE first[n - 1]
    IN  first[Len(rows)]

OfSessions(rows, sessions) == RowsAt(rows, {i \in DOMAIN rows : rows[i].session \in sessions})

\* The since filter: the sessions with a request in the window.
Recent(since) == {reqs[i].session : i \in {j \in DOMAIN reqs : reqs[j].at >= since}}

\* Mutant: the filter is on the rows.
RequestsForCacheCut(since) == RowsAt(reqs, {i \in DOMAIN reqs : reqs[i].at >= since})

RequestsForCache(since) == OfSessions(reqs, Recent(since))

\* RequestStamps has the same filter for the residency analyzer.
RequestStamps(since) == OfSessions(reqs, Recent(since))

BlocksForResidency(since) == OfSessions(blocks, Recent(since))
-----------------------------------------------------------------------------
\* What the blocks came to, counted request by request.
CarriedTokens == [i \in DOMAIN blocks |-> blocks[i].tokens * carried[i]]

\* "requests the block remained in context" (Residency): the windows between
\* timestamps count the requests that carried the block, over compactions, turns
\* and equal stamps, and the total is that of a request by request account.
ResidencyIsContext ==
    /\ \A i \in DOMAIN blocks : Resident(blocks[i], blocks, reqs, compactions) = carried[i]
    /\ ExtractedRes(blocks, reqs, compactions) = SumFunction(CarriedTokens)

\* "cutting a session mid-way would fabricate a cold start" (RequestsForCache)
\* "[and] misstate how long its early blocks stayed resident"
\* (BlocksForResidency): whatever the window, what is reported of a session in
\* it is what the whole history reports of it.
WindowWhole ==
    LET all == Cache(reqs, compactions)
    IN  \A since \in {reqs[i].at : i \in DOMAIN reqs} :
            LET rep    == Cache(RequestsForCache(since), compactions)
                stamps == RequestStamps(since)
                part   == BlocksForResidency(since)
            IN  /\ rep.sessions = {x \in all.sessions : x.session \in Recent(since)}
                /\ rep.events = OfSessions(all.events, Recent(since))
                /\ ExtractedRes(part, stamps, compactions)
                     = SumFunctionOnSet(CarriedTokens,
                                        {i \in DOMAIN blocks : blocks[i].session \in Recent(since)})

OfStream(rows, s, m) == RowsAt(rows, {i \in DOMAIN rows : rows[i].session = s /\ rows[i].model = m})

Models == {reqs[i].model : i \in DOMAIN reqs}

Total(sessions, field) == SumFunction([x \in sessions |-> x[field]])

\* "Requests are analyzed per (session, model) stream: ... background interludes
\* must not read as invalidations of the main stream" (package comment): the
\* report is what the streams would report one by one.
StreamsApart ==
    LET rep == Cache(reqs, compactions)
        Of(s, m) == Cache(OfStream(reqs, s, m), compactions)
    IN  /\ \A s \in Sessions, m \in Models : OfStream(rep.events, s, m) = Of(s, m).events
        /\ \A field \in {"events", "expected", "read", "shortfall"} :
              Total(rep.sessions, field)
                = SumFunction([sm \in Sessions \X Models |-> Total(Of(sm[1], sm[2]).sessions, field)])

\* "the two reports' event counts and shortfalls are directly comparable" (wire
\* analysis): the doctors score the sessions alike and report the same events
\* with the same shortfall, and where the wire shows a compaction the offline
\* doctor has named it.
DoctorsAgree ==
    LET rep    == Cache(reqs, compactions)
        wire   == Wire(reqs, compactions)
        events == RowsAt(wire.transitions, {i \in DOMAIN wire.transitions : wire.transitions[i].event})
    IN  /\ rep.sessions = wire.sessions
        /\ Len(rep.events) = Len(events)
        /\ \A i \in DOMAIN events :
              LET e == rep.events[i]
              IN  /\ <<e.session, e.at, e.model, e.shortfall>>
                       = <<events[i].session, events[i].at, events[i].model, events[i].shortfall>>
                  /\ events[i].class = "compaction" => e.cause = "compaction"

\* "a compact_boundary fired between them (legitimate rewrite)" (package
\* comment): one boundary excuses one loss of a stream, not the next one too.
BoundaryBlamedOnce ==
    LET events == Cache(reqs, compactions).events
    IN  \A s \in Sessions, m \in Models :
          Cardinality({i \in DOMAIN events : /\ events[i].session = s /\ events[i].model = m
                                             /\ events[i].cause = "compaction"})
            <= Cardinality(compactions[s])

\* BuildSessionView, for the session s.
View(s) ==
    LET mine   == OfSessions(reqs, {s})
        own    == OfSessions(blocks, {s})
        points == Points(mine, Cache(mine, compactions).events, compactions[s])
    IN  [points |-> points, buckets |-> BucketBlocks(points, own, Kinds), blocks |-> own]

\* "groups requests into at most maxBuckets spans" (bucketBlocks): the spans are
\* the requests in order, each once, and the blocks are all under them, so that
\* the timeline adds up to the table of kinds beside it.
TimelineWhole ==
    \A s \in Sessions :
        LET v    == View(s)
            n    == Len(v.points)
            last == Len(v.buckets)
            kind == AttrRollup(blocks, "kind", Everything, s)
        IN  IF n = 0 \/ v.blocks = <<>> THEN v.buckets = <<>>
            ELSE /\ last \in 1 .. maxBuckets
                 /\ v.buckets[1].first = 1 /\ v.buckets[last].last = n
                 /\ \A i \in 1 .. last : v.buckets[i].first <= v.buckets[i].last
                 /\ \A i \in 1 .. last - 1 : v.buckets[i + 1].first = v.buckets[i].last + 1
                 /\ \A k \in Kinds :
                       SumFunction([i \in 1 .. last |-> v.buckets[i].tokens[k]])
                         = IF k \in DOMAIN kind THEN kind[k].flow ELSE 0

\* Two points of one model without another of it between.
InTurn(points, i, j) ==
    /\ i < j /\ points[i].model = points[j].model
    /\ \A x \in i + 1 .. j - 1 : points[x].model # points[i].model

\* "a compact boundary fired just before this request" (ReqPoint): a boundary is
\* marked at one point, the first that follows it, and a loss the cache doctor
\* puts down to a compaction has its mark between the two requests of its stream,
\* after the earlier one and no later than the one that lost.
CompactionShown ==
    \A s \in Sessions :
        LET points == View(s).points
            marked == {i \in DOMAIN points : points[i].compaction}
            events == OfSessions(Cache(reqs, compactions).events, {s})
        IN  /\ \A c \in compactions[s] :
                  LET after == {i \in DOMAIN points : points[i].at >= c}
                  IN  after # {} => Min(after) \in marked
            /\ \A i \in marked : \E c \in compactions[s] :
                  i = Min({j \in DOMAIN points : points[j].at >= c})
            /\ \A k \in DOMAIN events : events[k].cause = "compaction" =>
                  \E j, i \in DOMAIN points :
                      /\ InTurn(points, j, i)
                      /\ points[i].at = events[k].at /\ points[i].model = events[k].model
                      /\ marked \cap (j + 1 .. i) # {}
            /\ \A k \in DOMAIN events : \E i \in DOMAIN points :
                  points[i].event /\ points[i].at = events[k].at /\ points[i].model = events[k].model

FlowOf(rollup, g) == IF g \in DOMAIN rollup THEN rollup[g].flow ELSE 0

\* "groups computed residencies the same way store.AttrRollup groups flow"
\* (RollupResidency): the same groups of the same blocks with the same tokens
\* when everything is reported.  In a window they differ: the flow is cut at the
\* block's own time, over all sessions, the residency at the session.  What the
\* flow has beyond the residency are the blocks of sessions without a request in
\* the window, and no group or token besides.
RollupsAgree ==
    \A by \in {"tool", "mcp", "file", "kind"} :
        LET all  == RollupResidency(blocks, by, reqs, compactions)
            flow == AttrRollup(blocks, by, Everything, EverySession)
        IN  /\ DOMAIN all = DOMAIN flow
            /\ \A g \in DOMAIN all : all[g].blocks = flow[g].blocks /\ all[g].flow = flow[g].flow
            /\ \A since \in {reqs[i].at : i \in DOMAIN reqs} :
                  LET part   == RollupResidency(BlocksForResidency(since), by, RequestStamps(since), compactions)
                      cut    == AttrRollup(blocks, by, since, EverySession)
                      strays == AttrRollup(OfSessions(blocks, Sessions \ Recent(since)), by, since, EverySession)
                  IN  \A g \in DOMAIN cut : /\ g \in DOMAIN part \cup DOMAIN strays
                                             /\ cut[g].flow <= FlowOf(part, g) + FlowOf(strays, g)
=============================================================================
