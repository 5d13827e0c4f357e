---------------------------- MODULE SessionView -----------------------------
(***************************************************************************)
(* The view of one session (internal/report/session.go): its requests as   *)
(* points of a timeline, with the cache events and the compactions marked, *)
(* and its blocks in buckets under the points; and the roll-up of blocks   *)
(* the tables beside it show (AttrRollup).  Requests are those of the      *)
(* session by time, as the analyzers take them; a block is a record        *)
(* [session, at, kind, tool, mcp, file, tokens].                           *)
(***************************************************************************)
EXTENDS Integers, Sequences, FiniteSets, FiniteSetsExt, SequencesExt

CONSTANT maxBuckets

ASSUME ViewAssumption == maxBuckets \in Nat \ {0}

\* Before any request, as the blank time is.
Blank == -1

\* Mutant: the previous request of the model, as in the cache doctor.
PrevTSOfModel(reqs, i) ==
    Max({Blank} \cup {reqs[j].at : j \in {k \in 1 .. i - 1 : reqs[k].model = reqs[i].model}})

\* prevTS: of the request before, whatever its model.
PrevTS(reqs, i) == IF i = 1 THEN Blank ELSE reqs[i - 1].at

\* BuildSessionView: a point is marked for a boundary since the one before, and
\* for an event of its time and model.
Points(reqs, events, boundaries) ==
    [i \in DOMAIN reqs |->
        [at         |-> reqs[i].at,
         model      |-> reqs[i].model,
         compaction |-> \E c \in boundaries : PrevTS(reqs, i) < c /\ c <= reqs[i].at,
         event      |-> \E j \in DOMAIN events : /\ events[j].at = reqs[i].at
                                                 /\ events[j].model = reqs[i].model]]

\* The request that first reaches a block, or the last one.
Carrier(points, b) ==
    LET reached == {i \in DOMAIN points : points[i].at >= b.at}
    IN  IF reached = {} THEN Len(points) ELSE Min(reached)

\* Mutant: rounded down.
SpanDown(n) == IF n < maxBuckets THEN 1 ELSE n \div maxBuckets

Span(n) == (n + maxBuckets - 1) \div maxBuckets

\* Of the blocks with these numbers.
Tokens(blocks, numbers) == SumFunctionOnSet([i \in DOMAIN blocks |-> blocks[i].tokens], numbers)

\* bucketBlocks: spans of consecutive requests, and the tokens by kind that
\* enter under them.
BucketBlocks(points, blocks, kinds) ==
    LET n    == Len(points)
        span == Span(n)
        bucket(first) ==
            LET last  == Min({first + span - 1, n})
                under == {i \in DOMAIN blocks : Carrier(points, blocks[i]) \in first .. last}
            IN  [first |-> first, last |-> last,
                 tokens |-> [k \in kinds |-> Tokens(blocks, {i \in under : blocks[i].kind = k})]]
    IN  IF n = 0 \/ blocks = <<>> THEN <<>>
        ELSE [i \in 1 .. (n + span - 1) \div span |-> bucket((i - 1) * span + 1)]
-----------------------------------------------------------------------------
(***************************************************************************)
(* AttrRollup: each block counted once, at what it brought in.             *)
(***************************************************************************)

Everything == -1       \* no --since
EverySession == 0

\* The group a block is counted in, "" for none.
AttrGroup(by, b) ==
    CASE by = "tool" -> IF b.kind # "tool_result" THEN ""
                        ELSE IF b.tool = "" THEN "(unresolved)" ELSE b.tool
      [] by = "mcp"  -> b.mcp
      [] by = "file" -> IF b.kind = "tool_result" THEN b.file ELSE ""
      [] by = "kind" -> b.kind

\* Group -> blocks and tokens.
AttrRollup(blocks, by, since, session) ==
    LET where  == {i \in DOMAIN blocks : /\ AttrGroup(by, blocks[i]) # ""
                                         /\ blocks[i].at >= since
                                         /\ session \in {EverySession, blocks[i].session}}
        of(g)  == {i \in where : AttrGroup(by, blocks[i]) = g}
    IN  [g \in {AttrGroup(by, blocks[i]) : i \in where} |->
            [blocks |-> Cardinality(of(g)), flow |-> Tokens(blocks, of(g))]]
=============================================================================
