----------------------------- MODULE Residency -------------------------------
(***************************************************************************)
(* How many requests a block stays in the context for (internal/analyze,   *)
(* Residency), computed from timestamps after the fact, and the roll-up of *)
(* what it comes to.  A block is a record [session, at, kind, tool, mcp,   *)
(* file, tokens].                                                          *)
(***************************************************************************)
EXTENDS Integers, Sequences, FiniteSets, FiniteSetsExt, SequencesExt

Never == -1

\* firstAfter: strictly after.
firstAfter(times, t) ==
    LET later == {u \in times : u > t}
    IN  IF later = {} THEN Never ELSE Min(later)

\* Mutant: the request at the upper end is counted.
countBetweenUpTo(reqs, session, lo, hi) ==
    Cardinality({i \in DOMAIN reqs :
        reqs[i].session = session /\ reqs[i].at > lo /\ (hi # Never => reqs[i].at <= hi)})

\* countBetween: strictly between, no upper bound when there is no end.
countBetween(reqs, session, lo, hi) ==
    Cardinality({i \in DOMAIN reqs :
        reqs[i].session = session /\ reqs[i].at > lo /\ (hi # Never => reqs[i].at < hi)})

userTS(blocks, session) ==
    {blocks[i].at : i \in {j \in DOMAIN blocks :
        blocks[j].session = session /\ blocks[j].kind = "user_text"}}

\* A compaction ends the window, and for thinking the end of its turn does.
End(b, blocks, compactions) ==
    LET evicted == firstAfter(compactions[b.session], b.at)
        turnEnd == firstAfter(userTS(blocks, b.session), b.at)
    IN  IF b.kind = "thinking" /\ turnEnd # Never /\ (evicted = Never \/ turnEnd < evicted)
        THEN turnEnd ELSE evicted

Resident(b, blocks, reqs, compactions) ==
    countBetween(reqs, b.session, b.at, End(b, blocks, compactions))

\* Residency: per block, and in all (ExtractedRes).
ResTokens(b, blocks, reqs, compactions) == b.tokens * Resident(b, blocks, reqs, compactions)

ExtractedRes(blocks, reqs, compactions) ==
    SumFunction([i \in DOMAIN blocks |-> ResTokens(blocks[i], blocks, reqs, compactions)])
-----------------------------------------------------------------------------
\* Mutant: results of an unknown tool are left out.
PickResolved(by, b) ==
    CASE by = "tool" -> IF b.kind = "tool_result" THEN {b.tool} \ {""} ELSE {}
      [] by = "mcp"  -> {b.mcp} \ {""}
      [] by = "file" -> IF b.kind = "tool_result" THEN {b.file} \ {""} ELSE {}
      [] by = "kind" -> {b.kind}

\* pick: the group of a block, if it has one.
Pick(by, b) ==
    CASE by = "tool" -> IF b.kind # "tool_result" THEN {}
                        ELSE IF b.tool = "" THEN {"(unresolved)"} ELSE {b.tool}
      [] by = "mcp"  -> {b.mcp} \ {""}
      [] by = "file" -> IF b.kind = "tool_result" THEN {b.file} \ {""} ELSE {}
      [] by = "kind" -> {b.kind}

\* RollupResidency, over the blocks of the sessions in the window.
RollupResidency(blocks, by, reqs, compactions) ==
    LET of(g)    == {i \in DOMAIN blocks : g \in Pick(by, blocks[i])}
        tokens   == [i \in DOMAIN blocks |-> blocks[i].tokens]
        resident == [i \in DOMAIN blocks |-> ResTokens(blocks[i], blocks, reqs, compactions)]
    IN  [g \in UNION {Pick(by, blocks[i]) : i \in DOMAIN blocks} |->
            [blocks   |-> Cardinality(of(g)),
             flow     |-> SumFunctionOnSet(tokens, of(g)),
             resident |-> SumFunctionOnSet(resident, of(g))]]
=============================================================================
