----------------------------- MODULE RefTracker -----------------------------
(***************************************************************************)
(* Was a tool result ever used?  The single pass over one transcript in    *)
(* internal/ingest/claudecode/refs.go.  A result registers its distinctive *)
(* identifiers in an inverted index; a later reference source (assistant   *)
(* text, thinking, tool input, human text) takes each identifier it quotes *)
(* out of the index and credits the results registered under it.  A text   *)
(* is the set of identifiers scanTokens yields: the credits of one text    *)
(* carry one timestamp, so their order shows nowhere.                      *)
(***************************************************************************)
EXTENDS Integers, Sequences, FiniteSets

CONSTANTS
    Idents,            \* identifiers that pass distinctive()
    NeedDistinct,      \* needDistinct: hits that make a result referenced
    MaxBlocksPerIdent, \* an identifier of more results is ambient
    MaxLines           \* bound on the lines of the transcript

ASSUME RefAssumption ==
    /\ IsFiniteSet(Idents)
    /\ NeedDistinct \in Nat \ {0}
    /\ MaxBlocksPerIdent \in Nat \ {0}
    /\ MaxLines \in Nat

VARIABLES
    index,             \* identifier -> [results, dead]; no entry when retired
    results,           \* refTracker.results: [line, orig, need, refTS]
    file               \* the lines read so far, what each one was

vars == <<index, results, file>>

NoEntry == [results |-> {}, dead |-> FALSE]

Entry(i) == IF i \in DOMAIN index THEN index[i] ELSE NoEntry

Least(a, b) == IF a <= b THEN a ELSE b

Here == Len(file) + 1
-----------------------------------------------------------------------------
Init ==
    /\ index = [i \in {} |-> NoEntry]
    /\ results = <<>>
    /\ file = <<>>

Read(kind, idents) ==
    /\ Len(file) < MaxLines
    /\ file' = Append(file, [kind |-> kind, idents |-> idents])

\* An entry that is full is retired for everybody by the next result.
Full(e) == Cardinality(e.results) >= MaxBlocksPerIdent

Register(e, n) ==
    IF e.dead \/ Full(e) THEN [results |-> {}, dead |-> TRUE]
                         ELSE [e EXCEPT !.results = @ \cup {n}]

\* addResult; one without identifiers stays off the books.
AddResult == \E idents \in SUBSET Idents :
    /\ Read("result", idents)
    /\ LET need == Least(NeedDistinct, Cardinality(idents))
           n    == Len(results) + 1
       IN  IF idents = {} THEN UNCHANGED <<results, index>>
           ELSE /\ results' = Append(results, [line |-> Here, orig |-> need,
                                               need |-> need, refTS |-> 0])
                /\ index' = [i \in DOMAIN index \cup idents |->
                               IF i \in idents THEN Register(Entry(i), n) ELSE index[i]]

\* The identifiers of a text that credit result n.
Hits(text, n) == {i \in text \cap DOMAIN index : n \in index[i].results}

\* A result that needs no more hits is left alone.
Credit(r, hits) ==
    LET left == r.need - Least(r.need, hits)
    IN  [r EXCEPT !.need = left, !.refTS = IF r.need > 0 /\ left = 0 THEN Here ELSE @]

\* Mutant: an identifier that fired stays in the index.
RetireNothing(text) == index' = index

\* An identifier leaves the index with its first quote, ambient or not.
Retire(text) == index' = [i \in DOMAIN index \ text |-> index[i]]

\* observeText, and observeToolInput over the string values of an input.
ObserveText == \E text \in SUBSET Idents \ {{}} :
    /\ Read("source", text)
    /\ results' = [n \in DOMAIN results |-> Credit(results[n], Cardinality(Hits(text, n)))]
    /\ Retire(text)

Next == AddResult \/ ObserveText

Spec == Init /\ [][Next]_vars

\* finalize, were the file to end here: some but not enough hits abstain.
Verdict(r) ==
    IF r.need = 0 THEN "referenced"
    ELSE IF r.need = r.orig THEN "unreferenced" ELSE "unknown"
-----------------------------------------------------------------------------
\* What the transcript says to a reader of the comments, with no index.
Quotes(i, from, to) == {k \in from .. to : file[k].kind = "source" /\ i \in file[k].idents}

Claims(i, from, to) == {k \in from .. to : file[k].kind = "result" /\ i \in file[k].idents}

\* Before the line, the identifier was quoted after a result had claimed it.
Fired(i, line) == \E q \in Quotes(i, 1, line - 1) : Claims(i, 1, q - 1) # {}

\* Before the line, more results claimed the identifier than may.
Ambient(i, line) == Cardinality(Claims(i, 1, line - 1)) > MaxBlocksPerIdent

\* The identifiers of the result at a line that count for it: the quote that
\* is the first of the file comes after the result, and not too late.
Evidence(line, upto) ==
    {i \in file[line].idents :
        \E k \in Quotes(i, line + 1, upto) : ~Fired(i, k) /\ ~Ambient(i, k)}

Needed(line) == Least(NeedDistinct, Cardinality(file[line].idents))

\* None of the identifiers of the result was quoted and then claimed again.
Fresh(line) == \A i \in file[line].idents : ~Fired(i, line)

\* "A result is REFERENCED once two distinct identifiers hit (one, if it only
\* produced one)" (refs.go): the verdict of a result with fresh identifiers, and
\* the time of it, are the ones a reader of the whole transcript would give, who
\* counts each identifier at its first quote in the file and not at all when too
\* many results have claimed it.  A result that claims an identifier after it was
\* quoted may be credited by a later quote, although "each identifier fires at
\* most once across the whole file": the quote deletes the entry, its count and
\* its tombstone, and the result makes a new one.  The property leaves it out.
VerdictMatchesText ==
    \A n \in DOMAIN results :
        LET r    == results[n]
            seen == Cardinality(Evidence(r.line, Len(file)))
        IN  Fresh(r.line) =>
              /\ Verdict(r) = (IF seen >= Needed(r.line) THEN "referenced"
                               ELSE IF seen = 0 THEN "unreferenced" ELSE "unknown")
              /\ r.refTS # 0 =>
                    /\ Cardinality(Evidence(r.line, r.refTS)) >= Needed(r.line)
                    /\ Cardinality(Evidence(r.line, r.refTS - 1)) < Needed(r.line)
=============================================================================
