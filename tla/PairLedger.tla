----------------------------- MODULE PairLedger -----------------------------
(***************************************************************************)
(* What the gateway pairing promises its readers (wire cache doctor,       *)
(* session page, model report), with none of the passes, marks, chunks and *)
(* transactions that produce it: gateway rows and transcript requests      *)
(* arrive, and a ledger of pairs only ever grows, by pairs whose two sides *)
(* were free and agreed when they were joined.                             *)
(***************************************************************************)
EXTENDS Naturals, Sequences

CONSTANTS
    Agree(_, _)   \* may this gateway row be joined with this request?

VARIABLES
    gw,           \* gateway rows, in the order of their ids
    req,          \* transcript requests, in the order of their ids
    pairs         \* the ledger: a set of <<gateway id, request id>>

vars == <<gw, req, pairs>>

Free(ledger) == \A p \in ledger, q \in ledger :
                    (p[1] = q[1] \/ p[2] = q[2]) => p = q

Init == gw = <<>> /\ req = <<>> /\ pairs = {}

Extends(new, old) == Len(new) = Len(old) + 1 /\ SubSeq(new, 1, Len(old)) = old

\* A row of either side arrives; what is there already does not move.
Arrive ==
    /\ \/ Extends(gw', gw) /\ req' = req
       \/ Extends(req', req) /\ gw' = gw
    /\ pairs' = pairs

\* An existing request is restated under its own id (OpenCode rewrites usage).
Restate ==
    /\ DOMAIN req' = DOMAIN req
    /\ \E r \in DOMAIN req : \A o \in DOMAIN req \ {r} : req'[o] = req[o]
    /\ UNCHANGED <<gw, pairs>>

\* New pairs enter, old ones stay, and nothing on either side is used twice.
Join ==
    /\ pairs \subseteq pairs'
    /\ Free(pairs')
    /\ \A p \in pairs' \ pairs :
          /\ p[1] \in DOMAIN gw
          /\ p[2] \in DOMAIN req
          /\ Agree(gw[p[1]], req[p[2]])
    /\ UNCHANGED <<gw, req>>

Next == Arrive \/ Restate \/ Join

Spec == Init /\ [][Next]_vars
=============================================================================
