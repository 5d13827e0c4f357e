----------------------------- MODULE MCPairing ------------------------------
(***************************************************************************)
(* Small tables for Pairing.  Times are minutes in units of the window: the*)
(* rows at 1 and 3 are out of each other's reach and both within reach of  *)
(* one at 2, which is what makes the span of new requests matter.          *)
(***************************************************************************)
EXTENDS Pairing, TLC

CONSTANTS s1, s2

Gw(ts, in, out, cred, session, class) ==
    [ts |-> ts, in |-> in, out |-> out, ccre |-> 0, cred |-> cred,
     session |-> session, class |-> class, ok |-> TRUE]

Req(ts, in, out, cred, session, src) ==
    [ts |-> ts, in |-> in, out |-> out, ccre |-> 0, cred |-> cred,
     session |-> session, src |-> src]

\* Claude Code rows of one usage tuple on both sides of a request, the later one
\* of another session, and a chat row whose gross prompt 2 OpenCode splits into
\* 1 + 1 cached; an OpenCode message that is refreshed from 1 to 2 output tokens.
GwMixed == {Gw(1, 1, 1, 0, NoSession, "anthropic"), Gw(3, 1, 1, 0, s2, "anthropic"),
            Gw(2, 2, 2, 0, s1, "chat")}
ReqMixed == {Req(2, 1, 1, 0, s1, "cc"), Req(2, 1, 1, 1, s1, "oc"), Req(2, 1, 2, 1, s1, "oc")}

\* Two processes run the same code.
EitherPass == Permutations(Passes)

\* Two gateway rows that could share the request between them, and a request
\* only the later one reaches.
GwPair == {Gw(t, 1, 1, 0, NoSession, "anthropic") : t \in {1, 3}}
ReqPair == {Req(t, 1, 1, 0, s1, "cc") : t \in {2, 3}}
=============================================================================
