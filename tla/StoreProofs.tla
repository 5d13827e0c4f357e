---------------------------- MODULE StoreProofs -----------------------------
(***************************************************************************)
(* What is proved of the store: of the schema that Open brings up, of the  *)
(* router log that a pull brings in, and of the pass that pairs its rows   *)
(* with the requests of the transcripts.  The three are specifications of  *)
(* their own, with variables of their own.                                 *)
(***************************************************************************)
EXTENDS Pairing, Migrations, GatewayPull, TLAPS

(***************************************************************************)
(* Pairing: for every number of processes, every table size and every      *)
(* chunk size, its types, that a request is claimed at most once, that a   *)
(* pair joins rows that agree, that nothing is missed below the marks, and *)
(* that one pass at a time implements the ledger.                          *)
(***************************************************************************)
-----------------------------------------------------------------------------
(***************************************************************************)
(* Sequences grow at their end and are updated in place.                   *)
(***************************************************************************)
LEMMA AppendFacts ==
    ASSUME NEW S, NEW s \in Seq(S), NEW x \in S
    PROVE  /\ Append(s, x) \in Seq(S)
           /\ Len(Append(s, x)) = Len(s) + 1
           /\ DOMAIN Append(s, x) = 1 .. Len(s) + 1
           /\ \A i \in DOMAIN s : Append(s, x)[i] = s[i]
           /\ Append(s, x)[Len(s) + 1] = x
OBVIOUS

LEMMA ExceptFacts ==
    ASSUME NEW S, NEW s \in Seq(S), NEW i \in DOMAIN s, NEW x \in S
    PROVE  /\ [s EXCEPT ![i] = x] \in Seq(S)
           /\ Len([s EXCEPT ![i] = x]) = Len(s)
           /\ DOMAIN [s EXCEPT ![i] = x] = DOMAIN s
           /\ [s EXCEPT ![i] = x][i] = x
           /\ \A j \in DOMAIN s : j # i => [s EXCEPT ![i] = x][j] = s[j]
OBVIOUS

-----------------------------------------------------------------------------
(***************************************************************************)
(* Types.  The local variables of a pass change one at a time, so each     *)
(* action leaves most conjuncts of TypeOK as they were.                    *)
(***************************************************************************)
LEMMA TypeInit == Init => TypeOK
BY PairingAssumption DEF Init, TypeOK, TablesOK, LocalsOK, TxOK, KeyOK, Stages, GwIds

LEMMA TypeStep == TypeOK /\ [Next]_vars => TypeOK'
<1> SUFFICES ASSUME TypeOK, [Next]_vars PROVE TypeOK'
  OBVIOUS
<1> USE PairingAssumption
<1>t. TablesOK /\ LocalsOK /\ TxOK
  BY DEF TypeOK
<1>1. CASE LogGw
  <2>1. PICK s \in GwShapes : gw' = Append(gw, s)
    BY <1>1 DEF LogGw
  <2>2. gw' \in Seq(GwShapes) /\ Len(gw') = Len(gw) + 1 /\ DOMAIN gw' = 1 .. Len(gw) + 1
    BY <1>t, <2>1, AppendFacts DEF TablesOK
  <2>3. KeyOK(key)'
    <3>1. key' = Append(key, 0) /\ key \in Seq(Nat) /\ 0 \in Nat /\ req' = req
      BY <1>1, <1>t DEF LogGw, TablesOK, KeyOK
    <3>2. /\ key' \in Seq(Nat) /\ Len(key') = Len(key) + 1 
          /\ \A i \in DOMAIN key : key'[i] = key[i]
          /\ key'[Len(key) + 1] = 0
      BY <3>1, AppendFacts
    <3> QED BY <1>t, <2>2, <3>1, <3>2 DEF TablesOK, KeyOK, GwIds
  <2>4. TablesOK' BY <1>1, <1>t, <2>2, <2>3 DEF LogGw, TablesOK, marks
  <2>5. LocalsOK' BY <1>1, <1>t, <2>2 DEF LogGw, TablesOK, LocalsOK, GwIds, locals
  <2>6. TxOK'     BY <1>1, <1>t DEF LogGw, TxOK
  <2> QED BY <2>4, <2>5, <2>6 DEF TypeOK
<1>2. CASE WriteReq
  <2>1. PICK s \in ReqShapes : req' = Append(req, s)
    BY <1>2 DEF WriteReq
  <2>2. req' \in Seq(ReqShapes) /\ Len(req') = Len(req) + 1 /\ gw' = gw
    BY <1>2, <1>t, <2>1, AppendFacts DEF WriteReq, TablesOK
  <2>3. TablesOK' BY <1>2, <1>t, <2>2 DEF WriteReq, TablesOK, KeyOK, GwIds, marks, txn
  <2>4. LocalsOK' BY <1>2, <1>t, <2>2 DEF WriteReq, TablesOK, LocalsOK, GwIds, locals
  <2>5. TxOK'     BY <1>2, <1>t, <2>2 DEF WriteReq, TxOK, txn
  <2> QED BY <2>3, <2>4, <2>5 DEF TypeOK
<1>3. CASE RefreshReq
  <2>1. PICK r \in ReqIds, s \in ReqShapes : req' = [req EXCEPT ![r] = s]
    BY <1>3 DEF RefreshReq
  <2>2. req' \in Seq(ReqShapes) /\ Len(req') = Len(req) /\ gw' = gw
    BY <1>3, <1>t, <2>1, ExceptFacts DEF RefreshReq, TablesOK, ReqIds
  <2>3. TablesOK' BY <1>3, <1>t, <2>2 DEF RefreshReq, TablesOK, KeyOK, GwIds, marks, txn
  <2>4. LocalsOK' BY <1>3, <1>t, <2>2 DEF RefreshReq, LocalsOK, GwIds, locals
  <2>5. TxOK'     BY <1>3, <1>t, <2>2 DEF RefreshReq, TxOK, txn
  <2> QED BY <2>3, <2>4, <2>5 DEF TypeOK
<1>4. ASSUME NEW p \in Passes, Begin(p) PROVE TypeOK'
  <2>1. TablesOK' BY <1>4, <1>t DEF Begin, TablesOK, KeyOK, GwIds, tables, marks, txn
  <2>2. LocalsOK' BY <1>4, <1>t DEF Begin, Goto, LocalsOK, GwIds, Stages, tables
  <2>3. TxOK'     BY <1>4, <1>t DEF Begin, Goto, LocalsOK, TxOK, KeyOK, GwIds, tables, txn
  <2> QED BY <2>1, <2>2, <2>3 DEF TypeOK
<1>5. ASSUME NEW p \in Passes, Reads(p) PROVE TypeOK'
  \* A read changes nothing but the locals of its own pass.
  <2>1. /\ UNCHANGED <<tables, marks, txn, fails>>
        /\ pc[p] # "match"
        /\ \E s \in Stages : pc' = [pc EXCEPT ![p] = s]
    BY <1>5 DEF Reads, ReadGwMark, ReadReqMark, ReadGwMax, ReadReqMax, ReadSpan, ReadPending,
                Goto, Stages
  <2>2. TablesOK' BY <1>t, <2>1 DEF TablesOK, KeyOK, GwIds, tables, marks, txn
  <2>3. TxOK'     BY <1>t, <2>1 DEF LocalsOK, TxOK, KeyOK, GwIds, tables, txn
  <2>4. LocalsOK'
    <3>0. pc' \in [Passes -> Stages] /\ gw' = gw /\ req' = req /\ gwMark \in Nat /\ reqMark \in Nat
          /\ Len(gw) \in Nat /\ Len(req) \in Nat
      BY <1>t, <2>1 DEF LocalsOK, TablesOK, tables
    <3> USE DEF LocalsOK, GwIds
    <3>1. CASE ReadGwMark(p)   BY <1>t, <3>0, <3>1 DEF ReadGwMark
    <3>2. CASE ReadReqMark(p)  BY <1>t, <3>0, <3>2 DEF ReadReqMark
    <3>3. CASE ReadGwMax(p)    BY <1>t, <3>0, <3>3 DEF ReadGwMax
    <3>4. CASE ReadReqMax(p)   BY <1>t, <3>0, <3>4 DEF ReadReqMax
    <3>5. CASE ReadSpan(p)
      <4>1. \A r \in ReqIds : req[r].ts \in Int \cup {NoTime}
        BY <1>t DEF TablesOK, ReqIds
      <4> QED BY <1>t, <3>0, <3>5, <4>1 DEF ReadSpan
    <3>6. CASE ReadPending(p)
      <4>1. GwIds \subseteq Nat BY <1>t DEF TablesOK
      <4> QED BY <1>t, <3>0, <3>6, <4>1 DEF ReadPending
    <3> QED BY <1>5, <3>1, <3>2, <3>3, <3>4, <3>5, <3>6 DEF Reads
  <2> QED BY <2>2, <2>3, <2>4 DEF TypeOK
<1>6. ASSUME NEW p \in Passes, Writes(p) PROVE TypeOK'
  <2>1. CASE StartChunk(p)
    <3>1. TablesOK' BY <1>t, <2>1 DEF StartChunk, TablesOK, KeyOK, GwIds, tables, marks
    <3>2. LocalsOK' BY <1>t, <2>1 DEF StartChunk, LocalsOK, GwIds, tables, locals
    <3>3. TxOK'     BY <1>t, <2>1 DEF StartChunk, TablesOK, TxOK, KeyOK, GwIds, tables
    <3> QED BY <3>1, <3>2, <3>3 DEF TypeOK
  <2>2. ASSUME NEW g \in todo[p], TakeRow(p, g), KeyOK(key)' PROVE TypeOK'
    <3>1. TablesOK' BY <1>t, <2>2 DEF TakeRow, TablesOK, GwIds, tables, marks
    <3>2. LocalsOK' BY <1>t, <2>2 DEF TakeRow, LocalsOK, GwIds, tables
    <3>3. TxOK'     BY <1>t, <2>2 DEF TakeRow, TxOK, KeyOK, GwIds, tables
    <3> QED BY <3>1, <3>2, <3>3 DEF TypeOK
  <2>3. CASE PairRow(p)
    <3>1. PICK g \in todo[p] : /\ TakeRow(p, g)
                               /\ \E r \in Closest(Candidates(g), g) : key' = [key EXCEPT ![g] = r]
      BY <2>3 DEF PairRow
    <3>2. PICK r \in ReqIds : key' = [key EXCEPT ![g] = r]
      BY <3>1 DEF Closest, Candidates, Unclaimed
    <3>3. g \in DOMAIN key /\ r \in 1 .. Len(req) /\ key \in Seq(Nat)
      BY <1>t DEF ReqIds, GwIds, TablesOK, LocalsOK, KeyOK
    <3>4. /\ key' \in Seq(Nat) /\ Len(key') = Len(key) /\ key'[g] = r
          /\ \A h \in DOMAIN key : h # g => key'[h] = key[h]
      BY <3>2, <3>3, ExceptFacts
    <3>5. KeyOK(key)' BY <1>t, <3>1, <3>3, <3>4 DEF TakeRow, TablesOK, KeyOK, GwIds, tables
    <3> QED BY <2>2, <3>1, <3>5
  <2>4. CASE LeaveRow(p)
    <3>1. PICK g \in todo[p] : TakeRow(p, g) /\ key' = key
      BY <2>4 DEF LeaveRow
    <3>2. KeyOK(key)' BY <1>t, <3>1 DEF TakeRow, TablesOK, KeyOK, GwIds, tables
    <3> QED BY <2>2, <3>1, <3>2
  <2>5. CASE CommitChunk(p)
    <3>1. TablesOK' BY <1>t, <2>5 DEF CommitChunk, TablesOK, KeyOK, GwIds, tables, marks
    <3>2. LocalsOK' BY <1>t, <2>5 DEF CommitChunk, LocalsOK, GwIds, tables, locals
    <3>3. TxOK'     BY <1>t, <2>5 DEF CommitChunk, TxOK
    <3> QED BY <3>1, <3>2, <3>3 DEF TypeOK
  <2>6. CASE WriteGwMark(p)
    <3>1. TablesOK' BY <1>t, <2>6 DEF WriteGwMark, TablesOK, LocalsOK, KeyOK, GwIds, tables, txn
    <3>2. LocalsOK' BY <1>t, <2>6 DEF WriteGwMark, Goto, LocalsOK, GwIds, Stages, tables, locals
    <3>3. TxOK'     BY <1>t, <2>6 DEF WriteGwMark, TxOK, txn
    <3> QED BY <3>1, <3>2, <3>3 DEF TypeOK
  <2>7. CASE WriteReqMark(p)
    <3>1. TablesOK' BY <1>t, <2>7 DEF WriteReqMark, TablesOK, LocalsOK, KeyOK, GwIds, tables, txn
    <3>2. LocalsOK' BY <1>t, <2>7 DEF WriteReqMark, Goto, Forget, LocalsOK, TablesOK, GwIds, Stages, tables
    <3>3. TxOK'     BY <1>t, <2>7 DEF WriteReqMark, TxOK, txn
    <3> QED BY <3>1, <3>2, <3>3 DEF TypeOK
  <2> QED BY <1>6, <2>1, <2>3, <2>4, <2>5, <2>6, <2>7 DEF Writes
<1>7. ASSUME NEW p \in Passes, Fail(p) PROVE TypeOK'
  <2>1. TablesOK' BY <1>t, <1>7 DEF Fail, TablesOK, TxOK, KeyOK, GwIds, tables, marks, txn
  <2>2. LocalsOK' BY <1>t, <1>7 DEF Fail, Forget, LocalsOK, TablesOK, GwIds, Stages, tables
  <2>3. TxOK'
    <3>1. CASE tx = p BY <1>t, <1>7, <3>1 DEF Fail, TxOK
    <3>2. CASE tx # p BY <1>t, <1>7, <3>2 DEF Fail, TxOK, LocalsOK, KeyOK, GwIds, tables, txn
    <3> QED BY <3>1, <3>2
  <2> QED BY <2>1, <2>2, <2>3 DEF TypeOK
<1>8. CASE UNCHANGED vars
  BY <1>8, <1>t DEF vars, tables, marks, locals, txn, TypeOK, TablesOK, LocalsOK, TxOK, KeyOK, GwIds
<1> QED BY <1>1, <1>2, <1>3, <1>4, <1>5, <1>6, <1>7, <1>8 DEF Next

\* The variables of every pass keep their types, for all tables and processes.
THEOREM TypeCorrect == Spec => []TypeOK
BY TypeInit, TypeStep, PTL DEF Spec

\* What the type invariant says of the tables, in the form the steps use it.
LEMMA TableFacts ==
    ASSUME TypeOK
    PROVE  /\ Len(gw) \in Nat /\ Len(req) \in Nat
           /\ gwMark \in Nat /\ gwMark <= Len(gw)
           /\ reqMark \in Nat /\ reqMark <= Len(req)
           /\ KeyOK(key) /\ DOMAIN key = GwIds
<1>1. gw \in Seq(GwShapes) /\ req \in Seq(ReqShapes) /\ KeyOK(key)
      /\ gwMark \in 0 .. Len(gw) /\ reqMark \in 0 .. Len(req)
  BY DEF TypeOK, TablesOK
<1>2. Len(gw) \in Nat /\ Len(req) \in Nat
  BY <1>1
<1>3. DOMAIN key = GwIds
  BY <1>1 DEF KeyOK, GwIds
<1> QED BY <1>1, <1>2, <1>3

-----------------------------------------------------------------------------
(***************************************************************************)
(* Claims.  The query sees every claim made so far, in this chunk too, and *)
(* a rollback returns to a column that was free of double claims.          *)
(***************************************************************************)
LEMMA PairRowTakes ==
    ASSUME TypeOK, NEW p \in Passes, PairRow(p)
    PROVE  \E g \in todo[p], r \in ReqIds :
              /\ TakeRow(p, g)
              /\ Agree(gw[g], req[r]) /\ ~Claimed(key, r)
              /\ key' = [key EXCEPT ![g] = r]
              /\ g \in DOMAIN key /\ r \in Nat \ {0}
              /\ DOMAIN key' = DOMAIN key /\ key'[g] = r
              /\ \A h \in DOMAIN key : h # g => key'[h] = key[h]
<1>1. PICK g \in todo[p] : /\ TakeRow(p, g)
                           /\ \E r \in Closest(Candidates(g), g) : key' = [key EXCEPT ![g] = r]
  BY DEF PairRow
<1>2. PICK r \in Closest(Candidates(g), g) : key' = [key EXCEPT ![g] = r]
  BY <1>1
<1>3. r \in ReqIds /\ ~Claimed(key, r) /\ Agree(gw[g], req[r])
  BY DEF Closest, Candidates, Unclaimed, Agree
<1>4. g \in DOMAIN key /\ r \in Nat \ {0} /\ key \in Seq(Nat)
  BY <1>3 DEF TypeOK, TablesOK, LocalsOK, KeyOK, ReqIds, GwIds
<1>5. /\ DOMAIN key' = DOMAIN key /\ key'[g] = r
      /\ \A h \in DOMAIN key : h # g => key'[h] = key[h]
  BY <1>2, <1>4, ExceptFacts
<1> QED BY <1>1, <1>2, <1>3, <1>4, <1>5

\* What every other action does to the columns.
LEMMA KeySteps ==
    ASSUME TypeOK, Next
    PROVE  \/ /\ LogGw
              /\ DOMAIN key = 1 .. Len(gw) /\ DOMAIN key' = 1 .. Len(gw) + 1
              /\ \A g \in DOMAIN key : key'[g] = key[g]
              /\ key'[Len(gw) + 1] = 0
              /\ tx = NoTx /\ tx' = NoTx
           \/ \E p \in Passes : PairRow(p)
           \/ key' = key /\ tx' = tx /\ saved' = saved
           \/ key' = key /\ tx' # NoTx /\ saved' = key
           \/ key' = key /\ tx' = NoTx
           \/ key' = saved /\ tx # NoTx /\ tx' = NoTx
<1>1. CASE LogGw
  <2>1. key' = Append(key, 0) /\ key \in Seq(Nat) /\ 0 \in Nat /\ Len(key) = Len(gw)
    BY <1>1 DEF LogGw, TypeOK, TablesOK, KeyOK
  <2>2. /\ DOMAIN key' = 1 .. Len(key) + 1 
        /\ \A i \in DOMAIN key : key'[i] = key[i]
        /\ key'[Len(key) + 1] = 0
    BY <2>1, AppendFacts
  <2> QED BY <1>1, <2>1, <2>2 DEF LogGw
<1>2. CASE WriteReq \/ RefreshReq
  BY <1>2 DEF WriteReq, RefreshReq, txn
<1>3. ASSUME NEW p \in Passes, Begin(p) \/ Reads(p)
      PROVE  key' = key /\ tx' = tx /\ saved' = saved
  BY <1>3 DEF Begin, Reads, ReadGwMark, ReadReqMark, ReadGwMax, ReadReqMax, ReadSpan, ReadPending, txn
<1>4. ASSUME NEW p \in Passes, StartChunk(p)
      PROVE  key' = key /\ tx' # NoTx /\ saved' = key
  BY <1>4, PairingAssumption DEF StartChunk
<1>5. ASSUME NEW p \in Passes, LeaveRow(p) \/ WriteGwMark(p) \/ WriteReqMark(p)
      PROVE  key' = key /\ tx' = tx /\ saved' = saved
  BY <1>5 DEF LeaveRow, TakeRow, WriteGwMark, WriteReqMark, txn
<1>6. ASSUME NEW p \in Passes, CommitChunk(p)
      PROVE  key' = key /\ tx' = NoTx
  BY <1>6 DEF CommitChunk
<1>7. ASSUME NEW p \in Passes, Fail(p)
      PROVE  \/ key' = key /\ tx' = tx /\ saved' = saved
             \/ key' = saved /\ tx # NoTx /\ tx' = NoTx
  BY <1>7, PairingAssumption DEF Fail, txn
<1> QED BY <1>1, <1>2, <1>3, <1>4, <1>5, <1>6, <1>7 DEF Next, Writes

\* Neither the column nor the one a rollback would restore claims twice.
OnceInv == TypeOK /\ Once(key) /\ (tx # NoTx => Once(saved))

LEMMA OnceStep == OnceInv /\ [Next]_vars => OnceInv'
<1> SUFFICES ASSUME OnceInv, [Next]_vars PROVE OnceInv'
  OBVIOUS
<1>t. TypeOK /\ TypeOK' /\ Once(key) /\ (tx # NoTx => Once(saved))
  BY TypeStep DEF OnceInv
<1>1. CASE UNCHANGED vars
  BY <1>1, <1>t DEF vars, txn, Once, OnceInv
<1>2. CASE Next
  <2>1. CASE \E p \in Passes : PairRow(p)
    <3>1. PICK p \in Passes : PairRow(p)
      BY <2>1
    <3>2. PICK g \in todo[p], r \in ReqIds :
              /\ TakeRow(p, g)
              /\ ~Claimed(key, r)
              /\ g \in DOMAIN key /\ r \in Nat \ {0}
              /\ DOMAIN key' = DOMAIN key /\ key'[g] = r
              /\ \A h \in DOMAIN key : h # g => key'[h] = key[h]
      BY <1>t, <3>1, PairRowTakes
    <3>3. Once(key)'
      BY <1>t, <3>2 DEF Once, Claimed
    <3>4. saved' = saved /\ tx' = tx
      BY <3>2 DEF TakeRow
    <3> QED BY <1>t, <3>3, <3>4 DEF OnceInv, Once
  <2>2. CASE /\ DOMAIN key = 1 .. Len(gw) /\ DOMAIN key' = 1 .. Len(gw) + 1
             /\ \A g \in DOMAIN key : key'[g] = key[g]
             /\ key'[Len(gw) + 1] = 0
             /\ tx' = NoTx
    <3>1. Len(gw) \in Nat /\ \A g \in DOMAIN key' : key'[g] # 0 => g \in DOMAIN key
      BY <1>t, <2>2 DEF TypeOK, TablesOK
    <3> QED BY <1>t, <2>2, <3>1 DEF OnceInv, Once
  <2>3. CASE key' = key /\ tx' = tx /\ saved' = saved
    BY <1>t, <2>3 DEF OnceInv, Once
  <2>4. CASE key' = key /\ tx' # NoTx /\ saved' = key
    BY <1>t, <2>4 DEF OnceInv, Once
  <2>5. CASE key' = key /\ tx' = NoTx
    BY <1>t, <2>5 DEF OnceInv, Once
  <2>6. CASE key' = saved /\ tx # NoTx /\ tx' = NoTx
    BY <1>t, <2>6 DEF OnceInv, Once
  <2> QED BY <1>2, <1>t, <2>1, <2>2, <2>3, <2>4, <2>5, <2>6, KeySteps
<1> QED BY <1>1, <1>2

\* No request is claimed by two gateway rows, for any number of passes run by
\* any number of processes side by side.
THEOREM ClaimedOnceHolds == Spec => []ClaimedOnce
<1>1. Init => OnceInv
  BY TypeInit, PairingAssumption DEF Init, OnceInv, Once
<1>2. OnceInv => ClaimedOnce
  BY DEF OnceInv, ClaimedOnce
<1> QED BY <1>1, <1>2, OnceStep, PTL DEF Spec

-----------------------------------------------------------------------------
(***************************************************************************)
(* Agreement.  Gateway rows and Claude Code requests never change, so what *)
(* agreed when a pair was made still does.                                 *)
(***************************************************************************)
LEMMA RowsStay ==
    ASSUME TypeOK, [Next]_vars
    PROVE  /\ \A g \in GwIds : g \in GwIds' /\ gw'[g] = gw[g]
           /\ \A r \in ReqIds : /\ r \in ReqIds'
                                /\ req[r].src = "cc" \/ req'[r].src = "cc" => req'[r] = req[r]
<1>t. gw \in Seq(GwShapes) /\ req \in Seq(ReqShapes)
  BY DEF TypeOK, TablesOK
<1>1. CASE LogGw
  <2>1. PICK s \in GwShapes : gw' = Append(gw, s)
    BY <1>1 DEF LogGw
  <2>2. DOMAIN gw' = 1 .. Len(gw) + 1 /\ \A i \in DOMAIN gw : gw'[i] = gw[i]
    BY <1>t, <2>1, AppendFacts
  <2> QED BY <1>1, <1>t, <2>2 DEF LogGw, GwIds, ReqIds
<1>2. CASE WriteReq
  <2>1. PICK s \in ReqShapes : req' = Append(req, s)
    BY <1>2 DEF WriteReq
  <2>2. DOMAIN req' = 1 .. Len(req) + 1 /\ \A i \in DOMAIN req : req'[i] = req[i]
    BY <1>t, <2>1, AppendFacts
  <2> QED BY <1>2, <1>t, <2>2 DEF WriteReq, GwIds, ReqIds
<1>3. CASE RefreshReq
  <2>1. PICK r \in ReqIds, s \in ReqShapes :
            req[r].src = "oc" /\ s.src = "oc" /\ req' = [req EXCEPT ![r] = s]
    BY <1>3 DEF RefreshReq
  <2>2. /\ DOMAIN req' = DOMAIN req /\ req'[r] = s
        /\ \A i \in DOMAIN req : i # r => req'[i] = req[i]
    BY <1>t, <2>1, ExceptFacts DEF ReqIds
  <2> QED BY <1>3, <2>1, <2>2 DEF RefreshReq, GwIds, ReqIds
<1>4. ASSUME ~(LogGw \/ WriteReq \/ RefreshReq) PROVE UNCHANGED <<gw, req>>
  BY <1>4 DEF Next, vars, tables, Begin, Reads, Writes, Fail, ReadGwMark, ReadReqMark, ReadGwMax,
              ReadReqMax, ReadSpan, ReadPending, StartChunk, PairRow, LeaveRow, TakeRow,
              CommitChunk, WriteGwMark, WriteReqMark
<1> QED BY <1>1, <1>2, <1>3, <1>4 DEF GwIds, ReqIds

LEMMA AgreeIsSound ==
    ASSUME NEW row, NEW r, Eligible(row), Agree(row, r)
    PROVE  Sound(row, r)
BY DEF Eligible, Agree, Exact, Gross, Near, Sound

\* What a pass picks is always one of its pending rows, and those are eligible.
TodoEligible == \A p \in Passes : \A g \in todo[p] : Eligible(gw[g])

LEMMA TodoSteps ==
    ASSUME TypeOK, [Next]_vars, NEW p \in Passes
    PROVE  \/ todo'[p] \subseteq todo[p]
           \/ ReadPending(p)
<1>t. todo \in [Passes -> SUBSET Nat]
  BY DEF TypeOK, LocalsOK
<1>1. CASE LogGw \/ WriteReq \/ RefreshReq \/ UNCHANGED vars
  BY <1>1 DEF LogGw, WriteReq, RefreshReq, vars, locals
<1>2. ASSUME NEW q \in Passes, Begin(q) \/ Reads(q) PROVE todo'[p] \subseteq todo[p] \/ ReadPending(p)
  BY <1>t, <1>2 DEF Begin, Reads, ReadGwMark, ReadReqMark, ReadGwMax, ReadReqMax, ReadSpan, ReadPending
<1>3. ASSUME NEW q \in Passes, Writes(q) \/ Fail(q) PROVE todo'[p] \subseteq todo[p]
  BY <1>t, <1>3 DEF Writes, Fail, Forget, StartChunk, PairRow, LeaveRow, TakeRow,
                    CommitChunk, WriteGwMark, WriteReqMark, locals
<1> QED BY <1>1, <1>2, <1>3 DEF Next

LEMMA TodoEligibleStep == TypeOK /\ TodoEligible /\ [Next]_vars => TodoEligible'
<1> SUFFICES ASSUME TypeOK, TodoEligible, [Next]_vars,
                    NEW p \in Passes, NEW g \in todo'[p]
             PROVE  Eligible(gw'[g])
  BY DEF TodoEligible
<1>1. CASE g \in todo[p]
  BY <1>1, RowsStay DEF TodoEligible, TypeOK, LocalsOK
<1>2. CASE ReadPending(p)
  BY <1>2 DEF ReadPending, tables, TypeOK, LocalsOK
<1> QED BY <1>1, <1>2, TodoSteps

\* The column, and the one a rollback would restore, join only what agrees.
SoundInv == TypeOK /\ TodoEligible /\ AllSound(key) /\ (tx # NoTx => AllSound(saved))

LEMMA SoundStays ==
    ASSUME TypeOK, [Next]_vars, NEW map, KeyOK(map), AllSound(map)
    PROVE  AllSound(map)'
<1> SUFFICES ASSUME NEW g \in DOMAIN map, map[g] # 0, req'[map[g]].src = "cc"
             PROVE  Sound(gw'[g], req'[map[g]])
  BY DEF AllSound
<1>1. g \in GwIds /\ map[g] \in ReqIds
  BY DEF TypeOK, TablesOK, KeyOK, GwIds, ReqIds
<1>2. gw'[g] = gw[g] /\ req'[map[g]] = req[map[g]]
  BY <1>1, RowsStay
<1> QED BY <1>2 DEF AllSound

LEMMA SoundStep == SoundInv /\ [Next]_vars => SoundInv'
<1> SUFFICES ASSUME SoundInv, [Next]_vars PROVE SoundInv'
  OBVIOUS
<1>t. TypeOK /\ TypeOK' /\ TodoEligible /\ TodoEligible' /\ AllSound(key) /\ (tx # NoTx => AllSound(saved))
  BY TypeStep, TodoEligibleStep DEF SoundInv
\* The old columns against the new tables.
<1>k. \A g \in DOMAIN key : key[g] # 0 /\ req'[key[g]].src = "cc" => Sound(gw'[g], req'[key[g]])
  BY <1>t, SoundStays DEF AllSound, TypeOK, TablesOK
<1>s. tx # NoTx =>
        \A g \in DOMAIN saved : saved[g] # 0 /\ req'[saved[g]].src = "cc" => Sound(gw'[g], req'[saved[g]])
  BY <1>t, SoundStays DEF AllSound, TypeOK, TxOK
<1>1. CASE UNCHANGED vars
  BY <1>1, <1>t, <1>k, <1>s DEF vars, txn, AllSound, SoundInv
<1>2. CASE Next
  <2>1. CASE \E p \in Passes : PairRow(p)
    <3>1. PICK p \in Passes : PairRow(p)
      BY <2>1
    <3>2. PICK g \in todo[p], r \in ReqIds :
              /\ TakeRow(p, g)
              /\ Agree(gw[g], req[r])
              /\ DOMAIN key' = DOMAIN key /\ key'[g] = r
              /\ \A h \in DOMAIN key : h # g => key'[h] = key[h]
      BY <1>t, <3>1, PairRowTakes
    <3>3. gw' = gw /\ req' = req /\ tx' = tx /\ saved' = saved
      BY <3>2 DEF TakeRow, tables
    <3>4. Sound(gw'[g], req'[r])
      BY <1>t, <3>2, <3>3, AgreeIsSound DEF TodoEligible
    <3>5. AllSound(key)'
      BY <1>k, <3>2, <3>4 DEF AllSound
    <3> QED BY <1>t, <1>s, <3>3, <3>5 DEF SoundInv, AllSound
  <2>2. CASE /\ DOMAIN key = 1 .. Len(gw) /\ DOMAIN key' = 1 .. Len(gw) + 1
             /\ \A g \in DOMAIN key : key'[g] = key[g]
             /\ key'[Len(gw) + 1] = 0
             /\ tx' = NoTx
    <3>1. Len(gw) \in Nat /\ \A g \in DOMAIN key' : key'[g] # 0 => g \in DOMAIN key
      BY <1>t, <2>2 DEF TypeOK, TablesOK
    <3>2. AllSound(key)'
      BY <1>k, <2>2, <3>1 DEF AllSound
    <3> QED BY <1>t, <2>2, <3>2 DEF SoundInv
  <2>3. CASE key' = key /\ tx' = tx /\ saved' = saved
    BY <1>t, <1>k, <1>s, <2>3 DEF SoundInv, AllSound
  <2>4. CASE key' = key /\ tx' # NoTx /\ saved' = key
    BY <1>t, <1>k, <2>4 DEF SoundInv, AllSound
  <2>5. CASE key' = key /\ tx' = NoTx
    BY <1>t, <1>k, <2>5 DEF SoundInv, AllSound
  <2>6. CASE key' = saved /\ tx # NoTx /\ tx' = NoTx
    BY <1>t, <1>s, <2>6 DEF SoundInv, AllSound
  <2> QED BY <1>2, <1>t, <2>1, <2>2, <2>3, <2>4, <2>5, <2>6, KeySteps
<1> QED BY <1>1, <1>2

\* A row joined with an immutable request agrees with it in output, time and
\* session, for any number of passes and whatever is refreshed around it.
THEOREM PairSoundHolds == Spec => []PairSound
<1>1. Init => SoundInv
  BY TypeInit, PairingAssumption DEF Init, SoundInv, TodoEligible, AllSound
<1>2. SoundInv => PairSound
  BY DEF SoundInv, PairSound
<1> QED BY <1>1, <1>2, SoundStep, PTL DEF Spec

-----------------------------------------------------------------------------
(***************************************************************************)
(* Completeness of the incremental pass.  With one process at a time no    *)
(* claim is ever given back, so "tried" stays true: what has to be carried *)
(* through a pass is that every agreeing pair below the ids it saw is      *)
(* either settled, still pending, or below the old marks.                  *)
(***************************************************************************)
SinglePass == \A p, q \in Passes : p = q
AllDated   == \A s \in ReqShapes : s.ts \in Int

\* No immutable request up to b is free for a free row up to a outside E.
Below(map, a, b, E) ==
    \A g \in GwIds \ E, r \in ReqIds :
        (/\ g <= a /\ r <= b
         /\ Eligible(gw[g]) /\ Agree(gw[g], req[r]) /\ req[r].src = "cc"
         /\ map[g] = 0)
        => Claimed(map, r)

AfterGwMark  == {"reqMark", "gwMax", "reqMax", "span", "pending"}
AfterReqMark == {"gwMax", "reqMax", "span", "pending"}
AfterReqMax  == {"span", "pending", "match"}

StageInv(p) ==
    /\ \A g \in todo[p] : key[g] = 0
    /\ pc[p] \in AfterGwMark => gwFrom[p] = gwMark
    /\ pc[p] \in AfterReqMark => reqFrom[p] = reqMark
    /\ pc[p] \in AfterReqMax => reqMark <= reqSeen[p]
    /\ pc[p] = "pending" /\ ~full[p] =>
          /\ NoTime \notin span[p]
          /\ \A r \in ReqIds : r > reqFrom[p] /\ r <= reqSeen[p] /\ req[r].src = "cc"
                                 => req[r].ts \in span[p]
    /\ pc[p] \in {"match", "marking"} => Below(key, gwSeen[p], reqSeen[p], todo[p])
    /\ pc[p] = "marking" => gwMark = gwSeen[p] /\ todo[p] = {}

MissInv ==
    /\ TypeOK
    /\ Below(key, gwMark, reqMark, {})
    /\ tx # NoTx => Below(saved, gwMark, reqMark, {})
    /\ \A p \in Passes : StageInv(p)

\* A row id that is not past the old end was there before the step.
LEMMA IdsBelow ==
    ASSUME TypeOK, [Next]_vars
    PROVE  /\ \A g \in GwIds', a \in Nat : g <= a /\ a <= Len(gw) => g \in GwIds
           /\ \A r \in ReqIds', b \in Nat : r <= b /\ b <= Len(req) => r \in ReqIds
<1>1. /\ GwIds = 1 .. Len(gw) /\ ReqIds = 1 .. Len(req) /\ Len(gw) \in Nat /\ Len(req) \in Nat
  BY DEF TypeOK, TablesOK, GwIds, ReqIds
<1>2. \A g \in GwIds' : g \in Nat /\ g >= 1
  BY TypeStep DEF TypeOK, TablesOK, GwIds
<1>3. \A r \in ReqIds' : r \in Nat /\ r >= 1
  BY TypeStep DEF TypeOK, TablesOK, ReqIds
<1> QED BY <1>1, <1>2, <1>3

\* Below survives any step that changes the rows and takes back no claim.
LEMMA BelowFrame ==
    ASSUME TypeOK, [Next]_vars,
           NEW old, KeyOK(old), NEW new, GwIds \subseteq DOMAIN new,
           \A g \in GwIds : old[g] # 0 => new[g] = old[g],
           NEW a \in Nat, NEW b \in Nat, a <= Len(gw), b <= Len(req),
           NEW E, Below(old, a, b, E)
    PROVE  \A g \in GwIds' \ E, r \in ReqIds' :
               (/\ g <= a /\ r <= b
                /\ Eligible(gw'[g]) /\ Agree(gw'[g], req'[r]) /\ req'[r].src = "cc"
                /\ new[g] = 0)
               => Claimed(new, r)
<1> SUFFICES ASSUME NEW g \in GwIds' \ E, NEW r \in ReqIds', g <= a, r <= b,
                    Eligible(gw'[g]), Agree(gw'[g], req'[r]), req'[r].src = "cc", new[g] = 0
             PROVE  Claimed(new, r)
  OBVIOUS
<1>1. g \in GwIds /\ r \in ReqIds
  BY IdsBelow
<1>2. gw'[g] = gw[g] /\ req'[r] = req[r]
  BY <1>1, RowsStay
<1>3. old[g] = 0 /\ r # 0
  BY <1>1 DEF TypeOK, TablesOK, ReqIds
<1>4. Claimed(old, r)
  BY <1>1, <1>2, <1>3 DEF Below
<1>5. PICK h \in DOMAIN old : old[h] = r
  BY <1>4 DEF Claimed
<1>6. h \in GwIds
  BY <1>5 DEF TypeOK, TablesOK, KeyOK, GwIds
<1> QED BY <1>3, <1>5, <1>6 DEF Claimed

\* Inserts and refreshes leave every pass where it is and take no claim back.
LEMMA EnvStep ==
    ASSUME MissInv, LogGw \/ WriteReq \/ RefreshReq \/ UNCHANGED vars
    PROVE  MissInv'
<1>t. TypeOK /\ TypeOK' /\ [Next]_vars
  BY TypeStep DEF MissInv, Next
<1>e. UNCHANGED <<pc, full, gwFrom, reqFrom, gwSeen, reqSeen, span, todo, gwMark, reqMark, tx, saved>>
  BY DEF LogGw, WriteReq, RefreshReq, vars, marks, locals, txn
<1>g. GwIds \subseteq DOMAIN key' /\ \A g \in GwIds : key'[g] = key[g]
  <2>1. CASE LogGw
    <3>1. key' = Append(key, 0) /\ key \in Seq(Nat) /\ 0 \in Nat /\ DOMAIN key = GwIds
      BY <1>t, <2>1 DEF LogGw, TypeOK, TablesOK, KeyOK, GwIds
    <3>2. DOMAIN key' = 1 .. Len(key) + 1 /\ \A i \in DOMAIN key : key'[i] = key[i]
      BY <3>1, AppendFacts
    <3> QED BY <3>1, <3>2
  <2>2. CASE ~LogGw
    BY <1>t, <2>2 DEF WriteReq, RefreshReq, vars, txn, TypeOK, TablesOK, KeyOK, GwIds
  <2> QED BY <2>1, <2>2
<1>k. KeyOK(key) /\ GwIds \subseteq DOMAIN key /\ gwMark \in Nat /\ reqMark \in Nat
      /\ gwMark <= Len(gw) /\ reqMark <= Len(req)
  BY <1>t, TableFacts, Zenon
<1>1. Below(key, gwMark, reqMark, {})'
  BY <1>t, <1>e, <1>g, <1>k, BelowFrame, ZenonT(60) DEF MissInv, Below
<1>2. ASSUME tx # NoTx PROVE Below(saved, gwMark, reqMark, {})'
  <2>1. KeyOK(saved) /\ GwIds \subseteq DOMAIN saved
    BY <1>t, <1>2 DEF TypeOK, TxOK, KeyOK, GwIds
  <2>2. Below(saved, gwMark, reqMark, {})
    BY <1>2 DEF MissInv
  <2> QED BY <1>t, <1>e, <1>k, <2>1, <2>2, BelowFrame DEF Below
<1>3. ASSUME NEW p \in Passes PROVE StageInv(p)'
  <2>1. StageInv(p)
    BY DEF MissInv
  <2>2. /\ gwSeen[p] \in Nat /\ reqSeen[p] \in Nat /\ reqFrom[p] \in Nat
        /\ gwSeen[p] <= Len(gw) /\ reqSeen[p] <= Len(req)
        /\ todo[p] \subseteq GwIds
    BY <1>t DEF TypeOK, LocalsOK
  <2>3. pc[p] \in {"match", "marking"} => Below(key, gwSeen[p], reqSeen[p], todo[p])'
    BY <1>t, <1>e, <1>g, <1>k, <2>1, <2>2, BelowFrame DEF StageInv, Below
  <2>4. \A r \in ReqIds' : r <= reqSeen[p] /\ req'[r].src = "cc" => r \in ReqIds /\ req'[r] = req[r]
    <3> TAKE r \in ReqIds'
    <3> HAVE r <= reqSeen[p] /\ req'[r].src = "cc"
    <3>1. r \in ReqIds
      BY <1>t, <2>2, IdsBelow
    <3> QED BY <1>t, <3>1, RowsStay
  <2> QED BY <1>e, <1>g, <2>1, <2>2, <2>3, <2>4 DEF StageInv
<1> QED BY <1>t, <1>e, <1>1, <1>2, <1>3 DEF MissInv

\* With one process the stage of that process is the only one there is.
LEMMA OneStage ==
    ASSUME SinglePass, NEW p \in Passes, TypeOK',
           Below(key, gwMark, reqMark, {})', (tx # NoTx => Below(saved, gwMark, reqMark, {}))',
           StageInv(p)'
    PROVE  MissInv'
BY DEF SinglePass, MissInv

\* The reads at the start of a pass: the marks it starts from are the marks, and
\* what is pending covers every row that a new request could be joined with.
LEMMA ReadStep ==
    ASSUME SinglePass, AllDated, MissInv, NEW p \in Passes, Begin(p) \/ Reads(p)
    PROVE  MissInv'
<1>t. TypeOK /\ TypeOK' /\ [Next]_vars
  BY TypeStep DEF MissInv, Next
<1>f. UNCHANGED <<gw, req, key, gwMark, reqMark, tx, saved>>
  BY DEF Begin, Reads, ReadGwMark, ReadReqMark, ReadGwMax, ReadReqMax, ReadSpan, ReadPending,
         tables, marks, txn
<1>b. Below(key, gwMark, reqMark, {})' /\ (tx # NoTx => Below(saved, gwMark, reqMark, {}))'
  BY <1>f DEF MissInv, Below, GwIds, ReqIds
<1>s. StageInv(p)
  BY DEF MissInv
<1>l. /\ pc \in [Passes -> Stages] /\ full \in [Passes -> BOOLEAN]
      /\ gwFrom \in [Passes -> Nat] /\ reqFrom \in [Passes -> Nat]
      /\ gwSeen \in [Passes -> Nat] /\ reqSeen \in [Passes -> Nat]
      /\ span \in [Passes -> SUBSET (Int \cup {NoTime})] /\ todo \in [Passes -> SUBSET Nat]
      /\ reqMark \in Nat /\ gwMark \in Nat /\ reqMark <= Len(req)
  BY <1>t, TableFacts, Zenon DEF TypeOK, LocalsOK
<1> SUFFICES StageInv(p)'
  BY <1>t, <1>b, OneStage
<1>1. CASE Begin(p) \/ ReadGwMark(p) \/ ReadReqMark(p) \/ ReadGwMax(p)
  <2>1. /\ pc'[p] \in {"gwMark", "reqMark", "gwMax", "reqMax"}
        /\ todo' = todo
        /\ pc'[p] \in AfterGwMark => gwFrom'[p] = gwMark
        /\ pc'[p] \in AfterReqMark => reqFrom'[p] = reqMark
    BY <1>1, <1>s, <1>l DEF Begin, ReadGwMark, ReadReqMark, ReadGwMax, Goto,
                            StageInv, AfterGwMark, AfterReqMark
  <2> QED BY <1>f, <1>s, <2>1 DEF StageInv, AfterReqMax
<1>2. CASE ReadReqMax(p)
  <2>1. /\ pc[p] = "reqMax" /\ pc'[p] \in {"span", "pending"} /\ full' = full
        /\ pc'[p] = "pending" => full[p]
        /\ reqSeen'[p] = Len(req)
        /\ UNCHANGED <<gwFrom, reqFrom, gwSeen, todo>>
    BY <1>2, <1>l DEF ReadReqMax, Goto
  <2> QED BY <1>f, <1>s, <1>l, <2>1 DEF StageInv, AfterGwMark, AfterReqMark, AfterReqMax
<1>3. CASE ReadSpan(p)
  <2>1. /\ pc[p] = "span" /\ pc'[p] = "pending"
        /\ span'[p] = {req[r].ts : r \in {i \in ReqIds : i > reqFrom[p]}}
        /\ UNCHANGED <<full, gwFrom, reqFrom, gwSeen, reqSeen, todo>>
    BY <1>3, <1>l DEF ReadSpan, Goto
  <2>2. \A r \in ReqIds : req[r].ts \in Int
    BY <1>t DEF AllDated, TypeOK, TablesOK, ReqIds
  <2>3. /\ NoTime \notin span'[p]
        /\ \A r \in ReqIds : r > reqFrom[p] => req[r].ts \in span'[p]
    BY <2>1, <2>2, PairingAssumption
  <2> QED BY <1>f, <1>s, <2>1, <2>3 DEF StageInv, AfterGwMark, AfterReqMark, AfterReqMax, ReqIds
<1>4. CASE ReadPending(p)
  <2>1. /\ pc[p] = "pending" /\ pc'[p] = "match"
        /\ todo'[p] = {g \in GwIds : key[g] = 0 /\ Eligible(gw[g]) /\ InScope(p, g)}
        /\ UNCHANGED <<full, gwFrom, reqFrom, gwSeen, reqSeen, span>>
    BY <1>4, <1>l DEF ReadPending, Goto
  <2>2. ASSUME NEW g \in GwIds \ todo'[p], NEW r \in ReqIds, g <= gwSeen[p], r <= reqSeen[p],
               Eligible(gw[g]), Agree(gw[g], req[r]), req[r].src = "cc", key[g] = 0
        PROVE  Claimed(key, r)
    <3>1. ~full[p] /\ ~(g > gwFrom[p]) /\ ~InSpan(gw[g].ts, span[p])
      BY <2>1, <2>2 DEF InScope
    <3>2. g \in Int /\ r \in Int /\ gwFrom[p] \in Nat /\ reqFrom[p] \in Nat
      BY <1>l, <1>t DEF TypeOK, TablesOK, GwIds, ReqIds
    <3>3. g <= gwMark
      BY <1>s, <2>1, <3>1, <3>2 DEF StageInv, AfterGwMark
    <3>4. CASE r <= reqMark
      BY <2>2, <3>3, <3>4 DEF MissInv, Below
    <3>5. CASE ~(r <= reqMark)
      <4>1. NoTime \notin span[p] /\ req[r].ts \in span[p]
        BY <1>s, <1>l, <2>1, <2>2, <3>1, <3>2, <3>5 DEF StageInv, AfterReqMark
      <4>2. gw[g] \in GwShapes /\ req[r] \in ReqShapes
        BY <1>t DEF TypeOK, TablesOK, GwIds, ReqIds
      <4>3. gw[g].ts \in Int /\ req[r].ts \in Int /\ Window \in Nat
        BY <4>2, PairingAssumption DEF AllDated
      <4>4. req[r].ts - gw[g].ts <= Window /\ gw[g].ts - req[r].ts <= Window
        BY <2>2 DEF Agree, Exact, Gross, Near
      <4>5. gw[g].ts >= req[r].ts - Window /\ gw[g].ts <= req[r].ts + Window
        BY <4>3, <4>4
      <4>6. InSpan(gw[g].ts, span[p])
        BY <4>1, <4>5 DEF InSpan
      <4> QED BY <3>1, <4>6
    <3> QED BY <3>4, <3>5
  <2>3. Below(key, gwSeen[p], reqSeen[p], todo[p])'
    BY <1>f, <2>1, <2>2 DEF Below, GwIds, ReqIds
  <2> QED BY <1>f, <1>s, <2>1, <2>3 DEF StageInv, AfterGwMark, AfterReqMark, AfterReqMax
<1> QED BY <1>1, <1>2, <1>3, <1>4 DEF Reads

\* The chunks: a row leaves the pending set joined, or because every request it
\* agrees with is taken; then the marks move to what the pass saw.
LEMMA WriteStep ==
    ASSUME SinglePass, MissInv, NEW p \in Passes, Writes(p)
    PROVE  MissInv'
<1>t. TypeOK /\ TypeOK' /\ [Next]_vars
  BY TypeStep DEF MissInv, Next
<1>s. StageInv(p) /\ Below(key, gwMark, reqMark, {}) /\ (tx # NoTx => Below(saved, gwMark, reqMark, {}))
  BY DEF MissInv
<1>l. /\ pc \in [Passes -> Stages] /\ todo \in [Passes -> SUBSET Nat]
      /\ gwSeen[p] \in Nat /\ reqSeen[p] \in Nat /\ gwSeen[p] <= Len(gw) /\ reqSeen[p] <= Len(req)
      /\ reqMark \in Nat /\ gwMark \in Nat /\ gwMark <= Len(gw) /\ reqMark <= Len(req)
      /\ KeyOK(key) /\ DOMAIN key = GwIds
      /\ full \in [Passes -> BOOLEAN]
      /\ gwFrom \in [Passes -> Nat] /\ reqFrom \in [Passes -> Nat]
  <2>1. LocalsOK
    BY <1>t DEF TypeOK
  <2>2. gwSeen[p] \in Nat /\ reqSeen[p] \in Nat
    BY <2>1 DEF LocalsOK
  <2> QED BY <1>t, <2>1, <2>2, TableFacts, Zenon DEF LocalsOK
<1>r. UNCHANGED <<gw, req>>
  BY DEF Writes, StartChunk, PairRow, LeaveRow, TakeRow, CommitChunk, WriteGwMark, WriteReqMark, tables
<1>1. CASE StartChunk(p)
  BY <1>1, <1>t, <1>s, <1>r, OneStage
     DEF StartChunk, marks, locals, StageInv, Below, GwIds, ReqIds
<1>2. CASE PairRow(p)
  <2>1. PICK g \in todo[p], r \in ReqIds :
            /\ TakeRow(p, g)
            /\ r \in Nat \ {0} /\ DOMAIN key' = DOMAIN key /\ key'[g] = r
            /\ \A h \in DOMAIN key : h # g => key'[h] = key[h]
    BY <1>t, <1>2, PairRowTakes
  <2>2. /\ UNCHANGED <<gwMark, reqMark, pc, full, gwFrom, reqFrom, gwSeen, reqSeen, span, tx, saved>>
        /\ todo'[p] = todo[p] \ {g} /\ pc[p] = "match"
    BY <1>t, <1>l, <2>1, PairingAssumption DEF TakeRow, marks, TypeOK, TxOK
  <2>3. GwIds \subseteq DOMAIN key' /\ \A h \in GwIds : key[h] # 0 => key'[h] = key[h]
    BY <1>s, <1>l, <2>1 DEF StageInv
  <2>4. Below(key, gwSeen[p], reqSeen[p], todo[p])'
    <3>1. Below(key, gwSeen[p], reqSeen[p], todo[p])
      BY <1>s, <2>2 DEF StageInv
    <3>2. \A q \in ReqIds : Claimed(key, q) => Claimed(key', q)
      BY <1>l, <1>t, <2>1, <2>3 DEF Claimed, TypeOK, TablesOK, ReqIds
    <3> QED BY <1>l, <1>r, <2>1, <2>2, <3>1, <3>2 DEF Below, GwIds, ReqIds
  <2>5. Below(key, gwMark, reqMark, {})'
    <3>1. \A h \in GwIds' \ {}, q \in ReqIds' :
              (/\ h <= gwMark /\ q <= reqMark
               /\ Eligible(gw'[h]) /\ Agree(gw'[h], req'[q]) /\ req'[q].src = "cc"
               /\ key'[h] = 0)
              => Claimed(key', q)
      BY <1>t, <1>l, <1>s, <2>3, BelowFrame
    <3> QED BY <2>2, <3>1 DEF Below
  <2>6. (tx # NoTx => Below(saved, gwMark, reqMark, {}))'
    BY <1>r, <1>s, <2>2 DEF Below, GwIds, ReqIds
  <2>7. \A h \in todo'[p] : key'[h] = 0
    BY <1>t, <1>s, <1>l, <2>1, <2>2 DEF StageInv, TypeOK, LocalsOK
  <2>8. StageInv(p)'
    BY <1>s, <1>r, <2>2, <2>4, <2>7 DEF StageInv, AfterGwMark, AfterReqMark, AfterReqMax
  <2> QED BY <1>t, <2>5, <2>6, <2>8, OneStage
<1>3. CASE LeaveRow(p)
  <2>1. PICK g \in todo[p] : TakeRow(p, g) /\ Candidates(g) = {} /\ key' = key
    BY <1>3 DEF LeaveRow
  <2>2. /\ UNCHANGED <<gwMark, reqMark, pc, full, gwFrom, reqFrom, gwSeen, reqSeen, span, tx, saved>>
        /\ todo'[p] = todo[p] \ {g} /\ pc[p] = "match"
    BY <1>t, <1>l, <2>1, PairingAssumption DEF TakeRow, marks, TypeOK, TxOK
  <2>3. \A r \in ReqIds : Agree(gw[g], req[r]) => Claimed(key, r)
    BY <2>1 DEF Candidates, Unclaimed, Agree
  <2>4. Below(key, gwSeen[p], reqSeen[p], todo[p])'
    <3>1. Below(key, gwSeen[p], reqSeen[p], todo[p])
      BY <1>s, <2>2 DEF StageInv
    <3> QED BY <1>r, <2>1, <2>2, <2>3, <3>1 DEF Below, GwIds, ReqIds
  <2>5. Below(key, gwMark, reqMark, {})' /\ (tx # NoTx => Below(saved, gwMark, reqMark, {}))'
    BY <1>r, <1>s, <2>1, <2>2 DEF Below, GwIds, ReqIds
  <2>6. StageInv(p)'
    BY <1>s, <1>r, <2>1, <2>2, <2>4 DEF StageInv, AfterGwMark, AfterReqMark, AfterReqMax
  <2> QED BY <1>t, <2>5, <2>6, OneStage
<1>4. CASE CommitChunk(p)
  BY <1>4, <1>t, <1>s, <1>r, OneStage
     DEF CommitChunk, marks, locals, StageInv, Below, GwIds, ReqIds
<1>5. CASE WriteGwMark(p)
  <2>1. /\ pc[p] = "match" /\ pc'[p] = "marking" /\ todo[p] = {} /\ tx' = NoTx
        /\ gwMark' = gwSeen[p]
        /\ UNCHANGED <<key, reqMark, full, gwFrom, reqFrom, gwSeen, reqSeen, span, todo>>
    BY <1>5, <1>l DEF WriteGwMark, Goto, locals, txn
  <2>2. reqMark <= reqSeen[p] /\ Below(key, gwSeen[p], reqSeen[p], {})
    BY <1>s, <2>1 DEF StageInv, AfterReqMax
  <2>3. Below(key, gwSeen[p], reqMark, {})
    <3>1. \A r \in ReqIds : r <= reqMark => r <= reqSeen[p]
      BY <1>l, <1>t, <2>2 DEF TypeOK, TablesOK, ReqIds
    <3> QED BY <2>2, <3>1 DEF Below
  <2>4. Below(key, gwMark, reqMark, {})'
    BY <1>r, <2>1, <2>3 DEF Below, GwIds, ReqIds
  <2>5. StageInv(p)'
    BY <1>r, <2>1, <2>2 DEF StageInv, AfterGwMark, AfterReqMark, AfterReqMax, Below, GwIds, ReqIds
  <2> QED BY <1>t, <2>1, <2>4, <2>5, OneStage
<1>6. CASE WriteReqMark(p)
  <2>1. /\ pc[p] = "marking" /\ pc'[p] = "idle" /\ tx' = NoTx /\ todo'[p] = {}
        /\ reqMark' = reqSeen[p] /\ UNCHANGED <<key, gwMark>>
    BY <1>6, <1>l DEF WriteReqMark, Goto, Forget, txn
  <2>2. gwMark = gwSeen[p] /\ Below(key, gwSeen[p], reqSeen[p], {})
    BY <1>s, <2>1 DEF StageInv
  <2>3. Below(key, gwMark, reqMark, {})'
    BY <1>r, <2>1, <2>2 DEF Below, GwIds, ReqIds
  <2>4. StageInv(p)'
    BY <2>1 DEF StageInv, AfterGwMark, AfterReqMark, AfterReqMax
  <2> QED BY <1>t, <2>1, <2>3, <2>4, OneStage
<1> QED BY <1>1, <1>2, <1>3, <1>4, <1>5, <1>6 DEF Writes

\* A pass that ends early leaves the marks, and takes back no committed claim.
LEMMA FailStep ==
    ASSUME SinglePass, MissInv, NEW p \in Passes, Fail(p)
    PROVE  MissInv'
<1>t. TypeOK /\ TypeOK' /\ [Next]_vars
  BY TypeStep DEF MissInv, Next
<1>1. /\ pc'[p] = "idle" /\ todo'[p] = {} /\ UNCHANGED <<gw, req, gwMark, reqMark>>
      /\ \/ tx = p /\ key' = saved /\ tx' = NoTx
         \/ tx # p /\ key' = key /\ tx' = tx /\ saved' = saved
  BY <1>t DEF Fail, Forget, tables, marks, txn, TypeOK, LocalsOK
<1>2. Below(key, gwMark, reqMark, {})' /\ (tx # NoTx => Below(saved, gwMark, reqMark, {}))'
  BY <1>1, PairingAssumption DEF MissInv, Below, GwIds, ReqIds
<1>3. StageInv(p)'
  BY <1>1 DEF StageInv, AfterGwMark, AfterReqMark, AfterReqMax
<1> QED BY <1>t, <1>2, <1>3, OneStage

\* Below the marks nothing is left for a single process to pair: no immutable
\* request and free gateway row that agree are both under the marks, over any
\* number of rows, passes, failures and refreshes of other rows.
THEOREM NothingMissedHolds ==
    ASSUME SinglePass, AllDated
    PROVE  Spec => []NothingMissedImmutable
<1>1. Init => MissInv
  BY TypeInit, PairingAssumption
     DEF Init, MissInv, StageInv, Below, GwIds, AfterGwMark, AfterReqMark, AfterReqMax
<1>2. MissInv /\ [Next]_vars => MissInv'
  BY SinglePass, AllDated, EnvStep, ReadStep, WriteStep, FailStep DEF Next
<1>3. MissInv => NothingMissedImmutable
  <2> SUFFICES ASSUME MissInv, NEW g \in GwIds, NEW r \in ReqIds, req[r].src = "cc", Missed(g, r)
               PROVE  FALSE
    BY DEF NothingMissedImmutable
  <2>1. Below(Committed, gwMark, reqMark, {})
    BY DEF MissInv, Committed
  <2> QED BY <2>1 DEF Missed, Below
<1> QED BY <1>1, <1>2, <1>3, PTL DEF Spec
-----------------------------------------------------------------------------
(***************************************************************************)
(* A single process implements PairLedger: what its transactions commit is *)
(* a ledger that only grows, for all tables, chunk sizes and failures.  Of *)
(* two processes this is false, and the proof says where: TodoFree, that a *)
(* pending row is still free when its turn comes.                          *)
(***************************************************************************)

\* The pending list is read once and rows are joined later: with one process
\* nothing is joined in between.
TodoFree == \A p \in Passes : \A g \in todo[p] : key[g] = 0

\* An open transaction keeps what was committed, and what it adds agrees.
ChunkGrows ==
    tx # NoTx => \A g \in GwIds :
        key[g] # saved[g] => /\ saved[g] = 0
                             /\ key[g] \in ReqIds
                             /\ Agree(gw[g], req[key[g]])

LedgerInv == OnceInv /\ TodoFree /\ ChunkGrows

\* The tables stand still while a transaction is open.
LEMMA TablesWait ==
    ASSUME [Next]_vars, tx # NoTx
    PROVE  UNCHANGED <<gw, req>>
BY DEF Next, vars, tables, LogGw, WriteReq, RefreshReq, Begin, Reads, Writes, Fail, ReadGwMark,
       ReadReqMark, ReadGwMax, ReadReqMax, ReadSpan, ReadPending, StartChunk, PairRow, LeaveRow,
       TakeRow, CommitChunk, WriteGwMark, WriteReqMark

LEMMA TodoFreeStep ==
    ASSUME SinglePass, LedgerInv, [Next]_vars
    PROVE  TodoFree'
<1>t. TypeOK /\ TypeOK' /\ DOMAIN key = GwIds
  BY TypeStep, TableFacts DEF LedgerInv, OnceInv
<1> SUFFICES ASSUME NEW p \in Passes, NEW g \in todo'[p] PROVE key'[g] = 0
  BY DEF TodoFree
<1>l. todo \in [Passes -> SUBSET Nat] /\ todo[p] \subseteq GwIds
  BY <1>t DEF TypeOK, LocalsOK
<1>1. CASE ReadPending(p)
  BY <1>1, <1>l DEF ReadPending, txn
<1>2. CASE ~ReadPending(p)
  <2>1. g \in todo[p] /\ key[g] = 0 /\ g \in GwIds
    BY <1>2, <1>t, <1>l, TodoSteps DEF LedgerInv, TodoFree
  <2>2. CASE \E q \in Passes : PairRow(q)
    <3>1. PairRow(p)
      BY <2>2 DEF SinglePass
    <3>2. PICK h \in todo[p] : /\ TakeRow(p, h)
                               /\ \A i \in DOMAIN key : i # h => key'[i] = key[i]
      BY <1>t, <3>1, PairRowTakes
    <3>3. g # h
      BY <1>l, <3>2 DEF TakeRow
    <3> QED BY <1>t, <2>1, <3>2, <3>3
  <2>3. CASE \E q \in Passes : Fail(q)
    <3>1. Fail(p)
      BY <2>3 DEF SinglePass
    <3> QED BY <1>l, <3>1 DEF Fail, Forget
  <2>4. CASE LogGw
    <3>1. key' = Append(key, 0) /\ key \in Seq(Nat) /\ 0 \in Nat
      BY <1>t, <2>4 DEF LogGw, TypeOK, TablesOK, KeyOK
    <3> QED BY <1>t, <2>1, <3>1, AppendFacts
  <2>5. CASE ~(LogGw \/ \E q \in Passes : PairRow(q) \/ Fail(q))
    <3>1. key' = key
      BY <2>5 DEF Next, vars, txn, WriteReq, RefreshReq, Begin, Reads, Writes, ReadGwMark,
                  ReadReqMark, ReadGwMax, ReadReqMax, ReadSpan, ReadPending, StartChunk, LeaveRow,
                  CommitChunk, WriteGwMark, WriteReqMark
    <3> QED BY <2>1, <3>1
  <2> QED BY <2>2, <2>3, <2>4, <2>5
<1> QED BY <1>1, <1>2

LEMMA ChunkGrowsStep ==
    ASSUME SinglePass, LedgerInv, [Next]_vars
    PROVE  ChunkGrows'
<1>t. TypeOK /\ TypeOK' /\ DOMAIN key = GwIds /\ ChunkGrows
  BY TypeStep, TableFacts DEF LedgerInv, OnceInv
<1>1. CASE UNCHANGED vars
  BY <1>1, <1>t DEF vars, tables, txn, ChunkGrows, GwIds, ReqIds
<1>2. CASE Next
  <2>1. CASE \E p \in Passes : PairRow(p)
    <3>1. PICK p \in Passes : PairRow(p)
      BY <2>1
    <3>2. PICK g \in todo[p], r \in ReqIds :
              /\ TakeRow(p, g)
              /\ Agree(gw[g], req[r])
              /\ g \in DOMAIN key /\ r \in Nat \ {0} /\ key'[g] = r
              /\ \A h \in DOMAIN key : h # g => key'[h] = key[h]
      BY <1>t, <3>1, PairRowTakes
    <3>3. key[g] = 0 /\ saved' = saved /\ tx' = tx /\ tx # NoTx /\ UNCHANGED <<gw, req>>
      BY <3>2, PairingAssumption DEF LedgerInv, TodoFree, TakeRow, tables
    <3> QED BY <1>t, <3>2, <3>3 DEF ChunkGrows, GwIds, ReqIds
  <2>2. CASE tx' = NoTx
    BY <2>2 DEF ChunkGrows
  <2>3. CASE key' = key /\ tx' = tx /\ saved' = saved
    BY <1>t, <2>3, TablesWait DEF ChunkGrows, GwIds, ReqIds
  <2>4. CASE key' = key /\ tx' # NoTx /\ saved' = key
    BY <2>4 DEF ChunkGrows
  <2> QED BY <1>2, <1>t, <2>1, <2>2, <2>3, <2>4, KeySteps
<1> QED BY <1>1, <1>2

LEMMA LedgerInvStep ==
    ASSUME SinglePass
    PROVE  LedgerInv /\ [Next]_vars => LedgerInv'
BY SinglePass, OnceStep, TodoFreeStep, ChunkGrowsStep DEF LedgerInv

-----------------------------------------------------------------------------
(***************************************************************************)
(* Steps of the pass against steps of the ledger.                          *)
(***************************************************************************)
LEMMA ArriveImplements ==
    ASSUME TypeOK, LogGw \/ WriteReq
    PROVE  Ledger!Arrive
<1>1. CASE LogGw
  <2>1. PICK s \in GwShapes : gw' = Append(gw, s)
    BY <1>1 DEF LogGw
  <2>2. gw \in Seq(GwShapes) /\ key \in Seq(Nat) /\ Len(key) = Len(gw) /\ 0 \in Nat
    BY DEF TypeOK, TablesOK, KeyOK
  <2>3. Len(gw') = Len(gw) + 1 /\ SubSeq(gw', 1, Len(gw)) = gw
    BY <2>1, <2>2
  <2>4. key' = Append(key, 0) /\ tx = NoTx /\ tx' = NoTx /\ req' = req
    BY <1>1 DEF LogGw
  <2>5. /\ GwIds' = 1 .. Len(gw) + 1 /\ GwIds = 1 .. Len(gw) /\ Len(gw) \in Nat
        /\ \A g \in GwIds : key'[g] = key[g]
        /\ key'[Len(gw) + 1] = 0
    BY <2>1, <2>2, <2>4, AppendFacts DEF GwIds
  <2>6. {h \in GwIds' : key'[h] # 0} = {h \in GwIds : key[h] # 0}
    BY <2>5
  <2>7. LedgerPairs' = LedgerPairs
    BY <2>4, <2>5, <2>6 DEF LedgerPairs, Committed
  <2> QED BY <2>3, <2>4, <2>7 DEF Ledger!Arrive, Ledger!Extends
<1>2. CASE WriteReq
  <2>1. PICK s \in ReqShapes : req' = Append(req, s)
    BY <1>2 DEF WriteReq
  <2>2. req \in Seq(ReqShapes)
    BY DEF TypeOK, TablesOK
  <2>3. Len(req') = Len(req) + 1 /\ SubSeq(req', 1, Len(req)) = req
    BY <2>1, <2>2
  <2>4. gw' = gw /\ LedgerPairs' = LedgerPairs
    BY <1>2 DEF WriteReq, txn, LedgerPairs, Committed, GwIds
  <2> QED BY <2>3, <2>4 DEF Ledger!Arrive, Ledger!Extends
<1> QED BY <1>1, <1>2

LEMMA RestateImplements ==
    ASSUME TypeOK, RefreshReq
    PROVE  Ledger!Restate
<1>1. PICK r \in ReqIds, s \in ReqShapes : req' = [req EXCEPT ![r] = s]
  BY DEF RefreshReq
<1>2. DOMAIN req' = DOMAIN req /\ \A o \in DOMAIN req : o # r => req'[o] = req[o]
  BY <1>1 DEF ReqIds
<1>3. gw' = gw /\ LedgerPairs' = LedgerPairs
  BY DEF RefreshReq, txn, LedgerPairs, Committed, GwIds
<1> QED BY <1>1, <1>2, <1>3 DEF Ledger!Restate, ReqIds

\* A commit publishes the chunk at once.
LEMMA JoinImplements ==
    ASSUME LedgerInv, NEW p \in Passes, CommitChunk(p)
    PROVE  Ledger!Join
<1>t. TypeOK /\ Once(key) /\ ChunkGrows /\ DOMAIN key = GwIds
  BY TableFacts DEF LedgerInv, OnceInv
<1>1. tx # NoTx /\ tx' = NoTx /\ key' = key /\ UNCHANGED <<gw, req>>
  BY PairingAssumption DEF CommitChunk, tables
<1>2. LedgerPairs = {<<g, saved[g]>> : g \in {h \in GwIds : saved[h] # 0}}
  BY <1>1 DEF LedgerPairs, Committed
<1>3. LedgerPairs' = {<<g, key[g]>> : g \in {h \in GwIds : key[h] # 0}}
  BY <1>1 DEF LedgerPairs, Committed, GwIds
<1>4. LedgerPairs \subseteq LedgerPairs'
  BY <1>t, <1>1, <1>2, <1>3 DEF ChunkGrows
<1>5. Ledger!Free(LedgerPairs')
  BY <1>t, <1>3 DEF Ledger!Free, Once
<1>6. ASSUME NEW q \in LedgerPairs' \ LedgerPairs
      PROVE  /\ q[1] \in DOMAIN gw
             /\ q[2] \in DOMAIN req
             /\ Agree(gw[q[1]], req[q[2]])
  <2>1. PICK g \in GwIds : key[g] # 0 /\ q = <<g, key[g]>>
    BY <1>3, <1>6
  <2>2. key[g] # saved[g]
    BY <1>2, <1>6, <2>1
  <2> QED BY <1>t, <1>1, <2>1, <2>2 DEF ChunkGrows, GwIds, ReqIds
<1> QED BY <1>1, <1>4, <1>5, <1>6 DEF Ledger!Join

\* Everything else goes on inside a transaction or in the locals of a pass.
LEMMA RestStutters ==
    ASSUME TypeOK, [Next]_vars,
           ~(LogGw \/ WriteReq \/ RefreshReq), \A p \in Passes : ~CommitChunk(p)
    PROVE  UNCHANGED <<gw, req, LedgerPairs>>
<1>1. UNCHANGED <<gw, req>>
  BY DEF Next, vars, tables, Begin, Reads, Writes, Fail, ReadGwMark, ReadReqMark, ReadGwMax,
         ReadReqMax, ReadSpan, ReadPending, StartChunk, PairRow, LeaveRow, TakeRow, WriteGwMark,
         WriteReqMark
<1>2. Committed' = Committed
  <2>1. CASE \E p \in Passes : StartChunk(p)
    BY <2>1, PairingAssumption DEF StartChunk, Committed
  <2>2. CASE \E p \in Passes : PairRow(p) \/ LeaveRow(p)
    BY <2>2, PairingAssumption DEF PairRow, LeaveRow, TakeRow, Committed
  <2>3. CASE \E p \in Passes : Fail(p)
    BY <2>3, PairingAssumption DEF Fail, txn, Committed
  <2>4. CASE ~\E p \in Passes : StartChunk(p) \/ PairRow(p) \/ LeaveRow(p) \/ Fail(p)
    BY <2>4 DEF Next, vars, txn, Begin, Reads, Writes, ReadGwMark, ReadReqMark, ReadGwMax,
                ReadReqMax, ReadSpan, ReadPending, WriteGwMark, WriteReqMark, Committed
  <2> QED BY <2>1, <2>2, <2>3, <2>4
<1> QED BY <1>1, <1>2 DEF LedgerPairs, GwIds

\* The committed pairs of a single process are a ledger: its steps are arrivals,
\* restatements and joins, or invisible, so no committed pair is ever taken back
\* or moved by a rollback, a repeated pass or a row that arrives meanwhile.
THEOREM LedgerImplemented ==
    ASSUME SinglePass
    PROVE  Spec => LedgerSpec
<1>1. Init => LedgerInv
  BY TypeInit, PairingAssumption
     DEF Init, LedgerInv, OnceInv, Once, TodoFree, ChunkGrows
<1>2. LedgerInv /\ [Next]_vars => LedgerInv'
  BY SinglePass, LedgerInvStep
<1>3. Init => Ledger!Init
  BY DEF Init, Ledger!Init, LedgerPairs, GwIds
<1>4. LedgerInv /\ [Next]_vars => [Ledger!Next]_Ledger!vars
  <2> SUFFICES ASSUME LedgerInv, [Next]_vars PROVE [Ledger!Next]_Ledger!vars
    OBVIOUS
  <2>t. TypeOK
    BY DEF LedgerInv, OnceInv
  <2>1. CASE LogGw \/ WriteReq
    BY <2>1, <2>t, ArriveImplements DEF Ledger!Next
  <2>2. CASE RefreshReq
    BY <2>2, <2>t, RestateImplements DEF Ledger!Next
  <2>3. CASE \E p \in Passes : CommitChunk(p)
    BY <2>3, JoinImplements DEF Ledger!Next
  <2>4. CASE ~(LogGw \/ WriteReq \/ RefreshReq) /\ \A p \in Passes : ~CommitChunk(p)
    BY <2>4, <2>t, RestStutters DEF Ledger!vars
  <2> QED BY <2>1, <2>2, <2>3, <2>4
<1> QED BY <1>1, <1>2, <1>3, <1>4, PTL DEF Spec, LedgerSpec, Ledger!Spec
-----------------------------------------------------------------------------
(***************************************************************************)
(* Migrations: for any number of processes that open the store, any        *)
(* versions it may be found at and any number of deaths.  The scripts are  *)
(* those of the code: the proof only uses that there are statements in     *)
(* each, and that a statement is refused for what is there already.        *)
(***************************************************************************)
Script(p) == migrations[v[p] + 1]

\* Where a process stands, by its stage.
StagesOK ==
    /\ stage \in [Openers -> {"closed", "exec", "pragma", "open"}]
    /\ v \in [Openers -> 0 .. Len(migrations)]
    /\ next \in [Openers -> Nat \ {0}]
    /\ version \in 0 .. Len(migrations)
    /\ objects \subseteq Made(Len(migrations))

\* What the script has made so far.
ExecOK(p) ==
    /\ v[p] < Len(migrations) /\ next[p] <= Len(Script(p))
    /\ v[p] <= version
    /\ Made(v[p]) \subseteq objects
    /\ \A k \in 1 .. next[p] - 1 : Script(p)[k].makes \in objects

\* The version waits for whoever carried out the last statement of its script.
PragmaOK(p) ==
    /\ v[p] < Len(migrations)
    /\ version = v[p]
    /\ Made(v[p] + 1) \subseteq objects

SchemaInv ==
    /\ StagesOK
    /\ VersionSound
    /\ \A p \in Openers :
          /\ stage[p] = "exec" => ExecOK(p)
          /\ stage[p] = "pragma" => PragmaOK(p)
          /\ stage[p] = "open" => Made(Len(migrations)) \subseteq objects
    /\ \A p, q \in Openers : stage[p] = "pragma" /\ stage[q] = "pragma" => p = q
-----------------------------------------------------------------------------
LEMMA ScriptsNumber == Len(migrations) = 9 /\ DOMAIN migrations = 1 .. 9
  BY DEF migrations

\* Every script is a sequence of statements, and has one.
LEMMA ScriptsNonEmpty ==
    ASSUME NEW n \in 1 .. 9
    PROVE  Len(migrations[n]) \in Nat \ {0} /\ DOMAIN migrations[n] = 1 .. Len(migrations[n])
<1> DEFINE HasStatements(s) == Len(s) \in Nat \ {0} /\ DOMAIN s = 1 .. Len(s)
<1>1. HasStatements(schemaV1) /\ HasStatements(schemaV2) /\ HasStatements(schemaV3)
  BY DEF schemaV1, schemaV2, schemaV3
<1>2. HasStatements(schemaV4) /\ HasStatements(schemaV5) /\ HasStatements(schemaV6)
  BY DEF schemaV4, schemaV5, schemaV6
<1>3. HasStatements(schemaV7) /\ HasStatements(schemaV8) /\ HasStatements(schemaV9)
  BY DEF schemaV7, schemaV8, schemaV9
<1>4. migrations[n] \in {schemaV1, schemaV2, schemaV3, schemaV4, schemaV5, schemaV6, schemaV7,
                         schemaV8, schemaV9}
  BY DEF migrations
<1> QED
  <2> HIDE DEF HasStatements
  <2>1. HasStatements(migrations[n])
    BY <1>1, <1>2, <1>3, <1>4
  <2> QED
    BY <2>1 DEF HasStatements

LEMMA MadeGrows ==
    ASSUME NEW m \in 0 .. 9, NEW n \in 0 .. 9, m <= n
    PROVE  Made(m) \subseteq Made(n)
BY DEF Made

\* What one more script makes is what its statements make.
LEMMA MadeByScript ==
    ASSUME NEW n \in 0 .. 8
    PROVE  /\ \A k \in 1 .. Len(migrations[n + 1]) : migrations[n + 1][k].makes \in Made(n + 1)
           /\ \A S : /\ Made(n) \subseteq S
                     /\ \A k \in 1 .. Len(migrations[n + 1]) : migrations[n + 1][k].makes \in S
                     => Made(n + 1) \subseteq S
<1> USE DEF Made, ToSet
<1>1. n + 1 \in 1 .. 9 /\ DOMAIN migrations[n + 1] = 1 .. Len(migrations[n + 1])
  BY ScriptsNonEmpty
<1>2. 1 .. n + 1 = 1 .. n \cup {n + 1}
  OBVIOUS
<1> QED
  BY <1>1, <1>2
-----------------------------------------------------------------------------
LEMMA SchemaInvInit == MigrateInit => SchemaInv
<1> SUFFICES ASSUME MigrateInit PROVE SchemaInv
  OBVIOUS
<1>1. version \in 0 .. 9 /\ objects = Made(version)
  BY MigrationsAssumption, ScriptsNumber DEF MigrateInit
<1>2. Made(version) \subseteq Made(9)
  BY <1>1, MadeGrows
<1> QED
  BY <1>1, <1>2, ScriptsNumber DEF MigrateInit, SchemaInv, StagesOK, VersionSound

\* The loop of migrate, for a process that knows the version it is at.
LEMMA ContinueStep ==
    ASSUME SchemaInv, NEW p \in Openers, NEW n \in 0 .. 9, Continue(p, n), UNCHANGED objects,
           version' = n, n >= version, Made(n) \subseteq objects,
           \A q \in Openers \ {p} : stage[q] # "pragma" \/ n = version
    PROVE  SchemaInv'
<1> USE ScriptsNumber
<1>1. StagesOK'
  BY DEF SchemaInv, StagesOK, Continue
<1>2. VersionSound'
  BY DEF VersionSound, Made
<1>3. ASSUME NEW q \in Openers
      PROVE  /\ stage'[q] = "exec" => ExecOK(q)'
             /\ stage'[q] = "pragma" => PragmaOK(q)'
             /\ stage'[q] = "open" => Made(Len(migrations)) \subseteq objects'
  <2>1. CASE q = p
    <3>1. stage'[p] = IF n < 9 THEN "exec" ELSE "open"
      BY DEF SchemaInv, StagesOK, Continue
    <3>2. v'[p] = n /\ next'[p] = 1
      BY DEF SchemaInv, StagesOK, Continue
    <3>3. n < 9 => Len(migrations[n + 1]) \in Nat \ {0}
      <4>1. n < 9 => n + 1 \in 1 .. 9
        OBVIOUS
      <4> QED
        BY <4>1, ScriptsNonEmpty
    <3> QED
      BY <2>1, <3>1, <3>2, <3>3 DEF ExecOK, PragmaOK, Script, Made
  <2>2. CASE q # p
    <3>1. stage'[q] = stage[q] /\ v'[q] = v[q] /\ next'[q] = next[q]
      BY <2>2 DEF SchemaInv, StagesOK, Continue
    <3>2. version \in 0 .. 9 /\ v[q] \in 0 .. 9
      BY DEF SchemaInv, StagesOK
    <3> QED
      BY <2>2, <3>1, <3>2 DEF SchemaInv, ExecOK, PragmaOK, Script, Made
  <2> QED
    BY <2>1, <2>2
<1>4. ASSUME NEW q \in Openers, NEW r \in Openers, stage'[q] = "pragma", stage'[r] = "pragma"
      PROVE  q = r
  BY <1>4 DEF SchemaInv, StagesOK, Continue
<1> QED
  BY <1>1, <1>2, <1>3, <1>4 DEF SchemaInv

\* A statement is carried out by one process, and the last one of a script that
\* the version has passed, or that another process has finished, is refused.
LEMMA ExecStep ==
    ASSUME SchemaInv, NEW p \in Openers, ExecStatement(p)
    PROVE  SchemaInv'
<1> USE ScriptsNumber
<1> DEFINE L == Len(Script(p))
<1>1. /\ v[p] \in 0 .. 8 /\ version \in 0 .. 9 /\ v[p] <= version
      /\ next[p] \in 1 .. L /\ Made(v[p]) \subseteq objects
      /\ \A k \in 1 .. next[p] - 1 : Script(p)[k].makes \in objects
  <2>1. ExecOK(p)
    BY DEF SchemaInv, ExecStatement
  <2>2. v[p] \in 0 .. 9 /\ version \in 0 .. 9 /\ next[p] \in Nat \ {0}
    BY DEF SchemaInv, StagesOK
  <2>3. v[p] \in 0 .. 8
    BY <2>1, <2>2 DEF ExecOK
  <2>4. L \in Nat \ {0}
    <3>1. v[p] + 1 \in 1 .. 9
      BY <2>3
    <3> QED
      BY <3>1, ScriptsNonEmpty DEF Script
  <2> QED
    BY <2>1, <2>2, <2>3, <2>4 DEF ExecOK
<1>2. /\ Script(p)[next[p]].makes \notin objects
      /\ objects' = objects \cup {Script(p)[next[p]].makes}
  BY DEF ExecStatement, Applies, Statement, Script
<1>3. \A k \in 1 .. L : Script(p)[k].makes \in Made(v[p] + 1)
  BY <1>1, MadeByScript DEF Script
<1>4. objects \subseteq objects' /\ objects' \subseteq Made(9)
  <2>1. Made(v[p] + 1) \subseteq Made(9)
    BY <1>1, MadeGrows
  <2> QED
    BY <1>1, <1>2, <1>3, <2>1 DEF SchemaInv, StagesOK
<1>5. StagesOK'
  <2>1. stage' \in [Openers -> {"closed", "exec", "pragma", "open"}]
    BY DEF SchemaInv, StagesOK, ExecStatement
  <2>2. next' \in [Openers -> Nat \ {0}]
    BY DEF SchemaInv, StagesOK, ExecStatement
  <2>3. v' \in [Openers -> 0 .. Len(migrations)] /\ version' \in 0 .. Len(migrations)
    BY DEF SchemaInv, StagesOK, ExecStatement
  <2>4. objects' \subseteq Made(9)'
    BY <1>4 DEF Made
  <2> QED
    BY <2>1, <2>2, <2>3, <2>4 DEF StagesOK
<1>6. VersionSound' /\ version' = version
  BY <1>4 DEF SchemaInv, VersionSound, ExecStatement, Made
<1>7. ASSUME LastStatement(p)
      PROVE  version = v[p] /\ \A q \in Openers : stage[q] # "pragma"
  <2>1. Script(p)[L].makes \notin objects /\ L \in 1 .. L
    BY <1>1, <1>2, <1>7 DEF LastStatement, Script
  <2>2. ~ (Made(v[p] + 1) \subseteq objects)
    BY <1>3, <2>1
  <2>3. version = v[p]
    <3>1. ASSUME v[p] + 1 <= version PROVE FALSE
      <4>1. Made(v[p] + 1) \subseteq Made(version)
        BY <1>1, <3>1, MadeGrows
      <4> QED
        BY <4>1, <2>2 DEF SchemaInv, VersionSound
    <3> QED
      BY <1>1, <3>1
  <2>4. ASSUME NEW q \in Openers, stage[q] = "pragma" PROVE FALSE
    BY <2>2, <2>3, <2>4 DEF SchemaInv, PragmaOK
  <2> QED
    BY <2>3, <2>4
<1>8. ASSUME NEW q \in Openers
      PROVE  /\ stage'[q] = "exec" => ExecOK(q)'
             /\ stage'[q] = "pragma" => PragmaOK(q)'
             /\ stage'[q] = "open" => Made(Len(migrations)) \subseteq objects'
  <2>1. v' = v
    BY DEF ExecStatement
  <2>2. CASE q # p
    <3>1. stage'[q] = stage[q] /\ next'[q] = next[q]
      BY <2>2 DEF SchemaInv, StagesOK, ExecStatement
    <3> QED
      BY <3>1, <2>1, <1>4, <1>6 DEF SchemaInv, ExecOK, PragmaOK, Script, Made
  <2>3. CASE q = p /\ ~ LastStatement(p)
    <3>1. stage'[p] = "exec" /\ next'[p] = next[p] + 1
      BY <2>3 DEF SchemaInv, StagesOK, ExecStatement
    <3>2. next[p] + 1 <= L
      BY <2>3, <1>1 DEF LastStatement, Script
    <3>3. \A k \in 1 .. next'[p] - 1 : Script(p)[k].makes \in objects'
      BY <3>1, <1>1, <1>2
    <3>4. ExecOK(p)'
      BY <3>1, <3>2, <3>3, <2>1, <1>1, <1>4, <1>6 DEF ExecOK, Script, Made
    <3> QED
      BY <2>3, <3>1, <3>4
  <2>4. CASE q = p /\ LastStatement(p)
    <3>1. stage'[p] = "pragma" /\ next[p] = L
      BY <2>4 DEF SchemaInv, StagesOK, ExecStatement, LastStatement, Script
    <3>2. \A k \in 1 .. L : Script(p)[k].makes \in objects'
      BY <3>1, <1>1, <1>2
    <3>3. Made(v[p] + 1) \subseteq objects'
      BY <3>2, <1>1, <1>4, MadeByScript DEF Script
    <3>4. PragmaOK(p)'
      BY <3>3, <2>1, <2>4, <1>1, <1>6, <1>7 DEF PragmaOK, Made
    <3> QED
      BY <2>4, <3>1, <3>4
  <2> QED
    BY <2>2, <2>3, <2>4
<1>9. ASSUME NEW q \in Openers, NEW r \in Openers, stage'[q] = "pragma", stage'[r] = "pragma"
      PROVE  q = r
  <2>1. \A s \in Openers \ {p} : stage'[s] = stage[s]
    BY DEF SchemaInv, StagesOK, ExecStatement
  <2>2. CASE LastStatement(p)
    BY <1>7, <1>9, <2>1, <2>2
  <2>3. CASE ~ LastStatement(p)
    BY <1>9, <2>3 DEF SchemaInv, StagesOK, ExecStatement
  <2> QED
    BY <2>2, <2>3
<1> QED
  BY <1>5, <1>6, <1>8, <1>9 DEF SchemaInv

\* A step that only ends something of one process.
LEMMA ClosingStep ==
    ASSUME SchemaInv, NEW p \in Openers, stage' = [stage EXCEPT ![p] = "closed"],
           UNCHANGED <<objects, version, v, next>>
    PROVE  SchemaInv'
BY DEF SchemaInv, StagesOK, VersionSound, ExecOK, PragmaOK, Script, Made
-----------------------------------------------------------------------------
LEMMA SchemaInvStep == SchemaInv /\ [MigrateNext]_migrateVars => SchemaInv'
<1> USE ScriptsNumber
<1> SUFFICES ASSUME SchemaInv, [MigrateNext]_migrateVars PROVE SchemaInv'
  OBVIOUS
<1>1. ASSUME NEW p \in Openers, OpenStore(p) PROVE SchemaInv'
  BY <1>1, ContinueStep DEF OpenStore, SchemaInv, StagesOK, VersionSound
<1>2. ASSUME NEW p \in Openers, ExecStatement(p) PROVE SchemaInv'
  BY <1>2, ExecStep
<1>3. ASSUME NEW p \in Openers, ExecFails(p) PROVE SchemaInv'
  BY <1>3, ClosingStep DEF ExecFails
<1>4. ASSUME NEW p \in Openers, SetVersion(p) PROVE SchemaInv'
  <2>1. v[p] \in 0 .. 8 /\ version = v[p] /\ Made(v[p] + 1) \subseteq objects
    BY <1>4 DEF SetVersion, SchemaInv, StagesOK, PragmaOK
  <2>2. \A q \in Openers \ {p} : stage[q] # "pragma"
    BY <1>4 DEF SetVersion, SchemaInv
  <2> QED
    BY <1>4, <2>1, <2>2, ContinueStep DEF SetVersion
<1>5. ASSUME NEW p \in Openers, CloseStore(p) PROVE SchemaInv'
  BY <1>5, ClosingStep DEF CloseStore
<1>6. ASSUME NEW p \in Openers, Kill(p) PROVE SchemaInv'
  BY <1>6, ClosingStep DEF Kill
<1>7. CASE UNCHANGED migrateVars
  BY <1>7 DEF migrateVars, SchemaInv, StagesOK, VersionSound, ExecOK, PragmaOK, Script, Made
<1> QED
  BY <1>1, <1>2, <1>3, <1>4, <1>5, <1>6, <1>7 DEF MigrateNext, MigrateStep

\* The version is a promise about the schema, and a store that Open returned has
\* all of it, whoever else was migrating and wherever anybody died (Store.migrate).
THEOREM SchemaSoundHolds == MigrateSpec => []SchemaSound
<1>1. SchemaInv => SchemaSound
  BY DEF SchemaInv, StagesOK, SchemaSound
<1> QED
  BY <1>1, SchemaInvInit, SchemaInvStep, PTL DEF MigrateSpec

\* The version never goes back: the process that sets it carried out the last
\* statement of its script, which nobody else could do (Store.migrate).
THEOREM NeverBackHolds == MigrateSpec => NeverBack
<1>1. SchemaInv /\ [MigrateNext]_migrateVars => [version' >= version]_migrateVars
  <2> SUFFICES ASSUME SchemaInv, MigrateNext PROVE version' >= version
    BY DEF migrateVars
  <2>1. version \in Nat
    BY ScriptsNumber DEF SchemaInv, StagesOK
  <2>2. ASSUME NEW p \in Openers, SetVersion(p) PROVE version' >= version
    BY <2>1, <2>2 DEF SetVersion, SchemaInv, PragmaOK
  <2> QED
    BY <2>1, <2>2 DEF MigrateNext, MigrateStep, OpenStore, ExecStatement, ExecFails, CloseStore, Kill
<1> QED
  BY <1>1, SchemaInvInit, SchemaInvStep, PTL DEF MigrateSpec, NeverBack
-----------------------------------------------------------------------------
(***************************************************************************)
(* GatewayPull: for any number of pulls side by side, any batch size and   *)
(* any number of failures, as long as the router's rows become visible in  *)
(* the order of their ids.                                                 *)
(***************************************************************************)
RouterOK ==
    /\ last \in 0 .. MaxRows
    /\ open \subseteq 1 .. last /\ origin \subseteq 1 .. last
    /\ \A i \in open, j \in origin : j < i

PullsOK ==
    /\ phase \in [Pullers -> {"idle", "fetch", "store", "match"}]
    /\ cursor \in [Pullers -> 0 .. MaxRows]
    /\ rows \in [Pullers -> Seq(1 .. MaxRows)]
    /\ stored \in [1 .. MaxRows -> {0, 1}]
    /\ Stored \subseteq origin

\* Whatever is stored, everything of the origin below it is.
Closed == \A i \in origin, j \in Stored : i <= j => i \in Stored

\* A cursor in use is a row of the origin, and all below it is stored.
CursorOK(p) ==
    /\ cursor[p] \in origin \cup {0}
    /\ \A i \in origin : i <= cursor[p] => i \in Stored

\* A batch is of the origin and leaves out nothing between its rows.
BatchOK(p) ==
    /\ rows[p] # <<>> /\ ToSet(rows[p]) \subseteq origin
    /\ \A i \in ToSet(rows[p]), j \in origin :
          cursor[p] < j /\ j <= i => j \in ToSet(rows[p])
    /\ \A i \in ToSet(rows[p]) : i <= Last(rows[p])

PullInv ==
    /\ RouterOK /\ PullsOK /\ Closed
    /\ \A p \in Pullers :
          /\ phase[p] \in {"fetch", "store"} => CursorOK(p)
          /\ phase[p] = "store" => BatchOK(p)
-----------------------------------------------------------------------------
LEMMA PullInvInit == PullInit => PullInv
BY PullAssumption DEF PullInit, PullInv, RouterOK, PullsOK, Closed, CursorOK, BatchOK, Stored

\* The batch that a fetch returns is in order and without a gap.
LEMMA FetchedBatch ==
    ASSUME RouterOK, NEW c \in 0 .. MaxRows, NEW b \in Above(c)
    PROVE  /\ b \in Seq(1 .. MaxRows) /\ ToSet(b) \subseteq origin
           /\ \A i \in ToSet(b), j \in origin : c < j /\ j <= i => j \in ToSet(b)
           /\ b # <<>> => \A i \in ToSet(b) : i <= Last(b)
<1> USE PullAssumption
<1>0. origin \subseteq 1 .. MaxRows /\ origin \subseteq Nat
  BY DEF RouterOK
<1>1. b \in BoundedSeq({i \in origin : i > c}, Batch) /\ Ascending(b)
  BY DEF Above, Batches
<1>2. PICK m \in 0 .. Batch : b \in [1 .. m -> origin]
  BY <1>1 DEF BoundedSeq, SeqOf
<1>3. b \in Seq(1 .. MaxRows) /\ ToSet(b) \subseteq origin /\ Len(b) = m
  <2>1. m \in Nat
    BY <1>2
  <2>2. b \in [1 .. m -> 1 .. MaxRows]
    BY <1>0, <1>2
  <2>3. ToSet(b) \subseteq origin
    BY <1>2 DEF ToSet
  <2> QED
    BY <2>1, <2>3, <2>2
<1>4. ASSUME NEW i \in ToSet(b), NEW j \in origin, c < j, j <= i
      PROVE  j \in ToSet(b)
  <2>1. i \in Nat /\ j \in Nat /\ c \in Nat
    <3>1. i \in origin
      BY <1>3
    <3> QED
      BY <3>1, <1>0
  <2>2. j \notin ToSet(b) => i < j
    BY <1>4, <2>1 DEF Above
  <2> QED
    BY <1>4, <2>1, <2>2
<1>5. ASSUME b # <<>>, NEW i \in ToSet(b) PROVE i <= Last(b)
  <2>1. PICK k \in 1 .. m : i = b[k]
    BY <1>2 DEF ToSet
  <2>2. m \in DOMAIN b /\ k \in DOMAIN b
    BY <1>2, <2>1
  <2>3. b[k] \in Nat /\ b[m] \in Nat
    <3>1. b[k] \in origin /\ b[m] \in origin
      BY <1>2, <2>1, <2>2
    <3> QED
      BY <3>1, <1>0
  <2>4. k < m => b[k] < b[m]
    BY <1>1, <2>2 DEF Ascending
  <2> QED
    BY <1>3, <2>1, <2>3, <2>4 DEF Last
<1> QED
  BY <1>3, <1>4, <1>5
-----------------------------------------------------------------------------
LEMMA RouterStep ==
    ASSUME InOrder, PullInv, UNCHANGED <<stored, phase, cursor, rows, failed>>,
           \/ InsertRow
           \/ \E i \in open : CommitRow(i) \/ RollbackRow(i)
    PROVE  PullInv'
<1>1. RouterOK'
  <2>1. CASE InsertRow
    BY <2>1, PullAssumption DEF PullInv, RouterOK, InsertRow
  <2>2. ASSUME NEW i \in open, CommitRow(i) PROVE RouterOK'
    BY <2>2, PullAssumption DEF PullInv, RouterOK, CommitRow
  <2>3. ASSUME NEW i \in open, RollbackRow(i) PROVE RouterOK'
    BY <2>3, PullAssumption DEF PullInv, RouterOK, RollbackRow
  <2> QED
    BY <2>1, <2>2, <2>3
<1>2. /\ origin \subseteq origin'
      /\ \A i \in origin' \ origin, j \in origin : j < i
  BY DEF PullInv, RouterOK, InsertRow, CommitRow, RollbackRow
<1>3. Stored' = Stored /\ Stored \subseteq origin /\ origin' \subseteq Nat
  BY <1>1 DEF Stored, PullInv, PullsOK, RouterOK
<1>4. \A i \in origin' : i \in origin \/ \A j \in origin \cup {0} : j < i
  BY <1>1, <1>2 DEF RouterOK
<1>5. PullsOK' /\ Closed'
  BY <1>2, <1>3 DEF PullInv, PullsOK, Closed
<1>6. ASSUME NEW p \in Pullers, phase[p] \in {"fetch", "store"} PROVE CursorOK(p)'
  <2>1. CursorOK(p) /\ cursor'[p] = cursor[p]
    BY <1>6 DEF PullInv
  <2>2. ASSUME NEW i \in origin', i <= cursor[p] PROVE i \in Stored
    <3>1. cursor[p] \in origin \cup {0} /\ cursor[p] \in Nat /\ i \in Nat
      BY <1>3, <2>1 DEF CursorOK, PullInv, PullsOK
    <3>2. i \in origin
      BY <1>4, <2>2, <3>1
    <3> QED
      BY <2>1, <2>2, <3>2 DEF CursorOK
  <2> QED
    BY <1>2, <1>3, <2>1, <2>2 DEF CursorOK
<1>7. ASSUME NEW p \in Pullers, phase[p] = "store" PROVE BatchOK(p)'
  <2>1. BatchOK(p) /\ rows'[p] = rows[p] /\ cursor'[p] = cursor[p]
    BY <1>7 DEF PullInv
  <2>2. ASSUME NEW i \in ToSet(rows[p]), NEW j \in origin', cursor[p] < j, j <= i
        PROVE  j \in ToSet(rows[p])
    <3>1. i \in origin
      BY <2>1 DEF BatchOK
    <3>2. i \in Nat /\ j \in Nat
      BY <3>1, <1>2, <1>3
    <3>3. j \in origin
      BY <1>4, <2>2, <3>1, <3>2
    <3> QED
      BY <2>1, <2>2, <3>3 DEF BatchOK
  <2> QED
    BY <1>2, <2>1, <2>2 DEF BatchOK
<1> QED
  BY <1>1, <1>5, <1>6, <1>7 DEF PullInv

\* A step of one pull that stores nothing.
LEMMA LocalStep ==
    ASSUME PullInv, NEW p \in Pullers, UNCHANGED <<router, stored>>,
           PullsOK',
           \A q \in Pullers \ {p} : phase'[q] = phase[q] /\ cursor'[q] = cursor[q] /\ rows'[q] = rows[q],
           phase'[p] \in {"fetch", "store"} => CursorOK(p)',
           phase'[p] = "store" => BatchOK(p)'
    PROVE  PullInv'
<1>1. RouterOK' /\ Closed' /\ Stored' = Stored
  BY DEF PullInv, RouterOK, Closed, Stored, router
<1>2. ASSUME NEW q \in Pullers
      PROVE  /\ phase'[q] \in {"fetch", "store"} => CursorOK(q)'
             /\ phase'[q] = "store" => BatchOK(q)'
  BY <1>1 DEF PullInv, CursorOK, BatchOK, router
<1> QED
  BY <1>1, <1>2 DEF PullInv

LEMMA StoreStep ==
    ASSUME PullInv, NEW p \in Pullers, StoreBatch(p)
    PROVE  PullInv'
<1> DEFINE B == ToSet(rows[p])
<1>1. CursorOK(p) /\ BatchOK(p)
  BY DEF PullInv, StoreBatch
<1>2. B \subseteq origin /\ origin \subseteq 1 .. MaxRows
  BY <1>1, PullAssumption DEF BatchOK, PullInv, RouterOK
<1>3. stored' \in [1 .. MaxRows -> {0, 1}] /\ Stored' = Stored \cup B
  <2>1. stored \in [1 .. MaxRows -> {0, 1}] /\ B \subseteq 1 .. MaxRows
    BY <1>2 DEF PullInv, PullsOK
  <2>2. stored' = [i \in 1 .. MaxRows |-> IF i \in B /\ stored[i] = 0 THEN 1 ELSE stored[i]]
    BY <2>1 DEF StoreBatch, InsertGwRequest
  <2> HIDE DEF B
  <2>3. \A i \in 1 .. MaxRows : stored'[i] \in {0, 1} /\ (stored'[i] > 0 <=> stored[i] > 0 \/ i \in B)
    BY <2>1, <2>2
  <2>4. Stored' = Stored \cup B
    BY <2>1, <2>3 DEF Stored
  <2> QED
    BY <2>2, <2>3, <2>4
<1>4. Last(rows[p]) \in B
  BY <1>1 DEF BatchOK, ToSet, Last
<1>5. RouterOK' /\ origin' = origin
  BY DEF PullInv, RouterOK, StoreBatch, router
<1>6. PullsOK'
  <2>1. Last(rows[p]) \in 1 .. MaxRows
    <3>1. Last(rows[p]) \in origin
      BY <1>2, <1>4
    <3> QED
      BY <3>1, <1>2
  <2>2. cursor' \in [Pullers -> 0 .. MaxRows]
    BY <2>1 DEF PullInv, PullsOK, StoreBatch
  <2>3. rows' \in [Pullers -> Seq(1 .. MaxRows)]
    BY DEF PullInv, PullsOK, StoreBatch
  <2>4. Stored' \subseteq origin'
    BY <1>2, <1>3, <1>5 DEF PullInv, PullsOK
  <2> QED
    BY <1>3, <2>2, <2>3, <2>4 DEF PullInv, PullsOK, StoreBatch
<1>7. ASSUME NEW i \in origin, NEW j \in B, i <= j PROVE i \in Stored'
  <2>1. i <= cursor[p] \/ cursor[p] < i
    BY <1>2 DEF PullInv, PullsOK
  <2> QED
    BY <1>1, <1>3, <1>7, <2>1 DEF CursorOK, BatchOK
<1>8. Closed'
  BY <1>3, <1>5, <1>7 DEF Closed, PullInv
<1>9. ASSUME NEW q \in Pullers, phase'[q] \in {"fetch", "store"} PROVE CursorOK(q)'
  <2>1. CASE q = p
    <3>1. cursor'[p] = Last(rows[p])
      BY DEF PullInv, PullsOK, StoreBatch
    <3> QED
      BY <2>1, <3>1, <1>2, <1>4, <1>5, <1>7 DEF CursorOK
  <2>2. CASE q # p
    <3>1. cursor'[q] = cursor[q] /\ phase'[q] = phase[q]
      BY <2>2 DEF PullInv, PullsOK, StoreBatch
    <3> QED
      BY <3>1, <1>3, <1>5, <1>9 DEF CursorOK, PullInv
  <2> QED
    BY <2>1, <2>2
<1>10. ASSUME NEW q \in Pullers, phase'[q] = "store" PROVE BatchOK(q)'
  <2>1. q # p
    BY <1>10 DEF PullInv, PullsOK, StoreBatch
  <2>2. cursor'[q] = cursor[q] /\ phase'[q] = phase[q] /\ rows'[q] = rows[q]
    BY <2>1 DEF PullInv, PullsOK, StoreBatch
  <2> QED
    BY <2>2, <1>5, <1>10 DEF BatchOK, PullInv
<1> QED
  BY <1>5, <1>6, <1>8, <1>9, <1>10 DEF PullInv
-----------------------------------------------------------------------------
LEMMA PullInvStep == InOrder /\ PullInv /\ [PullNext]_pullVars => PullInv'
<1> SUFFICES ASSUME InOrder, PullInv, [PullNext]_pullVars PROVE PullInv'
  OBVIOUS
<1>1. CASE InsertRow \/ \E i \in open : CommitRow(i) \/ RollbackRow(i)
  BY <1>1, RouterStep DEF InsertRow, CommitRow, RollbackRow
<1>2. ASSUME NEW p \in Pullers, ReadCursor(p) PROVE PullInv'
  <2>1. PICK c \in Stored \cup {0} :
            (\A i \in Stored : i <= c) /\ cursor' = [cursor EXCEPT ![p] = c]
    BY <1>2 DEF ReadCursor
  <2>2. c \in origin \cup {0} /\ c \in 0 .. MaxRows
    <3>1. Stored \subseteq origin /\ Stored \subseteq 1 .. MaxRows
      BY DEF PullInv, PullsOK, Stored
    <3> QED
      BY <2>1, <3>1, PullAssumption
  <2>3. \A i \in origin : i <= c => i \in Stored
    <3>1. CASE c = 0
      BY <3>1 DEF PullInv, RouterOK
    <3>2. CASE c \in Stored
      BY <3>2 DEF PullInv, Closed
    <3> QED
      BY <2>1, <3>1, <3>2
  <2>4. PullsOK' /\ phase'[p] = "fetch" /\ cursor'[p] = c
    BY <1>2, <2>1, <2>2 DEF ReadCursor, Advance, PullInv, PullsOK, Stored, router
  <2>5. CursorOK(p)'
    BY <1>2, <2>2, <2>3, <2>4 DEF CursorOK, ReadCursor, Stored, router
  <2>6. \A q \in Pullers \ {p} : phase'[q] = phase[q] /\ cursor'[q] = cursor[q] /\ rows'[q] = rows[q]
    BY <1>2, <2>1 DEF ReadCursor, Advance, PullInv, PullsOK
  <2> QED
    BY <1>2, <2>4, <2>5, <2>6, LocalStep DEF ReadCursor
<1>3. ASSUME NEW p \in Pullers, Fetch(p) PROVE PullInv'
  <2>1. PICK b \in Above(cursor[p]) :
            /\ rows' = [rows EXCEPT ![p] = b]
            /\ phase' = [phase EXCEPT ![p] = IF b = <<>> THEN "match" ELSE "store"]
    BY <1>3 DEF Fetch
  <2>2. UNCHANGED <<router, stored, cursor>> /\ phase[p] = "fetch"
    BY <1>3 DEF Fetch
  <2>3. PullsOK'
    <3>1. b \in Seq(1 .. MaxRows)
      BY FetchedBatch DEF PullInv, PullsOK
    <3> QED
      BY <2>1, <2>2, <3>1 DEF PullInv, PullsOK, Stored, router
  <2>4. phase'[p] \in {"fetch", "store"} => CursorOK(p)'
    BY <2>2 DEF PullInv, CursorOK, Stored, router
  <2>5. phase'[p] = "store" => BatchOK(p)'
    <3>1. cursor[p] \in 0 .. MaxRows
      BY DEF PullInv, PullsOK
    <3>2. ASSUME phase'[p] = "store" PROVE b # <<>> /\ rows'[p] = b
      BY <2>1, <2>2, <3>2 DEF PullInv, PullsOK
    <3>3. RouterOK
      BY DEF PullInv
    <3> QED
      BY <2>2, <3>1, <3>2, <3>3, FetchedBatch DEF BatchOK, router
  <2>6. \A q \in Pullers \ {p} : phase'[q] = phase[q] /\ cursor'[q] = cursor[q] /\ rows'[q] = rows[q]
    BY <2>1, <2>2 DEF PullInv, PullsOK
  <2> QED
    BY <2>2, <2>3, <2>4, <2>5, <2>6, LocalStep
<1>4. ASSUME NEW p \in Pullers, StoreBatch(p) PROVE PullInv'
  BY <1>4, StoreStep
<1>5. ASSUME NEW p \in Pullers, Match(p) \/ FailPull(p) PROVE PullInv'
  <2>1. UNCHANGED <<router, stored>> /\ phase' = [phase EXCEPT ![p] = "idle"]
    BY <1>5 DEF Match, FailPull, Advance
  <2>2. cursor' = [cursor EXCEPT ![p] = 0]
    BY <1>5 DEF Match, FailPull
  <2>3. \A q \in Pullers \ {p} : rows'[q] = rows[q]
    BY <1>5 DEF Match, FailPull, PullInv, PullsOK
  <2>4. rows' \in [Pullers -> Seq(1 .. MaxRows)]
    <3>1. rows' = rows \/ rows' = [rows EXCEPT ![p] = <<>>]
      BY <1>5 DEF Match, FailPull
    <3>2. <<>> \in Seq(1 .. MaxRows)
      OBVIOUS
    <3> QED
      BY <3>1, <3>2 DEF PullInv, PullsOK
  <2>5. 0 \in 0 .. MaxRows
    BY PullAssumption
  <2>6. PullsOK' /\ phase'[p] = "idle"
    BY <2>1, <2>2, <2>4, <2>5 DEF PullInv, PullsOK, Stored, router
  <2> QED
    BY <2>1, <2>2, <2>3, <2>6, LocalStep DEF PullInv, PullsOK
<1>6. CASE UNCHANGED pullVars
  BY <1>6 DEF pullVars, router, PullInv, RouterOK, PullsOK, Closed, CursorOK, BatchOK, Stored
<1> QED
  BY <1>1, <1>2, <1>3, <1>4, <1>5, <1>6 DEF PullNext, PullStep

\* "the cursor is MAX(pg_id) already stored for the source, so re-runs only fetch
\* new rows" (reqlog's package comment): pulls side by side, which fetch the same
\* rows and die between two batches, leave nothing below the cursor behind and
\* store nothing twice, when the router commits in the order of its ids.
THEOREM NothingBehindHolds == InOrder => (PullSpec => []NothingBehind)
<1> SUFFICES ASSUME InOrder PROVE PullSpec => []NothingBehind
  OBVIOUS
<1>1. PullInv => NothingBehind
  BY DEF PullInv, PullsOK, Closed, NothingBehind, Stored
<1>2. PullInv /\ [PullNext]_pullVars => PullInv'
  BY PullInvStep
<1> QED
  BY <1>1, <1>2, PullInvInit, PTL DEF PullSpec
=============================================================================
