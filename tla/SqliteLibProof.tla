---------------------------- MODULE SqliteLibProof ----------------------------
(***************************************************************************)
(* The inductive invariant of SqliteLib and what follows from it, for any  *)
(* number of contexts, calls and statements: the cache of statements stays *)
(* clean, the database outlives its loaders, and a scan that fetches its   *)
(* records one by one brings back the records of one instant.              *)
(*                                                                         *)
(* The argument for the last point is the read lock.  From its first row   *)
(* on a scan's statement is in state "row", and while it is, no other      *)
(* thread's write goes through; so what has been fetched stays what the    *)
(* table holds, and when nothing remains it is the whole answer.           *)
(***************************************************************************)
EXTENDS SqliteLib, KVStoreProof

\* The keys that the scan of c has to return.
Wanted(c) == ScanKeys(store, req[c].key, req[c].len)

\* A call under way has a request, and its statement has the request bound;
\* every other cached statement is reset and unbound.
Prepared(c) ==
    /\ pc[c] \in {"step", "reset"} => req[c] \in Requests
    /\ pc[c] # "threw" =>
        \A t \in Texts :
            /\ t \in Current(c) => bound[c][t] = req[c]
            /\ t \notin Current(c) => stmt[c][t] \in {"none", "ready"} /\ bound[c][t] = NoCall

\* Only a call under way holds the table, and a scan no longer than it fetches.
Holding(c) ==
    /\ pc[c] = "threw" => ~Reading(c)
    /\ pc[c] = "reset" /\ req[c].op = "s" => ~Reading(c)

\* What a call has gathered so far.
Gathered(c) ==
    pc[c] = "step" =>
        /\ req[c].op \in Writes => got[c] = NoData
        /\ req[c].op = "s" =>
            /\ got[c] = [rows |-> got[c].rows]
            /\ got[c].rows = [k \in Fetched(c) |-> got[c].rows[k]]
            /\ Fetched(c) \subseteq Wanted(c)
            /\ \A k \in Fetched(c) : got[c].rows[k] = ScanRow(store, k, req[c].fields)
            /\ Fetched(c) # {} => Reading(c)

Thread(c) ==
    /\ ready \/ pc[c] = "init"
    /\ Prepared(c)
    /\ Holding(c)
    /\ Gathered(c)

\* The connection of CreateSchema is never closed.
Kept == ready => exists /\ Schema \in open

\* The inductive invariant.
IInv == TypeOK /\ Kept /\ \A c \in Clients : Thread(c)

-----------------------------------------------------------------------------
(* What the other threads of a step see of it. *)

Undisturbed(d) ==
    /\ UNCHANGED <<pc[d], req[d], stmt[d], bound[d], got[d]>>
    /\ ready => ready'
    /\ store' = store \/ ~Reading(d)

LEMMA UndisturbedKeeps ==
    ASSUME NEW d \in Clients, Thread(d), Undisturbed(d)
    PROVE  Thread(d)'
  <1>1. /\ Current(d)' = Current(d) /\ Reading(d)' = Reading(d)
        /\ Fetched(d)' = Fetched(d)
    BY DEF Undisturbed, Current, Mine, Reading, Fetched
  <1>2. Prepared(d)'
    BY <1>1 DEF Thread, Prepared, Undisturbed
  <1>3. Holding(d)'
    BY <1>1 DEF Thread, Holding, Undisturbed
  <1>4. Gathered(d)'
    <2>1. CASE store' = store
      BY <1>1 DEF Thread, Gathered, Undisturbed, Wanted
    <2>2. CASE ~Reading(d)
      <3>1. req[d].op = "s" /\ pc[d] = "step" => Fetched(d) = {}
        BY <2>2 DEF Thread, Gathered
      <3> QED  BY <1>1, <3>1 DEF Thread, Gathered, Undisturbed
    <2> QED  BY <2>1, <2>2 DEF Undisturbed
  <1> QED  BY <1>2, <1>3, <1>4 DEF Thread, Undisturbed

LEMMA OpFacts ==
    /\ \A r \in Requests : r \in Request /\ r.op \in {"r", "s", "i", "u", "d"} /\ Text(r) \in Texts
    /\ NoCall \notin Requests
  <1>1. ASSUME NEW r \in Requests PROVE r \in Request /\ r.op \in {"r", "s", "i", "u", "d"}
    BY LibAssumption DEF Request
  <1>2. NoCall.op = "none"
    BY DEF NoCall
  <1> QED  BY <1>1, <1>2 DEF Texts

LEMMA Types ==
    IInv => /\ \A f \in {pc, left, oks, req, stmt, bound, got} : DOMAIN f = Clients
            /\ \A c \in Clients : DOMAIN stmt[c] = Texts /\ DOMAIN bound[c] = Texts
  BY DEF IInv, TypeOK

\* The statement of a call under way.
LEMMA CallFacts ==
    ASSUME IInv, NEW c \in Clients, pc[c] \in {"step", "reset"}
    PROVE  /\ req[c] \in Requests
           /\ Mine(c) \in Texts
           /\ Current(c) = {Mine(c)}
           /\ Args(c) = req[c]
  BY OpFacts DEF IInv, Thread, Prepared, Current, Mine, Args

\* Nobody else reads a table that can be written.
LEMMA WriterAlone ==
    ASSUME NEW c \in Clients, ~LockedOut(c), NEW d \in Clients, d # c
    PROVE  ~Reading(d)
  BY DEF LockedOut

USE DEF dvars, cvars, svars

-----------------------------------------------------------------------------
(* The library as an implementation of the service. *)

LEMMA ServiceData ==
    /\ Service!NoCall = NoCall
    /\ Service!NoData = NoData
    /\ Service!EmptyTable = EmptyTable
    /\ \A tab, r : /\ Service!Effect(tab, r) = Effect(tab, r)
                   /\ Service!Answer(tab, r) = Answer(tab, r)
                   /\ Service!Conflicts(tab, r) = Conflicts(tab, r)
                   /\ Service!Counted(r, tab) = Counted(r, tab)
  <1>1. Service!NoCall = NoCall /\ Service!NoData = NoData /\ Service!EmptyTable = EmptyTable
    BY DEF Service!NoCall, NoCall, Service!NoData, NoData, Service!EmptyTable, EmptyTable
  <1>2. ASSUME NEW tab, NEW r
        PROVE  Service!Effect(tab, r) = Effect(tab, r)
    BY DEF Service!Effect, Effect, Service!Written, Written, Service!Overwrite, Overwrite,
       Service!Writes, Writes
  <1>3. ASSUME NEW tab, NEW r
        PROVE  Service!Conflicts(tab, r) = Conflicts(tab, r)
    BY DEF Service!Conflicts, Conflicts, Service!Present, Present
  <1>4. \A S : Service!Cardinality(S) = Cardinality(S)
    BY DEF Service!Cardinality, Cardinality
  <1>5. ASSUME NEW tab, NEW r
        PROVE  Service!Answer(tab, r) = Answer(tab, r)
    <2>1. Service!Present(tab) = Present(tab)
      BY DEF Service!Present, Present
    <2>2. Service!ScanKeys(tab, r.key, r.len) = ScanKeys(tab, r.key, r.len)
      BY <1>4, <2>1 DEF Service!ScanKeys, ScanKeys
    <2>3. \A k : Service!Cells(tab, k, r.fields) = Cells(tab, k, r.fields)
      BY DEF Service!Cells, Cells, Service!Selected, Selected, Service!Columns, Columns,
         Service!KeyCol, KeyCol
    <2>4. \A k : Service!ScanRow(tab, k, r.fields) = ScanRow(tab, k, r.fields)
      BY <1>4, <2>3 DEF Service!ScanRow, ScanRow, Service!Padding, Padding,
         Service!Columns, Columns, Service!KeyCol, KeyCol
    <2> QED  BY <1>1, <2>1, <2>2, <2>3, <2>4 DEF Service!Answer, Answer, Service!Misses, Misses,
         Service!Missed, Missed, Service!Result, Result
  <1>6. ASSUME NEW r, NEW res
        PROVE  Service!Counted(r, res) = Counted(r, res)
    BY DEF Service!Counted, Counted, Service!Missed, Missed, Service!Status, Status
  <1> QED  BY <1>1, <1>2, <1>3, <1>5, <1>6

LEMMA FunctionUpdate ==
    ASSUME NEW S, NEW c \in S, NEW f, NEW g, NEW v,
           f = [d \in S |-> f[d]], g = [d \in S |-> g[d]],
           \A d \in S : d # c => g[d] = f[d], g[c] = v
    PROVE  g = [f EXCEPT ![c] = v]
  OBVIOUS

LEMMA AbstractFunctions ==
    /\ AbsPhase = [d \in Clients |-> AbsPhase[d]]
    /\ AbsCall = [d \in Clients |-> AbsCall[d]]
    /\ AbsAnswer = [d \in Clients |-> AbsAnswer[d]]
  BY DEF AbsPhase, AbsCall, AbsAnswer

LEMMA AbstractFunctionsAfter ==
    /\ AbsPhase' = [d \in Clients |-> AbsPhase'[d]]
    /\ AbsCall' = [d \in Clients |-> AbsCall'[d]]
    /\ AbsAnswer' = [d \in Clients |-> AbsAnswer'[d]]
  BY DEF AbsPhase, AbsCall, AbsAnswer

\* A step of one thread changes only that thread's call.
LEMMA AbstractLocal ==
    ASSUME NEW c \in Clients, \A d \in Clients : d # c => Undisturbed(d),
           NEW p, AbsPhase'[c] = p, NEW q, AbsCall'[c] = q, NEW a, AbsAnswer'[c] = a
    PROVE  /\ AbsPhase' = [AbsPhase EXCEPT ![c] = p]
           /\ AbsCall' = [AbsCall EXCEPT ![c] = q]
           /\ AbsAnswer' = [AbsAnswer EXCEPT ![c] = a]
  <1>1. ASSUME NEW d \in Clients, d # c
        PROVE  AbsPhase'[d] = AbsPhase[d] /\ AbsCall'[d] = AbsCall[d] /\ AbsAnswer'[d] = AbsAnswer[d]
    BY <1>1 DEF Undisturbed, AbsPhase, AbsCall, AbsAnswer
  <1>2. AbsPhase' = [AbsPhase EXCEPT ![c] = p]
    BY <1>1, AbstractFunctions, AbstractFunctionsAfter
  <1>3. AbsCall' = [AbsCall EXCEPT ![c] = q]
    BY <1>1, AbstractFunctions, AbstractFunctionsAfter
  <1>4. AbsAnswer' = [AbsAnswer EXCEPT ![c] = a]
    BY <1>1, AbstractFunctions, AbstractFunctionsAfter
  <1> QED  BY <1>2, <1>3, <1>4

\* What one step of the library is to the service.
ServiceStep == Service!Next \/ UNCHANGED Service!vars

LEMMA Unseen ==
    ASSUME NEW c \in Clients, \A d \in Clients : d # c => Undisturbed(d),
           AbsPhase'[c] = AbsPhase[c], AbsCall'[c] = AbsCall[c], AbsAnswer'[c] = AbsAnswer[c],
           UNCHANGED <<store, oks>>
    PROVE  ServiceStep
  <1>1. /\ AbsPhase' = [AbsPhase EXCEPT ![c] = AbsPhase[c]]
        /\ AbsCall' = [AbsCall EXCEPT ![c] = AbsCall[c]]
        /\ AbsAnswer' = [AbsAnswer EXCEPT ![c] = AbsAnswer[c]]
    BY AbstractLocal
  <1> QED  BY <1>1, AbstractFunctions DEF ServiceStep, Service!vars

\* The instant at which a call takes effect.
LEMMA Applies ==
    ASSUME NEW c \in Clients, \A d \in Clients : d # c => Undisturbed(d),
           pc[c] = "step", pc'[c] = "reset", req'[c] = req[c],
           got'[c] = Answer(store, req[c]), ~Conflicts(store, req[c]),
           store' = Effect(store, req[c]), oks' = oks
    PROVE  ServiceStep
  <1>1. /\ AbsPhase[c] = "pending" /\ AbsPhase'[c] = "done"
        /\ AbsCall[c] = req[c] /\ AbsCall'[c] = AbsCall[c]
        /\ AbsAnswer'[c] = Answer(store, AbsCall[c])
    BY DEF AbsPhase, AbsCall, AbsAnswer
  <1>2. /\ AbsPhase' = [AbsPhase EXCEPT ![c] = "done"]
        /\ AbsCall' = [AbsCall EXCEPT ![c] = AbsCall[c]]
        /\ AbsAnswer' = [AbsAnswer EXCEPT ![c] = Answer(store, AbsCall[c])]
    BY <1>1, AbstractLocal
  <1>3. AbsCall' = AbsCall
    BY <1>2, AbstractFunctions
  <1>4. Service!Apply(c)
    BY <1>1, <1>2, <1>3, ServiceData DEF Service!Apply
  <1> QED  BY <1>4 DEF ServiceStep, Service!Next

-----------------------------------------------------------------------------
(* One lemma per action. *)

LEMMA StutterInv == ASSUME IInv, UNCHANGED vars PROVE IInv' /\ ServiceStep
  <1>1. TypeOK' /\ Kept'
    BY DEF IInv, TypeOK, Kept, vars
  <1>2. ASSUME NEW d \in Clients PROVE Undisturbed(d)
    BY DEF Undisturbed, vars
  <1>3. UNCHANGED <<AbsPhase, AbsCall, AbsAnswer>>
    BY DEF vars, AbsPhase, AbsCall, AbsAnswer
  <1> QED  BY <1>1, <1>2, <1>3, UndisturbedKeeps DEF IInv, vars, ServiceStep, Service!vars

LEMMA CreateSchemaInv == ASSUME IInv, CreateSchema PROVE IInv' /\ ServiceStep
  <1>1. TypeOK'
    BY DEF IInv, TypeOK, CreateSchema, KeptConnections
  <1>2. Kept'
    BY DEF CreateSchema, KeptConnections, Kept
  <1>3. ASSUME NEW d \in Clients PROVE Undisturbed(d)
    BY DEF Undisturbed, CreateSchema
  <1>4. UNCHANGED <<AbsPhase, AbsCall, AbsAnswer>>
    BY DEF CreateSchema, AbsPhase, AbsCall, AbsAnswer
  <1> QED  BY <1>1, <1>2, <1>3, <1>4, UndisturbedKeeps DEF IInv, CreateSchema, ServiceStep,
       Service!vars

LEMMA ProcessDiesInv == ASSUME IInv, ProcessDies PROVE IInv' /\ ServiceStep
  <1>1. TypeOK' /\ Kept'
    BY DEF IInv, TypeOK, Kept, ProcessDies
  <1>2. ASSUME NEW d \in Clients PROVE Undisturbed(d)
    BY DEF Undisturbed, ProcessDies
  <1>3. UNCHANGED <<AbsPhase, AbsCall, AbsAnswer>>
    BY DEF ProcessDies, AbsPhase, AbsCall, AbsAnswer
  <1> QED  BY <1>1, <1>2, <1>3, UndisturbedKeeps DEF IInv, ProcessDies, ServiceStep, Service!vars

LEMMA InitConnInv == ASSUME IInv, NEW c \in Clients, InitConn(c) PROVE IInv' /\ ServiceStep
  <1>1. TypeOK' /\ Kept'
    BY DEF IInv, TypeOK, Kept, InitConn, Client
  <1>2. ASSUME NEW d \in Clients, d # c PROVE Undisturbed(d)
    BY <1>2 DEF Undisturbed, InitConn, Client
  <1>3. /\ pc[c] = "init" /\ pc'[c] = "idle" /\ ready'
        /\ UNCHANGED <<req[c], stmt[c], bound[c], got[c]>>
    BY Types DEF InitConn, MayStart, Client
  <1>4. Thread(c)'
    <2>1. Thread(c) /\ Current(c) = {} /\ Current(c)' = {}
      BY <1>3 DEF IInv, Current
    <2>2. Prepared(c)'
      BY <1>3, <2>1 DEF Thread, Prepared
    <2> QED  BY <1>3, <2>2 DEF Thread, Holding, Gathered
  <1>5. ServiceStep
    <2>1. AbsPhase'[c] = AbsPhase[c] /\ AbsCall'[c] = AbsCall[c] /\ AbsAnswer'[c] = AbsAnswer[c]
      BY <1>3 DEF AbsPhase, AbsCall, AbsAnswer
    <2> QED  BY <1>2, <2>1, Unseen DEF InitConn
  <1> QED  BY <1>1, <1>2, <1>4, <1>5, UndisturbedKeeps DEF IInv

LEMMA CloseInv == ASSUME IInv, NEW c \in Clients, Close(c) PROVE IInv' /\ ServiceStep
  <1>1. /\ pc[c] = "idle" /\ pc'[c] = "closed" /\ ready /\ ready'
        /\ stmt'[c] = [t \in Texts |-> "none"]
        /\ bound'[c] = [t \in Texts |-> NoCall]
    BY Types DEF IInv, Thread, Close, Client
  <1>2. Schema \in open' /\ exists' /\ store' = store
    BY <1>1, LibAssumption DEF IInv, Kept, Close
  <1>3. TypeOK' /\ Kept'
    <2>1. [t \in Texts |-> "none"] \in [Texts -> StmtStates]
      BY DEF StmtStates
    <2>2. stmt' \in [Clients -> [Texts -> StmtStates]]
      BY <2>1 DEF IInv, TypeOK, Close
    <2> QED  BY <1>2, <2>2 DEF IInv, TypeOK, Kept, Close, Client
  <1>4. ASSUME NEW d \in Clients, d # c PROVE Undisturbed(d)
    BY <1>2, <1>4 DEF Undisturbed, Close, Client
  <1>5. Thread(c)'
    BY <1>1 DEF Thread, Prepared, Holding, Gathered, Current
  <1>6. ServiceStep
    <2>1. AbsPhase'[c] = AbsPhase[c] /\ AbsCall'[c] = AbsCall[c] /\ AbsAnswer'[c] = AbsAnswer[c]
      BY <1>1 DEF AbsPhase, AbsCall, AbsAnswer
    <2> QED  BY <1>2, <1>4, <2>1, Unseen DEF Close
  <1> QED  BY <1>3, <1>4, <1>5, <1>6, UndisturbedKeeps DEF IInv

LEMMA BeginOpInv == ASSUME IInv, NEW c \in Clients, BeginOp(c) PROVE IInv' /\ ServiceStep
  <1>1. PICK r \in Calls[c] :
            LET usable == exists /\ stmt[c][Text(r)] \in {"none", "ready"} IN
            /\ Client(c, "idle", IF usable THEN "step" ELSE "threw")
            /\ req' = [req EXCEPT ![c] = r]
            /\ stmt' = [stmt EXCEPT ![c][Text(r)] = IF usable THEN "ready" ELSE @]
            /\ bound' = [bound EXCEPT ![c][Text(r)] = IF usable THEN r ELSE @]
            /\ got' = [got EXCEPT ![c] = Blank(r)]
    BY DEF BeginOp
  <1>2. r \in Requests /\ Text(r) \in Texts
    BY OpFacts, LibAssumption
  <1>3. exists /\ stmt[c][Text(r)] \in {"none", "ready"} /\ pc[c] = "idle"
    BY <1>1, <1>2 DEF IInv, Kept, Thread, Prepared, Current, Client
  <1>4. /\ pc' = [pc EXCEPT ![c] = "step"]
        /\ req' = [req EXCEPT ![c] = r]
        /\ stmt' = [stmt EXCEPT ![c][Text(r)] = "ready"]
        /\ bound' = [bound EXCEPT ![c][Text(r)] = r]
        /\ got' = [got EXCEPT ![c] = Blank(r)]
    BY <1>1, <1>3 DEF Client
  <1>5. /\ pc'[c] = "step" /\ req'[c] = r /\ got'[c] = Blank(r)
        /\ stmt'[c][Text(r)] = "ready" /\ bound'[c][Text(r)] = r
        /\ \A t \in Texts : t # Text(r) => stmt'[c][t] = stmt[c][t] /\ bound'[c][t] = bound[c][t]
    BY <1>2, <1>4, Types
  <1>6. TypeOK'
    <2>1. left' \in [Clients -> Nat]
      BY DEF IInv, TypeOK, BeginOp, MoreCalls
    <2>2. stmt' \in [Clients -> [Texts -> StmtStates]]
      BY <1>4 DEF IInv, TypeOK, StmtStates
    <2>3. bound' \in [Clients -> [Texts -> Requests \cup {NoCall}]]
      BY <1>2, <1>4 DEF IInv, TypeOK
    <2>4. pc' \in [Clients -> {"init", "idle", "step", "reset", "threw", "closed"}]
      BY <1>4 DEF IInv, TypeOK
    <2>5. req' \in [Clients -> Requests \cup {NoCall}] /\ DOMAIN got' = Clients
      BY <1>2, <1>4 DEF IInv, TypeOK
    <2> QED  BY <2>1, <2>2, <2>4, <2>5 DEF IInv, TypeOK, BeginOp
  <1>7. Kept' /\ ready'
    BY <1>3 DEF IInv, Kept, Thread, BeginOp
  <1>8. ASSUME NEW d \in Clients, d # c PROVE Undisturbed(d)
    BY <1>4, <1>8 DEF Undisturbed, BeginOp
  <1>9. Thread(c)'
    <2>1. Prepared(c)'
      BY <1>2, <1>3, <1>5 DEF IInv, Thread, Prepared, Current, Mine
    <2>2. Gathered(c)'
      BY <1>5 DEF Gathered, Blank, Fetched, Writes
    <2> QED  BY <1>5, <1>7, <2>1, <2>2 DEF Thread, Holding
  <1>10. ServiceStep
    <2>1. /\ AbsPhase[c] = "idle" /\ AbsPhase'[c] = "pending"
          /\ AbsCall'[c] = r /\ AbsAnswer'[c] = AbsAnswer[c]
      BY <1>3, <1>5 DEF AbsPhase, AbsCall, AbsAnswer
    <2>2. /\ AbsPhase' = [AbsPhase EXCEPT ![c] = "pending"]
          /\ AbsCall' = [AbsCall EXCEPT ![c] = r]
          /\ AbsAnswer' = [AbsAnswer EXCEPT ![c] = AbsAnswer[c]]
      BY <1>8, <2>1, AbstractLocal
    <2>3. AbsAnswer' = AbsAnswer /\ UNCHANGED <<store, oks>>
      BY <2>2, AbstractFunctions DEF BeginOp
    <2>4. Service!Invoke(c)
      BY <1>2, <2>1, <2>2, <2>3 DEF Service!Invoke
    <2> QED  BY <2>4 DEF ServiceStep, Service!Next
  <1> QED  BY <1>6, <1>7, <1>8, <1>9, <1>10, UndisturbedKeeps DEF IInv

LEMMA ReadRowInv == ASSUME IInv, NEW c \in Clients, ReadRow(c) PROVE IInv' /\ ServiceStep
  <1>1. /\ pc[c] = "step" /\ req[c].op = "r" /\ pc' = [pc EXCEPT ![c] = "reset"]
        /\ stmt' = [stmt EXCEPT ![c][Mine(c)] = "row"]
        /\ got' = [got EXCEPT ![c] = [row |-> Cells(store, Args(c).key, req[c].fields)]]
        /\ UNCHANGED <<ready, alive, open, exists, store, left, oks, req, bound>>
    BY DEF ReadRow, Client, SetStmt
  <1>2. req[c] \in Requests /\ Mine(c) \in Texts /\ Current(c) = {Mine(c)} /\ Args(c) = req[c]
    BY <1>1, CallFacts
  <1>3. /\ pc'[c] = "reset" /\ got'[c] = [row |-> Cells(store, req[c].key, req[c].fields)]
        /\ \A t \in Texts : t # Mine(c) => stmt'[c][t] = stmt[c][t]
    BY <1>1, <1>2, Types
  <1>4. TypeOK' /\ Kept'
    <2>1. stmt' \in [Clients -> [Texts -> StmtStates]]
      BY <1>1 DEF IInv, TypeOK, StmtStates
    <2> QED  BY <1>1, <2>1 DEF IInv, TypeOK, Kept
  <1>5. ASSUME NEW d \in Clients, d # c PROVE Undisturbed(d)
    BY <1>1, <1>5 DEF Undisturbed
  <1>6. Thread(c)'
    <2>1. Current(c)' = {Mine(c)}
      BY <1>1 DEF Current, Mine
    <2>2. Prepared(c)'
      BY <1>1, <1>2, <2>1 DEF IInv, Thread, Prepared
    <2> QED  BY <1>1, <1>3, <2>2 DEF IInv, Thread, Holding, Gathered
  <1>7. ServiceStep
    <2>1. ~Misses(store, req[c]) /\ ~Conflicts(store, req[c])
      BY <1>2 DEF ReadRow, Remaining, Misses, Conflicts
    <2>2. got'[c] = Answer(store, req[c]) /\ store' = Effect(store, req[c])
      BY <1>1, <1>3, <2>1 DEF Answer, Result, Effect, Writes
    <2> QED  BY <1>1, <1>3, <1>5, <2>1, <2>2, Applies
  <1> QED  BY <1>4, <1>5, <1>6, <1>7, UndisturbedKeeps DEF IInv

LEMMA ScanNextInv == ASSUME IInv, NEW c \in Clients, ScanNext(c) PROVE IInv' /\ ServiceStep
  <1>1. /\ pc[c] = "step" /\ req[c].op = "s"
        /\ stmt' = [stmt EXCEPT ![c][Mine(c)] = "row"]
        /\ UNCHANGED <<ready, alive, open, exists, store, pc, left, oks, req, bound>>
    BY DEF ScanNext, Querying, SetStmt
  <1>2. req[c] \in Requests /\ Mine(c) \in Texts /\ Current(c) = {Mine(c)} /\ Args(c) = req[c]
    BY <1>1, CallFacts
  <1>3. PICK k \in Remaining(c) :
            got' = [got EXCEPT ![c].rows = [x \in DOMAIN @ \cup {k} |->
                        IF x = k THEN ScanRow(store, k, req[c].fields) ELSE @[x]]]
    BY DEF ScanNext
  <1>4. /\ got[c] = [rows |-> got[c].rows] /\ Fetched(c) \subseteq Wanted(c)
        /\ \A x \in Fetched(c) : got[c].rows[x] = ScanRow(store, x, req[c].fields)
        /\ Fetched(c) = DOMAIN got[c].rows
    BY <1>1 DEF IInv, Thread, Gathered
  <1>5. got'[c] = [rows |-> [x \in Fetched(c) \cup {k} |->
                        IF x = k THEN ScanRow(store, k, req[c].fields) ELSE got[c].rows[x]]]
    BY <1>3, <1>4, Types
  <1>6. stmt'[c][Mine(c)] = "row" /\ \A t \in Texts : t # Mine(c) => stmt'[c][t] = stmt[c][t]
    BY <1>1, <1>2, Types
  <1>7. TypeOK' /\ Kept'
    <2>1. stmt' \in [Clients -> [Texts -> StmtStates]]
      BY <1>1 DEF IInv, TypeOK, StmtStates
    <2>2. DOMAIN got' = Clients
      BY <1>3, Types
    <2> QED  BY <1>1, <2>1, <2>2 DEF IInv, TypeOK, Kept
  <1>8. ASSUME NEW d \in Clients, d # c PROVE Undisturbed(d)
    BY <1>1, <1>3, <1>8 DEF Undisturbed
  <1>9. Thread(c)'
    <2>1. Current(c)' = {Mine(c)}
      BY <1>1 DEF Current, Mine
    <2>2. Prepared(c)'
      BY <1>1, <1>2, <2>1 DEF IInv, Thread, Prepared
    <2>3. Gathered(c)'
      <3>1. Wanted(c)' = Wanted(c) /\ k \in Wanted(c)
        BY <1>1, <1>2 DEF Wanted, Remaining
      <3>2. Fetched(c)' = Fetched(c) \cup {k}
        BY <1>1, <1>5 DEF Fetched
      <3>3. Reading(c)'
        BY <1>2, <1>6 DEF Reading
      <3> QED  BY <1>1, <1>4, <1>5, <3>1, <3>2, <3>3 DEF Gathered, Writes
    <2> QED  BY <1>1, <2>2, <2>3 DEF IInv, Thread, Holding
  <1>10. ServiceStep
    <2>1. AbsPhase'[c] = AbsPhase[c] /\ AbsCall'[c] = AbsCall[c] /\ AbsAnswer'[c] = AbsAnswer[c]
      BY <1>1 DEF AbsPhase, AbsCall, AbsAnswer
    <2> QED  BY <1>1, <1>8, <2>1, Unseen
  <1> QED  BY <1>7, <1>8, <1>9, <1>10, UndisturbedKeeps DEF IInv

\* When nothing remains, what has been fetched is the answer.
LEMMA QueryDoneInv == ASSUME IInv, NEW c \in Clients, QueryDone(c) PROVE IInv' /\ ServiceStep
  <1>1. /\ pc[c] = "step" /\ req[c].op \in Queries /\ Remaining(c) = {}
        /\ pc' = [pc EXCEPT ![c] = "reset"]
        /\ stmt' = [stmt EXCEPT ![c][Mine(c)] = "done"]
        /\ got' = [got EXCEPT ![c] = IF Fetched(c) = {} THEN Missed ELSE @]
        /\ UNCHANGED <<ready, alive, open, exists, store, left, oks, req, bound>>
    BY DEF QueryDone, Querying, Client, SetStmt
  <1>2. req[c] \in Requests /\ Mine(c) \in Texts /\ Current(c) = {Mine(c)} /\ Args(c) = req[c]
    BY <1>1, CallFacts
  <1>3. /\ pc'[c] = "reset" /\ got'[c] = IF Fetched(c) = {} THEN Missed ELSE got[c]
        /\ stmt'[c][Mine(c)] = "done" /\ \A t \in Texts : t # Mine(c) => stmt'[c][t] = stmt[c][t]
    BY <1>1, <1>2, Types
  <1>4. TypeOK' /\ Kept'
    <2>1. stmt' \in [Clients -> [Texts -> StmtStates]]
      BY <1>1 DEF IInv, TypeOK, StmtStates
    <2> QED  BY <1>1, <2>1 DEF IInv, TypeOK, Kept
  <1>5. ASSUME NEW d \in Clients, d # c PROVE Undisturbed(d)
    BY <1>1, <1>5 DEF Undisturbed
  <1>6. Thread(c)'
    <2>1. Current(c)' = {Mine(c)}
      BY <1>1 DEF Current, Mine
    <2>2. Prepared(c)'
      BY <1>1, <1>2, <2>1 DEF IInv, Thread, Prepared
    <2>3. ~Reading(c)'
      BY <1>1, <1>2, <1>3 DEF IInv, Thread, Prepared, Reading
    <2> QED  BY <1>1, <1>3, <2>2, <2>3 DEF IInv, Thread, Holding, Gathered
  <1>7. got'[c] = Answer(store, req[c])
    <2>1. CASE req[c].op = "r"
      BY <1>1, <1>2, <1>3, <2>1 DEF Remaining, Fetched, Answer, Misses
    <2>2. CASE req[c].op = "s"
      <3>1. Fetched(c) = Wanted(c)
        BY <1>1, <1>2, <2>2 DEF IInv, Thread, Gathered, Remaining, Wanted
      <3>2. got[c] = [rows |-> [k \in Wanted(c) |-> ScanRow(store, k, req[c].fields)]]
        BY <1>1, <2>2, <3>1 DEF IInv, Thread, Gathered
      <3> QED  BY <1>3, <2>2, <3>1, <3>2 DEF Answer, Misses, Result, Wanted
    <2> QED  BY <1>1, <2>1, <2>2 DEF Queries
  <1>8. ServiceStep
    <2>1. ~Conflicts(store, req[c]) /\ store' = Effect(store, req[c])
      BY <1>1 DEF Conflicts, Effect, Queries, Writes
    <2> QED  BY <1>1, <1>3, <1>5, <1>7, <2>1, Applies
  <1> QED  BY <1>4, <1>5, <1>6, <1>8, UndisturbedKeeps DEF IInv

LEMMA StepWriteInv == ASSUME IInv, NEW c \in Clients, StepWrite(c) PROVE IInv' /\ ServiceStep
  <1>1. /\ pc[c] = "step" /\ req[c].op \in Writes /\ ~LockedOut(c)
        /\ ~Conflicts(store, Args(c)) /\ store' = Effect(store, Args(c))
        /\ pc' = [pc EXCEPT ![c] = "reset"]
        /\ stmt' = [stmt EXCEPT ![c][Mine(c)] = "done"]
        /\ UNCHANGED <<ready, alive, open, exists, left, oks, req, bound, got>>
    BY DEF StepWrite, Writing, Client, SetStmt
  <1>2. req[c] \in Requests /\ Mine(c) \in Texts /\ Current(c) = {Mine(c)} /\ Args(c) = req[c]
    BY <1>1, CallFacts
  <1>3. /\ pc'[c] = "reset"
        /\ stmt'[c][Mine(c)] = "done" /\ \A t \in Texts : t # Mine(c) => stmt'[c][t] = stmt[c][t]
    BY <1>1, <1>2, Types
  <1>4. TypeOK' /\ Kept'
    <2>1. stmt' \in [Clients -> [Texts -> StmtStates]]
      BY <1>1 DEF IInv, TypeOK, StmtStates
    <2>2. store' \in Table
      BY <1>1, <1>2, OpFacts, EffectType DEF IInv, TypeOK
    <2> QED  BY <1>1, <2>1, <2>2 DEF IInv, TypeOK, Kept
  <1>5. ASSUME NEW d \in Clients, d # c PROVE Undisturbed(d)
    BY <1>1, <1>5, WriterAlone DEF Undisturbed
  <1>6. Thread(c)'
    <2>1. Current(c)' = {Mine(c)}
      BY <1>1 DEF Current, Mine
    <2>2. Prepared(c)'
      BY <1>1, <1>2, <2>1 DEF IInv, Thread, Prepared
    <2> QED  BY <1>1, <1>3, <2>2 DEF IInv, Thread, Holding, Gathered, Writes
  <1>7. ServiceStep
    <2>1. got'[c] = Answer(store, req[c])
      BY <1>1 DEF IInv, Thread, Gathered, Answer, Misses, Result, Writes
    <2> QED  BY <1>1, <1>2, <1>3, <1>5, <2>1, Applies
  <1> QED  BY <1>4, <1>5, <1>6, <1>7, UndisturbedKeeps DEF IInv

LEMMA StepLockedInv == ASSUME IInv, NEW c \in Clients, StepLocked(c) PROVE IInv' /\ ServiceStep
  <1>1. /\ pc[c] = "step" /\ req[c].op \in Writes
        /\ stmt' = [stmt EXCEPT ![c][Mine(c)] = "failed"]
        /\ UNCHANGED <<ready, alive, open, exists, store, pc, left, oks, req, bound, got>>
    BY DEF StepLocked, Writing, SetStmt
  <1>2. req[c] \in Requests /\ Mine(c) \in Texts /\ Current(c) = {Mine(c)} /\ Args(c) = req[c]
    BY <1>1, CallFacts
  <1>3. \A t \in Texts : t # Mine(c) => stmt'[c][t] = stmt[c][t]
    BY <1>1
  <1>4. TypeOK' /\ Kept'
    <2>1. stmt' \in [Clients -> [Texts -> StmtStates]]
      BY <1>1 DEF IInv, TypeOK, StmtStates
    <2> QED  BY <1>1, <2>1 DEF IInv, TypeOK, Kept
  <1>5. ASSUME NEW d \in Clients, d # c PROVE Undisturbed(d)
    BY <1>1, <1>5 DEF Undisturbed
  <1>6. Thread(c)'
    <2>1. Current(c)' = {Mine(c)}
      BY <1>1 DEF Current, Mine
    <2>2. Prepared(c)'
      BY <1>1, <1>2, <2>1 DEF IInv, Thread, Prepared
    <2> QED  BY <1>1, <2>2 DEF IInv, Thread, Holding, Gathered, Writes
  <1>7. ServiceStep
    <2>1. AbsPhase'[c] = AbsPhase[c] /\ AbsCall'[c] = AbsCall[c] /\ AbsAnswer'[c] = AbsAnswer[c]
      BY <1>1 DEF AbsPhase, AbsCall, AbsAnswer
    <2> QED  BY <1>1, <1>5, <2>1, Unseen
  <1> QED  BY <1>4, <1>5, <1>6, <1>7, UndisturbedKeeps DEF IInv

LEMMA StepThrowsInv == ASSUME IInv, NEW c \in Clients, StepThrows(c) PROVE IInv' /\ ServiceStep
  <1>1. /\ pc[c] = "step"
        /\ pc' = [pc EXCEPT ![c] = "threw"]
        /\ stmt' = [stmt EXCEPT ![c][Mine(c)] = "failed"]
        /\ UNCHANGED <<ready, alive, open, exists, store, left, oks, req, bound, got>>
    BY DEF StepThrows, Client, SetStmt
  <1>2. req[c] \in Requests /\ Mine(c) \in Texts /\ Current(c) = {Mine(c)} /\ Args(c) = req[c]
    BY <1>1, CallFacts
  <1>3. /\ pc'[c] = "threw" /\ stmt'[c][Mine(c)] = "failed"
        /\ \A t \in Texts : t # Mine(c) => stmt'[c][t] = stmt[c][t]
    BY <1>1, <1>2, Types
  <1>4. TypeOK' /\ Kept'
    <2>1. stmt' \in [Clients -> [Texts -> StmtStates]]
      BY <1>1 DEF IInv, TypeOK, StmtStates
    <2> QED  BY <1>1, <2>1 DEF IInv, TypeOK, Kept
  <1>5. ASSUME NEW d \in Clients, d # c PROVE Undisturbed(d)
    BY <1>1, <1>5 DEF Undisturbed
  <1>6. Thread(c)'
    <2>1. ~Reading(c)'
      BY <1>1, <1>2, <1>3 DEF IInv, Thread, Prepared, Reading
    <2> QED  BY <1>1, <1>3, <2>1 DEF IInv, Thread, Prepared, Holding, Gathered
  <1>7. ServiceStep
    <2>1. AbsPhase[c] = "pending" /\ AbsPhase'[c] = "thrown" /\ AbsCall'[c] = NoCall /\ AbsAnswer'[c] = NoData
      BY <1>1, <1>3 DEF AbsPhase, AbsCall, AbsAnswer
    <2>2. /\ AbsPhase' = [AbsPhase EXCEPT ![c] = "thrown"]
          /\ AbsCall' = [AbsCall EXCEPT ![c] = NoCall]
          /\ AbsAnswer' = [AbsAnswer EXCEPT ![c] = NoData]
      BY <1>5, <2>1, AbstractLocal
    <2>3. Service!Throw(c)
      BY <1>1, <2>1, <2>2, ServiceData DEF Service!Throw
    <2> QED  BY <2>3 DEF ServiceStep, Service!Next
  <1> QED  BY <1>4, <1>5, <1>6, <1>7, UndisturbedKeeps DEF IInv

LEMMA ReturnInv == ASSUME IInv, NEW c \in Clients, Return(c) PROVE IInv' /\ ServiceStep
  <1>1. /\ pc[c] = "reset"
        /\ pc' = [pc EXCEPT ![c] = "idle"]
        /\ stmt' = [stmt EXCEPT ![c][Mine(c)] = "ready"]
        /\ bound' = [bound EXCEPT ![c][Mine(c)] = NoCall]
        /\ oks' = [oks EXCEPT ![c] = IF got[c] = Missed THEN @ ELSE @ + 1]
        /\ req' = [req EXCEPT ![c] = NoCall]
        /\ got' = [got EXCEPT ![c] = NoData]
        /\ UNCHANGED <<ready, alive, open, exists, store, left>>
    BY DEF Return, Client, SetStmt, Reset
  <1>2. req[c] \in Requests /\ Mine(c) \in Texts /\ Current(c) = {Mine(c)}
    BY <1>1, CallFacts
  <1>3. /\ pc'[c] = "idle" /\ stmt'[c][Mine(c)] = "ready" /\ bound'[c][Mine(c)] = NoCall
        /\ \A t \in Texts : t # Mine(c) => stmt'[c][t] = stmt[c][t] /\ bound'[c][t] = bound[c][t]
    BY <1>1, <1>2, Types
  <1>4. TypeOK' /\ Kept'
    <2>1. stmt' \in [Clients -> [Texts -> StmtStates]]
      BY <1>1 DEF IInv, TypeOK, StmtStates
    <2>2. bound' \in [Clients -> [Texts -> Requests \cup {NoCall}]]
      BY <1>1 DEF IInv, TypeOK
    <2>3. oks' \in [Clients -> Nat]
      BY <1>1 DEF IInv, TypeOK
    <2>4. pc' \in [Clients -> {"init", "idle", "step", "reset", "threw", "closed"}]
      BY <1>1 DEF IInv, TypeOK
    <2>5. req' \in [Clients -> Requests \cup {NoCall}] /\ DOMAIN got' = Clients
      BY <1>1 DEF IInv, TypeOK
    <2> QED  BY <1>1, <2>1 DEF IInv, TypeOK, Kept
  <1>5. ASSUME NEW d \in Clients, d # c PROVE Undisturbed(d)
    BY <1>1, <1>5 DEF Undisturbed
  <1>6. Thread(c)'
    <2>1. Current(c)' = {}
      BY <1>3 DEF Current
    <2>2. Prepared(c)'
      BY <1>1, <1>2, <1>3, <2>1 DEF IInv, Thread, Prepared
    <2> QED  BY <1>1, <1>3, <2>2 DEF IInv, Thread, Holding, Gathered
  <1>7. ServiceStep
    <2>1. /\ AbsPhase[c] = "done" /\ AbsPhase'[c] = "idle" /\ AbsCall'[c] = NoCall
          /\ AbsAnswer'[c] = NoData /\ AbsCall[c] = req[c] /\ AbsAnswer[c] = got[c]
      BY <1>1, <1>3 DEF AbsPhase, AbsCall, AbsAnswer
    <2>2. /\ AbsPhase' = [AbsPhase EXCEPT ![c] = "idle"]
          /\ AbsCall' = [AbsCall EXCEPT ![c] = NoCall]
          /\ AbsAnswer' = [AbsAnswer EXCEPT ![c] = NoData]
      BY <1>5, <2>1, AbstractLocal
    <2>3. PICK n \in Counted(req[c], got[c]) : oks' = [oks EXCEPT ![c] = @ + n]
      <3>1. CASE got[c] = Missed
        <4>1. oks' = [oks EXCEPT ![c] = oks[c]] /\ oks[c] + 0 = oks[c]
          BY <1>1, <3>1 DEF IInv, TypeOK
        <4>2. 0 \in Counted(req[c], got[c])
          BY <3>1 DEF Counted
        <4> QED  BY <4>1, <4>2
      <3>2. CASE got[c] # Missed
        <4>1. oks' = [oks EXCEPT ![c] = @ + 1]
          BY <1>1, <3>2
        <4>2. 1 \in Counted(req[c], got[c])
          BY <3>2 DEF Counted
        <4> QED  BY <4>1, <4>2
      <3> QED  BY <3>1, <3>2
    <2>4. Service!Return(c)
      BY <1>1, <2>1, <2>2, <2>3, ServiceData DEF Service!Return
    <2> QED  BY <2>4 DEF ServiceStep, Service!Next
  <1> QED  BY <1>4, <1>5, <1>6, <1>7, UndisturbedKeeps DEF IInv

-----------------------------------------------------------------------------
LEMMA InitInv == Init => IInv
  <1> SUFFICES ASSUME Init PROVE IInv
    OBVIOUS
  <1>1. TypeOK
    <2>1. EmptyTable \in Table
      BY DEF EmptyTable, Table
    <2>2. \A c \in Clients : stmt[c] \in [Texts -> StmtStates]
      BY DEF Init, StmtStates
    <2>3. \A c \in Clients : bound[c] \in [Texts -> Requests \cup {NoCall}]
      BY DEF Init
    <2>4. left \in [Clients -> Nat]
      BY LibAssumption DEF Init
    <2> QED  BY <2>1, <2>2, <2>4 DEF Init, TypeOK
  <1>2. ASSUME NEW c \in Clients PROVE Thread(c)
    BY DEF Init, Thread, Prepared, Holding, Gathered
  <1> QED  BY <1>1, <1>2 DEF Init, IInv, Kept

LEMMA NextInv == IInv /\ [Next]_vars => IInv' /\ ServiceStep
  <1> SUFFICES ASSUME IInv, [Next]_vars PROVE IInv' /\ ServiceStep
    OBVIOUS
  <1>1. ASSUME NEW c \in Clients, ClientStep(c) PROVE IInv' /\ ServiceStep
    BY <1>1, InitConnInv, BeginOpInv, ReadRowInv, ScanNextInv, QueryDoneInv, StepWriteInv,
       StepLockedInv, StepThrowsInv, ReturnInv, CloseInv DEF ClientStep
  <1> QED  BY <1>1, CreateSchemaInv, ProcessDiesInv, StutterInv DEF Next, Terminating

LEMMA IInvHolds == Spec => []IInv
  BY InitInv, NextInv, PTL DEF Spec

-----------------------------------------------------------------------------
(* The theorems. *)

\* Every variable keeps its type, for any number of contexts and calls.
THEOREM TypeCorrect == Spec => []TypeOK
  <1>1. IInv => TypeOK
    BY DEF IInv
  <1> QED  BY <1>1, IInvHolds, PTL

\* No call meets a cached statement that an earlier one has left unreset or
\* bound, whatever the earlier one came to (SqliteLibDB's statement cache).
THEOREM CacheClean == Spec => []StatementsClean
  <1>1. IInv => StatementsClean
    BY DEF IInv, Thread, Prepared, StatementsClean
  <1> QED  BY <1>1, IInvHolds, PTL

\* The connection of CreateSchema keeps the in-memory database alive.
THEOREM DatabaseStays == Spec => []DataSurvives
  <1>1. IInv => DataSurvives
    BY DEF IInv, Kept, DataSurvives
  <1> QED  BY <1>1, IInvHolds, PTL

\* What a scan has fetched stays what the table holds while it goes on.
THEOREM ScansStable == Spec => []ScansAreStable
  <1>1. ASSUME IInv, NEW c \in Clients, Reading(c), req[c].op = "s", NEW k \in DOMAIN got[c].rows
        PROVE  k \in Present(store) /\ got[c].rows[k] = ScanRow(store, k, req[c].fields)
    <2>1. pc[c] = "step"
      BY <1>1 DEF IInv, Thread, Prepared, Holding, Reading, Current
    <2> QED  BY <1>1, <2>1 DEF IInv, Thread, Gathered, Wanted, ScanKeys
  <1>2. IInv => ScansAreStable
    BY <1>1 DEF ScansAreStable
  <1> QED  BY <1>2, IInvHolds, PTL

\* SqliteLibDB implements ycsbc::DB: every call, a scan of many steps and a
\* write that was locked out again and again included, happens at one instant.
THEOREM Implements == Spec => LibServiceSpec
  <1>1. Init => Service!Init
    <2> SUFFICES ASSUME Init PROVE Service!Init
      OBVIOUS
    <2>1. /\ AbsPhase = [c \in Clients |-> "idle"]
          /\ AbsCall = [c \in Clients |-> NoCall]
          /\ AbsAnswer = [c \in Clients |-> NoData]
      BY DEF Init, AbsPhase, AbsCall, AbsAnswer
    <2> QED  BY <2>1, ServiceData DEF Init, Service!Init
  <1>2. IInv /\ [Next]_vars => [Service!Next]_(Service!vars)
    BY NextInv DEF ServiceStep
  <1> QED  BY <1>1, <1>2, IInvHolds, PTL DEF Spec, LibServiceSpec, Service!Spec
=============================================================================
