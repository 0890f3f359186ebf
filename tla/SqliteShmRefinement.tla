------------------------- MODULE SqliteShmRefinement -------------------------
(***************************************************************************)
(* SqliteShm implements DBService, for any number of connections, requests *)
(* and operations.  A call takes effect in the step Exec of the server     *)
(* thread; the answer then travels through sres and the window, and the    *)
(* handshake invariant of SqliteShmProof says where it is.  One lemma per  *)
(* action shows that the action is a step of the service or none.          *)
(***************************************************************************)
EXTENDS SqliteShmProof

\* The answer of an executed call: first in the result vector of the server
\* thread, then also in the window, at last only there.
Answered(c) ==
    /\ ready \/ pc[c] = "init"
    /\ spc[c] \in {"clear", "signal"} => sres[c] = Received(c)
    /\ Executed(c) /\ spc[c] \notin {"write", "clear", "signal"} => IsResult(Received(c))

\* Nobody writes before the schema is there.
Untouched == ready \/ store = EmptyTable

RInv == IInv /\ Untouched /\ \A c \in Clients : Answered(c)

-----------------------------------------------------------------------------
(* What a step of one connection means for the others. *)

USE DEF Client, Server, cvars, svars, wvars, mvars, NUL, Windows, Working, Leaving

Undisturbed(d) ==
    /\ UNCHANGED <<pc[d], req[d], outByte[d], outMsg[d], spc[d], sres[d]>>
    /\ ready => ready'

LEMMA Types ==
    IInv => \A f \in {pc, left, oks, req, outByte, outMsg, spc, sop, sreq, sres} : DOMAIN f = Clients
  BY DEF IInv, TypeOK

LEMMA CountTypes ==
    IInv => \A c \in Clients : oks[c] \in Nat
  BY DEF IInv, TypeOK

LEMMA Unaffected ==
    ASSUME NEW d \in Clients, Undisturbed(d)
    PROVE  /\ InCall(d)' = InCall(d)
           /\ Executed(d)' = Executed(d)
           /\ Received(d)' = Received(d)
  BY DEF Undisturbed, InCall, Executed, Received

LEMMA UndisturbedKeeps ==
    ASSUME NEW d \in Clients, Answered(d), Undisturbed(d)
    PROVE  Answered(d)'
  BY Unaffected DEF Answered, Undisturbed

-----------------------------------------------------------------------------
(* The service. *)

LEMMA ServiceData ==
    /\ Service!NoCall = NoCall
    /\ Service!NoData = NoData
    /\ Service!EmptyTable = EmptyTable
    /\ \A tab, r : /\ Service!Effect(tab, r) = Effect(tab, r)
                   /\ Service!Answer(tab, r) = Answer(tab, r)
                   /\ Service!Conflicts(tab, r) = Conflicts(tab, r)
                   /\ Service!Counted(r, tab) = Counted(r, tab)
  <1>1. Service!NoCall = NoCall /\ Service!NoData = NoData /\ Service!EmptyTable = EmptyTable
    BY DEF Service!NoCall, NoCall, Service!NoData, NoData, Service!EmptyTable, EmptyTable
  <1>2. ASSUME NEW tab, NEW r
        PROVE  Service!Effect(tab, r) = Effect(tab, r)
    BY DEF Service!Effect, Effect, Service!Written, Written, Service!Overwrite, Overwrite,
       Service!Writes, Writes
  <1>3. ASSUME NEW tab, NEW r
        PROVE  Service!Conflicts(tab, r) = Conflicts(tab, r)
    BY DEF Service!Conflicts, Conflicts, Service!Present, Present
  <1>4. \A S : Service!Cardinality(S) = Cardinality(S)
    BY DEF Service!Cardinality, Cardinality
  <1>5. ASSUME NEW tab, NEW r
        PROVE  Service!Answer(tab, r) = Answer(tab, r)
    <2>1. Service!Present(tab) = Present(tab)
      BY DEF Service!Present, Present
    <2>2. Service!ScanKeys(tab, r.key, r.len) = ScanKeys(tab, r.key, r.len)
      BY <1>4, <2>1 DEF Service!ScanKeys, ScanKeys
    <2>3. \A k : Service!Cells(tab, k, r.fields) = Cells(tab, k, r.fields)
      BY DEF Service!Cells, Cells, Service!Selected, Selected, Service!Columns, Columns,
         Service!KeyCol, KeyCol
    <2>4. \A k : Service!ScanRow(tab, k, r.fields) = ScanRow(tab, k, r.fields)
      BY <1>4, <2>3 DEF Service!ScanRow, ScanRow, Service!Padding, Padding,
         Service!Columns, Columns, Service!KeyCol, KeyCol
    <2> QED  BY <1>1, <2>1, <2>2, <2>3, <2>4 DEF Service!Answer, Answer, Service!Misses, Misses,
         Service!Missed, Missed, Service!Result, Result
  <1>6. ASSUME NEW r, NEW res
        PROVE  Service!Counted(r, res) = Counted(r, res)
    BY DEF Service!Counted, Counted, Service!Missed, Missed, Service!Status, Status
  <1> QED  BY <1>1, <1>2, <1>3, <1>5, <1>6

LEMMA FunctionUpdate ==
    ASSUME NEW S, NEW c \in S, NEW f, NEW g, NEW v,
           f = [d \in S |-> f[d]], g = [d \in S |-> g[d]],
           \A d \in S : d # c => g[d] = f[d], g[c] = v
    PROVE  g = [f EXCEPT ![c] = v]
  OBVIOUS

LEMMA AbstractFunctions ==
    /\ AbsPhase = [d \in Clients |-> AbsPhase[d]]
    /\ AbsCall = [d \in Clients |-> AbsCall[d]]
    /\ AbsAnswer = [d \in Clients |-> AbsAnswer[d]]
  BY DEF AbsPhase, AbsCall, AbsAnswer

LEMMA AbstractFunctionsAfter ==
    /\ AbsPhase' = [d \in Clients |-> AbsPhase'[d]]
    /\ AbsCall' = [d \in Clients |-> AbsCall'[d]]
    /\ AbsAnswer' = [d \in Clients |-> AbsAnswer'[d]]
  BY DEF AbsPhase, AbsCall, AbsAnswer

\* A step of one connection changes only that connection's call.
LEMMA AbstractLocal ==
    ASSUME NEW c \in Clients, \A d \in Clients : d # c => Undisturbed(d),
           NEW p, AbsPhase'[c] = p, NEW q, AbsCall'[c] = q, NEW a, AbsAnswer'[c] = a
    PROVE  /\ AbsPhase' = [AbsPhase EXCEPT ![c] = p]
           /\ AbsCall' = [AbsCall EXCEPT ![c] = q]
           /\ AbsAnswer' = [AbsAnswer EXCEPT ![c] = a]
  <1>1. ASSUME NEW d \in Clients, d # c
        PROVE  AbsPhase'[d] = AbsPhase[d] /\ AbsCall'[d] = AbsCall[d] /\ AbsAnswer'[d] = AbsAnswer[d]
    BY <1>1, Unaffected DEF Undisturbed, AbsPhase, AbsCall, AbsAnswer
  <1>2. AbsPhase' = [AbsPhase EXCEPT ![c] = p]
    BY <1>1, AbstractFunctions, AbstractFunctionsAfter
  <1>3. AbsCall' = [AbsCall EXCEPT ![c] = q]
    BY <1>1, AbstractFunctions, AbstractFunctionsAfter
  <1>4. AbsAnswer' = [AbsAnswer EXCEPT ![c] = a]
    BY <1>1, AbstractFunctions, AbstractFunctionsAfter
  <1> QED  BY <1>2, <1>3, <1>4

\* What one step of the back end is to the service.
ServiceStep == Service!Next \/ UNCHANGED Service!vars

\* What the lemma of an action has to show besides IInv'.
Kept == ServiceStep /\ Untouched' /\ \A c \in Clients : Answered(c)'

LEMMA Unseen ==
    ASSUME NEW c \in Clients, \A d \in Clients : d # c => Undisturbed(d),
           AbsPhase'[c] = AbsPhase[c], AbsCall'[c] = AbsCall[c], AbsAnswer'[c] = AbsAnswer[c],
           UNCHANGED <<store, oks>>
    PROVE  ServiceStep
  <1>1. /\ AbsPhase' = [AbsPhase EXCEPT ![c] = AbsPhase[c]]
        /\ AbsCall' = [AbsCall EXCEPT ![c] = AbsCall[c]]
        /\ AbsAnswer' = [AbsAnswer EXCEPT ![c] = AbsAnswer[c]]
    BY AbstractLocal
  <1> QED  BY <1>1, AbstractFunctions DEF ServiceStep, Service!vars

LEMMA Throws ==
    ASSUME NEW c \in Clients, \A d \in Clients : d # c => Undisturbed(d),
           pc[c] # "threw", pc'[c] = "threw", req'[c] = NoCall, UNCHANGED <<store, oks>>
    PROVE  ServiceStep
  <1>1. AbsPhase[c] # "thrown" /\ AbsPhase'[c] = "thrown"
    BY DEF AbsPhase
  <1>2. AbsCall'[c] = NoCall /\ AbsAnswer'[c] = NoData
    BY DEF AbsCall, AbsAnswer, Executed
  <1>3. /\ AbsPhase' = [AbsPhase EXCEPT ![c] = "thrown"]
        /\ AbsCall' = [AbsCall EXCEPT ![c] = NoCall]
        /\ AbsAnswer' = [AbsAnswer EXCEPT ![c] = NoData]
    BY <1>1, <1>2, AbstractLocal
  <1>4. Service!Throw(c)
    BY <1>1, <1>3, ServiceData DEF Service!Throw
  <1> QED  BY <1>4 DEF ServiceStep, Service!Next

LEMMA MissedIsNoResult == ~IsResult(Missed)
  BY DEF IsResult, Missed, NoData

-----------------------------------------------------------------------------
(* One lemma per action. *)

LEMMA InitConnStep == ASSUME RInv, NEW c \in Clients, InitConn(c) PROVE Kept
  <1>1. ASSUME NEW d \in Clients, d # c PROVE Undisturbed(d)
    BY <1>1 DEF Undisturbed, InitConn
  <1>2. /\ pc[c] = "init" /\ pc'[c] = "spawn"
        /\ ready'
        /\ outByte'[c] = 0
        /\ UNCHANGED <<req[c], outMsg[c], spc[c], sres[c]>>
    BY Types DEF RInv, InitConn, MayStart, FreshByte
  <1>3. Answered(c)'
    BY <1>2 DEF RInv, Answered, Executed, Received
  <1>4. ServiceStep
    <2>1. AbsPhase'[c] = AbsPhase[c] /\ AbsCall'[c] = AbsCall[c] /\ AbsAnswer'[c] = AbsAnswer[c]
      BY <1>2 DEF AbsPhase, AbsCall, AbsAnswer, Executed, InCall
    <2>2. UNCHANGED <<store, oks>>
      BY DEF InitConn
    <2> QED  BY <1>1, <2>1, <2>2, Unseen
  <1>5. Untouched'
    BY DEF Untouched, InitConn, MayStart
  <1> QED  BY <1>1, <1>3, <1>4, <1>5, UndisturbedKeeps DEF RInv, Kept

LEMMA InitFailsStep == ASSUME RInv, NEW c \in Clients, InitFails(c) PROVE Kept
  <1>1. ASSUME NEW d \in Clients, d # c PROVE Undisturbed(d)
    BY <1>1 DEF Undisturbed, InitFails
  <1>2. /\ pc[c] = "init" /\ pc'[c] = "threw"
        /\ ready'
        /\ UNCHANGED <<req[c], outByte[c], outMsg[c], spc[c], sres[c]>>
    BY Types DEF RInv, InitFails, MayStart
  <1>3. Answered(c)'
    BY <1>2 DEF RInv, Answered, Executed, Received
  <1>4. ServiceStep
    <2>1. req'[c] = NoCall /\ UNCHANGED <<store, oks>>
      BY DEF RInv, IInv, Delivered, InitFails
    <2> QED  BY <1>1, <1>2, <2>1, Throws
  <1>5. Untouched'
    BY DEF Untouched, InitFails, MayStart
  <1> QED  BY <1>1, <1>3, <1>4, <1>5, UndisturbedKeeps DEF RInv, Kept

LEMMA OpSpawnStep == ASSUME RInv, NEW c \in Clients, OpSpawn(c) PROVE Kept
  <1>1. ASSUME NEW d \in Clients, d # c PROVE Undisturbed(d)
    BY <1>1 DEF Undisturbed, OpSpawn
  <1>2. /\ pc[c] = "spawn" /\ pc'[c] = "idle"
        /\ spc[c] = "none" /\ spc'[c] = "start"
        /\ ready' = ready
        /\ UNCHANGED <<req[c], outByte[c], outMsg[c], sres[c]>>
    BY Types DEF RInv, OpSpawn
  <1>3. Answered(c)'
    BY <1>2 DEF RInv, Answered, Executed
  <1>4. ServiceStep
    <2>1. AbsPhase'[c] = AbsPhase[c] /\ AbsCall'[c] = AbsCall[c] /\ AbsAnswer'[c] = AbsAnswer[c]
      BY <1>2 DEF AbsPhase, AbsCall, AbsAnswer, Executed, InCall
    <2>2. UNCHANGED <<store, oks>>
      BY DEF OpSpawn
    <2> QED  BY <1>1, <2>1, <2>2, Unseen
  <1>5. Untouched'
    BY DEF RInv, Untouched, OpSpawn
  <1> QED  BY <1>1, <1>3, <1>4, <1>5, UndisturbedKeeps DEF RInv, Kept

LEMMA SpawnRefusedStep == ASSUME RInv, NEW c \in Clients, SpawnRefused(c) PROVE Kept
  <1>1. ASSUME NEW d \in Clients, d # c PROVE Undisturbed(d)
    BY <1>1 DEF Undisturbed, SpawnRefused
  <1>2. /\ pc[c] = "spawn" /\ pc'[c] = "threw"
        /\ ready' = ready
        /\ UNCHANGED <<req[c], outByte[c], outMsg[c], spc[c], sres[c]>>
    BY Types DEF RInv, SpawnRefused
  <1>3. Answered(c)'
    BY <1>2 DEF RInv, Answered, Executed, Received
  <1>4. ServiceStep
    <2>1. req'[c] = NoCall /\ UNCHANGED <<store, oks>>
      BY DEF RInv, IInv, Delivered, SpawnRefused
    <2> QED  BY <1>1, <1>2, <2>1, Throws
  <1>5. Untouched'
    BY DEF RInv, Untouched, SpawnRefused
  <1> QED  BY <1>1, <1>3, <1>4, <1>5, UndisturbedKeeps DEF RInv, Kept

LEMMA BeginOpStep == ASSUME RInv, NEW c \in Clients, BeginOp(c) PROVE Kept
  <1>1. ASSUME NEW d \in Clients, d # c PROVE Undisturbed(d)
    BY <1>1 DEF Undisturbed, BeginOp
  <1>2. /\ pc[c] = "idle" /\ pc'[c] = "notify"
        /\ req'[c] \in Requests
        /\ ready' = ready
        /\ UNCHANGED <<outByte[c], outMsg[c], spc[c], sres[c]>>
    BY Types DEF RInv, BeginOp
  <1>3. Answered(c)'
    BY <1>2 DEF RInv, IInv, Handshake, Answered, Executed
  <1>4. ServiceStep
    <2>1. /\ AbsPhase[c] = "idle" /\ AbsPhase'[c] = "pending"
          /\ AbsCall'[c] = req'[c] /\ AbsAnswer'[c] = AbsAnswer[c]
      BY <1>2, OpFacts DEF RInv, IInv, Delivered, AbsPhase, AbsCall, AbsAnswer, Executed, InCall
    <2>2. /\ AbsPhase' = [AbsPhase EXCEPT ![c] = "pending"]
          /\ AbsCall' = [AbsCall EXCEPT ![c] = req'[c]]
          /\ AbsAnswer' = [AbsAnswer EXCEPT ![c] = AbsAnswer[c]]
      BY <1>1, <2>1, AbstractLocal
    <2>3. AbsAnswer' = AbsAnswer /\ UNCHANGED <<store, oks>>
      BY <2>2, AbstractFunctions DEF BeginOp
    <2>4. Service!Invoke(c)
      BY <1>2, <2>1, <2>2, <2>3 DEF Service!Invoke
    <2> QED  BY <2>4 DEF ServiceStep, Service!Next
  <1>5. Untouched'
    BY DEF RInv, Untouched, BeginOp
  <1> QED  BY <1>1, <1>3, <1>4, <1>5, UndisturbedKeeps DEF RInv, Kept

LEMMA BeginOpThrowsStep == ASSUME RInv, NEW c \in Clients, BeginOpThrows(c) PROVE Kept
  <1>1. ASSUME NEW d \in Clients, d # c PROVE Undisturbed(d)
    BY <1>1 DEF Undisturbed, BeginOpThrows
  <1>2. /\ pc[c] = "idle" /\ pc'[c] = "threw"
        /\ ready' = ready
        /\ UNCHANGED <<req[c], outByte[c], outMsg[c], spc[c], sres[c]>>
    BY Types DEF RInv, BeginOpThrows
  <1>3. Answered(c)'
    BY <1>2 DEF RInv, Answered, Executed, Received
  <1>4. ServiceStep
    <2>1. req'[c] = NoCall /\ UNCHANGED <<store, oks>>
      BY DEF RInv, IInv, Delivered, BeginOpThrows
    <2> QED  BY <1>1, <1>2, <2>1, Throws
  <1>5. Untouched'
    BY DEF RInv, Untouched, BeginOpThrows
  <1> QED  BY <1>1, <1>3, <1>4, <1>5, UndisturbedKeeps DEF RInv, Kept

LEMMA BeginCloseStep == ASSUME RInv, NEW c \in Clients, BeginClose(c) PROVE Kept
  <1>1. ASSUME NEW d \in Clients, d # c PROVE Undisturbed(d)
    BY <1>1 DEF Undisturbed, BeginClose
  <1>2. /\ pc[c] = "idle" /\ pc'[c] = "notify"
        /\ req'[c] = CloseCall
        /\ ready' = ready
        /\ UNCHANGED <<outByte[c], outMsg[c], spc[c], sres[c]>>
    BY Types DEF RInv, BeginClose
  <1>3. Answered(c)'
    BY <1>2 DEF RInv, IInv, Handshake, Answered, Executed
  <1>4. ServiceStep
    <2>1. AbsPhase'[c] = AbsPhase[c] /\ AbsCall'[c] = AbsCall[c] /\ AbsAnswer'[c] = AbsAnswer[c]
      BY <1>2, OpFacts DEF RInv, IInv, Delivered, AbsPhase, AbsCall, AbsAnswer, Executed, InCall
    <2>2. UNCHANGED <<store, oks>>
      BY DEF BeginClose
    <2> QED  BY <1>1, <2>1, <2>2, Unseen
  <1>5. Untouched'
    BY DEF RInv, Untouched, BeginClose
  <1> QED  BY <1>1, <1>3, <1>4, <1>5, UndisturbedKeeps DEF RInv, Kept

LEMMA NotifyStep == ASSUME RInv, NEW c \in Clients, Notify(c) PROVE Kept
  <1>1. ASSUME NEW d \in Clients, d # c PROVE Undisturbed(d)
    BY <1>1 DEF Undisturbed, Notify
  <1>2. /\ pc[c] = "notify" /\ pc'[c] = "wait"
        /\ ready' = ready
        /\ UNCHANGED <<req[c], outByte[c], outMsg[c], spc[c], sres[c]>>
    BY Types DEF RInv, Notify
  <1>3. Answered(c)'
    BY <1>2 DEF RInv, IInv, Handshake, Answered, Executed
  <1>4. ServiceStep
    <2>1. AbsPhase'[c] = AbsPhase[c] /\ AbsCall'[c] = AbsCall[c] /\ AbsAnswer'[c] = AbsAnswer[c]
      BY <1>2 DEF RInv, IInv, Handshake, AbsPhase, AbsCall, AbsAnswer, Executed, InCall
    <2>2. UNCHANGED <<store, oks>>
      BY DEF Notify
    <2> QED  BY <1>1, <2>1, <2>2, Unseen
  <1>5. Untouched'
    BY DEF RInv, Untouched, Notify
  <1> QED  BY <1>1, <1>3, <1>4, <1>5, UndisturbedKeeps DEF RInv, Kept

LEMMA SeeResponseStep == ASSUME RInv, NEW c \in Clients, SeeResponse(c) PROVE Kept
  <1>1. ASSUME NEW d \in Clients, d # c PROVE Undisturbed(d)
    BY <1>1 DEF Undisturbed, SeeResponse
  <1>2. /\ pc[c] = "wait" /\ pc'[c] = "reset"
        /\ outByte[c] # 0
        /\ ready' = ready
        /\ UNCHANGED <<req[c], outByte[c], outMsg[c], spc[c], sres[c]>>
    BY Types DEF RInv, SeeResponse
  <1>3. Answered(c)'
    BY <1>2 DEF RInv, IInv, Handshake, ServingOp, ServingClose, Answered, Executed, InCall, Received
  <1>4. ServiceStep
    <2>1. AbsPhase'[c] = AbsPhase[c] /\ AbsCall'[c] = AbsCall[c] /\ AbsAnswer'[c] = AbsAnswer[c]
      BY <1>2 DEF RInv, IInv, Handshake, ServingOp, ServingClose, AbsPhase, AbsCall, AbsAnswer,
         Executed, InCall, Received
    <2>2. UNCHANGED <<store, oks>>
      BY DEF SeeResponse
    <2> QED  BY <1>1, <2>1, <2>2, Unseen
  <1>5. Untouched'
    BY DEF RInv, Untouched, SeeResponse
  <1> QED  BY <1>1, <1>3, <1>4, <1>5, UndisturbedKeeps DEF RInv, Kept

LEMMA ResetOutStep == ASSUME RInv, NEW c \in Clients, ResetOut(c) PROVE Kept
  <1>1. ASSUME NEW d \in Clients, d # c PROVE Undisturbed(d)
    BY <1>1 DEF Undisturbed, ResetOut
  <1>2. /\ pc[c] = "reset" /\ pc'[c] = IF req[c].op = "c" THEN "detachIn" ELSE "parse"
        /\ outByte'[c] = 0
        /\ ready' = ready
        /\ UNCHANGED <<req[c], outMsg[c], spc[c], sres[c]>>
    BY Types DEF RInv, ResetOut, AfterReset
  <1>3. Answered(c)'
    BY <1>2 DEF RInv, Answered, Executed, InCall, Received
  <1>4. ServiceStep
    <2>1. AbsPhase'[c] = AbsPhase[c] /\ AbsCall'[c] = AbsCall[c] /\ AbsAnswer'[c] = AbsAnswer[c]
      BY <1>2, OpFacts DEF AbsPhase, AbsCall, AbsAnswer, Executed, InCall, Received
    <2>2. UNCHANGED <<store, oks>>
      BY DEF ResetOut
    <2> QED  BY <1>1, <2>1, <2>2, Unseen
  <1>5. Untouched'
    BY DEF RInv, Untouched, ResetOut
  <1> QED  BY <1>1, <1>3, <1>4, <1>5, UndisturbedKeeps DEF RInv, Kept

LEMMA ReturnStep == ASSUME RInv, NEW c \in Clients, Return(c) PROVE Kept
  <1>1. ASSUME NEW d \in Clients, d # c PROVE Undisturbed(d)
    BY <1>1 DEF Undisturbed, Return
  <1>2. /\ pc[c] = "parse" /\ pc'[c] = "idle"
        /\ req'[c] = NoCall
        /\ ready' = ready
        /\ UNCHANGED <<outByte[c], outMsg[c], spc[c], sres[c]>>
    BY Types DEF RInv, Return
  <1>3. Answered(c)'
    BY <1>2 DEF RInv, IInv, Handshake, Answered, Executed
  <1>4. ServiceStep
    <2>1. AbsPhase[c] = "done" /\ AbsCall[c] = req[c] /\ AbsAnswer[c] = Received(c)
      BY <1>2 DEF RInv, IInv, Handshake, Delivered, AbsPhase, AbsCall, AbsAnswer, Executed, InCall
    <2>2. AbsPhase'[c] = "idle" /\ AbsCall'[c] = NoCall /\ AbsAnswer'[c] = NoData
      BY <1>2, OpFacts DEF AbsPhase, AbsCall, AbsAnswer, Executed, InCall
    <2>3. /\ AbsPhase' = [AbsPhase EXCEPT ![c] = "idle"]
          /\ AbsCall' = [AbsCall EXCEPT ![c] = NoCall]
          /\ AbsAnswer' = [AbsAnswer EXCEPT ![c] = NoData]
      BY <1>1, <2>2, AbstractLocal
    <2>4. Received(c) # Missed
      <3>1. Executed(c) /\ spc[c] \notin {"write", "clear", "signal"}
        BY <1>2 DEF RInv, IInv, Handshake, Delivered, Executed, InCall
      <3> QED  BY <3>1, MissedIsNoResult DEF RInv, Answered
    <2>5. PICK n \in Counted(req[c], Received(c)) : oks' = [oks EXCEPT ![c] = @ + n]
      <3>1. CASE Status(req[c], Received(c)) = "kOK"
        BY <2>4, <3>1 DEF Return, Counted
      <3>2. CASE Status(req[c], Received(c)) # "kOK"
        <4>1. oks' = [oks EXCEPT ![c] = oks[c]]
          BY <3>2 DEF Return
        <4>2. oks[c] + 0 = oks[c]
          BY CountTypes DEF RInv
        <4> QED  BY <3>2, <4>1, <4>2 DEF Counted
      <3> QED  BY <3>1, <3>2
    <2>6. store' = store
      BY DEF Return
    <2>7. Service!Return(c)
      BY <2>1, <2>3, <2>5, <2>6, ServiceData DEF Service!Return
    <2> QED  BY <2>7 DEF ServiceStep, Service!Next
  <1>5. Untouched'
    BY DEF RInv, Untouched, Return
  <1> QED  BY <1>1, <1>3, <1>4, <1>5, UndisturbedKeeps DEF RInv, Kept

LEMMA DetachInStep == ASSUME RInv, NEW c \in Clients, DetachIn(c) PROVE Kept
  <1>1. ASSUME NEW d \in Clients, d # c PROVE Undisturbed(d)
    BY <1>1 DEF Undisturbed, DetachIn, Detach
  <1>2. /\ pc[c] = "detachIn" /\ pc'[c] = "detachOut"
        /\ ready' = ready
        /\ UNCHANGED <<req[c], outByte[c], outMsg[c], spc[c], sres[c]>>
    BY Types DEF RInv, DetachIn, Detach
  <1>3. Answered(c)'
    BY <1>2 DEF RInv, Answered, Executed, Received
  <1>4. ServiceStep
    <2>1. AbsPhase'[c] = AbsPhase[c] /\ AbsCall'[c] = AbsCall[c] /\ AbsAnswer'[c] = AbsAnswer[c]
      BY <1>2 DEF AbsPhase, AbsCall, AbsAnswer, Executed, InCall
    <2>2. UNCHANGED <<store, oks>>
      BY DEF DetachIn, Detach
    <2> QED  BY <1>1, <2>1, <2>2, Unseen
  <1>5. Untouched'
    BY DEF RInv, Untouched, DetachIn, Detach
  <1> QED  BY <1>1, <1>3, <1>4, <1>5, UndisturbedKeeps DEF RInv, Kept

LEMMA DetachOutStep == ASSUME RInv, NEW c \in Clients, DetachOut(c) PROVE Kept
  <1>1. ASSUME NEW d \in Clients, d # c PROVE Undisturbed(d)
    BY <1>1 DEF Undisturbed, DetachOut, Detach
  <1>2. /\ pc[c] = "detachOut" /\ pc'[c] = "release"
        /\ ready' = ready
        /\ UNCHANGED <<req[c], outByte[c], outMsg[c], spc[c], sres[c]>>
    BY Types DEF RInv, DetachOut, Detach
  <1>3. Answered(c)'
    BY <1>2 DEF RInv, Answered, Executed, Received
  <1>4. ServiceStep
    <2>1. AbsPhase'[c] = AbsPhase[c] /\ AbsCall'[c] = AbsCall[c] /\ AbsAnswer'[c] = AbsAnswer[c]
      BY <1>2 DEF AbsPhase, AbsCall, AbsAnswer, Executed, InCall
    <2>2. UNCHANGED <<store, oks>>
      BY DEF DetachOut, Detach
    <2> QED  BY <1>1, <2>1, <2>2, Unseen
  <1>5. Untouched'
    BY DEF RInv, Untouched, DetachOut, Detach
  <1> QED  BY <1>1, <1>3, <1>4, <1>5, UndisturbedKeeps DEF RInv, Kept

LEMMA DetachFailsStep == ASSUME RInv, NEW c \in Clients, DetachFails(c) PROVE Kept
  <1>1. ASSUME NEW d \in Clients, d # c PROVE Undisturbed(d)
    BY <1>1 DEF Undisturbed, DetachFails
  <1>2. /\ pc[c] \in {"detachIn", "detachOut"} /\ pc'[c] = "leaked"
        /\ ready' = ready
        /\ UNCHANGED <<req[c], outByte[c], outMsg[c], spc[c], sres[c]>>
    BY Types DEF RInv, DetachFails
  <1>3. Answered(c)'
    BY <1>2 DEF RInv, Answered, Executed, Received
  <1>4. ServiceStep
    <2>1. AbsPhase'[c] = AbsPhase[c] /\ AbsCall'[c] = AbsCall[c] /\ AbsAnswer'[c] = AbsAnswer[c]
      BY <1>2 DEF AbsPhase, AbsCall, AbsAnswer, Executed, InCall
    <2>2. UNCHANGED <<store, oks>>
      BY DEF DetachFails
    <2> QED  BY <1>1, <2>1, <2>2, Unseen
  <1>5. Untouched'
    BY DEF RInv, Untouched, DetachFails
  <1> QED  BY <1>1, <1>3, <1>4, <1>5, UndisturbedKeeps DEF RInv, Kept

LEMMA ReleaseWindowsStep == ASSUME RInv, NEW c \in Clients, ReleaseWindows(c) PROVE Kept
  <1>1. ASSUME NEW d \in Clients, d # c PROVE Undisturbed(d)
    BY <1>1 DEF Undisturbed, ReleaseWindows
  <1>2. /\ pc[c] = "release" /\ pc'[c] = "closed"
        /\ ready' = ready
        /\ UNCHANGED <<req[c], outByte[c], outMsg[c], spc[c], sres[c]>>
    BY Types DEF RInv, ReleaseWindows
  <1>3. Answered(c)'
    BY <1>2 DEF RInv, Answered, Executed, Received
  <1>4. ServiceStep
    <2>1. AbsPhase'[c] = AbsPhase[c] /\ AbsCall'[c] = AbsCall[c] /\ AbsAnswer'[c] = AbsAnswer[c]
      BY <1>2 DEF AbsPhase, AbsCall, AbsAnswer, Executed, InCall
    <2>2. UNCHANGED <<store, oks>>
      BY DEF ReleaseWindows
    <2> QED  BY <1>1, <2>1, <2>2, Unseen
  <1>5. Untouched'
    BY DEF RInv, Untouched, ReleaseWindows
  <1> QED  BY <1>1, <1>3, <1>4, <1>5, UndisturbedKeeps DEF RInv, Kept

LEMMA ServerStartStep == ASSUME RInv, NEW c \in Clients, ServerStart(c) PROVE Kept
  <1>1. ASSUME NEW d \in Clients, d # c PROVE Undisturbed(d)
    BY <1>1 DEF Undisturbed, ServerStart
  <1>2. /\ spc[c] = "start" /\ spc'[c] = "poll"
        /\ ready' = ready
        /\ UNCHANGED <<pc[c], req[c], outByte[c], outMsg[c], sres[c]>>
    BY Types DEF RInv, ServerStart
  <1>3. Answered(c)'
    BY <1>2 DEF RInv, Answered, Executed, InCall, Received
  <1>4. ServiceStep
    <2>1. AbsPhase'[c] = AbsPhase[c] /\ AbsCall'[c] = AbsCall[c] /\ AbsAnswer'[c] = AbsAnswer[c]
      BY <1>2 DEF AbsPhase, AbsCall, AbsAnswer, Executed, InCall, Received
    <2>2. UNCHANGED <<store, oks>>
      BY DEF ServerStart
    <2> QED  BY <1>1, <2>1, <2>2, Unseen
  <1>5. Untouched'
    BY DEF RInv, Untouched, ServerStart
  <1> QED  BY <1>1, <1>3, <1>4, <1>5, UndisturbedKeeps DEF RInv, Kept

LEMMA PollStep == ASSUME RInv, NEW c \in Clients, Poll(c) PROVE Kept
  <1>1. ASSUME NEW d \in Clients, d # c PROVE Undisturbed(d)
    BY <1>1 DEF Undisturbed, Poll
  <1>2. /\ inByte[c] # NUL
        /\ spc[c] = "poll" /\ spc'[c] \in {"ack", "parse"}
        /\ ready' = ready
        /\ UNCHANGED <<pc[c], req[c], outByte[c], outMsg[c], sres[c]>>
    BY Types DEF RInv, Poll, Dispatch
  <1>3. Answered(c)'
    BY <1>2 DEF RInv, Answered, Executed, InCall, Received
  <1>4. ServiceStep
    <2>1. AbsPhase'[c] = AbsPhase[c] /\ AbsCall'[c] = AbsCall[c] /\ AbsAnswer'[c] = AbsAnswer[c]
      BY <1>2 DEF AbsPhase, AbsCall, AbsAnswer, Executed, InCall, Received
    <2>2. UNCHANGED <<store, oks>>
      BY DEF Poll
    <2> QED  BY <1>1, <2>1, <2>2, Unseen
  <1>5. Untouched'
    BY DEF RInv, Untouched, Poll
  <1> QED  BY <1>1, <1>3, <1>4, <1>5, UndisturbedKeeps DEF RInv, Kept

LEMMA ParseStep == ASSUME RInv, NEW c \in Clients, Parse(c) PROVE Kept
  <1>1. ASSUME NEW d \in Clients, d # c PROVE Undisturbed(d)
    BY <1>1 DEF Undisturbed, Parse
  <1>2. /\ spc[c] = "parse" /\ spc'[c] = "exec"
        /\ ready' = ready
        /\ UNCHANGED <<pc[c], req[c], outByte[c], outMsg[c], sres[c]>>
    BY Types DEF RInv, Parse
  <1>3. Answered(c)'
    BY <1>2 DEF RInv, Answered, Executed, InCall, Received
  <1>4. ServiceStep
    <2>1. AbsPhase'[c] = AbsPhase[c] /\ AbsCall'[c] = AbsCall[c] /\ AbsAnswer'[c] = AbsAnswer[c]
      BY <1>2 DEF AbsPhase, AbsCall, AbsAnswer, Executed, InCall, Received
    <2>2. UNCHANGED <<store, oks>>
      BY DEF Parse
    <2> QED  BY <1>1, <2>1, <2>2, Unseen
  <1>5. Untouched'
    BY DEF RInv, Untouched, Parse
  <1> QED  BY <1>1, <1>3, <1>4, <1>5, UndisturbedKeeps DEF RInv, Kept

LEMMA ExecStep == ASSUME RInv, NEW c \in Clients, Exec(c) PROVE Kept
  <1>1. ASSUME NEW d \in Clients, d # c PROVE Undisturbed(d)
    BY <1>1 DEF Undisturbed, Exec
  <1>2. /\ spc[c] = "exec" /\ spc'[c] = IF sop[c] \in Queries THEN "write" ELSE "clear"
        /\ sres'[c] = Result(store, sreq[c])
        /\ store' = Effect(store, sreq[c]) /\ Succeeds(store, sreq[c])
        /\ oks' = oks /\ ready' = ready
        /\ UNCHANGED <<pc[c], req[c], outByte[c], outMsg[c]>>
    BY Types DEF RInv, Exec, AfterExec
  <1>3. Answered(c)'
    BY <1>2 DEF RInv, IInv, Dispatched, Result, Queries, Answered, Received
  <1>4. ServiceStep
    <2>1. pc[c] = "wait" /\ outByte[c] = 0 /\ req[c] \in Requests
      BY <1>2 DEF RInv, IInv, TypeOK, Handshake, ServingOp, ServingClose, Delivered
    <2>2. sreq[c] = req[c] /\ sop[c] = req[c].op
      BY <1>2 DEF RInv, IInv, Dispatched
    <2>3. /\ AbsPhase[c] = "pending" /\ AbsPhase'[c] = "done"
          /\ AbsCall[c] = req[c] /\ AbsCall'[c] = AbsCall[c]
      BY <1>2, <2>1 DEF AbsPhase, AbsCall, Executed, InCall
    <2>4. AbsAnswer'[c] = Answer(store, AbsCall[c])
      BY <1>2, <2>1, <2>2, <2>3 DEF AbsAnswer, Executed, InCall, Answer, Succeeds
    <2>5. /\ AbsPhase' = [AbsPhase EXCEPT ![c] = "done"]
          /\ AbsCall' = [AbsCall EXCEPT ![c] = AbsCall[c]]
          /\ AbsAnswer' = [AbsAnswer EXCEPT ![c] = Answer(store, AbsCall[c])]
      BY <1>1, <2>3, <2>4, AbstractLocal
    <2>6. AbsCall' = AbsCall
      BY <2>5, AbstractFunctions
    <2>7. Service!Apply(c)
      BY <1>2, <2>2, <2>3, <2>5, <2>6, ServiceData DEF Service!Apply, Succeeds
    <2> QED  BY <2>7 DEF ServiceStep, Service!Next
  <1>5. Untouched'
    BY <1>2 DEF RInv, IInv, Untouched, Answered, Handshake
  <1> QED  BY <1>1, <1>3, <1>4, <1>5, UndisturbedKeeps DEF RInv, Kept

LEMMA WriteResultStep == ASSUME RInv, NEW c \in Clients, WriteResult(c) PROVE Kept
  <1>1. ASSUME NEW d \in Clients, d # c PROVE Undisturbed(d)
    BY <1>1 DEF Undisturbed, WriteResult
  <1>2. /\ spc[c] = "write" /\ spc'[c] = "clear"
        /\ outMsg'[c] = sres[c]
        /\ ready' = ready
        /\ UNCHANGED <<pc[c], req[c], outByte[c], sres[c]>>
    BY Types DEF RInv, WriteResult
  <1>3. Answered(c)'
    BY <1>2 DEF RInv, IInv, Dispatched, Answered, Received
  <1>4. ServiceStep
    <2>1. AbsPhase'[c] = AbsPhase[c] /\ AbsCall'[c] = AbsCall[c] /\ AbsAnswer'[c] = AbsAnswer[c]
      BY <1>2 DEF AbsPhase, AbsCall, AbsAnswer, Executed, InCall
    <2>2. UNCHANGED <<store, oks>>
      BY DEF WriteResult
    <2> QED  BY <1>1, <2>1, <2>2, Unseen
  <1>5. Untouched'
    BY DEF RInv, Untouched, WriteResult
  <1> QED  BY <1>1, <1>3, <1>4, <1>5, UndisturbedKeeps DEF RInv, Kept

LEMMA ClearInStep == ASSUME RInv, NEW c \in Clients, ClearIn(c) PROVE Kept
  <1>1. ASSUME NEW d \in Clients, d # c PROVE Undisturbed(d)
    BY <1>1 DEF Undisturbed, ClearIn
  <1>2. /\ spc[c] = "clear" /\ spc'[c] = "signal"
        /\ ready' = ready
        /\ UNCHANGED <<pc[c], req[c], outByte[c], outMsg[c], sres[c]>>
    BY Types DEF RInv, ClearIn
  <1>3. Answered(c)'
    BY <1>2 DEF RInv, Answered, Received
  <1>4. ServiceStep
    <2>1. AbsPhase'[c] = AbsPhase[c] /\ AbsCall'[c] = AbsCall[c] /\ AbsAnswer'[c] = AbsAnswer[c]
      BY <1>2 DEF AbsPhase, AbsCall, AbsAnswer, Executed, InCall
    <2>2. UNCHANGED <<store, oks>>
      BY DEF ClearIn
    <2> QED  BY <1>1, <2>1, <2>2, Unseen
  <1>5. Untouched'
    BY DEF RInv, Untouched, ClearIn
  <1> QED  BY <1>1, <1>3, <1>4, <1>5, UndisturbedKeeps DEF RInv, Kept

LEMMA SignalStep == ASSUME RInv, NEW c \in Clients, Signal(c) PROVE Kept
  <1>1. ASSUME NEW d \in Clients, d # c PROVE Undisturbed(d)
    BY <1>1 DEF Undisturbed, Signal
  <1>2. /\ spc[c] = "signal" /\ spc'[c] = "poll"
        /\ outByte'[c] = 1
        /\ IsResult(sres[c])
        /\ ready' = ready
        /\ UNCHANGED <<pc[c], req[c], outMsg[c]>>
    BY DEF RInv, IInv, TypeOK, Signal, ResponseByte
  <1>3. Answered(c)'
    BY <1>2 DEF RInv, Answered, Received
  <1>4. ServiceStep
    <2>1. AbsPhase'[c] = AbsPhase[c] /\ AbsCall'[c] = AbsCall[c] /\ AbsAnswer'[c] = AbsAnswer[c]
      BY <1>2 DEF RInv, Answered, AbsPhase, AbsCall, AbsAnswer, Executed, InCall, Received
    <2>2. UNCHANGED <<store, oks>>
      BY DEF Signal
    <2> QED  BY <1>1, <2>1, <2>2, Unseen
  <1>5. Untouched'
    BY DEF RInv, Untouched, Signal
  <1> QED  BY <1>1, <1>3, <1>4, <1>5, UndisturbedKeeps DEF RInv, Kept

LEMMA AckCloseStep == ASSUME RInv, NEW c \in Clients, AckClose(c) PROVE Kept
  <1>1. ASSUME NEW d \in Clients, d # c PROVE Undisturbed(d)
    BY <1>1 DEF Undisturbed, AckClose
  <1>2. /\ spc[c] = "ack" /\ spc'[c] = "detachIn"
        /\ outByte'[c] = 1
        /\ ready' = ready
        /\ UNCHANGED <<pc[c], req[c], outMsg[c], sres[c]>>
    BY Types DEF RInv, AckClose, AfterAck, ResponseByte
  <1>3. Answered(c)'
    BY <1>2, OpFacts DEF RInv, IInv, Handshake, ServingOp, Answered, Executed, InCall
  <1>4. ServiceStep
    <2>1. AbsPhase'[c] = AbsPhase[c] /\ AbsCall'[c] = AbsCall[c] /\ AbsAnswer'[c] = AbsAnswer[c]
      BY <1>2, OpFacts DEF RInv, IInv, Handshake, ServingOp, AbsPhase, AbsCall, AbsAnswer,
         Executed, InCall
    <2>2. UNCHANGED <<store, oks>>
      BY DEF AckClose
    <2> QED  BY <1>1, <2>1, <2>2, Unseen
  <1>5. Untouched'
    BY DEF RInv, Untouched, AckClose
  <1> QED  BY <1>1, <1>3, <1>4, <1>5, UndisturbedKeeps DEF RInv, Kept

LEMMA ServerDetachInStep == ASSUME RInv, NEW c \in Clients, ServerDetachIn(c) PROVE Kept
  <1>1. ASSUME NEW d \in Clients, d # c PROVE Undisturbed(d)
    BY <1>1 DEF Undisturbed, ServerDetachIn, ServerDetach
  <1>2. /\ spc[c] = "detachIn" /\ spc'[c] = "detachOut"
        /\ ready' = ready
        /\ UNCHANGED <<pc[c], req[c], outByte[c], outMsg[c], sres[c]>>
    BY Types DEF RInv, ServerDetachIn, ServerDetach
  <1>3. Answered(c)'
    BY <1>2 DEF RInv, Answered, Executed, InCall, Received
  <1>4. ServiceStep
    <2>1. AbsPhase'[c] = AbsPhase[c] /\ AbsCall'[c] = AbsCall[c] /\ AbsAnswer'[c] = AbsAnswer[c]
      BY <1>2 DEF AbsPhase, AbsCall, AbsAnswer, Executed, InCall, Received
    <2>2. UNCHANGED <<store, oks>>
      BY DEF ServerDetachIn, ServerDetach
    <2> QED  BY <1>1, <2>1, <2>2, Unseen
  <1>5. Untouched'
    BY DEF RInv, Untouched, ServerDetachIn, ServerDetach
  <1> QED  BY <1>1, <1>3, <1>4, <1>5, UndisturbedKeeps DEF RInv, Kept

LEMMA ServerDetachOutStep == ASSUME RInv, NEW c \in Clients, ServerDetachOut(c) PROVE Kept
  <1>1. ASSUME NEW d \in Clients, d # c PROVE Undisturbed(d)
    BY <1>1 DEF Undisturbed, ServerDetachOut, ServerDetach
  <1>2. /\ spc[c] = "detachOut" /\ spc'[c] = "exited"
        /\ ready' = ready
        /\ UNCHANGED <<pc[c], req[c], outByte[c], outMsg[c], sres[c]>>
    BY Types DEF RInv, ServerDetachOut, ServerDetach
  <1>3. Answered(c)'
    BY <1>2 DEF RInv, Answered, Executed, InCall, Received
  <1>4. ServiceStep
    <2>1. AbsPhase'[c] = AbsPhase[c] /\ AbsCall'[c] = AbsCall[c] /\ AbsAnswer'[c] = AbsAnswer[c]
      BY <1>2 DEF AbsPhase, AbsCall, AbsAnswer, Executed, InCall, Received
    <2>2. UNCHANGED <<store, oks>>
      BY DEF ServerDetachOut, ServerDetach
    <2> QED  BY <1>1, <2>1, <2>2, Unseen
  <1>5. Untouched'
    BY DEF RInv, Untouched, ServerDetachOut, ServerDetach
  <1> QED  BY <1>1, <1>3, <1>4, <1>5, UndisturbedKeeps DEF RInv, Kept

\* Crashes, the end of the server included, are steps that the service does not
\* see: a call under way stays where it is.
LEMMA AloneStep ==
    ASSUME RInv, UNCHANGED <<store, cvars, svars, wvars>>, ready => ready'
    PROVE  Kept
  <1>1. ASSUME NEW d \in Clients PROVE Undisturbed(d)
    BY DEF Undisturbed
  <1>2. AbsPhase' = AbsPhase /\ AbsCall' = AbsCall /\ AbsAnswer' = AbsAnswer
    BY Unaffected DEF AbsPhase, AbsCall, AbsAnswer, Undisturbed
  <1> QED  BY <1>1, <1>2, UndisturbedKeeps DEF RInv, Untouched, Kept, ServiceStep, Service!vars

LEMMA RNext == RInv /\ [Next]_vars => RInv' /\ ServiceStep
  <1> SUFFICES ASSUME RInv, [Next]_vars PROVE Kept
    BY NextInv DEF RInv, Kept
  <1>1. CASE Main \/ Terminating \/ UNCHANGED vars
    BY <1>1, AloneStep DEF Main, CreateSchema, SchemaFails, ClientDies, Terminating, vars, RInv,
       Untouched
  <1>2. ASSUME NEW c \in Clients, ClientStep(c) PROVE Kept
    <2>1. CASE SpawnThrows(c)
      BY <2>1, AloneStep DEF SpawnThrows, Abort
    <2> QED
      BY <1>2, <2>1, InitConnStep, InitFailsStep, OpSpawnStep, SpawnRefusedStep, BeginOpStep,
         BeginOpThrowsStep, BeginCloseStep, NotifyStep, SeeResponseStep, ResetOutStep, ReturnStep,
         DetachInStep, DetachOutStep, DetachFailsStep, ReleaseWindowsStep DEF ClientStep
  <1>3. ASSUME NEW c \in Clients, ServerStep(c) PROVE Kept
    <2>1. CASE ExecThrows(c) \/ WriteThrows(c) \/ ServerFaults(c)
      BY <2>1, AloneStep DEF ExecThrows, WriteThrows, ServerFaults, Abort
    <2> QED
      BY <1>3, <2>1, ServerStartStep, PollStep, ParseStep, ExecStep, WriteResultStep, ClearInStep,
         SignalStep, AckCloseStep, ServerDetachInStep, ServerDetachOutStep DEF ServerStep
  <1> QED  BY <1>1, <1>2, <1>3 DEF Next

LEMMA RInit == Init => RInv /\ Service!Init
  <1> SUFFICES ASSUME Init PROVE RInv /\ Service!Init
    OBVIOUS
  <1>1. ASSUME NEW c \in Clients PROVE Answered(c)
    BY DEF Init, Answered, Executed
  <1>2. RInv
    BY <1>1, InitInv DEF Init, RInv, Untouched
  <1>3. \A d \in Clients : ~InCall(d) /\ pc[d] # "threw"
    BY OpFacts DEF Init, InCall
  <1>4. /\ AbsPhase = [c \in Clients |-> "idle"]
        /\ AbsCall = [c \in Clients |-> NoCall]
        /\ AbsAnswer = [c \in Clients |-> NoData]
    BY <1>3 DEF AbsPhase, AbsCall, AbsAnswer, Executed
  <1> QED  BY <1>2, <1>4, ServiceData DEF Init, Service!Init

-----------------------------------------------------------------------------
\* The shared-memory back end keeps the promise of ycsbc::DB: every call takes
\* effect at most once and at one instant between its invocation and its
\* return, and what the caller parses is the answer of that instant.
THEOREM Implements == Spec => ShmServiceSpec
  <1>1. RInv /\ [Next]_vars => [Service!Next]_(Service!vars)
    BY RNext DEF ServiceStep
  <1> QED  BY <1>1, RInit, RNext, PTL DEF Spec, ShmServiceSpec, Service!Spec
=============================================================================
