--------------------------- MODULE SqliteShmProof ---------------------------
(***************************************************************************)
(* The inductive invariant of SqliteShm and what follows from it, for any  *)
(* number of connections, requests and operations.                         *)
(*                                                                         *)
(* There is one lemma per action.  Each proves the parts of IInv that the  *)
(* action can disturb, connection by connection: typing, the handshake of  *)
(* the two notification bytes, the delivery of the client's request, what  *)
(* the server has dispatched, and the mappings.                            *)
(***************************************************************************)
EXTENDS SqliteShm, KVStoreProof

\* The opcodes of requests, of the close call and of no call are distinct.
LEMMA OpFacts ==
    /\ NoCall.op = "none"
    /\ CloseCall.op = "c"
    /\ NoCall \notin Requests
    /\ CloseCall \notin Requests
    /\ NoCall # CloseCall
    /\ \A r \in Requests : r.op \in {"r", "s", "i", "u", "d"}
  <1>1. NoCall.op = "none" /\ CloseCall.op = "c"
    BY DEF NoCall, CloseCall
  <1>2. ASSUME NEW r \in Requests PROVE r.op \in {"r", "s", "i", "u", "d"}
    BY ShmAssumption DEF Request
  <1> QED  BY <1>1, <1>2

USE DEF Client, Server, cvars, svars, wvars, mvars, NUL, Windows, Working, Leaving

LEMMA InitConnInv == ASSUME IInv, NEW c \in Clients, InitConn(c) PROVE IInv'
  <1>1. TypeOK'
    BY DEF IInv, TypeOK, InitConn, FreshByte
  <1>2. ASSUME NEW d \in Clients PROVE Handshake(d)'
    BY DEF IInv, InitConn, FreshByte, ServingOp, ServingClose, Handshake
  <1>3. ASSUME NEW d \in Clients PROVE Delivered(d)'
    BY DEF IInv, InitConn, Delivered
  <1>4. ASSUME NEW d \in Clients PROVE Dispatched(d)'
    BY DEF IInv, InitConn, Dispatched
  <1>5. ASSUME NEW d \in Clients PROVE Mapped(d)'
    BY DEF IInv, TypeOK, InitConn, Mapped
  <1> QED  BY <1>1, <1>2, <1>3, <1>4, <1>5 DEF IInv

LEMMA InitFailsInv == ASSUME IInv, NEW c \in Clients, InitFails(c) PROVE IInv'
  <1>1. TypeOK'
    BY DEF IInv, TypeOK, InitFails
  <1>2. ASSUME NEW d \in Clients PROVE Handshake(d)'
    BY DEF IInv, InitFails, ServingOp, ServingClose, Handshake
  <1>3. ASSUME NEW d \in Clients PROVE Delivered(d)'
    BY DEF IInv, InitFails, Delivered
  <1>4. ASSUME NEW d \in Clients PROVE Dispatched(d)'
    BY DEF IInv, InitFails, Dispatched
  <1>5. ASSUME NEW d \in Clients PROVE Mapped(d)'
    BY DEF IInv, InitFails, Mapped, Handshake
  <1> QED  BY <1>1, <1>2, <1>3, <1>4, <1>5 DEF IInv

LEMMA OpSpawnInv == ASSUME IInv, NEW c \in Clients, OpSpawn(c) PROVE IInv'
  <1>1. TypeOK'
    BY DEF IInv, TypeOK, OpSpawn
  <1>2. ASSUME NEW d \in Clients PROVE Handshake(d)'
    BY DEF IInv, TypeOK, OpSpawn, ServingOp, ServingClose, Handshake
  <1>3. ASSUME NEW d \in Clients PROVE Delivered(d)'
    BY DEF IInv, OpSpawn, Delivered
  <1>4. ASSUME NEW d \in Clients PROVE Dispatched(d)'
    BY DEF IInv, OpSpawn, Dispatched
  <1>5. ASSUME NEW d \in Clients PROVE Mapped(d)'
    BY DEF IInv, TypeOK, OpSpawn, Mapped
  <1> QED  BY <1>1, <1>2, <1>3, <1>4, <1>5 DEF IInv

LEMMA SpawnRefusedInv == ASSUME IInv, NEW c \in Clients, SpawnRefused(c) PROVE IInv'
  <1>1. TypeOK'
    BY DEF IInv, TypeOK, SpawnRefused
  <1>2. ASSUME NEW d \in Clients PROVE Handshake(d)'
    BY DEF IInv, SpawnRefused, ServingOp, ServingClose, Handshake
  <1>3. ASSUME NEW d \in Clients PROVE Delivered(d)'
    BY DEF IInv, SpawnRefused, Delivered
  <1>4. ASSUME NEW d \in Clients PROVE Dispatched(d)'
    BY DEF IInv, SpawnRefused, Dispatched
  <1>5. ASSUME NEW d \in Clients PROVE Mapped(d)'
    BY DEF IInv, SpawnRefused, Mapped
  <1> QED  BY <1>1, <1>2, <1>3, <1>4, <1>5 DEF IInv

LEMMA BeginOpInv == ASSUME IInv, NEW c \in Clients, BeginOp(c) PROVE IInv'
  <1>1. TypeOK'
    BY ShmAssumption DEF IInv, TypeOK, BeginOp, MoreCalls
  <1>2. ASSUME NEW d \in Clients PROVE Handshake(d)'
    BY DEF IInv, BeginOp, ServingOp, ServingClose, Handshake
  <1>3. ASSUME NEW d \in Clients PROVE Delivered(d)'
    BY ShmAssumption DEF IInv, TypeOK, BeginOp, Delivered
  <1>4. ASSUME NEW d \in Clients PROVE Dispatched(d)'
    BY DEF IInv, BeginOp, Dispatched, Handshake
  <1>5. ASSUME NEW d \in Clients PROVE Mapped(d)'
    BY DEF IInv, BeginOp, Mapped
  <1> QED  BY <1>1, <1>2, <1>3, <1>4, <1>5 DEF IInv

LEMMA BeginOpThrowsInv == ASSUME IInv, NEW c \in Clients, BeginOpThrows(c) PROVE IInv'
  <1>1. TypeOK'
    BY ShmAssumption DEF IInv, TypeOK, BeginOpThrows, MoreCalls
  <1>2. ASSUME NEW d \in Clients PROVE Handshake(d)'
    BY DEF IInv, BeginOpThrows, ServingOp, ServingClose, Handshake
  <1>3. ASSUME NEW d \in Clients PROVE Delivered(d)'
    BY OpFacts, ShmAssumption DEF IInv, TypeOK, BeginOpThrows, Delivered
  <1>4. ASSUME NEW d \in Clients PROVE Dispatched(d)'
    BY DEF IInv, BeginOpThrows, Dispatched
  <1>5. ASSUME NEW d \in Clients PROVE Mapped(d)'
    BY DEF IInv, BeginOpThrows, Mapped
  <1> QED  BY <1>1, <1>2, <1>3, <1>4, <1>5 DEF IInv

LEMMA BeginCloseInv == ASSUME IInv, NEW c \in Clients, BeginClose(c) PROVE IInv'
  <1>1. TypeOK'
    BY DEF IInv, TypeOK, BeginClose
  <1>2. ASSUME NEW d \in Clients PROVE Handshake(d)'
    BY DEF IInv, BeginClose, ServingOp, ServingClose, Handshake
  <1>3. ASSUME NEW d \in Clients PROVE Delivered(d)'
    BY OpFacts DEF IInv, TypeOK, BeginClose, Delivered
  <1>4. ASSUME NEW d \in Clients PROVE Dispatched(d)'
    BY DEF IInv, BeginClose, Dispatched, Handshake
  <1>5. ASSUME NEW d \in Clients PROVE Mapped(d)'
    BY DEF IInv, BeginClose, Mapped
  <1> QED  BY <1>1, <1>2, <1>3, <1>4, <1>5 DEF IInv

LEMMA NotifyInv == ASSUME IInv, NEW c \in Clients, Notify(c) PROVE IInv'
  <1>1. TypeOK'
    BY OpFacts DEF IInv, TypeOK, Notify, Delivered
  <1>2. ASSUME NEW d \in Clients PROVE Handshake(d)'
    BY OpFacts DEF IInv, TypeOK, Notify, ServingOp, ServingClose, Handshake
  <1>3. ASSUME NEW d \in Clients PROVE Delivered(d)'
    BY DEF IInv, Notify, Delivered
  <1>4. ASSUME NEW d \in Clients PROVE Dispatched(d)'
    BY DEF IInv, Notify, Dispatched
  <1>5. ASSUME NEW d \in Clients PROVE Mapped(d)'
    BY DEF IInv, Notify, Mapped
  <1> QED  BY <1>1, <1>2, <1>3, <1>4, <1>5 DEF IInv

LEMMA SeeResponseInv == ASSUME IInv, NEW c \in Clients, SeeResponse(c) PROVE IInv'
  <1>1. TypeOK'
    BY DEF IInv, TypeOK, SeeResponse
  <1>2. ASSUME NEW d \in Clients PROVE Handshake(d)'
    BY DEF IInv, SeeResponse, ServingOp, ServingClose, Handshake
  <1>3. ASSUME NEW d \in Clients PROVE Delivered(d)'
    BY DEF IInv, SeeResponse, Delivered
  <1>4. ASSUME NEW d \in Clients PROVE Dispatched(d)'
    BY DEF IInv, SeeResponse, Dispatched
  <1>5. ASSUME NEW d \in Clients PROVE Mapped(d)'
    BY DEF IInv, SeeResponse, Mapped
  <1> QED  BY <1>1, <1>2, <1>3, <1>4, <1>5 DEF IInv

LEMMA ResetOutInv == ASSUME IInv, NEW c \in Clients, ResetOut(c) PROVE IInv'
  <1>1. TypeOK'
    BY DEF IInv, TypeOK, ResetOut, AfterReset
  <1>2. ASSUME NEW d \in Clients PROVE Handshake(d)'
    BY OpFacts DEF IInv, TypeOK, ResetOut, AfterReset, ServingOp, ServingClose, Handshake
  <1>3. ASSUME NEW d \in Clients PROVE Delivered(d)'
    BY OpFacts DEF IInv, ResetOut, AfterReset, Delivered
  <1>4. ASSUME NEW d \in Clients PROVE Dispatched(d)'
    BY DEF IInv, ResetOut, Dispatched
  <1>5. ASSUME NEW d \in Clients PROVE Mapped(d)'
    BY DEF IInv, ResetOut, Mapped
  <1> QED  BY <1>1, <1>2, <1>3, <1>4, <1>5 DEF IInv

LEMMA ReturnInv == ASSUME IInv, NEW c \in Clients, Return(c) PROVE IInv'
  <1>1. TypeOK'
    BY ShmAssumption DEF IInv, TypeOK, Return, Delivered
  <1>2. ASSUME NEW d \in Clients PROVE Handshake(d)'
    BY DEF IInv, Return, ServingOp, ServingClose, Handshake
  <1>3. ASSUME NEW d \in Clients PROVE Delivered(d)'
    BY OpFacts, ShmAssumption DEF IInv, TypeOK, Return, Delivered
  <1>4. ASSUME NEW d \in Clients PROVE Dispatched(d)'
    BY DEF IInv, Return, Dispatched, Handshake
  <1>5. ASSUME NEW d \in Clients PROVE Mapped(d)'
    BY DEF IInv, Return, Mapped
  <1> QED  BY <1>1, <1>2, <1>3, <1>4, <1>5 DEF IInv

LEMMA DetachInInv == ASSUME IInv, NEW c \in Clients, DetachIn(c) PROVE IInv'
  <1>1. TypeOK'
    BY DEF IInv, TypeOK, DetachIn, Detach
  <1>2. ASSUME NEW d \in Clients PROVE Handshake(d)'
    BY DEF IInv, DetachIn, Detach, ServingOp, ServingClose, Handshake
  <1>3. ASSUME NEW d \in Clients PROVE Delivered(d)'
    BY DEF IInv, DetachIn, Detach, Delivered
  <1>4. ASSUME NEW d \in Clients PROVE Dispatched(d)'
    BY DEF IInv, DetachIn, Detach, Dispatched
  <1>5. ASSUME NEW d \in Clients PROVE Mapped(d)'
    BY DEF IInv, DetachIn, Detach, Mapped
  <1> QED  BY <1>1, <1>2, <1>3, <1>4, <1>5 DEF IInv

LEMMA DetachOutInv == ASSUME IInv, NEW c \in Clients, DetachOut(c) PROVE IInv'
  <1>1. TypeOK'
    BY DEF IInv, TypeOK, DetachOut, Detach
  <1>2. ASSUME NEW d \in Clients PROVE Handshake(d)'
    BY DEF IInv, DetachOut, Detach, ServingOp, ServingClose, Handshake
  <1>3. ASSUME NEW d \in Clients PROVE Delivered(d)'
    BY DEF IInv, DetachOut, Detach, Delivered
  <1>4. ASSUME NEW d \in Clients PROVE Dispatched(d)'
    BY DEF IInv, DetachOut, Detach, Dispatched
  <1>5. ASSUME NEW d \in Clients PROVE Mapped(d)'
    BY DEF IInv, DetachOut, Detach, Mapped
  <1> QED  BY <1>1, <1>2, <1>3, <1>4, <1>5 DEF IInv

LEMMA DetachFailsInv == ASSUME IInv, NEW c \in Clients, DetachFails(c) PROVE IInv'
  <1>1. TypeOK'
    BY DEF IInv, TypeOK, DetachFails
  <1>2. ASSUME NEW d \in Clients PROVE Handshake(d)'
    BY DEF IInv, DetachFails, ServingOp, ServingClose, Handshake
  <1>3. ASSUME NEW d \in Clients PROVE Delivered(d)'
    BY DEF IInv, DetachFails, Delivered
  <1>4. ASSUME NEW d \in Clients PROVE Dispatched(d)'
    BY DEF IInv, DetachFails, Dispatched
  <1>5. ASSUME NEW d \in Clients PROVE Mapped(d)'
    BY DEF IInv, DetachFails, Mapped
  <1> QED  BY <1>1, <1>2, <1>3, <1>4, <1>5 DEF IInv

LEMMA ReleaseWindowsInv == ASSUME IInv, NEW c \in Clients, ReleaseWindows(c) PROVE IInv'
  <1>1. TypeOK'
    BY DEF IInv, TypeOK, ReleaseWindows
  <1>2. ASSUME NEW d \in Clients PROVE Handshake(d)'
    BY DEF IInv, ReleaseWindows, ServingOp, ServingClose, Handshake
  <1>3. ASSUME NEW d \in Clients PROVE Delivered(d)'
    BY DEF IInv, ReleaseWindows, Delivered
  <1>4. ASSUME NEW d \in Clients PROVE Dispatched(d)'
    BY DEF IInv, ReleaseWindows, Dispatched
  <1>5. ASSUME NEW d \in Clients PROVE Mapped(d)'
    BY DEF IInv, TypeOK, ReleaseWindows, Mapped, Handshake
  <1> QED  BY <1>1, <1>2, <1>3, <1>4, <1>5 DEF IInv

LEMMA ServerStartInv == ASSUME IInv, NEW c \in Clients, ServerStart(c) PROVE IInv'
  <1>1. TypeOK'
    BY DEF IInv, TypeOK, ServerStart
  <1>2. ASSUME NEW d \in Clients PROVE Handshake(d)'
    BY DEF IInv, ServerStart, ServingOp, ServingClose, Handshake
  <1>3. ASSUME NEW d \in Clients PROVE Delivered(d)'
    BY DEF IInv, ServerStart, Delivered
  <1>4. ASSUME NEW d \in Clients PROVE Dispatched(d)'
    BY DEF IInv, ServerStart, Dispatched
  <1>5. ASSUME NEW d \in Clients PROVE Mapped(d)'
    BY DEF IInv, ServerStart, Mapped
  <1> QED  BY <1>1, <1>2, <1>3, <1>4, <1>5 DEF IInv

LEMMA PollInv == ASSUME IInv, NEW c \in Clients, Poll(c) PROVE IInv'
  <1>1. TypeOK'
    BY DEF IInv, TypeOK, Poll, Dispatch
  <1>2. ASSUME NEW d \in Clients PROVE Handshake(d)'
    BY OpFacts DEF IInv, Poll, Dispatch, ServingOp, ServingClose, Handshake, Delivered
  <1>3. ASSUME NEW d \in Clients PROVE Delivered(d)'
    BY DEF IInv, Poll, Delivered
  <1>4. ASSUME NEW d \in Clients PROVE Dispatched(d)'
    BY DEF IInv, TypeOK, Poll, Dispatch, Dispatched, Handshake, ServingOp, ServingClose
  <1>5. ASSUME NEW d \in Clients PROVE Mapped(d)'
    BY DEF IInv, Poll, Mapped
  <1> QED  BY <1>1, <1>2, <1>3, <1>4, <1>5 DEF IInv

LEMMA ParseInv == ASSUME IInv, NEW c \in Clients, Parse(c) PROVE IInv'
  <1>1. TypeOK'
    BY DEF IInv, TypeOK, Parse, Delivered, Handshake, ServingClose
  <1>2. ASSUME NEW d \in Clients PROVE Handshake(d)'
    BY DEF IInv, Parse, ServingOp, ServingClose, Handshake
  <1>3. ASSUME NEW d \in Clients PROVE Delivered(d)'
    BY DEF IInv, Parse, Delivered
  <1>4. ASSUME NEW d \in Clients PROVE Dispatched(d)'
    BY DEF IInv, TypeOK, Parse, Dispatched, Delivered, Handshake, ServingClose
  <1>5. ASSUME NEW d \in Clients PROVE Mapped(d)'
    BY DEF IInv, Parse, Mapped
  <1> QED  BY <1>1, <1>2, <1>3, <1>4, <1>5 DEF IInv

LEMMA ExecInv == ASSUME IInv, NEW c \in Clients, Exec(c) PROVE IInv'
  <1>1. TypeOK'
    <2>1. sreq[c] \in Request /\ store \in Table
      BY ShmAssumption DEF IInv, TypeOK, Exec, Dispatched, Delivered, Handshake, ServingClose
    <2>2. store' \in Table
      BY <2>1, EffectType DEF Exec
    <2>3. IsResult(sres'[c])
      BY <2>1, ResultType DEF Exec, IInv, TypeOK
    <2> QED  BY <2>2, <2>3 DEF IInv, TypeOK, Exec, AfterExec
  <1>2. ASSUME NEW d \in Clients PROVE Handshake(d)'
    BY DEF IInv, Exec, AfterExec, ServingOp, ServingClose, Handshake
  <1>3. ASSUME NEW d \in Clients PROVE Delivered(d)'
    BY DEF IInv, Exec, Delivered
  <1>4. ASSUME NEW d \in Clients PROVE Dispatched(d)'
    BY DEF IInv, Exec, AfterExec, Dispatched
  <1>5. ASSUME NEW d \in Clients PROVE Mapped(d)'
    BY DEF IInv, Exec, Mapped
  <1> QED  BY <1>1, <1>2, <1>3, <1>4, <1>5 DEF IInv

LEMMA WriteResultInv == ASSUME IInv, NEW c \in Clients, WriteResult(c) PROVE IInv'
  <1>1. TypeOK'
    BY DEF IInv, TypeOK, WriteResult
  <1>2. ASSUME NEW d \in Clients PROVE Handshake(d)'
    BY DEF IInv, WriteResult, ServingOp, ServingClose, Handshake
  <1>3. ASSUME NEW d \in Clients PROVE Delivered(d)'
    BY DEF IInv, WriteResult, Delivered
  <1>4. ASSUME NEW d \in Clients PROVE Dispatched(d)'
    BY DEF IInv, WriteResult, Dispatched
  <1>5. ASSUME NEW d \in Clients PROVE Mapped(d)'
    BY DEF IInv, WriteResult, Mapped
  <1> QED  BY <1>1, <1>2, <1>3, <1>4, <1>5 DEF IInv

LEMMA ClearInInv == ASSUME IInv, NEW c \in Clients, ClearIn(c) PROVE IInv'
  <1>1. TypeOK'
    BY DEF IInv, TypeOK, ClearIn, ResetByte
  <1>2. ASSUME NEW d \in Clients PROVE Handshake(d)'
    BY DEF IInv, TypeOK, ClearIn, ResetByte, ServingOp, ServingClose, Handshake
  <1>3. ASSUME NEW d \in Clients PROVE Delivered(d)'
    BY DEF IInv, ClearIn, Delivered
  <1>4. ASSUME NEW d \in Clients PROVE Dispatched(d)'
    BY DEF IInv, ClearIn, Dispatched
  <1>5. ASSUME NEW d \in Clients PROVE Mapped(d)'
    BY DEF IInv, ClearIn, Mapped
  <1> QED  BY <1>1, <1>2, <1>3, <1>4, <1>5 DEF IInv

LEMMA SignalInv == ASSUME IInv, NEW c \in Clients, Signal(c) PROVE IInv'
  <1>1. TypeOK'
    BY NoDataIsResult DEF IInv, TypeOK, Signal, ResponseByte
  <1>2. ASSUME NEW d \in Clients PROVE Handshake(d)'
    BY DEF IInv, TypeOK, Signal, ResponseByte, ServingOp, ServingClose, Handshake
  <1>3. ASSUME NEW d \in Clients PROVE Delivered(d)'
    BY DEF IInv, Signal, Delivered
  <1>4. ASSUME NEW d \in Clients PROVE Dispatched(d)'
    BY DEF IInv, TypeOK, Signal, Dispatched
  <1>5. ASSUME NEW d \in Clients PROVE Mapped(d)'
    BY DEF IInv, Signal, Mapped
  <1> QED  BY <1>1, <1>2, <1>3, <1>4, <1>5 DEF IInv

LEMMA AckCloseInv == ASSUME IInv, NEW c \in Clients, AckClose(c) PROVE IInv'
  <1>1. TypeOK'
    BY DEF IInv, TypeOK, AckClose, AfterAck, ResponseByte
  <1>2. ASSUME NEW d \in Clients PROVE Handshake(d)'
    BY DEF IInv, TypeOK, AckClose, AfterAck, ResponseByte, ServingOp, ServingClose, Handshake
  <1>3. ASSUME NEW d \in Clients PROVE Delivered(d)'
    BY DEF IInv, AckClose, Delivered
  <1>4. ASSUME NEW d \in Clients PROVE Dispatched(d)'
    BY DEF IInv, AckClose, AfterAck, Dispatched
  <1>5. ASSUME NEW d \in Clients PROVE Mapped(d)'
    BY DEF IInv, AckClose, Mapped
  <1> QED  BY <1>1, <1>2, <1>3, <1>4, <1>5 DEF IInv

LEMMA ServerDetachInInv == ASSUME IInv, NEW c \in Clients, ServerDetachIn(c) PROVE IInv'
  <1>1. TypeOK'
    BY DEF IInv, TypeOK, ServerDetachIn, ServerDetach
  <1>2. ASSUME NEW d \in Clients PROVE Handshake(d)'
    BY DEF IInv, ServerDetachIn, ServerDetach, ServingOp, ServingClose, Handshake
  <1>3. ASSUME NEW d \in Clients PROVE Delivered(d)'
    BY DEF IInv, ServerDetachIn, ServerDetach, Delivered
  <1>4. ASSUME NEW d \in Clients PROVE Dispatched(d)'
    BY DEF IInv, ServerDetachIn, ServerDetach, Dispatched
  <1>5. ASSUME NEW d \in Clients PROVE Mapped(d)'
    BY DEF IInv, ServerDetachIn, ServerDetach, Mapped
  <1> QED  BY <1>1, <1>2, <1>3, <1>4, <1>5 DEF IInv

LEMMA ServerDetachOutInv == ASSUME IInv, NEW c \in Clients, ServerDetachOut(c) PROVE IInv'
  <1>1. TypeOK'
    BY DEF IInv, TypeOK, ServerDetachOut, ServerDetach
  <1>2. ASSUME NEW d \in Clients PROVE Handshake(d)'
    BY DEF IInv, ServerDetachOut, ServerDetach, ServingOp, ServingClose, Handshake
  <1>3. ASSUME NEW d \in Clients PROVE Delivered(d)'
    BY DEF IInv, ServerDetachOut, ServerDetach, Delivered
  <1>4. ASSUME NEW d \in Clients PROVE Dispatched(d)'
    BY DEF IInv, ServerDetachOut, ServerDetach, Dispatched
  <1>5. ASSUME NEW d \in Clients PROVE Mapped(d)'
    BY DEF IInv, ServerDetachOut, ServerDetach, Mapped
  <1> QED  BY <1>1, <1>2, <1>3, <1>4, <1>5 DEF IInv


\* A crash of either process leaves the two windows as they are.
LEMMA AbortInv == ASSUME IInv, Abort PROVE IInv'
  <1>1. TypeOK'
    BY DEF IInv, TypeOK, Abort
  <1>2. ASSUME NEW d \in Clients PROVE Handshake(d)' /\ Delivered(d)' /\ Dispatched(d)'
    BY DEF IInv, Abort, Handshake, ServingOp, ServingClose, Delivered, Dispatched
  <1>3. ASSUME NEW d \in Clients PROVE Mapped(d)'
    BY DEF IInv, Abort, Mapped
  <1> QED  BY <1>1, <1>2, <1>3 DEF IInv

LEMMA MainInv == ASSUME IInv, Main PROVE IInv'
  <1>1. CASE CreateSchema
    <2>1. EmptyTable \in Table
      BY DEF EmptyTable, Table
    <2>2. TypeOK'
      BY <1>1, <2>1 DEF IInv, TypeOK, CreateSchema
    <2> QED
      BY <1>1, <2>2 DEF IInv, CreateSchema, Handshake, ServingOp, ServingClose, Delivered,
         Dispatched, Mapped
  <1>2. CASE SchemaFails
    <2>1. TypeOK'
      BY <1>2 DEF IInv, TypeOK, SchemaFails, Processes
    <2> QED
      BY <1>2, <2>1 DEF IInv, SchemaFails, Processes, Handshake, ServingOp, ServingClose,
         Delivered, Dispatched, Mapped
  <1>3. CASE ClientDies
    <2>1. TypeOK'
      BY <1>3 DEF IInv, TypeOK, ClientDies
    <2> QED
      BY <1>3, <2>1 DEF IInv, ClientDies, Handshake, ServingOp, ServingClose, Delivered,
         Dispatched, Mapped
  <1> QED  BY <1>1, <1>2, <1>3 DEF Main

LEMMA ClientInv == ASSUME IInv, NEW c \in Clients, ClientStep(c) PROVE IInv'
  <1>1. CASE SpawnThrows(c)
    BY <1>1, AbortInv DEF SpawnThrows
  <1> QED
    BY <1>1, InitConnInv, InitFailsInv, OpSpawnInv, SpawnRefusedInv, BeginOpInv, BeginOpThrowsInv,
       BeginCloseInv, NotifyInv, SeeResponseInv, ResetOutInv, ReturnInv, DetachInInv,
       DetachOutInv, DetachFailsInv, ReleaseWindowsInv DEF ClientStep

LEMMA ServerInv == ASSUME IInv, NEW c \in Clients, ServerStep(c) PROVE IInv'
  <1>1. CASE ExecThrows(c) \/ WriteThrows(c) \/ ServerFaults(c)
    BY <1>1, AbortInv DEF ExecThrows, WriteThrows, ServerFaults
  <1> QED
    BY <1>1, ServerStartInv, PollInv, ParseInv, ExecInv, WriteResultInv, ClearInInv, SignalInv,
       AckCloseInv, ServerDetachInInv, ServerDetachOutInv DEF ServerStep

LEMMA InitInv == Init => IInv
  <1> SUFFICES ASSUME Init PROVE IInv
    OBVIOUS
  <1>1. EmptyTable \in Table
    BY DEF EmptyTable, Table
  <1>2. TypeOK
    <2>1. NumOps \in 0 .. NumOps /\ 0 \in 0 .. NumOps
      BY ShmAssumption
    <2>2. left \in [Clients -> 0 .. NumOps] /\ oks \in [Clients -> 0 .. NumOps]
      BY <2>1 DEF Init
    <2> QED  BY <1>1, <2>2, NoDataIsResult DEF Init, TypeOK
  <1>3. ASSUME NEW c \in Clients PROVE Handshake(c) /\ Delivered(c) /\ Dispatched(c) /\ Mapped(c)
    BY OpFacts, ShmAssumption DEF Init, Handshake, Delivered, Dispatched, Mapped
  <1> QED  BY <1>2, <1>3 DEF IInv

LEMMA NextInv == IInv /\ [Next]_vars => IInv'
  <1> SUFFICES ASSUME IInv, [Next]_vars PROVE IInv'
    OBVIOUS
  <1>1. CASE Next
    <2>1. CASE Terminating
      BY <2>1 DEF Terminating, vars, IInv, TypeOK, Handshake, ServingOp, ServingClose, Delivered,
         Dispatched, Mapped
    <2> QED  BY <1>1, <2>1, MainInv, ClientInv, ServerInv DEF Next
  <1>2. CASE UNCHANGED vars
    BY <1>2 DEF vars, IInv, TypeOK, Handshake, ServingOp, ServingClose, Delivered, Dispatched,
       Mapped
  <1> QED  BY <1>1, <1>2

-----------------------------------------------------------------------------
\* The handshake invariant holds in every reachable state: the notification
\* bytes and the control states of the two threads of a connection determine
\* each other (IpcCltCtx::call, BenchServer::loop).
THEOREM HandshakeHolds == Spec => []IInv
  BY InitInv, NextInv, PTL DEF Spec

\* Variables keep their types and no thread makes more than num_ops calls.
THEOREM TypeCorrect == Spec => []TypeOK
  <1>1. IInv => TypeOK
    BY DEF IInv
  <1> QED  BY <1>1, HandshakeHolds, PTL

\* The plain stores to the notification bytes and the plain copies of messages
\* never conflict with an access of the other thread.
THEOREM RaceFree == Spec => []NoDataRace
  <1>1. IInv => NoDataRace
    <2> SUFFICES ASSUME IInv, NEW c \in Clients,
                        NEW a \in ClientTouches(c), NEW b \in ServerTouches(c),
                        a.loc = b.loc, a.write \/ b.write
                 PROVE  a.atomic /\ b.atomic
      BY DEF NoDataRace
    <2>1. ClientMay(c, a) /\ ServerMay(c, b)
      BY DEF ClientTouches, ServerTouches
    <2>2. CASE pc[c] = "idle"
      BY <2>1 DEF ClientMay, ServerMay, Access, IInv, Handshake
    <2>3. CASE pc[c] = "notify"
      BY <2>1 DEF ClientMay, ServerMay, Access, IInv, Handshake
    <2>4. CASE pc[c] = "wait"
      BY <2>1, <2>4 DEF ClientMay, ServerMay, Access
    <2>5. CASE pc[c] = "reset"
      BY <2>1 DEF ClientMay, ServerMay, Access, IInv, Handshake
    <2>6. CASE pc[c] = "parse"
      BY <2>1 DEF ClientMay, ServerMay, Access, IInv, Handshake
    <2> QED  BY <2>1, <2>2, <2>3, <2>4, <2>5, <2>6 DEF ClientMay
  <1> QED  BY <1>1, HandshakeHolds, PTL

\* No thread touches a window that its process has not mapped, or whose
\* dataspace Close has already deleted.
THEOREM AccessSafe == Spec => []NoStrayAccess
  <1>1. IInv => NoStrayAccess
    <2> SUFFICES ASSUME IInv, NEW c \in Clients
                 PROVE  /\ \A a \in ClientTouches(c) : Window(a.loc) \in cmap[c] \cap ds[c]
                        /\ \A b \in ServerTouches(c) : Window(b.loc) \in smap[c] \cap ds[c]
      BY DEF NoStrayAccess
    <2>1. ASSUME NEW a \in ClientTouches(c) PROVE Window(a.loc) \in cmap[c] \cap ds[c]
      <3>1. ClientMay(c, a)
        BY DEF ClientTouches
      <3>2. cmap[c] = Windows /\ ds[c] = Windows
        BY <3>1 DEF ClientMay, IInv, Mapped
      <3> QED  BY <3>2 DEF Window
    <2>2. ASSUME NEW b \in ServerTouches(c) PROVE Window(b.loc) \in smap[c] \cap ds[c]
      <3>1. ServerMay(c, b)
        BY DEF ServerTouches
      <3>2. smap[c] = Windows /\ ds[c] = Windows
        BY <3>1 DEF ServerMay, IInv, Mapped
      <3> QED  BY <3>2 DEF Window
    <2> QED  BY <2>1, <2>2
  <1> QED  BY <1>1, HandshakeHolds, PTL

\* A server thread works only on the request its client is blocked in.
THEOREM ServesCurrent == Spec => []ServesCurrentRequest
  <1>1. IInv => ServesCurrentRequest
    BY DEF IInv, TypeOK, ServesCurrentRequest, Handshake, Dispatched
  <1> QED  BY <1>1, HandshakeHolds, PTL
=============================================================================
