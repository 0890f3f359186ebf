--------------------------- MODULE SqliteIpcProof ---------------------------
(***************************************************************************)
(* SqliteIpc, for any number of connections, requests and operations, and  *)
(* with every fault: its safety properties, and that it implements         *)
(* DBService.                                                              *)
(*                                                                         *)
(* The inductive invariant follows the two things that pass through the    *)
(* main thread of the server.  The receive slots and the frame of op_spawn *)
(* belong to one connection from its spawn RPC to the reply (InFrame,      *)
(* Started), so the worker comes to hold its own windows and the client    *)
(* its own worker (Connected); from then on a call involves nobody else,   *)
(* and the states of client and worker determine each other (Asked, Busy,  *)
(* Answered) and the mappings (Mapped).  If the server is gone, only what  *)
(* the client does by itself is left to say.                               *)
(*                                                                         *)
(* One lemma per action shows that the connection it is about keeps its    *)
(* invariant, that the others are undisturbed, and which step of the       *)
(* service it is.                                                          *)
(***************************************************************************)
EXTENDS SqliteIpc, KVStoreProof

\* The worker has not yet told the main thread its gate.
Starting == {"copy", "construct", "publish", "send"}

\* The client has got the reply to its close RPC.
Leaving == {"detachIn", "detachOut", "release", "terminate", "closed"}

OwnWindows(c) == [i \in Windows |-> <<c, i>>]

\* Nobody writes before the schema is there.
Untouched == ready \/ store = EmptyTable

\* The frame of op_spawn exists while the main thread is in it.
InFrame ==
    /\ mpc = "loop" => frame = None
    /\ mpc # "loop" => frame \in Clients
    /\ mpc = "reply" => wpc[frame] = "serve" /\ gate = frame

\* What the main thread holds for the worker it has started, and what that
\* worker takes from it.
Started(w) ==
    /\ wpc[w] \in Starting => frame = w /\ mpc = "wait"
    /\ wpc[w] \in {"copy", "construct"} => slots = OwnWindows(w)
    /\ wpc[w] = "send" => gate = w
    /\ wpc[w] \notin {"none", "copy", "construct"} => win[w] = OwnWindows(w)
    /\ "server" \in alive =>
        /\ frame = w => pc[w] = "spawn"
        /\ pc[w] \in {"init", "spawn"} /\ wpc[w] # "none" => frame = w

\* The gate that a client holds.
Connected(c) ==
    /\ ready \/ pc[c] = "init"
    /\ bench[c] \in {None, c}
    /\ pc[c] \in {"init", "spawn"} => bench[c] = None
    /\ pc[c] \notin {"init", "spawn", "threw"} => bench[c] = c
    /\ bench[c] = c => wpc[c] \notin {"none"} \cup Starting
    /\ pc[c] \in {"idle", "parse"} => wpc[c] = "serve"

\* The request of a client, and that its worker is busy with no other.
Asked(c) ==
    /\ pc[c] \in {"init", "spawn", "idle", "threw"} => req[c] = NoCall
    /\ pc[c] = "rpc" => req[c] \in Requests \cup {CloseCall}
    /\ pc[c] = "parse" => req[c] \in Requests
    /\ pc[c] \in Leaving \cup {"leaked"} => req[c] = CloseCall
    /\ pc[c] = "rpc" /\ req[c] \in Requests => mem[<<c, "in">>] = req[c]

Busy(c) ==
    /\ wreq[c] # NoCall => wpc[c] \in {"exec", "write", "reply"}
    /\ "server" \in alive =>
        /\ wpc[c] \in {"parse", "exec", "write"} => pc[c] = "rpc" /\ req[c] \in Requests
        /\ wpc[c] \in {"detachIn", "detachOut"} => pc[c] = "rpc" /\ req[c] = CloseCall
        /\ wpc[c] = "reply" => pc[c] = "rpc"
        /\ wpc[c] \in {"exec", "write"} => wreq[c] = req[c]
        /\ wpc[c] = "reply" => wreq[c] = IF req[c] \in Requests THEN req[c] ELSE NoCall

\* Result vector and window at the time of the reply.
Answered(c) ==
    /\ "server" \in alive =>
        /\ wpc[c] \in {"parse", "exec", "write", "detachIn", "detachOut"} => wrc[c] = "ok"
        /\ wpc[c] = "write" => req[c].op \in Queries
        /\ wpc[c] = "reply" /\ req[c] \in Requests /\ wrc[c] = "ok" =>
            wres[c] = IF req[c].op \in Queries THEN mem[<<c, "out">>] ELSE NoData
    /\ pc[c] = "parse" /\ req[c].op \in Queries => IsResult(mem[<<c, "out">>])

\* The mappings.
Mapped(c) ==
    /\ "client" \in alive /\ pc[c] \in {"spawn", "idle", "rpc", "parse", "detachIn"} =>
        cmap[c] = Windows
    /\ pc[c] \in {"spawn", "idle", "rpc", "parse", "detachIn", "detachOut", "release"} =>
        <<c, "in">> \in ds /\ <<c, "out">> \in ds
    /\ pc[c] = "init" \/ "server" \notin alive => smap[c] = {}
    /\ "server" \in alive =>
        /\ \/ wpc[c] \in {"publish", "send", "parse", "exec", "write", "detachIn"}
           \/ wpc[c] = "serve" /\ pc[c] \in {"spawn", "idle", "rpc", "parse"}
           \/ wpc[c] = "reply" /\ req[c] \in Requests
           => smap[c] = Windows
        /\ wpc[c] = "detachOut" => smap[c] = {"out"}
        /\ wpc[c] = "reply" /\ req[c] = CloseCall => smap[c] = {} \/ wrc[c] = "einval"
        /\ pc[c] \in Leaving => smap[c] = {} \/ wrc[c] = "einval"

\* A call is counted once, when it has returned.
CountedOnce(c) ==
    left[c] + oks[c] + (IF req[c] \in Requests THEN 1 ELSE 0) <= NumOps

Connection(c) ==
    /\ Started(c)
    /\ Connected(c)
    /\ Asked(c)
    /\ Busy(c)
    /\ Answered(c)
    /\ Mapped(c)
    /\ CountedOnce(c)

\* The inductive invariant.
IInv == TypeOK /\ Untouched /\ InFrame /\ \A c \in Clients : Connection(c)

-----------------------------------------------------------------------------
(* Steps are local: what a step leaves alone keeps its invariant. *)

Undisturbed(d) ==
    /\ UNCHANGED <<pc[d], left[d], oks[d], req[d], bench[d],
                   wpc[d], win[d], smap[d], wreq[d], wres[d], wrc[d],
                   mem[<<d, "in">>], mem[<<d, "out">>]>>
    /\ ready => ready'
    /\ "server" \in alive' <=> "server" \in alive
    /\ "client" \in alive' => "client" \in alive /\ cmap'[d] = cmap[d]
    /\ <<d, "in">> \in ds => <<d, "in">> \in ds'
    /\ <<d, "out">> \in ds => <<d, "out">> \in ds'
    /\ UNCHANGED <<mpc, slots, frame, gate>> \/ (wpc[d] \notin Starting /\ frame # d /\ frame' # d)

LEMMA OpFacts ==
    /\ NoCall.op = "none"
    /\ CloseCall.op = "c"
    /\ NoCall \notin Requests
    /\ CloseCall \notin Requests
    /\ NoCall # CloseCall
    /\ \A r \in Requests : r.op \in {"r", "s", "i", "u", "d"}
  <1>1. NoCall.op = "none" /\ CloseCall.op = "c"
    BY DEF NoCall, CloseCall
  <1>2. ASSUME NEW r \in Requests PROVE r.op \in {"r", "s", "i", "u", "d"}
    BY IpcAssumption DEF Request
  <1> QED  BY <1>1, <1>2

LEMMA ConstFacts == NumOps \in Nat /\ None \notin Clients
  BY IpcAssumption

LEMMA FunctionUpdate ==
    ASSUME NEW S, NEW c \in S, NEW f, NEW g, NEW v,
           f = [d \in S |-> f[d]], g = [d \in S |-> g[d]],
           \A d \in S : d # c => g[d] = f[d], g[c] = v
    PROVE  g = [f EXCEPT ![c] = v]
  OBVIOUS

LEMMA AbstractFunctions ==
    /\ AbsPhase = [d \in Clients |-> AbsPhase[d]]
    /\ AbsCall = [d \in Clients |-> AbsCall[d]]
    /\ AbsAnswer = [d \in Clients |-> AbsAnswer[d]]
  BY DEF AbsPhase, AbsCall, AbsAnswer

LEMMA AbstractFunctionsAfter ==
    /\ AbsPhase' = [d \in Clients |-> AbsPhase'[d]]
    /\ AbsCall' = [d \in Clients |-> AbsCall'[d]]
    /\ AbsAnswer' = [d \in Clients |-> AbsAnswer'[d]]
  BY DEF AbsPhase, AbsCall, AbsAnswer

\* Seen through the refinement mapping, too, a connection changes only by its
\* own steps.
LEMMA AbstractLocal ==
    ASSUME IInv, NEW c \in Clients,
           \A d \in Clients : d # c => Undisturbed(d),
           NEW p, AbsPhase'[c] = p, NEW q, AbsCall'[c] = q, NEW a, AbsAnswer'[c] = a
    PROVE  /\ AbsPhase' = [AbsPhase EXCEPT ![c] = p]
           /\ AbsCall' = [AbsCall EXCEPT ![c] = q]
           /\ AbsAnswer' = [AbsAnswer EXCEPT ![c] = a]
  <1>1. ASSUME NEW d \in Clients, d # c
        PROVE  AbsPhase'[d] = AbsPhase[d] /\ AbsCall'[d] = AbsCall[d] /\ AbsAnswer'[d] = AbsAnswer[d]
    <2>1. Undisturbed(d) /\ Connected(d)
      BY <1>1 DEF IInv, Connection
    <2>2. InCall(d)' = InCall(d) /\ Received(d)' = Received(d)
      BY <2>1 DEF Undisturbed, InCall, Received
    <2>3. Executed(d)' = Executed(d)
      BY <2>1 DEF Undisturbed, Connected, Executed, ExecutedBy, InCall
    <2> QED  BY <2>1, <2>2, <2>3 DEF Undisturbed, Connected, AbsPhase, AbsCall, AbsAnswer
  <1>2. AbsPhase' = [AbsPhase EXCEPT ![c] = p]
    BY <1>1, AbstractFunctions, AbstractFunctionsAfter
  <1>3. AbsCall' = [AbsCall EXCEPT ![c] = q]
    BY <1>1, AbstractFunctions, AbstractFunctionsAfter
  <1>4. AbsAnswer' = [AbsAnswer EXCEPT ![c] = a]
    BY <1>1, AbstractFunctions, AbstractFunctionsAfter
  <1> QED  BY <1>2, <1>3, <1>4

\* DBService works on the same data.
LEMMA ServiceData ==
    /\ Service!NoCall = NoCall
    /\ Service!NoData = NoData
    /\ Service!EmptyTable = EmptyTable
    /\ \A tab, r : /\ Service!Effect(tab, r) = Effect(tab, r)
                   /\ Service!Answer(tab, r) = Answer(tab, r)
                   /\ Service!Conflicts(tab, r) = Conflicts(tab, r)
                   /\ Service!Counted(r, tab) = Counted(r, tab)
  <1>1. Service!NoCall = NoCall /\ Service!NoData = NoData /\ Service!EmptyTable = EmptyTable
    BY DEF Service!NoCall, NoCall, Service!NoData, NoData, Service!EmptyTable, EmptyTable
  <1>2. ASSUME NEW tab, NEW r
        PROVE  Service!Effect(tab, r) = Effect(tab, r)
    BY DEF Service!Effect, Effect, Service!Written, Written, Service!Overwrite, Overwrite,
       Service!Writes, Writes
  <1>3. ASSUME NEW tab, NEW r
        PROVE  Service!Conflicts(tab, r) = Conflicts(tab, r)
    BY DEF Service!Conflicts, Conflicts, Service!Present, Present
  <1>. \A S : Service!Cardinality(S) = Cardinality(S)
    BY DEF Service!Cardinality, Cardinality
  <1>4. ASSUME NEW tab, NEW r
        PROVE  Service!Answer(tab, r) = Answer(tab, r)
    <2>1. Service!Present(tab) = Present(tab)
      BY DEF Service!Present, Present
    <2>2. Service!ScanKeys(tab, r.key, r.len) = ScanKeys(tab, r.key, r.len)
      BY <2>1 DEF Service!ScanKeys, ScanKeys
    <2>3. \A k : Service!Cells(tab, k, r.fields) = Cells(tab, k, r.fields)
      BY DEF Service!Cells, Cells, Service!Selected, Selected, Service!Columns, Columns,
         Service!KeyCol, KeyCol
    <2>4. \A k : Service!ScanRow(tab, k, r.fields) = ScanRow(tab, k, r.fields)
      BY <2>3 DEF Service!ScanRow, ScanRow, Service!Padding, Padding,
         Service!Columns, Columns, Service!KeyCol, KeyCol
    <2> QED  BY <1>1, <2>1, <2>2, <2>3, <2>4 DEF Service!Answer, Answer, Service!Misses, Misses,
         Service!Missed, Missed, Service!Result, Result
  <1>5. ASSUME NEW r, NEW res
        PROVE  Service!Counted(r, res) = Counted(r, res)
    BY DEF Service!Counted, Counted, Service!Missed, Missed, Service!Status, Status
  <1> QED  BY <1>1, <1>2, <1>3, <1>4, <1>5

\* What one step of the connection is to the service.
ServiceStep == Service!Next \/ UNCHANGED Service!vars

LEMMA MissedIsNoResult == ~IsResult(Missed)
  BY DEF IsResult, Missed, NoData

LEMMA Stutters ==
    ASSUME IInv, NEW c \in Clients,
           \A d \in Clients : d # c => Undisturbed(d),
           AbsPhase'[c] = AbsPhase[c], AbsCall'[c] = AbsCall[c], AbsAnswer'[c] = AbsAnswer[c],
           UNCHANGED <<store, oks>>
    PROVE  UNCHANGED Service!vars
  <1>1. /\ AbsPhase' = [AbsPhase EXCEPT ![c] = AbsPhase[c]]
        /\ AbsCall' = [AbsCall EXCEPT ![c] = AbsCall[c]]
        /\ AbsAnswer' = [AbsAnswer EXCEPT ![c] = AbsAnswer[c]]
    BY AbstractLocal
  <1> QED  BY <1>1, AbstractFunctions DEF Service!vars

LEMMA Throws ==
    ASSUME IInv, NEW c \in Clients,
           \A d \in Clients : d # c => Undisturbed(d),
           pc[c] # "threw", pc'[c] = "threw", req'[c] = NoCall,
           UNCHANGED <<store, oks>>
    PROVE  Service!Next
  <1>1. AbsPhase[c] # "thrown" /\ AbsPhase'[c] = "thrown"
    BY DEF AbsPhase
  <1>2. AbsCall'[c] = NoCall /\ AbsAnswer'[c] = NoData
    BY DEF AbsCall, AbsAnswer, Executed
  <1>3. /\ AbsPhase' = [AbsPhase EXCEPT ![c] = "thrown"]
        /\ AbsCall' = [AbsCall EXCEPT ![c] = NoCall]
        /\ AbsAnswer' = [AbsAnswer EXCEPT ![c] = NoData]
    BY <1>1, <1>2, AbstractLocal
  <1>4. Service!Throw(c)
    BY <1>1, <1>3, ServiceData DEF Service!Throw
  <1> QED  BY <1>4 DEF Service!Next

LEMMA UndisturbedKeeps ==
    ASSUME NEW d \in Clients, Connection(d), Undisturbed(d)
    PROVE  Connection(d)'
  <1>1. Started(d)'
    BY DEF Connection, Started, Undisturbed, Starting
  <1>2. Connected(d)'
    BY DEF Connection, Connected, Undisturbed
  <1>3. Asked(d)'
    BY DEF Connection, Asked, Undisturbed
  <1>4. Busy(d)'
    BY DEF Connection, Busy, Undisturbed
  <1>5. Answered(d)'
    BY DEF Connection, Answered, Undisturbed
  <1>6. Mapped(d)'
    BY DEF Connection, Mapped, Undisturbed
  <1>7. CountedOnce(d)'
    BY DEF Connection, CountedOnce, Undisturbed
  <1> QED  BY <1>1, <1>2, <1>3, <1>4, <1>5, <1>6, <1>7 DEF Connection

LEMMA Types ==
    IInv => /\ \A f \in {pc, left, oks, req, bench, cmap, wpc, win, smap, wreq, wres, wrc} :
                DOMAIN f = Clients
            /\ DOMAIN mem = Spaces
  BY DEF IInv, TypeOK

LEMMA CountTypes ==
    IInv => \A c \in Clients : left[c] \in Nat /\ oks[c] \in Nat
  BY DEF IInv, TypeOK

USE DEF Client, Main, Worker, cvars, mvars, wvars, Windows, Processes, Spaces

LEMMA InitConnInv == ASSUME IInv, NEW c \in Clients, InitConn(c) PROVE IInv' /\ ServiceStep
  <1>1. TypeOK'
    BY DEF IInv, TypeOK, InitConn
  <1>2. InFrame' /\ Untouched'
    BY DEF IInv, Untouched, InFrame, InitConn
  <1>3. ASSUME NEW d \in Clients, d # c PROVE Undisturbed(d)
    BY <1>3 DEF Undisturbed, InitConn
  <1>4. /\ "client" \in alive
        /\ pc[c] = "init"
        /\ ready
        /\ pc'[c] = "spawn"
        /\ cmap'[c] = Windows
        /\ <<c, "in">> \in ds' /\ <<c, "out">> \in ds'
        /\ UNCHANGED <<left[c], oks[c], req[c], bench[c], wpc[c], win[c], smap[c],
                       wreq[c], wres[c], wrc[c], mpc, slots, frame, gate, alive,
                       ready, mem[<<c, "in">>], mem[<<c, "out">>]>>
    BY Types DEF InitConn, MayStart
  <1>5. Connection(c)'
    <2>. Connection(c)
      BY DEF IInv
    <2>1. Started(c)'
      BY <1>4 DEF Connection, Started
    <2>2. Connected(c)'
      BY <1>4 DEF Connection, Connected
    <2>3. Asked(c)'
      BY <1>4 DEF Connection, Asked, Leaving
    <2>4. Busy(c)'
      BY <1>4 DEF Connection, Busy
    <2>5. Answered(c)'
      BY <1>4 DEF Connection, Answered
    <2>6. Mapped(c)'
      BY <1>4 DEF Connection, Started, Mapped
    <2>7. CountedOnce(c)'
      BY <1>4 DEF Connection, CountedOnce
    <2> QED  BY <2>1, <2>2, <2>3, <2>4, <2>5, <2>6, <2>7 DEF Connection
  <1>6. ServiceStep
    <2>1. AbsPhase'[c] = AbsPhase[c] /\ AbsCall'[c] = AbsCall[c] /\ AbsAnswer'[c] = AbsAnswer[c]
      BY <1>4 DEF AbsPhase, AbsCall, AbsAnswer, Executed, InCall
    <2>2. UNCHANGED <<store, oks>>
      BY DEF InitConn
    <2> QED  BY <1>3, <2>1, <2>2, Stutters DEF ServiceStep
  <1> QED  BY <1>1, <1>2, <1>3, <1>5, <1>6, UndisturbedKeeps DEF IInv

LEMMA InitFailsInv == ASSUME IInv, NEW c \in Clients, InitFails(c) PROVE IInv' /\ ServiceStep
  <1>1. TypeOK'
    BY DEF IInv, TypeOK, InitFails
  <1>2. InFrame' /\ Untouched'
    BY DEF IInv, Untouched, InFrame, InitFails
  <1>3. ASSUME NEW d \in Clients, d # c PROVE Undisturbed(d)
    BY <1>3 DEF Undisturbed, InitFails
  <1>4. /\ "client" \in alive
        /\ pc[c] = "init"
        /\ ready
        /\ pc'[c] = "threw"
        /\ TRUE
        /\ UNCHANGED <<left[c], oks[c], req[c], bench[c], wpc[c], win[c], smap[c],
                       wreq[c], wres[c], wrc[c], mpc, slots, frame, gate, alive,
                       ready, mem[<<c, "in">>], mem[<<c, "out">>]>>
    BY Types DEF InitFails, MayStart
  <1>5. Connection(c)'
    <2>. Connection(c)
      BY DEF IInv
    <2>1. Started(c)'
      BY <1>4 DEF Connection, Started
    <2>2. Connected(c)'
      BY <1>4 DEF Connection, Connected
    <2>3. Asked(c)'
      BY <1>4 DEF Connection, Asked, Leaving
    <2>4. Busy(c)'
      BY <1>4 DEF Connection, Busy
    <2>5. Answered(c)'
      BY <1>4 DEF Connection, Answered
    <2>6. Mapped(c)'
      BY <1>4 DEF Connection, Mapped
    <2>7. CountedOnce(c)'
      BY <1>4 DEF Connection, CountedOnce
    <2> QED  BY <2>1, <2>2, <2>3, <2>4, <2>5, <2>6, <2>7 DEF Connection
  <1>6. ServiceStep
    <2>1. UNCHANGED <<store, oks>> /\ req'[c] = NoCall
      BY DEF InitFails, IInv, Connection, Asked
    <2> QED  BY <1>3, <1>4, <2>1, Throws DEF ServiceStep
  <1> QED  BY <1>1, <1>2, <1>3, <1>5, <1>6, UndisturbedKeeps DEF IInv

LEMMA OpSpawnInv == ASSUME IInv, NEW c \in Clients, OpSpawn(c) PROVE IInv' /\ ServiceStep
  <1>1. TypeOK'
    BY DEF IInv, TypeOK, OpSpawn, AfterCreate
  <1>2. InFrame' /\ Untouched'
    BY DEF IInv, Untouched, InFrame, OpSpawn, AfterCreate
  <1>3. ASSUME NEW d \in Clients, d # c PROVE Undisturbed(d)
    BY <1>3, ConstFacts DEF Undisturbed, IInv, InFrame, Connection, Started, OpSpawn
  <1>4. /\ pc[c] = "spawn"
        /\ mpc = "loop"
        /\ wpc[c] = "none"
        /\ wpc'[c] = "copy"
        /\ mpc' = "wait" /\ slots' = OwnWindows(c) /\ frame' = c /\ gate' = None
        /\ UNCHANGED <<pc[c], left[c], oks[c], req[c], bench[c], cmap[c], win[c],
                       smap[c], wreq[c], wres[c], wrc[c], alive, ready, mem[<<c,
                       "in">>], mem[<<c, "out">>], ds>>
    BY Types, ConstFacts DEF IInv, InFrame, Connection, Started, OwnWindows, OpSpawn, AfterCreate
  <1>5. Connection(c)'
    <2>. Connection(c)
      BY DEF IInv
    <2>1. Started(c)'
      BY <1>4 DEF Started
    <2>2. Connected(c)'
      BY <1>4 DEF Connection, Connected
    <2>3. Asked(c)'
      BY <1>4 DEF Connection, Asked
    <2>4. Busy(c)'
      BY <1>4 DEF Connection, Busy
    <2>5. Answered(c)'
      BY <1>4 DEF Answered
    <2>6. Mapped(c)'
      BY <1>4 DEF Connection, Mapped
    <2>7. CountedOnce(c)'
      BY <1>4 DEF Connection, CountedOnce
    <2> QED  BY <2>1, <2>2, <2>3, <2>4, <2>5, <2>6, <2>7 DEF Connection
  <1>6. ServiceStep
    <2>1. AbsPhase'[c] = AbsPhase[c] /\ AbsCall'[c] = AbsCall[c] /\ AbsAnswer'[c] = AbsAnswer[c]
      BY <1>4 DEF AbsPhase, AbsCall, AbsAnswer, Executed, InCall
    <2>2. UNCHANGED <<store, oks>>
      BY DEF OpSpawn
    <2> QED  BY <1>3, <2>1, <2>2, Stutters DEF ServiceStep
  <1> QED  BY <1>1, <1>2, <1>3, <1>5, <1>6, UndisturbedKeeps DEF IInv

LEMMA SpawnRefusedInv == ASSUME IInv, NEW c \in Clients, SpawnRefused(c) PROVE IInv' /\ ServiceStep
  <1>1. TypeOK'
    BY DEF IInv, TypeOK, SpawnRefused
  <1>2. InFrame' /\ Untouched'
    BY DEF IInv, Untouched, InFrame, SpawnRefused
  <1>3. ASSUME NEW d \in Clients, d # c PROVE Undisturbed(d)
    BY <1>3 DEF Undisturbed, SpawnRefused
  <1>4. /\ pc[c] = "spawn"
        /\ mpc = "loop"
        /\ frame = None
        /\ pc'[c] = "threw"
        /\ UNCHANGED <<left[c], oks[c], req[c], bench[c], cmap[c], wpc[c], win[c],
                       smap[c], wreq[c], wres[c], wrc[c], mpc, slots, frame, gate,
                       alive, ready, mem[<<c, "in">>], mem[<<c, "out">>], ds>>
    BY Types DEF IInv, InFrame, SpawnRefused
  <1>5. Connection(c)'
    <2>. Connection(c)
      BY DEF IInv
    <2>1. Started(c)'
      BY <1>4, ConstFacts DEF Connection, Started
    <2>2. Connected(c)'
      BY <1>4 DEF Connection, Connected
    <2>3. Asked(c)'
      BY <1>4 DEF Connection, Asked, Leaving
    <2>4. Busy(c)'
      BY <1>4 DEF Connection, Busy
    <2>5. Answered(c)'
      BY <1>4 DEF Connection, Answered
    <2>6. Mapped(c)'
      BY <1>4 DEF Connection, Mapped, Leaving
    <2>7. CountedOnce(c)'
      BY <1>4 DEF Connection, CountedOnce
    <2> QED  BY <2>1, <2>2, <2>3, <2>4, <2>5, <2>6, <2>7 DEF Connection
  <1>6. ServiceStep
    <2>1. UNCHANGED <<store, oks>> /\ req'[c] = NoCall
      BY DEF SpawnRefused, IInv, Connection, Asked
    <2> QED  BY <1>3, <1>4, <2>1, Throws DEF ServiceStep
  <1> QED  BY <1>1, <1>2, <1>3, <1>5, <1>6, UndisturbedKeeps DEF IInv

LEMMA CopyArgsInv == ASSUME IInv, NEW c \in Clients, CopyArgs(c) PROVE IInv' /\ ServiceStep
  <1>1. TypeOK'
    BY DEF IInv, TypeOK, CopyArgs
  <1>2. InFrame' /\ Untouched'
    BY DEF IInv, Untouched, InFrame, CopyArgs
  <1>3. ASSUME NEW d \in Clients, d # c PROVE Undisturbed(d)
    BY <1>3 DEF Undisturbed, CopyArgs
  <1>4. /\ "server" \in alive
        /\ wpc[c] = "copy"
        /\ wpc'[c] = "construct"
        /\ UNCHANGED <<pc[c], left[c], oks[c], req[c], bench[c], cmap[c], win[c],
                       smap[c], wreq[c], wres[c], wrc[c], mpc, slots, frame, gate,
                       alive, ready, mem[<<c, "in">>], mem[<<c, "out">>], ds>>
    BY Types DEF CopyArgs
  <1>5. Connection(c)'
    <2>. Connection(c)
      BY DEF IInv
    <2>1. Started(c)'
      BY <1>4 DEF Connection, Started, Starting
    <2>2. Connected(c)'
      BY <1>4 DEF Connection, Connected, Starting
    <2>3. Asked(c)'
      BY <1>4 DEF Connection, Asked
    <2>4. Busy(c)'
      BY <1>4 DEF Connection, Busy
    <2>5. Answered(c)'
      BY <1>4 DEF Connection, Answered
    <2>6. Mapped(c)'
      BY <1>4 DEF Connection, Mapped
    <2>7. CountedOnce(c)'
      BY <1>4 DEF Connection, CountedOnce
    <2> QED  BY <2>1, <2>2, <2>3, <2>4, <2>5, <2>6, <2>7 DEF Connection
  <1>6. ServiceStep
    <2>1. AbsPhase'[c] = AbsPhase[c] /\ AbsCall'[c] = AbsCall[c] /\ AbsAnswer'[c] = AbsAnswer[c]
      BY <1>4 DEF IInv, Connection, Connected, AbsPhase, AbsCall, AbsAnswer, Executed, ExecutedBy,
         InCall
    <2>2. UNCHANGED <<store, oks>>
      BY DEF CopyArgs
    <2> QED  BY <1>3, <2>1, <2>2, Stutters DEF ServiceStep
  <1> QED  BY <1>1, <1>2, <1>3, <1>5, <1>6, UndisturbedKeeps DEF IInv

LEMMA ConstructInv == ASSUME IInv, NEW c \in Clients, Construct(c) PROVE IInv' /\ ServiceStep
  <1>1. TypeOK'
    BY DEF IInv, TypeOK, Construct, Moved
  <1>2. InFrame' /\ Untouched'
    BY DEF IInv, Untouched, InFrame, Construct
  <1>3. ASSUME NEW d \in Clients, d # c PROVE Undisturbed(d)
    BY <1>3 DEF Undisturbed, IInv, Connection, Started, Starting, Construct
  <1>4. /\ "server" \in alive
        /\ wpc[c] = "construct"
        /\ wpc'[c] = "publish"
        /\ win'[c] = OwnWindows(c)
        /\ smap'[c] = Windows
        /\ UNCHANGED <<pc[c], left[c], oks[c], req[c], bench[c], cmap[c], wreq[c],
                       wres[c], wrc[c], mpc, frame, gate, alive, ready, mem[<<c,
                       "in">>], mem[<<c, "out">>], ds>>
    BY Types DEF IInv, Connection, Started, Construct, Moved
  <1>5. Connection(c)'
    <2>. Connection(c)
      BY DEF IInv
    <2>1. Started(c)'
      BY <1>4 DEF Connection, Started, Starting
    <2>2. Connected(c)'
      BY <1>4 DEF Connection, Connected, Starting
    <2>3. Asked(c)'
      BY <1>4 DEF Connection, Asked
    <2>4. Busy(c)'
      BY <1>4 DEF Connection, Busy
    <2>5. Answered(c)'
      BY <1>4 DEF Connection, Answered
    <2>6. Mapped(c)'
      BY <1>4 DEF Connection, Started, Mapped, Leaving, Starting
    <2>7. CountedOnce(c)'
      BY <1>4 DEF Connection, CountedOnce
    <2> QED  BY <2>1, <2>2, <2>3, <2>4, <2>5, <2>6, <2>7 DEF Connection
  <1>6. ServiceStep
    <2>1. AbsPhase'[c] = AbsPhase[c] /\ AbsCall'[c] = AbsCall[c] /\ AbsAnswer'[c] = AbsAnswer[c]
      BY <1>4 DEF IInv, Connection, Connected, AbsPhase, AbsCall, AbsAnswer, Executed, ExecutedBy,
         InCall
    <2>2. UNCHANGED <<store, oks>>
      BY DEF Construct
    <2> QED  BY <1>3, <2>1, <2>2, Stutters DEF ServiceStep
  <1> QED  BY <1>1, <1>2, <1>3, <1>5, <1>6, UndisturbedKeeps DEF IInv

LEMMA PublishInv == ASSUME IInv, NEW c \in Clients, Publish(c) PROVE IInv' /\ ServiceStep
  <1>1. TypeOK'
    BY DEF IInv, TypeOK, Publish
  <1>2. InFrame' /\ Untouched'
    BY DEF IInv, Untouched, InFrame, Connection, Started, Starting, Publish
  <1>3. ASSUME NEW d \in Clients, d # c PROVE Undisturbed(d)
    BY <1>3 DEF Undisturbed, IInv, Connection, Started, Starting, Publish
  <1>4. /\ "server" \in alive
        /\ wpc[c] = "publish"
        /\ wpc'[c] = "send"
        /\ gate' = c
        /\ UNCHANGED <<pc[c], left[c], oks[c], req[c], bench[c], cmap[c], win[c],
                       smap[c], wreq[c], wres[c], wrc[c], mpc, slots, frame, alive,
                       ready, mem[<<c, "in">>], mem[<<c, "out">>], ds>>
    BY Types DEF Publish
  <1>5. Connection(c)'
    <2>. Connection(c)
      BY DEF IInv
    <2>1. Started(c)'
      BY <1>4 DEF Connection, Started, Starting
    <2>2. Connected(c)'
      BY <1>4 DEF Connection, Connected, Starting
    <2>3. Asked(c)'
      BY <1>4 DEF Connection, Asked
    <2>4. Busy(c)'
      BY <1>4 DEF Connection, Busy
    <2>5. Answered(c)'
      BY <1>4 DEF Connection, Answered
    <2>6. Mapped(c)'
      BY <1>4 DEF Connection, Mapped
    <2>7. CountedOnce(c)'
      BY <1>4 DEF Connection, CountedOnce
    <2> QED  BY <2>1, <2>2, <2>3, <2>4, <2>5, <2>6, <2>7 DEF Connection
  <1>6. ServiceStep
    <2>1. AbsPhase'[c] = AbsPhase[c] /\ AbsCall'[c] = AbsCall[c] /\ AbsAnswer'[c] = AbsAnswer[c]
      BY <1>4 DEF IInv, Connection, Connected, AbsPhase, AbsCall, AbsAnswer, Executed, ExecutedBy,
         InCall
    <2>2. UNCHANGED <<store, oks>>
      BY DEF Publish
    <2> QED  BY <1>3, <2>1, <2>2, Stutters DEF ServiceStep
  <1> QED  BY <1>1, <1>2, <1>3, <1>5, <1>6, UndisturbedKeeps DEF IInv

LEMMA RendezvousInv == ASSUME IInv, NEW c \in Clients, Rendezvous(c) PROVE IInv' /\ ServiceStep
  <1>1. TypeOK'
    BY DEF IInv, TypeOK, Rendezvous
  <1>2. InFrame' /\ Untouched'
    BY Types DEF IInv, Untouched, InFrame, Connection, Started, Rendezvous
  <1>3. ASSUME NEW d \in Clients, d # c PROVE Undisturbed(d)
    BY <1>3 DEF Undisturbed, IInv, Connection, Started, Rendezvous
  <1>4. /\ "server" \in alive
        /\ wpc[c] = "send"
        /\ wpc'[c] = "serve"
        /\ frame = c /\ mpc' = "reply"
        /\ UNCHANGED <<pc[c], left[c], oks[c], req[c], bench[c], cmap[c], win[c],
                       smap[c], wreq[c], wres[c], wrc[c], slots, frame, gate, alive,
                       ready, mem[<<c, "in">>], mem[<<c, "out">>], ds>>
    BY Types DEF Rendezvous
  <1>5. Connection(c)'
    <2>. Connection(c)
      BY DEF IInv
    <2>1. Started(c)'
      BY <1>4 DEF Connection, Started, Starting
    <2>2. Connected(c)'
      BY <1>4 DEF Connection, Connected, Starting
    <2>3. Asked(c)'
      BY <1>4 DEF Connection, Asked
    <2>4. Busy(c)'
      BY <1>4 DEF Connection, Busy
    <2>5. Answered(c)'
      BY <1>4 DEF Connection, Answered
    <2>6. Mapped(c)'
      BY <1>4 DEF Connection, Mapped
    <2>7. CountedOnce(c)'
      BY <1>4 DEF Connection, CountedOnce
    <2> QED  BY <2>1, <2>2, <2>3, <2>4, <2>5, <2>6, <2>7 DEF Connection
  <1>6. ServiceStep
    <2>1. AbsPhase'[c] = AbsPhase[c] /\ AbsCall'[c] = AbsCall[c] /\ AbsAnswer'[c] = AbsAnswer[c]
      BY <1>4 DEF IInv, Connection, Connected, AbsPhase, AbsCall, AbsAnswer, Executed, ExecutedBy,
         InCall
    <2>2. UNCHANGED <<store, oks>>
      BY DEF Rendezvous
    <2> QED  BY <1>3, <2>1, <2>2, Stutters DEF ServiceStep
  <1> QED  BY <1>1, <1>2, <1>3, <1>5, <1>6, UndisturbedKeeps DEF IInv

LEMMA BeginOpInv == ASSUME IInv, NEW c \in Clients, BeginOp(c) PROVE IInv' /\ ServiceStep
  <1>1. TypeOK'
    BY ConstFacts DEF IInv, TypeOK, BeginOp, MoreCalls
  <1>2. InFrame' /\ Untouched'
    BY DEF IInv, Untouched, InFrame, BeginOp
  <1>3. ASSUME NEW d \in Clients, d # c PROVE Undisturbed(d)
    BY <1>3 DEF Undisturbed, BeginOp
  <1>4. /\ "client" \in alive
        /\ pc[c] = "idle"
        /\ left[c] > 0
        /\ pc'[c] = "rpc"
        /\ req'[c] \in Requests
        /\ left'[c] = left[c] - 1
        /\ mem'[<<c, "in">>] = req'[c]
        /\ UNCHANGED <<oks[c], bench[c], cmap[c], wpc[c], win[c], smap[c], wreq[c],
                       wres[c], wrc[c], mpc, slots, frame, gate, alive, ready,
                       mem[<<c, "out">>], ds>>
    BY Types DEF BeginOp, MoreCalls
  <1>5. Connection(c)'
    <2>. Connection(c)
      BY DEF IInv
    <2>1. Started(c)'
      BY <1>4 DEF Connection, Started
    <2>2. Connected(c)'
      BY <1>4 DEF Connection, Connected
    <2>3. Asked(c)'
      BY <1>4 DEF Asked, Leaving
    <2>4. Busy(c)'
      BY <1>4 DEF Connection, Busy
    <2>5. Answered(c)'
      BY <1>4 DEF Connection, Busy, Answered
    <2>6. Mapped(c)'
      BY <1>4 DEF Connection, Busy, Mapped, Leaving
    <2>7. CountedOnce(c)'
      BY <1>4, ConstFacts, CountTypes DEF Connection, CountedOnce
    <2> QED  BY <2>1, <2>2, <2>3, <2>4, <2>5, <2>6, <2>7 DEF Connection
  <1>6. ServiceStep
    <2>1. AbsPhase[c] = "idle" /\ AbsPhase'[c] = "pending"
      BY <1>4, OpFacts DEF IInv, Connection, Connected, Asked, AbsPhase, Executed, ExecutedBy,
         InCall
    <2>2. AbsCall'[c] = req'[c] /\ AbsAnswer'[c] = AbsAnswer[c]
      BY <1>4 DEF IInv, Connection, Connected, AbsCall, AbsAnswer, Executed, ExecutedBy, InCall
    <2>3. /\ AbsPhase' = [AbsPhase EXCEPT ![c] = "pending"]
          /\ AbsCall' = [AbsCall EXCEPT ![c] = req'[c]]
          /\ AbsAnswer' = [AbsAnswer EXCEPT ![c] = AbsAnswer[c]]
      BY <1>3, <2>1, <2>2, AbstractLocal
    <2>4. AbsAnswer' = AbsAnswer
      BY <2>3, AbstractFunctions
    <2>5. UNCHANGED <<store, oks>>
      BY DEF BeginOp
    <2>6. Service!Invoke(c)
      BY <1>4, <2>1, <2>3, <2>4, <2>5 DEF Service!Invoke
    <2> QED  BY <2>6 DEF ServiceStep, Service!Next
  <1> QED  BY <1>1, <1>2, <1>3, <1>5, <1>6, UndisturbedKeeps DEF IInv

LEMMA BeginOpThrowsInv == ASSUME IInv, NEW c \in Clients, BeginOpThrows(c) PROVE IInv' /\ ServiceStep
  <1>1. TypeOK'
    BY ConstFacts DEF IInv, TypeOK, BeginOpThrows, MoreCalls
  <1>2. InFrame' /\ Untouched'
    BY DEF IInv, Untouched, InFrame, BeginOpThrows
  <1>3. ASSUME NEW d \in Clients, d # c PROVE Undisturbed(d)
    BY <1>3 DEF Undisturbed, BeginOpThrows
  <1>4. /\ "client" \in alive
        /\ pc[c] = "idle"
        /\ pc'[c] = "threw"
        /\ left'[c] = left[c] - 1
        /\ UNCHANGED <<oks[c], req[c], bench[c], cmap[c], wpc[c], win[c], smap[c],
                       wreq[c], wres[c], wrc[c], mpc, slots, frame, gate, alive,
                       ready, mem[<<c, "out">>], ds>>
    BY Types DEF BeginOpThrows
  <1>5. Connection(c)'
    <2>. Connection(c)
      BY DEF IInv
    <2>1. Started(c)'
      BY <1>4 DEF Connection, Started
    <2>2. Connected(c)'
      BY <1>4 DEF Connection, Connected
    <2>3. Asked(c)'
      BY <1>4 DEF Connection, Asked, Leaving
    <2>4. Busy(c)'
      BY <1>4 DEF Connection, Busy
    <2>5. Answered(c)'
      BY <1>4 DEF Connection, Answered
    <2>6. Mapped(c)'
      BY <1>4 DEF Connection, Mapped, Leaving
    <2>7. CountedOnce(c)'
      BY <1>4, ConstFacts, CountTypes DEF Connection, CountedOnce
    <2> QED  BY <2>1, <2>2, <2>3, <2>4, <2>5, <2>6, <2>7 DEF Connection
  <1>6. ServiceStep
    <2>1. UNCHANGED <<store, oks>> /\ req'[c] = NoCall
      BY DEF BeginOpThrows, IInv, Connection, Asked
    <2> QED  BY <1>3, <1>4, <2>1, Throws DEF ServiceStep
  <1> QED  BY <1>1, <1>2, <1>3, <1>5, <1>6, UndisturbedKeeps DEF IInv

LEMMA BeginCloseInv == ASSUME IInv, NEW c \in Clients, BeginClose(c) PROVE IInv' /\ ServiceStep
  <1>1. TypeOK'
    BY DEF IInv, TypeOK, BeginClose
  <1>2. InFrame' /\ Untouched'
    BY DEF IInv, Untouched, InFrame, BeginClose
  <1>3. ASSUME NEW d \in Clients, d # c PROVE Undisturbed(d)
    BY <1>3 DEF Undisturbed, BeginClose
  <1>4. /\ "client" \in alive
        /\ pc[c] = "idle"
        /\ pc'[c] = "rpc"
        /\ req'[c] = CloseCall
        /\ UNCHANGED <<left[c], oks[c], bench[c], cmap[c], wpc[c], win[c], smap[c],
                       wreq[c], wres[c], wrc[c], mpc, slots, frame, gate, alive,
                       ready, mem[<<c, "in">>], mem[<<c, "out">>], ds>>
    BY Types DEF BeginClose
  <1>5. Connection(c)'
    <2>. Connection(c)
      BY DEF IInv
    <2>1. Started(c)'
      BY <1>4 DEF Connection, Started
    <2>2. Connected(c)'
      BY <1>4 DEF Connection, Connected
    <2>3. Asked(c)'
      BY <1>4, OpFacts DEF Asked
    <2>4. Busy(c)'
      BY <1>4 DEF Connection, Busy
    <2>5. Answered(c)'
      BY <1>4 DEF Connection, Busy, Answered
    <2>6. Mapped(c)'
      BY <1>4 DEF Connection, Busy, Mapped, Leaving
    <2>7. CountedOnce(c)'
      BY <1>4, OpFacts DEF Connection, Asked, CountedOnce
    <2> QED  BY <2>1, <2>2, <2>3, <2>4, <2>5, <2>6, <2>7 DEF Connection
  <1>6. ServiceStep
    <2>1. AbsPhase'[c] = AbsPhase[c] /\ AbsCall'[c] = AbsCall[c] /\ AbsAnswer'[c] = AbsAnswer[c]
      BY <1>4, OpFacts DEF IInv, Connection, Asked, AbsPhase, AbsCall, AbsAnswer, Executed, InCall
    <2>2. UNCHANGED <<store, oks>>
      BY DEF BeginClose
    <2> QED  BY <1>3, <2>1, <2>2, Stutters DEF ServiceStep
  <1> QED  BY <1>1, <1>2, <1>3, <1>5, <1>6, UndisturbedKeeps DEF IInv

LEMMA ReturnInv == ASSUME IInv, NEW c \in Clients, Return(c) PROVE IInv' /\ ServiceStep
  <1>1. TypeOK'
    <2>1. oks'[c] <= NumOps
      <3>1. req[c] \in Requests /\ CountedOnce(c)
        BY DEF IInv, Connection, Asked, Return
      <3>2. oks'[c] \in {oks[c], oks[c] + 1}
        BY DEF Return
      <3> QED  BY <3>1, <3>2, CountTypes, ConstFacts DEF CountedOnce
    <2>2. oks' \in [Clients -> 0 .. NumOps]
      BY <2>1 DEF IInv, TypeOK, Return
    <2> QED  BY <2>2 DEF IInv, TypeOK, Return
  <1>2. InFrame' /\ Untouched'
    BY DEF IInv, Untouched, InFrame, Return
  <1>3. ASSUME NEW d \in Clients, d # c PROVE Undisturbed(d)
    BY <1>3 DEF Undisturbed, Return
  <1>4. /\ "client" \in alive
        /\ pc[c] = "parse"
        /\ pc'[c] = "idle"
        /\ req'[c] = NoCall
        /\ oks'[c] \in {oks[c], oks[c] + 1}
        /\ UNCHANGED <<left[c], bench[c], cmap[c], wpc[c], win[c], smap[c], wreq[c],
                       wres[c], wrc[c], mpc, slots, frame, gate, alive, ready,
                       mem[<<c, "in">>], mem[<<c, "out">>], ds>>
    BY Types DEF Return
  <1>5. Connection(c)'
    <2>. Connection(c)
      BY DEF IInv
    <2>1. Started(c)'
      BY <1>4 DEF Connection, Started
    <2>2. Connected(c)'
      BY <1>4 DEF Connection, Connected
    <2>3. Asked(c)'
      BY <1>4 DEF Asked, Leaving
    <2>4. Busy(c)'
      BY <1>4 DEF Connection, Busy
    <2>5. Answered(c)'
      BY <1>4 DEF Connection, Busy, Answered
    <2>6. Mapped(c)'
      BY <1>4 DEF Connection, Busy, Mapped, Leaving
    <2>7. CountedOnce(c)'
      BY <1>4, OpFacts, ConstFacts, CountTypes DEF Connection, Asked, CountedOnce
    <2> QED  BY <2>1, <2>2, <2>3, <2>4, <2>5, <2>6, <2>7 DEF Connection
  <1>6. ServiceStep
    <2>1. AbsPhase[c] = "done" /\ AbsCall[c] = req[c] /\ AbsAnswer[c] = Received(c)
      BY <1>4 DEF IInv, Connection, Asked, AbsPhase, AbsCall, AbsAnswer, Executed, InCall
    <2>2. AbsPhase'[c] = "idle" /\ AbsCall'[c] = NoCall /\ AbsAnswer'[c] = NoData
      BY <1>4, OpFacts DEF AbsPhase, AbsCall, AbsAnswer, Executed, InCall
    <2>3. /\ AbsPhase' = [AbsPhase EXCEPT ![c] = "idle"]
          /\ AbsCall' = [AbsCall EXCEPT ![c] = NoCall]
          /\ AbsAnswer' = [AbsAnswer EXCEPT ![c] = NoData]
      BY <1>3, <2>2, AbstractLocal
    <2>4. Received(c) # Missed
      <3>1. IsResult(Received(c))
        BY <1>4 DEF IInv, Connection, Answered, Received, IsResult
      <3> QED  BY <3>1, MissedIsNoResult
    <2>5. PICK n \in Counted(req[c], Received(c)) : oks' = [oks EXCEPT ![c] = @ + n]
      <3>1. CASE Status(req[c], Received(c)) = "kOK"
        BY <2>4, <3>1 DEF Return, Counted
      <3>2. CASE Status(req[c], Received(c)) # "kOK"
        <4>1. oks' = [oks EXCEPT ![c] = oks[c]]
          BY <3>2 DEF Return
        <4>2. oks[c] + 0 = oks[c]
          BY CountTypes
        <4> QED  BY <3>2, <4>1, <4>2 DEF Counted
      <3> QED  BY <3>1, <3>2
    <2>6. store' = store
      BY DEF Return
    <2>7. Service!Return(c)
      BY <2>1, <2>3, <2>5, <2>6, ServiceData DEF Service!Return
    <2> QED  BY <2>7 DEF ServiceStep, Service!Next
  <1> QED  BY <1>1, <1>2, <1>3, <1>5, <1>6, UndisturbedKeeps DEF IInv

LEMMA DetachInInv == ASSUME IInv, NEW c \in Clients, DetachIn(c) PROVE IInv' /\ ServiceStep
  <1>1. TypeOK'
    BY DEF IInv, TypeOK, DetachIn, Detach
  <1>2. InFrame' /\ Untouched'
    BY DEF IInv, Untouched, InFrame, DetachIn, Detach
  <1>3. ASSUME NEW d \in Clients, d # c PROVE Undisturbed(d)
    BY <1>3 DEF Undisturbed, DetachIn, Detach
  <1>4. /\ "client" \in alive
        /\ pc[c] = "detachIn"
        /\ pc'[c] = "detachOut"
        /\ TRUE
        /\ UNCHANGED <<left[c], oks[c], req[c], bench[c], wpc[c], win[c], smap[c],
                       wreq[c], wres[c], wrc[c], mpc, slots, frame, gate, alive,
                       ready, mem[<<c, "in">>], mem[<<c, "out">>], ds>>
    BY Types DEF DetachIn, Detach
  <1>5. Connection(c)'
    <2>. Connection(c)
      BY DEF IInv
    <2>1. Started(c)'
      BY <1>4 DEF Connection, Started
    <2>2. Connected(c)'
      BY <1>4 DEF Connection, Connected
    <2>3. Asked(c)'
      BY <1>4 DEF Connection, Asked, Leaving
    <2>4. Busy(c)'
      BY <1>4 DEF Connection, Busy
    <2>5. Answered(c)'
      BY <1>4 DEF Connection, Answered
    <2>6. Mapped(c)'
      BY <1>4 DEF Connection, Mapped, Leaving
    <2>7. CountedOnce(c)'
      BY <1>4 DEF Connection, CountedOnce
    <2> QED  BY <2>1, <2>2, <2>3, <2>4, <2>5, <2>6, <2>7 DEF Connection
  <1>6. ServiceStep
    <2>1. AbsPhase'[c] = AbsPhase[c] /\ AbsCall'[c] = AbsCall[c] /\ AbsAnswer'[c] = AbsAnswer[c]
      BY <1>4 DEF AbsPhase, AbsCall, AbsAnswer, Executed, InCall
    <2>2. UNCHANGED <<store, oks>>
      BY DEF DetachIn, Detach
    <2> QED  BY <1>3, <2>1, <2>2, Stutters DEF ServiceStep
  <1> QED  BY <1>1, <1>2, <1>3, <1>5, <1>6, UndisturbedKeeps DEF IInv

LEMMA DetachOutInv == ASSUME IInv, NEW c \in Clients, DetachOut(c) PROVE IInv' /\ ServiceStep
  <1>1. TypeOK'
    BY DEF IInv, TypeOK, DetachOut, Detach
  <1>2. InFrame' /\ Untouched'
    BY DEF IInv, Untouched, InFrame, DetachOut, Detach
  <1>3. ASSUME NEW d \in Clients, d # c PROVE Undisturbed(d)
    BY <1>3 DEF Undisturbed, DetachOut, Detach
  <1>4. /\ "client" \in alive
        /\ pc[c] = "detachOut"
        /\ pc'[c] = "release"
        /\ TRUE
        /\ UNCHANGED <<left[c], oks[c], req[c], bench[c], wpc[c], win[c], smap[c],
                       wreq[c], wres[c], wrc[c], mpc, slots, frame, gate, alive,
                       ready, mem[<<c, "in">>], mem[<<c, "out">>], ds>>
    BY Types DEF DetachOut, Detach
  <1>5. Connection(c)'
    <2>. Connection(c)
      BY DEF IInv
    <2>1. Started(c)'
      BY <1>4 DEF Connection, Started
    <2>2. Connected(c)'
      BY <1>4 DEF Connection, Connected
    <2>3. Asked(c)'
      BY <1>4 DEF Connection, Asked, Leaving
    <2>4. Busy(c)'
      BY <1>4 DEF Connection, Busy
    <2>5. Answered(c)'
      BY <1>4 DEF Connection, Answered
    <2>6. Mapped(c)'
      BY <1>4 DEF Connection, Mapped, Leaving
    <2>7. CountedOnce(c)'
      BY <1>4 DEF Connection, CountedOnce
    <2> QED  BY <2>1, <2>2, <2>3, <2>4, <2>5, <2>6, <2>7 DEF Connection
  <1>6. ServiceStep
    <2>1. AbsPhase'[c] = AbsPhase[c] /\ AbsCall'[c] = AbsCall[c] /\ AbsAnswer'[c] = AbsAnswer[c]
      BY <1>4 DEF AbsPhase, AbsCall, AbsAnswer, Executed, InCall
    <2>2. UNCHANGED <<store, oks>>
      BY DEF DetachOut, Detach
    <2> QED  BY <1>3, <2>1, <2>2, Stutters DEF ServiceStep
  <1> QED  BY <1>1, <1>2, <1>3, <1>5, <1>6, UndisturbedKeeps DEF IInv

LEMMA DetachFailsInv == ASSUME IInv, NEW c \in Clients, DetachFails(c) PROVE IInv' /\ ServiceStep
  <1>1. TypeOK'
    BY DEF IInv, TypeOK, DetachFails
  <1>2. InFrame' /\ Untouched'
    BY DEF IInv, Untouched, InFrame, DetachFails
  <1>3. ASSUME NEW d \in Clients, d # c PROVE Undisturbed(d)
    BY <1>3 DEF Undisturbed, DetachFails
  <1>4. /\ pc[c] \in {"detachIn", "detachOut"}
        /\ pc'[c] = "leaked"
        /\ UNCHANGED <<left[c], oks[c], req[c], bench[c], cmap[c], wpc[c], win[c],
                       smap[c], wreq[c], wres[c], wrc[c], mpc, slots, frame, gate,
                       alive, ready, mem[<<c, "in">>], mem[<<c, "out">>], ds>>
    BY Types DEF DetachFails
  <1>5. Connection(c)'
    <2>. Connection(c)
      BY DEF IInv
    <2>1. Started(c)'
      BY <1>4 DEF Connection, Started
    <2>2. Connected(c)'
      BY <1>4 DEF Connection, Connected
    <2>3. Asked(c)'
      BY <1>4 DEF Connection, Asked, Leaving
    <2>4. Busy(c)'
      BY <1>4 DEF Connection, Busy
    <2>5. Answered(c)'
      BY <1>4 DEF Connection, Answered
    <2>6. Mapped(c)'
      BY <1>4 DEF Connection, Mapped, Leaving
    <2>7. CountedOnce(c)'
      BY <1>4 DEF Connection, CountedOnce
    <2> QED  BY <2>1, <2>2, <2>3, <2>4, <2>5, <2>6, <2>7 DEF Connection
  <1>6. ServiceStep
    <2>1. AbsPhase'[c] = AbsPhase[c] /\ AbsCall'[c] = AbsCall[c] /\ AbsAnswer'[c] = AbsAnswer[c]
      BY <1>4 DEF AbsPhase, AbsCall, AbsAnswer, Executed, InCall
    <2>2. UNCHANGED <<store, oks>>
      BY DEF DetachFails
    <2> QED  BY <1>3, <2>1, <2>2, Stutters DEF ServiceStep
  <1> QED  BY <1>1, <1>2, <1>3, <1>5, <1>6, UndisturbedKeeps DEF IInv

LEMMA ReleaseWindowsInv == ASSUME IInv, NEW c \in Clients, ReleaseWindows(c) PROVE IInv' /\ ServiceStep
  <1>1. TypeOK'
    BY DEF IInv, TypeOK, ReleaseWindows, AfterRelease
  <1>2. InFrame' /\ Untouched'
    BY DEF IInv, Untouched, InFrame, ReleaseWindows
  <1>3. ASSUME NEW d \in Clients, d # c PROVE Undisturbed(d)
    BY <1>3 DEF Undisturbed, ReleaseWindows
  <1>4. /\ "client" \in alive
        /\ pc[c] = "release"
        /\ pc'[c] = "terminate"
        /\ UNCHANGED <<left[c], oks[c], req[c], bench[c], cmap[c], wpc[c], win[c],
                       smap[c], wreq[c], wres[c], wrc[c], mpc, slots, frame, gate,
                       alive, ready, mem[<<c, "in">>], mem[<<c, "out">>]>>
    BY Types DEF ReleaseWindows, AfterRelease
  <1>5. Connection(c)'
    <2>. Connection(c)
      BY DEF IInv
    <2>1. Started(c)'
      BY <1>4 DEF Connection, Started
    <2>2. Connected(c)'
      BY <1>4 DEF Connection, Connected
    <2>3. Asked(c)'
      BY <1>4 DEF Connection, Asked, Leaving
    <2>4. Busy(c)'
      BY <1>4 DEF Connection, Busy
    <2>5. Answered(c)'
      BY <1>4 DEF Connection, Answered
    <2>6. Mapped(c)'
      BY <1>4 DEF Connection, Mapped, Leaving
    <2>7. CountedOnce(c)'
      BY <1>4 DEF Connection, CountedOnce
    <2> QED  BY <2>1, <2>2, <2>3, <2>4, <2>5, <2>6, <2>7 DEF Connection
  <1>6. ServiceStep
    <2>1. AbsPhase'[c] = AbsPhase[c] /\ AbsCall'[c] = AbsCall[c] /\ AbsAnswer'[c] = AbsAnswer[c]
      BY <1>4 DEF AbsPhase, AbsCall, AbsAnswer, Executed, InCall
    <2>2. UNCHANGED <<store, oks>>
      BY DEF ReleaseWindows
    <2> QED  BY <1>3, <2>1, <2>2, Stutters DEF ServiceStep
  <1> QED  BY <1>1, <1>2, <1>3, <1>5, <1>6, UndisturbedKeeps DEF IInv

LEMMA TerminateInv == ASSUME IInv, NEW c \in Clients, Terminate(c) PROVE IInv' /\ ServiceStep
  <1>1. TypeOK'
    BY DEF IInv, TypeOK, Terminate
  <1>2. InFrame' /\ Untouched'
    BY Types DEF IInv, Untouched, InFrame, Connection, Started, Connected, Terminate
  <1>3. ASSUME NEW d \in Clients, d # c PROVE Undisturbed(d)
    BY <1>3, Types DEF Undisturbed, IInv, Connection, Connected, Terminate
  <1>4. /\ "client" \in alive
        /\ pc[c] = "terminate"
        /\ pc'[c] = "closed"
        /\ wpc'[c] = wpc[c] \/ (wpc[c] = "serve" /\ wpc'[c] = "exited")
        /\ UNCHANGED <<left[c], oks[c], req[c], bench[c], cmap[c], win[c], smap[c],
                       wreq[c], wres[c], wrc[c], mpc, slots, frame, gate, alive,
                       ready, mem[<<c, "in">>], mem[<<c, "out">>], ds>>
    BY Types DEF Terminate
  <1>5. Connection(c)'
    <2>. Connection(c)
      BY DEF IInv
    <2>1. Started(c)'
      BY <1>4 DEF Connection, Started, Starting
    <2>2. Connected(c)'
      BY <1>4 DEF Connection, Connected, Starting
    <2>3. Asked(c)'
      BY <1>4 DEF Connection, Asked, Leaving
    <2>4. Busy(c)'
      BY <1>4 DEF Connection, Busy
    <2>5. Answered(c)'
      BY <1>4 DEF Connection, Answered
    <2>6. Mapped(c)'
      BY <1>4 DEF Connection, Mapped, Leaving
    <2>7. CountedOnce(c)'
      BY <1>4 DEF Connection, CountedOnce
    <2> QED  BY <2>1, <2>2, <2>3, <2>4, <2>5, <2>6, <2>7 DEF Connection
  <1>6. ServiceStep
    <2>1. AbsPhase'[c] = AbsPhase[c] /\ AbsCall'[c] = AbsCall[c] /\ AbsAnswer'[c] = AbsAnswer[c]
      BY <1>4 DEF AbsPhase, AbsCall, AbsAnswer, Executed, InCall
    <2>2. UNCHANGED <<store, oks>>
      BY DEF Terminate
    <2> QED  BY <1>3, <2>1, <2>2, Stutters DEF ServiceStep
  <1> QED  BY <1>1, <1>2, <1>3, <1>5, <1>6, UndisturbedKeeps DEF IInv

LEMMA ReceiveInv == ASSUME IInv, NEW c \in Clients, Receive(c) PROVE IInv' /\ ServiceStep
  <1>0. pc[c] = "rpc" /\ bench[c] = c /\ wpc' = [wpc EXCEPT ![c] = Dispatch(req[c].op)]
    BY DEF IInv, Connection, Connected, Callers, Receive
  <1>1. TypeOK'
    BY DEF IInv, TypeOK, Receive, Dispatch
  <1>2. InFrame' /\ Untouched'
    BY DEF IInv, Untouched, InFrame, Connection, Started, Connected, Receive, Callers
  <1>3. ASSUME NEW d \in Clients, d # c PROVE Undisturbed(d)
    BY <1>3 DEF Undisturbed, Receive
  <1>4. /\ "server" \in alive
        /\ wpc[c] = "serve"
        /\ pc[c] = "rpc"
        /\ bench[c] = c
        /\ wpc'[c] = IF req[c] = CloseCall THEN "detachIn" ELSE "parse"
        /\ wrc'[c] = "ok"
        /\ UNCHANGED <<pc[c], left[c], oks[c], req[c], bench[c], cmap[c], win[c],
                       smap[c], wreq[c], wres[c], mpc, slots, frame, gate, alive,
                       ready, mem[<<c, "in">>], mem[<<c, "out">>], ds>>
    BY <1>0, Types, OpFacts DEF IInv, Connection, Asked, Receive, Dispatch
  <1>5. Connection(c)'
    <2>. Connection(c)
      BY DEF IInv
    <2>1. Started(c)'
      BY <1>4 DEF Connection, Started, Starting
    <2>2. Connected(c)'
      BY <1>4 DEF Connection, Connected, Starting
    <2>3. Asked(c)'
      BY <1>4 DEF Connection, Asked
    <2>4. Busy(c)'
      BY <1>4 DEF Connection, Asked, Busy
    <2>5. Answered(c)'
      BY <1>4 DEF Answered
    <2>6. Mapped(c)'
      BY <1>4 DEF Connection, Mapped, Leaving
    <2>7. CountedOnce(c)'
      BY <1>4 DEF Connection, CountedOnce
    <2> QED  BY <2>1, <2>2, <2>3, <2>4, <2>5, <2>6, <2>7 DEF Connection
  <1>6. ServiceStep
    <2>1. AbsPhase'[c] = AbsPhase[c] /\ AbsCall'[c] = AbsCall[c] /\ AbsAnswer'[c] = AbsAnswer[c]
      BY <1>4 DEF AbsPhase, AbsCall, AbsAnswer, Executed, ExecutedBy, InCall
    <2>2. UNCHANGED <<store, oks>>
      BY DEF Receive
    <2> QED  BY <1>3, <2>1, <2>2, Stutters DEF ServiceStep
  <1> QED  BY <1>1, <1>2, <1>3, <1>5, <1>6, UndisturbedKeeps DEF IInv

LEMMA ParseInv == ASSUME IInv, NEW c \in Clients, Parse(c) PROVE IInv' /\ ServiceStep
  <1>0. mem[win[c]["in"]] = req[c] /\ req[c] \in Requests
    <2>1. wpc[c] = "parse" /\ "server" \in alive
      BY DEF Parse, Worker
    <2>2. win[c] = OwnWindows(c)
      BY <2>1 DEF IInv, Connection, Started
    <2>3. pc[c] = "rpc" /\ req[c] \in Requests
      BY <2>1 DEF IInv, Connection, Busy
    <2>4. mem[<<c, "in">>] = req[c]
      BY <2>3 DEF IInv, Connection, Asked
    <2> QED  BY <2>2, <2>3, <2>4 DEF OwnWindows, Windows
  <1>1. TypeOK'
    BY <1>0 DEF IInv, TypeOK, Parse
  <1>2. InFrame' /\ Untouched'
    BY DEF IInv, Untouched, InFrame, Parse
  <1>3. ASSUME NEW d \in Clients, d # c PROVE Undisturbed(d)
    BY <1>3 DEF Undisturbed, Parse
  <1>4. /\ "server" \in alive
        /\ wpc[c] = "parse"
        /\ wpc'[c] = "exec"
        /\ wreq'[c] = req[c] /\ req[c] \in Requests
        /\ UNCHANGED <<pc[c], left[c], oks[c], req[c], bench[c], cmap[c], win[c],
                       smap[c], wres[c], wrc[c], mpc, slots, frame, gate, alive,
                       ready, mem[<<c, "in">>], mem[<<c, "out">>], ds>>
    BY <1>0, Types DEF Parse
  <1>5. Connection(c)'
    <2>. Connection(c)
      BY DEF IInv
    <2>1. Started(c)'
      BY <1>4 DEF Connection, Started, Starting
    <2>2. Connected(c)'
      BY <1>4 DEF Connection, Connected, Starting
    <2>3. Asked(c)'
      BY <1>4 DEF Connection, Asked
    <2>4. Busy(c)'
      BY <1>4 DEF Connection, Busy
    <2>5. Answered(c)'
      BY <1>4 DEF Connection, Answered
    <2>6. Mapped(c)'
      BY <1>4 DEF Connection, Mapped
    <2>7. CountedOnce(c)'
      BY <1>4 DEF Connection, CountedOnce
    <2> QED  BY <2>1, <2>2, <2>3, <2>4, <2>5, <2>6, <2>7 DEF Connection
  <1>6. ServiceStep
    <2>1. AbsPhase'[c] = AbsPhase[c] /\ AbsCall'[c] = AbsCall[c] /\ AbsAnswer'[c] = AbsAnswer[c]
      BY <1>4 DEF IInv, Connection, Connected, AbsPhase, AbsCall, AbsAnswer, Executed, ExecutedBy,
         InCall
    <2>2. UNCHANGED <<store, oks>>
      BY DEF Parse
    <2> QED  BY <1>3, <2>1, <2>2, Stutters DEF ServiceStep
  <1> QED  BY <1>1, <1>2, <1>3, <1>5, <1>6, UndisturbedKeeps DEF IInv

LEMMA ExecInv == ASSUME IInv, NEW c \in Clients, Exec(c) PROVE IInv' /\ ServiceStep
  <1>1. TypeOK'
    <2>1. wreq[c] \in Requests /\ wreq[c] \in Request /\ store \in Table
      BY IpcAssumption DEF IInv, TypeOK, Connection, Busy, Exec
    <2>2. store' \in Table
      BY <2>1, EffectType DEF Exec
    <2>3. IsResult(Result(store, wreq[c]))
      BY <2>1, ResultType DEF Exec
    <2>4. \A w \in Clients : IsResult(wres'[w])
      BY <2>3 DEF IInv, TypeOK, Exec
    <2> QED  BY <2>2, <2>4 DEF IInv, TypeOK, Exec, AfterExec
  <1>2. InFrame' /\ Untouched'
    BY DEF IInv, Untouched, InFrame, Connection, Connected, Busy, Exec, Busy
  <1>3. ASSUME NEW d \in Clients, d # c PROVE Undisturbed(d)
    BY <1>3 DEF Undisturbed, Exec
  <1>4. /\ "server" \in alive
        /\ wpc[c] = "exec"
        /\ wpc'[c] = IF req[c].op \in Queries THEN "write" ELSE "reply"
        /\ req[c].op \notin Queries => wres'[c] = NoData
        /\ UNCHANGED <<pc[c], left[c], oks[c], req[c], bench[c], cmap[c], win[c],
                       smap[c], wreq[c], wrc[c], mpc, slots, frame, gate, alive,
                       ready, mem[<<c, "in">>], mem[<<c, "out">>], ds>>
    BY Types DEF IInv, Connection, Exec, AfterExec, Busy, Result, Queries
  <1>5. Connection(c)'
    <2>. Connection(c)
      BY DEF IInv
    <2>1. Started(c)'
      BY <1>4 DEF Connection, Started, Starting
    <2>2. Connected(c)'
      BY <1>4 DEF Connection, Connected, Starting
    <2>3. Asked(c)'
      BY <1>4 DEF Connection, Asked
    <2>4. Busy(c)'
      BY <1>4 DEF Connection, Busy
    <2>5. Answered(c)'
      BY <1>4 DEF Connection, Answered
    <2>6. Mapped(c)'
      BY <1>4, OpFacts DEF Connection, Busy, Mapped
    <2>7. CountedOnce(c)'
      BY <1>4 DEF Connection, CountedOnce
    <2> QED  BY <2>1, <2>2, <2>3, <2>4, <2>5, <2>6, <2>7 DEF Connection
  <1>6. ServiceStep
    <2>1. /\ AbsPhase[c] = "pending" /\ AbsPhase'[c] = "done"
          /\ AbsCall[c] = req[c] /\ AbsCall'[c] = req[c]
          /\ AbsAnswer'[c] = wres'[c]
      BY <1>4 DEF IInv, Connection, Connected, Busy, Answered, AbsPhase, AbsCall, AbsAnswer,
         Executed, ExecutedBy, InCall
    <2>2. /\ wreq[c] = req[c] /\ wres'[c] = Answer(store, req[c])
          /\ store' = Effect(store, req[c]) /\ ~Conflicts(store, req[c])
          /\ oks' = oks
      BY Types DEF IInv, Connection, Busy, Exec, Answer, Succeeds
    <2>3. /\ AbsPhase' = [AbsPhase EXCEPT ![c] = "done"]
          /\ AbsCall' = [AbsCall EXCEPT ![c] = AbsCall[c]]
          /\ AbsAnswer' = [AbsAnswer EXCEPT ![c] = Answer(store, AbsCall[c])]
      BY <1>3, <2>1, <2>2, AbstractLocal
    <2>4. AbsCall' = AbsCall
      BY <2>3, AbstractFunctions
    <2>5. Service!Apply(c)
      BY <2>1, <2>2, <2>3, <2>4, ServiceData DEF Service!Apply
    <2> QED  BY <2>5 DEF ServiceStep, Service!Next
  <1> QED  BY <1>1, <1>2, <1>3, <1>5, <1>6, UndisturbedKeeps DEF IInv

LEMMA ExecFailsInv == ASSUME IInv, NEW c \in Clients, ExecFails(c) PROVE IInv' /\ ServiceStep
  <1>1. TypeOK'
    BY DEF IInv, TypeOK, ExecFails
  <1>2. InFrame' /\ Untouched'
    BY DEF IInv, Untouched, InFrame, ExecFails
  <1>3. ASSUME NEW d \in Clients, d # c PROVE Undisturbed(d)
    BY <1>3 DEF Undisturbed, ExecFails
  <1>4. /\ "server" \in alive
        /\ wpc[c] = "exec"
        /\ wpc'[c] = "reply"
        /\ wrc'[c] = "einval"
        /\ UNCHANGED <<pc[c], left[c], oks[c], req[c], bench[c], cmap[c], win[c],
                       smap[c], wreq[c], wres[c], mpc, slots, frame, gate, alive,
                       ready, mem[<<c, "in">>], mem[<<c, "out">>], ds>>
    BY Types DEF ExecFails
  <1>5. Connection(c)'
    <2>. Connection(c)
      BY DEF IInv
    <2>1. Started(c)'
      BY <1>4 DEF Connection, Started, Starting
    <2>2. Connected(c)'
      BY <1>4 DEF Connection, Connected, Starting
    <2>3. Asked(c)'
      BY <1>4 DEF Connection, Asked
    <2>4. Busy(c)'
      BY <1>4 DEF Connection, Busy
    <2>5. Answered(c)'
      BY <1>4 DEF Connection, Answered
    <2>6. Mapped(c)'
      BY <1>4 DEF Connection, Mapped
    <2>7. CountedOnce(c)'
      BY <1>4 DEF Connection, CountedOnce
    <2> QED  BY <2>1, <2>2, <2>3, <2>4, <2>5, <2>6, <2>7 DEF Connection
  <1>6. ServiceStep
    <2>1. AbsPhase'[c] = AbsPhase[c] /\ AbsCall'[c] = AbsCall[c] /\ AbsAnswer'[c] = AbsAnswer[c]
      BY <1>4 DEF IInv, Connection, Connected, AbsPhase, AbsCall, AbsAnswer, Executed, ExecutedBy,
         InCall
    <2>2. UNCHANGED <<store, oks>>
      BY DEF ExecFails
    <2> QED  BY <1>3, <2>1, <2>2, Stutters DEF ServiceStep
  <1> QED  BY <1>1, <1>2, <1>3, <1>5, <1>6, UndisturbedKeeps DEF IInv

LEMMA WriteResultInv == ASSUME IInv, NEW c \in Clients, WriteResult(c) PROVE IInv' /\ ServiceStep
  <1>0. win[c]["out"] = <<c, "out">>
    BY DEF IInv, Connection, Started, OwnWindows, WriteResult
  <1>1. TypeOK'
    BY DEF IInv, TypeOK, WriteResult
  <1>2. InFrame' /\ Untouched'
    BY DEF IInv, Untouched, InFrame, WriteResult
  <1>3. ASSUME NEW d \in Clients, d # c PROVE Undisturbed(d)
    BY <1>0, <1>3 DEF Undisturbed, WriteResult
  <1>4. /\ "server" \in alive
        /\ wpc[c] = "write"
        /\ wpc'[c] = "reply"
        /\ mem'[<<c, "out">>] = wres[c]
        /\ UNCHANGED <<pc[c], left[c], oks[c], req[c], bench[c], cmap[c], win[c],
                       smap[c], wreq[c], wres[c], wrc[c], mpc, slots, frame, gate,
                       alive, ready, mem[<<c, "in">>], ds>>
    BY <1>0, Types DEF WriteResult
  <1>5. Connection(c)'
    <2>. Connection(c)
      BY DEF IInv
    <2>1. Started(c)'
      BY <1>4 DEF Connection, Started, Starting
    <2>2. Connected(c)'
      BY <1>4 DEF Connection, Connected, Starting
    <2>3. Asked(c)'
      BY <1>4 DEF Connection, Asked
    <2>4. Busy(c)'
      BY <1>4 DEF Connection, Busy
    <2>5. Answered(c)'
      BY <1>4 DEF Connection, Busy, Answered
    <2>6. Mapped(c)'
      BY <1>4, OpFacts DEF Connection, Busy, Mapped
    <2>7. CountedOnce(c)'
      BY <1>4 DEF Connection, CountedOnce
    <2> QED  BY <2>1, <2>2, <2>3, <2>4, <2>5, <2>6, <2>7 DEF Connection
  <1>6. ServiceStep
    <2>1. AbsPhase'[c] = AbsPhase[c] /\ AbsCall'[c] = AbsCall[c] /\ AbsAnswer'[c] = AbsAnswer[c]
      BY <1>4 DEF IInv, Connection, Connected, Answered, AbsPhase, AbsCall, AbsAnswer, Executed,
         ExecutedBy, InCall
    <2>2. UNCHANGED <<store, oks>>
      BY DEF WriteResult
    <2> QED  BY <1>3, <2>1, <2>2, Stutters DEF ServiceStep
  <1> QED  BY <1>1, <1>2, <1>3, <1>5, <1>6, UndisturbedKeeps DEF IInv

LEMMA WorkerDetachInInv == ASSUME IInv, NEW c \in Clients, WorkerDetachIn(c) PROVE IInv' /\ ServiceStep
  <1>1. TypeOK'
    BY DEF IInv, TypeOK, WorkerDetachIn, WorkerDetach, AfterDetachIn
  <1>2. InFrame' /\ Untouched'
    BY DEF IInv, Untouched, InFrame, WorkerDetachIn, WorkerDetach
  <1>3. ASSUME NEW d \in Clients, d # c PROVE Undisturbed(d)
    BY <1>3 DEF Undisturbed, WorkerDetachIn, WorkerDetach
  <1>4. /\ "server" \in alive
        /\ wpc[c] = "detachIn"
        /\ wpc'[c] = "detachOut"
        /\ smap'[c] = smap[c] \ {"in"}
        /\ UNCHANGED <<pc[c], left[c], oks[c], req[c], bench[c], cmap[c], win[c],
                       wreq[c], wres[c], wrc[c], mpc, slots, frame, gate, alive,
                       ready, mem[<<c, "in">>], mem[<<c, "out">>], ds>>
    BY Types DEF WorkerDetachIn, WorkerDetach, AfterDetachIn
  <1>5. Connection(c)'
    <2>. Connection(c)
      BY DEF IInv
    <2>1. Started(c)'
      BY <1>4 DEF Connection, Started, Starting
    <2>2. Connected(c)'
      BY <1>4 DEF Connection, Connected, Starting
    <2>3. Asked(c)'
      BY <1>4 DEF Connection, Asked
    <2>4. Busy(c)'
      BY <1>4 DEF Connection, Busy
    <2>5. Answered(c)'
      BY <1>4 DEF Connection, Answered
    <2>6. Mapped(c)'
      BY <1>4 DEF Connection, Mapped
    <2>7. CountedOnce(c)'
      BY <1>4 DEF Connection, CountedOnce
    <2> QED  BY <2>1, <2>2, <2>3, <2>4, <2>5, <2>6, <2>7 DEF Connection
  <1>6. ServiceStep
    <2>1. AbsPhase'[c] = AbsPhase[c] /\ AbsCall'[c] = AbsCall[c] /\ AbsAnswer'[c] = AbsAnswer[c]
      BY <1>4 DEF IInv, Connection, Connected, AbsPhase, AbsCall, AbsAnswer, Executed, ExecutedBy,
         InCall
    <2>2. UNCHANGED <<store, oks>>
      BY DEF WorkerDetachIn, WorkerDetach
    <2> QED  BY <1>3, <2>1, <2>2, Stutters DEF ServiceStep
  <1> QED  BY <1>1, <1>2, <1>3, <1>5, <1>6, UndisturbedKeeps DEF IInv

LEMMA WorkerDetachOutInv == ASSUME IInv, NEW c \in Clients, WorkerDetachOut(c) PROVE IInv' /\ ServiceStep
  <1>1. TypeOK'
    BY DEF IInv, TypeOK, WorkerDetachOut, WorkerDetach
  <1>2. InFrame' /\ Untouched'
    BY DEF IInv, Untouched, InFrame, WorkerDetachOut, WorkerDetach
  <1>3. ASSUME NEW d \in Clients, d # c PROVE Undisturbed(d)
    BY <1>3 DEF Undisturbed, WorkerDetachOut, WorkerDetach
  <1>4. /\ "server" \in alive
        /\ wpc[c] = "detachOut"
        /\ wpc'[c] = "reply"
        /\ smap'[c] = smap[c] \ {"out"}
        /\ UNCHANGED <<pc[c], left[c], oks[c], req[c], bench[c], cmap[c], win[c],
                       wreq[c], wres[c], wrc[c], mpc, slots, frame, gate, alive,
                       ready, mem[<<c, "in">>], mem[<<c, "out">>], ds>>
    BY Types DEF WorkerDetachOut, WorkerDetach
  <1>5. Connection(c)'
    <2>. Connection(c)
      BY DEF IInv
    <2>1. Started(c)'
      BY <1>4 DEF Connection, Started, Starting
    <2>2. Connected(c)'
      BY <1>4 DEF Connection, Connected, Starting
    <2>3. Asked(c)'
      BY <1>4 DEF Connection, Asked
    <2>4. Busy(c)'
      BY <1>4, OpFacts DEF Connection, Busy
    <2>5. Answered(c)'
      BY <1>4, OpFacts DEF Connection, Busy, Answered
    <2>6. Mapped(c)'
      BY <1>4, OpFacts DEF Connection, Busy, Mapped
    <2>7. CountedOnce(c)'
      BY <1>4 DEF Connection, CountedOnce
    <2> QED  BY <2>1, <2>2, <2>3, <2>4, <2>5, <2>6, <2>7 DEF Connection
  <1>6. ServiceStep
    <2>1. AbsPhase'[c] = AbsPhase[c] /\ AbsCall'[c] = AbsCall[c] /\ AbsAnswer'[c] = AbsAnswer[c]
      BY <1>4, OpFacts DEF IInv, Connection, Busy, AbsPhase, AbsCall, AbsAnswer, Executed, InCall
    <2>2. UNCHANGED <<store, oks>>
      BY DEF WorkerDetachOut, WorkerDetach
    <2> QED  BY <1>3, <2>1, <2>2, Stutters DEF ServiceStep
  <1> QED  BY <1>1, <1>2, <1>3, <1>5, <1>6, UndisturbedKeeps DEF IInv

LEMMA WorkerDetachFailsInv == ASSUME IInv, NEW c \in Clients, WorkerDetachFails(c) PROVE IInv' /\ ServiceStep
  <1>1. TypeOK'
    BY DEF IInv, TypeOK, WorkerDetachFails
  <1>2. InFrame' /\ Untouched'
    BY DEF IInv, Untouched, InFrame, WorkerDetachFails
  <1>3. ASSUME NEW d \in Clients, d # c PROVE Undisturbed(d)
    BY <1>3 DEF Undisturbed, WorkerDetachFails
  <1>4. /\ "server" \in alive
        /\ wpc[c] \in {"detachIn", "detachOut"}
        /\ wpc'[c] = "reply"
        /\ wrc'[c] = "einval"
        /\ UNCHANGED <<pc[c], left[c], oks[c], req[c], bench[c], cmap[c], win[c],
                       smap[c], wreq[c], wres[c], mpc, slots, frame, gate, alive,
                       ready, mem[<<c, "in">>], mem[<<c, "out">>], ds>>
    BY Types DEF WorkerDetachFails
  <1>5. Connection(c)'
    <2>. Connection(c)
      BY DEF IInv
    <2>1. Started(c)'
      BY <1>4 DEF Connection, Started, Starting
    <2>2. Connected(c)'
      BY <1>4 DEF Connection, Connected, Starting
    <2>3. Asked(c)'
      BY <1>4 DEF Connection, Asked
    <2>4. Busy(c)'
      BY <1>4, OpFacts DEF Connection, Busy
    <2>5. Answered(c)'
      BY <1>4 DEF Connection, Answered
    <2>6. Mapped(c)'
      BY <1>4, OpFacts DEF Connection, Busy, Mapped
    <2>7. CountedOnce(c)'
      BY <1>4 DEF Connection, CountedOnce
    <2> QED  BY <2>1, <2>2, <2>3, <2>4, <2>5, <2>6, <2>7 DEF Connection
  <1>6. ServiceStep
    <2>1. AbsPhase'[c] = AbsPhase[c] /\ AbsCall'[c] = AbsCall[c] /\ AbsAnswer'[c] = AbsAnswer[c]
      BY <1>4 DEF IInv, Connection, Connected, AbsPhase, AbsCall, AbsAnswer, Executed, ExecutedBy,
         InCall
    <2>2. UNCHANGED <<store, oks>>
      BY DEF WorkerDetachFails
    <2> QED  BY <1>3, <2>1, <2>2, Stutters DEF ServiceStep
  <1> QED  BY <1>1, <1>2, <1>3, <1>5, <1>6, UndisturbedKeeps DEF IInv

LEMMA ReplyInv == ASSUME IInv, NEW c \in Clients, Reply(c) PROVE IInv' /\ ServiceStep
  <1>0. /\ pc[c] = "rpc" /\ bench[c] = c
        /\ pc' = [pc EXCEPT ![c] = AfterReply(req[c].op, wrc[c])]
        /\ req' = [req EXCEPT ![c] = IF pc'[c] = "threw" THEN NoCall ELSE @]
        /\ req[c].op = "c" <=> req[c] = CloseCall
        /\ IsResult(wres[c])
    <2>1. PICK b \in Callers(c) :
            /\ pc' = [pc EXCEPT ![b] = AfterReply(req[b].op, wrc[c])]
            /\ req' = [req EXCEPT ![b] = IF pc'[b] = "threw" THEN NoCall ELSE @]
      BY DEF Reply
    <2>2. b = c /\ pc[c] = "rpc" /\ bench[c] = c
      BY DEF IInv, Connection, Connected, Callers
    <2>3. req[c] \in Requests \cup {CloseCall}
      BY <2>2 DEF IInv, Connection, Asked
    <2>4. req[c].op = "c" <=> req[c] = CloseCall
      BY <2>3, OpFacts
    <2>5. IsResult(wres[c])
      BY DEF IInv, TypeOK
    <2> QED  BY <2>1, <2>2, <2>4, <2>5
  <1>1. TypeOK'
    <2>1. \A w \in Clients : IsResult(wres'[w])
      BY NoDataIsResult DEF IInv, TypeOK, Reply
    <2> QED  BY <1>0, <2>1 DEF IInv, TypeOK, Reply, AfterReply
  <1>2. InFrame' /\ Untouched'
    BY DEF IInv, Untouched, InFrame, Reply
  <1>3. ASSUME NEW d \in Clients, d # c PROVE Undisturbed(d)
    BY <1>3 DEF Undisturbed, IInv, Connection, Connected, Reply, Callers
  <1>4. /\ "server" \in alive
        /\ wpc[c] = "reply"
        /\ pc[c] = "rpc"
        /\ bench[c] = c
        /\ IsResult(wres[c])
        /\ wpc'[c] = "serve"
        /\ pc'[c] = IF req[c] = CloseCall THEN "detachIn" ELSE IF wrc[c] = "ok" THEN "parse" ELSE "threw"
        /\ req'[c] = IF pc'[c] = "threw" THEN NoCall ELSE req[c]
        /\ wreq'[c] = NoCall
        /\ wres'[c] = NoData
        /\ UNCHANGED <<left[c], oks[c], bench[c], cmap[c], win[c], smap[c], wrc[c],
                       mpc, slots, frame, gate, alive, ready, mem[<<c, "in">>],
                       mem[<<c, "out">>], ds>>
    BY <1>0, Types DEF Reply, AfterReply
  <1>5. Connection(c)'
    <2>. Connection(c)
      BY DEF IInv
    <2>1. Started(c)'
      BY <1>4 DEF Connection, Started, Starting
    <2>2. Connected(c)'
      BY <1>4 DEF Connection, Connected, Starting
    <2>3. Asked(c)'
      BY <1>4 DEF Connection, Asked, Leaving
    <2>4. Busy(c)'
      BY <1>4 DEF Busy
    <2>5. Answered(c)'
      BY <1>4 DEF Connection, Asked, Answered
    <2>6. Mapped(c)'
      BY <1>4 DEF Connection, Asked, Mapped, Leaving
    <2>7. CountedOnce(c)'
      BY <1>4, ConstFacts, CountTypes DEF Connection, Asked, CountedOnce
    <2> QED  BY <2>1, <2>2, <2>3, <2>4, <2>5, <2>6, <2>7 DEF Connection
  <1>6. ServiceStep
    <2>1. UNCHANGED <<store, oks>>
      BY DEF Reply
    <2>2. CASE pc'[c] = "threw"
      BY <1>3, <1>4, <2>1, <2>2, Throws DEF ServiceStep
    <2>3. CASE pc'[c] # "threw"
      <3>1. AbsPhase'[c] = AbsPhase[c] /\ AbsCall'[c] = AbsCall[c]
        BY <1>4, <2>3, OpFacts DEF AbsPhase, AbsCall, Executed, ExecutedBy, InCall
      <3>2. AbsAnswer'[c] = AbsAnswer[c]
        BY <1>4, OpFacts DEF IInv, Connection, Answered, AbsAnswer, Executed, ExecutedBy, InCall,
           Received
      <3> QED  BY <1>3, <2>1, <3>1, <3>2, Stutters DEF ServiceStep
    <2> QED  BY <2>2, <2>3
  <1> QED  BY <1>1, <1>2, <1>3, <1>5, <1>6, UndisturbedKeeps DEF IInv

\* Steps that change nothing the service sees.
LEMMA Unseen ==
    ASSUME UNCHANGED <<store, pc, oks, req, bench, wpc, wres, wrc, mem>>
    PROVE  ServiceStep
  <1>1. \A d \in Clients :
            /\ Executed(d)' = Executed(d)
            /\ InCall(d)' = InCall(d)
            /\ Received(d)' = Received(d)
    BY DEF Executed, ExecutedBy, InCall, Received
  <1>2. AbsPhase' = AbsPhase /\ AbsCall' = AbsCall /\ AbsAnswer' = AbsAnswer
    BY <1>1 DEF AbsPhase, AbsCall, AbsAnswer
  <1> QED  BY <1>2 DEF ServiceStep, Service!vars

LEMMA StutterInv == ASSUME IInv, UNCHANGED vars PROVE IInv' /\ ServiceStep
  <1>1. TypeOK' /\ InFrame' /\ Untouched'
    BY DEF IInv, TypeOK, Untouched, InFrame, vars
  <1>2. ASSUME NEW d \in Clients PROVE Undisturbed(d)
    BY DEF Undisturbed, vars
  <1>3. ServiceStep
    BY Unseen DEF vars
  <1> QED  BY <1>1, <1>2, <1>3, UndisturbedKeeps DEF IInv

LEMMA EmptyTableType == EmptyTable \in Table
  BY DEF EmptyTable, Table

LEMMA CreateSchemaInv == ASSUME IInv, CreateSchema PROVE IInv' /\ ServiceStep
  <1>1. TypeOK'
    <2>1. EmptyTable \in Table
      BY EmptyTableType
    <2> QED  BY <2>1 DEF IInv, TypeOK, CreateSchema
  <1>2. InFrame' /\ Untouched'
    BY DEF IInv, Untouched, InFrame, CreateSchema
  <1>3. ASSUME NEW d \in Clients PROVE Undisturbed(d)
    BY DEF Undisturbed, CreateSchema
  <1>6. ServiceStep
    BY Unseen DEF IInv, Untouched, CreateSchema
  <1> QED  BY <1>6, <1>1, <1>2, <1>3, UndisturbedKeeps DEF IInv

LEMMA SchemaFailsInv == ASSUME IInv, SchemaFails PROVE IInv' /\ ServiceStep
  <1>1. TypeOK' /\ InFrame' /\ Untouched'
    BY DEF IInv, TypeOK, Untouched, InFrame, SchemaFails
  <1>2. ASSUME NEW d \in Clients PROVE Connection(d)'
    <2>1. /\ Connection(d)
          /\ pc[d] = "init"
          /\ "server" \in alive /\ "client" \notin alive'
          /\ UNCHANGED <<ready, pc, left, oks, req, bench, cmap, mpc, slots, frame, gate,
                         wpc, win, smap, wreq, wres, wrc, mem, ds>>
      BY DEF IInv, Connection, Connected, SchemaFails
    <2>2. Started(d)' /\ Connected(d)' /\ Asked(d)'
      BY <2>1 DEF Connection, Started, Connected, Asked
    <2>3. Busy(d)' /\ Answered(d)' /\ CountedOnce(d)'
      BY <2>1 DEF Connection, Busy, Answered, CountedOnce
    <2>4. Mapped(d)'
      BY <2>1 DEF Connection, Mapped
    <2> QED  BY <2>2, <2>3, <2>4 DEF Connection
  <1>6. ServiceStep
    BY Unseen DEF SchemaFails
  <1> QED  BY <1>6, <1>1, <1>2 DEF IInv

LEMMA AbortInv == ASSUME IInv, Abort PROVE IInv' /\ ServiceStep
  <1>1. TypeOK' /\ InFrame' /\ Untouched'
    BY DEF IInv, TypeOK, Untouched, InFrame, Abort
  <1>2. ASSUME NEW d \in Clients PROVE Connection(d)'
    <2>1. /\ Connection(d)
          /\ "server" \notin alive' /\ smap'[d] = {}
          /\ "client" \in alive' => "client" \in alive
          /\ UNCHANGED <<ready, pc, left, oks, req, bench, cmap, mpc, slots, frame, gate,
                         wpc, win, wreq, wres, wrc, mem, ds>>
      BY DEF IInv, Abort
    <2>2. Started(d)' /\ Connected(d)' /\ Asked(d)'
      BY <2>1 DEF Connection, Started, Connected, Asked
    <2>3. Busy(d)' /\ Answered(d)' /\ CountedOnce(d)'
      BY <2>1 DEF Connection, Busy, Answered, CountedOnce
    <2>4. Mapped(d)'
      BY <2>1 DEF Connection, Mapped
    <2> QED  BY <2>2, <2>3, <2>4 DEF Connection
  <1>6. ServiceStep
    BY Unseen DEF Abort
  <1> QED  BY <1>6, <1>1, <1>2 DEF IInv

LEMMA ClientDiesInv == ASSUME IInv, ClientDies PROVE IInv' /\ ServiceStep
  <1>1. TypeOK' /\ InFrame' /\ Untouched'
    BY DEF IInv, TypeOK, Untouched, InFrame, ClientDies
  <1>2. ASSUME NEW d \in Clients PROVE Undisturbed(d)
    BY DEF Undisturbed, ClientDies
  <1>6. ServiceStep
    BY Unseen DEF ClientDies
  <1> QED  BY <1>6, <1>1, <1>2, UndisturbedKeeps DEF IInv

\* The reply of op_spawn: the worker has passed on its own gate.
LEMMA ReplySpawnInv == ASSUME IInv, ReplySpawn PROVE IInv' /\ ServiceStep
  <1>0. PICK c \in Clients : frame = c /\ gate = c /\ wpc[c] = "serve" /\ pc[c] = "spawn"
    BY DEF IInv, InFrame, Connection, Started, ReplySpawn
  <1>1. TypeOK'
    BY DEF IInv, TypeOK, ReplySpawn
  <1>2. InFrame' /\ Untouched'
    BY DEF IInv, Untouched, InFrame, ReplySpawn
  <1>3. ASSUME NEW d \in Clients, d # c PROVE Undisturbed(d)
    BY <1>0, <1>3, ConstFacts DEF Undisturbed, IInv, Connection, Started, ReplySpawn
  <1>4. /\ "server" \in alive /\ wpc[c] = "serve"
        /\ pc[c] = "spawn" /\ pc'[c] = "idle"
        /\ bench'[c] = c
        /\ frame' = None
        /\ UNCHANGED <<left[c], oks[c], req[c], cmap[c], wpc[c], win[c], smap[c], wreq[c],
                       wres[c], wrc[c], slots, alive, ready, mem, ds>>
    BY <1>0, Types DEF ReplySpawn
  <1>5. Connection(c)'
    <2>1. Connection(c)
      BY DEF IInv
    <2>2. Started(c)' /\ Connected(c)' /\ Asked(c)'
      BY <1>4, <2>1, ConstFacts DEF Connection, Started, Connected, Asked, Starting, Leaving
    <2>3. Busy(c)' /\ Answered(c)' /\ CountedOnce(c)'
      BY <1>4, <2>1 DEF Connection, Busy, Answered, CountedOnce
    <2>4. Mapped(c)'
      BY <1>4, <2>1 DEF Connection, Mapped, Leaving
    <2> QED  BY <2>2, <2>3, <2>4 DEF Connection
  <1>6. ServiceStep
    <2>1. AbsPhase'[c] = AbsPhase[c] /\ AbsCall'[c] = AbsCall[c] /\ AbsAnswer'[c] = AbsAnswer[c]
      BY <1>4 DEF AbsPhase, AbsCall, AbsAnswer, Executed, InCall
    <2>2. UNCHANGED <<store, oks>>
      BY DEF ReplySpawn
    <2> QED  BY <1>3, <2>1, <2>2, Stutters DEF ServiceStep
  <1> QED  BY <1>6, <1>1, <1>2, <1>3, <1>5, UndisturbedKeeps DEF IInv

LEMMA RpcFailsInv == ASSUME IInv, NEW c \in Clients, RpcFails(c) PROVE IInv' /\ ServiceStep
  <1>0. /\ pc[c] \in {"spawn", "rpc"}
        /\ pc' = [pc EXCEPT ![c] = IF req[c] = CloseCall THEN "detachIn" ELSE "threw"]
    <2>1. CASE pc[c] = "spawn"
      BY <2>1, OpFacts DEF IInv, Connection, Asked, RpcFails
    <2>2. CASE pc[c] = "rpc"
      BY OpFacts DEF IInv, Connection, Asked, RpcFails, AfterReply
    <2> QED  BY <2>1, <2>2 DEF RpcFails
  <1>1. TypeOK'
    BY <1>0 DEF IInv, TypeOK, RpcFails
  <1>2. InFrame' /\ Untouched'
    BY DEF IInv, Untouched, InFrame, RpcFails
  <1>3. ASSUME NEW d \in Clients, d # c PROVE Undisturbed(d)
    BY <1>3, Types DEF Undisturbed, RpcFails
  <1>4. /\ "client" \in alive /\ "server" \notin alive
        /\ pc[c] \in {"spawn", "rpc"}
        /\ pc'[c] = (IF req[c] = CloseCall THEN "detachIn" ELSE "threw")
        /\ req'[c] = (IF pc'[c] = "threw" THEN NoCall ELSE req[c])
        /\ UNCHANGED <<left[c], oks[c], bench[c], cmap[c], wpc[c], win[c], smap[c], wreq[c],
                       wres[c], wrc[c], mpc, slots, frame, gate, alive, ready, mem, ds>>
    BY <1>0, Types DEF RpcFails
  <1>5. Connection(c)'
    <2>1. Connection(c)
      BY DEF IInv
    <2>2. Started(c)' /\ Connected(c)' /\ Asked(c)'
      BY <1>4, <2>1, OpFacts DEF Connection, Started, Connected, Asked, Leaving
    <2>3. Busy(c)' /\ Answered(c)'
      BY <1>4, <2>1 DEF Connection, Busy, Answered
    <2>4. Mapped(c)'
      BY <1>4, <2>1 DEF Connection, Mapped
    <2>5. CountedOnce(c)'
      BY <1>4, <2>1, OpFacts, CountTypes, ConstFacts DEF Connection, CountedOnce
    <2> QED  BY <2>2, <2>3, <2>4, <2>5 DEF Connection
  <1>6. ServiceStep
    <2>1. UNCHANGED <<store, oks>>
      BY DEF RpcFails
    <2>2. CASE pc'[c] = "threw"
      BY <1>3, <1>4, <2>1, <2>2, Throws DEF ServiceStep
    <2>3. CASE pc'[c] # "threw"
      <3>1. AbsPhase'[c] = AbsPhase[c] /\ AbsCall'[c] = AbsCall[c] /\ AbsAnswer'[c] = AbsAnswer[c]
        BY <1>4, <2>3, OpFacts DEF AbsPhase, AbsCall, AbsAnswer, Executed, InCall
      <3> QED  BY <1>3, <2>1, <3>1, Stutters DEF ServiceStep
    <2> QED  BY <2>2, <2>3
  <1> QED  BY <1>6, <1>1, <1>2, <1>3, <1>5, UndisturbedKeeps DEF IInv

-----------------------------------------------------------------------------
LEMMA InitInv == Init => IInv
  <1> SUFFICES ASSUME Init PROVE IInv
    OBVIOUS
  <1>1. TypeOK
    <2>1. EmptyTable \in Table
      BY EmptyTableType
    <2>2. DOMAIN wres = Clients /\ \A w \in Clients : IsResult(wres[w])
      BY NoDataIsResult DEF Init
    <2>3. DOMAIN mem = Spaces /\ \A d \in Spaces : mem[d] = Blank
      BY DEF Init
    <2>4. left \in [Clients -> 0 .. NumOps] /\ oks \in [Clients -> 0 .. NumOps]
      BY ConstFacts DEF Init
    <2>5. /\ pc \in [Clients -> {"init"}]
          /\ req \in [Clients -> {NoCall}]
          /\ bench \in [Clients -> {None}]
          /\ cmap \in [Clients -> SUBSET Windows]
          /\ slots \in [Windows -> {None}]
          /\ wpc \in [Clients -> {"none"}]
          /\ win \in [Clients -> [Windows -> {None}]]
          /\ smap \in [Clients -> SUBSET Windows]
          /\ wreq \in [Clients -> {NoCall}]
          /\ wrc \in [Clients -> {"ok"}]
      BY DEF Init
    <2> QED  BY <2>1, <2>2, <2>4 DEF Init, TypeOK
  <1>2. InFrame /\ Untouched
    BY DEF Init, InFrame, Untouched
  <1>3. ASSUME NEW c \in Clients PROVE Connection(c)
    <2>1. Started(c) /\ Connected(c) /\ Asked(c)
      BY ConstFacts DEF Init, Started, Connected, Asked, Starting, Leaving
    <2>2. Busy(c) /\ Answered(c) /\ Mapped(c)
      BY DEF Init, Busy, Answered, Mapped
    <2>3. CountedOnce(c)
      BY OpFacts, ConstFacts DEF Init, CountedOnce
    <2> QED  BY <2>1, <2>2, <2>3 DEF Connection
  <1> QED  BY <1>1, <1>2, <1>3 DEF IInv

LEMMA ClientStepInv == ASSUME IInv, NEW c \in Clients, ClientStep(c) PROVE IInv' /\ ServiceStep
  BY InitConnInv, InitFailsInv, BeginOpInv, BeginOpThrowsInv, BeginCloseInv, RpcFailsInv,
     ReturnInv, DetachInInv, DetachOutInv, DetachFailsInv, ReleaseWindowsInv, TerminateInv DEF
     ClientStep

LEMMA MainStepInv == ASSUME IInv, MainStep PROVE IInv' /\ ServiceStep
  BY OpSpawnInv, SpawnRefusedInv, AbortInv, ReplySpawnInv DEF MainStep, SpawnThrows

LEMMA WorkerStepInv == ASSUME IInv, NEW w \in Clients, WorkerStep(w) PROVE IInv' /\ ServiceStep
  BY CopyArgsInv, ConstructInv, PublishInv, RendezvousInv, ReceiveInv, ParseInv, ExecInv,
     ExecFailsInv, WriteResultInv, WorkerDetachInInv, WorkerDetachOutInv, WorkerDetachFailsInv,
     ReplyInv, AbortInv DEF WorkerStep, ConstructThrows, ExecThrows, WriteThrows

LEMMA NextInv == IInv /\ [Next]_vars => IInv' /\ ServiceStep
  <1> SUFFICES ASSUME IInv, [Next]_vars PROVE IInv' /\ ServiceStep
    OBVIOUS
  <1>1. CASE Next
    BY CreateSchemaInv, SchemaFailsInv, ClientDiesInv, MainStepInv, ClientStepInv, WorkerStepInv,
       StutterInv DEF Next, Terminating
  <1>2. CASE UNCHANGED vars
    BY <1>2, StutterInv
  <1> QED  BY <1>1, <1>2

LEMMA IInvHolds == Spec => []IInv
  BY InitInv, NextInv, PTL DEF Spec

-----------------------------------------------------------------------------
(* The theorems. *)

\* Every variable keeps its type, for any number of connections and calls.
THEOREM TypeCorrect == Spec => []TypeOK
  <1>1. IInv => TypeOK
    BY DEF IInv
  <1> QED  BY <1>1, IInvHolds, PTL

\* A worker uses the stack frame of op_spawn only while op_spawn waits for it
\* (BenchServer::loop's arguments and the gate it writes back).
THEOREM FramesLive == Spec => []FrameLive
  <1>1. IInv => FrameLive
    BY DEF IInv, Connection, Started, Starting, FrameLive
  <1> QED  BY <1>1, IInvHolds, PTL

\* Although all capabilities pass through one pair of receive slots, every
\* client ends up with a worker in its own two dataspaces.
THEOREM ConnectionsSeparate == Spec => []OwnConnection
  <1>1. IInv => OwnConnection
    BY DEF IInv, Connection, Connected, Started, Starting, OwnWindows, OwnConnection
  <1> QED  BY <1>1, IInvHolds, PTL

\* No access to an unmapped or deleted window, and never by both sides at once.
THEOREM AccessesSafe == Spec => []WindowsLive
  <1>1. ASSUME IInv, NEW c \in Clients, NEW i \in ClientTouches(c)
        PROVE  i \in cmap[c] /\ <<c, i>> \in ds
    BY <1>1 DEF IInv, Connection, Mapped, ClientTouches
  <1>2. ASSUME IInv, NEW w \in Clients, NEW i \in WorkerTouches(w)
        PROVE  /\ i \in smap[w]
               /\ win[w][i] = <<w, i>>
               /\ <<w, i>> \in ds
               /\ ClientTouches(w) = {}
    <2>1. "server" \in alive /\ wpc[w] \in {"parse", "write"} /\ pc[w] = "rpc"
      BY <1>2 DEF IInv, Connection, Busy, WorkerTouches
    <2>2. smap[w] = Windows /\ <<w, "in">> \in ds /\ <<w, "out">> \in ds
      BY <1>2, <2>1 DEF IInv, Connection, Mapped
    <2>3. win[w] = OwnWindows(w)
      BY <1>2, <2>1 DEF IInv, Connection, Started
    <2> QED  BY <2>1, <2>2, <2>3 DEF OwnWindows, WorkerTouches, ClientTouches
  <1>3. ASSUME IInv, NEW w \in Clients, NEW i \in WorkerTouches(w), NEW c \in Clients,
               win[w][i] = <<c, i>>
        PROVE  ClientTouches(c) = {}
    <2>1. win[w][i] = <<w, i>> /\ ClientTouches(w) = {}
      BY <1>3, <1>2
    <2>2. c = w
      BY <1>3, <2>1
    <2> QED  BY <2>1, <2>2
  <1>4. IInv => WindowsLive
    <2> SUFFICES ASSUME IInv PROVE WindowsLive
      OBVIOUS
    <2>1. ASSUME NEW c \in Clients, NEW i \in ClientTouches(c)
          PROVE  i \in cmap[c] /\ <<c, i>> \in ds
      BY <1>1
    <2>2. ASSUME NEW w \in Clients, NEW i \in WorkerTouches(w)
          PROVE  i \in smap[w] /\ win[w][i] \in ds
      BY <1>2
    <2> QED  BY <1>3, <2>1, <2>2 DEF WindowsLive
  <1> QED  BY <1>4, IInvHolds, PTL

\* A worker is busy only with the request that its one caller is blocked in.
THEOREM ServesCurrent == Spec => []WorkerServesItsClient
  <1>1. ASSUME IInv, NEW w \in Clients, wreq[w] # NoCall, alive = Processes
        PROVE  Callers(w) = {w} /\ wreq[w] = req[w]
    <2>1. pc[w] = "rpc" /\ wreq[w] = req[w]
      BY <1>1 DEF IInv, Connection, Busy
    <2>2. bench[w] = w /\ \A c \in Clients : bench[c] \in {None, c}
      BY <1>1, <2>1 DEF IInv, Connection, Connected
    <2> QED  BY <2>1, <2>2, ConstFacts DEF Callers
  <1>2. IInv => WorkerServesItsClient
    BY <1>1 DEF WorkerServesItsClient
  <1> QED  BY <1>2, IInvHolds, PTL

\* A client deletes its dataspaces only after the server has let go of both,
\* unless the server could not.
THEOREM DeletedAfterDetach == Spec => []DeleteAfterDetach
  <1>1. ASSUME IInv, NEW c \in Clients, bench[c] # None, pc[c] \in {"terminate", "closed"}
        PROVE  smap[bench[c]] = {} \/ wrc[bench[c]] = "einval"
    <2>1. bench[c] = c
      BY <1>1 DEF IInv, Connection, Connected
    <2> QED  BY <1>1, <2>1 DEF IInv, Connection, Mapped, Leaving
  <1>2. IInv => DeleteAfterDetach
    BY <1>1 DEF DeleteAfterDetach
  <1> QED  BY <1>2, IInvHolds, PTL

\* The IPC back end keeps the promise of ycsbc::DB: every call takes effect at
\* most once and at one instant between its invocation and its return, and
\* what the caller parses is the answer of that instant.
THEOREM Implements == Spec => IpcServiceSpec
  <1>1. Init => Service!Init
    <2> SUFFICES ASSUME Init PROVE Service!Init
      OBVIOUS
    <2>1. \A d \in Clients : ~InCall(d) /\ pc[d] # "threw"
      BY OpFacts DEF Init, InCall
    <2>2. /\ AbsPhase = [c \in Clients |-> "idle"]
          /\ AbsCall = [c \in Clients |-> NoCall]
          /\ AbsAnswer = [c \in Clients |-> NoData]
      BY <2>1 DEF AbsPhase, AbsCall, AbsAnswer, Executed
    <2> QED  BY <2>2, ServiceData DEF Init, Service!Init
  <1>2. IInv /\ [Next]_vars => [Service!Next]_(Service!vars)
    BY NextInv DEF ServiceStep
  <1> QED  BY <1>1, <1>2, IInvHolds, PTL DEF Spec, IpcServiceSpec, Service!Spec
=============================================================================
