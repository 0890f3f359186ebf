------------------------------ MODULE SqliteIpc ------------------------------
(***************************************************************************)
(* The IPC back end: SqliteIpcDB in the benchmark process and the "ipc"    *)
(* server process.  The main thread of the server starts one worker thread *)
(* per connection.  It hands the worker pointers to its own stack frame    *)
(* and to its own receive slots, blocks until the worker has sent it an    *)
(* empty message, and only then replies with the worker's IPC gate.  From  *)
(* there on client and worker talk by synchronous RPC; arguments and       *)
(* results travel in two dataspaces.                                       *)
(*                                                                         *)
(* One element of Clients is one DelegateClient call; the worker thread    *)
(* started for it, its gate and its dataspaces carry the same name, but    *)
(* the model decides by what the code passes around which of them meet.    *)
(***************************************************************************)
EXTENDS KVStore

CONSTANTS
    Clients,       \* DelegateClient calls
    Requests,      \* the requests they make
    NumOps,        \* num_ops of each of them
    Wave,          \* the phase of the driver that starts it
    Oversized,     \* requests that do not fit into a window
    MaxRows,       \* records of a scan result that fit into a window
    KernelFaults,  \* whether allocation, attach, detach, migration may fail
    None,          \* an empty slot, an unset gate, no frame
    Blank,         \* window contents before the first message
    Torn           \* window contents left by a serialisation that threw

ASSUME IpcAssumption ==
    /\ Requests \subseteq {r \in Request : Serialized(r)}
    /\ Oversized \subseteq Requests
    /\ NumOps \in Nat
    /\ Wave \in [Clients -> Nat]
    /\ MaxRows \in Nat
    /\ KernelFaults \in BOOLEAN
    /\ None \notin Clients
    /\ Torn \notin Requests
    /\ Blank \notin Requests

VARIABLES
    ready,     \* the schema exists and the server has opened the database
    alive,     \* the processes that still run
    store,     \* the database of the server process
    \* benchmark threads
    pc,        \* pc[c]: control state
    left,      \* left[c]: calls it has still to make
    oks,       \* oks[c]: calls that returned kOK
    req,       \* req[c]: arguments of the call it is in
    bench,     \* bench[c]: the gate it got from spawn
    cmap,      \* cmap[c]: windows mapped in the benchmark process
    \* main thread of the server
    mpc,       \* control state: "loop", "wait", "reply"
    slots,     \* rcv_cap(0), rcv_cap(1): the dataspaces last received
    frame,     \* the client whose op_spawn frame is on the stack
    gate,      \* the variable gate of that frame
    \* worker threads
    wpc,       \* wpc[w]: control state
    win,       \* win[w]: ds_in and ds_out of the BenchServer
    smap,      \* smap[w]: which of them are mapped in the server process
    wreq,      \* wreq[w]: deserialised request
    wres,      \* wres[w]: result vector
    wrc,       \* wrc[w]: return code of the handler
    \* memory
    mem,       \* mem[d]: contents of dataspace d
    ds         \* the dataspaces that exist

cvars == <<pc, left, oks, req, bench, cmap>>
mvars == <<mpc, slots, frame, gate>>
wvars == <<wpc, win, smap, wreq, wres, wrc>>
vars == <<ready, alive, store, cvars, mvars, wvars, mem, ds>>

Processes == {"client", "server"}
Windows == {"in", "out"}
Spaces == Clients \X Windows
NoCall == [op |-> "none"]
CloseCall == [op |-> "c"]

-----------------------------------------------------------------------------
Client(c, from, to) ==
    /\ "client" \in alive
    /\ pc[c] = from
    /\ pc' = [pc EXCEPT ![c] = to]

Main(from, to) ==
    /\ "server" \in alive
    /\ mpc = from
    /\ mpc' = to

Worker(w, from, to) ==
    /\ "server" \in alive
    /\ wpc[w] = from
    /\ wpc' = [wpc EXCEPT ![w] = to]

\* An exception other than L4::Runtime_error leaves every server loop and ends
\* the process.
Abort ==
    /\ alive' = alive \ {"server"}
    /\ smap' = [w \in Clients |-> {}]
    /\ UNCHANGED <<ready, store, cvars, mvars, wpc, win, wreq, wres, wrc, mem, ds>>

Init ==
    /\ ready = FALSE
    /\ alive = Processes
    /\ store = EmptyTable
    /\ pc = [c \in Clients |-> "init"]
    /\ left = [c \in Clients |-> NumOps]
    /\ oks = [c \in Clients |-> 0]
    /\ req = [c \in Clients |-> NoCall]
    /\ bench = [c \in Clients |-> None]
    /\ cmap = [c \in Clients |-> {}]
    /\ mpc = "loop"
    /\ slots = [i \in Windows |-> None]
    /\ frame = None
    /\ gate = None
    /\ wpc = [w \in Clients |-> "none"]
    /\ win = [w \in Clients |-> [i \in Windows |-> None]]
    /\ smap = [w \in Clients |-> {}]
    /\ wreq = [w \in Clients |-> NoCall]
    /\ wres = [w \in Clients |-> NoData]
    /\ wrc = [w \in Clients |-> "ok"]
    /\ mem = [d \in Spaces |-> Blank]
    /\ ds = {}

-----------------------------------------------------------------------------
(* Start-up. *)

CreateSchema ==
    /\ alive = Processes
    /\ ~ready
    /\ ready' = TRUE
    /\ store' = EmptyTable
    /\ UNCHANGED <<alive, cvars, mvars, wvars, mem, ds>>

\* The infopage cannot be mapped (an error code: the client throws), or the
\* server throws while it opens the database.
SchemaFails ==
    /\ KernelFaults
    /\ alive = Processes
    /\ ~ready
    /\ alive' \in {{"server"}, {}}
    /\ UNCHANGED <<ready, store, cvars, mvars, wvars, mem, ds>>

\* The driver starts a phase when every thread of the one before has returned.
MayStart(c) ==
    /\ ready
    /\ \A d \in Clients : Wave[d] < Wave[c] => pc[d] \in {"closed", "leaked"}

InitConn(c) ==
    /\ MayStart(c)
    /\ Client(c, "init", "spawn")
    /\ ds' = ds \cup ({c} \X Windows)
    /\ cmap' = [cmap EXCEPT ![c] = Windows]
    /\ UNCHANGED <<ready, alive, store, left, oks, req, bench, mvars, wvars, mem>>

\* One of the kernel calls of Init fails; what it had obtained stays behind.
InitFails(c) ==
    /\ KernelFaults
    /\ MayStart(c)
    /\ Client(c, "init", "threw")
    /\ \E got \in {{}, {"in"}, Windows}, m \in {{}, {"in"}} :
        /\ m # {} => got = Windows
        /\ ds' = ds \cup ({c} \X got)
        /\ cmap' = [cmap EXCEPT ![c] = m]
    /\ UNCHANGED <<ready, alive, store, left, oks, req, bench, mvars, wvars, mem>>

-----------------------------------------------------------------------------
(* The spawn RPC: DbServer::op_spawn and the first half of BenchServer::loop. *)

AfterCreateNoWait == "reply"
AfterCreate == "wait"

\* The main thread receives the call (the two capabilities land in its receive
\* slots), creates the worker and waits for it.
OpSpawn(c) ==
    /\ "client" \in alive
    /\ pc[c] = "spawn"
    /\ Main("loop", AfterCreate)
    /\ slots' = [i \in Windows |-> <<c, i>>]
    /\ frame' = c
    /\ gate' = None
    /\ wpc' = [wpc EXCEPT ![c] = "copy"]
    /\ UNCHANGED <<ready, alive, store, cvars, win, smap, wreq, wres, wrc, mem, ds>>

\* The capabilities were not transferred: an error code, no worker.
SpawnRefused(c) ==
    /\ KernelFaults
    /\ "server" \in alive
    /\ mpc = "loop"
    /\ Client(c, "spawn", "threw")
    /\ UNCHANGED <<ready, alive, store, left, oks, req, bench, cmap, mvars, wvars, mem, ds>>

\* pthread_create fails.
SpawnThrows(c) ==
    /\ KernelFaults
    /\ alive = Processes
    /\ mpc = "loop"
    /\ pc[c] = "spawn"
    /\ Abort

\* The worker copies its arguments out of the frame.
CopyArgs(w) ==
    /\ Worker(w, "copy", "construct")
    /\ UNCHANGED <<ready, alive, store, cvars, mvars, win, smap, wreq, wres, wrc, mem, ds>>

MovedSwapped(caps) == [i \in Windows |-> caps[IF i = "in" THEN "out" ELSE "in"]]
Moved(caps) == caps

\* BenchServer's constructor moves the capabilities out of the slots of the
\* main thread and maps the two windows.
Construct(w) ==
    /\ Worker(w, "construct", "publish")
    /\ win' = [win EXCEPT ![w] = Moved(slots)]
    /\ slots' = [i \in Windows |-> None]
    /\ smap' = [smap EXCEPT ![w] = Windows]
    /\ UNCHANGED <<ready, alive, store, cvars, mpc, frame, gate, wreq, wres, wrc, mem, ds>>

\* Migration, the constructor or the registration of the gate throws.
ConstructThrows(w) ==
    /\ KernelFaults
    /\ "server" \in alive
    /\ wpc[w] \in {"construct", "publish"}
    /\ Abort

\* "*gate = server->obj_cap()" writes into the frame of op_spawn.
Publish(w) ==
    /\ Worker(w, "publish", "send")
    /\ gate' = w
    /\ UNCHANGED <<ready, alive, store, cvars, mpc, slots, frame, win, smap, wreq, wres, wrc, mem, ds>>

\* l4_ipc_send meets the l4_ipc_receive of the main thread, which waits for
\* this worker and nobody else.
Rendezvous(w) ==
    /\ frame = w
    /\ Worker(w, "send", "serve")
    /\ Main("wait", "reply")
    /\ UNCHANGED <<ready, alive, store, cvars, slots, frame, gate, win, smap, wreq, wres, wrc, mem, ds>>

\* op_spawn returns: the frame is gone, the client has its gate.
ReplySpawn ==
    /\ Main("reply", "loop")
    /\ frame' = None
    /\ gate' = None
    /\ pc' = [pc EXCEPT ![frame] = "idle"]
    /\ bench' = [bench EXCEPT ![frame] = gate]
    /\ UNCHANGED <<ready, alive, store, left, oks, req, cmap, slots, wvars, mem, ds>>

-----------------------------------------------------------------------------
(* A call of the benchmark thread: serialise, RPC, parse.                    *)

MoreCallsOffByOne(c) == left[c] >= 0
MoreCalls(c) == left[c] > 0

BeginOp(c) ==
    /\ MoreCalls(c)
    /\ Client(c, "idle", "rpc")
    /\ \E r \in Requests \ Oversized :
        /\ req' = [req EXCEPT ![c] = r]
        /\ mem' = [mem EXCEPT ![<<c, "in">>] = r]
    /\ left' = [left EXCEPT ![c] = @ - 1]
    /\ UNCHANGED <<ready, alive, store, oks, bench, cmap, mvars, wvars, ds>>

\* The serialiser runs out of window; the exception ends the thread.
BeginOpThrows(c) ==
    /\ MoreCalls(c)
    /\ Oversized # {}
    /\ Client(c, "idle", "threw")
    /\ mem' = [mem EXCEPT ![<<c, "in">>] = Torn]
    /\ left' = [left EXCEPT ![c] = @ - 1]
    /\ UNCHANGED <<ready, alive, store, oks, req, bench, cmap, mvars, wvars, ds>>

BeginClose(c) ==
    /\ ~MoreCalls(c)
    /\ Client(c, "idle", "rpc")
    /\ req' = [req EXCEPT ![c] = CloseCall]
    /\ UNCHANGED <<ready, alive, store, left, oks, bench, cmap, mvars, wvars, mem, ds>>

\* What the client does with the reply: any error code of an operation is an
\* exception, one of close is only reported.
AfterReplyUnchecked(op, rc) == IF op = "c" THEN "detachIn" ELSE "parse"
AfterReply(op, rc) ==
    IF op = "c" THEN "detachIn" ELSE IF rc = "ok" THEN "parse" ELSE "threw"

\* The server process is gone: the kernel fails the RPC.
RpcFails(c) ==
    /\ "server" \notin alive
    /\ \/ Client(c, "spawn", "threw")
       \/ Client(c, "rpc", AfterReply(req[c].op, "gone"))
    /\ req' = [req EXCEPT ![c] = IF pc'[c] = "threw" THEN NoCall ELSE @]
    /\ UNCHANGED <<ready, alive, store, left, oks, bench, cmap, mvars, wvars, mem, ds>>

\* Only a query finds data in the window.
Received(c) == IF req[c].op \in Queries THEN mem[<<c, "out">>] ELSE NoData

Return(c) ==
    /\ Client(c, "parse", "idle")
    /\ oks' = [oks EXCEPT ![c] =
                   IF Status(req[c], Received(c)) = "kOK" THEN @ + 1 ELSE @]
    /\ req' = [req EXCEPT ![c] = NoCall]
    /\ UNCHANGED <<ready, alive, store, left, bench, cmap, mvars, wvars, mem, ds>>

-----------------------------------------------------------------------------
(* Close, after the reply to the close RPC.                                  *)

Detach(c, w, from, to) ==
    /\ Client(c, from, to)
    /\ cmap' = [cmap EXCEPT ![c] = @ \ {w}]
    /\ UNCHANGED <<ready, alive, store, left, oks, req, bench, mvars, wvars, mem, ds>>

DetachIn(c) == Detach(c, "in", "detachIn", "detachOut")

DetachOut(c) == Detach(c, "out", "detachOut", "release")

\* A failing detach is reported and Close returns: the dataspaces leak, and
\* the worker is never told to terminate.
DetachFails(c) ==
    /\ KernelFaults
    /\ \E from \in {"detachIn", "detachOut"} : Client(c, from, "leaked")
    /\ UNCHANGED <<ready, alive, store, left, oks, req, bench, cmap, mvars, wvars, mem, ds>>

AfterReleaseForgotten == "closed"
AfterRelease == "terminate"

\* Both dataspaces are deleted.
ReleaseWindows(c) ==
    /\ Client(c, "release", AfterRelease)
    /\ ds' = ds \ ({c} \X Windows)
    /\ UNCHANGED <<ready, alive, store, left, oks, req, bench, cmap, mvars, wvars, mem>>

\* The send-only RPC is delivered when the worker is back in its loop.
Terminate(c) ==
    /\ Client(c, "terminate", "closed")
    /\ \/ bench[c] # None /\ Worker(bench[c], "serve", "exited")
       \/ "server" \notin alive /\ UNCHANGED wpc
    /\ UNCHANGED <<ready, alive, store, left, oks, req, bench, cmap, mvars,
                   win, smap, wreq, wres, wrc, mem, ds>>

\* The exception reaches the main thread through the future and ends it.
ClientDies ==
    /\ "client" \in alive
    /\ \E c \in Clients : pc[c] = "threw"
    /\ alive' = alive \ {"client"}
    /\ cmap' = [c \in Clients |-> {}]
    /\ UNCHANGED <<ready, store, pc, left, oks, req, bench, mvars, wvars, mem, ds>>

-----------------------------------------------------------------------------
(* The worker: registry.loop() and the handlers of BenchI.                   *)

Dispatch(op) == IF op = "c" THEN "detachIn" ELSE "parse"

\* The callers that worker w may receive a message from: its registry binds the
\* gate to its own thread.
CallersAnyGate(w) == {c \in Clients : pc[c] = "rpc" /\ bench[c] # None}
Callers(w) == {c \in Clients : pc[c] = "rpc" /\ bench[c] = w}

Receive(w) ==
    /\ "client" \in alive
    /\ \E c \in Callers(w) : Worker(w, "serve", Dispatch(req[c].op))
    /\ wrc' = [wrc EXCEPT ![w] = "ok"]
    /\ UNCHANGED <<ready, alive, store, cvars, mvars, win, smap, wreq, wres, mem, ds>>

Parse(w) ==
    /\ Worker(w, "parse", "exec")
    /\ wreq' = [wreq EXCEPT ![w] = mem[win[w]["in"]]]
    /\ UNCHANGED <<ready, alive, store, cvars, mvars, win, smap, wres, wrc, mem, ds>>

AfterExecScanOnly(op) == IF op = "s" THEN "write" ELSE "reply"
AfterExec(op) == IF op \in Queries THEN "write" ELSE "reply"

Exec(w) ==
    /\ Succeeds(store, wreq[w])
    /\ Worker(w, "exec", AfterExec(wreq[w].op))
    /\ store' = Effect(store, wreq[w])
    /\ wres' = [wres EXCEPT ![w] = Result(store, wreq[w])]
    /\ UNCHANGED <<ready, alive, cvars, mvars, win, smap, wreq, wrc, mem, ds>>

\* A status other than kOK becomes -L4_EINVAL.
ExecFails(w) ==
    /\ Outcome(store, wreq[w]) = "kErrorNoData"
    /\ Worker(w, "exec", "reply")
    /\ wrc' = [wrc EXCEPT ![w] = "einval"]
    /\ UNCHANGED <<ready, alive, store, cvars, mvars, win, smap, wreq, wres, mem, ds>>

\* A query that has found records keeps the table locked until it is reset.
\* The other writes retry; Delete gives up.
ReadOpen(v) ==
    wpc[v] = "exec" /\ wreq[v].op \in Queries /\ ~Misses(store, wreq[v])

LockedOut(w) == wreq[w].op = "d" /\ \E v \in Clients \ {w} : ReadOpen(v)

ExecThrows(w) ==
    /\ "server" \in alive
    /\ wpc[w] = "exec"
    /\ Outcome(store, wreq[w]) = "throws" \/ LockedOut(w)
    /\ Abort

FitsWindow(res) ==
    "rows" \in DOMAIN res => Cardinality(DOMAIN res.rows) <= MaxRows

\* memset of the whole page, then the result.
WriteResult(w) ==
    /\ FitsWindow(wres[w])
    /\ Worker(w, "write", "reply")
    /\ mem' = [mem EXCEPT ![win[w]["out"]] = wres[w]]
    /\ UNCHANGED <<ready, alive, store, cvars, mvars, win, smap, wreq, wres, wrc, ds>>

WriteThrows(w) ==
    /\ "server" \in alive
    /\ wpc[w] = "write"
    /\ ~FitsWindow(wres[w])
    /\ Abort

WorkerDetach(w, i, from, to) ==
    /\ Worker(w, from, to)
    /\ smap' = [smap EXCEPT ![w] = @ \ {i}]
    /\ UNCHANGED <<ready, alive, store, cvars, mvars, win, wreq, wres, wrc, mem, ds>>

AfterDetachInEarlyReply == "reply"
AfterDetachIn == "detachOut"

WorkerDetachIn(w) == WorkerDetach(w, "in", "detachIn", AfterDetachIn)

WorkerDetachOut(w) == WorkerDetach(w, "out", "detachOut", "reply")

\* op_close gives up at the first detach that fails.
WorkerDetachFails(w) ==
    /\ KernelFaults
    /\ \E from \in {"detachIn", "detachOut"} : Worker(w, from, "reply")
    /\ wrc' = [wrc EXCEPT ![w] = "einval"]
    /\ UNCHANGED <<ready, alive, store, cvars, mvars, win, smap, wreq, wres, mem, ds>>

\* The reply ends the caller's RPC.
Reply(w) ==
    /\ Worker(w, "reply", "serve")
    /\ \E c \in Callers(w) :
        /\ pc' = [pc EXCEPT ![c] = AfterReply(req[c].op, wrc[w])]
        /\ req' = [req EXCEPT ![c] = IF pc'[c] = "threw" THEN NoCall ELSE @]
    /\ wreq' = [wreq EXCEPT ![w] = NoCall]
    /\ wres' = [wres EXCEPT ![w] = NoData]
    /\ UNCHANGED <<ready, alive, store, left, oks, bench, cmap, mvars, win, smap, wrc, mem, ds>>

-----------------------------------------------------------------------------
\* Nothing is left to do: the benchmark is gone or all its threads returned.
Finished ==
    \/ "client" \notin alive
    \/ \A c \in Clients : pc[c] \in {"closed", "leaked"}

Terminating == Finished /\ UNCHANGED vars

ClientStep(c) ==
    \/ InitConn(c) \/ InitFails(c)
    \/ BeginOp(c) \/ BeginOpThrows(c) \/ BeginClose(c) \/ RpcFails(c) \/ Return(c)
    \/ DetachIn(c) \/ DetachOut(c) \/ DetachFails(c) \/ ReleaseWindows(c) \/ Terminate(c)

MainStep ==
    \/ \E c \in Clients : OpSpawn(c) \/ SpawnRefused(c) \/ SpawnThrows(c)
    \/ ReplySpawn

WorkerStep(w) ==
    \/ CopyArgs(w) \/ Construct(w) \/ ConstructThrows(w) \/ Publish(w) \/ Rendezvous(w)
    \/ Receive(w) \/ Parse(w) \/ Exec(w) \/ ExecFails(w) \/ ExecThrows(w)
    \/ WriteResult(w) \/ WriteThrows(w)
    \/ WorkerDetachIn(w) \/ WorkerDetachOut(w) \/ WorkerDetachFails(w) \/ Reply(w)

Next ==
    \/ CreateSchema \/ SchemaFails \/ ClientDies
    \/ MainStep
    \/ \E c \in Clients : ClientStep(c) \/ WorkerStep(c)
    \/ Terminating

Spec == Init /\ [][Next]_vars

\* Every thread keeps being scheduled, and the kernel completes an IPC both of
\* whose sides are ready.
FairSpec ==
    /\ Spec
    /\ WF_vars(CreateSchema \/ SchemaFails)
    /\ WF_vars(MainStep)
    /\ \A c \in Clients : WF_vars(ClientStep(c)) /\ WF_vars(WorkerStep(c))

-----------------------------------------------------------------------------
(* Safety. *)

\* Every variable keeps its type; in particular a thread makes no more calls
\* than DelegateClient was asked for.
TypeOK ==
    /\ ready \in BOOLEAN
    /\ alive \in SUBSET Processes
    /\ store \in Table
    /\ pc \in [Clients -> {"init", "spawn", "idle", "rpc", "parse", "detachIn", "detachOut",
                           "release", "terminate", "closed", "leaked", "threw"}]
    /\ left \in [Clients -> 0 .. NumOps]
    /\ oks \in [Clients -> 0 .. NumOps]
    /\ req \in [Clients -> Requests \cup {NoCall, CloseCall}]
    /\ bench \in [Clients -> Clients \cup {None}]
    /\ cmap \in [Clients -> SUBSET Windows]
    /\ mpc \in {"loop", "wait", "reply"}
    /\ slots \in [Windows -> Spaces \cup {None}]
    /\ frame \in Clients \cup {None}
    /\ gate \in Clients \cup {None}
    /\ wpc \in [Clients -> {"none", "copy", "construct", "publish", "send", "serve", "parse",
                            "exec", "write", "detachIn", "detachOut", "reply", "exited"}]
    /\ win \in [Clients -> [Windows -> Spaces \cup {None}]]
    /\ smap \in [Clients -> SUBSET Windows]
    /\ wreq \in [Clients -> Requests \cup {NoCall}]
    /\ DOMAIN wres = Clients
    /\ \A w \in Clients : IsResult(wres[w])
    /\ wrc \in [Clients -> {"ok", "einval"}]
    /\ DOMAIN mem = Spaces
    /\ \A d \in Spaces : mem[d] \in Requests \cup {Blank, Torn} \/ IsResult(mem[d])
    /\ ds \subseteq Spaces

\* The worker reads its arguments from the stack frame of op_spawn, and later
\* writes the gate into it, only while op_spawn is waiting for that very worker.
FrameLive ==
    \A w \in Clients :
        wpc[w] \in {"copy", "construct", "publish", "send"} /\ "server" \in alive =>
            frame = w /\ mpc = "wait"

\* The worker behind a client's gate works in that client's two dataspaces,
\* each in its role, although all connections pass through the same pair of
\* receive slots and the same main thread.
OwnConnection ==
    \A c \in Clients : bench[c] # None => win[bench[c]] = [i \in Windows |-> <<c, i>>]

\* The windows the next step of a thread reads or writes.
ClientTouches(c) ==
    {i \in Windows :
        /\ "client" \in alive
        /\ \/ pc[c] = "idle" /\ MoreCalls(c) /\ i = "in"
           \/ pc[c] = "parse" /\ req[c].op \in Queries /\ i = "out"}

WorkerTouches(w) ==
    {i \in Windows :
        /\ "server" \in alive
        /\ \/ wpc[w] = "parse" /\ i = "in"
           \/ wpc[w] = "write" /\ i = "out"}

\* No thread touches a dataspace that its process has not mapped or that has
\* been deleted, and never both threads of a connection at once.
WindowsLive ==
    /\ \A c \in Clients : \A i \in ClientTouches(c) : i \in cmap[c] /\ <<c, i>> \in ds
    /\ \A w \in Clients : \A i \in WorkerTouches(w) :
        /\ i \in smap[w]
        /\ win[w][i] \in ds
        /\ \A c \in Clients : win[w][i] = <<c, i>> => ClientTouches(c) = {}

\* A worker works only on the request that its one caller is blocked in.
WorkerServesItsClient ==
    \A w \in Clients :
        wreq[w] # NoCall /\ alive = Processes =>
            \E c \in Clients : Callers(w) = {c} /\ wreq[w] = req[c]

\* "... in order to give the client the opportunity to wait for the server to
\* properly scrap all memory mappings": unless a detach failed, a client
\* deletes its dataspaces only after the server has let go of both.
DeleteAfterDetach ==
    \A c \in Clients :
        bench[c] # None /\ pc[c] \in {"terminate", "closed"} =>
            smap[bench[c]] = {} \/ wrc[bench[c]] = "einval"

-----------------------------------------------------------------------------
(* The connection implements the interface: a call takes effect when the     *)
(* worker has executed it.                                                   *)

InCall(c) == req[c] \in Requests

\* The worker has executed c's request successfully and not yet replied.
ExecutedBy(w) == wpc[w] = "write" \/ (wpc[w] = "reply" /\ wrc[w] = "ok")

Executed(c) ==
    /\ InCall(c)
    /\ pc[c] = "parse" \/ (pc[c] = "rpc" /\ ExecutedBy(bench[c]))

AbsPhase == [c \in Clients |->
    IF pc[c] = "threw" THEN "thrown"
    ELSE IF Executed(c) THEN "done"
    ELSE IF InCall(c) THEN "pending" ELSE "idle"]

AbsCall == [c \in Clients |-> IF InCall(c) THEN req[c] ELSE NoCall]

AbsAnswer == [c \in Clients |->
    IF ~Executed(c) THEN NoData
    ELSE IF pc[c] = "rpc" THEN wres[bench[c]] ELSE Received(c)]

Service == INSTANCE DBService
    WITH phase <- AbsPhase, call <- AbsCall, answer <- AbsAnswer

\* Seen through SqliteIpcDB, every call that returns has happened exactly once,
\* between its invocation and its return, and the answer parsed is its own.
IpcServiceSpec == Service!Spec

-----------------------------------------------------------------------------
(* Liveness. *)

\* A thread never stays blocked in spawn or in an operation, whatever happens
\* to the server: the reply or the kernel's error gets it out.
RpcsReturn ==
    \A c \in Clients :
        pc[c] \in {"spawn", "rpc"} ~> pc[c] \notin {"spawn", "rpc"} \/ "client" \notin alive

\* The worker threads do not pile up: every worker ends, unless its client left
\* before terminating it or a process is gone.
WorkersEnd ==
    \A w \in Clients :
        wpc[w] # "none" ~> wpc[w] = "exited" \/ pc[w] \in {"leaked", "threw"} \/ alive # Processes
=============================================================================
