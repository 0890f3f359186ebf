------------------------------ MODULE SqliteShm ------------------------------
(***************************************************************************)
(* The shared-memory back end: SqliteShmDB in the benchmark process and    *)
(* the "shm" server process.  Every benchmark thread owns one connection:  *)
(* two dataspaces ("in" and "out") mapped into both processes and a server *)
(* thread that spins on the first byte of "in", while the client spins on  *)
(* the first byte of "out".  The rest of a window holds one message.       *)
(*                                                                         *)
(* One element of Clients is one DelegateClient call together with its     *)
(* server thread; Wave says whether it belongs to the loading or to the    *)
(* transaction phase of the driver.                                        *)
(***************************************************************************)
EXTENDS KVStore

CONSTANTS
    Clients,       \* DelegateClient calls
    Requests,      \* the requests they make
    NumOps,        \* num_ops of each of them
    Wave,          \* the phase of the driver that starts it
    Oversized,     \* requests that do not fit into a window
    MaxRows,       \* records of a scan result that fit into a window
    KernelFaults,  \* whether allocation, attach, detach, migration may fail
    Blank,         \* window contents before the first message
    Torn           \* window contents left by a serialisation that threw

ASSUME ShmAssumption ==
    /\ Requests \subseteq {r \in Request : Serialized(r)}
    /\ Oversized \subseteq Requests
    /\ NumOps \in Nat
    /\ Wave \in [Clients -> Nat]
    /\ MaxRows \in Nat
    /\ KernelFaults \in BOOLEAN
    /\ Torn \notin Requests
    /\ Blank \notin Requests

VARIABLES
    ready,     \* the schema exists and the server has opened the database
    alive,     \* the processes that still run
    store,     \* the database of the server process
    pc,        \* pc[c]: control state of the benchmark thread
    left,      \* left[c]: calls it has still to make
    oks,       \* oks[c]: calls that returned kOK
    req,       \* req[c]: arguments of the call it is in
    inByte,    \* inByte[c]: first byte of "in": NUL or an opcode
    inMsg,     \* inMsg[c]: message in the rest of "in"
    outByte,   \* outByte[c]: first byte of "out": 0 or 1
    outMsg,    \* outMsg[c]: message in the rest of "out"
    spc,       \* spc[c]: control state of the server thread
    sop,       \* sop[c]: local variable op of the server thread
    sreq,      \* sreq[c]: its deserialised request
    sres,      \* sres[c]: its result vector
    cmap,      \* cmap[c]: windows mapped in the benchmark process
    smap,      \* smap[c]: windows mapped in the server process
    ds         \* ds[c]: dataspaces that exist

cvars == <<pc, left, oks, req>>
svars == <<spc, sop, sreq, sres>>
wvars == <<inByte, inMsg, outByte, outMsg>>
mvars == <<cmap, smap, ds>>
vars == <<ready, alive, store, cvars, svars, wvars, mvars>>

Processes == {"client", "server"}
Windows == {"in", "out"}
NUL == "nul"
NoCall == [op |-> "none"]
CloseCall == [op |-> "c"]

-----------------------------------------------------------------------------
(* Control moves of the two threads of a connection. *)

Client(c, from, to) ==
    /\ "client" \in alive
    /\ pc[c] = from
    /\ pc' = [pc EXCEPT ![c] = to]

Server(c, from, to) ==
    /\ "server" \in alive
    /\ spc[c] = from
    /\ spc' = [spc EXCEPT ![c] = to]

\* An uncaught exception in any thread of the server ends its process; the
\* region manager drops every mapping.
Abort ==
    /\ alive' = alive \ {"server"}
    /\ smap' = [c \in Clients |-> {}]
    /\ UNCHANGED <<ready, store, cvars, svars, wvars, cmap, ds>>

Init ==
    /\ ready = FALSE
    /\ alive = Processes
    /\ store = EmptyTable
    /\ pc = [c \in Clients |-> "init"]
    /\ left = [c \in Clients |-> NumOps]
    /\ oks = [c \in Clients |-> 0]
    /\ req = [c \in Clients |-> NoCall]
    /\ inByte = [c \in Clients |-> NUL]
    /\ inMsg = [c \in Clients |-> Blank]
    /\ outByte = [c \in Clients |-> 0]
    /\ outMsg = [c \in Clients |-> Blank]
    /\ spc = [c \in Clients |-> "none"]
    /\ sop = [c \in Clients |-> NUL]
    /\ sreq = [c \in Clients |-> NoCall]
    /\ sres = [c \in Clients |-> NoData]
    /\ cmap = [c \in Clients |-> {}]
    /\ smap = [c \in Clients |-> {}]
    /\ ds = [c \in Clients |-> {}]

-----------------------------------------------------------------------------
(* Start-up: the schema RPC of the main thread, then one Init per thread.   *)

CreateSchema ==
    /\ alive = Processes
    /\ ~ready
    /\ ready' = TRUE
    /\ store' = EmptyTable
    /\ UNCHANGED <<alive, cvars, svars, wvars, mvars>>

\* The infopage cannot be mapped (an error code: the client throws), or the
\* server throws while it opens the database.
SchemaFails ==
    /\ KernelFaults
    /\ alive = Processes
    /\ ~ready
    /\ alive' \in {{"server"}, {}}
    /\ UNCHANGED <<ready, store, cvars, svars, wvars, mvars>>

\* The driver starts a phase when every thread of the one before has returned.
MayStart(c) ==
    /\ ready
    /\ \A d \in Clients : Wave[d] < Wave[c] => pc[d] \in {"closed", "leaked"}

\* mem_alloc hands out zeroed pages; Init itself clears the byte of "in" only.
FreshByteStale == 1
FreshByte == 0

InitConn(c) ==
    /\ MayStart(c)
    /\ Client(c, "init", "spawn")
    /\ ds' = [ds EXCEPT ![c] = Windows]
    /\ cmap' = [cmap EXCEPT ![c] = Windows]
    /\ inByte' = [inByte EXCEPT ![c] = NUL]
    /\ outByte' = [outByte EXCEPT ![c] = FreshByte]
    /\ UNCHANGED <<ready, alive, store, left, oks, req, inMsg, outMsg, svars, smap>>

\* One of the kernel calls of Init fails; what it had obtained stays behind.
InitFails(c) ==
    /\ KernelFaults
    /\ MayStart(c)
    /\ Client(c, "init", "threw")
    /\ \E got \in {{}, {"in"}, Windows} :
        /\ ds' = [ds EXCEPT ![c] = got]
        /\ \E m \in {{}, {"in"}} :
            /\ m # {} => got = Windows
            /\ cmap' = [cmap EXCEPT ![c] = m]
    /\ UNCHANGED <<ready, alive, store, left, oks, req, svars, wvars, smap>>

\* op_spawn: the server maps both windows and starts the connection's thread.
OpSpawn(c) ==
    /\ Client(c, "spawn", "idle")
    /\ Server(c, "none", "start")
    /\ smap' = [smap EXCEPT ![c] = Windows]
    /\ UNCHANGED <<ready, alive, store, left, oks, req, sop, sreq, sres, wvars, cmap, ds>>

\* The spawn RPC returns an error: the server refused it or is gone.
SpawnRefused(c) ==
    /\ KernelFaults \/ "server" \notin alive
    /\ Client(c, "spawn", "threw")
    /\ UNCHANGED <<ready, alive, store, left, oks, req, svars, wvars, mvars>>

\* BenchServer's constructor throws in the main thread of the server.
SpawnThrows(c) ==
    /\ KernelFaults
    /\ "server" \in alive
    /\ pc[c] = "spawn"
    /\ Abort

-----------------------------------------------------------------------------
(* A call of the benchmark thread: serialise, notify, spin, reset, parse.   *)

\* The loop condition of DelegateClient.
MoreCallsOffByOne(c) == left[c] >= 0
MoreCalls(c) == left[c] > 0

BeginOp(c) ==
    /\ MoreCalls(c)
    /\ Client(c, "idle", "notify")
    /\ \E r \in Requests \ Oversized :
        /\ req' = [req EXCEPT ![c] = r]
        /\ inMsg' = [inMsg EXCEPT ![c] = r]
    /\ left' = [left EXCEPT ![c] = @ - 1]
    /\ UNCHANGED <<ready, alive, store, oks, inByte, outByte, outMsg, svars, mvars>>

\* The serialiser runs out of window; the exception ends the thread.
BeginOpThrows(c) ==
    /\ MoreCalls(c)
    /\ Oversized # {}
    /\ Client(c, "idle", "threw")
    /\ inMsg' = [inMsg EXCEPT ![c] = Torn]
    /\ left' = [left EXCEPT ![c] = @ - 1]
    /\ UNCHANGED <<ready, alive, store, oks, req, inByte, outByte, outMsg, svars, mvars>>

BeginClose(c) ==
    /\ ~MoreCalls(c)
    /\ Client(c, "idle", "notify")
    /\ req' = [req EXCEPT ![c] = CloseCall]
    /\ UNCHANGED <<ready, alive, store, left, oks, wvars, svars, mvars>>

Notify(c) ==
    /\ Client(c, "notify", "wait")
    /\ inByte' = [inByte EXCEPT ![c] = req[c].op]
    /\ UNCHANGED <<ready, alive, store, left, oks, req, inMsg, outByte, outMsg, svars, mvars>>

SeeResponse(c) ==
    /\ outByte[c] # 0
    /\ Client(c, "wait", "reset")
    /\ UNCHANGED <<ready, alive, store, left, oks, req, svars, wvars, mvars>>

AfterResetAlwaysParse(op) == "parse"
AfterReset(op) == IF op = "c" THEN "detachIn" ELSE "parse"

ResetOut(c) ==
    /\ Client(c, "reset", AfterReset(req[c].op))
    /\ outByte' = [outByte EXCEPT ![c] = 0]
    /\ UNCHANGED <<ready, alive, store, left, oks, req, inByte, inMsg, outMsg, svars, mvars>>

\* Only a query finds data in the window.
Received(c) == IF req[c].op \in Queries THEN outMsg[c] ELSE NoData

Return(c) ==
    /\ Client(c, "parse", "idle")
    /\ oks' = [oks EXCEPT ![c] =
                   IF Status(req[c], Received(c)) = "kOK" THEN @ + 1 ELSE @]
    /\ req' = [req EXCEPT ![c] = NoCall]
    /\ UNCHANGED <<ready, alive, store, left, svars, wvars, mvars>>

-----------------------------------------------------------------------------
(* Close, after the server has acknowledged it.                             *)

Detach(c, w, from, to) ==
    /\ Client(c, from, to)
    /\ cmap' = [cmap EXCEPT ![c] = @ \ {w}]
    /\ UNCHANGED <<ready, alive, store, left, oks, req, svars, wvars, smap, ds>>

DetachIn(c) == Detach(c, "in", "detachIn", "detachOut")

DetachOut(c) == Detach(c, "out", "detachOut", "release")

\* A failing detach is reported and Close returns: both dataspaces leak.
DetachFails(c) ==
    /\ KernelFaults
    /\ \E from \in {"detachIn", "detachOut"} : Client(c, from, "leaked")
    /\ UNCHANGED <<ready, alive, store, left, oks, req, svars, wvars, mvars>>

\* Both dataspaces are deleted, whether or not the server has let go of them.
ReleaseWindows(c) ==
    /\ Client(c, "release", "closed")
    /\ ds' = [ds EXCEPT ![c] = {}]
    /\ UNCHANGED <<ready, alive, store, left, oks, req, svars, wvars, cmap, smap>>

\* The exception reaches the main thread through the future and ends it.
ClientDies ==
    /\ "client" \in alive
    /\ \E c \in Clients : pc[c] = "threw"
    /\ alive' = alive \ {"client"}
    /\ cmap' = [c \in Clients |-> {}]
    /\ UNCHANGED <<ready, store, cvars, svars, wvars, smap, ds>>

-----------------------------------------------------------------------------
(* BenchServer::loop. *)

ServerStart(c) ==
    /\ Server(c, "start", "poll")
    /\ UNCHANGED <<ready, alive, store, cvars, sop, sreq, sres, wvars, mvars>>

Dispatch(op) == IF op = "c" THEN "ack" ELSE "parse"

Poll(c) ==
    /\ inByte[c] # NUL
    /\ Server(c, "poll", Dispatch(inByte[c]))
    /\ sop' = [sop EXCEPT ![c] = inByte[c]]
    /\ UNCHANGED <<ready, alive, store, cvars, sreq, sres, wvars, mvars>>

Parse(c) ==
    /\ Server(c, "parse", "exec")
    /\ sreq' = [sreq EXCEPT ![c] = inMsg[c]]
    /\ UNCHANGED <<ready, alive, store, cvars, sop, sres, wvars, mvars>>

AfterExecScanOnly(op) == IF op = "s" THEN "write" ELSE "clear"
AfterExec(op) == IF op \in Queries THEN "write" ELSE "clear"

Exec(c) ==
    /\ Succeeds(store, sreq[c])
    /\ Server(c, "exec", AfterExec(sop[c]))
    /\ store' = Effect(store, sreq[c])
    /\ sres' = [sres EXCEPT ![c] = Result(store, sreq[c])]
    /\ UNCHANGED <<ready, alive, cvars, sop, sreq, wvars, mvars>>

\* A query that has found records keeps the table locked until it is reset.
\* The other writes retry; Delete gives up.
ReadOpen(d) ==
    spc[d] = "exec" /\ sreq[d].op \in Queries /\ ~Misses(store, sreq[d])

LockedOut(c) == sreq[c].op = "d" /\ \E d \in Clients \ {c} : ReadOpen(d)

\* Any status but kOK, like any exception of the library, is thrown on.
ExecThrows(c) ==
    /\ "server" \in alive
    /\ spc[c] = "exec"
    /\ ~Succeeds(store, sreq[c]) \/ LockedOut(c)
    /\ Abort

FitsWindow(res) ==
    "rows" \in DOMAIN res => Cardinality(DOMAIN res.rows) <= MaxRows

WriteResult(c) ==
    /\ FitsWindow(sres[c])
    /\ Server(c, "write", "clear")
    /\ outMsg' = [outMsg EXCEPT ![c] = sres[c]]
    /\ UNCHANGED <<ready, alive, store, cvars, sop, sreq, sres, inByte, inMsg, outByte, mvars>>

WriteThrows(c) ==
    /\ "server" \in alive
    /\ spc[c] = "write"
    /\ ~FitsWindow(sres[c])
    /\ Abort

\* "Reset notification byte."
ResetByteForgotten(byte) == byte
ResetByte(byte) == NUL

ClearIn(c) ==
    /\ Server(c, "clear", "signal")
    /\ inByte' = [inByte EXCEPT ![c] = ResetByte(@)]
    /\ UNCHANGED <<ready, alive, store, cvars, sop, sreq, sres, inMsg, outByte, outMsg, mvars>>

ResponseByteLost == 0
ResponseByte == 1

Signal(c) ==
    /\ Server(c, "signal", "poll")
    /\ outByte' = [outByte EXCEPT ![c] = ResponseByte]
    /\ sop' = [sop EXCEPT ![c] = NUL]
    /\ sreq' = [sreq EXCEPT ![c] = NoCall]
    /\ sres' = [sres EXCEPT ![c] = NoData]
    /\ UNCHANGED <<ready, alive, store, cvars, inByte, inMsg, outMsg, mvars>>

\* Opcode 'c': the response goes out before the windows are detached, and the
\* byte of "in" stays as it is.
AfterAckLoopOn == "poll"
AfterAck == "detachIn"

AckClose(c) ==
    /\ Server(c, "ack", AfterAck)
    /\ outByte' = [outByte EXCEPT ![c] = ResponseByte]
    /\ UNCHANGED <<ready, alive, store, cvars, sop, sreq, sres, inByte, inMsg, outMsg, mvars>>

ServerDetach(c, w, from, to) ==
    /\ Server(c, from, to)
    /\ smap' = [smap EXCEPT ![c] = @ \ {w}]
    /\ UNCHANGED <<ready, alive, store, cvars, sop, sreq, sres, wvars, cmap, ds>>

ServerDetachIn(c) == ServerDetach(c, "in", "detachIn", "detachOut")

ServerDetachOut(c) == ServerDetach(c, "out", "detachOut", "exited")

\* Migration or a detach fails: the thread throws.
ServerFaults(c) ==
    /\ KernelFaults
    /\ "server" \in alive
    /\ spc[c] \in {"start", "detachIn", "detachOut"}
    /\ Abort

-----------------------------------------------------------------------------
\* Nothing is left to do: all closed, the benchmark gone, or its threads spin
\* on a server that is gone.
Finished ==
    \/ "client" \notin alive
    \/ \A c \in Clients : pc[c] \in {"closed", "leaked"} /\ spc[c] = "exited"
    \/ "server" \notin alive
        /\ \A c \in Clients : pc[c] \in {"init", "wait", "closed", "leaked"}

Terminating == Finished /\ UNCHANGED vars

Main == CreateSchema \/ SchemaFails \/ ClientDies

ClientStep(c) ==
    \/ InitConn(c) \/ InitFails(c) \/ OpSpawn(c) \/ SpawnRefused(c) \/ SpawnThrows(c)
    \/ BeginOp(c) \/ BeginOpThrows(c) \/ BeginClose(c)
    \/ Notify(c) \/ SeeResponse(c) \/ ResetOut(c) \/ Return(c)
    \/ DetachIn(c) \/ DetachOut(c) \/ DetachFails(c) \/ ReleaseWindows(c)

ServerStep(c) ==
    \/ ServerStart(c) \/ Poll(c) \/ Parse(c) \/ Exec(c) \/ ExecThrows(c)
    \/ WriteResult(c) \/ WriteThrows(c) \/ ClearIn(c) \/ Signal(c)
    \/ AckClose(c) \/ ServerDetachIn(c) \/ ServerDetachOut(c) \/ ServerFaults(c)

Next ==
    \/ Main
    \/ \E c \in Clients : ClientStep(c) \/ ServerStep(c)
    \/ Terminating

Spec == Init /\ [][Next]_vars

\* Every thread keeps being scheduled: threads have CPUs of their own or share
\* one by time slices.
FairSpec ==
    /\ Spec
    /\ WF_vars(CreateSchema \/ SchemaFails)
    /\ \A c \in Clients : WF_vars(ClientStep(c)) /\ WF_vars(ServerStep(c))

-----------------------------------------------------------------------------
(* Memory accesses of each thread's next step, for the data race property.  *)

Locations == {"inByte", "inMsg", "outByte", "outMsg"}

Window(loc) == IF loc \in {"inByte", "inMsg"} THEN "in" ELSE "out"

Access(loc, write, atomic) == [loc |-> loc, write |-> write, atomic |-> atomic]

\* What the next step of a thread reads or writes.
ClientMay(c, a) ==
    /\ "client" \in alive
    /\ \/ pc[c] = "idle" /\ MoreCalls(c) /\ a = Access("inMsg", TRUE, FALSE)
       \/ pc[c] = "notify" /\ a = Access("inByte", TRUE, TRUE)
       \/ pc[c] = "wait" /\ a = Access("outByte", FALSE, TRUE)
       \/ pc[c] = "reset" /\ a = Access("outByte", TRUE, FALSE)
       \/ pc[c] = "parse" /\ req[c].op \in Queries /\ a = Access("outMsg", FALSE, FALSE)

ServerMay(c, a) ==
    /\ "server" \in alive
    /\ \/ spc[c] = "poll" /\ a = Access("inByte", FALSE, TRUE)
       \/ spc[c] = "parse" /\ a = Access("inMsg", FALSE, FALSE)
       \/ spc[c] = "write" /\ a = Access("outMsg", TRUE, FALSE)
       \/ spc[c] = "clear" /\ a = Access("inByte", TRUE, FALSE)
       \/ spc[c] \in {"signal", "ack"} /\ a = Access("outByte", TRUE, TRUE)

Accesses == [loc : Locations, write : BOOLEAN, atomic : BOOLEAN]

ClientTouches(c) == {a \in Accesses : ClientMay(c, a)}

ServerTouches(c) == {a \in Accesses : ServerMay(c, a)}

-----------------------------------------------------------------------------
(* Safety. *)

\* Every variable keeps its type; in particular a thread makes no more calls
\* than DelegateClient was asked for.
TypeOK ==
    /\ ready \in BOOLEAN
    /\ alive \in SUBSET Processes
    /\ store \in Table
    /\ pc \in [Clients -> {"init", "spawn", "idle", "notify", "wait", "reset", "parse",
                           "detachIn", "detachOut", "release", "closed", "leaked", "threw"}]
    /\ left \in [Clients -> 0 .. NumOps]
    /\ oks \in [Clients -> 0 .. NumOps]
    /\ req \in [Clients -> Requests \cup {NoCall, CloseCall}]
    /\ inByte \in [Clients -> {NUL, "r", "s", "i", "u", "d", "c"}]
    /\ inMsg \in [Clients -> Requests \cup {Blank, Torn}]
    /\ outByte \in [Clients -> {0, 1}]
    /\ DOMAIN outMsg = Clients
    /\ \A c \in Clients : outMsg[c] = Blank \/ IsResult(outMsg[c])
    /\ spc \in [Clients -> {"none", "start", "poll", "parse", "exec", "write", "clear",
                            "signal", "ack", "detachIn", "detachOut", "exited"}]
    /\ sop \in [Clients -> {NUL, "r", "s", "i", "u", "d", "c"}]
    /\ sreq \in [Clients -> Requests \cup {NoCall}]
    /\ DOMAIN sres = Clients
    /\ \A c \in Clients : IsResult(sres[c])
    /\ cmap \in [Clients -> SUBSET Windows]
    /\ smap \in [Clients -> SUBSET Windows]
    /\ ds \in [Clients -> SUBSET Windows]

\* The two spinning threads never race: whenever both can touch the same bytes
\* of a window next and one of them writes, both accesses are atomic.  This is
\* what the plain stores to the notification bytes and the plain copies of the
\* messages rely on.
NoDataRace ==
    \A c \in Clients : \A a \in ClientTouches(c), b \in ServerTouches(c) :
        /\ a.loc = b.loc
        /\ a.write \/ b.write
        => a.atomic /\ b.atomic

\* No thread touches a window that its process has not mapped or whose
\* dataspace the client has already deleted.  Close deletes the dataspaces
\* without waiting for the server thread to detach them.
NoStrayAccess ==
    \A c \in Clients :
        /\ \A a \in ClientTouches(c) : Window(a.loc) \in cmap[c] \cap ds[c]
        /\ \A b \in ServerTouches(c) : Window(b.loc) \in smap[c] \cap ds[c]

\* The server thread works only on the request that its client is blocked in:
\* never on an earlier one, a half-written one, or one dispatched under
\* another opcode.
ServesCurrentRequest ==
    \A c \in Clients :
        spc[c] \in {"exec", "write", "clear", "signal"} =>
            /\ pc[c] = "wait"
            /\ sreq[c] = req[c]
            /\ sop[c] = req[c].op

-----------------------------------------------------------------------------
(* The handshake: the control states and the two bytes determine each other. *)

Working == {"start", "poll", "parse", "exec", "write", "clear", "signal"}
Leaving == {"detachIn", "detachOut", "exited"}

\* Where a connection can be while its client is blocked in an operation.
ServingOp(c) ==
    \/ inByte[c] = req[c].op /\ outByte[c] = 0 /\ spc[c] \in Working \ {"signal"}
    \/ inByte[c] = NUL /\ outByte[c] = 0 /\ spc[c] = "signal"
    \/ inByte[c] = NUL /\ outByte[c] = 1 /\ spc[c] = "poll"

\* Where it can be while its client is blocked in Close.
ServingClose(c) ==
    /\ inByte[c] = "c"
    /\ \/ outByte[c] = 0 /\ spc[c] \in {"start", "poll", "ack"}
       \/ outByte[c] = 1 /\ spc[c] \in Leaving

Handshake(c) ==
    /\ pc[c] \in {"init", "spawn"} =>
            spc[c] = "none" /\ inByte[c] = NUL /\ outByte[c] = 0
    /\ pc[c] \in {"idle", "notify", "parse"} =>
            spc[c] \in {"start", "poll"} /\ inByte[c] = NUL /\ outByte[c] = 0
    /\ pc[c] = "threw" =>
            spc[c] \in {"none", "start", "poll"} /\ inByte[c] = NUL /\ outByte[c] = 0
    /\ pc[c] = "wait" => (req[c] = CloseCall /\ ServingClose(c)) \/ (req[c] # CloseCall /\ ServingOp(c))
    /\ pc[c] = "reset" =>
        /\ outByte[c] = 1
        /\ \/ req[c] = CloseCall /\ inByte[c] = "c" /\ spc[c] \in Leaving
           \/ req[c] # CloseCall /\ inByte[c] = NUL /\ spc[c] = "poll"
    /\ pc[c] \in {"detachIn", "detachOut", "release", "closed", "leaked"} =>
            inByte[c] = "c" /\ outByte[c] = 0 /\ spc[c] \in Leaving

\* The arguments a thread has handed over are the ones in the window.
Delivered(c) ==
    /\ pc[c] \in {"notify", "wait", "reset", "parse"} =>
            req[c] \in Requests \cup {CloseCall}
    /\ pc[c] = "parse" => req[c] # CloseCall
    /\ pc[c] \in {"idle", "threw", "init", "spawn"} => req[c] = NoCall
    /\ req[c] \in Requests => inMsg[c] = req[c]
    /\ oks[c] + left[c] + (IF req[c] \in Requests THEN 1 ELSE 0) <= NumOps

Dispatched(c) ==
    /\ spc[c] \in {"parse", "exec", "write", "clear", "signal"} => sop[c] = req[c].op
    /\ spc[c] \in {"exec", "write", "clear", "signal"} => sreq[c] = req[c]
    /\ spc[c] = "write" => req[c].op \in Queries

Mapped(c) ==
    /\ pc[c] \notin {"init", "closed", "threw"} => ds[c] = Windows
    /\ spc[c] \in Working \cup {"ack"} =>
            ds[c] = Windows /\ ("server" \in alive => smap[c] = Windows)
    /\ "client" \in alive /\ pc[c] \in {"spawn", "idle", "notify", "wait", "reset", "parse"} =>
            cmap[c] = Windows

\* The strengthening that makes the safety properties inductive.
IInv ==
    /\ TypeOK
    /\ \A c \in Clients : Handshake(c) /\ Delivered(c) /\ Dispatched(c) /\ Mapped(c)

-----------------------------------------------------------------------------
(* The connection implements the interface: a call takes effect when the     *)
(* server thread has executed it.                                            *)

InCall(c) == req[c] \in Requests

Executed(c) ==
    /\ InCall(c)
    /\ \/ pc[c] \in {"reset", "parse"}
       \/ pc[c] = "wait" /\ (outByte[c] = 1 \/ spc[c] \in {"write", "clear", "signal"})

AbsPhase == [c \in Clients |->
    IF pc[c] = "threw" THEN "thrown"
    ELSE IF Executed(c) THEN "done"
    ELSE IF InCall(c) THEN "pending" ELSE "idle"]

AbsCall == [c \in Clients |-> IF InCall(c) THEN req[c] ELSE NoCall]

AbsAnswer == [c \in Clients |->
    IF ~Executed(c) THEN NoData
    ELSE IF spc[c] \in {"write", "clear", "signal"} THEN sres[c] ELSE Received(c)]

Service == INSTANCE DBService
    WITH phase <- AbsPhase, call <- AbsCall, answer <- AbsAnswer

\* Seen through SqliteShmDB, every call happens exactly once, between its
\* invocation and its return, and the answer that is parsed is its own.
ShmServiceSpec == Service!Spec

-----------------------------------------------------------------------------
(* Liveness. *)

\* A thread that spins for a response gets out of its loop, unless one of the
\* processes is gone.
CallsAnswered ==
    \A c \in Clients : pc[c] = "wait" ~> (pc[c] # "wait" \/ alive # Processes)

\* A connection whose client has returned from Close is given up by the server
\* as well: the server thread ends and maps nothing any more.
ServerLetsGo ==
    \A c \in Clients :
        pc[c] \in {"closed", "leaked"} ~> (smap[c] = {} /\ spc[c] = "exited") \/ alive # Processes

\* Every started benchmark thread returns from DelegateClient.
ThreadsReturn ==
    \A c \in Clients :
        pc[c] = "idle" ~> pc[c] \in {"closed", "leaked", "threw"} \/ alive # Processes

\* include/db.h says that a call that misses its record returns a non-zero
\* error code: every call comes back to its caller.
CallsReturn == \A c \in Clients : pc[c] = "wait" ~> pc[c] # "wait"
=============================================================================
