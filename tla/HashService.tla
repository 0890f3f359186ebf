----------------------------- MODULE HashService -----------------------------
(***************************************************************************)
(* What the hash table back end promises: each of its calls happens at one *)
(* instant, and returns the result of that instant.                        *)
(***************************************************************************)
EXTENDS HashRecords

CONSTANTS
    Threads,
    Requests    \* the calls that are made

VARIABLES
    store,      \* store[k]: NoRecord, or the values of its fields
    phase,      \* phase[t]: where thread t is in its current call
    call,       \* call[t]: the request of that call
    answer      \* answer[t]: what it will return

vars == <<store, phase, call, answer>>

Init ==
    /\ store = [k \in Keys |-> NoRecord]
    /\ phase = [t \in Threads |-> "idle"]
    /\ call = [t \in Threads |-> NoCall]
    /\ answer = [t \in Threads |-> NoAnswer]

Invoke(t) ==
    /\ phase[t] = "idle"
    /\ phase' = [phase EXCEPT ![t] = "pending"]
    /\ call' \in {[call EXCEPT ![t] = r] : r \in Requests}
    /\ UNCHANGED <<store, answer>>

Apply(t) ==
    /\ phase[t] = "pending"
    /\ store' = Effect(store, call[t])
    /\ answer' \in {[answer EXCEPT ![t] = a] : a \in Answers(store, call[t])}
    /\ phase' = [phase EXCEPT ![t] = "done"]
    /\ UNCHANGED call

Return(t) ==
    /\ phase[t] = "done"
    /\ phase' = [phase EXCEPT ![t] = "idle"]
    /\ call' = [call EXCEPT ![t] = NoCall]
    /\ answer' = [answer EXCEPT ![t] = NoAnswer]
    /\ UNCHANGED store

Next == \E t \in Threads : Invoke(t) \/ Apply(t) \/ Return(t)

Spec == Init /\ [][Next]_vars
=============================================================================
