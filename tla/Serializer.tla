------------------------------ MODULE Serializer ------------------------------
(***************************************************************************)
(* serializer::Serializer and Deserializer over a dataspace: a message is  *)
(* written into a window of the address space, one memcpy at a time, until *)
(* it is complete or does not fit, and read back by a Deserializer that    *)
(* knows the types of its parts but not the end of the window.  Addresses  *)
(* and sizes are machine words and wrap around.                            *)
(***************************************************************************)
EXTENDS Integers, Sequences

CONSTANTS
    ByteValues,   \* values of a byte
    WordBytes,    \* bytes of a size_t
    IntBytes,     \* bytes of an int
    Typed,        \* the values that messages are made of, each with its type
    Messages,     \* what is sent: the parts, and the types the receiver names
    Windows       \* where it is sent: start and length of the buffer

Word == ByteValues ^ WordBytes

Bytes == 0 .. ByteValues - 1

Values == {p[1] : p \in Typed}
Types == {p[2] : p \in Typed}

Matches(xs, Ts) ==
    /\ xs \in Seq(Values) /\ Ts \in Seq(Types)
    /\ Len(xs) = Len(Ts)
    /\ \A i \in 1 .. Len(xs) : <<xs[i], Ts[i]>> \in Typed

\* The types a message is read with are those it was written with; a vector's
\* elements have one type, and sizes fit into a size_t.
HasType(x, T) ==
    /\ T.t = x.t
    /\ \/ x.t = "int" /\ x.v \in 0 .. ByteValues ^ IntBytes - 1
       \/ x.t = "str" /\ x.v \in Seq(Bytes) /\ Len(x.v) < Word
       \/ x.t = "vec" /\ Matches(x.v, [i \in 1 .. Len(x.v) |-> T.of]) /\ Len(x.v) < Word
       \/ x.t = "pair" /\ Matches(x.v, T.of)

\* Buffers do not wrap around, but one may reach up to the last address, and
\* then its end is 0.
ASSUME SerializerAssumption ==
    /\ ByteValues \in Nat \ {0, 1}
    /\ WordBytes \in Nat \ {0}
    /\ IntBytes \in Nat \ {0}
    /\ \A w \in Windows :
        /\ w.start \in 0 .. Word - 1
        /\ w.len \in 0 .. Word - 1
        /\ w.start + w.len <= Word

\* Powers, as far as they are used.
ASSUME PowerAssumption ==
    /\ ByteValues ^ 0 = 1
    /\ \A i \in 0 .. WordBytes + IntBytes :
        /\ ByteValues ^ i \in Nat \ {0}
        /\ ByteValues ^ (i + 1) = ByteValues * ByteValues ^ i

ASSUME TypedAssumption ==
    /\ \A p \in Typed : p = <<p[1], p[2]>> /\ HasType(p[1], p[2])
    /\ \A m \in Messages : Matches(m.parts, m.types)

VARIABLES
    window,    \* the buffer: orig_buf and the length it was given
    message,   \* the message
    mem,       \* mem[a]: contents of address a
    pc,        \* "write", "threw", "read" or "done"
    buf,       \* next address to write, then to read
    todo,      \* what is still to be serialized
    used,      \* bytes written
    want,      \* types that are still to be deserialized
    said,      \* the values that were written, in order
    heard      \* the values that were read

vars == <<window, message, mem, pc, buf, todo, used, want, said, heard>>

\* Left over in the buffer from an earlier message.
Stale == ByteValues - 1

\* Not memory of this buffer.
Foreign == ByteValues

InWindow(a) == a >= window.start /\ a < window.start + window.len

Init ==
    /\ window \in Windows
    /\ message \in Messages
    /\ mem = [a \in 0 .. Word - 1 |-> IF InWindow(a) THEN Stale ELSE Foreign]
    /\ pc = "write"
    /\ buf = window.start
    /\ todo = message.parts
    /\ used = 0
    /\ want = message.types
    /\ said = <<>>
    /\ heard = <<>>

-----------------------------------------------------------------------------
(* Values.  A string is its size and its bytes, a vector its size and its  *)
(* elements, a pair (or Table) its components.                             *)

Little(n, bytes) == [i \in 1 .. bytes |-> (n \div (ByteValues ^ (i - 1))) % ByteValues]

Memcpy(bs) == [t |-> "bytes", v |-> bs]
SizeOf(s) == Memcpy(Little(Len(s), WordBytes))

Parts(x) ==
    CASE x.t = "int" -> <<Memcpy(Little(x.v, IntBytes))>>
      [] x.t = "str" -> <<SizeOf(x.v), Memcpy(x.v)>>
      [] x.t = "vec" -> <<SizeOf(x.v)>> \o x.v
      [] x.t = "pair" -> x.v

\* What a reader is told of a value.
Told(x) ==
    IF x.t \in {"int", "str"} THEN <<x.v>>
    ELSE IF x.t = "vec" THEN <<Len(x.v)>> ELSE <<>>

-----------------------------------------------------------------------------
(* Serializer. *)

PlusUnbounded(a, n) == a + n
Plus(a, n) == (a + n) % Word

\* buf + len
End == Plus(window.start, window.len)

RemainingByAddress == IF buf <= End THEN End - buf ELSE 0
Remaining == (End - buf) % Word

\* operator<<: one level of a value.
Unfold ==
    /\ pc = "write"
    /\ todo # <<>> /\ Head(todo).t # "bytes"
    /\ todo' = Parts(Head(todo)) \o Tail(todo)
    /\ said' = said \o Told(Head(todo))
    /\ UNCHANGED <<window, message, mem, pc, buf, used, want, heard>>

AcceptsNoCheck(n) == TRUE
Accepts(n) == Remaining >= n

\* serialize.
Copy ==
    /\ pc = "write"
    /\ todo # <<>> /\ Head(todo).t = "bytes"
    /\ LET bs == Head(todo).v IN
        /\ Accepts(Len(bs))
        /\ mem' = [a \in DOMAIN mem |->
                    LET i == ((a - buf) % Word) + 1 IN
                    IF i <= Len(bs) THEN bs[i] ELSE mem[a]]
        /\ buf' = Plus(buf, Len(bs))
        /\ used' = used + Len(bs)
    /\ todo' = Tail(todo)
    /\ UNCHANGED <<window, message, pc, want, said, heard>>

\* "Serializer overflowed"
Overflow ==
    /\ pc = "write"
    /\ todo # <<>> /\ Head(todo).t = "bytes"
    /\ ~Accepts(Len(Head(todo).v))
    /\ pc' = "threw"
    /\ UNCHANGED <<window, message, mem, buf, todo, used, want, said, heard>>

\* The receiver starts at the same address.
Send ==
    /\ pc = "write" /\ todo = <<>>
    /\ pc' = "read"
    /\ buf' = window.start
    /\ UNCHANGED <<window, message, mem, todo, used, want, said, heard>>

-----------------------------------------------------------------------------
(* Deserializer. *)

Cells(n) == [i \in 1 .. n |-> mem[Plus(buf, i - 1)]]

Number(bytes) == CHOOSE n \in 0 .. (ByteValues ^ bytes) - 1 : Little(n, bytes) = Cells(bytes)

Reading(t) == pc = "read" /\ want # <<>> /\ Head(want).t = t

ReadInt ==
    /\ Reading("int")
    /\ heard' = Append(heard, Number(IntBytes))
    /\ buf' = Plus(buf, IntBytes)
    /\ want' = Tail(want)
    /\ UNCHANGED <<window, message, mem, pc, todo, used, said>>

\* The size of a string, then its bytes.
ReadString ==
    /\ Reading("str")
    /\ want' = <<[t |-> "bytes", n |-> Number(WordBytes)]>> \o Tail(want)
    /\ buf' = Plus(buf, WordBytes)
    /\ UNCHANGED <<window, message, mem, pc, todo, used, said, heard>>

StringStays(n) == 0
StringAdvance(n) == n

ReadBytes ==
    /\ Reading("bytes")
    /\ heard' = Append(heard, Cells(Head(want).n))
    /\ buf' = Plus(buf, StringAdvance(Head(want).n))
    /\ want' = Tail(want)
    /\ UNCHANGED <<window, message, mem, pc, todo, used, said>>

\* The size of a vector, then that many elements.
ReadVector ==
    /\ Reading("vec")
    /\ LET n == Number(WordBytes) IN
        /\ heard' = Append(heard, n)
        /\ want' = [i \in 1 .. n |-> Head(want).of] \o Tail(want)
    /\ buf' = Plus(buf, WordBytes)
    /\ UNCHANGED <<window, message, mem, pc, todo, used, said>>

ReadPair ==
    /\ Reading("pair")
    /\ want' = Head(want).of \o Tail(want)
    /\ UNCHANGED <<window, message, mem, pc, buf, todo, used, said, heard>>

Received ==
    /\ pc = "read" /\ want = <<>>
    /\ pc' = "done"
    /\ UNCHANGED <<window, message, mem, buf, todo, used, want, said, heard>>

-----------------------------------------------------------------------------
Terminating == pc \in {"threw", "done"} /\ UNCHANGED vars

Next ==
    \/ Unfold \/ Copy \/ Overflow \/ Send
    \/ ReadInt \/ ReadString \/ ReadBytes \/ ReadVector \/ ReadPair \/ Received
    \/ Terminating

Spec == Init /\ [][Next]_vars

-----------------------------------------------------------------------------
(* Properties. *)

TypeOK ==
    /\ window \in Windows
    /\ mem \in [0 .. Word - 1 -> Bytes \cup {Foreign}]
    /\ pc \in {"write", "threw", "read", "done"}
    /\ buf \in 0 .. Word - 1
    /\ used \in Nat

\* "Even with overflow for `end`, this program works correctly."  (1) Nothing is
\* ever written outside the buffer, wherever in the address space it lies.
WindowOnly == \A a \in 0 .. Word - 1 : ~InWindow(a) => mem[a] = Foreign

\* (2) A copy is refused only if it does not fit, and length() is the number of
\* bytes written although it is computed from addresses.
RefusedOnlyWhenFull ==
    /\ pc = "threw" => used + Len(Head(todo).v) > window.len
    /\ pc \in {"write", "threw"} => (buf - window.start) % Word = used

\* The receiver is told what the sender said, in order, and takes exactly the
\* bytes that were written: no stale byte of an earlier message, none outside
\* the buffer ("the buffer accesses should never overflow", serializer.h).
RoundTrip ==
    pc \in {"read", "done"} =>
        /\ Len(heard) <= Len(said)
        /\ heard = SubSeq(said, 1, Len(heard))
        /\ (buf - window.start) % Word <= used
        /\ pc = "done" => heard = said /\ buf = Plus(window.start, used)
=============================================================================
