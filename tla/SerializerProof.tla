--------------------------- MODULE SerializerProof ---------------------------
(***************************************************************************)
(* For words and bytes of every size and for every buffer and message: the *)
(* serializer never writes outside its buffer, although the end of the     *)
(* buffer may have wrapped around to address 0, it refuses a copy only if  *)
(* it does not fit, and what a deserializer reads is what was written.     *)
(***************************************************************************)
EXTENDS Serializer, SequenceTheorems, WellFoundedInduction, TLAPS

\* What is on the stack of operator<<: values, and the copies they come down to.
Copies == [t : {"bytes"}, v : Seq(Bytes)]

\* The inductive invariant: the next address follows from the bytes written.
WritingInv ==
    /\ window \in Windows
    /\ DOMAIN mem = 0 .. Word - 1
    /\ used \in 0 .. window.len
    /\ todo \in Seq(Values \cup Copies)
    /\ pc \in {"write", "threw"} => buf = (window.start + used) % Word
    /\ pc = "threw" => todo # <<>> /\ used + Len(Head(todo).v) > window.len
    /\ WindowOnly

-----------------------------------------------------------------------------
(* Arithmetic of addresses: w is the number of addresses, s the start and l *)
(* the length of a buffer, u the bytes used of it.                          *)

LEMMA ModSmall ==
    ASSUME NEW n \in Nat, NEW w \in Nat, n < w
    PROVE  (n % w) = n
PROOF BY SMT

LEMMA ModNegative ==
    ASSUME NEW n \in Nat, NEW w \in Nat, 0 < n, n < w
    PROVE  ((0 - n) % w) = w - n
PROOF BY SMT

LEMMA ModSelf ==
    ASSUME NEW w \in Nat, 0 < w
    PROVE  (w % w) = 0
PROOF BY SMT

LEMMA ModRange ==
    ASSUME NEW x \in Int, NEW w \in Nat, 0 < w
    PROVE  (x % w) \in 0 .. w - 1
PROOF BY SMT

\* The address after u of the bytes of a buffer.
LEMMA NextAddress ==
    ASSUME NEW w \in Nat, NEW s \in 0 .. w - 1, NEW l \in 0 .. w - 1, s + l <= w,
           NEW u \in 0 .. l
    PROVE  IF s + u < w THEN ((s + u) % w) = s + u
                        ELSE ((s + u) % w) = 0 /\ u = l
<1>1. CASE s + u < w
    BY <1>1, ModSmall
<1>2. CASE s + u >= w
    <2>1. s + u = w /\ u = l
        BY <1>2
    <2>. QED  BY <2>1, ModSelf
<1>. QED  BY <1>1, <1>2

\* The remaining space is computed correctly even if the end has wrapped around.
LEMMA SpaceLeft ==
    ASSUME NEW w \in Nat, NEW s \in 0 .. w - 1, NEW l \in 0 .. w - 1, s + l <= w,
           NEW u \in 0 .. l
    PROVE  ((((s + l) % w) - ((s + u) % w)) % w) = l - u
<1>. DEFINE end == (s + l) % w
            at == (s + u) % w
<1>1. IF s + l < w THEN end = s + l ELSE end = 0 /\ s + l = w
    <2>1. l \in 0 .. l
        OBVIOUS
    <2>. QED  BY <2>1, NextAddress
<1>2. IF s + u < w THEN at = s + u ELSE at = 0 /\ u = l
    BY NextAddress
<1>. HIDE DEF end, at
<1>3. CASE end - at = l - u
    <2>1. l - u \in Nat /\ l - u < w
        OBVIOUS
    <2>. QED  BY <1>3, <2>1, ModSmall DEF end, at
<1>4. CASE end = 0 /\ at = s + u /\ s + l = w /\ u < l
    <2>1. s + u \in Nat /\ s + u < w
        BY <1>4
    <2>2. CASE s + u = 0
        <3>1. l = w
            BY <1>4, <2>2
        <3>. QED  BY <3>1
    <2>3. CASE 0 < s + u
        <3>1. ((0 - (s + u)) % w) = w - (s + u)
            BY <2>1, <2>3, ModNegative
        <3>. QED  BY <1>4, <3>1 DEF end, at
    <2>. QED  BY <2>1, <2>2, <2>3
<1>. QED  BY <1>1, <1>2, <1>3, <1>4

\* Seen from the next address, what lies outside the buffer is at least as far
\* away as the space that is left.
LEMMA OutsideIsFar ==
    ASSUME NEW w \in Nat, NEW s \in 0 .. w - 1, NEW l \in 0 .. w - 1, s + l <= w,
           NEW u \in 0 .. l, NEW a \in 0 .. w - 1, a < s \/ a >= s + l
    PROVE  ((a - ((s + u) % w)) % w) >= l - u
<1>. DEFINE at == (s + u) % w
<1>1. IF s + u < w THEN at = s + u ELSE at = 0 /\ u = l
    BY NextAddress
<1>2. ((a - at) % w) \in 0 .. w - 1
    <2>1. at \in Int /\ 0 < w
        BY <1>1
    <2>. HIDE DEF at
    <2>. QED  BY <2>1, ModRange
<1>. HIDE DEF at
<1>3. CASE u = l
    BY <1>2, <1>3 DEF at
<1>4. CASE at = s + u /\ u < l /\ a < s
    <2>1. 0 < at - a /\ at - a < w /\ at - a \in Nat
        BY <1>1, <1>4
    <2>2. ((0 - (at - a)) % w) = w - (at - a)
        BY <2>1, ModNegative
    <2>3. 0 - (at - a) = a - at
        BY <1>4
    <2>. QED  BY <1>4, <2>2, <2>3 DEF at
<1>5. CASE at = s + u /\ u < l /\ a >= s + l
    <2>1. a - at \in Nat /\ a - at < w
        BY <1>5
    <2>2. ((a - at) % w) = a - at
        BY <2>1, ModSmall
    <2>. QED  BY <1>5, <2>2 DEF at
<1>. QED  BY <1>1, <1>3, <1>4, <1>5

\* Bytes used and next address agree after a copy, and give each other.
LEMMA PlusIs ==
    ASSUME NEW w \in Nat, NEW s \in 0 .. w - 1, NEW l \in 0 .. w - 1, s + l <= w,
           NEW u \in 0 .. l, NEW n \in Nat, n <= l - u
    PROVE  ((((s + u) % w) + n) % w) = ((s + (u + n)) % w)
<1>1. CASE s + u < w
    <2>1. ((s + u) % w) = s + u
        BY <1>1, NextAddress
    <2>2. (s + u) + n = s + (u + n)
        OBVIOUS
    <2>. QED  BY <2>1, <2>2
<1>2. CASE ~(s + u < w)
    <2>1. ((s + u) % w) = 0 /\ u = l
        BY <1>2, NextAddress
    <2>2. n = 0
        BY <2>1
    <2>3. (0 % w) = 0
        BY ModSmall
    <2>4. s + (u + n) = s + u
        BY <2>2
    <2>. QED  BY <2>1, <2>2, <2>3, <2>4
<1>. QED  BY <1>1, <1>2

LEMMA UsedIs ==
    ASSUME NEW w \in Nat, NEW s \in 0 .. w - 1, NEW l \in 0 .. w - 1, s + l <= w,
           NEW u \in 0 .. l
    PROVE  ((((s + u) % w) - s) % w) = u
<1>1. CASE s + u < w
    <2>1. ((s + u) % w) = s + u
        BY <1>1, NextAddress
    <2>2. (s + u) - s = u /\ u \in Nat /\ u < w
        OBVIOUS
    <2>. QED  BY <2>1, <2>2, ModSmall
<1>2. CASE ~(s + u < w)
    <2>1. ((s + u) % w) = 0 /\ u = l
        BY <1>2, NextAddress
    <2>2. s \in Nat /\ 0 < s /\ s < w /\ u = w - s
        BY <1>2, <2>1
    <2>3. ((0 - s) % w) = w - s
        BY <2>2, ModNegative
    <2>. QED  BY <2>1, <2>2, <2>3
<1>. QED  BY <1>1, <1>2

-----------------------------------------------------------------------------
(* The values. *)

LEMMA WordIs == Word \in Nat \ {0} /\ Bytes \subseteq Int
BY SerializerAssumption, PowerAssumption DEF Word, Bytes

LEMMA LittleIsBytes ==
    ASSUME NEW n \in Nat, NEW b \in {WordBytes, IntBytes}
    PROVE  Memcpy(Little(n, b)) \in Copies
<1>1. ASSUME NEW i \in 1 .. b
      PROVE  ((n \div (ByteValues ^ (i - 1))) % ByteValues) \in Bytes
    <2>1. i - 1 \in 0 .. WordBytes + IntBytes
        BY SerializerAssumption
    <2>2. ByteValues ^ (i - 1) \in Nat \ {0}
        BY <2>1, PowerAssumption
    <2>. DEFINE p == ByteValues ^ (i - 1)
    <2>. HIDE DEF p
    <2>3. (n \div p) \in Int
        BY <2>2 DEF p
    <2>4. ByteValues \in Nat /\ 0 < ByteValues
        BY SerializerAssumption
    <2>5. ((n \div p) % ByteValues) \in 0 .. ByteValues - 1
        BY <2>3, <2>4, ModRange
    <2>. QED  BY <2>5 DEF p, Bytes
<1>2. b \in Nat
    BY SerializerAssumption
<1>3. Little(n, b) \in Seq(Bytes)
    BY <1>1, <1>2 DEF Little
<1>. QED  BY <1>3 DEF Memcpy, Copies

\* The values of messages.
LEMMA ValueKinds ==
    \A x \in Values :
        \/ x.t = "int" /\ x.v \in 0 .. ByteValues ^ IntBytes - 1
        \/ x.t = "str" /\ x.v \in Seq(Bytes)
        \/ x.t \in {"vec", "pair"} /\ x.v \in Seq(Values)
<1>. SUFFICES ASSUME NEW x \in Values
              PROVE  \/ x.t = "int" /\ x.v \in 0 .. ByteValues ^ IntBytes - 1
                     \/ x.t = "str" /\ x.v \in Seq(Bytes)
                     \/ x.t \in {"vec", "pair"} /\ x.v \in Seq(Values)
    OBVIOUS
<1>1. PICK T : HasType(x, T)
    BY TypedAssumption DEF Values
<1>. QED  BY <1>1 DEF HasType, Matches

\* operator<< comes down to values and copies.
LEMMA PartsAreItems ==
    ASSUME NEW x \in Values
    PROVE  Parts(x) \in Seq(Values \cup Copies)
<1>. DEFINE Items == Values \cup Copies
<1>1. CASE x.t = "int"
    <2>1. x.v \in Nat
        BY <1>1, ValueKinds, PowerAssumption, SerializerAssumption
    <2>2. Memcpy(Little(x.v, IntBytes)) \in Items
        BY <2>1, LittleIsBytes
    <2>. HIDE DEF Items
    <2>3. Parts(x) = <<Memcpy(Little(x.v, IntBytes))>>
        BY <1>1 DEF Parts
    <2>. QED  BY <2>2, <2>3 DEF Items
<1>2. CASE x.t = "str"
    <2>1. x.v \in Seq(Bytes) /\ Len(x.v) \in Nat
        BY <1>2, ValueKinds
    <2>2. SizeOf(x.v) \in Items
        BY <2>1, LittleIsBytes DEF SizeOf
    <2>3. Memcpy(x.v) \in Items
        BY <2>1 DEF Memcpy, Copies
    <2>. HIDE DEF Items
    <2>4. Parts(x) = <<SizeOf(x.v), Memcpy(x.v)>>
        BY <1>2 DEF Parts
    <2>. QED  BY <2>2, <2>3, <2>4 DEF Items
<1>3. CASE x.t = "vec"
    <2>1. x.v \in Seq(Values) /\ Len(x.v) \in Nat
        BY <1>3, ValueKinds
    <2>2. SizeOf(x.v) \in Items
        BY <2>1, LittleIsBytes DEF SizeOf
    <2>3. Parts(x) = <<SizeOf(x.v)>> \o x.v
        BY <1>3 DEF Parts
    <2>4. x.v \in Seq(Items)
        BY <2>1
    <2>. HIDE DEF Items
    <2>. QED  BY <2>2, <2>3, <2>4 DEF Items
<1>4. CASE x.t = "pair"
    <2>1. x.v \in Seq(Values)
        BY <1>4, ValueKinds
    <2>2. Parts(x) = x.v
        BY <1>4 DEF Parts
    <2>. QED  BY <2>1, <2>2
<1>5. x.t \in {"int", "str", "vec", "pair"}
    BY ValueKinds
<1>. QED  BY <1>1, <1>2, <1>3, <1>4, <1>5

-----------------------------------------------------------------------------
(* The invariant. *)

LEMMA WindowFits ==
    ASSUME window \in Windows
    PROVE  /\ Word \in Nat
           /\ window.start \in 0 .. Word - 1
           /\ window.len \in 0 .. Word - 1
           /\ window.start + window.len <= Word
<1>. DEFINE W == Word
<1>1. /\ window.start \in 0 .. Word - 1
      /\ window.len \in 0 .. Word - 1
      /\ window.start + window.len <= Word
    BY SerializerAssumption
<1>2. WordBytes \in 0 .. WordBytes + IntBytes
    BY SerializerAssumption
<1>3. Word \in Nat
    BY <1>2, PowerAssumption DEF Word
<1>. QED  BY <1>1, <1>3

\* assert_remaining compares with the space that is really left.
LEMMA RemainingIs ==
    ASSUME window \in Windows, used \in 0 .. window.len,
           buf = (window.start + used) % Word
    PROVE  Remaining = window.len - used
<1>1. /\ Word \in Nat
      /\ window.start \in 0 .. Word - 1
      /\ window.len \in 0 .. Word - 1
      /\ window.start + window.len <= Word
    BY WindowFits
<1>2. Remaining = (((window.start + window.len) % Word) - ((window.start + used) % Word)) % Word
    BY DEF Remaining, End, Plus
<1>. DEFINE s == window.start
            l == window.len
            w == Word
<1>. HIDE DEF s, l, w
<1>3. ((((s + l) % w) - ((s + used) % w)) % w) = l - used
    <2>1. w \in Nat /\ s \in 0 .. w - 1 /\ l \in 0 .. w - 1 /\ s + l <= w /\ used \in 0 .. l
        BY <1>1 DEF s, l, w
    <2>. QED  BY <2>1, SpaceLeft
<1>. QED  BY <1>2, <1>3 DEF s, l, w

LEMMA CopyLength ==
    ASSUME todo \in Seq(Values \cup Copies), todo # <<>>, Head(todo).t = "bytes"
    PROVE  Len(Head(todo).v) \in Nat
<1>1. CASE Head(todo) \in Copies
    BY <1>1 DEF Copies
<1>2. CASE Head(todo) \in Values
    BY <1>2, ValueKinds
<1>. QED  BY <1>1, <1>2

LEMMA InitWriting == Init => WritingInv
<1>. SUFFICES ASSUME Init
              PROVE  WritingInv
    OBVIOUS
<1>. USE DEF Init
<1>. HIDE DEF Word
<1>1. /\ Word \in Nat
      /\ window.start \in 0 .. Word - 1
      /\ window.len \in 0 .. Word - 1
      /\ window.start + window.len <= Word
    BY WindowFits
<1>2. buf = (window.start + used) % Word
    <2>1. window.start + used = window.start /\ window.start \in Nat /\ window.start < Word
        BY <1>1
    <2>. QED  BY <1>1, <2>1, ModSmall
<1>3. DOMAIN mem = 0 .. Word - 1
    OBVIOUS
<1>4. todo \in Seq(Values \cup Copies)
    <2>1. todo \in Seq(Values)
        BY TypedAssumption DEF Matches
    <2>. QED  BY <2>1
<1>5. WindowOnly
    BY DEF WindowOnly
<1>. QED  BY <1>1, <1>2, <1>3, <1>4, <1>5 DEF WritingInv

LEMMA NextWriting == WritingInv /\ [Next]_vars => WritingInv'
<1>. SUFFICES ASSUME WritingInv, [Next]_vars
              PROVE  WritingInv'
    OBVIOUS
<1>. USE DEF WritingInv
<1>0. /\ Word \in Nat
      /\ window.start \in 0 .. Word - 1
      /\ window.len \in 0 .. Word - 1
      /\ window.start + window.len <= Word
    BY WindowFits
<1>1. CASE Unfold
    <2>1. Head(todo) \in Values
        BY <1>1 DEF Unfold, Copies
    <2>2. Parts(Head(todo)) \in Seq(Values \cup Copies)
        BY <2>1, PartsAreItems
    <2>3. todo' \in Seq(Values \cup Copies)
        BY <1>1, <2>2 DEF Unfold
    <2>. QED  BY <1>1, <2>3 DEF Unfold, WindowOnly, InWindow
<1>2. CASE Copy
    <2>. DEFINE bs == Head(todo).v
    <2>1. /\ pc = "write" /\ pc' = "write"
          /\ todo # <<>>
          /\ Accepts(Len(bs))
          /\ mem' = [a \in DOMAIN mem |->
                        IF ((a - buf) % Word) + 1 <= Len(bs)
                        THEN bs[((a - buf) % Word) + 1] ELSE mem[a]]
          /\ buf' = Plus(buf, Len(bs))
          /\ used' = used + Len(bs)
          /\ todo' = Tail(todo)
          /\ window' = window
        BY <1>2 DEF Copy
    <2>2. Len(bs) \in Nat
        BY <1>2, CopyLength DEF Copy
    <2>3. todo' \in Seq(Values \cup Copies)
        BY <2>1
    <2>. DEFINE n == Len(bs)
    <2>. HIDE DEF bs, n, Word
    <2>4. n <= window.len - used
        <3>1. Remaining = window.len - used
            BY <2>1, RemainingIs
        <3>. QED  BY <1>0, <2>1, <2>2, <3>1 DEF Accepts, n
    <2>5. used' \in 0 .. window.len
        <3>1. used' = used + n /\ n \in Nat
            BY <2>1, <2>2 DEF n
        <3>2. used \in 0 .. window.len /\ window.len \in Nat
            BY <1>0
        <3>. HIDE DEF WritingInv
        <3>. QED  BY <2>4, <3>1, <3>2
    <2>6. buf' = (window.start + used') % Word
        <3>1. buf' = (((window.start + used) % Word) + n) % Word
            BY <2>1 DEF Plus, n
        <3>2. used' = used + n /\ n \in Nat
            BY <2>1, <2>2 DEF n
        <3>. QED  BY <1>0, <2>4, <3>1, <3>2, PlusIs
    <2>7. WindowOnly'
        <3>1. ASSUME NEW a \in 0 .. Word - 1, ~InWindow(a)
              PROVE  mem'[a] = Foreign
            <4>1. a < window.start \/ a >= window.start + window.len
                BY <1>0, <3>1 DEF InWindow
            <4>2. ((a - buf) % Word) >= window.len - used
                BY <1>0, <2>1, <4>1, OutsideIsFar
            <4>3. ((a - buf) % Word) \in Int
                <5>1. buf \in Int
                    BY <1>0, <2>1, ModRange
                <5>. QED  BY <1>0, <5>1, ModRange
            <4>4. ~(((a - buf) % Word) + 1 <= n)
                BY <1>0, <2>2, <2>4, <4>2, <4>3 DEF n
            <4>5. mem'[a] = mem[a]
                BY <2>1, <4>4 DEF n
            <4>. QED  BY <3>1, <4>5 DEF WindowOnly
        <3>. QED  BY <2>1, <3>1 DEF WindowOnly, InWindow
    <2>8. DOMAIN mem' = 0 .. Word - 1
        BY <2>1
    <2>. QED  BY <2>1, <2>3, <2>5, <2>6, <2>7, <2>8
<1>3. CASE Overflow
    <2>. DEFINE n == Len(Head(todo).v)
    <2>1. n \in Nat
        BY <1>3, CopyLength DEF Overflow
    <2>. HIDE DEF n, Word
    <2>2. Remaining = window.len - used
        BY <1>3, RemainingIs DEF Overflow
    <2>3. ~Accepts(n)
        BY <1>3 DEF Overflow, n
    <2>4. used + n > window.len
        BY <1>0, <2>1, <2>2, <2>3 DEF Accepts
    <2>. QED  BY <1>3, <2>4 DEF Overflow, WindowOnly, InWindow, n
<1>. HIDE DEF Word
<1>4. CASE Send
    BY <1>4 DEF Send, WindowOnly, InWindow
<1>5. CASE ReadInt \/ ReadString \/ ReadBytes
    BY <1>5 DEF ReadInt, ReadString, ReadBytes, Reading, WindowOnly, InWindow
<1>6. CASE ReadVector \/ ReadPair \/ Received
    BY <1>6 DEF ReadVector, ReadPair, Received, Reading, WindowOnly, InWindow
<1>7. CASE Terminating \/ UNCHANGED vars
    BY <1>7 DEF Terminating, vars, WindowOnly, InWindow
<1>. QED  BY <1>1, <1>2, <1>3, <1>4, <1>5, <1>6, <1>7 DEF Next

\* The invariant says what the two properties say.
LEMMA WritingImplies == WritingInv => WindowOnly /\ RefusedOnlyWhenFull
<1>. SUFFICES ASSUME WritingInv
              PROVE  RefusedOnlyWhenFull
    BY DEF WritingInv
<1>. USE DEF WritingInv
<1>0. /\ Word \in Nat
      /\ window.start \in 0 .. Word - 1
      /\ window.len \in 0 .. Word - 1
      /\ window.start + window.len <= Word
    BY WindowFits
<1>. HIDE DEF Word
<1>1. ASSUME pc \in {"write", "threw"}
      PROVE  ((buf - window.start) % Word) = used
    BY <1>0, <1>1, UsedIs
<1>. QED  BY <1>1 DEF RefusedOnlyWhenFull

\* Whatever the width of a word, wherever the buffer lies and whatever is sent,
\* Serializer::serialize writes into the buffer only.
THEOREM WritesStayInside == Spec => []WindowOnly
<1>. USE InitWriting, NextWriting, WritingImplies
<1>. QED  BY PTL DEF Spec

\* It throws only if the copy does not fit, and Serializer::length() is the
\* number of bytes written.
THEOREM RefusalsAreNeeded == Spec => []RefusedOnlyWhenFull
<1>. USE InitWriting, NextWriting, WritingImplies
<1>. QED  BY PTL DEF Spec

-----------------------------------------------------------------------------
(* A number is known from its bytes. *)

LEMMA LeastMember ==
    ASSUME NEW T \in SUBSET Nat, T # {}
    PROVE  \E m \in T : \A k \in T : m <= k
<1>1. PICK m \in T : \A k \in T : <<k, m>> \notin OpToRel(<, Nat)
    BY NatLessThanWellFounded, WFMin
<1>2. ASSUME NEW k \in T
      PROVE  m <= k
    <2>1. ~(k < m)
        BY <1>1 DEF OpToRel
    <2>. QED  BY <2>1
<1>. QED  BY <1>2

\* Division as multiplication.
LEMMA DivisionFacts ==
    ASSUME NEW n \in Nat, NEW d \in Nat, 0 < d
    PROVE  /\ n \div d \in Nat
           /\ n % d \in 0 .. d - 1
           /\ n = d * (n \div d) + (n % d)
<1>1. n \div d \in Int /\ n = d * (n \div d) + (n % d)
    OBVIOUS
<1>2. n % d \in 0 .. d - 1
    OBVIOUS
<1>3. PICK q \in Int : q = n \div d
    BY <1>1
<1>4. PICK r \in 0 .. d - 1 : r = n % d
    BY <1>2
<1>5. n = d * q + r
    BY <1>1, <1>3, <1>4
<1>6. ASSUME q <= -1
      PROVE  FALSE
    <2>1. d * q <= -d
        BY <1>6
    <2>. QED  BY <1>5, <2>1
<1>7. q \in Nat
    BY <1>6
<1>. QED  BY <1>3, <1>4, <1>5, <1>7

LEMMA QuotientIs ==
    ASSUME NEW n \in Nat, NEW d \in Nat, 0 < d, NEW t \in Nat, NEW r \in 0 .. d - 1,
           n = d * t + r
    PROVE  n \div d = t
<1>1. PICK q \in Nat : q = n \div d
    BY DivisionFacts
<1>2. PICK s \in 0 .. d - 1 : n = d * q + s
    BY <1>1, DivisionFacts
<1>3. d * q - d * t = r - s
    BY <1>2
<1>4. d * (q - t) = r - s
    BY <1>3
<1>5. ASSUME q - t >= 1
      PROVE  FALSE
    <2>1. d * (q - t) >= d
        BY <1>5
    <2>. QED  BY <1>4, <2>1
<1>6. ASSUME q - t <= -1
      PROVE  FALSE
    <2>1. d * (q - t) <= -d
        BY <1>6
    <2>. QED  BY <1>4, <2>1
<1>7. q - t \in Int
    OBVIOUS
<1>8. q - t = 0
    BY <1>5, <1>6, <1>7
<1>9. q = t
    BY <1>8
<1>. QED  BY <1>1, <1>9

\* The next byte is the quotient's.
LEMMA QuotientTwice ==
    ASSUME NEW n \in Nat, NEW p \in Nat, 0 < p, NEW b \in Nat, 0 < b
    PROVE  (n \div p) \div b = n \div (b * p)
<1>1. PICK q \in Nat, r \in 0 .. p - 1 : q = n \div p /\ n = p * q + r
    BY DivisionFacts
<1>2. PICK t \in Nat, u \in 0 .. b - 1 : t = q \div b /\ q = b * t + u
    BY DivisionFacts
<1>3. b * p \in Nat /\ 0 < b * p
    OBVIOUS
<1>4. n = (b * p) * t + (p * u + r)
    <2>1. p * q = p * (b * t) + p * u
        BY <1>2
    <2>2. p * (b * t) = (b * p) * t
        OBVIOUS
    <2>. QED  BY <1>1, <2>1, <2>2
<1>5. p * u + r \in 0 .. (b * p) - 1
    <2>1. p * u <= p * (b - 1)
        OBVIOUS
    <2>2. p * (b - 1) = b * p - p
        OBVIOUS
    <2>3. p * u \in Nat
        OBVIOUS
    <2>. QED  BY <1>3, <2>1, <2>2, <2>3
<1>6. n \div (b * p) = t
    BY <1>3, <1>4, <1>5, QuotientIs
<1>. QED  BY <1>1, <1>2, <1>6

\* No two numbers of a size have the same bytes.
LEMMA LittleOneToOne ==
    ASSUME NEW b \in {WordBytes, IntBytes},
           NEW n \in 0 .. ByteValues ^ b - 1, NEW m \in 0 .. ByteValues ^ b - 1,
           Little(n, b) = Little(m, b)
    PROVE  n = m
<1>. DEFINE p(i) == ByteValues ^ i
<1>1. /\ b \in Nat \ {0} /\ ByteValues \in Nat /\ 0 < ByteValues
      /\ p(0) = 1
      /\ \A i \in 0 .. b : p(i) \in Nat /\ 0 < p(i) /\ p(i + 1) = ByteValues * p(i)
    <2>1. \A i \in 0 .. b : i \in 0 .. WordBytes + IntBytes
        BY SerializerAssumption
    <2>. QED  BY <2>1, SerializerAssumption, PowerAssumption
<1>2. n \in Nat /\ m \in Nat /\ n < p(b) /\ m < p(b)
    BY <1>1
<1>3. \A i \in 1 .. b : /\ Little(n, b)[i] = (n \div p(i - 1)) % ByteValues
                        /\ Little(m, b)[i] = (m \div p(i - 1)) % ByteValues
    BY DEF Little
<1>. HIDE DEF p
<1>4. n \div p(b) = 0 /\ m \div p(b) = 0
    <2>1. p(b) \in Nat /\ 0 < p(b)
        BY <1>1
    <2>2. n = p(b) * 0 + n /\ m = p(b) * 0 + m
        BY <1>2, <2>1
    <2>. QED  BY <1>2, <2>1, <2>2, QuotientIs
<1>5. ASSUME NEW i \in 0 .. b - 1, n \div p(i + 1) = m \div p(i + 1)
      PROVE  n \div p(i) = m \div p(i)
    <2>1. /\ p(i) \in Nat /\ 0 < p(i) /\ p(i + 1) = ByteValues * p(i)
          /\ i + 1 \in 1 .. b /\ (i + 1) - 1 = i
        BY <1>1
    <2>2. (n \div p(i)) % ByteValues = (m \div p(i)) % ByteValues
        BY <1>3, <2>1
    <2>3. (n \div p(i)) \div ByteValues = (m \div p(i)) \div ByteValues
        BY <1>1, <1>2, <1>5, <2>1, QuotientTwice
    <2>4. PICK x \in Nat : x = n \div p(i)
        BY <1>2, <2>1, DivisionFacts
    <2>5. PICK y \in Nat : y = m \div p(i)
        BY <1>2, <2>1, DivisionFacts
    <2>6. x = ByteValues * (x \div ByteValues) + (x % ByteValues)
        BY <1>1, DivisionFacts
    <2>7. y = ByteValues * (y \div ByteValues) + (y % ByteValues)
        BY <1>1, DivisionFacts
    <2>8. x \div ByteValues = y \div ByteValues /\ x % ByteValues = y % ByteValues
        BY <2>2, <2>3, <2>4, <2>5
    <2>9. x = y
        BY <2>6, <2>7, <2>8, Zenon
    <2>. QED  BY <2>4, <2>5, <2>9
<1>. DEFINE Differ == {k \in 0 .. b : n \div p(b - k) # m \div p(b - k)}
<1>6. Differ = {}
    <2>. SUFFICES ASSUME Differ # {}
                  PROVE  FALSE
        OBVIOUS
    <2>1. PICK k \in Differ : \A l \in Differ : k <= l
        <3>1. Differ \in SUBSET Nat
            BY <1>1
        <3>. HIDE DEF Differ
        <3>. QED  BY <3>1, LeastMember
    <2>2. k \in 0 .. b /\ n \div p(b - k) # m \div p(b - k)
        OBVIOUS
    <2>3. k # 0
        <3>1. CASE k = 0
            <4>1. b - k = b
                BY <1>1, <3>1
            <4>. QED  BY <1>4, <2>2, <4>1
        <3>. QED  BY <3>1
    <2>4. k - 1 \in 0 .. b /\ ~(k <= k - 1)
        BY <1>1, <2>2, <2>3
    <2>5. n \div p(b - (k - 1)) = m \div p(b - (k - 1))
        BY <2>1, <2>4
    <2>6. b - (k - 1) = (b - k) + 1 /\ b - k \in 0 .. b - 1
        BY <1>1, <2>2, <2>3
    <2>. QED  BY <1>5, <2>2, <2>5, <2>6
<1>7. n \div p(0) = m \div p(0)
    <2>1. b \in 0 .. b /\ b - b = 0
        BY <1>1
    <2>. QED  BY <1>6, <2>1
<1>8. n \div 1 = n /\ m \div 1 = m
    BY <1>2
<1>. QED  BY <1>1, <1>7, <1>8

-----------------------------------------------------------------------------
(* The reader's way through a message.  The reader is followed while the   *)
(* message is being written: a configuration says how many bytes it has    *)
(* taken, which types it still wants and what it has heard.  A value that  *)
(* operator<< has begun comes down to one or two copies, and the reader    *)
(* takes each of them by one step.                                         *)

Heard == Nat \cup Seq(Bytes)
Wanted == Types \cup [t : {"bytes"}, n : Nat]
Configs == [at : Nat, want : Seq(Wanted), heard : Seq(Heard)]

Sizes == 0 .. Word - 1
Numbers == 0 .. ByteValues ^ IntBytes - 1

\* What operator>> makes of the bytes bs in configuration c.
Takes(c, bs, d) ==
    /\ c.want # <<>>
    /\ d.at = c.at + Len(bs)
    /\ \/ /\ Head(c.want).t = "int"
          /\ \E v \in Numbers :
                bs = Little(v, IntBytes) /\ d.heard = Append(c.heard, v)
          /\ d.want = Tail(c.want)
       \/ /\ Head(c.want).t = "str"
          /\ \E n \in Sizes :
                /\ bs = Little(n, WordBytes)
                /\ d.want = <<[t |-> "bytes", n |-> n]>> \o Tail(c.want)
          /\ d.heard = c.heard
       \/ /\ Head(c.want).t = "bytes"
          /\ Head(c.want).n = Len(bs)
          /\ d.want = Tail(c.want)
          /\ d.heard = Append(c.heard, bs)
       \/ /\ Head(c.want).t = "vec"
          /\ \E n \in Sizes :
                /\ bs = Little(n, WordBytes)
                /\ d.want = [i \in 1 .. n |-> Head(c.want).of] \o Tail(c.want)
                /\ d.heard = Append(c.heard, n)
       \/ /\ Head(c.want).t = "pair"
          /\ bs = <<>>
          /\ d.want = Head(c.want).of \o Tail(c.want)
          /\ d.heard = c.heard

\* With these items to be serialized and h said, the writer is at c: between two
\* values, before the last copy of a value, or before the size of a string.
Between(items, h, c) == Matches(items, c.want) /\ h = c.heard

LastCopy(items, h, c) ==
    /\ items # <<>>
    /\ \E bs \in Seq(Bytes), d \in Configs :
        Head(items) = Memcpy(bs) /\ Takes(c, bs, d) /\ Between(Tail(items), h, d)

SizeCopy(items, h, c) ==
    /\ items # <<>>
    /\ \E bs \in Seq(Bytes), d \in Configs :
        Head(items) = Memcpy(bs) /\ Takes(c, bs, d) /\ LastCopy(Tail(items), h, d)

Follows(items, h, c) == Between(items, h, c) \/ LastCopy(items, h, c) \/ SizeCopy(items, h, c)

-----------------------------------------------------------------------------
(* Sequences. *)

LEMMA ConsFacts ==
    ASSUME NEW X, NEW x \in X, NEW s \in Seq(X)
    PROVE  /\ <<x>> \o s \in Seq(X)
           /\ <<x>> \o s # <<>>
           /\ Head(<<x>> \o s) = x
           /\ Tail(<<x>> \o s) = s
<1>. DEFINE q == <<x>> \o s
<1>1. <<x>> \in Seq(X) /\ Len(<<x>>) = 1 /\ <<x>>[1] = x
    OBVIOUS
<1>2. /\ q \in Seq(X) /\ Len(q) = 1 + Len(s)
      /\ \A i \in 1 .. 1 + Len(s) : q[i] = IF i <= 1 THEN <<x>>[i] ELSE s[i - 1]
    BY <1>1, ConcatProperties
<1>3. Len(s) \in Nat
    BY LenProperties
<1>. HIDE DEF q
<1>4. q # <<>> /\ Len(q) # 0
    BY <1>2, <1>3
<1>5. Head(q) = x
    <2>1. Head(q) = q[1]
        BY <1>2, <1>4
    <2>. QED  BY <1>1, <1>2, <1>3, <2>1
<1>6. Tail(q) = s
    <2>1. /\ Tail(q) \in Seq(X) /\ Len(Tail(q)) = Len(q) - 1
          /\ \A i \in 1 .. Len(Tail(q)) : Tail(q)[i] = q[i + 1]
        BY <1>2, <1>4, HeadTailProperties
    <2>2. Len(Tail(q)) = Len(s)
        BY <1>2, <1>3, <2>1
    <2>3. \A i \in 1 .. Len(s) : Tail(q)[i] = s[i]
        <3>1. \A i \in 1 .. Len(s) : i + 1 \in 1 .. 1 + Len(s) /\ ~(i + 1 <= 1) /\ (i + 1) - 1 = i
            BY <1>3
        <3>. QED  BY <1>2, <2>1, <2>2, <3>1
    <2>. QED  BY <2>1, <2>2, <2>3, SeqEqual
<1>. QED  BY <1>2, <1>4, <1>5, <1>6 DEF q

\* The values and types of a message are taken off together.
LEMMA MatchesHead ==
    ASSUME NEW xs, NEW Ts, Matches(xs, Ts), xs # <<>>
    PROVE  /\ Ts # <<>>
           /\ Head(xs) \in Values /\ Head(Ts) \in Types
           /\ HasType(Head(xs), Head(Ts))
           /\ Matches(Tail(xs), Tail(Ts))
<1>1. /\ xs \in Seq(Values) /\ Ts \in Seq(Types) /\ Len(xs) = Len(Ts)
      /\ \A i \in 1 .. Len(xs) : <<xs[i], Ts[i]>> \in Typed
    BY DEF Matches
<1>2. Len(xs) \in Nat \ {0}
    BY <1>1, EmptySeq
<1>3. Ts # <<>>
    BY <1>1, <1>2
<1>4. Head(xs) = xs[1] /\ Head(Ts) = Ts[1]
    BY <1>1, <1>2, <1>3
<1>5. <<Head(xs), Head(Ts)>> \in Typed
    BY <1>1, <1>2, <1>4
<1>6. HasType(Head(xs), Head(Ts))
    <2>1. \A p \in Typed : HasType(p[1], p[2])
        BY TypedAssumption
    <2>. QED  BY <1>5, <2>1
<1>7. /\ Tail(xs) \in Seq(Values) /\ Len(Tail(xs)) = Len(xs) - 1
      /\ \A i \in 1 .. Len(Tail(xs)) : Tail(xs)[i] = xs[i + 1]
    BY <1>1, HeadTailProperties
<1>8. /\ Tail(Ts) \in Seq(Types) /\ Len(Tail(Ts)) = Len(Ts) - 1
      /\ \A i \in 1 .. Len(Tail(Ts)) : Tail(Ts)[i] = Ts[i + 1]
    BY <1>1, <1>3, HeadTailProperties
<1>9. \A i \in 1 .. Len(Tail(xs)) : <<Tail(xs)[i], Tail(Ts)[i]>> \in Typed
    <2>1. \A i \in 1 .. Len(Tail(xs)) : i + 1 \in 1 .. Len(xs) /\ i \in 1 .. Len(Tail(Ts))
        BY <1>1, <1>2, <1>7, <1>8
    <2>. QED  BY <1>1, <1>7, <1>8, <2>1
<1>10. Matches(Tail(xs), Tail(Ts))
    BY <1>1, <1>7, <1>8, <1>9 DEF Matches
<1>11. Head(xs) \in Values /\ Head(Ts) \in Types
    BY <1>1, <1>3, HeadTailProperties
<1>. QED  BY <1>3, <1>6, <1>10, <1>11

LEMMA MatchesConcat ==
    ASSUME NEW xs, NEW Ts, Matches(xs, Ts), NEW ys, NEW Us, Matches(ys, Us)
    PROVE  Matches(xs \o ys, Ts \o Us)
<1>1. /\ xs \in Seq(Values) /\ Ts \in Seq(Types) /\ Len(xs) = Len(Ts)
      /\ \A i \in 1 .. Len(xs) : <<xs[i], Ts[i]>> \in Typed
    BY DEF Matches
<1>2. /\ ys \in Seq(Values) /\ Us \in Seq(Types) /\ Len(ys) = Len(Us)
      /\ \A i \in 1 .. Len(ys) : <<ys[i], Us[i]>> \in Typed
    BY DEF Matches
<1>3. Len(xs) \in Nat /\ Len(ys) \in Nat
    BY <1>1, <1>2, LenProperties
<1>4. /\ xs \o ys \in Seq(Values) /\ Len(xs \o ys) = Len(xs) + Len(ys)
      /\ \A i \in 1 .. Len(xs) + Len(ys) :
            (xs \o ys)[i] = IF i <= Len(xs) THEN xs[i] ELSE ys[i - Len(xs)]
    BY <1>1, <1>2, ConcatProperties
<1>5. /\ Ts \o Us \in Seq(Types) /\ Len(Ts \o Us) = Len(Ts) + Len(Us)
      /\ \A i \in 1 .. Len(Ts) + Len(Us) :
            (Ts \o Us)[i] = IF i <= Len(Ts) THEN Ts[i] ELSE Us[i - Len(Ts)]
    BY <1>1, <1>2, ConcatProperties
<1>6. ASSUME NEW i \in 1 .. Len(xs) + Len(ys)
      PROVE  <<(xs \o ys)[i], (Ts \o Us)[i]>> \in Typed
    <2>1. CASE i <= Len(xs)
        <3>1. (xs \o ys)[i] = xs[i] /\ (Ts \o Us)[i] = Ts[i] /\ i \in 1 .. Len(xs)
            BY <1>1, <1>2, <1>3, <1>4, <1>5, <2>1
        <3>. QED  BY <1>1, <3>1
    <2>2. CASE ~(i <= Len(xs))
        <3>1. /\ (xs \o ys)[i] = ys[i - Len(xs)] /\ (Ts \o Us)[i] = Us[i - Len(xs)]
              /\ i - Len(xs) \in 1 .. Len(ys)
            BY <1>1, <1>2, <1>3, <1>4, <1>5, <2>2
        <3>. QED  BY <1>2, <3>1
    <2>. QED  BY <2>1, <2>2
<1>. QED  BY <1>1, <1>2, <1>4, <1>5, <1>6 DEF Matches

\* a is how b begins.
Begins(a, b) == Len(a) <= Len(b) /\ \A i \in 1 .. Len(a) : a[i] = b[i]

LEMMA BeginsAppend ==
    ASSUME NEW a \in Seq(Heard), NEW b \in Seq(Heard), Begins(a, b), NEW v \in Heard
    PROVE  Begins(a, Append(b, v)) /\ Append(b, v) \in Seq(Heard)
<1>1. /\ Append(b, v) \in Seq(Heard)
      /\ Len(Append(b, v)) = Len(b) + 1
      /\ \A i \in 1 .. Len(b) : Append(b, v)[i] = b[i]
    BY AppendProperties
<1>2. Len(a) \in Nat /\ Len(b) \in Nat
    BY LenProperties
<1>3. \A i \in 1 .. Len(a) : i \in 1 .. Len(b)
    BY <1>2 DEF Begins
<1>. QED  BY <1>1, <1>2, <1>3 DEF Begins

LEMMA BeginsIsSubSeq ==
    ASSUME NEW a \in Seq(Heard), NEW b \in Seq(Heard), Begins(a, b)
    PROVE  a = SubSeq(b, 1, Len(a))
<1>1. Len(a) \in Nat /\ Len(b) \in Nat /\ Len(a) <= Len(b)
    BY LenProperties DEF Begins
<1>2. \A i \in 1 .. Len(a) : b[i] \in Heard
    BY <1>1, ElementOfSeq
<1>3. /\ SubSeq(b, 1, Len(a)) \in Seq(Heard)
      /\ Len(SubSeq(b, 1, Len(a))) = IF 1 <= Len(a) THEN Len(a) - 1 + 1 ELSE 0
      /\ \A i \in 1 .. Len(a) - 1 + 1 : SubSeq(b, 1, Len(a))[i] = b[1 + i - 1]
    BY <1>1, <1>2, SubSeqProperties
<1>4. Len(SubSeq(b, 1, Len(a))) = Len(a)
    BY <1>1, <1>3
<1>5. \A i \in 1 .. Len(a) : SubSeq(b, 1, Len(a))[i] = a[i]
    <2>1. \A i \in 1 .. Len(a) : 1 + i - 1 = i /\ i \in 1 .. Len(a) - 1 + 1
        BY <1>1
    <2>. QED  BY <1>3, <2>1 DEF Begins
<1>. QED  BY <1>3, <1>4, <1>5, SeqEqual

\* What is read is what comes after what was read before.
LEMMA BeginsSelf ==
    ASSUME NEW a \in Seq(Heard)
    PROVE  Begins(a, a)
BY LenProperties DEF Begins

LEMMA BeginsTransitive ==
    ASSUME NEW a \in Seq(Heard), NEW b \in Seq(Heard), NEW c \in Seq(Heard),
           Begins(a, b), Begins(b, c)
    PROVE  Begins(a, c)
<1>1. Len(a) \in Nat /\ Len(b) \in Nat /\ Len(c) \in Nat
    BY LenProperties
<1>2. Len(a) <= Len(b) /\ Len(b) <= Len(c)
    BY DEF Begins
<1>3. \A i \in 1 .. Len(a) : i \in 1 .. Len(b)
    BY <1>1, <1>2
<1>. QED  BY <1>1, <1>2, <1>3 DEF Begins

LEMMA NumbersAreHeard == Numbers \subseteq Nat /\ Sizes \subseteq Nat /\ Nat \subseteq Heard
<1>1. IntBytes \in 0 .. WordBytes + IntBytes
    BY SerializerAssumption
<1>2. ByteValues ^ IntBytes \in Nat
    BY <1>1, PowerAssumption
<1>. QED  BY <1>2, WordIs DEF Numbers, Sizes, Heard

\* The reader never takes back what it heard.
LEMMA TakesHears ==
    ASSUME NEW c \in Configs, NEW d \in Configs, NEW bs \in Seq(Bytes), Takes(c, bs, d)
    PROVE  Begins(c.heard, d.heard)
<1>1. c.heard \in Seq(Heard)
    BY DEF Configs
<1>2. CASE d.heard = c.heard
    BY <1>1, <1>2, BeginsSelf
<1>3. ASSUME NEW v \in Heard, d.heard = Append(c.heard, v)
      PROVE  Begins(c.heard, d.heard)
    <2>1. Begins(c.heard, c.heard)
        BY <1>1, BeginsSelf
    <2>. QED  BY <1>1, <1>3, <2>1, BeginsAppend
<1>4. bs \in Heard
    BY DEF Heard
<1>. QED  BY <1>2, <1>3, <1>4, NumbersAreHeard DEF Takes

LEMMA LittleLength ==
    ASSUME NEW n \in Nat, NEW b \in {WordBytes, IntBytes}
    PROVE  Little(n, b) \in Seq(Bytes) /\ Len(Little(n, b)) = b
<1>1. b \in Nat
    BY SerializerAssumption
<1>2. Little(n, b) \in Seq(Bytes)
    BY LittleIsBytes DEF Memcpy, Copies
<1>3. DOMAIN Little(n, b) = 1 .. b
    BY DEF Little
<1>4. 1 .. Len(Little(n, b)) = 1 .. b /\ Len(Little(n, b)) \in Nat
    BY <1>2, <1>3, LenProperties
<1>. QED  BY <1>1, <1>2, <1>4

-----------------------------------------------------------------------------
(* operator<< keeps up with the reader. *)

Items == Values \cup Copies

LEMMA BetweenHead ==
    ASSUME NEW items, NEW h, NEW c \in Configs, Between(items, h, c), items # <<>>
    PROVE  /\ h \in Seq(Heard) /\ h = c.heard
           /\ Tail(items) \in Seq(Values) /\ Tail(items) \in Seq(Items)
           /\ c.want # <<>>
           /\ Head(items) \in Values
           /\ HasType(Head(items), Head(c.want))
           /\ Matches(Tail(items), Tail(c.want))
           /\ Tail(c.want) \in Seq(Types) /\ Tail(c.want) \in Seq(Wanted)
<1>1. Matches(items, c.want) /\ h = c.heard
    BY DEF Between
<1>2. /\ c.want # <<>>
      /\ Head(items) \in Values
      /\ HasType(Head(items), Head(c.want))
      /\ Matches(Tail(items), Tail(c.want))
    BY <1>1, MatchesHead
<1>3. Tail(items) \in Seq(Values) /\ Tail(c.want) \in Seq(Types)
    BY <1>2 DEF Matches
<1>4. Tail(items) \in Seq(Items) /\ Tail(c.want) \in Seq(Wanted)
    BY <1>3 DEF Items, Wanted
<1>5. h \in Seq(Heard)
    BY <1>1 DEF Configs
<1>. QED  BY <1>1, <1>2, <1>3, <1>4, <1>5

LEMMA UnfoldInt ==
    ASSUME NEW items, NEW h, NEW c \in Configs, Between(items, h, c), items # <<>>,
           Head(items).t = "int"
    PROVE  LastCopy(Parts(Head(items)) \o Tail(items), h \o Told(Head(items)), c)
<1>. DEFINE x == Head(items)
            bs == Little(x.v, IntBytes)
            rest == Tail(items)
            d == [at |-> c.at + Len(bs), want |-> Tail(c.want), heard |-> Append(c.heard, x.v)]
<1>1. x.v \in Numbers /\ Head(c.want).t = "int"
    BY BetweenHead DEF HasType, Numbers
<1>2. x.v \in Nat /\ x.v \in Heard
    BY <1>1, NumbersAreHeard
<1>3. bs \in Seq(Bytes) /\ Len(bs) \in Nat
    BY <1>2, LittleLength, LenProperties
<1>4. Parts(x) = <<Memcpy(bs)>> /\ Told(x) = <<x.v>>
    BY DEF Parts, Told
<1>5. Memcpy(bs) \in Items
    BY <1>3 DEF Memcpy, Copies, Items
<1>6. h \o <<x.v>> = Append(h, x.v) /\ Append(h, x.v) \in Seq(Heard)
    BY <1>2, BetweenHead, AppendIsConcat, AppendProperties
<1>7. d \in Configs
    BY <1>3, <1>6, BetweenHead DEF Configs
<1>8. Takes(c, bs, d)
    <2>1. \E v \in Numbers : bs = Little(v, IntBytes) /\ d.heard = Append(c.heard, v)
        BY <1>1
    <2>2. d.at = c.at + Len(bs) /\ d.want = Tail(c.want)
        OBVIOUS
    <2>. HIDE DEF d, bs
    <2>. QED  BY <1>1, <2>1, <2>2, BetweenHead DEF Takes
<1>9. Between(rest, h \o <<x.v>>, d)
    BY <1>6, BetweenHead DEF Between
<1>. HIDE DEF x, bs, d
<1>10. /\ <<Memcpy(bs)>> \o rest # <<>>
       /\ Head(<<Memcpy(bs)>> \o rest) = Memcpy(bs)
       /\ Tail(<<Memcpy(bs)>> \o rest) = rest
    BY <1>5, BetweenHead, ConsFacts
<1>11. LastCopy(<<Memcpy(bs)>> \o rest, h \o <<x.v>>, c)
    <2>. HIDE DEF rest
    <2>. QED  BY <1>3, <1>7, <1>8, <1>9, <1>10 DEF LastCopy
<1>. QED  BY <1>4, <1>11 DEF x

LEMMA UnfoldString ==
    ASSUME NEW items, NEW h, NEW c \in Configs, Between(items, h, c), items # <<>>,
           Head(items).t = "str"
    PROVE  SizeCopy(Parts(Head(items)) \o Tail(items), h \o Told(Head(items)), c)
<1>. DEFINE x == Head(items)
            n == Len(x.v)
            size == Little(n, WordBytes)
            rest == Tail(items)
            d == [at |-> c.at + Len(size),
                  want |-> <<[t |-> "bytes", n |-> n]>> \o Tail(c.want),
                  heard |-> c.heard]
            e == [at |-> d.at + Len(x.v), want |-> Tail(c.want),
                  heard |-> Append(c.heard, x.v)]
<1>1. x.v \in Seq(Bytes) /\ n < Word /\ Head(c.want).t = "str"
    BY BetweenHead DEF HasType
<1>2. n \in Nat /\ n \in Sizes /\ x.v \in Heard
    BY <1>1, LenProperties, WordIs DEF Sizes, Heard
<1>3. size \in Seq(Bytes) /\ Len(size) \in Nat
    BY <1>2, LittleLength, LenProperties
<1>4. Parts(x) = <<Memcpy(size), Memcpy(x.v)>> /\ Told(x) = <<x.v>>
    BY DEF Parts, Told, SizeOf
<1>5. Memcpy(size) \in Items /\ Memcpy(x.v) \in Items
    BY <1>1, <1>3 DEF Memcpy, Copies, Items
<1>6. h \o <<x.v>> = Append(h, x.v) /\ Append(h, x.v) \in Seq(Heard)
    BY <1>2, BetweenHead, AppendIsConcat, AppendProperties
<1>7. [t |-> "bytes", n |-> n] \in Wanted
    BY <1>2 DEF Wanted
<1>8. /\ d.want \in Seq(Wanted) /\ d.want # <<>>
      /\ Head(d.want) = [t |-> "bytes", n |-> n]
      /\ Tail(d.want) = Tail(c.want)
    BY <1>7, BetweenHead, ConsFacts
<1>9. d \in Configs
    <2>1. d.at \in Nat
        BY <1>3 DEF Configs
    <2>2. d.heard \in Seq(Heard)
        BY DEF Configs
    <2>. QED  BY <1>8, <2>1, <2>2 DEF Configs
<1>10. e \in Configs
    <2>1. d.at \in Nat
        BY <1>9 DEF Configs
    <2>2. e.at \in Nat
        BY <1>2, <2>1
    <2>. QED  BY <1>6, <2>2, BetweenHead DEF Configs
<1>11. Takes(c, size, d)
    <2>1. \E k \in Sizes :
            size = Little(k, WordBytes) /\ d.want = <<[t |-> "bytes", n |-> k]>> \o Tail(c.want)
        BY <1>2
    <2>2. d.at = c.at + Len(size) /\ d.heard = c.heard
        OBVIOUS
    <2>. HIDE DEF d, size
    <2>. QED  BY <1>1, <2>1, <2>2, BetweenHead DEF Takes
<1>12. Takes(d, x.v, e)
    <2>1. e.at = d.at + Len(x.v) /\ e.want = Tail(c.want) /\ e.heard = Append(d.heard, x.v)
        OBVIOUS
    <2>2. Head(d.want).t = "bytes" /\ Head(d.want).n = Len(x.v)
        BY <1>8
    <2>. HIDE DEF d, e
    <2>. QED  BY <1>8, <2>1, <2>2 DEF Takes
<1>13. Between(rest, h \o <<x.v>>, e)
    BY <1>6, BetweenHead DEF Between
<1>. HIDE DEF x, n, size, d, e
<1>14. /\ <<Memcpy(x.v)>> \o rest \in Seq(Items)
       /\ <<Memcpy(x.v)>> \o rest # <<>>
       /\ Head(<<Memcpy(x.v)>> \o rest) = Memcpy(x.v)
       /\ Tail(<<Memcpy(x.v)>> \o rest) = rest
    BY <1>5, BetweenHead, ConsFacts
<1>15. LastCopy(<<Memcpy(x.v)>> \o rest, h \o <<x.v>>, d)
    <2>. HIDE DEF rest
    <2>. QED  BY <1>1, <1>10, <1>12, <1>13, <1>14 DEF LastCopy
<1>. DEFINE more == <<Memcpy(x.v)>> \o rest
<1>16. more \in Seq(Items) /\ LastCopy(more, h \o <<x.v>>, d)
    BY <1>14, <1>15
<1>. HIDE DEF more
<1>17. /\ <<Memcpy(size)>> \o more # <<>>
       /\ Head(<<Memcpy(size)>> \o more) = Memcpy(size)
       /\ Tail(<<Memcpy(size)>> \o more) = more
    BY <1>5, <1>16, ConsFacts
<1>18. SizeCopy(<<Memcpy(size)>> \o more, h \o <<x.v>>, c)
    BY <1>3, <1>9, <1>11, <1>16, <1>17 DEF SizeCopy
<1>19. <<Memcpy(size), Memcpy(x.v)>> \o rest = <<Memcpy(size)>> \o more
    <2>1. <<Memcpy(size), Memcpy(x.v)>> = <<Memcpy(size)>> \o <<Memcpy(x.v)>>
        OBVIOUS
    <2>2. <<Memcpy(size)>> \in Seq(Items) /\ <<Memcpy(x.v)>> \in Seq(Items) /\ rest \in Seq(Items)
        BY <1>5, BetweenHead
    <2>. QED  BY <2>1, <2>2, ConcatAssociative DEF more
<1>. QED  BY <1>4, <1>18, <1>19 DEF x

LEMMA UnfoldVector ==
    ASSUME NEW items, NEW h, NEW c \in Configs, Between(items, h, c), items # <<>>,
           Head(items).t = "vec"
    PROVE  LastCopy(Parts(Head(items)) \o Tail(items), h \o Told(Head(items)), c)
<1>. DEFINE x == Head(items)
            T == Head(c.want)
            n == Len(x.v)
            size == Little(n, WordBytes)
            rest == Tail(items)
            each == [i \in 1 .. n |-> T.of]
            d == [at |-> c.at + Len(size), want |-> each \o Tail(c.want),
                  heard |-> Append(c.heard, n)]
<1>1. T.t = "vec" /\ Matches(x.v, each) /\ n < Word
    BY BetweenHead DEF HasType
<1>2. x.v \in Seq(Values) /\ each \in Seq(Types) /\ n \in Nat
    BY <1>1, LenProperties DEF Matches
<1>3. n \in Sizes /\ n \in Heard
    BY <1>1, <1>2, WordIs, NumbersAreHeard DEF Sizes
<1>4. size \in Seq(Bytes) /\ Len(size) \in Nat
    BY <1>2, LittleLength, LenProperties
<1>5. Parts(x) = <<Memcpy(size)>> \o x.v /\ Told(x) = <<n>>
    BY DEF Parts, Told, SizeOf
<1>6. Memcpy(size) \in Items
    BY <1>4 DEF Memcpy, Copies, Items
<1>7. h \o <<n>> = Append(h, n) /\ Append(h, n) \in Seq(Heard)
    BY <1>3, BetweenHead, AppendIsConcat, AppendProperties
<1>8. Matches(x.v \o rest, each \o Tail(c.want))
    BY <1>1, BetweenHead, MatchesConcat
<1>9. d \in Configs
    <2>1. d.at \in Nat
        BY <1>4 DEF Configs
    <2>2. d.want \in Seq(Wanted)
        BY <1>8 DEF Matches, Wanted
    <2>. QED  BY <1>7, <2>1, <2>2, BetweenHead DEF Configs
<1>10. Takes(c, size, d)
    <2>1. \E k \in Sizes :
            /\ size = Little(k, WordBytes)
            /\ d.want = [i \in 1 .. k |-> Head(c.want).of] \o Tail(c.want)
            /\ d.heard = Append(c.heard, k)
        BY <1>3
    <2>2. d.at = c.at + Len(size)
        OBVIOUS
    <2>. HIDE DEF d, size
    <2>. QED  BY <1>1, <2>1, <2>2, BetweenHead DEF Takes
<1>11. Between(x.v \o rest, h \o <<n>>, d)
    BY <1>7, <1>8, BetweenHead DEF Between
<1>12. x.v \o rest \in Seq(Items)
    BY <1>8 DEF Matches, Items
<1>13. (<<Memcpy(size)>> \o x.v) \o rest = <<Memcpy(size)>> \o (x.v \o rest)
    <2>. DEFINE first == <<Memcpy(size)>>
                xs == x.v
    <2>1. first \in Seq(Items) /\ xs \in Seq(Items) /\ rest \in Seq(Items)
        BY <1>2, <1>6, BetweenHead DEF Items
    <2>. HIDE DEF first, xs, rest
    <2>2. (first \o xs) \o rest = first \o (xs \o rest)
        BY <2>1, ConcatAssociative
    <2>. QED  BY <2>2 DEF first, xs
<1>. DEFINE more == x.v \o rest
<1>14. more \in Seq(Items) /\ Between(more, h \o <<n>>, d)
    BY <1>11, <1>12
<1>. HIDE DEF x, n, size, d, more
<1>15. /\ <<Memcpy(size)>> \o more # <<>>
       /\ Head(<<Memcpy(size)>> \o more) = Memcpy(size)
       /\ Tail(<<Memcpy(size)>> \o more) = more
    BY <1>6, <1>14, ConsFacts
<1>16. LastCopy(<<Memcpy(size)>> \o more, h \o <<n>>, c)
    BY <1>4, <1>9, <1>10, <1>14, <1>15 DEF LastCopy
<1>. QED  BY <1>5, <1>13, <1>16 DEF x, more

\* The reader takes a pair apart when the writer does.
LEMMA UnfoldPair ==
    ASSUME NEW items, NEW h, NEW c \in Configs, Between(items, h, c), items # <<>>,
           Head(items).t = "pair"
    PROVE  \E d \in Configs :
              /\ Takes(c, <<>>, d)
              /\ Between(Parts(Head(items)) \o Tail(items), h \o Told(Head(items)), d)
<1>. DEFINE x == Head(items)
            T == Head(c.want)
            d == [at |-> c.at, want |-> T.of \o Tail(c.want), heard |-> c.heard]
<1>1. T.t = "pair" /\ Matches(x.v, T.of)
    BY BetweenHead DEF HasType
<1>2. Matches(x.v \o Tail(items), T.of \o Tail(c.want))
    BY <1>1, BetweenHead, MatchesConcat
<1>3. Parts(x) = x.v /\ Told(x) = <<>>
    BY DEF Parts, Told
<1>4. h \o <<>> = h
    BY BetweenHead, ConcatEmptySeq
<1>5. d \in Configs
    <2>1. d.want \in Seq(Wanted)
        BY <1>2 DEF Matches, Wanted
    <2>2. c.at \in Nat /\ c.heard \in Seq(Heard)
        BY DEF Configs
    <2>. QED  BY <2>1, <2>2 DEF Configs
<1>6. Takes(c, <<>>, d)
    <2>1. Len(<<>>) = 0 /\ c.at + 0 = c.at
        BY DEF Configs
    <2>. QED  BY <1>1, <2>1, BetweenHead DEF Takes
<1>7. Between(x.v \o Tail(items), h, d)
    BY <1>2, BetweenHead DEF Between
<1>. QED  BY <1>3, <1>4, <1>5, <1>6, <1>7

\* One level of operator<<: the writer is before a copy now, or the reader has
\* made a step as well.
LEMMA Unfolds ==
    ASSUME NEW items, NEW h, NEW c \in Configs, Follows(items, h, c), items # <<>>,
           Head(items).t # "bytes"
    PROVE  LET more == Parts(Head(items)) \o Tail(items)
               told == h \o Told(Head(items))
           IN  \/ Follows(more, told, c)
               \/ \E d \in Configs : Takes(c, <<>>, d) /\ Follows(more, told, d)
<1>1. Between(items, h, c)
    BY DEF Follows, LastCopy, SizeCopy, Memcpy
<1>2. Head(items).t \in {"int", "str", "vec", "pair"}
    BY <1>1, BetweenHead, ValueKinds
<1>3. CASE Head(items).t = "int"
    BY <1>1, <1>3, UnfoldInt DEF Follows
<1>4. CASE Head(items).t = "str"
    BY <1>1, <1>4, UnfoldString DEF Follows
<1>5. CASE Head(items).t = "vec"
    BY <1>1, <1>5, UnfoldVector DEF Follows
<1>6. CASE Head(items).t = "pair"
    BY <1>1, <1>6, UnfoldPair DEF Follows
<1>. QED  BY <1>2, <1>3, <1>4, <1>5, <1>6

\* A copy is what the reader takes next.
LEMMA Copied ==
    ASSUME NEW items, NEW h, NEW c \in Configs, Follows(items, h, c), items # <<>>,
           Head(items).t = "bytes"
    PROVE  /\ Head(items).v \in Seq(Bytes)
           /\ \E d \in Configs : Takes(c, Head(items).v, d) /\ Follows(Tail(items), h, d)
<1>1. ASSUME Between(items, h, c)
      PROVE  FALSE
    <2>1. Head(items).t \in {"int", "str", "vec", "pair"}
        BY <1>1, BetweenHead, ValueKinds
    <2>. QED  BY <2>1
<1>2. LastCopy(items, h, c) \/ SizeCopy(items, h, c)
    BY <1>1 DEF Follows
<1>3. CASE LastCopy(items, h, c)
    <2>1. PICK bs \in Seq(Bytes), d \in Configs :
            Head(items) = Memcpy(bs) /\ Takes(c, bs, d) /\ Between(Tail(items), h, d)
        BY <1>3 DEF LastCopy
    <2>2. Head(items).v = bs
        BY <2>1 DEF Memcpy
    <2>. QED  BY <2>1, <2>2 DEF Follows
<1>4. CASE SizeCopy(items, h, c)
    <2>1. PICK bs \in Seq(Bytes), d \in Configs :
            Head(items) = Memcpy(bs) /\ Takes(c, bs, d) /\ LastCopy(Tail(items), h, d)
        BY <1>4 DEF SizeCopy
    <2>2. Head(items).v = bs
        BY <2>1 DEF Memcpy
    <2>. QED  BY <2>1, <2>2 DEF Follows
<1>. QED  BY <1>2, <1>3, <1>4

-----------------------------------------------------------------------------
(* More about addresses: of the bytes of a buffer, those behind the next   *)
(* address are as far away as what lies outside, and the others follow it. *)

LEMMA BehindIsFar ==
    ASSUME NEW w \in Nat, NEW s \in 0 .. w - 1, NEW l \in 0 .. w - 1, s + l <= w,
           NEW u \in 0 .. l, NEW j \in 0 .. u - 1
    PROVE  (((s + j) - ((s + u) % w)) % w) >= l - u
<1>. DEFINE at == (s + u) % w
            a == s + j
<1>1. IF s + u < w THEN at = s + u ELSE at = 0 /\ u = l
    BY NextAddress
<1>2. ((a - at) % w) \in 0 .. w - 1
    <2>1. at \in Int /\ 0 < w /\ a \in Int
        BY <1>1
    <2>. HIDE DEF at, a
    <2>. QED  BY <2>1, ModRange
<1>. HIDE DEF at, a
<1>3. CASE u = l
    BY <1>2, <1>3 DEF at, a
<1>4. CASE at = s + u
    <2>1. 0 < u - j /\ u - j < w /\ u - j \in Nat
        OBVIOUS
    <2>2. ((0 - (u - j)) % w) = w - (u - j)
        BY <2>1, ModNegative
    <2>3. 0 - (u - j) = a - at
        BY <1>4 DEF a
    <2>. QED  BY <2>2, <2>3 DEF at, a
<1>. QED  BY <1>1, <1>3, <1>4

LEMMA AheadIsNear ==
    ASSUME NEW w \in Nat, NEW s \in 0 .. w - 1, NEW l \in 0 .. w - 1, s + l <= w,
           NEW u \in 0 .. l, NEW j \in u .. l - 1
    PROVE  (((s + j) - ((s + u) % w)) % w) = j - u
<1>1. s + u < w
    OBVIOUS
<1>2. ((s + u) % w) = s + u
    BY <1>1, NextAddress
<1>3. (s + j) - (s + u) = j - u /\ j - u \in Nat /\ j - u < w
    OBVIOUS
<1>. QED  BY <1>2, <1>3, ModSmall

LEMMA InsideIs ==
    ASSUME NEW w \in Nat, NEW s \in 0 .. w - 1, NEW l \in 0 .. w - 1, s + l <= w,
           NEW j \in 0 .. l - 1
    PROVE  s + j \in 0 .. w - 1
OBVIOUS

-----------------------------------------------------------------------------
(* What the reader finds in the buffer. *)

\* The bytes bs, at offset o of what was written.
Holds(o, bs) ==
    /\ o + Len(bs) <= used
    /\ \A i \in 1 .. Len(bs) : mem[window.start + (o + (i - 1))] = bs[i]

Reads(c, d) == \E bs \in Seq(Bytes) : Holds(c.at, bs) /\ Takes(c, bs, d)

\* Everything the reader comes by on its way to the configuration that the
\* writer has reached.
Way(S, tip) ==
    /\ S \subseteq Configs /\ tip \in S /\ tip.at = used
    /\ \A c \in S : c.at <= used /\ Begins(c.heard, tip.heard)
    /\ \A c \in S \ {tip} : \E d \in S : Reads(c, d)

\* The reader is on its way, at c.
OnWay(S, tip, c) ==
    /\ Way(S, tip) /\ c \in S
    /\ c.want = want /\ c.heard = heard
    /\ pc = "write" => c.at = 0 /\ Follows(todo, said, tip)
    /\ pc # "write" => /\ buf = (window.start + c.at) % Word
                       /\ tip.want = <<>> /\ tip.heard = said

ReadingInv ==
    /\ mem \in [0 .. Word - 1 -> Bytes \cup {Foreign}]
    /\ pc \in {"write", "threw", "read", "done"}
    /\ pc = "done" => want = <<>>
    /\ pc # "threw" => \E S \in SUBSET Configs : \E tip, c \in S : OnWay(S, tip, c)

LEMMA WayGrows ==
    ASSUME NEW S, NEW tip, Way(S, tip), NEW d \in Configs,
           used \in Nat, used' \in Nat, used <= used', d.at = used',
           NEW bs \in Seq(Bytes), Takes(tip, bs, d), Holds(tip.at, bs)',
           \A c, e \in S : Reads(c, e) => Reads(c, e)'
    PROVE  Way(S \cup {d}, d)'
<1>1. /\ S \subseteq Configs /\ tip \in S
      /\ \A c \in S : c.at <= used /\ Begins(c.heard, tip.heard)
      /\ \A c \in S \ {tip} : \E e \in S : Reads(c, e)
    BY DEF Way
<1>2. Begins(tip.heard, d.heard)
    BY <1>1, TakesHears
<1>3. ASSUME NEW c \in S
      PROVE  c.at <= used' /\ Begins(c.heard, d.heard)
    <2>1. c.at \in Nat /\ c.at <= used
        BY <1>1 DEF Configs
    <2>2. c.heard \in Seq(Heard) /\ tip.heard \in Seq(Heard) /\ d.heard \in Seq(Heard)
        BY <1>1 DEF Configs
    <2>3. Begins(c.heard, d.heard)
        BY <1>1, <1>2, <2>2, BeginsTransitive
    <2>. QED  BY <2>1, <2>3
<1>4. d.at <= used' /\ Begins(d.heard, d.heard)
    <2>1. d.heard \in Seq(Heard)
        BY DEF Configs
    <2>. QED  BY <2>1, BeginsSelf
<1>5. Reads(tip, d)'
    BY DEF Reads
<1>6. ASSUME NEW c \in (S \cup {d}) \ {d}
      PROVE  \E e \in S \cup {d} : Reads(c, e)'
    <2>1. CASE c = tip
        BY <1>5, <2>1
    <2>2. CASE c # tip
        <3>1. PICK e \in S : Reads(c, e)
            BY <1>1, <1>6, <2>2
        <3>. QED  BY <1>6, <3>1
    <2>. QED  BY <2>1, <2>2
<1>. QED  BY <1>1, <1>3, <1>4, <1>6 DEF Way

LEMMA InitReading == Init => ReadingInv
<1>. SUFFICES ASSUME Init
              PROVE  ReadingInv
    OBVIOUS
<1>. DEFINE c == [at |-> 0, want |-> want, heard |-> heard]
<1>1. /\ window \in Windows /\ message \in Messages
      /\ mem = [a \in 0 .. Word - 1 |-> IF InWindow(a) THEN Stale ELSE Foreign]
      /\ pc = "write" /\ used = 0
      /\ todo = message.parts /\ want = message.types
      /\ said = <<>> /\ heard = <<>>
    BY DEF Init
<1>2. Matches(todo, want)
    BY <1>1, TypedAssumption
<1>3. c \in Configs
    <2>1. want \in Seq(Wanted)
        BY <1>2 DEF Matches, Wanted
    <2>2. heard \in Seq(Heard)
        BY <1>1
    <2>. QED  BY <2>1, <2>2 DEF Configs
<1>4. Follows(todo, said, c)
    BY <1>1, <1>2 DEF Follows, Between
<1>5. Begins(c.heard, c.heard)
    BY <1>3, BeginsSelf DEF Configs
<1>6. Way({c}, c)
    <2>1. c.at = used /\ c.at <= used
        BY <1>1
    <2>. HIDE DEF c
    <2>. QED  BY <1>3, <1>5, <2>1 DEF Way
<1>7. OnWay({c}, c, c)
    <2>1. c.want = want /\ c.heard = heard /\ c.at = 0
        OBVIOUS
    <2>. HIDE DEF c
    <2>. QED  BY <1>1, <1>4, <1>6, <2>1 DEF OnWay
<1>8. \E S \in SUBSET Configs : \E tip, k \in S : OnWay(S, tip, k)
    <2>. HIDE DEF c
    <2>1. {c} \in SUBSET Configs /\ c \in {c}
        BY <1>3
    <2>. QED  BY <1>7, <2>1
<1>9. mem \in [0 .. Word - 1 -> Bytes \cup {Foreign}]
    <2>1. Stale \in Bytes
        BY SerializerAssumption DEF Stale, Bytes
    <2>. QED  BY <1>1, <2>1
<1>. QED  BY <1>1, <1>8, <1>9 DEF ReadingInv

\* serialize appends its bytes and leaves what was written before.
LEMMA CopyWrites ==
    ASSUME WritingInv, Copy, Head(todo).v \in Seq(Bytes),
           mem \in [0 .. Word - 1 -> Bytes \cup {Foreign}]
    PROVE  LET bs == Head(todo).v IN
           /\ used \in Nat /\ used' \in Nat /\ used <= used'
           /\ used' = used + Len(bs)
           /\ mem' \in [0 .. Word - 1 -> Bytes \cup {Foreign}]
           /\ \A o \in Nat, new \in Seq(Bytes) :
                o = used /\ new = bs => Holds(o, new)'
           /\ \A o \in Nat, old \in Seq(Bytes) : Holds(o, old) => Holds(o, old)'
<1>. DEFINE bs == Head(todo).v
            n == Len(bs)
<1>0. /\ Word \in Nat
      /\ window.start \in 0 .. Word - 1
      /\ window.len \in 0 .. Word - 1
      /\ window.start + window.len <= Word
    BY WindowFits DEF WritingInv
<1>1. /\ pc = "write" /\ Accepts(n)
      /\ mem' = [a \in DOMAIN mem |->
                    IF ((a - buf) % Word) + 1 <= n
                    THEN bs[((a - buf) % Word) + 1] ELSE mem[a]]
      /\ used' = used + n
      /\ window' = window
    BY DEF Copy
<1>2. buf = (window.start + used) % Word /\ used \in 0 .. window.len
    BY <1>1 DEF WritingInv
<1>3. n \in Nat
    BY LenProperties
<1>4. n <= window.len - used
    <2>1. Remaining = window.len - used
        BY <1>2, RemainingIs DEF WritingInv
    <2>. QED  BY <1>1, <2>1 DEF Accepts
<1>5. DOMAIN mem = 0 .. Word - 1
    OBVIOUS
<1>6. bs \in Seq(Bytes)
    OBVIOUS
<1>. HIDE DEF bs, n, Word
<1>7. mem' \in [0 .. Word - 1 -> Bytes \cup {Foreign}]
    <2>1. ASSUME NEW a \in 0 .. Word - 1, ((a - buf) % Word) + 1 <= n
          PROVE  bs[((a - buf) % Word) + 1] \in Bytes
        <3>1. buf \in Int
            BY <1>0, <1>2, ModRange
        <3>2. ((a - buf) % Word) \in 0 .. Word - 1
            BY <1>0, <3>1, ModRange
        <3>3. ((a - buf) % Word) + 1 \in 1 .. Len(bs)
            BY <1>3, <2>1, <3>2 DEF n
        <3>. QED  BY <1>6, <3>3, ElementOfSeq
    <2>. QED  BY <1>1, <1>5, <2>1
<1>8. used \in Nat /\ used' \in Nat /\ used <= used'
    BY <1>0, <1>1, <1>2, <1>3
<1>9. ASSUME NEW i \in 1 .. n
      PROVE  mem'[window.start + (used + (i - 1))] = bs[i]
    <2>. DEFINE j == used + (i - 1)
                a == window.start + j
    <2>1. j \in used .. window.len - 1 /\ j - used = i - 1
        BY <1>0, <1>2, <1>3, <1>4
    <2>2. a \in 0 .. Word - 1
        <3>1. j \in 0 .. window.len - 1
            BY <1>8, <2>1
        <3>. HIDE DEF j
        <3>. QED  BY <1>0, <3>1, InsideIs
    <2>3. ((a - buf) % Word) = i - 1
        <3>. HIDE DEF j
        <3>. QED  BY <1>0, <1>2, <2>1, AheadIsNear
    <2>. HIDE DEF a
    <2>4. ((a - buf) % Word) + 1 = i
        BY <1>3, <2>3
    <2>. QED  BY <1>1, <1>3, <1>5, <2>2, <2>4 DEF a
<1>10. ASSUME NEW j \in 0 .. used - 1
       PROVE  mem'[window.start + j] = mem[window.start + j]
    <2>. DEFINE a == window.start + j
    <2>1. a \in 0 .. Word - 1
        <3>1. j \in 0 .. window.len - 1
            BY <1>0, <1>2, <1>8
        <3>. QED  BY <1>0, <3>1, InsideIs
    <2>2. ((a - buf) % Word) >= window.len - used
        BY <1>0, <1>2, BehindIsFar
    <2>. HIDE DEF a
    <2>3. ((a - buf) % Word) \in Int
        <3>1. buf \in Int
            BY <1>0, <1>2, ModRange
        <3>. QED  BY <1>0, <2>1, <3>1, ModRange
    <2>4. ~(((a - buf) % Word) + 1 <= n)
        BY <1>0, <1>2, <1>3, <1>4, <2>2, <2>3
    <2>. QED  BY <1>1, <1>5, <2>1, <2>4 DEF a
<1>11. ASSUME NEW o \in Nat, NEW new \in Seq(Bytes), o = used, new = bs
       PROVE  Holds(o, new)'
    <2>1. \A i \in 1 .. n : mem'[window'.start + (o + (i - 1))] = new[i]
        BY <1>1, <1>9, <1>11
    <2>. QED  BY <1>1, <1>11, <2>1 DEF Holds, n
<1>12. ASSUME NEW o \in Nat, NEW old \in Seq(Bytes), Holds(o, old)
       PROVE  Holds(o, old)'
    <2>1. Len(old) \in Nat /\ o + Len(old) <= used
        BY <1>12, LenProperties DEF Holds
    <2>2. \A i \in 1 .. Len(old) : o + (i - 1) \in 0 .. used - 1
        BY <1>8, <2>1
    <2>3. \A i \in 1 .. Len(old) : mem'[window.start + (o + (i - 1))] = old[i]
        BY <1>10, <1>12, <2>2 DEF Holds
    <2>4. o + Len(old) <= used'
        BY <1>8, <2>1
    <2>. QED  BY <1>1, <2>3, <2>4 DEF Holds
<1>. QED  BY <1>1, <1>7, <1>8, <1>11, <1>12 DEF bs, n

-----------------------------------------------------------------------------
(* Steps of the reader. *)

LEMMA CellsAre ==
    ASSUME window \in Windows, used \in 0 .. window.len, NEW o \in Nat,
           NEW bs \in Seq(Bytes), Holds(o, bs), buf = (window.start + o) % Word
    PROVE  Cells(Len(bs)) = bs
<1>0. /\ Word \in Nat
      /\ window.start \in 0 .. Word - 1
      /\ window.len \in 0 .. Word - 1
      /\ window.start + window.len <= Word
    BY WindowFits
<1>. DEFINE n == Len(bs)
<1>1. n \in Nat /\ bs = [i \in 1 .. n |-> bs[i]]
    BY LenProperties
<1>2. o + n <= used /\ \A i \in 1 .. n : mem[window.start + (o + (i - 1))] = bs[i]
    BY DEF Holds
<1>. HIDE DEF n, Word
<1>3. ASSUME NEW i \in 1 .. n
      PROVE  mem[Plus(buf, i - 1)] = bs[i]
    <2>. DEFINE l == window.len
                s == window.start
    <2>0. l \in Nat /\ s \in Nat /\ s + l <= Word /\ used <= l /\ i - 1 \in Nat /\ i <= n
        BY <1>0, <1>1
    <2>. HIDE DEF l, s
    <2>1. o + i <= l
        BY <1>1, <1>2, <2>0
    <2>2. o \in 0 .. l /\ i - 1 \in Nat /\ i - 1 <= l - o
        BY <2>0, <2>1
    <2>3. s + (o + (i - 1)) \in Nat /\ s + (o + (i - 1)) < Word
        BY <1>0, <2>0, <2>1
    <2>4. ((((s + o) % Word) + (i - 1)) % Word) = ((s + (o + (i - 1))) % Word)
        BY <1>0, <2>2, PlusIs DEF l, s
    <2>5. Plus(buf, i - 1) = s + (o + (i - 1))
        BY <1>0, <2>3, <2>4, ModSmall DEF Plus, s
    <2>. QED  BY <1>2, <2>5 DEF s
<1>. QED  BY <1>1, <1>3 DEF Cells, n

LEMMA NumberIs ==
    ASSUME NEW b \in {WordBytes, IntBytes}, NEW v \in 0 .. ByteValues ^ b - 1,
           Cells(b) = Little(v, b)
    PROVE  Number(b) = v
<1>1. Number(b) \in 0 .. ByteValues ^ b - 1 /\ Little(Number(b), b) = Cells(b)
    BY DEF Number
<1>. QED  BY <1>1, LittleOneToOne

\* What there is to read takes the reader one step on.
LEMMA ReaderTakes ==
    ASSUME WritingInv, NEW S, NEW tip, NEW c, OnWay(S, tip, c), pc = "read", want # <<>>
    PROVE  \E d \in S : \E bs \in Seq(Bytes) :
              /\ Takes(c, bs, d)
              /\ Cells(Len(bs)) = bs
              /\ Plus(buf, Len(bs)) = (window.start + d.at) % Word
<1>1. /\ S \subseteq Configs /\ c \in S
      /\ c.want = want /\ tip.want = <<>>
      /\ buf = (window.start + c.at) % Word
      /\ \A k \in S \ {tip} : \E d \in S : Reads(k, d)
    BY DEF OnWay, Way
<1>2. PICK d \in S : Reads(c, d)
    BY <1>1
<1>3. PICK bs \in Seq(Bytes) : Holds(c.at, bs) /\ Takes(c, bs, d)
    BY <1>2 DEF Reads
<1>4. window \in Windows /\ used \in 0 .. window.len
    BY DEF WritingInv
<1>5. c.at \in Nat /\ Len(bs) \in Nat
    BY <1>1, LenProperties DEF Configs
<1>6. Cells(Len(bs)) = bs
    BY <1>1, <1>3, <1>4, <1>5, CellsAre
<1>7. Plus(buf, Len(bs)) = (window.start + d.at) % Word
    <2>0. /\ Word \in Nat
          /\ window.start \in 0 .. Word - 1
          /\ window.len \in 0 .. Word - 1
          /\ window.start + window.len <= Word
        BY <1>4, WindowFits
    <2>1. c.at + Len(bs) <= used
        BY <1>3 DEF Holds
    <2>. DEFINE n == Len(bs)
    <2>. HIDE DEF n, Word
    <2>2. c.at \in 0 .. window.len /\ n \in Nat /\ n <= window.len - c.at
        BY <1>4, <1>5, <2>0, <2>1 DEF n
    <2>3. ((((window.start + c.at) % Word) + n) % Word) = ((window.start + (c.at + n)) % Word)
        BY <2>0, <2>2, PlusIs
    <2>4. d.at = c.at + n
        BY <1>3 DEF Takes, n
    <2>. QED  BY <1>1, <2>3, <2>4 DEF Plus, n
<1>. QED  BY <1>3, <1>6, <1>7

\* A step of operator>> is the one foreseen.
LEMMA ReaderStep ==
    ASSUME NEW c \in Configs, NEW d \in Configs, NEW bs \in Seq(Bytes),
           Takes(c, bs, d), Cells(Len(bs)) = bs,
           want = c.want, heard = c.heard,
           ReadInt \/ ReadString \/ ReadBytes \/ ReadVector \/ ReadPair
    PROVE  /\ want' = d.want /\ heard' = d.heard
           /\ buf' = IF ReadPair THEN buf ELSE Plus(buf, Len(bs))
           /\ ReadPair => Len(bs) = 0
<1>. DEFINE T == Head(want).t
<1>1. CASE ReadInt
    <2>1. T = "int"
        BY <1>1 DEF ReadInt, Reading
    <2>2. PICK v \in Numbers : bs = Little(v, IntBytes) /\ d.heard = Append(c.heard, v)
        BY <2>1 DEF Takes
    <2>3. v \in Nat /\ v \in 0 .. ByteValues ^ IntBytes - 1
        BY NumbersAreHeard DEF Numbers
    <2>4. Len(bs) = IntBytes
        BY <2>2, <2>3, LittleLength
    <2>5. Number(IntBytes) = v
        BY <2>2, <2>3, <2>4, NumberIs
    <2>6. d.want = Tail(c.want)
        BY <2>1 DEF Takes
    <2>7. ~ReadPair
        BY <2>1 DEF ReadPair, Reading
    <2>. QED  BY <1>1, <2>2, <2>4, <2>5, <2>6, <2>7 DEF ReadInt
<1>2. CASE ReadString
    <2>1. T = "str"
        BY <1>2 DEF ReadString, Reading
    <2>2. PICK n \in Sizes : /\ bs = Little(n, WordBytes)
                             /\ d.want = <<[t |-> "bytes", n |-> n]>> \o Tail(c.want)
        BY <2>1 DEF Takes
    <2>3. n \in Nat /\ n \in 0 .. ByteValues ^ WordBytes - 1
        BY NumbersAreHeard DEF Sizes, Word
    <2>4. Len(bs) = WordBytes
        BY <2>2, <2>3, LittleLength
    <2>5. Number(WordBytes) = n
        BY <2>2, <2>3, <2>4, NumberIs
    <2>6. d.heard = c.heard
        BY <2>1 DEF Takes
    <2>7. ~ReadPair
        BY <2>1 DEF ReadPair, Reading
    <2>. QED  BY <1>2, <2>2, <2>4, <2>5, <2>6, <2>7 DEF ReadString
<1>3. CASE ReadBytes
    <2>1. T = "bytes"
        BY <1>3 DEF ReadBytes, Reading
    <2>2. /\ Head(c.want).n = Len(bs)
          /\ d.want = Tail(c.want) /\ d.heard = Append(c.heard, bs)
        BY <2>1 DEF Takes
    <2>3. ~ReadPair
        BY <2>1 DEF ReadPair, Reading
    <2>. QED  BY <1>3, <2>2, <2>3 DEF ReadBytes, StringAdvance
<1>4. CASE ReadVector
    <2>1. T = "vec"
        BY <1>4 DEF ReadVector, Reading
    <2>2. PICK n \in Sizes : /\ bs = Little(n, WordBytes)
                             /\ d.want = [i \in 1 .. n |-> Head(c.want).of] \o Tail(c.want)
                             /\ d.heard = Append(c.heard, n)
        BY <2>1 DEF Takes
    <2>3. n \in Nat /\ n \in 0 .. ByteValues ^ WordBytes - 1
        BY NumbersAreHeard DEF Sizes, Word
    <2>4. Len(bs) = WordBytes
        BY <2>2, <2>3, LittleLength
    <2>5. Number(WordBytes) = n
        BY <2>2, <2>3, <2>4, NumberIs
    <2>6. ~ReadPair
        BY <2>1 DEF ReadPair, Reading
    <2>7. /\ want' = [i \in 1 .. n |-> Head(want).of] \o Tail(want)
          /\ heard' = Append(heard, n) /\ buf' = Plus(buf, WordBytes)
        BY <1>4, <2>5 DEF ReadVector
    <2>. QED  BY <2>2, <2>4, <2>6, <2>7
<1>5. CASE ReadPair
    <2>1. T = "pair"
        BY <1>5 DEF ReadPair, Reading
    <2>2. bs = <<>> /\ d.want = Head(c.want).of \o Tail(c.want) /\ d.heard = c.heard
        BY <2>1 DEF Takes
    <2>. QED  BY <1>5, <2>2 DEF ReadPair
<1>. QED  BY <1>1, <1>2, <1>3, <1>4, <1>5

LEMMA WayStays ==
    ASSUME NEW S, NEW tip, Way(S, tip), UNCHANGED <<mem, window, used>>
    PROVE  Way(S, tip)'
<1>1. \A c, d \in S : Reads(c, d) => Reads(c, d)'
    BY DEF Reads, Holds
<1>. QED  BY <1>1 DEF Way

LEMMA NextReading == WritingInv /\ ReadingInv /\ [Next]_vars => ReadingInv'
<1>. SUFFICES ASSUME WritingInv, ReadingInv, [Next]_vars
              PROVE  ReadingInv'
    OBVIOUS
<1>0. mem \in [0 .. Word - 1 -> Bytes \cup {Foreign}]
    BY DEF ReadingInv
<1>1. ASSUME pc # "threw"
      PROVE  \E S \in SUBSET Configs : \E tip, c \in S : OnWay(S, tip, c)
    BY <1>1 DEF ReadingInv
<1>2. CASE Unfold
    <2>1. /\ pc = "write" /\ pc' = "write" /\ todo # <<>> /\ Head(todo).t # "bytes"
          /\ todo' = Parts(Head(todo)) \o Tail(todo)
          /\ said' = said \o Told(Head(todo))
          /\ UNCHANGED <<mem, window, used, want, heard>>
        BY <1>2 DEF Unfold
    <2>2. PICK S \in SUBSET Configs : \E tip, c \in S : OnWay(S, tip, c)
        BY <1>1, <2>1
    <2>3. PICK tip \in S, c \in S : OnWay(S, tip, c)
        BY <2>2
    <2>4. /\ Way(S, tip) /\ c.want = want /\ c.heard = heard /\ c.at = 0
          /\ Follows(todo, said, tip) /\ tip \in Configs
        BY <2>1, <2>3 DEF OnWay
    <2>5. CASE Follows(todo', said', tip)
        <3>1. OnWay(S, tip, c)'
            BY <2>1, <2>4, <2>5, WayStays DEF OnWay
        <3>. QED  BY <1>0, <2>1, <3>1 DEF ReadingInv
    <2>6. ASSUME NEW d \in Configs, Takes(tip, <<>>, d), Follows(todo', said', d)
          PROVE  ReadingInv'
        <3>1. tip.at = used /\ used \in Nat /\ d.at = used
            BY <2>4, <2>6 DEF Way, Takes, Configs
        <3>2. Holds(tip.at, <<>>)'
            BY <2>1, <3>1 DEF Holds
        <3>3. \A k, e \in S : Reads(k, e) => Reads(k, e)'
            BY <2>1 DEF Reads, Holds
        <3>4. <<>> \in Seq(Bytes) /\ used' = used /\ used <= used'
            BY <2>1, <3>1
        <3>5. Way(S \cup {d}, d)'
            BY <2>1, <2>4, <2>6, <3>1, <3>2, <3>3, <3>4, WayGrows
        <3>6. OnWay(S \cup {d}, d, c)'
            BY <2>1, <2>3, <2>4, <2>6, <3>5 DEF OnWay
        <3>7. S \cup {d} \in SUBSET Configs /\ d \in S \cup {d} /\ c \in S \cup {d}
            OBVIOUS
        <3>. QED  BY <1>0, <2>1, <3>6, <3>7 DEF ReadingInv
    <2>. QED  BY <2>1, <2>4, <2>5, <2>6, Unfolds
<1>3. CASE Copy
    <2>1. /\ pc = "write" /\ pc' = "write" /\ todo # <<>> /\ Head(todo).t = "bytes"
          /\ todo' = Tail(todo)
          /\ UNCHANGED <<window, want, said, heard>>
        BY <1>3 DEF Copy
    <2>2. PICK S \in SUBSET Configs : \E tip, c \in S : OnWay(S, tip, c)
        BY <1>1, <2>1
    <2>3. PICK tip \in S, c \in S : OnWay(S, tip, c)
        BY <2>2
    <2>4. /\ Way(S, tip) /\ c.want = want /\ c.heard = heard /\ c.at = 0
          /\ Follows(todo, said, tip) /\ tip \in Configs
        BY <2>1, <2>3 DEF OnWay
    <2>5. PICK bs \in Seq(Bytes), d \in Configs :
            bs = Head(todo).v /\ Takes(tip, bs, d) /\ Follows(Tail(todo), said, d)
        BY <2>1, <2>4, Copied
    <2>6. /\ used \in Nat /\ used' \in Nat /\ used <= used' /\ used' = used + Len(bs)
          /\ mem' \in [0 .. Word - 1 -> Bytes \cup {Foreign}]
          /\ \A o \in Nat, new \in Seq(Bytes) : o = used /\ new = bs => Holds(o, new)'
          /\ \A o \in Nat, old \in Seq(Bytes) : Holds(o, old) => Holds(o, old)'
        BY <1>0, <1>3, <2>5, CopyWrites
    <2>7. tip.at = used /\ tip.at \in Nat /\ d.at = used'
        BY <2>4, <2>5, <2>6 DEF Way, Takes, Configs
    <2>8. Holds(tip.at, bs)'
        BY <2>6, <2>7
    <2>9. \A k, e \in S : Reads(k, e) => Reads(k, e)'
        <3>1. \A k \in S : k.at \in Nat
            BY DEF Configs
        <3>. QED  BY <2>6, <3>1 DEF Reads
    <2>10. Way(S \cup {d}, d)'
        BY <2>4, <2>5, <2>6, <2>7, <2>8, <2>9, WayGrows
    <2>11. OnWay(S \cup {d}, d, c)'
        BY <2>1, <2>3, <2>4, <2>5, <2>10 DEF OnWay
    <2>12. S \cup {d} \in SUBSET Configs /\ d \in S \cup {d} /\ c \in S \cup {d}
        OBVIOUS
    <2>. QED  BY <2>1, <2>6, <2>11, <2>12 DEF ReadingInv
<1>4. CASE Overflow
    BY <1>0, <1>4 DEF Overflow, ReadingInv
<1>5. CASE Send
    <2>1. /\ pc = "write" /\ pc' = "read" /\ todo = <<>> /\ buf' = window.start
          /\ UNCHANGED <<mem, window, used, want, said, heard>>
        BY <1>5 DEF Send
    <2>2. PICK S \in SUBSET Configs : \E tip, c \in S : OnWay(S, tip, c)
        BY <1>1, <2>1
    <2>3. PICK tip \in S, c \in S : OnWay(S, tip, c)
        BY <2>2
    <2>4. /\ Way(S, tip) /\ c.want = want /\ c.heard = heard /\ c.at = 0
          /\ Follows(todo, said, tip) /\ tip \in Configs
        BY <2>1, <2>3 DEF OnWay
    <2>5. Matches(<<>>, tip.want) /\ tip.heard = said
        BY <2>1, <2>4 DEF Follows, LastCopy, SizeCopy, Between
    <2>6. tip.want = <<>>
        BY <2>5 DEF Matches
    <2>7. buf' = (window.start + c.at) % Word
        <3>1. Word \in Nat /\ window.start \in 0 .. Word - 1
            BY WindowFits DEF WritingInv
        <3>. HIDE DEF Word
        <3>2. window.start + c.at = window.start /\ window.start \in Nat /\ window.start < Word
            BY <2>4, <3>1
        <3>. QED  BY <2>1, <3>1, <3>2, ModSmall
    <2>8. OnWay(S, tip, c)'
        BY <2>1, <2>4, <2>5, <2>6, <2>7, WayStays DEF OnWay
    <2>. QED  BY <1>0, <2>1, <2>8 DEF ReadingInv
<1>6. CASE ReadInt \/ ReadString \/ ReadBytes \/ ReadVector \/ ReadPair
    <2>1. /\ pc = "read" /\ pc' = "read" /\ want # <<>>
          /\ UNCHANGED <<mem, window, used, said>>
        BY <1>6 DEF ReadInt, ReadString, ReadBytes, ReadVector, ReadPair, Reading
    <2>2. PICK S \in SUBSET Configs : \E tip, c \in S : OnWay(S, tip, c)
        BY <1>1, <2>1
    <2>3. PICK tip \in S, c \in S : OnWay(S, tip, c)
        BY <2>2
    <2>4. PICK d \in S : \E bs \in Seq(Bytes) :
              /\ Takes(c, bs, d)
              /\ Cells(Len(bs)) = bs
              /\ Plus(buf, Len(bs)) = (window.start + d.at) % Word
        BY <2>1, <2>3, ReaderTakes
    <2>5. PICK bs \in Seq(Bytes) :
              /\ Takes(c, bs, d)
              /\ Cells(Len(bs)) = bs
              /\ Plus(buf, Len(bs)) = (window.start + d.at) % Word
        BY <2>4
    <2>6. /\ Way(S, tip) /\ c.want = want /\ c.heard = heard
          /\ tip.want = <<>> /\ tip.heard = said
          /\ buf = (window.start + c.at) % Word
        BY <2>1, <2>3 DEF OnWay
    <2>7. /\ want' = d.want /\ heard' = d.heard
          /\ buf' = IF ReadPair THEN buf ELSE Plus(buf, Len(bs))
          /\ ReadPair => Len(bs) = 0
        BY <1>6, <2>5, <2>6, ReaderStep
    <2>8. buf' = (window.start + d.at) % Word
        <3>1. CASE ReadPair
            <4>1. d.at = c.at + Len(bs) /\ c.at \in Nat
                BY <2>5 DEF Takes, Configs
            <4>2. d.at = c.at
                BY <2>7, <3>1, <4>1
            <4>. QED  BY <2>6, <2>7, <3>1, <4>2
        <3>. QED  BY <2>5, <2>7, <3>1
    <2>9. OnWay(S, tip, d)'
        BY <2>1, <2>6, <2>7, <2>8, WayStays DEF OnWay
    <2>. QED  BY <1>0, <2>1, <2>9 DEF ReadingInv
<1>7. CASE Received
    <2>1. /\ pc = "read" /\ pc' = "done" /\ want' = <<>>
          /\ UNCHANGED <<mem, window, used, buf, want, said, heard>>
        BY <1>7 DEF Received
    <2>2. PICK S \in SUBSET Configs : \E tip, c \in S : OnWay(S, tip, c)
        BY <1>1, <2>1
    <2>3. PICK tip \in S, c \in S : OnWay(S, tip, c)
        BY <2>2
    <2>4. OnWay(S, tip, c)'
        BY <2>1, <2>3, WayStays DEF OnWay
    <2>. QED  BY <1>0, <2>1, <2>4 DEF ReadingInv
<1>8. CASE Terminating \/ UNCHANGED vars
    <2>1. UNCHANGED vars
        BY <1>8 DEF Terminating
    <2>2. /\ pc' = pc /\ want' = want /\ mem' = mem
          /\ UNCHANGED <<mem, window, used, buf, want, said, heard, todo>>
        BY <2>1 DEF vars
    <2>3. \A S, tip, c : OnWay(S, tip, c) => OnWay(S, tip, c)'
        BY <2>2, WayStays DEF OnWay
    <2>. QED  BY <2>2, <2>3 DEF ReadingInv
<1>. QED  BY <1>2, <1>3, <1>4, <1>5, <1>6, <1>7, <1>8 DEF Next

LEMMA ReadingImplies == WritingInv /\ ReadingInv => TypeOK /\ RoundTrip
<1>. SUFFICES ASSUME WritingInv, ReadingInv
              PROVE  TypeOK /\ RoundTrip
    OBVIOUS
<1>0. /\ window \in Windows /\ used \in 0 .. window.len
      /\ Word \in Nat
      /\ window.start \in 0 .. Word - 1
      /\ window.len \in 0 .. Word - 1
      /\ window.start + window.len <= Word
    BY WindowFits DEF WritingInv
<1>. HIDE DEF Word
<1>1. ASSUME NEW o \in 0 .. window.len
      PROVE  ((window.start + o) % Word) \in 0 .. Word - 1
    <2>1. window.start + o \in Int /\ 0 < Word
        BY <1>0
    <2>. QED  BY <1>0, <2>1, ModRange
<1>2. ASSUME pc \in {"read", "done"}
      PROVE  \E S \in SUBSET Configs : \E tip, c \in S : OnWay(S, tip, c)
    BY <1>2 DEF ReadingInv
<1>3. buf \in 0 .. Word - 1
    <2>1. CASE pc \in {"write", "threw"}
        BY <1>0, <1>1, <2>1 DEF WritingInv
    <2>2. CASE pc \in {"read", "done"}
        <3>1. PICK S \in SUBSET Configs : \E tip, c \in S : OnWay(S, tip, c)
            BY <1>2, <2>2
        <3>2. PICK tip \in S, c \in S : OnWay(S, tip, c)
            BY <3>1
        <3>3. c.at \in Nat /\ c.at <= used /\ buf = (window.start + c.at) % Word
            BY <2>2, <3>2 DEF OnWay, Way, Configs
        <3>4. c.at \in 0 .. window.len
            BY <1>0, <3>3
        <3>. QED  BY <1>1, <3>3, <3>4
    <2>. QED  BY <2>1, <2>2 DEF ReadingInv
<1>4. TypeOK
    BY <1>0, <1>3 DEF TypeOK, ReadingInv
<1>5. ASSUME pc \in {"read", "done"}
      PROVE  /\ Len(heard) <= Len(said)
             /\ heard = SubSeq(said, 1, Len(heard))
             /\ (buf - window.start) % Word <= used
             /\ pc = "done" => heard = said /\ buf = Plus(window.start, used)
    <2>1. PICK S \in SUBSET Configs : \E tip, c \in S : OnWay(S, tip, c)
        BY <1>2, <1>5
    <2>2. PICK tip \in S, c \in S : OnWay(S, tip, c)
        BY <2>1
    <2>3. /\ c.want = want /\ c.heard = heard /\ tip.heard = said /\ tip.want = <<>>
          /\ buf = (window.start + c.at) % Word
          /\ tip.at = used /\ c.at <= used /\ Begins(c.heard, tip.heard)
          /\ \A k \in S \ {tip} : \E d \in S : Reads(k, d)
        BY <1>5, <2>2 DEF OnWay, Way
    <2>4. heard \in Seq(Heard) /\ said \in Seq(Heard) /\ c.at \in Nat
        BY <2>3 DEF Configs
    <2>5. heard = SubSeq(said, 1, Len(heard)) /\ Len(heard) <= Len(said)
        BY <2>3, <2>4, BeginsIsSubSeq DEF Begins
    <2>6. c.at \in 0 .. window.len
        BY <1>0, <2>3, <2>4
    <2>7. ((buf - window.start) % Word) = c.at
        BY <1>0, <2>3, <2>6, UsedIs
    <2>8. ASSUME pc = "done"
          PROVE  heard = said /\ buf = Plus(window.start, used)
        <3>1. c.want = <<>>
            BY <2>3, <2>8 DEF ReadingInv
        <3>2. c = tip
            BY <2>3, <3>1 DEF Reads, Takes
        <3>. QED  BY <2>3, <3>2 DEF Plus
    <2>. QED  BY <2>3, <2>5, <2>7, <2>8
<1>. QED  BY <1>4, <1>5 DEF RoundTrip

-----------------------------------------------------------------------------

\* Addresses stay machine words and the memory keeps its shape, when messages
\* are written and when they are read.
THEOREM TypesKept == Spec => []TypeOK
<1>. USE InitWriting, NextWriting, InitReading, NextReading, ReadingImplies
<1>. QED  BY PTL DEF Spec

\* Whatever a message is made of, however deep it is nested and wherever the
\* buffer lies: a Deserializer that names the types it was written with hears
\* what was said, in order, and ends at the last byte that was written.
THEOREM MessagesArrive == Spec => []RoundTrip
<1>. USE InitWriting, NextWriting, InitReading, NextReading, ReadingImplies
<1>. QED  BY PTL DEF Spec
=============================================================================
