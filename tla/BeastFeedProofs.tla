-------------------------- MODULE BeastFeedProofs --------------------------
(***************************************************************************)
(* Theorems about BeastFeed for every set of frame types and lengths,      *)
(* every stream of frames, every cut of a stream into chunks and sessions. *)
(* The first half is about the framing's loops: what escaping and framing  *)
(* do with a stream that is put together of two.                           *)
(***************************************************************************)
EXTENDS BeastFeed, Recursion, TLAPS

-----------------------------------------------------------------------------
(***************************************************************************)
(* Lists of bytes.  The proofs take streams apart and put them together    *)
(* with two operators of their own, and know of them what the lemmas say:  *)
(* the provers find their way through these more easily than through       *)
(* sequences as functions.                                                 *)
(***************************************************************************)

Cat(s, t) == s \o t
Cons(b, s) == <<b>> \o s

LEMMA BytesType ==
  ASSUME NEW s \in Bytes
  PROVE  Len(s) \in Nat /\ (\A k \in 1 .. Len(s) : s[k] \in Byte) /\ DOMAIN s = 1 .. Len(s)
BY DEF Bytes

LEMMA NilType ==
  /\ <<>> \in Bytes /\ Len(<<>>) = 0
  /\ \A s \in Bytes : s = <<>> <=> Len(s) = 0
BY DEF Bytes

LEMMA SameBytes ==
  ASSUME NEW s \in Bytes, NEW t \in Bytes, Len(s) = Len(t),
         \A k \in 1 .. Len(s) : s[k] = t[k]
  PROVE  s = t
BY DEF Bytes

LEMMA CatType ==
  ASSUME NEW s \in Bytes, NEW t \in Bytes
  PROVE  Cat(s, t) \in Bytes /\ Len(Cat(s, t)) = Len(s) + Len(t)
BY DEF Bytes, Cat

LEMMA CatAt ==
  ASSUME NEW s \in Bytes, NEW t \in Bytes, NEW k \in 1 .. Len(s) + Len(t)
  PROVE  Cat(s, t)[k] = IF k <= Len(s) THEN s[k] ELSE t[k - Len(s)]
BY DEF Bytes, Cat

LEMMA CatNil ==
  ASSUME NEW s \in Bytes
  PROVE  Cat(s, <<>>) = s /\ Cat(<<>>, s) = s
BY DEF Bytes, Cat

LEMMA CatAssociative ==
  ASSUME NEW s \in Bytes, NEW t \in Bytes, NEW u \in Bytes
  PROVE  Cat(Cat(s, t), u) = Cat(s, Cat(t, u))
BY DEF Bytes, Cat

LEMMA ConsType ==
  ASSUME NEW b \in Byte, NEW s \in Bytes
  PROVE  /\ Cons(b, s) \in Bytes /\ Len(Cons(b, s)) = Len(s) + 1
         /\ Cons(b, s) # <<>> /\ Cons(b, s)[1] = b
         /\ \A k \in 1 .. Len(s) : Cons(b, s)[k + 1] = s[k]
         /\ Head(Cons(b, s)) = b /\ Tail(Cons(b, s)) = s
BY DEF Bytes, Cons

LEMMA ConsSecond ==
  ASSUME NEW b \in Byte, NEW s \in Bytes, s # <<>>
  PROVE  Cons(b, s)[2] = s[1]
<1>1. 1 \in 1 .. Len(s)
  BY DEF Bytes
<1>2. Cons(b, s)[1 + 1] = s[1]
  BY <1>1, ConsType
<1> QED BY <1>2

LEMMA ConsCat ==
  ASSUME NEW b \in Byte, NEW s \in Bytes, NEW t \in Bytes
  PROVE  Cat(Cons(b, s), t) = Cons(b, Cat(s, t))
BY DEF Bytes, Cons, Cat

LEMMA ConsCases ==
  ASSUME NEW s \in Bytes, s # <<>>
  PROVE  \E b \in Byte, t \in Bytes : s = Cons(b, t) /\ Len(t) = Len(s) - 1
<1>1. s = <<Head(s)>> \o Tail(s) /\ Head(s) \in Byte /\ Tail(s) \in Seq(Byte)
      /\ Len(Tail(s)) = Len(s) - 1
  BY DEF Bytes
<1> QED BY <1>1 DEF Cons, Bytes

LEMMA DropType ==
  ASSUME NEW s \in Bytes, NEW n \in 0 .. Len(s)
  PROVE  Drop(s, n) \in Bytes /\ Len(Drop(s, n)) = Len(s) - n
BY DEF Bytes, Drop

LEMMA DropAt ==
  ASSUME NEW s \in Bytes, NEW n \in 0 .. Len(s), NEW k \in 1 .. Len(s) - n
  PROVE  Drop(s, n)[k] = s[n + k]
BY DEF Bytes, Drop

LEMMA FrontType ==
  ASSUME NEW s \in Bytes, NEW n \in 0 .. Len(s)
  PROVE  /\ SubSeq(s, 1, n) \in Bytes /\ Len(SubSeq(s, 1, n)) = n
         /\ \A k \in 1 .. n : SubSeq(s, 1, n)[k] = s[k]
BY DEF Bytes

\* A list taken apart, and put together again.
LEMMA Parts ==
  ASSUME NEW s \in Bytes, NEW t \in Bytes
  PROVE  SubSeq(Cat(s, t), 1, Len(s)) = s /\ Drop(Cat(s, t), Len(s)) = t
BY DEF Bytes, Cat, Drop

LEMMA Split ==
  ASSUME NEW s \in Bytes, NEW n \in 0 .. Len(s)
  PROVE  s = Cat(SubSeq(s, 1, n), Drop(s, n))
<1> DEFINE f == SubSeq(s, 1, n)
           d == Drop(s, n)
           r == Cat(f, d)
<1>1. f \in Bytes /\ Len(f) = n /\ \A k \in 1 .. n : f[k] = s[k]
  BY FrontType
<1>2. d \in Bytes /\ Len(d) = Len(s) - n /\ \A k \in 1 .. Len(s) - n : d[k] = s[n + k]
  BY DropType, DropAt
<1> HIDE DEF f, d
<1>3. Len(s) \in Nat /\ n \in Nat /\ n <= Len(s) /\ Len(f) + Len(d) = Len(s)
  BY <1>1, <1>2, BytesType
<1>4. r \in Bytes /\ Len(r) = Len(s)
  BY <1>1, <1>2, <1>3, CatType
<1>5. ASSUME NEW k \in 1 .. Len(s) PROVE r[k] = s[k]
  <2>1. r[k] = IF k <= n THEN f[k] ELSE d[k - n]
    <3>1. k \in 1 .. Len(f) + Len(d)
      BY <1>3
    <3> QED BY <1>1, <1>2, <3>1, CatAt
  <2>2. CASE k <= n
    BY <1>1, <1>3, <2>1, <2>2
  <2>3. CASE ~(k <= n)
    <3>1. k - n \in 1 .. Len(s) - n /\ n + (k - n) = k
      BY <1>3, <2>3
    <3> QED BY <1>2, <2>1, <2>3, <3>1
  <2> QED BY <2>2, <2>3
<1> HIDE DEF r
<1> QED BY <1>4, <1>5, SameBytes DEF r, f, d

LEMMA SameFront ==
  \A s, t, u, v \in Bytes : Cat(s, t) = Cat(u, v) /\ Len(s) = Len(u) => s = u /\ t = v
BY Parts

\* Two ways to put a list together: one front is the longer one.
LEMMA Overlap ==
  \A s, t, u, v \in Bytes :
    Cat(s, t) = Cat(u, v) /\ Len(s) <= Len(u)
      => \E w \in Bytes : u = Cat(s, w) /\ t = Cat(w, v) /\ Len(w) = Len(u) - Len(s)
<1> SUFFICES ASSUME NEW s \in Bytes, NEW t \in Bytes, NEW u \in Bytes, NEW v \in Bytes,
                    Cat(s, t) = Cat(u, v), Len(s) <= Len(u)
             PROVE  \E w \in Bytes : u = Cat(s, w) /\ t = Cat(w, v) /\ Len(w) = Len(u) - Len(s)
  OBVIOUS
<1>1. Len(s) \in 0 .. Len(u) /\ Len(s) \in Nat /\ Len(u) \in Nat
  BY BytesType
<1> DEFINE w == Drop(u, Len(s))
           f == SubSeq(u, 1, Len(s))
<1>2. w \in Bytes /\ Len(w) = Len(u) - Len(s)
  BY <1>1, DropType
<1>3. f \in Bytes /\ Len(f) = Len(s)
  BY <1>1, FrontType
<1>4. u = Cat(f, w)
  BY <1>1, Split
<1> HIDE DEF w, f
<1>5. Cat(s, t) = Cat(f, Cat(w, v)) /\ Cat(w, v) \in Bytes
  BY <1>2, <1>3, <1>4, CatAssociative, CatType
<1>6. s = f /\ t = Cat(w, v)
  BY <1>3, <1>5, SameFront
<1> QED BY <1>2, <1>4, <1>6

-----------------------------------------------------------------------------
(***************************************************************************)
(* Escaping.                                                               *)
(***************************************************************************)

Size == [s \in Bytes |-> Len(s)]

LEMMA SizeType == Size \in [Bytes -> Nat] /\ \A s \in Bytes : Size[s] = Len(s)
BY BytesType DEF Size

\* A set of lists that is not empty has one such that no shorter one is in it.
LEMMA Shortest ==
  ASSUME NEW T, T \subseteq Bytes, T # {}
  PROVE  \E s \in T : \A t \in Bytes : Len(t) < Len(s) => t \notin T
<1>1. PICK s \in T : \A t \in Bytes : Size[t] < Size[s] => t \notin T
  BY SizeType, LeastByMeasure
<1> QED BY <1>1, SizeType

\* A byte of data before what a stream goes on with.
Put(b, s) == IF b = Esc THEN Cons(Esc, Cons(Esc, s)) ELSE Cons(b, s)

LEMMA PutType ==
  ASSUME NEW b \in Byte, NEW s \in Bytes
  PROVE  /\ Put(b, s) \in Bytes /\ Put(b, s)[1] = b /\ Put(b, s) # <<>>
         /\ Len(Put(b, s)) > Len(s)
         /\ Len(Put(b, s)) = IF b = Esc THEN Len(s) + 2 ELSE Len(s) + 1
         /\ \A t \in Bytes : Cat(Put(b, s), t) = Put(b, Cat(s, t))
<1>1. Esc \in Byte
  BY FramingAssumption
<1>2. CASE b = Esc
  <2>1. Cons(Esc, s) \in Bytes /\ Len(Cons(Esc, s)) = Len(s) + 1
    BY <1>1, ConsType
  <2>2. Put(b, s) = Cons(Esc, Cons(Esc, s))
    BY <1>2 DEF Put
  <2>3. /\ Put(b, s) \in Bytes /\ Put(b, s)[1] = b /\ Put(b, s) # <<>>
        /\ Len(Put(b, s)) = Len(Cons(Esc, s)) + 1
    BY <1>1, <1>2, <2>1, <2>2, ConsType
  <2>4. Len(Put(b, s)) = Len(s) + 2 /\ Len(s) + 2 > Len(s)
    BY <2>1, <2>3, BytesType
  <2>5. ASSUME NEW t \in Bytes PROVE Cat(Put(b, s), t) = Put(b, Cat(s, t))
    BY <1>1, <1>2, <2>1, <2>2, ConsCat DEF Put
  <2> QED BY <1>2, <2>3, <2>4, <2>5
<1>3. CASE b # Esc
  <2>1. Put(b, s) = Cons(b, s) /\ Len(s) + 1 > Len(s)
    BY <1>3, BytesType DEF Put
  <2>2. \A t \in Bytes : Cat(Put(b, s), t) = Put(b, Cat(s, t))
    BY <1>3, ConsCat DEF Put
  <2> QED BY <1>3, <2>1, <2>2, ConsType
<1> QED BY <1>2, <1>3

LEMMA PutCat ==
  ASSUME NEW b \in Byte, NEW s \in Bytes, NEW t \in Bytes
  PROVE  Cat(Put(b, s), t) = Put(b, Cat(s, t))
BY PutType

LEMMA PutIs ==
  ASSUME NEW b \in Byte, NEW s \in Bytes
  PROVE  /\ [k \in 1 .. Width(b) |-> b] \o s = Put(b, s)
         /\ Drop(Put(b, s), Width(b)) = s
<1>1. Esc \in Byte
  BY FramingAssumption
<1>2. CASE b = Esc
  <2>1. Width(b) = 2 /\ [k \in 1 .. 2 |-> b] = <<Esc, Esc>>
    BY <1>2 DEF Width
  <2>2. <<Esc, Esc>> \o s = <<Esc>> \o (<<Esc>> \o s)
    BY <1>1 DEF Bytes
  <2>3. Drop(<<Esc>> \o (<<Esc>> \o s), 2) = s
    BY <1>1 DEF Bytes, Drop
  <2> QED BY <1>2, <2>1, <2>2, <2>3 DEF Put, Cons
<1>3. CASE b # Esc
  <2>1. Width(b) = 1 /\ [k \in 1 .. 1 |-> b] = <<b>>
    BY <1>3 DEF Width
  <2>2. Drop(<<b>> \o s, 1) = s
    BY DEF Bytes, Drop
  <2> QED BY <1>3, <2>1, <2>2 DEF Put, Cons
<1> QED BY <1>2, <1>3

LEMMA EscapedDef ==
  /\ Escaped \in [Bytes -> Bytes]
  /\ Escaped[<<>>] = <<>>
  /\ \A b \in Byte, s \in Bytes : Escaped[Cons(b, s)] = Put(b, Escaped[s])
<1> DEFINE Body(g, s) ==
             IF s = <<>> THEN <<>>
             ELSE [k \in 1 .. Width(Head(s)) |-> Head(s)] \o g[Tail(s)]
           e == [s \in Bytes |-> <<>>]
           d == [s \in Bytes |-> IF s = <<>> THEN <<>> ELSE Tail(s)]
           h == [z \in Bytes \X Bytes |->
                   IF z[1] = <<>> THEN <<>> ELSE Put(Head(z[1]), z[2])]
<1>1. ASSUME NEW s \in Bytes, s # <<>>
      PROVE  Head(s) \in Byte /\ Tail(s) \in Bytes /\ Len(Tail(s)) < Len(s)
  <2>1. PICK b \in Byte, t \in Bytes : s = Cons(b, t) /\ Len(t) = Len(s) - 1
    BY <1>1, ConsCases
  <2>2. Head(s) = b /\ Tail(s) = t
    BY <2>1, ConsType
  <2>3. Len(t) < Len(s)
    BY <2>1, BytesType
  <2> QED BY <2>1, <2>2, <2>3
<1>2. \E f \in [Bytes -> Bytes] : IsLoop(f, Bytes, Size, e, d, h)
  <2>1. e \in [Bytes -> Bytes]
    BY NilType
  <2>2. d \in [Bytes -> Bytes]
    BY <1>1, NilType
  <2>3. h \in [Bytes \X Bytes -> Bytes]
    BY <1>1, PutType, NilType
  <2> HIDE DEF e, d, h
  <2> QED BY <2>1, <2>2, <2>3, SizeType, LoopExists
<1>3. PICK f \in [Bytes -> Bytes] :
        \A s \in Bytes : f[s] = IF Size[d[s]] < Size[s] THEN h[<<s, f[d[s]]>>] ELSE e[s]
  <2> HIDE DEF e, d, h
  <2> QED BY <1>2 DEF IsLoop
<1>4. ASSUME NEW s \in Bytes PROVE f[s] = Body(f, s)
  <2>1. CASE s = <<>>
    <3>1. d[s] = s /\ Size[s] \in Nat /\ e[s] = <<>>
      BY <2>1, SizeType
    <3> HIDE DEF d, e
    <3> QED BY <1>3, <2>1, <3>1
  <2>2. CASE s # <<>>
    <3>1. Head(s) \in Byte /\ Tail(s) \in Bytes /\ f[Tail(s)] \in Bytes
      BY <1>1, <2>2
    <3>2. d[s] = Tail(s) /\ f[s] = h[<<s, f[d[s]]>>]
      <4>1. d[s] = Tail(s) /\ Size[d[s]] < Size[s]
        BY <1>1, <2>2, SizeType
      <4> HIDE DEF d, h
      <4> QED BY <1>3, <4>1
    <3>3. h[<<s, f[Tail(s)]>>] = Put(Head(s), f[Tail(s)])
      BY <2>2, <3>1
    <3> HIDE DEF d, h
    <3> QED BY <2>2, <3>1, <3>2, <3>3, PutIs
  <2> QED BY <2>1, <2>2
<1>5. f = [s \in Bytes |-> Body(f, s)]
  <2> HIDE DEF Body
  <2> QED BY <1>4
<1>6. Escaped = [s \in Bytes |-> Body(Escaped, s)]
  <2>1. \E g : g = [s \in Bytes |-> Body(g, s)]
    BY <1>5
  <2> QED BY <2>1 DEF Escaped
<1>7. Escaped[<<>>] = <<>>
  BY <1>6, NilType
<1>8. ASSUME NEW b \in Byte, NEW s \in Bytes, Escaped[s] \in Bytes
      PROVE  Escaped[Cons(b, s)] = Put(b, Escaped[s])
  <2> DEFINE x == Cons(b, s)
  <2>1. x \in Bytes /\ x # <<>> /\ Head(x) = b /\ Tail(x) = s
    BY ConsType
  <2> HIDE DEF x
  <2>2. Escaped[x] = [k \in 1 .. Width(b) |-> b] \o Escaped[s]
    BY <1>6, <2>1
  <2> QED BY <1>8, <2>2, PutIs DEF x
<1>9. \A s \in Bytes : Escaped[s] \in Bytes
  <2> DEFINE T == {s \in Bytes : Escaped[s] \notin Bytes}
  <2> SUFFICES ASSUME T # {} PROVE FALSE
    OBVIOUS
  <2>1. PICK s \in T : \A t \in Bytes : Len(t) < Len(s) => t \notin T
    <3>1. T \subseteq Bytes
      OBVIOUS
    <3> HIDE DEF T
    <3> QED BY <3>1, Shortest
  <2>2. s \in Bytes /\ Escaped[s] \notin Bytes /\ s # <<>>
    BY <1>7, <2>1, NilType
  <2>3. PICK b \in Byte, t \in Bytes : s = Cons(b, t) /\ Len(t) = Len(s) - 1
    BY <2>2, ConsCases
  <2>4. Escaped[t] \in Bytes
    BY <2>1, <2>2, <2>3, BytesType
  <2>5. Escaped[s] = Put(b, Escaped[t])
    BY <1>8, <2>3, <2>4
  <2> QED BY <2>2, <2>4, <2>5, PutType
<1>10. Escaped \in [Bytes -> Bytes]
  <2> HIDE DEF Body
  <2>1. Escaped = [s \in Bytes |-> Escaped[s]]
    BY <1>6
  <2> QED BY <1>9, <2>1
<1> QED BY <1>7, <1>8, <1>9, <1>10

LEMMA EscapedType ==
  /\ \A s \in Bytes : Escaped[s] \in Bytes
  /\ Escaped[<<>>] = <<>>
  /\ \A b \in Byte, s \in Bytes : Escaped[Cons(b, s)] = Put(b, Escaped[s])
BY EscapedDef

LEMMA PutGoesOn ==
  ASSUME NEW b \in Byte, NEW s \in Bytes
  PROVE  ~DataEnds(Put(b, s)) /\ Head(Put(b, s)) = b
<1> DEFINE x == Put(b, s)
<1>1. x \in Bytes /\ x # <<>>
  BY PutType
<1>2. Head(x) = b
  BY PutType, ConsType, FramingAssumption DEF Put
<1>3. CASE b = Esc
  <2>1. Cons(Esc, s) \in Bytes /\ Cons(Esc, s)[1] = Esc /\ Len(Cons(Esc, s)) = Len(s) + 1
    BY <1>3, ConsType
  <2>2. x = Cons(Esc, Cons(Esc, s))
    BY <1>3 DEF Put
  <2>3. x[2] = Cons(Esc, s)[1]
    <3> DEFINE y == Cons(Esc, s)
    <3>1. y \in Bytes /\ y # <<>> /\ Esc \in Byte
      BY <1>3, ConsType
    <3> HIDE DEF y
    <3>2. Cons(Esc, y)[2] = y[1]
      BY <3>1, ConsSecond
    <3> QED BY <2>2, <3>2 DEF y
  <2>4. Len(x) = Len(s) + 2
    BY <1>3, PutType
  <2>5. Len(x) # 1
    BY <2>4, BytesType
  <2> HIDE DEF x
  <2> QED BY <1>1, <1>2, <1>3, <2>1, <2>3, <2>5 DEF DataEnds, x
<1>4. CASE b # Esc
  <2> HIDE DEF x
  <2> QED BY <1>1, <1>2, <1>4 DEF DataEnds, x
<1> QED BY <1>2, <1>3, <1>4

LEMMA GoesOn ==
  ASSUME NEW s \in Bytes, ~DataEnds(s)
  PROVE  \E b \in Byte, t \in Bytes : s = Put(b, t)
<1>1. s # <<>>
  BY DEF DataEnds
<1>2. PICK b \in Byte, t \in Bytes : s = Cons(b, t) /\ Len(t) = Len(s) - 1
  BY <1>1, ConsCases
<1>3. Head(s) = b /\ Len(s) = Len(t) + 1
  BY <1>2, ConsType
<1>4. CASE b # Esc
  BY <1>2, <1>4 DEF Put
<1>5. CASE b = Esc
  <2>1. Len(s) # 1 /\ s[2] = Esc
    BY <1>1, <1>3, <1>5 DEF DataEnds
  <2>2. t # <<>>
    BY <1>3, <2>1, NilType
  <2>3. PICK c \in Byte, u \in Bytes : t = Cons(c, u) /\ Len(u) = Len(t) - 1
    BY <2>2, ConsCases
  <2>4. s[2] = t[1] /\ t[1] = c
    <3>1. s[2] = t[1]
      BY <1>2, <2>2, ConsSecond
    <3>2. t[1] = c
      BY <2>3, ConsType
    <3> QED BY <3>1, <3>2
  <2>5. c = Esc
    BY <2>1, <2>4
  <2> QED BY <1>2, <1>5, <2>3, <2>5 DEF Put
<1> QED BY <1>4, <1>5

LEMMA UnescapeDef ==
  /\ Unescape \in [Bytes -> Bytes]
  /\ \A s \in Bytes : DataEnds(s) => Unescape[s] = <<>>
  /\ \A b \in Byte, s \in Bytes : Unescape[Put(b, s)] = Cons(b, Unescape[s])
<1> DEFINE Next_(s) == Drop(s, Width(Head(s)))
           Body(g, s) == IF DataEnds(s) THEN <<>> ELSE <<Head(s)>> \o g[Next_(s)]
           e == [s \in Bytes |-> <<>>]
           d == [s \in Bytes |-> IF DataEnds(s) THEN s ELSE Next_(s)]
           h == [z \in Bytes \X Bytes |->
                   IF DataEnds(z[1]) THEN <<>> ELSE Cons(Head(z[1]), z[2])]
<1>1. ASSUME NEW s \in Bytes, ~DataEnds(s)
      PROVE  Head(s) \in Byte /\ Next_(s) \in Bytes /\ Len(Next_(s)) < Len(s)
  <2>1. PICK b \in Byte, t \in Bytes : s = Put(b, t)
    BY <1>1, GoesOn
  <2>2. Head(s) = b /\ Len(t) < Len(s)
    BY <2>1, PutGoesOn, PutType
  <2>3. Next_(s) = t
    BY <2>1, <2>2, PutIs
  <2> HIDE DEF Next_
  <2> QED BY <2>2, <2>3
<1> HIDE DEF Next_
<1>2. \E f \in [Bytes -> Bytes] : IsLoop(f, Bytes, Size, e, d, h)
  <2>1. e \in [Bytes -> Bytes]
    BY NilType
  <2>2. d \in [Bytes -> Bytes]
    BY <1>1
  <2>3. h \in [Bytes \X Bytes -> Bytes]
    BY <1>1, ConsType, NilType
  <2> HIDE DEF e, d, h
  <2> QED BY <2>1, <2>2, <2>3, SizeType, LoopExists
<1>3. PICK f \in [Bytes -> Bytes] :
        \A s \in Bytes : f[s] = IF Size[d[s]] < Size[s] THEN h[<<s, f[d[s]]>>] ELSE e[s]
  <2> HIDE DEF e, d, h
  <2> QED BY <1>2 DEF IsLoop
<1>4. ASSUME NEW s \in Bytes PROVE f[s] = Body(f, s)
  <2>1. CASE DataEnds(s)
    <3>1. d[s] = s /\ Size[s] \in Nat /\ e[s] = <<>>
      BY <2>1, SizeType
    <3> HIDE DEF d, e
    <3> QED BY <1>3, <2>1, <3>1
  <2>2. CASE ~DataEnds(s)
    <3>1. Head(s) \in Byte /\ Next_(s) \in Bytes /\ f[Next_(s)] \in Bytes
      BY <1>1, <2>2
    <3>2. d[s] = Next_(s) /\ f[s] = h[<<s, f[d[s]]>>]
      <4>1. d[s] = Next_(s) /\ Size[d[s]] < Size[s]
        BY <1>1, <2>2, SizeType
      <4> HIDE DEF d, h
      <4> QED BY <1>3, <4>1
    <3>3. h[<<s, f[Next_(s)]>>] = Cons(Head(s), f[Next_(s)])
      BY <2>2, <3>1
    <3> HIDE DEF d, h
    <3> QED BY <2>2, <3>1, <3>2, <3>3 DEF Cons
  <2> QED BY <2>1, <2>2
<1>5. f = [s \in Bytes |-> Body(f, s)]
  <2> HIDE DEF Body
  <2> QED BY <1>4
<1>6. Unescape = [s \in Bytes |-> Body(Unescape, s)]
  <2>1. \E g : g = [s \in Bytes |-> Body(g, s)]
    BY <1>5
  <2> QED BY <2>1 DEF Unescape, Next_
<1>7. ASSUME NEW s \in Bytes, DataEnds(s) PROVE Unescape[s] = <<>>
  BY <1>6, <1>7
<1>8. ASSUME NEW b \in Byte, NEW s \in Bytes PROVE Unescape[Put(b, s)] = Cons(b, Unescape[s])
  <2> DEFINE x == Put(b, s)
  <2>1. x \in Bytes /\ ~DataEnds(x) /\ Head(x) = b
    BY PutType, PutGoesOn
  <2>2. Next_(x) = s
    BY <2>1, PutIs DEF Next_
  <2> HIDE DEF x
  <2>3. Unescape[x] = <<b>> \o Unescape[s]
    BY <1>6, <2>1, <2>2
  <2> QED BY <2>3 DEF x, Cons
<1>9. \A s \in Bytes : Unescape[s] \in Bytes
  <2> DEFINE T == {s \in Bytes : Unescape[s] \notin Bytes}
  <2> SUFFICES ASSUME T # {} PROVE FALSE
    OBVIOUS
  <2>1. PICK s \in T : \A t \in Bytes : Len(t) < Len(s) => t \notin T
    <3>1. T \subseteq Bytes
      OBVIOUS
    <3> HIDE DEF T
    <3> QED BY <3>1, Shortest
  <2>2. s \in Bytes /\ Unescape[s] \notin Bytes /\ ~DataEnds(s)
    BY <1>7, <2>1, NilType
  <2>3. PICK b \in Byte, t \in Bytes : s = Put(b, t)
    BY <2>2, GoesOn
  <2>4. Unescape[t] \in Bytes
    <3>1. Len(t) < Len(s)
      BY <2>3, PutType
    <3> QED BY <2>1, <3>1
  <2>5. Unescape[s] = Cons(b, Unescape[t])
    BY <1>8, <2>3
  <2> QED BY <2>2, <2>4, <2>5, ConsType
<1>10. Unescape \in [Bytes -> Bytes]
  <2> HIDE DEF Body
  <2>1. Unescape = [s \in Bytes |-> Unescape[s]]
    BY <1>6
  <2> QED BY <1>9, <2>1
<1> QED BY <1>7, <1>8, <1>10

LEMMA UnescapeType ==
  /\ \A s \in Bytes : Unescape[s] \in Bytes
  /\ \A s \in Bytes : DataEnds(s) => Unescape[s] = <<>>
  /\ \A b \in Byte, s \in Bytes : Unescape[Put(b, s)] = Cons(b, Unescape[s])
BY UnescapeDef

\* Data are escaped byte by byte.
LEMMA EscapedCat ==
  ASSUME NEW p \in Bytes, NEW q \in Bytes
  PROVE  Escaped[Cat(p, q)] = Cat(Escaped[p], Escaped[q])
<1> DEFINE T == {s \in Bytes : Escaped[Cat(s, q)] # Cat(Escaped[s], Escaped[q])}
<1> SUFFICES ASSUME T # {} PROVE FALSE
  OBVIOUS
<1>1. PICK s \in T : \A t \in Bytes : Len(t) < Len(s) => t \notin T
  <2>1. T \subseteq Bytes
    OBVIOUS
  <2> HIDE DEF T
  <2> QED BY <2>1, Shortest
<1>2. s \in Bytes /\ Escaped[q] \in Bytes /\ s # <<>>
  BY <1>1, EscapedType, CatNil
<1>3. PICK b \in Byte, t \in Bytes : s = Cons(b, t) /\ Len(t) = Len(s) - 1
  BY <1>2, ConsCases
<1>4. Len(t) < Len(s)
  BY <1>2, <1>3, BytesType
<1>5. Escaped[Cat(t, q)] = Cat(Escaped[t], Escaped[q])
  BY <1>1, <1>4
<1>6. /\ Cat(s, q) = Cons(b, Cat(t, q)) /\ Cat(t, q) \in Bytes
      /\ Escaped[s] = Put(b, Escaped[t]) /\ Escaped[t] \in Bytes
  BY <1>3, ConsCat, CatType, EscapedType
<1>7. Escaped[Cat(s, q)] = Put(b, Cat(Escaped[t], Escaped[q]))
  BY <1>5, <1>6, EscapedType
<1>8. Cat(Escaped[s], Escaped[q]) = Put(b, Cat(Escaped[t], Escaped[q]))
  BY <1>2, <1>6, PutType
<1> QED BY <1>1, <1>7, <1>8

\* unescape undoes it, and goes on with what follows.
LEMMA UnescapeCat ==
  ASSUME NEW p \in Bytes, NEW r \in Bytes
  PROVE  Unescape[Cat(Escaped[p], r)] = Cat(p, Unescape[r])
<1> DEFINE T == {s \in Bytes : Unescape[Cat(Escaped[s], r)] # Cat(s, Unescape[r])}
<1> SUFFICES ASSUME T # {} PROVE FALSE
  OBVIOUS
<1>1. PICK s \in T : \A t \in Bytes : Len(t) < Len(s) => t \notin T
  <2>1. T \subseteq Bytes
    OBVIOUS
  <2> HIDE DEF T
  <2> QED BY <2>1, Shortest
<1>2. s \in Bytes /\ Unescape[r] \in Bytes /\ s # <<>>
  BY <1>1, EscapedType, UnescapeType, CatNil
<1>3. PICK b \in Byte, t \in Bytes : s = Cons(b, t) /\ Len(t) = Len(s) - 1
  BY <1>2, ConsCases
<1>4. Len(t) < Len(s)
  BY <1>2, <1>3, BytesType
<1>5. Unescape[Cat(Escaped[t], r)] = Cat(t, Unescape[r])
  BY <1>1, <1>4
<1>6. /\ Escaped[s] = Put(b, Escaped[t]) /\ Escaped[t] \in Bytes
      /\ Cat(Escaped[t], r) \in Bytes
  BY <1>3, CatType, EscapedType
<1>7. Cat(Escaped[s], r) = Put(b, Cat(Escaped[t], r))
  BY <1>6, PutType
<1>8. Unescape[Cat(Escaped[s], r)] = Cons(b, Cat(t, Unescape[r]))
  BY <1>5, <1>6, <1>7, UnescapeType
<1>9. Cat(s, Unescape[r]) = Cons(b, Cat(t, Unescape[r]))
  BY <1>2, <1>3, ConsCat
<1> QED BY <1>1, <1>8, <1>9

\* What unescape leaves.
LEMMA Parse ==
  ASSUME NEW x \in Bytes
  PROVE  \E r \in Bytes : x = Cat(Escaped[Unescape[x]], r) /\ DataEnds(r)
<1> DEFINE Parsed(s) == \E r \in Bytes : s = Cat(Escaped[Unescape[s]], r) /\ DataEnds(r)
           T == {s \in Bytes : ~Parsed(s)}
<1> SUFFICES ASSUME T # {} PROVE FALSE
  OBVIOUS
<1>1. PICK s \in T : \A t \in Bytes : Len(t) < Len(s) => t \notin T
  <2>1. T \subseteq Bytes
    OBVIOUS
  <2> HIDE DEF T
  <2> QED BY <2>1, Shortest
<1>2. s \in Bytes /\ ~Parsed(s)
  BY <1>1
<1>3. ~DataEnds(s)
  <2> SUFFICES ASSUME DataEnds(s) PROVE FALSE
    OBVIOUS
  <2>1. s = Cat(Escaped[Unescape[s]], s)
    BY <1>2, UnescapeType, EscapedType, CatNil
  <2> QED BY <1>2, <2>1
<1>4. PICK b \in Byte, t \in Bytes : s = Put(b, t)
  BY <1>2, <1>3, GoesOn
<1>5. Len(t) < Len(s)
  BY <1>4, PutType
<1>6. Parsed(t)
  BY <1>1, <1>5
<1>7. PICK r \in Bytes : t = Cat(Escaped[Unescape[t]], r) /\ DataEnds(r)
  BY <1>6
<1>8. Unescape[t] \in Bytes /\ Unescape[s] = Cons(b, Unescape[t]) /\ Escaped[Unescape[t]] \in Bytes
  BY <1>4, UnescapeType, EscapedType
<1>9. Escaped[Unescape[s]] = Put(b, Escaped[Unescape[t]])
  BY <1>8, EscapedType
<1>10. Cat(Escaped[Unescape[s]], r) = Put(b, t)
  BY <1>7, <1>8, <1>9, PutType
<1> QED BY <1>2, <1>4, <1>7, <1>10

LEMMA EscapedLength ==
  ASSUME NEW p \in Bytes
  PROVE  Len(Escaped[p]) \in Nat /\ Len(Escaped[p]) <= 2 * Len(p) /\ Len(Escaped[p]) >= Len(p)
<1> DEFINE Right(s) == Len(Escaped[s]) <= 2 * Len(s) /\ Len(Escaped[s]) >= Len(s)
           T == {s \in Bytes : ~Right(s)}
<1>1. T = {}
  <2> SUFFICES ASSUME T # {} PROVE FALSE
    OBVIOUS
  <2>1. PICK s \in T : \A t \in Bytes : Len(t) < Len(s) => t \notin T
    <3>1. T \subseteq Bytes
      OBVIOUS
    <3> HIDE DEF T
    <3> QED BY <3>1, Shortest
  <2>2. s \in Bytes /\ ~Right(s) /\ s # <<>>
    BY <2>1, EscapedType, NilType
  <2>3. PICK b \in Byte, t \in Bytes : s = Cons(b, t) /\ Len(t) = Len(s) - 1
    BY <2>2, ConsCases
  <2>4. Len(s) \in Nat /\ Len(t) \in Nat /\ Len(t) < Len(s)
    BY <2>2, <2>3, BytesType
  <2>5. Right(t)
    BY <2>1, <2>4
  <2>6. Escaped[s] = Put(b, Escaped[t]) /\ Escaped[t] \in Bytes /\ Len(Escaped[t]) \in Nat
    BY <2>3, EscapedType, BytesType
  <2>7. Len(Escaped[s]) = IF b = Esc THEN Len(Escaped[t]) + 2 ELSE Len(Escaped[t]) + 1
    BY <2>6, PutType
  <2> QED BY <2>2, <2>3, <2>4, <2>5, <2>6, <2>7
<1>2. Len(Escaped[p]) \in Nat
  BY EscapedType, BytesType
<1> QED BY <1>1, <1>2

-----------------------------------------------------------------------------
(***************************************************************************)
(* Framing.                                                                *)
(***************************************************************************)

Candidate(c) == c \in Bytes /\ Len(c) >= 2 /\ c[1] = Esc /\ c[2] # Esc

LEMMA CandidateParts ==
  ASSUME NEW c, Candidate(c)
  PROVE  \E t \in Bytes : /\ c = Cons(Esc, t) /\ t # <<>> /\ Tail(c) = t /\ c[2] = t[1]
                          /\ Len(c) = Len(t) + 1
<1>1. c \in Bytes /\ c # <<>>
  BY NilType DEF Candidate
<1>2. PICK b \in Byte, t \in Bytes : c = Cons(b, t) /\ Len(t) = Len(c) - 1
  BY <1>1, ConsCases
<1>3. c[1] = b /\ Tail(c) = t /\ Len(c) = Len(t) + 1
  BY <1>2, ConsType
<1>4. b = Esc
  BY <1>3 DEF Candidate
<1>5. t # <<>>
  <2>1. Len(t) # 0
    BY <1>2, <1>1, BytesType DEF Candidate
  <2> QED BY <2>1, NilType
<1>6. c[2] = t[1]
  BY <1>2, <1>5, ConsSecond
<1> QED BY <1>2, <1>3, <1>4, <1>5, <1>6

LEMMA IsCandidate ==
  ASSUME NEW t \in Bytes, t # <<>>, t[1] # Esc
  PROVE  /\ Candidate(Cons(Esc, t)) /\ Tail(Cons(Esc, t)) = t /\ Cons(Esc, t)[2] = t[1]
         /\ Len(Cons(Esc, t)) = Len(t) + 1
<1> DEFINE c == Cons(Esc, t)
<1>1. c \in Bytes /\ c[1] = Esc /\ Tail(c) = t /\ Len(c) = Len(t) + 1 /\ c[2] = t[1]
  BY ConsType, ConsSecond, FramingAssumption
<1>2. Len(t) # 0 /\ Len(t) \in Nat
  BY NilType, BytesType
<1> HIDE DEF c
<1>3. Candidate(c)
  BY <1>1, <1>2 DEF Candidate
<1> QED BY <1>1, <1>3 DEF c

\* The first start of a buffer is found whatever follows.
LEMMA FromStartIs ==
  ASSUME NEW b \in Bytes, Starts(b) # {}
  PROVE  /\ Candidate(FromStart(b)) /\ Len(FromStart(b)) <= Len(b)
         /\ \E p \in Bytes : b = Cat(p, FromStart(b))
         /\ \A x \in Bytes : /\ Starts(Cat(b, x)) # {}
                             /\ FromStart(Cat(b, x)) = Cat(FromStart(b), x)
<1>1. PICK m \in Starts(b) : \A y \in Starts(b) : m <= y
  <2>1. Starts(b) \subseteq Nat
    BY BytesType DEF Starts
  <2> QED BY <2>1, LeastNatural
<1>2. m \in 1 .. Len(b) - 1 /\ b[m] = Esc /\ b[m + 1] # Esc /\ Len(b) \in Nat
  BY <1>1, BytesType DEF Starts
<1>3. ASSUME NEW S, m \in S, \A y \in S : y \in Int /\ m <= y PROVE Min(S) = m
  <2>1. \E z \in S : \A y \in S : z <= y
    BY <1>3
  <2>2. Min(S) \in S /\ \A y \in S : Min(S) <= y
    BY <2>1 DEF Min
  <2>3. Min(S) <= m /\ m <= Min(S) /\ Min(S) \in Int /\ m \in Int
    BY <1>3, <2>2
  <2> QED BY <2>3
<1>4. Min(Starts(b)) = m
  <2>1. \A y \in Starts(b) : y \in Int
    BY DEF Starts
  <2> QED BY <1>1, <1>3, <2>1
<1> DEFINE p == SubSeq(b, 1, m - 1)
           c == Drop(b, m - 1)
<1>5. m - 1 \in 0 .. Len(b) /\ m \in Nat
  BY <1>2
<1>6. p \in Bytes /\ Len(p) = m - 1 /\ c \in Bytes /\ Len(c) = Len(b) - (m - 1)
  BY <1>5, FrontType, DropType
<1>7. c[1] = b[m] /\ c[2] = b[m + 1]
  <2>1. 1 \in 1 .. Len(b) - (m - 1) /\ 2 \in 1 .. Len(b) - (m - 1)
        /\ (m - 1) + 1 = m /\ (m - 1) + 2 = m + 1
    BY <1>2
  <2>2. c[1] = b[(m - 1) + 1] /\ c[2] = b[(m - 1) + 2]
    BY <1>5, <2>1, DropAt
  <2> QED BY <2>1, <2>2
<1>8. b = Cat(p, c)
  BY <1>5, Split
<1>9. FromStart(b) = c
  BY <1>4 DEF FromStart
<1> HIDE DEF p, c
<1>10. Candidate(c)
  <2>1. Len(c) >= 2
    BY <1>2, <1>6
  <2> QED BY <1>2, <1>6, <1>7, <2>1 DEF Candidate
<1>11. ASSUME NEW x \in Bytes
       PROVE  Starts(Cat(b, x)) # {} /\ FromStart(Cat(b, x)) = Cat(c, x)
  <2> DEFINE d == Cat(b, x)
  <2>1. d \in Bytes /\ Len(d) = Len(b) + Len(x) /\ Len(x) \in Nat
    BY CatType, BytesType
  <2>2. \A k \in 1 .. Len(b) : d[k] = b[k]
    <3> TAKE k \in 1 .. Len(b)
    <3>1. k \in 1 .. Len(b) + Len(x) /\ k <= Len(b)
      BY <1>2, <2>1
    <3> QED BY <3>1, CatAt
  <2> HIDE DEF d
  <2>3. m \in Starts(d)
    <3>1. m \in 1 .. Len(b) /\ m + 1 \in 1 .. Len(b) /\ m \in 1 .. Len(d) - 1
      BY <1>2, <2>1
    <3> QED BY <1>2, <2>2, <3>1 DEF Starts
  <2>4. ASSUME NEW y \in Starts(d) PROVE y \in Int /\ m <= y
    <3>1. y \in 1 .. Len(d) - 1 /\ d[y] = Esc /\ d[y + 1] # Esc /\ y \in Int
      BY <2>1 DEF Starts
    <3>2. ASSUME y < m PROVE FALSE
      <4>1. y \in 1 .. Len(b) /\ y + 1 \in 1 .. Len(b) /\ y \in 1 .. Len(b) - 1
        BY <1>2, <3>1, <3>2
      <4>2. y \in Starts(b)
        BY <2>2, <3>1, <4>1 DEF Starts
      <4> QED BY <1>1, <1>5, <3>1, <3>2, <4>2
    <3> QED BY <1>5, <3>1, <3>2
  <2>5. Min(Starts(d)) = m
    BY <1>3, <2>3, <2>4
  <2>6. d = Cat(p, Cat(c, x)) /\ Cat(c, x) \in Bytes
    BY <1>6, <1>8, CatAssociative, CatType DEF d
  <2>7. Drop(d, m - 1) = Cat(c, x)
    BY <1>6, <2>6, Parts
  <2>8. FromStart(d) = Cat(c, x)
    BY <2>5, <2>7 DEF FromStart
  <2> QED BY <2>3, <2>8 DEF d
<1>12. Len(c) <= Len(b)
  BY <1>2, <1>5, <1>6
<1> QED BY <1>6, <1>8, <1>9, <1>10, <1>11, <1>12

LEMMA FromStartCandidate ==
  ASSUME NEW c, Candidate(c)
  PROVE  Starts(c) # {} /\ FromStart(c) = c
<1>1. c \in Bytes /\ Len(c) \in Nat /\ Len(c) >= 2
  BY BytesType DEF Candidate
<1>2. 1 \in Starts(c)
  BY <1>1 DEF Candidate, Starts
<1>3. \A y \in Starts(c) : 1 <= y /\ y \in Int
  BY DEF Starts
<1>4. Min(Starts(c)) = 1
  <2> DEFINE S == Starts(c)
  <2>1. 1 \in S /\ \A y \in S : 1 <= y /\ y \in Int
    BY <1>2, <1>3
  <2> HIDE DEF S
  <2>2. Min(S) \in S /\ \A y \in S : Min(S) <= y
    BY <2>1 DEF Min
  <2>3. Min(S) <= 1 /\ 1 <= Min(S) /\ Min(S) \in Int
    BY <2>1, <2>2
  <2>4. Min(S) = 1
    BY <2>3
  <2> QED BY <2>4 DEF S
<1>5. Drop(c, 0) = c
  BY <1>1 DEF Drop, Bytes
<1> QED BY <1>2, <1>4, <1>5 DEF FromStart

\* A whole frame: its data, and what follows them.
LEMMA WholeIf ==
  ASSUME NEW v \in Bytes, NEW r \in Bytes, NEW c, c = Cons(Esc, Cat(Escaped[v], r)),
         v # <<>>, v[1] \in Types, Len(v) = MinLen[v[1]] - 1
  PROVE  /\ Candidate(c) /\ c[2] = v[1] /\ Whole(c) /\ Rest(c) = r /\ Payload(c) = Tail(v)
         /\ Len(r) < Len(c)
<1> DEFINE e == Escaped[v]
           t == Cat(e, r)
<1>1. PICK b \in Byte, q \in Bytes : v = Cons(b, q)
  BY ConsCases
<1>2. v[1] = b /\ Tail(v) = q /\ Len(v) = Len(q) + 1
  BY <1>1, ConsType
<1>3. e = Put(b, Escaped[q]) /\ e \in Bytes /\ Escaped[q] \in Bytes
  BY <1>1, EscapedType
<1> HIDE DEF e
<1>4. t \in Bytes /\ t # <<>> /\ t[1] = b
  <2>1. t = Put(b, Cat(Escaped[q], r)) /\ Cat(Escaped[q], r) \in Bytes
    <3>1. t = Cat(Put(b, Escaped[q]), r)
      BY <1>3
    <3>2. Cat(Escaped[q], r) \in Bytes
      BY <1>3, CatType
    <3> HIDE DEF t
    <3> QED BY <1>3, <3>1, <3>2, PutCat
  <2> QED BY <2>1, PutType
<1>5. b # Esc /\ MinLen[b] \in Nat /\ Len(v) \in Nat
  BY <1>2, FramingAssumption, BytesType
<1>6. Candidate(c) /\ Tail(c) = t /\ c[2] = b
  <2> HIDE DEF t
  <2>1. c = Cons(Esc, t)
    BY DEF t, e
  <2> QED BY <1>4, <1>5, <2>1, IsCandidate
<1>7. Data(c) = Cat(v, Unescape[r]) /\ Unescape[r] \in Bytes
  BY <1>6, UnescapeCat, UnescapeType DEF Data, e
<1>8. Whole(c)
  <2>1. Len(Data(c)) = Len(v) + Len(Unescape[r]) /\ Len(Unescape[r]) \in Nat
    BY <1>7, CatType, BytesType
  <2>2. Len(v) + 1 = MinLen[b]
    BY <1>2, <1>5
  <2>3. Len(Data(c)) + 1 >= MinLen[b]
    BY <1>5, <2>1, <2>2
  <2> QED BY <1>2, <1>6, <2>3 DEF Whole
<1>9. Consumed(c) = 1 + Len(e)
  <2>1. SubSeq(Data(c), 1, MinLen[c[2]] - 1) = v
    BY <1>2, <1>6, <1>7, Parts
  <2> QED BY <2>1 DEF Consumed, e
<1>10. Rest(c) = r /\ Len(c) = Len(e) + 1 + Len(r)
  <2> DEFINE f == Cons(Esc, e)
  <2>1. f \in Bytes /\ Len(f) = Len(e) + 1 /\ c = Cat(f, r)
    <3>1. c = Cons(Esc, Cat(e, r))
      BY DEF e
    <3>2. f \in Bytes /\ Len(f) = Len(e) + 1
      BY <1>3, ConsType, FramingAssumption
    <3>3. Cons(Esc, Cat(e, r)) = Cat(f, r)
      BY <1>3, ConsCat, FramingAssumption
    <3> QED BY <3>1, <3>2, <3>3
  <2> HIDE DEF f
  <2>2. Drop(c, Len(f)) = r /\ Len(c) = Len(f) + Len(r)
    BY <2>1, Parts, CatType
  <2>3. Len(f) = Consumed(c)
    BY <1>3, <1>9, <2>1, BytesType
  <2> QED BY <1>8, <2>1, <2>2, <2>3 DEF Rest
<1>11. Payload(c) = Tail(v)
  <2> DEFINE u == Unescape[r]
  <2>1. Data(c) = Cons(b, Cat(q, u)) /\ u \in Bytes
    BY <1>1, <1>7, ConsCat
  <2>2. SubSeq(<<b>> \o (q \o u), 2, Len(q) + 1) = q
    <3> HIDE DEF u
    <3> QED BY <2>1 DEF Bytes
  <2>3. MinLen[c[2]] - 1 = Len(q) + 1
    BY <1>2, <1>6
  <2> QED BY <1>2, <2>1, <2>2, <2>3 DEF Payload, Cons, Cat
<1>12. Len(r) < Len(c)
  BY <1>3, <1>10, BytesType
<1> QED BY <1>2, <1>6, <1>8, <1>10, <1>11, <1>12

LEMMA WholeIs ==
  ASSUME NEW c, Candidate(c), Whole(c)
  PROVE  \E v, r \in Bytes : /\ c = Cons(Esc, Cat(Escaped[v], r)) /\ v # <<>>
                             /\ v[1] = c[2] /\ Len(v) = MinLen[v[1]] - 1
<1>1. PICK t \in Bytes : c = Cons(Esc, t) /\ t # <<>> /\ Tail(c) = t /\ c[2] = t[1]
  BY CandidateParts
<1> DEFINE u == Unescape[t]
           n == MinLen[c[2]] - 1
           v == SubSeq(u, 1, n)
           w == Drop(u, n)
<1>2. u = Data(c) /\ u \in Bytes
  BY <1>1, UnescapeType DEF Data
<1>3. PICK s \in Bytes : t = Cat(Escaped[u], s)
  BY <1>1, Parse
<1>4. c[2] \in Types /\ n \in 0 .. Len(u) /\ n > 0
  <2>1. MinLen[c[2]] \in Nat \ {0, 1} /\ Len(u) \in Nat /\ Len(u) + 1 >= MinLen[c[2]]
    BY <1>2, BytesType, FramingAssumption DEF Whole
  <2> QED BY <2>1 DEF Whole
<1> HIDE DEF u
<1>5. v \in Bytes /\ w \in Bytes /\ u = Cat(v, w) /\ Len(v) = n
  BY <1>2, <1>4, FrontType, DropType, Split
<1> HIDE DEF v, w
<1> DEFINE r == Cat(Escaped[w], s)
<1>6. Escaped[u] = Cat(Escaped[v], Escaped[w]) /\ Escaped[v] \in Bytes /\ Escaped[w] \in Bytes
  BY <1>5, EscapedCat, EscapedType
<1>7. t = Cat(Escaped[v], r) /\ r \in Bytes
  <2>1. r \in Bytes
    BY <1>6, CatType
  <2>2. t = Cat(Cat(Escaped[v], Escaped[w]), s)
    BY <1>3, <1>6
  <2>3. t = Cat(Escaped[v], r)
    BY <1>6, <2>2, CatAssociative
  <2> QED BY <2>1, <2>3
<1> HIDE DEF r
<1>8. v # <<>>
  BY <1>4, <1>5, NilType
<1>9. PICK b \in Byte, q \in Bytes : v = Cons(b, q)
  BY <1>5, <1>8, ConsCases
<1>10. v[1] = b /\ Escaped[v] = Put(b, Escaped[q]) /\ Escaped[q] \in Bytes
  BY <1>9, ConsType, EscapedType
<1>11. t = Put(b, Cat(Escaped[q], r)) /\ Cat(Escaped[q], r) \in Bytes
  BY <1>7, <1>10, PutType, CatType
<1>12. t[1] = b
  BY <1>11, PutType
<1> QED BY <1>1, <1>5, <1>7, <1>8, <1>10, <1>12

LEMMA StepOn ==
  ASSUME NEW c, Candidate(c)
  PROVE  /\ Rest(c) \in Bytes /\ Len(Rest(c)) < Len(c)
         /\ Found(c) \in Seq(Bytes)
<1>1. CASE Whole(c)
  <2>1. PICK v, r \in Bytes : /\ c = Cons(Esc, Cat(Escaped[v], r)) /\ v # <<>>
                              /\ v[1] = c[2] /\ Len(v) = MinLen[v[1]] - 1
    BY <1>1, WholeIs
  <2>2. v[1] \in Types
    BY <1>1, <2>1 DEF Whole
  <2>3. Rest(c) = r /\ Len(r) < Len(c) /\ Payload(c) = Tail(v)
    BY <2>1, <2>2, WholeIf
  <2>4. Tail(v) \in Bytes
    <3>1. PICK b \in Byte, q \in Bytes : v = Cons(b, q)
      BY <2>1, ConsCases
    <3> QED BY <3>1, ConsType
  <2> QED BY <2>3, <2>4 DEF Found
<1>2. CASE ~Whole(c)
  <2>1. Rest(c) = Drop(c, 1)
    BY <1>2 DEF Rest
  <2>2. c \in Bytes /\ 1 \in 0 .. Len(c) /\ Len(c) \in Nat
    BY BytesType DEF Candidate
  <2>3. Drop(c, 1) \in Bytes /\ Len(Drop(c, 1)) = Len(c) - 1
    BY <2>2, DropType
  <2>4. Found(c) = <<>>
    BY <1>2 DEF Found
  <2> QED BY <2>1, <2>2, <2>3, <2>4
<1> QED BY <1>1, <1>2

Scanned == [buf : Bytes, out : Seq(Bytes)]

\* The loop stops at b.
Stops(b) == Starts(b) = {} \/ Waits(FromStart(b))

LEMMA ScanDef ==
  /\ Scan \in [Bytes -> Scanned]
  /\ \A b \in Bytes : Starts(b) = {} => Scan[b] = [buf |-> b, out |-> <<>>]
  /\ \A b \in Bytes :
       Starts(b) # {} /\ Waits(FromStart(b)) => Scan[b] = [buf |-> FromStart(b), out |-> <<>>]
  /\ \A b \in Bytes :
       ~Stops(b)
         => Scan[b] = [buf |-> Scan[Rest(FromStart(b))].buf,
                       out |-> Found(FromStart(b)) \o Scan[Rest(FromStart(b))].out]
<1> DEFINE Body(g, b) ==
             IF Starts(b) = {} THEN [buf |-> b, out |-> <<>>]
             ELSE IF Waits(FromStart(b)) THEN [buf |-> FromStart(b), out |-> <<>>]
             ELSE [buf |-> g[Rest(FromStart(b))].buf,
                   out |-> Found(FromStart(b)) \o g[Rest(FromStart(b))].out]
           e == [b \in Bytes |-> [buf |-> IF Starts(b) = {} THEN b ELSE FromStart(b),
                                  out |-> <<>>]]
           d == [b \in Bytes |-> IF Stops(b) THEN b ELSE Rest(FromStart(b))]
           h == [z \in Bytes \X Scanned |->
                   IF Stops(z[1]) THEN e[z[1]]
                   ELSE [buf |-> z[2].buf, out |-> Found(FromStart(z[1])) \o z[2].out]]
<1>1. ASSUME NEW b \in Bytes, Starts(b) # {}
      PROVE  /\ FromStart(b) \in Bytes
             /\ Rest(FromStart(b)) \in Bytes /\ Len(Rest(FromStart(b))) < Len(b)
             /\ Found(FromStart(b)) \in Seq(Bytes)
  <2> DEFINE c == FromStart(b)
  <2>1. Candidate(c) /\ Len(c) <= Len(b)
    BY <1>1, FromStartIs
  <2>2. c \in Bytes
    BY <2>1 DEF Candidate
  <2> HIDE DEF c
  <2>3. Rest(c) \in Bytes /\ Len(Rest(c)) < Len(c) /\ Found(c) \in Seq(Bytes)
    BY <2>1, StepOn
  <2>4. Len(Rest(c)) < Len(b)
    BY <2>1, <2>2, <2>3, BytesType
  <2> QED BY <2>2, <2>3, <2>4 DEF c
<1>2. \E f \in [Bytes -> Scanned] : IsLoop(f, Bytes, Size, e, d, h)
  <2>1. e \in [Bytes -> Scanned]
    BY <1>1 DEF Scanned
  <2>2. d \in [Bytes -> Bytes]
    BY <1>1 DEF Stops
  <2>3. h \in [Bytes \X Scanned -> Scanned]
    <3>1. ASSUME NEW b \in Bytes, NEW g \in Scanned, ~Stops(b)
          PROVE  [buf |-> g.buf, out |-> Found(FromStart(b)) \o g.out] \in Scanned
      <4>1. Found(FromStart(b)) \in Seq(Bytes) /\ g.buf \in Bytes /\ g.out \in Seq(Bytes)
        BY <1>1, <3>1 DEF Stops, Scanned
      <4>2. Found(FromStart(b)) \o g.out \in Seq(Bytes)
        BY <4>1
      <4> QED BY <4>1, <4>2 DEF Scanned
    <3> HIDE DEF e
    <3> QED BY <2>1, <3>1
  <2> HIDE DEF e, d, h
  <2> QED BY <2>1, <2>2, <2>3, SizeType, LoopExists
<1>3. PICK f \in [Bytes -> Scanned] :
        \A b \in Bytes : f[b] = IF Size[d[b]] < Size[b] THEN h[<<b, f[d[b]]>>] ELSE e[b]
  <2> HIDE DEF e, d, h
  <2> QED BY <1>2 DEF IsLoop
<1>4. ASSUME NEW b \in Bytes PROVE f[b] = Body(f, b)
  <2>1. CASE Stops(b)
    <3>1. ~(Size[d[b]] < Size[b])
      <4>1. d[b] = b /\ Size[b] \in Nat
        BY <2>1, SizeType
      <4> QED BY <4>1
    <3>2. f[b] = e[b]
      <4> HIDE DEF d, e, h
      <4> QED BY <1>3, <3>1
    <3> QED BY <2>1, <3>2 DEF Stops
  <2>2. CASE ~Stops(b)
    <3> DEFINE k == Rest(FromStart(b))
    <3>1. k \in Bytes /\ f[k] \in Scanned
      BY <1>1, <2>2 DEF Stops
    <3>2. d[b] = k /\ f[b] = h[<<b, f[d[b]]>>]
      <4>1. d[b] = k /\ Size[d[b]] < Size[b]
        BY <1>1, <2>2, SizeType DEF Stops
      <4> HIDE DEF d, h, k
      <4> QED BY <1>3, <4>1
    <3>3. h[<<b, f[k]>>] = [buf |-> f[k].buf, out |-> Found(FromStart(b)) \o f[k].out]
      <4> HIDE DEF k, e
      <4> QED BY <2>2, <3>1
    <3>4. f[b] = [buf |-> f[k].buf, out |-> Found(FromStart(b)) \o f[k].out]
      <4> HIDE DEF d, h, k
      <4> QED BY <3>2, <3>3
    <3> QED BY <2>2, <3>4 DEF Stops
  <2> QED BY <2>1, <2>2
<1>5. f = [b \in Bytes |-> Body(f, b)]
  <2> HIDE DEF Body
  <2> QED BY <1>4
<1>6. Scan = [b \in Bytes |-> Body(Scan, b)]
  <2>1. \E g : g = [b \in Bytes |-> Body(g, b)]
    BY <1>5
  <2> QED BY <2>1 DEF Scan
<1>7. ASSUME NEW b \in Bytes PROVE Scan[b] = Body(Scan, b)
  <2> HIDE DEF Body
  <2> QED BY <1>6
<1>8. \A b \in Bytes : Scan[b] \in Scanned
  <2> DEFINE T == {b \in Bytes : Scan[b] \notin Scanned}
  <2> SUFFICES ASSUME T # {} PROVE FALSE
    OBVIOUS
  <2>1. PICK b \in T : \A t \in Bytes : Len(t) < Len(b) => t \notin T
    <3>1. T \subseteq Bytes
      OBVIOUS
    <3> HIDE DEF T
    <3> QED BY <3>1, Shortest
  <2>2. b \in Bytes /\ Scan[b] \notin Scanned
    BY <2>1
  <2>3. CASE Stops(b)
    <3> DEFINE k == IF Starts(b) = {} THEN b ELSE FromStart(b)
    <3>1. Scan[b] = [buf |-> k, out |-> <<>>]
      BY <1>7, <2>2, <2>3 DEF Stops
    <3>2. k \in Bytes
      BY <1>1, <2>2
    <3> HIDE DEF k
    <3> QED BY <2>2, <3>1, <3>2 DEF Scanned
  <2>4. CASE ~Stops(b)
    <3> DEFINE k == Rest(FromStart(b))
               p == Found(FromStart(b))
    <3>1. k \in Bytes /\ Len(k) < Len(b) /\ p \in Seq(Bytes)
      BY <1>1, <2>2, <2>4 DEF Stops
    <3>2. Scan[k] \in Scanned
      <4> HIDE DEF k
      <4> QED BY <2>1, <3>1
    <3>3. Scan[b] = [buf |-> Scan[k].buf, out |-> p \o Scan[k].out]
      BY <1>7, <2>2, <2>4 DEF Stops
    <3> HIDE DEF k, p
    <3>4. Scan[k].buf \in Bytes /\ Scan[k].out \in Seq(Bytes)
      BY <3>2 DEF Scanned
    <3>5. p \o Scan[k].out \in Seq(Bytes)
      BY <3>1, <3>4
    <3> QED BY <2>2, <3>3, <3>4, <3>5 DEF Scanned
  <2> QED BY <2>3, <2>4
<1>9. Scan \in [Bytes -> Scanned]
  <2> HIDE DEF Body
  <2>1. Scan = [b \in Bytes |-> Scan[b]]
    BY <1>6
  <2> QED BY <1>8, <2>1
<1> QED BY <1>7, <1>9 DEF Stops

LEMMA ScanType ==
  ASSUME NEW b \in Bytes
  PROVE  Scan[b] \in Scanned /\ Scan[b].buf \in Bytes /\ Scan[b].out \in Seq(Bytes)
BY ScanDef DEF Scanned

\* The steps of the loop at a candidate.
LEMMA ScanAt ==
  ASSUME NEW b \in Bytes, Starts(b) # {}
  PROVE  Scan[b] = Scan[FromStart(b)]
<1> DEFINE c == FromStart(b)
<1>1. Candidate(c) /\ c \in Bytes
  BY FromStartIs DEF Candidate
<1>2. Starts(c) # {} /\ FromStart(c) = c
  BY <1>1, FromStartCandidate
<1>3. Stops(b) <=> Stops(c)
  BY <1>2 DEF Stops
<1>4. CASE Stops(b)
  BY <1>1, <1>2, <1>3, <1>4, ScanDef DEF Stops
<1>5. CASE ~Stops(b)
  BY <1>1, <1>2, <1>3, <1>5, ScanDef
<1> QED BY <1>4, <1>5

LEMMA ScanStep ==
  ASSUME NEW c, Candidate(c), ~Waits(c)
  PROVE  /\ Scan[c].buf = Scan[Rest(c)].buf
         /\ Scan[c].out = Found(c) \o Scan[Rest(c)].out
<1>1. c \in Bytes /\ Starts(c) # {} /\ FromStart(c) = c
  BY FromStartCandidate DEF Candidate
<1>2. ~Stops(c)
  BY <1>1 DEF Stops
<1>3. Scan[c] = [buf |-> Scan[Rest(c)].buf, out |-> Found(c) \o Scan[Rest(c)].out]
  BY <1>1, <1>2, ScanDef
<1> QED BY <1>3

LEMMA ScanWaits ==
  ASSUME NEW c, Candidate(c), Waits(c)
  PROVE  Scan[c].buf = c /\ Scan[c].out = <<>>
BY FromStartCandidate, ScanDef DEF Candidate

\* What is left waits for more, or has no start of a frame in it.
LEMMA ScanLeft ==
  ASSUME NEW x \in Bytes
  PROVE  \/ Starts(Scan[x].buf) = {}
         \/ Candidate(Scan[x].buf) /\ Waits(Scan[x].buf)
<1> DEFINE Right(b) == \/ Starts(Scan[b].buf) = {}
                       \/ Candidate(Scan[b].buf) /\ Waits(Scan[b].buf)
           T == {b \in Bytes : ~Right(b)}
<1> SUFFICES ASSUME T # {} PROVE FALSE
  OBVIOUS
<1>1. PICK b \in T : \A t \in Bytes : Len(t) < Len(b) => t \notin T
  <2>1. T \subseteq Bytes
    OBVIOUS
  <2> HIDE DEF T
  <2> QED BY <2>1, Shortest
<1>2. b \in Bytes /\ ~Right(b)
  BY <1>1
<1>3. Starts(b) # {}
  BY <1>2, ScanDef
<1> DEFINE c == FromStart(b)
<1>4. Candidate(c) /\ Len(c) <= Len(b) /\ Scan[b] = Scan[c]
  BY <1>2, <1>3, FromStartIs, ScanAt
<1> HIDE DEF c
<1>5. ~Waits(c)
  BY <1>2, <1>4, ScanWaits
<1>6. Rest(c) \in Bytes /\ Len(Rest(c)) < Len(c) /\ Scan[c].buf = Scan[Rest(c)].buf
  BY <1>4, <1>5, StepOn, ScanStep
<1>7. Len(Rest(c)) < Len(b)
  BY <1>2, <1>4, <1>6, BytesType DEF Candidate
<1>8. Right(Rest(c))
  BY <1>1, <1>6, <1>7
<1> QED BY <1>2, <1>4, <1>6, <1>8

-----------------------------------------------------------------------------
(***************************************************************************)
(* Chunks.                                                                 *)
(***************************************************************************)

LEMMA ExtendCandidate ==
  ASSUME NEW c, Candidate(c), NEW x \in Bytes
  PROVE  Candidate(Cat(c, x)) /\ Cat(c, x)[2] = c[2] /\ Len(Cat(c, x)) >= Len(c)
<1>1. c \in Bytes /\ Len(c) \in Nat /\ Len(x) \in Nat /\ Len(c) >= 2
  BY BytesType DEF Candidate
<1>2. 1 \in 1 .. Len(c) + Len(x) /\ 2 \in 1 .. Len(c) + Len(x)
  BY <1>1
<1>3. Cat(c, x) \in Bytes /\ Len(Cat(c, x)) = Len(c) + Len(x)
  BY <1>1, CatType
<1>4. Cat(c, x)[1] = c[1] /\ Cat(c, x)[2] = c[2]
  <2>1. 1 <= Len(c) /\ 2 <= Len(c)
    BY <1>1
  <2> QED BY <1>1, <1>2, <2>1, CatAt
<1>5. Len(Cat(c, x)) >= Len(c) /\ Len(Cat(c, x)) >= 2
  BY <1>1, <1>3
<1> QED BY <1>3, <1>4, <1>5 DEF Candidate

\* A stump that is long enough to be a frame, and is none, never becomes one: its
\* data have ended.
LEMMA StumpStays ==
  ASSUME NEW c, Candidate(c), c[2] \in Types, ~Whole(c), ~MayGrow(c), NEW x \in Bytes
  PROVE  ~Whole(Cat(c, x))
<1>1. PICK t \in Bytes : c = Cons(Esc, t) /\ t # <<>> /\ Tail(c) = t /\ Len(c) = Len(t) + 1
  BY CandidateParts
<1> DEFINE u == Unescape[t]
           m == MinLen[c[2]]
<1>2. PICK r \in Bytes : t = Cat(Escaped[u], r) /\ DataEnds(r)
  BY Parse
<1>3. u \in Bytes /\ Data(c) = u /\ Escaped[u] \in Bytes
  BY <1>1, UnescapeType, EscapedType DEF Data
<1> HIDE DEF u
<1>4. Len(r) > 1
  <2>1. Len(u) + 1 < m /\ Len(c) >= 2 * m
    <3>1. m \in Nat /\ Len(u) \in Nat /\ Len(c) \in Nat
      BY <1>3, BytesType, FramingAssumption DEF Candidate
    <3> QED BY <1>3, <3>1 DEF Whole, MayGrow
  <2>2. Len(t) = Len(Escaped[u]) + Len(r)
    BY <1>2, <1>3, CatType
  <2>3. Len(Escaped[u]) \in Nat /\ Len(Escaped[u]) <= 2 * Len(u)
    BY <1>3, EscapedLength
  <2>4. m \in Nat /\ Len(u) \in Nat /\ Len(r) \in Nat /\ Len(t) \in Nat
    BY <1>3, BytesType, FramingAssumption
  <2> HIDE DEF m
  <2> QED BY <1>1, <2>1, <2>2, <2>3, <2>4
<1> DEFINE s == Cat(r, x)
<1>5. s \in Bytes /\ DataEnds(s)
  <2>1. r # <<>> /\ Len(r) # 1 /\ Len(r) \in Nat /\ Len(x) \in Nat
    BY <1>4, NilType, BytesType
  <2>2. r[2] # Esc /\ Head(r) = Esc
    BY <1>2, <2>1 DEF DataEnds
  <2>3. PICK b \in Byte, q \in Bytes : r = Cons(b, q) /\ Len(q) = Len(r) - 1
    BY <2>1, ConsCases
  <2>4. b = Esc /\ s = Cons(b, Cat(q, x)) /\ Cat(q, x) \in Bytes
    <3>1. b = Esc
      BY <2>2, <2>3, ConsType
    <3>2. s = Cons(b, Cat(q, x))
      BY <2>3, ConsCat
    <3> QED BY <3>1, <3>2, CatType
  <2>5. s \in Bytes /\ s # <<>> /\ Head(s) = Esc
    BY <2>4, ConsType
  <2>6. s[2] = r[2]
    <3>1. 2 \in 1 .. Len(r) + Len(x) /\ 2 <= Len(r)
      BY <1>4, <2>1
    <3> QED BY <3>1, CatAt
  <2> HIDE DEF s
  <2> QED BY <2>2, <2>5, <2>6 DEF DataEnds
<1>6. Tail(Cat(c, x)) = Cat(t, x)
  <2>1. Cat(c, x) = Cons(Esc, Cat(t, x)) /\ Cat(t, x) \in Bytes
    BY <1>1, ConsCat, CatType, FramingAssumption
  <2> QED BY <2>1, ConsType, FramingAssumption
<1>7. Cat(t, x) = Cat(Escaped[u], s)
  BY <1>2, <1>3, CatAssociative
<1>8. Data(Cat(c, x)) = Data(c)
  <2>1. Unescape[Cat(Escaped[u], s)] = Cat(u, Unescape[s])
    BY <1>3, <1>5, UnescapeCat
  <2>2. Unescape[s] = <<>>
    BY <1>5, UnescapeType
  <2> HIDE DEF s
  <2>3. Unescape[Cat(t, x)] = u
    BY <1>3, <1>7, <2>1, <2>2, CatNil
  <2> QED BY <1>3, <1>6, <2>3 DEF Data
<1> QED BY <1>8, ExtendCandidate DEF Whole

LEMMA ExtendStep ==
  ASSUME NEW c, Candidate(c), ~Waits(c), NEW x \in Bytes
  PROVE  /\ ~Waits(Cat(c, x)) /\ Found(Cat(c, x)) = Found(c)
         /\ Rest(Cat(c, x)) = Cat(Rest(c), x)
<1> DEFINE e == Cat(c, x)
<1>1. Candidate(e) /\ e[2] = c[2] /\ Len(e) >= Len(c) /\ Len(e) \in Nat /\ Len(c) \in Nat
  BY ExtendCandidate, BytesType DEF Candidate
<1>2. CASE Whole(c)
  <2>1. PICK v, r \in Bytes : /\ c = Cons(Esc, Cat(Escaped[v], r)) /\ v # <<>>
                              /\ v[1] = c[2] /\ Len(v) = MinLen[v[1]] - 1
    BY <1>2, WholeIs
  <2>2. v[1] \in Types
    BY <1>2, <2>1 DEF Whole
  <2>3. Rest(c) = r /\ Payload(c) = Tail(v)
    BY <2>1, <2>2, WholeIf
  <2>4. e = Cons(Esc, Cat(Escaped[v], Cat(r, x))) /\ Cat(r, x) \in Bytes
    <3> DEFINE ev == Escaped[v]
               t == Cat(ev, r)
    <3>1. ev \in Bytes /\ t \in Bytes /\ c = Cons(Esc, t) /\ Cat(r, x) \in Bytes
      BY <2>1, EscapedType, CatType
    <3>2. Cat(t, x) = Cat(ev, Cat(r, x))
      BY <3>1, CatAssociative
    <3> HIDE DEF ev, t
    <3>3. e = Cons(Esc, Cat(t, x))
      BY <3>1, ConsCat, FramingAssumption
    <3> QED BY <3>1, <3>2, <3>3 DEF ev
  <2> HIDE DEF e
  <2>5. Whole(e) /\ Rest(e) = Cat(r, x) /\ Payload(e) = Tail(v)
    BY <2>1, <2>2, <2>4, WholeIf
  <2>6. Found(e) = Found(c)
    BY <1>1, <1>2, <2>3, <2>5 DEF Found
  <2>7. ~Waits(e)
    BY <2>5 DEF Waits
  <2> QED BY <2>3, <2>5, <2>6, <2>7 DEF e
<1>3. CASE ~Whole(c)
  <2>1. ~Whole(e) /\ ~Waits(e)
    <3>1. CASE c[2] \notin Types
      BY <1>1, <3>1 DEF Whole, Waits
    <3>2. CASE c[2] \in Types
      <4>1. ~MayGrow(c)
        BY <1>3, <3>2 DEF Waits
      <4>2. ~Whole(e)
        BY <1>3, <3>2, <4>1, StumpStays
      <4>3. ~MayGrow(e)
        <5> DEFINE m == MinLen[c[2]]
        <5>1. m \in Nat /\ ~(Len(c) < 2 * m)
          BY <3>2, <4>1, FramingAssumption DEF MayGrow
        <5> HIDE DEF e, m
        <5>2. ~(Len(e) < 2 * m)
          BY <1>1, <5>1
        <5> QED BY <1>1, <5>2 DEF MayGrow, m
      <4> QED BY <4>2, <4>3 DEF Waits
    <3> QED BY <3>1, <3>2
  <2>2. PICK t \in Bytes : c = Cons(Esc, t)
    BY CandidateParts
  <2>3. \A s \in Bytes : Drop(Cons(Esc, s), 1) = s
    BY FramingAssumption DEF Cons, Bytes, Drop
  <2>4. Rest(c) = t
    BY <1>3, <2>2, <2>3 DEF Rest
  <2>5. Cat(t, x) \in Bytes /\ e = Cons(Esc, Cat(t, x))
    BY <2>2, CatType, ConsCat, FramingAssumption
  <2> HIDE DEF e
  <2>6. Rest(e) = Cat(t, x)
    BY <2>1, <2>3, <2>5 DEF Rest
  <2>7. Found(c) = <<>> /\ Found(e) = <<>>
    BY <1>3, <2>1 DEF Found
  <2> QED BY <2>1, <2>4, <2>6, <2>7 DEF e
<1> QED BY <1>2, <1>3

LEMMA OutAssociative ==
  ASSUME NEW o \in Seq(Bytes), NEW p \in Seq(Bytes), NEW q \in Seq(Bytes)
  PROVE  (o \o p) \o q = o \o (p \o q) /\ o \o p \in Seq(Bytes)
OBVIOUS

LEMMA OutNil ==
  ASSUME NEW o \in Seq(Bytes)
  PROVE  <<>> \o o = o /\ o \o <<>> = o /\ <<>> \in Seq(Bytes)
OBVIOUS

\* A buffer without a start stays as it is.
LEMMA ScanNoStart ==
  ASSUME NEW b \in Bytes, Starts(b) = {}
  PROVE  Scan[b].buf = b /\ Scan[b].out = <<>>
<1>1. \A t \in Bytes : Starts(t) = {} => Scan[t] = [buf |-> t, out |-> <<>>]
  BY ScanDef
<1>2. Scan[b] = [buf |-> b, out |-> <<>>]
  BY <1>1
<1> QED BY <1>2

LEMMA ScanNil == Scan[<<>>] = [buf |-> <<>>, out |-> <<>>] /\ Starts(<<>>) = {}
<1>1. Starts(<<>>) = {} /\ <<>> \in Bytes
  BY NilType DEF Starts
<1> QED BY <1>1, ScanDef

\* What is made of a stream does not depend on how it was cut.
LEMMA ScanCat ==
  ASSUME NEW a \in Bytes, NEW x \in Bytes
  PROVE  /\ Scan[Cat(a, x)].buf = Scan[Cat(Scan[a].buf, x)].buf
         /\ Scan[Cat(a, x)].out = Scan[a].out \o Scan[Cat(Scan[a].buf, x)].out
<1> DEFINE Right(b) ==
             /\ Scan[Cat(b, x)].buf = Scan[Cat(Scan[b].buf, x)].buf
             /\ Scan[Cat(b, x)].out = Scan[b].out \o Scan[Cat(Scan[b].buf, x)].out
           T == {b \in Bytes : ~Right(b)}
<1> SUFFICES ASSUME T # {} PROVE FALSE
  OBVIOUS
<1>1. PICK b \in T : \A t \in Bytes : Len(t) < Len(b) => t \notin T
  <2>1. T \subseteq Bytes
    OBVIOUS
  <2> HIDE DEF T
  <2> QED BY <2>1, Shortest
<1>2. b \in Bytes /\ ~Right(b) /\ Cat(b, x) \in Bytes
  BY <1>1, CatType
<1>3. Scan[Cat(b, x)].out \in Seq(Bytes)
  BY <1>2, ScanType
<1>4. Starts(b) # {}
  <2> SUFFICES ASSUME Starts(b) = {} PROVE FALSE
    OBVIOUS
  <2>1. Scan[b].buf = b /\ Scan[b].out = <<>>
    BY <1>2, ScanNoStart
  <2>2. <<>> \o Scan[Cat(b, x)].out = Scan[Cat(b, x)].out
    BY <1>3, OutNil
  <2> QED BY <1>2, <2>1, <2>2
<1> DEFINE c == FromStart(b)
           e == Cat(c, x)
<1>5. /\ Candidate(c) /\ Len(c) <= Len(b) /\ Scan[b] = Scan[c]
      /\ Starts(Cat(b, x)) # {} /\ FromStart(Cat(b, x)) = e
  BY <1>2, <1>4, FromStartIs, ScanAt
<1>6. Scan[Cat(b, x)] = Scan[e]
  BY <1>2, <1>5, ScanAt
<1> HIDE DEF c, e
<1>7. ~Waits(c)
  <2> SUFFICES ASSUME Waits(c) PROVE FALSE
    OBVIOUS
  <2>1. Scan[b].buf = c /\ Scan[b].out = <<>>
    BY <1>5, ScanWaits
  <2>2. Scan[Cat(Scan[b].buf, x)] = Scan[Cat(b, x)]
    BY <1>6, <2>1 DEF e
  <2>3. <<>> \o Scan[Cat(b, x)].out = Scan[Cat(b, x)].out
    BY <1>3, OutNil
  <2> QED BY <1>2, <2>1, <2>2, <2>3
<1> DEFINE k == Rest(c)
<1>8. /\ k \in Bytes /\ Len(k) < Len(c) /\ Found(c) \in Seq(Bytes)
      /\ Scan[c].buf = Scan[k].buf /\ Scan[c].out = Found(c) \o Scan[k].out
  BY <1>5, <1>7, StepOn, ScanStep
<1>9. Candidate(e) /\ ~Waits(e) /\ Found(e) = Found(c) /\ Rest(e) = Cat(k, x)
  BY <1>5, <1>7, ExtendCandidate, ExtendStep DEF e
<1>10. Scan[e].buf = Scan[Cat(k, x)].buf /\ Scan[e].out = Found(c) \o Scan[Cat(k, x)].out
  BY <1>9, ScanStep
<1> HIDE DEF k
<1>11. Right(k)
  <2>1. Len(k) < Len(b)
    <3>1. Len(k) \in Nat /\ Len(c) \in Nat /\ Len(b) \in Nat
      <4>1. c \in Bytes
        BY <1>5 DEF Candidate
      <4> QED BY <1>2, <1>8, <4>1, BytesType
    <3>2. Len(k) < Len(c) /\ Len(c) <= Len(b)
      BY <1>5, <1>8
    <3> HIDE DEF T, Right
    <3> QED BY <3>1, <3>2
  <2> QED BY <1>1, <1>8, <2>1
<1> DEFINE y == Cat(Scan[k].buf, x)
<1>12. /\ Scan[Cat(b, x)].buf = Scan[y].buf
       /\ Scan[Cat(b, x)].out = Found(c) \o (Scan[k].out \o Scan[y].out)
  BY <1>6, <1>10, <1>11
<1>13. Scan[b].buf = Scan[k].buf /\ Scan[b].out = Found(c) \o Scan[k].out
  BY <1>5, <1>8
<1>14. y = Cat(Scan[b].buf, x)
  BY <1>13
<1>15. Scan[k].out \in Seq(Bytes) /\ Scan[y].out \in Seq(Bytes)
  BY <1>8, ScanType, CatType
<1> HIDE DEF y
<1>16. (Found(c) \o Scan[k].out) \o Scan[y].out = Found(c) \o (Scan[k].out \o Scan[y].out)
  <2> DEFINE o == Found(c)
             p == Scan[k].out
             q == Scan[y].out
  <2>1. o \in Seq(Bytes)
    BY <1>8
  <2>2. p \in Seq(Bytes) /\ q \in Seq(Bytes)
    BY <1>15
  <2> HIDE DEF o, p, q
  <2>3. (o \o p) \o q = o \o (p \o q)
    BY <2>1, <2>2, OutAssociative
  <2> QED BY <2>3 DEF o, p, q
<1>17. Scan[Cat(b, x)].out = Scan[b].out \o Scan[y].out
  BY <1>12, <1>13, <1>16
<1> QED BY <1>2, <1>12, <1>14, <1>17

-----------------------------------------------------------------------------
(***************************************************************************)
(* Where the messages come from.                                           *)
(***************************************************************************)

LEMMA CatMid ==
  ASSUME NEW p \in Bytes, NEW e \in Bytes, NEW q \in Bytes, NEW o \in 1 .. Len(e)
  PROVE  /\ Len(p) + o \in 1 .. Len(Cat(p, Cat(e, q)))
         /\ Cat(p, Cat(e, q))[Len(p) + o] = e[o]
<1> DEFINE t == Cat(e, q)
<1>1. t \in Bytes /\ Len(t) = Len(e) + Len(q) /\ t[o] = e[o]
  <2>1. o \in 1 .. Len(e) + Len(q) /\ o <= Len(e)
    BY BytesType
  <2> QED BY <2>1, CatType, CatAt
<1>2. Len(e) \in Nat /\ Len(q) \in Nat /\ Len(p) \in Nat /\ o \in Nat
  BY BytesType
<1> HIDE DEF t
<1>3. Len(Cat(p, t)) = Len(p) + Len(t)
  BY <1>1, CatType
<1> DEFINE k == Len(p) + o
<1>4. k \in 1 .. Len(p) + Len(t) /\ ~(k <= Len(p)) /\ k - Len(p) = o
  BY <1>1, <1>2
<1> HIDE DEF k
<1>5. Cat(p, t)[k] = t[k - Len(p)]
  BY <1>1, <1>4, CatAt
<1> QED BY <1>1, <1>3, <1>4, <1>5 DEF t, k

\* A long message in the stream.
Message(p) == Cons(Esc, Escaped[Cons(Long, p)])

LEMMA LongType == Long \in Types /\ Long \in Byte /\ Esc \in Byte /\ Long # Esc
BY FramingAssumption

LEMMA MessageType ==
  ASSUME NEW p \in Bytes
  PROVE  Message(p) \in Bytes /\ Escaped[Cons(Long, p)] \in Bytes /\ Cons(Long, p) \in Bytes
BY LongType, ConsType, EscapedType DEF Message

\* One step of the loop: it leaves p behind, takes e, and goes on with r.
LEMMA OutStep ==
  ASSUME NEW b \in Bytes, Scan[b].out # <<>>
  PROVE  \E p, e, r \in Bytes :
           /\ b = Cat(p, Cat(e, r)) /\ Len(r) < Len(b)
           /\ \/ Scan[b].out = Scan[r].out
              \/ \E m \in Bytes : e = Message(m) /\ Scan[b].out = <<m>> \o Scan[r].out
<1>1. Starts(b) # {}
  <2> SUFFICES ASSUME Starts(b) = {} PROVE FALSE
    OBVIOUS
  <2>1. Scan[b] = [buf |-> b, out |-> <<>>]
    BY ScanDef
  <2> QED BY <2>1
<1> DEFINE c == FromStart(b)
<1>2. Candidate(c) /\ Len(c) <= Len(b) /\ Scan[b] = Scan[c]
  BY <1>1, FromStartIs, ScanAt
<1>3. PICK p \in Bytes : b = Cat(p, c)
  BY <1>1, FromStartIs
<1> HIDE DEF c
<1>4. ~Waits(c)
  BY <1>2, ScanWaits
<1>5. /\ Rest(c) \in Bytes /\ Len(Rest(c)) < Len(c)
      /\ Scan[c].out = Found(c) \o Scan[Rest(c)].out
  BY <1>2, <1>4, StepOn, ScanStep
<1>6. Scan[Rest(c)].out \in Seq(Bytes)
  BY <1>5, ScanType
<1>7. Len(Rest(c)) < Len(b)
  <2>1. Len(Rest(c)) \in Nat /\ Len(c) \in Nat /\ Len(b) \in Nat
    BY <1>2, <1>5, BytesType DEF Candidate
  <2> QED BY <1>2, <1>5, <2>1
<1>8. CASE Whole(c)
  <2>1. PICK v, r \in Bytes : /\ c = Cons(Esc, Cat(Escaped[v], r)) /\ v # <<>>
                              /\ v[1] = c[2] /\ Len(v) = MinLen[v[1]] - 1
    BY <1>2, <1>8, WholeIs
  <2>2. v[1] \in Types
    BY <1>8, <2>1 DEF Whole
  <2>3. Rest(c) = r /\ Payload(c) = Tail(v)
    BY <2>1, <2>2, WholeIf
  <2> DEFINE e == Cons(Esc, Escaped[v])
  <2>4. e \in Bytes /\ c = Cat(e, r)
    <3> DEFINE ev == Escaped[v]
    <3>1. ev \in Bytes /\ c = Cons(Esc, Cat(ev, r))
      BY <2>1, EscapedType
    <3> HIDE DEF ev
    <3>2. Cons(Esc, ev) \in Bytes /\ c = Cat(Cons(Esc, ev), r)
      BY <3>1, ConsType, ConsCat, LongType
    <3> QED BY <3>2 DEF ev
  <2>5. CASE c[2] = Long
    <3>1. PICK t \in Byte, m \in Bytes : v = Cons(t, m)
      BY <2>1, ConsCases
    <3>2. t = Long /\ Tail(v) = m
      BY <2>1, <2>5, <3>1, ConsType
    <3>3. e = Message(m)
      BY <3>1, <3>2 DEF Message
    <3>4. Found(c) = <<m>>
      BY <1>8, <2>3, <2>5, <3>2 DEF Found
    <3> HIDE DEF e
    <3> QED BY <1>2, <1>3, <1>5, <1>7, <2>3, <2>4, <3>3, <3>4
  <2>6. CASE c[2] # Long
    <3>1. Found(c) = <<>>
      BY <2>6 DEF Found
    <3>2. Scan[b].out = Scan[r].out
      BY <1>2, <1>5, <1>6, <2>3, <3>1, OutNil
    <3> HIDE DEF e
    <3> QED BY <1>3, <1>7, <2>3, <2>4, <3>2
  <2> QED BY <2>5, <2>6
<1>9. CASE ~Whole(c)
  <2> DEFINE e == Cons(Esc, <<>>)
  <2>1. PICK r \in Bytes : c = Cons(Esc, r)
    BY <1>2, CandidateParts
  <2>2. e \in Bytes /\ c = Cat(e, r)
    BY <2>1, NilType, ConsType, ConsCat, CatNil, LongType
  <2>3. Rest(c) = r
    <3>1. Drop(Cons(Esc, r), 1) = r
      BY LongType DEF Cons, Bytes, Drop
    <3> QED BY <1>9, <2>1, <3>1 DEF Rest
  <2>4. Found(c) = <<>>
    BY <1>9 DEF Found
  <2>5. Scan[b].out = Scan[r].out
    BY <1>2, <1>5, <1>6, <2>3, <2>4, OutNil
  <2> HIDE DEF e
  <2> QED BY <1>3, <1>7, <2>2, <2>3, <2>5
<1> QED BY <1>8, <1>9

LEMMA Prepend ==
  ASSUME NEW p \in Bytes, NEW e \in Bytes, NEW f \in Bytes, NEW r \in Bytes, NEW q \in Bytes
  PROVE  /\ Cat(p, Cat(e, Cat(f, Cat(r, q)))) = Cat(Cat(p, Cat(e, f)), Cat(r, q))
         /\ Cat(p, Cat(e, f)) \in Bytes
<1> DEFINE t == Cat(r, q)
<1>1. t \in Bytes
  BY CatType
<1> HIDE DEF t
<1>2. Cat(e, Cat(f, t)) = Cat(Cat(e, f), t) /\ Cat(e, f) \in Bytes
  BY <1>1, CatAssociative, CatType
<1>3. Cat(p, Cat(Cat(e, f), t)) = Cat(Cat(p, Cat(e, f)), t) /\ Cat(p, Cat(e, f)) \in Bytes
  BY <1>1, <1>2, CatAssociative, CatType
<1> QED BY <1>2, <1>3 DEF t

LEMMA ConsOut ==
  ASSUME NEW S, NEW m \in S, NEW o \in Seq(S), NEW k \in 1 .. Len(<<m>> \o o)
  PROVE  /\ (<<m>> \o o)[k] = IF k = 1 THEN m ELSE o[k - 1]
         /\ k # 1 => k - 1 \in 1 .. Len(o)
OBVIOUS

\* Every message the loop finds is in the stream.
LEMMA EachInStream ==
  ASSUME NEW x \in Bytes, NEW k \in 1 .. Len(Scan[x].out)
  PROVE  \E p, q \in Bytes : x = Cat(p, Cat(Message(Scan[x].out[k]), q))
<1> DEFINE Right(b) == \A j \in 1 .. Len(Scan[b].out) :
                         \E p, q \in Bytes : b = Cat(p, Cat(Message(Scan[b].out[j]), q))
           T == {b \in Bytes : ~Right(b)}
<1>1. T = {}
  <2> SUFFICES ASSUME T # {} PROVE FALSE
    OBVIOUS
  <2>1. PICK b \in T : \A t \in Bytes : Len(t) < Len(b) => t \notin T
    <3>1. T \subseteq Bytes
      OBVIOUS
    <3> HIDE DEF T
    <3> QED BY <3>1, Shortest
  <2>2. b \in Bytes /\ ~Right(b)
    BY <2>1
  <2>3. PICK j \in 1 .. Len(Scan[b].out) :
          ~ \E p, q \in Bytes : b = Cat(p, Cat(Message(Scan[b].out[j]), q))
    BY <2>2
  <2>4. Scan[b].out # <<>> /\ Scan[b].out \in Seq(Bytes)
    BY <2>2, <2>3, ScanType
  <2>5. PICK p, e, r \in Bytes :
           /\ b = Cat(p, Cat(e, r)) /\ Len(r) < Len(b)
           /\ \/ Scan[b].out = Scan[r].out
              \/ \E m \in Bytes : e = Message(m) /\ Scan[b].out = <<m>> \o Scan[r].out
    BY <2>2, <2>4, OutStep
  <2>6. Right(r) /\ Scan[r].out \in Seq(Bytes)
    BY <2>1, <2>5, ScanType
  <2>7. ASSUME NEW i \in 1 .. Len(Scan[r].out), Scan[b].out[j] = Scan[r].out[i] PROVE FALSE
    <3>1. PICK f, q \in Bytes : r = Cat(f, Cat(Message(Scan[r].out[i]), q))
      BY <2>6
    <3> DEFINE y == Message(Scan[r].out[i])
    <3>2. y \in Bytes
      BY <2>6, MessageType
    <3> DEFINE g == Cat(p, Cat(e, f))
    <3>3. Cat(p, Cat(e, Cat(f, Cat(y, q)))) = Cat(g, Cat(y, q)) /\ g \in Bytes
      <4> HIDE DEF y, T, Right
      <4> QED BY <3>2, Prepend
    <3> HIDE DEF g
    <3> QED BY <2>3, <2>5, <2>7, <3>1, <3>3
  <2>8. CASE Scan[b].out = Scan[r].out
    BY <2>3, <2>7, <2>8
  <2>9. CASE \E m \in Bytes : e = Message(m) /\ Scan[b].out = <<m>> \o Scan[r].out
    <3>1. PICK m \in Bytes : e = Message(m) /\ Scan[b].out = <<m>> \o Scan[r].out
      BY <2>9
    <3>2. /\ Scan[b].out[j] = IF j = 1 THEN m ELSE Scan[r].out[j - 1]
          /\ j # 1 => j - 1 \in 1 .. Len(Scan[r].out)
      <4> DEFINE o == Scan[r].out
      <4>1. o \in Seq(Bytes) /\ j \in 1 .. Len(<<m>> \o o)
        BY <2>3, <2>6, <3>1
      <4> HIDE DEF o
      <4>2. (<<m>> \o o)[j] = (IF j = 1 THEN m ELSE o[j - 1]) /\ (j # 1 => j - 1 \in 1 .. Len(o))
        BY <4>1, ConsOut
      <4> QED BY <3>1, <4>2 DEF o
    <3> QED BY <2>3, <2>5, <2>7, <3>1, <3>2
  <2> QED BY <2>5, <2>8, <2>9
<1> QED BY <1>1

LEMMA OutAt ==
  ASSUME NEW o \in Seq(Bytes), NEW i \in 1 .. Len(o)
  PROVE  o[i] \in Bytes
OBVIOUS

\* Two of them are there one behind the other.
LEMMA BothInStream ==
  ASSUME NEW x \in Bytes, NEW k \in 1 .. Len(Scan[x].out), NEW l \in 1 .. Len(Scan[x].out), k < l
  PROVE  \E p, q, z \in Bytes :
           x = Cat(p, Cat(Message(Scan[x].out[k]), Cat(q, Cat(Message(Scan[x].out[l]), z))))
<1> DEFINE In(b, m, n) == \E p, q, z \in Bytes :
                            b = Cat(p, Cat(Message(m), Cat(q, Cat(Message(n), z))))
           Right(b) == \A i, j \in 1 .. Len(Scan[b].out) :
                         i < j => In(b, Scan[b].out[i], Scan[b].out[j])
           T == {b \in Bytes : ~Right(b)}
<1>1. T = {}
  <2> SUFFICES ASSUME T # {} PROVE FALSE
    OBVIOUS
  <2>1. PICK b \in T : \A t \in Bytes : Len(t) < Len(b) => t \notin T
    <3>1. T \subseteq Bytes
      OBVIOUS
    <3> HIDE DEF T
    <3> QED BY <3>1, Shortest
  <2>2. b \in Bytes /\ ~Right(b)
    BY <2>1
  <2>3. PICK i \in 1 .. Len(Scan[b].out), j \in 1 .. Len(Scan[b].out) :
          i < j /\ ~In(b, Scan[b].out[i], Scan[b].out[j])
    BY <2>2
  <2>4. Scan[b].out # <<>> /\ Scan[b].out \in Seq(Bytes) /\ Len(Scan[b].out) \in Nat
    BY <2>2, <2>3, ScanType
  <2>5. PICK p, e, r \in Bytes :
           /\ b = Cat(p, Cat(e, r)) /\ Len(r) < Len(b)
           /\ \/ Scan[b].out = Scan[r].out
              \/ \E m \in Bytes : e = Message(m) /\ Scan[b].out = <<m>> \o Scan[r].out
    BY <2>2, <2>4, OutStep
  <2>6. Right(r) /\ Scan[r].out \in Seq(Bytes)
    BY <2>1, <2>5, ScanType
  <2>7. ASSUME NEW i1 \in 1 .. Len(Scan[r].out), NEW j1 \in 1 .. Len(Scan[r].out), i1 < j1,
               Scan[b].out[i] = Scan[r].out[i1], Scan[b].out[j] = Scan[r].out[j1]
        PROVE  FALSE
    <3> DEFINE y == Message(Scan[r].out[i1])
               w == Message(Scan[r].out[j1])
    <3>1. PICK f, q, z \in Bytes : r = Cat(f, Cat(y, Cat(q, Cat(w, z))))
      BY <2>6, <2>7
    <3>2. y \in Bytes /\ w \in Bytes
      <4> DEFINE o == Scan[r].out
      <4>1. o \in Seq(Bytes) /\ i1 \in 1 .. Len(o) /\ j1 \in 1 .. Len(o)
        BY <2>6
      <4> HIDE DEF o
      <4>2. o[i1] \in Bytes /\ o[j1] \in Bytes
        BY <4>1, OutAt
      <4>3. y \in Bytes
        BY <4>2, MessageType DEF o
      <4>4. w \in Bytes
        BY <4>2, MessageType DEF o
      <4> QED BY <4>3, <4>4
    <3> DEFINE g == Cat(p, Cat(e, f))
    <3>3. /\ Cat(p, Cat(e, Cat(f, Cat(y, Cat(q, Cat(w, z)))))) = Cat(g, Cat(y, Cat(q, Cat(w, z))))
          /\ g \in Bytes
      <4> HIDE DEF y, w, T, Right, In
      <4>1. Cat(w, z) \in Bytes
        BY <3>2, CatType
      <4>2. Cat(q, Cat(w, z)) \in Bytes
        BY <4>1, CatType
      <4> DEFINE t == Cat(q, Cat(w, z))
      <4>3. t \in Bytes /\ y \in Bytes
        BY <3>2, <4>2
      <4> HIDE DEF t
      <4>4. Cat(p, Cat(e, Cat(f, Cat(y, t)))) = Cat(g, Cat(y, t)) /\ g \in Bytes
        BY <4>3, Prepend
      <4> QED BY <4>4 DEF t
    <3> HIDE DEF g
    <3> QED BY <2>3, <2>5, <2>7, <3>1, <3>3
  <2>8. CASE Scan[b].out = Scan[r].out
    BY <2>3, <2>7, <2>8
  <2>9. CASE \E m \in Bytes : e = Message(m) /\ Scan[b].out = <<m>> \o Scan[r].out
    <3>1. PICK m \in Bytes : e = Message(m) /\ Scan[b].out = <<m>> \o Scan[r].out
      BY <2>9
    <3> DEFINE o == Scan[r].out
    <3>2. ASSUME NEW n \in 1 .. Len(Scan[b].out)
          PROVE  /\ Scan[b].out[n] = IF n = 1 THEN m ELSE o[n - 1]
                 /\ n # 1 => n - 1 \in 1 .. Len(o)
      <4>1. o \in Seq(Bytes) /\ n \in 1 .. Len(<<m>> \o o)
        BY <2>6, <3>1
      <4> HIDE DEF o
      <4>2. (<<m>> \o o)[n] = (IF n = 1 THEN m ELSE o[n - 1]) /\ (n # 1 => n - 1 \in 1 .. Len(o))
        BY <4>1, ConsOut
      <4> QED BY <3>1, <4>2 DEF o
    <3>3. j # 1 /\ j - 1 \in 1 .. Len(o) /\ Scan[b].out[j] = o[j - 1]
      <4>1. j # 1
        BY <2>3, <2>4
      <4> HIDE DEF o
      <4> QED BY <3>2, <4>1
    <3>4. CASE i = 1
      <4>1. Scan[b].out[i] = m
        BY <3>2, <3>4
      <4>2. PICK f, q \in Bytes : r = Cat(f, Cat(Message(o[j - 1]), q))
        BY <3>3, EachInStream
      <4> QED BY <2>3, <2>5, <3>1, <3>3, <4>1, <4>2
    <3>5. CASE i # 1
      <4>1. i - 1 \in 1 .. Len(o) /\ Scan[b].out[i] = o[i - 1] /\ i - 1 < j - 1
        <5>1. i - 1 < j - 1
          BY <2>3, <2>4
        <5> HIDE DEF o
        <5> QED BY <3>2, <3>5, <5>1
      <4> QED BY <2>7, <3>3, <4>1
    <3> QED BY <3>4, <3>5
  <2> QED BY <2>5, <2>8, <2>9
<1>2. Right(x)
  BY <1>1
<1> QED BY <1>2

-----------------------------------------------------------------------------
(***************************************************************************)
(* Frames, and what is done to the list of them.                           *)
(***************************************************************************)

Frame == [type : Byte, payload : Bytes, end : Nat, spoiled : BOOLEAN]

\* The length of a frame in the stream, and where it begins.
Length(f) == Len(Encode(f))
Begin(f) == f.end - Length(f)

LEMMA EncodeIs ==
  ASSUME NEW f, f.type \in Byte, f.payload \in Bytes
  PROVE  /\ Encode(f) = Cons(Esc, Escaped[Cons(f.type, f.payload)])
         /\ Encode(f) \in Bytes /\ Length(f) \in Nat /\ Length(f) >= 2
         /\ Cons(f.type, f.payload) \in Bytes
<1> DEFINE p == Cons(f.type, f.payload)
<1>1. p \in Bytes /\ Len(p) = Len(f.payload) + 1
  BY ConsType
<1>2. Encode(f) = Cons(Esc, Escaped[p])
  BY DEF Encode, Cons
<1> HIDE DEF p
<1>3. Len(p) >= 1 /\ Len(p) \in Nat
  BY <1>1, BytesType
<1>4. Escaped[p] \in Bytes /\ Len(Escaped[p]) \in Nat /\ Len(Escaped[p]) >= 1
  BY <1>1, <1>3, EscapedType, EscapedLength
<1>5. Encode(f) \in Bytes /\ Len(Encode(f)) = Len(Escaped[p]) + 1
  BY <1>2, <1>4, LongType, ConsType
<1> QED BY <1>1, <1>2, <1>4, <1>5 DEF p, Length

LEMMA FrameEncode ==
  ASSUME NEW f \in Frame
  PROVE  /\ f.type \in Byte /\ f.payload \in Bytes /\ f.end \in Nat /\ f.spoiled \in BOOLEAN
         /\ Encode(f) = Cons(Esc, Escaped[Cons(f.type, f.payload)])
         /\ Encode(f) \in Bytes /\ Length(f) \in Nat /\ Length(f) >= 2 /\ Begin(f) \in Int
         /\ Len(Encode(f)) = Length(f)
<1>1. f.type \in Byte /\ f.payload \in Bytes /\ f.end \in Nat /\ f.spoiled \in BOOLEAN
  BY DEF Frame
<1>2. /\ Encode(f) = Cons(Esc, Escaped[Cons(f.type, f.payload)])
      /\ Encode(f) \in Bytes /\ Length(f) \in Nat /\ Length(f) >= 2
  BY <1>1, EncodeIs
<1> QED BY <1>1, <1>2 DEF Begin, Length

LEMMA SameEncode ==
  ASSUME NEW f, NEW g, f.type = g.type, f.payload = g.payload
  PROVE  Encode(f) = Encode(g) /\ Length(f) = Length(g)
BY DEF Encode, Length

\* The bytes that occur in a list.
Holds(s, b) == \E k \in 1 .. Len(s) : s[k] = b

LEMMA HoldsCons ==
  ASSUME NEW c \in Byte, NEW s \in Bytes, NEW b
  PROVE  Holds(Cons(c, s), b) <=> c = b \/ Holds(s, b)
<1> DEFINE x == Cons(c, s)
<1>1. /\ x \in Bytes /\ Len(x) = Len(s) + 1 /\ x[1] = c /\ Len(s) \in Nat
      /\ \A k \in 1 .. Len(s) : x[k + 1] = s[k]
  BY ConsType, BytesType
<1> HIDE DEF x
<1>2. ASSUME NEW k \in 1 .. Len(x), k # 1 PROVE k - 1 \in 1 .. Len(s) /\ x[k] = s[k - 1]
  <2>1. k - 1 \in 1 .. Len(s) /\ (k - 1) + 1 = k
    BY <1>1, <1>2
  <2>2. x[(k - 1) + 1] = s[k - 1]
    BY <1>1, <2>1
  <2> QED BY <2>1, <2>2
<1>3. ASSUME NEW k \in 1 .. Len(s) PROVE k + 1 \in 1 .. Len(x) /\ x[k + 1] = s[k]
  BY <1>1
<1>4. 1 \in 1 .. Len(x)
  BY <1>1
<1>5. ASSUME Holds(x, b) PROVE c = b \/ Holds(s, b)
  BY <1>1, <1>2, <1>5 DEF Holds
<1>6. ASSUME c = b PROVE Holds(x, b)
  BY <1>1, <1>4, <1>6 DEF Holds
<1>7. ASSUME Holds(s, b) PROVE Holds(x, b)
  BY <1>3, <1>7 DEF Holds
<1> QED BY <1>5, <1>6, <1>7 DEF x

LEMMA HoldsEscaped ==
  ASSUME NEW p \in Bytes, NEW b
  PROVE  Holds(Escaped[p], b) <=> Holds(p, b)
<1> DEFINE T == {s \in Bytes : ~(Holds(Escaped[s], b) <=> Holds(s, b))}
<1>1. T = {}
  <2> SUFFICES ASSUME T # {} PROVE FALSE
    OBVIOUS
  <2>1. PICK s \in T : \A t \in Bytes : Len(t) < Len(s) => t \notin T
    <3>1. T \subseteq Bytes
      OBVIOUS
    <3> HIDE DEF T
    <3> QED BY <3>1, Shortest
  <2>2. s \in Bytes /\ ~(Holds(Escaped[s], b) <=> Holds(s, b))
    BY <2>1
  <2>3. s # <<>>
    BY <2>2, EscapedType
  <2>4. PICK c \in Byte, t \in Bytes : s = Cons(c, t) /\ Len(t) = Len(s) - 1
    BY <2>2, <2>3, ConsCases
  <2>5. Holds(Escaped[t], b) <=> Holds(t, b)
    <3>1. Len(t) < Len(s)
      BY <2>2, <2>4, BytesType
    <3> QED BY <2>1, <3>1
  <2>6. Holds(s, b) <=> c = b \/ Holds(t, b)
    BY <2>4, HoldsCons
  <2> DEFINE e == Escaped[t]
  <2>7. Escaped[s] = Put(c, e) /\ e \in Bytes
    BY <2>4, EscapedType
  <2> HIDE DEF e
  <2>8. Holds(Put(c, e), b) <=> c = b \/ Holds(e, b)
    <3>1. CASE c = Esc
      <4>1. Cons(Esc, e) \in Bytes
        BY <2>7, LongType, ConsType
      <4>2. Holds(Cons(Esc, Cons(Esc, e)), b) <=> Esc = b \/ Holds(Cons(Esc, e), b)
        BY <4>1, LongType, HoldsCons
      <4>3. Holds(Cons(Esc, e), b) <=> Esc = b \/ Holds(e, b)
        BY <2>7, LongType, HoldsCons
      <4> QED BY <3>1, <4>2, <4>3 DEF Put
    <3>2. CASE c # Esc
      BY <2>7, <3>2, HoldsCons DEF Put
    <3> QED BY <3>1, <3>2
  <2> QED BY <2>2, <2>5, <2>6, <2>7, <2>8 DEF e
<1> QED BY <1>1

\* A byte that is none of framing's is in a frame when it is in its payload.
LEMMA HoldsEncode ==
  ASSUME NEW f, f.type \in Byte, f.payload \in Bytes, NEW b, b # Esc, b # f.type
  PROVE  Holds(Encode(f), b) <=> Holds(f.payload, b)
<1> DEFINE p == Cons(f.type, f.payload)
<1>1. Encode(f) = Cons(Esc, Escaped[p]) /\ p \in Bytes /\ Escaped[p] \in Bytes
  BY EncodeIs, EscapedType
<1>2. Holds(p, b) <=> Holds(f.payload, b)
  BY HoldsCons
<1> HIDE DEF p
<1>3. Holds(Encode(f), b) <=> Holds(Escaped[p], b)
  BY <1>1, LongType, HoldsCons
<1> QED BY <1>1, <1>2, <1>3, HoldsEscaped

StateOK ==
  /\ ConnTypeOK
  /\ buf \in Bytes /\ wire \in Bytes /\ heard \in Bytes /\ half \in BOOLEAN
  /\ sent \in Seq(Frame) /\ Len(sent) <= MaxFrames

LEMMA SentType ==
  ASSUME NEW l \in Seq(Frame)
  PROVE  Len(l) \in Nat /\ DOMAIN l = 1 .. Len(l) /\ \A i \in 1 .. Len(l) : l[i] \in Frame
OBVIOUS

LEMMA AppendIs ==
  ASSUME NEW l \in Seq(Frame), NEW f \in Frame, NEW m, m = Append(l, f)
  PROVE  /\ m \in Seq(Frame) /\ Len(m) = Len(l) + 1 /\ m[Len(m)] = f
         /\ \A i \in 1 .. Len(l) : m[i] = l[i]
OBVIOUS

LEMMA IsList ==
  ASSUME NEW S, NEW n \in Nat, NEW l \in [1 .. n -> S]
  PROVE  l \in Seq(S) /\ Len(l) = n
OBVIOUS

\* What the frame with number n looks like.
WellFormed(f, n) ==
  /\ f.type \in Plain \ {Esc}
  /\ \A j \in 1 .. Len(f.payload) : f.payload[j] \in Plain \cup {n}
  /\ f.type \in Types => Len(f.payload) = MinLen[f.type] - 2
  /\ f.type = Long => Holds(f.payload, n)

LEMMA SendIs ==
  ASSUME StateOK, NEW p \in Patterns, Send(p)
  PROVE  \E f \in Frame :
           /\ sent' = Append(sent, f) /\ wire' = Cat(wire, Encode(f))
           /\ f.end = Len(heard) + Len(wire) + Length(f)
           /\ f.spoiled = (half /\ wire = <<>>)
           /\ WellFormed(f, Len(sent) + 1) /\ Len(sent) + 1 \in Numbers
           /\ session \in open
           /\ UNCHANGED <<connVars, buf, decoded, heard, half>>
<1> DEFINE n == Len(sent) + 1
           g == Numbered(p)
           f == [type |-> g.type, payload |-> g.payload,
                 end |-> Len(heard) + Len(wire) + Len(Encode(g)),
                 spoiled |-> half /\ wire = <<>>]
           pay == [j \in DOMAIN p.payload |->
                     IF p.payload[j] = Number THEN n ELSE p.payload[j]]
<1>1. n \in Numbers /\ n \in Byte
  <2>1. Len(sent) \in Nat /\ Len(sent) < MaxFrames /\ MaxFrames \in Nat
    BY PatternAssumption, SentType DEF StateOK, Send
  <2>2. n \in 1 .. MaxFrames
    BY <2>1
  <2> QED BY <2>2, PatternAssumption DEF Numbers
<1>2. /\ p.type \in Plain \ {Esc} /\ p.payload \in Seq(Plain \cup {Number})
      /\ p.type \in Types => Len(p.payload) = MinLen[p.type] - 2
      /\ p.type = Long => \E j \in DOMAIN p.payload : p.payload[j] = Number
  BY PatternAssumption
<1>3. g.type = p.type /\ g.payload = pay
  BY DEF Numbered
<1>4. /\ Len(p.payload) \in Nat /\ DOMAIN p.payload = 1 .. Len(p.payload)
      /\ \A j \in 1 .. Len(p.payload) : p.payload[j] \in Plain \cup {Number}
  BY <1>2
<1>5. pay \in [1 .. Len(p.payload) -> Byte]
  BY <1>1, <1>4 DEF Plain
<1>6. pay \in Bytes /\ Len(pay) = Len(p.payload)
  <2> HIDE DEF pay
  <2> QED BY <1>4, <1>5, IsList DEF Bytes
<1>7. \A j \in 1 .. Len(p.payload) :
        pay[j] \in Plain \cup {n} /\ (p.payload[j] = Number => pay[j] = n)
  BY <1>4
<1> HIDE DEF pay, g
<1>8. g.type \in Byte /\ g.payload \in Bytes
  BY <1>2, <1>3, <1>6 DEF Plain
<1>9. Encode(g) \in Bytes /\ Len(Encode(g)) \in Nat
  BY <1>8, EncodeIs, BytesType
<1>10. Len(heard) \in Nat /\ Len(wire) \in Nat /\ half \in BOOLEAN
  BY BytesType DEF StateOK
<1>11. f \in Frame
  BY <1>8, <1>9, <1>10 DEF Frame
<1>12. f.type = g.type /\ f.payload = g.payload
  OBVIOUS
<1>13. f.end = Len(heard) + Len(wire) + Len(Encode(g)) /\ f.spoiled = (half /\ wire = <<>>)
  OBVIOUS
<1>14. sent' = Append(sent, f) /\ wire' = Cat(wire, Encode(g)) /\ session \in open
       /\ UNCHANGED <<connVars, buf, decoded, heard, half>>
  BY DEF Send, Cat, g
<1> HIDE DEF f
<1>15. Encode(f) = Encode(g) /\ Length(f) = Len(Encode(g))
  BY <1>12, SameEncode DEF Length
<1>16. WellFormed(f, n)
  <2>1. f.type = Long => Holds(f.payload, n)
    BY <1>2, <1>3, <1>4, <1>6, <1>7, <1>12 DEF Holds
  <2>2. f.type \in Plain \ {Esc} /\ (f.type \in Types => Len(f.payload) = MinLen[f.type] - 2)
    BY <1>2, <1>3, <1>6, <1>12
  <2>3. \A j \in 1 .. Len(f.payload) : f.payload[j] \in Plain \cup {n}
    BY <1>3, <1>6, <1>7, <1>12
  <2> QED BY <2>1, <2>2, <2>3 DEF WellFormed
<1> QED BY <1>1, <1>11, <1>13, <1>14, <1>15, <1>16

\* The frames follow each other in the stream.
EndsInv ==
  \A i, j \in 1 .. Len(sent) :
    i < j /\ sent[i].end # 0 =>
      IF sent[j].end # 0 THEN sent[i].end <= Begin(sent[j]) ELSE sent[i].end <= Len(heard)

LEMMA BegunIs ==
  ASSUME StateOK, NEW f \in Frame
  PROVE  Begun(f) <=> f.end = 0 \/ Begin(f) < Len(heard)
<1>1. f.end \in Nat /\ Length(f) \in Nat /\ Len(heard) \in Nat
  BY FrameEncode, BytesType DEF StateOK
<1> QED BY <1>1 DEF Begun, Read_, Begin, Length

\* A hangup leaves the frames of which something was read.
LEMMA CutIs ==
  ASSUME StateOK, EndsInv
  PROVE  \E n \in 0 .. Len(sent) :
           /\ Cut(sent) \in Seq(Frame) /\ Len(Cut(sent)) = n
           /\ \A i \in 1 .. n :
                /\ Begun(sent[i])
                /\ Cut(sent)[i] = IF sent[i].end > Len(heard) THEN [sent[i] EXCEPT !.end = 0]
                                  ELSE sent[i]
           /\ \A i \in n + 1 .. Len(sent) : ~Begun(sent[i])
<1>1. /\ Len(sent) \in Nat /\ DOMAIN sent = 1 .. Len(sent) /\ Len(heard) \in Nat
      /\ \A i \in 1 .. Len(sent) : sent[i] \in Frame
  BY SentType, BytesType DEF StateOK
<1> DEFINE B == {j \in 1 .. Len(sent) : Begun(sent[j])}
           T == {k \in 1 .. Len(sent) + 1 : k \notin B}
<1>2. ASSUME NEW i \in 1 .. Len(sent), NEW j \in B, i < j PROVE i \in B
  <2>1. j \in 1 .. Len(sent) /\ sent[i] \in Frame /\ sent[j] \in Frame /\ Begun(sent[j])
    BY <1>1
  <2>2. sent[j].end = 0 \/ Begin(sent[j]) < Len(heard)
    BY <2>1, BegunIs
  <2>3. /\ sent[i].end \in Nat /\ Length(sent[i]) \in Nat /\ Length(sent[i]) >= 2
        /\ Begin(sent[j]) \in Int /\ Begin(sent[i]) = sent[i].end - Length(sent[i])
    BY <2>1, FrameEncode DEF Begin
  <2>4. sent[i].end # 0 =>
          IF sent[j].end # 0 THEN sent[i].end <= Begin(sent[j]) ELSE sent[i].end <= Len(heard)
    BY <1>2, <2>1 DEF EndsInv
  <2>5. sent[i].end = 0 \/ Begin(sent[i]) < Len(heard)
    BY <1>1, <2>2, <2>3, <2>4
  <2> QED BY <2>1, <2>5, BegunIs
<1>3. PICK m \in T : \A k \in T : m <= k
  <2>1. Len(sent) + 1 \in T
    BY <1>1
  <2>2. T \subseteq Nat /\ T # {}
    BY <1>1, <2>1
  <2> HIDE DEF T
  <2> QED BY <2>2, LeastNatural
<1> DEFINE n == m - 1
<1>4. m \in 1 .. Len(sent) + 1 /\ m \notin B /\ n \in 0 .. Len(sent) /\ n \in Nat
  BY <1>1, <1>3
<1>5. ASSUME NEW i \in 1 .. n PROVE i \in B
  <2>1. i \in 1 .. Len(sent) + 1 /\ i < m
    BY <1>1, <1>4
  <2>2. i \notin T
    <3> HIDE DEF T
    <3> QED BY <1>3, <1>4, <2>1
  <2> QED BY <2>1, <2>2
<1>6. ASSUME NEW i \in n + 1 .. Len(sent) PROVE i \notin B
  <2>1. m \in 1 .. Len(sent) /\ m <= i /\ i \in 1 .. Len(sent)
    BY <1>1, <1>4
  <2>2. CASE i = m
    BY <1>4, <2>2
  <2>3. CASE i # m
    <3>1. m < i
      BY <2>1, <2>3
    <3> HIDE DEF B
    <3> QED BY <1>2, <1>4, <2>1, <3>1
  <2> QED BY <2>2, <2>3
<1>7. B = 1 .. n
  <2>1. ASSUME NEW i \in B PROVE i \in 1 .. n
    <3>1. i \in 1 .. Len(sent)
      OBVIOUS
    <3>2. i \notin n + 1 .. Len(sent)
      <4> HIDE DEF B
      <4> QED BY <1>6, <2>1
    <3> QED BY <1>1, <1>4, <3>1, <3>2
  <2> HIDE DEF B
  <2> QED BY <1>5, <2>1
<1> DEFINE c == [i \in 1 .. n |-> IF sent[i].end > Len(heard) THEN [sent[i] EXCEPT !.end = 0]
                                  ELSE sent[i]]
<1>8. Cut(sent) = c
  BY <1>1, <1>7 DEF Cut
<1>9. c \in [1 .. n -> Frame]
  <2>1. ASSUME NEW i \in 1 .. n PROVE sent[i] \in Frame /\ [sent[i] EXCEPT !.end = 0] \in Frame
    <3>1. sent[i] \in Frame
      BY <1>1, <1>4
    <3> QED BY <3>1 DEF Frame
  <2> QED BY <2>1
<1>10. c \in Seq(Frame) /\ Len(c) = n
  <2> HIDE DEF c, n
  <2> QED BY <1>4, <1>9, IsList
<1>11. \A i \in 1 .. n : Begun(sent[i])
  BY <1>5
<1>12. \A i \in n + 1 .. Len(sent) : ~Begun(sent[i])
  BY <1>1, <1>4, <1>6
<1>13. \A i \in 1 .. n : c[i] = IF sent[i].end > Len(heard) THEN [sent[i] EXCEPT !.end = 0]
                                ELSE sent[i]
  OBVIOUS
<1> HIDE DEF c, n, B, T
<1> QED BY <1>4, <1>8, <1>10, <1>11, <1>12, <1>13

\* decodeModeSLong over a given list of frames.
Matches(l, p) == {i \in 1 .. Len(l) : l[i].type = Long /\ l[i].payload = p}
NumberOf(l, p) == IF Matches(l, p) = {} THEN 0 ELSE CHOOSE i \in Matches(l, p) : TRUE
NumbersOf(l, o) == [k \in 1 .. Len(o) |-> NumberOf(l, o[k])]

LEMMA NumberOfType ==
  ASSUME NEW l \in Seq(Frame), NEW p
  PROVE  /\ NumberOf(l, p) \in 0 .. Len(l)
         /\ NumberOf(l, p) # 0 => NumberOf(l, p) \in Matches(l, p)
<1>1. Len(l) \in Nat /\ Matches(l, p) \subseteq 1 .. Len(l)
  BY SentType DEF Matches
<1> QED BY <1>1 DEF NumberOf

LEMMA NumbersOfType ==
  ASSUME NEW l \in Seq(Frame), NEW o \in Seq(Bytes)
  PROVE  /\ NumbersOf(l, o) \in Seq(0 .. Len(l)) /\ Len(NumbersOf(l, o)) = Len(o)
         /\ Len(o) \in Nat
         /\ \A k \in 1 .. Len(o) : NumbersOf(l, o)[k] = NumberOf(l, o[k])
<1>1. NumbersOf(l, o) \in [1 .. Len(o) -> 0 .. Len(l)]
  BY NumberOfType DEF NumbersOf
<1>2. Len(o) \in Nat
  OBVIOUS
<1>3. \A k \in 1 .. Len(o) : NumbersOf(l, o)[k] = NumberOf(l, o[k])
  BY DEF NumbersOf
<1> QED BY <1>1, <1>2, <1>3, IsList

LEMMA SameList ==
  ASSUME NEW S, NEW o \in Seq(S), NEW p \in Seq(S), Len(o) = Len(p),
         \A k \in 1 .. Len(o) : o[k] = p[k]
  PROVE  o = p
OBVIOUS

LEMMA ListCat ==
  ASSUME NEW S, NEW o \in Seq(S), NEW p \in Seq(S)
  PROVE  /\ o \o p \in Seq(S) /\ Len(o \o p) = Len(o) + Len(p)
         /\ \A k \in 1 .. Len(o) + Len(p) :
              (o \o p)[k] = IF k <= Len(o) THEN o[k] ELSE p[k - Len(o)]
OBVIOUS

LEMMA NumbersOfCat ==
  ASSUME NEW l \in Seq(Frame), NEW o \in Seq(Bytes), NEW p \in Seq(Bytes)
  PROVE  NumbersOf(l, o \o p) = NumbersOf(l, o) \o NumbersOf(l, p)
<1> DEFINE x == o \o p
           n == NumbersOf(l, o)
           m == NumbersOf(l, p)
           u == NumbersOf(l, x)
           w == n \o m
           S == 0 .. Len(l)
<1>1. /\ x \in Seq(Bytes) /\ Len(x) = Len(o) + Len(p)
      /\ \A k \in 1 .. Len(o) + Len(p) : x[k] = IF k <= Len(o) THEN o[k] ELSE p[k - Len(o)]
  BY ListCat
<1> HIDE DEF x
<1>2. /\ n \in Seq(S) /\ Len(n) = Len(o) /\ Len(o) \in Nat
      /\ \A k \in 1 .. Len(o) : n[k] = NumberOf(l, o[k])
  BY NumbersOfType
<1>3. /\ m \in Seq(S) /\ Len(m) = Len(p) /\ Len(p) \in Nat
      /\ \A k \in 1 .. Len(p) : m[k] = NumberOf(l, p[k])
  BY NumbersOfType
<1>4. /\ u \in Seq(S) /\ Len(u) = Len(x)
      /\ \A k \in 1 .. Len(x) : u[k] = NumberOf(l, x[k])
  BY <1>1, NumbersOfType
<1> HIDE DEF n, m, u, S
<1>5. /\ w \in Seq(S) /\ Len(w) = Len(o) + Len(p)
      /\ \A k \in 1 .. Len(o) + Len(p) : w[k] = IF k <= Len(o) THEN n[k] ELSE m[k - Len(o)]
  <2>1. /\ w \in Seq(S) /\ Len(w) = Len(n) + Len(m)
        /\ \A k \in 1 .. Len(n) + Len(m) : w[k] = IF k <= Len(n) THEN n[k] ELSE m[k - Len(n)]
    <3>1. n \in Seq(S) /\ m \in Seq(S)
      BY <1>2, <1>3
    <3> QED BY <3>1, ListCat
  <2>2. Len(n) = Len(o) /\ Len(m) = Len(p)
    BY <1>2, <1>3
  <2> HIDE DEF w
  <2> QED BY <2>1, <2>2
<1> HIDE DEF w
<1>6. ASSUME NEW k \in 1 .. Len(u) PROVE u[k] = w[k]
  <2>1. k \in 1 .. Len(o) + Len(p)
    BY <1>1, <1>4
  <2>2. u[k] = NumberOf(l, x[k])
    BY <1>1, <1>4, <2>1
  <2>3. CASE k <= Len(o)
    <3>1. k \in 1 .. Len(o)
      BY <1>2, <2>1, <2>3
    <3> QED BY <1>1, <1>2, <1>5, <2>1, <2>2, <2>3, <3>1
  <2>4. CASE ~(k <= Len(o))
    <3>1. k - Len(o) \in 1 .. Len(p)
      BY <1>2, <1>3, <2>1, <2>4
    <3> QED BY <1>1, <1>3, <1>5, <2>1, <2>2, <2>4, <3>1
  <2> QED BY <2>3, <2>4
<1>7. u = w
  BY <1>1, <1>4, <1>5, <1>6, SameList
<1> QED BY <1>7 DEF u, w, n, m, x

LEMMA AcceptedIs ==
  ASSUME StateOK, NEW o \in Seq(Bytes)
  PROVE  Accepted(o) = NumbersOf(sent, o)
<1>1. DOMAIN sent = 1 .. Len(sent) /\ DOMAIN o = 1 .. Len(o)
  BY SentType DEF StateOK
<1> QED BY <1>1 DEF Accepted, NumbersOf, Match, NumberOf, CRCMatches, Matches

-----------------------------------------------------------------------------
(***************************************************************************)
(* The inductive invariant.  Stream is what has been read of all sessions  *)
(* and what the present one will still bring.                              *)
(***************************************************************************)

Stream == Cat(heard, wire)

\* The connection may still bring frames.
Live == session \in open \/ ~cancelled \/ pc = "dial"

ConnInv == pc = "read" /\ session \notin open => cancelled

NamesInv == \A i \in 1 .. Len(sent) : WellFormed(sent[i], i)

LiveInv == Live => \A i \in 1 .. Len(sent) : sent[i].end <= Len(Stream)

\* A frame's number comes nowhere before the frame, and never twice at a distance at
\* which two frames could hold it; the numbers come in their order.
NumbersInv ==
  \A x \in 1 .. Len(Stream) : Stream[x] \in Numbers =>
    /\ Stream[x] <= Len(sent)
    /\ sent[Stream[x]].end # 0 => Begin(sent[Stream[x]]) < x
    /\ \A y \in 1 .. Len(Stream) : x < y /\ Stream[y] \in Numbers =>
         /\ Stream[x] <= Stream[y]
         /\ Stream[x] = Stream[y] => y - x < Length(sent[Stream[x]])

\* Feed has made of the stream what it makes of all of it at once.
Fed == buf = Scan[heard].buf /\ decoded = NumbersOf(sent, Scan[heard].out)

CoreInv == StateOK /\ ConnInv /\ NamesInv /\ EndsInv /\ LiveInv /\ NumbersInv /\ Fed

LEMMA StreamType ==
  ASSUME StateOK
  PROVE  /\ Stream \in Bytes /\ Len(Stream) = Len(heard) + Len(wire)
         /\ Len(heard) \in Nat /\ Len(wire) \in Nat /\ Len(sent) \in Nat
         /\ heard \in Bytes /\ wire \in Bytes /\ sent \in Seq(Frame) /\ half \in BOOLEAN
         /\ \A i \in 1 .. Len(sent) : sent[i] \in Frame
         /\ \A x \in 1 .. Len(heard) : x \in 1 .. Len(Stream) /\ Stream[x] = heard[x]
<1>1. heard \in Bytes /\ wire \in Bytes /\ sent \in Seq(Frame) /\ half \in BOOLEAN
  BY DEF StateOK
<1>2. Stream \in Bytes /\ Len(Stream) = Len(heard) + Len(wire)
  BY <1>1, CatType DEF Stream
<1>3. Len(heard) \in Nat /\ Len(wire) \in Nat /\ Len(sent) \in Nat
  BY <1>1, BytesType, SentType
<1>4. ASSUME NEW x \in 1 .. Len(heard) PROVE x \in 1 .. Len(Stream) /\ Stream[x] = heard[x]
  <2>1. x \in 1 .. Len(heard) + Len(wire) /\ x <= Len(heard)
    BY <1>3
  <2> QED BY <1>1, <1>2, <2>1, CatAt DEF Stream
<1> QED BY <1>1, <1>2, <1>3, <1>4, SentType

LEMMA NumberType ==
  ASSUME NEW b \in Numbers
  PROVE  b \in Nat /\ b # 0 /\ b \in Byte /\ b # Esc /\ b \notin Types /\ b \notin Plain
BY PatternAssumption DEF Numbers, Plain

\* A number in a message that was found has been read.
LEMMA NumberHeard ==
  ASSUME NEW h \in Bytes, NEW k \in 1 .. Len(Scan[h].out), NEW b \in Numbers,
         Holds(Scan[h].out[k], b)
  PROVE  \E x \in 1 .. Len(h) : h[x] = b
<1> DEFINE p == Scan[h].out[k]
           f == [type |-> Long, payload |-> p]
<1>1. p \in Bytes
  BY ScanType
<1>2. PICK u, v \in Bytes : h = Cat(u, Cat(Message(p), v))
  BY EachInStream
<1>3. Holds(p, b)
  OBVIOUS
<1> HIDE DEF p
<1>4. f.type = Long /\ f.payload = p
  OBVIOUS
<1> HIDE DEF f
<1>5. Encode(f) = Message(p) /\ Message(p) \in Bytes
  BY <1>1, <1>4, LongType, EncodeIs DEF Message
<1>6. Holds(Encode(f), b)
  BY <1>1, <1>3, <1>4, LongType, NumberType, HoldsEncode
<1>7. PICK o \in 1 .. Len(Message(p)) : Message(p)[o] = b
  BY <1>5, <1>6 DEF Holds
<1> DEFINE e == Message(p)
<1> HIDE DEF e
<1>8. e \in Bytes /\ o \in 1 .. Len(e) /\ e[o] = b /\ h = Cat(u, Cat(e, v))
  BY <1>2, <1>5, <1>7 DEF e
<1>9. Len(u) + o \in 1 .. Len(h) /\ h[Len(u) + o] = b
  <2>1. Len(u) + o \in 1 .. Len(Cat(u, Cat(e, v))) /\ Cat(u, Cat(e, v))[Len(u) + o] = e[o]
    <3>1. e \in Bytes /\ o \in 1 .. Len(e) /\ u \in Bytes /\ v \in Bytes
      BY <1>2, <1>8
    <3> QED BY <3>1, CatMid
  <2> QED BY <1>8, <2>1
<1> QED BY <1>9

LEMMA WellFormedType ==
  ASSUME NEW f \in Frame, NEW n, WellFormed(f, n), f.type = Long
  PROVE  Holds(f.payload, n)
BY DEF WellFormed

\* Frames of which nothing was read make no difference to what was decoded.
LEMMA SameNumbers ==
  ASSUME NEW h \in Bytes, NEW l \in Seq(Frame), NEW m \in Seq(Frame),
         \A i \in 1 .. Len(l) : i \in Numbers /\ WellFormed(l[i], i),
         \A i \in 1 .. Len(m) : i \in Numbers /\ WellFormed(m[i], i),
         \A i \in 1 .. Len(l) : (\E x \in 1 .. Len(h) : h[x] = i) =>
            i \in 1 .. Len(m) /\ m[i].type = l[i].type /\ m[i].payload = l[i].payload,
         \A i \in 1 .. Len(m) : (\E x \in 1 .. Len(h) : h[x] = i) =>
            i \in 1 .. Len(l) /\ m[i].type = l[i].type /\ m[i].payload = l[i].payload
  PROVE  NumbersOf(l, Scan[h].out) = NumbersOf(m, Scan[h].out)
<1> DEFINE o == Scan[h].out
<1>1. o \in Seq(Bytes)
  BY ScanType
<1>2. ASSUME NEW k \in 1 .. Len(o) PROVE NumberOf(l, o[k]) = NumberOf(m, o[k])
  <2>1. ASSUME NEW i \in Matches(l, o[k]) PROVE i \in Matches(m, o[k])
    <3>1. i \in 1 .. Len(l) /\ l[i].type = Long /\ l[i].payload = o[k] /\ l[i] \in Frame
      BY SentType DEF Matches
    <3>2. Holds(o[k], i)
      BY <3>1, WellFormedType
    <3>3. \E x \in 1 .. Len(h) : h[x] = i
      BY <3>1, <3>2, NumberHeard
    <3> QED BY <3>1, <3>3 DEF Matches
  <2>2. ASSUME NEW i \in Matches(m, o[k]) PROVE i \in Matches(l, o[k])
    <3>1. i \in 1 .. Len(m) /\ m[i].type = Long /\ m[i].payload = o[k] /\ m[i] \in Frame
      BY SentType DEF Matches
    <3>2. Holds(o[k], i)
      BY <3>1, WellFormedType
    <3>3. \E x \in 1 .. Len(h) : h[x] = i
      BY <3>1, <3>2, NumberHeard
    <3> QED BY <3>1, <3>3 DEF Matches
  <2>3. Matches(l, o[k]) = Matches(m, o[k])
    <3> HIDE DEF o
    <3> QED BY <2>1, <2>2
  <2> QED BY <2>3 DEF NumberOf
<1> HIDE DEF o
<1>3. NumbersOf(l, o) = NumbersOf(m, o)
  BY <1>2 DEF NumbersOf
<1> QED BY <1>3 DEF o

-----------------------------------------------------------------------------
(***************************************************************************)
(* The steps.                                                              *)
(***************************************************************************)

LEMMA ConnSafe ==
  ASSUME ConnTypeOK, ConnInv,
         \/ DialSucceeds \/ ReadData \/ PeerGone \/ ReadFails \/ UNCHANGED connVars
         \/ Check \/ DialFails \/ CancelledInWait \/ DelayOver \/ Cancel
         \/ \E k \in Sessions : Watch(k)
  PROVE  ConnTypeOK' /\ ConnInv' /\ (Live' => Live) /\ (ReadFails => ~Live')
<1> USE BoundAssumption DEF ConnTypeOK, ConnInv, Live
<1>1. CASE DialSucceeds
  BY <1>1 DEF DialSucceeds, ReadFails, SessionEnds
<1>2. CASE ReadData \/ UNCHANGED connVars
  BY <1>2 DEF ReadData, connVars, ReadFails, SessionEnds
<1>3. CASE PeerGone
  BY <1>3 DEF PeerGone, SessionEnds, ReadFails
<1>4. CASE ReadFails
  BY <1>4 DEF ReadFails, SessionEnds
<1>5. CASE Check
  BY <1>5 DEF Check, ReadFails, SessionEnds
<1>6. CASE DialFails
  BY <1>6 DEF DialFails, ReadFails, SessionEnds
<1>7. CASE CancelledInWait \/ DelayOver
  BY <1>7 DEF CancelledInWait, DelayOver, Waiting, ReadFails, SessionEnds
<1>8. CASE Cancel
  BY <1>8 DEF Cancel, ReadFails, SessionEnds
<1>9. CASE \E k \in Sessions : Watch(k)
  BY <1>9 DEF Watch, ReadFails, SessionEnds
<1> QED BY <1>1, <1>2, <1>3, <1>4, <1>5, <1>6, <1>7, <1>8, <1>9

\* What the connection does without touching the data.
LEMMA ControlCore ==
  ASSUME CoreInv, UNCHANGED dataVars,
         \/ DialSucceeds \/ UNCHANGED connVars
         \/ Check \/ DialFails \/ CancelledInWait \/ DelayOver \/ Cancel
         \/ \E k \in Sessions : Watch(k)
  PROVE  CoreInv'
<1>1. ConnTypeOK' /\ ConnInv' /\ (Live' => Live)
  BY ConnSafe DEF CoreInv, StateOK
<1>2. /\ buf' = buf /\ decoded' = decoded /\ wire' = wire /\ sent' = sent /\ heard' = heard
      /\ half' = half /\ Stream' = Stream
  BY DEF dataVars, Stream
<1>3. StateOK' /\ NamesInv' /\ EndsInv' /\ NumbersInv' /\ Fed'
  BY <1>1, <1>2 DEF CoreInv, StateOK, NamesInv, EndsInv, NumbersInv, Fed
<1>4. LiveInv'
  BY <1>1, <1>2 DEF CoreInv, LiveInv
<1> QED BY <1>1, <1>3, <1>4 DEF CoreInv

LEMMA SendEffect ==
  ASSUME StateOK, NEW f \in Frame, sent' = Append(sent, f), wire' = Cat(wire, Encode(f)),
         f.end = Len(heard) + Len(wire) + Length(f), heard' = heard
  PROVE  /\ sent' \in Seq(Frame) /\ Len(sent') = Len(sent) + 1 /\ sent'[Len(sent) + 1] = f
         /\ \A i \in 1 .. Len(sent) : sent'[i] = sent[i]
         /\ wire' \in Bytes /\ Stream' = Cat(Stream, Encode(f))
         /\ Len(Stream') = Len(Stream) + Length(f)
         /\ Begin(f) = Len(Stream) /\ f.end = Len(Stream')
<1>1. /\ Encode(f) \in Bytes /\ Len(Encode(f)) = Length(f) /\ Length(f) \in Nat
  BY FrameEncode
<1>2. /\ Stream \in Bytes /\ Len(Stream) = Len(heard) + Len(wire) /\ wire \in Bytes
      /\ heard \in Bytes /\ Len(heard) \in Nat /\ Len(wire) \in Nat /\ sent \in Seq(Frame)
  BY StreamType
<1>3. wire' \in Bytes
  BY <1>1, <1>2, CatType
<1>4. Stream' = Cat(Stream, Encode(f))
  <2> DEFINE e == Encode(f)
  <2> HIDE DEF e
  <2>1. e \in Bytes /\ wire' = Cat(wire, e) /\ heard' = heard
    BY <1>1 DEF e
  <2>2. Cat(heard, Cat(wire, e)) = Cat(Cat(heard, wire), e)
    BY <1>2, <2>1, CatAssociative
  <2> QED BY <2>1, <2>2 DEF Stream, e
<1>5. Len(Stream') = Len(Stream) + Length(f)
  <2> DEFINE e == Encode(f)
  <2>1. e \in Bytes /\ Len(e) = Length(f) /\ Stream' = Cat(Stream, e)
    BY <1>1, <1>4
  <2> HIDE DEF e
  <2>2. Len(Cat(Stream, e)) = Len(Stream) + Len(e)
    BY <1>2, <2>1, CatType
  <2> QED BY <2>1, <2>2
<1>6. Begin(f) = Len(Stream) /\ f.end = Len(Stream')
  BY <1>1, <1>2, <1>5 DEF Begin
<1>7. /\ sent' \in Seq(Frame) /\ Len(sent') = Len(sent) + 1 /\ sent'[Len(sent')] = f
      /\ \A i \in 1 .. Len(sent) : sent'[i] = sent[i]
  BY <1>2, AppendIs
<1> QED BY <1>3, <1>4, <1>5, <1>6, <1>7

\* Of the numbers only its own is in a frame.
LEMMA OwnNumber ==
  ASSUME NEW f \in Frame, NEW n, WellFormed(f, n), NEW k \in 1 .. Length(f),
         Encode(f)[k] \in Numbers
  PROVE  Encode(f)[k] = n
<1> DEFINE b == Encode(f)[k]
<1>1. Holds(Encode(f), b)
  BY DEF Holds, Length
<1>2. b # Esc /\ b # f.type /\ b \notin Plain
  BY NumberType DEF WellFormed
<1> HIDE DEF b
<1>3. Holds(f.payload, b)
  BY <1>1, <1>2, FrameEncode, HoldsEncode
<1>4. \A j \in 1 .. Len(f.payload) : f.payload[j] \in Plain \cup {n}
  BY DEF WellFormed
<1> QED BY <1>2, <1>3, <1>4 DEF Holds, b

LEMMA SendCore ==
  ASSUME CoreInv, NEW p \in Patterns, Send(p)
  PROVE  CoreInv'
<1> USE DEF CoreInv
<1>1. PICK f \in Frame :
        /\ sent' = Append(sent, f) /\ wire' = Cat(wire, Encode(f))
        /\ f.end = Len(heard) + Len(wire) + Length(f)
        /\ f.spoiled = (half /\ wire = <<>>)
        /\ WellFormed(f, Len(sent) + 1) /\ Len(sent) + 1 \in Numbers
        /\ session \in open
        /\ UNCHANGED <<connVars, buf, decoded, heard, half>>
  BY SendIs
<1> DEFINE n == Len(sent) + 1
           L == Len(Stream)
           e == Encode(f)
<1>2. /\ sent' \in Seq(Frame) /\ Len(sent') = n /\ sent'[n] = f
      /\ \A i \in 1 .. Len(sent) : sent'[i] = sent[i]
      /\ wire' \in Bytes /\ Stream' = Cat(Stream, e)
      /\ Len(Stream') = L + Length(f)
      /\ Begin(f) = L /\ f.end = Len(Stream')
  BY <1>1, SendEffect
<1>3. /\ Stream \in Bytes /\ L = Len(heard) + Len(wire)
      /\ Len(heard) \in Nat /\ Len(wire) \in Nat /\ Len(sent) \in Nat /\ L \in Nat
      /\ heard \in Bytes /\ wire \in Bytes /\ sent \in Seq(Frame)
      /\ \A i \in 1 .. Len(sent) : sent[i] \in Frame
      /\ \A x \in 1 .. Len(heard) : x \in 1 .. L /\ Stream[x] = heard[x]
  BY StreamType, BytesType
<1>4. e \in Bytes /\ Len(e) = Length(f) /\ Length(f) \in Nat /\ f.end \in Nat
  BY FrameEncode
<1>5. /\ heard' = heard /\ half' = half /\ buf' = buf /\ decoded' = decoded
      /\ pc' = pc /\ cancelled' = cancelled /\ session' = session /\ open' = open
      /\ watchers' = watchers /\ failures' = failures
  BY <1>1 DEF connVars
<1>6. Len(sent') <= MaxFrames /\ n \in Numbers /\ \A i \in 1 .. n : i \in Numbers
  <2>1. MaxFrames \in Nat /\ n \in 1 .. MaxFrames
    BY <1>1, PatternAssumption DEF Numbers
  <2> QED BY <1>2, <1>3, <2>1 DEF Numbers
<1>7. StateOK'
  BY <1>2, <1>5, <1>6 DEF StateOK, ConnTypeOK, connVars
<1>8. ConnInv'
  BY <1>5 DEF ConnInv
<1>9. NamesInv'
  BY <1>1, <1>2, <1>3 DEF NamesInv
<1>10. \A i \in 1 .. Len(sent) : sent[i].end <= L /\ sent[i].end \in Nat
  <2>1. Live
    BY <1>1 DEF Live
  <2> QED BY <1>3, <2>1, FrameEncode DEF LiveInv
<1>11. EndsInv'
  <2>1. SUFFICES ASSUME NEW i \in 1 .. n, NEW j \in 1 .. n, i < j, sent'[i].end # 0
                 PROVE  IF sent'[j].end # 0 THEN sent'[i].end <= Begin(sent'[j])
                        ELSE sent'[i].end <= Len(heard)
    BY <1>2, <1>5 DEF EndsInv
  <2>2. i \in 1 .. Len(sent) /\ sent'[i] = sent[i]
    BY <1>2, <1>3, <2>1
  <2>3. CASE j = n
    BY <1>2, <1>3, <1>10, <2>1, <2>2, <2>3, <1>4
  <2>4. CASE j # n
    <3>1. j \in 1 .. Len(sent) /\ sent'[j] = sent[j]
      BY <1>2, <1>3, <2>4
    <3> QED BY <2>1, <2>2, <3>1 DEF EndsInv
  <2> QED BY <2>3, <2>4
<1>12. LiveInv'
  <2>1. ASSUME NEW i \in 1 .. n PROVE sent'[i].end <= Len(Stream')
    <3>1. CASE i = n
      BY <1>2, <1>3, <1>4, <3>1
    <3>2. CASE i # n
      <4>1. i \in 1 .. Len(sent)
        BY <1>3, <3>2
      <4> QED BY <1>2, <1>3, <1>4, <1>10, <4>1
    <3> QED BY <3>1, <3>2
  <2> QED BY <1>2, <2>1 DEF LiveInv
<1>13. NumbersInv'
  <2>1. ASSUME NEW x \in 1 .. L + Length(f)
        PROVE  Stream'[x] = IF x <= L THEN Stream[x] ELSE e[x - L]
    <3> HIDE DEF e
    <3>1. x \in 1 .. Len(Stream) + Len(e)
      BY <1>4
    <3>2. Stream \in Bytes /\ e \in Bytes /\ Stream' = Cat(Stream, e)
      BY <1>2, <1>3, <1>4
    <3> QED BY <3>1, <3>2, CatAt
  <2>2. ASSUME NEW x \in 1 .. L + Length(f), ~(x <= L), Stream'[x] \in Numbers
        PROVE  Stream'[x] = n
    <3>1. x - L \in 1 .. Length(f)
      BY <1>3, <1>4, <2>2
    <3> QED BY <1>1, <2>1, <2>2, <3>1, OwnNumber
  <2>3. SUFFICES ASSUME NEW x \in 1 .. L + Length(f), Stream'[x] \in Numbers
                 PROVE  /\ Stream'[x] <= n
                        /\ sent'[Stream'[x]].end # 0 => Begin(sent'[Stream'[x]]) < x
                        /\ \A y \in 1 .. L + Length(f) : x < y /\ Stream'[y] \in Numbers =>
                             /\ Stream'[x] <= Stream'[y]
                             /\ Stream'[x] = Stream'[y] =>
                                  y - x < Length(sent'[Stream'[x]])
    BY <1>2 DEF NumbersInv
  <2>4. CASE x <= L
    <3> DEFINE b == Stream[x]
    <3>1. x \in 1 .. L /\ Stream'[x] = b /\ b \in Numbers
      BY <1>3, <2>1, <2>3, <2>4
    <3>2. /\ b <= Len(sent) /\ (sent[b].end # 0 => Begin(sent[b]) < x)
          /\ \A y \in 1 .. L : x < y /\ Stream[y] \in Numbers =>
               b <= Stream[y] /\ (b = Stream[y] => y - x < Length(sent[b]))
      BY <3>1 DEF NumbersInv
    <3>3. b \in 1 .. Len(sent) /\ sent'[b] = sent[b] /\ b \in Nat /\ b < n
      BY <1>2, <1>3, <3>1, <3>2 DEF Numbers
    <3> HIDE DEF b
    <3>4. ASSUME NEW y \in 1 .. L + Length(f), x < y, Stream'[y] \in Numbers
          PROVE  b <= Stream'[y] /\ (b = Stream'[y] => y - x < Length(sent[b]))
      <4>1. CASE y <= L
        <5>1. y \in 1 .. L /\ Stream'[y] = Stream[y]
          BY <1>3, <2>1, <4>1
        <5> QED BY <3>2, <3>4, <5>1
      <4>2. CASE ~(y <= L)
        <5>1. Stream'[y] = n
          BY <2>2, <3>4, <4>2
        <5> QED BY <1>3, <3>3, <5>1
      <4> QED BY <4>1, <4>2
    <3>5. b <= n
      BY <1>3, <3>3
    <3> QED BY <3>1, <3>2, <3>3, <3>4, <3>5
  <2>5. CASE ~(x <= L)
    <3>1. Stream'[x] = n /\ sent'[n] = f /\ Begin(f) < x /\ n <= n
      BY <1>2, <1>3, <2>2, <2>3, <2>5
    <3>2. ASSUME NEW y \in 1 .. L + Length(f), x < y, Stream'[y] \in Numbers
          PROVE  Stream'[y] = n /\ y - x < Length(f)
      <4>1. ~(y <= L) /\ y - x < Length(f)
        BY <1>3, <1>4, <2>5, <3>2
      <4> QED BY <2>2, <3>2, <4>1
    <3> HIDE DEF n
    <3> QED BY <3>1, <3>2
  <2> QED BY <2>4, <2>5
<1>14. Fed'
  <2>1. ASSUME NEW x \in 1 .. Len(heard), heard[x] \in Numbers PROVE heard[x] <= Len(sent)
    BY <1>3, <2>1 DEF NumbersInv
  <2>2. ASSUME NEW i \in 1 .. n, \E x \in 1 .. Len(heard) : heard[x] = i
        PROVE  i \in 1 .. Len(sent)
    BY <1>3, <1>6, <2>1, <2>2
  <2>3. \A i \in 1 .. Len(sent) : i \in Numbers /\ WellFormed(sent[i], i)
                                  /\ i \in 1 .. n /\ sent'[i] = sent[i]
    BY <1>2, <1>3, <1>6 DEF NamesInv
  <2>4. \A i \in 1 .. n : i \in Numbers /\ WellFormed(sent'[i], i)
    BY <1>2, <1>6, <1>9 DEF NamesInv
  <2> DEFINE l == sent
             m == sent'
  <2>5. l \in Seq(Frame) /\ m \in Seq(Frame) /\ Len(m) = n
    BY <1>2, <1>3
  <2>6. NumbersOf(l, Scan[heard].out) = NumbersOf(m, Scan[heard].out)
    <3>1. \A i \in 1 .. Len(l) : i \in Numbers /\ WellFormed(l[i], i) /\ i \in 1 .. Len(m) /\ m[i] = l[i]
      BY <2>3, <2>5
    <3>2. \A i \in 1 .. Len(m) : i \in Numbers /\ WellFormed(m[i], i)
      BY <2>4, <2>5
    <3>3. \A i \in 1 .. Len(m) : (\E x \in 1 .. Len(heard) : heard[x] = i) =>
            i \in 1 .. Len(l) /\ m[i].type = l[i].type /\ m[i].payload = l[i].payload
      BY <2>2, <2>3, <2>5
    <3> HIDE DEF l, m, n
    <3> QED BY <1>3, <2>5, <3>1, <3>2, <3>3, SameNumbers
  <2> QED BY <1>5, <2>6 DEF Fed
<1> QED BY <1>7, <1>8, <1>9, <1>11, <1>12, <1>13, <1>14

LEMMA ReadCore ==
  ASSUME CoreInv, NEW n \in 1 .. Len(wire), Read(n)
  PROVE  CoreInv'
<1> USE DEF CoreInv
<1> DEFINE a == SubSeq(wire, 1, n)
           z == Drop(wire, n)
<1>1. /\ heard \in Bytes /\ wire \in Bytes /\ Len(heard) \in Nat /\ Len(wire) \in Nat
      /\ sent \in Seq(Frame) /\ n \in 0 .. Len(wire)
      /\ \A i \in 1 .. Len(sent) : sent[i] \in Frame
  BY StreamType
<1>2. a \in Bytes /\ z \in Bytes /\ wire = Cat(a, z) /\ Len(a) \in Nat
  BY <1>1, FrontType, DropType, Split, BytesType
<1>3. /\ heard' = Cat(heard, a) /\ wire' = z /\ half' = FALSE /\ sent' = sent
      /\ buf' = Feed(buf, a).buf /\ decoded' = decoded \o Accepted(Feed(buf, a).out) /\ ReadData
  BY DEF Read, Cat, Drop
<1> HIDE DEF a, z
<1>4. ConnTypeOK' /\ ConnInv' /\ (Live' => Live)
  BY <1>3, ConnSafe DEF StateOK
<1>5. heard' \in Bytes /\ Len(heard') = Len(heard) + Len(a)
  BY <1>1, <1>2, <1>3, CatType
<1>6. Stream' = Stream
  BY <1>1, <1>2, <1>3, CatAssociative DEF Stream
<1> DEFINE f == Cat(buf, a)
<1>7. /\ Scan[heard'].buf = Scan[f].buf /\ Scan[heard'].out = Scan[heard].out \o Scan[f].out
      /\ f \in Bytes
  <2>1. buf = Scan[heard].buf /\ buf \in Bytes
    BY DEF Fed, StateOK
  <2> QED BY <1>1, <1>2, <1>3, <2>1, ScanCat, CatType
<1>8. Feed(buf, a) = Scan[f]
  BY DEF Feed, Cat
<1> HIDE DEF f
<1>9. Scan[f].buf \in Bytes /\ Scan[f].out \in Seq(Bytes) /\ Scan[heard].out \in Seq(Bytes)
  BY <1>1, <1>7, ScanType
<1>10. StateOK'
  BY <1>2, <1>3, <1>4, <1>5, <1>8, <1>9 DEF StateOK
<1>11. Fed'
  <2>1. decoded' = NumbersOf(sent, Scan[heard].out) \o NumbersOf(sent, Scan[f].out)
    BY <1>3, <1>8, <1>9, AcceptedIs DEF Fed
  <2>2. NumbersOf(sent, Scan[heard].out \o Scan[f].out)
          = NumbersOf(sent, Scan[heard].out) \o NumbersOf(sent, Scan[f].out)
    BY <1>1, <1>9, NumbersOfCat
  <2> QED BY <1>3, <1>7, <1>8, <2>1, <2>2 DEF Fed
<1>12. NamesInv' /\ NumbersInv' /\ LiveInv'
  BY <1>3, <1>4, <1>6 DEF NamesInv, NumbersInv, LiveInv
<1>13. EndsInv'
  <2>1. SUFFICES ASSUME NEW i \in 1 .. Len(sent), NEW j \in 1 .. Len(sent), i < j, sent[i].end # 0
                 PROVE  IF sent[j].end # 0 THEN sent[i].end <= Begin(sent[j])
                        ELSE sent[i].end <= Len(heard')
    BY <1>3 DEF EndsInv
  <2>2. IF sent[j].end # 0 THEN sent[i].end <= Begin(sent[j]) ELSE sent[i].end <= Len(heard)
    BY <2>1 DEF EndsInv
  <2>3. sent[i].end \in Nat
    BY <1>1, FrameEncode
  <2> QED BY <1>1, <1>2, <1>5, <2>2, <2>3
<1> QED BY <1>4, <1>10, <1>11, <1>12, <1>13

\* A frame of which a hangup loses nothing, and one whose end it cuts off.
LEMMA CutOne ==
  ASSUME NEW f \in Frame, NEW h \in Nat, NEW g,
         g = IF f.end > h THEN [f EXCEPT !.end = 0] ELSE f
  PROVE  /\ g \in Frame /\ g.type = f.type /\ g.payload = f.payload /\ g.spoiled = f.spoiled
         /\ g.end <= h /\ (g.end # 0 => g = f) /\ Length(g) = Length(f)
         /\ g.end = 0 => f.end = 0 \/ f.end > h
<1>1. /\ g \in Frame /\ g.type = f.type /\ g.payload = f.payload /\ g.spoiled = f.spoiled
      /\ g.end <= h /\ (g.end # 0 => g = f) /\ (g.end = 0 => f.end = 0 \/ f.end > h)
  BY DEF Frame
<1> QED BY <1>1, SameEncode

LEMMA HangupCore ==
  ASSUME CoreInv, Hangup
  PROVE  CoreInv'
<1> USE DEF CoreInv
<1>1. /\ heard \in Bytes /\ wire \in Bytes /\ Len(heard) \in Nat /\ Len(sent) \in Nat
      /\ sent \in Seq(Frame) /\ Len(Stream) \in Nat /\ Len(heard) <= Len(Stream)
      /\ \A i \in 1 .. Len(sent) : sent[i] \in Frame
      /\ \A x \in 1 .. Len(heard) : x \in 1 .. Len(Stream) /\ Stream[x] = heard[x]
  BY StreamType, BytesType
<1> DEFINE m == Cut(sent)
           h == Len(heard)
<1>2. PICK n \in 0 .. Len(sent) :
        /\ m \in Seq(Frame) /\ Len(m) = n
        /\ \A i \in 1 .. n :
             /\ Begun(sent[i])
             /\ m[i] = IF sent[i].end > h THEN [sent[i] EXCEPT !.end = 0] ELSE sent[i]
        /\ \A i \in n + 1 .. Len(sent) : ~Begun(sent[i])
  BY CutIs
<1>3. /\ PeerGone /\ wire' = <<>> /\ sent' = m /\ half' \in BOOLEAN
      /\ buf' = buf /\ decoded' = decoded /\ heard' = heard
  <2>1. half \in BOOLEAN
    BY DEF StateOK
  <2> QED BY <2>1 DEF Hangup, InEscape
<1> HIDE DEF m
<1>4. ConnTypeOK' /\ ConnInv' /\ (Live' => Live)
  BY <1>3, ConnSafe DEF StateOK
<1>5. Stream' = heard
  BY <1>1, <1>3, CatNil DEF Stream
<1>6. ASSUME NEW i \in 1 .. n
      PROVE  /\ i \in 1 .. Len(sent) /\ m[i] \in Frame /\ m[i].type = sent[i].type
             /\ m[i].payload = sent[i].payload /\ m[i].end <= h
             /\ (m[i].end # 0 => m[i] = sent[i]) /\ Length(m[i]) = Length(sent[i])
             /\ m[i].end = 0 => sent[i].end = 0 \/ sent[i].end > h
  <2>1. i \in 1 .. Len(sent)
    BY <1>1, <1>2
  <2>2. m[i] = IF sent[i].end > h THEN [sent[i] EXCEPT !.end = 0] ELSE sent[i]
    BY <1>2
  <2> QED BY <1>1, <2>1, <2>2, CutOne
<1>7. n \in Nat /\ n <= Len(sent)
  BY <1>1, <1>2
<1>8. StateOK'
  <2>1. Len(m) <= MaxFrames
    BY <1>1, <1>2, <1>7, PatternAssumption DEF StateOK
  <2> QED BY <1>2, <1>3, <1>4, <2>1, NilType DEF StateOK
<1>9. NamesInv'
  <2>1. \A i \in 1 .. n : WellFormed(m[i], i)
    BY <1>6 DEF NamesInv, WellFormed
  <2> QED BY <1>2, <1>3, <2>1 DEF NamesInv
<1>10. EndsInv'
  <2>1. SUFFICES ASSUME NEW i \in 1 .. n, NEW j \in 1 .. n, i < j, m[i].end # 0
                 PROVE  IF m[j].end # 0 THEN m[i].end <= Begin(m[j]) ELSE m[i].end <= h
    BY <1>2, <1>3 DEF EndsInv
  <2>2. /\ i \in 1 .. Len(sent) /\ m[i] = sent[i] /\ m[i].end <= h
        /\ j \in 1 .. Len(sent) /\ (m[j].end # 0 => m[j] = sent[j])
    BY <1>6, <2>1
  <2> QED BY <2>1, <2>2 DEF EndsInv
<1>11. LiveInv'
  BY <1>2, <1>3, <1>5, <1>6 DEF LiveInv
<1>12. ASSUME NEW x \in 1 .. h, heard[x] \in Numbers
       PROVE  heard[x] \in 1 .. n
  <2> DEFINE b == heard[x]
  <2>1. b \in Numbers /\ b <= Len(sent) /\ (sent[b].end # 0 => Begin(sent[b]) < x)
    BY <1>1, <1>12 DEF NumbersInv
  <2>2. b \in Nat /\ b # 0
    BY <1>12, NumberType
  <2> HIDE DEF b
  <2>3. b \in 1 .. Len(sent) /\ sent[b] \in Frame /\ Begin(sent[b]) \in Int
    BY <1>1, <2>1, <2>2, FrameEncode
  <2>4. Begun(sent[b])
    <3>1. sent[b].end = 0 \/ Begin(sent[b]) < h
      BY <1>1, <2>1, <2>3
    <3> QED BY <2>3, <3>1, BegunIs
  <2>5. b \notin n + 1 .. Len(sent)
    BY <1>2, <2>4
  <2> QED BY <1>7, <2>3, <2>5 DEF b
<1>13. NumbersInv'
  <2>1. SUFFICES ASSUME NEW x \in 1 .. h, heard[x] \in Numbers
                 PROVE  /\ heard[x] <= n
                        /\ m[heard[x]].end # 0 => Begin(m[heard[x]]) < x
                        /\ \A y \in 1 .. h : x < y /\ heard[y] \in Numbers =>
                             /\ heard[x] <= heard[y]
                             /\ heard[x] = heard[y] => y - x < Length(m[heard[x]])
    BY <1>2, <1>3, <1>5 DEF NumbersInv
  <2> DEFINE b == heard[x]
  <2>2. /\ x \in 1 .. Len(Stream) /\ Stream[x] = b
        /\ (sent[b].end # 0 => Begin(sent[b]) < x)
        /\ \A y \in 1 .. Len(Stream) : x < y /\ Stream[y] \in Numbers =>
             b <= Stream[y] /\ (b = Stream[y] => y - x < Length(sent[b]))
    BY <1>1, <2>1 DEF NumbersInv
  <2>3. b \in 1 .. n
    BY <1>12, <2>1
  <2> HIDE DEF b
  <2>4. Length(m[b]) = Length(sent[b]) /\ (m[b].end # 0 => m[b] = sent[b])
    BY <1>6, <2>3
  <2>5. ASSUME NEW y \in 1 .. h, x < y, heard[y] \in Numbers
        PROVE  b <= heard[y] /\ (b = heard[y] => y - x < Length(m[b]))
    BY <1>1, <2>2, <2>4, <2>5
  <2> QED BY <2>2, <2>3, <2>4, <2>5 DEF b
<1>14. Fed'
  <2> DEFINE l == sent
  <2>1. \A i \in 1 .. Len(l) : i \in Numbers /\ WellFormed(l[i], i)
    BY <1>1, PatternAssumption DEF NamesInv, StateOK, Numbers
  <2>2. \A i \in 1 .. Len(m) : i \in Numbers /\ WellFormed(m[i], i)
    BY <1>2, <1>3, <1>6, <1>9, <2>1 DEF NamesInv
  <2>3. \A i \in 1 .. Len(l) : (\E x \in 1 .. Len(heard) : heard[x] = i) =>
          i \in 1 .. Len(m) /\ m[i].type = l[i].type /\ m[i].payload = l[i].payload
    BY <1>2, <1>6, <1>12, <2>1
  <2>4. \A i \in 1 .. Len(m) : (\E x \in 1 .. Len(heard) : heard[x] = i) =>
          i \in 1 .. Len(l) /\ m[i].type = l[i].type /\ m[i].payload = l[i].payload
    BY <1>2, <1>6
  <2>5. l \in Seq(Frame) /\ m \in Seq(Frame) /\ heard \in Bytes
    BY <1>1, <1>2
  <2>6. NumbersOf(l, Scan[heard].out) = NumbersOf(m, Scan[heard].out)
    <3> HIDE DEF l
    <3> QED BY <2>1, <2>2, <2>3, <2>4, <2>5, SameNumbers
  <2> QED BY <1>3, <2>6 DEF Fed
<1> QED BY <1>4, <1>8, <1>9, <1>10, <1>11, <1>13, <1>14

LEMMA AbortCore ==
  ASSUME CoreInv, ReadAborted
  PROVE  CoreInv'
<1> USE DEF CoreInv
<1>1. /\ heard \in Bytes /\ Len(heard) \in Nat
      /\ \A x \in 1 .. Len(heard) : x \in 1 .. Len(Stream) /\ Stream[x] = heard[x]
  BY StreamType
<1>2. /\ ReadFails /\ wire' = <<>> /\ sent' = sent /\ half' = half
      /\ buf' = buf /\ decoded' = decoded /\ heard' = heard
  BY DEF ReadAborted
<1>3. ConnTypeOK' /\ ConnInv' /\ ~Live'
  BY <1>2, ConnSafe DEF StateOK
<1>4. Stream' = heard
  BY <1>1, <1>2, CatNil DEF Stream
<1>5. StateOK' /\ NamesInv' /\ EndsInv' /\ Fed' /\ LiveInv'
  BY <1>2, <1>3, NilType DEF StateOK, NamesInv, EndsInv, Fed, LiveInv
<1>6. NumbersInv'
  BY <1>1, <1>2, <1>4 DEF NumbersInv
<1> QED BY <1>3, <1>5, <1>6

LEMMA InitCore == Init => CoreInv
<1> SUFFICES ASSUME Init PROVE CoreInv
  OBVIOUS
<1>1. /\ buf = <<>> /\ wire = <<>> /\ heard = <<>> /\ decoded = <<>> /\ sent = <<>>
      /\ half = FALSE
  BY DEF Init
<1>2. /\ <<>> \in Bytes /\ Len(<<>>) = 0 /\ <<>> \in Seq(Frame)
  BY NilType
<1>3. ConnTypeOK /\ ConnInv
  <2>1. ConnInit
    BY DEF Init
  <2>2. /\ pc = "check" /\ cancelled = FALSE /\ session = 0 /\ failures = 0
        /\ open = {} /\ watchers = {}
    BY <2>1 DEF ConnInit
  <2>3. session \in 0 .. MaxSessions /\ failures \in 0 .. MaxFailures
    BY <2>2, BoundAssumption
  <2> QED BY <2>2, <2>3 DEF ConnTypeOK, ConnInv
<1>4. Stream = <<>>
  BY <1>1, <1>2, CatNil DEF Stream
<1>5. StateOK
  <2>1. Len(sent) <= MaxFrames /\ sent \in Seq(Frame)
    BY <1>1, <1>2, PatternAssumption
  <2> QED BY <1>1, <1>2, <1>3, <2>1 DEF StateOK
<1>6. NamesInv /\ EndsInv /\ LiveInv
  BY <1>1 DEF NamesInv, EndsInv, LiveInv
<1>7. NumbersInv
  BY <1>2, <1>4 DEF NumbersInv
<1>8. Fed
  <2>1. NumbersOf(sent, <<>>) = <<>>
    BY DEF NumbersOf
  <2> QED BY <1>1, <2>1, ScanNil DEF Fed
<1> QED BY <1>3, <1>5, <1>6, <1>7, <1>8 DEF CoreInv

LEMMA NextCore == CoreInv /\ [Next]_vars => CoreInv'
<1> SUFFICES ASSUME CoreInv, [Next]_vars PROVE CoreInv'
  OBVIOUS
<1>1. CASE Connect \/ Control \/ UNCHANGED vars
  BY <1>1, ControlCore DEF Connect, Control, vars
<1>2. CASE \E p \in Patterns : Send(p)
  BY <1>2, SendCore
<1>3. CASE \E n \in 1 .. Len(wire) : Read(n)
  BY <1>3, ReadCore
<1>4. CASE Hangup
  BY <1>4, HangupCore
<1>5. CASE ReadAborted
  BY <1>5, AbortCore
<1> QED BY <1>1, <1>2, <1>3, <1>4, <1>5 DEF Next

LEMMA Core == Spec => []CoreInv
BY InitCore, NextCore, PTL DEF Spec

-----------------------------------------------------------------------------
(***************************************************************************)
(* The theorems.                                                           *)
(***************************************************************************)

\* The types; what decoded holds are numbers of frames that were sent.
THEOREM FeedTypes == Spec => []TypeOK
<1>1. CoreInv => TypeOK
  <2> SUFFICES ASSUME CoreInv PROVE TypeOK
    OBVIOUS
  <2>1. /\ heard \in Bytes /\ decoded = NumbersOf(sent, Scan[heard].out) /\ sent \in Seq(Frame)
    BY DEF CoreInv, StateOK, Fed
  <2>2. decoded \in Seq(0 .. Len(sent))
    BY <2>1, ScanType, NumbersOfType
  <2> QED BY <2>2 DEF TypeOK, CoreInv, StateOK, Frame
<1> QED BY <1>1, Core, PTL

\* However the stream was cut into chunks, over however many sessions, Feed has made
\* of it what it makes of the whole of it.
THEOREM ChunksDoNotMatter == Spec => []ChunkingIsInvisible
<1>1. CoreInv => ChunkingIsInvisible
  <2> SUFFICES ASSUME CoreInv PROVE ChunkingIsInvisible
    OBVIOUS
  <2>1. heard \in Bytes /\ StateOK /\ Fed
    BY DEF CoreInv, StateOK
  <2>2. Feed(<<>>, heard) = Scan[heard]
    BY <2>1, CatNil DEF Feed, Cat
  <2>3. Accepted(Scan[heard].out) = NumbersOf(sent, Scan[heard].out)
    BY <2>1, ScanType, AcceptedIs
  <2> QED BY <2>1, <2>2, <2>3 DEF ChunkingIsInvisible, Fed
<1> QED BY <1>1, Core, PTL

\* What Feed keeps for the next read is shorter than two frames, or holds no start of
\* a frame.
THEOREM BufferIsBounded == Spec => []BufferBounded
<1>1. CoreInv => BufferBounded
  <2> SUFFICES ASSUME CoreInv, Starts(buf) # {} PROVE Len(buf) < BufferLimit
    BY DEF BufferBounded
  <2>1. heard \in Bytes /\ buf = Scan[heard].buf
    BY DEF CoreInv, StateOK, Fed
  <2>2. Candidate(buf) /\ Waits(buf)
    BY <2>1, ScanLeft
  <2>3. /\ buf[2] \in Types /\ Len(buf) < 2 * MinLen[buf[2]] /\ Len(buf) \in Nat
    BY <2>2, BytesType DEF Waits, MayGrow, Candidate
  <2>4. MinLen[buf[2]] \in Nat /\ MinLen[Long] \in Nat /\ MinLen[buf[2]] <= MinLen[Long]
    BY <2>3, LongType, FramingAssumption
  <2> QED BY <2>3, <2>4 DEF BufferLimit
<1> QED BY <1>1, Core, PTL

\* A message of the stream that is the frame with number n holds that number.
LEMMA NumberInFrame ==
  ASSUME StateOK, NamesInv, NEW p \in Bytes, NEW n \in Matches(sent, p)
  PROVE  /\ n \in 1 .. Len(sent) /\ n \in Numbers
         /\ Message(p) \in Bytes /\ Len(Message(p)) = Length(sent[n])
         /\ \E o \in 1 .. Len(Message(p)) : Message(p)[o] = n
<1> DEFINE f == sent[n]
<1>1. n \in 1 .. Len(sent) /\ f.type = Long /\ f.payload = p /\ f \in Frame
  BY SentType DEF Matches, StateOK
<1>2. WellFormed(f, n) /\ n \in Numbers
  <2>1. Len(sent) \in Nat /\ Len(sent) <= MaxFrames /\ MaxFrames \in Nat
    BY SentType, PatternAssumption DEF StateOK
  <2> QED BY <1>1, <2>1 DEF NamesInv, Numbers
<1> HIDE DEF f
<1>3. Holds(p, n)
  BY <1>1, <1>2 DEF WellFormed
<1>4. Encode(f) = Message(p) /\ Message(p) \in Bytes /\ Len(Encode(f)) = Length(f)
  BY <1>1, FrameEncode, LongType DEF Message
<1>5. Holds(Encode(f), n)
  BY <1>1, <1>2, <1>3, LongType, NumberType, HoldsEncode
<1> QED BY <1>1, <1>2, <1>4, <1>5 DEF Holds, f

\* The tracker is given the frames in the order they were sent, and each once:
\* what a session left behind is never joined to what the next one brings.
THEOREM FramesInOrder == Spec => []InOrderOnce
<1>1. CoreInv => InOrderOnce
  <2> SUFFICES ASSUME CoreInv PROVE InOrderOnce
    OBVIOUS
  <2> DEFINE o == Scan[heard].out
  <2>1. /\ heard \in Bytes /\ sent \in Seq(Frame) /\ decoded = NumbersOf(sent, o)
        /\ StateOK /\ NamesInv /\ NumbersInv
        /\ \A x \in 1 .. Len(heard) : x \in 1 .. Len(Stream) /\ Stream[x] = heard[x]
    BY StreamType DEF CoreInv, Fed
  <2>2. o \in Seq(Bytes) /\ Len(o) \in Nat /\ \A k \in 1 .. Len(o) : o[k] \in Bytes
    BY <2>1, ScanType
  <2>3. DOMAIN decoded = 1 .. Len(o) /\ \A k \in 1 .. Len(o) : decoded[k] = NumberOf(sent, o[k])
    BY <2>1 DEF NumbersOf
  <2>4. ASSUME NEW i \in 1 .. Len(o), NEW j \in 1 .. Len(o), i < j,
               decoded[i] # 0, decoded[j] # 0
        PROVE  decoded[i] < decoded[j]
    <3> DEFINE a == decoded[i]
               b == decoded[j]
               d == Message(o[i])
               e == Message(o[j])
    <3>1. /\ a \in Matches(sent, o[i]) /\ b \in Matches(sent, o[j])
          /\ o[i] \in Bytes /\ o[j] \in Bytes
      BY <2>1, <2>2, <2>3, <2>4, NumberOfType
    <3>2. PICK p, q, z \in Bytes : heard = Cat(p, Cat(d, Cat(q, Cat(e, z))))
      BY <2>1, <2>4, BothInStream
    <3> HIDE DEF o
    <3>3. /\ a \in 1 .. Len(sent) /\ a \in Numbers /\ d \in Bytes /\ Len(d) = Length(sent[a])
          /\ b \in Numbers /\ b \in 1 .. Len(sent) /\ e \in Bytes
      BY <2>1, <3>1, NumberInFrame
    <3>4. PICK k \in 1 .. Len(d) : d[k] = a
      BY <2>1, <3>1, NumberInFrame
    <3>5. PICK l \in 1 .. Len(e) : e[l] = b /\ (a = b => l = k)
      <4>1. CASE a = b
        <5>1. o[i] = o[j]
          BY <3>1, <4>1 DEF Matches
        <5> QED BY <3>4, <4>1, <5>1
      <4>2. CASE a # b
        <5>1. \E l \in 1 .. Len(e) : e[l] = b
          BY <2>1, <3>1, NumberInFrame
        <5> QED BY <4>2, <5>1
      <4> QED BY <4>1, <4>2
    <3> HIDE DEF a, b, d, e
    <3> DEFINE u == Cat(e, z)
               v == Cat(q, u)
               s == Cat(p, Cat(d, q))
               x == Len(p) + k
               y == Len(s) + l
    <3>6. u \in Bytes /\ v \in Bytes /\ Cat(d, q) \in Bytes
      BY <3>3, CatType
    <3>7. s \in Bytes /\ heard = Cat(s, u)
      <4>1. heard = Cat(p, Cat(d, Cat(q, u)))
        BY <3>2
      <4> HIDE DEF u
      <4>2. Cat(d, Cat(q, u)) = Cat(Cat(d, q), u)
        BY <3>3, <3>6, CatAssociative
      <4>3. Cat(p, Cat(Cat(d, q), u)) = Cat(Cat(p, Cat(d, q)), u) /\ Cat(p, Cat(d, q)) \in Bytes
        BY <3>6, CatAssociative, CatType
      <4> QED BY <4>1, <4>2, <4>3
    <3>8. Len(s) = Len(p) + (Len(d) + Len(q))
      <4>1. Len(Cat(d, q)) = Len(d) + Len(q)
        BY <3>3, CatType
      <4> DEFINE w == Cat(d, q)
      <4> HIDE DEF w
      <4>2. Len(Cat(p, w)) = Len(p) + Len(w)
        BY <3>6, CatType DEF w
      <4> QED BY <4>1, <4>2 DEF w
    <3>9. x \in 1 .. Len(heard) /\ heard[x] = a
      <4>1. heard = Cat(p, Cat(d, v))
        BY <3>2
      <4> HIDE DEF v
      <4>2. Len(p) + k \in 1 .. Len(Cat(p, Cat(d, v))) /\ Cat(p, Cat(d, v))[Len(p) + k] = d[k]
        <5>1. p \in Bytes /\ d \in Bytes /\ v \in Bytes /\ k \in 1 .. Len(d)
          BY <3>3, <3>4, <3>6
        <5> QED BY <5>1, CatMid
      <4> QED BY <3>4, <4>1, <4>2
    <3>10. y \in 1 .. Len(heard) /\ heard[y] = b
      <4>1. heard = Cat(s, Cat(e, z))
        BY <3>7
      <4> HIDE DEF s
      <4>2. Len(s) + l \in 1 .. Len(Cat(s, Cat(e, z))) /\ Cat(s, Cat(e, z))[Len(s) + l] = e[l]
        <5>1. s \in Bytes /\ e \in Bytes /\ z \in Bytes /\ l \in 1 .. Len(e)
          BY <3>3, <3>5, <3>7
        <5> QED BY <5>1, CatMid
      <4> QED BY <3>5, <4>1, <4>2
    <3>11. /\ Len(p) \in Nat /\ Len(d) \in Nat /\ Len(q) \in Nat
           /\ k \in 1 .. Len(d) /\ l \in Nat /\ l > 0
      BY <3>3, <3>5, BytesType
    <3> HIDE DEF s, u, v
    <3>12. x < y /\ (a = b => ~(y - x < Len(d)))
      BY <3>5, <3>8, <3>11
    <3> HIDE DEF x, y
    <3>13. a <= b /\ (a = b => y - x < Length(sent[a]))
      BY <2>1, <3>3, <3>9, <3>10, <3>12 DEF NumbersInv
    <3>14. a # b
      BY <3>3, <3>12, <3>13
    <3>15. a < b
      BY <3>3, <3>13, <3>14
    <3> QED BY <3>15 DEF a, b
  <2> HIDE DEF o
  <2> QED BY <2>3, <2>4 DEF InOrderOnce
<1> QED BY <1>1, Core, PTL

-----------------------------------------------------------------------------
(***************************************************************************)
(* The escape bytes at the end of a list.  When their number is even, none *)
(* of them can be the first half of an escape whose second half is the     *)
(* start of the next frame.                                                *)
(***************************************************************************)

LEMMA CatBehind ==
  ASSUME NEW s \in Bytes, NEW t \in Bytes, NEW k \in 1 .. Len(t)
  PROVE  Cat(s, t)[Len(s) + k] = t[k]
<1>1. Len(s) \in Nat /\ Len(t) \in Nat
  BY BytesType
<1>2. Len(s) + k \in 1 .. Len(s) + Len(t) /\ ~(Len(s) + k <= Len(s)) /\ (Len(s) + k) - Len(s) = k
  BY <1>1
<1> QED BY <1>2, CatAt

\* The last byte of s that is no escape byte is at n; there is none when n is 0.
PlainEnd(s, n) == (n = 0 \/ s[n] # Esc) /\ \A k \in n + 1 .. Len(s) : s[k] = Esc

EvenEnd(s) == \E n \in 0 .. Len(s), k \in Nat : PlainEnd(s, n) /\ Len(s) = n + 2 * k

LEMMA EvenNil == EvenEnd(<<>>)
<1>1. Len(<<>>) = 0 /\ PlainEnd(<<>>, 0) /\ 0 \in Nat
  BY DEF PlainEnd
<1> HIDE DEF PlainEnd
<1>2. 0 \in 0 .. Len(<<>>) /\ Len(<<>>) = 0 + 2 * 0
  BY <1>1
<1> QED BY <1>1, <1>2 DEF EvenEnd

\* What comes before a byte that is no escape byte makes no difference.
LEMMA EvenBehind ==
  ASSUME NEW a \in Bytes, NEW y \in Bytes, NEW j \in 1 .. Len(y), y[j] # Esc
  PROVE  EvenEnd(Cat(a, y)) <=> EvenEnd(y)
<1> DEFINE s == Cat(a, y)
<1>1. /\ s \in Bytes /\ Len(s) = Len(a) + Len(y) /\ Len(a) \in Nat /\ Len(y) \in Nat
  BY CatType, BytesType
<1>2. \A k \in 1 .. Len(y) : s[Len(a) + k] = y[k]
  BY CatBehind
<1> HIDE DEF s
<1>3. ASSUME EvenEnd(y) PROVE EvenEnd(s)
  <2>1. PICK n \in 0 .. Len(y), k \in Nat : PlainEnd(y, n) /\ Len(y) = n + 2 * k
    BY <1>3 DEF EvenEnd
  <2>2. n # 0
    BY <2>1 DEF PlainEnd
  <2> DEFINE m == Len(a) + n
  <2>3. m \in 0 .. Len(s) /\ Len(s) = m + 2 * k
    BY <1>1, <2>1
  <2>4. s[m] # Esc
    BY <1>1, <1>2, <2>1, <2>2 DEF PlainEnd
  <2>5. ASSUME NEW l \in m + 1 .. Len(s) PROVE s[l] = Esc
    <3>1. l - Len(a) \in n + 1 .. Len(y) /\ l - Len(a) \in 1 .. Len(y)
          /\ Len(a) + (l - Len(a)) = l
      BY <1>1, <2>1
    <3>2. y[l - Len(a)] = Esc
      BY <2>1, <3>1 DEF PlainEnd
    <3>3. s[Len(a) + (l - Len(a))] = y[l - Len(a)]
      BY <1>2, <3>1
    <3> QED BY <3>1, <3>2, <3>3
  <2> HIDE DEF m
  <2> QED BY <2>1, <2>3, <2>4, <2>5 DEF EvenEnd, PlainEnd
<1>4. ASSUME EvenEnd(s) PROVE EvenEnd(y)
  <2>1. PICK m \in 0 .. Len(s), k \in Nat : PlainEnd(s, m) /\ Len(s) = m + 2 * k
    BY <1>4 DEF EvenEnd
  <2>2. Len(a) + j \in 1 .. Len(s) /\ s[Len(a) + j] # Esc
    BY <1>1, <1>2
  <2>3. Len(a) + j <= m
    BY <1>1, <2>1, <2>2 DEF PlainEnd
  <2> DEFINE n == m - Len(a)
  <2>4. n \in 1 .. Len(y) /\ n \in 0 .. Len(y) /\ Len(y) = n + 2 * k /\ Len(a) + n = m
    BY <1>1, <2>1, <2>3
  <2>5. y[n] # Esc
    <3>1. s[Len(a) + n] = y[n] /\ m # 0
      BY <1>1, <1>2, <2>3, <2>4
    <3> QED BY <2>1, <2>4, <3>1 DEF PlainEnd
  <2>6. ASSUME NEW l \in n + 1 .. Len(y) PROVE y[l] = Esc
    <3>1. l \in 1 .. Len(y) /\ Len(a) + l \in m + 1 .. Len(s)
      BY <1>1, <2>4
    <3> QED BY <1>2, <2>1, <3>1 DEF PlainEnd
  <2> HIDE DEF n
  <2> QED BY <2>4, <2>5, <2>6 DEF EvenEnd, PlainEnd
<1> QED BY <1>3, <1>4 DEF s

\* Nor does data, which doubles its escape bytes.
LEMMA EvenPut ==
  ASSUME NEW b \in Byte, NEW t \in Bytes
  PROVE  EvenEnd(Put(b, t)) <=> EvenEnd(t)
<1>1. CASE \E j \in 1 .. Len(t) : t[j] # Esc
  <2>1. PICK j \in 1 .. Len(t) : t[j] # Esc
    BY <1>1
  <2> DEFINE e == Put(b, <<>>)
  <2>2. e \in Bytes /\ Cat(e, t) = Put(b, t)
    BY PutType, NilType, CatNil
  <2> HIDE DEF e
  <2> QED BY <2>1, <2>2, EvenBehind
<1>2. CASE \A j \in 1 .. Len(t) : t[j] = Esc
  <2> DEFINE x == Put(b, t)
             w == IF b = Esc THEN 2 ELSE 1
  <2>1. /\ x \in Bytes /\ Len(x) = Len(t) + w /\ Len(t) \in Nat /\ x[1] = b
        /\ \A k \in 1 .. Len(t) : x[w + k] = t[k]
        /\ b = Esc => x[2] = Esc
    <3>1. CASE b = Esc
      <4> DEFINE y == Cons(Esc, t)
      <4>1. /\ y \in Bytes /\ Len(y) = Len(t) + 1 /\ y[1] = Esc /\ Len(t) \in Nat
            /\ \A k \in 1 .. Len(t) : y[k + 1] = t[k]
        BY <3>1, ConsType, BytesType
      <4> HIDE DEF y
      <4>2. x = Cons(Esc, y)
        BY <3>1 DEF Put, y
      <4>3. /\ x \in Bytes /\ Len(x) = Len(y) + 1 /\ x[1] = Esc
            /\ \A k \in 1 .. Len(y) : x[k + 1] = y[k]
        <5> HIDE DEF x
        <5>1. Esc \in Byte /\ y \in Bytes
          BY <4>1, LongType
        <5> DEFINE z == Cons(Esc, y)
        <5>2. /\ z \in Bytes /\ Len(z) = Len(y) + 1 /\ z[1] = Esc
              /\ \A k \in 1 .. Len(y) : z[k + 1] = y[k]
          BY <5>1, ConsType
        <5>3. x = z
          BY <4>2
        <5> HIDE DEF z
        <5> QED BY <5>2, <5>3
      <4> HIDE DEF x
      <4>4. x[1 + 1] = y[1]
        <5>1. 1 \in 1 .. Len(y)
          BY <4>1
        <5> QED BY <4>3, <5>1
      <4>5. ASSUME NEW k \in 1 .. Len(t) PROVE x[2 + k] = t[k]
        <5>1. k + 1 \in 1 .. Len(y) /\ (k + 1) + 1 = 2 + k
          BY <4>1
        <5>2. x[(k + 1) + 1] = y[k + 1]
          BY <4>3, <5>1
        <5> QED BY <4>1, <5>1, <5>2
      <4> QED BY <3>1, <4>1, <4>3, <4>4, <4>5
    <3>2. CASE b # Esc
      <4>1. x = Cons(b, t)
        BY <3>2 DEF Put
      <4>2. /\ x \in Bytes /\ Len(x) = Len(t) + 1 /\ x[1] = b /\ Len(t) \in Nat
            /\ \A k \in 1 .. Len(t) : x[k + 1] = t[k]
        BY <4>1, ConsType, BytesType
      <4> HIDE DEF x
      <4> QED BY <3>2, <4>2
    <3> QED BY <3>1, <3>2
  <2> HIDE DEF x
  <2>2. EvenEnd(t) <=> \E k \in Nat : Len(t) = 2 * k
    <3>1. ASSUME NEW n \in 0 .. Len(t), PlainEnd(t, n) PROVE n = 0
      BY <1>2, <2>1, <3>1 DEF PlainEnd
    <3>2. PlainEnd(t, 0) /\ 0 \in 0 .. Len(t)
      BY <1>2, <2>1 DEF PlainEnd
    <3>3. \A k \in Nat : 0 + 2 * k = 2 * k
      OBVIOUS
    <3> QED BY <3>1, <3>2, <3>3 DEF EvenEnd
  <2>3. CASE b = Esc
    <3>1. \A k \in 1 .. Len(x) : x[k] = Esc
      <4> TAKE k \in 1 .. Len(x)
      <4>1. k = 1 \/ k = 2 \/ (k - 2 \in 1 .. Len(t) /\ 2 + (k - 2) = k)
        BY <2>1, <2>3
      <4> QED BY <1>2, <2>1, <2>3, <4>1
    <3>2. EvenEnd(x) <=> \E k \in Nat : Len(x) = 2 * k
      <4>1. ASSUME NEW n \in 0 .. Len(x), PlainEnd(x, n) PROVE n = 0
        BY <3>1, <2>1, <4>1, BytesType DEF PlainEnd
      <4>2. PlainEnd(x, 0) /\ 0 \in 0 .. Len(x)
        BY <3>1, <2>1, <2>3 DEF PlainEnd
      <4>3. \A k \in Nat : 0 + 2 * k = 2 * k
        OBVIOUS
      <4> QED BY <4>1, <4>2, <4>3 DEF EvenEnd
    <3>3. (\E k \in Nat : Len(x) = 2 * k) <=> (\E k \in Nat : Len(t) = 2 * k)
      <4>1. Len(x) = Len(t) + 2
        BY <2>1, <2>3
      <4>2. ASSUME NEW k \in Nat, Len(x) = 2 * k PROVE k - 1 \in Nat /\ Len(t) = 2 * (k - 1)
        BY <2>1, <4>1, <4>2
      <4>3. ASSUME NEW k \in Nat, Len(t) = 2 * k PROVE k + 1 \in Nat /\ Len(x) = 2 * (k + 1)
        BY <2>1, <4>1, <4>3
      <4> QED BY <4>2, <4>3
    <3> QED BY <2>2, <3>2, <3>3 DEF x
  <2>4. CASE b # Esc
    <3>1. \A k \in 2 .. Len(x) : x[k] = Esc
      <4> TAKE k \in 2 .. Len(x)
      <4>1. k - 1 \in 1 .. Len(t) /\ 1 + (k - 1) = k
        BY <2>1, <2>4
      <4> QED BY <1>2, <2>1, <2>4, <4>1
    <3>2. EvenEnd(x) <=> \E k \in Nat : Len(x) = 1 + 2 * k
      <4>1. ASSUME NEW n \in 0 .. Len(x), PlainEnd(x, n) PROVE n = 1
        <5>1. 1 \in 1 .. Len(x) /\ Len(x) \in Nat
          BY <2>1, <2>4
        <5>2. n # 0
          BY <2>1, <2>4, <4>1, <5>1 DEF PlainEnd
        <5> QED BY <3>1, <4>1, <5>1, <5>2 DEF PlainEnd
      <4>2. PlainEnd(x, 1) /\ 1 \in 0 .. Len(x)
        BY <3>1, <2>1, <2>4 DEF PlainEnd
      <4> QED BY <4>1, <4>2 DEF EvenEnd
    <3>3. (\E k \in Nat : Len(x) = 1 + 2 * k) <=> (\E k \in Nat : Len(t) = 2 * k)
      <4>1. Len(x) = Len(t) + 1
        BY <2>1, <2>4
      <4> QED BY <2>1, <4>1
    <3> QED BY <2>2, <3>2, <3>3 DEF x
  <2> QED BY <2>3, <2>4
<1> QED BY <1>1, <1>2

\* A single escape byte.
LEMMA OneEscape ==
  /\ Cons(Esc, <<>>) \in Bytes /\ Len(Cons(Esc, <<>>)) = 1 /\ Cons(Esc, <<>>)[1] = Esc
  /\ \A y \in Bytes : Cat(Cons(Esc, <<>>), y) = Cons(Esc, y)
<1> DEFINE n == <<>>
<1>1. n \in Bytes /\ Len(n) = 0 /\ Esc \in Byte
  BY NilType, LongType
<1>2. \A y \in Bytes : Cat(n, y) = y
  BY CatNil
<1> HIDE DEF n
<1>3. Cons(Esc, n) \in Bytes /\ Len(Cons(Esc, n)) = Len(n) + 1 /\ Cons(Esc, n)[1] = Esc
  BY <1>1, ConsType
<1>4. ASSUME NEW y \in Bytes PROVE Cat(Cons(Esc, n), y) = Cons(Esc, y)
  <2>1. Cat(Cons(Esc, n), y) = Cons(Esc, Cat(n, y))
    BY <1>1, ConsCat
  <2> QED BY <1>2, <2>1
<1> QED BY <1>1, <1>3, <1>4 DEF n

LEMMA OneIsOdd == ~EvenEnd(Cons(Esc, <<>>))
<1> DEFINE x == Cons(Esc, <<>>)
<1>1. Len(x) = 1 /\ x[1] = Esc
  BY OneEscape
<1> HIDE DEF x
<1>2. SUFFICES ASSUME NEW n \in 0 .. 1, NEW k \in Nat, PlainEnd(x, n), 1 = n + 2 * k
               PROVE  FALSE
  BY <1>1 DEF EvenEnd, x
<1>3. n = 0
  BY <1>1, <1>2 DEF PlainEnd
<1> QED BY <1>2, <1>3

\* A frame, or the part of one that ends between two bytes of its data, ends so.
LEMMA EvenEscaped ==
  ASSUME NEW p \in Bytes
  PROVE  EvenEnd(Escaped[p])
<1> DEFINE T == {s \in Bytes : ~EvenEnd(Escaped[s])}
<1>1. T = {}
  <2> SUFFICES ASSUME T # {} PROVE FALSE
    OBVIOUS
  <2>1. PICK s \in T : \A t \in Bytes : Len(t) < Len(s) => t \notin T
    <3>1. T \subseteq Bytes
      OBVIOUS
    <3> HIDE DEF T
    <3> QED BY <3>1, Shortest
  <2>2. s \in Bytes /\ ~EvenEnd(Escaped[s]) /\ s # <<>>
    BY <2>1, EscapedType, EvenNil
  <2>3. PICK b \in Byte, t \in Bytes : s = Cons(b, t) /\ Len(t) = Len(s) - 1
    BY <2>2, ConsCases
  <2>4. EvenEnd(Escaped[t])
    <3>1. Len(t) < Len(s)
      BY <2>2, <2>3, BytesType
    <3> QED BY <2>1, <3>1
  <2> DEFINE e == Escaped[t]
  <2>5. Escaped[s] = Put(b, e) /\ e \in Bytes /\ EvenEnd(e)
    BY <2>3, <2>4, EscapedType
  <2> HIDE DEF e
  <2> QED BY <2>2, <2>5, EvenPut
<1> QED BY <1>1

LEMMA EvenData ==
  ASSUME NEW a \in Bytes, NEW t \in Byte \ {Esc}, NEW p \in Bytes
  PROVE  EvenEnd(Cat(a, Cons(t, Escaped[p])))
<1> DEFINE e == Escaped[p]
<1>1. e \in Bytes /\ EvenEnd(e)
  BY EscapedType, EvenEscaped
<1> HIDE DEF e
<1> DEFINE y == Cons(t, e)
<1>2. y \in Bytes /\ Len(y) = Len(e) + 1 /\ y[1] = t /\ y = Put(t, e) /\ Len(e) \in Nat
  BY <1>1, ConsType, BytesType DEF Put
<1> HIDE DEF y
<1>3. EvenEnd(y) /\ 1 \in 1 .. Len(y)
  BY <1>1, <1>2, EvenPut
<1> QED BY <1>2, <1>3, EvenBehind DEF y, e

-----------------------------------------------------------------------------
(***************************************************************************)
(* Where Feed finds a frame that follows others, or what is left of them.  *)
(***************************************************************************)

LEMMA ConsSame ==
  ASSUME NEW a \in Byte, NEW s \in Bytes, NEW b \in Byte, NEW t \in Bytes, Cons(a, s) = Cons(b, t)
  PROVE  a = b /\ s = t
<1>1. Head(Cons(a, s)) = a /\ Tail(Cons(a, s)) = s
  BY ConsType
<1>2. Head(Cons(b, t)) = b /\ Tail(Cons(b, t)) = t
  BY ConsType
<1> QED BY <1>1, <1>2

LEMMA PutSame ==
  ASSUME NEW b \in Byte, NEW s \in Bytes, NEW t \in Bytes, Put(b, s) = Put(b, t)
  PROVE  s = t
<1>1. Drop(Put(b, s), Width(b)) = s
  BY PutIs
<1>2. Drop(Put(b, t), Width(b)) = t
  BY PutIs
<1> QED BY <1>1, <1>2

\* The first start in a stream is a frame's own, or lies in what comes before it.
LEMMA FirstStart ==
  ASSUME NEW x \in Bytes, NEW f, Candidate(f)
  PROVE  /\ Starts(Cat(x, f)) # {}
         /\ \E p, y \in Bytes :
              /\ x = Cat(p, y) /\ FromStart(Cat(x, f)) = Cat(y, f)
              /\ y = <<>> \/ \E t \in Bytes : y = Cons(Esc, t) /\ t # <<>> /\ t[1] # Esc
<1> DEFINE b == Cat(x, f)
<1>1. /\ f \in Bytes /\ Len(f) \in Nat /\ Len(f) >= 2 /\ f[1] = Esc /\ f[2] # Esc
      /\ Len(x) \in Nat
  BY BytesType DEF Candidate
<1>2. b \in Bytes /\ Len(b) = Len(x) + Len(f)
  BY <1>1, CatType
<1>3. b[Len(x) + 1] = Esc /\ b[Len(x) + 2] # Esc
  <2>1. 1 \in 1 .. Len(f) /\ 2 \in 1 .. Len(f)
    BY <1>1
  <2>2. b[Len(x) + 1] = f[1]
    BY <1>1, <2>1, CatBehind
  <2>3. b[Len(x) + 2] = f[2]
    BY <1>1, <2>1, CatBehind
  <2> QED BY <1>1, <2>2, <2>3
<1> HIDE DEF b
<1>4. Len(x) + 1 \in Starts(b)
  <2>1. Len(x) + 1 \in 1 .. Len(b) - 1 /\ (Len(x) + 1) + 1 = Len(x) + 2
    BY <1>1, <1>2
  <2> QED BY <1>3, <2>1 DEF Starts
<1>5. PICK m \in Starts(b) : \A k \in Starts(b) : m <= k
  <2>1. Starts(b) \subseteq Nat
    BY <1>2, BytesType DEF Starts
  <2> QED BY <1>4, <2>1, LeastNatural
<1> DEFINE n == m - 1
           p == SubSeq(x, 1, n)
           y == Drop(x, n)
<1>6. n \in 0 .. Len(x) /\ n \in Nat
  <2>1. m \in Nat /\ m >= 1 /\ m <= Len(x) + 1
    BY <1>2, <1>4, <1>5, BytesType DEF Starts
  <2> QED BY <1>1, <2>1
<1>7. Min(Starts(b)) = m
  <2> DEFINE S == Starts(b)
  <2>1. m \in S /\ \A k \in S : m <= k /\ k \in Int
    BY <1>2, <1>5, BytesType DEF Starts
  <2> HIDE DEF S
  <2>2. Min(S) \in S /\ \A k \in S : Min(S) <= k
    BY <2>1 DEF Min
  <2>3. Min(S) <= m /\ m <= Min(S) /\ Min(S) \in Int /\ m \in Int
    BY <2>1, <2>2
  <2> QED BY <2>3 DEF S
<1>8. p \in Bytes /\ y \in Bytes /\ Len(p) = n /\ x = Cat(p, y)
  BY <1>6, FrontType, DropType, Split
<1>9. FromStart(b) = Drop(b, n)
  BY <1>7 DEF FromStart
<1> HIDE DEF p, y, n
<1> DEFINE c == Cat(y, f)
<1>10. c \in Bytes /\ b = Cat(p, c)
  BY <1>1, <1>8, CatType, CatAssociative DEF b
<1> HIDE DEF c
<1>11. FromStart(b) = c
  BY <1>8, <1>9, <1>10, Parts
<1>12. Candidate(c)
  BY <1>2, <1>4, <1>11, FromStartIs
<1>13. ASSUME y # <<>>
       PROVE  \E t \in Bytes : y = Cons(Esc, t) /\ t # <<>> /\ t[1] # Esc
  <2>1. PICK a \in Byte, t \in Bytes : y = Cons(a, t)
    BY <1>8, <1>13, ConsCases
  <2> DEFINE d == Cat(t, f)
  <2>2. c = Cons(a, d) /\ d \in Bytes
    BY <1>1, <2>1, ConsCat, CatType DEF c
  <2>3. d # <<>>
    <3>1. Len(d) = Len(t) + Len(f) /\ Len(t) \in Nat
      BY <1>1, CatType, BytesType
    <3> HIDE DEF d
    <3> QED BY <1>1, <2>2, <3>1, NilType
  <2> HIDE DEF d
  <2>4. a = Esc /\ d[1] # Esc
    <3>1. c[1] = a /\ c[2] = d[1]
      BY <2>2, <2>3, ConsType, ConsSecond
    <3> QED BY <1>12, <3>1 DEF Candidate
  <2>5. t # <<>>
    BY <1>1, <2>4, CatNil DEF d
  <2>6. d[1] = t[1]
    <3>1. Len(t) \in Nat /\ Len(t) # 0
      BY <2>5, NilType, BytesType
    <3>2. 1 \in 1 .. Len(t) + Len(f) /\ 1 <= Len(t)
      BY <1>1, <3>1
    <3> QED BY <1>1, <3>2, CatAt DEF d
  <2> QED BY <2>1, <2>4, <2>5, <2>6
<1> QED BY <1>4, <1>8, <1>11, <1>13 DEF b, c

\* Behind what holds no start the frame itself is found.
LEMMA NoStartBefore ==
  ASSUME NEW x \in Bytes, Starts(x) = {}, NEW f, Candidate(f)
  PROVE  Starts(Cat(x, f)) # {} /\ FromStart(Cat(x, f)) = f
<1>1. PICK p, y \in Bytes :
        /\ x = Cat(p, y) /\ FromStart(Cat(x, f)) = Cat(y, f)
        /\ y = <<>> \/ \E t \in Bytes : y = Cons(Esc, t) /\ t # <<>> /\ t[1] # Esc
  BY FirstStart
<1>2. Starts(Cat(x, f)) # {} /\ f \in Bytes
  BY FirstStart DEF Candidate
<1>3. y = <<>>
  <2> SUFFICES ASSUME NEW t \in Bytes, y = Cons(Esc, t), t # <<>>, t[1] # Esc
               PROVE  FALSE
    BY <1>1
  <2>1. /\ y[1] = Esc /\ y[2] # Esc /\ Len(y) >= 2 /\ Len(y) \in Nat /\ Len(p) \in Nat
    <3>1. y[1] = Esc /\ y[2] = t[1] /\ Len(y) = Len(t) + 1
      BY LongType, ConsType, ConsSecond
    <3>2. Len(t) \in Nat /\ Len(t) # 0 /\ Len(p) \in Nat
      BY NilType, BytesType
    <3> QED BY <3>1, <3>2
  <2>2. Len(x) = Len(p) + Len(y)
    BY <1>1, CatType
  <2>3. x[Len(p) + 1] = Esc /\ x[Len(p) + 2] # Esc
    <3>1. 1 \in 1 .. Len(y) /\ 2 \in 1 .. Len(y)
      BY <2>1
    <3>2. x[Len(p) + 1] = y[1]
      BY <1>1, <3>1, CatBehind
    <3>3. x[Len(p) + 2] = y[2]
      BY <1>1, <3>1, CatBehind
    <3> QED BY <2>1, <3>2, <3>3
  <2>4. Len(p) + 1 \in 1 .. Len(x) - 1 /\ (Len(p) + 1) + 1 = Len(p) + 2
    BY <2>1, <2>2
  <2> QED BY <2>3, <2>4 DEF Starts
<1> QED BY <1>1, <1>2, <1>3, CatNil

\* Data that is read across a frame's start ends there, unless an escape byte is
\* taken for the second half of an escape.
LEMMA DataStops ==
  ASSUME NEW f, Candidate(f), NEW v \in Bytes, NEW x \in Bytes, NEW r \in Bytes,
         EvenEnd(x), Cat(x, f) = Cat(Escaped[v], r)
  PROVE  \E y \in Bytes : r = Cat(y, f) /\ EvenEnd(y)
<1> DEFINE Right(s) == \A u, q \in Bytes :
              EvenEnd(u) /\ Cat(u, f) = Cat(Escaped[s], q)
                => \E y \in Bytes : q = Cat(y, f) /\ EvenEnd(y)
           T == {s \in Bytes : ~Right(s)}
<1>1. T = {}
  <2> SUFFICES ASSUME T # {} PROVE FALSE
    OBVIOUS
  <2>1. PICK s \in T : \A t \in Bytes : Len(t) < Len(s) => t \notin T
    <3>1. T \subseteq Bytes
      OBVIOUS
    <3> HIDE DEF T
    <3> QED BY <3>1, Shortest
  <2>2. s \in Bytes /\ ~Right(s)
    BY <2>1
  <2>3. PICK u, q \in Bytes : /\ EvenEnd(u) /\ Cat(u, f) = Cat(Escaped[s], q)
                              /\ ~\E y \in Bytes : q = Cat(y, f) /\ EvenEnd(y)
    BY <2>2
  <2>4. f \in Bytes /\ f[1] = Esc /\ f[2] # Esc
    BY DEF Candidate
  <2>5. s # <<>>
    BY <2>3, <2>4, EscapedType, CatNil
  <2>6. PICK b \in Byte, t \in Bytes : s = Cons(b, t) /\ Len(t) = Len(s) - 1
    BY <2>2, <2>5, ConsCases
  <2>7. Right(t)
    <3>1. Len(t) < Len(s)
      BY <2>2, <2>6, BytesType
    <3> QED BY <2>1, <3>1
  <2> DEFINE e == Escaped[t]
             g == Cat(e, q)
  <2>8. Escaped[s] = Put(b, e) /\ e \in Bytes
    BY <2>6, EscapedType
  <2> HIDE DEF e
  <2>9. Cat(u, f) = Put(b, g) /\ g \in Bytes
    BY <2>3, <2>8, PutCat, CatType
  <2> HIDE DEF g
  <2>10. \A w \in Bytes : ~(EvenEnd(w) /\ u = Put(b, w))
    <3> SUFFICES ASSUME NEW w \in Bytes, EvenEnd(w), u = Put(b, w) PROVE FALSE
      OBVIOUS
    <3>1. Cat(u, f) = Put(b, Cat(w, f)) /\ Cat(w, f) \in Bytes
      BY <2>4, PutCat, CatType
    <3> DEFINE d == Cat(w, f)
    <3>2. d = g
      <4> HIDE DEF d
      <4>1. Put(b, d) = Put(b, g) /\ d \in Bytes
        BY <2>9, <3>1 DEF d
      <4> QED BY <2>9, <4>1, PutSame
    <3> QED BY <2>3, <2>7, <3>2 DEF g, e
  <2>11. \A w \in Bytes : Put(b, w) = u => EvenEnd(w)
    BY <2>3, EvenPut
  <2>12. CASE u = <<>>
    <3>1. f = Put(b, g)
      BY <2>4, <2>9, <2>12, CatNil
    <3>2. CASE b = Esc
      <4> DEFINE h == Cons(Esc, g)
      <4>1. f = Cons(Esc, h) /\ h \in Bytes /\ h # <<>> /\ h[1] = Esc
        BY <2>9, <3>1, <3>2, ConsType DEF Put
      <4> HIDE DEF h
      <4>2. f[2] = h[1]
        BY <4>1, LongType, ConsSecond
      <4> QED BY <2>4, <4>1, <4>2
    <3>3. CASE b # Esc
      BY <2>4, <2>9, <3>1, <3>3, ConsType DEF Put
    <3> QED BY <3>2, <3>3
  <2>13. CASE u # <<>>
    <3>1. PICK a \in Byte, w \in Bytes : u = Cons(a, w)
      BY <2>13, ConsCases
    <3> DEFINE d == Cat(w, f)
    <3>2. Cat(u, f) = Cons(a, d) /\ d \in Bytes
      BY <2>4, <3>1, ConsCat, CatType
    <3> HIDE DEF d
    <3>3. CASE b # Esc
      <4>1. Cons(a, d) = Cons(b, g)
        BY <2>9, <3>2, <3>3 DEF Put
      <4>2. a = b
        BY <2>9, <3>2, <4>1, ConsSame
      <4>3. u = Put(b, w)
        BY <3>1, <3>3, <4>2 DEF Put
      <4> QED BY <2>10, <2>11, <4>3
    <3>4. CASE b = Esc
      <4> DEFINE h == Cons(Esc, g)
      <4>1. Cons(a, d) = Cons(Esc, h) /\ h \in Bytes /\ h[1] = Esc /\ h # <<>>
        BY <2>9, <3>2, <3>4, ConsType DEF Put
      <4> HIDE DEF h
      <4>2. a = Esc /\ d = h
        BY <3>2, <4>1, LongType, ConsSame
      <4>3. w # <<>>
        BY <2>3, <3>1, <4>2, OneIsOdd
      <4>4. PICK c \in Byte, y \in Bytes : w = Cons(c, y)
        BY <4>3, ConsCases
      <4>5. d = Cons(c, Cat(y, f)) /\ Cat(y, f) \in Bytes
        BY <2>4, <4>4, ConsCat, CatType DEF d
      <4>6. c = Esc
        <5>1. Cons(c, Cat(y, f))[1] = c
          BY <4>5, ConsType
        <5> QED BY <4>1, <4>2, <4>5, <5>1
      <4>7. u = Put(b, y)
        BY <3>1, <3>4, <4>2, <4>4, <4>6 DEF Put
      <4> QED BY <2>10, <2>11, <4>7
    <3> QED BY <3>3, <3>4
  <2> QED BY <2>12, <2>13
<1>2. Right(v)
  BY <1>1
<1> QED BY <1>2

\* Feed gets to the start of f: it goes on as from there, or still keeps f whole.
GoesOnFrom(b, f) ==
  /\ Scan[b].buf = Scan[f].buf
  /\ \E o \in Seq(Bytes) : Scan[b].out = o \o Scan[f].out
Reaches(b, f) == GoesOnFrom(b, f) \/ Len(Scan[b].buf) >= Len(f)

LEMMA ReachEven ==
  ASSUME NEW f, Candidate(f), NEW x \in Bytes, EvenEnd(x)
  PROVE  Reaches(Cat(x, f), f)
<1> DEFINE Right(b) == \A u \in Bytes : EvenEnd(u) /\ b = Cat(u, f) => Reaches(b, f)
           T == {b \in Bytes : ~Right(b)}
<1>1. T = {}
  <2> SUFFICES ASSUME T # {} PROVE FALSE
    OBVIOUS
  <2>1. PICK b \in T : \A t \in Bytes : Len(t) < Len(b) => t \notin T
    <3>1. T \subseteq Bytes
      OBVIOUS
    <3> HIDE DEF T
    <3> QED BY <3>1, Shortest
  <2>2. PICK u \in Bytes : EvenEnd(u) /\ b = Cat(u, f) /\ ~Reaches(b, f)
    BY <2>1
  <2>3. b \in Bytes /\ f \in Bytes /\ Len(f) \in Nat
    BY <2>1, BytesType DEF Candidate
  <2>4. Starts(b) # {}
    BY <2>2, FirstStart
  <2>5. PICK p, y \in Bytes :
          /\ u = Cat(p, y) /\ FromStart(b) = Cat(y, f)
          /\ y = <<>> \/ \E t \in Bytes : y = Cons(Esc, t) /\ t # <<>> /\ t[1] # Esc
    BY <2>2, FirstStart
  <2> DEFINE c == FromStart(b)
  <2>6. Candidate(c) /\ c \in Bytes /\ Len(c) <= Len(b) /\ Scan[b] = Scan[c] /\ c = Cat(y, f)
        /\ Len(c) \in Nat /\ Len(b) \in Nat
    BY <2>3, <2>4, <2>5, FromStartIs, ScanAt, BytesType DEF Candidate
  <2> HIDE DEF c
  <2>7. y # <<>>
    <3> SUFFICES ASSUME y = <<>> PROVE FALSE
      OBVIOUS
    <3>1. c = f
      BY <2>3, <2>6, CatNil
    <3>2. Scan[f].out = <<>> \o Scan[f].out /\ <<>> \in Seq(Bytes)
      BY <2>3, ScanType, OutNil
    <3> QED BY <2>2, <2>6, <3>1, <3>2 DEF Reaches, GoesOnFrom
  <2>8. PICK t \in Bytes : y = Cons(Esc, t) /\ t # <<>> /\ t[1] # Esc
    BY <2>5, <2>7
  <2>9. EvenEnd(t)
    <3>1. 1 \in 1 .. Len(t)
      BY <2>8, NilType, BytesType
    <3> DEFINE e == Cons(Esc, <<>>)
               q == Cat(p, e)
    <3>2. y = Cat(e, t) /\ e \in Bytes
      BY <2>8, OneEscape
    <3> HIDE DEF e
    <3>3. u = Cat(q, t) /\ q \in Bytes
      BY <2>5, <3>2, CatAssociative, CatType
    <3> HIDE DEF q
    <3> QED BY <2>2, <2>8, <3>1, <3>3, EvenBehind
  <2> DEFINE d == Cat(t, f)
  <2>10. c = Cons(Esc, d) /\ d \in Bytes
    BY <2>3, <2>6, <2>8, LongType, ConsCat, CatType
  <2>11. CASE Waits(c)
    <3>1. Scan[b].buf = c
      BY <2>6, <2>11, ScanWaits
    <3>2. Len(c) >= Len(f)
      <4>1. Len(c) = Len(y) + Len(f) /\ Len(y) \in Nat
        BY <2>3, <2>6, CatType, BytesType
      <4> QED BY <2>3, <4>1
    <3> QED BY <2>2, <3>1, <3>2 DEF Reaches
  <2>12. CASE ~Waits(c)
    <3>1. /\ Rest(c) \in Bytes /\ Len(Rest(c)) < Len(c) /\ Found(c) \in Seq(Bytes)
          /\ Scan[c].buf = Scan[Rest(c)].buf /\ Scan[c].out = Found(c) \o Scan[Rest(c)].out
      BY <2>6, <2>12, StepOn, ScanStep
    <3>2. PICK z \in Bytes : Rest(c) = Cat(z, f) /\ EvenEnd(z)
      <4>1. CASE Whole(c)
        <5>1. PICK v, r \in Bytes : /\ c = Cons(Esc, Cat(Escaped[v], r)) /\ v # <<>>
                                    /\ v[1] = c[2] /\ Len(v) = MinLen[v[1]] - 1
          BY <2>6, <4>1, WholeIs
        <5>2. Rest(c) = r
          <6>1. v[1] \in Types
            BY <4>1, <5>1 DEF Whole
          <6> QED BY <5>1, <6>1, WholeIf
        <5>3. d = Cat(Escaped[v], r)
          <6> DEFINE g == Cat(Escaped[v], r)
          <6>1. g \in Bytes /\ c = Cons(Esc, g)
            BY <5>1, EscapedType, CatType
          <6> HIDE DEF g, d
          <6>2. d = g
            <7>1. Cons(Esc, d) = Cons(Esc, g) /\ Esc \in Byte /\ d \in Bytes
              BY <2>10, <6>1, LongType
            <7> QED BY <6>1, <7>1, ConsSame
          <6> QED BY <6>2 DEF g
        <5> QED BY <2>9, <5>2, <5>3, DataStops
      <4>2. CASE ~Whole(c)
        <5>1. Rest(c) = Drop(c, 1)
          BY <4>2 DEF Rest
        <5>2. Drop(c, 1) = d
          <6> HIDE DEF d
          <6>1. Tail(c) = d /\ Len(c) = Len(d) + 1
            BY <2>10, LongType, ConsType
          <6>2. Drop(c, 1) = Tail(c)
            BY <2>6 DEF Drop, Bytes
          <6> QED BY <6>1, <6>2
        <5> QED BY <2>9, <5>1, <5>2
      <4> QED BY <4>1, <4>2
    <3> DEFINE r == Rest(c)
    <3>3. Right(r)
      <4>1. Len(r) < Len(b) /\ r \in Bytes
        BY <2>6, <3>1, BytesType
      <4> HIDE DEF r
      <4> QED BY <2>1, <4>1
    <3>4. Reaches(r, f)
      BY <3>2, <3>3
    <3> HIDE DEF r
    <3>5. /\ r \in Bytes /\ Found(c) \in Seq(Bytes)
          /\ Scan[b].buf = Scan[r].buf /\ Scan[b].out = Found(c) \o Scan[r].out
      BY <2>6, <3>1 DEF r
    <3>6. CASE GoesOnFrom(r, f)
      <4>1. PICK o \in Seq(Bytes) : Scan[r].out = o \o Scan[f].out
        BY <3>6 DEF GoesOnFrom
      <4> DEFINE w == Found(c) \o o
      <4>2. Scan[b].out = w \o Scan[f].out /\ w \in Seq(Bytes)
        <5> DEFINE k == Found(c)
                   l == Scan[f].out
        <5>1. k \in Seq(Bytes) /\ l \in Seq(Bytes)
          BY <2>3, <3>5, ScanType
        <5> HIDE DEF k, l
        <5>2. (k \o o) \o l = k \o (o \o l) /\ k \o o \in Seq(Bytes)
          BY <5>1, OutAssociative
        <5> QED BY <3>5, <4>1, <5>2 DEF k, l
      <4> HIDE DEF w
      <4>3. Scan[b].buf = Scan[f].buf
        BY <3>5, <3>6 DEF GoesOnFrom
      <4> QED BY <2>2, <4>2, <4>3 DEF Reaches, GoesOnFrom
    <3>7. CASE Len(Scan[r].buf) >= Len(f)
      BY <2>2, <3>5, <3>7 DEF Reaches
    <3> QED BY <3>4, <3>6, <3>7 DEF Reaches
  <2> QED BY <2>11, <2>12
<1> DEFINE b == Cat(x, f)
<1>2. b \in Bytes
  BY CatType DEF Candidate
<1>3. Right(b)
  BY <1>1, <1>2
<1> QED BY <1>3

\* Behind what leaves no start in the buffer it goes on from the frame.
LEMMA ReachClean ==
  ASSUME NEW f, Candidate(f), NEW x \in Bytes, Starts(Scan[x].buf) = {}
  PROVE  GoesOnFrom(Cat(x, f), f)
<1> DEFINE b == Scan[x].buf
           c == Cat(b, f)
<1>1. b \in Bytes /\ f \in Bytes /\ Scan[x].out \in Seq(Bytes)
  BY ScanType DEF Candidate
<1>2. Scan[Cat(x, f)].buf = Scan[c].buf /\ Scan[Cat(x, f)].out = Scan[x].out \o Scan[c].out
  BY <1>1, ScanCat
<1>3. c \in Bytes
  BY <1>1, CatType
<1> HIDE DEF b
<1>4. Starts(c) # {} /\ FromStart(c) = f
  BY <1>1, NoStartBefore DEF b
<1> HIDE DEF c
<1>5. Scan[c] = Scan[f]
  BY <1>3, <1>4, ScanAt
<1> QED BY <1>1, <1>2, <1>5 DEF GoesOnFrom

-----------------------------------------------------------------------------
(***************************************************************************)
(* Frames in the stream.                                                   *)
(***************************************************************************)

\* Before frame i a session was cut within a frame, or a type came that Feed does not
\* know.
Untidy(l, i) == \E j \in 1 .. Len(l) : j <= i /\ (l[j].end = 0 \/ l[j].type \notin Types)

\* What was read before a frame is a stump at worst, and one that cannot take the
\* frame's start for data.
Clean(s, untidy) == Starts(Scan[s].buf) = {} \/ (untidy /\ EvenEnd(s))

LEMMA UntidyIs ==
  ASSUME NEW l \in Seq(Frame), NEW i \in 0 .. Len(l)
  PROVE  Ragged(SubSeq(l, 1, i)) <=> Untidy(l, i)
<1>1. Len(l) \in Nat /\ i \in Nat
  BY SentType
<1> DEFINE m == SubSeq(l, 1, i)
<1>2. DOMAIN m = 1 .. i /\ \A j \in 1 .. i : m[j] = l[j]
  BY <1>1
<1> HIDE DEF m
<1>3. \A j : j \in 1 .. i <=> j \in 1 .. Len(l) /\ j <= i
  BY <1>1
<1>4. Ragged(m) <=> \E j \in 1 .. i : l[j].end = 0 \/ l[j].type \notin Types
  BY <1>2 DEF Ragged
<1> QED BY <1>3, <1>4 DEF Untidy, m

\* A frame's escape and type byte, and its data.
LEMMA FrameParts ==
  ASSUME NEW f \in Frame, f.type # Esc
  PROVE  /\ Encode(f) = Cons(Esc, Cons(f.type, Escaped[f.payload]))
         /\ Candidate(Encode(f)) /\ Escaped[f.payload] \in Bytes /\ f.type \in Byte \ {Esc}
<1>1. /\ f.type \in Byte /\ f.payload \in Bytes
      /\ Encode(f) = Cons(Esc, Escaped[Cons(f.type, f.payload)])
  BY FrameEncode
<1> DEFINE e == Escaped[f.payload]
<1>2. e \in Bytes /\ Escaped[Cons(f.type, f.payload)] = Put(f.type, e)
  BY <1>1, EscapedType
<1> HIDE DEF e
<1> DEFINE t == Cons(f.type, e)
<1>3. Put(f.type, e) = t /\ t \in Bytes /\ t # <<>> /\ t[1] = f.type
  BY <1>1, <1>2, ConsType DEF Put
<1> HIDE DEF t
<1>4. Candidate(Cons(Esc, t))
  BY <1>3, IsCandidate
<1> QED BY <1>1, <1>2, <1>3, <1>4 DEF t, e

\* A frame ends with an even number of escape bytes, whatever came before it.
LEMMA EvenFrame ==
  ASSUME NEW f \in Frame, f.type # Esc, NEW x \in Bytes
  PROVE  EvenEnd(Cat(x, Encode(f)))
<1>1. /\ Encode(f) = Cons(Esc, Cons(f.type, Escaped[f.payload]))
      /\ Escaped[f.payload] \in Bytes /\ f.type \in Byte \ {Esc} /\ f.payload \in Bytes
  BY FrameParts, FrameEncode
<1> DEFINE t == Cons(f.type, Escaped[f.payload])
           e == Cons(Esc, <<>>)
           q == Cat(x, e)
<1>2. t \in Bytes
  BY <1>1, ConsType
<1>3. e \in Bytes /\ \A y \in Bytes : Cat(e, y) = Cons(Esc, y)
  BY OneEscape
<1> HIDE DEF e
<1>4. q \in Bytes
  BY <1>3, CatType
<1>5. EvenEnd(Cat(q, t))
  <2> HIDE DEF q
  <2> QED BY <1>1, <1>4, EvenData
<1> HIDE DEF t
<1>6. Cat(x, Cons(Esc, t)) = Cat(q, t)
  BY <1>2, <1>3, CatAssociative
<1> QED BY <1>1, <1>5, <1>6 DEF t

\* A frame of a type Feed knows is taken whole.
LEMMA FrameTaken ==
  ASSUME NEW f \in Frame, NEW n, WellFormed(f, n), f.type \in Types, NEW z \in Bytes
  PROVE  LET e == Cat(Encode(f), z)
         IN /\ Candidate(e) /\ Scan[e].buf = Scan[z].buf
            /\ Scan[e].out = (IF f.type = Long THEN <<f.payload>> ELSE <<>>) \o Scan[z].out
<1> DEFINE v == Cons(f.type, f.payload)
           e == Cat(Encode(f), z)
<1>1. /\ f.type \in Byte /\ f.payload \in Bytes /\ Encode(f) = Cons(Esc, Escaped[v])
      /\ Len(f.payload) = MinLen[f.type] - 2 /\ Len(f.payload) \in Nat
      /\ MinLen[f.type] \in Nat
  BY FrameEncode, BytesType, FramingAssumption DEF WellFormed
<1>2. v \in Bytes /\ v # <<>> /\ v[1] = f.type /\ Tail(v) = f.payload /\ Len(v) = Len(f.payload) + 1
  BY <1>1, ConsType
<1> HIDE DEF v
<1>3. Len(v) = MinLen[v[1]] - 1 /\ v[1] \in Types
  BY <1>1, <1>2
<1>4. e = Cons(Esc, Cat(Escaped[v], z))
  <2> DEFINE d == Escaped[v]
  <2>1. d \in Bytes /\ Encode(f) = Cons(Esc, d)
    BY <1>1, <1>2, EscapedType
  <2> HIDE DEF d
  <2>2. Cat(Cons(Esc, d), z) = Cons(Esc, Cat(d, z))
    BY <2>1, LongType, ConsCat
  <2> QED BY <2>1, <2>2 DEF d
<1> HIDE DEF e
<1>5. Candidate(e) /\ e[2] = f.type /\ Whole(e) /\ Rest(e) = z /\ Payload(e) = f.payload
  BY <1>2, <1>3, <1>4, WholeIf
<1>6. ~Waits(e)
  BY <1>5 DEF Waits
<1>7. Found(e) = IF f.type = Long THEN <<f.payload>> ELSE <<>>
  BY <1>5 DEF Found
<1>8. Scan[e].buf = Scan[z].buf /\ Scan[e].out = Found(e) \o Scan[z].out
  BY <1>5, <1>6, ScanStep
<1> QED BY <1>5, <1>7, <1>8 DEF e

\* Frame f is in stream s, at its offset, and what precedes it is clean unless its
\* start is known to be taken for data.
PlacedIn(s, f, untidy) ==
  \E x, z \in Bytes :
    /\ s = Cat(x, Cat(Encode(f), z)) /\ Len(x) = Begin(f)
    /\ f.spoiled \/ Clean(x, untidy)

LEMMA PlacedLonger ==
  ASSUME NEW s \in Bytes, NEW t \in Bytes, NEW f \in Frame, NEW u, PlacedIn(s, f, u)
  PROVE  PlacedIn(Cat(s, t), f, u)
<1>1. PICK x, z \in Bytes :
        /\ s = Cat(x, Cat(Encode(f), z)) /\ Len(x) = Begin(f)
        /\ f.spoiled \/ Clean(x, u)
  BY DEF PlacedIn
<1> DEFINE e == Encode(f)
           d == Cat(e, z)
           y == Cat(z, t)
<1>2. e \in Bytes /\ d \in Bytes /\ y \in Bytes
  BY FrameEncode, CatType
<1>3. Cat(d, t) = Cat(e, y)
  BY <1>2, CatAssociative
<1> HIDE DEF d, y
<1>4. Cat(Cat(x, d), t) = Cat(x, Cat(d, t))
  BY <1>2, CatAssociative
<1>5. Cat(s, t) = Cat(x, Cat(e, y))
  BY <1>1, <1>3, <1>4 DEF d
<1> QED BY <1>1, <1>2, <1>5 DEF PlacedIn

LEMMA PlacedShorter ==
  ASSUME NEW s \in Bytes, NEW t \in Bytes, NEW f \in Frame, NEW u, PlacedIn(Cat(s, t), f, u),
         f.end <= Len(s)
  PROVE  PlacedIn(s, f, u)
<1>1. PICK x, z \in Bytes :
        /\ Cat(s, t) = Cat(x, Cat(Encode(f), z)) /\ Len(x) = Begin(f)
        /\ f.spoiled \/ Clean(x, u)
  BY DEF PlacedIn
<1> DEFINE e == Encode(f)
           d == Cat(x, e)
<1>2. e \in Bytes /\ d \in Bytes /\ Len(e) = Length(f) /\ Len(d) = Len(x) + Len(e)
      /\ f.end \in Nat /\ Length(f) \in Nat /\ Len(s) \in Nat
  BY FrameEncode, CatType, BytesType
<1> HIDE DEF e
<1>3. Cat(d, z) = Cat(s, t)
  BY <1>1, <1>2, CatAssociative DEF e
<1> HIDE DEF d
<1>4. Len(d) <= Len(s)
  BY <1>1, <1>2 DEF Begin
<1>5. PICK w \in Bytes : s = Cat(d, w)
  BY <1>2, <1>3, <1>4, Overlap
<1>6. s = Cat(x, Cat(e, w))
  BY <1>2, <1>5, CatAssociative DEF d
<1> QED BY <1>1, <1>6 DEF PlacedIn, e

LEMMA PlacedWeaker ==
  ASSUME NEW s, NEW f, NEW u, NEW v, PlacedIn(s, f, u), u => v
  PROVE  PlacedIn(s, f, v)
BY DEF PlacedIn, Clean

\* What was read up to the end of a frame is clean again.
LEMMA CleanBehind ==
  ASSUME NEW s \in Bytes, NEW f \in Frame, NEW n, WellFormed(f, n), NEW u \in BOOLEAN,
         PlacedIn(s, f, u), f.end = Len(s), f.spoiled => u, NEW v \in BOOLEAN,
         u \/ f.type \notin Types => v
  PROVE  Clean(s, v)
<1>1. PICK x, z \in Bytes :
        /\ s = Cat(x, Cat(Encode(f), z)) /\ Len(x) = Begin(f)
        /\ f.spoiled \/ Clean(x, u)
  BY DEF PlacedIn
<1> DEFINE e == Encode(f)
<1>2. e \in Bytes /\ Len(e) = Length(f) /\ f.end \in Nat /\ Length(f) \in Nat /\ f.type # Esc
      /\ Len(z) \in Nat
  BY FrameEncode, BytesType DEF WellFormed
<1> HIDE DEF e
<1>3. s = Cat(x, e) /\ z = <<>>
  <2> DEFINE d == Cat(e, z)
  <2>1. d \in Bytes /\ Len(d) = Len(e) + Len(z)
    BY <1>2, CatType
  <2> HIDE DEF d
  <2>2. Len(s) = Len(x) + Len(d)
    BY <1>1, <2>1, CatType DEF d, e
  <2>3. Len(z) = 0
    BY <1>1, <1>2, <2>1, <2>2 DEF Begin
  <2>4. z = <<>>
    BY <2>3, NilType
  <2> QED BY <1>1, <1>2, <2>4, CatNil DEF e
<1>4. EvenEnd(s)
  BY <1>2, <1>3, EvenFrame DEF e
<1>5. CASE v
  BY <1>4, <1>5 DEF Clean
<1>6. CASE ~v
  <2>1. Starts(Scan[x].buf) = {} /\ f.type \in Types
    BY <1>1, <1>6 DEF Clean
  <2>2. Candidate(e) /\ Scan[e].buf = Scan[<<>>].buf
    BY <1>2, <2>1, NilType, CatNil, FrameTaken DEF e
  <2>3. Scan[s].buf = Scan[<<>>].buf
    BY <1>3, <2>1, <2>2, ReachClean DEF GoesOnFrom
  <2> QED BY <2>3, ScanNil DEF Clean
<1> QED BY <1>5, <1>6

LEMMA NoStartEscape ==
  ASSUME NEW b \in Bytes, Starts(b) = {}
  PROVE  Starts(Cat(b, Cons(Esc, <<>>))) = {}
<1> DEFINE e == Cons(Esc, <<>>)
           c == Cat(b, e)
<1>1. e \in Bytes /\ Len(e) = 1 /\ e[1] = Esc
  BY OneEscape
<1> HIDE DEF e
<1>2. Len(c) = Len(b) + Len(e) /\ Len(b) \in Nat
  BY <1>1, CatType, BytesType
<1>3. \A k \in 1 .. Len(b) : c[k] = b[k]
  <2> TAKE k \in 1 .. Len(b)
  <2>1. k \in 1 .. Len(b) + Len(e) /\ k <= Len(b)
    BY <1>1, <1>2
  <2> QED BY <1>1, <2>1, CatAt
<1>4. c[Len(b) + 1] = Esc
  <2>1. 1 \in 1 .. Len(e)
    BY <1>1
  <2> QED BY <1>1, <2>1, CatBehind
<1> HIDE DEF c
<1>5. SUFFICES ASSUME NEW k \in Starts(c) PROVE FALSE
  BY DEF c, e
<1>6. k \in 1 .. Len(b) /\ c[k] = Esc /\ c[k + 1] # Esc
  BY <1>1, <1>2 DEF Starts
<1>7. k # Len(b)
  BY <1>4, <1>6
<1>8. k \in 1 .. Len(b) - 1 /\ k + 1 \in 1 .. Len(b)
  BY <1>2, <1>6, <1>7
<1>9. b[k] = Esc /\ b[k + 1] # Esc
  BY <1>3, <1>6, <1>8
<1> QED BY <1>8, <1>9 DEF Starts

\* What was read of a frame that a hangup cut is clean, unless it ends with an escape
\* byte that waits for another.
LEMMA CutWithin ==
  ASSUME NEW f \in Frame, f.type # Esc, NEW h \in Bytes, NEW w \in Bytes, NEW u \in BOOLEAN,
         PlacedIn(Cat(h, w), f, u), f.spoiled => u, NEW m \in Nat, Len(h) = Begin(f) + m, m > 0,
         ~SplitsEscape(f, m), ~(m = 1 /\ u)
  PROVE  Clean(h, TRUE)
<1>1. PICK x, z \in Bytes :
        /\ Cat(h, w) = Cat(x, Cat(Encode(f), z)) /\ Len(x) = Begin(f)
        /\ f.spoiled \/ Clean(x, u)
  BY DEF PlacedIn
<1> DEFINE d == Escaped[f.payload]
           t == Cons(f.type, d)
<1>2. /\ Encode(f) = Cons(Esc, t) /\ d \in Bytes /\ f.type \in Byte \ {Esc}
      /\ f.payload \in Bytes
  BY FrameParts, FrameEncode
<1>3. ASSUME NEW g \in Bytes, NEW r \in Bytes, Encode(f) = Cat(g, r), Len(g) = m
      PROVE  h = Cat(x, g)
  <2> DEFINE a == Cat(x, g)
             y == Cat(r, z)
  <2>1. a \in Bytes /\ y \in Bytes /\ Len(a) = Len(x) + Len(g)
    BY CatType
  <2>2. Cat(Cat(g, r), z) = Cat(g, y)
    BY CatAssociative
  <2> HIDE DEF y
  <2>3. Cat(x, Cat(g, y)) = Cat(a, y)
    BY <2>1, CatAssociative
  <2> HIDE DEF a
  <2>4. Cat(h, w) = Cat(a, y) /\ Len(h) = Len(a)
    BY <1>1, <1>3, <2>1, <2>2, <2>3
  <2>5. h = a
    BY <2>1, <2>4, SameFront
  <2> QED BY <2>5 DEF a
<1>4. CASE m = 1
  <2> DEFINE e == Cons(Esc, <<>>)
  <2>1. Starts(Scan[x].buf) = {}
    BY <1>1, <1>4 DEF Clean
  <2>2. e \in Bytes /\ Len(e) = 1 /\ \A y \in Bytes : Cat(e, y) = Cons(Esc, y)
    BY OneEscape
  <2>3. t \in Bytes
    BY <1>2, ConsType
  <2> DEFINE b == Scan[x].buf
             c == Cat(b, e)
  <2> HIDE DEF t
  <2>4. Encode(f) = Cat(e, t)
    <3> HIDE DEF e
    <3> QED BY <1>2, <2>2, <2>3
  <2>5. h = Cat(x, e)
    <3> HIDE DEF e
    <3> QED BY <1>3, <1>4, <2>2, <2>3, <2>4
  <2>6. b \in Bytes
    BY ScanType
  <2>7. Starts(c) = {}
    BY <2>1, <2>6, NoStartEscape
  <2>8. Scan[h].buf = Scan[c].buf
    BY <2>2, <2>5, ScanCat
  <2>9. c \in Bytes
    BY <2>2, <2>6, CatType
  <2> HIDE DEF c
  <2>10. Scan[c].buf = c
    BY <2>7, <2>9, ScanDef
  <2> QED BY <2>7, <2>8, <2>10 DEF Clean
<1>5. CASE m # 1
  <2>1. PICK k \in 0 .. Len(f.payload) : m = 2 + Len(Escaped[SubSeq(f.payload, 1, k)])
    BY <1>5 DEF SplitsEscape
  <2> DEFINE p == SubSeq(f.payload, 1, k)
             q == Drop(f.payload, k)
             r == Escaped[q]
             o == Escaped[p]
             g == Cons(Esc, Cons(f.type, o))
  <2>2. p \in Bytes /\ q \in Bytes /\ f.payload = Cat(p, q)
    BY <1>2, FrontType, DropType, Split
  <2> HIDE DEF p, q
  <2>3. r \in Bytes /\ o \in Bytes /\ d = Cat(o, r)
    BY <2>2, EscapedType, EscapedCat
  <2>4. m = 2 + Len(o) /\ Len(o) \in Nat
    BY <2>1, <2>3, BytesType DEF p
  <2> HIDE DEF o, r, d
  <2>5. /\ Cons(f.type, o) \in Bytes /\ g \in Bytes /\ Len(g) = m
    <3>1. Cons(f.type, o) \in Bytes /\ Len(Cons(f.type, o)) = Len(o) + 1
      BY <1>2, <2>3, ConsType
    <3> DEFINE y == Cons(f.type, o)
    <3> HIDE DEF y
    <3>2. Cons(Esc, y) \in Bytes /\ Len(Cons(Esc, y)) = Len(y) + 1
      BY <3>1, LongType, ConsType DEF y
    <3> QED BY <2>4, <3>1, <3>2 DEF y
  <2>6. Encode(f) = Cat(g, r)
    <3>1. t = Cat(Cons(f.type, o), r)
      BY <1>2, <2>3, ConsCat
    <3> HIDE DEF t
    <3> DEFINE y == Cons(f.type, o)
    <3> HIDE DEF y
    <3>2. Cat(Cons(Esc, y), r) = Cons(Esc, Cat(y, r))
      BY <2>3, <2>5, LongType, ConsCat DEF y
    <3> QED BY <1>2, <3>1, <3>2 DEF y
  <2>7. h = Cat(x, g)
    <3> HIDE DEF g
    <3> QED BY <1>3, <2>3, <2>5, <2>6
  <2>8. EvenEnd(h)
    <3> DEFINE y == Cons(f.type, o)
               e == Cons(Esc, <<>>)
               a == Cat(x, e)
    <3>1. y \in Bytes
      BY <2>5
    <3>2. e \in Bytes /\ \A s \in Bytes : Cat(e, s) = Cons(Esc, s)
      BY OneEscape
    <3> HIDE DEF e
    <3>3. a \in Bytes
      BY <3>2, CatType
    <3>4. EvenEnd(Cat(a, y))
      <4> HIDE DEF a
      <4> QED BY <1>2, <2>2, <3>3, EvenData DEF o
    <3> HIDE DEF y
    <3>5. h = Cat(a, y)
      BY <2>7, <3>1, <3>2, CatAssociative DEF y
    <3> QED BY <3>4, <3>5
  <2> QED BY <2>8 DEF Clean
<1> QED BY <1>4, <1>5

-----------------------------------------------------------------------------
(***************************************************************************)
(* The invariant behind NothingLost.                                       *)
(***************************************************************************)

CutUpTo(l, i) == \E j \in 1 .. Len(l) : j <= i /\ l[j].end = 0

\* Every frame of the stream is at its place.
PlacedInv ==
  \A i \in 1 .. Len(sent) :
    sent[i].end # 0 /\ sent[i].end <= Len(Stream) => PlacedIn(Stream, sent[i], Untidy(sent, i - 1))

\* What is on its way are whole frames behind the one that is being read.
WireInv ==
  /\ wire # <<>> => Len(sent) # 0 /\ sent[Len(sent)].end = Len(Stream)
  /\ \A i \in 1 .. Len(sent) : sent[i].end # 0 /\ Begin(sent[i]) > Len(heard)
       => i > 1 /\ sent[i - 1].end = Begin(sent[i])

\* A frame is spoiled by a session that was cut before it.
SpoiledInv ==
  /\ \A i \in 1 .. Len(sent) : sent[i].spoiled =>
       /\ CutUpTo(sent, i - 1)
       /\ sent[i].end # 0 => \/ Begin(sent[i]) < Len(heard)
                             \/ Begin(sent[i]) = Len(heard) /\ half
  /\ half => CutUpTo(sent, Len(sent))

\* When all has been read the next frame can follow.
CleanInv == Live /\ wire = <<>> /\ ~half => Clean(heard, Untidy(sent, Len(sent)))

LostInv == CoreInv /\ PlacedInv /\ WireInv /\ SpoiledInv /\ CleanInv

\* Behind the last frame on its way the stream is clean.
LEMMA CleanStream ==
  ASSUME LostInv, wire # <<>>
  PROVE  Clean(Stream, Untidy(sent, Len(sent)))
<1> DEFINE n == Len(sent)
           f == sent[n]
           u == Untidy(sent, n - 1)
           v == Untidy(sent, n)
<1>1. /\ Stream \in Bytes /\ n \in Nat /\ n # 0 /\ f.end = Len(Stream)
      /\ \A i \in 1 .. n : sent[i] \in Frame
  BY StreamType DEF LostInv, CoreInv, WireInv
<1>2. n \in 1 .. n /\ f \in Frame /\ WellFormed(f, n)
  BY <1>1 DEF LostInv, CoreInv, NamesInv
<1>3. f.end \in Nat /\ Length(f) \in Nat /\ Length(f) >= 2
  BY <1>2, FrameEncode
<1>4. PICK x, z \in Bytes : Len(x) = Begin(f) /\ PlacedIn(Stream, f, u)
  <2>1. f.end # 0
    <3>1. Len(Stream) = Len(heard) + Len(wire) /\ Len(heard) \in Nat /\ wire \in Bytes /\ Len(wire) \in Nat
      BY StreamType DEF LostInv, CoreInv
    <3>2. Len(wire) # 0
      BY <3>1, NilType
    <3> QED BY <1>1, <3>1, <3>2
  <2>2. f.end <= Len(Stream)
    BY <1>1, <1>3
  <2>3. PlacedIn(Stream, f, u)
    BY <1>2, <2>1, <2>2 DEF LostInv, PlacedInv
  <2> QED BY <2>3, NilType DEF PlacedIn
<1>5. f.spoiled => u
  BY <1>2 DEF LostInv, SpoiledInv, CutUpTo, Untidy
<1>6. u \/ f.type \notin Types => v
  <2>1. ASSUME u PROVE v
    BY <1>1, <2>1 DEF Untidy
  <2>2. ASSUME f.type \notin Types PROVE v
    BY <1>1, <1>2, <2>2 DEF Untidy
  <2> QED BY <2>1, <2>2
<1>7. u \in BOOLEAN /\ v \in BOOLEAN
  BY DEF Untidy
<1> HIDE DEF f, u, v
<1> QED BY <1>1, <1>2, <1>4, <1>5, <1>6, <1>7, CleanBehind DEF v

LEMMA ControlLost ==
  ASSUME LostInv, CoreInv', UNCHANGED dataVars, Live' => Live
  PROVE  LostInv'
<1>1. wire' = wire /\ sent' = sent /\ heard' = heard /\ half' = half /\ Stream' = Stream
  BY DEF dataVars, Stream
<1>2. PlacedInv' /\ WireInv' /\ SpoiledInv'
  BY <1>1 DEF LostInv, PlacedInv, WireInv, SpoiledInv
<1>3. CleanInv'
  BY <1>1 DEF LostInv, CleanInv
<1> QED BY <1>2, <1>3 DEF LostInv

LEMMA SendLost ==
  ASSUME LostInv, CoreInv', NEW p \in Patterns, Send(p)
  PROVE  LostInv'
<1>1. PICK f \in Frame :
        /\ sent' = Append(sent, f) /\ wire' = Cat(wire, Encode(f))
        /\ f.end = Len(heard) + Len(wire) + Length(f)
        /\ f.spoiled = (half /\ wire = <<>>)
        /\ WellFormed(f, Len(sent) + 1) /\ Len(sent) + 1 \in Numbers
        /\ session \in open
        /\ UNCHANGED <<connVars, buf, decoded, heard, half>>
  BY SendIs DEF LostInv, CoreInv
<1> DEFINE n == Len(sent) + 1
           l == sent
           m == sent'
<1>2. /\ sent' \in Seq(Frame) /\ Len(sent') = n /\ sent'[n] = f
      /\ \A i \in 1 .. Len(sent) : sent'[i] = sent[i]
      /\ wire' \in Bytes /\ Stream' = Cat(Stream, Encode(f))
      /\ Len(Stream') = Len(Stream) + Length(f)
      /\ Begin(f) = Len(Stream) /\ f.end = Len(Stream')
  BY <1>1, SendEffect DEF LostInv, CoreInv
<1>3. /\ Stream \in Bytes /\ Len(Stream) = Len(heard) + Len(wire)
      /\ Len(heard) \in Nat /\ Len(wire) \in Nat /\ Len(sent) \in Nat /\ Len(Stream) \in Nat
      /\ heard \in Bytes /\ wire \in Bytes
      /\ \A i \in 1 .. Len(sent) : sent[i] \in Frame
  BY StreamType DEF LostInv, CoreInv
<1>4. /\ Encode(f) \in Bytes /\ Len(Encode(f)) = Length(f) /\ Length(f) \in Nat /\ Length(f) >= 2
      /\ f.end \in Nat
  BY FrameEncode
<1>5. heard' = heard /\ half' = half /\ session \in open
  BY <1>1
<1>6. Live /\ half \in BOOLEAN
  BY <1>5, StreamType DEF Live, LostInv, CoreInv
<1>7. wire' # <<>>
  <2> DEFINE e == Encode(f)
  <2>1. e \in Bytes /\ Len(e) >= 2 /\ wire' = Cat(wire, e)
    BY <1>1, <1>4
  <2> HIDE DEF e
  <2>2. Len(Cat(wire, e)) = Len(wire) + Len(e) /\ Len(e) \in Nat
    BY <1>3, <2>1, CatType, BytesType
  <2> QED BY <1>2, <1>3, <2>1, <2>2, NilType
<1>8. ASSUME NEW i \in 1 .. Len(sent)
      PROVE  /\ Untidy(sent', i - 1) = Untidy(sent, i - 1)
             /\ CutUpTo(sent, i - 1) => CutUpTo(sent', i - 1)
  BY <1>2, <1>3 DEF Untidy, CutUpTo
<1>9. /\ Untidy(sent', n - 1) = Untidy(sent, Len(sent))
      /\ CutUpTo(sent, Len(sent)) => CutUpTo(sent', n - 1) /\ CutUpTo(sent', n)
  BY <1>2, <1>3 DEF Untidy, CutUpTo
<1>10. f.spoiled \/ Clean(Stream, Untidy(sent, Len(sent)))
  <2>1. CASE wire = <<>>
    <3>1. Stream = heard
      BY <1>3, <2>1, CatNil DEF Stream
    <3> QED BY <1>1, <1>6, <2>1, <3>1 DEF LostInv, CleanInv
  <2>2. CASE wire # <<>>
    BY <2>2, CleanStream
  <2> QED BY <2>1, <2>2
<1>11. PlacedInv'
  <2>1. SUFFICES ASSUME NEW i \in 1 .. n, sent'[i].end # 0
                 PROVE  PlacedIn(Stream', sent'[i], Untidy(sent', i - 1))
    BY <1>2 DEF PlacedInv
  <2>2. CASE i = n
    <3>1. Stream' = Cat(Stream, Cat(Encode(f), <<>>))
      BY <1>2, <1>4, CatNil
    <3>2. PlacedIn(Stream', f, Untidy(sent, Len(sent)))
      BY <1>2, <1>3, <1>10, <3>1, NilType DEF PlacedIn
    <3> QED BY <1>2, <1>9, <2>2, <3>2
  <2>3. CASE i # n
    <3>1. i \in 1 .. Len(sent) /\ sent'[i] = sent[i] /\ sent[i] \in Frame
      BY <1>2, <1>3, <2>3
    <3>2. sent[i].end <= Len(Stream)
      BY <1>6, <3>1 DEF LostInv, CoreInv, LiveInv
    <3>3. PlacedIn(Stream, sent[i], Untidy(sent, i - 1))
      BY <2>1, <3>1, <3>2 DEF LostInv, PlacedInv
    <3> DEFINE g == sent[i]
               u == Untidy(sent, i - 1)
               e == Encode(f)
    <3> HIDE DEF g, u, e
    <3>4. PlacedIn(Cat(Stream, e), g, u)
      BY <1>3, <1>4, <3>1, <3>3, PlacedLonger DEF g, u, e
    <3> QED BY <1>2, <1>8, <3>1, <3>4 DEF g, u, e
  <2> QED BY <2>2, <2>3
<1>12. WireInv'
  <2>1. ASSUME NEW i \in 1 .. n, sent'[i].end # 0, Begin(sent'[i]) > Len(heard)
        PROVE  i > 1 /\ sent'[i - 1].end = Begin(sent'[i])
    <3>1. CASE i = n
      <4>1. wire # <<>>
        <5> SUFFICES ASSUME wire = <<>> PROVE FALSE
          OBVIOUS
        <5>1. Len(wire) = 0
          BY NilType
        <5> QED BY <1>2, <1>3, <2>1, <3>1, <5>1
      <4>2. Len(sent) # 0 /\ sent[Len(sent)].end = Len(Stream)
        BY <4>1 DEF LostInv, WireInv
      <4>3. i > 1 /\ i - 1 \in 1 .. Len(sent) /\ i - 1 = Len(sent)
        BY <1>3, <3>1, <4>2
      <4> QED BY <1>2, <3>1, <4>2, <4>3
    <3>2. CASE i # n
      <4>1. i \in 1 .. Len(sent) /\ sent'[i] = sent[i]
        BY <1>2, <1>3, <3>2
      <4>2. i > 1 /\ sent[i - 1].end = Begin(sent[i])
        BY <2>1, <4>1 DEF LostInv, WireInv
      <4>3. i - 1 \in 1 .. Len(sent)
        BY <1>3, <4>1, <4>2
      <4> QED BY <1>2, <4>1, <4>2, <4>3
    <3> QED BY <3>1, <3>2
  <2>2. n # 0 /\ sent'[n].end = Len(Stream')
    BY <1>2, <1>3
  <2> QED BY <1>2, <1>5, <2>1, <2>2 DEF WireInv
<1>13. SpoiledInv'
  <2>1. half => CutUpTo(sent, Len(sent))
    BY DEF LostInv, SpoiledInv
  <2>2. ASSUME NEW i \in 1 .. n, sent'[i].spoiled
        PROVE  /\ CutUpTo(sent', i - 1)
               /\ sent'[i].end # 0 => \/ Begin(sent'[i]) < Len(heard)
                                      \/ Begin(sent'[i]) = Len(heard) /\ half
    <3>1. CASE i = n
      <4>1. half /\ wire = <<>>
        BY <1>1, <1>2, <2>2, <3>1
      <4>2. Len(wire) = 0
        BY <4>1, NilType
      <4> QED BY <1>2, <1>3, <1>9, <2>1, <3>1, <4>1, <4>2
    <3>2. CASE i # n
      <4>1. i \in 1 .. Len(sent) /\ sent'[i] = sent[i]
        BY <1>2, <1>3, <3>2
      <4> QED BY <1>8, <2>2, <4>1 DEF LostInv, SpoiledInv
    <3> QED BY <3>1, <3>2
  <2> QED BY <1>2, <1>5, <1>9, <2>1, <2>2 DEF SpoiledInv
<1>14. CleanInv'
  BY <1>7 DEF CleanInv
<1> QED BY <1>11, <1>12, <1>13, <1>14 DEF LostInv

LEMMA ReadLost ==
  ASSUME LostInv, CoreInv', NEW n \in 1 .. Len(wire), Read(n)
  PROVE  LostInv'
<1> DEFINE a == SubSeq(wire, 1, n)
           z == Drop(wire, n)
<1>1. /\ heard \in Bytes /\ wire \in Bytes /\ Len(heard) \in Nat /\ Len(wire) \in Nat
      /\ n \in 0 .. Len(wire) /\ n \in Nat /\ n > 0
      /\ Len(sent) \in Nat /\ \A i \in 1 .. Len(sent) : sent[i] \in Frame
  BY StreamType DEF LostInv, CoreInv
<1>2. a \in Bytes /\ z \in Bytes /\ wire = Cat(a, z) /\ Len(a) = n
  BY <1>1, FrontType, DropType, Split
<1>3. heard' = Cat(heard, a) /\ wire' = z /\ half' = FALSE /\ sent' = sent /\ ReadData
  BY DEF Read, Cat, Drop
<1> HIDE DEF a, z
<1>4. Live' => Live
  BY <1>3, ConnSafe DEF StateOK, LostInv, CoreInv
<1>5. Len(heard') > Len(heard) /\ Len(heard') \in Nat
  <2>1. Len(Cat(heard, a)) = Len(heard) + Len(a)
    BY <1>1, <1>2, CatType
  <2> QED BY <1>1, <1>2, <1>3, <2>1
<1>6. Stream' = Stream
  BY <1>1, <1>2, <1>3, CatAssociative DEF Stream
<1>7. wire # <<>>
  BY <1>1, NilType
<1>8. \A i \in 1 .. Len(sent) : Begin(sent[i]) \in Int
  BY <1>1, FrameEncode
<1>9. PlacedInv'
  BY <1>3, <1>6 DEF LostInv, PlacedInv
<1>10. WireInv'
  <2>1. Len(sent) # 0 /\ sent[Len(sent)].end = Len(Stream)
    BY <1>7 DEF LostInv, WireInv
  <2>2. \A i \in 1 .. Len(sent) : Begin(sent[i]) > Len(heard') => Begin(sent[i]) > Len(heard)
    BY <1>1, <1>5, <1>8
  <2> QED BY <1>3, <1>6, <2>1, <2>2 DEF LostInv, WireInv
<1>11. SpoiledInv'
  <2>1. \A i \in 1 .. Len(sent) :
          Begin(sent[i]) < Len(heard) \/ Begin(sent[i]) = Len(heard) => Begin(sent[i]) < Len(heard')
    BY <1>1, <1>5, <1>8
  <2> QED BY <1>3, <2>1 DEF LostInv, SpoiledInv
<1>12. CleanInv'
  <2>1. ASSUME z = <<>> PROVE heard' = Stream
    BY <1>1, <1>2, <1>3, <2>1, CatNil DEF Stream
  <2> QED BY <1>3, <1>7, <2>1, CleanStream DEF CleanInv
<1> QED BY <1>9, <1>10, <1>11, <1>12 DEF LostInv

LEMMA AbortLost ==
  ASSUME LostInv, CoreInv', ReadAborted
  PROVE  LostInv'
<1>1. /\ ReadFails /\ wire' = <<>> /\ sent' = sent /\ half' = half /\ heard' = heard
  BY DEF ReadAborted
<1>2. ~Live'
  BY <1>1, ConnSafe DEF StateOK, LostInv, CoreInv
<1>3. /\ heard \in Bytes /\ wire \in Bytes /\ Len(Stream) = Len(heard) + Len(wire)
      /\ Len(heard) \in Nat /\ Len(wire) \in Nat
      /\ \A i \in 1 .. Len(sent) : sent[i] \in Frame
  BY StreamType DEF LostInv, CoreInv
<1>4. Stream' = heard
  BY <1>1, <1>3, CatNil DEF Stream
<1>5. PlacedInv'
  <2>1. SUFFICES ASSUME NEW i \in 1 .. Len(sent), sent[i].end # 0, sent[i].end <= Len(heard)
                 PROVE  PlacedIn(heard, sent[i], Untidy(sent, i - 1))
    BY <1>1, <1>4 DEF PlacedInv
  <2>2. sent[i] \in Frame /\ sent[i].end \in Nat
    BY <1>3, FrameEncode
  <2>3. sent[i].end <= Len(Stream)
    BY <1>3, <2>1, <2>2
  <2>4. PlacedIn(Cat(heard, wire), sent[i], Untidy(sent, i - 1))
    BY <2>1, <2>3 DEF LostInv, PlacedInv, Stream
  <2> QED BY <1>3, <2>1, <2>2, <2>4, PlacedShorter
<1>6. WireInv' /\ SpoiledInv'
  BY <1>1 DEF LostInv, WireInv, SpoiledInv
<1>7. CleanInv'
  BY <1>2 DEF CleanInv
<1> QED BY <1>5, <1>6, <1>7 DEF LostInv

LEMMA InitLost == Init => LostInv
<1> SUFFICES ASSUME Init PROVE LostInv
  OBVIOUS
<1>1. wire = <<>> /\ heard = <<>> /\ sent = <<>> /\ half = FALSE
  BY DEF Init
<1>2. PlacedInv /\ WireInv /\ SpoiledInv
  BY <1>1 DEF PlacedInv, WireInv, SpoiledInv
<1>3. CleanInv
  BY <1>1, ScanNil DEF CleanInv, Clean
<1> QED BY <1>2, <1>3, InitCore DEF LostInv

\* What the notes of InEscape say.
LEMMA InEscapeIs ==
  ASSUME StateOK, NEW i \in 1 .. Len(sent), ~InEscape, sent[i].end > Len(heard),
         Begin(sent[i]) < Len(heard)
  PROVE  /\ ~SplitsEscape(sent[i], Len(heard) - Begin(sent[i]))
         /\ ~(Len(heard) - Begin(sent[i]) = 1 /\ Untidy(sent, i - 1))
<1> DEFINE f == sent[i]
<1>1. /\ sent \in Seq(Frame) /\ Len(sent) \in Nat /\ DOMAIN sent = 1 .. Len(sent) /\ f \in Frame
      /\ Len(heard) \in Nat /\ i - 1 \in 0 .. Len(sent)
  BY SentType, BytesType DEF StateOK
<1>2. Read_(f) = Len(heard) - Begin(f) /\ Read_(f) > 0
  <2>1. f.end \in Nat /\ Length(f) \in Nat /\ Len(Encode(f)) = Length(f)
    BY <1>1, FrameEncode
  <2> QED BY <1>1, <2>1 DEF Read_, Begin
<1>3. Ragged(SubSeq(sent, 1, i - 1)) <=> Untidy(sent, i - 1)
  BY <1>1, UntidyIs
<1>4. ~SplitsEscape(f, Read_(f)) /\ ~(Read_(f) = 1 /\ Ragged(SubSeq(sent, 1, i - 1)))
  BY <1>1, <1>2 DEF InEscape
<1> QED BY <1>2, <1>3, <1>4

LEMMA HangupLost ==
  ASSUME LostInv, CoreInv', Hangup
  PROVE  LostInv'
<1> DEFINE m == Cut(sent)
           h == Len(heard)
<1>1. /\ heard \in Bytes /\ wire \in Bytes /\ h \in Nat /\ Len(sent) \in Nat /\ Len(wire) \in Nat
      /\ Len(Stream) = h + Len(wire) /\ half \in BOOLEAN
      /\ \A i \in 1 .. Len(sent) : sent[i] \in Frame
  BY StreamType DEF LostInv, CoreInv
<1>2. PICK n \in 0 .. Len(sent) :
        /\ m \in Seq(Frame) /\ Len(m) = n
        /\ \A i \in 1 .. n :
             /\ Begun(sent[i])
             /\ m[i] = IF sent[i].end > h THEN [sent[i] EXCEPT !.end = 0] ELSE sent[i]
        /\ \A i \in n + 1 .. Len(sent) : ~Begun(sent[i])
  BY CutIs DEF LostInv, CoreInv
<1>3. /\ PeerGone /\ wire' = <<>> /\ sent' = m /\ half' = (InEscape \/ half)
      /\ heard' = heard /\ buf' = buf
  BY DEF Hangup
<1> HIDE DEF m
<1>4. Live' => Live
  BY <1>3, ConnSafe DEF StateOK, LostInv, CoreInv
<1>5. Stream' = heard
  BY <1>1, <1>3, CatNil DEF Stream
<1>6. ASSUME NEW i \in 1 .. n
      PROVE  /\ i \in 1 .. Len(sent) /\ m[i] \in Frame /\ m[i].type = sent[i].type
             /\ m[i].end <= h /\ m[i].spoiled = sent[i].spoiled
             /\ m[i].end # 0 => m[i] = sent[i]
             /\ sent[i].end = 0 \/ sent[i].end > h => m[i].end = 0
  <2>1. i \in 1 .. Len(sent)
    BY <1>1, <1>2
  <2>2. m[i] = IF sent[i].end > h THEN [sent[i] EXCEPT !.end = 0] ELSE sent[i]
    BY <1>2
  <2>3. sent[i] \in Frame
    BY <1>1, <2>1
  <2>4. sent[i].end = 0 \/ sent[i].end > h => m[i].end = 0
    BY <1>1, <2>2, <2>3 DEF Frame
  <2> QED BY <1>1, <2>1, <2>2, <2>3, <2>4, CutOne
<1>7. ASSUME NEW i \in 1 .. Len(sent), sent[i].end = 0 \/ Begin(sent[i]) < h
      PROVE  i \in 1 .. n
  <2>1. sent[i] \in Frame
    BY <1>1
  <2>2. Begun(sent[i])
    BY <1>7, <2>1, BegunIs DEF LostInv, CoreInv
  <2>3. i \notin n + 1 .. Len(sent)
    BY <1>2, <2>2
  <2> QED BY <1>1, <1>2, <2>3
<1>8. ASSUME NEW i \in 1 .. Len(sent), sent[i].end # 0, sent[i].end <= h
      PROVE  i \in 1 .. n
  <2>1. sent[i].end \in Nat /\ Length(sent[i]) \in Nat /\ Length(sent[i]) >= 2
    BY <1>1, FrameEncode
  <2>2. Begin(sent[i]) < h
    BY <1>1, <1>8, <2>1 DEF Begin
  <2> QED BY <1>7, <2>2
<1>9. ASSUME NEW k \in Int PROVE CutUpTo(sent, k) => CutUpTo(m, k)
  BY <1>2, <1>6, <1>7 DEF CutUpTo
\* What made the stream untidy before frame k is still there.
<1>10. ASSUME NEW k \in Int, \A j \in 1 .. Len(sent) : j <= k => j \in 1 .. n
       PROVE  Untidy(sent, k) => Untidy(m, k)
  BY <1>2, <1>6, <1>10 DEF Untidy
<1>11. PlacedInv'
  <2>1. SUFFICES ASSUME NEW i \in 1 .. n, m[i].end # 0
                 PROVE  PlacedIn(heard, m[i], Untidy(m, i - 1))
    BY <1>2, <1>3, <1>5 DEF PlacedInv
  <2>2. i \in 1 .. Len(sent) /\ m[i] = sent[i] /\ sent[i].end <= h /\ sent[i] \in Frame
    BY <1>1, <1>6, <2>1
  <2>3. sent[i].end \in Nat
    BY <2>2, FrameEncode
  <2>4. sent[i].end # 0 /\ sent[i].end <= Len(Stream)
    BY <1>1, <2>1, <2>2, <2>3
  <2>5. PlacedIn(Cat(heard, wire), sent[i], Untidy(sent, i - 1))
    BY <2>2, <2>4 DEF LostInv, PlacedInv, Stream
  <2>6. PlacedIn(heard, sent[i], Untidy(sent, i - 1))
    BY <1>1, <2>2, <2>5, PlacedShorter
  <2>7. Untidy(sent, i - 1) => Untidy(m, i - 1)
    <3>1. \A j \in 1 .. Len(sent) : j <= i - 1 => j \in 1 .. n
      BY <1>1, <1>2, <2>1
    <3>2. i - 1 \in Int
      BY <2>1
    <3> QED BY <1>10, <3>1, <3>2
  <2> QED BY <2>2, <2>6, <2>7, PlacedWeaker
<1>12. WireInv'
  <2>1. ASSUME NEW i \in 1 .. n, m[i].end # 0 PROVE ~(Begin(m[i]) > h)
    <3>1. m[i] = sent[i] /\ m[i].end <= h /\ m[i] \in Frame
      BY <1>6, <2>1
    <3>2. m[i].end \in Nat /\ Length(m[i]) \in Nat
      BY <3>1, FrameEncode
    <3> QED BY <1>1, <3>1, <3>2 DEF Begin
  <2> QED BY <1>2, <1>3, <2>1 DEF WireInv
<1>13. SpoiledInv'
  <2>1. ASSUME NEW i \in 1 .. n, m[i].spoiled
        PROVE  CutUpTo(m, i - 1) /\ (m[i].end # 0 => Begin(m[i]) < h)
    <3>1. i \in 1 .. Len(sent) /\ sent[i].spoiled /\ m[i] \in Frame /\ m[i].end <= h
      BY <1>6, <2>1
    <3>2. CutUpTo(sent, i - 1) /\ i - 1 \in Int
      BY <3>1 DEF LostInv, SpoiledInv
    <3>3. m[i].end \in Nat /\ Length(m[i]) \in Nat /\ Length(m[i]) >= 2
      BY <3>1, FrameEncode
    <3>4. Begin(m[i]) < h
      BY <1>1, <3>1, <3>3 DEF Begin
    <3> QED BY <1>9, <3>2, <3>4
  <2>2. ASSUME half PROVE CutUpTo(m, n)
    <3>1. CutUpTo(sent, Len(sent))
      BY <2>2 DEF LostInv, SpoiledInv
    <3>2. PICK j \in 1 .. Len(sent) : sent[j].end = 0
      BY <3>1 DEF CutUpTo
    <3>3. j \in 1 .. n /\ m[j].end = 0
      BY <1>6, <1>7, <3>2
    <3> QED BY <1>2, <3>3 DEF CutUpTo
  <2>3. ASSUME InEscape PROVE CutUpTo(m, n)
    <3>1. DOMAIN sent = 1 .. Len(sent)
      BY SentType DEF LostInv, CoreInv, StateOK
    <3>2. PICK j \in 1 .. Len(sent) : sent[j].end > h /\ Read_(sent[j]) > 0
      BY <2>3, <3>1 DEF InEscape
    <3>3. j \in 1 .. n
      <4>1. Begun(sent[j])
        BY <3>2 DEF Begun
      <4>2. j \notin n + 1 .. Len(sent)
        BY <1>2, <4>1
      <4> QED BY <1>1, <1>2, <4>2
    <3>4. m[j].end = 0
      BY <1>6, <3>2, <3>3
    <3> QED BY <1>2, <3>3, <3>4 DEF CutUpTo
  <2> QED BY <1>2, <1>3, <2>1, <2>2, <2>3 DEF SpoiledInv
<1>14. CleanInv'
  <2>1. SUFFICES ASSUME Live', ~half, ~InEscape PROVE Clean(heard, Untidy(m, n))
    BY <1>2, <1>3 DEF CleanInv
  <2>2. Live
    BY <1>4, <2>1
  <2>3. \A i \in 1 .. Len(sent) : sent[i].end <= Len(Stream) /\ sent[i].end \in Nat
    BY <1>1, <2>2, FrameEncode DEF LostInv, CoreInv, LiveInv
  <2>4. CASE wire = <<>>
    <3>1. Len(Stream) = h
      BY <1>1, <2>4, NilType
    <3>2. \A j \in 1 .. Len(sent) : j \in 1 .. n
      BY <1>7, <1>8, <2>3, <3>1
    <3>3. Untidy(sent, Len(sent)) => Untidy(m, Len(sent))
      BY <1>1, <1>10, <3>2
    <3>4. Untidy(m, Len(sent)) => Untidy(m, n)
      BY <1>2 DEF Untidy
    <3>5. Clean(heard, Untidy(sent, Len(sent)))
      BY <2>1, <2>2, <2>4 DEF LostInv, CleanInv
    <3> QED BY <3>3, <3>4, <3>5 DEF Clean
  <2>5. CASE wire # <<>>
    <3> DEFINE L == {i \in 1 .. Len(sent) : sent[i].end > h}
    <3>1. Len(sent) \in L
      <4>1. Len(wire) # 0
        BY <1>1, <2>5, NilType
      <4>2. Len(sent) # 0 /\ sent[Len(sent)].end = Len(Stream)
        BY <2>5 DEF LostInv, WireInv
      <4> QED BY <1>1, <4>1, <4>2
    <3>2. PICK j \in L : \A i \in L : j <= i
      <4>1. L \subseteq Nat
        BY <1>1
      <4> HIDE DEF L
      <4> QED BY <3>1, <4>1, LeastNatural
    <3>3. /\ j \in 1 .. Len(sent) /\ sent[j].end > h
          /\ \A i \in 1 .. Len(sent) : i < j => sent[i].end <= h
      <4>1. ASSUME NEW i \in 1 .. Len(sent), i < j PROVE sent[i].end <= h
        <5>1. i \notin L
          <6>1. j \in 1 .. Len(sent) /\ ~(j <= i)
            BY <1>1, <3>2, <4>1
          <6> HIDE DEF L
          <6> QED BY <3>2, <6>1
        <5> QED BY <1>1, <2>3, <5>1
      <4> QED BY <3>2, <4>1
    <3> HIDE DEF L
    <3> DEFINE f == sent[j]
               u == Untidy(sent, j - 1)
               k == h - Begin(f)
    <3>4. f \in Frame /\ f.end \in Nat /\ Length(f) \in Nat /\ Begin(f) \in Int /\ f.end # 0
          /\ f.type # Esc /\ f.end <= Len(Stream) /\ j - 1 \in Int /\ u \in BOOLEAN
      <4>1. WellFormed(f, j)
        BY <3>3 DEF LostInv, CoreInv, NamesInv
      <4>2. f \in Frame /\ f.end <= Len(Stream)
        BY <1>1, <2>3, <3>3
      <4>3. f.end # 0
        BY <1>1, <3>3
      <4> QED BY <3>3, <4>1, <4>2, <4>3, FrameEncode DEF WellFormed, Untidy
    <3>5. Begin(f) <= h
      <4> SUFFICES ASSUME Begin(f) > h PROVE FALSE
        BY <1>1, <3>4
      <4>1. j > 1 /\ sent[j - 1].end = Begin(f)
        BY <3>3, <3>4 DEF LostInv, WireInv
      <4>2. j - 1 \in 1 .. Len(sent) /\ j - 1 < j
        BY <1>1, <3>3, <4>1
      <4> QED BY <1>1, <3>3, <3>4, <4>1, <4>2
    <3>6. PlacedIn(Cat(heard, wire), f, u)
      BY <3>3, <3>4 DEF LostInv, PlacedInv, Stream
    <3>7. f.spoiled => u /\ Begin(f) < h
      <4> SUFFICES ASSUME f.spoiled PROVE u /\ Begin(f) < h
        OBVIOUS
      <4>1. CutUpTo(sent, j - 1) /\ (Begin(f) < h \/ (Begin(f) = h /\ half))
        BY <3>3, <3>4 DEF LostInv, SpoiledInv
      <4> QED BY <2>1, <4>1 DEF CutUpTo, Untidy
    <3>8. u => Untidy(m, n)
      <4>1. \A i \in 1 .. Len(sent) : i <= j - 1 => i \in 1 .. n
        <5> TAKE i \in 1 .. Len(sent)
        <5> HAVE i <= j - 1
        <5>1. i < j
          BY <1>1, <3>3
        <5> QED BY <1>7, <1>8, <3>3, <5>1
      <4>2. u => Untidy(m, j - 1)
        BY <1>10, <3>4, <4>1
      <4> QED BY <1>2, <4>2 DEF Untidy
    <3>9. CASE Begin(f) = h
      <4>1. ~f.spoiled
        BY <1>1, <3>7, <3>9
      <4>2. PICK x, z \in Bytes :
              /\ Cat(heard, wire) = Cat(x, Cat(Encode(f), z)) /\ Len(x) = Begin(f)
              /\ Clean(x, u)
        <5> HIDE DEF f, u
        <5> QED BY <3>6, <4>1 DEF PlacedIn
      <4> DEFINE y == Cat(Encode(f), z)
      <4>3. y \in Bytes
        BY <3>4, FrameEncode, CatType
      <4> HIDE DEF y
      <4>4. x = heard
        <5>1. Cat(heard, wire) = Cat(x, y) /\ Len(heard) = Len(x)
          BY <3>9, <4>2 DEF y
        <5>2. heard \in Bytes /\ wire \in Bytes /\ x \in Bytes
          BY <1>1, <4>2
        <5> QED BY <4>3, <5>1, <5>2, SameFront
      <4>5. Clean(heard, u)
        BY <4>2, <4>4
      <4> HIDE DEF u
      <4> QED BY <3>8, <4>5 DEF Clean
    <3>10. CASE Begin(f) # h
      <4>1. k \in Nat /\ k > 0 /\ h = Begin(f) + k /\ Begin(f) < h
        <5>1. h \in Nat
          BY <1>1
        <5> HIDE DEF f, u, h
        <5> QED BY <3>4, <3>5, <3>10, <5>1
      <4>2. ~SplitsEscape(f, k) /\ ~(k = 1 /\ u)
        BY <2>1, <3>3, <4>1, InEscapeIs DEF LostInv, CoreInv
      <4>3. Clean(heard, TRUE)
        <5> HIDE DEF f, u, k
        <5> QED BY <1>1, <3>4, <3>6, <3>7, <4>1, <4>2, CutWithin
      <4>4. Untidy(m, n)
        <5>1. j \in 1 .. n
          BY <1>7, <3>3, <4>1
        <5>2. m[j].end = 0
          BY <1>6, <3>3, <5>1
        <5> QED BY <1>2, <5>1, <5>2 DEF Untidy
      <4> QED BY <4>3, <4>4 DEF Clean
    <3> QED BY <3>9, <3>10
  <2> QED BY <2>4, <2>5
<1> QED BY <1>11, <1>12, <1>13, <1>14 DEF LostInv

LEMMA NextLost == LostInv /\ [Next]_vars => LostInv'
<1> SUFFICES ASSUME LostInv, [Next]_vars PROVE LostInv'
  OBVIOUS
<1>1. CoreInv'
  BY NextCore DEF LostInv
<1>2. CASE Connect \/ Control \/ UNCHANGED vars
  <2>1. UNCHANGED dataVars
    BY <1>2 DEF Connect, Control, vars
  <2>2. Live' => Live
    BY <1>2, ConnSafe DEF Connect, Control, vars, LostInv, CoreInv, StateOK
  <2> QED BY <1>1, <2>1, <2>2, ControlLost
<1>3. CASE \E p \in Patterns : Send(p)
  BY <1>1, <1>3, SendLost
<1>4. CASE \E n \in 1 .. Len(wire) : Read(n)
  BY <1>1, <1>4, ReadLost
<1>5. CASE Hangup
  BY <1>1, <1>5, HangupLost
<1>6. CASE ReadAborted
  BY <1>1, <1>6, AbortLost
<1> QED BY <1>2, <1>3, <1>4, <1>5, <1>6 DEF Next

\* The frame with number i is the only one whose payload holds that number.
LEMMA OwnMessage ==
  ASSUME StateOK, NamesInv, NEW i \in 1 .. Len(sent), sent[i].type = Long
  PROVE  NumberOf(sent, sent[i].payload) = i
<1> DEFINE p == sent[i].payload
<1>1. i \in Matches(sent, p) /\ p \in Bytes
  BY SentType, FrameEncode DEF Matches, StateOK
<1>2. ASSUME NEW j \in Matches(sent, p) PROVE j = i
  <2>1. j \in 1 .. Len(sent) /\ sent[j].payload = p /\ WellFormed(sent[j], j) /\ WellFormed(sent[i], i)
    BY DEF Matches, NamesInv
  <2>2. PICK k \in 1 .. Len(p) : p[k] = i
    BY <2>1 DEF WellFormed, Holds
  <2>3. i \in Numbers
    BY <1>1, NumberInFrame
  <2>4. p[k] \in Plain \cup {j}
    BY <2>1 DEF WellFormed
  <2> QED BY <2>2, <2>3, <2>4, NumberType
<1> HIDE DEF p
<1>3. NumberOf(sent, p) \in Matches(sent, p)
  BY <1>1 DEF NumberOf
<1> QED BY <1>2, <1>3 DEF p

\* A frame that has arrived is decoded, or still in the buffer behind the stump of
\* another; excepted is the one whose start completed an escape of the stump.
THEOREM NoFrameIsLost == Spec => []NothingLost
<1>1. Spec => []LostInv
  BY InitLost, NextLost, PTL DEF Spec
<1>2. LostInv => NothingLost
  <2> SUFFICES ASSUME LostInv, NEW i \in 1 .. Len(sent),
                      sent[i].type = Long, Arrived(i), ~sent[i].spoiled
               PROVE  \/ \E k \in DOMAIN decoded : decoded[k] = i
                      \/ Ragged(SubSeq(sent, 1, i)) /\ Kept(i)
    BY SentType DEF NothingLost, LostInv, CoreInv, StateOK
  <2> DEFINE f == sent[i]
             o == Scan[heard].out
             u == Untidy(sent, i - 1)
  <2>1. /\ heard \in Bytes /\ wire \in Bytes /\ Len(heard) \in Nat /\ Len(wire) \in Nat
        /\ sent \in Seq(Frame) /\ Len(sent) \in Nat /\ f \in Frame
        /\ Len(Stream) = Len(heard) + Len(wire) /\ StateOK /\ NamesInv
        /\ buf = Scan[heard].buf /\ decoded = NumbersOf(sent, o)
    BY StreamType DEF LostInv, CoreInv, Fed
  <2>2. /\ WellFormed(f, i) /\ f.end \in Nat /\ f.end # 0 /\ f.end <= Len(heard) /\ Length(f) \in Nat
        /\ f.payload \in Bytes /\ f.type = Long /\ f.type # Esc
    BY <2>1, FrameEncode, LongType DEF NamesInv, Arrived
  <2>3. PlacedIn(heard, f, u)
    <3>1. PlacedIn(Cat(heard, wire), f, u)
      <4>1. f.end <= Len(Stream)
        BY <2>1, <2>2
      <4> QED BY <2>2, <4>1 DEF LostInv, PlacedInv, Stream
    <3> HIDE DEF f, u
    <3> QED BY <2>1, <2>2, <3>1, PlacedShorter
  <2>4. PICK x, z \in Bytes :
          heard = Cat(x, Cat(Encode(f), z)) /\ Len(x) = Begin(f) /\ Clean(x, u)
    <3> HIDE DEF f, u
    <3> QED BY <2>3 DEF PlacedIn, f
  <2> DEFINE e == Cat(Encode(f), z)
  <2>5. /\ Candidate(e) /\ Scan[e].out = <<f.payload>> \o Scan[z].out /\ e \in Bytes
        /\ heard = Cat(x, e)
    <3>1. /\ Candidate(e) /\ Scan[e].out = (IF f.type = Long THEN <<f.payload>> ELSE <<>>) \o Scan[z].out
      <4> HIDE DEF f
      <4> QED BY <2>1, <2>2, LongType, FrameTaken
    <3> QED BY <2>2, <2>4, <3>1 DEF Candidate
  <2>6. Len(heard) - f.end + Length(f) = Len(e)
    <3> HIDE DEF e, f
    <3>1. Len(heard) = Len(x) + Len(e) /\ Len(e) \in Nat
      BY <2>5, CatType, BytesType
    <3>2. Len(x) = f.end - Length(f) /\ f.end \in Nat /\ Length(f) \in Nat
      BY <2>2, <2>4 DEF Begin
    <3>3. Len(heard) \in Nat
      BY <2>1
    <3> DEFINE h == Len(heard)
               a == Len(x)
               b == Len(e)
               c == f.end
               d == Length(f)
    <3>4. h = a + b /\ a = c - d /\ h \in Nat /\ b \in Nat /\ c \in Nat /\ d \in Nat
      BY <3>1, <3>2, <3>3
    <3>5. h - c + d = b
      <4> HIDE DEF h, a, b, c, d
      <4> QED BY <3>4
    <3> QED BY <3>5
  <2> HIDE DEF e
  <2>7. CASE GoesOnFrom(heard, e)
    <3>1. PICK a \in Seq(Bytes) : o = a \o (<<f.payload>> \o Scan[z].out)
      BY <2>5, <2>7 DEF GoesOnFrom
    <3> DEFINE q == Scan[z].out
               b == <<f.payload>> \o q
               k == Len(a) + 1
    <3>2. q \in Seq(Bytes)
      BY ScanType
    <3> HIDE DEF q
    <3>3. b \in Seq(Bytes) /\ b[1] = f.payload /\ Len(b) >= 1
      BY <2>2, <3>2
    <3> HIDE DEF b
    <3>4. /\ Len(a) \in Nat /\ Len(b) \in Nat /\ Len(a \o b) = Len(a) + Len(b)
          /\ \A j \in 1 .. Len(a) + Len(b) : (a \o b)[j] = IF j <= Len(a) THEN a[j] ELSE b[j - Len(a)]
      BY <3>3, ListCat
    <3>5. k \in 1 .. Len(a) + Len(b) /\ ~(k <= Len(a)) /\ k - Len(a) = 1
      BY <3>3, <3>4
    <3>6. o = a \o b
      BY <3>1 DEF b, q
    <3> HIDE DEF o, k
    <3>7. k \in 1 .. Len(o) /\ o[k] = f.payload
      BY <3>3, <3>4, <3>5, <3>6
    <3>8. k \in DOMAIN decoded /\ decoded[k] = NumberOf(sent, f.payload)
      BY <2>1, <3>7 DEF NumbersOf
    <3> QED BY <2>1, <2>2, <3>8, OwnMessage
  <2>8. CASE ~GoesOnFrom(heard, e)
    <3>1. u /\ EvenEnd(x)
      BY <2>4, <2>5, <2>8, ReachClean DEF Clean
    <3>2. Len(buf) >= Len(e)
      BY <2>1, <2>5, <2>8, <3>1, ReachEven DEF Reaches
    <3>3. Kept(i)
      <4>1. Len(buf) \in Nat /\ Len(e) \in Nat
        BY <2>1, <2>5, BytesType DEF StateOK
      <4> QED BY <2>6, <3>2, <4>1 DEF Kept, Length
    <3>4. Untidy(sent, i)
      BY <2>1, <3>1 DEF Untidy
    <3>5. Ragged(SubSeq(sent, 1, i))
      <4>1. i \in 0 .. Len(sent)
        BY <2>1
      <4> QED BY <2>1, <3>4, <4>1, UntidyIs
    <3> QED BY <3>3, <3>5
  <2> QED BY <2>7, <2>8
<1> QED BY <1>1, <1>2, PTL

-----------------------------------------------------------------------------
(***************************************************************************)
(* Connections.                                                            *)
(***************************************************************************)

\* Only the session's connection is ever open, and its goroutine waits for the
\* context: a reconnect leaves none behind.
THEOREM ConnectionsAreClosed == Spec => []OpenIsWatched
<1>1. Init => OpenIsWatched
  BY DEF Init, ConnInit, OpenIsWatched
<1>2. OpenIsWatched /\ [Next]_vars => OpenIsWatched'
  <2> SUFFICES ASSUME OpenIsWatched, [Next]_vars PROVE OpenIsWatched'
    OBVIOUS
  <2>1. CASE Connect
    <3>1. open = {} /\ open' = {session'} /\ pc' = "read" /\ session' \in watchers'
      BY <2>1 DEF Connect, DialSucceeds, OpenIsWatched
    <3> QED BY <3>1 DEF OpenIsWatched
  <2>2. CASE Hangup \/ ReadAborted
    <3>1. SessionEnds
      BY <2>2 DEF Hangup, ReadAborted, PeerGone, ReadFails
    <3>2. open' = {}
      BY <3>1 DEF SessionEnds, OpenIsWatched
    <3> QED BY <3>2 DEF OpenIsWatched
  <2>3. CASE \E k \in Sessions : Watch(k)
    <3>1. PICK k \in Sessions : Watch(k)
      BY <2>3
    <3>2. /\ open' = open \ {k} /\ watchers' = watchers \ {k}
          /\ pc' = pc /\ session' = session
      BY <3>1 DEF Watch
    <3> QED BY <3>2 DEF OpenIsWatched
  <2>4. CASE Check \/ DialFails \/ CancelledInWait \/ DelayOver
    <3>1. pc # "read" /\ open' = open
      BY <2>4 DEF Check, DialFails, CancelledInWait, DelayOver, Waiting
    <3> QED BY <3>1 DEF OpenIsWatched
  <2>5. CASE Cancel
    BY <2>5 DEF Cancel, OpenIsWatched
  <2>6. CASE (\E p \in Patterns : Send(p)) \/ (\E n \in 1 .. Len(wire) : Read(n)) \/ UNCHANGED vars
    <3>1. UNCHANGED connVars
      BY <2>6 DEF Send, Read, ReadData, vars
    <3> QED BY <3>1 DEF connVars, OpenIsWatched
  <2> QED BY <2>1, <2>2, <2>3, <2>4, <2>5, <2>6 DEF Next, Control
<1> QED BY <1>1, <1>2, PTL DEF Spec
=============================================================================
