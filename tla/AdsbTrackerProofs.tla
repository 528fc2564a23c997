-------------------------- MODULE AdsbTrackerProofs --------------------------
(***************************************************************************)
(* Theorems about AdsbTracker for any zones, any limits, any aircraft and  *)
(* any route (of the northern half, where decodeCPRLocal is concerned).    *)
(***************************************************************************)
EXTENDS AdsbTracker, TLAPS

-----------------------------------------------------------------------------
(***************************************************************************)
(* Arithmetic.                                                             *)
(***************************************************************************)

LEMMA DivMod ==
  ASSUME NEW a \in Int, NEW b \in Nat \ {0}
  PROVE  /\ a \div b \in Int /\ a % b \in 0 .. b - 1
         /\ a = b * (a \div b) + (a % b)
         /\ a \in Nat => a \div b \in Nat
OBVIOUS

\* What is between the d-th and the next multiple of b has the quotient d.
LEMMA Quotient ==
  ASSUME NEW b \in Nat \ {0}, NEW d \in Int, NEW r \in Int, 0 <= r, r < b
  PROVE  (b * d + r) \div b = d
OBVIOUS

LEMMA ProductGeq ==
  ASSUME NEW a \in Nat \ {0}, NEW b \in Nat
  PROVE  a * b >= b /\ a * b \in Nat
OBVIOUS

LEMMA ProductLess ==
  ASSUME NEW b \in Nat \ {0}, NEW x \in Int, NEW y \in Int, b * x < b * y
  PROVE  x < y
OBVIOUS

\* A zone has a width, and as many parts fit in it as a code has values.
LEMMA WidthType ==
  ASSUME NEW enc \in Encodings, NEW odd \in BOOLEAN
  PROVE  /\ Width(enc, odd) \in Nat \ {0} /\ Scale(enc) \in {1, 4}
         /\ Width(enc, odd) * Scale(enc) <= Circle
         /\ Circle \in Nat /\ Quarter \in Nat
<1>1. /\ EvenWidth \in Nat \ {0} /\ OddWidth \in Nat \ {0}
      /\ EvenWidth % 4 = 0 /\ OddWidth % 4 = 0
  BY ZoneAssumption
<1>2. Circle \in Nat /\ EvenWidth <= Circle /\ OddWidth <= Circle
  BY ProductGeq, ZoneAssumption DEF Circle
<1> DEFINE z == IF odd THEN OddWidth ELSE EvenWidth
<1>3. z \in Nat \ {0} /\ z % 4 = 0 /\ z <= Circle
  BY <1>1, <1>2
<1>4. Width(enc, odd) = z \div Scale(enc) /\ Scale(enc) \in {1, 4}
  BY DEF Width, Scale
<1> HIDE DEF z
<1>5. Quarter \in Nat
  BY <1>2 DEF Quarter
<1>6. CASE Scale(enc) = 1
  BY <1>2, <1>3, <1>4, <1>5, <1>6
<1>7. CASE Scale(enc) = 4
  BY <1>2, <1>3, <1>4, <1>5, <1>7
<1> QED BY <1>4, <1>6, <1>7

LEMMA CodeType ==
  ASSUME NEW enc \in Encodings, NEW odd \in BOOLEAN, NEW p \in Int
  PROVE  /\ Code(enc, odd, p) \in 0 .. Circle
         /\ Code(enc, odd, p) \div Scale(enc) = p % Width(enc, odd)
<1> DEFINE w == Width(enc, odd)
           s == Scale(enc)
           r == p % w
<1>1. w \in Nat \ {0} /\ s \in {1, 4} /\ w * s <= Circle /\ Circle \in Nat
  BY WidthType
<1> HIDE DEF w, s
<1>2. r \in 0 .. w - 1
  BY <1>1, DivMod
<1> HIDE DEF r
<1>3. r * s \in 0 .. Circle /\ (r * s) \div s = r
  <2>1. CASE s = 1
    BY <1>1, <1>2, <2>1
  <2>2. CASE s = 4
    BY <1>1, <1>2, <2>2
  <2> QED BY <1>1, <2>1, <2>2
<1> QED BY <1>3 DEF Code, r, s, w

-----------------------------------------------------------------------------
(***************************************************************************)
(* The local decode.                                                       *)
(***************************************************************************)

\* North of the equator, the zone nearest to the reference is the right one for
\* an aircraft that is less than half a zone away from it.
LEMMA LocalDecodeCorrect ==
  ASSUME NEW enc \in Encodings, NEW odd \in BOOLEAN, NEW ref \in Nat,
         NEW p \in -Quarter .. Quarter,
         2 * Abs(p - ref) < Width(enc, odd)
  PROVE  LocalDecode(enc, odd, ref, Code(enc, odd, p)) = [ok |-> TRUE, lat |-> p]
<1> DEFINE w == Width(enc, odd)
           off == Code(enc, odd, p) \div Scale(enc)
           j == (ref \div w) + ((w + 2 * GoMod(ref, w) - 2 * off) \div (2 * w))
           k == p \div w
           q == ref \div w
           r == ref % w
<1>1. w \in Nat \ {0} /\ Quarter \in Nat
  BY WidthType
<1>2. p \in Int
  BY <1>1
<1>3. off = p % w
  BY <1>2, CodeType
<1>4. LocalDecode(enc, odd, ref, Code(enc, odd, p)) = Latitude(w * j + off)
  BY DEF LocalDecode
<1>5. GoMod(ref, w) = r
  BY DEF GoMod
<1> HIDE DEF w
<1> HIDE DEF off
<1>6. k \in Int /\ off \in Int /\ p = w * k + off
  BY <1>1, <1>2, <1>3, DivMod
<1>7. q \in Int /\ r \in Int /\ ref = w * q + r
  BY <1>1, DivMod
<1>8. 2 * (p - ref) < w /\ -w < 2 * (p - ref)
  BY <1>1, <1>2 DEF Abs, w
<1>9. j = q + ((w + 2 * r - 2 * off) \div (2 * w))
  BY <1>5 DEF off
<1> HIDE DEF j, k, q, r
<1> DEFINE e == w - 2 * (p - ref)
<1>10. e \in Int /\ 0 <= e /\ e < 2 * w /\ 2 * w \in Nat \ {0}
  BY <1>1, <1>2, <1>8
<1>11. w + 2 * r - 2 * off = (2 * w) * (k - q) + e
  <2>1. w * k - w * q = w * (k - q) /\ w * k \in Int /\ w * q \in Int /\ w * (k - q) \in Int
    BY <1>1, <1>6, <1>7
  <2>2. (2 * w) * (k - q) = 2 * (w * (k - q))
    BY <1>1, <1>6, <1>7
  <2> QED BY <1>1, <1>6, <1>7, <2>1, <2>2
<1> HIDE DEF e
<1>12. (w + 2 * r - 2 * off) \div (2 * w) = k - q
  <2> DEFINE b == 2 * w
             d == k - q
  <2>1. b \in Nat \ {0} /\ d \in Int /\ w + 2 * r - 2 * off = b * d + e
    BY <1>6, <1>7, <1>10, <1>11
  <2> HIDE DEF b, d
  <2>2. (b * d + e) \div b = d
    BY <1>10, <2>1, Quotient DEF b
  <2> QED BY <2>1, <2>2 DEF b, d
<1>13. j = k
  BY <1>6, <1>7, <1>9, <1>12
<1> QED BY <1>4, <1>6, <1>13 DEF Latitude

-----------------------------------------------------------------------------
(***************************************************************************)
(* The global decode.                                                      *)
(***************************************************************************)

LEMMA TimesCircle ==
  ASSUME NEW a \in Int, NEW b \in Int, NEW c \in Nat, a <= b
  PROVE  a * c <= b * c
OBVIOUS

\* An even and an odd code of places close to each other tell the zones' numbers.
LEMMA PairIndex ==
  ASSUME NEW z \in Nat \ {0}, NEW y \in Nat \ {0}, NEW w \in Nat \ {0},
         NEW v \in Nat \ {0}, NEW c \in Nat, c = z * w, c = y * v,
         NEW p \in Int, NEW q \in Int, NEW k \in Int, NEW m \in Int,
         NEW e \in Int, NEW o \in Int, p = w * k + e, q = v * m + o,
         NEW t \in Int, t = (p - q) * c, 2 * t < w * v, -(w * v) < 2 * t
  PROVE  (2 * y * e * v - 2 * z * o * w + w * v) \div (2 * w * v) = z * m - y * k
<1> DEFINE b == 2 * w * v
           d == z * m - y * k
           r == 2 * t + w * v
<1>1. b = 2 * (w * v) /\ w * v \in Nat \ {0} /\ b \in Nat \ {0}
  OBVIOUS
<1>2. 2 * y * e * v = 2 * (c * e) /\ 2 * z * o * w = 2 * (c * o)
  OBVIOUS
<1>3. c * e = c * p - (w * v) * (y * k)
  <2>1. c * (w * k) = (w * v) * (y * k)
    OBVIOUS
  <2>2. c * p = c * (w * k) + c * e
    OBVIOUS
  <2> QED BY <2>1, <2>2
<1>4. c * o = c * q - (w * v) * (z * m)
  <2>1. c * (v * m) = (w * v) * (z * m)
    OBVIOUS
  <2>2. c * q = c * (v * m) + c * o
    OBVIOUS
  <2> QED BY <2>1, <2>2
<1>5. t = c * p - c * q
  OBVIOUS
<1>6. b * d = 2 * ((w * v) * (z * m)) - 2 * ((w * v) * (y * k))
  OBVIOUS
<1>7. 2 * y * e * v - 2 * z * o * w + w * v = b * d + r
  <2> DEFINE A == 2 * y * e * v
             B == 2 * z * o * w
             C == c * e
             D == c * o
             E == (w * v) * (z * m)
             F == (w * v) * (y * k)
             G == c * p
             H == c * q
             W == w * v
             X == b * d
  <2>1. /\ A = 2 * C /\ B = 2 * D /\ C = G - F /\ D = H - E /\ t = G - H
        /\ X = 2 * E - 2 * F /\ r = 2 * t + W
    BY <1>2, <1>3, <1>4, <1>5, <1>6
  <2>2. /\ C \in Int /\ D \in Int /\ E \in Int /\ F \in Int /\ G \in Int /\ H \in Int
        /\ W \in Int
    OBVIOUS
  <2> HIDE DEF A, B, C, D, E, F, G, H, W, X, r
  <2>3. A - B + W = X + r
    BY <2>1, <2>2
  <2> QED BY <2>3 DEF A, B, W, X
<1>8. r \in Int /\ 0 <= r /\ r < b
  <2> DEFINE W == w * v
  <2>1. W \in Nat /\ b = 2 * W /\ r = 2 * t + W /\ 2 * t < W /\ -W < 2 * t /\ t \in Int
    BY <1>1
  <2> HIDE DEF W, r, b
  <2> QED BY <2>1
<1>9. d \in Int
  OBVIOUS
<1> HIDE DEF b, d, r
<1>10. (b * d + r) \div b = d
  BY <1>1, <1>8, <1>9, Quotient
<1> QED BY <1>7, <1>10 DEF b, d

LEMMA ModuloShift ==
  ASSUME NEW z \in Nat \ {0}, NEW n \in Int, NEW k \in 0 .. z - 1
  PROVE  (z * n + k) % z = k
OBVIOUS

\* How a code and its zone give back the place.
LEMMA CodeOf ==
  ASSUME NEW enc \in Encodings, NEW odd \in BOOLEAN, NEW p \in Int
  PROVE  LET w == Width(enc, odd)
             z == IF odd THEN OddZones ELSE EvenZones
         IN /\ w \in Nat \ {0} /\ z \in Nat \ {0} /\ p \div w \in Int
            /\ Code(enc, odd, p) \in Int
            /\ Scale(enc) * w = IF odd THEN OddWidth ELSE EvenWidth
            /\ w * (p \div w) + (Code(enc, odd, p) \div Scale(enc)) = p
            /\ Scale(enc) * p = (Scale(enc) * w) * (p \div w) + Code(enc, odd, p)
            /\ Circle = w * (Scale(enc) * z)
<1> DEFINE w == Width(enc, odd)
           z == IF odd THEN OddZones ELSE EvenZones
           u == IF odd THEN OddWidth ELSE EvenWidth
           s == Scale(enc)
           r == p % w
<1>1. w \in Nat \ {0} /\ s \in {1, 4}
  BY WidthType
<1>2. u \in Nat \ {0} /\ u % 4 = 0 /\ z \in Nat \ {0} /\ Circle = z * u
  BY ZoneAssumption DEF Circle
<1>3. w = u \div s
  BY DEF Width
<1>4. Code(enc, odd, p) = r * s /\ Code(enc, odd, p) \div Scale(enc) = r
  BY CodeType DEF Code
<1> HIDE DEF w, z, u, s
<1>5. p \div w \in Int /\ r \in Int /\ p = w * (p \div w) + r
  BY <1>1, DivMod
<1> HIDE DEF r
<1>6. s * w = u
  BY <1>1, <1>2, <1>3
<1>7. z * (s * w) = w * (s * z)
  BY <1>1, <1>2
<1> DEFINE k == p \div w
<1>8. k \in Int /\ p = w * k + r
  BY <1>5
<1> HIDE DEF k
<1>9. s * p = (s * w) * k + r * s
  <2>1. s * (w * k) = (s * w) * k
    BY <1>1, <1>8
  <2>2. w * k \in Int
    BY <1>1, <1>8
  <2> QED BY <1>1, <1>5, <1>8, <2>1, <2>2
<1>10. r * s \in Int
  BY <1>1, <1>5
<1> QED BY <1>1, <1>2, <1>4, <1>6, <1>7, <1>8, <1>9, <1>10 DEF w, z, u, s, k

LEMMA ZoneNumber ==
  ASSUME NEW w \in Nat \ {0}, NEW z \in Nat \ {0}, NEW s \in {1, 4},
         Circle = w * (s * z), NEW p \in 0 .. Quarter - 1
  PROVE  p \div w \in 0 .. z - 1
<1> DEFINE k == p \div w
<1>1. k \in Nat /\ w * k <= p
  <2>1. p \in Nat /\ p \in Int
    OBVIOUS
  <2>2. k \in Nat /\ p % w \in 0 .. w - 1 /\ p = w * k + (p % w)
    BY <2>1, DivMod
  <2> HIDE DEF k
  <2>3. w * k \in Int
    BY <2>2
  <2> QED BY <2>2, <2>3
<1> HIDE DEF k
<1>2. w * (s * z) <= w * (4 * z)
  <2>1. s * z <= 4 * z /\ s * z \in Nat /\ 4 * z \in Nat
    OBVIOUS
  <2> QED BY <2>1
<1>3. w * (4 * z) = 4 * (w * z) /\ w * z \in Nat
  OBVIOUS
<1>4. w * (s * z) \in Nat
  OBVIOUS
<1>5. 4 * p < Circle
  BY <1>4 DEF Quarter
<1>6. w * k < w * z /\ w * k \in Int
  BY <1>1, <1>2, <1>3, <1>4, <1>5
<1>7. k < z
  BY <1>1, <1>6, ProductLess
<1> QED BY <1>1, <1>7 DEF k

\* The two latitudes the global decode computes.
Index(e, o) == (2 * OddZones * e * OddWidth - 2 * EvenZones * o * EvenWidth
                  + EvenWidth * OddWidth) \div (2 * EvenWidth * OddWidth)

Turned(x) == IF x >= 3 * Quarter THEN x - Circle ELSE x

LatitudeOf(enc, e, o, odd) ==
  Turned(Width(enc, odd) * (Index(e, o) % (IF odd THEN OddZones ELSE EvenZones))
           + (IF odd THEN o ELSE e) \div Scale(enc))

LEMMA GlobalDecodes ==
  ASSUME NEW enc \in Encodings, NEW odd \in BOOLEAN, NEW e, NEW o,
         GlobalDecode(enc, e, o, odd).ok
  PROVE  GlobalDecode(enc, e, o, odd).lat = LatitudeOf(enc, e, o, odd)
<1>1. GlobalDecode(enc, e, o, odd) \in {Failed, Latitude(LatitudeOf(enc, e, o, odd))}
  BY DEF GlobalDecode, LatitudeOf, Index, Turned
<1>2. Failed.ok = FALSE
  BY DEF Failed
<1>3. \A x : Latitude(x).ok => Latitude(x).lat = x
  BY <1>2 DEF Latitude
<1> QED BY <1>1, <1>2, <1>3

LEMMA IndexType ==
  ASSUME NEW e \in Int, NEW o \in Int
  PROVE  Index(e, o) \in Int
<1> DEFINE a == 2 * OddZones * e * OddWidth - 2 * EvenZones * o * EvenWidth
                  + EvenWidth * OddWidth
           b == 2 * EvenWidth * OddWidth
<1>1. a \in Int /\ b \in Nat \ {0}
  BY ZoneAssumption
<1> HIDE DEF a, b
<1>2. a \div b \in Int
  BY <1>1, DivMod
<1> QED BY <1>2 DEF Index, a, b

\* Whatever the other code, the global decode is right up to a number of zones.
LEMMA GlobalDecodeCongruent ==
  ASSUME NEW enc \in Encodings, NEW odd \in BOOLEAN, NEW e \in Int, NEW o \in Int,
         NEW p \in Int, (IF odd THEN o ELSE e) = Code(enc, odd, p),
         GlobalDecode(enc, e, o, odd).ok
  PROVE  \E n \in Int : GlobalDecode(enc, e, o, odd).lat = p + Width(enc, odd) * n
<1> DEFINE w == Width(enc, odd)
           z == IF odd THEN OddZones ELSE EvenZones
           s == Scale(enc)
           off == Code(enc, odd, p) \div s
           k == p \div w
           i == Index(e, o) % z
           x == w * i + off
<1>1. /\ w \in Nat \ {0} /\ z \in Nat \ {0} /\ k \in Int /\ w * k + off = p
      /\ Circle = w * (s * z)
  BY CodeOf
<1>2. s \in {1, 4}
  BY WidthType
<1>3. i \in Int
  <2>1. Index(e, o) \in Int
    BY IndexType
  <2> HIDE DEF z
  <2> QED BY <1>1, <2>1, DivMod
<1>4. GlobalDecode(enc, e, o, odd).lat = Turned(x)
  BY GlobalDecodes DEF LatitudeOf
<1>5. off \in Int
  <2>1. Code(enc, odd, p) \in Int
    BY CodeOf
  <2> HIDE DEF s
  <2> QED BY <1>2, <2>1, DivMod
<1>6. Turned(x) \in {x, x - Circle}
  BY DEF Turned
<1> HIDE DEF w, z, s, off, k, i
<1>7. x = p + w * (i - k)
  <2>1. w * (i - k) = w * i - w * k /\ w * i \in Int /\ w * k \in Int
    BY <1>1, <1>3
  <2> QED BY <1>1, <1>5, <2>1
<1>8. x - Circle = p + w * (i - k - s * z)
  <2>1. /\ w * (i - k - s * z) = w * (i - k) - w * (s * z)
        /\ w * (i - k) \in Int /\ w * (s * z) \in Int
    BY <1>1, <1>2, <1>3
  <2> HIDE DEF x
  <2> QED BY <1>1, <1>7, <2>1
<1>9. i - k \in Int /\ i - k - s * z \in Int
  BY <1>1, <1>2, <1>3
<1> HIDE DEF x
<1>10. CASE GlobalDecode(enc, e, o, odd).lat = x
  BY <1>7, <1>9, <1>10 DEF w
<1>11. CASE GlobalDecode(enc, e, o, odd).lat = x - Circle
  BY <1>8, <1>9, <1>11 DEF w
<1> QED BY <1>4, <1>6, <1>10, <1>11

\* Two codes of one encoding, sent from places close to each other on the
\* northern quarter, give the place the last one was sent from.
LEMMA GlobalDecodeCorrect ==
  ASSUME EvenZones = OddZones + 1,
         NEW enc \in Encodings, NEW odd \in BOOLEAN,
         NEW p \in 0 .. Quarter - 1, NEW q \in 0 .. Quarter - 1,
         2 * Scale(enc) * Abs(p - q) * Circle < EvenWidth * OddWidth,
         GlobalDecode(enc, Code(enc, FALSE, p), Code(enc, TRUE, q), odd).ok
  PROVE  GlobalDecode(enc, Code(enc, FALSE, p), Code(enc, TRUE, q), odd).lat
           = IF odd THEN q ELSE p
<1> DEFINE e == Code(enc, FALSE, p)
           o == Code(enc, TRUE, q)
           s == Scale(enc)
           w == Width(enc, FALSE)
           v == Width(enc, TRUE)
           k == p \div w
           m == q \div v
           j == Index(e, o)
<1>1. /\ Circle \in Nat /\ Quarter \in Nat /\ s \in {1, 4} /\ p \in Int /\ q \in Int
      /\ FALSE \in BOOLEAN /\ TRUE \in BOOLEAN
  BY WidthType
<1>2. /\ w \in Nat \ {0} /\ EvenZones \in Nat \ {0} /\ k \in Int /\ e \in Int
      /\ s * w = EvenWidth /\ w * k + (e \div s) = p
      /\ s * p = (s * w) * k + e /\ Circle = w * (s * EvenZones)
  BY ZenonT(60), <1>1, CodeOf
<1>3. /\ v \in Nat \ {0} /\ OddZones \in Nat \ {0} /\ m \in Int /\ o \in Int
      /\ s * v = OddWidth /\ v * m + (o \div s) = q
      /\ s * q = (s * v) * m + o /\ Circle = v * (s * OddZones)
  BY ZenonT(60), <1>1, CodeOf
<1>4. /\ GlobalDecode(enc, e, o, odd).lat = LatitudeOf(enc, e, o, odd)
  BY GlobalDecodes
<1>5. k \in 0 .. EvenZones - 1
  BY <1>1, <1>2, ZoneNumber
<1>6. m \in 0 .. OddZones - 1
  BY <1>1, <1>3, ZoneNumber
<1> DEFINE ex == e \div s
           ox == o \div s
<1>7. LatitudeOf(enc, e, o, odd) = IF odd THEN Turned(v * (j % OddZones) + ox)
                                   ELSE Turned(w * (j % EvenZones) + ex)
  BY DEF LatitudeOf
<1>8. 2 * s * Abs(p - q) * Circle < EvenWidth * OddWidth
  OBVIOUS
<1> HIDE DEF e, o, s, w, v, k, m
<1>9. j = EvenZones * m - OddZones * k
  <2> DEFINE t == (s * p - s * q) * Circle
  <2>1. t \in Int /\ s * p \in Int /\ s * q \in Int
    BY <1>1
  <2>2. 2 * t < EvenWidth * OddWidth /\ -(EvenWidth * OddWidth) < 2 * t
    <3> DEFINE d == Abs(p - q)
               W == EvenWidth * OddWidth
               X == (s * d) * Circle
    <3>1. d \in Nat /\ (p - q = d \/ p - q = -d)
      BY <1>1 DEF Abs
    <3>2. t = X \/ t = -X
      <4>1. s * p - s * q = s * (p - q)
        BY <1>1
      <4>2. s * d \in Int /\ s * (-d) = -(s * d)
        BY <1>1, <3>1
      <4>3. (-(s * d)) * Circle = -((s * d) * Circle)
        BY <1>1, <4>2
      <4> HIDE DEF d
      <4>4. CASE p - q = d
        BY <4>1, <4>4
      <4>5. CASE p - q = -d
        BY <4>1, <4>2, <4>3, <4>5
      <4> QED BY <3>1, <4>4, <4>5
    <3>3. 2 * X < W /\ X \in Nat /\ W \in Nat
      <4>1. 2 * X = 2 * s * d * Circle
        BY <1>1, <3>1
      <4>2. X \in Nat
        BY <1>1, <3>1
      <4> QED BY <1>8, <4>1, <4>2, ZoneAssumption
    <3> HIDE DEF t, X, W
    <3>4. 2 * t < W /\ -W < 2 * t
      BY <3>2, <3>3
    <3> QED BY <3>4 DEF W
  <2>3. /\ EvenWidth \in Nat \ {0} /\ OddWidth \in Nat \ {0}
        /\ Circle = EvenZones * EvenWidth /\ Circle = OddZones * OddWidth
    BY ZoneAssumption DEF Circle
  <2>4. s * p = EvenWidth * k + e /\ s * q = OddWidth * m + o
    BY <1>2, <1>3
  <2> HIDE DEF t
  <2>5. t = (s * p - s * q) * Circle
    BY DEF t
  <2> DEFINE P == s * p
             Q == s * q
  <2>6. P \in Int /\ Q \in Int /\ P = EvenWidth * k + e /\ Q = OddWidth * m + o
        /\ t = (P - Q) * Circle
    BY <2>1, <2>4, <2>5
  <2> HIDE DEF P, Q
  <2> QED BY <1>1, <1>2, <1>3, <2>1, <2>2, <2>3, <2>6, PairIndex DEF Index
<1>10. j % EvenZones = k /\ j % OddZones = m
  <2>1. j = EvenZones * (m - k) + k
    <3>1. EvenZones * (m - k) = EvenZones * m - EvenZones * k
      BY <1>2, <1>3
    <3>2. EvenZones * k = OddZones * k + k
      BY <1>2, <1>3
    <3>3. EvenZones * m \in Int /\ OddZones * k \in Int
      BY <1>2, <1>3
    <3> HIDE DEF j
    <3> QED BY <1>2, <1>3, <1>9, <3>1, <3>2, <3>3
  <2>2. j = OddZones * (m - k) + m
    <3>1. OddZones * (m - k) = OddZones * m - OddZones * k
      BY <1>2, <1>3
    <3>2. EvenZones * m = OddZones * m + m
      BY <1>2, <1>3
    <3>3. OddZones * m \in Int /\ OddZones * k \in Int
      BY <1>2, <1>3
    <3> HIDE DEF j
    <3> QED BY <1>2, <1>3, <1>9, <3>1, <3>2, <3>3
  <2> HIDE DEF j
  <2>3. m - k \in Int
    BY <1>2, <1>3
  <2>4. j % EvenZones = k
    BY <1>2, <1>5, <2>1, <2>3, ModuloShift
  <2>5. j % OddZones = m
    BY <1>3, <1>6, <2>2, <2>3, ModuloShift
  <2> QED BY <2>4, <2>5
<1>11. Turned(p) = p /\ Turned(q) = q
  BY <1>1 DEF Turned
<1> HIDE DEF j, ex, ox
<1>12. w * k + ex = p /\ v * m + ox = q
  BY <1>2, <1>3 DEF ex, ox
<1>13. LatitudeOf(enc, e, o, odd) = IF odd THEN Turned(q) ELSE Turned(p)
  BY <1>7, <1>10, <1>12
<1> QED BY <1>4, <1>11, <1>13 DEF e, o

-----------------------------------------------------------------------------
(***************************************************************************)
(* The table.                                                              *)
(***************************************************************************)

LEMMA LatitudeType ==
  /\ Failed.lat \in -Quarter .. Quarter
  /\ \A x : Latitude(x).lat \in -Quarter .. Quarter
<1>1. "air" \in Encodings /\ TRUE \in BOOLEAN
  BY DEF Encodings
<1>2. Quarter \in Nat
  BY <1>1, WidthType
<1> QED BY <1>2 DEF Latitude, Failed

LEMMA DecodesType ==
  ASSUME NEW enc, NEW odd, NEW ref, NEW c, NEW d
  PROVE  /\ LocalDecode(enc, odd, ref, c).lat \in -Quarter .. Quarter
         /\ GlobalDecode(enc, c, d, odd).lat \in -Quarter .. Quarter
<1>1. LocalDecode(enc, odd, ref, c).lat \in -Quarter .. Quarter
  BY LatitudeType DEF LocalDecode
<1>2. GlobalDecode(enc, c, d, odd).lat \in -Quarter .. Quarter
  BY LatitudeType DEF GlobalDecode
<1> QED BY <1>1, <1>2

\* What each change makes of an entry.
LEMMA FixedType ==
  ASSUME NEW v \in Plane, NEW lat \in -Quarter .. Quarter
  PROVE  /\ Fixed(v, lat) \in Plane
         /\ Fixed(v, lat).valid = TRUE /\ Fixed(v, lat).lat = lat
         /\ Fixed(v, lat).posAge = 0 /\ Fixed(v, lat).seen = v.seen
         /\ Fixed(v, lat).even = v.even /\ Fixed(v, lat).odd = v.odd
<1> DEFINE u == [v EXCEPT !.lat = lat, !.valid = TRUE]
<1>1. /\ u \in Plane /\ u.valid = TRUE /\ u.lat = lat /\ u.seen = v.seen
      /\ u.even = v.even /\ u.odd = v.odd
  BY DEF Plane
<1>2. Fixed(v, lat) = [u EXCEPT !.posAge = 0]
  BY DEF Fixed, Plane
<1> HIDE DEF u
<1> QED BY <1>1, <1>2, TimeAssumption DEF Plane

LEMMA StoredType ==
  ASSUME NEW v \in Plane, NEW odd \in BOOLEAN, NEW s \in Slot
  PROVE  /\ Stored(v, odd, s) \in Plane
         /\ Stored(v, odd, s).valid = v.valid /\ Stored(v, odd, s).lat = v.lat
         /\ Stored(v, odd, s).posAge = v.posAge /\ Stored(v, odd, s).seen = v.seen
         /\ Stored(v, odd, s).even = IF odd THEN v.even ELSE s
         /\ Stored(v, odd, s).odd = IF odd THEN s ELSE v.odd
BY DEF Stored, Plane

LEMMA PositionedType ==
  ASSUME NEW v \in Plane, NEW enc \in Encodings, NEW odd \in BOOLEAN,
         NEW c \in 0 .. Circle
  PROVE  LET w == Positioned(v, enc, odd, c)
             t == [code |-> c, age |-> 0, enc |-> enc]
         IN /\ w \in Plane /\ w.seen = v.seen /\ t \in Slot
            /\ w.even = IF odd THEN v.even ELSE t
            /\ w.odd = IF odd THEN t ELSE v.odd
            /\ \/ w.valid = v.valid /\ w.lat = v.lat /\ w.posAge = v.posAge
               \/ w.valid /\ w.posAge = 0
<1> DEFINE t == [code |-> c, age |-> 0, enc |-> enc]
           s == Stored(v, odd, t)
           l == LocalDecode(enc, odd, v.lat, c)
           g == GlobalDecode(enc, s.even.code, s.odd.code, odd)
           w == Positioned(v, enc, odd, c)
<1>1. t \in Slot
  BY TimeAssumption DEF Slot
<1> HIDE DEF t
<1>2. /\ s \in Plane /\ s.valid = v.valid /\ s.lat = v.lat
      /\ s.posAge = v.posAge /\ s.seen = v.seen
      /\ s.even = (IF odd THEN v.even ELSE t) /\ s.odd = (IF odd THEN t ELSE v.odd)
  BY <1>1, StoredType
<1>3. l.lat \in -Quarter .. Quarter /\ g.lat \in -Quarter .. Quarter
  BY DecodesType
<1>4. w \in {Fixed(s, l.lat), Fixed(s, g.lat), s}
  BY DEF Positioned, t
<1> HIDE DEF s, l, g, w
<1>5. CASE w = s
  BY <1>1, <1>2, <1>5 DEF w, t
<1>6. ASSUME NEW lat \in -Quarter .. Quarter, w = Fixed(s, lat)
      PROVE  /\ w \in Plane /\ w.seen = v.seen /\ w.valid /\ w.posAge = 0
             /\ w.even = (IF odd THEN v.even ELSE t) /\ w.odd = (IF odd THEN t ELSE v.odd)
  BY <1>2, <1>6, FixedType
<1>7. CASE w # s
  BY <1>1, <1>3, <1>4, <1>6, <1>7 DEF w, t
<1> QED BY <1>5, <1>7

-----------------------------------------------------------------------------
(***************************************************************************)
(* The invariant.                                                          *)
(***************************************************************************)

\* An entry without a position has none of any age; a position that was true when
\* it was accepted is on the route; and the entry a message in hand is for has
\* just been marked as seen, so that nothing can prune it.
UnfixedInv == \A a \in Planes : aircraft[a] # NoPlane /\ ~aircraft[a].valid
                                  => aircraft[a].posAge = ShortGap

HonestInv == \A a \in Planes : aircraft[a] # NoPlane /\ aircraft[a].valid /\ honest[a]
                                 => aircraft[a].lat \in Route

TabledInv == hand # Nothing => /\ aircraft[hand.plane] # NoPlane
                               /\ aircraft[hand.plane].seen = 0

\* A code in the table was sent from where the aircraft was, which it has left by a
\* cell at most in each step since then, those on the ground in each but the first.
Drift(s) == CASE s.enc = "air" -> s.age
              [] s.enc = "surface" -> IF s.age = 0 THEN 0 ELSE s.age - 1

SlotTrue(a, s, odd) ==
  s # NoCode =>
    /\ s.enc = "surface" /\ s.age = 0 => a \in grounded
    /\ \E p \in Route : s.code = Code(s.enc, odd, p) /\ Abs(truth[a] - p) <= Drift(s)

SlotsInv ==
  /\ \A a \in Planes : aircraft[a] # NoPlane
       => SlotTrue(a, aircraft[a].even, FALSE) /\ SlotTrue(a, aircraft[a].odd, TRUE)
  /\ hand # Nothing /\ hand.kind = "surface" => hand.plane \in grounded

TrackInv == TypeOK /\ UnfixedInv /\ HonestInv /\ TabledInv /\ SlotsInv

LEMMA RouteType == Route \subseteq Int
<1>1. "air" \in Encodings /\ TRUE \in BOOLEAN
  BY DEF Encodings
<1>2. Quarter \in Nat
  BY <1>1, WidthType
<1> QED BY <1>2, ZoneAssumption

LEMMA TrackInit == Init => TrackInv
BY DEF Init, TrackInv, TypeOK, UnfixedInv, HonestInv, TabledInv, SlotsInv

LEMMA TrackReceive ==
  ASSUME TrackInv, NEW a \in Planes, NEW m \in Messages, Receive(a, m)
  PROVE  TrackInv'
<1>0. TypeOK /\ UnfixedInv /\ HonestInv /\ TabledInv /\ SlotsInv
  BY DEF TrackInv
<1>1. /\ hand = Nothing /\ hand' = [plane |-> a, kind |-> m.kind, odd |-> m.odd]
      /\ aircraft' = [aircraft EXCEPT ![a] = Touched(a)]
      /\ UNCHANGED <<truth, grounded, honest>>
  BY DEF Receive
<1>2. hand' \in Hands /\ hand'.plane = a
  BY <1>1 DEF Messages, Hands
<1>3. FoundOrMade(a) \in Plane /\ (aircraft[a] = NoPlane => FoundOrMade(a) = NewPlane)
                               /\ (aircraft[a] # NoPlane => FoundOrMade(a) = aircraft[a])
  <2>1. NewPlane \in Plane
    BY TimeAssumption, LatitudeType DEF NewPlane, Plane, Failed
  <2> QED BY <1>0, <2>1 DEF TypeOK, FoundOrMade
<1>4. /\ Touched(a) \in Plane /\ Touched(a).seen = 0
      /\ Touched(a).valid = FoundOrMade(a).valid /\ Touched(a).lat = FoundOrMade(a).lat
      /\ Touched(a).posAge = FoundOrMade(a).posAge
  BY <1>3, TimeAssumption DEF Touched, Plane
<1>5. TypeOK'
  BY <1>0, <1>1, <1>2, <1>4 DEF TypeOK
<1>6. aircraft'[a] = Touched(a) /\ \A b \in Planes \ {a} : aircraft'[b] = aircraft[b]
  BY <1>0, <1>1 DEF TypeOK
<1>7. UnfixedInv' /\ HonestInv'
  <2>1. NewPlane.valid = FALSE /\ NewPlane.posAge = ShortGap
    BY DEF NewPlane
  <2>2. /\ ~Touched(a).valid => Touched(a).posAge = ShortGap
        /\ Touched(a).valid /\ honest[a] => Touched(a).lat \in Route
    BY <1>0, <1>3, <1>4, <2>1 DEF UnfixedInv, HonestInv
  <2> QED BY <1>0, <1>1, <1>6, <2>2 DEF UnfixedInv, HonestInv
<1>8. TabledInv'
  BY <1>1, <1>2, <1>4, <1>6, NothingAssumption DEF TabledInv
<1>9. SlotsInv'
  <2>1. ASSUME NEW b \in Planes, aircraft'[b] # NoPlane
        PROVE  (SlotTrue(b, aircraft[b].even, FALSE) /\ SlotTrue(b, aircraft[b].odd, TRUE))'
    <3>1. CASE b = a /\ aircraft[a] = NoPlane
      <4>1. aircraft'[b].even = NoCode /\ aircraft'[b].odd = NoCode
        BY <1>3, <1>6, <3>1, TimeAssumption, LatitudeType
        DEF Touched, NewPlane
      <4> QED BY <4>1 DEF SlotTrue
    <3>2. CASE ~(b = a /\ aircraft[a] = NoPlane)
      <4>1. /\ aircraft[b] # NoPlane
            /\ aircraft'[b].even = aircraft[b].even /\ aircraft'[b].odd = aircraft[b].odd
        BY <1>0, <1>3, <1>6, <2>1, <3>2 DEF TypeOK, Touched, Plane
      <4> QED BY <1>0, <1>1, <4>1 DEF SlotsInv, SlotTrue
    <3> QED BY <3>1, <3>2
  <2>2. hand'.kind = "surface" => hand'.plane \in grounded'
    <3>1. hand'.kind = m.kind
      BY <1>1
    <3>2. m.kind = "surface" => a \in grounded
      BY DEF Receive
    <3> QED BY <1>1, <1>2, <3>1, <3>2
  <2> QED BY <2>1, <2>2 DEF SlotsInv
<1> QED BY <1>5, <1>7, <1>8, <1>9 DEF TrackInv

LEMMA TrackDecode ==
  ASSUME TrackInv, Decode
  PROVE  TrackInv'
<1>0. TypeOK /\ UnfixedInv /\ HonestInv /\ TabledInv /\ SlotsInv
  BY DEF TrackInv
<1> DEFINE a == hand.plane
           v == aircraft[a]
           c == Code(hand.kind, hand.odd, truth[a])
           w == Positioned(v, hand.kind, hand.odd, c)
<1>1. /\ hand # Nothing /\ hand' = Nothing /\ UNCHANGED <<truth, grounded>>
      /\ IF hand.kind = "other" \/ v = NoPlane THEN UNCHANGED <<aircraft, honest>>
         ELSE /\ aircraft' = [aircraft EXCEPT ![a] = w]
              /\ honest' = [honest EXCEPT ![a] =
                   IF w.valid /\ w.posAge = 0 /\ (v.posAge # 0 \/ v.lat # w.lat)
                   THEN w.lat = truth[a] ELSE honest[a]]
  BY DEF Decode
<1>2. TabledInv'
  BY <1>1 DEF TabledInv
<1>3. CASE hand.kind = "other" \/ v = NoPlane
  BY <1>0, <1>1, <1>2, <1>3 DEF TrackInv, TypeOK, UnfixedInv, HonestInv, SlotsInv, SlotTrue
<1>4. CASE ~(hand.kind = "other" \/ v = NoPlane)
  <2>1. /\ hand \in Hands /\ a \in Planes /\ hand.kind \in Encodings /\ hand.odd \in BOOLEAN
        /\ v \in Plane /\ truth[a] \in Route
    BY <1>0, <1>1, <1>4 DEF TypeOK, Hands
  <2>2. c \in 0 .. Circle
    <3>1. truth[a] \in Int
      <4>1. Quarter \in Nat
        BY <2>1, WidthType
      <4>2. truth[a] \in -Quarter .. Quarter
        BY <2>1, ZoneAssumption
      <4> QED BY <4>1, <4>2
    <3> QED BY <2>1, <3>1, CodeType
  <2> DEFINE t == [code |-> c, age |-> 0, enc |-> hand.kind]
  <2>3. /\ w \in Plane
        /\ w.even = (IF hand.odd THEN v.even ELSE t)
        /\ w.odd = (IF hand.odd THEN t ELSE v.odd)
        /\ \/ w.valid = v.valid /\ w.lat = v.lat /\ w.posAge = v.posAge
           \/ w.valid /\ w.posAge = 0
    BY <2>1, <2>2, PositionedType
  <2> DEFINE h == IF w.valid /\ w.posAge = 0 /\ (v.posAge # 0 \/ v.lat # w.lat)
                  THEN w.lat = truth[a] ELSE honest[a]
  <2>4. h \in BOOLEAN
    BY <1>0, <2>1 DEF TypeOK
  <2>5. /\ aircraft' = [aircraft EXCEPT ![a] = w] /\ honest' = [honest EXCEPT ![a] = h]
    BY <1>1, <1>4
  <2>6. /\ w.valid \/ w.posAge = ShortGap
        /\ w.valid /\ h => w.lat \in Route
    <3>1. /\ v.valid \/ v.posAge = ShortGap
          /\ v.valid /\ honest[a] => v.lat \in Route
      BY <1>0, <1>4, <2>1 DEF UnfixedInv, HonestInv
    <3>2. v.valid \in BOOLEAN /\ w.valid \in BOOLEAN /\ ShortGap # 0
      BY <2>1, <2>3, TimeAssumption DEF Plane
    <3> HIDE DEF w, v, c
    <3> QED BY <2>1, <2>3, <3>1, <3>2
  <2> HIDE DEF h, w
  <2>7. TypeOK'
    BY <1>0, <1>1, <2>1, <2>3, <2>4, <2>5 DEF TypeOK
  <2>8. UnfixedInv' /\ HonestInv'
    BY <1>0, <2>1, <2>5, <2>6 DEF UnfixedInv, HonestInv, TypeOK
  <2>9. SlotsInv'
    <3>1. /\ t.enc = hand.kind /\ t.age = 0 /\ t.code = Code(hand.kind, hand.odd, truth[a])
          /\ Drift(t) = 0
      BY <2>1 DEF Drift, Encodings
    <3>2. Abs(truth[a] - truth[a]) <= 0
      <4>1. truth[a] \in Int
        BY <2>1, RouteType
      <4> QED BY <4>1 DEF Abs
    <3> HIDE DEF t
    <3>3. SlotTrue(a, t, hand.odd)
      BY <1>0, <1>1, <2>1, <3>1, <3>2 DEF SlotTrue, SlotsInv
    <3>4. /\ SlotTrue(a, v.even, FALSE) /\ SlotTrue(a, v.odd, TRUE)
      BY <1>0, <1>4, <2>1 DEF SlotsInv
    <3> HIDE DEF a, v
    <3>5. SlotTrue(a, w.even, FALSE) /\ SlotTrue(a, w.odd, TRUE)
      <4>1. CASE hand.odd
        BY <2>3, <3>3, <3>4, <4>1
      <4>2. CASE ~hand.odd
        BY <2>1, <2>3, <3>3, <3>4, <4>2
      <4> QED BY <4>1, <4>2
    <3>6. ASSUME NEW b \in Planes, aircraft'[b] # NoPlane
          PROVE  /\ SlotTrue(b, aircraft'[b].even, FALSE)
                 /\ SlotTrue(b, aircraft'[b].odd, TRUE)
      <4>1. CASE b = a
        BY <1>0, <2>1, <2>5, <3>5, <4>1 DEF TypeOK
      <4>2. CASE b # a
        BY <1>0, <2>1, <2>5, <3>6, <4>2 DEF TypeOK, SlotsInv
      <4> QED BY <4>1, <4>2
    <3> QED BY <1>1, <3>6 DEF SlotsInv, SlotTrue
  <2> QED BY <1>2, <2>7, <2>8, <2>9 DEF TrackInv
<1> QED BY <1>3, <1>4

LEMMA OlderType ==
  ASSUME NEW limit \in Nat, NEW age \in 0 .. limit
  PROVE  Older(age, limit) \in 0 .. limit /\ (age = limit => Older(age, limit) = limit)
BY DEF Older

LEMMA AgedType ==
  ASSUME NEW s \in Slot \cup {NoCode}
  PROVE  Aged(s) \in Slot \cup {NoCode}
<1>1. CASE s = NoCode \/ s.age + 1 >= PairLimit
  BY <1>1 DEF Aged
<1>2. CASE ~(s = NoCode \/ s.age + 1 >= PairLimit)
  <2>1. s \in Slot
    BY <1>2
  <2> QED BY <1>2, <2>1, TimeAssumption DEF Aged, Slot
<1> QED BY <1>1, <1>2

LEMMA TrackTime ==
  ASSUME TrackInv, TimePasses
  PROVE  TrackInv'
<1>0. TypeOK /\ UnfixedInv /\ HonestInv /\ TabledInv /\ SlotsInv
  BY DEF TrackInv
<1> DEFINE Later(v) == [v EXCEPT !.posAge = Older(@, ShortGap),
                                 !.seen = Older(@, SeenLimit + 1),
                                 !.even = Aged(@), !.odd = Aged(@)]
<1>1. /\ hand = Nothing /\ UNCHANGED <<hand, honest>>
      /\ aircraft' = [a \in Planes |-> IF aircraft[a] = NoPlane THEN NoPlane
                                       ELSE Later(aircraft[a])]
      /\ truth' \in [Planes -> Route] /\ grounded' \in SUBSET Planes
  BY DEF TimePasses
<1>2. ASSUME NEW v \in Plane
      PROVE  /\ Later(v) \in Plane /\ Later(v).valid = v.valid /\ Later(v).lat = v.lat
             /\ Later(v).even = Aged(v.even) /\ Later(v).odd = Aged(v.odd)
             /\ v.posAge = ShortGap => Later(v).posAge = ShortGap
  <2> DEFINE u == [v EXCEPT !.posAge = Older(v.posAge, ShortGap),
                            !.seen = Older(v.seen, SeenLimit + 1)]
             x == [u EXCEPT !.even = Aged(v.even)]
  <2>1. /\ u \in Plane /\ u.valid = v.valid /\ u.lat = v.lat
        /\ u.even = v.even /\ u.odd = v.odd
        /\ v.posAge = ShortGap => u.posAge = ShortGap
    <3>1. Older(v.posAge, ShortGap) \in 0 .. ShortGap
      BY OlderType, TimeAssumption DEF Plane
    <3>2. Older(v.seen, SeenLimit + 1) \in 0 .. SeenLimit + 1
      BY OlderType, TimeAssumption DEF Plane
    <3>3. v.posAge = ShortGap => Older(v.posAge, ShortGap) = ShortGap
      BY OlderType, TimeAssumption DEF Plane
    <3> QED BY <3>1, <3>2, <3>3 DEF Plane
  <2>2. Aged(v.even) \in Slot \cup {NoCode} /\ Aged(v.odd) \in Slot \cup {NoCode}
    BY AgedType DEF Plane
  <2>3. Later(v) = [x EXCEPT !.odd = Aged(v.odd)]
    BY DEF Plane
  <2> HIDE DEF u
  <2>4. /\ x \in Plane /\ x.valid = v.valid /\ x.lat = v.lat /\ x.odd = v.odd
        /\ x.even = Aged(v.even)
        /\ v.posAge = ShortGap => x.posAge = ShortGap
    BY <2>1, <2>2 DEF Plane
  <2> HIDE DEF x
  <2> QED BY <2>2, <2>3, <2>4 DEF Plane
<1> HIDE DEF Later
<1>3. ASSUME NEW a \in Planes
      PROVE  /\ aircraft'[a] \in Plane \cup {NoPlane}
             /\ aircraft'[a] # NoPlane =>
                  /\ aircraft[a] # NoPlane
                  /\ aircraft'[a].valid = aircraft[a].valid
                  /\ aircraft'[a].lat = aircraft[a].lat
                  /\ aircraft'[a].even = Aged(aircraft[a].even)
                  /\ aircraft'[a].odd = Aged(aircraft[a].odd)
                  /\ aircraft[a].posAge = ShortGap => aircraft'[a].posAge = ShortGap
  BY <1>0, <1>1, <1>2 DEF TypeOK
<1>4. TypeOK'
  <2>1. aircraft' \in [Planes -> Plane \cup {NoPlane}]
    BY <1>1, <1>3
  <2> QED BY <1>0, <1>1, <2>1 DEF TypeOK
<1>5. UnfixedInv' /\ HonestInv'
  BY <1>0, <1>1, <1>3 DEF UnfixedInv, HonestInv
<1>6. TabledInv'
  BY <1>1 DEF TabledInv
<1>7. SlotsInv'
  <2>1. ASSUME NEW a \in Planes, NEW s \in Slot \cup {NoCode}, NEW odd \in BOOLEAN,
               SlotTrue(a, s, odd), Aged(s) # NoCode
        PROVE  /\ Aged(s).enc = "surface" /\ Aged(s).age = 0 => a \in grounded'
               /\ \E p \in Route : /\ Aged(s).code = Code(Aged(s).enc, odd, p)
                                   /\ Abs(truth'[a] - p) <= Drift(Aged(s))
    <3>1. s # NoCode /\ s \in Slot /\ Aged(s) = [s EXCEPT !.age = s.age + 1]
      BY <2>1 DEF Aged
    <3>2. /\ Aged(s).enc = s.enc /\ Aged(s).code = s.code /\ Aged(s).age = s.age + 1
          /\ s.enc \in {"air", "surface"} /\ s.age \in Nat
      BY <3>1, TimeAssumption DEF Slot, Encodings
    <3>3. PICK p \in Route : s.code = Code(s.enc, odd, p) /\ Abs(truth[a] - p) <= Drift(s)
      BY <2>1, <3>1 DEF SlotTrue
    <3>4. /\ truth[a] \in Int /\ truth'[a] \in Int /\ p \in Int
          /\ Abs(truth'[a] - truth[a]) <= IF a \in grounded THEN 0 ELSE 1
      BY <1>0, RouteType DEF TypeOK, TimePasses
    <3>5. Abs(truth'[a] - p) <= Abs(truth[a] - p) + Abs(truth'[a] - truth[a])
      BY <3>4 DEF Abs
    <3>6. Abs(truth'[a] - p) \in Int /\ Abs(truth[a] - p) \in Int
          /\ Abs(truth'[a] - truth[a]) \in Int
      BY <3>4 DEF Abs
    <3>7. s.enc = "surface" /\ s.age = 0 => a \in grounded
      BY <2>1, <3>1 DEF SlotTrue
    <3>8. Abs(truth'[a] - p) <= Drift(Aged(s))
      BY <3>2, <3>3, <3>4, <3>5, <3>6, <3>7 DEF Drift
    <3> QED BY <3>2, <3>3, <3>8
  <2>2. ASSUME NEW a \in Planes, NEW s \in Slot \cup {NoCode}, NEW odd \in BOOLEAN,
               SlotTrue(a, s, odd)
        PROVE  SlotTrue(a, Aged(s), odd)'
    BY <2>1, <2>2 DEF SlotTrue
  <2>3. ASSUME NEW a \in Planes, aircraft'[a] # NoPlane
        PROVE  (SlotTrue(a, aircraft[a].even, FALSE) /\ SlotTrue(a, aircraft[a].odd, TRUE))'
    <3>1. /\ aircraft[a] \in Plane /\ aircraft[a] # NoPlane
          /\ aircraft'[a].even = Aged(aircraft[a].even)
          /\ aircraft'[a].odd = Aged(aircraft[a].odd)
      BY <1>0, <1>3, <2>3 DEF TypeOK
    <3>2. /\ aircraft[a].even \in Slot \cup {NoCode} /\ aircraft[a].odd \in Slot \cup {NoCode}
          /\ FALSE \in BOOLEAN /\ TRUE \in BOOLEAN
      BY <3>1 DEF Plane
    <3>3. SlotTrue(a, aircraft[a].even, FALSE) /\ SlotTrue(a, aircraft[a].odd, TRUE)
      BY <1>0, <3>1 DEF SlotsInv
    <3>4. PICK e \in Slot \cup {NoCode}, o \in Slot \cup {NoCode} :
            e = aircraft[a].even /\ o = aircraft[a].odd
      BY <3>2
    <3>5. SlotTrue(a, Aged(e), FALSE)' /\ SlotTrue(a, Aged(o), TRUE)'
      BY <2>2, <3>2, <3>3, <3>4
    <3>6. aircraft'[a].even = Aged(e) /\ aircraft'[a].odd = Aged(o)
      BY <3>1, <3>4
    <3> QED BY <3>5, <3>6 DEF SlotTrue
  <2> QED BY <1>1, <2>3 DEF SlotsInv
<1> QED BY <1>4, <1>5, <1>6, <1>7 DEF TrackInv

LEMMA TrackPrune ==
  ASSUME TrackInv, Prune
  PROVE  TrackInv'
<1>0. TypeOK /\ UnfixedInv /\ HonestInv /\ TabledInv /\ SlotsInv
  BY DEF TrackInv
<1>1. /\ UNCHANGED <<hand, truth, grounded>>
      /\ aircraft' = [a \in Planes |->
           IF aircraft[a] # NoPlane /\ aircraft[a].seen > SeenLimit THEN NoPlane
           ELSE aircraft[a]]
      /\ honest' = [a \in Planes |-> aircraft'[a] = NoPlane \/ honest[a]]
  BY DEF Prune
<1>2. ASSUME NEW a \in Planes
      PROVE  /\ aircraft'[a] \in {NoPlane, aircraft[a]}
             /\ aircraft'[a] # NoPlane => (honest'[a] <=> honest[a])
             /\ honest'[a] \in BOOLEAN
             /\ aircraft[a] # NoPlane /\ aircraft[a].seen = 0 => aircraft'[a] = aircraft[a]
  BY <1>0, <1>1, TimeAssumption DEF TypeOK
<1>3. TypeOK'
  BY <1>0, <1>1, <1>2 DEF TypeOK
<1>4. UnfixedInv' /\ HonestInv'
  BY <1>0, <1>2 DEF UnfixedInv, HonestInv
<1>5. TabledInv'
  <2>1. hand # Nothing => hand.plane \in Planes
    BY <1>0 DEF TypeOK, Hands
  <2> QED BY <1>0, <1>1, <1>2, <2>1 DEF TabledInv
<1>6. SlotsInv'
  BY <1>0, <1>1, <1>2 DEF SlotsInv, SlotTrue
<1> QED BY <1>3, <1>4, <1>5, <1>6 DEF TrackInv

LEMMA TrackNext == TrackInv /\ [Next]_vars => TrackInv'
<1>1. TrackInv /\ UNCHANGED vars => TrackInv'
  BY DEF TrackInv, TypeOK, UnfixedInv, HonestInv, TabledInv, SlotsInv, SlotTrue, vars
<1> QED BY <1>1, TrackReceive, TrackDecode, TrackTime, TrackPrune DEF Next

LEMMA TrackInvariant == Spec => []TrackInv
BY TrackInit, TrackNext, PTL DEF Spec

-----------------------------------------------------------------------------
(***************************************************************************)
(* The theorems.                                                           *)
(***************************************************************************)

\* Every entry of the table keeps its shape and its bounds.
THEOREM TypeCorrect == Spec => []TypeOK
BY TrackInvariant, PTL DEF TrackInv

\* Pruning between the two critical sections of decodeModeSLong never takes away
\* the entry that the second one writes to.
THEOREM DecodesIntoTable == Spec => []DecodedIsTabled
<1>1. TrackInv => DecodedIsTabled
  BY DEF TrackInv, TabledInv, DecodedIsTabled
<1> QED BY <1>1, TrackInvariant, PTL

\* North of the equator a single frame finds an aircraft whose last position was
\* true, wherever the plausibility check lets it be.  (South of it decodeCPRLocal
\* misses the zone: the run "south".)
THEOREM OneFrameIsEnough ==
  ASSUME Route \subseteq Nat
  PROVE  Spec => OneFrameSuffices
<1>1. ASSUME TrackInv, [Next]_vars, NEW a \in Planes,
             Heard(a), aircraft[a] # NoPlane, aircraft[a].valid, honest[a], Near(a),
             Abs(truth[a] - aircraft[a].lat) <= MaxDist(aircraft[a].posAge)
      PROVE  aircraft'[a].lat = truth[a]
  <2> DEFINE v == aircraft[a]
             c == Code(hand.kind, hand.odd, truth[a])
             s == Stored(v, hand.odd, [code |-> c, age |-> 0, enc |-> hand.kind])
             l == LocalDecode(hand.kind, hand.odd, v.lat, c)
  <2>0. TypeOK /\ HonestInv
    BY <1>1 DEF TrackInv
  <2>1. hand # Nothing /\ hand.plane = a /\ hand.kind \in Encodings /\ hand' = Nothing
    BY <1>1 DEF Heard
  <2>2. Decode
    BY <1>1, <2>1 DEF Next, Receive, TimePasses, Prune, vars
  <2>3. /\ v \in Plane /\ v.lat \in Nat /\ hand.odd \in BOOLEAN
        /\ truth[a] \in -Quarter .. Quarter
    BY <1>1, <2>0, <2>1, ZoneAssumption DEF TypeOK, HonestInv, Hands
  <2>4. 2 * Abs(truth[a] - v.lat) < Width(hand.kind, hand.odd)
    BY <1>1 DEF Near
  <2>5. l = [ok |-> TRUE, lat |-> truth[a]]
    BY <2>1, <2>3, <2>4, LocalDecodeCorrect
  <2>6. v.valid /\ l.ok /\ Plausible(v, l.lat) /\ l.lat = truth[a]
    BY <1>1, <2>5 DEF Plausible
  <2>7. Positioned(v, hand.kind, hand.odd, c) = Fixed(s, truth[a])
    BY <2>6 DEF Positioned
  <2>8. Fixed(s, truth[a]).lat = truth[a]
    <3>1. c \in 0 .. Circle
      <4>1. truth[a] \in Int
        BY <2>1, <2>3, WidthType
      <4> QED BY <2>1, <2>3, <4>1, CodeType
    <3>2. [code |-> c, age |-> 0, enc |-> hand.kind] \in Slot
      BY <2>1, <3>1, TimeAssumption DEF Slot
    <3>3. s \in Plane
      BY <2>3, <3>2, StoredType
    <3> QED BY <2>3, <3>3, FixedType
  <2>9. hand.kind # "other"
    BY <2>1 DEF Encodings
  <2>10. aircraft' = [aircraft EXCEPT ![a] = Positioned(v, hand.kind, hand.odd, c)]
    BY <1>1, <2>1, <2>2, <2>9 DEF Decode
  <2> QED BY <2>0, <2>7, <2>8, <2>10 DEF TypeOK
<1>2. TrackInv /\ [Next]_vars =>
        [\A a \in Planes :
           Heard(a) /\ aircraft[a] # NoPlane /\ aircraft[a].valid /\ honest[a] /\ Near(a)
             /\ Abs(truth[a] - aircraft[a].lat) <= MaxDist(aircraft[a].posAge)
           => aircraft'[a].lat = truth[a]]_vars
  BY <1>1
<1> QED BY <1>2, TrackInvariant, PTL DEF Spec, OneFrameSuffices

\* Nothing moves so far, between the two frames of a pair, that the pair could mean
\* another zone: of an aircraft in the air half of what the zones differ by, of one
\* on the ground a quarter of that.  The code's 10 s stand for it: 0.05 degrees.
PairsAreClose ==
  /\ 2 * (PairLimit - 1) * Circle < EvenWidth * OddWidth
  /\ 8 * (PairLimit - 2) * Circle < EvenWidth * OddWidth

LEMMA CloseEnough ==
  ASSUME PairsAreClose, NEW s \in Slot, NEW d \in Nat, d <= Drift(s)
  PROVE  2 * Scale(s.enc) * d * Circle < EvenWidth * OddWidth
<1>1. /\ s.enc \in {"air", "surface"} /\ s.age \in 0 .. PairLimit - 1
      /\ PairLimit \in Nat \ {0}
  BY TimeAssumption DEF Slot, Encodings
<1>2. Circle \in Nat
  BY <1>1, WidthType DEF Encodings
<1>3. EvenWidth * OddWidth \in Nat \ {0}
  BY ZoneAssumption
<1>4. CASE s.enc = "air"
  <2>1. d <= PairLimit - 1 /\ Scale(s.enc) = 1
    BY <1>1, <1>4 DEF Drift, Scale
  <2>2. d * Circle <= (PairLimit - 1) * Circle
    BY <1>1, <1>2, <2>1, TimesCircle
  <2>3. /\ 2 * Scale(s.enc) * d * Circle = 2 * (d * Circle)
        /\ 2 * (PairLimit - 1) * Circle = 2 * ((PairLimit - 1) * Circle)
        /\ d * Circle \in Int /\ (PairLimit - 1) * Circle \in Int
    BY <1>1, <1>2, <2>1
  <2>4. 2 * (PairLimit - 1) * Circle < EvenWidth * OddWidth
    BY DEF PairsAreClose
  <2> QED BY <1>3, <2>2, <2>3, <2>4
<1>5. CASE s.enc = "surface"
  <2>1. Scale(s.enc) = 4 /\ (d = 0 \/ d <= PairLimit - 2)
    BY <1>1, <1>5 DEF Drift, Scale
  <2>2. CASE d = 0
    BY <1>2, <1>3, <2>1, <2>2
  <2>3. CASE d <= PairLimit - 2
    <3>1. d * Circle <= (PairLimit - 2) * Circle
      BY <1>1, <1>2, <2>3, TimesCircle
    <3>2. /\ 2 * Scale(s.enc) * d * Circle = 8 * (d * Circle)
          /\ 8 * (PairLimit - 2) * Circle = 8 * ((PairLimit - 2) * Circle)
          /\ d * Circle \in Int /\ (PairLimit - 2) * Circle \in Int
      BY <1>1, <1>2, <2>1
    <3>3. 8 * (PairLimit - 2) * Circle < EvenWidth * OddWidth
      BY DEF PairsAreClose
    <3> QED BY <1>3, <3>1, <3>2, <3>3
  <2> QED BY <2>1, <2>2, <2>3
<1> QED BY <1>1, <1>4, <1>5

\* What a frame makes of its aircraft, case by case.
LEMMA PositionedCases ==
  ASSUME NEW v \in Plane, NEW enc \in Encodings, NEW odd \in BOOLEAN, NEW c \in 0 .. Circle
  PROVE  LET w == Positioned(v, enc, odd, c)
             t == [code |-> c, age |-> 0, enc |-> enc]
             even == IF odd THEN v.even ELSE t
             odd_ == IF odd THEN t ELSE v.odd
             l == LocalDecode(enc, odd, v.lat, c)
             g == GlobalDecode(enc, even.code, odd_.code, odd)
         IN \/ v.valid /\ l.ok /\ Plausible(v, l.lat) /\ w.lat = l.lat
            \/ /\ ~(v.valid /\ l.ok /\ Plausible(v, l.lat))
               /\ even # NoCode /\ odd_ # NoCode /\ g.ok
               /\ Plausible(v, g.lat) /\ w.lat = g.lat
            \/ w.valid = v.valid /\ w.posAge = v.posAge
<1> DEFINE t == [code |-> c, age |-> 0, enc |-> enc]
           even == IF odd THEN v.even ELSE t
           odd_ == IF odd THEN t ELSE v.odd
           l == LocalDecode(enc, odd, v.lat, c)
           s == Stored(v, odd, t)
           g == GlobalDecode(enc, s.even.code, s.odd.code, odd)
           w == Positioned(v, enc, odd, c)
<1>1. t \in Slot
  BY TimeAssumption DEF Slot
<1>2. /\ s \in Plane /\ s.valid = v.valid /\ s.posAge = v.posAge
      /\ s.even = even /\ s.odd = odd_
  BY <1>1, StoredType
<1>3. \/ v.valid /\ l.ok /\ Plausible(v, l.lat) /\ w = Fixed(s, l.lat)
      \/ /\ ~(v.valid /\ l.ok /\ Plausible(v, l.lat))
         /\ s.even # NoCode /\ s.odd # NoCode /\ g.ok
         /\ Plausible(v, g.lat) /\ w = Fixed(s, g.lat)
      \/ w = s
  BY DEF Positioned
<1>4. l.lat \in -Quarter .. Quarter /\ g.lat \in -Quarter .. Quarter
  BY DecodesType
<1>5. Fixed(s, l.lat).lat = l.lat /\ Fixed(s, g.lat).lat = g.lat
  BY <1>2, <1>4, FixedType
<1>6. g = GlobalDecode(enc, even.code, odd_.code, odd)
  BY <1>2
<1> HIDE DEF t, even, odd_, l, s, g, w
<1>7. \/ v.valid /\ l.ok /\ Plausible(v, l.lat) /\ w.lat = l.lat
      \/ /\ ~(v.valid /\ l.ok /\ Plausible(v, l.lat))
         /\ even # NoCode /\ odd_ # NoCode /\ g.ok
         /\ Plausible(v, g.lat) /\ w.lat = g.lat
      \/ w.valid = v.valid /\ w.posAge = v.posAge
  BY <1>2, <1>3, <1>5
<1> QED BY <1>6, <1>7 DEF t, even, odd_, l, w

LEMMA MaxDistType ==
  ASSUME NEW age \in Nat
  PROVE  MaxDist(age) \in Nat
BY TimeAssumption DEF MaxDist, MaxOf

\* A latitude a number of zones away from one that is less than half a zone away
\* from a third, to which it is closer, is that one.
LEMMA SameZone ==
  ASSUME NEW w \in Nat \ {0}, NEW n \in Int, NEW p \in Int, NEW r \in Int, NEW x \in Int,
         x = p + w * n, 2 * Abs(p - r) < w, Abs(x - r) < Abs(p - r)
  PROVE  x = p
<1>1. w * n \in Int /\ w * n < w * 1 /\ w * (-1) < w * n
  <2> DEFINE z == w * n
  <2>1. z \in Int /\ x = p + z
    OBVIOUS
  <2> HIDE DEF z
  <2>2. z < w /\ -w < z
    BY <2>1 DEF Abs
  <2> QED BY <2>1, <2>2 DEF z
<1>2. n < 1 /\ -1 < n
  BY <1>1, ProductLess
<1>3. n = 0
  BY <1>2
<1> QED BY <1>3

\* Every position the decoder accepts on the northern quarter is true: the first
\* one because its pair tells the zones' numbers, the others because the plausible
\* ones among the latitudes the code may mean are not two.
THEOREM AcceptedPositionsAreTrue ==
  ASSUME EvenZones = OddZones + 1, Route \subseteq 0 .. Quarter - 1, PairsAreClose
  PROVE  Spec => AcceptedIsTrue
<1>1. ASSUME TrackInv, [Next]_vars, NEW a \in Planes,
             Heard(a), aircraft[a] # NoPlane, honest[a],
             aircraft'[a].valid, aircraft'[a].posAge = 0,
             IF aircraft[a].valid THEN aircraft[a].posAge # 0 /\ Near(a)
             ELSE ~Mixed(aircraft'[a]) /\ (hand.kind = "surface" => truth[a] >= 0)
      PROVE  aircraft'[a].lat = truth[a]
  <2>0. TypeOK /\ HonestInv /\ SlotsInv
    BY <1>1 DEF TrackInv
  <2>1. hand # Nothing /\ hand.plane = a /\ hand.kind \in Encodings /\ hand' = Nothing
    BY <1>1 DEF Heard
  <2>2. Decode
    BY <1>1, <2>1 DEF Next, Receive, TimePasses, Prune, vars
  <2>3. PICK v \in Plane, enc \in Encodings, odd \in BOOLEAN, p \in 0 .. Quarter - 1 :
          v = aircraft[a] /\ enc = hand.kind /\ odd = hand.odd /\ p = truth[a]
    <3>1. /\ aircraft[a] \in Plane /\ hand.odd \in BOOLEAN /\ truth[a] \in 0 .. Quarter - 1
      BY <1>1, <2>0, <2>1 DEF TypeOK, Hands
    <3> QED BY <2>1, <3>1
  <2>4. Quarter \in Nat /\ p \in Int /\ p \in -Quarter .. Quarter
    <3>1. Quarter \in Nat
      BY <2>3, WidthType
    <3> QED BY <2>3, <3>1
  <2> DEFINE c == Code(enc, odd, p)
             w == Positioned(v, enc, odd, c)
             t == [code |-> c, age |-> 0, enc |-> enc]
             even == IF odd THEN v.even ELSE t
             odd_ == IF odd THEN t ELSE v.odd
             l == LocalDecode(enc, odd, v.lat, c)
             g == GlobalDecode(enc, even.code, odd_.code, odd)
  <2>5. c \in 0 .. Circle
    BY <2>3, <2>4, CodeType
  <2>6. aircraft'[a] = w
    <3>1. hand.kind # "other"
      BY <2>1 DEF Encodings
    <3> QED BY <1>1, <2>0, <2>1, <2>2, <2>3, <3>1 DEF Decode, TypeOK
  <2>7. w.even = even /\ w.odd = odd_ /\ t \in Slot
    BY <2>3, <2>5, PositionedType
  <2>8. \/ v.valid /\ l.ok /\ Plausible(v, l.lat) /\ w.lat = l.lat
        \/ /\ ~(v.valid /\ l.ok /\ Plausible(v, l.lat))
           /\ even # NoCode /\ odd_ # NoCode /\ g.ok
           /\ Plausible(v, g.lat) /\ w.lat = g.lat
        \/ w.valid = v.valid /\ w.posAge = v.posAge
    BY <2>3, <2>5, PositionedCases
  <2>9. CASE v.valid
    <3>1. v.lat \in Nat /\ 2 * Abs(p - v.lat) < Width(enc, odd) /\ v.posAge # 0
      <4>1. aircraft[a].lat \in Route
        BY <1>1, <2>0, <2>3, <2>9 DEF HonestInv
      <4>2. v.lat \in Nat
        <5>1. aircraft[a].lat \in 0 .. Quarter - 1
          BY <4>1
        <5>2. aircraft[a].lat \in Nat
          BY <2>4, <5>1
        <5> QED BY <2>3, <5>2
      <4>3. 2 * Abs(p - v.lat) < Width(enc, odd)
        BY <1>1, <2>3, <2>9 DEF Near
      <4>4. v.posAge # 0
        BY <1>1, <2>3, <2>9
      <4> QED BY <4>2, <4>3, <4>4
    <3>2. l = [ok |-> TRUE, lat |-> p]
      BY <2>4, <3>1, LocalDecodeCorrect
    <3>3. CASE Plausible(v, l.lat)
      <4>1. l.ok /\ l.lat = p
        BY <3>2
      <4> HIDE DEF l, g, w
      <4>2. w.lat = p
        BY <2>8, <2>9, <3>1, <3>3, <4>1, <1>1, <2>3, <2>6
      <4> QED BY <2>3, <2>6, <4>2
    <3>4. CASE ~Plausible(v, l.lat)
      <4>1. /\ even # NoCode /\ odd_ # NoCode /\ g.ok /\ Plausible(v, g.lat) /\ w.lat = g.lat
        BY <1>1, <2>3, <2>6, <2>8, <3>1, <3>4
      <4>2. even \in Slot /\ odd_ \in Slot
        BY <2>3, <2>7, <4>1 DEF Plane
      <4>3. /\ even.code \in Int /\ odd_.code \in Int
            /\ (IF odd THEN odd_.code ELSE even.code) = c
        BY <2>3, <2>7, <4>2 DEF Slot
      <4>4. PICK n \in Int : g.lat = p + Width(enc, odd) * n
        BY <2>3, <2>4, <4>1, <4>3, GlobalDecodeCongruent
      <4>5. /\ v.posAge \in Nat /\ Width(enc, odd) \in Nat \ {0} /\ g.lat \in Int
        <5>1. v.posAge \in Nat /\ Width(enc, odd) \in Nat \ {0}
          BY <2>3, TimeAssumption, WidthType DEF Plane
        <5>2. g.lat \in -Quarter .. Quarter
          BY DecodesType
        <5> QED BY <2>4, <5>1, <5>2
      <4>6. /\ Abs(p - v.lat) > MaxDist(v.posAge) /\ Abs(g.lat - v.lat) <= MaxDist(v.posAge)
        <5>1. MaxDist(v.posAge) \in Nat /\ Abs(p - v.lat) \in Int
          BY <2>4, <3>1, <4>5, MaxDistType DEF Abs
        <5> HIDE DEF l, g
        <5> QED BY <2>9, <3>2, <3>4, <4>1, <5>1 DEF Plausible
      <4> HIDE DEF g
      <4>7. Abs(g.lat - v.lat) < Abs(p - v.lat)
        <5>1. MaxDist(v.posAge) \in Nat /\ Abs(p - v.lat) \in Int /\ Abs(g.lat - v.lat) \in Int
          BY <2>4, <3>1, <4>5, MaxDistType DEF Abs
        <5> QED BY <4>6, <5>1
      <4>8. g.lat = p
        <5> DEFINE x == g.lat
                   r == v.lat
                   u == Width(enc, odd)
        <5>1. /\ x \in Int /\ r \in Int /\ u \in Nat \ {0} /\ x = p + u * n
              /\ 2 * Abs(p - r) < u /\ Abs(x - r) < Abs(p - r)
          BY <3>1, <4>4, <4>5, <4>7
        <5> HIDE DEF x, r, u
        <5>2. x = p
          BY <2>4, <5>1, SameZone
        <5> QED BY <5>2 DEF x
      <4> QED BY <2>3, <2>6, <4>1, <4>8
    <3> QED BY <3>3, <3>4
  <2>10. CASE ~v.valid
    <3>1. even # NoCode /\ odd_ # NoCode /\ g.ok /\ w.lat = g.lat
      BY <1>1, <2>3, <2>6, <2>8, <2>10
    <3>2. even \in Slot /\ odd_ \in Slot /\ even.enc = enc /\ odd_.enc = enc
      <4>1. ~Mixed(w)
        BY <1>1, <2>3, <2>6, <2>10
      <4>2. even.enc = odd_.enc
        BY <2>7, <3>1, <4>1 DEF Mixed
      <4> QED BY <2>3, <2>7, <3>1, <4>2 DEF Plane
    <3>3. SlotTrue(a, v.even, FALSE) /\ SlotTrue(a, v.odd, TRUE)
      BY <1>1, <2>0, <2>3 DEF SlotsInv
    <3>4. CASE odd
      <4>1. PICK q \in Route : v.even.code = Code(enc, FALSE, q)
                               /\ Abs(truth[a] - q) <= Drift(v.even)
        BY <3>1, <3>2, <3>3, <3>4 DEF SlotTrue
      <4>2. q \in 0 .. Quarter - 1
        OBVIOUS
      <4>3. Abs(q - p) \in Nat /\ Abs(q - p) <= Drift(v.even)
        BY <2>3, <2>4, <4>1, <4>2 DEF Abs
      <4>4. 2 * Scale(enc) * Abs(q - p) * Circle < EvenWidth * OddWidth
        BY <3>2, <3>4, <4>3, CloseEnough
      <4>5. g = GlobalDecode(enc, Code(enc, FALSE, q), Code(enc, TRUE, p), odd)
        BY <3>4, <4>1
      <4>6. g.lat = p
        <5>1. GlobalDecode(enc, Code(enc, FALSE, q), Code(enc, TRUE, p), odd).ok
          BY <3>1, <4>5
        <5>2. GlobalDecode(enc, Code(enc, FALSE, q), Code(enc, TRUE, p), odd).lat
                = IF odd THEN p ELSE q
          BY <4>2, <4>4, <5>1, GlobalDecodeCorrect
        <5> HIDE DEF c, g
        <5> QED BY <3>4, <4>5, <5>2
      <4> QED BY <2>3, <2>6, <3>1, <4>6
    <3>5. CASE ~odd
      <4>1. PICK q \in Route : v.odd.code = Code(enc, TRUE, q)
                               /\ Abs(truth[a] - q) <= Drift(v.odd)
        BY <3>1, <3>2, <3>3, <3>5 DEF SlotTrue
      <4>2. q \in 0 .. Quarter - 1
        OBVIOUS
      <4>3. Abs(p - q) \in Nat /\ Abs(p - q) <= Drift(v.odd)
        BY <2>3, <2>4, <4>1, <4>2 DEF Abs
      <4>4. 2 * Scale(enc) * Abs(p - q) * Circle < EvenWidth * OddWidth
        BY <3>2, <3>5, <4>3, CloseEnough
      <4>5. g = GlobalDecode(enc, Code(enc, FALSE, p), Code(enc, TRUE, q), odd)
        BY <2>3, <3>5, <4>1
      <4>6. g.lat = p
        <5>1. GlobalDecode(enc, Code(enc, FALSE, p), Code(enc, TRUE, q), odd).ok
          BY <3>1, <4>5
        <5>2. GlobalDecode(enc, Code(enc, FALSE, p), Code(enc, TRUE, q), odd).lat
                = p
          BY <3>5, <4>2, <4>4, <5>1, GlobalDecodeCorrect
        <5> QED BY <4>5, <5>2
      <4> QED BY <2>3, <2>6, <3>1, <4>6
    <3> QED BY <3>4, <3>5
  <2> QED BY <2>9, <2>10
<1>2. TrackInv /\ [Next]_vars =>
        [\A a \in Planes :
           /\ Heard(a) /\ aircraft[a] # NoPlane /\ honest[a]
           /\ aircraft'[a].valid /\ aircraft'[a].posAge = 0
           /\ IF aircraft[a].valid THEN aircraft[a].posAge # 0 /\ Near(a)
              ELSE ~Mixed(aircraft'[a]) /\ (hand.kind = "surface" => truth[a] >= 0)
           => aircraft'[a].lat = truth[a]]_vars
  BY <1>1
<1> QED BY <1>2, TrackInvariant, PTL DEF Spec, AcceptedIsTrue

=============================================================================
