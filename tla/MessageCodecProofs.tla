------------------------- MODULE MessageCodecProofs --------------------------
(***************************************************************************)
(* Theorems about MessageCodec: what is written is one MessagePack value   *)
(* and is read back.                                                       *)
(***************************************************************************)
EXTENDS MessageCodec, SequenceTheorems, FiniteSetTheorems, TLAPS

-----------------------------------------------------------------------------
(* Induction over the natural numbers, for a set: a lemma with an operator *)
(* for a parameter could not be used.                                      *)

\* A set with 0 and the successors of its numbers has all numbers: otherwise
\* the predecessor would map the numbers up to x that are missing, which are
\* finitely many, one to one to fewer.
LEMMA SetInduction ==
  ASSUME NEW S, 0 \in S, \A n \in Nat : n \in S => n + 1 \in S
  PROVE  Nat \subseteq S
<1> SUFFICES ASSUME NEW x \in Nat, x \notin S PROVE FALSE
  OBVIOUS
<1> DEFINE U == (0 .. x) \ S
           down == [n \in U |-> n - 1]
<1>1. x \in U /\ \A n \in U : n - 1 \in U \ {x}
  OBVIOUS
<1>2. IsFiniteSet(U)
  <2>1. IsFiniteSet(0 .. x)
    BY FS_Interval
  <2> QED
    BY <2>1, FS_Subset
<1>3. down \in [U -> U \ {x}] /\ \A m, n \in U : down[m] = down[n] => m = n
  BY <1>1
<1> HIDE DEF U, down
<1>4. IsFiniteSet(U \ {x}) /\ Cardinality(U \ {x}) = Cardinality(U) - 1
  BY <1>1, <1>2, FS_RemoveElement
<1>5. Cardinality(U) \in Nat
  BY <1>2, FS_CardinalityType
<1>6. Cardinality(U \ {x}) < Cardinality(U)
  BY <1>4, <1>5
<1>7. \E m, n \in U : m # n /\ down[m] = down[n]
  BY <1>2, <1>3, <1>4, <1>6, FS_PigeonHole
<1> QED
  BY <1>3, <1>7

-----------------------------------------------------------------------------
(* One value                                                               *)

\* f counts down, from n to nothing, the values that are missing before and
\* after each value of w.
Closes(w, n, f) ==
  /\ f \in [0 .. Len(w) -> Nat]
  /\ f[0] = n /\ f[Len(w)] = 0
  /\ \A i \in 1 .. Len(w) : f[i - 1] > 0 /\ f[i] = f[i - 1] - 1 + Children(w[i])

\* w is n whole values.
Whole(w, n) == \E f : Closes(w, n, f)

\* The values of the wire that have no elements.
Scalar == {"nil", "text", "int", "bool"}
            \X (Texts \cup Numbers \cup BOOLEAN \cup DataType \cup {Null})

\* Besides the scalars, the beginning of an array or of a map.
Value == ({"array", "map"} \X Nat) \cup Scalar

\* A value announces a number of values, and a scalar none.
LEMMA ChildrenType ==
  /\ \A v \in Value : Children(v) \in Nat
  /\ \A v \in Scalar : Children(v) = 0
<1>1. ASSUME NEW v \in {"array", "map"} \X Nat PROVE Children(v) \in Nat
  BY DEF Children
<1>2. ASSUME NEW v \in Scalar PROVE Children(v) = 0
  BY DEF Children, Scalar
<1> QED
  BY <1>1, <1>2 DEF Value

\* The values of a concatenation.
LEMMA ConcatParts ==
  ASSUME NEW s \in Seq(Value), NEW t \in Seq(Value)
  PROVE  /\ s \o t \in Seq(Value) /\ Len(s) \in Nat /\ Len(t) \in Nat
         /\ Len(s \o t) = Len(s) + Len(t)
         /\ \A i \in 1 .. Len(s) : (s \o t)[i] = s[i]
         /\ \A i \in 1 .. Len(t) : (s \o t)[Len(s) + i] = t[i]
<1>1. Len(s) \in Nat /\ Len(t) \in Nat
  BY LenProperties
<1>2. /\ s \o t \in Seq(Value) /\ Len(s \o t) = Len(s) + Len(t)
      /\ \A i \in 1 .. Len(s) + Len(t) :
           (s \o t)[i] = IF i <= Len(s) THEN s[i] ELSE t[i - Len(s)]
  BY ConcatProperties
<1>3. \A i \in 1 .. Len(t) : Len(s) + i \in 1 .. Len(s) + Len(t) /\ (Len(s) + i) - Len(s) = i
  BY <1>1
<1> QED
  BY <1>1, <1>2, <1>3

\* Two values in a row.
LEMMA PairConcat ==
  ASSUME NEW x \in Value, NEW y \in Value
  PROVE  <<x>> \o <<y>> = <<x, y>>
<1> DEFINE s == <<x>> \o <<y>>
<1>1. s \in Seq(Value) /\ Len(s) = 2 /\ s[1] = x /\ s[2] = y
  OBVIOUS
<1> HIDE DEF s
<1>2. s = <<x, y>>
  BY <1>1
<1> QED
  BY <1>2 DEF s

\* Three in a row.
LEMMA Associative ==
  ASSUME NEW s \in Seq(Value), NEW t \in Seq(Value), NEW u \in Seq(Value)
  PROVE  (s \o t) \o u = s \o (t \o u)
  BY ConcatAssociative

\* Whole values one after the other are whole values.
LEMMA WholeConcat ==
  ASSUME NEW s \in Seq(Value), NEW t \in Seq(Value), NEW a \in Nat, NEW b \in Nat,
         Whole(s, a), Whole(t, b), NEW n, n = a + b
  PROVE  s \o t \in Seq(Value) /\ Whole(s \o t, n)
<1>1. PICK f : Closes(s, a, f)
  BY DEF Whole
<1>2. PICK g : Closes(t, b, g)
  BY DEF Whole
<1> DEFINE w == s \o t
           h == [i \in 0 .. Len(w) |-> IF i < Len(s) THEN f[i] + b ELSE g[i - Len(s)]]
<1>3. Len(s) \in Nat /\ Len(t) \in Nat
  BY LenProperties
<1>4. /\ Len(w) = Len(s) + Len(t)
      /\ \A i \in 1 .. Len(w) : w[i] = IF i <= Len(s) THEN s[i] ELSE t[i - Len(s)]
  BY ConcatProperties
<1> HIDE DEF w
<1>5. h \in [0 .. Len(w) -> Nat] /\ h[0] = a + b /\ h[Len(w)] = 0
  <2>1. /\ f \in [0 .. Len(s) -> Nat] /\ f[0] = a /\ f[Len(s)] = 0
        /\ g \in [0 .. Len(t) -> Nat] /\ g[0] = b /\ g[Len(t)] = 0
    BY <1>1, <1>2 DEF Closes
  <2>2. ASSUME NEW i \in 0 .. Len(w)
        PROVE  (IF i < Len(s) THEN f[i] + b ELSE g[i - Len(s)]) \in Nat
    <3>1. CASE i < Len(s)
      <4>1. i \in 0 .. Len(s)
        BY <1>3, <1>4, <3>1
      <4> QED
        BY <2>1, <3>1, <4>1
    <3>2. CASE ~(i < Len(s))
      <4>1. i - Len(s) \in 0 .. Len(t)
        BY <1>3, <1>4, <3>2
      <4> QED
        BY <2>1, <3>2, <4>1
    <3> QED
      BY <3>1, <3>2
  <2>3. 0 \in 0 .. Len(w) /\ Len(w) \in 0 .. Len(w) /\ Len(w) - Len(s) = Len(t)
    BY <1>3, <1>4
  <2>4. h \in [0 .. Len(w) -> Nat]
    BY <2>2
  <2>5. h[0] = IF 0 < Len(s) THEN f[0] + b ELSE g[0 - Len(s)]
    BY <2>3
  <2>6. h[Len(w)] = IF Len(w) < Len(s) THEN f[Len(w)] + b ELSE g[Len(w) - Len(s)]
    BY <2>3
  <2> HIDE DEF h
  <2>7. h[0] = a + b
    BY <1>3, <2>1, <2>5
  <2>8. h[Len(w)] = 0
    BY <1>3, <1>4, <2>1, <2>3, <2>6
  <2> QED
    BY <2>4, <2>7, <2>8
<1>6. \A i \in 0 .. Len(w) : h[i] = IF i < Len(s) THEN f[i] + b ELSE g[i - Len(s)]
  OBVIOUS
<1>7. /\ f[Len(s)] + b = g[0]
      /\ \A i \in 0 .. Len(s) : f[i] \in Nat
      /\ \A i \in 1 .. Len(s) : f[i - 1] > 0 /\ f[i] = f[i - 1] - 1 + Children(s[i])
      /\ \A i \in 1 .. Len(t) : g[i - 1] > 0 /\ g[i] = g[i - 1] - 1 + Children(t[i])
  <2>1. f \in [0 .. Len(s) -> Nat] /\ f[Len(s)] = 0 /\ g[0] = b
    BY <1>1, <1>2 DEF Closes
  <2>2. \A i \in 1 .. Len(s) : f[i - 1] > 0 /\ f[i] = f[i - 1] - 1 + Children(s[i])
    BY <1>1 DEF Closes
  <2>3. \A i \in 1 .. Len(t) : g[i - 1] > 0 /\ g[i] = g[i - 1] - 1 + Children(t[i])
    BY <1>2 DEF Closes
  <2>4. \A i \in 0 .. Len(s) : f[i] \in Nat
    BY <2>1
  <2>5. f[Len(s)] + b = g[0]
    BY <2>1
  <2> QED
    BY <2>2, <2>3, <2>4, <2>5
<1> HIDE DEF h
<1>8. ASSUME NEW i \in 1 .. Len(w)
      PROVE  h[i - 1] > 0 /\ h[i] = h[i - 1] - 1 + Children(w[i])
  <2>1. CASE i <= Len(s)
    <3>1. i - 1 \in 0 .. Len(s) /\ i \in 1 .. Len(s)
      BY <1>3, <2>1
    <3>2. w[i] = s[i] /\ h[i - 1] = f[i - 1] + b
      BY <1>3, <1>4, <1>6, <2>1
    <3>3. h[i] = f[i] + b
      BY <1>3, <1>4, <1>6, <1>7, <2>1
    <3>4. f[i - 1] > 0 /\ f[i] = f[i - 1] - 1 + Children(s[i])
      BY <1>7, <3>1
    <3> DEFINE c == Children(s[i])
    <3>5. Children(w[i]) = c /\ f[i - 1] \in Nat /\ f[i] \in Nat
      BY <1>7, <3>1, <3>2
    <3>6. c \in Nat
      BY <3>1, ElementOfSeq, ChildrenType
    <3> HIDE DEF c
    <3> QED
      BY <3>2, <3>3, <3>4, <3>5, <3>6 DEF c
  <2>2. CASE i > Len(s)
    <3> DEFINE k == i - Len(s)
    <3>1. k \in 1 .. Len(t) /\ w[i] = t[k]
      BY <1>3, <1>4, <2>2
    <3>2. h[i] = g[k] /\ h[i - 1] = g[k - 1]
      <4>1. i - 1 \in 0 .. Len(w) /\ i \in 0 .. Len(w) /\ (i - 1) - Len(s) = k - 1
        BY <1>3, <1>4
      <4> QED
        BY <1>3, <1>6, <2>2, <4>1
    <3> QED
      BY <1>7, <3>1, <3>2
  <2> QED
    BY <2>1, <2>2, <1>3
<1>9. w \in Seq(Value)
  BY ConcatParts DEF w
<1> QED
  BY <1>5, <1>8, <1>9 DEF Closes, Whole, w

\* Each scalar is whole.
LEMMA WholeScalars ==
  ASSUME NEW w \in Seq(Scalar), NEW n, n = Len(w)
  PROVE  w \in Seq(Value) /\ n \in Nat /\ Whole(w, n)
<1> DEFINE f == [i \in 0 .. n |-> n - i]
<1>1. n \in Nat /\ \A i \in 1 .. n : Children(w[i]) = 0
  BY LenProperties, ChildrenType
<1>2. Closes(w, n, f)
  BY <1>1 DEF Closes
<1>3. w \in Seq(Value)
  BY SeqMonotonic DEF Value
<1> QED
  BY <1>1, <1>2, <1>3 DEF Whole

\* One of them is one value.
LEMMA WholeScalar ==
  ASSUME NEW x \in Scalar
  PROVE  <<x>> \in Seq(Value) /\ Len(<<x>>) = 1 /\ <<x>>[1] = x /\ Whole(<<x>>, 1)
<1>1. <<x>> \in Seq(Scalar) /\ Len(<<x>>) = 1
  OBVIOUS
<1> QED
  BY <1>1, WholeScalars

\* An array of n whole values is one.
LEMMA WholeArray ==
  ASSUME NEW w \in Seq(Value), NEW n \in Nat, Whole(w, n)
  PROVE  <<Array(n)>> \o w \in Seq(Value) /\ Whole(<<Array(n)>> \o w, 1)
<1>1. PICK g : Closes(w, n, g)
  BY DEF Whole
<1> DEFINE v == <<Array(n)>> \o w
           f == [i \in 0 .. Len(v) |-> IF i = 0 THEN 1 ELSE g[i - 1]]
<1>2. Len(w) \in Nat
  BY LenProperties
<1>3. <<Array(n)>> \in Seq(Value) /\ Len(<<Array(n)>>) = 1
  BY DEF Value, Array
<1>4. Len(v) = 1 + Len(w) /\ \A i \in 1 .. Len(v) : v[i] = IF i <= 1 THEN Array(n) ELSE w[i - 1]
  BY <1>2, <1>3, ConcatProperties
<1> HIDE DEF v
<1>5. Children(Array(n)) = n
  BY DEF Children, Array
<1>6. Closes(v, 1, f)
  BY <1>1, <1>2, <1>4, <1>5 DEF Closes
<1>7. v \in Seq(Value)
  BY <1>3, ConcatParts DEF v
<1> QED
  BY <1>6, <1>7 DEF Whole, v

\* What a reader still expects is what Closes counts.
LEMMA ExpectedIsCount ==
  ASSUME NEW w \in Seq(Value), NEW f, Closes(w, 1, f)
  PROVE  Expected(w) = f
<1>1. Len(w) \in Nat
  BY LenProperties
<1>2. f = [i \in 0 .. Len(w) |-> IF i = 0 THEN 1 ELSE f[i - 1] - 1 + Children(w[i])]
  BY <1>1 DEF Closes
<1>3. Expected(w) =
        [i \in 0 .. Len(w) |-> IF i = 0 THEN 1 ELSE Expected(w)[i - 1] - 1 + Children(w[i])]
  BY <1>2, Zenon DEF Expected
<1> DEFINE e == Expected(w)
           S == {i \in Nat : i \in 0 .. Len(w) => e[i] = f[i]}
<1> HIDE DEF e
<1>4. 0 \in S
  BY <1>1, <1>2, <1>3 DEF e
<1>5. ASSUME NEW n \in Nat, n \in S PROVE n + 1 \in S
  <2> SUFFICES ASSUME n + 1 \in 0 .. Len(w) PROVE e[n + 1] = f[n + 1]
    OBVIOUS
  <2>1. (n + 1) - 1 = n /\ n + 1 # 0 /\ e[n] = f[n]
    BY <1>1, <1>5
  <2>2. e[n + 1] = e[n] - 1 + Children(w[n + 1]) /\ f[n + 1] = f[n] - 1 + Children(w[n + 1])
    BY <1>2, <1>3, <2>1 DEF e
  <2> QED
    BY <2>1, <2>2
<1> HIDE DEF S
<1>6. Nat \subseteq S
  BY <1>4, <1>5, SetInduction
<1>7. \A i \in 0 .. Len(w) : e[i] = f[i]
  BY <1>1, <1>6 DEF S
<1> QED
  BY <1>2, <1>3, <1>7 DEF e

\* Of one whole value a reader expects more until its end.
LEMMA WholeIsExpected ==
  ASSUME NEW w \in Seq(Value), Whole(w, 1)
  PROVE  /\ Expected(w)[Len(w)] = 0
         /\ \A i \in 0 .. Len(w) - 1 : Expected(w)[i] > 0
<1>1. PICK f : Closes(w, 1, f)
  BY DEF Whole
<1>2. Expected(w) = f /\ Len(w) \in Nat
  BY <1>1, ExpectedIsCount, LenProperties
<1>3. \A i \in 0 .. Len(w) - 1 : i + 1 \in 1 .. Len(w) /\ (i + 1) - 1 = i
  BY <1>2
<1> QED
  BY <1>1, <1>2, <1>3 DEF Closes

-----------------------------------------------------------------------------
(* What is written                                                         *)

\* The forms of texts, numbers and flags are scalars.
LEMMA ScalarForms ==
  /\ Nil \in Scalar
  /\ \A s \in Nullable(Texts) : Text(s) \in Scalar
  /\ \A n \in Nullable(Numbers) \cup DataType : Number(n) \in Scalar
  /\ \A b \in Nullable(BOOLEAN) : Bool(b) \in Scalar
  BY DEF Nil, Text, Number, Bool, Scalar, Nullable

\* The types and the contents of those forms.
LEMMA FormParts ==
  /\ \A s \in Nullable(Texts) : /\ Text(s)[1] = IF s = Null THEN "nil" ELSE "text"
                               /\ Text(s)[2] = s
  /\ \A n \in Nullable(Numbers) \cup DataType :
       Number(n)[1] = (IF n = Null THEN "nil" ELSE "int") /\ Number(n)[2] = n
  /\ \A b \in Nullable(BOOLEAN) : /\ Bool(b)[1] = IF b = Null THEN "nil" ELSE "bool"
                                 /\ Bool(b)[2] = b
  BY DEF Nil, Text, Number, Bool, Nullable

\* The ten fields of the header.
LEMMA HeaderWritten ==
  ASSUME NEW h \in Header
  PROVE  WriteHeader(h) \in Seq(Scalar) /\ Len(WriteHeader(h)) = 10
  BY ScalarForms DEF WriteHeader, Header, Nullable

\* The forms are values of the wire.
LEMMA ValueForms ==
  /\ \A n \in Nat : Array(n) \in Value /\ Map(n) \in Value
  /\ \A v \in Scalar : v \in Value
  /\ \A w \in Seq(Scalar) : w \in Seq(Value)
<1>1. Scalar \subseteq Value
  BY DEF Value
<1> QED
  BY <1>1, SeqMonotonic DEF Value, Array, Map

\* What Drop leaves of a concatenation.
LEMMA DropConcat ==
  ASSUME NEW S, NEW s \in Seq(S), NEW t \in Seq(S)
  PROVE  Drop(s \o t, Len(s)) = t
<1> DEFINE w == s \o t
           r == SubSeq(w, Len(s) + 1, Len(w))
<1>1. Len(s) \in Nat /\ Len(t) \in Nat
  BY LenProperties
<1>2. /\ Len(w) = Len(s) + Len(t) /\ w \in Seq(S)
      /\ \A i \in 1 .. Len(t) : w[Len(s) + i] = t[i]
  BY <1>1, ConcatProperties
<1>3. \A i \in Len(s) + 1 .. Len(w) : w[i] \in S
  BY <1>1, <1>2, ElementOfSeq
<1> HIDE DEF w
<1>4. /\ r \in Seq(S) /\ Len(r) = Len(t)
      /\ \A i \in 1 .. Len(t) : r[i] = w[Len(s) + 1 + i - 1]
  BY <1>1, <1>2, <1>3, SubSeqProperties
<1> HIDE DEF r
<1>5. \A i \in 1 .. Len(t) : r[i] = t[i]
  BY <1>1, <1>2, <1>4
<1>6. r = t
  BY <1>4, <1>5, SeqEqual
<1> QED
  BY <1>6 DEF Drop, r, w

-----------------------------------------------------------------------------
(* The login                                                               *)

\* In the place of the reserved fields a reader finds nothing, a nil or an array
\* of the password.
Reserved == {"none", "nil", "word"}

\* The values in that place.
Extra(tail) == CASE tail = "none" -> 0 [] tail = "nil" -> 1 [] tail = "word" -> 2

\* What the writers have in common.
LoginForm(w, d, named, tail) ==
  LET at == IF named THEN 3 ELSE 2
  IN  /\ w[1] = Array(at + 2 + (IF tail = "none" THEN 0 ELSE 1))
      /\ IF named THEN w[2] = Text(d.clusterName) ELSE d.clusterName = Null
      /\ w[at] = Bool(d.serveOnTheSameConnection)
      /\ w[at + 1] = Number(d.protocolVersionNumber)
      /\ w[at + 2] = Bool(d.fragmentationSupported)
      /\ w[at + 3] = Number(d.fragmentationTransmissionUnit)
      /\ tail = "nil" => w[at + 4] = Nil
      /\ tail = "word" => w[at + 4] = Array(1) /\ w[at + 5] = Text(Password(d))
      /\ tail = "word" <=> Password(d) # Null

\* The values of the login.
LoginLength(named, tail) == (IF named THEN 6 ELSE 5) + Extra(tail)

\* The password is a text or null.
LEMMA PasswordType ==
  \A d \in ConnectionData : Password(d) \in Nullable(Texts)
<1> SUFFICES ASSUME NEW d \in ConnectionData, d.reservedFields # Null, Len(d.reservedFields) >= 1
             PROVE  d.reservedFields[1] \in Nullable(Texts)
  BY DEF Password, Nullable
<1>1. d.reservedFields \in Seq(Nullable(Texts))
  BY DEF ConnectionData, Nullable
<1> QED
  BY <1>1, LenProperties

\* Each writer makes such a form.
LEMMA LoginWritten ==
  ASSUME NEW d \in ConnectionData, NEW writer \in {"client", "server"}
  PROVE  LET w == WriteConnectionBy(d, writer)
         IN  /\ w \in Seq(Value)
             /\ \E named \in BOOLEAN, tail \in Reserved :
                   LoginForm(w, d, named, tail) /\ Len(w) = LoginLength(named, tail)
<1> DEFINE cluster == Text(d.clusterName)
           word    == Text(Password(d))
           b == Bool(d.serveOnTheSameConnection)
           n == Number(d.protocolVersionNumber)
           g == Bool(d.fragmentationSupported)
           u == Number(d.fragmentationTransmissionUnit)
           w == WriteConnectionBy(d, writer)
<1>1. /\ cluster \in Value /\ word \in Value /\ b \in Value /\ n \in Value
      /\ g \in Value /\ u \in Value /\ Nil \in Value
  BY PasswordType, ScalarForms, ValueForms DEF ConnectionData, Nullable
<1>2. /\ Array(4) \in Value /\ Array(5) \in Value /\ Array(6) \in Value
      /\ Array(1) \in Value
  BY ValueForms
<1>3. CASE writer = "server"
  <2>1. CASE Password(d) = Null
    <3>1. w = <<Array(6), cluster, b, n, g, u>> \o <<Nil>>
      BY <1>3, <2>1 DEF WriteConnectionBy, WriteConnectionNils
    <3> HIDE DEF w, cluster, word, b, n, g, u
    <3>2. /\ w \in Seq(Value) /\ Len(w) = 7
          /\ w[1] = Array(6) /\ w[2] = cluster /\ w[3] = b /\ w[4] = n /\ w[5] = g
          /\ w[6] = u /\ w[7] = Nil
      BY <1>1, <1>2, <3>1
    <3>3. LoginForm(w, d, TRUE, "nil") /\ Len(w) = LoginLength(TRUE, "nil")
      BY <3>2, <2>1 DEF LoginForm, LoginLength, Extra, cluster, b, n, g, u
    <3> QED
      BY <3>2, <3>3 DEF Reserved, w
  <2>2. CASE Password(d) # Null
    <3>1. w = <<Array(6), cluster, b, n, g, u>> \o <<Array(1), word>>
      BY <1>3, <2>2 DEF WriteConnectionBy, WriteConnectionNils
    <3> HIDE DEF w, cluster, word, b, n, g, u
    <3>2. /\ w \in Seq(Value) /\ Len(w) = 8
          /\ w[1] = Array(6) /\ w[2] = cluster /\ w[3] = b /\ w[4] = n /\ w[5] = g
          /\ w[6] = u /\ w[7] = Array(1) /\ w[8] = word
      BY <1>1, <1>2, <3>1
    <3>3. LoginForm(w, d, TRUE, "word") /\ Len(w) = LoginLength(TRUE, "word")
      BY <3>2, <2>2 DEF LoginForm, LoginLength, Extra, cluster, b, n, g, u, word
    <3> QED
      BY <3>2, <3>3 DEF Reserved, w
  <2> QED
    BY <2>1, <2>2
<1>4. CASE writer = "client"
  <2> DEFINE named == d.clusterName # Null
             tail  == IF Password(d) = Null THEN "none" ELSE "word"
             size  == 4 + Count(d.clusterName) + Count(Password(d))
             C == IF named THEN <<cluster>> ELSE <<>>
             T == IF tail = "none" THEN <<>> ELSE <<Array(1), word>>
  <2>1. w = <<Array(size)>> \o C \o <<b, n, g, u>> \o T
    BY <1>4 DEF WriteConnectionBy, WriteConnection
  <2>2. /\ C \in Seq(Value) /\ Len(C) = (IF named THEN 1 ELSE 0)
        /\ named => C[1] = cluster
    BY <1>1
  <2>3. /\ T \in Seq(Value) /\ Len(T) = Extra(tail)
        /\ tail = "word" => T[1] = Array(1) /\ T[2] = word
    BY <1>1, <1>2 DEF Extra
  <2>4. /\ size = (IF named THEN 5 ELSE 4) + (IF tail = "none" THEN 0 ELSE 1)
        /\ Array(size) \in Value
    BY <1>2, ValueForms DEF Count
  <2> HIDE DEF w, C, T, cluster, word, b, n, g, u, size
  <2>5. /\ w \in Seq(Value) /\ Len(w) = Len(C) + 5 + Len(T)
        /\ w[1] = Array(size) /\ (Len(C) = 1 => w[2] = C[1])
        /\ w[Len(C) + 2] = b /\ w[Len(C) + 3] = n /\ w[Len(C) + 4] = g
        /\ w[Len(C) + 5] = u
        /\ \A i \in 1 .. Len(T) : w[Len(C) + 5 + i] = T[i]
    <3> DEFINE A == <<Array(size)>>
               F == <<b, n, g, u>>
               p == A \o C
               q == p \o F
    <3>1. /\ A \in Seq(Value) /\ Len(A) = 1 /\ A[1] = Array(size)
          /\ F \in Seq(Value) /\ Len(F) = 4
          /\ F[1] = b /\ F[2] = n /\ F[3] = g /\ F[4] = u
      BY <1>1, <2>4
    <3>2. w = q \o T /\ Len(C) \in Nat /\ Len(T) \in Nat
      BY <2>1, <2>2, <2>3, LenProperties
    <3> HIDE DEF A, F
    <3>3. /\ p \in Seq(Value) /\ Len(p) = Len(A) + Len(C)
          /\ \A i \in 1 .. Len(A) : p[i] = A[i]
          /\ \A i \in 1 .. Len(C) : p[Len(A) + i] = C[i]
      BY <2>2, <3>1, ConcatParts
    <3> HIDE DEF p
    <3>4. /\ q \in Seq(Value) /\ Len(q) = Len(p) + Len(F)
          /\ \A i \in 1 .. Len(p) : q[i] = p[i]
          /\ \A i \in 1 .. Len(F) : q[Len(p) + i] = F[i]
      BY <3>1, <3>3, ConcatParts
    <3> HIDE DEF q
    <3>5. /\ w \in Seq(Value) /\ Len(w) = Len(q) + Len(T)
          /\ \A i \in 1 .. Len(q) : w[i] = q[i]
          /\ \A i \in 1 .. Len(T) : w[Len(q) + i] = T[i]
      BY <2>3, <3>2, <3>4, ConcatParts
    <3>6. /\ Len(p) = Len(C) + 1 /\ Len(q) = Len(C) + 5 /\ Len(w) = Len(C) + 5 + Len(T)
      BY <3>1, <3>2, <3>3, <3>4, <3>5
    <3>7. p[1] = Array(size) /\ (Len(C) = 1 => p[2] = C[1])
      BY <3>1, <3>2, <3>3
    <3>8. w[1] = p[1] /\ (Len(C) = 1 => w[2] = p[2])
      <4>1. \A i \in 1 .. Len(p) : i \in 1 .. Len(q) /\ w[i] = p[i]
        BY <3>2, <3>4, <3>5, <3>6
      <4>2. 1 \in 1 .. Len(p) /\ (Len(C) = 1 => 2 \in 1 .. Len(p))
        <5>1. Len(C) \in Nat /\ Len(p) = Len(C) + 1
          BY <3>2, <3>6
        <5>2. 1 \in 1 .. Len(p)
          BY <5>1
        <5>3. Len(C) = 1 => 2 \in 1 .. Len(p)
          BY <5>1
        <5> QED
          BY <5>2, <5>3
      <4> QED
        BY <4>1, <4>2
    <3>9. /\ q[Len(C) + 2] = b /\ q[Len(C) + 3] = n /\ q[Len(C) + 4] = g
          /\ q[Len(C) + 5] = u
      <4>0. \A i \in 1 .. 4 : i \in 1 .. Len(F) /\ q[Len(p) + i] = F[i]
        BY <3>1, <3>4
      <4>1. q[Len(p) + 1] = b /\ q[Len(p) + 2] = n /\ q[Len(p) + 3] = g /\ q[Len(p) + 4] = u
        BY <3>1, <4>0
      <4> QED
        BY <3>2, <3>6, <4>1
    <3>10. \A i \in 2 .. 5 : w[Len(C) + i] = q[Len(C) + i]
      BY <3>2, <3>5, <3>6
    <3>11. \A i \in 1 .. Len(T) : w[Len(C) + 5 + i] = T[i]
      BY <3>5, <3>6
    <3> QED
      BY <3>5, <3>6, <3>7, <3>8, <3>9, <3>10, <3>11
  <2>6. Len(w) = LoginLength(named, tail)
    BY <2>2, <2>3, <2>5 DEF LoginLength
  <2>7. LoginForm(w, d, named, tail)
    <3>1. CASE named
      <4>1. /\ Len(C) = 1 /\ w[3] = b /\ w[4] = n /\ w[5] = g /\ w[6] = u
            /\ tail = "word" => w[7] = T[1] /\ w[8] = T[2]
        <5>1. Len(C) = 1 /\ (tail = "word" => Len(T) = 2)
          BY <3>1, <2>2, <2>3 DEF Extra
        <5>2. tail = "word" => w[Len(C) + 5 + 1] = T[1] /\ w[Len(C) + 5 + 2] = T[2]
          <6>1. tail = "word" => 1 \in 1 .. Len(T) /\ 2 \in 1 .. Len(T)
            BY <2>3 DEF Extra
          <6> QED
            BY <2>5, <6>1
        <5> QED
          BY <2>5, <5>1, <5>2
      <4> QED
        BY <3>1, <4>1, <2>2, <2>3, <2>4, <2>5 DEF LoginForm, cluster, b, n, g, u, word
    <3>2. CASE ~named
      <4>1. /\ Len(C) = 0 /\ w[2] = b /\ w[3] = n /\ w[4] = g /\ w[5] = u
            /\ tail = "word" => w[6] = T[1] /\ w[7] = T[2]
        <5>1. Len(C) = 0 /\ (tail = "word" => Len(T) = 2)
          BY <3>2, <2>2, <2>3 DEF Extra
        <5>2. tail = "word" => w[Len(C) + 5 + 1] = T[1] /\ w[Len(C) + 5 + 2] = T[2]
          <6>1. tail = "word" => 1 \in 1 .. Len(T) /\ 2 \in 1 .. Len(T)
            BY <2>3 DEF Extra
          <6> QED
            BY <2>5, <6>1
        <5> QED
          BY <2>5, <5>1, <5>2
      <4> QED
        BY <3>2, <4>1, <2>2, <2>3, <2>4, <2>5 DEF LoginForm, cluster, b, n, g, u, word
    <3> QED
      BY <3>1, <3>2
  <2> QED
    BY <2>5, <2>6, <2>7 DEF Reserved, w
<1> QED
  BY <1>3, <1>4

\* A form of the login is read as the login, and no value more.
LEMMA LoginFormRead ==
  ASSUME NEW d \in ConnectionData, NEW w \in Seq(Value),
         NEW named \in BOOLEAN, NEW tail \in Reserved,
         LoginForm(w, d, named, tail), Len(w) >= LoginLength(named, tail)
  PROVE  /\ Is(w, 1, {"array"})
         /\ ReadConnection(w) = Success(NormalConnection(d), Drop(w, LoginLength(named, tail)))
<1> DEFINE at   == IF named THEN 3 ELSE 2
           size == at + 2 + (IF tail = "none" THEN 0 ELSE 1)
           listed == tail # "none"
           length == IF tail = "word" THEN 1 ELSE 0
<1>1. Len(w) \in Nat /\ Len(w) >= at + 3 + Extra(tail)
  BY LenProperties DEF LoginLength
<1>2. /\ d.clusterName \in Nullable(Texts) /\ Password(d) \in Nullable(Texts)
      /\ d.serveOnTheSameConnection \in BOOLEAN /\ d.protocolVersionNumber \in Numbers
      /\ d.fragmentationSupported \in BOOLEAN
      /\ d.fragmentationTransmissionUnit \in Nullable(Numbers)
  BY PasswordType DEF ConnectionData
<1>3. w[1][1] = "array" /\ w[1][2] = size
  BY DEF LoginForm, Array
<1>4. Is(w, 1, {"array"}) /\ ~Is(w, 1, {"nil"})
  BY <1>1, <1>3 DEF Is, Extra, Reserved
<1>5. /\ w[at][1] = "bool" /\ w[at][2] = d.serveOnTheSameConnection
      /\ w[at + 1][1] = "int" /\ w[at + 1][2] = d.protocolVersionNumber
      /\ w[at + 2][1] = "bool" /\ w[at + 2][2] = d.fragmentationSupported
      /\ w[at + 3][1] \in {"int", "nil"} /\ w[at + 3][2] = d.fragmentationTransmissionUnit
  BY <1>2, FormParts, NullAssumption DEF LoginForm, Nullable
<1>6. /\ Is(w, at, {"bool"}) /\ Is(w, at + 1, {"int"}) /\ Is(w, at + 2, {"bool"})
      /\ Is(w, at + 3, {"int", "nil"})
  <2>1. /\ at \in 1 .. Len(w) /\ at + 1 \in 1 .. Len(w) /\ at + 2 \in 1 .. Len(w)
        /\ at + 3 \in 1 .. Len(w)
    BY <1>1 DEF Extra, Reserved
  <2> QED
    BY <1>5, <2>1 DEF Is
<1>7. Is(w, 2, {"text", "nil"}) = named /\ (named => w[2][2] = d.clusterName)
  <2>1. CASE named
    <3>1. w[2] = Text(d.clusterName) /\ 2 \in 1 .. Len(w)
      BY <2>1, <1>1 DEF LoginForm, Extra, Reserved
    <3>2. w[2][1] \in {"text", "nil"} /\ w[2][2] = d.clusterName
      BY <3>1, <1>2, FormParts
    <3> QED
      BY <2>1, <3>1, <3>2 DEF Is
  <2>2. CASE ~named
    BY <2>2, <1>5 DEF Is
  <2> QED
    BY <2>1, <2>2
<1>8. size \in 4 .. 6 /\ HasReserved(size, named) = listed
  BY DEF HasReserved
<1>9. /\ listed => Is(w, at + 4, {"array", "nil"})
      /\ (listed /\ w[at + 4] # Nil) = (tail = "word")
      /\ tail = "word" => w[at + 4][2] = 1 /\ Is(w, at + 5, {"text", "nil"})
                          /\ w[at + 5][2] = Password(d)
  <2>1. CASE tail = "word"
    <3>1. w[at + 4] = Array(1) /\ w[at + 5] = Text(Password(d))
      BY <2>1 DEF LoginForm
    <3>2. w[at + 4][1] = "array" /\ w[at + 4][2] = 1 /\ w[at + 4] # Nil
      BY <3>1 DEF Array, Nil
    <3>3. w[at + 5][1] \in {"text", "nil"} /\ w[at + 5][2] = Password(d)
      BY <3>1, <1>2, FormParts
    <3>4. Len(w) >= at + 5
      BY <1>1, <2>1 DEF Extra
    <3> QED
      BY <2>1, <3>2, <3>3, <3>4, <1>1 DEF Is
  <2>2. CASE tail = "nil"
    <3>1. w[at + 4] = Nil
      BY <2>2 DEF LoginForm
    <3>2. Len(w) >= at + 4
      BY <1>1, <2>2 DEF Extra
    <3> QED
      BY <2>2, <3>1, <3>2, <1>1 DEF Is, Nil
  <2>3. CASE tail = "none"
    BY <2>3
  <2> QED
    BY <2>1, <2>2, <2>3 DEF Reserved
<1>10. LoginLength(named, tail) = at + 3 + (IF listed THEN 1 + length ELSE 0)
  BY DEF LoginLength, Extra, Reserved
<1>11. NormalConnection(d) =
         [clusterName                   |-> d.clusterName,
          serveOnTheSameConnection      |-> d.serveOnTheSameConnection,
          protocolVersionNumber         |-> d.protocolVersionNumber,
          fragmentationSupported        |-> d.fragmentationSupported,
          fragmentationTransmissionUnit |-> d.fragmentationTransmissionUnit,
          reservedFields |-> IF tail = "word" THEN <<Password(d)>> ELSE Null]
  BY ObjectAssumption DEF NormalConnection, LoginForm, ConnectionData
<1>12. tail = "word" => [i \in 1 .. 1 |-> w[at + 4 + i][2]] = <<Password(d)>>
  <2> SUFFICES ASSUME tail = "word" PROVE [i \in 1 .. 1 |-> w[at + 4 + i][2]] = <<Password(d)>>
    OBVIOUS
  <2>1. w[at + 4 + 1][2] = Password(d)
    BY <1>9
  <2> QED
    BY <2>1
<1> DEFINE named1  == Is(w, 2, {"text", "nil"})
           at1     == IF named1 THEN 3 ELSE 2
           listed1 == HasReserved(w[1][2], named1)
           length1 == IF listed1 /\ w[at1 + 4] # Nil THEN w[at1 + 4][2] ELSE 0
           formed  == /\ Is(w, 1, {"array"}) /\ w[1][2] \in 4 .. 6
                      /\ Is(w, at1, {"bool"}) /\ Is(w, at1 + 1, {"int"})
                      /\ Is(w, at1 + 2, {"bool"}) /\ Is(w, at1 + 3, {"int", "nil"})
                      /\ listed1 => /\ Is(w, at1 + 4, {"array", "nil"})
                                    /\ \A i \in 1 .. length1 :
                                         Is(w, at1 + 4 + i, {"text", "nil"})
           read == [clusterName                   |-> IF named1 THEN w[2][2] ELSE Null,
                    serveOnTheSameConnection      |-> w[at1][2],
                    protocolVersionNumber         |-> w[at1 + 1][2],
                    fragmentationSupported        |-> w[at1 + 2][2],
                    fragmentationTransmissionUnit |-> w[at1 + 3][2],
                    reservedFields |-> IF listed1 /\ w[at1 + 4] # Nil
                                       THEN [i \in 1 .. length1 |-> w[at1 + 4 + i][2]]
                                       ELSE Null]
           left == at1 + 3 + (IF listed1 THEN 1 + length1 ELSE 0)
<1>13. ReadConnection(w) =
         IF Is(w, 1, {"nil"}) THEN Success(Null, Drop(w, 1))
         ELSE IF ~formed THEN Failure ELSE Success(read, Drop(w, left))
  BY DEF ReadConnection
<1>14. /\ named1 = named /\ at1 = at /\ listed1 = listed /\ length1 = length
       /\ (listed1 /\ w[at1 + 4] # Nil) = (tail = "word")
  BY <1>3, <1>7, <1>8, <1>9
<1> HIDE DEF named1, at1, listed1, length1
<1>15. formed
  <2>1. listed1 => Is(w, at1 + 4, {"array", "nil"})
    BY <1>9, <1>14
  <2>2. \A i \in 1 .. length1 : Is(w, at1 + 4 + i, {"text", "nil"})
    <3>1. CASE tail = "word"
      <4>1. length1 = 1 /\ Is(w, at1 + 4 + 1, {"text", "nil"})
        BY <1>9, <1>14, <3>1
      <4> QED
        BY <4>1
    <3>2. CASE tail # "word"
      BY <1>14, <3>2
    <3> QED
      BY <3>1, <3>2
  <2> QED
    BY <1>3, <1>4, <1>6, <1>8, <1>14, <2>1, <2>2
<1>16. read = NormalConnection(d)
  <2>1. (IF named1 THEN w[2][2] ELSE Null) = d.clusterName
    BY <1>7, <1>14 DEF LoginForm
  <2>2. (IF listed1 /\ w[at1 + 4] # Nil THEN [i \in 1 .. length1 |-> w[at1 + 4 + i][2]]
         ELSE Null) = IF tail = "word" THEN <<Password(d)>> ELSE Null
    BY <1>12, <1>14
  <2> QED
    BY <1>5, <1>11, <1>14, <2>1, <2>2
<1>17. left = LoginLength(named, tail)
  BY <1>10, <1>14
<1> QED
  BY <1>4, <1>13, <1>15, <1>16, <1>17

\* Whatever follows, the reader of a login gets what the writer had and stops
\* where the login ends.
LEMMA LoginReadBack ==
  ASSUME NEW d \in ConnectionData, NEW writer \in {"client", "server"}, NEW rest \in Seq(Value)
  PROVE  LET w == WriteConnectionBy(d, writer) \o rest
         IN  /\ Is(w, 1, {"array"})
             /\ ReadConnection(w) = Success(NormalConnection(d), rest)
<1> DEFINE v == WriteConnectionBy(d, writer)
           w == v \o rest
<1>1. PICK named \in BOOLEAN, tail \in Reserved :
        v \in Seq(Value) /\ LoginForm(v, d, named, tail) /\ Len(v) = LoginLength(named, tail)
  BY LoginWritten
<1> HIDE DEF v
<1>2. /\ w \in Seq(Value) /\ Len(v) \in Nat /\ Len(w) >= Len(v)
      /\ \A i \in 1 .. Len(v) : w[i] = v[i]
  BY <1>1, ConcatParts
<1>3. LoginForm(w, d, named, tail)
  <2> DEFINE at == IF named THEN 3 ELSE 2
  <2>1. Len(v) = at + 3 + Extra(tail)
    BY <1>1 DEF LoginLength
  <2>2. /\ w[1] = v[1] /\ w[2] = v[2] /\ w[at] = v[at] /\ w[at + 1] = v[at + 1]
        /\ w[at + 2] = v[at + 2] /\ w[at + 3] = v[at + 3]
    BY <1>2, <2>1 DEF Extra, Reserved
  <2>3. tail = "nil" => w[at + 4] = v[at + 4]
    BY <1>2, <2>1 DEF Extra, Reserved
  <2>4. tail = "word" => w[at + 4] = v[at + 4] /\ w[at + 5] = v[at + 5]
    BY <1>2, <2>1 DEF Extra, Reserved
  <2> QED
    BY <1>1, <2>2, <2>3, <2>4 DEF LoginForm
<1> HIDE DEF w
<1>4. Is(w, 1, {"array"}) /\ ReadConnection(w) = Success(NormalConnection(d), Drop(w, Len(v)))
  BY <1>1, <1>2, <1>3, LoginFormRead
<1>5. Drop(w, Len(v)) = rest
  BY <1>1, DropConcat DEF w
<1> QED
  BY <1>4, <1>5 DEF v, w

\* A login is one value.
LEMMA LoginWhole ==
  ASSUME NEW d \in ConnectionData, NEW writer \in {"client", "server"}
  PROVE  Whole(WriteConnectionBy(d, writer), 1)
<1> DEFINE named == writer = "server" \/ d.clusterName # Null
           C == IF named THEN <<Text(d.clusterName)>> ELSE <<>>
           F == <<Bool(d.serveOnTheSameConnection), Number(d.protocolVersionNumber),
                  Bool(d.fragmentationSupported), Number(d.fragmentationTransmissionUnit)>>
           T == IF Password(d) # Null THEN <<Array(1)>> \o <<Text(Password(d))>>
                ELSE IF writer = "server" THEN <<Nil>> ELSE <<>>
           n == IF writer = "server" \/ Password(d) # Null THEN 1 ELSE 0
           c == IF named THEN 1 ELSE 0
<1>1. C \in Seq(Scalar) /\ F \in Seq(Scalar) /\ Len(C) = c /\ Len(F) = 4
  BY ScalarForms DEF ConnectionData, Nullable
<1>2. T \in Seq(Value) /\ Whole(T, n)
  <2>1. CASE Password(d) # Null
    <3>1. <<Text(Password(d))>> \in Seq(Value) /\ Whole(<<Text(Password(d))>>, 1)
      BY PasswordType, ScalarForms, WholeScalar
    <3> QED
      BY <2>1, <3>1, WholeArray
  <2>2. CASE Password(d) = Null
    <3>1. T \in Seq(Scalar) /\ Len(T) = n
      BY <2>2, ScalarForms
    <3> QED
      BY <3>1, WholeScalars
  <2> QED
    BY <2>1, <2>2
<1> HIDE DEF C, F, T
<1>3. Whole(C, c) /\ Whole(F, 4) /\ C \in Seq(Value) /\ F \in Seq(Value)
  BY <1>1, WholeScalars
<1> DEFINE cf == C \o F
           b  == cf \o T
           size == c + 4 + n
<1>4. cf \in Seq(Value) /\ Whole(cf, c + 4) /\ c \in Nat /\ n \in Nat
  BY <1>3, WholeConcat
<1>5. b \in Seq(Value) /\ Whole(b, size) /\ size \in Nat
  <2> HIDE DEF cf, c, n
  <2> QED
    BY <1>2, <1>4, WholeConcat
<1>6. Whole(<<Array(size)>> \o b, 1)
  <2> HIDE DEF b, size
  <2> QED
    BY <1>5, WholeArray
<1>7. WriteConnectionBy(d, writer) = <<Array(size)>> \o b
  <2>1. T = IF Password(d) # Null THEN <<Array(1), Text(Password(d))>>
            ELSE IF writer = "server" THEN <<Nil>> ELSE <<>>
    <3> DEFINE x == Array(1)
               y == Text(Password(d))
    <3>1. x \in Value /\ y \in Value
      BY PasswordType, ScalarForms, ValueForms
    <3> HIDE DEF x, y
    <3>2. <<x>> \o <<y>> = <<x, y>>
      BY <3>1, PairConcat
    <3> QED
      BY <3>2 DEF T, x, y
  <2>2. <<Array(size)>> \o b = ((<<Array(size)>> \o C) \o F) \o T
    <3> DEFINE A == <<Array(size)>>
    <3>1. A \in Seq(Value)
      BY <1>5, ValueForms
    <3> HIDE DEF A, size
    <3>2. A \o b = (A \o cf) \o T
      <4> HIDE DEF cf
      <4> QED
        BY <1>2, <1>4, <3>1, Associative
    <3>3. A \o cf = (A \o C) \o F
      BY <1>3, <3>1, Associative
    <3> QED
      BY <3>2, <3>3 DEF A
  <2>3. CASE writer = "client"
    <3>1. size = 4 + Count(d.clusterName) + Count(Password(d))
      BY <2>3 DEF Count
    <3> HIDE DEF b, size
    <3>2. WriteConnectionBy(d, writer) = ((<<Array(size)>> \o C) \o F) \o T
      BY <2>1, <2>3, <3>1 DEF WriteConnectionBy, WriteConnection, C, F
    <3> QED
      BY <2>2, <3>2
  <2>4. CASE writer = "server"
    <3> DEFINE x == Text(d.clusterName)
               a1 == Bool(d.serveOnTheSameConnection)
               a2 == Number(d.protocolVersionNumber)
               a3 == Bool(d.fragmentationSupported)
               a4 == Number(d.fragmentationTransmissionUnit)
               r == (<<Array(6)>> \o <<x>>) \o <<a1, a2, a3, a4>>
    <3>1. size = 6 /\ C = <<x>> /\ F = <<a1, a2, a3, a4>>
      BY <2>4 DEF C, F
    <3>2. WriteConnectionBy(d, writer) = <<Array(6), x, a1, a2, a3, a4>> \o T
      BY <2>1, <2>4 DEF WriteConnectionBy, WriteConnectionNils
    <3>3. /\ x \in Value /\ a1 \in Value /\ a2 \in Value /\ a3 \in Value /\ a4 \in Value
          /\ Array(6) \in Value
      BY ScalarForms, ValueForms DEF ConnectionData, Nullable
    <3> HIDE DEF x, a1, a2, a3, a4, b, size
    <3>4. /\ r \in Seq(Value) /\ Len(r) = 6
          /\ r[1] = Array(6) /\ r[2] = x /\ r[3] = a1 /\ r[4] = a2 /\ r[5] = a3 /\ r[6] = a4
      BY <3>3
    <3>5. r = <<Array(6), x, a1, a2, a3, a4>>
      <4> HIDE DEF r
      <4> QED
        BY <3>3, <3>4
    <3> QED
      BY <2>2, <3>1, <3>2, <3>5
  <2> QED
    BY <2>3, <2>4
<1> QED
  BY <1>6, <1>7

-----------------------------------------------------------------------------
(* The two acks: a status, something, an exception                         *)

\* An array of two scalars and something whole between them is whole.
LEMMA TripleWhole ==
  ASSUME NEW x \in Scalar, NEW y \in Scalar, NEW T \in Seq(Value), Whole(T, 1)
  PROVE  /\ <<Array(3), x>> \o T \o <<y>> \in Seq(Value)
         /\ Whole(<<Array(3), x>> \o T \o <<y>>, 1)
<1> DEFINE A == <<Array(3)>>
           X == <<x>>
           Y == <<y>>
           P == <<Array(3), x>>
           q == X \o T
           b == q \o Y
<1>1. A \in Seq(Value) /\ P = A \o X
  BY ValueForms, PairConcat
<1>2. X \in Seq(Value) /\ Y \in Seq(Value) /\ Whole(X, 1) /\ Whole(Y, 1)
  BY WholeScalar
<1> HIDE DEF X, Y, P
<1>3. q \in Seq(Value) /\ Whole(q, 2)
  BY <1>2, WholeConcat
<1>4. b \in Seq(Value) /\ Whole(b, 3)
  <2> HIDE DEF q
  <2> QED
    BY <1>2, <1>3, WholeConcat
<1>5. A \o b \in Seq(Value) /\ Whole(A \o b, 1)
  <2> HIDE DEF b
  <2> QED
    BY <1>4, WholeArray
<1> HIDE DEF A
<1>6. P \o T = A \o q
  BY <1>1, <1>2, Associative
<1>7. A \o b = (A \o q) \o Y
  <2> HIDE DEF q
  <2> QED
    BY <1>1, <1>2, <1>3, Associative
<1>8. (P \o T) \o Y = A \o b
  BY <1>6, <1>7
<1> QED
  BY <1>5, <1>8 DEF P, Y

\* w is an array of three, the values of T between x and y, and a rest; v is
\* what follows T.
Triple(w, v, x, T, y, rest) ==
  w = (<<Array(3), x>> \o T \o <<y>>) \o rest /\ v = <<y>> \o rest

\* Where its parts are.
Places(w, v, x, T, y, rest) ==
  /\ w \in Seq(Value) /\ v \in Seq(Value) /\ Len(T) \in Nat
  /\ Len(w) = 3 + Len(T) + Len(rest) /\ Len(rest) \in Nat
  /\ w[1] = Array(3) /\ w[2] = x /\ \A i \in 1 .. Len(T) : w[2 + i] = T[i]
  /\ Drop(w, 2) = T \o v /\ Drop(w, 2 + Len(T)) = v
  /\ Len(v) = 1 + Len(rest) /\ v[1] = y /\ Drop(v, 1) = rest

\* The parts of an array of three are in their places.
LEMMA TripleParts ==
  ASSUME NEW x \in Value, NEW y \in Value, NEW T \in Seq(Value), NEW rest \in Seq(Value),
         NEW w, NEW v, Triple(w, v, x, T, y, rest)
  PROVE  Places(w, v, x, T, y, rest)
<1> DEFINE Y == <<y>>
           P == <<Array(3), x>>
           p == P \o T
           u == T \o v
<1>1. /\ P \in Seq(Value) /\ Len(P) = 2 /\ P[1] = Array(3) /\ P[2] = x
      /\ Y \in Seq(Value) /\ Len(Y) = 1 /\ Y[1] = y
  BY ValueForms
<1>a. v = Y \o rest /\ w = (p \o Y) \o rest
  BY DEF Triple
<1> HIDE DEF P, Y
<1>2. /\ v \in Seq(Value) /\ Len(rest) \in Nat /\ Len(v) = Len(Y) + Len(rest)
      /\ \A i \in 1 .. Len(Y) : v[i] = Y[i]
  BY <1>1, <1>a, ConcatParts
<1>3. Drop(v, 1) = rest
  BY <1>1, <1>a, DropConcat
<1>4. /\ p \in Seq(Value) /\ Len(T) \in Nat /\ Len(p) = Len(P) + Len(T)
      /\ \A i \in 1 .. Len(P) : p[i] = P[i]
      /\ \A i \in 1 .. Len(T) : p[Len(P) + i] = T[i]
  BY <1>1, ConcatParts
<1>5. w = p \o v
  <2>1. (p \o Y) \o rest = p \o (Y \o rest)
    <3> HIDE DEF p
    <3> QED
      BY <1>1, <1>4, Associative
  <2> QED
    BY <1>a, <2>1
<1>6. p \o v = P \o u
  <2>1. P \in Seq(Value) /\ v \in Seq(Value)
    BY <1>1, <1>2
  <2> QED
    BY <2>1, Associative, Zenon
<1>7. u \in Seq(Value)
  BY <1>2, ConcatParts
<1> HIDE DEF u, p
<1>8. /\ Len(v) = 1 + Len(rest) /\ v[1] = y
  BY <1>1, <1>2
<1>9. Len(p) = 2 + Len(T) /\ p[1] = Array(3) /\ p[2] = x
  BY <1>1, <1>4
<1>10. \A i \in 1 .. Len(T) : p[2 + i] = T[i]
  BY <1>1, <1>4
<1>11. Drop(w, 2) = u
  BY <1>1, <1>5, <1>6, <1>7, DropConcat
<1>12. Drop(w, 2 + Len(T)) = v
  BY <1>2, <1>4, <1>5, <1>9, DropConcat
<1>13. /\ w \in Seq(Value) /\ Len(w) = Len(p) + Len(v)
       /\ \A i \in 1 .. Len(p) : w[i] = p[i]
  <2>1. v \in Seq(Value) /\ p \in Seq(Value)
    BY <1>2, <1>4
  <2>2. /\ p \o v \in Seq(Value) /\ Len(p \o v) = Len(p) + Len(v)
        /\ \A i \in 1 .. Len(p) : (p \o v)[i] = p[i]
    BY <2>1, ConcatParts
  <2> QED
    BY <1>5, <2>2
<1>14. w[1] = p[1] /\ w[2] = p[2]
  BY <1>4, <1>9, <1>13
<1>15. \A i \in 1 .. Len(T) : w[2 + i] = T[i]
  <2> SUFFICES ASSUME NEW i \in 1 .. Len(T) PROVE w[2 + i] = T[i]
    OBVIOUS
  <2>1. 2 + i \in 1 .. Len(p)
    BY <1>4, <1>9
  <2> QED
    BY <1>10, <1>13, <2>1
<1>16. Len(w) = 3 + Len(T) + Len(rest)
  BY <1>2, <1>4, <1>8, <1>9, <1>13
<1>17. /\ w \in Seq(Value) /\ v \in Seq(Value) /\ Len(T) \in Nat /\ Len(rest) \in Nat
       /\ w[1] = Array(3) /\ w[2] = x
  BY <1>2, <1>4, <1>9, <1>13, <1>14
<1> QED
  BY <1>3, <1>8, <1>11, <1>12, <1>15, <1>16, <1>17 DEF u, Places

\* The ackData of a connection ack is one value.
LEMMA AckTypeWhole ==
  ASSUME NEW a \in AckTypeData, NEW writer \in {"client", "server"}
  PROVE  WriteAckType(a, writer) \in Seq(Value) /\ Whole(WriteAckType(a, writer), 1)
<1>1. CASE a.success # Null
  <2>1. a.success \in ConnectionData
    BY <1>1 DEF AckTypeData
  <2> QED
    BY <1>1, <2>1, LoginWritten, LoginWhole DEF WriteAckType
<1>2. CASE a.success = Null /\ a.unauthorized # Null
  <2> DEFINE w == <<Map(1), Number(a.unauthorized.field), Text(a.unauthorized.reason)>>
             f == [i \in 0 .. 3 |-> IF i = 0 THEN 1 ELSE 3 - i]
  <2>1. Number(a.unauthorized.field) \in Scalar /\ Text(a.unauthorized.reason) \in Scalar
    BY <1>2, ObjectAssumption, ScalarForms DEF AckTypeData, Reasons, Nullable
  <2>2. w \in Seq(Value) /\ Len(w) = 3 /\ w[1] = Map(1) /\ w[2] \in Scalar /\ w[3] \in Scalar
    BY <2>1, ValueForms
  <2>3. Children(Map(1)) = 2
    BY DEF Children, Map
  <2>4. WriteAckType(a, writer) = w
    BY <1>2 DEF WriteAckType
  <2> HIDE DEF w
  <2>5. Closes(w, 1, f)
    BY <2>2, <2>3, ChildrenType DEF Closes
  <2> QED
    BY <2>2, <2>4, <2>5 DEF Whole
<1>3. CASE a.success = Null /\ a.unauthorized = Null
  <2>1. <<Nil>> \in Seq(Scalar) /\ Len(<<Nil>>) = 1
    BY ScalarForms
  <2> QED
    BY <1>3, <2>1, WholeScalars, ValueForms DEF WriteAckType
<1> QED
  BY <1>1, <1>2, <1>3

\* It is read as it was, but for an empty one.
LEMMA AckTypeReadBack ==
  ASSUME NEW a \in AckTypeData, NEW writer \in {"client", "server"}, NEW rest \in Seq(Value)
  PROVE  ReadAckType(WriteAckType(a, writer) \o rest) = Success(NormalAck(a), rest)
<1> DEFINE w == WriteAckType(a, writer) \o rest
<1>1. CASE a.success # Null
  <2>1. a.success \in ConnectionData /\ a.unauthorized = Null
    BY <1>1 DEF AckTypeData
  <2>2. w = WriteConnectionBy(a.success, writer) \o rest
    BY <1>1 DEF WriteAckType
  <2>3. Is(w, 1, {"array"}) /\ ReadConnection(w) = Success(NormalConnection(a.success), rest)
    BY <2>1, <2>2, LoginReadBack
  <2>4. NormalAck(a) = [success |-> NormalConnection(a.success), unauthorized |-> Null]
    BY <1>1, <2>1 DEF NormalAck, AckTypeData
  <2> HIDE DEF w
  <2>5. ReadAckType(w) = Success(NormalAck(a), rest)
    BY <2>3, <2>4 DEF ReadAckType, Success
  <2> QED
    BY <2>5 DEF w
<1>2. CASE a.success = Null /\ a.unauthorized # Null
  <2> DEFINE s == <<Map(1), Number(a.unauthorized.field), Text(a.unauthorized.reason)>>
  <2>1. /\ a.unauthorized \in Reasons /\ a.unauthorized.field \in Numbers
        /\ a.unauthorized.reason \in Texts
    BY <1>2, ObjectAssumption DEF AckTypeData, Reasons, Nullable
  <2>2. /\ s \in Seq(Value) /\ Len(s) = 3 /\ s[1] = Map(1)
        /\ s[2][2] = a.unauthorized.field /\ s[3][2] = a.unauthorized.reason
    BY <2>1, ScalarForms, ValueForms, FormParts DEF Nullable
  <2>3. w = s \o rest
    BY <1>2 DEF WriteAckType
  <2> HIDE DEF w, s
  <2>a. /\ Len(rest) \in Nat /\ Len(w) = Len(s) + Len(rest)
        /\ \A i \in 1 .. Len(s) : w[i] = s[i]
    BY <2>2, <2>3, ConcatParts
  <2>4. Len(w) = 3 + Len(rest) /\ \A i \in 1 .. 3 : w[i] = s[i]
    BY <2>2, <2>a
  <2>5. w[1][1] = "map" /\ w[2][2] = a.unauthorized.field /\ w[3][2] = a.unauthorized.reason
    BY <2>2, <2>4 DEF Map
  <2>6. Is(w, 1, {"map"}) /\ ~Is(w, 1, {"array"})
    BY <2>a, <2>4, <2>5 DEF Is
  <2>7. Drop(w, 3) = rest
    BY <2>2, <2>3, DropConcat
  <2>8. a.unauthorized = [field |-> w[2][2], reason |-> w[3][2]]
    BY <2>1, <2>5 DEF Reasons
  <2>9. NormalAck(a) = [success |-> Null, unauthorized |-> a.unauthorized]
    BY <1>2 DEF NormalAck, NormalConnection, AckTypeData
  <2>10. ReadAckType(w) = Success(NormalAck(a), rest)
    BY <2>6, <2>7, <2>8, <2>9 DEF ReadAckType
  <2> QED
    BY <2>10 DEF w
<1>3. CASE a.success = Null /\ a.unauthorized = Null
  <2> DEFINE s == <<Nil>>
  <2>1. s \in Seq(Value) /\ Len(s) = 1 /\ s[1] = Nil
    BY ScalarForms, ValueForms
  <2>2. w = s \o rest
    BY <1>3 DEF WriteAckType
  <2> HIDE DEF w, s
  <2>3. Len(rest) \in Nat /\ Len(w) = 1 + Len(rest) /\ \A i \in 1 .. 1 : w[i] = s[i]
    BY <2>1, <2>2, ConcatParts
  <2>4. w[1][1] = "nil"
    BY <2>1, <2>3 DEF Nil
  <2>5. Is(w, 1, {"nil"}) /\ ~Is(w, 1, {"map"}) /\ ~Is(w, 1, {"array"})
    BY <2>3, <2>4 DEF Is
  <2>6. Drop(w, 1) = rest
    BY <2>1, <2>2, DropConcat
  <2>7. ReadAckType(w) = Success(NormalAck(a), rest)
    BY <1>3, <2>5, <2>6 DEF ReadAckType, NormalAck
  <2> QED
    BY <2>7 DEF w
<1> QED
  BY <1>1, <1>2, <1>3

\* The connection ack is one value, and is read as it was.
LEMMA AckReadBack ==
  ASSUME NEW d \in ConnectionAckData, d.ackData # Null, NEW writer \in {"client", "server"},
         NEW rest \in Seq(Value)
  PROVE  /\ WriteAck(d, writer) \in Seq(Value) /\ Whole(WriteAck(d, writer), 1)
         /\ ReadAck(WriteAck(d, writer) \o rest)
              = Success([d EXCEPT !.ackData = NormalAck(d.ackData)], rest)
<1> DEFINE x == Number(d.status)
           y == Text(d.exception)
           T == WriteAckType(d.ackData, writer)
           w == WriteAck(d, writer) \o rest
           v == <<y>> \o rest
<1>1. d.status \in Numbers /\ d.ackData \in AckTypeData /\ d.exception \in Nullable(Texts)
  BY DEF ConnectionAckData, Nullable
<1>2. x \in Scalar /\ y \in Scalar /\ x \in Value /\ y \in Value
  BY <1>1, ScalarForms, ValueForms DEF Nullable
<1>3. /\ x[1] = "int" /\ x[2] = d.status
      /\ y[1] \in {"text", "nil"} /\ y[2] = d.exception
  BY <1>1, FormParts, NullAssumption DEF Nullable
<1>4. WriteAck(d, writer) = <<Array(3), x>> \o T \o <<y>>
  BY DEF WriteAck
<1>5. T \in Seq(Value) /\ Whole(T, 1) /\ ReadAckType(T \o v) = Success(NormalAck(d.ackData), v)
  <2>1. v \in Seq(Value)
    BY <1>2, ConcatParts
  <2> HIDE DEF v
  <2> QED
    BY <1>1, <2>1, AckTypeWhole, AckTypeReadBack
<1>a. Triple(w, v, x, T, y, rest)
  BY <1>4 DEF Triple
<1> HIDE DEF x, y, T, w, v
<1>6. WriteAck(d, writer) \in Seq(Value) /\ Whole(WriteAck(d, writer), 1)
  BY <1>2, <1>4, <1>5, TripleWhole
<1>7. /\ Len(T) \in Nat /\ Len(rest) \in Nat /\ Len(w) = 3 + Len(T) + Len(rest)
      /\ w[1] = Array(3) /\ w[2] = x /\ Drop(w, 2) = T \o v
      /\ Len(v) = 1 + Len(rest) /\ v[1] = y /\ Drop(v, 1) = rest
  <2>1. Places(w, v, x, T, y, rest)
    BY <1>2, <1>5, <1>a, TripleParts
  <2> QED
    BY <2>1 DEF Places
<1>8. Is(w, 1, {"array"}) /\ Is(w, 2, {"int"}) /\ w[2][2] = d.status
  BY <1>3, <1>7 DEF Is, Array
<1>9. Is(v, 1, {"text", "nil"}) /\ v[1][2] = d.exception
  BY <1>3, <1>7 DEF Is
<1>10. [d EXCEPT !.ackData = NormalAck(d.ackData)]
         = [status |-> d.status, ackData |-> NormalAck(d.ackData), exception |-> d.exception]
  BY DEF ConnectionAckData
<1>11. ReadAck(w) = Success([d EXCEPT !.ackData = NormalAck(d.ackData)], rest)
  <2> DEFINE a == ReadAckType(Drop(w, 2))
  <2>1. a.ok /\ a.value = NormalAck(d.ackData) /\ a.rest = v
    <3>1. a = Success(NormalAck(d.ackData), v)
      BY <1>5, <1>7, Zenon
    <3> HIDE DEF a
    <3> QED
      BY <3>1 DEF Success
  <2>2. ReadAck(w) =
          IF Is(w, 1, {"array"}) /\ Is(w, 2, {"int"}) /\ a.ok /\ Is(a.rest, 1, {"text", "nil"})
          THEN Success([status |-> w[2][2], ackData |-> a.value, exception |-> a.rest[1][2]],
                       Drop(a.rest, 1))
          ELSE Failure
    BY DEF ReadAck
  <2> HIDE DEF a
  <2> QED
    BY <1>7, <1>8, <1>9, <1>10, <2>1, <2>2
<1> QED
  BY <1>6, <1>11 DEF w

\* The four values of a result.
LEMMA ResultForm ==
  ASSUME NEW r \in EventDocumentAckResult
  PROVE  LET w == WriteResult(r)
         IN  /\ w \in Seq(Value) /\ Len(w) = 4
             /\ w[1] = Array(3) /\ w[2] \in Scalar /\ w[3] \in Scalar /\ w[4] = Map(0)
             /\ w[2][1] = "int" /\ w[2][2] = r.status
             /\ w[3][1] \in {"text", "nil"} /\ w[3][2] = r.notification
<1>1. r.status \in Numbers /\ r.notification \in Nullable(Texts)
  BY DEF EventDocumentAckResult
<1> DEFINE x == Number(r.status)
           y == Text(r.notification)
<1>2. x \in Scalar /\ y \in Scalar /\ x \in Value /\ y \in Value
  BY <1>1, ScalarForms, ValueForms DEF Nullable
<1>3. /\ x[1] = "int" /\ x[2] = r.status
      /\ y[1] \in {"text", "nil"} /\ y[2] = r.notification
  BY <1>1, FormParts, NullAssumption DEF Nullable
<1>4. Array(3) \in Value /\ Map(0) \in Value
  BY ValueForms
<1>5. WriteResult(r) = <<Array(3), x, y, Map(0)>>
  BY DEF WriteResult
<1> HIDE DEF x, y
<1> QED
  BY <1>2, <1>3, <1>4, <1>5

\* Where the values of each result are.
LEMMA ResultsForm ==
  ASSUME NEW rs \in Seq(EventDocumentAckResult)
  PROVE  LET w == WriteResults(rs)
         IN  /\ w \in Seq(Value) /\ Len(w) = 4 * Len(rs) /\ Len(rs) \in Nat
             /\ \A j \in 1 .. Len(rs), k \in 1 .. 4 :
                  w[4 * (j - 1) + k] = WriteResult(rs[j])[k]
<1> DEFINE w == WriteResults(rs)
           n == Len(rs)
<1>1. n \in Nat /\ \A j \in 1 .. n : rs[j] \in EventDocumentAckResult
  BY LenProperties
<1>2. w = [i \in 1 .. 4 * n |-> WriteResult(rs[(i + 3) \div 4])[1 + ((i - 1) % 4)]]
  BY DEF WriteResults
<1> HIDE DEF w, n
<1>3. \A j \in 1 .. n, k \in 1 .. 4 : WriteResult(rs[j])[k] \in Value
  <2> SUFFICES ASSUME NEW j \in 1 .. n, NEW k \in 1 .. 4 PROVE WriteResult(rs[j])[k] \in Value
    OBVIOUS
  <2>1. WriteResult(rs[j]) \in Seq(Value) /\ Len(WriteResult(rs[j])) = 4
    BY <1>1, ResultForm
  <2> QED
    BY <2>1, ElementOfSeq
<1>4. \A i \in 1 .. 4 * n : (i + 3) \div 4 \in 1 .. n /\ 1 + ((i - 1) % 4) \in 1 .. 4
  BY <1>1
<1>5. w \in [1 .. 4 * n -> Value]
  BY <1>2, <1>3, <1>4
<1>6. w \in Seq(Value) /\ Len(w) = 4 * n
  BY <1>1, <1>5
<1>7. ASSUME NEW j \in 1 .. n, NEW k \in 1 .. 4
      PROVE  w[4 * (j - 1) + k] = WriteResult(rs[j])[k]
  <2> DEFINE i == 4 * (j - 1) + k
  <2>1. i \in 1 .. 4 * n /\ (i + 3) \div 4 = j /\ 1 + ((i - 1) % 4) = k
    BY <1>1
  <2> HIDE DEF i
  <2>2. w[i] = WriteResult(rs[j])[k]
    BY <1>2, <2>1
  <2> QED
    BY <2>2 DEF i
<1> QED
  BY <1>1, <1>6, <1>7 DEF w, n

\* The results are as many values as there are results.
LEMMA ResultsWhole ==
  ASSUME NEW rs \in Seq(EventDocumentAckResult)
  PROVE  Whole(WriteResults(rs), Len(rs))
<1> DEFINE w == WriteResults(rs)
           n == Len(rs)
           f == [i \in 0 .. 4 * n |->
                   n - (i \div 4) + (IF i % 4 = 0 THEN 0 ELSE 3 - (i % 4))]
<1>1. /\ w \in Seq(Value) /\ Len(w) = 4 * n /\ n \in Nat
      /\ \A j \in 1 .. n : rs[j] \in EventDocumentAckResult
      /\ \A j \in 1 .. n, k \in 1 .. 4 : w[4 * (j - 1) + k] = WriteResult(rs[j])[k]
  BY ResultsForm, LenProperties
<1> HIDE DEF w, n
<1>2. \A j \in 1 .. n :
        /\ Children(w[4 * (j - 1) + 1]) = 3 /\ Children(w[4 * (j - 1) + 2]) = 0
        /\ Children(w[4 * (j - 1) + 3]) = 0 /\ Children(w[4 * (j - 1) + 4]) = 0
  <2> SUFFICES ASSUME NEW j \in 1 .. n
               PROVE  /\ Children(w[4 * (j - 1) + 1]) = 3 /\ Children(w[4 * (j - 1) + 2]) = 0
                      /\ Children(w[4 * (j - 1) + 3]) = 0 /\ Children(w[4 * (j - 1) + 4]) = 0
    OBVIOUS
  <2> DEFINE v == WriteResult(rs[j])
  <2>1. v[1] = Array(3) /\ v[2] \in Scalar /\ v[3] \in Scalar /\ v[4] = Map(0)
    BY <1>1, ResultForm
  <2>2. Children(Array(3)) = 3 /\ Children(Map(0)) = 0
    BY DEF Children, Array, Map
  <2>3. /\ w[4 * (j - 1) + 1] = v[1] /\ w[4 * (j - 1) + 2] = v[2]
        /\ w[4 * (j - 1) + 3] = v[3] /\ w[4 * (j - 1) + 4] = v[4]
    <3>1. \A k \in 1 .. 4 : w[4 * (j - 1) + k] = v[k]
      BY <1>1
    <3> QED
      BY <3>1
  <2> QED
    BY <2>1, <2>2, <2>3, ChildrenType
<1>a. \A i \in 0 .. 4 * n :
        f[i] = n - (i \div 4) + (IF i % 4 = 0 THEN 0 ELSE 3 - (i % 4))
  OBVIOUS
<1>4. f \in [0 .. 4 * n -> Nat]
  <2>1. \A i \in 0 .. 4 * n :
          n - (i \div 4) + (IF i % 4 = 0 THEN 0 ELSE 3 - (i % 4)) \in Nat
    BY <1>1
  <2> QED
    BY <2>1
<1> HIDE DEF f
<1>3. ASSUME NEW i \in 1 .. 4 * n
      PROVE  f[i - 1] > 0 /\ f[i] = f[i - 1] - 1 + Children(w[i])
  <2> DEFINE j == (i + 3) \div 4
             k == 1 + ((i - 1) % 4)
             c == Children(w[i])
  <2>1. j \in 1 .. n /\ k \in 1 .. 4 /\ i = 4 * (j - 1) + k
    BY <1>1
  <2>2. f[i] = n - (i \div 4) + (IF i % 4 = 0 THEN 0 ELSE 3 - (i % 4))
    <3>1. i \in 0 .. 4 * n
      BY <1>1
    <3> QED
      BY <3>1, <1>a
  <2>3. f[i - 1] = n - ((i - 1) \div 4) + (IF (i - 1) % 4 = 0 THEN 0 ELSE 3 - ((i - 1) % 4))
    <3>1. i - 1 \in 0 .. 4 * n
      BY <1>1
    <3> QED
      BY <1>a, <3>1
  <2>4. n \in Nat
    BY <1>1
  <2> HIDE DEF j, k, c
  <2>5. CASE k = 1
    <3>1. c = 3
      BY <1>2, <2>1, <2>5 DEF c
    <3>2. /\ (i - 1) \div 4 = j - 1 /\ (i - 1) % 4 = 0 /\ i \div 4 = j - 1 /\ i % 4 = 1
      BY <2>1, <2>5
    <3> QED
      BY <2>1, <2>2, <2>3, <2>4, <3>1, <3>2 DEF c
  <2>6. CASE k = 2
    <3>1. c = 0
      BY <1>2, <2>1, <2>6 DEF c
    <3>2. /\ (i - 1) \div 4 = j - 1 /\ (i - 1) % 4 = 1 /\ i \div 4 = j - 1 /\ i % 4 = 2
      BY <2>1, <2>6
    <3> QED
      BY <2>1, <2>2, <2>3, <2>4, <3>1, <3>2 DEF c
  <2>7. CASE k = 3
    <3>1. c = 0
      BY <1>2, <2>1, <2>7 DEF c
    <3>2. /\ (i - 1) \div 4 = j - 1 /\ (i - 1) % 4 = 2 /\ i \div 4 = j - 1 /\ i % 4 = 3
      BY <2>1, <2>7
    <3> QED
      BY <2>1, <2>2, <2>3, <2>4, <3>1, <3>2 DEF c
  <2>8. CASE k = 4
    <3>1. c = 0
      BY <1>2, <2>1, <2>8 DEF c
    <3>2. /\ (i - 1) \div 4 = j - 1 /\ (i - 1) % 4 = 3 /\ i \div 4 = j /\ i % 4 = 0
      BY <2>1, <2>8
    <3> QED
      BY <2>1, <2>2, <2>3, <2>4, <3>1, <3>2 DEF c
  <2> QED
    BY <2>1, <2>5, <2>6, <2>7, <2>8
<1>5. f[0] = n /\ f[4 * n] = 0
  <2>1. /\ n \in Nat /\ 0 \in 0 .. 4 * n /\ 4 * n \in 0 .. 4 * n
        /\ (4 * n) \div 4 = n /\ (4 * n) % 4 = 0
    BY <1>1
  <2> QED
    BY <1>a, <2>1
<1>6. Closes(w, n, f)
  BY <1>1, <1>3, <1>4, <1>5 DEF Closes
<1> QED
  BY <1>6 DEF Whole, w, n

\* The values that Drop leaves.
LEMMA DropParts ==
  ASSUME NEW w \in Seq(Value), NEW n \in 0 .. Len(w)
  PROVE  /\ Len(Drop(w, n)) = Len(w) - n
         /\ \A i \in 1 .. Len(w) - n : Drop(w, n)[i] = w[n + i]
<1>1. Len(w) \in Nat /\ \A i \in n + 1 .. Len(w) : w[i] \in Value
  BY LenProperties
<1> DEFINE r == SubSeq(w, n + 1, Len(w))
<1>2. /\ Len(r) = (IF n + 1 <= Len(w) THEN Len(w) - (n + 1) + 1 ELSE 0)
      /\ \A i \in 1 .. Len(w) - (n + 1) + 1 : r[i] = w[(n + 1) + i - 1]
  BY <1>1, SubSeqProperties
<1> HIDE DEF r
<1>3. Len(r) = Len(w) - n
  BY <1>1, <1>2
<1>4. \A i \in 1 .. Len(w) - n : r[i] = w[n + i]
  BY <1>1, <1>2
<1> QED
  BY <1>3, <1>4 DEF Drop, r

\* The list of results, or nil.
DocumentAckList(d) ==
  IF d.ackData = Null THEN <<Nil>> ELSE <<Array(Len(d.ackData))>> \o WriteResults(d.ackData)

\* It is one value.
LEMMA DocumentAckListWhole ==
  ASSUME NEW d \in EventDocumentAck
  PROVE  DocumentAckList(d) \in Seq(Value) /\ Whole(DocumentAckList(d), 1)
<1>1. CASE d.ackData = Null
  <2>1. <<Nil>> \in Seq(Scalar) /\ Len(<<Nil>>) = 1
    BY ScalarForms
  <2> QED
    BY <1>1, <2>1, WholeScalars, ValueForms DEF DocumentAckList
<1>2. CASE d.ackData # Null
  <2>1. d.ackData \in Seq(EventDocumentAckResult)
    BY <1>2 DEF EventDocumentAck, Nullable
  <2>2. /\ WriteResults(d.ackData) \in Seq(Value) /\ Len(d.ackData) \in Nat
        /\ Whole(WriteResults(d.ackData), Len(d.ackData))
    BY <2>1, ResultsForm, ResultsWhole
  <2>3. <<Array(Len(d.ackData))>> \in Seq(Value)
    BY <2>2, ValueForms
  <2> QED
    BY <1>2, <2>2, <2>3, WholeArray, ConcatParts DEF DocumentAckList
<1> QED
  BY <1>1, <1>2

\* The ack of a document is one value, and is read as it was.
LEMMA DocumentAckReadBack ==
  ASSUME NEW d \in EventDocumentAck, NEW rest \in Seq(Value)
  PROVE  /\ WriteDocumentAck(d) \in Seq(Value) /\ Whole(WriteDocumentAck(d), 1)
         /\ ReadDocumentAck(WriteDocumentAck(d) \o rest) = Success(d, rest)
<1> DEFINE x == Number(d.status)
           y == Text(d.exception)
           T == DocumentAckList(d)
           w == WriteDocumentAck(d) \o rest
           v == <<y>> \o rest
           n == IF d.ackData = Null THEN 0 ELSE Len(d.ackData)
           at(i) == Drop(w, 3 + 4 * (i - 1))
<1>1. d.status \in Numbers /\ d.exception \in Nullable(Texts)
  BY DEF EventDocumentAck
<1>2. x \in Scalar /\ y \in Scalar /\ x \in Value /\ y \in Value
  BY <1>1, ScalarForms, ValueForms DEF Nullable
<1>3. /\ x[1] = "int" /\ x[2] = d.status
      /\ y[1] \in {"text", "nil"} /\ y[2] = d.exception
  BY <1>1, FormParts, NullAssumption DEF Nullable
<1>4. WriteDocumentAck(d) = <<Array(3), x>> \o T \o <<y>>
  BY DEF WriteDocumentAck, DocumentAckList
<1>5. T \in Seq(Value) /\ Whole(T, 1)
  BY DocumentAckListWhole
<1>6. /\ n \in Nat /\ Len(T) = 1 + 4 * n
      /\ T[1] = IF d.ackData = Null THEN Nil ELSE Array(n)
      /\ \A j \in 1 .. n : /\ d.ackData[j] \in EventDocumentAckResult
                          /\ \A k \in 1 .. 4 : T[1 + (4 * (j - 1) + k)]
                                                = WriteResult(d.ackData[j])[k]
  <2>1. CASE d.ackData = Null
    BY <2>1 DEF DocumentAckList
  <2>2. CASE d.ackData # Null
    <3> DEFINE A == <<Array(n)>>
               W == WriteResults(d.ackData)
    <3>1. d.ackData \in Seq(EventDocumentAckResult)
      BY <2>2 DEF EventDocumentAck, Nullable
    <3>2. /\ n \in Nat /\ W \in Seq(Value) /\ Len(W) = 4 * n
          /\ \A j \in 1 .. n : /\ d.ackData[j] \in EventDocumentAckResult
                              /\ \A k \in 1 .. 4 : W[4 * (j - 1) + k]
                                                    = WriteResult(d.ackData[j])[k]
      BY <2>2, <3>1, ResultsForm, LenProperties
    <3>3. A \in Seq(Value) /\ Len(A) = 1 /\ A[1] = Array(n)
      BY <3>2, ValueForms
    <3>4. T = A \o W
      BY <2>2 DEF DocumentAckList
    <3> HIDE DEF T, A, W, n
    <3>a. /\ Len(T) = Len(A) + Len(W) /\ \A i \in 1 .. Len(A) : T[i] = A[i]
          /\ \A i \in 1 .. Len(W) : T[Len(A) + i] = W[i]
      BY <3>2, <3>3, <3>4, ConcatParts
    <3>5. /\ Len(T) = 1 + 4 * n /\ T[1] = A[1]
          /\ \A i \in 1 .. 4 * n : T[1 + i] = W[i]
      BY <3>2, <3>3, <3>a
    <3>6. \A j \in 1 .. n, k \in 1 .. 4 : 4 * (j - 1) + k \in 1 .. 4 * n
      BY <3>2
    <3> QED
      BY <2>2, <3>2, <3>3, <3>5, <3>6
  <2> QED
    BY <2>1, <2>2
<1>a. Triple(w, v, x, T, y, rest)
  BY <1>4 DEF Triple
<1> HIDE DEF x, y, T, n, w, v
<1>7. WriteDocumentAck(d) \in Seq(Value) /\ Whole(WriteDocumentAck(d), 1)
  BY <1>2, <1>4, <1>5, TripleWhole
<1>8. /\ w \in Seq(Value) /\ Len(rest) \in Nat /\ Len(w) = 3 + Len(T) + Len(rest)
      /\ w[1] = Array(3) /\ w[2] = x /\ \A i \in 1 .. Len(T) : w[2 + i] = T[i]
      /\ Drop(w, 2 + Len(T)) = v
      /\ Len(v) = 1 + Len(rest) /\ v[1] = y /\ Drop(v, 1) = rest
  <2>1. Places(w, v, x, T, y, rest)
    BY <1>2, <1>5, <1>a, TripleParts
  <2> QED
    BY <2>1 DEF Places
<1>9. Is(w, 1, {"array"}) /\ Is(w, 2, {"int"}) /\ w[2][2] = d.status
  BY <1>3, <1>6, <1>8 DEF Is, Array
<1>10. Is(v, 1, {"text", "nil"}) /\ v[1][2] = d.exception
  BY <1>3, <1>8 DEF Is
<1>11. /\ Is(w, 3, {"array"}) = (d.ackData # Null) /\ Is(w, 3, {"array", "nil"})
       /\ d.ackData # Null => w[3][2] = n
  <2>1. w[3] = T[1] /\ 3 \in 1 .. Len(w)
    BY <1>6, <1>8
  <2>2. CASE d.ackData = Null
    <3>1. w[3][1] = "nil"
      BY <2>1, <2>2, <1>6 DEF Nil
    <3> QED
      BY <2>1, <2>2, <3>1 DEF Is
  <2>3. CASE d.ackData # Null
    <3>1. w[3][1] = "array" /\ w[3][2] = n
      BY <2>1, <2>3, <1>6 DEF Array
    <3> QED
      BY <2>1, <2>3, <3>1 DEF Is
  <2> QED
    BY <2>2, <2>3
<1>12. at(n + 1) = v
  <2>1. 3 + 4 * ((n + 1) - 1) = 2 + Len(T)
    BY <1>6
  <2> QED
    BY <1>8, <2>1
<1>13. ASSUME NEW j \in 1 .. n
       PROVE  /\ Is(at(j), 1, {"array"}) /\ Is(at(j), 2, {"int"})
              /\ Is(at(j), 3, {"text", "nil"}) /\ Is(at(j), 4, {"map"})
              /\ ReadResult(at(j)) = d.ackData[j]
  <2> DEFINE m == 3 + 4 * (j - 1)
             a == at(j)
             r == WriteResult(d.ackData[j])
  <2>1. m \in 0 .. Len(w) /\ Len(w) - m >= 4 /\ Len(w) \in Nat
    BY <1>6, <1>8
  <2>2. Len(a) = Len(w) - m /\ \A k \in 1 .. Len(w) - m : a[k] = w[m + k]
    <3> HIDE DEF m
    <3>1. a = Drop(w, m)
      BY DEF m
    <3> HIDE DEF a
    <3> QED
      BY <1>8, <2>1, <3>1, DropParts
  <2>3. \A k \in 1 .. 4 : a[k] = r[k]
    <3> SUFFICES ASSUME NEW k \in 1 .. 4 PROVE a[k] = r[k]
      OBVIOUS
    <3>1. k \in 1 .. Len(w) - m
      BY <2>1
    <3>2. a[k] = w[m + k]
      BY <2>2, <3>1
    <3>3. 1 + (4 * (j - 1) + k) \in 1 .. Len(T) /\ 2 + (1 + (4 * (j - 1) + k)) = m + k
      BY <1>6
    <3>4. w[m + k] = T[1 + (4 * (j - 1) + k)]
      BY <1>8, <3>3
    <3> QED
      BY <1>6, <3>2, <3>4
  <2>4. /\ d.ackData[j] \in EventDocumentAckResult
        /\ r[1] = Array(3) /\ r[4] = Map(0) /\ r[2][1] = "int" /\ r[2][2] = d.ackData[j].status
        /\ r[3][1] \in {"text", "nil"} /\ r[3][2] = d.ackData[j].notification
    BY <1>6, ResultForm
  <2>5. Len(a) >= 4 /\ Len(a) \in Nat
    BY <2>1, <2>2
  <2> HIDE DEF a, r
  <2>6. /\ a[1] = Array(3) /\ a[4] = Map(0) /\ a[2][1] = "int" /\ a[2][2] = d.ackData[j].status
        /\ a[3][1] \in {"text", "nil"} /\ a[3][2] = d.ackData[j].notification
    BY <2>3, <2>4
  <2>7. /\ Is(a, 1, {"array"}) /\ Is(a, 2, {"int"})
        /\ Is(a, 3, {"text", "nil"}) /\ Is(a, 4, {"map"})
    BY <2>5, <2>6 DEF Is, Array, Map
  <2>8. ReadResult(a) = d.ackData[j]
    BY <2>4, <2>6 DEF ReadResult, EventDocumentAckResult
  <2> QED
    BY <2>7, <2>8 DEF a
<1>14. d.ackData # Null => [i \in 1 .. n |-> ReadResult(at(i))] = d.ackData
  <2> SUFFICES ASSUME d.ackData # Null PROVE [i \in 1 .. n |-> ReadResult(at(i))] = d.ackData
    OBVIOUS
  <2>1. d.ackData \in Seq(EventDocumentAckResult)
    BY DEF EventDocumentAck, Nullable
  <2>2. d.ackData = [i \in 1 .. n |-> d.ackData[i]]
    BY <2>1, LenProperties DEF n
  <2> HIDE DEF at
  <2> QED
    BY <1>13, <2>2
<1> DEFINE length1 == IF Is(w, 3, {"array"}) THEN w[3][2] ELSE 0
           rest1   == at(length1 + 1)
           formed  == /\ Is(w, 1, {"array"}) /\ Is(w, 2, {"int"}) /\ Is(w, 3, {"array", "nil"})
                      /\ \A i \in 1 .. length1 :
                           /\ Is(at(i), 1, {"array"}) /\ Is(at(i), 2, {"int"})
                           /\ Is(at(i), 3, {"text", "nil"}) /\ Is(at(i), 4, {"map"})
                      /\ Is(rest1, 1, {"text", "nil"})
           read == [status    |-> w[2][2], exception |-> rest1[1][2],
                    ackData   |-> IF Is(w, 3, {"array"})
                                  THEN [i \in 1 .. length1 |-> ReadResult(at(i))] ELSE Null]
<1>15. ReadDocumentAck(w) = IF ~formed THEN Failure ELSE Success(read, Drop(rest1, 1))
  BY DEF ReadDocumentAck
<1>16. length1 = n
  BY <1>11 DEF n
<1>17. rest1 = v
  BY <1>12, <1>16
<1> HIDE DEF at, length1, rest1
<1>18. formed
  BY <1>9, <1>10, <1>11, <1>13, <1>16, <1>17
<1>19. read = d
  <2>1. d = [status |-> d.status, exception |-> d.exception, ackData |-> d.ackData]
    BY DEF EventDocumentAck
  <2>2. (IF Is(w, 3, {"array"}) THEN [i \in 1 .. length1 |-> ReadResult(at(i))] ELSE Null)
          = d.ackData
    BY <1>11, <1>14, <1>16
  <2> QED
    BY <1>9, <1>10, <1>17, <2>1, <2>2
<1>20. ReadDocumentAck(w) = Success(d, rest)
  BY <1>8, <1>15, <1>17, <1>18, <1>19
<1> QED
  BY <1>7, <1>20 DEF w

-----------------------------------------------------------------------------
(* Any message                                                             *)

\* A query is one value.
LEMMA QueryWhole ==
  ASSUME NEW d \in QueryRequestData
  PROVE  WriteQuery(d) \in Seq(Value) /\ Whole(WriteQuery(d), 1)
<1> DEFINE A(n) == <<Array(n)>>
           F == <<Text(d.select), Text(d.consistency), Number(d.timeout)>>
           P == IF Paged(d) THEN <<Number(d.queryPageSize), Number(d.queryType)>> ELSE <<>>
           p == IF Paged(d) THEN 2 ELSE 0
<1>1. F \in Seq(Scalar) /\ Len(F) = 3 /\ P \in Seq(Scalar) /\ Len(P) = p
  BY ScalarForms DEF QueryRequestData, Nullable
<1>2. F \in Seq(Value) /\ P \in Seq(Value) /\ Whole(F, 3) /\ Whole(P, p)
  BY <1>1, WholeScalars, ValueForms
<1> DEFINE x == Text(d.select)
           y == Text(d.consistency)
           z == Number(d.timeout)
           H == <<Array(3 + p), x, y, z>>
<1>3. x \in Value /\ y \in Value /\ z \in Value /\ Array(3 + p) \in Value
  BY ScalarForms, ValueForms DEF QueryRequestData, Nullable
<1>4. WriteQuery(d) = H \o P
  BY DEF WriteQuery
<1> HIDE DEF P, x, y, z, p
<1>5. H = A(3 + p) \o F
  <2> DEFINE q == A(3 + p) \o F
  <2>1. /\ q \in Seq(Value) /\ Len(q) = 4
        /\ q[1] = Array(3 + p) /\ q[2] = x /\ q[3] = y /\ q[4] = z
    BY <1>3 DEF x, y, z
  <2> HIDE DEF q
  <2>2. q = <<Array(3 + p), x, y, z>>
    BY <1>3, <2>1
  <2> QED
    BY <2>2 DEF q
<1>6. A(3 + p) \in Seq(Value)
  BY <1>3
<1> HIDE DEF F, H
<1>7. F \o P \in Seq(Value) /\ Whole(F \o P, 3 + p)
  BY <1>2, WholeConcat, ConcatParts DEF p
<1>8. WriteQuery(d) = A(3 + p) \o (F \o P)
  BY <1>2, <1>4, <1>5, <1>6, ConcatAssociative
<1> QED
  <2> DEFINE b == F \o P
  <2>1. 3 + p \in Nat
    BY DEF p
  <2> HIDE DEF b
  <2> QED
    BY <1>7, <1>8, <2>1, WholeArray DEF b

\* The data behind the header.
Body(m, writer) ==
  CASE m.header.dataType = "Connection"    -> WriteConnectionBy(m.data, writer)
    [] m.header.dataType = "ConnectionAck" -> WriteAck(m.data, writer)
    [] m.header.dataType = "QueryRequest"  -> WriteQuery(m.data)
    [] m.header.dataType = "EventDocumentAck" -> WriteDocumentAck(m.data)
    [] OTHER                               -> <<Text(m.data)>>

\* The parts of a message.
LEMMA MessageParts ==
  ASSUME NEW m, Sound(m)
  PROVE  /\ m = [header |-> m.header, data |-> m.data]
         /\ m.header \in Header /\ m.header.dataType \in DataType
         /\ m.data \in Data(m.header.dataType)
  BY DEF Sound, IsMessage, Header

\* The data is one value.
LEMMA BodyWhole ==
  ASSUME NEW m, Sound(m), NEW writer \in {"client", "server"}
  PROVE  Body(m, writer) \in Seq(Value) /\ Whole(Body(m, writer), 1)
<1> DEFINE kind == m.header.dataType
<1>1. m.data \in Data(kind) /\ (kind = "ConnectionAck" => m.data.ackData # Null)
  BY MessageParts DEF Sound
<1>2. CASE kind = "Connection"
  BY <1>1, <1>2, LoginWritten, LoginWhole DEF Body, Data
<1>3. CASE kind = "ConnectionAck"
  <2>1. <<>> \in Seq(Value)
    OBVIOUS
  <2>2. m.data \in ConnectionAckData /\ Body(m, writer) = WriteAck(m.data, writer)
    BY <1>1, <1>3 DEF Body, Data
  <2> QED
    BY <1>1, <1>3, <2>1, <2>2, AckReadBack
<1>4. CASE kind = "QueryRequest"
  BY <1>1, <1>4, QueryWhole DEF Body, Data
<1>5. CASE kind = "EventDocumentAck"
  <2>1. <<>> \in Seq(Value)
    OBVIOUS
  <2>2. m.data \in EventDocumentAck /\ Body(m, writer) = WriteDocumentAck(m.data)
    BY <1>1, <1>5 DEF Body, Data
  <2> QED
    BY <2>1, <2>2, DocumentAckReadBack
<1>6. CASE kind \notin {"Connection", "ConnectionAck", "QueryRequest", "EventDocumentAck"}
  <2>1. m.data \in Texts /\ Body(m, writer) = <<Text(m.data)>>
    BY <1>1, <1>6 DEF Body, Data
  <2>2. <<Text(m.data)>> \in Seq(Scalar) /\ Len(<<Text(m.data)>>) = 1
    BY <2>1, ScalarForms DEF Nullable
  <2> QED
    BY <2>1, <2>2, WholeScalars, ValueForms
<1> QED
  BY <1>2, <1>3, <1>4, <1>5, <1>6

\* The reader of the data of a kind.
ReadBody(kind, w) ==
  CASE kind = "Connection"       -> ReadConnection(w)
    [] kind = "ConnectionAck"    -> ReadAck(w)
    [] kind = "EventDocumentAck" -> ReadDocumentAck(w)
    [] OTHER                     -> ReadText(w)

\* A reader of the data gets it as it was, but for the form of the password
\* and of an empty ackData, with nothing left over.
LEMMA BodyReadBack ==
  ASSUME NEW m, Sound(m), m.header.dataType \in Deserializable, NEW writer \in {"client", "server"}
  PROVE  ReadBody(m.header.dataType, Body(m, writer)) = Success(Normal(m).data, <<>>)
<1> DEFINE kind == m.header.dataType
           b == Body(m, writer)
<1>1. /\ m.data \in Data(kind) /\ (kind = "ConnectionAck" => m.data.ackData # Null)
      /\ m = [header |-> m.header, data |-> m.data] /\ kind # "QueryRequest"
  BY MessageParts DEF Sound, Deserializable
<1>2. <<>> \in Seq(Value) /\ b \o <<>> = b
  BY BodyWhole, ConcatEmptySeq
<1>3. CASE kind = "Connection"
  <2>1. m.data \in ConnectionData /\ b = WriteConnectionBy(m.data, writer)
    BY <1>1, <1>3 DEF Body, Data
  <2>2. ReadConnection(b) = Success(NormalConnection(m.data), <<>>)
    BY <1>2, <2>1, LoginReadBack
  <2>3. Normal(m).data = NormalConnection(m.data)
    BY <1>1, <1>3 DEF Normal
  <2> QED
    BY <1>3, <2>2, <2>3 DEF ReadBody
<1>4. CASE kind = "ConnectionAck"
  <2>1. m.data \in ConnectionAckData /\ b = WriteAck(m.data, writer)
    BY <1>1, <1>4 DEF Body, Data
  <2>2. ReadAck(b) = Success([m.data EXCEPT !.ackData = NormalAck(m.data.ackData)], <<>>)
    <3>1. ReadAck(WriteAck(m.data, writer) \o <<>>)
            = Success([m.data EXCEPT !.ackData = NormalAck(m.data.ackData)], <<>>)
      BY <1>1, <1>2, <1>4, <2>1, AckReadBack
    <3> QED
      BY <1>2, <2>1, <3>1
  <2>3. Normal(m).data = [m.data EXCEPT !.ackData = NormalAck(m.data.ackData)]
    BY <1>1, <1>4 DEF Normal
  <2> QED
    BY <1>4, <2>2, <2>3 DEF ReadBody
<1>5. CASE kind = "EventDocumentAck"
  <2>1. m.data \in EventDocumentAck /\ b = WriteDocumentAck(m.data)
    BY <1>1, <1>5 DEF Body, Data
  <2>2. ReadDocumentAck(b) = Success(m.data, <<>>)
    BY <1>2, <2>1, DocumentAckReadBack
  <2>3. Normal(m).data = m.data
    BY <1>5 DEF Normal
  <2> QED
    BY <1>5, <2>2, <2>3 DEF ReadBody
<1>6. CASE kind \notin {"Connection", "ConnectionAck", "EventDocumentAck"}
  <2>1. m.data \in Texts /\ b = <<Text(m.data)>>
    BY <1>1, <1>6 DEF Body, Data
  <2>2. Text(m.data) = <<"text", m.data>> /\ Text(m.data) \in Value
    BY <2>1, NullAssumption, ScalarForms, ValueForms DEF Text, Nullable
  <2>3. Len(b) = 1 /\ b[1] = <<"text", m.data>> /\ b \in Seq(Value)
    BY <2>1, <2>2
  <2>4. Is(b, 1, {"text", "nil"}) /\ b[1][2] = m.data
    BY <2>3 DEF Is
  <2>5. Drop(b, 1) = <<>>
    BY <1>2, <2>3, DropConcat
  <2>6. ReadText(b) = Success(m.data, <<>>)
    BY <2>4, <2>5 DEF ReadText
  <2>7. Normal(m).data = m.data
    BY <1>6 DEF Normal
  <2> QED
    BY <1>6, <2>6, <2>7 DEF ReadBody
<1> QED
  BY <1>3, <1>4, <1>5, <1>6

\* A header is read as it was written.
LEMMA HeaderReadBack ==
  ASSUME NEW h \in Header, NEW b \in Seq(Value)
  PROVE  LET w == WriteHeader(h) \o b
         IN  /\ w \in Seq(Value) /\ Drop(w, 10) = b
             /\ \A i \in 1 .. 10 : Is(w, i, HeaderTypes[i])
             /\ ReadHeader(w) = h
<1> DEFINE H == WriteHeader(h)
           w == H \o b
<1>1. H \in Seq(Value) /\ Len(H) = 10
  BY HeaderWritten, ValueForms
<1>2. /\ H[1] = Text(h.userName) /\ H[2] = Text(h.messageId) /\ H[3] = Number(h.createTime)
      /\ H[4] = Number(h.requestTime) /\ H[5] = Bool(h.isFragmented)
      /\ H[6] = Bool(h.firstFragment) /\ H[7] = Bool(h.lastFragment)
      /\ H[8] = Number(h.offset) /\ H[9] = Number(h.fullDataSize) /\ H[10] = Number(h.dataType)
  BY DEF WriteHeader
<1>3. /\ h.userName \in Nullable(Texts) /\ h.messageId \in Texts
      /\ h.createTime \in Numbers /\ h.requestTime \in Numbers
      /\ h.isFragmented \in BOOLEAN /\ h.firstFragment \in Nullable(BOOLEAN)
      /\ h.lastFragment \in Nullable(BOOLEAN) /\ h.offset \in Nullable(Numbers)
      /\ h.fullDataSize \in Nullable(Numbers) /\ h.dataType \in DataType
  BY DEF Header
<1> HIDE DEF H
<1>4. /\ w \in Seq(Value) /\ Len(b) \in Nat /\ Len(w) = 10 + Len(b)
      /\ \A i \in 1 .. 10 : w[i] = H[i]
  <2>1. /\ w \in Seq(Value) /\ Len(b) \in Nat /\ Len(w) = Len(H) + Len(b)
        /\ \A i \in 1 .. Len(H) : w[i] = H[i]
    BY <1>1, ConcatParts
  <2> HIDE DEF w
  <2> QED
    BY <1>1, <2>1
<1>5. Drop(w, 10) = b
  BY <1>1, DropConcat
<1> HIDE DEF w
<1>6. /\ w[1][1] \in {"text", "nil"} /\ w[1][2] = h.userName
      /\ w[2][1] \in {"text", "nil"} /\ w[2][2] = h.messageId
  BY <1>2, <1>3, <1>4, FormParts DEF Nullable
<1>7. /\ w[3][1] = "int" /\ w[3][2] = h.createTime
      /\ w[4][1] = "int" /\ w[4][2] = h.requestTime
  BY <1>2, <1>3, <1>4, FormParts, NullAssumption DEF Nullable
<1>8. /\ w[5][1] = "bool" /\ w[5][2] = h.isFragmented
      /\ w[6][1] \in {"bool", "nil"} /\ w[6][2] = h.firstFragment
      /\ w[7][1] \in {"bool", "nil"} /\ w[7][2] = h.lastFragment
  BY <1>2, <1>3, <1>4, FormParts, NullAssumption DEF Nullable
<1>9. /\ w[8][1] \in {"int", "nil"} /\ w[8][2] = h.offset
      /\ w[9][1] \in {"int", "nil"} /\ w[9][2] = h.fullDataSize
  BY <1>2, <1>3, <1>4, FormParts
<1>10. w[10][1] = "int" /\ w[10][2] = h.dataType
  BY <1>2, <1>3, <1>4, FormParts, NullAssumption
<1>11. \A i \in 1 .. 10 : w[i][1] \in HeaderTypes[i]
  <2>1. /\ w[1][1] \in HeaderTypes[1] /\ w[2][1] \in HeaderTypes[2]
        /\ w[3][1] \in HeaderTypes[3] /\ w[4][1] \in HeaderTypes[4]
        /\ w[5][1] \in HeaderTypes[5] /\ w[6][1] \in HeaderTypes[6]
        /\ w[7][1] \in HeaderTypes[7] /\ w[8][1] \in HeaderTypes[8]
        /\ w[9][1] \in HeaderTypes[9] /\ w[10][1] \in HeaderTypes[10]
    BY <1>6, <1>7, <1>8, <1>9, <1>10 DEF HeaderTypes
  <2> QED
    BY <2>1
<1>12. \A i \in 1 .. 10 : Is(w, i, HeaderTypes[i])
  BY <1>4, <1>11 DEF Is
<1>13. ReadHeader(w) = h
  BY <1>6, <1>7, <1>8, <1>9, <1>10 DEF ReadHeader, Header
<1> QED
  BY <1>4, <1>5, <1>12, <1>13 DEF w, H

\* What is written of a message is one value.
LEMMA MessageWhole ==
  ASSUME NEW m, Sound(m), NEW writer \in {"client", "server"}
  PROVE  /\ WriteMessage(m, writer) \in Seq(Value)
         /\ Whole(WriteMessage(m, writer), 1)
         /\ WriteMessage(m, writer)
              = <<Array(11)>> \o (WriteHeader(m.header) \o Body(m, writer))
<1> DEFINE A == <<Array(11)>>
           H == WriteHeader(m.header)
           b == Body(m, writer)
<1>1. H \in Seq(Scalar) /\ Len(H) = 10
  BY MessageParts, HeaderWritten
<1>2. H \in Seq(Value) /\ Whole(H, 10) /\ A \in Seq(Value)
  <2>1. A \in Seq(Value)
    BY ValueForms
  <2> HIDE DEF H
  <2> QED
    BY <1>1, <2>1, WholeScalars
<1>3. b \in Seq(Value) /\ Whole(b, 1)
  BY BodyWhole
<1>4. WriteMessage(m, writer) = (A \o H) \o b
  BY DEF WriteMessage, Body
<1> HIDE DEF H, b
<1>5. H \o b \in Seq(Value) /\ Whole(H \o b, 11)
  <2>1. Whole(H \o b, 10 + 1)
    BY <1>2, <1>3, WholeConcat
  <2> QED
    BY <1>2, <1>3, <2>1, ConcatParts
<1>6. (A \o H) \o b = A \o (H \o b)
  BY <1>2, <1>3, ConcatAssociative
<1>7. A \o (H \o b) \in Seq(Value) /\ Whole(A \o (H \o b), 1)
  BY <1>2, <1>5, WholeArray, ConcatParts
<1> QED
  BY <1>4, <1>6, <1>7 DEF H, b

\* Whichever writer: a message of a kind that is read arrives as it was, and
\* any other is refused.
LEMMA MessageReadBack ==
  ASSUME NEW m, Sound(m), NEW writer \in {"client", "server"}
  PROVE  IF m.header.dataType \in Deserializable
         THEN ReadMessage(WriteMessage(m, writer)) = Success(Normal(m), <<>>)
         ELSE ReadMessage(WriteMessage(m, writer)) = Failure
<1> DEFINE A == <<Array(11)>>
           b == Body(m, writer)
           f == WriteHeader(m.header) \o b
           w == WriteMessage(m, writer)
           kind == m.header.dataType
<1>1. A \in Seq(Value) /\ Len(A) = 1 /\ A[1] = Array(11)
  BY ValueForms
<1>2. w = A \o f
  BY MessageWhole
<1>3. b \in Seq(Value) /\ m.header \in Header
  BY BodyWhole, MessageParts
<1> HIDE DEF b
<1>4. /\ f \in Seq(Value) /\ Drop(f, 10) = b
      /\ \A i \in 1 .. 10 : Is(f, i, HeaderTypes[i])
      /\ ReadHeader(f) = m.header
  BY <1>3, HeaderReadBack
<1> HIDE DEF f, w, A
<1>5. /\ Drop(w, 1) = f /\ Len(f) \in Nat /\ Len(w) = 1 + Len(f) /\ w[1] = Array(11)
  <2>1. Len(f) \in Nat /\ Len(w) = 1 + Len(f) /\ w[1] = Array(11)
    <3>1. Len(f) \in Nat /\ Len(A \o f) = Len(A) + Len(f) /\ (A \o f)[1] = A[1]
      BY <1>1, <1>4, ConcatParts
    <3> QED
      BY <1>1, <1>2, <3>1
  <2>2. Drop(A \o f, Len(A)) = f
    BY <1>1, <1>4, DropConcat
  <2> QED
    BY <1>1, <1>2, <2>1, <2>2
<1>6. Is(w, 1, {"array"})
  BY <1>5 DEF Is, Array
<1>7. ReadMessage(w) =
        IF kind \in Deserializable /\ ReadBody(kind, b).ok
        THEN Success([header |-> m.header, data |-> ReadBody(kind, b).value],
                     ReadBody(kind, b).rest)
        ELSE Failure
  BY <1>4, <1>5, <1>6 DEF ReadMessage, ReadBody
<1>8. CASE kind \in Deserializable
  <2>1. ReadBody(kind, b) = Success(Normal(m).data, <<>>)
    BY <1>8, BodyReadBack DEF b
  <2>2. Normal(m) = [header |-> m.header, data |-> Normal(m).data]
    BY MessageParts DEF Normal
  <2>3. ReadMessage(w) = Success(Normal(m), <<>>)
    <3> DEFINE r == ReadBody(kind, b)
    <3>1. r.ok /\ r.value = Normal(m).data /\ r.rest = <<>>
      BY <2>1 DEF Success
    <3> HIDE DEF r
    <3> QED
      BY <1>7, <1>8, <2>2, <3>1 DEF r
  <2> QED
    BY <1>8, <2>3 DEF w
<1>9. CASE kind \notin Deserializable
  BY <1>7, <1>9 DEF w
<1> QED
  BY <1>8, <1>9

\* What a reader can know of a message is a message.
LEMMA NormalIsMessage ==
  ASSUME NEW m, Sound(m)
  PROVE  IsMessage(Normal(m))
<1> DEFINE kind == m.header.dataType
<1>1. /\ m = [header |-> m.header, data |-> m.data] /\ m.header \in Header
      /\ m.data \in Data(kind) /\ (kind = "ConnectionAck" => m.data.ackData # Null)
  BY MessageParts DEF Sound
<1>2. ASSUME NEW d \in ConnectionData PROVE NormalConnection(d) \in ConnectionData
  <2>1. Password(d) # Null => <<Password(d)>> \in Seq(Nullable(Texts))
    BY PasswordType
  <2>2. (IF Password(d) = Null THEN Null ELSE <<Password(d)>>)
          \in Nullable(Seq(Nullable(Texts)))
    BY <2>1 DEF Nullable
  <2> QED
    BY <2>2, ObjectAssumption DEF NormalConnection, ConnectionData
<1>3. CASE kind = "Connection"
  <2>1. Normal(m) = [header |-> m.header, data |-> NormalConnection(m.data)]
    BY <1>1, <1>3 DEF Normal
  <2>2. NormalConnection(m.data) \in Data(kind)
    BY <1>1, <1>2, <1>3 DEF Data
  <2> QED
    BY <1>1, <2>1, <2>2 DEF IsMessage
<1>4. CASE kind = "ConnectionAck"
  <2> DEFINE a == m.data.ackData
  <2>1. m.data \in ConnectionAckData /\ a \in AckTypeData
    BY <1>1, <1>4 DEF Data, ConnectionAckData, Nullable
  <2>2. NormalAck(a) \in Nullable(AckTypeData)
    <3>1. CASE a.success # Null
      <4>1. a.success \in ConnectionData /\ a.unauthorized = Null
        BY <2>1, <3>1 DEF AckTypeData
      <4>2. NormalAck(a) = [success |-> NormalConnection(a.success), unauthorized |-> Null]
        BY <2>1, <3>1, <4>1 DEF NormalAck, AckTypeData
      <4> QED
        BY <1>2, <4>1, <4>2 DEF AckTypeData, Nullable
    <3>2. CASE a.success = Null
      BY <2>1, <3>2 DEF NormalAck, NormalConnection, AckTypeData, Nullable
    <3> QED
      BY <3>1, <3>2
  <2>3. Normal(m) = [header |-> m.header, data |-> [m.data EXCEPT !.ackData = NormalAck(a)]]
    BY <1>1, <1>4 DEF Normal
  <2>4. [m.data EXCEPT !.ackData = NormalAck(a)] \in Data(kind)
    BY <1>4, <2>1, <2>2 DEF Data, ConnectionAckData
  <2> QED
    BY <1>1, <2>3, <2>4 DEF IsMessage
<1>5. CASE kind \notin {"Connection", "ConnectionAck"}
  BY <1>5 DEF Normal, Sound
<1> QED
  BY <1>3, <1>4, <1>5

-----------------------------------------------------------------------------
(* A message on its way                                                    *)

\* A message is composed first.
LEMMA CodecInit == Init => CodecInv
  BY MessagesAssumption DEF Init, CodecInv, Sound

\* Every step keeps the invariant.
LEMMA CodecStep == CodecInv /\ [Next]_vars => CodecInv'
<1> SUFFICES ASSUME CodecInv, [Next]_vars PROVE CodecInv'
  OBVIOUS
<1> USE DEF CodecInv
<1>1. CASE Write
  BY <1>1 DEF Write
<1>2. CASE WriteRefused
  BY <1>2 DEF WriteRefused
<1>3. CASE WriteByServer
  BY <1>3 DEF WriteByServer
<1>4. CASE Read
  <2>1. PICK writer \in {"client", "server"} : wire = WriteMessage(msg, writer)
    BY <1>4 DEF Read
  <2>2. /\ msg' = msg /\ wire' = wire /\ got' = ReadMessage(wire)
        /\ phase' = IF got'.ok THEN "read" ELSE "malformed"
    BY <1>4 DEF Read
  <2>3. CASE msg.header.dataType \in Deserializable
    <3>1. got' = Success(Normal(msg), <<>>)
      BY <2>1, <2>2, <2>3, MessageReadBack
    <3>2. phase' = "read"
      BY <2>2, <3>1 DEF Success
    <3> QED
      BY <2>1, <2>2, <3>1, <3>2
  <2>4. CASE msg.header.dataType \notin Deserializable
    <3>1. got' = Failure
      BY <2>1, <2>2, <2>4, MessageReadBack
    <3>2. phase' = "malformed"
      BY <2>2, <3>1 DEF Failure
    <3> QED
      BY <2>1, <2>2, <2>4, <3>1, <3>2
  <2> QED
    BY <2>3, <2>4
<1>5. CASE UNCHANGED vars
  BY <1>5 DEF vars
<1> QED
  BY <1>1, <1>2, <1>3, <1>4, <1>5 DEF Next

\* The invariant says that a message that was read arrived as it was, ...
LEMMA InvRoundTrip == CodecInv => RoundTrip
  BY DEF CodecInv, RoundTrip

\* ... that the wire holds one value, ...
LEMMA InvOneValue == CodecInv => OneValue
<1> SUFFICES ASSUME CodecInv, wire # <<>> PROVE OneValue
  BY DEF OneValue
<1>1. PICK writer \in {"client", "server"} : wire = WriteMessage(msg, writer)
  BY DEF CodecInv
<1>2. wire \in Seq(Value) /\ Whole(wire, 1)
  BY <1>1, MessageWhole DEF CodecInv
<1> QED
  BY <1>2, WholeIsExpected DEF OneValue

\* ... and that everything has its type.
LEMMA InvTypeOK == CodecInv => TypeOK
<1> SUFFICES ASSUME CodecInv PROVE TypeOK
  OBVIOUS
<1>1. wire \in Seq(Value)
  <2>1. CASE phase \in {"written", "read", "malformed"}
    BY <2>1, MessageWhole DEF CodecInv
  <2>2. CASE phase \notin {"written", "read", "malformed"}
    BY <2>2 DEF CodecInv
  <2> QED
    BY <2>1, <2>2
<1>2. \A v \in Value : v[1] \in {"array", "map", "nil", "text", "int", "bool"}
  BY DEF Value, Scalar
<1>3. \A i \in 1 .. Len(wire) : wire[i][1] \in {"array", "map", "nil", "text", "int", "bool"}
  BY <1>1, <1>2, ElementOfSeq
<1>4. got.ok => IsMessage(got.value)
  BY NormalIsMessage DEF CodecInv, Success, Failure
<1> QED
  BY <1>3, <1>4 DEF TypeOK, CodecInv, Sound

\* Whatever the messages: the wire holds MessagePack values, and what a reader
\* returns is a message.
THEOREM CodecTypeOKHolds == Spec => []TypeOK
  BY CodecInit, CodecStep, InvTypeOK, PTL DEF Spec

\* Whatever fields are left out, and whoever writes: a message is one value, as
\* a reader counts it.
THEOREM OneValueHolds == Spec => []OneValue
  BY CodecInit, CodecStep, InvOneValue, PTL DEF Spec

\* Every message of a kind that is written and read arrives as it was, with
\* nothing left over, also lists of results and reserved fields of any length.
THEOREM RoundTripHolds == Spec => []RoundTrip
  BY CodecInit, CodecStep, InvRoundTrip, PTL DEF Spec

=============================================================================
