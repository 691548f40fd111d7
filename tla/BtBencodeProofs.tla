--------------------------- MODULE BtBencodeProofs ---------------------------
(***************************************************************************)
(* What the codec does with every value of BtBencode, for every number of  *)
(* bytes lost: what comes back, and what the search for the info section   *)
(* finds.                                                                  *)
(*                                                                         *)
(* The scan of getLastE passes over every encoding, so it finds the 'e' of *)
(* a container wherever its encoding stands.  The loops of DecodeList and  *)
(* DecodeDictionary go from the place of one piece of the encoding to that *)
(* of the next; they are followed by an invariant each.  What a decoder    *)
(* makes of a container then follows by induction on how deep it is        *)
(* nested, and the five properties from that.                              *)
(***************************************************************************)
EXTENDS BtBencode, ByteStringsProofs

-----------------------------------------------------------------------------
(* The recursive functions of BtBencode exist: their restrictions to 0..k  *)
(* do, by induction on k.                                                  *)

\* The values nested at most n deep, from those nested less deep.
LEMMA TreeDefined ==
  \A n \in 0..Depth :
    Tree[n] = IF n = 0 THEN Scalars
              ELSE Tree[n - 1] \cup ({"list"} \X Seq(Tree[n - 1])) \cup ({"dict"} \X Maps(Tree[n - 1]))
<1> DEFINE Of(f, n) == IF n = 0 THEN Scalars
                       ELSE f[n - 1] \cup ({"list"} \X Seq(f[n - 1])) \cup ({"dict"} \X Maps(f[n - 1]))
           Upto(k, f) == f = [n \in 0..k |-> Of(f, n)]
           T == {k \in Nat : \E f : Upto(k, f)}
<1>1. ASSUME NEW f, NEW g, NEW n, n = 0 \/ f[n - 1] = g[n - 1] PROVE Of(f, n) = Of(g, n)
  BY <1>1
<1> HIDE DEF Of
<1>2. 0 \in T
  <2>1. Upto(0, [n \in 0..0 |-> Of(<<>>, 0)])
    BY <1>1
  <2> QED
    BY <2>1
<1>3. ASSUME NEW k \in Nat, NEW f, Upto(k, f) PROVE \E g : Upto(k + 1, g)
  <2> DEFINE g == [n \in 0..(k + 1) |-> Of(f, n)]
  <2>1. ASSUME NEW n \in 0..(k + 1), n # 0 PROVE f[n - 1] = g[n - 1]
    <3>1. n - 1 \in 0..(k + 1) /\ n - 1 \in 0..k
      BY <2>1
    <3> QED
      BY <1>3, <3>1
  <2>2. ASSUME NEW n \in 0..(k + 1) PROVE Of(f, n) = Of(g, n)
    <3>1. n = 0 \/ f[n - 1] = g[n - 1]
      BY <2>1
    <3> HIDE DEF g
    <3> QED
      BY <1>1, <3>1
  <2> QED
    BY <2>2
<1>4. Depth \in T
  <2>1. \A k \in Nat : k \in T => k + 1 \in T
    BY <1>3
  <2> HIDE DEF T
  <2>2. Nat \subseteq T
    BY <1>2, <2>1, InductionInSet
  <2> QED
    BY <2>2, ValuesAssumption
<1>5. PICK f : Upto(Depth, f)
  BY <1>4
<1>6. Tree = CHOOSE f2 : Upto(Depth, f2)
  BY DEF Tree, Of
<1>7. Upto(Depth, Tree)
  BY <1>5, <1>6
<1> QED
  BY <1>7 DEF Of

\* A scalar is an integer or a string.
LEMMA ScalarShape ==
  ASSUME NEW v \in Scalars
  PROVE  \/ v[1] = "int" /\ v[2] \in Int /\ v = <<"int", v[2]>>
         \/ v[1] = "str" /\ v[2] \in ByteArray /\ v = <<"str", v[2]>>
BY DEF Scalars

\* A value is a scalar, a list of values or a map of values.
LEMMA TreeShape ==
  ASSUME NEW n \in 0..Depth, NEW v \in Tree[n]
  PROVE  \/ v \in Scalars
         \/ /\ n # 0 /\ n - 1 \in 0..Depth
            /\ \/ v[1] = "list" /\ v[2] \in Seq(Tree[n - 1])
               \/ v[1] = "dict" /\ v[2] \in Maps(Tree[n - 1])
            /\ v = <<v[1], v[2]>>
<1> DEFINE Shape(m, w) == \/ w \in Scalars
                          \/ /\ m # 0 /\ m - 1 \in 0..Depth
                             /\ \/ w[1] = "list" /\ w[2] \in Seq(Tree[m - 1])
                                \/ w[1] = "dict" /\ w[2] \in Maps(Tree[m - 1])
                             /\ w = <<w[1], w[2]>>
           T == {m \in Nat : m <= Depth => \A w \in Tree[m] : Shape(m, w)}
<1>1. 0 \in T
  <2>1. 0 \in 0..Depth
    BY ValuesAssumption
  <2>2. Tree[0] = Scalars
    BY <2>1, TreeDefined
  <2> QED
    BY <2>2
<1>2. ASSUME NEW m \in Nat, m \in T PROVE m + 1 \in T
  <2> SUFFICES ASSUME m + 1 <= Depth, NEW w \in Tree[m + 1] PROVE Shape(m + 1, w)
    OBVIOUS
  <2>1. m \in 0..Depth /\ m + 1 \in 0..Depth /\ m + 1 # 0 /\ (m + 1) - 1 = m
    BY ValuesAssumption
  <2>2. Tree[m + 1] = Tree[m] \cup ({"list"} \X Seq(Tree[m])) \cup ({"dict"} \X Maps(Tree[m]))
    BY <2>1, TreeDefined
  <2>3. CASE w \in {"list"} \X Seq(Tree[m])
    BY <2>1, <2>3
  <2>4. CASE w \in {"dict"} \X Maps(Tree[m])
    BY <2>1, <2>4
  <2>5. CASE w \in Tree[m]
    <3>1. Shape(m, w)
      BY <1>2, <2>1, <2>5
    <3>2. CASE w \in Scalars
      BY <3>2
    <3>3. CASE w \notin Scalars
      <4>1. m # 0 /\ m - 1 \in 0..Depth /\ Tree[m - 1] \subseteq Tree[m]
        BY <2>1, <3>1, <3>3, TreeDefined
      <4>2. Seq(Tree[m - 1]) \subseteq Seq(Tree[m]) /\ Maps(Tree[m - 1]) \subseteq Maps(Tree[m])
        BY <4>1 DEF Maps
      <4> QED
        BY <2>1, <3>1, <3>3, <4>2
    <3> QED
      BY <3>2, <3>3
  <2> QED
    BY <2>2, <2>3, <2>4, <2>5
<1>3. n \in T
  <2> HIDE DEF T
  <2>1. Nat \subseteq T
    BY <1>1, <1>2, InductionInSet
  <2> QED
    BY <2>1, ValuesAssumption
<1> QED
  BY <1>3, ValuesAssumption

\* What a value may be.
LEMMA ScalarsAreValues ==
  ASSUME NEW n \in 0..Depth
  PROVE  Scalars \subseteq Tree[n]
<1> DEFINE T == {m \in Nat : m <= Depth => Scalars \subseteq Tree[m]}
<1>1. 0 \in T
  <2>1. 0 \in 0..Depth
    BY ValuesAssumption
  <2>2. Tree[0] = Scalars
    BY <2>1, TreeDefined
  <2> QED
    BY <2>2
<1>2. ASSUME NEW m \in Nat, m \in T PROVE m + 1 \in T
  <2> SUFFICES ASSUME m + 1 <= Depth PROVE Scalars \subseteq Tree[m + 1]
    OBVIOUS
  <2>1. m \in 0..Depth /\ m + 1 \in 0..Depth /\ m + 1 # 0 /\ (m + 1) - 1 = m
    BY ValuesAssumption
  <2>2. Tree[m] \subseteq Tree[m + 1]
    BY <2>1, TreeDefined
  <2> QED
    BY <1>2, <2>1, <2>2
<1>3. n \in T
  <2> HIDE DEF T
  <2>1. Nat \subseteq T
    BY <1>1, <1>2, InductionInSet
  <2> QED
    BY <2>1, ValuesAssumption
<1> QED
  BY <1>3, ValuesAssumption

\* Lists and dictionaries of values are values, one level deeper.
LEMMA ContainersAreValues ==
  ASSUME NEW n \in 0..Depth, n # 0
  PROVE  /\ \A s \in Seq(Tree[n - 1]) : <<"list", s>> \in Tree[n]
         /\ \A s \in Maps(Tree[n - 1]) : <<"dict", s>> \in Tree[n]
BY TreeDefined

\* No value is Absent.
LEMMA ValuesAreNotAbsent ==
  ASSUME NEW n \in 0..Depth, NEW v \in Tree[n]
  PROVE  v # Absent /\ v[1] \in {"int", "str", "list", "dict"}
<1>1. v[1] \in {"int", "str", "list", "dict"}
  BY TreeShape, ScalarShape
<1>2. Absent[1] = "absent"
  BY DEF Absent
<1> QED
  BY <1>1, <1>2

\* Values that are not nested are no containers.
LEMMA FlatValues ==
  \A v \in Tree[0] : v[1] \notin {"list", "dict"}
<1>1. 0 \in 0..Depth
  BY ValuesAssumption
<1>2. Tree[0] = Scalars
  BY <1>1, TreeDefined
<1> QED
  BY <1>2, ScalarShape

\* The encoder of each depth, from the one of the depth below.
LEMMA EncoderDefined ==
  \A n \in 0..Depth :
    Encoder[n] =
      [v \in Tree[n] |->
         CASE v[1] = "list" -> EncodeList([j \in DOMAIN v[2] |-> Encoder[n - 1][v[2][j]]])
           [] v[1] = "dict" -> EncodeMap([k \in Keys |->
                                            IF v[2][k] = Absent THEN <<>>
                                            ELSE EncodeString(k) \o Encoder[n - 1][v[2][k]]])
           [] OTHER -> EncodeScalar(v)]
<1> DEFINE Of(f, n) ==
             [v \in Tree[n] |->
                CASE v[1] = "list" -> EncodeList([j \in DOMAIN v[2] |-> f[n - 1][v[2][j]]])
                  [] v[1] = "dict" -> EncodeMap([k \in Keys |->
                                                   IF v[2][k] = Absent THEN <<>>
                                                   ELSE EncodeString(k) \o f[n - 1][v[2][k]]])
                  [] OTHER -> EncodeScalar(v)]
           Upto(k, f) == f = [n \in 0..k |-> Of(f, n)]
           T == {k \in Nat : \E f : Upto(k, f)}
<1>1. ASSUME NEW f, NEW g, NEW n, n = 0 \/ f[n - 1] = g[n - 1] PROVE Of(f, n) = Of(g, n)
  <2>1. n = 0 => \A v \in Tree[n] : v[1] \notin {"list", "dict"}
    BY FlatValues
  <2> QED
    BY <1>1, <2>1
<1> HIDE DEF Of
<1>2. 0 \in T
  <2>1. Upto(0, [n \in 0..0 |-> Of(<<>>, 0)])
    BY <1>1
  <2> QED
    BY <2>1
<1>3. ASSUME NEW k \in Nat, NEW f, Upto(k, f) PROVE \E g : Upto(k + 1, g)
  <2> DEFINE g == [n \in 0..(k + 1) |-> Of(f, n)]
  <2>1. ASSUME NEW n \in 0..(k + 1), n # 0 PROVE f[n - 1] = g[n - 1]
    <3>1. n - 1 \in 0..(k + 1) /\ n - 1 \in 0..k
      BY <2>1
    <3> QED
      BY <1>3, <3>1
  <2>2. ASSUME NEW n \in 0..(k + 1) PROVE Of(f, n) = Of(g, n)
    <3>1. n = 0 \/ f[n - 1] = g[n - 1]
      BY <2>1
    <3> HIDE DEF g
    <3> QED
      BY <1>1, <3>1
  <2> QED
    BY <2>2
<1>4. Depth \in T
  <2>1. \A k \in Nat : k \in T => k + 1 \in T
    BY <1>3
  <2> HIDE DEF T
  <2>2. Nat \subseteq T
    BY <1>2, <2>1, InductionInSet
  <2> QED
    BY <2>2, ValuesAssumption
<1>5. PICK f : Upto(Depth, f)
  BY <1>4
<1>6. Encoder = CHOOSE f2 : Upto(Depth, f2)
  BY DEF Encoder, Of
<1>7. Upto(Depth, Encoder)
  BY <1>5, <1>6
<1>8. \A n \in 0..Depth : Encoder[n] = Of(Encoder, n)
  BY <1>7
<1> QED
  BY <1>8 DEF Of

\* The values without empty containers of each depth, from the depth below.
LEMMA SolidDefined ==
  \A n \in 0..Depth :
    Solid[n] =
      IF n = 0 THEN Scalars
      ELSE Solid[n - 1] \cup ({"list"} \X (Seq(Solid[n - 1]) \ {<<>>}))
             \cup ({"dict"} \X (Maps(Solid[n - 1]) \ {EmptyMap}))
<1> DEFINE Of(f, n) ==
             IF n = 0 THEN Scalars
             ELSE f[n - 1] \cup ({"list"} \X (Seq(f[n - 1]) \ {<<>>}))
                    \cup ({"dict"} \X (Maps(f[n - 1]) \ {EmptyMap}))
           Upto(k, f) == f = [n \in 0..k |-> Of(f, n)]
           T == {k \in Nat : \E f : Upto(k, f)}
<1>1. ASSUME NEW f, NEW g, NEW n, n = 0 \/ f[n - 1] = g[n - 1] PROVE Of(f, n) = Of(g, n)
  BY <1>1
<1> HIDE DEF Of
<1>2. 0 \in T
  <2>1. Upto(0, [n \in 0..0 |-> Of(<<>>, 0)])
    BY <1>1
  <2> QED
    BY <2>1
<1>3. ASSUME NEW k \in Nat, NEW f, Upto(k, f) PROVE \E g : Upto(k + 1, g)
  <2> DEFINE g == [n \in 0..(k + 1) |-> Of(f, n)]
  <2>1. ASSUME NEW n \in 0..(k + 1), n # 0 PROVE f[n - 1] = g[n - 1]
    <3>1. n - 1 \in 0..(k + 1) /\ n - 1 \in 0..k
      BY <2>1
    <3> QED
      BY <1>3, <3>1
  <2>2. ASSUME NEW n \in 0..(k + 1) PROVE Of(f, n) = Of(g, n)
    <3>1. n = 0 \/ f[n - 1] = g[n - 1]
      BY <2>1
    <3> HIDE DEF g
    <3> QED
      BY <1>1, <3>1
  <2> QED
    BY <2>2
<1>4. Depth \in T
  <2>1. \A k \in Nat : k \in T => k + 1 \in T
    BY <1>3
  <2> HIDE DEF T
  <2>2. Nat \subseteq T
    BY <1>2, <2>1, InductionInSet
  <2> QED
    BY <2>2, ValuesAssumption
<1>5. PICK f : Upto(Depth, f)
  BY <1>4
<1>6. Solid = CHOOSE f2 : Upto(Depth, f2)
  BY DEF Solid, Of
<1>7. Upto(Depth, Solid)
  BY <1>5, <1>6
<1>8. \A n \in 0..Depth : Solid[n] = Of(Solid, n)
  BY <1>7
<1> QED
  BY <1>8 DEF Of

\* The normal forms of each depth, from those of the depth below.
LEMMA NormalizerDefined ==
  \A n \in 0..Depth :
    Normalizer[n] =
      [v \in Tree[n] |->
         IF v[1] \in {"list", "dict"}
         THEN <<v[1], [k \in DOMAIN v[2] |->
                         IF v[2][k] = Absent THEN Absent ELSE Normalizer[n - 1][v[2][k]]]>>
         ELSE NormalScalar(v)]
<1> DEFINE Of(f, n) ==
             [v \in Tree[n] |->
                IF v[1] \in {"list", "dict"}
                THEN <<v[1], [k \in DOMAIN v[2] |->
                                IF v[2][k] = Absent THEN Absent ELSE f[n - 1][v[2][k]]]>>
                ELSE NormalScalar(v)]
           Upto(k, f) == f = [n \in 0..k |-> Of(f, n)]
           T == {k \in Nat : \E f : Upto(k, f)}
<1>1. ASSUME NEW f, NEW g, NEW n, n = 0 \/ f[n - 1] = g[n - 1] PROVE Of(f, n) = Of(g, n)
  <2>1. n = 0 => \A v \in Tree[n] : v[1] \notin {"list", "dict"}
    BY FlatValues
  <2> QED
    BY <1>1, <2>1
<1> HIDE DEF Of
<1>2. 0 \in T
  <2>1. Upto(0, [n \in 0..0 |-> Of(<<>>, 0)])
    BY <1>1
  <2> QED
    BY <2>1
<1>3. ASSUME NEW k \in Nat, NEW f, Upto(k, f) PROVE \E g : Upto(k + 1, g)
  <2> DEFINE g == [n \in 0..(k + 1) |-> Of(f, n)]
  <2>1. ASSUME NEW n \in 0..(k + 1), n # 0 PROVE f[n - 1] = g[n - 1]
    <3>1. n - 1 \in 0..(k + 1) /\ n - 1 \in 0..k
      BY <2>1
    <3> QED
      BY <1>3, <3>1
  <2>2. ASSUME NEW n \in 0..(k + 1) PROVE Of(f, n) = Of(g, n)
    <3>1. n = 0 \/ f[n - 1] = g[n - 1]
      BY <2>1
    <3> HIDE DEF g
    <3> QED
      BY <1>1, <3>1
  <2> QED
    BY <2>2
<1>4. Depth \in T
  <2>1. \A k \in Nat : k \in T => k + 1 \in T
    BY <1>3
  <2> HIDE DEF T
  <2>2. Nat \subseteq T
    BY <1>2, <2>1, InductionInSet
  <2> QED
    BY <2>2, ValuesAssumption
<1>5. PICK f : Upto(Depth, f)
  BY <1>4
<1>6. Normalizer = CHOOSE f2 : Upto(Depth, f2)
  BY DEF Normalizer, Of
<1>7. Upto(Depth, Normalizer)
  BY <1>5, <1>6
<1>8. \A n \in 0..Depth : Normalizer[n] = Of(Normalizer, n)
  BY <1>7
<1> QED
  BY <1>8 DEF Of

\* The relation "is a part of" of each depth, from the one of the depth below.
LEMMA PartsDefined ==
  \A n \in 0..Depth :
    Parts[n] =
      [w \in Tree[n] |-> [v \in Tree[n] |->
         /\ v[1] = w[1]
         /\ v[1] = "dict" => SomeEntries(v[2], w[2], Parts[n - 1])
         /\ v[1] = "list" => SomeElements(v[2], w[2], Parts[n - 1])
         /\ v[1] \notin {"list", "dict"} => v = w]]
<1> DEFINE Of(f, n) ==
             [w \in Tree[n] |-> [v \in Tree[n] |->
                /\ v[1] = w[1]
                /\ v[1] = "dict" => SomeEntries(v[2], w[2], f[n - 1])
                /\ v[1] = "list" => SomeElements(v[2], w[2], f[n - 1])
                /\ v[1] \notin {"list", "dict"} => v = w]]
           Upto(k, f) == f = [n \in 0..k |-> Of(f, n)]
           T == {k \in Nat : \E f : Upto(k, f)}
<1>1. ASSUME NEW f, NEW g, NEW n, n = 0 \/ f[n - 1] = g[n - 1] PROVE Of(f, n) = Of(g, n)
  <2>1. n = 0 => \A v \in Tree[n] : v[1] \notin {"list", "dict"}
    BY FlatValues
  <2> QED
    BY <1>1, <2>1
<1> HIDE DEF Of
<1>2. 0 \in T
  <2>1. Upto(0, [n \in 0..0 |-> Of(<<>>, 0)])
    BY <1>1
  <2> QED
    BY <2>1
<1>3. ASSUME NEW k \in Nat, NEW f, Upto(k, f) PROVE \E g : Upto(k + 1, g)
  <2> DEFINE g == [n \in 0..(k + 1) |-> Of(f, n)]
  <2>1. ASSUME NEW n \in 0..(k + 1), n # 0 PROVE f[n - 1] = g[n - 1]
    <3>1. n - 1 \in 0..(k + 1) /\ n - 1 \in 0..k
      BY <2>1
    <3> QED
      BY <1>3, <3>1
  <2>2. ASSUME NEW n \in 0..(k + 1) PROVE Of(f, n) = Of(g, n)
    <3>1. n = 0 \/ f[n - 1] = g[n - 1]
      BY <2>1
    <3> HIDE DEF g
    <3> QED
      BY <1>1, <3>1
  <2> QED
    BY <2>2
<1>4. Depth \in T
  <2>1. \A k \in Nat : k \in T => k + 1 \in T
    BY <1>3
  <2> HIDE DEF T
  <2>2. Nat \subseteq T
    BY <1>2, <2>1, InductionInSet
  <2> QED
    BY <2>2, ValuesAssumption
<1>5. PICK f : Upto(Depth, f)
  BY <1>4
<1>6. Parts = CHOOSE f2 : Upto(Depth, f2)
  BY DEF Parts, Of
<1>7. Upto(Depth, Parts)
  BY <1>5, <1>6
<1>8. \A n \in 0..Depth : Parts[n] = Of(Parts, n)
  BY <1>7
<1> QED
  BY <1>8 DEF Of

\* toInt gives an integer.
LEMMA ToIntIsInt ==
  ASSUME NEW s \in ByteArray
  PROVE  toInt(s) \in Int
<1> DEFINE start == IF At(s, 0) = "-" THEN 1 ELSE 0
<1>1. PICK v : /\ IsReading(s, v)
               /\ toInt(s) = IF ~IsNumeral(s) THEN 0
                             ELSE IF At(s, 0) = "-" THEN -v[Len(s)] ELSE v[Len(s)]
  BY ReadingExists
<1>2. Len(s) \in Nat
  BY DEF ByteArray
<1>3. CASE IsNumeral(s)
  <2> DEFINE T == {k \in Nat : k <= Len(s) => v[k] \in Int}
  <2>1. ASSUME NEW b, IsDigit(b) PROVE DigitValue(b) \in Int
    BY <2>1 DEF IsDigit, DigitValue
  <2>2. 0 \in T
    BY <1>1, <1>2 DEF IsReading
  <2>3. ASSUME NEW k \in Nat, k \in T PROVE k + 1 \in T
    <3> SUFFICES ASSUME k + 1 <= Len(s) PROVE v[k + 1] \in Int
      OBVIOUS
    <3>1. v[k + 1] = IF At(s, k) = "-" THEN 0 ELSE 10 * v[k] + DigitValue(At(s, k))
      <4>1. k + 1 \in 0..Len(s) /\ k + 1 # 0 /\ (k + 1) - 1 = k
        BY <1>2
      <4> QED
        BY <1>1, <4>1 DEF IsReading
    <3>2. v[k] \in Int
      BY <1>2, <2>3
    <3>3. At(s, k) # "-" => IsDigit(At(s, k))
      <4>1. k \in 0..(Len(s) - 1) /\ (k = 0 \/ k \in 1..(Len(s) - 1))
        BY <1>2
      <4> QED
        BY <1>3, <4>1 DEF IsNumeral
    <3>4. At(s, k) # "-" => DigitValue(At(s, k)) \in Int
      BY <2>1, <3>3
    <3> QED
      BY <3>1, <3>2, <3>4
  <2> HIDE DEF T
  <2>4. Nat \subseteq T
    BY <2>2, <2>3, InductionInSet
  <2>5. v[Len(s)] \in Int
    BY <1>2, <2>4 DEF T
  <2> QED
    BY <1>1, <2>5
<1>4. CASE ~IsNumeral(s)
  BY <1>1, <1>4
<1> QED
  BY <1>3, <1>4

-----------------------------------------------------------------------------
(* Encodings *)

\* The bytes that structure an encoding, as byte arrays.
LEMMA Marks ==
  \A b \in {"i", "e", ":", "l", "d"} : <<b>> \in ByteArray /\ Len(<<b>>) = 1 /\ <<b>>[1] = b
<1>1. \A b \in {"i", "e", ":", "l", "d"} : b \in Byte
  BY DEF Byte
<1> QED
  BY <1>1, OneElement DEF ByteArray

\* The first byte of a concatenation.
LEMMA FirstByte ==
  \A p, q \in ByteArray : Len(p) >= 1 => (p \o q)[1] = p[1]
<1> TAKE p, q \in ByteArray
<1> HAVE Len(p) >= 1
<1>1. Len(p) \in Nat
  BY DEF ByteArray
<1>2. 1 \in 1..Len(p)
  BY <1>1
<1> QED
  BY <1>2, Concatenated

\* An encoded integer: 'i', the numeral, 'e'.
LEMMA IntegerEncoding ==
  ASSUME NEW n \in Int
  PROVE  /\ number(n) \in ByteArray /\ <<"i">> \o number(n) \in ByteArray
         /\ EncodeInteger(n) \in ByteArray
         /\ EncodeInteger(n) = (<<"i">> \o number(n)) \o <<"e">>
         /\ Len(EncodeInteger(n)) = 2 + Len(number(n))
         /\ EncodeInteger(n)[1] = "i"
         /\ Len(number(n)) \in Nat \ {0}
<1> DEFINE num == number(n)
<1>1. num \in ByteArray /\ Len(num) >= 1 /\ Len(num) \in Nat
  BY NumberIsRead DEF ByteArray
<1> HIDE DEF num
<1> DEFINE I == <<"i">>
           E == <<"e">>
<1>2. I \in ByteArray /\ Len(I) = 1 /\ I[1] = "i" /\ E \in ByteArray /\ Len(E) = 1
  BY Marks
<1> HIDE DEF I, E
<1> DEFINE p == I \o num
<1>3. p \in ByteArray /\ Len(p) = 1 + Len(num) /\ p[1] = "i"
  <2>1. p \in ByteArray /\ Len(p) = Len(I) + Len(num)
    BY <1>1, <1>2, Concatenated
  <2>2. Len(I) >= 1
    BY <1>2
  <2>3. p[1] = I[1]
    BY <1>1, <1>2, <2>2, FirstByte
  <2> QED
    BY <1>2, <2>1, <2>3
<1> HIDE DEF p
<1> DEFINE q == p \o E
<1>4. q \in ByteArray /\ Len(q) = (1 + Len(num)) + 1 /\ q[1] = "i"
  <2>1. Len(p) >= 1
    BY <1>1, <1>3
  <2>2. q \in ByteArray /\ Len(q) = Len(p) + Len(E)
    BY <1>2, <1>3, Concatenated
  <2>3. q[1] = p[1]
    BY <1>2, <1>3, <2>1, FirstByte
  <2> QED
    BY <1>2, <1>3, <2>2, <2>3
<1>5. EncodeInteger(n) = q
  BY DEF EncodeInteger, p, I, E, num
<1> HIDE DEF q
<1>6. Len(q) = 2 + Len(num)
  BY <1>1, <1>4
<1> QED
  BY <1>1, <1>3, <1>4, <1>5, <1>6 DEF p, I, E, num, q

\* An encoded string: its length, ':' and its bytes.
LEMMA StringEncoding ==
  ASSUME NEW s \in ByteArray
  PROVE  /\ number(Len(s)) \in ByteArray /\ number(Len(s)) \o <<":">> \in ByteArray
         /\ Len(number(Len(s)) \o <<":">>) = Len(number(Len(s))) + 1
         /\ EncodeString(s) \in ByteArray
         /\ EncodeString(s) = (number(Len(s)) \o <<":">>) \o s
         /\ Len(EncodeString(s)) = (Len(number(Len(s))) + 1) + Len(s)
         /\ Len(number(Len(s))) \in Nat \ {0}
         /\ EncodeString(s)[1] = number(Len(s))[1]
         /\ EncodeString(s)[1] \notin {"i", "l", "d", "e"}
<1>0. Len(s) \in Nat
  BY DEF ByteArray
<1> DEFINE num == number(Len(s))
           C == <<":">>
<1>1. num \in ByteArray /\ Len(num) >= 1 /\ Len(num) \in Nat
  BY <1>0, NumberIsRead DEF ByteArray
<1>2. num[1] \notin {"i", "l", "d", "e"}
  <2>1. 1 \in 1..Len(number(Len(s))) /\ Len(s) \in Int
    BY <1>0, <1>1
  <2> QED
    BY <2>1, NumberIsPlain
<1>3. C \in ByteArray /\ Len(C) = 1
  BY Marks
<1> HIDE DEF num, C
<1> DEFINE p == num \o C
<1>4. p \in ByteArray /\ Len(p) = Len(num) + 1 /\ p[1] = num[1]
  <2>1. p \in ByteArray /\ Len(p) = Len(num) + Len(C)
    BY <1>1, <1>3, Concatenated
  <2>2. p[1] = num[1]
    BY <1>1, <1>3, FirstByte
  <2> QED
    BY <1>3, <2>1, <2>2
<1> HIDE DEF p
<1> DEFINE q == p \o s
<1>5. q \in ByteArray /\ Len(q) = (Len(num) + 1) + Len(s) /\ q[1] = num[1]
  <2>1. Len(p) >= 1
    BY <1>1, <1>4
  <2>2. q \in ByteArray /\ Len(q) = Len(p) + Len(s)
    BY <1>4, Concatenated
  <2>3. q[1] = p[1]
    BY <1>4, <2>1, FirstByte
  <2> QED
    BY <1>4, <2>2, <2>3
<1>6. EncodeString(s) = q
  BY DEF EncodeString, p, C, num
<1> HIDE DEF q
<1>7. Len(num) \in Nat \ {0}
  BY <1>1
<1> QED
  BY <1>1, <1>2, <1>4, <1>5, <1>6, <1>7 DEF p, C, num, q

\* What becomes of a scalar on the way through the encoder and the decoder.
LEMMA ScalarEncoding ==
  ASSUME NEW v \in Scalars
  PROVE  /\ NormalScalar(v) \in Scalars /\ EncodeScalar(v) \in ByteArray
         /\ EncodeScalar(NormalScalar(v)) = EncodeScalar(v)
         /\ \/ \E n \in Int : EncodeScalar(v) = EncodeInteger(n) /\ NormalScalar(v) = <<"int", n>>
            \/ \E s \in ByteArray : EncodeScalar(v) = EncodeString(s) /\ NormalScalar(v) = <<"str", s>>
<1>1. CASE v[1] = "int" /\ v[2] \in Int /\ v = <<"int", v[2]>>
  <2>1. NormalScalar(v) = v /\ EncodeScalar(v) = EncodeInteger(v[2])
    BY <1>1 DEF NormalScalar, EncodeScalar
  <2> QED
    BY <1>1, <2>1, IntegerEncoding
<1>2. CASE v[1] = "str" /\ v[2] \in ByteArray /\ v = <<"str", v[2]>> /\ IsNumeral(v[2])
  <2>1. NormalScalar(v) = <<"int", toInt(v[2])>> /\ EncodeScalar(v) = EncodeInteger(toInt(v[2]))
    BY <1>2 DEF NormalScalar, EncodeScalar
  <2>2. toInt(v[2]) \in Int
    BY <1>2, ToIntIsInt
  <2> DEFINE n == toInt(v[2])
  <2> HIDE DEF n
  <2>3. <<"int", n>> \in Scalars /\ EncodeScalar(<<"int", n>>) = EncodeInteger(n)
    BY <2>2 DEF Scalars, EncodeScalar, n
  <2> QED
    BY <2>1, <2>2, <2>3, IntegerEncoding DEF n
<1>3. CASE v[1] = "str" /\ v[2] \in ByteArray /\ v = <<"str", v[2]>> /\ ~IsNumeral(v[2])
  <2>1. NormalScalar(v) = v /\ EncodeScalar(v) = EncodeString(v[2])
    BY <1>3 DEF NormalScalar, EncodeScalar
  <2> QED
    BY <1>3, <2>1, StringEncoding
<1> QED
  BY <1>1, <1>2, <1>3, ScalarShape

\* The parts of an encoded container: an element each, or a key and its value,
\* or nothing for a key that is absent.
Pieces(n, v) ==
  IF v[1] = "list" THEN [j \in DOMAIN v[2] |-> Encoder[n - 1][v[2][j]]]
  ELSE [j \in DOMAIN KeyOrder |->
          IF v[2][KeyOrder[j]] = Absent THEN <<>>
          ELSE EncodeString(KeyOrder[j]) \o Encoder[n - 1][v[2][KeyOrder[j]]]]

\* the first byte of the encoding of a container
Mark(v) == IF v[1] = "list" THEN "l" ELSE "d"

\* The containers nested at most n deep.
Containers(n) == {v \in Tree[n] : v[1] \in {"list", "dict"}}

\* Strings and integers are encoded and normalized the same way at every depth.
LEMMA ScalarsAreEncoded ==
  ASSUME NEW n \in 0..Depth, NEW v \in Scalars
  PROVE  v \in Tree[n] /\ Encoder[n][v] = EncodeScalar(v) /\ Normalizer[n][v] = NormalScalar(v)
<1>1. v \in Tree[n] /\ v[1] \notin {"list", "dict"}
  BY ScalarsAreValues, ScalarShape
<1>2. Encoder[n][v] = EncodeScalar(v)
  BY <1>1, EncoderDefined
<1>3. Normalizer[n][v] = NormalScalar(v)
  BY <1>1, NormalizerDefined
<1> QED
  BY <1>1, <1>2, <1>3

\* What a container is made of.
LEMMA ContainerShape ==
  ASSUME NEW n \in 0..Depth, NEW v \in Containers(n)
  PROVE  /\ n # 0 /\ n - 1 \in 0..Depth /\ v \in Tree[n] /\ v = <<v[1], v[2]>>
         /\ \/ v[1] = "list" /\ v[2] \in Seq(Tree[n - 1])
            \/ v[1] = "dict" /\ v[2] \in Maps(Tree[n - 1])
BY TreeShape, ScalarShape DEF Containers

\* The keys of a map are those of the order of QMap, each one once.
LEMMA OrderedKeys ==
  /\ Len(KeyOrder) \in Nat /\ DOMAIN KeyOrder = 1..Len(KeyOrder)
  /\ \A j \in DOMAIN KeyOrder : KeyOrder[j] \in Keys /\ KeyOrder[j] \in ByteArray
  /\ \A k \in Keys : \E j \in DOMAIN KeyOrder : k = KeyOrder[j]
  /\ \A j, k \in DOMAIN KeyOrder : KeyOrder[j] = KeyOrder[k] => j = k
BY ValuesAssumption DEF Keys

\* A container is encoded as its mark, its pieces one after the other, and an 'e'.
LEMMA ContainerIsEncoded ==
  ASSUME NEW n \in 0..Depth, NEW v \in Containers(n)
  PROVE  Encoder[n][v] = (<<Mark(v)>> \o Join(Pieces(n, v))) \o <<"e">>
<1>1. v \in Tree[n] /\ n - 1 \in 0..Depth
  BY ContainerShape
<1>0. Encoder[n][v] =
        CASE v[1] = "list" -> EncodeList([j \in DOMAIN v[2] |-> Encoder[n - 1][v[2][j]]])
          [] v[1] = "dict" -> EncodeMap([k \in Keys |->
                                           IF v[2][k] = Absent THEN <<>>
                                           ELSE EncodeString(k) \o Encoder[n - 1][v[2][k]]])
          [] OTHER -> EncodeScalar(v)
  BY <1>1, EncoderDefined
<1>2. CASE v[1] = "list"
  <2>1. Encoder[n][v] = EncodeList([j \in DOMAIN v[2] |-> Encoder[n - 1][v[2][j]]])
    BY <1>0, <1>2, Zenon
  <2> QED
    BY <1>2, <2>1 DEF EncodeList, Pieces, Mark
<1>3. CASE v[1] = "dict"
  <2> DEFINE entries == [k \in Keys |-> IF v[2][k] = Absent THEN <<>>
                                        ELSE EncodeString(k) \o Encoder[n - 1][v[2][k]]]
  <2>1. Encoder[n][v] = EncodeMap(entries)
    <3>1. v[1] # "list"
      BY <1>3
    <3> QED
      BY <1>0, <1>3, <3>1, Zenon
  <2>2. \A j \in DOMAIN KeyOrder :
          entries[KeyOrder[j]] = IF v[2][KeyOrder[j]] = Absent THEN <<>>
                                 ELSE EncodeString(KeyOrder[j]) \o Encoder[n - 1][v[2][KeyOrder[j]]]
    BY OrderedKeys
  <2>3. Pieces(n, v) = [j \in DOMAIN KeyOrder |-> IF v[2][KeyOrder[j]] = Absent THEN <<>>
                                 ELSE EncodeString(KeyOrder[j]) \o Encoder[n - 1][v[2][KeyOrder[j]]]]
    BY <1>3 DEF Pieces
  <2> HIDE DEF entries
  <2>4. [j \in DOMAIN KeyOrder |-> entries[KeyOrder[j]]] = Pieces(n, v)
    BY <2>2, <2>3
  <2>5. Mark(v) = "d"
    BY <1>3 DEF Mark
  <2> QED
    BY <2>1, <2>4, <2>5 DEF EncodeMap
<1> QED
  BY <1>2, <1>3 DEF Containers

\* The pieces of a container, when what is nested is encoded as bytes.
LEMMA PiecesAreBytes ==
  ASSUME NEW n \in 0..Depth, NEW v \in Containers(n),
         \A w \in Tree[n - 1] : Encoder[n - 1][w] \in ByteArray
  PROVE  Pieces(n, v) \in Seq(ByteArray)
<1>1. CASE v[1] = "list"
  <2>1. v[2] \in Seq(Tree[n - 1])
    BY <1>1, ContainerShape
  <2>2. DOMAIN v[2] = 1..Len(v[2]) /\ Len(v[2]) \in Nat /\ \A j \in 1..Len(v[2]) : v[2][j] \in Tree[n - 1]
    BY <2>1
  <2>3. Pieces(n, v) = [j \in 1..Len(v[2]) |-> Encoder[n - 1][v[2][j]]]
    BY <1>1, <2>2 DEF Pieces
  <2>4. \A j \in 1..Len(v[2]) : Encoder[n - 1][v[2][j]] \in ByteArray
    BY <2>2
  <2> QED
    BY <2>2, <2>3, <2>4
<1>2. CASE v[1] = "dict"
  <2>1. v[2] \in Maps(Tree[n - 1])
    BY <1>2, ContainerShape
  <2>2. ASSUME NEW j \in DOMAIN KeyOrder
        PROVE  (IF v[2][KeyOrder[j]] = Absent THEN <<>>
                ELSE EncodeString(KeyOrder[j]) \o Encoder[n - 1][v[2][KeyOrder[j]]]) \in ByteArray
    <3>1. KeyOrder[j] \in Keys /\ KeyOrder[j] \in ByteArray
      BY OrderedKeys
    <3>2. v[2][KeyOrder[j]] = Absent \/ v[2][KeyOrder[j]] \in Tree[n - 1]
      BY <2>1, <3>1 DEF Maps
    <3>3. <<>> \in ByteArray
      BY DEF ByteArray
    <3>4. CASE v[2][KeyOrder[j]] # Absent
      <4>1. EncodeString(KeyOrder[j]) \in ByteArray /\ Encoder[n - 1][v[2][KeyOrder[j]]] \in ByteArray
        BY <3>1, <3>2, <3>4, StringEncoding
      <4>2. EncodeString(KeyOrder[j]) \o Encoder[n - 1][v[2][KeyOrder[j]]] \in ByteArray
        BY <4>1, Concatenated
      <4> QED
        BY <3>4, <4>2
    <3> QED
      BY <3>3, <3>4
  <2>3. Pieces(n, v) = [j \in 1..Len(KeyOrder) |->
                          IF v[2][KeyOrder[j]] = Absent THEN <<>>
                          ELSE EncodeString(KeyOrder[j]) \o Encoder[n - 1][v[2][KeyOrder[j]]]]
    BY <1>2, OrderedKeys DEF Pieces
  <2>4. Len(KeyOrder) \in Nat /\ DOMAIN KeyOrder = 1..Len(KeyOrder)
    BY OrderedKeys
  <2> QED
    BY <2>2, <2>3, <2>4
<1> QED
  BY <1>1, <1>2 DEF Containers

\* Two marks around a byte array.
LEMMA Bracketed ==
  ASSUME NEW b \in {"l", "d"}, NEW body \in ByteArray
  PROVE  /\ <<b>> \o body \in ByteArray /\ Len(<<b>> \o body) = 1 + Len(body)
         /\ (<<b>> \o body) \o <<"e">> \in ByteArray
         /\ Len((<<b>> \o body) \o <<"e">>) = 2 + Len(body)
         /\ ((<<b>> \o body) \o <<"e">>)[1] = b
         /\ Len(body) \in Nat
<1> DEFINE B == <<b>>
           E == <<"e">>
           p == B \o body
           q == p \o E
<1>1. B \in ByteArray /\ Len(B) = 1 /\ B[1] = b /\ E \in ByteArray /\ Len(E) = 1
  BY Marks
<1>2. Len(body) \in Nat
  BY DEF ByteArray
<1> HIDE DEF B, E
<1>3. p \in ByteArray /\ Len(p) = 1 + Len(body) /\ p[1] = b
  <2>1. p \in ByteArray /\ Len(p) = Len(B) + Len(body)
    BY <1>1, Concatenated
  <2>2. p[1] = B[1]
    BY <1>1, FirstByte
  <2> HIDE DEF p
  <2> QED
    BY <1>1, <2>1, <2>2
<1> HIDE DEF p
<1>4. q \in ByteArray /\ Len(q) = 2 + Len(body) /\ q[1] = b
  <2>1. q \in ByteArray /\ Len(q) = Len(p) + Len(E)
    BY <1>1, <1>3, Concatenated
  <2>2. Len(p) >= 1
    BY <1>2, <1>3
  <2>3. q[1] = p[1]
    BY <1>1, <1>3, <2>2, FirstByte
  <2> QED
    BY <1>1, <1>2, <1>3, <2>1, <2>3
<1> QED
  BY <1>2, <1>3, <1>4 DEF p, q, B, E

\* Encodings are byte arrays.
LEMMA EncodingIsBytes ==
  ASSUME NEW n \in 0..Depth
  PROVE  \A v \in Tree[n] : Encoder[n][v] \in ByteArray
<1> DEFINE Bytes(m) == \A v \in Tree[m] : Encoder[m][v] \in ByteArray
           T == {m \in Nat : m <= Depth => Bytes(m)}
<1>1. ASSUME NEW m \in 0..Depth, m = 0 \/ Bytes(m - 1), NEW v \in Tree[m]
      PROVE  Encoder[m][v] \in ByteArray
  <2>1. CASE v \in Scalars
    BY <2>1, ScalarsAreEncoded, ScalarEncoding
  <2>2. CASE v \notin Scalars
    <3>1. v \in Containers(m)
      BY <2>2, TreeShape DEF Containers
    <3>2. m # 0
      BY <3>1, ContainerShape
    <3>3. Pieces(m, v) \in Seq(ByteArray)
      BY <1>1, <3>1, <3>2, PiecesAreBytes
    <3> DEFINE body == Join(Pieces(m, v))
    <3>4. body \in ByteArray
      <4>1. PICK j : IsJoin(Pieces(m, v), j) /\ Join(Pieces(m, v)) = j[Len(Pieces(m, v))]
        BY <3>3, JoinExists
      <4>2. Len(Pieces(m, v)) \in 0..Len(Pieces(m, v))
        BY <3>3
      <4> QED
        BY <4>1, <4>2 DEF IsJoin
    <3>5. Encoder[m][v] = (<<Mark(v)>> \o body) \o <<"e">> /\ Mark(v) \in {"l", "d"}
      BY <3>1, ContainerIsEncoded DEF Mark
    <3> HIDE DEF body
    <3> QED
      BY <3>4, <3>5, Bracketed
  <2> QED
    BY <2>1, <2>2
<1>2. 0 \in T
  <2>1. 0 \in 0..Depth
    BY ValuesAssumption
  <2> QED
    BY <1>1, <2>1
<1>3. ASSUME NEW m \in Nat, m \in T PROVE m + 1 \in T
  <2>1. ASSUME m + 1 <= Depth PROVE Bytes(m + 1)
    <3>1. m + 1 \in 0..Depth /\ (m + 1) - 1 = m /\ m <= Depth
      BY <2>1, ValuesAssumption
    <3>2. Bytes(m)
      BY <1>3, <3>1
    <3> QED
      BY <1>1, <3>1, <3>2
  <2> HIDE DEF Bytes
  <2> QED
    BY <2>1
<1>4. n \in T
  <2> HIDE DEF T
  <2>1. Nat \subseteq T
    BY <1>2, <1>3, InductionInSet
  <2> QED
    BY <2>1, ValuesAssumption
<1> QED
  BY <1>4, ValuesAssumption

-----------------------------------------------------------------------------
(* The scan for the closing 'e' *)

\* sc holds the states of the scan of data, round by round
Rounds(data, sc) == \A n \in 1..Len(data) : sc[n] = LastERound(data, sc[n - 1])

\* a state of the scan at the end of what it has passed over
Level(k, p) == [eN |-> k, ePos |-> p, lastEPos |-> p]

\* The recursive function of getLastE exists.
LEMMA ScanExists ==
  ASSUME NEW data \in ByteArray, NEW pos
  PROVE  \E sc : /\ sc[0] = Level(1, pos) /\ Rounds(data, sc)
                 /\ getLastE(data, pos) =
                      IF sc[Len(data)].eN # 0 \/ sc[Len(data)].ePos >= Len(data) THEN -1
                      ELSE sc[Len(data)].ePos
<1> DEFINE Of(f, n) == IF n = 0 THEN Level(1, pos) ELSE LastERound(data, f[n - 1])
           Upto(k, f) == f = [n \in 0..k |-> Of(f, n)]
           T == {k \in Nat : \E f : Upto(k, f)}
<1>0. Len(data) \in Nat
  BY DEF ByteArray
<1>1. ASSUME NEW f, NEW g, NEW n, n = 0 \/ f[n - 1] = g[n - 1] PROVE Of(f, n) = Of(g, n)
  BY <1>1
<1> HIDE DEF Of
<1>2. 0 \in T
  <2>1. Upto(0, [n \in 0..0 |-> Of(<<>>, 0)])
    BY <1>1
  <2> QED
    BY <2>1
<1>3. ASSUME NEW k \in Nat, NEW f, Upto(k, f) PROVE \E g : Upto(k + 1, g)
  <2> DEFINE g == [n \in 0..(k + 1) |-> Of(f, n)]
  <2>1. ASSUME NEW n \in 0..(k + 1), n # 0 PROVE f[n - 1] = g[n - 1]
    <3>1. n - 1 \in 0..(k + 1) /\ n - 1 \in 0..k
      BY <2>1
    <3> QED
      BY <1>3, <3>1
  <2>2. ASSUME NEW n \in 0..(k + 1) PROVE Of(f, n) = Of(g, n)
    <3>1. n = 0 \/ f[n - 1] = g[n - 1]
      BY <2>1
    <3> HIDE DEF g
    <3> QED
      BY <1>1, <3>1
  <2> QED
    BY <2>2
<1>4. Len(data) \in T
  <2>1. \A k \in Nat : k \in T => k + 1 \in T
    BY <1>3
  <2> HIDE DEF T
  <2>2. Nat \subseteq T
    BY <1>2, <2>1, InductionInSet
  <2> QED
    BY <1>0, <2>2
<1> DEFINE sc == CHOOSE f : Upto(Len(data), f)
<1>5. Upto(Len(data), sc)
  BY <1>4
<1>6. getLastE(data, pos) = IF sc[Len(data)].eN # 0 \/ sc[Len(data)].ePos >= Len(data) THEN -1
                            ELSE sc[Len(data)].ePos
  BY DEF getLastE, Of, Level
<1> HIDE DEF sc
<1>7. \A n \in 0..Len(data) : sc[n] = Of(sc, n)
  BY <1>5
<1>8. sc[0] = Level(1, pos)
  BY <1>0, <1>7 DEF Of
<1>9. ASSUME NEW n \in 1..Len(data) PROVE sc[n] = LastERound(data, sc[n - 1])
  <2>1. n \in 0..Len(data) /\ n # 0
    BY <1>0
  <2> QED
    BY <1>7, <2>1 DEF Of
<1> QED
  BY <1>6, <1>8, <1>9 DEF Rounds

\* the states of the scan: what is open, and where it is
ScanState == [eN : Nat, ePos : Nat, lastEPos : Nat]

\* Plain bytes are no marks.
IsMark(b) == b \in {":", "e", "i", "l", "d"}

\* A round of the scan, by the byte it looks at.
LEMMA RoundAt ==
  ASSUME NEW data \in ByteArray, NEW s \in ScanState, s.eN # 0, s.ePos + 1 < Len(data)
  PROVE  LET p == s.ePos + 1 IN
         /\ ~IsMark(At(data, p)) =>
              LastERound(data, s) = [eN |-> s.eN, ePos |-> p, lastEPos |-> s.lastEPos]
         /\ At(data, p) = "e" => LastERound(data, s) = Level(s.eN - 1, p)
         /\ At(data, p) \in {"i", "l", "d"} => LastERound(data, s) = Level(s.eN + 1, p)
         /\ At(data, p) = ":" =>
              LastERound(data, s) = Level(s.eN, p + toInt(mid(data, s.lastEPos + 1, p - s.lastEPos - 1)))
<1> DEFINE p == s.ePos + 1
           behind == p + toInt(mid(data, s.lastEPos + 1, p - s.lastEPos - 1))
<1>1. s.eN \in Nat /\ s.ePos \in Nat /\ s.lastEPos \in Nat /\ Len(data) \in Nat
      /\ s = [eN |-> s.eN, ePos |-> s.ePos, lastEPos |-> s.lastEPos]
  BY DEF ScanState, ByteArray
<1>2. ~(s.eN = 0 \/ s.ePos >= Len(data))
  BY <1>1
<1>3. LastERound(data, s) =
        CASE At(data, p) = ":" -> [eN |-> s.eN, ePos |-> behind, lastEPos |-> behind]
          [] At(data, p) = "e" -> [eN |-> s.eN - 1, ePos |-> p, lastEPos |-> p]
          [] At(data, p) \in {"i", "l", "d"} -> [eN |-> s.eN + 1, ePos |-> p, lastEPos |-> p]
          [] OTHER -> [s EXCEPT !.ePos = p]
  BY <1>2 DEF LastERound
<1>4. [s EXCEPT !.ePos = p] = [eN |-> s.eN, ePos |-> p, lastEPos |-> s.lastEPos]
  BY <1>1
<1> DEFINE b == At(data, p)
<1>6. SUFFICES /\ ~IsMark(b) =>
                    LastERound(data, s) = [eN |-> s.eN, ePos |-> p, lastEPos |-> s.lastEPos]
               /\ b = "e" => LastERound(data, s) = Level(s.eN - 1, p)
               /\ b \in {"i", "l", "d"} => LastERound(data, s) = Level(s.eN + 1, p)
               /\ b = ":" => LastERound(data, s) = Level(s.eN, behind)
  OBVIOUS
<1> HIDE DEF b, p, behind
<1>5. LastERound(data, s) =
        CASE b = ":" -> [eN |-> s.eN, ePos |-> behind, lastEPos |-> behind]
          [] b = "e" -> [eN |-> s.eN - 1, ePos |-> p, lastEPos |-> p]
          [] b \in {"i", "l", "d"} -> [eN |-> s.eN + 1, ePos |-> p, lastEPos |-> p]
          [] OTHER -> [eN |-> s.eN, ePos |-> p, lastEPos |-> s.lastEPos]
  BY <1>3, <1>4 DEF b
<1> HIDE DEF b
<1> QED
  BY <1>5 DEF IsMark, Level

\* a state of the scan behind q that has not lost its way
Sound(s, q) == s \in ScanState /\ s.lastEPos <= s.ePos /\ q <= s.lastEPos + 1

\* The scan comes over c, wherever that stands, in no more rounds than bytes
\* and with nothing more open than before.
PassesOver(c) ==
  \A data \in ByteArray : \A sc : \A q \in Nat \ {0}, a \in Nat, k \in Nat \ {0} :
    (Rounds(data, sc) /\ Stands(data, q, c) /\ sc[a] = Level(k, q - 1) /\ a + Len(c) <= Len(data)) =>
      \E b \in a..(a + Len(c)) :
        sc[b] = Level(k, q + Len(c) - 1) /\ \A n \in a..b : Sound(sc[n], q)

\* The state at the end of what was passed over is one the scan may be in.
LEMMA LevelIsSound ==
  ASSUME NEW k \in Nat, NEW p \in Nat, NEW q, q \in Nat, q <= p + 1
  PROVE  Sound(Level(k, p), q) /\ Level(k, p).eN = k /\ Level(k, p).ePos = p /\ Level(k, p).lastEPos = p
BY DEF Sound, Level, ScanState

\* The scan passes over nothing.
LEMMA PassesNothing == PassesOver(<<>>)
<1> SUFFICES ASSUME NEW data \in ByteArray, NEW sc, NEW q \in Nat \ {0}, NEW a \in Nat, NEW k \in Nat \ {0},
                    sc[a] = Level(k, q - 1)
             PROVE  \E b \in a..(a + Len(<<>>)) :
                      sc[b] = Level(k, q + Len(<<>>) - 1) /\ \A n \in a..b : Sound(sc[n], q)
  BY DEF PassesOver
<1>1. Len(<<>>) = 0
  OBVIOUS
<1>2. a \in a..(a + 0) /\ q + 0 - 1 = q - 1 /\ q - 1 \in Nat /\ q <= (q - 1) + 1 /\ \A n \in a..a : n = a
  OBVIOUS
<1>3. Sound(sc[a], q)
  BY <1>2, LevelIsSound
<1> QED
  BY <1>1, <1>2, <1>3

\* The scan that passes over each of two byte arrays passes over both.
LEMMA PassesTwo ==
  ASSUME NEW c \in ByteArray, NEW d \in ByteArray, PassesOver(c), PassesOver(d)
  PROVE  PassesOver(c \o d)
<1> DEFINE e == c \o d
<1>1. Len(e) = Len(c) + Len(d) /\ Len(c) \in Nat /\ Len(d) \in Nat
  BY Concatenated DEF ByteArray
<1> SUFFICES ASSUME NEW data \in ByteArray, NEW sc, NEW q \in Nat \ {0}, NEW a \in Nat, NEW k \in Nat \ {0},
                    Rounds(data, sc), Stands(data, q, e), sc[a] = Level(k, q - 1), a + Len(e) <= Len(data)
             PROVE  \E b \in a..(a + Len(e)) :
                      sc[b] = Level(k, q + Len(e) - 1) /\ \A n \in a..b : Sound(sc[n], q)
  BY DEF PassesOver
<1>2. Stands(data, q, c) /\ Stands(data, q + Len(c), d)
  BY StandsSplit
<1> HIDE DEF e
<1>3. Len(data) \in Nat
  BY DEF ByteArray
<1>4. PICK m \in a..(a + Len(c)) : sc[m] = Level(k, q + Len(c) - 1) /\ \A n \in a..m : Sound(sc[n], q)
  <2>1. a + Len(c) <= Len(data)
    BY <1>1, <1>3
  <2> QED
    BY <1>2, <2>1 DEF PassesOver
<1> DEFINE r == q + Len(c)
<1>5. r \in Nat \ {0} /\ m \in Nat /\ m + Len(d) <= Len(data) /\ q <= r
  BY <1>1, <1>3
<1>6. Stands(data, r, d) /\ sc[m] = Level(k, r - 1)
  BY <1>2, <1>4
<1> HIDE DEF r
<1>7. PICK b \in m..(m + Len(d)) : sc[b] = Level(k, r + Len(d) - 1) /\ \A n \in m..b : Sound(sc[n], r)
  BY <1>5, <1>6 DEF PassesOver
<1>8. b \in a..(a + Len(e)) /\ r + Len(d) - 1 = q + Len(e) - 1
  BY <1>1, <1>5 DEF r
<1>9. ASSUME NEW n \in a..b PROVE Sound(sc[n], q)
  <2>1. n \in a..m \/ n \in m..b
    BY <1>5
  <2>2. CASE n \in m..b
    <3>1. Sound(sc[n], r)
      BY <1>7, <2>2
    <3> DEFINE t == sc[n]
    <3>2. Sound(t, r)
      BY <3>1
    <3>3. q \in Nat /\ r \in Nat /\ q <= r
      BY <1>5
    <3> HIDE DEF t
    <3>4. Sound(t, q)
      BY <3>2, <3>3 DEF Sound, ScanState
    <3> QED
      BY <3>4 DEF t
  <2>3. CASE n \in a..m
    BY <1>4, <2>3, Zenon
  <2> QED
    BY <2>1, <2>2, <2>3
<1> QED
  BY <1>7, <1>8, <1>9

\* The scan that passes over each piece passes over all of them, by induction.
LEMMA PassesJoin ==
  ASSUME NEW parts \in Seq(ByteArray), \A n \in 1..Len(parts) : PassesOver(parts[n])
  PROVE  PassesOver(Join(parts)) /\ Join(parts) \in ByteArray
<1>1. PICK j : IsJoin(parts, j) /\ Join(parts) = j[Len(parts)]
  BY JoinExists
<1> DEFINE T == {n \in Nat : n <= Len(parts) => PassesOver(j[n])}
<1>2. 0 \in T
  BY <1>1, PassesNothing DEF IsJoin
<1>3. ASSUME NEW n \in Nat, n \in T PROVE n + 1 \in T
  <2> SUFFICES ASSUME n + 1 <= Len(parts) PROVE PassesOver(j[n + 1])
    OBVIOUS
  <2>1. n + 1 \in 1..Len(parts) /\ (n + 1) - 1 = n
    OBVIOUS
  <2>2. j[n] \in ByteArray /\ parts[n + 1] \in ByteArray /\ j[n + 1] = j[n] \o parts[n + 1]
    <3>1. /\ j[(n + 1) - 1] \in ByteArray /\ parts[n + 1] \in ByteArray
          /\ j[n + 1] = j[(n + 1) - 1] \o parts[n + 1]
      BY <1>1, <2>1, JoinStep
    <3> QED
      BY <2>1, <3>1
  <2>3. PassesOver(j[n]) /\ PassesOver(parts[n + 1])
    BY <1>3, <2>1
  <2> QED
    BY <2>2, <2>3, PassesTwo
<1>4. Len(parts) \in T
  <2> HIDE DEF T
  <2>1. Nat \subseteq T
    BY <1>2, <1>3, InductionInSet
  <2> QED
    BY <2>1
<1>5. j[Len(parts)] \in ByteArray
  BY <1>1 DEF IsJoin
<1> QED
  BY <1>1, <1>4, <1>5

\* none of the bytes of t means anything to the scan
NoMarks(t) == \A i \in 1..Len(t) : ~IsMark(t[i])

\* Over plain bytes the scan goes one by one.
LEMMA ScanPlain ==
  ASSUME NEW data \in ByteArray, NEW sc, Rounds(data, sc), NEW t \in ByteArray,
         NoMarks(t),
         NEW q \in Nat \ {0}, Stands(data, q, t), NEW a \in Nat, NEW k \in Nat \ {0},
         sc[a] = Level(k, q - 1), a + Len(t) <= Len(data)
  PROVE  \A i \in 0..Len(t) : sc[a + i] = [eN |-> k, ePos |-> (q - 1) + i, lastEPos |-> q - 1]
<1>1. Len(t) \in Nat /\ Len(data) \in Nat /\ q - 1 \in Nat
  BY DEF ByteArray
<1> DEFINE State(i) == [eN |-> k, ePos |-> (q - 1) + i, lastEPos |-> q - 1]
           T == {i \in Nat : i <= Len(t) => sc[a + i] = State(i)}
<1>2. 0 \in T
  BY <1>1 DEF Level
<1>3. ASSUME NEW i \in Nat, i \in T PROVE i + 1 \in T
  <2> SUFFICES ASSUME i + 1 <= Len(t) PROVE sc[a + (i + 1)] = State(i + 1)
    OBVIOUS
  <2> DEFINE s == State(i)
  <2>1. sc[a + i] = s
    BY <1>1, <1>3
  <2>2. s \in ScanState /\ s.eN = k /\ s.ePos = (q - 1) + i /\ s.lastEPos = q - 1
    BY <1>1 DEF ScanState
  <2>3. s.ePos + 1 = q + i /\ (q - 1) + (i + 1) = q + i
    BY <1>1, <2>2
  <2>4. i \in 0..(Len(t) - 1) /\ i + 1 \in 1..Len(t)
    BY <1>1
  <2> HIDE DEF s
  <2>5. At(data, q + i) = t[i + 1] /\ q + i < Len(data)
    BY <2>4, StandsAt
  <2>6. LastERound(data, s) = [eN |-> k, ePos |-> q + i, lastEPos |-> q - 1]
    <3>1. ~IsMark(At(data, s.ePos + 1)) /\ s.ePos + 1 < Len(data) /\ s.eN # 0
      BY <2>2, <2>3, <2>4, <2>5 DEF NoMarks
    <3>2. LastERound(data, s) = [eN |-> s.eN, ePos |-> s.ePos + 1, lastEPos |-> s.lastEPos]
      BY <2>2, <3>1, RoundAt
    <3> QED
      BY <2>2, <2>3, <3>2
  <2>7. a + (i + 1) \in 1..Len(data) /\ (a + (i + 1)) - 1 = a + i
    BY <1>1
  <2>8. sc[a + (i + 1)] = LastERound(data, s)
    BY <2>1, <2>7 DEF Rounds
  <2> QED
    BY <2>3, <2>6, <2>8
<1>4. Nat \subseteq T
  <2> HIDE DEF T
  <2> QED
    BY <1>2, <1>3, InductionInSet
<1> QED
  BY <1>1, <1>4

\* What number writes has no marks in it.
LEMMA NumberHasNoMarks ==
  ASSUME NEW i \in Int
  PROVE  NoMarks(number(i))
BY NumberIsPlain DEF IsMark, NoMarks

\* The scan passes over an integer: its 'i' opens what its 'e' closes.
LEMMA PassesInteger ==
  ASSUME NEW n \in Int
  PROVE  PassesOver(EncodeInteger(n))
<1> DEFINE num == number(n)
           I == <<"i">>
           E == <<"e">>
           p == I \o num
           c == p \o E
<1>1. /\ num \in ByteArray /\ p \in ByteArray /\ c \in ByteArray /\ EncodeInteger(n) = c
      /\ Len(c) = 2 + Len(num) /\ Len(num) \in Nat
  BY IntegerEncoding
<1>2. I \in ByteArray /\ Len(I) = 1 /\ I[1] = "i" /\ E \in ByteArray /\ Len(E) = 1 /\ E[1] = "e"
  BY Marks
<1>3. NoMarks(num)
  BY NumberHasNoMarks
<1>4. Len(p) = 1 + Len(num)
  <2> HIDE DEF I, num
  <2> QED
    BY <1>1, <1>2, Concatenated
<1> SUFFICES ASSUME NEW data \in ByteArray, NEW sc, NEW q \in Nat \ {0}, NEW a \in Nat, NEW k \in Nat \ {0},
                    Rounds(data, sc), Stands(data, q, c), sc[a] = Level(k, q - 1), a + Len(c) <= Len(data)
             PROVE  \E b \in a..(a + Len(c)) :
                      sc[b] = Level(k, q + Len(c) - 1) /\ \A m \in a..b : Sound(sc[m], q)
  BY <1>1 DEF PassesOver
<1>5. Stands(data, q, p) /\ Stands(data, q + Len(p), E)
  <2> HIDE DEF p, E
  <2> QED
    BY <1>1, <1>2, StandsSplit
<1>6. Stands(data, q, I) /\ Stands(data, q + 1, num)
  <2> HIDE DEF I, num
  <2> QED
    BY <1>1, <1>2, <1>5, StandsSplit
<1> HIDE DEF I, E, num, c, p
<1>7. Len(data) \in Nat /\ q + Len(c) <= Len(data)
  BY DEF ByteArray, Stands
<1> DEFINE L == Len(num)
<1>8. L \in Nat /\ Len(c) = 2 + L /\ Len(p) = 1 + L
  BY <1>1, <1>4
<1> HIDE DEF L
<1>9. At(data, q) = "i"
  <2>1. 0 \in 0..(Len(I) - 1) /\ q + 0 = q /\ 0 + 1 = 1
    BY <1>2
  <2>2. At(data, q + 0) = I[0 + 1]
    BY <1>2, <1>6, <2>1, StandsAt
  <2> QED
    BY <1>2, <2>1, <2>2
<1>10. At(data, (q + 1) + L) = "e"
  <2>1. 0 \in 0..(Len(E) - 1) /\ (q + Len(p)) + 0 = (q + 1) + L /\ 0 + 1 = 1 /\ q + Len(p) \in Nat
    BY <1>2, <1>8
  <2>2. At(data, (q + Len(p)) + 0) = E[0 + 1]
    BY <1>2, <1>5, <2>1, StandsAt
  <2> QED
    BY <1>2, <2>1, <2>2
<1>11. sc[a + 1] = Level(k + 1, q)
  <2> DEFINE s == Level(k, q - 1)
  <2>1. s \in ScanState /\ s.eN = k /\ s.ePos = q - 1
    <3>1. q - 1 \in Nat /\ q \in Nat /\ q <= (q - 1) + 1
      OBVIOUS
    <3> QED
      BY <3>1, LevelIsSound DEF Sound
  <2> HIDE DEF s
  <2>2. s.ePos + 1 = q /\ q < Len(data) /\ s.eN # 0
    BY <1>7, <1>8, <2>1
  <2>3. LastERound(data, s) = Level(s.eN + 1, s.ePos + 1)
    BY <1>9, <2>1, <2>2, RoundAt
  <2>4. a + 1 \in 1..Len(data) /\ (a + 1) - 1 = a
    BY <1>7, <1>8
  <2>5. sc[a + 1] = LastERound(data, s)
    BY <2>4 DEF Rounds, s
  <2> QED
    BY <2>1, <2>2, <2>3, <2>5
<1>12. \A i \in 0..L : sc[(a + 1) + i] = [eN |-> k + 1, ePos |-> q + i, lastEPos |-> q]
  <2>1. q + 1 \in Nat \ {0} /\ (q + 1) - 1 = q /\ a + 1 \in Nat /\ k + 1 \in Nat \ {0} /\ (a + 1) + L <= Len(data)
    BY <1>7, <1>8
  <2>2. sc[a + 1] = Level(k + 1, (q + 1) - 1)
    BY <1>11, <2>1
  <2>4. (a + 1) + Len(num) <= Len(data)
    BY <2>1 DEF L
  <2> DEFINE a1 == a + 1
             q1 == q + 1
             k1 == k + 1
  <2>5. /\ a1 \in Nat /\ q1 \in Nat \ {0} /\ k1 \in Nat \ {0} /\ a1 + Len(num) <= Len(data)
        /\ Stands(data, q1, num) /\ sc[a1] = Level(k1, q1 - 1)
    BY <1>6, <2>1, <2>2, <2>4
  <2> HIDE DEF a1, q1, k1
  <2>6. \A i \in 0..Len(num) : sc[a1 + i] = [eN |-> k1, ePos |-> (q1 - 1) + i, lastEPos |-> q1 - 1]
    <3>1. num \in ByteArray
      BY <1>1
    <3> QED
      BY <1>3, <2>5, <3>1, ScanPlain
  <2>3. \A i \in 0..Len(num) : sc[(a + 1) + i] = [eN |-> k + 1, ePos |-> ((q + 1) - 1) + i, lastEPos |-> (q + 1) - 1]
    BY <2>6 DEF a1, q1, k1
  <2> QED
    BY <2>1, <2>3 DEF L
<1>13. sc[a + Len(c)] = Level(k, q + Len(c) - 1)
  <2> DEFINE s == [eN |-> k + 1, ePos |-> q + L, lastEPos |-> q]
  <2>1. s \in ScanState /\ s.eN = k + 1 /\ s.ePos = q + L
    BY <1>8 DEF ScanState
  <2>2. sc[(a + 1) + L] = s
    BY <1>8, <1>12
  <2> HIDE DEF s
  <2>3. s.ePos + 1 = (q + 1) + L /\ s.ePos + 1 < Len(data) /\ s.eN # 0 /\ s.eN - 1 = k
    BY <1>7, <1>8, <2>1
  <2>4. LastERound(data, s) = Level(s.eN - 1, s.ePos + 1)
    BY <1>10, <2>1, <2>3, RoundAt
  <2>5. a + Len(c) \in 1..Len(data) /\ (a + Len(c)) - 1 = (a + 1) + L /\ (q + 1) + L = q + Len(c) - 1
    BY <1>7, <1>8
  <2>6. sc[a + Len(c)] = LastERound(data, s)
    BY <2>2, <2>5 DEF Rounds
  <2> QED
    BY <2>3, <2>4, <2>5, <2>6, Zenon
<1>14. ASSUME NEW m \in a..(a + Len(c)) PROVE Sound(sc[m], q)
  <2>1. m = a \/ m = a + Len(c) \/ (m - (a + 1) \in 0..L /\ (a + 1) + (m - (a + 1)) = m)
    BY <1>8
  <2>2. CASE m = a
    BY <2>2, LevelIsSound
  <2>3. CASE m = a + Len(c)
    <3>1. q + Len(c) - 1 \in Nat /\ q <= (q + Len(c) - 1) + 1
      BY <1>8
    <3> QED
      BY <1>13, <2>3, <3>1, LevelIsSound
  <2>4. CASE m - (a + 1) \in 0..L /\ (a + 1) + (m - (a + 1)) = m
    <3> DEFINE i == m - (a + 1)
    <3>1. i \in 0..L /\ sc[m] = [eN |-> k + 1, ePos |-> q + i, lastEPos |-> q]
      BY <1>12, <2>4
    <3> HIDE DEF i
    <3>2. i \in Nat
      BY <1>8, <3>1
    <3> QED
      BY <3>1, <3>2 DEF Sound, ScanState
  <2> QED
    BY <2>1, <2>2, <2>3, <2>4
<1>15. a + Len(c) \in a..(a + Len(c))
  BY <1>8
<1> QED
  BY <1>13, <1>14, <1>15

\* The scan passes over a string, whatever its bytes: the length before the
\* colon takes it behind the last one.
LEMMA PassesString ==
  ASSUME NEW t \in ByteArray
  PROVE  PassesOver(EncodeString(t))
<1> DEFINE num == number(Len(t))
           C == <<":">>
           p == num \o C
           c == p \o t
           L == Len(num)
<1>1. /\ num \in ByteArray /\ p \in ByteArray /\ c \in ByteArray /\ EncodeString(t) = c
      /\ Len(p) = L + 1 /\ Len(c) = (L + 1) + Len(t) /\ L \in Nat /\ Len(t) \in Nat
  <2>1. Len(t) \in Nat
    BY DEF ByteArray
  <2> QED
    BY <2>1, StringEncoding
<1>2. C \in ByteArray /\ Len(C) = 1 /\ C[1] = ":"
  BY Marks
<1>3. NoMarks(num) /\ toInt(num) = Len(t)
  <2>1. Len(t) \in Int
    BY <1>1
  <2> QED
    BY <2>1, NumberHasNoMarks, NumberIsRead
<1> SUFFICES ASSUME NEW data \in ByteArray, NEW sc, NEW q \in Nat \ {0}, NEW a \in Nat, NEW k \in Nat \ {0},
                    Rounds(data, sc), Stands(data, q, c), sc[a] = Level(k, q - 1), a + Len(c) <= Len(data)
             PROVE  \E b \in a..(a + Len(c)) :
                      sc[b] = Level(k, q + Len(c) - 1) /\ \A m \in a..b : Sound(sc[m], q)
  BY <1>1 DEF PassesOver
<1>4. Stands(data, q, p) /\ Stands(data, q + Len(p), t)
  <2> HIDE DEF p
  <2> QED
    BY <1>1, StandsSplit
<1>5. Stands(data, q, num) /\ Stands(data, q + Len(num), C)
  <2> HIDE DEF C, num
  <2> QED
    BY <1>1, <1>2, <1>4, StandsSplit
<1>6. Len(data) \in Nat /\ q + Len(c) <= Len(data)
  BY DEF ByteArray, Stands
<1>7. mid(data, q, L) = num
  BY <1>1, <1>5, StandsMid
<1> HIDE DEF num, C, p, c
<1>8. Stands(data, q + L, C)
  BY <1>5
<1>9. a + Len(num) <= Len(data)
  BY <1>1, <1>6
<1>10. \A i \in 0..L : sc[a + i] = [eN |-> k, ePos |-> (q - 1) + i, lastEPos |-> q - 1]
  BY <1>1, <1>3, <1>5, <1>9, ScanPlain
<1> HIDE DEF L
<1>11. At(data, q + L) = ":"
  <2>1. 0 \in 0..(Len(C) - 1) /\ (q + L) + 0 = q + L /\ 0 + 1 = 1 /\ q + L \in Nat
    BY <1>1, <1>2
  <2>2. At(data, (q + L) + 0) = C[0 + 1]
    BY <1>2, <1>8, <2>1, StandsAt
  <2> QED
    BY <1>2, <2>1, <2>2
<1> DEFINE b == (a + L) + 1
<1>12. sc[b] = Level(k, q + Len(c) - 1)
  <2> DEFINE s == [eN |-> k, ePos |-> (q - 1) + L, lastEPos |-> q - 1]
  <2>1. s \in ScanState /\ s.eN = k /\ s.ePos = (q - 1) + L /\ s.lastEPos = q - 1
    BY <1>1 DEF ScanState
  <2>2. sc[a + L] = s
    BY <1>1, <1>10
  <2> HIDE DEF s
  <2>3. /\ s.ePos + 1 = q + L /\ s.ePos + 1 < Len(data) /\ s.eN # 0
        /\ s.lastEPos + 1 = q /\ (q + L) - s.lastEPos - 1 = L
    BY <1>1, <1>6, <2>1
  <2>4. LastERound(data, s) =
          Level(s.eN, (s.ePos + 1) + toInt(mid(data, s.lastEPos + 1, (s.ePos + 1) - s.lastEPos - 1)))
    BY <1>11, <2>1, <2>3, RoundAt
  <2>5. LastERound(data, s) = Level(k, (q + L) + Len(t))
    BY <1>3, <1>7, <2>1, <2>3, <2>4
  <2>6. b \in 1..Len(data) /\ b - 1 = a + L /\ (q + L) + Len(t) = q + Len(c) - 1
    BY <1>1, <1>6
  <2>7. sc[b] = LastERound(data, s)
    BY <2>2, <2>6 DEF Rounds
  <2> QED
    BY <2>5, <2>6, <2>7
<1>13. ASSUME NEW m \in a..b PROVE Sound(sc[m], q)
  <2>1. m = b \/ (m - a \in 0..L /\ a + (m - a) = m)
    BY <1>1
  <2>2. CASE m = b
    <3>1. q + Len(c) - 1 \in Nat /\ q <= (q + Len(c) - 1) + 1
      BY <1>1
    <3> DEFINE e == q + Len(c) - 1
    <3>2. e \in Nat /\ q <= e + 1 /\ sc[m] = Level(k, e)
      BY <1>12, <2>2, <3>1, Zenon
    <3> HIDE DEF e
    <3>3. k \in Nat /\ q \in Nat
      BY <1>1
    <3>4. Sound(Level(k, e), q)
      BY <3>2, <3>3, LevelIsSound
    <3> QED
      BY <3>2, <3>4, Zenon
  <2>3. CASE m - a \in 0..L /\ a + (m - a) = m
    <3> DEFINE i == m - a
    <3>1. i \in 0..L /\ sc[m] = [eN |-> k, ePos |-> (q - 1) + i, lastEPos |-> q - 1]
      BY <1>10, <2>3
    <3> HIDE DEF i
    <3>2. i \in Nat
      BY <1>1, <3>1
    <3> QED
      BY <3>1, <3>2 DEF Sound, ScanState
  <2> QED
    BY <2>1, <2>2, <2>3
<1>14. b \in a..(a + Len(c))
  BY <1>1
<1> HIDE DEF b
<1> QED
  BY <1>12, <1>13, <1>14

\* The marks around what is nested.
LEMMA BracketsStand ==
  ASSUME NEW data \in ByteArray, NEW q \in Nat, NEW m \in {"l", "d"}, NEW body \in ByteArray,
         Stands(data, q, (<<m>> \o body) \o <<"e">>)
  PROVE  /\ At(data, q) = m /\ Stands(data, q + 1, body)
         /\ At(data, (q + 1) + Len(body)) = "e"
         /\ (q + 2) + Len(body) <= Len(data) /\ Len(body) \in Nat /\ Len(data) \in Nat
<1> DEFINE M == <<m>>
           E == <<"e">>
           p == M \o body
           c == p \o E
<1>1. M \in ByteArray /\ Len(M) = 1 /\ M[1] = m /\ E \in ByteArray /\ Len(E) = 1 /\ E[1] = "e"
  BY Marks
<1>2. p \in ByteArray /\ Len(p) = 1 + Len(body) /\ c \in ByteArray /\ Len(c) = 2 + Len(body)
      /\ Len(body) \in Nat
  BY Bracketed
<1>3. Stands(data, q, p) /\ Stands(data, q + Len(p), E)
  <2>1. Stands(data, q, p \o E)
    OBVIOUS
  <2> HIDE DEF p, E
  <2> QED
    BY <1>1, <1>2, <2>1, StandsSplit
<1>4. Stands(data, q, M) /\ Stands(data, q + 1, body)
  <2> HIDE DEF M
  <2> QED
    BY <1>1, <1>3, StandsSplit
<1> HIDE DEF M, E, p, c
<1>5. At(data, q) = m
  <2>1. 0 \in 0..(Len(M) - 1) /\ q + 0 = q /\ 0 + 1 = 1
    BY <1>1
  <2>2. At(data, q + 0) = M[0 + 1]
    BY <1>1, <1>4, <2>1, StandsAt
  <2> QED
    BY <1>1, <2>1, <2>2
<1>6. At(data, (q + 1) + Len(body)) = "e"
  <2>1. 0 \in 0..(Len(E) - 1) /\ (q + Len(p)) + 0 = (q + 1) + Len(body) /\ 0 + 1 = 1 /\ q + Len(p) \in Nat
    BY <1>1, <1>2
  <2>2. At(data, (q + Len(p)) + 0) = E[0 + 1]
    BY <1>1, <1>3, <2>1, StandsAt
  <2> QED
    BY <1>1, <2>1, <2>2
<1>7. q + Len(c) <= Len(data) /\ Len(data) \in Nat
  BY DEF c, p, M, E, Stands, ByteArray
<1>8. (q + 2) + Len(body) <= Len(data)
  BY <1>2, <1>7
<1> QED
  BY <1>2, <1>4, <1>5, <1>6, <1>7, <1>8

\* A round at a mark, from a level.
LEMMA RoundAtMark ==
  ASSUME NEW data \in ByteArray, NEW sc, Rounds(data, sc), NEW a \in Nat, a + 1 <= Len(data),
         NEW k \in Nat \ {0}, NEW p \in Nat \ {0}, p < Len(data), sc[a] = Level(k, p - 1)
  PROVE  /\ At(data, p) = "e" => sc[a + 1] = Level(k - 1, p)
         /\ At(data, p) \in {"l", "d"} => sc[a + 1] = Level(k + 1, p)
<1>0. Len(data) \in Nat
  BY DEF ByteArray
<1> DEFINE s == Level(k, p - 1)
<1>1. s \in ScanState /\ s.eN = k /\ s.ePos = p - 1
  <2>1. p - 1 \in Nat /\ p \in Nat /\ p <= (p - 1) + 1
    OBVIOUS
  <2> QED
    BY <2>1, LevelIsSound DEF Sound
<1> HIDE DEF s
<1>2. s.ePos + 1 = p /\ p < Len(data) /\ s.eN # 0
  BY <1>1
<1>3. a + 1 \in 1..Len(data) /\ (a + 1) - 1 = a
  BY <1>0
<1>4. sc[a + 1] = LastERound(data, s)
  BY <1>3 DEF Rounds, s
<1>5. At(data, p) = "e" => LastERound(data, s) = Level(s.eN - 1, s.ePos + 1)
  BY <1>1, <1>2, RoundAt
<1>6. At(data, p) \in {"l", "d"} => LastERound(data, s) = Level(s.eN + 1, s.ePos + 1)
  BY <1>1, <1>2, RoundAt
<1> QED
  BY <1>1, <1>2, <1>4, <1>5, <1>6

\* The scan passes over a container whose body it passes over.
LEMMA PassesContainer ==
  ASSUME NEW m \in {"l", "d"}, NEW body \in ByteArray, PassesOver(body)
  PROVE  PassesOver((<<m>> \o body) \o <<"e">>)
<1> DEFINE c == (<<m>> \o body) \o <<"e">>
           L == Len(body)
<1>1. Len(c) = 2 + L /\ L \in Nat
  BY Bracketed
<1> SUFFICES ASSUME NEW data \in ByteArray, NEW sc, NEW q \in Nat \ {0}, NEW a \in Nat, NEW k \in Nat \ {0},
                    Rounds(data, sc), Stands(data, q, c), sc[a] = Level(k, q - 1), a + Len(c) <= Len(data)
             PROVE  \E b \in a..(a + Len(c)) :
                      sc[b] = Level(k, q + Len(c) - 1) /\ \A n \in a..b : Sound(sc[n], q)
  BY DEF PassesOver
<1>2. /\ At(data, q) = m /\ Stands(data, q + 1, body)
      /\ At(data, (q + 1) + L) = "e" /\ (q + 2) + L <= Len(data) /\ Len(data) \in Nat
  BY BracketsStand
<1> HIDE DEF c
<1>3. sc[a + 1] = Level(k + 1, q)
  <2>1. a + 1 <= Len(data) /\ q < Len(data)
    BY <1>1, <1>2
  <2> QED
    BY <1>2, <2>1, RoundAtMark
<1> DEFINE r == q + 1
           a1 == a + 1
           k1 == k + 1
<1>4. /\ r \in Nat \ {0} /\ a1 \in Nat /\ k1 \in Nat \ {0} /\ a1 + L <= Len(data)
      /\ Stands(data, r, body) /\ sc[a1] = Level(k1, r - 1)
  <2>1. r - 1 = q
    OBVIOUS
  <2> QED
    BY <1>1, <1>2, <1>3, <2>1
<1> HIDE DEF r, a1, k1
<1>5. PICK b1 \in a1..(a1 + L) : sc[b1] = Level(k1, r + L - 1) /\ \A n \in a1..b1 : Sound(sc[n], r)
  BY <1>4 DEF PassesOver
<1> HIDE DEF L
<1> DEFINE p == (q + 1) + L
           b == b1 + 1
<1>6. p \in Nat \ {0} /\ p < Len(data) /\ r + L - 1 = p - 1 /\ b1 \in Nat /\ b1 + 1 <= Len(data)
      /\ p = q + Len(c) - 1 /\ b \in a..(a + Len(c)) /\ k1 - 1 = k
  BY <1>1, <1>2, <1>4 DEF r, a1, k1
<1>7. sc[b] = Level(k, q + Len(c) - 1)
  <2> HIDE DEF p
  <2>1. At(data, p) = "e"
    BY <1>2 DEF p
  <2>2. sc[b1 + 1] = Level(k1 - 1, p)
    <3>1. sc[b1] = Level(k1, p - 1)
      BY <1>5, <1>6
    <3>2. b1 \in Nat /\ b1 + 1 <= Len(data) /\ p \in Nat \ {0} /\ p < Len(data)
      BY <1>6
    <3>3. k1 \in Nat \ {0}
      BY <1>4
    <3> HIDE DEF b
    <3> QED
      BY <2>1, <3>1, <3>2, <3>3, RoundAtMark
  <2> QED
    BY <1>6, <2>2
<1>8. ASSUME NEW n \in a..b PROVE Sound(sc[n], q)
  <2>1. n = a \/ n = b \/ n \in a1..b1
    BY <1>6 DEF a1
  <2>2. CASE n = a
    <3>1. q - 1 \in Nat /\ q <= (q - 1) + 1
      OBVIOUS
    <3> QED
      BY <2>2, <3>1, LevelIsSound
  <2>3. CASE n = b
    <3>1. q + Len(c) - 1 \in Nat /\ q <= (q + Len(c) - 1) + 1
      BY <1>1
    <3> QED
      BY <1>7, <2>3, <3>1, LevelIsSound
  <2>4. CASE n \in a1..b1
    <3>1. Sound(sc[n], r)
      BY <1>5, <2>4
    <3> QED
      BY <3>1 DEF r, Sound, ScanState
  <2> QED
    BY <2>1, <2>2, <2>3, <2>4
<1> HIDE DEF b
<1> QED
  BY <1>6, <1>7, <1>8

\* The scan passes over each piece of a container, if it passes over what is
\* nested in it.
LEMMA PiecesPass ==
  ASSUME NEW n \in 0..Depth, NEW v \in Containers(n), \A w \in Tree[n - 1] : PassesOver(Encoder[n - 1][w])
  PROVE  /\ Pieces(n, v) \in Seq(ByteArray)
         /\ \A j \in 1..Len(Pieces(n, v)) : PassesOver(Pieces(n, v)[j])
<1>0. Pieces(n, v) \in Seq(ByteArray)
  BY ContainerShape, EncodingIsBytes, PiecesAreBytes
<1> SUFFICES ASSUME NEW j \in 1..Len(Pieces(n, v)) PROVE PassesOver(Pieces(n, v)[j])
  BY <1>0
<1>1. CASE v[1] = "list"
  <2>1. v[2] \in Seq(Tree[n - 1])
    BY <1>1, ContainerShape
  <2>2. DOMAIN v[2] = 1..Len(v[2]) /\ Len(v[2]) \in Nat /\ \A i \in 1..Len(v[2]) : v[2][i] \in Tree[n - 1]
    BY <2>1
  <2>3. Pieces(n, v) = [i \in 1..Len(v[2]) |-> Encoder[n - 1][v[2][i]]]
    BY <1>1, <2>2 DEF Pieces
  <2>4. j \in 1..Len(v[2])
    BY <2>2, <2>3
  <2>5. Pieces(n, v)[j] = Encoder[n - 1][v[2][j]] /\ v[2][j] \in Tree[n - 1]
    BY <2>2, <2>3, <2>4
  <2> QED
    BY <2>5
<1>2. CASE v[1] = "dict"
  <2>1. v[2] \in Maps(Tree[n - 1])
    BY <1>2, ContainerShape
  <2>2. Pieces(n, v) = [i \in 1..Len(KeyOrder) |->
                          IF v[2][KeyOrder[i]] = Absent THEN <<>>
                          ELSE EncodeString(KeyOrder[i]) \o Encoder[n - 1][v[2][KeyOrder[i]]]]
    BY <1>2, OrderedKeys DEF Pieces
  <2>3. j \in DOMAIN KeyOrder
    BY <2>2, OrderedKeys
  <2> DEFINE k == KeyOrder[j]
             w == v[2][k]
  <2>4. Pieces(n, v)[j] = IF w = Absent THEN <<>> ELSE EncodeString(k) \o Encoder[n - 1][w]
    BY <2>2, <2>3, OrderedKeys
  <2>5. k \in Keys /\ k \in ByteArray
    BY <2>3, OrderedKeys
  <2>6. w = Absent \/ w \in Tree[n - 1]
    BY <2>1, <2>5 DEF Maps
  <2> HIDE DEF k, w
  <2>7. CASE w = Absent
    BY <2>4, <2>7, PassesNothing
  <2>8. CASE w # Absent
    <3>1. EncodeString(k) \in ByteArray /\ PassesOver(EncodeString(k))
      BY <2>5, StringEncoding, PassesString
    <3>2. Encoder[n - 1][w] \in ByteArray /\ PassesOver(Encoder[n - 1][w])
      BY <2>6, <2>8, ContainerShape, EncodingIsBytes
    <3>3. PassesOver(EncodeString(k) \o Encoder[n - 1][w])
      BY <3>1, <3>2, PassesTwo
    <3> QED
      BY <2>4, <2>8, <3>3
  <2> QED
    BY <2>7, <2>8
<1> QED
  BY <1>1, <1>2 DEF Containers

\* The scan passes over the pieces of a container and over the container.
LEMMA BodyPasses ==
  ASSUME NEW n \in 0..Depth, NEW v \in Containers(n), \A w \in Tree[n - 1] : PassesOver(Encoder[n - 1][w])
  PROVE  /\ Join(Pieces(n, v)) \in ByteArray /\ PassesOver(Join(Pieces(n, v)))
         /\ Encoder[n][v] = (<<Mark(v)>> \o Join(Pieces(n, v))) \o <<"e">> /\ Mark(v) \in {"l", "d"}
         /\ PassesOver(Encoder[n][v])
<1>1. Pieces(n, v) \in Seq(ByteArray) /\ \A j \in 1..Len(Pieces(n, v)) : PassesOver(Pieces(n, v)[j])
  BY PiecesPass
<1>2. Join(Pieces(n, v)) \in ByteArray /\ PassesOver(Join(Pieces(n, v)))
  BY <1>1, PassesJoin
<1>3. Encoder[n][v] = (<<Mark(v)>> \o Join(Pieces(n, v))) \o <<"e">> /\ Mark(v) \in {"l", "d"}
  BY ContainerIsEncoded DEF Mark
<1>4. PassesOver((<<Mark(v)>> \o Join(Pieces(n, v))) \o <<"e">>)
  BY <1>2, <1>3, PassesContainer
<1> QED
  BY <1>2, <1>3, <1>4

\* The scan passes over every encoded value.
LEMMA EncodingPasses ==
  ASSUME NEW n \in 0..Depth
  PROVE  \A v \in Tree[n] : PassesOver(Encoder[n][v])
<1> DEFINE Passed(m) == \A v \in Tree[m] : PassesOver(Encoder[m][v])
           T == {m \in Nat : m <= Depth => Passed(m)}
<1>1. ASSUME NEW m \in 0..Depth, m = 0 \/ Passed(m - 1), NEW v \in Tree[m]
      PROVE  PassesOver(Encoder[m][v])
  <2>1. CASE v \in Scalars
    BY <2>1, ScalarsAreEncoded, ScalarEncoding, PassesInteger, PassesString
  <2>2. CASE v \notin Scalars
    <3>1. v \in Containers(m)
      BY <2>2, TreeShape DEF Containers
    <3>2. m # 0
      BY <3>1, ContainerShape
    <3> QED
      BY <1>1, <3>1, <3>2, BodyPasses
  <2> QED
    BY <2>1, <2>2
<1>2. 0 \in T
  <2>1. 0 \in 0..Depth
    BY ValuesAssumption
  <2> QED
    BY <1>1, <2>1
<1>3. ASSUME NEW m \in Nat, m \in T PROVE m + 1 \in T
  <2>1. ASSUME m + 1 <= Depth PROVE Passed(m + 1)
    <3>1. m + 1 \in 0..Depth /\ (m + 1) - 1 = m /\ m <= Depth
      BY <2>1, ValuesAssumption
    <3>2. Passed(m)
      BY <1>3, <3>1
    <3> QED
      BY <1>1, <3>1, <3>2
  <2> HIDE DEF Passed
  <2> QED
    BY <2>1
<1>4. n \in T
  <2> HIDE DEF T
  <2>1. Nat \subseteq T
    BY <1>2, <1>3, InductionInSet
  <2> QED
    BY <2>1, ValuesAssumption
<1> QED
  BY <1>4, ValuesAssumption

\* Nothing more happens when nothing is open.
LEMMA ScanRests ==
  ASSUME NEW data \in ByteArray, NEW sc, Rounds(data, sc), NEW b \in Nat, sc[b].eN = 0
  PROVE  \A n \in b..Len(data) : sc[n] = sc[b]
<1>0. Len(data) \in Nat
  BY DEF ByteArray
<1> DEFINE T == {i \in Nat : b + i <= Len(data) => sc[b + i] = sc[b]}
<1>1. 0 \in T
  OBVIOUS
<1>2. ASSUME NEW i \in Nat, i \in T PROVE i + 1 \in T
  <2> SUFFICES ASSUME b + (i + 1) <= Len(data) PROVE sc[b + (i + 1)] = sc[b]
    OBVIOUS
  <2>1. b + (i + 1) \in 1..Len(data) /\ (b + (i + 1)) - 1 = b + i /\ b + i <= Len(data)
    BY <1>0
  <2>2. sc[b + i] = sc[b]
    BY <1>2, <2>1
  <2>3. sc[b + (i + 1)] = LastERound(data, sc[b])
    BY <2>1, <2>2 DEF Rounds
  <2> QED
    BY <2>3 DEF LastERound
<1>3. Nat \subseteq T
  <2> HIDE DEF T
  <2> QED
    BY <1>1, <1>2, InductionInSet
<1>4. ASSUME NEW n \in b..Len(data) PROVE sc[n] = sc[b]
  <2>1. n - b \in Nat /\ b + (n - b) = n /\ n <= Len(data)
    BY <1>0
  <2> QED
    BY <1>3, <2>1
<1> QED
  BY <1>4

\* The scan from the beginning of a container to its end.
LEMMA ScanOfContainer ==
  ASSUME NEW data \in ByteArray, NEW pos \in Nat, NEW m \in {"l", "d"}, NEW body \in ByteArray,
         PassesOver(body), Stands(data, pos, (<<m>> \o body) \o <<"e">>),
         NEW sc, Rounds(data, sc), sc[0] = Level(1, pos)
  PROVE  \E b \in 1..Len(data) : /\ sc[b] = Level(0, (pos + 1) + Len(body))
                                 /\ \A n \in 0..(b - 1) : Sound(sc[n], pos + 1)
<1>1. /\ Stands(data, pos + 1, body) /\ At(data, (pos + 1) + Len(body)) = "e"
      /\ (pos + 2) + Len(body) <= Len(data) /\ Len(body) \in Nat /\ Len(data) \in Nat
  BY BracketsStand
<1> DEFINE q == pos + 1
           a == 0
           k == 1
<1>2. /\ q \in Nat \ {0} /\ a \in Nat /\ k \in Nat \ {0} /\ a + Len(body) <= Len(data)
      /\ Stands(data, q, body) /\ sc[a] = Level(k, q - 1)
  <2>1. q - 1 = pos
    OBVIOUS
  <2> QED
    BY <1>1, <2>1
<1> HIDE DEF q, a, k
<1>3. PICK b \in a..(a + Len(body)) : sc[b] = Level(k, q + Len(body) - 1) /\ \A n \in a..b : Sound(sc[n], q)
  BY <1>2 DEF PassesOver
<1> DEFINE p == q + Len(body)
<1>5. p \in Nat \ {0} /\ p < Len(data) /\ b \in Nat /\ b + 1 <= Len(data)
      /\ b + 1 \in 1..Len(data) /\ (b + 1) - 1 = b /\ p - 1 = q + Len(body) - 1 /\ b \in 0..b
  BY <1>1, <1>2 DEF q, a
<1>6. At(data, p) = "e" /\ sc[b] = Level(k, p - 1)
  BY <1>1, <1>3, <1>5 DEF q
<1>7. sc[b + 1] = Level(0, p)
  <2>1. p \in Nat \ {0} /\ p < Len(data) /\ b \in Nat /\ b + 1 <= Len(data) /\ k \in Nat \ {0} /\ k - 1 = 0
    BY <1>5 DEF k
  <2> HIDE DEF p
  <2>2. sc[b + 1] = Level(k - 1, p)
    BY <1>6, <2>1, RoundAtMark
  <2> QED
    BY <2>1, <2>2
<1>8. \A n \in 0..((b + 1) - 1) : Sound(sc[n], pos + 1)
  BY <1>3, <1>5 DEF q, a
<1> QED
  BY <1>5, <1>7, <1>8 DEF q

\* getLastE finds the end of a container.
LEMMA LastEFound ==
  ASSUME NEW data \in ByteArray, NEW pos \in Nat, NEW m \in {"l", "d"}, NEW body \in ByteArray,
         PassesOver(body), Stands(data, pos, (<<m>> \o body) \o <<"e">>)
  PROVE  getLastE(data, pos) = (pos + 1) + Len(body)
<1>1. PICK sc : /\ sc[0] = Level(1, pos) /\ Rounds(data, sc)
                /\ getLastE(data, pos) =
                     IF sc[Len(data)].eN # 0 \/ sc[Len(data)].ePos >= Len(data) THEN -1
                     ELSE sc[Len(data)].ePos
  BY ScanExists
<1> DEFINE e == (pos + 1) + Len(body)
<1>2. PICK b \in 1..Len(data) : sc[b] = Level(0, e) /\ \A n \in 0..(b - 1) : Sound(sc[n], pos + 1)
  BY <1>1, ScanOfContainer
<1>3. e \in Nat /\ e < Len(data) /\ Len(data) \in Nat
  <2>1. (pos + 2) + Len(body) <= Len(data) /\ Len(body) \in Nat /\ Len(data) \in Nat
    BY BracketsStand
  <2> QED
    BY <2>1
<1> HIDE DEF e
<1>4. sc[b].eN = 0 /\ sc[b].ePos = e
  BY <1>2 DEF Level
<1>5. sc[Len(data)] = sc[b]
  <2>1. b \in Nat /\ Len(data) \in b..Len(data)
    BY <1>3
  <2> QED
    BY <1>1, <1>4, <2>1, ScanRests
<1> QED
  BY <1>1, <1>3, <1>4, <1>5 DEF e

-----------------------------------------------------------------------------
(* What is left of a byte array that lost its end *)

\* The leading bytes of a byte array are where they were.
LEMMA LeadingBytes ==
  ASSUME NEW W \in ByteArray, NEW L \in 0..Len(W)
  PROVE  /\ SubSeq(W, 1, L) \in ByteArray /\ Len(SubSeq(W, 1, L)) = L
         /\ \A k \in 1..L : SubSeq(W, 1, L)[k] = W[k]
         /\ \A p \in 0..(L - 1) : At(SubSeq(W, 1, L), p) = At(W, p)
<1> DEFINE data == SubSeq(W, 1, L)
<1>1. Len(W) \in Nat /\ L \in Nat /\ L <= Len(W) /\ W \in Seq(Byte)
  BY DEF ByteArray
<1>2. data \in Seq(Byte) /\ Len(data) = L /\ \A k \in 1..L : data[k] = W[k]
  BY <1>1
<1> HIDE DEF data
<1>3. ASSUME NEW p \in 0..(L - 1) PROVE At(data, p) = At(W, p)
  <2>1. p + 1 \in 1..L /\ p \in 0..(Len(W) - 1)
    BY <1>1
  <2> QED
    BY <1>2, <2>1 DEF At
<1> QED
  BY <1>2, <1>3 DEF data, ByteArray

\* What stands before the cut stands there still.
LEMMA LeadingStand ==
  ASSUME NEW W \in ByteArray, NEW L \in 0..Len(W), NEW pos \in Nat, NEW p \in ByteArray,
         Stands(W, pos, p), pos + Len(p) <= L
  PROVE  Stands(SubSeq(W, 1, L), pos, p)
<1> DEFINE data == SubSeq(W, 1, L)
<1>1. Len(data) = L /\ \A k \in 1..L : data[k] = W[k]
  BY LeadingBytes
<1>2. Len(W) \in Nat /\ L \in Nat /\ Len(p) \in Nat
  BY DEF ByteArray
<1> HIDE DEF data
<1>3. ASSUME NEW k \in 1..Len(p) PROVE data[pos + k] = p[k]
  <2>1. pos + k \in 1..L
    BY <1>2
  <2>2. W[pos + k] = p[k]
    BY DEF Stands
  <2> QED
    BY <1>1, <2>1, <2>2
<1> QED
  BY <1>1, <1>3 DEF Stands, data

\* Before the cut a part is what it was.
LEMMA LeadingMid ==
  ASSUME NEW W \in ByteArray, NEW L \in 0..Len(W), NEW p \in Nat, NEW n \in Nat, p + n <= L
  PROVE  mid(SubSeq(W, 1, L), p, n) = mid(W, p, n)
<1> DEFINE data == SubSeq(W, 1, L)
<1>1. Len(data) = L /\ data \in Seq(Byte) /\ \A k \in 1..L : data[k] = W[k]
  BY LeadingBytes DEF ByteArray
<1>2. Len(W) \in Nat /\ L \in Nat /\ L <= Len(W) /\ W \in Seq(Byte)
  BY DEF ByteArray
<1> HIDE DEF data
<1>3. mid(data, p, n) = SubSeq(data, p + 1, p + n) /\ mid(W, p, n) = SubSeq(W, p + 1, p + n)
  BY <1>1, <1>2 DEF mid
<1>4. SubSeq(data, p + 1, p + n) = SubSeq(W, p + 1, p + n)
  <2> DEFINE s == SubSeq(data, p + 1, p + n)
             t == SubSeq(W, p + 1, p + n)
  <2>1. s \in Seq(Byte) /\ Len(s) = n /\ \A k \in 1..n : s[k] = data[p + k]
    BY <1>1, <1>2
  <2>2. t \in Seq(Byte) /\ Len(t) = n /\ \A k \in 1..n : t[k] = W[p + k]
    BY <1>2
  <2>3. \A k \in 1..n : p + k \in 1..L
    BY <1>2
  <2>4. \A k \in 1..n : s[k] = t[k]
    BY <1>1, <2>1, <2>2, <2>3
  <2> HIDE DEF s, t
  <2>5. s = t
    BY <2>1, <2>2, <2>4
  <2> QED
    BY <2>5 DEF s, t
<1> QED
  BY <1>3, <1>4 DEF data

\* A round of the scan goes as it went before the end was lost, or comes to
\* the cut.
LEMMA RoundBeforeCut ==
  ASSUME NEW W \in ByteArray, NEW L \in 0..Len(W), NEW q \in Nat, NEW s, Sound(s, q), s.ePos < L
  PROVE  LET data == SubSeq(W, 1, L)
         IN  LastERound(data, s).ePos >= L \/ LastERound(data, s) = LastERound(W, s)
<1> DEFINE data == SubSeq(W, 1, L)
           p == s.ePos + 1
<1>1. Len(data) = L /\ \A k \in 0..(L - 1) : At(data, k) = At(W, k)
  BY LeadingBytes
<1>2. /\ s.eN \in Nat /\ s.ePos \in Nat /\ s.lastEPos \in Nat /\ s.lastEPos <= s.ePos
      /\ s = [eN |-> s.eN, ePos |-> s.ePos, lastEPos |-> s.lastEPos]
      /\ Len(W) \in Nat /\ L \in Nat /\ L <= Len(W)
  BY DEF Sound, ScanState, ByteArray
<1>3. CASE p = L
  <2>1. At(data, p) = ""
    <3>1. p \notin 0..(L - 1)
      BY <1>2, <1>3
    <3> HIDE DEF p, data
    <3> QED
      BY <1>1, <3>1 DEF At
  <2> HIDE DEF data
  <2>2. CASE s.eN = 0
    <3>1. LastERound(data, s) = s /\ LastERound(W, s) = s
      BY <2>2 DEF LastERound
    <3> QED
      BY <3>1 DEF data
  <2>3. CASE s.eN # 0
    <3>1. ~(s.eN = 0 \/ s.ePos >= Len(data))
      BY <1>1, <1>2, <2>3
    <3>2. LastERound(data, s) = [s EXCEPT !.ePos = p]
      BY <2>1, <3>1 DEF LastERound
    <3>3. LastERound(data, s).ePos = p
      BY <1>2, <3>2
    <3> QED
      BY <1>2, <1>3, <3>3 DEF data
  <2> QED
    BY <2>2, <2>3
<1>4. CASE p < L
  <2> DEFINE n == p - s.lastEPos - 1
  <2>1. At(data, p) = At(W, p)
    BY <1>1, <1>2, <1>4
  <2>2. mid(data, s.lastEPos + 1, n) = mid(W, s.lastEPos + 1, n)
    <3>0. \A x, y \in Nat : y <= x =>
            /\ y + 1 \in Nat /\ (x + 1) - y - 1 \in Nat /\ (y + 1) + ((x + 1) - y - 1) = x + 1
      OBVIOUS
    <3>1. s.lastEPos + 1 \in Nat /\ n \in Nat /\ (s.lastEPos + 1) + n = p
      BY <1>2, <3>0
    <3>2. (s.lastEPos + 1) + n <= L
      BY <1>2, <1>4, <3>1
    <3> HIDE DEF n
    <3> QED
      BY <3>1, <3>2, LeadingMid
  <2>3. (s.ePos >= Len(data)) = (s.ePos >= Len(W))
    BY <1>1, <1>2, <1>4
  <2> HIDE DEF data
  <2>4. LastERound(data, s) = LastERound(W, s)
    BY <2>1, <2>2, <2>3 DEF LastERound
  <2> QED
    BY <2>4 DEF data
<1>5. p = L \/ p < L
  BY <1>2
<1> HIDE DEF p, data
<1> QED
  BY <1>3, <1>4, <1>5 DEF data

\* getLastE does not find the end of a container that was lost.
LEMMA LastECut ==
  ASSUME NEW W \in ByteArray, NEW L \in 0..Len(W), NEW pos \in Nat, NEW m \in {"l", "d"}, NEW body \in ByteArray,
         PassesOver(body), Stands(W, pos, (<<m>> \o body) \o <<"e">>),
         pos < L, L <= (pos + 1) + Len(body)
  PROVE  getLastE(SubSeq(W, 1, L), pos) = -1
<1> DEFINE data == SubSeq(W, 1, L)
           e == (pos + 1) + Len(body)
<1>1. data \in ByteArray /\ Len(data) = L
  BY LeadingBytes
<1>2. Len(W) \in Nat /\ L \in Nat /\ L <= Len(W) /\ e \in Nat /\ L <= e
  BY DEF ByteArray
<1>3. PICK scW : scW[0] = Level(1, pos) /\ Rounds(W, scW)
  BY ScanExists
<1>4. PICK b \in 1..Len(W) : scW[b] = Level(0, e) /\ \A n \in 0..(b - 1) : Sound(scW[n], pos + 1)
  BY <1>3, ScanOfContainer
<1> HIDE DEF data, e
<1>5. PICK sc : /\ sc[0] = Level(1, pos) /\ Rounds(data, sc)
                /\ getLastE(data, pos) =
                     IF sc[Len(data)].eN # 0 \/ sc[Len(data)].ePos >= Len(data) THEN -1
                     ELSE sc[Len(data)].ePos
  BY <1>1, ScanExists
<1>6. scW[b].eN = 0 /\ scW[b].ePos = e /\ b \in Nat
  BY <1>4 DEF Level
<1> DEFINE Far(n) == sc[n].ePos >= L
           Same(n) == n < b /\ sc[n] = scW[n]
           T == {n \in Nat : n <= L => Far(n) \/ Same(n)}
<1>7. 0 \in T
  BY <1>3, <1>4, <1>5
<1>8. ASSUME NEW n \in Nat, n \in T PROVE n + 1 \in T
  <2> SUFFICES ASSUME n + 1 <= L PROVE Far(n + 1) \/ Same(n + 1)
    OBVIOUS
  <2>1. n + 1 \in 1..Len(data) /\ n + 1 \in 1..Len(W) /\ (n + 1) - 1 = n /\ n <= L
    BY <1>1, <1>2
  <2>2. sc[n + 1] = LastERound(data, sc[n]) /\ scW[n + 1] = LastERound(W, scW[n])
    BY <1>3, <1>5, <2>1 DEF Rounds
  <2>3. CASE Far(n)
    <3>1. LastERound(data, sc[n]) = sc[n]
      BY <1>1, <2>3 DEF LastERound
    <3> QED
      BY <2>2, <2>3, <3>1
  <2>4. CASE ~Far(n) /\ Same(n)
    <3> DEFINE s == sc[n]
    <3>1. Sound(s, pos + 1) /\ s = scW[n]
      BY <1>6, <2>4, <1>4
    <3>2. s.ePos < L
      BY <1>2, <2>4, <3>1 DEF Sound, ScanState
    <3> HIDE DEF s
    <3>3. LastERound(data, s).ePos >= L \/ LastERound(data, s) = LastERound(W, s)
      BY <3>1, <3>2, RoundBeforeCut DEF data
    <3>4. Far(n + 1) \/ sc[n + 1] = scW[n + 1]
      BY <2>2, <3>1, <3>3 DEF s
    <3>5. n + 1 < b \/ n + 1 = b
      BY <1>6, <2>4
    <3>6. n + 1 = b => scW[n + 1].ePos >= L
      BY <1>2, <1>6
    <3> QED
      BY <3>4, <3>5, <3>6
  <2>5. Far(n) \/ Same(n)
    BY <1>8, <2>1
  <2> QED
    BY <2>3, <2>4, <2>5
<1>9. Far(L) \/ Same(L)
  <2> HIDE DEF T
  <2>1. Nat \subseteq T
    BY <1>7, <1>8, InductionInSet
  <2> USE DEF T
  <2> QED
    BY <1>2, <2>1
<1>10. ASSUME Same(L), sc[L].eN = 0 PROVE Far(L)
  <2>1. \A n \in L..Len(W) : scW[n] = scW[L]
    BY <1>2, <1>3, <1>10, ScanRests
  <2>2. b \in L..Len(W)
    BY <1>2, <1>6, <1>10
  <2>3. sc[L].ePos = e
    BY <1>6, <1>10, <2>1, <2>2
  <2> QED
    BY <1>2, <2>3
<1>11. sc[L].eN # 0 \/ Far(L)
  BY <1>9, <1>10
<1> QED
  BY <1>1, <1>5, <1>11 DEF data

-----------------------------------------------------------------------------
(* Strings and integers, decoded *)

\* Where the parts of an encoded integer stand.
LEMMA IntegerStands ==
  ASSUME NEW data \in ByteArray, NEW pos \in Nat, NEW n \in Int, Stands(data, pos, EncodeInteger(n))
  PROVE  /\ At(data, pos) = "i" /\ Stands(data, pos + 1, number(n))
         /\ At(data, (pos + 1) + Len(number(n))) = "e"
         /\ indexOf(data, "e", pos) = (pos + 1) + Len(number(n))
         /\ (pos + 2) + Len(number(n)) <= Len(data)
         /\ \A k \in 0..Len(number(n)) : At(data, pos + k) # "e"
<1> DEFINE num == number(n)
           I == <<"i">>
           E == <<"e">>
           p == I \o num
           c == p \o E
           L == Len(num)
<1>1. /\ num \in ByteArray /\ p \in ByteArray /\ c \in ByteArray /\ EncodeInteger(n) = c
      /\ Len(c) = 2 + L /\ L \in Nat
  BY IntegerEncoding
<1>2. I \in ByteArray /\ Len(I) = 1 /\ I[1] = "i" /\ E \in ByteArray /\ Len(E) = 1 /\ E[1] = "e"
  BY Marks
<1>3. Len(p) = 1 + L
  <2> HIDE DEF I, num
  <2> QED
    BY <1>1, <1>2, Concatenated
<1>4. Stands(data, pos, p) /\ Stands(data, pos + Len(p), E) /\ Stands(data, pos, p \o <<"e">>)
  <2>1. Stands(data, pos, p \o E)
    BY <1>1
  <2> HIDE DEF p, E
  <2>2. Stands(data, pos, p) /\ Stands(data, pos + Len(p), E)
    BY <1>1, <1>2, <2>1, StandsSplit
  <2> QED
    BY <2>1, <2>2 DEF E
<1>5. Stands(data, pos, I) /\ Stands(data, pos + 1, num)
  <2> HIDE DEF I, num
  <2> QED
    BY <1>1, <1>2, <1>4, StandsSplit
<1>6. (pos + 2) + L <= Len(data) /\ Len(data) \in Nat
  BY <1>1 DEF Stands, ByteArray
<1>7. p[1] = "i" /\ \A k \in 1..L : p[1 + k] = num[k]
  <2> HIDE DEF I, num
  <2> QED
    BY <1>1, <1>2, Concatenated
<1>8. \A k \in 1..Len(p) : p[k] # "e"
  <2> SUFFICES ASSUME NEW k \in 1..Len(p) PROVE p[k] # "e"
    OBVIOUS
  <2>1. k = 1 \/ (k - 1 \in 1..L /\ 1 + (k - 1) = k)
    BY <1>1, <1>3
  <2>2. \A j \in 1..L : num[j] # "e"
    BY NumberIsPlain
  <2> HIDE DEF p, num, L
  <2> QED
    BY <1>7, <2>1, <2>2
<1>9. At(data, pos) = "i"
  <2> HIDE DEF p
  <2>1. 0 \in 0..(Len(p) - 1) /\ pos + 0 = pos /\ 0 + 1 = 1
    BY <1>1, <1>3
  <2>2. At(data, pos + 0) = p[0 + 1]
    BY <1>1, <1>4, <2>1, StandsAt
  <2> QED
    BY <1>7, <2>1, <2>2
<1>10. \A k \in 0..L : At(data, pos + k) # "e"
  <2> HIDE DEF p
  <2> SUFFICES ASSUME NEW k \in 0..L PROVE At(data, pos + k) # "e"
    OBVIOUS
  <2>1. k \in 0..(Len(p) - 1) /\ k + 1 \in 1..Len(p)
    BY <1>1, <1>3
  <2>2. At(data, pos + k) = p[k + 1]
    BY <1>1, <1>4, <2>1, StandsAt
  <2> QED
    BY <1>8, <2>1, <2>2
<1>11. indexOf(data, "e", pos) = pos + Len(p)
  <2> HIDE DEF p
  <2>1. "e" \in Byte
    BY DEF Byte
  <2> QED
    BY <1>1, <1>4, <1>8, <2>1, IndexOfBehind
<1>12. At(data, (pos + 1) + L) = "e"
  <2> HIDE DEF E, p
  <2>1. 0 \in 0..(Len(E) - 1) /\ (pos + Len(p)) + 0 = (pos + 1) + L /\ 0 + 1 = 1 /\ pos + Len(p) \in Nat
    BY <1>1, <1>2, <1>3
  <2>2. At(data, (pos + Len(p)) + 0) = E[0 + 1]
    BY <1>2, <1>4, <2>1, StandsAt
  <2> QED
    BY <1>2, <2>1, <2>2
<1>13. pos + Len(p) = (pos + 1) + L
  BY <1>1, <1>3
<1> QED
  BY <1>5, <1>6, <1>9, <1>10, <1>11, <1>12, <1>13

\* Where the parts of the length of a string stand.
LEMMA LengthStands ==
  ASSUME NEW data \in ByteArray, NEW pos \in Nat, NEW k \in Nat, Stands(data, pos, number(k) \o <<":">>)
  PROVE  /\ mid(data, pos, Len(number(k))) = number(k) /\ toInt(number(k)) = k
         /\ At(data, pos) \notin {"i", "l", "d", "e"}
         /\ indexOf(data, ":", pos) = pos + Len(number(k))
         /\ (pos + Len(number(k))) + 1 <= Len(data)
         /\ Len(number(k)) \in Nat \ {0}
         /\ \A i \in 0..Len(number(k)) : At(data, pos + i) # "e"
<1> DEFINE num == number(k)
           C == <<":">>
           p == num \o C
           L == Len(num)
<1>1. num \in ByteArray /\ L \in Nat \ {0} /\ toInt(num) = k
  <2>1. num \in ByteArray /\ L >= 1 /\ toInt(num) = k
    BY NumberIsRead
  <2>2. L \in Nat
    BY <2>1 DEF ByteArray
  <2> HIDE DEF L
  <2> QED
    BY <2>1, <2>2
<1>2. C \in ByteArray /\ Len(C) = 1 /\ C[1] = ":"
  BY Marks
<1>3. p \in ByteArray
  <2> HIDE DEF C, num
  <2> QED
    BY <1>1, <1>2, Concatenated
<1>4. Stands(data, pos, p) /\ Stands(data, pos, num) /\ Stands(data, pos + L, C)
  <2> HIDE DEF C, num
  <2>1. Stands(data, pos, num \o C)
    BY DEF C, num
  <2> QED
    BY <1>1, <1>2, <2>1, StandsSplit
<1>5. \A j \in 1..L : num[j] \notin {":", "e", "i", "l", "d"}
  <2>1. k \in Int
    OBVIOUS
  <2> QED
    BY <2>1, NumberIsPlain
<1>6. mid(data, pos, L) = num
  BY <1>1, <1>4, StandsMid
<1>7. indexOf(data, ":", pos) = pos + L
  <2>1. Stands(data, pos, num \o <<":">>)
    OBVIOUS
  <2>2. ":" \in Byte
    BY DEF Byte
  <2> HIDE DEF num
  <2> QED
    BY <1>1, <1>5, <2>1, <2>2, IndexOfBehind
<1> HIDE DEF num, C, p, L
<1>8. (pos + L) + 1 <= Len(data)
  BY <1>1, <1>2, <1>4 DEF Stands
<1>9. ASSUME NEW i \in 0..L PROVE At(data, pos + i) # "e" /\ (i = 0 => At(data, pos) \notin {"i", "l", "d", "e"})
  <2>1. CASE i = L
    <3>1. 0 \in 0..(Len(C) - 1) /\ (pos + L) + 0 = pos + i /\ 0 + 1 = 1 /\ pos + L \in Nat /\ i # 0
      BY <1>1, <1>2, <2>1
    <3>2. At(data, (pos + L) + 0) = C[0 + 1]
      BY <1>2, <1>4, <3>1, StandsAt
    <3> QED
      BY <1>2, <3>1, <3>2
  <2>2. CASE i # L
    <3>1. i \in 0..(L - 1) /\ i + 1 \in 1..L
      BY <1>1, <2>2
    <3>2. At(data, pos + i) = num[i + 1]
      BY <1>1, <1>4, <3>1, StandsAt DEF L
    <3>3. i = 0 => pos + i = pos
      OBVIOUS
    <3> QED
      BY <1>5, <3>1, <3>2, <3>3
  <2> QED
    BY <2>1, <2>2
<1>10. 0 \in 0..L
  BY <1>1
<1> QED
  BY <1>1, <1>6, <1>7, <1>8, <1>9, <1>10 DEF num, L

\* What DecodeString makes of a length and what follows it.
LEMMA DecodedString ==
  ASSUME NEW d \in ByteArray, NEW k \in Nat, Stands(d, 0, number(k) \o <<":">>)
  PROVE  LET ret == SubSeq(d, Len(number(k)) + 2, Len(d)) IN
         /\ Len(ret) = Len(d) - (Len(number(k)) + 1)
         /\ DecodeString(d) = IF k # Len(ret) THEN Thrown(ret) ELSE Returned(ret)
<1> DEFINE L == Len(number(k))
           ret == SubSeq(d, L + 2, Len(d))
<1>1. /\ mid(d, 0, L) = number(k) /\ toInt(number(k)) = k /\ indexOf(d, ":", 0) = 0 + L
      /\ (0 + L) + 1 <= Len(d) /\ L \in Nat \ {0}
  BY LengthStands
<1>2. Len(d) \in Nat /\ d \in Seq(Byte)
  BY DEF ByteArray
<1> HIDE DEF L
<1>3. Len(ret) = Len(d) - (L + 1)
  BY <1>1, <1>2
<1>4. 0 + L = L /\ L + 1 + 1 = L + 2 /\ -1 < 0
  BY <1>1
<1>5. mid(d, L + 1, -1) = ret
  BY <1>4 DEF mid
<1>6. DecodeString(d) = IF k # Len(ret) THEN Thrown(ret) ELSE Returned(ret)
  BY <1>1, <1>4, <1>5 DEF DecodeString
<1> QED
  BY <1>3, <1>6 DEF L

\* An integer at pos is read to its end.
LEMMA PickInteger ==
  ASSUME NEW data \in ByteArray, NEW pos \in Nat, NEW n \in Int, Stands(data, pos, EncodeInteger(n))
  PROVE  /\ At(data, pos) = "i"
         /\ pickAndDecode(data, pos) = [next |-> pos + Len(EncodeInteger(n)), contents |-> number(n)]
         /\ DecodeInteger(EncodeInteger(n)) = Returned(number(n))
<1> DEFINE c == EncodeInteger(n)
           num == number(n)
           L == Len(num)
<1>1. c \in ByteArray /\ Len(c) = 2 + L /\ L \in Nat /\ num \in ByteArray
  BY IntegerEncoding
<1>2. /\ At(data, pos) = "i" /\ indexOf(data, "e", pos) = (pos + 1) + L /\ (pos + 2) + L <= Len(data)
  BY IntegerStands
<1>3. mid(data, pos, Len(c)) = c
  <2> HIDE DEF c
  <2> QED
    BY <1>1, StandsMid DEF c
<1>4. DecodeInteger(c) = Returned(num)
  <2>1. Stands(c, 0, c)
    <3> HIDE DEF c
    <3> QED
      BY <1>1, StandsWhole
  <2>2. /\ At(c, 0) = "i" /\ Stands(c, 0 + 1, num) /\ At(c, (0 + 1) + L) = "e"
    BY <1>1, <2>1, IntegerStands
  <2>3. 0 + 1 = 1 /\ (0 + 1) + L = Len(c) - 1 /\ Len(c) - 2 = L /\ 1 \in Nat
    BY <1>1
  <2>4. mid(c, 1, L) = num
    <3>1. Stands(c, 1, num)
      BY <2>2, <2>3
    <3> HIDE DEF c, num
    <3> QED
      BY <1>1, <2>3, <3>1, StandsMid
  <2> HIDE DEF c, num, L
  <2> QED
    BY <2>2, <2>3, <2>4 DEF DecodeInteger
<1> HIDE DEF c, num, L
<1> DEFINE last == (pos + 1) + L
<1>5. last - pos + 1 = Len(c) /\ last + 1 = pos + Len(c) /\ ~(pos > Len(data) - 1)
      /\ indexOf(data, "e", pos) = last
  <2>1. Len(data) \in Nat
    BY DEF ByteArray
  <2> QED
    BY <1>1, <1>2, <2>1
<1>6. At(data, pos) \notin {"l", "d"}
  BY <1>2
<1> HIDE DEF last
<1>7. pickAndDecode(data, pos) = [next |-> last + 1, contents |-> num]
  <2> DEFINE picked == DecodeInteger(mid(data, pos, last - pos + 1))
  <2>1. picked = Returned(num)
    BY <1>3, <1>4, <1>5
  <2>2. pickAndDecode(data, pos) = IF picked.throws THEN [next |-> -1, contents |-> <<>>]
                                   ELSE [next |-> last + 1, contents |-> picked.val]
    BY <1>2, <1>5, <1>6 DEF pickAndDecode
  <2> HIDE DEF picked
  <2> QED
    BY <2>1, <2>2 DEF Returned
<1> QED
  BY <1>2, <1>4, <1>5, <1>7 DEF c, num

\* What pickAndDecode makes of a length and what follows it.
LEMMA PickLength ==
  ASSUME NEW data \in ByteArray, NEW pos \in Nat, NEW k \in Nat, Stands(data, pos, number(k) \o <<":">>)
  PROVE  LET last == (pos + Len(number(k))) + k
             picked == DecodeString(mid(data, pos, last - pos + 1))
         IN  /\ At(data, pos) \notin {"i", "l", "d"}
             /\ pickAndDecode(data, pos) = IF picked.throws THEN [next |-> -1, contents |-> <<>>]
                                           ELSE [next |-> last + 1, contents |-> picked.val]
<1> DEFINE L == Len(number(k))
           last == (pos + L) + k
           picked == DecodeString(mid(data, pos, last - pos + 1))
<1>1. /\ mid(data, pos, L) = number(k) /\ toInt(number(k)) = k
      /\ At(data, pos) \notin {"i", "l", "d", "e"} /\ indexOf(data, ":", pos) = pos + L
      /\ (pos + L) + 1 <= Len(data) /\ L \in Nat \ {0}
  BY LengthStands
<1> HIDE DEF L
<1>2. (pos + L) - pos = L /\ ~(pos > Len(data) - 1)
  <2>1. Len(data) \in Nat
    BY DEF ByteArray
  <2> QED
    BY <1>1, <2>1
<1>3. pickAndDecode(data, pos) = IF picked.throws THEN [next |-> -1, contents |-> <<>>]
                                 ELSE [next |-> last + 1, contents |-> picked.val]
  BY <1>1, <1>2 DEF pickAndDecode
<1> QED
  BY <1>1, <1>3 DEF L

\* A string at pos is read to its end.
LEMMA PickString ==
  ASSUME NEW data \in ByteArray, NEW pos \in Nat, NEW s \in ByteArray, Stands(data, pos, EncodeString(s))
  PROVE  /\ At(data, pos) \notin {"i", "l", "d"}
         /\ pickAndDecode(data, pos) = [next |-> pos + Len(EncodeString(s)), contents |-> s]
         /\ DecodeString(EncodeString(s)) = Returned(s)
<1> DEFINE k == Len(s)
           num == number(k)
           p == num \o <<":">>
           c == EncodeString(s)
           L == Len(num)
<1>1. /\ p \in ByteArray /\ c \in ByteArray /\ Len(p) = L + 1 /\ c = p \o s /\ Len(c) = (L + 1) + k
      /\ L \in Nat \ {0} /\ k \in Nat
  <2>1. k \in Nat
    BY DEF ByteArray
  <2> QED
    BY <2>1, StringEncoding
<1> HIDE DEF c
<1>2. Stands(data, pos, p)
  <2>1. Stands(data, pos, p \o s)
    BY <1>1 DEF c
  <2> HIDE DEF p
  <2> QED
    BY <1>1, <2>1, StandsSplit
<1>3. mid(data, pos, Len(c)) = c
  BY <1>1, StandsMid DEF c
<1>4. DecodeString(c) = Returned(s)
  <2>1. Stands(c, 0, c)
    BY <1>1, StandsWhole
  <2>2. Stands(c, 0, p) /\ Stands(c, 0 + Len(p), s)
    <3> HIDE DEF p
    <3>1. Stands(c, 0, p \o s)
      BY <1>1, <2>1
    <3> QED
      BY <1>1, <3>1, StandsSplit
  <2>3. mid(c, 0 + Len(p), k) = s
    <3> HIDE DEF p
    <3>1. 0 + Len(p) \in Nat
      BY <1>1
    <3> QED
      BY <1>1, <2>2, <3>1, StandsMid
  <2> DEFINE ret == SubSeq(c, L + 2, Len(c))
  <2>4. ret = s
    <3>1. /\ ~(k < 0 \/ (0 + Len(p)) + k > Len(c)) /\ (0 + Len(p)) + 1 = L + 2
          /\ (0 + Len(p)) + k = Len(c)
      <4> HIDE DEF p, k, L
      <4> QED
        BY <1>1
    <3> HIDE DEF p
    <3> QED
      BY <2>3, <3>1 DEF mid
  <2>5. DecodeString(c) = IF k # Len(ret) THEN Thrown(ret) ELSE Returned(ret)
    BY <1>1, <2>2, DecodedString
  <2> HIDE DEF ret
  <2> QED
    BY <2>4, <2>5
<1> DEFINE last == (pos + L) + k
<1>5. last - pos + 1 = Len(c) /\ last + 1 = pos + Len(c)
  <2>1. L \in Nat /\ k \in Nat /\ Len(c) = (L + 1) + k
    BY <1>1
  <2> HIDE DEF k, L
  <2> QED
    BY <2>1
<1>6. /\ At(data, pos) \notin {"i", "l", "d"}
      /\ pickAndDecode(data, pos) =
           LET picked == DecodeString(mid(data, pos, last - pos + 1))
           IN  IF picked.throws THEN [next |-> -1, contents |-> <<>>]
               ELSE [next |-> last + 1, contents |-> picked.val]
  BY <1>1, <1>2, PickLength
<1> HIDE DEF last
<1>7. pickAndDecode(data, pos) = [next |-> pos + Len(c), contents |-> s]
  BY <1>3, <1>4, <1>5, <1>6 DEF Returned
<1> QED
  BY <1>4, <1>6, <1>7 DEF c

\* A string whose end is lost, and that ends with an 'e', is not read.
LEMMA PickCutString ==
  ASSUME NEW W \in ByteArray, NEW L \in 0..Len(W), NEW pos \in Nat, NEW s \in ByteArray,
         Stands(W, pos, EncodeString(s)), pos < L, L < pos + Len(EncodeString(s)),
         At(SubSeq(W, 1, L), L - 1) = "e"
  PROVE  /\ pickAndDecode(SubSeq(W, 1, L), pos).next = -1
         /\ At(SubSeq(W, 1, L), pos) \notin {"i", "l", "d"}
<1> DEFINE data == SubSeq(W, 1, L)
           k == Len(s)
           num == number(k)
           p == num \o <<":">>
           c == EncodeString(s)
           N == Len(num)
<1>1. /\ p \in ByteArray /\ c \in ByteArray /\ Len(p) = N + 1 /\ c = p \o s /\ Len(c) = (N + 1) + k
      /\ N \in Nat \ {0} /\ k \in Nat
  <2>1. k \in Nat
    BY DEF ByteArray
  <2> QED
    BY <2>1, StringEncoding
<1>2. /\ data \in ByteArray /\ Len(data) = L /\ \A i \in 0..(L - 1) : At(data, i) = At(W, i)
  BY LeadingBytes
<1>3. L \in Nat /\ Len(W) \in Nat /\ L <= Len(W)
  BY DEF ByteArray
<1>4. Stands(W, pos, p)
  <2>1. Stands(W, pos, p \o s)
    BY <1>1
  <2> HIDE DEF p
  <2> QED
    BY <1>1, <2>1, StandsSplit
<1>5. \A i \in 0..N : At(W, pos + i) # "e"
  BY <1>1, <1>4, LengthStands
<1> HIDE DEF data, c, N
<1>6. pos + (N + 1) <= L
  <2> SUFFICES ASSUME L < pos + (N + 1) PROVE FALSE
    BY <1>1, <1>3
  <2>1. (L - 1) - pos \in 0..N /\ pos + ((L - 1) - pos) = L - 1 /\ L - 1 \in 0..(L - 1)
    BY <1>1, <1>3
  <2>2. At(W, L - 1) = "e"
    BY <1>2, <2>1 DEF data
  <2> QED
    BY <1>5, <2>1, <2>2
<1>7. Stands(data, pos, p)
  <2> HIDE DEF p
  <2> QED
    BY <1>1, <1>4, <1>6, LeadingStand DEF data
<1> DEFINE last == (pos + N) + k
           d == mid(data, pos, last - pos + 1)
<1>8. /\ At(data, pos) \notin {"i", "l", "d"}
      /\ pickAndDecode(data, pos) =
           LET picked == DecodeString(d)
           IN  IF picked.throws THEN [next |-> -1, contents |-> <<>>]
               ELSE [next |-> last + 1, contents |-> picked.val]
  BY <1>1, <1>2, <1>7, PickLength DEF N
<1>9. d = SubSeq(data, pos + 1, L)
  <2>1. last - pos + 1 = Len(c) /\ pos + Len(c) > L
    <3>1. N \in Nat /\ k \in Nat /\ Len(c) = (N + 1) + k /\ L < pos + Len(c)
      BY <1>1 DEF c
    <3> HIDE DEF k
    <3> QED
      BY <3>1
  <2> HIDE DEF last
  <2> QED
    BY <1>2, <2>1 DEF mid
<1>10. d \in ByteArray /\ Len(d) = L - pos /\ \A i \in 1..(L - pos) : d[i] = data[pos + i]
  <2> DEFINE t == SubSeq(data, pos + 1, L)
  <2>1. data \in Seq(Byte)
    BY <1>2 DEF ByteArray
  <2>2. t \in Seq(Byte) /\ Len(t) = L - pos /\ \A i \in 1..(L - pos) : t[i] = data[pos + i]
    BY <1>2, <1>3, <2>1
  <2> HIDE DEF t, d
  <2> QED
    BY <1>9, <2>2 DEF t, ByteArray
<1> HIDE DEF d
<1>11. Stands(d, 0, p)
  <2> HIDE DEF p
  <2>1. ASSUME NEW i \in 1..Len(p) PROVE d[0 + i] = p[i]
    <3>1. i \in 1..(L - pos) /\ 0 + i = i
      BY <1>1, <1>3, <1>6
    <3>2. data[pos + i] = p[i]
      BY <1>7 DEF Stands
    <3> QED
      BY <1>10, <3>1, <3>2
  <2>2. 0 + Len(p) <= Len(d)
    BY <1>1, <1>3, <1>6, <1>10
  <2> QED
    BY <2>1, <2>2 DEF Stands
<1> DEFINE ret == SubSeq(d, N + 2, Len(d))
<1>12. /\ Len(ret) = Len(d) - (N + 1)
       /\ DecodeString(d) = IF k # Len(ret) THEN Thrown(ret) ELSE Returned(ret)
  BY <1>1, <1>10, <1>11, DecodedString DEF N
<1> HIDE DEF ret
<1>13. k # Len(ret)
  <2> HIDE DEF k
  <2> QED
    BY <1>1, <1>3, <1>6, <1>10, <1>12 DEF c
<1>14. DecodeString(d).throws
  BY <1>12, <1>13 DEF Thrown
<1> HIDE DEF last
<1> QED
  BY <1>8, <1>14 DEF data

\* An integer whose end is lost does not end with an 'e'.
LEMMA CutInteger ==
  ASSUME NEW W \in ByteArray, NEW L \in 0..Len(W), NEW pos \in Nat, NEW n \in Int,
         Stands(W, pos, EncodeInteger(n)), pos < L, L < pos + Len(EncodeInteger(n))
  PROVE  At(SubSeq(W, 1, L), L - 1) # "e"
<1> DEFINE N == Len(number(n))
<1>1. Len(EncodeInteger(n)) = 2 + N /\ N \in Nat
  BY IntegerEncoding
<1>2. \A k \in 0..N : At(W, pos + k) # "e"
  BY IntegerStands
<1>3. \A i \in 0..(L - 1) : At(SubSeq(W, 1, L), i) = At(W, i)
  BY LeadingBytes
<1>4. L \in Nat /\ Len(W) \in Nat
  BY DEF ByteArray
<1> HIDE DEF N
<1>5. (L - 1) - pos \in 0..N /\ pos + ((L - 1) - pos) = L - 1 /\ L - 1 \in 0..(L - 1)
  BY <1>1, <1>4
<1> QED
  BY <1>2, <1>3, <1>5

\* Nothing is read where a container begins.
LEMMA PickNothing ==
  ASSUME NEW data, NEW pos, At(data, pos) \in {"l", "d"}
  PROVE  pickAndDecode(data, pos).next = -1
BY DEF pickAndDecode

-----------------------------------------------------------------------------
(* The element of a container at some position *)

\* What a decoder may make of c: a part of it, all of it when nothing in it
\* is empty.
Fair(n, c, r) ==
  /\ r.throws \in BOOLEAN /\ r.val \in Tree[n]
  /\ Parts[n][Normalizer[n][c]][r.val]
  /\ c \in Solid[n] => r = Returned(Normalizer[n][c])

\* inner does that with the containers that are nested at most n deep and have
\* at most m bytes
FairInner(n, inner, m) ==
  \A c \in Containers(n) : Len(Encoder[n][c]) <= m => Fair(n, c, inner[Encoder[n][c]])

\* What it means to be a part.
LEMMA PartIs ==
  ASSUME NEW n \in 0..Depth, NEW w \in Tree[n], NEW v \in Tree[n]
  PROVE  Parts[n][w][v] <=> /\ v[1] = w[1]
                            /\ v[1] = "dict" => SomeEntries(v[2], w[2], Parts[n - 1])
                            /\ v[1] = "list" => SomeElements(v[2], w[2], Parts[n - 1])
                            /\ v[1] \notin {"list", "dict"} => v = w
<1> DEFINE Is(x, y) == /\ x[1] = y[1]
                       /\ x[1] = "dict" => SomeEntries(x[2], y[2], Parts[n - 1])
                       /\ x[1] = "list" => SomeElements(x[2], y[2], Parts[n - 1])
                       /\ x[1] \notin {"list", "dict"} => x = y
<1>1. Parts[n] = [y \in Tree[n] |-> [x \in Tree[n] |-> Is(x, y)]]
  BY PartsDefined
<1> HIDE DEF Is
<1>2. Parts[n][w] = [x \in Tree[n] |-> Is(x, w)]
  BY <1>1
<1>3. Parts[n][w][v] = Is(v, w)
  BY <1>2
<1> QED
  BY <1>3 DEF Is

\* A scalar is part of itself.
LEMMA PartOfScalar ==
  ASSUME NEW n \in 0..Depth, NEW w \in Scalars
  PROVE  Parts[n][w][w]
<1>1. w \in Tree[n] /\ w[1] \notin {"dict", "list"}
  BY ScalarsAreValues, ScalarShape
<1>2. w[1] # "dict" /\ w[1] # "list"
  BY <1>1
<1> QED
  BY <1>1, <1>2, PartIs

\* what Element returns
Found(vals, next, ends) == [vals |-> vals, next |-> next, ends |-> ends]

\* what Element finds when the value c of the encoding E is at pos
FoundWhole(n, c, found, next) ==
  \E x \in Tree[n] : /\ found = Found(<<x>>, next, "goes on")
                     /\ Parts[n][Normalizer[n][c]][x]
                     /\ c \in Solid[n] => x = Normalizer[n][c]

\* what Element finds when the nested decoder gave up: nothing, and only for a
\* value with an empty container in it
FoundNothing(n, c, found, pos, next) ==
  c \notin Solid[n] /\ found \in {Found(<<>>, pos, "returned"), Found(<<>>, next, "goes on")}

\* The element is the string or integer that was picked.
LEMMA ElementIsScalar ==
  ASSUME NEW data, NEW pos, NEW inner, NEW next \in Nat, NEW contents,
         pickAndDecode(data, pos) = [next |-> next, contents |-> contents]
  PROVE  Element(data, pos, inner) = Found(<<Scalar(data, pos, contents)>>, next, "goes on")
<1> DEFINE picked == pickAndDecode(data, pos)
<1>1. picked.next = next /\ picked.contents = contents /\ next # -1
  OBVIOUS
<1> HIDE DEF picked
<1> QED
  BY <1>1 DEF Element, Found, picked

\* Where nothing can be picked and no container closes, the round throws.
LEMMA ElementIsNone ==
  ASSUME NEW data, NEW pos, NEW inner, pickAndDecode(data, pos).next = -1,
         At(data, pos) \notin {"l", "d"} \/ getLastE(data, pos) = -1
  PROVE  Element(data, pos, inner) = Found(<<>>, pos, "threw")
BY DEF Element, Found

\* part is the container from pos to e
Nested(data, pos, e, part) ==
  At(data, pos) \in {"l", "d"} /\ getLastE(data, pos) = e /\ mid(data, pos, e - pos + 1) = part

\* The element is what the nested decoder makes of the container at pos; when
\* that throws, there is none and the loop ends or goes on.
LEMMA ElementIsNested ==
  ASSUME NEW inner, NEW data \in ByteArray, NEW pos \in Nat, NEW e \in Nat, NEW part \in ByteArray,
         Nested(data, pos, e, part)
  PROVE  /\ ~inner[part].throws => Element(data, pos, inner) = Found(<<inner[part].val>>, e + 1, "goes on")
         /\ inner[part].throws => Element(data, pos, inner) \in {Found(<<>>, pos, "returned"),
                                                          Found(<<>>, e + 1, "goes on")}
<1>1. pickAndDecode(data, pos).next = -1
  BY PickNothing DEF Nested
<1>2. e # -1
  OBVIOUS
<1> QED
  BY <1>1, <1>2 DEF Element, Found, GivesUp, Nested

\* A scalar at pos is found when it is whole.
LEMMA ScalarFound ==
  ASSUME NEW n \in 0..Depth, NEW c \in Scalars, NEW data \in ByteArray, NEW pos \in Nat, NEW inner,
         Stands(data, pos, Encoder[n][c])
  PROVE  FoundWhole(n, c, Element(data, pos, inner), pos + Len(Encoder[n][c]))
<1> DEFINE E == Encoder[n][c]
           x == NormalScalar(c)
<1>1. /\ E = EncodeScalar(c) /\ Normalizer[n][c] = x /\ x \in Scalars /\ x \in Tree[n]
      /\ E \in ByteArray
  BY ScalarsAreEncoded, ScalarEncoding, ScalarsAreValues
<1>2. Parts[n][x][x]
  BY <1>1, PartOfScalar
<1>3. pos + Len(E) \in Nat
  BY <1>1 DEF ByteArray
<1> HIDE DEF E
<1>4. Element(data, pos, inner) = Found(<<x>>, pos + Len(E), "goes on")
  <2>1. CASE \E k \in Int : EncodeScalar(c) = EncodeInteger(k) /\ x = <<"int", k>>
    <3>1. PICK k \in Int : EncodeScalar(c) = EncodeInteger(k) /\ x = <<"int", k>>
      BY <2>1
    <3>2. Stands(data, pos, EncodeInteger(k)) /\ E = EncodeInteger(k)
      BY <1>1, <3>1 DEF E
    <3>3. /\ At(data, pos) = "i"
          /\ pickAndDecode(data, pos) = [next |-> pos + Len(E), contents |-> number(k)]
      BY <3>2, PickInteger
    <3>4. Scalar(data, pos, number(k)) = x
      BY <3>1, <3>3, NumberIsRead DEF Scalar
    <3> QED
      BY <1>3, <3>3, <3>4, ElementIsScalar
  <2>2. CASE \E s \in ByteArray : EncodeScalar(c) = EncodeString(s) /\ x = <<"str", s>>
    <3>1. PICK s \in ByteArray : EncodeScalar(c) = EncodeString(s) /\ x = <<"str", s>>
      BY <2>2
    <3>2. Stands(data, pos, EncodeString(s)) /\ E = EncodeString(s)
      BY <1>1, <3>1 DEF E
    <3>3. /\ At(data, pos) # "i"
          /\ pickAndDecode(data, pos) = [next |-> pos + Len(E), contents |-> s]
      BY <3>2, PickString
    <3>4. Scalar(data, pos, s) = x
      BY <3>1, <3>3 DEF Scalar
    <3> QED
      BY <1>3, <3>3, <3>4, ElementIsScalar
  <2> QED
    BY <2>1, <2>2, ScalarEncoding
<1> HIDE DEF x
<1> QED
  BY <1>1, <1>2, <1>4 DEF FoundWhole, E

\* The bytes of a container.
LEMMA ContainerBytes ==
  ASSUME NEW n \in 0..Depth, NEW c \in Containers(n)
  PROVE  \E body \in ByteArray :
           /\ PassesOver(body) /\ Encoder[n][c] = (<<Mark(c)>> \o body) \o <<"e">> /\ Mark(c) \in {"l", "d"}
           /\ Encoder[n][c] \in ByteArray /\ Len(Encoder[n][c]) = 2 + Len(body) /\ Len(body) \in Nat
           /\ body = Join(Pieces(n, c))
<1>1. \A w \in Tree[n - 1] : PassesOver(Encoder[n - 1][w])
  BY ContainerShape, EncodingPasses
<1> DEFINE body == Join(Pieces(n, c))
<1>2. /\ body \in ByteArray /\ PassesOver(body)
      /\ Encoder[n][c] = (<<Mark(c)>> \o body) \o <<"e">> /\ Mark(c) \in {"l", "d"}
  BY <1>1, BodyPasses
<1> HIDE DEF body
<1>3. Len((<<Mark(c)>> \o body) \o <<"e">>) = 2 + Len(body) /\ Len(body) \in Nat
      /\ (<<Mark(c)>> \o body) \o <<"e">> \in ByteArray
  BY <1>2, Bracketed
<1> QED
  BY <1>2, <1>3 DEF body

\* A container at pos is found when it is whole, if it does not hold an empty
\* one.
LEMMA NestedFound ==
  ASSUME NEW n \in 0..Depth, NEW c \in Containers(n), NEW data \in ByteArray, NEW pos \in Nat, NEW inner,
         NEW m, FairInner(n, inner, m), Len(Encoder[n][c]) <= m, Stands(data, pos, Encoder[n][c])
  PROVE  LET next == pos + Len(Encoder[n][c])
             found == Element(data, pos, inner)
         IN  FoundWhole(n, c, found, next) \/ FoundNothing(n, c, found, pos, next)
<1>1. PICK body \in ByteArray :
        /\ PassesOver(body) /\ Encoder[n][c] = (<<Mark(c)>> \o body) \o <<"e">> /\ Mark(c) \in {"l", "d"}
        /\ Encoder[n][c] \in ByteArray /\ Len(Encoder[n][c]) = 2 + Len(body) /\ Len(body) \in Nat
  BY ContainerBytes
<1> DEFINE E == Encoder[n][c]
           e == (pos + 1) + Len(body)
           r == inner[E]
           next == pos + Len(E)
           found == Element(data, pos, inner)
<1>2. At(data, pos) = Mark(c)
  <2>1. Stands(data, pos, (<<Mark(c)>> \o body) \o <<"e">>)
    BY <1>1
  <2> QED
    BY <1>1, <2>1, BracketsStand
<1>3. getLastE(data, pos) = e
  BY <1>1, LastEFound
<1>4. mid(data, pos, e - pos + 1) = E /\ e + 1 = next /\ e \in Nat
  <2>1. e - pos + 1 = Len(E) /\ e + 1 = next /\ e \in Nat
    BY <1>1
  <2>2. mid(data, pos, Len(E)) = E
    BY <1>1, StandsMid
  <2> HIDE DEF e, E
  <2> QED
    BY <2>1, <2>2
<1>5. Fair(n, c, r)
  BY DEF FairInner
<1> HIDE DEF E, e, r
<1>6. /\ ~r.throws => found = Found(<<r.val>>, next, "goes on")
      /\ r.throws => found \in {Found(<<>>, pos, "returned"), Found(<<>>, next, "goes on")}
  <2>1. At(data, pos) \in {"l", "d"}
    BY <1>1, <1>2
  <2>2. e \in Nat /\ E \in ByteArray /\ Nested(data, pos, e, E)
    BY <1>1, <1>3, <1>4, <2>1 DEF Nested, E
  <2>3. /\ ~inner[E].throws => Element(data, pos, inner) = Found(<<inner[E].val>>, e + 1, "goes on")
        /\ inner[E].throws => Element(data, pos, inner) \in {Found(<<>>, pos, "returned"),
                                                          Found(<<>>, e + 1, "goes on")}
    <3> HIDE DEF found, next
    <3> QED
      BY <2>2, ElementIsNested
  <2> QED
    BY <1>4, <2>3 DEF r
<1> HIDE DEF found, next
<1>7. CASE ~r.throws
  <2>1. r.val = Normalizer[n][c] \/ c \notin Solid[n]
    BY <1>5 DEF Fair, Returned
  <2> QED
    BY <1>5, <1>6, <1>7, <2>1 DEF Fair, FoundWhole, found, next, E
<1>8. CASE r.throws
  <2>1. c \notin Solid[n]
    BY <1>5, <1>8 DEF Fair, Returned
  <2> QED
    BY <1>6, <1>8, <2>1 DEF FoundNothing, found, next, E
<1> QED
  BY <1>7, <1>8

\* What is at pos is not found when its end was lost.
LEMMA CutNotFound ==
  ASSUME NEW n \in 0..Depth, NEW c \in Tree[n], NEW W \in ByteArray, NEW L \in 0..Len(W), NEW pos \in Nat,
         NEW inner, Stands(W, pos, Encoder[n][c]), At(SubSeq(W, 1, L), L - 1) = "e",
         pos < L, L < pos + Len(Encoder[n][c])
  PROVE  Element(SubSeq(W, 1, L), pos, inner) = Found(<<>>, pos, "threw")
<1> DEFINE data == SubSeq(W, 1, L)
           E == Encoder[n][c]
<1>1. CASE c \in Scalars
  <2>1. E = EncodeScalar(c)
    BY <1>1, ScalarsAreEncoded
  <2>2. CASE \E k \in Int : EncodeScalar(c) = EncodeInteger(k)
    <3>1. PICK k \in Int : E = EncodeInteger(k)
      BY <2>1, <2>2
    <3> QED
      BY <3>1, CutInteger
  <2>3. CASE \E s \in ByteArray : EncodeScalar(c) = EncodeString(s)
    <3>1. PICK s \in ByteArray : E = EncodeString(s)
      BY <2>1, <2>3
    <3>2. pickAndDecode(data, pos).next = -1 /\ At(data, pos) \notin {"i", "l", "d"}
      BY <3>1, PickCutString
    <3> QED
      BY <3>2, ElementIsNone
  <2> QED
    BY <1>1, <2>2, <2>3, ScalarEncoding
<1>2. CASE c \notin Scalars
  <2>1. c \in Containers(n)
    BY <1>2, TreeShape DEF Containers
  <2>2. PICK body \in ByteArray :
          /\ PassesOver(body) /\ Encoder[n][c] = (<<Mark(c)>> \o body) \o <<"e">> /\ Mark(c) \in {"l", "d"}
          /\ Encoder[n][c] \in ByteArray /\ Len(Encoder[n][c]) = 2 + Len(body) /\ Len(body) \in Nat
    BY <2>1, ContainerBytes
  <2>3. L \in Nat
    BY DEF ByteArray
  <2>4. Stands(W, pos, (<<Mark(c)>> \o body) \o <<"e">>) /\ L <= (pos + 1) + Len(body)
    BY <2>2, <2>3
  <2>5. getLastE(data, pos) = -1
    BY <2>2, <2>4, LastECut
  <2>6. At(data, pos) = Mark(c)
    <3>1. At(W, pos) = Mark(c)
      BY <2>2, <2>4, BracketsStand
    <3>2. pos \in 0..(L - 1)
      BY <2>3
    <3> QED
      BY <3>1, <3>2, LeadingBytes
  <2>7. pickAndDecode(data, pos).next = -1
    BY <2>2, <2>6, PickNothing
  <2> QED
    BY <2>5, <2>7, ElementIsNone
<1> QED
  BY <1>1, <1>2

\* the element c at pos is found when it is whole, and throws when it is cut
ElementFinds(n, c, W, L, pos, inner) ==
  LET next == pos + Len(Encoder[n][c])
      found == Element(SubSeq(W, 1, L), pos, inner)
  IN  /\ next <= L => FoundWhole(n, c, found, next) \/ FoundNothing(n, c, found, pos, next)
      /\ next > L => found = Found(<<>>, pos, "threw")

\* Whatever is at pos is found when it is whole.
LEMMA ElementFound ==
  ASSUME NEW n \in 0..Depth, NEW c \in Tree[n], NEW W \in ByteArray, NEW L \in 0..Len(W), NEW pos \in Nat \ {0},
         NEW inner, FairInner(n, inner, L - 1), Stands(W, pos, Encoder[n][c]),
         At(SubSeq(W, 1, L), L - 1) = "e", pos < L
  PROVE  ElementFinds(n, c, W, L, pos, inner)
<1> DEFINE data == SubSeq(W, 1, L)
           E == Encoder[n][c]
           next == pos + Len(E)
           found == Element(data, pos, inner)
<1> SUFFICES /\ next <= L => FoundWhole(n, c, found, next) \/ FoundNothing(n, c, found, pos, next)
             /\ next > L => found = Found(<<>>, pos, "threw")
  BY DEF ElementFinds
<1>1. E \in ByteArray /\ data \in ByteArray
  BY EncodingIsBytes, LeadingBytes
<1>2. L \in Nat /\ Len(E) \in Nat /\ next \in Nat /\ pos \in Nat
  BY <1>1 DEF ByteArray
<1>3. CASE next <= L
  <2>1. Stands(data, pos, E)
    <3> HIDE DEF E
    <3> QED
      BY <1>1, <1>3, LeadingStand DEF E
  <2>2. CASE c \in Scalars
    <3>1. pos \in Nat /\ data \in ByteArray
      BY <1>1
    <3> HIDE DEF data
    <3>2. FoundWhole(n, c, found, next)
      BY <2>1, <2>2, <3>1, ScalarFound
    <3> QED
      BY <1>2, <1>3, <3>2 DEF data
  <2>3. CASE c \notin Scalars
    <3>1. c \in Containers(n)
      BY <2>3, TreeShape DEF Containers
    <3> DEFINE m == L - 1
    <3>2. FairInner(n, inner, m) /\ Len(E) <= m /\ pos \in Nat /\ data \in ByteArray
      BY <1>1, <1>2, <1>3
    <3> HIDE DEF data, m
    <3>3. FoundWhole(n, c, found, next) \/ FoundNothing(n, c, found, pos, next)
      BY <2>1, <3>1, <3>2, NestedFound
    <3> QED
      BY <1>2, <1>3, <3>3 DEF data
  <2> QED
    BY <1>2, <1>3, <2>2, <2>3
<1>4. CASE next > L
  <2>1. found = Found(<<>>, pos, "threw")
    BY <1>2, <1>4, CutNotFound
  <2> QED
    BY <1>2, <1>4, <2>1
<1> QED
  BY <1>2, <1>3, <1>4

-----------------------------------------------------------------------------
(* The loops of the decoders *)

\* The rounds of DecodeList exist.
ListRounds(data, inner, s) ==
  s[0] = Loop(1, <<>>, "reads") /\ \A n \in 1..Len(data) : s[n] = ListRound(data, inner, s[n - 1])

\* What DecodeList returns is the last state of its rounds.
LEMMA ListLoop ==
  ASSUME NEW data \in ByteArray, NEW inner, At(data, 0) = "l", At(data, Len(data) - 1) = "e"
  PROVE  \E s : ListRounds(data, inner, s) /\ DecodeList(data, inner) = Seen("list", s[Len(data)])
<1> DEFINE Of(f, n) == IF n = 0 THEN Loop(1, <<>>, "reads") ELSE ListRound(data, inner, f[n - 1])
           Upto(k, f) == f = [n \in 0..k |-> Of(f, n)]
           T == {k \in Nat : \E f : Upto(k, f)}
<1>0. Len(data) \in Nat
  BY DEF ByteArray
<1>1. ASSUME NEW f, NEW g, NEW n, n = 0 \/ f[n - 1] = g[n - 1] PROVE Of(f, n) = Of(g, n)
  BY <1>1
<1> HIDE DEF Of
<1>2. 0 \in T
  <2>1. Upto(0, [n \in 0..0 |-> Of(<<>>, 0)])
    BY <1>1
  <2> QED
    BY <2>1
<1>3. ASSUME NEW k \in Nat, NEW f, Upto(k, f) PROVE \E g : Upto(k + 1, g)
  <2> DEFINE g == [n \in 0..(k + 1) |-> Of(f, n)]
  <2>1. ASSUME NEW n \in 0..(k + 1), n # 0 PROVE f[n - 1] = g[n - 1]
    <3>1. n - 1 \in 0..(k + 1) /\ n - 1 \in 0..k
      BY <2>1
    <3> QED
      BY <1>3, <3>1
  <2>2. ASSUME NEW n \in 0..(k + 1) PROVE Of(f, n) = Of(g, n)
    <3>1. n = 0 \/ f[n - 1] = g[n - 1]
      BY <2>1
    <3> HIDE DEF g
    <3> QED
      BY <1>1, <3>1
  <2> QED
    BY <2>2
<1>4. Len(data) \in T
  <2>1. \A k \in Nat : k \in T => k + 1 \in T
    BY <1>3
  <2> HIDE DEF T
  <2>2. Nat \subseteq T
    BY <1>2, <2>1, InductionInSet
  <2> QED
    BY <1>0, <2>2
<1> DEFINE s == CHOOSE f : Upto(Len(data), f)
<1>5. Upto(Len(data), s)
  BY <1>4
<1>6. DecodeList(data, inner) = Seen("list", s[Len(data)])
  BY DEF DecodeList, Of
<1> HIDE DEF s
<1>7. \A n \in 0..Len(data) : s[n] = Of(s, n)
  BY <1>5
<1>8. s[0] = Loop(1, <<>>, "reads")
  BY <1>0, <1>7 DEF Of
<1>9. ASSUME NEW n \in 1..Len(data) PROVE s[n] = ListRound(data, inner, s[n - 1])
  <2>1. n \in 0..Len(data) /\ n # 0
    BY <1>0
  <2> QED
    BY <1>7, <2>1 DEF Of
<1> QED
  BY <1>6, <1>8, <1>9 DEF ListRounds

\* The rounds of DecodeDictionary exist.
DictionaryRounds(data, inner, s) ==
  s[0] = Loop(1, EmptyMap, "reads") /\ \A n \in 1..Len(data) : s[n] = DictionaryRound(data, inner, s[n - 1])

\* What DecodeDictionary returns is the last state of its rounds.
LEMMA DictionaryLoop ==
  ASSUME NEW data \in ByteArray, NEW inner, At(data, 0) = "d", At(data, Len(data) - 1) = "e"
  PROVE  \E s : DictionaryRounds(data, inner, s) /\ DecodeDictionary(data, inner) = Seen("dict", s[Len(data)])
<1> DEFINE Of(f, n) == IF n = 0 THEN Loop(1, EmptyMap, "reads") ELSE DictionaryRound(data, inner, f[n - 1])
           Upto(k, f) == f = [n \in 0..k |-> Of(f, n)]
           T == {k \in Nat : \E f : Upto(k, f)}
<1>0. Len(data) \in Nat
  BY DEF ByteArray
<1>1. ASSUME NEW f, NEW g, NEW n, n = 0 \/ f[n - 1] = g[n - 1] PROVE Of(f, n) = Of(g, n)
  BY <1>1
<1> HIDE DEF Of
<1>2. 0 \in T
  <2>1. Upto(0, [n \in 0..0 |-> Of(<<>>, 0)])
    BY <1>1
  <2> QED
    BY <2>1
<1>3. ASSUME NEW k \in Nat, NEW f, Upto(k, f) PROVE \E g : Upto(k + 1, g)
  <2> DEFINE g == [n \in 0..(k + 1) |-> Of(f, n)]
  <2>1. ASSUME NEW n \in 0..(k + 1), n # 0 PROVE f[n - 1] = g[n - 1]
    <3>1. n - 1 \in 0..(k + 1) /\ n - 1 \in 0..k
      BY <2>1
    <3> QED
      BY <1>3, <3>1
  <2>2. ASSUME NEW n \in 0..(k + 1) PROVE Of(f, n) = Of(g, n)
    <3>1. n = 0 \/ f[n - 1] = g[n - 1]
      BY <2>1
    <3> HIDE DEF g
    <3> QED
      BY <1>1, <3>1
  <2> QED
    BY <2>2
<1>4. Len(data) \in T
  <2>1. \A k \in Nat : k \in T => k + 1 \in T
    BY <1>3
  <2> HIDE DEF T
  <2>2. Nat \subseteq T
    BY <1>2, <2>1, InductionInSet
  <2> QED
    BY <1>0, <2>2
<1> DEFINE s == CHOOSE f : Upto(Len(data), f)
<1>5. Upto(Len(data), s)
  BY <1>4
<1>6. DecodeDictionary(data, inner) = Seen("dict", s[Len(data)])
  BY DEF DecodeDictionary, Of
<1> HIDE DEF s
<1>7. \A n \in 0..Len(data) : s[n] = Of(s, n)
  BY <1>5
<1>8. s[0] = Loop(1, EmptyMap, "reads")
  BY <1>0, <1>7 DEF Of
<1>9. ASSUME NEW n \in 1..Len(data) PROVE s[n] = DictionaryRound(data, inner, s[n - 1])
  <2>1. n \in 0..Len(data) /\ n # 0
    BY <1>0
  <2> QED
    BY <1>7, <2>1 DEF Of
<1> QED
  BY <1>6, <1>8, <1>9 DEF DictionaryRounds

\* The decoder that may be called k levels deep, from the one that may be called
\* one level less.
IsDecoder(dec, m) ==
  \A k \in 1..m : dec[k] = [part \in ByteArray |->
                              IF At(part, 0) = "l" THEN DecodeList(part, dec[k - 1])
                              ELSE DecodeDictionary(part, dec[k - 1])]

\* What DecodeContainer returns is what the last of its decoders returns.
LEMMA DecoderExists ==
  ASSUME NEW data \in ByteArray
  PROVE  \E dec : IsDecoder(dec, Len(data)) /\ DecodeContainer(data) = dec[Len(data)][data]
<1> DEFINE Of(f, n) == [part \in ByteArray |->
                          IF n = 0 THEN Thrown(<<>>)
                          ELSE IF At(part, 0) = "l" THEN DecodeList(part, f[n - 1])
                          ELSE DecodeDictionary(part, f[n - 1])]
           Upto(k, f) == f = [n \in 0..k |-> Of(f, n)]
           T == {k \in Nat : \E f : Upto(k, f)}
<1>0. Len(data) \in Nat
  BY DEF ByteArray
<1>1. ASSUME NEW f, NEW g, NEW n, n = 0 \/ f[n - 1] = g[n - 1] PROVE Of(f, n) = Of(g, n)
  BY <1>1
<1> HIDE DEF Of
<1>2. 0 \in T
  <2>1. Upto(0, [n \in 0..0 |-> Of(<<>>, 0)])
    BY <1>1
  <2> QED
    BY <2>1
<1>3. ASSUME NEW k \in Nat, NEW f, Upto(k, f) PROVE \E g : Upto(k + 1, g)
  <2> DEFINE g == [n \in 0..(k + 1) |-> Of(f, n)]
  <2>1. ASSUME NEW n \in 0..(k + 1), n # 0 PROVE f[n - 1] = g[n - 1]
    <3>1. n - 1 \in 0..(k + 1) /\ n - 1 \in 0..k
      BY <2>1
    <3> QED
      BY <1>3, <3>1
  <2>2. ASSUME NEW n \in 0..(k + 1) PROVE Of(f, n) = Of(g, n)
    <3>1. n = 0 \/ f[n - 1] = g[n - 1]
      BY <2>1
    <3> HIDE DEF g
    <3> QED
      BY <1>1, <3>1
  <2> QED
    BY <2>2
<1>4. Len(data) \in T
  <2>1. \A k \in Nat : k \in T => k + 1 \in T
    BY <1>3
  <2> HIDE DEF T
  <2>2. Nat \subseteq T
    BY <1>2, <2>1, InductionInSet
  <2> QED
    BY <1>0, <2>2
<1> DEFINE s == CHOOSE f : Upto(Len(data), f)
<1>5. Upto(Len(data), s)
  BY <1>4
<1>6. DecodeContainer(data) = s[Len(data)][data]
  BY DEF DecodeContainer, Of
<1> HIDE DEF s
<1>7. \A n \in 0..Len(data) : s[n] = Of(s, n)
  BY <1>5
<1>9. ASSUME NEW n \in 1..Len(data)
      PROVE  s[n] = [part \in ByteArray |->
                       IF At(part, 0) = "l" THEN DecodeList(part, s[n - 1])
                       ELSE DecodeDictionary(part, s[n - 1])]
  <2>1. n \in 0..Len(data) /\ n # 0
    BY <1>0
  <2> QED
    BY <1>7, <2>1 DEF Of
<1> QED
  BY <1>6, <1>9 DEF IsDecoder

-----------------------------------------------------------------------------
(* The values the decoder leaves *)

\* What is in a container without empty ones has no empty ones.
LEMMA SolidShape ==
  ASSUME NEW n \in 0..Depth, NEW v \in Containers(n), v \in Solid[n]
  PROVE  /\ v[1] = "list" => v[2] \in Seq(Solid[n - 1]) /\ v[2] # <<>>
         /\ v[1] = "dict" => v[2] \in Maps(Solid[n - 1]) /\ v[2] # EmptyMap
<1> DEFINE Shape(m) == \A w \in Solid[m] :
                         \/ w \in Scalars
                         \/ /\ m # 0
                            /\ \/ w[1] = "list" /\ w[2] \in Seq(Solid[m - 1]) /\ w[2] # <<>>
                               \/ w[1] = "dict" /\ w[2] \in Maps(Solid[m - 1]) /\ w[2] # EmptyMap
           T == {m \in Nat : m <= Depth => Shape(m)}
<1>1. 0 \in T
  <2>1. 0 \in 0..Depth
    BY ValuesAssumption
  <2>2. Solid[0] = Scalars
    BY <2>1, SolidDefined
  <2> QED
    BY <2>2
<1>2. ASSUME NEW m \in Nat, m \in T PROVE m + 1 \in T
  <2> SUFFICES ASSUME m + 1 <= Depth PROVE Shape(m + 1)
    OBVIOUS
  <2>1. m + 1 \in 0..Depth /\ m + 1 # 0 /\ (m + 1) - 1 = m /\ m \in 0..Depth /\ m <= Depth
    BY ValuesAssumption
  <2>2. Solid[m + 1] = Solid[m] \cup ({"list"} \X (Seq(Solid[m]) \ {<<>>}))
                         \cup ({"dict"} \X (Maps(Solid[m]) \ {EmptyMap}))
    BY <2>1, SolidDefined
  <2>3. Shape(m)
    BY <1>2, <2>1
  <2>4. Solid[m - 1] \subseteq Solid[m] \/ m = 0
    <3>1. CASE m # 0
      <4>1. Solid[m] = Solid[m - 1] \cup ({"list"} \X (Seq(Solid[m - 1]) \ {<<>>}))
                         \cup ({"dict"} \X (Maps(Solid[m - 1]) \ {EmptyMap}))
        BY <2>1, <3>1, SolidDefined
      <4> QED
        BY <4>1
    <3> QED
      BY <3>1
  <2> SUFFICES ASSUME NEW w \in Solid[m + 1]
               PROVE  \/ w \in Scalars
                      \/ w[1] = "list" /\ w[2] \in Seq(Solid[m]) /\ w[2] # <<>>
                      \/ w[1] = "dict" /\ w[2] \in Maps(Solid[m]) /\ w[2] # EmptyMap
    BY <2>1
  <2>5. CASE w \in Solid[m]
    <3>1. \/ w \in Scalars
          \/ /\ m # 0
             /\ \/ w[1] = "list" /\ w[2] \in Seq(Solid[m - 1]) /\ w[2] # <<>>
                \/ w[1] = "dict" /\ w[2] \in Maps(Solid[m - 1]) /\ w[2] # EmptyMap
      BY <2>3, <2>5
    <3>2. m # 0 => Maps(Solid[m - 1]) \subseteq Maps(Solid[m])
      BY <2>4 DEF Maps
    <3>3. ASSUME m # 0, NEW t \in Seq(Solid[m - 1]) PROVE t \in Seq(Solid[m])
      BY <2>4, <3>3
    <3> QED
      BY <3>1, <3>2, <3>3
  <2>6. CASE w \in {"list"} \X (Seq(Solid[m]) \ {<<>>})
    BY <2>6
  <2>7. CASE w \in {"dict"} \X (Maps(Solid[m]) \ {EmptyMap})
    BY <2>7
  <2> QED
    BY <2>2, <2>5, <2>6, <2>7
<1>3. Shape(n)
  <2> HIDE DEF T
  <2>1. Nat \subseteq T
    BY <1>1, <1>2, InductionInSet
  <2> USE DEF T
  <2> QED
    BY <2>1, ValuesAssumption
<1>4. v \notin Scalars
  BY ContainerShape, ScalarShape
<1> QED
  BY <1>3, <1>4

\* A normal container has normal elements.
LEMMA NormalShape ==
  ASSUME NEW n \in 0..Depth, NEW v \in Containers(n)
  PROVE  /\ v[1] = "list" => Normalizer[n][v] = <<"list", [k \in 1..Len(v[2]) |-> Normalizer[n - 1][v[2][k]]]>>
         /\ v[1] = "dict" => Normalizer[n][v] =
              <<"dict", [k \in Keys |-> IF v[2][k] = Absent THEN Absent ELSE Normalizer[n - 1][v[2][k]]]>>
<1>1. v \in Tree[n] /\ n # 0 /\ n - 1 \in 0..Depth /\ v[1] \in {"list", "dict"}
  BY ContainerShape
<1>2. Normalizer[n][v] = <<v[1], [k \in DOMAIN v[2] |->
                                   IF v[2][k] = Absent THEN Absent ELSE Normalizer[n - 1][v[2][k]]]>>
  BY <1>1, NormalizerDefined
<1>3. CASE v[1] = "list"
  <2>1. v[2] \in Seq(Tree[n - 1])
    BY <1>3, ContainerShape
  <2>2. DOMAIN v[2] = 1..Len(v[2]) /\ \A k \in 1..Len(v[2]) : v[2][k] \in Tree[n - 1]
    BY <2>1
  <2>3. \A k \in 1..Len(v[2]) : v[2][k] # Absent
    BY <1>1, <2>2, ValuesAreNotAbsent
  <2>4. [k \in DOMAIN v[2] |-> IF v[2][k] = Absent THEN Absent ELSE Normalizer[n - 1][v[2][k]]]
          = [k \in 1..Len(v[2]) |-> Normalizer[n - 1][v[2][k]]]
    BY <2>2, <2>3
  <2> QED
    BY <1>2, <1>3, <2>4
<1>4. CASE v[1] = "dict"
  <2>1. v[2] \in Maps(Tree[n - 1])
    BY <1>4, ContainerShape
  <2>2. DOMAIN v[2] = Keys
    BY <2>1 DEF Maps
  <2> QED
    BY <1>2, <1>4, <2>2
<1> QED
  BY <1>1, <1>3, <1>4

\* A function on 1..k is a sequence.
LEMMA IsSequence ==
  ASSUME NEW S, NEW k \in Nat, NEW f \in [1..k -> S]
  PROVE  f \in Seq(S) /\ Len(f) = k /\ DOMAIN f = 1..k
OBVIOUS

\* The elements of a list and their encodings.
LEMMA ListPieces ==
  ASSUME NEW n \in 0..Depth, NEW v \in Containers(n), v[1] = "list"
  PROVE  /\ v[2] \in Seq(Tree[n - 1]) /\ Len(v[2]) \in Nat /\ Len(Pieces(n, v)) = Len(v[2])
         /\ \A i \in 1..Len(v[2]) : v[2][i] \in Tree[n - 1] /\ Pieces(n, v)[i] = Encoder[n - 1][v[2][i]]
<1>1. v[2] \in Seq(Tree[n - 1])
  BY ContainerShape
<1>2. DOMAIN v[2] = 1..Len(v[2]) /\ Len(v[2]) \in Nat /\ \A i \in 1..Len(v[2]) : v[2][i] \in Tree[n - 1]
  BY <1>1
<1>3. Pieces(n, v) = [i \in 1..Len(v[2]) |-> Encoder[n - 1][v[2][i]]]
  BY <1>2 DEF Pieces
<1>4. Len(Pieces(n, v)) = Len(v[2])
  BY <1>2, <1>3
<1> QED
  BY <1>1, <1>2, <1>3, <1>4

\* The entries of a map and their encodings.
LEMMA MapPieces ==
  ASSUME NEW n \in 0..Depth, NEW v \in Containers(n), v[1] = "dict"
  PROVE  /\ v[2] \in Maps(Tree[n - 1]) /\ Len(Pieces(n, v)) = Len(KeyOrder)
         /\ \A i \in 1..Len(KeyOrder) :
              LET k == KeyOrder[i] IN
              /\ v[2][k] = Absent => Pieces(n, v)[i] = <<>>
              /\ v[2][k] # Absent => /\ v[2][k] \in Tree[n - 1]
                                     /\ Pieces(n, v)[i] = EncodeString(k) \o Encoder[n - 1][v[2][k]]
<1>1. v[2] \in Maps(Tree[n - 1])
  BY ContainerShape
<1>2. Pieces(n, v) = [i \in 1..Len(KeyOrder) |->
                        IF v[2][KeyOrder[i]] = Absent THEN <<>>
                        ELSE EncodeString(KeyOrder[i]) \o Encoder[n - 1][v[2][KeyOrder[i]]]]
  BY OrderedKeys DEF Pieces
<1>3. Len(Pieces(n, v)) = Len(KeyOrder)
  BY <1>2, OrderedKeys
<1>4. \A i \in 1..Len(KeyOrder) : KeyOrder[i] \in Keys
  BY OrderedKeys
<1>5. \A k \in Keys : v[2][k] = Absent \/ v[2][k] \in Tree[n - 1]
  BY <1>1 DEF Maps
<1> QED
  BY <1>1, <1>2, <1>3, <1>4, <1>5

\* A normal value is a value, and is encoded to the same bytes.
LEMMA NormalsAreValues ==
  ASSUME NEW n \in 0..Depth
  PROVE  \A v \in Tree[n] : /\ Normalizer[n][v] \in Tree[n]
                            /\ Encoder[n][Normalizer[n][v]] = Encoder[n][v]
<1> DEFINE Same(m, v) == /\ Normalizer[m][v] \in Tree[m]
                         /\ Encoder[m][Normalizer[m][v]] = Encoder[m][v]
           T == {m \in Nat : m <= Depth => \A v \in Tree[m] : Same(m, v)}
<1>1. ASSUME NEW m \in 0..Depth, NEW v \in Scalars PROVE Same(m, v)
  <2>1. Normalizer[m][v] = NormalScalar(v) /\ NormalScalar(v) \in Scalars /\ Encoder[m][v] = EncodeScalar(v)
        /\ EncodeScalar(NormalScalar(v)) = EncodeScalar(v)
    BY ScalarsAreEncoded, ScalarEncoding
  <2>2. Encoder[m][NormalScalar(v)] = EncodeScalar(NormalScalar(v)) /\ NormalScalar(v) \in Tree[m]
    BY <2>1, ScalarsAreEncoded
  <2> QED
    BY <2>1, <2>2
<1>2. ASSUME NEW m \in 0..Depth, NEW v \in Containers(m), \A w \in Tree[m - 1] : Same(m - 1, w)
      PROVE  Same(m, v)
  <2>0. m # 0 /\ m - 1 \in 0..Depth /\ v[1] \in {"list", "dict"}
    BY ContainerShape
  <2> DEFINE w == Normalizer[m][v]
  <2> SUFFICES w \in Containers(m) /\ w[1] = v[1] /\ Pieces(m, w) = Pieces(m, v)
    <3>1. ASSUME w \in Containers(m), w[1] = v[1], Pieces(m, w) = Pieces(m, v) PROVE Same(m, v)
      <4> HIDE DEF w
      <4>1. Mark(w) = Mark(v)
        BY <3>1 DEF Mark
      <4>2. Encoder[m][w] = Encoder[m][v]
        BY <3>1, <4>1, ContainerIsEncoded
      <4> QED
        BY <3>1, <4>2, ContainerShape DEF w
    <3> QED
      BY <3>1
  <2>1. CASE v[1] = "list"
    <3> DEFINE f == [k \in 1..Len(v[2]) |-> Normalizer[m - 1][v[2][k]]]
    <3>1. /\ v[2] \in Seq(Tree[m - 1]) /\ Len(v[2]) \in Nat /\ DOMAIN v[2] = 1..Len(v[2])
          /\ \A i \in 1..Len(v[2]) : v[2][i] \in Tree[m - 1]
      BY <2>1, ListPieces
    <3>2. w = <<"list", f>>
      BY <2>1, NormalShape
    <3>3. \A i \in 1..Len(v[2]) : f[i] \in Tree[m - 1] /\ Encoder[m - 1][f[i]] = Encoder[m - 1][v[2][i]]
      BY <1>2, <3>1
    <3>4. f \in Seq(Tree[m - 1]) /\ Len(f) = Len(v[2]) /\ DOMAIN f = 1..Len(v[2])
      <4>1. f \in [1..Len(v[2]) -> Tree[m - 1]]
        BY <3>3
      <4> HIDE DEF f
      <4> QED
        BY <3>1, <4>1, IsSequence
    <3> HIDE DEF f, w
    <3>5. w \in Tree[m] /\ w[1] = "list" /\ w[2] = f
      BY <2>0, <3>2, <3>4, ContainersAreValues
    <3>6. Pieces(m, w) = [i \in 1..Len(v[2]) |-> Encoder[m - 1][f[i]]]
      BY <3>4, <3>5 DEF Pieces
    <3>7. Pieces(m, v) = [i \in 1..Len(v[2]) |-> Encoder[m - 1][v[2][i]]]
      BY <2>1, <3>1 DEF Pieces
    <3> QED
      BY <2>1, <3>3, <3>5, <3>6, <3>7 DEF Containers
  <2>2. CASE v[1] = "dict"
    <3> DEFINE f == [k \in Keys |-> IF v[2][k] = Absent THEN Absent ELSE Normalizer[m - 1][v[2][k]]]
    <3>1. v[2] \in Maps(Tree[m - 1]) /\ \A k \in Keys : v[2][k] = Absent \/ v[2][k] \in Tree[m - 1]
      BY <2>2, ContainerShape DEF Maps
    <3>2. w = <<"dict", f>>
      BY <2>2, NormalShape
    <3>3. \A k \in Keys : v[2][k] # Absent => /\ f[k] \in Tree[m - 1] /\ f[k] # Absent
                                              /\ Encoder[m - 1][f[k]] = Encoder[m - 1][v[2][k]]
      BY <1>2, <2>0, <3>1, ValuesAreNotAbsent
    <3>4. \A k \in Keys : v[2][k] = Absent => f[k] = Absent
      OBVIOUS
    <3>5. f \in Maps(Tree[m - 1])
      BY <3>3, <3>4 DEF Maps
    <3> HIDE DEF f, w
    <3>6. w \in Tree[m] /\ w[1] = "dict" /\ w[2] = f
      BY <2>0, <3>2, <3>5, ContainersAreValues
    <3>7. Pieces(m, w) = [j \in DOMAIN KeyOrder |->
                            IF f[KeyOrder[j]] = Absent THEN <<>>
                            ELSE EncodeString(KeyOrder[j]) \o Encoder[m - 1][f[KeyOrder[j]]]]
      BY <3>6 DEF Pieces
    <3>8. Pieces(m, v) = [j \in DOMAIN KeyOrder |->
                            IF v[2][KeyOrder[j]] = Absent THEN <<>>
                            ELSE EncodeString(KeyOrder[j]) \o Encoder[m - 1][v[2][KeyOrder[j]]]]
      BY <2>2 DEF Pieces
    <3>9. \A j \in DOMAIN KeyOrder : KeyOrder[j] \in Keys
      BY OrderedKeys
    <3> QED
      BY <2>2, <3>3, <3>4, <3>6, <3>7, <3>8, <3>9 DEF Containers
  <2> HIDE DEF w
  <2> QED
    BY <2>0, <2>1, <2>2
<1> HIDE DEF Same
<1>3. ASSUME NEW m \in 0..Depth, m = 0 \/ \A w \in Tree[m - 1] : Same(m - 1, w), NEW v \in Tree[m]
      PROVE  Same(m, v)
  <2>1. v \in Scalars \/ (v \in Containers(m) /\ m # 0)
    BY TreeShape DEF Containers
  <2> QED
    BY <1>1, <1>2, <1>3, <2>1
<1>4. 0 \in T
  <2>1. 0 \in 0..Depth
    BY ValuesAssumption
  <2> QED
    BY <1>3, <2>1
<1>5. ASSUME NEW m \in Nat, m \in T PROVE m + 1 \in T
  <2> SUFFICES ASSUME m + 1 <= Depth PROVE \A v \in Tree[m + 1] : Same(m + 1, v)
    OBVIOUS
  <2>1. m + 1 \in 0..Depth /\ (m + 1) - 1 = m /\ m <= Depth
    BY ValuesAssumption
  <2>2. \A w \in Tree[m] : Same(m, w)
    BY <1>5, <2>1
  <2> QED
    BY <1>3, <2>1, <2>2
<1>6. \A v \in Tree[n] : Same(n, v)
  <2> HIDE DEF T
  <2>1. Nat \subseteq T
    BY <1>4, <1>5, InductionInSet
  <2> USE DEF T
  <2> QED
    BY <2>1, ValuesAssumption
<1> QED
  BY <1>6 DEF Same

-----------------------------------------------------------------------------
(* Where the entries of a container are *)

\* Nothing is read at the closing 'e'.
LEMMA PickAtEnd ==
  ASSUME NEW data \in ByteArray, NEW pos \in Nat \ {0}, pos = Len(data) - 1, At(data, pos) = "e"
  PROVE  pickAndDecode(data, pos).next = -1
<1> DEFINE t == SubSeq(data, pos + 1, Len(data))
<1>1. Len(data) \in Nat /\ Len(data) = pos + 1 /\ data \in Seq(Byte)
  BY DEF ByteArray
<1>2. t \in Seq(Byte) /\ Len(t) = 1 /\ t[1] = data[pos + 1]
  BY <1>1
<1>3. data[pos + 1] = "e"
  BY <1>1 DEF At
<1> HIDE DEF t
<1>4. At(t, 0) = "e" /\ Len(t) - 1 = 0 /\ t \in ByteArray
  BY <1>2, <1>3 DEF At, ByteArray
<1>5. indexOf(t, ":", 0) = -1
  <2>1. \A p \in 0..0 : At(t, p) # ":"
    BY <1>4
  <2> QED
    BY <1>4, <2>1 DEF indexOf
<1>6. indexOf(data, ":", pos) = -1
  <2>1. Len(data) - 1 = pos /\ \A p \in pos..pos : p = pos
    BY <1>1
  <2>2. ~\E p \in pos..(Len(data) - 1) : At(data, p) = ":"
    BY <2>1
  <2> QED
    BY <2>2 DEF indexOf
<1>7. ~IsNumeral(t)
  <2>1. ~IsDigit("e")
    BY DigitsDiffer DEF IsDigit
  <2>2. 0 \in 0..(Len(t) - 1) /\ ~IsDigit(At(t, 0)) /\ At(t, 0) # "-"
    BY <1>4, <2>1
  <2> QED
    BY <2>2, Zenon DEF IsNumeral
<1>8. toInt(t) = 0
  BY <1>7 DEF toInt
<1>9. mid(t, 0, -1) = t
  <2>1. mid(t, 0, -1) = SubSeq(t, 1, 1)
    BY <1>2 DEF mid
  <2>2. SubSeq(t, 1, 1) = t
    BY <1>2
  <2> QED
    BY <2>1, <2>2
<1>10. DecodeString(t).throws
  <2>1. -1 + 1 = 0
    OBVIOUS
  <2>2. mid(t, indexOf(t, ":", 0) + 1, -1) = t /\ toInt(mid(t, 0, indexOf(t, ":", 0))) # Len(t)
    BY <1>2, <1>5, <1>8, <1>9, <2>1
  <2>3. DecodeString(t) = Thrown(t)
    BY <2>2 DEF DecodeString
  <2> QED
    BY <2>3 DEF Thrown
<1>11. mid(data, pos, -1 - pos) = t /\ mid(data, pos, -1 - pos + 1) = t
  <2>1. -1 - pos < 0 /\ -1 - pos + 1 < 0
    OBVIOUS
  <2> QED
    BY <2>1 DEF mid, t
<1>12. -1 + 0 - pos + 1 = -1 - pos + 1
  OBVIOUS
<1> QED
  BY <1>6, <1>8, <1>10, <1>11, <1>12 DEF pickAndDecode

\* An encoding is not empty.
LEMMA EncodingIsSome ==
  ASSUME NEW n \in 0..Depth, NEW c \in Tree[n]
  PROVE  Encoder[n][c] \in ByteArray /\ Len(Encoder[n][c]) \in Nat \ {0}
<1>0. Encoder[n][c] \in ByteArray
  BY EncodingIsBytes
<1>1. Len(Encoder[n][c]) \in Nat
  BY <1>0 DEF ByteArray
<1> DEFINE E == Encoder[n][c]
<1> SUFFICES Len(E) # 0
  BY <1>0, <1>1
<1>2. CASE c \in Scalars
  <2>1. E = EncodeScalar(c)
    BY <1>2, ScalarsAreEncoded
  <2> HIDE DEF E
  <2>2. CASE \E k \in Int : EncodeScalar(c) = EncodeInteger(k)
    <3>1. PICK k \in Int : E = EncodeInteger(k)
      BY <2>1, <2>2
    <3>2. Len(E) = 2 + Len(number(k)) /\ Len(number(k)) \in Nat \ {0}
      BY <3>1, IntegerEncoding
    <3> QED
      BY <3>2
  <2>3. CASE \E s \in ByteArray : EncodeScalar(c) = EncodeString(s)
    <3>1. PICK s \in ByteArray : E = EncodeString(s)
      BY <2>1, <2>3
    <3>2. Len(E) = (Len(number(Len(s))) + 1) + Len(s) /\ Len(number(Len(s))) \in Nat \ {0}
      BY <3>1, StringEncoding
    <3>3. Len(s) \in Nat
      BY DEF ByteArray
    <3>4. Len(E) # 0
      BY <3>2, <3>3
    <3> QED
      BY <3>4
  <2>4. Len(E) # 0
    BY <1>2, <2>2, <2>3, ScalarEncoding
  <2> QED
    BY <2>4 DEF E
<1>3. CASE c \notin Scalars
  <2>1. c \in Containers(n)
    BY <1>3, TreeShape DEF Containers
  <2>2. PICK body \in ByteArray : Len(E) = 2 + Len(body) /\ Len(body) \in Nat
    BY <2>1, ContainerBytes
  <2> HIDE DEF E
  <2>3. Len(E) # 0
    BY <2>2
  <2> QED
    BY <2>3 DEF E
<1> QED
  BY <1>2, <1>3

\* where the entry behind the first i ones begins
Place(j, i) == 1 + Len(j[i])

\* The bytes of v, of which L are left, with an 'e' at their end; j joins the
\* pieces of v.
Setting(n, v, j, W, L) ==
  /\ W \in ByteArray /\ L \in 2..Len(W)
  /\ At(SubSeq(W, 1, L), L - 1) = "e"
  /\ IsJoin(Pieces(n, v), j)
  /\ Stands(W, 1, j[Len(Pieces(n, v))])
  /\ Len(W) = 2 + Len(j[Len(Pieces(n, v))])

\* The pieces of a container are byte arrays.
LEMMA PiecesOf ==
  ASSUME NEW n \in 0..Depth, NEW v \in Containers(n)
  PROVE  Pieces(n, v) \in Seq(ByteArray)
BY ContainerShape, EncodingIsBytes, PiecesAreBytes

\* Piece i of a container stands in its encoding between the places i - 1 and
\* i; the first place is behind the mark, the last one at the closing 'e'.
LEMMA Places ==
  ASSUME NEW n \in 0..Depth, NEW v \in Containers(n), NEW j, NEW W, NEW L, Setting(n, v, j, W, L)
  PROVE  LET P == Pieces(n, v) IN
         /\ Len(P) \in Nat /\ Place(j, 0) = 1 /\ Place(j, Len(P)) = Len(W) - 1
         /\ \A i \in 0..Len(P) : Place(j, i) \in Nat \ {0}
         /\ \A i \in 1..Len(P) : /\ Place(j, i) = Place(j, i - 1) + Len(P[i])
                                 /\ P[i] \in ByteArray /\ Len(P[i]) \in Nat
                                 /\ Stands(W, Place(j, i - 1), P[i])
<1> DEFINE P == Pieces(n, v)
<1>1. P \in Seq(ByteArray) /\ Len(P) \in Nat
  BY PiecesOf
<1> HIDE DEF P
<1>2. IsJoin(P, j) /\ W \in ByteArray /\ Stands(W, 1, j[Len(P)]) /\ Len(W) = 2 + Len(j[Len(P)])
  BY DEF Setting, P
<1>3. \A i \in 0..Len(P) : j[i] \in ByteArray /\ Len(j[i]) \in Nat
  BY <1>2 DEF IsJoin, ByteArray
<1>4. j[0] = <<>> /\ Len(j[0]) = 0
  BY <1>2 DEF IsJoin
<1>5. Len(P) \in 0..Len(P) /\ Place(j, Len(P)) = Len(W) - 1
  BY <1>1, <1>2, <1>3 DEF Place
<1>6. ASSUME NEW i \in 1..Len(P)
      PROVE  /\ Place(j, i) = Place(j, i - 1) + Len(P[i])
             /\ P[i] \in ByteArray /\ Len(P[i]) \in Nat
             /\ Stands(W, Place(j, i - 1), P[i])
  <2>1. P[i] \in ByteArray /\ Len(j[i]) = Len(j[i - 1]) + Len(P[i])
    BY <1>1, <1>2, JoinStep
  <2>2. Len(P[i]) \in Nat /\ i - 1 \in 0..Len(P) /\ i \in 0..Len(P)
    BY <1>1, <2>1 DEF ByteArray
  <2>3. Stands(W, 1 + Len(j[i - 1]), P[i])
    BY <1>1, <1>2, JoinStands
  <2>4. Len(j[i]) \in Nat /\ Len(j[i - 1]) \in Nat
    BY <1>3, <2>2
  <2>5. 1 + Len(j[i]) = (1 + Len(j[i - 1])) + Len(P[i])
    <3>1. \A x, y, z \in Nat : x = y + z => 1 + x = (1 + y) + z
      OBVIOUS
    <3> QED
      BY <2>1, <2>2, <2>4, <3>1
  <2> QED
    BY <2>1, <2>2, <2>3, <2>5 DEF Place
<1>7. ASSUME NEW i \in 0..Len(P) PROVE Place(j, i) \in Nat \ {0}
  <2>1. Len(j[i]) \in Nat
    BY <1>3
  <2> QED
    BY <2>1 DEF Place
<1>8. Place(j, 0) = 1
  BY <1>4 DEF Place
<1> QED
  BY <1>1, <1>5, <1>6, <1>7, <1>8 DEF P

\* Entries do not overtake each other.
LEMMA PlacesGrow ==
  ASSUME NEW n \in 0..Depth, NEW v \in Containers(n), NEW j, NEW W, NEW L, Setting(n, v, j, W, L),
         NEW i \in 0..Len(Pieces(n, v)), NEW k \in i..Len(Pieces(n, v))
  PROVE  Place(j, i) <= Place(j, k)
<1> DEFINE N == Len(Pieces(n, v))
           T == {m \in Nat : i + m <= N => Place(j, i) <= Place(j, i + m)}
<1>1. /\ N \in Nat /\ \A a \in 0..N : Place(j, a) \in Nat
      /\ \A a \in 1..N : Place(j, a) = Place(j, a - 1) + Len(Pieces(n, v)[a]) /\ Len(Pieces(n, v)[a]) \in Nat
  BY Places
<1> HIDE DEF N
<1>2. 0 \in T
  BY <1>1 DEF N
<1>3. ASSUME NEW m \in Nat, m \in T PROVE m + 1 \in T
  <2> SUFFICES ASSUME i + (m + 1) <= N PROVE Place(j, i) <= Place(j, i + (m + 1))
    OBVIOUS
  <2>1. i + (m + 1) \in 1..N /\ (i + (m + 1)) - 1 = i + m /\ i + m \in 0..N /\ i + m <= N /\ i \in 0..N
        /\ i + (m + 1) \in 0..N
    BY <1>1 DEF N
  <2>2. Place(j, i + (m + 1)) = Place(j, i + m) + Len(Pieces(n, v)[i + (m + 1)])
        /\ Len(Pieces(n, v)[i + (m + 1)]) \in Nat
    BY <1>1, <2>1
  <2>3. Place(j, i) <= Place(j, i + m)
    BY <1>3, <2>1
  <2>4. Place(j, i) \in Nat /\ Place(j, i + m) \in Nat /\ Place(j, i + (m + 1)) \in Nat
    BY <1>1, <2>1
  <2> QED
    BY <2>2, <2>3, <2>4
<1>4. k - i \in T
  <2> HIDE DEF T
  <2>1. Nat \subseteq T
    BY <1>2, <1>3, InductionInSet
  <2>2. k - i \in Nat
    BY <1>1 DEF N
  <2> QED
    BY <2>1, <2>2
<1>5. i + (k - i) = k /\ k <= N
  BY <1>1 DEF N
<1> QED
  BY <1>4, <1>5

-----------------------------------------------------------------------------
(* The loop of DecodeList *)

\* ret has parts of some of the first i elements of v, in their order
SomeFirst(n, v, i, ret) ==
  /\ ret \in Seq(Tree[n - 1])
  /\ \E kept \in [1..Len(ret) -> 1..i] :
       /\ \A a, b \in 1..Len(ret) : a < b => kept[a] < kept[b]
       /\ \A a \in 1..Len(ret) : Parts[n - 1][Normalizer[n - 1][v[2][kept[a]]]][ret[a]]

\* the normal forms of the first i elements of a list
FirstNormal(n, v, i) == [k \in 1..i |-> Normalizer[n - 1][v[2][k]]]

\* Before the first round the list is empty.
LEMMA SomeFirstNone ==
  ASSUME NEW n, NEW v
  PROVE  SomeFirst(n, v, 0, <<>>) /\ FirstNormal(n, v, 0) = <<>>
<1>1. <<>> \in Seq(Tree[n - 1]) /\ Len(<<>>) = 0 /\ \A a \in 1..0 : FALSE
  OBVIOUS
<1>2. <<>> \in [1..0 -> 1..0]
  OBVIOUS
<1>3. SomeFirst(n, v, 0, <<>>)
  BY <1>1, <1>2 DEF SomeFirst
<1>4. FirstNormal(n, v, 0) = <<>>
  BY DEF FirstNormal
<1> QED
  BY <1>3, <1>4

\* An element that is left out leaves some of the first i + 1.
LEMMA SomeFirstSkips ==
  ASSUME NEW n, NEW v, NEW i \in Nat, NEW ret, SomeFirst(n, v, i, ret)
  PROVE  SomeFirst(n, v, i + 1, ret)
<1>1. PICK kept \in [1..Len(ret) -> 1..i] :
        /\ \A a, b \in 1..Len(ret) : a < b => kept[a] < kept[b]
        /\ \A a \in 1..Len(ret) : Parts[n - 1][Normalizer[n - 1][v[2][kept[a]]]][ret[a]]
  BY DEF SomeFirst
<1>2. kept \in [1..Len(ret) -> 1..(i + 1)]
  OBVIOUS
<1> QED
  BY <1>1, <1>2 DEF SomeFirst

\* One more element.
LEMMA Appended ==
  ASSUME NEW S, NEW s \in Seq(S), NEW x \in S
  PROVE  /\ Len(s) \in Nat /\ s \o <<x>> \in Seq(S) /\ Len(s \o <<x>>) = Len(s) + 1
         /\ (\A a \in 1..Len(s) : (s \o <<x>>)[a] = s[a]) /\ (s \o <<x>>)[Len(s) + 1] = x
OBVIOUS

\* So does an element that is added.
LEMMA SomeFirstAdds ==
  ASSUME NEW n, NEW v, NEW i \in Nat, NEW ret, SomeFirst(n, v, i, ret), NEW x \in Tree[n - 1],
         Parts[n - 1][Normalizer[n - 1][v[2][i + 1]]][x]
  PROVE  SomeFirst(n, v, i + 1, ret \o <<x>>)
<1> DEFINE m == Len(ret)
           new == ret \o <<x>>
<1>1. PICK kept \in [1..Len(ret) -> 1..i] :
        /\ \A a, b \in 1..Len(ret) : a < b => kept[a] < kept[b]
        /\ \A a \in 1..Len(ret) : Parts[n - 1][Normalizer[n - 1][v[2][kept[a]]]][ret[a]]
  BY DEF SomeFirst
<1>2. ret \in Seq(Tree[n - 1]) /\ m \in Nat
  <2>1. ret \in Seq(Tree[n - 1])
    BY DEF SomeFirst
  <2> QED
    BY <2>1, Appended
<1>3. new \in Seq(Tree[n - 1]) /\ Len(new) = m + 1 /\ (\A a \in 1..m : new[a] = ret[a]) /\ new[m + 1] = x
  <2> DEFINE S == Tree[n - 1]
  <2>1. ret \in Seq(S) /\ x \in S
    BY <1>2
  <2> HIDE DEF S
  <2>2. /\ Len(ret) \in Nat /\ ret \o <<x>> \in Seq(S) /\ Len(ret \o <<x>>) = Len(ret) + 1
        /\ (\A a \in 1..Len(ret) : (ret \o <<x>>)[a] = ret[a]) /\ (ret \o <<x>>)[Len(ret) + 1] = x
    BY <2>1, Appended
  <2> QED
    BY <2>2 DEF S
<1> DEFINE also == [a \in 1..(m + 1) |-> IF a = m + 1 THEN i + 1 ELSE kept[a]]
<1> HIDE DEF m, new
<1>4. \A a \in 1..(m + 1) : a = m + 1 \/ (a \in 1..m /\ a # m + 1)
  BY <1>2
<1>5. \A a \in 1..m : kept[a] \in 1..i /\ kept[a] \in Nat /\ kept[a] < i + 1
  BY <1>2 DEF m
<1>6. also \in [1..(m + 1) -> 1..(i + 1)]
  <2>1. \A a \in 1..(m + 1) : (IF a = m + 1 THEN i + 1 ELSE kept[a]) \in 1..(i + 1)
    BY <1>4, <1>5
  <2> QED
    BY <2>1
<1>7. also[m + 1] = i + 1 /\ \A a \in 1..m : also[a] = kept[a]
  BY <1>2
<1> HIDE DEF also
<1>8. ASSUME NEW a \in 1..(m + 1), NEW b \in 1..(m + 1), a < b PROVE also[a] < also[b]
  <2>1. a \in 1..m
    BY <1>2, <1>8
  <2>2. CASE b = m + 1
    BY <1>5, <1>7, <2>1, <2>2
  <2>3. CASE b \in 1..m
    BY <1>1, <1>7, <1>8, <2>1, <2>3 DEF m
  <2> QED
    BY <1>4, <2>2, <2>3
<1>9. ASSUME NEW a \in 1..(m + 1) PROVE Parts[n - 1][Normalizer[n - 1][v[2][also[a]]]][new[a]]
  <2>1. CASE a = m + 1
    BY <1>3, <1>7, <2>1
  <2>2. CASE a \in 1..m
    BY <1>1, <1>3, <1>7, <2>2 DEF m
  <2> QED
    BY <1>4, <2>1, <2>2
<1>10. SomeFirst(n, v, i + 1, new)
  BY <1>3, <1>6, <1>8, <1>9 DEF SomeFirst
<1> QED
  BY <1>10 DEF new

\* The next element makes the first i the first i + 1.
LEMMA FirstNormalAdds ==
  ASSUME NEW n, NEW v, NEW i \in Nat
  PROVE  FirstNormal(n, v, i) \o <<Normalizer[n - 1][v[2][i + 1]]>> = FirstNormal(n, v, i + 1)
<1> DEFINE f == FirstNormal(n, v, i)
           x == Normalizer[n - 1][v[2][i + 1]]
           g == FirstNormal(n, v, i + 1)
           S == {Normalizer[n - 1][v[2][k]] : k \in 1..(i + 1)}
<1>1. f \in [1..i -> S] /\ g \in [1..(i + 1) -> S] /\ x \in S
  BY DEF FirstNormal
<1>2. (\A k \in 1..i : g[k] = f[k]) /\ g[i + 1] = x
  BY DEF FirstNormal
<1> HIDE DEF f, x, g, S
<1>3. f \in Seq(S) /\ Len(f) = i /\ g \in Seq(S) /\ Len(g) = i + 1
  BY <1>1
<1>4. f \o <<x>> \in Seq(S) /\ Len(f \o <<x>>) = i + 1 /\ (\A k \in 1..i : (f \o <<x>>)[k] = f[k])
      /\ (f \o <<x>>)[i + 1] = x
  BY <1>1, <1>3
<1>5. ASSUME NEW k \in 1..(i + 1) PROVE (f \o <<x>>)[k] = g[k]
  <2>1. k \in 1..i \/ k = i + 1
    OBVIOUS
  <2> QED
    BY <1>2, <1>4, <2>1
<1>6. f \o <<x>> = g
  BY <1>3, <1>4, <1>5
<1> QED
  BY <1>6 DEF f, x, g

\* Where the loop of DecodeList may be.
ListState(n, v, j, W, L, s, i) ==
  /\ SomeFirst(n, v, i, s.ret)
  /\ Place(j, i) <= L
  /\ s.state = "reads" => s.pos = Place(j, i) /\ (i = 0 \/ Place(j, i) < L - 1)
  /\ v \in Solid[n] => /\ s.ret = FirstNormal(n, v, i)
                       /\ s.state = "returned" => Place(j, i) >= L - 1
                       /\ L = Len(W) => s.state # "threw"

\* the invariant of the loop of DecodeList
ListInv(n, v, j, W, L, s) ==
  s.state \in {"reads", "returned", "threw"} /\ \E i \in 0..Len(v[2]) : ListState(n, v, j, W, L, s, i)

\* A round does not leave these states, and moves on.
LEMMA ListRoundStep ==
  ASSUME NEW n \in 0..Depth, NEW v \in Containers(n), v[1] = "list", NEW j, NEW W, NEW L,
         Setting(n, v, j, W, L), NEW inner, FairInner(n - 1, inner, L - 1),
         NEW s, ListInv(n, v, j, W, L, s), At(W, Len(W) - 1) = "e"
  PROVE  LET t == ListRound(SubSeq(W, 1, L), inner, s) IN
         /\ ListInv(n, v, j, W, L, t)
         /\ t.state = "reads" => s.state = "reads" /\ t.pos >= s.pos + 1
<1> DEFINE data == SubSeq(W, 1, L)
           t == ListRound(data, inner, s)
           N == Len(v[2])
<1>1. CASE s.state # "reads"
  <2>1. t = s
    BY <1>1 DEF ListRound
  <2> HIDE DEF t
  <2> QED
    BY <1>1, <2>1 DEF t
<1>2. CASE s.state = "reads"
  <2> DEFINE found == Element(data, s.pos, inner)
  <2>1. t = IF found.ends = "goes on" THEN GoOn(data, found.next, s.ret \o found.vals)
            ELSE Loop(s.pos, s.ret, found.ends)
    BY <1>2 DEF ListRound
  <2>2. PICK i \in 0..N : ListState(n, v, j, W, L, s, i)
    BY DEF ListInv
  <2>3. /\ N \in Nat /\ Len(Pieces(n, v)) = N
        /\ \A k \in 1..N : v[2][k] \in Tree[n - 1] /\ Pieces(n, v)[k] = Encoder[n - 1][v[2][k]]
    BY ListPieces
  <2>4. /\ Place(j, 0) = 1 /\ Place(j, N) = Len(W) - 1 /\ \A k \in 0..N : Place(j, k) \in Nat \ {0}
        /\ \A k \in 1..N : /\ Place(j, k) = Place(j, k - 1) + Len(Pieces(n, v)[k])
                           /\ Stands(W, Place(j, k - 1), Pieces(n, v)[k])
    BY <2>3, Places
  <2>5. /\ W \in ByteArray /\ L \in Nat /\ Len(W) \in Nat /\ 2 <= L /\ L <= Len(W) /\ L \in 0..Len(W)
        /\ At(data, L - 1) = "e" /\ Len(data) = L /\ data \in ByteArray
        /\ \A p \in 0..(L - 1) : At(data, p) = At(W, p)
    <3>1. W \in ByteArray /\ L \in 2..Len(W) /\ At(data, L - 1) = "e"
      BY DEF Setting
    <3>2. Len(W) \in Nat
      BY <3>1 DEF ByteArray
    <3>3. L \in 0..Len(W)
      BY <3>1, <3>2
    <3>4. /\ data \in ByteArray /\ Len(data) = L
          /\ \A p \in 0..(L - 1) : At(data, p) = At(W, p)
      BY <3>1, <3>3, LeadingBytes
    <3> HIDE DEF data
    <3> QED
      BY <3>1, <3>2, <3>3, <3>4
  <2>6. n - 1 \in 0..Depth /\ i \in Nat /\ s.pos = Place(j, i) /\ s.pos \in Nat \ {0} /\ s.pos < L
    <3>1. n - 1 \in 0..Depth /\ i \in Nat
      BY ContainerShape
    <3>2. s.pos = Place(j, i) /\ Place(j, i) \in Nat \ {0} /\ (i = 0 \/ Place(j, i) < L - 1)
      BY <1>2, <2>2, <2>4 DEF ListState
    <3> QED
      BY <2>4, <2>5, <3>1, <3>2
  <2>7. i # N \/ (N = 0 /\ s.pos = 1 /\ L = 2 /\ Len(W) = 2)
    <3> SUFFICES ASSUME i = N PROVE N = 0 /\ s.pos = 1 /\ L = 2 /\ Len(W) = 2
      OBVIOUS
    <3>1. i = 0 \/ Place(j, i) < L - 1
      BY <1>2, <2>2 DEF ListState
    <3>2. Place(j, i) = Len(W) - 1
      BY <2>4
    <3>3. i = 0
      BY <2>5, <3>1, <3>2
    <3>4. s.pos = 1 /\ Len(W) = 2
      <4>1. s.pos = 1
        BY <2>4, <2>6, <3>3
      <4>2. Len(W) - 1 = 1
        BY <2>6, <3>2, <4>1
      <4> QED
        BY <2>5, <4>1, <4>2
    <3> QED
      BY <2>5, <3>3, <3>4
  <2>8. CASE N = 0 /\ s.pos = 1 /\ L = 2 /\ Len(W) = 2
    <3>1. At(data, s.pos) = "e" /\ s.pos = Len(data) - 1
      BY <2>5, <2>8
    <3>2. pickAndDecode(data, s.pos).next = -1
      BY <2>5, <2>6, <3>1, PickAtEnd
    <3>3. found = Found(<<>>, s.pos, "threw")
      BY <3>1, <3>2, ElementIsNone
    <3> HIDE DEF found, t
    <3>31. found.ends = "threw"
      BY <3>3 DEF Found
    <3>4. t = Loop(s.pos, s.ret, "threw")
      BY <2>1, <3>31
    <3>5. v \notin Solid[n]
      <4>1. v \in Solid[n] => v[2] # <<>>
        BY SolidShape
      <4>2. v[2] \in Seq(Tree[n - 1]) /\ Len(v[2]) = 0
        BY <2>8, ListPieces
      <4> QED
        BY <4>1, <4>2
    <3>6. t.ret = s.ret /\ t.state = "threw"
      BY <3>4 DEF Loop
    <3>7. ListState(n, v, j, W, L, t, i)
      BY <2>2, <3>5, <3>6 DEF ListState
    <3> QED
      BY <2>2, <3>6, <3>7 DEF ListInv, t
  <2>9. CASE i # N
    <3> DEFINE c == v[2][i + 1]
               E == Encoder[n - 1][c]
               next == s.pos + Len(E)
    <3>1. i + 1 \in 1..N /\ (i + 1) - 1 = i /\ i + 1 \in 0..N
      BY <2>3, <2>6, <2>9
    <3>2. c \in Tree[n - 1] /\ Pieces(n, v)[i + 1] = E
      BY <2>3, <3>1
    <3>3. E \in ByteArray /\ Len(E) \in Nat \ {0}
      BY <2>6, <3>2, EncodingIsSome
    <3>4. Place(j, i + 1) = next /\ Stands(W, s.pos, E)
      BY <2>4, <2>6, <3>1, <3>2
    <3>5. next \in Nat /\ next >= s.pos + 1
      <4>1. \A x \in Nat \ {0} : \A y \in Nat \ {0} : x + y \in Nat /\ x + y >= x + 1
        OBVIOUS
      <4> HIDE DEF E
      <4> QED
        BY <2>6, <3>3, <4>1
    <3>6. /\ next <= L => \/ FoundWhole(n - 1, c, found, next)
                          \/ FoundNothing(n - 1, c, found, s.pos, next)
          /\ next > L => found = Found(<<>>, s.pos, "threw")
      <4> DEFINE m == n - 1
      <4>1. m \in 0..Depth /\ c \in Tree[m] /\ FairInner(m, inner, L - 1) /\ Stands(W, s.pos, Encoder[m][c])
        BY <2>6, <3>2, <3>4
      <4>2. W \in ByteArray /\ L \in 0..Len(W) /\ s.pos \in Nat \ {0} /\ s.pos < L
            /\ At(SubSeq(W, 1, L), L - 1) = "e"
        BY <2>5, <2>6
      <4> HIDE DEF m, c
      <4> DEFINE pos == s.pos
      <4> HIDE DEF pos
      <4>3. ElementFinds(m, c, W, L, pos, inner)
        BY <4>1, <4>2, ElementFound DEF pos
      <4> QED
        BY <4>3 DEF m, pos, ElementFinds
    <3>7. v \in Solid[n] => c \in Solid[n - 1]
      <4>1. v \in Solid[n] => v[2] \in Seq(Solid[n - 1])
        BY SolidShape
      <4> QED
        BY <3>1, <4>1
    <3> HIDE DEF c, E, next, found, t
    <3>8. CASE next > L
      <4>0. found.ends = "threw"
        BY <3>6, <3>8 DEF Found
      <4>1. t = Loop(s.pos, s.ret, "threw")
        BY <2>1, <4>0
      <4>2. t.ret = s.ret /\ t.state = "threw"
        BY <4>1 DEF Loop
      <4>3. L # Len(W)
        <5>1. Place(j, i + 1) <= Place(j, N)
          <6>1. N \in (i + 1)..N
            BY <2>3, <3>1
          <6> QED
            BY <2>3, <3>1, <6>1, PlacesGrow
        <5> QED
          BY <2>4, <2>5, <3>4, <3>5, <3>8, <5>1
      <4>4. ListState(n, v, j, W, L, t, i)
        BY <2>2, <4>2, <4>3 DEF ListState
      <4> QED
        BY <2>2, <4>2, <4>4 DEF ListInv, t
    <3>9. CASE next <= L /\ FoundWhole(n - 1, c, found, next)
      <4>1. PICK x \in Tree[n - 1] : /\ found = Found(<<x>>, next, "goes on")
                                     /\ Parts[n - 1][Normalizer[n - 1][c]][x]
                                     /\ c \in Solid[n - 1] => x = Normalizer[n - 1][c]
        BY <3>9 DEF FoundWhole
      <4>20. found.ends = "goes on" /\ found.next = next /\ found.vals = <<x>>
        BY <4>1 DEF Found
      <4>2. t = GoOn(data, next, s.ret \o <<x>>)
        BY <2>1, <4>20
      <4>3. /\ t.ret = s.ret \o <<x>> /\ t.pos = next
            /\ t.state = IF next >= L - 1 THEN "returned" ELSE "reads"
        BY <2>5, <4>2 DEF GoOn, Loop
      <4>4. SomeFirst(n, v, i + 1, t.ret)
        BY <2>2, <2>6, <4>1, <4>3, SomeFirstAdds DEF ListState, c
      <4>5. v \in Solid[n] => t.ret = FirstNormal(n, v, i + 1)
        <5> SUFFICES ASSUME v \in Solid[n] PROVE t.ret = FirstNormal(n, v, i + 1)
          OBVIOUS
        <5>1. x = Normalizer[n - 1][v[2][i + 1]]
          BY <3>7, <4>1 DEF c
        <5>2. s.ret = FirstNormal(n, v, i)
          BY <2>2 DEF ListState
        <5> QED
          BY <2>6, <4>3, <5>1, <5>2, FirstNormalAdds
      <4>6. next < L - 1 \/ next >= L - 1
        BY <2>5, <3>5
      <4>7. ListState(n, v, j, W, L, t, i + 1)
        BY <3>4, <3>9, <4>3, <4>4, <4>5, <4>6 DEF ListState
      <4>8. t.state \in {"reads", "returned"}
        BY <4>3
      <4> QED
        BY <1>2, <3>1, <3>5, <4>3, <4>7, <4>8 DEF ListInv, t
    <3>10. CASE next <= L /\ FoundNothing(n - 1, c, found, s.pos, next)
      <4>1. v \notin Solid[n] /\ found \in {Found(<<>>, s.pos, "returned"), Found(<<>>, next, "goes on")}
        BY <3>7, <3>10 DEF FoundNothing
      <4>2. CASE found = Found(<<>>, s.pos, "returned")
        <5>0. found.ends = "returned"
          BY <4>2 DEF Found
        <5>1. t = Loop(s.pos, s.ret, "returned")
          BY <2>1, <5>0
        <5>2. t.ret = s.ret /\ t.state = "returned"
          BY <5>1 DEF Loop
        <5>3. ListState(n, v, j, W, L, t, i)
          BY <2>2, <4>1, <5>2 DEF ListState
        <5> QED
          BY <2>2, <5>2, <5>3 DEF ListInv, t
      <4>3. CASE found = Found(<<>>, next, "goes on")
        <5>0. found.ends = "goes on" /\ found.next = next /\ found.vals = <<>>
          BY <4>3 DEF Found
        <5>1. t = GoOn(data, next, s.ret \o <<>>)
          BY <2>1, <5>0
        <5>2. s.ret \o <<>> = s.ret
          <6>1. s.ret \in Seq(Tree[n - 1])
            BY <2>2 DEF ListState, SomeFirst
          <6> QED
            BY <6>1
        <5>3. /\ t.ret = s.ret /\ t.pos = next
              /\ t.state = IF next >= L - 1 THEN "returned" ELSE "reads"
          BY <2>5, <5>1, <5>2 DEF GoOn, Loop
        <5>4. SomeFirst(n, v, i + 1, t.ret)
          BY <2>2, <2>6, <5>3, SomeFirstSkips DEF ListState
        <5>5. next < L - 1 \/ next >= L - 1
          BY <2>5, <3>5
        <5>6. ListState(n, v, j, W, L, t, i + 1)
          BY <3>4, <3>10, <4>1, <5>3, <5>4, <5>5 DEF ListState
        <5>7. t.state \in {"reads", "returned"}
          BY <5>3
        <5> QED
          BY <1>2, <3>1, <3>5, <5>3, <5>6, <5>7 DEF ListInv, t
      <4> QED
        BY <4>1, <4>2, <4>3
    <3>11. next <= L \/ next > L
      BY <2>5, <3>5
    <3> QED
      BY <3>6, <3>8, <3>9, <3>10, <3>11
  <2> QED
    BY <2>7, <2>8, <2>9
<1> QED
  BY <1>1, <1>2

\* What DecodeList makes of the bytes that are left of a list.
ListOutcome(n, v, lost, r) ==
  \E i \in 0..Len(v[2]), ret \in Seq(Tree[n - 1]) :
    /\ r \in {Returned(<<"list", ret>>), Thrown(<<"list", ret>>)}
    /\ SomeFirst(n, v, i, ret)
    /\ v \in Solid[n] => /\ ret = FirstNormal(n, v, i)
                         /\ lost = 0 => i = Len(v[2]) /\ r = Returned(<<"list", ret>>)

\* What DecodeList makes of a list that lost bytes at its end: the invariant of
\* its loop, at the last round.
LEMMA ListRead ==
  ASSUME NEW n \in 0..Depth, NEW v \in Containers(n), v[1] = "list", NEW j, NEW W, NEW L,
         Setting(n, v, j, W, L), NEW inner, FairInner(n - 1, inner, L - 1), At(W, Len(W) - 1) = "e",
         At(W, 0) = "l"
  PROVE  ListOutcome(n, v, Len(W) - L, DecodeList(SubSeq(W, 1, L), inner))
<1> DEFINE data == SubSeq(W, 1, L)
           N == Len(v[2])
           Type == "list"
<1>1. /\ W \in ByteArray /\ L \in Nat /\ Len(W) \in Nat /\ 2 <= L /\ L <= Len(W) /\ L \in 0..Len(W)
      /\ At(data, L - 1) = "e" /\ Len(data) = L /\ data \in ByteArray /\ At(data, 0) = "l"
  <2>1. W \in ByteArray /\ L \in 2..Len(W) /\ At(data, L - 1) = "e"
    BY DEF Setting
  <2>2. Len(W) \in Nat
    BY <2>1 DEF ByteArray
  <2>3. L \in 0..Len(W) /\ 0 \in 0..(L - 1)
    BY <2>1, <2>2
  <2>4. /\ data \in ByteArray /\ Len(data) = L
        /\ \A p \in 0..(L - 1) : At(data, p) = At(W, p)
    BY <2>1, <2>3, LeadingBytes
  <2> HIDE DEF data
  <2> QED
    BY <2>1, <2>2, <2>3, <2>4
<1> HIDE DEF data
<1>2. PICK s : ListRounds(data, inner, s) /\ DecodeList(data, inner) = Seen("list", s[Len(data)])
  BY <1>1, ListLoop
<1>3. s[0] = Loop(1, <<>>, "reads") /\ \A m \in 1..L : s[m] = ListRound(data, inner, s[m - 1])
  BY <1>1, <1>2 DEF ListRounds
<1>4. /\ N \in Nat /\ Len(Pieces(n, v)) = N /\ n - 1 \in 0..Depth
      /\ \A k \in 1..N : v[2][k] \in Tree[n - 1] /\ Pieces(n, v)[k] = Encoder[n - 1][v[2][k]]
  BY ListPieces, ContainerShape
<1>5. /\ Place(j, 0) = 1 /\ Place(j, N) = Len(W) - 1 /\ \A k \in 0..N : Place(j, k) \in Nat \ {0}
      /\ \A k \in 1..N : Place(j, k) = Place(j, k - 1) + Len(Pieces(n, v)[k])
  BY <1>4, Places
<1> DEFINE Good(m) == ListInv(n, v, j, W, L, s[m]) /\ (s[m].state = "reads" => s[m].pos \in Nat /\ s[m].pos >= m + 1)
           T == {m \in Nat : m <= L => Good(m)}
<1>6. Good(0)
  <2>1. s[0].pos = 1 /\ s[0].ret = <<>> /\ s[0].state = "reads"
    BY <1>3 DEF Loop
  <2>2. SomeFirst(n, v, 0, <<>>) /\ FirstNormal(n, v, 0) = <<>>
    BY SomeFirstNone
  <2>3. 0 \in 0..N
    BY <1>4
  <2>4. ListState(n, v, j, W, L, s[0], 0)
    BY <1>1, <1>5, <2>1, <2>2 DEF ListState
  <2> QED
    BY <2>1, <2>3, <2>4 DEF ListInv
<1>7. ASSUME NEW m \in Nat, m \in T PROVE m + 1 \in T
  <2> SUFFICES ASSUME m + 1 <= L PROVE Good(m + 1)
    OBVIOUS
  <2>1. m + 1 \in 1..L /\ (m + 1) - 1 = m /\ m <= L
    BY <1>1
  <2>2. Good(m)
    BY <1>7, <2>1
  <2>3. s[m + 1] = ListRound(data, inner, s[m])
    BY <1>3, <2>1
  <2> DEFINE a == s[m]
             t == s[m + 1]
  <2>4. ListInv(n, v, j, W, L, a)
    BY <2>2
  <2> HIDE DEF a
  <2>5. /\ ListInv(n, v, j, W, L, ListRound(data, inner, a))
        /\ ListRound(data, inner, a).state = "reads" =>
             a.state = "reads" /\ ListRound(data, inner, a).pos >= a.pos + 1
    BY <2>4, ListRoundStep DEF data
  <2>6. ListInv(n, v, j, W, L, t) /\ (t.state = "reads" => a.state = "reads" /\ t.pos >= a.pos + 1)
    BY <2>3, <2>5 DEF a
  <2>7. t.state = "reads" => t.pos \in Nat
    BY <1>5, <2>6 DEF ListInv, ListState
  <2>8. a.state = "reads" => a.pos \in Nat /\ a.pos >= m + 1
    BY <2>2 DEF a
  <2> HIDE DEF t
  <2>9. t.state = "reads" => t.pos >= (m + 1) + 1
    BY <2>6, <2>7, <2>8
  <2> QED
    BY <2>6, <2>7, <2>9 DEF t
<1>8. Good(L)
  <2>1. 0 \in T
    BY <1>6
  <2> HIDE DEF T, Good
  <2>2. Nat \subseteq T
    BY <1>7, <2>1, InductionInSet
  <2> USE DEF T
  <2> QED
    BY <1>1, <2>2
<1> DEFINE z == s[L]
<1>9. PICK i \in 0..N : ListState(n, v, j, W, L, z, i)
  BY <1>8 DEF ListInv
<1>10. z.state \in {"returned", "threw"}
  <2>1. z.state \in {"reads", "returned", "threw"} /\ (z.state = "reads" => z.pos \in Nat /\ z.pos >= L + 1)
    BY <1>8 DEF ListInv
  <2>2. z.state = "reads" => z.pos <= L
    BY <1>9 DEF ListState
  <2> HIDE DEF z
  <2> QED
    BY <1>1, <2>1, <2>2
<1> HIDE DEF z
<1>11. DecodeList(data, inner) = Seen("list", z)
  BY <1>1, <1>2 DEF z
<1>12. /\ z.state = "returned" => DecodeList(data, inner) = Returned(<<"list", z.ret>>)
       /\ z.state = "threw" => DecodeList(data, inner) = Thrown(<<"list", z.ret>>)
  BY <1>11 DEF Seen, Returned, Thrown
<1>13. ASSUME v \in Solid[n], L = Len(W) PROVE i = N /\ z.state = "returned"
  <2>1. z.state = "returned" /\ Place(j, i) >= L - 1
    BY <1>9, <1>10, <1>13 DEF ListState
  <2> SUFFICES ASSUME i # N PROVE FALSE
    BY <2>1
  <2>2. i + 1 \in 1..N /\ (i + 1) - 1 = i /\ i + 1 \in 0..N /\ N \in (i + 1)..N
    BY <1>4
  <2>3. Place(j, i + 1) <= Place(j, N)
    BY <1>4, <2>2, PlacesGrow
  <2>4. Place(j, i + 1) = Place(j, i) + Len(Pieces(n, v)[i + 1])
    BY <1>5, <2>2
  <2>5. Len(Pieces(n, v)[i + 1]) \in Nat \ {0}
    BY <1>4, <2>2, EncodingIsSome
  <2>6. Place(j, i) \in Nat /\ Place(j, i + 1) \in Nat
    BY <1>5, <2>2
  <2>7. Place(j, N) = L - 1
    BY <1>5, <1>13
  <2> QED
    BY <1>1, <2>1, <2>3, <2>4, <2>5, <2>6, <2>7
<1>14. z.ret \in Seq(Tree[n - 1]) /\ SomeFirst(n, v, i, z.ret)
  BY <1>9 DEF ListState, SomeFirst
<1>15. v \in Solid[n] => z.ret = FirstNormal(n, v, i)
  BY <1>9 DEF ListState
<1> DEFINE r == DecodeList(data, inner)
<1> HIDE DEF r
<1>16. r \in {Returned(<<"list", z.ret>>), Thrown(<<"list", z.ret>>)}
  BY <1>10, <1>12 DEF r
<1>17. v \in Solid[n] => (L = Len(W) => i = N /\ r = Returned(<<"list", z.ret>>))
  BY <1>12, <1>13 DEF r
<1>19. Len(W) - L = 0 => L = Len(W)
  BY <1>1
<1>18. ListOutcome(n, v, Len(W) - L, r)
  BY <1>14, <1>15, <1>16, <1>17, <1>19 DEF ListOutcome
<1> QED
  BY <1>18 DEF r, data

-----------------------------------------------------------------------------
(* The loop of DecodeDictionary *)

\* whether v has an entry for its i-th key
HasEntry(v, i) == v[2][KeyOrder[i]] # Absent

\* the first i keys
FirstKeys(i) == {KeyOrder[a] : a \in 1..i}

\* the normal entries of the first i keys of v
FirstEntries(n, v, i) ==
  [k \in Keys |-> IF k \in FirstKeys(i) /\ v[2][k] # Absent THEN Normalizer[n - 1][v[2][k]] ELSE Absent]

\* the entry of v for the key k is in data
EntryIsIn(n, v, data, k) ==
  \E p \in Nat : Stands(data, p, EncodeString(k) \o Encoder[n - 1][v[2][k]])

\* ret has parts of some of the entries of v, of which all is in data
PartEntries(n, v, data, ret) ==
  /\ ret \in Maps(Tree[n - 1])
  /\ \A k \in Keys : ret[k] # Absent => /\ v[2][k] # Absent /\ EntryIsIn(n, v, data, k)
                                        /\ Parts[n - 1][Normalizer[n - 1][v[2][k]]][ret[k]]

\* Before the first round the map is empty.
LEMMA NoEntries ==
  ASSUME NEW n, NEW v, NEW data
  PROVE  PartEntries(n, v, data, EmptyMap) /\ FirstEntries(n, v, 0) = EmptyMap
<1>1. FirstKeys(0) = {}
  BY DEF FirstKeys
<1>2. EmptyMap \in Maps(Tree[n - 1]) /\ \A k \in Keys : EmptyMap[k] = Absent
  BY DEF EmptyMap, Maps
<1>3. FirstEntries(n, v, 0) = EmptyMap
  BY <1>1 DEF FirstEntries, EmptyMap
<1> QED
  BY <1>2, <1>3 DEF PartEntries

\* The first i + 1 keys are the first i and the next one.
LEMMA OneMoreKey ==
  ASSUME NEW i \in Nat
  PROVE  FirstKeys(i + 1) = FirstKeys(i) \cup {KeyOrder[i + 1]}
<1>1. 1..(i + 1) = (1..i) \cup {i + 1}
  OBVIOUS
<1> QED
  BY <1>1 DEF FirstKeys

\* A key without a value adds no entry.
LEMMA FirstEntriesSkip ==
  ASSUME NEW n, NEW v, NEW i \in Nat, ~HasEntry(v, i + 1)
  PROVE  FirstEntries(n, v, i + 1) = FirstEntries(n, v, i)
BY OneMoreKey DEF FirstEntries, HasEntry

\* A key with a value adds one.
LEMMA FirstEntriesAdds ==
  ASSUME NEW n, NEW v, NEW i \in Nat, HasEntry(v, i + 1)
  PROVE  FirstEntries(n, v, i + 1) =
           [FirstEntries(n, v, i) EXCEPT ![KeyOrder[i + 1]] = Normalizer[n - 1][v[2][KeyOrder[i + 1]]]]
<1> DEFINE K == KeyOrder[i + 1]
           N(k) == Normalizer[n - 1][v[2][k]]
<1>1. \A k \in Keys : k \in FirstKeys(i + 1) <=> (k \in FirstKeys(i) \/ k = K)
  BY OneMoreKey
<1>2. v[2][K] # Absent
  BY DEF HasEntry
<1> HIDE DEF K, N
<1>3. [k \in Keys |-> IF k \in FirstKeys(i + 1) /\ v[2][k] # Absent THEN N(k) ELSE Absent]
        = [[k \in Keys |-> IF k \in FirstKeys(i) /\ v[2][k] # Absent THEN N(k) ELSE Absent] EXCEPT ![K] = N(K)]
  BY <1>1, <1>2
<1> QED
  BY <1>3 DEF FirstEntries, K, N

\* An entry that is part of one encoded is added to such entries.
LEMMA PartEntriesAdds ==
  ASSUME NEW n, NEW v, NEW data, NEW ret, PartEntries(n, v, data, ret), NEW k \in Keys, NEW x \in Tree[n - 1],
         v[2][k] # Absent, EntryIsIn(n, v, data, k), Parts[n - 1][Normalizer[n - 1][v[2][k]]][x]
  PROVE  PartEntries(n, v, data, [ret EXCEPT ![k] = x])
<1> DEFINE new == [ret EXCEPT ![k] = x]
<1>1. ret \in [Keys -> Tree[n - 1] \cup {Absent}]
      /\ \A q \in Keys : ret[q] # Absent => /\ v[2][q] # Absent /\ EntryIsIn(n, v, data, q)
                                            /\ Parts[n - 1][Normalizer[n - 1][v[2][q]]][ret[q]]
  BY DEF PartEntries, Maps
<1>2. new \in [Keys -> Tree[n - 1] \cup {Absent}] /\ new[k] = x /\ \A q \in Keys : q # k => new[q] = ret[q]
  BY <1>1
<1> HIDE DEF new
<1>3. ASSUME NEW q \in Keys, new[q] # Absent
      PROVE  /\ v[2][q] # Absent /\ EntryIsIn(n, v, data, q)
             /\ Parts[n - 1][Normalizer[n - 1][v[2][q]]][new[q]]
  <2>1. CASE q = k
    BY <1>2, <2>1
  <2>2. CASE q # k
    BY <1>1, <1>2, <1>3, <2>2
  <2> QED
    BY <2>1, <2>2
<1>4. PartEntries(n, v, data, new)
  BY <1>2, <1>3 DEF PartEntries, Maps
<1> QED
  BY <1>4 DEF new

\* Where the next entry is: behind the first i entries, or there is none.
LEMMA NextEntry ==
  ASSUME NEW n \in 0..Depth, NEW v \in Containers(n), v[1] = "dict", NEW j, NEW W, NEW L,
         Setting(n, v, j, W, L), NEW i \in 0..Len(KeyOrder)
  PROVE  \/ /\ Place(j, Len(KeyOrder)) = Place(j, i)
            /\ FirstEntries(n, v, Len(KeyOrder)) = FirstEntries(n, v, i)
            /\ \A a \in (i + 1)..Len(KeyOrder) : ~HasEntry(v, a)
         \/ \E q \in i..(Len(KeyOrder) - 1) :
              /\ Place(j, q) = Place(j, i) /\ FirstEntries(n, v, q) = FirstEntries(n, v, i) /\ HasEntry(v, q + 1)
<1> DEFINE N == Len(KeyOrder)
           Same(q) == Place(j, q) = Place(j, i) /\ FirstEntries(n, v, q) = FirstEntries(n, v, i)
           None(q) == \A a \in (i + 1)..q : ~HasEntry(v, a)
           Next1 == \E q \in i..(N - 1) : Same(q) /\ HasEntry(v, q + 1)
           T == {m \in Nat : i + m <= N => (Same(i + m) /\ None(i + m)) \/ Next1}
<1>1. /\ N \in Nat /\ Len(Pieces(n, v)) = N /\ i \in Nat
      /\ \A a \in 1..N : ~HasEntry(v, a) => Pieces(n, v)[a] = <<>>
  BY MapPieces, OrderedKeys DEF HasEntry
<1>2. /\ \A a \in 0..N : Place(j, a) \in Nat
      /\ \A a \in 1..N : Place(j, a) = Place(j, a - 1) + Len(Pieces(n, v)[a])
  BY <1>1, Places
<1>3. 0 \in T
  <2>1. i + 0 = i
    BY <1>1
  <2>2. Same(i + 0) /\ None(i + 0)
    BY <1>1, <2>1
  <2> QED
    BY <2>2
<1>4. ASSUME NEW m \in Nat, m \in T PROVE m + 1 \in T
  <2> SUFFICES ASSUME i + (m + 1) <= N PROVE (Same(i + (m + 1)) /\ None(i + (m + 1))) \/ Next1
    OBVIOUS
  <2> DEFINE q == i + m
  <2>1. /\ i + (m + 1) = q + 1 /\ q + 1 \in 1..N /\ (q + 1) - 1 = q /\ q \in 0..N /\ q \in Nat /\ q <= N
        /\ q \in i..(N - 1)
    BY <1>1
  <2>2. (Same(q) /\ None(q)) \/ Next1
    BY <1>4, <2>1
  <2> HIDE DEF q, Next1
  <2>3. CASE Same(q) /\ None(q) /\ ~HasEntry(v, q + 1)
    <3>1. Place(j, q + 1) = Place(j, q)
      <4>1. Place(j, q + 1) = Place(j, q) + Len(Pieces(n, v)[q + 1]) /\ Pieces(n, v)[q + 1] = <<>>
        BY <1>1, <1>2, <2>1, <2>3
      <4>2. Place(j, q) \in Nat
        BY <1>2, <2>1
      <4> QED
        BY <4>1, <4>2
    <3>2. FirstEntries(n, v, q + 1) = FirstEntries(n, v, q)
      BY <2>1, <2>3, FirstEntriesSkip
    <3>3. None(q + 1)
      <4>1. \A a \in (i + 1)..(q + 1) : a \in (i + 1)..q \/ a = q + 1
        BY <1>1, <2>1
      <4> QED
        BY <2>3, <4>1
    <3>4. Same(q + 1)
      BY <2>3, <3>1, <3>2
    <3> QED
      BY <2>1, <3>3, <3>4
  <2>4. CASE Same(q) /\ HasEntry(v, q + 1)
    BY <2>1, <2>4 DEF Next1
  <2> QED
    BY <2>2, <2>3, <2>4
<1>5. N - i \in T
  <2> HIDE DEF T
  <2>1. Nat \subseteq T
    BY <1>3, <1>4, InductionInSet
  <2>2. N - i \in Nat
    BY <1>1
  <2> QED
    BY <2>1, <2>2
<1>6. i + (N - i) = N
  BY <1>1
<1>7. (Same(N) /\ None(N)) \/ Next1
  <2> HIDE DEF Same, None, Next1
  <2> QED
    BY <1>1, <1>5, <1>6
<1> QED
  BY <1>7

\* An entry: its key, and its value behind that.
EntryIsAt(n, v, j, W, i) ==
  LET k == KeyOrder[i + 1]
      c == v[2][k]
      E == Encoder[n - 1][c]
      keyEnd == Place(j, i) + Len(EncodeString(k))
  IN  /\ k \in Keys /\ k \in ByteArray /\ c \in Tree[n - 1] /\ n - 1 \in 0..Depth
      /\ E \in ByteArray /\ Len(E) \in Nat \ {0}
      /\ EncodeString(k) \in ByteArray /\ Len(EncodeString(k)) \in Nat \ {0}
      /\ Stands(W, Place(j, i), EncodeString(k)) /\ Stands(W, keyEnd, E)
      /\ Place(j, i + 1) = keyEnd + Len(E)
      /\ keyEnd \in Nat \ {0}

\* The entry of a key that has a value is in its place.
LEMMA EntryStands ==
  ASSUME NEW n \in 0..Depth, NEW v \in Containers(n), v[1] = "dict", NEW j, NEW W, NEW L,
         Setting(n, v, j, W, L), NEW i \in 0..(Len(KeyOrder) - 1), HasEntry(v, i + 1)
  PROVE  EntryIsAt(n, v, j, W, i)
<1> DEFINE k == KeyOrder[i + 1]
           c == v[2][k]
           E == Encoder[n - 1][c]
           S == EncodeString(k)
           pos == Place(j, i)
<1>1. Len(KeyOrder) \in Nat /\ i + 1 \in 1..Len(KeyOrder) /\ (i + 1) - 1 = i
  BY OrderedKeys
<1>2. k \in Keys /\ k \in ByteArray
  BY <1>1, OrderedKeys
<1>3. /\ Len(Pieces(n, v)) = Len(KeyOrder) /\ c \in Tree[n - 1] /\ Pieces(n, v)[i + 1] = S \o E
      /\ n - 1 \in 0..Depth
  BY <1>1, MapPieces, ContainerShape, Zenon DEF HasEntry
<1>4. E \in ByteArray /\ Len(E) \in Nat \ {0}
  BY <1>3, EncodingIsSome
<1>5. S \in ByteArray /\ Len(S) \in Nat \ {0}
  <2>1. /\ S \in ByteArray /\ Len(S) = (Len(number(Len(k))) + 1) + Len(k)
        /\ Len(number(Len(k))) \in Nat
    BY <1>2, StringEncoding
  <2>2. Len(k) \in Nat
    BY <1>2 DEF ByteArray
  <2> HIDE DEF S, k
  <2> QED
    BY <2>1, <2>2
<1>6. /\ W \in ByteArray /\ pos \in Nat \ {0} /\ Place(j, i + 1) = pos + Len(Pieces(n, v)[i + 1])
      /\ Stands(W, pos, Pieces(n, v)[i + 1])
  <2>1. i \in 0..Len(KeyOrder)
    BY <1>1
  <2>2. W \in ByteArray
    BY DEF Setting
  <2>3. Len(Pieces(n, v)) = Len(KeyOrder)
    BY <1>3
  <2>4. /\ \A a \in 0..Len(KeyOrder) : Place(j, a) \in Nat \ {0}
        /\ \A a \in 1..Len(KeyOrder) : /\ Place(j, a) = Place(j, a - 1) + Len(Pieces(n, v)[a])
                                       /\ Stands(W, Place(j, a - 1), Pieces(n, v)[a])
    BY <2>3, Places
  <2> QED
    BY <1>1, <2>1, <2>2, <2>4, Zenon
<1>7. pos \in Nat /\ Stands(W, pos, S \o E) /\ Place(j, i + 1) = pos + Len(S \o E)
  <2>1. pos \in Nat
    BY <1>6
  <2> QED
    BY <1>3, <1>6, <2>1, Zenon
<1> HIDE DEF S, E, pos, k, c
<1>8. Stands(W, pos, S) /\ Stands(W, pos + Len(S), E)
  BY <1>4, <1>5, <1>6, <1>7, StandsSplit
<1>9. Len(S \o E) = Len(S) + Len(E) /\ S \o E \in ByteArray
  BY <1>4, <1>5, Concatenated
<1>10. Place(j, i + 1) = (pos + Len(S)) + Len(E) /\ pos + Len(S) \in Nat \ {0}
  <2>1. Place(j, i + 1) = pos + (Len(S) + Len(E))
    BY <1>7, <1>9, Zenon
  <2>2. pos \in Nat /\ pos \in Nat \ {0} /\ Len(S) \in Nat /\ Len(E) \in Nat /\ Len(S) \in Nat \ {0}
    BY <1>4, <1>5, <1>6, Zenon
  <2> QED
    <3> DEFINE x == Len(S)
               y == Len(E)
               z == Place(j, i + 1)
    <3>1. z = pos + (x + y) /\ pos \in Nat \ {0} /\ x \in Nat \ {0} /\ y \in Nat
      BY <2>1, <2>2, Zenon
    <3> HIDE DEF x, y, z
    <3>2. z = (pos + x) + y /\ pos + x \in Nat \ {0}
      BY <3>1
    <3> QED
      BY <3>2 DEF x, y, z
<1> QED
  BY <1>2, <1>3, <1>4, <1>5, <1>7, <1>8, <1>9, <1>10, Zenon DEF S, E, pos, k, c, EntryIsAt

\* An entry, as a whole.
LEMMA EntryWhole ==
  ASSUME NEW n \in 0..Depth, NEW v \in Containers(n), v[1] = "dict", NEW j, NEW W, NEW L,
         Setting(n, v, j, W, L), NEW i \in 0..(Len(KeyOrder) - 1), HasEntry(v, i + 1)
  PROVE  LET p == EncodeString(KeyOrder[i + 1]) \o Encoder[n - 1][v[2][KeyOrder[i + 1]]]
         IN  /\ p \in ByteArray /\ Stands(W, Place(j, i), p)
             /\ Place(j, i + 1) = Place(j, i) + Len(p)
<1> DEFINE p == Pieces(n, v)[i + 1]
<1>1. Len(KeyOrder) \in Nat /\ i + 1 \in 1..Len(KeyOrder) /\ (i + 1) - 1 = i
  BY OrderedKeys
<1>2. /\ Len(Pieces(n, v)) = Len(KeyOrder)
      /\ p = EncodeString(KeyOrder[i + 1]) \o Encoder[n - 1][v[2][KeyOrder[i + 1]]]
  BY <1>1, MapPieces DEF HasEntry
<1>3. \A a \in 1..Len(KeyOrder) : /\ Place(j, a) = Place(j, a - 1) + Len(Pieces(n, v)[a])
                                 /\ Pieces(n, v)[a] \in ByteArray
                                 /\ Stands(W, Place(j, a - 1), Pieces(n, v)[a])
  BY <1>2, Places
<1>4. p \in ByteArray /\ Stands(W, Place(j, i), p) /\ Place(j, i + 1) = Place(j, i) + Len(p)
  BY <1>1, <1>3
<1> HIDE DEF p
<1> QED
  BY <1>2, <1>4, Zenon

\* Where the loop of DecodeDictionary may be.
MapState(n, v, j, W, L, s, i) ==
  /\ PartEntries(n, v, SubSeq(W, 1, L), s.ret)
  /\ Place(j, i) <= L
  /\ s.state = "reads" => s.pos = Place(j, i) /\ (Place(j, i) = 1 \/ Place(j, i) < L - 1)
  /\ v \in Solid[n] => /\ s.ret = FirstEntries(n, v, i)
                       /\ s.state = "returned" => Place(j, i) >= L - 1
                       /\ L = Len(W) => s.state # "threw"

\* the invariant of the loop of DecodeDictionary
MapInv(n, v, j, W, L, s) ==
  s.state \in {"reads", "returned", "threw"} /\ \E i \in 0..Len(KeyOrder) : MapState(n, v, j, W, L, s, i)

\* A round that ends as a throw in an entry that is not whole keeps them.
LEMMA MapStops ==
  ASSUME NEW n, NEW v, NEW j, NEW W, NEW L, NEW s, NEW t, NEW i \in 0..Len(KeyOrder),
         MapState(n, v, j, W, L, s, i), t.ret = s.ret,
         t.state = "threw" \/ t.state = "returned",
         v \in Solid[n] => t.state = "threw" /\ L # Len(W)
  PROVE  MapInv(n, v, j, W, L, t) /\ t.state # "reads"
<1>1. t.state # "reads" /\ (v \in Solid[n] => t.state # "returned")
  OBVIOUS
<1>2. MapState(n, v, j, W, L, t, i)
  BY <1>1 DEF MapState
<1> QED
  BY <1>1, <1>2 DEF MapInv

\* A round does not leave these states, and moves on.
LEMMA DictionaryRoundStep ==
  ASSUME NEW n \in 0..Depth, NEW v \in Containers(n), v[1] = "dict", NEW j, NEW W, NEW L,
         Setting(n, v, j, W, L), NEW inner, FairInner(n - 1, inner, L - 1),
         NEW s, MapInv(n, v, j, W, L, s), At(W, Len(W) - 1) = "e"
  PROVE  LET t == DictionaryRound(SubSeq(W, 1, L), inner, s) IN
         /\ MapInv(n, v, j, W, L, t)
         /\ t.state = "reads" => s.state = "reads" /\ t.pos >= s.pos + 1
<1> DEFINE data == SubSeq(W, 1, L)
           t == DictionaryRound(data, inner, s)
           N == Len(KeyOrder)
<1>1. CASE s.state # "reads"
  <2>1. t = s
    BY <1>1 DEF DictionaryRound
  <2> HIDE DEF t
  <2> QED
    BY <1>1, <2>1 DEF t
<1>2. CASE s.state = "reads"
  <2> DEFINE key == pickAndDecode(data, s.pos)
             found == Element(data, key.next, inner)
             ret == IF found.vals = <<>> THEN s.ret ELSE [s.ret EXCEPT ![key.contents] = found.vals[1]]
  <2>1. t = IF key.next = -1 \/ key.next >= Len(data) - 1 THEN Loop(s.pos, s.ret, "threw")
            ELSE IF found.ends = "goes on" THEN GoOn(data, found.next, ret)
            ELSE Loop(s.pos, s.ret, found.ends)
    BY <1>2 DEF DictionaryRound
  <2>2. PICK h \in 0..N : MapState(n, v, j, W, L, s, h)
    BY DEF MapInv
  <2>3. N \in Nat /\ Len(Pieces(n, v)) = N
    BY MapPieces, OrderedKeys
  <2>4. Place(j, 0) = 1 /\ Place(j, N) = Len(W) - 1 /\ \A k \in 0..N : Place(j, k) \in Nat \ {0}
    BY <2>3, Places
  <2>5. /\ W \in ByteArray /\ L \in Nat /\ Len(W) \in Nat /\ 2 <= L /\ L <= Len(W) /\ L \in 0..Len(W)
        /\ At(data, L - 1) = "e" /\ Len(data) = L /\ data \in ByteArray
    <3>1. W \in ByteArray /\ L \in 2..Len(W) /\ At(data, L - 1) = "e"
      BY DEF Setting
    <3>2. Len(W) \in Nat
      BY <3>1 DEF ByteArray
    <3>3. L \in 0..Len(W)
      BY <3>1, <3>2
    <3>4. data \in ByteArray /\ Len(data) = L
      BY <3>1, <3>3, LeadingBytes
    <3> HIDE DEF data
    <3> QED
      BY <3>1, <3>2, <3>3, <3>4
  <2>6. s.pos = Place(j, h) /\ (Place(j, h) = 1 \/ Place(j, h) < L - 1) /\ s.pos \in Nat \ {0} /\ s.pos < L
    <3>1. s.pos = Place(j, h) /\ (Place(j, h) = 1 \/ Place(j, h) < L - 1)
      BY <1>2, <2>2 DEF MapState
    <3>2. Place(j, h) \in Nat \ {0}
      BY <2>4
    <3> QED
      BY <2>5, <3>1, <3>2
  <2> HIDE DEF t
  <2>7. CASE /\ Place(j, N) = Place(j, h)
             /\ FirstEntries(n, v, N) = FirstEntries(n, v, h)
             /\ \A a \in (h + 1)..N : ~HasEntry(v, a)
    <3>1. s.pos = 1 /\ L = 2 /\ Len(W) = 2
      <4>1. Place(j, h) = Len(W) - 1
        BY <2>4, <2>7
      <4>2. Place(j, h) = 1
        BY <2>5, <2>6, <4>1
      <4>3. Len(W) - 1 = 1 /\ s.pos = 1
        BY <2>6, <4>1, <4>2
      <4>4. Len(W) = 2
        BY <2>5, <4>3
      <4> HIDE DEF data
      <4>5. L = 2
        BY <2>5, <4>4
      <4> QED
        BY <4>3, <4>4, <4>5
    <3>2. At(data, s.pos) = "e" /\ s.pos = Len(data) - 1
      BY <2>5, <3>1
    <3> HIDE DEF data, key, found, ret
    <3>3. key.next = -1
      BY <2>5, <2>6, <3>2, PickAtEnd DEF key
    <3>4. t.ret = s.ret /\ t.state = "threw"
      BY <2>1, <3>3 DEF Loop
    <3>5. v \notin Solid[n]
      <4> SUFFICES ASSUME v \in Solid[n] PROVE FALSE
        OBVIOUS
      <4>1. v[2] \in Maps(Solid[n - 1]) /\ v[2] # EmptyMap
        BY SolidShape
      <4>2. PICK k \in Keys : v[2][k] # Absent
        BY <4>1 DEF Maps, EmptyMap
      <4>3. PICK a \in 1..N : k = KeyOrder[a]
        BY OrderedKeys
      <4>4. HasEntry(v, a) /\ 0 \in 0..N /\ a \in (0 + 1)..N
        BY <2>3, <4>2, <4>3 DEF HasEntry
      <4>5. PICK q \in 0..(N - 1) : Place(j, q) = Place(j, 0) /\ HasEntry(v, q + 1)
        BY <4>4, NextEntry
      <4>6. PICK x \in Nat \ {0} : Place(j, q + 1) = 1 + x
        <5>1. \A y, z \in Nat \ {0} : (1 + y) + z = 1 + (y + z) /\ y + z \in Nat \ {0}
          OBVIOUS
        <5>2. Place(j, q) = 1
          BY <2>4, <4>5
        <5>3. /\ Len(Encoder[n - 1][v[2][KeyOrder[q + 1]]]) \in Nat \ {0}
              /\ Len(EncodeString(KeyOrder[q + 1])) \in Nat \ {0}
              /\ Place(j, q + 1) = (Place(j, q) + Len(EncodeString(KeyOrder[q + 1])))
                                      + Len(Encoder[n - 1][v[2][KeyOrder[q + 1]]])
          <6>1. EntryIsAt(n, v, j, W, q)
            BY <4>5, EntryStands
          <6> QED
            BY <6>1 DEF EntryIsAt
        <5> DEFINE y == Len(EncodeString(KeyOrder[q + 1]))
                   z == Len(Encoder[n - 1][v[2][KeyOrder[q + 1]]])
        <5>4. y \in Nat \ {0} /\ z \in Nat \ {0} /\ Place(j, q + 1) = (1 + y) + z
          BY <5>2, <5>3
        <5> HIDE DEF y, z
        <5>5. y + z \in Nat \ {0} /\ (1 + y) + z = 1 + (y + z)
          BY <5>1, <5>4
        <5> DEFINE x == y + z
        <5> HIDE DEF x
        <5>6. x \in Nat \ {0} /\ Place(j, q + 1) = 1 + x
          BY <5>4, <5>5 DEF x
        <5> QED
          BY <5>6
      <4>7. q + 1 \in 0..N /\ N \in (q + 1)..N
        BY <2>3
      <4>8. Place(j, q + 1) <= Place(j, N)
        BY <2>3, <4>7, PlacesGrow
      <4>9. Place(j, N) = 1
        BY <2>4, <3>1
      <4> QED
        BY <4>6, <4>8, <4>9
    <3>6. MapInv(n, v, j, W, L, t) /\ t.state # "reads"
      BY <2>2, <3>4, <3>5, MapStops
    <3> QED
      BY <3>6 DEF t, data
  <2>8. CASE \E q \in h..(N - 1) :
               /\ Place(j, q) = Place(j, h) /\ FirstEntries(n, v, q) = FirstEntries(n, v, h) /\ HasEntry(v, q + 1)
    <3>1. PICK i \in h..(N - 1) :
            /\ Place(j, i) = Place(j, h) /\ FirstEntries(n, v, i) = FirstEntries(n, v, h) /\ HasEntry(v, i + 1)
      BY <2>8
    <3>2. i \in 0..(N - 1) /\ i \in 0..N /\ i \in Nat /\ i + 1 \in 0..N /\ N \in (i + 1)..N
      BY <2>3
    <3>3. MapState(n, v, j, W, L, s, i)
      BY <2>2, <3>1 DEF MapState
    <3> DEFINE K == KeyOrder[i + 1]
               c == v[2][K]
               S == EncodeString(K)
               E == Encoder[n - 1][c]
               keyEnd == s.pos + Len(S)
               next == keyEnd + Len(E)
    <3>4. /\ K \in Keys /\ K \in ByteArray /\ c \in Tree[n - 1] /\ n - 1 \in 0..Depth
          /\ E \in ByteArray /\ Len(E) \in Nat \ {0}
          /\ S \in ByteArray /\ Len(S) \in Nat \ {0}
          /\ Stands(W, s.pos, S) /\ Stands(W, keyEnd, E)
          /\ Place(j, i + 1) = next
          /\ keyEnd \in Nat \ {0}
      <4>1. s.pos = Place(j, i)
        BY <2>6, <3>1
      <4>2. /\ K \in Keys /\ K \in ByteArray /\ c \in Tree[n - 1] /\ n - 1 \in 0..Depth
            /\ E \in ByteArray /\ Len(E) \in Nat \ {0}
            /\ S \in ByteArray /\ Len(S) \in Nat \ {0}
            /\ Stands(W, Place(j, i), S) /\ Stands(W, Place(j, i) + Len(S), E)
            /\ Place(j, i + 1) = (Place(j, i) + Len(S)) + Len(E)
            /\ Place(j, i) + Len(S) \in Nat \ {0}
        <5>1. EntryIsAt(n, v, j, W, i)
          BY <3>1, <3>2, EntryStands
        <5> QED
          BY <5>1 DEF EntryIsAt
      <4> HIDE DEF K, c, S, E
      <4> QED
        BY <4>1, <4>2
    <3>13. S \o E \in ByteArray /\ Stands(W, s.pos, S \o E) /\ next = s.pos + Len(S \o E)
      <4>1. s.pos = Place(j, i)
        BY <2>6, <3>1
      <4>2. /\ S \o E \in ByteArray /\ Stands(W, Place(j, i), S \o E)
            /\ Place(j, i + 1) = Place(j, i) + Len(S \o E)
        BY <3>1, <3>2, EntryWhole
      <4> HIDE DEF K, c, S, E, next
      <4> QED
        BY <3>4, <4>1, <4>2
    <3>5. next <= Len(W) - 1
      <4>1. Place(j, i + 1) <= Place(j, N)
        BY <2>3, <3>2, PlacesGrow
      <4> QED
        BY <2>4, <3>4, <4>1
    <3>6. c # Absent /\ (v \in Solid[n] => c \in Solid[n - 1])
      <4>1. c # Absent
        BY <3>1 DEF HasEntry
      <4>2. v \in Solid[n] => v[2] \in Maps(Solid[n - 1])
        BY SolidShape
      <4> QED
        BY <3>4, <4>1, <4>2 DEF Maps
    <3>7. next \in Nat /\ keyEnd < next /\ next >= s.pos + 1 /\ keyEnd \in Nat /\ s.pos \in Nat
      <4>1. \A x, y, z \in Nat \ {0} : (x + y) + z \in Nat /\ x + y < (x + y) + z /\ (x + y) + z >= x + 1
        OBVIOUS
      <4> HIDE DEF E, S
      <4> QED
        BY <2>6, <3>4, <4>1
    <3>8. ASSUME t.ret = s.ret, t.state = "threw" \/ t.state = "returned",
                 v \in Solid[n] => t.state = "threw" /\ L # Len(W)
          PROVE  MapInv(n, v, j, W, L, t) /\ t.state # "reads"
      BY <3>2, <3>3, <3>8, MapStops
    <3> HIDE DEF K, c, S, E, keyEnd, next
    <3>9. CASE keyEnd > L
      <4>1. key.next = -1
        <5>1. L < s.pos + Len(EncodeString(K)) /\ s.pos < L /\ Stands(W, s.pos, EncodeString(K))
          BY <2>5, <2>6, <3>4, <3>7, <3>9 DEF keyEnd, S
        <5> QED
          BY <2>5, <3>4, <3>7, <5>1, PickCutString
      <4>2. L # Len(W)
        BY <2>5, <3>5, <3>7, <3>9
      <4> HIDE DEF key, found, ret
      <4>3. t.ret = s.ret /\ t.state = "threw"
        BY <2>1, <4>1 DEF Loop
      <4> QED
        BY <3>8, <4>2, <4>3 DEF t
    <3>10. CASE keyEnd <= L
      <4>1. key = [next |-> keyEnd, contents |-> K]
        <5>1. Stands(data, s.pos, S)
          BY <2>5, <3>4, <3>7, <3>10, LeadingStand DEF keyEnd
        <5>2. Stands(data, s.pos, EncodeString(K))
          BY <5>1 DEF S
        <5> HIDE DEF data
        <5>3. pickAndDecode(data, s.pos) = [next |-> s.pos + Len(EncodeString(K)), contents |-> K]
          BY <2>5, <3>4, <3>7, <5>2, PickString
        <5> QED
          BY <5>3 DEF keyEnd, S
      <4>2. key.next = keyEnd /\ key.contents = K /\ key.next # -1
        BY <3>7, <4>1
      <4>3. CASE keyEnd >= L - 1
        <5>1. L # Len(W)
          BY <2>5, <3>5, <3>7, <4>3
        <5> HIDE DEF key, found, ret, data
        <5>2. t.ret = s.ret /\ t.state = "threw"
          BY <2>1, <2>5, <4>2, <4>3 DEF Loop
        <5> QED
          BY <3>8, <5>1, <5>2 DEF t, data
      <4>4. CASE keyEnd < L - 1
        <5> DEFINE F == Element(data, keyEnd, inner)
        <5>1. t = IF F.ends = "goes on"
                  THEN GoOn(data, F.next, IF F.vals = <<>> THEN s.ret ELSE [s.ret EXCEPT ![K] = F.vals[1]])
                  ELSE Loop(s.pos, s.ret, F.ends)
          <6>1. found = F
            BY <4>2
          <6>2. ~(key.next = -1 \/ key.next >= Len(data) - 1)
            <7> HIDE DEF key, data
            <7> QED
              BY <2>5, <3>7, <4>2, <4>4
          <6>3. ret = IF F.vals = <<>> THEN s.ret ELSE [s.ret EXCEPT ![K] = F.vals[1]]
            BY <4>2
          <6> HIDE DEF key, found, ret, F, data
          <6> QED
            BY <2>1, <6>1, <6>2, <6>3
        <5>2. /\ next <= L => \/ FoundWhole(n - 1, c, F, next)
                              \/ FoundNothing(n - 1, c, F, keyEnd, next)
              /\ next > L => F = Found(<<>>, keyEnd, "threw")
          <6> DEFINE m == n - 1
          <6>1. m \in 0..Depth /\ c \in Tree[m] /\ FairInner(m, inner, L - 1) /\ Stands(W, keyEnd, Encoder[m][c])
            BY <3>4 DEF E
          <6>2. W \in ByteArray /\ L \in 0..Len(W) /\ keyEnd \in Nat \ {0} /\ keyEnd < L
                /\ At(SubSeq(W, 1, L), L - 1) = "e"
            <7>1. keyEnd < L
              BY <2>5, <3>7, <4>4
            <7> QED
              BY <2>5, <3>4, <7>1
          <6> HIDE DEF m
          <6>3. ElementFinds(m, c, W, L, keyEnd, inner)
            BY <6>1, <6>2, ElementFound
          <6> QED
            BY <6>3 DEF m, E, next, ElementFinds
        <5> HIDE DEF F, key, found, ret
        <5>3. CASE next > L
          <6>1. F.ends = "threw"
            BY <5>2, <5>3 DEF Found
          <6>2. t.ret = s.ret /\ t.state = "threw"
            BY <5>1, <6>1 DEF Loop
          <6>3. L # Len(W)
            BY <2>5, <3>5, <3>7, <5>3
          <6> QED
            BY <3>8, <6>2, <6>3 DEF t
        <5>4. CASE next <= L /\ FoundWhole(n - 1, c, F, next)
          <6>1. PICK x \in Tree[n - 1] : /\ F = Found(<<x>>, next, "goes on")
                                         /\ Parts[n - 1][Normalizer[n - 1][c]][x]
                                         /\ c \in Solid[n - 1] => x = Normalizer[n - 1][c]
            BY <5>4 DEF FoundWhole
          <6>2. F.ends = "goes on" /\ F.next = next /\ F.vals # <<>> /\ F.vals[1] = x
            BY <6>1 DEF Found
          <6>3. t = GoOn(data, next, [s.ret EXCEPT ![K] = x])
            BY <5>1, <6>2
          <6>4. /\ t.ret = [s.ret EXCEPT ![K] = x] /\ t.pos = next
                /\ t.state = IF next >= L - 1 THEN "returned" ELSE "reads"
            BY <2>5, <6>3 DEF GoOn, Loop
          <6>5. PartEntries(n, v, data, t.ret)
            <7>1. PartEntries(n, v, data, s.ret)
              BY <3>3 DEF MapState
            <7>4. EntryIsIn(n, v, data, K)
              <8>1. /\ EncodeString(K) \o Encoder[n - 1][v[2][K]] \in ByteArray
                    /\ Stands(W, s.pos, EncodeString(K) \o Encoder[n - 1][v[2][K]])
                    /\ next = s.pos + Len(EncodeString(K) \o Encoder[n - 1][v[2][K]])
                BY <3>13 DEF S, E, c
              <8> DEFINE p == EncodeString(K) \o Encoder[n - 1][v[2][K]]
              <8>2. p \in ByteArray /\ Stands(W, s.pos, p) /\ s.pos + Len(p) <= L
                BY <5>4, <8>1
              <8> HIDE DEF p
              <8>3. Stands(data, s.pos, p)
                BY <2>5, <3>7, <8>2, LeadingStand
              <8> QED
                BY <3>7, <8>3 DEF EntryIsIn, p
            <7>2. v[2][K] # Absent /\ Parts[n - 1][Normalizer[n - 1][v[2][K]]][x]
              BY <3>6, <6>1 DEF c
            <7>3. PartEntries(n, v, data, [s.ret EXCEPT ![K] = x])
              BY <3>4, <7>1, <7>2, <7>4, PartEntriesAdds
            <7> QED
              BY <6>4, <7>3
          <6>6. v \in Solid[n] => t.ret = FirstEntries(n, v, i + 1)
            <7> SUFFICES ASSUME v \in Solid[n] PROVE t.ret = FirstEntries(n, v, i + 1)
              OBVIOUS
            <7>1. x = Normalizer[n - 1][v[2][KeyOrder[i + 1]]]
              BY <3>6, <6>1 DEF c, K
            <7>2. s.ret = FirstEntries(n, v, i)
              BY <3>3 DEF MapState
            <7>3. t.ret = [s.ret EXCEPT ![KeyOrder[i + 1]] = x]
              BY <6>4 DEF K
            <7>4. FirstEntries(n, v, i + 1) =
                    [FirstEntries(n, v, i) EXCEPT ![KeyOrder[i + 1]] = Normalizer[n - 1][v[2][KeyOrder[i + 1]]]]
              BY <3>1, <3>2, FirstEntriesAdds
            <7> QED
              BY <7>1, <7>2, <7>3, <7>4
          <6>7. next < L - 1 \/ next >= L - 1
            BY <2>5, <3>7
          <6>8. MapState(n, v, j, W, L, t, i + 1)
            BY <3>4, <5>4, <6>4, <6>5, <6>6, <6>7 DEF MapState
          <6>9. t.state \in {"reads", "returned"}
            BY <6>4
          <6> QED
            BY <1>2, <3>2, <3>7, <6>4, <6>8, <6>9 DEF MapInv, t
        <5>5. CASE next <= L /\ FoundNothing(n - 1, c, F, keyEnd, next)
          <6>1. v \notin Solid[n] /\ F \in {Found(<<>>, keyEnd, "returned"), Found(<<>>, next, "goes on")}
            BY <3>6, <5>5 DEF FoundNothing
          <6>2. CASE F = Found(<<>>, keyEnd, "returned")
            <7>1. F.ends = "returned"
              BY <6>2 DEF Found
            <7>2. t.ret = s.ret /\ t.state = "returned"
              BY <5>1, <7>1 DEF Loop
            <7> QED
              BY <3>8, <6>1, <7>2 DEF t
          <6>3. CASE F = Found(<<>>, next, "goes on")
            <7>1. F.ends = "goes on" /\ F.next = next /\ F.vals = <<>>
              BY <6>3 DEF Found
            <7>2. t = GoOn(data, next, s.ret)
              BY <5>1, <7>1
            <7>3. /\ t.ret = s.ret /\ t.pos = next
                  /\ t.state = IF next >= L - 1 THEN "returned" ELSE "reads"
              BY <2>5, <7>2 DEF GoOn, Loop
            <7>4. PartEntries(n, v, data, t.ret)
              BY <3>3, <7>3 DEF MapState
            <7>5. next < L - 1 \/ next >= L - 1
              BY <2>5, <3>7
            <7>6. MapState(n, v, j, W, L, t, i + 1)
              BY <3>4, <5>5, <6>1, <7>3, <7>4, <7>5 DEF MapState
            <7>7. t.state \in {"reads", "returned"}
              BY <7>3
            <7> QED
              BY <1>2, <3>2, <3>7, <7>3, <7>6, <7>7 DEF MapInv, t
          <6> QED
            BY <6>1, <6>2, <6>3
        <5>6. next <= L \/ next > L
          BY <2>5, <3>7
        <5> QED
          BY <5>2, <5>3, <5>4, <5>5, <5>6
      <4>5. keyEnd >= L - 1 \/ keyEnd < L - 1
        BY <2>5, <3>7
      <4> QED
        BY <4>3, <4>4, <4>5
    <3>11. keyEnd > L \/ keyEnd <= L
      BY <2>5, <3>7
    <3> QED
      BY <3>9, <3>10, <3>11
  <2> QED
    BY <2>7, <2>8, NextEntry
<1> QED
  BY <1>1, <1>2

\* An entry takes room.
LEMMA EntryMoves ==
  ASSUME NEW n \in 0..Depth, NEW v \in Containers(n), v[1] = "dict", NEW j, NEW W, NEW L,
         Setting(n, v, j, W, L), NEW q \in 0..(Len(KeyOrder) - 1), HasEntry(v, q + 1)
  PROVE  Place(j, q) < Place(j, q + 1) /\ Place(j, q + 1) <= Place(j, Len(KeyOrder))
<1> DEFINE x == Place(j, q)
           y == Len(EncodeString(KeyOrder[q + 1]))
           z == Len(Encoder[n - 1][v[2][KeyOrder[q + 1]]])
<1>1. y \in Nat \ {0} /\ z \in Nat \ {0} /\ Place(j, q + 1) = (x + y) + z
  <2>1. EntryIsAt(n, v, j, W, q)
    BY EntryStands
  <2> QED
    BY <2>1 DEF EntryIsAt
<1>2. Len(KeyOrder) \in Nat /\ Len(Pieces(n, v)) = Len(KeyOrder)
  BY MapPieces, OrderedKeys
<1>3. q \in 0..Len(KeyOrder) /\ q + 1 \in 0..Len(KeyOrder) /\ Len(KeyOrder) \in (q + 1)..Len(KeyOrder)
  BY <1>2
<1>4. x \in Nat
  BY <1>2, <1>3, Places
<1> HIDE DEF x, y, z
<1>5. x < Place(j, q + 1)
  BY <1>1, <1>4
<1>6. Place(j, q + 1) <= Place(j, Len(KeyOrder))
  BY <1>2, <1>3, PlacesGrow
<1> QED
  BY <1>5, <1>6 DEF x

\* What DecodeDictionary makes of the bytes that are left of a map.
MapOutcome(n, v, data, lost, r) ==
  \E i \in 0..Len(KeyOrder), ret \in Maps(Tree[n - 1]) :
    /\ r \in {Returned(<<"dict", ret>>), Thrown(<<"dict", ret>>)}
    /\ PartEntries(n, v, data, ret)
    /\ v \in Solid[n] => /\ ret = FirstEntries(n, v, i)
                         /\ lost = 0 => /\ ret = FirstEntries(n, v, Len(KeyOrder))
                                     /\ r = Returned(<<"dict", ret>>)

\* What DecodeDictionary makes of a map that lost bytes at its end: the invariant
\* of its loop, at the last round.
LEMMA DictionaryRead ==
  ASSUME NEW n \in 0..Depth, NEW v \in Containers(n), v[1] = "dict", NEW j, NEW W, NEW L,
         Setting(n, v, j, W, L), NEW inner, FairInner(n - 1, inner, L - 1), At(W, Len(W) - 1) = "e",
         At(W, 0) = "d"
  PROVE  MapOutcome(n, v, SubSeq(W, 1, L), Len(W) - L, DecodeDictionary(SubSeq(W, 1, L), inner))
<1> DEFINE data == SubSeq(W, 1, L)
           N == Len(KeyOrder)
<1>1. /\ W \in ByteArray /\ L \in Nat /\ Len(W) \in Nat /\ 2 <= L /\ L <= Len(W) /\ L \in 0..Len(W)
      /\ At(data, L - 1) = "e" /\ Len(data) = L /\ data \in ByteArray /\ At(data, 0) = "d"
  <2>1. W \in ByteArray /\ L \in 2..Len(W) /\ At(data, L - 1) = "e"
    BY DEF Setting
  <2>2. Len(W) \in Nat
    BY <2>1 DEF ByteArray
  <2>3. L \in 0..Len(W) /\ 0 \in 0..(L - 1)
    BY <2>1, <2>2
  <2>4. /\ data \in ByteArray /\ Len(data) = L
        /\ \A p \in 0..(L - 1) : At(data, p) = At(W, p)
    BY <2>1, <2>3, LeadingBytes
  <2> HIDE DEF data
  <2> QED
    BY <2>1, <2>2, <2>3, <2>4
<1> HIDE DEF data
<1>2. PICK s : DictionaryRounds(data, inner, s) /\ DecodeDictionary(data, inner) = Seen("dict", s[Len(data)])
  BY <1>1, DictionaryLoop
<1>3. s[0] = Loop(1, EmptyMap, "reads") /\ \A m \in 1..L : s[m] = DictionaryRound(data, inner, s[m - 1])
  BY <1>1, <1>2 DEF DictionaryRounds
<1>4. N \in Nat /\ Len(Pieces(n, v)) = N /\ n - 1 \in 0..Depth
  BY MapPieces, OrderedKeys, ContainerShape
<1>5. /\ Place(j, 0) = 1 /\ Place(j, N) = Len(W) - 1 /\ \A k \in 0..N : Place(j, k) \in Nat \ {0}
  BY <1>4, Places
<1> DEFINE Good(m) == MapInv(n, v, j, W, L, s[m]) /\ (s[m].state = "reads" => s[m].pos \in Nat /\ s[m].pos >= m + 1)
           T == {m \in Nat : m <= L => Good(m)}
<1>6. Good(0)
  <2>1. s[0].pos = 1 /\ s[0].ret = EmptyMap /\ s[0].state = "reads"
    BY <1>3 DEF Loop
  <2>2. PartEntries(n, v, data, EmptyMap) /\ FirstEntries(n, v, 0) = EmptyMap
    BY NoEntries
  <2>3. 0 \in 0..N
    BY <1>4
  <2>4. MapState(n, v, j, W, L, s[0], 0)
    BY <1>1, <1>5, <2>1, <2>2 DEF MapState, data
  <2> QED
    BY <2>1, <2>3, <2>4 DEF MapInv
<1>7. ASSUME NEW m \in Nat, m \in T PROVE m + 1 \in T
  <2> SUFFICES ASSUME m + 1 <= L PROVE Good(m + 1)
    OBVIOUS
  <2>1. m + 1 \in 1..L /\ (m + 1) - 1 = m /\ m <= L
    BY <1>1
  <2>2. Good(m)
    BY <1>7, <2>1
  <2>3. s[m + 1] = DictionaryRound(data, inner, s[m])
    BY <1>3, <2>1
  <2> DEFINE a == s[m]
             t == s[m + 1]
  <2>4. MapInv(n, v, j, W, L, a)
    BY <2>2
  <2> HIDE DEF a
  <2>5. /\ MapInv(n, v, j, W, L, DictionaryRound(data, inner, a))
        /\ DictionaryRound(data, inner, a).state = "reads" =>
             a.state = "reads" /\ DictionaryRound(data, inner, a).pos >= a.pos + 1
    BY <2>4, DictionaryRoundStep DEF data
  <2>6. MapInv(n, v, j, W, L, t) /\ (t.state = "reads" => a.state = "reads" /\ t.pos >= a.pos + 1)
    BY <2>3, <2>5 DEF a
  <2>7. t.state = "reads" => t.pos \in Nat
    BY <1>5, <2>6 DEF MapInv, MapState
  <2>8. a.state = "reads" => a.pos \in Nat /\ a.pos >= m + 1
    BY <2>2 DEF a
  <2> HIDE DEF t
  <2>9. t.state = "reads" => t.pos >= (m + 1) + 1
    BY <2>6, <2>7, <2>8
  <2> QED
    BY <2>6, <2>7, <2>9 DEF t
<1>8. Good(L)
  <2>1. 0 \in T
    BY <1>6
  <2> HIDE DEF T, Good
  <2>2. Nat \subseteq T
    BY <1>7, <2>1, InductionInSet
  <2> USE DEF T
  <2> QED
    BY <1>1, <2>2
<1> DEFINE z == s[L]
<1>9. PICK i \in 0..N : MapState(n, v, j, W, L, z, i)
  BY <1>8 DEF MapInv
<1>10. z.state \in {"returned", "threw"}
  <2>1. z.state \in {"reads", "returned", "threw"} /\ (z.state = "reads" => z.pos \in Nat /\ z.pos >= L + 1)
    BY <1>8 DEF MapInv
  <2>2. z.state = "reads" => z.pos <= L
    BY <1>9 DEF MapState
  <2> HIDE DEF z
  <2> QED
    BY <1>1, <2>1, <2>2
<1> HIDE DEF z
<1>11. DecodeDictionary(data, inner) = Seen("dict", z)
  BY <1>1, <1>2 DEF z
<1>12. /\ z.state = "returned" => DecodeDictionary(data, inner) = Returned(<<"dict", z.ret>>)
       /\ z.state = "threw" => DecodeDictionary(data, inner) = Thrown(<<"dict", z.ret>>)
  BY <1>11 DEF Seen, Returned, Thrown
<1>13. ASSUME v \in Solid[n], L = Len(W) PROVE FirstEntries(n, v, N) = FirstEntries(n, v, i) /\ z.state = "returned"
  <2>1. z.state = "returned" /\ Place(j, i) >= L - 1
    BY <1>9, <1>10, <1>13 DEF MapState
  <2>2. CASE FirstEntries(n, v, N) = FirstEntries(n, v, i)
    BY <2>1, <2>2
  <2>3. CASE \E q \in i..(N - 1) : Place(j, q) = Place(j, i) /\ HasEntry(v, q + 1)
    <3>1. PICK q \in i..(N - 1) : Place(j, q) = Place(j, i) /\ HasEntry(v, q + 1)
      BY <2>3
    <3>2. q \in 0..(N - 1) /\ q + 1 \in 0..N
      BY <1>4
    <3>3. Place(j, q) < Place(j, q + 1) /\ Place(j, q + 1) <= Place(j, N)
      BY <3>1, <3>2, EntryMoves
    <3>4. Place(j, i) \in Nat /\ Place(j, q + 1) \in Nat /\ Place(j, N) = L - 1
      BY <1>5, <1>13, <3>2
    <3> QED
      BY <1>1, <2>1, <3>1, <3>3, <3>4
  <2> QED
    BY <2>2, <2>3, NextEntry
<1>14. z.ret \in Maps(Tree[n - 1]) /\ PartEntries(n, v, data, z.ret)
  BY <1>9 DEF data, MapState, PartEntries
<1>15. v \in Solid[n] => z.ret = FirstEntries(n, v, i)
  BY <1>9 DEF MapState
<1> DEFINE r == DecodeDictionary(data, inner)
<1> HIDE DEF r
<1>16. r \in {Returned(<<"dict", z.ret>>), Thrown(<<"dict", z.ret>>)}
  BY <1>10, <1>12 DEF r
<1>17. v \in Solid[n] => (L = Len(W) => /\ z.ret = FirstEntries(n, v, N)
                                      /\ r = Returned(<<"dict", z.ret>>))
  BY <1>12, <1>13, <1>15 DEF r
<1>19. Len(W) - L = 0 => L = Len(W)
  BY <1>1
<1>18. MapOutcome(n, v, data, Len(W) - L, r)
  BY <1>14, <1>15, <1>16, <1>17, <1>19 DEF MapOutcome
<1> QED
  BY <1>18 DEF r, data

-----------------------------------------------------------------------------
(* The decoder of containers *)

\* What a decoder makes of the bytes that are left of a container.
Outcome(n, v, data, lost, r) ==
  /\ v[1] = "list" => ListOutcome(n, v, lost, r)
  /\ v[1] = "dict" => MapOutcome(n, v, data, lost, r)

\* What the caller of a decoder sees.
LEMMA ResultOf ==
  ASSUME NEW x, NEW r, r \in {Returned(x), Thrown(x)}
  PROVE  r.throws \in BOOLEAN /\ r.val = x
<1>1. Returned(x).throws = FALSE /\ Returned(x).val = x
  BY DEF Returned
<1>2. Thrown(x).throws = TRUE /\ Thrown(x).val = x
  BY DEF Thrown
<1>3. r = Returned(x) \/ r = Thrown(x)
  OBVIOUS
<1>4. r.val = x
  BY <1>1, <1>2, <1>3
<1>5. r.throws = FALSE \/ r.throws = TRUE
  BY <1>1, <1>2, <1>3
<1> QED
  BY <1>4, <1>5

\* It is a part of the container, and all of it when nothing was lost.
LEMMA OutcomeIsPart ==
  ASSUME NEW n \in 0..Depth, NEW v \in Containers(n), NEW data, NEW lost, NEW r,
         Outcome(n, v, data, lost, r)
  PROVE  /\ r.throws \in BOOLEAN /\ r.val \in Tree[n] /\ Parts[n][Normalizer[n][v]][r.val]
         /\ (v \in Solid[n] /\ lost = 0) => r = Returned(Normalizer[n][v])
<1>1. n # 0 /\ n - 1 \in 0..Depth /\ v \in Tree[n] /\ v[1] \in {"list", "dict"}
  BY ContainerShape
<1>2. Normalizer[n][v] \in Tree[n]
  BY <1>1, NormalsAreValues
<1>3. CASE v[1] = "list"
  <2> DEFINE N == Len(v[2])
  <2>1. PICK i \in 0..N, ret \in Seq(Tree[n - 1]) :
          /\ r \in {Returned(<<"list", ret>>), Thrown(<<"list", ret>>)}
          /\ SomeFirst(n, v, i, ret)
          /\ v \in Solid[n] => /\ ret = FirstNormal(n, v, i)
                               /\ lost = 0 => i = N /\ r = Returned(<<"list", ret>>)
    BY <1>3 DEF Outcome, ListOutcome
  <2>2. r.throws \in BOOLEAN /\ r.val = <<"list", ret>>
    BY <2>1, ResultOf
  <2>3. r.val \in Tree[n]
    BY <1>1, <2>2, ContainersAreValues
  <2>4. Normalizer[n][v] = <<"list", FirstNormal(n, v, N)>>
    BY <1>3, NormalShape DEF FirstNormal
  <2>5. N \in Nat
    BY <1>3, ListPieces
  <2>6. SomeElements(ret, FirstNormal(n, v, N), Parts[n - 1])
    <3>1. PICK kept \in [1..Len(ret) -> 1..i] :
            /\ \A a, b \in 1..Len(ret) : a < b => kept[a] < kept[b]
            /\ \A a \in 1..Len(ret) : Parts[n - 1][Normalizer[n - 1][v[2][kept[a]]]][ret[a]]
      BY <2>1 DEF SomeFirst
    <3> DEFINE w == FirstNormal(n, v, N)
    <3>2. DOMAIN w = 1..N /\ \A k \in 1..N : w[k] = Normalizer[n - 1][v[2][k]]
      BY DEF FirstNormal
    <3>3. DOMAIN ret = 1..Len(ret)
      OBVIOUS
    <3>4. 1..i \subseteq 1..N
      BY <2>5
    <3> HIDE DEF w, N
    <3>5. kept \in [DOMAIN ret -> DOMAIN w] /\ DOMAIN kept = 1..Len(ret)
      BY <3>2, <3>3, <3>4
    <3>6. \A a \in DOMAIN kept : Parts[n - 1][w[kept[a]]][ret[a]]
      BY <3>1, <3>2, <3>4, <3>5
    <3>7. \A a, b \in DOMAIN kept : a < b => kept[a] < kept[b]
      BY <3>1, <3>5
    <3>8. SomeElements(ret, w, Parts[n - 1])
      BY <3>5, <3>6, <3>7 DEF SomeElements
    <3> QED
      BY <3>8 DEF w
  <2>7. Parts[n][Normalizer[n][v]][r.val]
    <3> DEFINE w == Normalizer[n][v]
               u == r.val
    <3>1. w[1] = "list" /\ w[2] = FirstNormal(n, v, N) /\ u[1] = "list" /\ u[2] = ret
      BY <2>2, <2>4
    <3>2. w \in Tree[n] /\ u \in Tree[n]
      BY <1>2, <2>3
    <3> HIDE DEF w, u
    <3>3. /\ u[1] = w[1]
          /\ u[1] = "dict" => SomeEntries(u[2], w[2], Parts[n - 1])
          /\ u[1] = "list" => SomeElements(u[2], w[2], Parts[n - 1])
          /\ u[1] \notin {"list", "dict"} => u = w
      BY <2>6, <3>1
    <3>4. Parts[n][w][u]
      BY <3>2, <3>3, PartIs
    <3> QED
      BY <3>4 DEF w, u
  <2>8. (v \in Solid[n] /\ lost = 0) => r = Returned(Normalizer[n][v])
    BY <2>1, <2>4
  <2> QED
    BY <2>2, <2>3, <2>7, <2>8
<1>4. CASE v[1] = "dict"
  <2> DEFINE N == Len(KeyOrder)
  <2>1. PICK i \in 0..N, ret \in Maps(Tree[n - 1]) :
          /\ r \in {Returned(<<"dict", ret>>), Thrown(<<"dict", ret>>)}
          /\ PartEntries(n, v, data, ret)
          /\ v \in Solid[n] => /\ ret = FirstEntries(n, v, i)
                               /\ lost = 0 => ret = FirstEntries(n, v, N) /\ r = Returned(<<"dict", ret>>)
    BY <1>4 DEF Outcome, MapOutcome
  <2>2. r.throws \in BOOLEAN /\ r.val = <<"dict", ret>>
    BY <2>1, ResultOf
  <2>3. r.val \in Tree[n]
    BY <1>1, <2>2, ContainersAreValues
  <2> DEFINE all == [k \in Keys |-> IF v[2][k] = Absent THEN Absent ELSE Normalizer[n - 1][v[2][k]]]
  <2>4. Normalizer[n][v] = <<"dict", all>>
    BY <1>4, NormalShape
  <2>5. FirstEntries(n, v, N) = all
    <3>1. \A k \in Keys : k \in FirstKeys(N)
      BY OrderedKeys DEF FirstKeys
    <3> QED
      BY <3>1 DEF FirstEntries
  <2>6. SomeEntries(ret, all, Parts[n - 1])
    <3>1. v[2] \in Maps(Tree[n - 1])
      BY <1>4, ContainerShape
    <3> SUFFICES ASSUME NEW k \in Keys, ret[k] # Absent PROVE all[k] # Absent /\ Parts[n - 1][all[k]][ret[k]]
      BY DEF SomeEntries
    <3>2. v[2][k] # Absent /\ Parts[n - 1][Normalizer[n - 1][v[2][k]]][ret[k]]
      BY <2>1 DEF PartEntries
    <3>3. v[2][k] \in Tree[n - 1]
      BY <3>1, <3>2 DEF Maps
    <3>4. Normalizer[n - 1][v[2][k]] \in Tree[n - 1]
      BY <1>1, <3>3, NormalsAreValues
    <3>5. Normalizer[n - 1][v[2][k]] # Absent
      BY <1>1, <3>4, ValuesAreNotAbsent
    <3> QED
      BY <3>2, <3>5
  <2> HIDE DEF all
  <2>7. Parts[n][Normalizer[n][v]][r.val]
    <3> DEFINE w == Normalizer[n][v]
               u == r.val
    <3>1. w[1] = "dict" /\ w[2] = all /\ u[1] = "dict" /\ u[2] = ret
      BY <2>2, <2>4
    <3>2. w \in Tree[n] /\ u \in Tree[n]
      BY <1>2, <2>3
    <3> HIDE DEF w, u
    <3>3. /\ u[1] = w[1]
          /\ u[1] = "dict" => SomeEntries(u[2], w[2], Parts[n - 1])
          /\ u[1] = "list" => SomeElements(u[2], w[2], Parts[n - 1])
          /\ u[1] \notin {"list", "dict"} => u = w
      BY <2>6, <3>1
    <3>4. Parts[n][w][u]
      BY <3>2, <3>3, PartIs
    <3> QED
      BY <3>4 DEF w, u
  <2>8. (v \in Solid[n] /\ lost = 0) => r = Returned(Normalizer[n][v])
    BY <2>1, <2>4, <2>5
  <2> QED
    BY <2>2, <2>3, <2>7, <2>8
<1> QED
  BY <1>1, <1>3, <1>4

\* The bytes of a container and where its pieces stand in them.
LEMMA ContainerSetting ==
  ASSUME NEW n \in 0..Depth, NEW v \in Containers(n)
  PROVE  LET W == Encoder[n][v] IN
         /\ W \in ByteArray /\ Len(W) \in Nat /\ 2 <= Len(W)
         /\ At(W, 0) = Mark(v) /\ At(W, Len(W) - 1) = "e"
         /\ \E j : \A L \in 2..Len(W) : At(SubSeq(W, 1, L), L - 1) = "e" => Setting(n, v, j, W, L)
<1> DEFINE W == Encoder[n][v]
           P == Pieces(n, v)
<1>1. PICK body \in ByteArray :
        /\ W = (<<Mark(v)>> \o body) \o <<"e">> /\ Mark(v) \in {"l", "d"}
        /\ W \in ByteArray /\ Len(W) = 2 + Len(body) /\ Len(body) \in Nat
        /\ body = Join(P)
  BY ContainerBytes
<1>2. PICK j : IsJoin(P, j) /\ Join(P) = j[Len(P)]
  BY PiecesOf, JoinExists
<1> HIDE DEF W, P
<1> DEFINE q == 0
<1>3. q \in Nat /\ Stands(W, q, (<<Mark(v)>> \o body) \o <<"e">>)
  BY <1>1, StandsWhole
<1>4. q + 1 = 1 /\ q = 0 /\ (q + 1) + Len(body) = Len(W) - 1
  BY <1>1
<1> HIDE DEF q
<1>5. /\ At(W, q) = Mark(v) /\ Stands(W, q + 1, body) /\ At(W, (q + 1) + Len(body)) = "e"
  <2>1. W \in ByteArray /\ Mark(v) \in {"l", "d"} /\ body \in ByteArray
    BY <1>1
  <2> QED
    BY <1>3, <2>1, BracketsStand
<1>6. At(W, 0) = Mark(v) /\ Stands(W, 1, body) /\ At(W, Len(W) - 1) = "e"
  BY <1>4, <1>5
<1>7. Len(W) = 2 + Len(j[Len(P)]) /\ Stands(W, 1, j[Len(P)])
  BY <1>1, <1>2, <1>6
<1>8. Len(W) \in Nat /\ 2 <= Len(W)
  BY <1>1
<1>9. \A L \in 2..Len(W) : At(SubSeq(W, 1, L), L - 1) = "e" => Setting(n, v, j, W, L)
  BY <1>1, <1>2, <1>7 DEF Setting, P
<1> QED
  BY <1>1, <1>6, <1>8, <1>9 DEF W

\* What the decoder makes of a container, or of what is left of one, when it
\* decodes what is nested in it fairly.
LEMMA ContainerRead ==
  ASSUME NEW n \in 0..Depth, NEW v \in Containers(n), NEW L \in 1..Len(Encoder[n][v]),
         NEW m \in Nat, NEW dec, IsDecoder(dec, m), NEW k \in 1..m, FairInner(n - 1, dec[k - 1], L - 1)
  PROVE  Outcome(n, v, SubSeq(Encoder[n][v], 1, L), Len(Encoder[n][v]) - L, dec[k][SubSeq(Encoder[n][v], 1, L)])
<1> DEFINE W == Encoder[n][v]
           data == SubSeq(W, 1, L)
           inner == dec[k - 1]
           r == dec[k][data]
<1>1. /\ W \in ByteArray /\ Len(W) \in Nat /\ 2 <= Len(W)
      /\ At(W, 0) = Mark(v) /\ At(W, Len(W) - 1) = "e"
  BY ContainerSetting
<1>2. PICK j : \A M \in 2..Len(W) : At(SubSeq(W, 1, M), M - 1) = "e" => Setting(n, v, j, W, M)
  BY ContainerSetting
<1>3. v[1] \in {"list", "dict"}
  BY DEF Containers
<1> HIDE DEF W
<1>4. /\ L \in 0..Len(W) /\ L \in Nat /\ data \in ByteArray /\ Len(data) = L
      /\ At(data, 0) = Mark(v)
  <2>1. L \in 0..Len(W) /\ L \in Nat /\ 0 \in 0..(L - 1)
    BY <1>1 DEF W
  <2>2. /\ data \in ByteArray /\ Len(data) = L /\ \A p \in 0..(L - 1) : At(data, p) = At(W, p)
    BY <1>1, <2>1, LeadingBytes
  <2> HIDE DEF data
  <2> QED
    BY <1>1, <2>1, <2>2
<1>5. r = IF At(data, 0) = "l" THEN DecodeList(data, inner) ELSE DecodeDictionary(data, inner)
  BY <1>4 DEF IsDecoder
<1>8. Len(W) - L = 0 => L = Len(W)
  BY <1>1, <1>4
<1>6. CASE At(data, L - 1) = "e"
  <2>1. L # 1
    <3>1. At(data, 0) # "e"
      BY <1>4 DEF Mark
    <3>2. L = 1 => L - 1 = 0
      OBVIOUS
    <3> HIDE DEF data
    <3> QED
      BY <1>6, <3>1, <3>2
  <2>2. Setting(n, v, j, W, L)
    <3>1. L \in 2..Len(W)
      BY <1>1, <1>4, <2>1
    <3> QED
      BY <1>2, <1>6, <3>1
  <2>3. CASE v[1] = "list"
    <3>1. At(W, 0) = "l" /\ At(data, 0) = "l"
      BY <1>1, <1>4, <2>3 DEF Mark
    <3>2. ListOutcome(n, v, Len(W) - L, DecodeList(SubSeq(W, 1, L), inner))
      <4> HIDE DEF inner
      <4> QED
        BY <1>1, <2>2, <2>3, <3>1, ListRead DEF inner
    <3>3. r = DecodeList(data, inner)
      BY <1>5, <3>1
    <3> HIDE DEF r
    <3>4. Outcome(n, v, data, Len(W) - L, r)
      BY <2>3, <3>2, <3>3 DEF Outcome
    <3> QED
      BY <3>4 DEF r, W
  <2>4. CASE v[1] = "dict"
    <3>1. At(W, 0) = "d" /\ At(data, 0) = "d"
      BY <1>1, <1>4, <2>4 DEF Mark
    <3>2. MapOutcome(n, v, SubSeq(W, 1, L), Len(W) - L, DecodeDictionary(SubSeq(W, 1, L), inner))
      <4> HIDE DEF inner
      <4> QED
        BY <1>1, <2>2, <2>4, <3>1, DictionaryRead DEF inner
    <3>3. r = DecodeDictionary(data, inner)
      BY <1>5, <3>1
    <3> HIDE DEF r
    <3>4. Outcome(n, v, data, Len(W) - L, r)
      BY <2>4, <3>2, <3>3 DEF Outcome
    <3> QED
      BY <3>4 DEF r, W
  <2> QED
    BY <1>3, <2>3, <2>4
<1>7. CASE At(data, L - 1) # "e"
  <2>1. L # Len(W)
    <3> SUFFICES ASSUME L = Len(W) PROVE FALSE
      OBVIOUS
    <3>1. L - 1 \in 0..(L - 1)
      BY <1>1, <1>4
    <3>2. At(data, L - 1) = At(W, L - 1)
      BY <1>1, <1>4, <3>1, LeadingBytes
    <3> QED
      BY <1>1, <1>7, <3>2
  <2> HIDE DEF data
  <2>2. CASE v[1] = "list"
    <3>1. r = Thrown(<<"list", <<>>>>)
      <4>1. At(data, 0) = "l"
        BY <1>4, <2>2 DEF Mark
      <4> QED
        BY <1>4, <1>5, <1>7, <4>1 DEF DecodeList
    <3>2. SomeFirst(n, v, 0, <<>>) /\ FirstNormal(n, v, 0) = <<>>
      BY SomeFirstNone
    <3>3. 0 \in 0..Len(v[2]) /\ <<>> \in Seq(Tree[n - 1])
      BY <2>2, ListPieces
    <3> HIDE DEF r
    <3>4. Outcome(n, v, data, Len(W) - L, r)
      BY <1>8, <2>1, <2>2, <3>1, <3>2, <3>3 DEF Outcome, ListOutcome
    <3> QED
      BY <3>4 DEF r, W, data
  <2>3. CASE v[1] = "dict"
    <3>1. r = Thrown(<<"dict", EmptyMap>>)
      <4>1. At(data, 0) = "d"
        BY <1>4, <2>3 DEF Mark
      <4> QED
        BY <1>4, <1>5, <1>7, <4>1 DEF DecodeDictionary
    <3>2. PartEntries(n, v, data, EmptyMap) /\ FirstEntries(n, v, 0) = EmptyMap
      BY NoEntries
    <3>3. 0 \in 0..Len(KeyOrder) /\ EmptyMap \in Maps(Tree[n - 1])
      BY <3>2, OrderedKeys DEF PartEntries
    <3> HIDE DEF r
    <3>4. Outcome(n, v, data, Len(W) - L, r)
      BY <1>8, <2>1, <2>3, <3>1, <3>2, <3>3 DEF Outcome, MapOutcome
    <3> QED
      BY <3>4 DEF r, W, data
  <2> QED
    BY <1>3, <2>2, <2>3
<1> QED
  BY <1>6, <1>7

\* The decoder that may be called k levels deep is fair to containers of k bytes.
LEMMA WholeContainers ==
  ASSUME NEW n \in 0..Depth, NEW m \in Nat, NEW dec, IsDecoder(dec, m)
  PROVE  \A k \in 0..m : FairInner(n, dec[k], k)
<1> DEFINE All(d) == \A k \in 0..m : FairInner(d, dec[k], k)
           T == {d \in Nat : d <= Depth => All(d)}
<1>1. ASSUME NEW d \in 0..Depth, d = 0 \/ All(d - 1) PROVE All(d)
  <2> SUFFICES ASSUME NEW k \in 0..m, NEW c \in Containers(d), Len(Encoder[d][c]) <= k
               PROVE  Fair(d, c, dec[k][Encoder[d][c]])
    BY DEF FairInner
  <2>1. d # 0 /\ d - 1 \in 0..Depth
    BY ContainerShape
  <2> DEFINE W == Encoder[d][c]
             L == Len(W)
             i == d - 1
  <2>2. W \in ByteArray /\ L \in Nat /\ 2 <= L
    BY ContainerSetting
  <2>3. SubSeq(W, 1, L) = W
    <3> HIDE DEF W
    <3> QED
      BY <2>2 DEF ByteArray
  <2>4. L \in 1..L /\ k \in 1..m /\ k - 1 \in 0..m /\ L - 1 <= k - 1 /\ L - 1 \in Nat /\ k - 1 \in Nat /\ L <= k
    <3> HIDE DEF W
    <3>1. L <= k /\ k \in Nat
      BY DEF W
    <3> QED
      BY <2>2, <3>1
  <2>5. FairInner(i, dec[k - 1], k - 1)
    BY <1>1, <2>1, <2>4
  <2>6. \A w \in Containers(i) : Len(Encoder[i][w]) \in Nat
    <3>1. i \in 0..Depth
      BY <2>1
    <3> HIDE DEF i
    <3> QED
      BY <3>1, ContainerSetting
  <2> HIDE DEF W, L, i
  <2>7. FairInner(i, dec[k - 1], L - 1)
    <3>1. ASSUME NEW w \in Containers(i), Len(Encoder[i][w]) <= L - 1
          PROVE  Len(Encoder[i][w]) <= k - 1
      BY <2>4, <2>6, <3>1
    <3> QED
      BY <2>5, <3>1 DEF FairInner
  <2>8. Outcome(d, c, SubSeq(W, 1, L), Len(W) - L, dec[k][SubSeq(W, 1, L)])
    BY <2>4, <2>7, ContainerRead DEF W, L, i
  <2> DEFINE r == dec[k][W]
  <2>9. Outcome(d, c, W, Len(W) - L, r)
    BY <2>3, <2>8
  <2> DEFINE z == Len(W) - L
  <2>12. Outcome(d, c, W, z, r) /\ z = 0
    BY <2>2, <2>9 DEF L
  <2> HIDE DEF r, z
  <2>10. /\ r.throws \in BOOLEAN /\ r.val \in Tree[d] /\ Parts[d][Normalizer[d][c]][r.val]
         /\ c \in Solid[d] => r = Returned(Normalizer[d][c])
    BY <2>12, OutcomeIsPart
  <2>11. Fair(d, c, r)
    BY <2>10 DEF Fair
  <2> QED
    BY <2>11 DEF r, W
<1>2. 0 \in T
  <2>1. 0 \in 0..Depth
    BY ValuesAssumption
  <2> HIDE DEF All
  <2> QED
    BY <1>1, <2>1
<1>3. ASSUME NEW d \in Nat, d \in T PROVE d + 1 \in T
  <2> SUFFICES ASSUME d + 1 <= Depth PROVE All(d + 1)
    OBVIOUS
  <2>1. d + 1 \in 0..Depth /\ (d + 1) - 1 = d /\ d <= Depth
    BY ValuesAssumption
  <2>2. All(d)
    BY <1>3, <2>1
  <2> HIDE DEF All
  <2> QED
    BY <1>1, <2>1, <2>2
<1>4. All(n)
  <2> HIDE DEF T, All
  <2>1. Nat \subseteq T
    BY <1>2, <1>3, InductionInSet
  <2> USE DEF T
  <2> QED
    BY <2>1, ValuesAssumption
<1> QED
  BY <1>4

\* What the decoder makes of a container, or of what is left of one.
LEMMA ContainerDecoded ==
  ASSUME NEW n \in 0..Depth, NEW v \in Containers(n), NEW L \in 1..Len(Encoder[n][v])
  PROVE  Outcome(n, v, SubSeq(Encoder[n][v], 1, L), Len(Encoder[n][v]) - L,
                 DecodeContainer(SubSeq(Encoder[n][v], 1, L)))
<1> DEFINE W == Encoder[n][v]
           data == SubSeq(W, 1, L)
           i == n - 1
<1>1. W \in ByteArray /\ Len(W) \in Nat
  BY ContainerSetting
<1> HIDE DEF W
<1>2. L \in Nat /\ data \in ByteArray /\ Len(data) = L /\ L \in 1..L /\ L - 1 \in 0..L
  <2>1. L \in 0..Len(W) /\ L \in Nat /\ L \in 1..L /\ L - 1 \in 0..L
    BY <1>1 DEF W
  <2>2. data \in ByteArray /\ Len(data) = L
    BY <1>1, <2>1, LeadingBytes
  <2> HIDE DEF data
  <2> QED
    BY <2>1, <2>2
<1> HIDE DEF data
<1>3. PICK dec : IsDecoder(dec, Len(data)) /\ DecodeContainer(data) = dec[Len(data)][data]
  BY <1>2, DecoderExists
<1>4. IsDecoder(dec, L) /\ DecodeContainer(data) = dec[L][data]
  BY <1>2, <1>3
<1>5. i \in 0..Depth
  BY ContainerShape
<1> HIDE DEF i
<1>6. \A k \in 0..L : FairInner(i, dec[k], k)
  BY <1>2, <1>4, <1>5, WholeContainers
<1>7. FairInner(i, dec[L - 1], L - 1)
  BY <1>2, <1>6
<1>8. Outcome(n, v, SubSeq(W, 1, L), Len(W) - L, dec[L][SubSeq(W, 1, L)])
  BY <1>2, <1>4, <1>7, ContainerRead DEF W, i
<1> QED
  BY <1>4, <1>8 DEF data, W

-----------------------------------------------------------------------------
(* BtDecode *)

\* Lists and dictionaries are left to DecodeContainer.
LEMMA ContainerIsDecoded ==
  ASSUME NEW data, At(data, 0) \in {"l", "d"}
  PROVE  BtDecode(data) = DecodeContainer(data)
BY DEF BtDecode

\* What is not a container is decoded to a byte string.
LEMMA ScalarIsDecoded ==
  ASSUME NEW data, At(data, 0) \notin {"l", "d"}
  PROVE  /\ BtDecode(data).val[1] = "str"
         /\ \A x : At(data, 0) = "i" /\ DecodeInteger(data) = Returned(x) => BtDecode(data) = Returned(<<"str", x>>)
         /\ \A x : At(data, 0) # "i" /\ DecodeString(data) = Returned(x) => BtDecode(data) = Returned(<<"str", x>>)
<1> DEFINE As(r) == [r EXCEPT !.val = <<"str", @>>]
           b == At(data, 0)
           d == DecodeInteger(data)
           t == DecodeString(data)
<1>1. \A x : As(Returned(x)) = Returned(<<"str", x>>) /\ As(Thrown(x)) = Thrown(<<"str", x>>)
  <2>0. ASSUME NEW a, NEW x, NEW y PROVE [[throws |-> a, val |-> x] EXCEPT !.val = y] = [throws |-> a, val |-> y]
    OBVIOUS
  <2>1. ASSUME NEW x, NEW y PROVE [Returned(x) EXCEPT !.val = y] = Returned(y)
    <3> DEFINE a == FALSE
    <3>1. Returned(x) = [throws |-> a, val |-> x] /\ Returned(y) = [throws |-> a, val |-> y]
      BY DEF Returned
    <3> HIDE DEF a
    <3> QED
      BY <2>0, <3>1
  <2>2. ASSUME NEW x, NEW y PROVE [Thrown(x) EXCEPT !.val = y] = Thrown(y)
    <3> DEFINE a == TRUE
    <3>1. Thrown(x) = [throws |-> a, val |-> x] /\ Thrown(y) = [throws |-> a, val |-> y]
      BY DEF Thrown
    <3> HIDE DEF a
    <3> QED
      BY <2>0, <3>1
  <2>3. ASSUME NEW x PROVE As(Returned(x)) = Returned(<<"str", x>>) /\ As(Thrown(x)) = Thrown(<<"str", x>>)
    <3> DEFINE y == <<"str", x>>
    <3>1. Returned(x).val = x /\ Thrown(x).val = x
      BY DEF Returned, Thrown
    <3>2. As(Returned(x)) = [Returned(x) EXCEPT !.val = y] /\ As(Thrown(x)) = [Thrown(x) EXCEPT !.val = y]
      BY <3>1
    <3> HIDE DEF As, y
    <3>3. As(Returned(x)) = Returned(y) /\ As(Thrown(x)) = Thrown(y)
      BY <2>1, <2>2, <3>2
    <3> QED
      BY <3>3 DEF y
  <2> HIDE DEF As
  <2> QED
    BY <2>3
<1>2. \E x : d \in {Returned(x), Thrown(x)}
  BY DEF DecodeInteger
<1>3. \E x : t \in {Returned(x), Thrown(x)}
  BY DEF DecodeString
<1>4. BtDecode(data) = CASE b \in {"l", "d"} -> DecodeContainer(data)
                         [] b = "i" -> As(d)
                         [] OTHER -> As(t)
  BY DEF BtDecode
<1> HIDE DEF As, b, d, t
<1>5. b \notin {"l", "d"}
  BY DEF b
<1>6. b = "i" => BtDecode(data) = As(d)
  BY <1>4, <1>5
<1>7. b # "i" => BtDecode(data) = As(t)
  BY <1>4, <1>5
<1>8. PICK x : BtDecode(data) \in {Returned(<<"str", x>>), Thrown(<<"str", x>>)}
  BY <1>1, <1>2, <1>3, <1>6, <1>7
<1>9. BtDecode(data).val[1] = "str"
  <2> DEFINE y == <<"str", x>>
             r == BtDecode(data)
  <2>1. y[1] = "str" /\ r \in {Returned(y), Thrown(y)}
    BY <1>8
  <2> HIDE DEF y, r
  <2>2. r.val = y
    BY <2>1, ResultOf
  <2> QED
    BY <2>1, <2>2 DEF r
<1>10. ASSUME NEW z, b = "i", d = Returned(z) PROVE BtDecode(data) = Returned(<<"str", z>>)
  BY <1>1, <1>6, <1>10
<1>11. ASSUME NEW z, b # "i", t = Returned(z) PROVE BtDecode(data) = Returned(<<"str", z>>)
  BY <1>1, <1>7, <1>11
<1> QED
  BY <1>9, <1>10, <1>11 DEF b, d, t

\* Where the bytes of a value begin.
LEMMA FirstByteOf ==
  ASSUME NEW n \in 0..Depth, NEW v \in Tree[n], NEW L \in 1..Len(Encoder[n][v])
  PROVE  At(SubSeq(Encoder[n][v], 1, L), 0) \in {"l", "d"} <=> v \in Containers(n)
<1> DEFINE W == Encoder[n][v]
<1>1. W \in ByteArray /\ Len(W) \in Nat \ {0}
  BY EncodingIsSome
<1>2. CASE v \in Containers(n)
  <2>1. At(W, 0) \in {"l", "d"}
    BY <1>2, ContainerSetting DEF Mark
  <2> HIDE DEF W
  <2>2. L \in 0..Len(W) /\ 0 \in 0..(L - 1)
    BY <1>1 DEF W
  <2>3. At(SubSeq(W, 1, L), 0) = At(W, 0)
    BY <1>1, <2>2, LeadingBytes
  <2> QED
    BY <1>2, <2>1, <2>3 DEF W
<1>3. CASE v \notin Containers(n)
  <2>1. v \in Scalars
    BY <1>3, TreeShape DEF Containers
  <2>2. W = EncodeScalar(v)
    BY <2>1, ScalarsAreEncoded
  <2>3. W[1] \notin {"l", "d"}
    <3>1. CASE \E k \in Int : EncodeScalar(v) = EncodeInteger(k)
      <4>1. PICK k \in Int : W = EncodeInteger(k)
        BY <2>2, <3>1
      <4>2. Stands(W, 0, EncodeInteger(k))
        BY <1>1, <4>1, StandsWhole
      <4>3. At(W, 0) = "i"
        <5> HIDE DEF W
        <5> QED
          BY <1>1, <4>2, PickInteger
      <4> HIDE DEF W
      <4> QED
        BY <1>1, <4>3 DEF At
    <3>2. CASE \E s \in ByteArray : EncodeScalar(v) = EncodeString(s)
      <4>1. PICK s \in ByteArray : W = EncodeString(s)
        BY <2>2, <3>2
      <4> QED
        BY <4>1, StringEncoding
    <3> QED
      BY <2>1, <3>1, <3>2, ScalarEncoding
  <2> HIDE DEF W
  <2>4. At(W, 0) = W[1]
    <3>1. 0 \in 0..(Len(W) - 1) /\ 0 + 1 = 1
      BY <1>1
    <3> QED
      BY <3>1 DEF At
  <2>5. L \in 0..Len(W) /\ 0 \in 0..(L - 1)
    BY <1>1 DEF W
  <2>6. At(SubSeq(W, 1, L), 0) = At(W, 0)
    BY <1>1, <2>5, LeadingBytes
  <2> QED
    BY <1>3, <2>3, <2>4, <2>6 DEF W
<1> QED
  BY <1>2, <1>3

\* A whole scalar is decoded, and encoded again to the same bytes.
LEMMA ScalarStable ==
  ASSUME NEW n \in 0..Depth, NEW v \in Scalars
  PROVE  Encoder[n][BtDecode(Encoder[n][v]).val] = Encoder[n][v]
<1> DEFINE W == Encoder[n][v]
<1>1. W = EncodeScalar(v) /\ v \in Tree[n]
  BY ScalarsAreEncoded
<1>2. W \in ByteArray
  BY <1>1, EncodingIsSome
<1>3. Stands(W, 0, W) /\ 0 \in Nat
  BY <1>2, StandsWhole
<1>4. CASE \E k \in Int : EncodeScalar(v) = EncodeInteger(k)
  <2>1. PICK k \in Int : W = EncodeInteger(k)
    BY <1>1, <1>4
  <2> DEFINE x == <<"str", number(k)>>
  <2>2. At(W, 0) = "i" /\ DecodeInteger(W) = Returned(number(k))
    <3>1. Stands(W, 0, EncodeInteger(k))
      BY <1>3, <2>1
    <3>2. At(W, 0) = "i" /\ DecodeInteger(EncodeInteger(k)) = Returned(number(k))
      <4> HIDE DEF W
      <4> QED
        BY <1>2, <3>1, PickInteger
    <3> QED
      BY <2>1, <3>2
  <2> HIDE DEF W
  <2>3. BtDecode(W) = Returned(x)
    BY <2>2, ScalarIsDecoded
  <2>4. number(k) \in ByteArray /\ IsNumeral(number(k)) /\ toInt(number(k)) = k
    BY NumberIsRead
  <2>5. x \in Scalars
    BY <2>4 DEF Scalars
  <2>6. EncodeScalar(x) = EncodeInteger(k)
    BY <2>4 DEF EncodeScalar
  <2>7. Encoder[n][x] = W
    BY <2>1, <2>5, <2>6, ScalarsAreEncoded
  <2> QED
    BY <2>3, <2>7 DEF Returned, W
<1>5. CASE \E s \in ByteArray : EncodeScalar(v) = EncodeString(s) /\ NormalScalar(v) = <<"str", s>>
  <2>1. PICK s \in ByteArray : W = EncodeString(s) /\ NormalScalar(v) = <<"str", s>>
    BY <1>1, <1>5
  <2> DEFINE x == <<"str", s>>
  <2>2. At(W, 0) \notin {"i", "l", "d"} /\ DecodeString(W) = Returned(s)
    <3>1. Stands(W, 0, EncodeString(s))
      BY <1>3, <2>1
    <3>2. At(W, 0) \notin {"i", "l", "d"} /\ DecodeString(EncodeString(s)) = Returned(s)
      <4> HIDE DEF W
      <4> QED
        BY <1>2, <3>1, PickString
    <3> QED
      BY <2>1, <3>2
  <2>6. x \in Scalars /\ EncodeScalar(x) = W
    BY <1>1, <2>1, ScalarEncoding
  <2> HIDE DEF W
  <2>3. BtDecode(W) = Returned(x)
    BY <2>2, ScalarIsDecoded
  <2>7. Encoder[n][x] = W
    BY <2>6, ScalarsAreEncoded
  <2> QED
    BY <2>3, <2>7 DEF Returned, W
<1> QED
  BY <1>4, <1>5, ScalarEncoding

-----------------------------------------------------------------------------
(* The info section *)

\* The scan that leaves nothing open stands at an 'e'.
Closes(data, s) ==
  \E a \in Nat : \E b, c : s = [eN |-> a, ePos |-> b, lastEPos |-> c] /\ (a = 0 => At(data, b) = "e")

\* No round of the scan changes that.
LEMMA RoundCloses ==
  ASSUME NEW data, NEW s, Closes(data, s)
  PROVE  Closes(data, LastERound(data, s))
<1>0. PICK a \in Nat : \E b, c : s = [eN |-> a, ePos |-> b, lastEPos |-> c] /\ (a = 0 => At(data, b) = "e")
  BY DEF Closes
<1>4. PICK b, c : s = [eN |-> a, ePos |-> b, lastEPos |-> c] /\ (a = 0 => At(data, b) = "e")
  BY <1>0
<1> DEFINE p == b + 1
           behind == p + toInt(mid(data, c + 1, p - c - 1))
           x == At(data, p)
           Is(y, z, w) == [eN |-> y, ePos |-> z, lastEPos |-> w]
<1>1. s.eN = a /\ s.ePos = b /\ s.lastEPos = c
  BY <1>4
<1>2. CASE a = 0 \/ b >= Len(data)
  <2>1. LastERound(data, s) = s
    BY <1>1, <1>2 DEF LastERound
  <2> QED
    BY <2>1
<1>3. CASE ~(a = 0 \/ b >= Len(data))
  <2>1. LastERound(data, s) =
          CASE x = ":" -> Is(a, behind, behind)
            [] x = "e" -> Is(a - 1, p, p)
            [] x \in {"i", "l", "d"} -> Is(a + 1, p, p)
            [] OTHER -> [s EXCEPT !.ePos = p]
    BY <1>1, <1>3 DEF LastERound
  <2>2. [s EXCEPT !.ePos = p] = Is(a, p, c)
    BY <1>4
  <2>3. a # 0 /\ a - 1 \in Nat /\ a + 1 \in Nat /\ a + 1 # 0
    BY <1>3
  <2>4. (x = "e") = (At(data, p) = "e")
    OBVIOUS
  <2> SUFFICES \E a1 \in Nat : \E b1, c1 : LastERound(data, s) = Is(a1, b1, c1) /\ (a1 = 0 => At(data, b1) = "e")
    BY DEF Closes
  <2> DEFINE r == LastERound(data, s)
             other == [s EXCEPT !.ePos = p]
  <2> HIDE DEF behind, x, p, Is, r, other
  <2>5. CASE x = ":"
    <3>1. r = Is(a, behind, behind)
      BY <2>1, <2>5 DEF r, other
    <3> QED
      BY <2>3, <3>1 DEF r
  <2>6. CASE x = "e"
    <3>1. r = Is(a - 1, p, p)
      BY <2>1, <2>6 DEF r, other
    <3> QED
      BY <2>3, <2>4, <2>6, <3>1 DEF r
  <2>7. CASE x \in {"i", "l", "d"}
    <3>1. r = Is(a + 1, p, p)
      BY <2>1, <2>7 DEF r, other
    <3> QED
      BY <2>3, <3>1 DEF r
  <2>8. CASE x \notin {":", "e", "i", "l", "d"}
    <3>1. r = Is(a, p, c)
      BY <2>1, <2>2, <2>8 DEF r, other
    <3> QED
      BY <2>3, <3>1 DEF r
  <2> QED
    BY <2>5, <2>6, <2>7, <2>8
<1> QED
  BY <1>2, <1>3

\* What getLastE finds is an 'e'.
LEMMA LastEIsE ==
  ASSUME NEW data \in ByteArray, NEW pos, getLastE(data, pos) # -1
  PROVE  At(data, getLastE(data, pos)) = "e"
<1>1. PICK sc : /\ sc[0] = Level(1, pos) /\ Rounds(data, sc)
                /\ getLastE(data, pos) =
                     IF sc[Len(data)].eN # 0 \/ sc[Len(data)].ePos >= Len(data) THEN -1
                     ELSE sc[Len(data)].ePos
  BY ScanExists
<1>2. Len(data) \in Nat
  BY DEF ByteArray
<1> DEFINE T == {m \in Nat : m <= Len(data) => Closes(data, sc[m])}
<1>3. 0 \in T
  <2> DEFINE a == 1
  <2>1. a \in Nat /\ a # 0 /\ sc[0] = [eN |-> a, ePos |-> pos, lastEPos |-> pos]
    BY <1>1 DEF Level
  <2> HIDE DEF a
  <2>2. Closes(data, sc[0])
    BY <2>1 DEF Closes
  <2> QED
    BY <2>2
<1>4. ASSUME NEW m \in Nat, m \in T PROVE m + 1 \in T
  <2> SUFFICES ASSUME m + 1 <= Len(data) PROVE Closes(data, sc[m + 1])
    OBVIOUS
  <2>1. m + 1 \in 1..Len(data) /\ (m + 1) - 1 = m /\ m <= Len(data)
    BY <1>2
  <2>2. Closes(data, sc[m])
    BY <1>4, <2>1
  <2>3. sc[m + 1] = LastERound(data, sc[m])
    BY <1>1, <2>1 DEF Rounds
  <2> QED
    BY <2>2, <2>3, RoundCloses
<1>5. Closes(data, sc[Len(data)])
  <2> HIDE DEF T
  <2>1. Nat \subseteq T
    BY <1>3, <1>4, InductionInSet
  <2> USE DEF T
  <2> QED
    BY <1>2, <2>1
<1>6. sc[Len(data)].eN = 0 /\ getLastE(data, pos) = sc[Len(data)].ePos
  BY <1>1
<1>7. PICK a \in Nat : \E b, c : sc[Len(data)] = [eN |-> a, ePos |-> b, lastEPos |-> c]
                                /\ (a = 0 => At(data, b) = "e")
  BY <1>5 DEF Closes
<1> QED
  BY <1>6, <1>7

\* A text that is in data is found, there or before.
LEMMA TextIsFound ==
  ASSUME NEW data \in ByteArray, NEW text \in ByteArray, NEW p \in Nat, Stands(data, p, text)
  PROVE  LET q == indexOfText(data, text, 0) IN
         q \in Nat /\ q + Len(text) <= Len(data) /\ mid(data, q, Len(text)) = text
<1> DEFINE last == Len(data) - Len(text)
           Here(x) == mid(data, x, Len(text)) = text
           T == {x \in 0..last : Here(x)}
           Good(x) == Here(x) /\ \A y \in 0..(x - 1) : ~Here(y)
<1>1. Len(data) \in Nat /\ Len(text) \in Nat /\ p + Len(text) <= Len(data)
  BY DEF ByteArray, Stands
<1>2. p \in 0..last /\ Here(p)
  <2>1. p \in 0..last
    BY <1>1
  <2> QED
    BY <2>1, StandsMid
<1> HIDE DEF Here, last
<1>3. PICK x \in T : \A y \in T : x <= y
  <2>1. T \subseteq Nat /\ T # {}
    BY <1>2
  <2> HIDE DEF T
  <2> QED
    BY <2>1, LeastElement
<1>4. x \in 0..last /\ Good(x)
  <2>1. x \in 0..last /\ Here(x) /\ last \in Int
    BY <1>1, <1>3 DEF last
  <2>2. ASSUME NEW y \in 0..(x - 1), Here(y) PROVE FALSE
    <3>1. y \in 0..last /\ y < x
      BY <2>1
    <3>2. x <= y
      BY <1>3, <2>2, <3>1
    <3> QED
      BY <2>1, <3>1, <3>2
  <2> QED
    BY <2>1, <2>2
<1>5. indexOfText(data, text, 0) = CHOOSE y \in 0..last : Good(y)
  BY <1>2 DEF indexOfText, Here, last
<1> DEFINE q == indexOfText(data, text, 0)
<1>6. q \in 0..last /\ Good(q)
  <2> HIDE DEF Good
  <2> QED
    BY <1>4, <1>5
<1> HIDE DEF q
<1>7. q \in Nat /\ q + Len(text) <= Len(data)
  BY <1>1, <1>6 DEF last
<1> QED
  BY <1>6, <1>7 DEF Here, q

\* The key of the info section, as it is encoded, and the marker.
LEMMA InfoIsEncoded ==
  LET S == EncodeString(Info) IN
  /\ Info \in ByteArray /\ S \in ByteArray /\ InfoMarker \in ByteArray /\ Len(S) = 6 /\ Len(InfoMarker) = 7
  /\ InfoMarker[6] = "o" /\ InfoMarker[7] = "d" /\ \A k \in 1..6 : InfoMarker[k] = S[k]
<1>1. number(4) = <<"4">>
  <2> DEFINE n == 4
  <2>1. n \in Nat /\ n \in 0..n /\ n < 10 /\ ~(n < 0) /\ n + 1 = 5
    OBVIOUS
  <2>2. number(n) = Numeral(n)
    BY <2>1 DEF number
  <2> HIDE DEF n
  <2>3. PICK w : IsWriting(n, w) /\ Numeral(n) = w[n]
    BY <2>1, WritingExists
  <2>4. w[n] = <<Digit[n + 1]>>
    BY <2>1, <2>3 DEF IsWriting
  <2>5. Digit[5] = "4"
    BY DEF Digit
  <2> QED
    BY <2>1, <2>2, <2>3, <2>4, <2>5 DEF n
<1> DEFINE a == <<"4">>
           b == <<":">>
           ab == <<"4", ":">>
           c == <<"d">>
           S == EncodeString(Info)
<1>2. {"4", ":", "i", "n", "f", "o", "d"} \subseteq Byte
  BY DEF Byte
<1>3. Len(Info) = 4 /\ Info \in ByteArray /\ Info[4] = "o"
  BY <1>2 DEF Info, ByteArray
<1>4. /\ a \in ByteArray /\ b \in ByteArray /\ c \in ByteArray /\ ab \in ByteArray
      /\ Len(a) = 1 /\ Len(b) = 1 /\ Len(c) = 1 /\ Len(ab) = 2
      /\ a[1] = "4" /\ b[1] = ":" /\ c[1] = "d" /\ ab[1] = "4" /\ ab[2] = ":"
  BY <1>2 DEF ByteArray
<1>5. S = (a \o b) \o Info
  BY <1>1, <1>3 DEF EncodeString
<1>6. InfoMarker = (ab \o Info) \o c
  BY DEF InfoMarker
<1> HIDE DEF a, b, c, ab, S
<1>7. a \o b \in ByteArray /\ Len(a \o b) = 2 /\ (a \o b)[1] = "4" /\ (a \o b)[2] = ":"
  <2>1. /\ a \o b \in ByteArray /\ Len(a \o b) = Len(a) + Len(b)
        /\ \A k \in 1..Len(a) : (a \o b)[k] = a[k]
        /\ \A k \in 1..Len(b) : (a \o b)[Len(a) + k] = b[k]
    BY <1>4, Concatenated
  <2>2. 1 \in 1..Len(a) /\ 1 \in 1..Len(b) /\ Len(a) + 1 = 2
    BY <1>4
  <2>3. (a \o b)[1] = a[1] /\ (a \o b)[Len(a) + 1] = b[1]
    BY <2>1, <2>2
  <2> QED
    BY <1>4, <2>1, <2>2, <2>3
<1> DEFINE p == a \o b
           q == ab \o Info
<1>8. /\ S \in ByteArray /\ Len(S) = 6 /\ S[1] = "4" /\ S[2] = ":"
      /\ \A k \in 1..4 : S[2 + k] = Info[k]
  <2>1. p \in ByteArray /\ Len(p) = 2 /\ p[1] = "4" /\ p[2] = ":" /\ S = p \o Info
    BY <1>5, <1>7
  <2> HIDE DEF p
  <2>2. /\ p \o Info \in ByteArray /\ Len(p \o Info) = Len(p) + Len(Info)
        /\ \A k \in 1..Len(p) : (p \o Info)[k] = p[k]
        /\ \A k \in 1..Len(Info) : (p \o Info)[Len(p) + k] = Info[k]
    BY <1>3, <2>1, Concatenated
  <2> QED
    BY <1>3, <2>1, <2>2
<1>9. /\ q \in ByteArray /\ Len(q) = 6 /\ q[1] = "4" /\ q[2] = ":"
      /\ \A k \in 1..4 : q[2 + k] = Info[k]
  <2>2. /\ ab \o Info \in ByteArray /\ Len(ab \o Info) = Len(ab) + Len(Info)
        /\ \A k \in 1..Len(ab) : (ab \o Info)[k] = ab[k]
        /\ \A k \in 1..Len(Info) : (ab \o Info)[Len(ab) + k] = Info[k]
    BY <1>3, <1>4, Concatenated
  <2> QED
    BY <1>3, <1>4, <2>2
<1>10. q[6] = "o"
  <2>1. 4 \in 1..4 /\ 2 + 4 = 6
    OBVIOUS
  <2>2. q[2 + 4] = Info[4]
    BY <1>9, <2>1
  <2> HIDE DEF q
  <2> QED
    BY <1>3, <2>1, <2>2
<1> HIDE DEF q
<1>11. /\ InfoMarker \in ByteArray /\ Len(InfoMarker) = 7 /\ InfoMarker[7] = "d"
       /\ \A k \in 1..6 : InfoMarker[k] = q[k]
  <2>1. InfoMarker = q \o c
    BY <1>6 DEF q
  <2>2. /\ q \o c \in ByteArray /\ Len(q \o c) = Len(q) + Len(c)
        /\ \A k \in 1..Len(q) : (q \o c)[k] = q[k]
        /\ \A k \in 1..Len(c) : (q \o c)[Len(q) + k] = c[k]
    BY <1>4, <1>9, Concatenated
  <2>3. 1 \in 1..Len(c) /\ Len(q) + 1 = 7
    BY <1>4, <1>9
  <2> QED
    BY <1>4, <1>9, <2>1, <2>2, <2>3
<1>12. \A k \in 1..6 : k = 1 \/ k = 2 \/ (k - 2 \in 1..4 /\ 2 + (k - 2) = k)
  OBVIOUS
<1>13. ASSUME NEW k \in 1..6 PROVE q[k] = S[k]
  <2>1. CASE k = 1 \/ k = 2
    BY <1>8, <1>9, <2>1
  <2>2. CASE k - 2 \in 1..4 /\ 2 + (k - 2) = k
    BY <1>8, <1>9, <2>2
  <2> QED
    BY <1>12, <2>1, <2>2
<1>14. InfoMarker[6] = "o"
  <2>1. 6 \in 1..6
    OBVIOUS
  <2> QED
    BY <1>10, <1>11, <2>1
<1> QED
  BY <1>3, <1>8, <1>11, <1>13, <1>14 DEF S

\* When the entry of the info dictionary is in data, there is a section to
\* digest.
LEMMA InfoIsFound ==
  ASSUME NEW n \in 0..Depth, NEW c \in Containers(n), c[1] = "dict", NEW data \in ByteArray, NEW pos \in Nat,
         Stands(data, pos, EncodeString(Info) \o Encoder[n][c])
  PROVE  infoInMetadata(data) # <<>>
<1> DEFINE S == EncodeString(Info)
           E == Encoder[n][c]
           six == 6
<1>1. S \in ByteArray /\ InfoMarker \in ByteArray /\ Len(S) = 6 /\ Len(InfoMarker) = 7
      /\ InfoMarker[6] = "o" /\ InfoMarker[7] = "d" /\ \A k \in 1..6 : InfoMarker[k] = S[k]
  BY InfoIsEncoded
<1>2. E \in ByteArray /\ Len(E) \in Nat /\ 2 <= Len(E) /\ At(E, 0) = "d"
  BY ContainerSetting DEF Mark
<1>3. Stands(data, pos, S \o E) /\ Len(data) \in Nat
  BY DEF ByteArray
<1> HIDE DEF S, E
<1>4. Stands(data, pos, S) /\ Stands(data, pos + 6, E)
  <2>1. Stands(data, pos, S) /\ Stands(data, pos + Len(S), E)
    BY <1>1, <1>2, <1>3, StandsSplit
  <2> QED
    BY <1>1, <2>1
<1>5. Stands(data, pos, InfoMarker)
  <2>1. /\ \A k \in 1..6 : data[pos + k] = S[k]
        /\ (pos + 6) + Len(E) <= Len(data) /\ data[(pos + 6) + 1] = E[1]
    BY <1>1, <1>2, <1>4 DEF Stands
  <2>2. E[1] = "d"
    <3>1. 0 \in 0..(Len(E) - 1) /\ 0 + 1 = 1
      BY <1>2
    <3> QED
      BY <1>2, <3>1 DEF At
  <2>3. \A k \in 1..7 : k \in 1..6 \/ k = 7
    OBVIOUS
  <2>4. (pos + 6) + 1 = pos + 7 /\ pos + 7 <= Len(data)
    BY <1>2, <1>3, <2>1
  <2>5. ASSUME NEW k \in 1..7 PROVE data[pos + k] = InfoMarker[k]
    BY <1>1, <2>1, <2>2, <2>3, <2>4
  <2> QED
    BY <1>1, <2>4, <2>5 DEF Stands
<1> DEFINE q == indexOfText(data, InfoMarker, 0)
           idx == q + 6
           e == getLastE(data, idx)
           len == e - idx + 1
<1>6. q \in Nat /\ q + 7 <= Len(data) /\ mid(data, q, 7) = InfoMarker
  <2>1. /\ q \in Nat /\ q + Len(InfoMarker) <= Len(data) /\ mid(data, q, Len(InfoMarker)) = InfoMarker
    BY <1>1, <1>5, TextIsFound
  <2> HIDE DEF q
  <2> QED
    BY <1>1, <2>1
<1>7. infoInMetadata(data) = mid(data, idx, len)
  <2>1. idx # 5
    <3> HIDE DEF q
    <3> QED
      BY <1>6
  <2> QED
    BY <2>1 DEF infoInMetadata
<1> HIDE DEF q, e
<1>8. data[q + 6] = "o"
  <2>1. mid(data, q, 7) = SubSeq(data, q + 1, q + 7)
    BY <1>3, <1>6 DEF mid
  <2>2. SubSeq(data, q + 1, q + 7)[6] = data[q + 6]
    BY <1>3, <1>6 DEF ByteArray
  <2> QED
    BY <1>1, <1>6, <2>1, <2>2
<1>9. At(data, idx - 1) = "o"
  <2>1. idx - 1 \in 0..(Len(data) - 1) /\ (idx - 1) + 1 = q + 6
    BY <1>3, <1>6
  <2> HIDE DEF idx
  <2> QED
    BY <1>8, <2>1 DEF At
<1>10. idx \in Nat /\ idx >= 6 /\ idx < Len(data) /\ idx + 1 <= Len(data)
  BY <1>3, <1>6
<1> HIDE DEF idx
<1>11. e = -1 \/ At(data, e) = "e"
  BY LastEIsE DEF e
<1>12. e # idx - 1
  BY <1>9, <1>10, <1>11
<1>13. e = -1 \/ e \in 0..(Len(data) - 1)
  BY <1>11 DEF At
<1>14. len \in Int /\ len # 0
  BY <1>3, <1>10, <1>12, <1>13
<1> HIDE DEF len
<1>15. mid(data, idx, len) = SubSeq(data, idx + 1, Len(data)) \/
       (len > 0 /\ idx + len <= Len(data) /\ mid(data, idx, len) = SubSeq(data, idx + 1, idx + len))
  BY <1>3, <1>10, <1>14 DEF mid
<1>16. Len(SubSeq(data, idx + 1, Len(data))) # 0
  BY <1>3, <1>10 DEF ByteArray
<1>17. len > 0 /\ idx + len <= Len(data) => Len(SubSeq(data, idx + 1, idx + len)) # 0
  BY <1>3, <1>10, <1>14 DEF ByteArray
<1>18. Len(mid(data, idx, len)) # 0
  BY <1>15, <1>16, <1>17
<1> QED
  BY <1>7, <1>18

-----------------------------------------------------------------------------
(* The behaviours *)

\* Until it is decoded, the document is what is left of the encoding; what was
\* read and encoded again stays what the codec made of the document.
DocumentInv ==
  /\ source \in Values
  /\ stage \in {"value", "encoded", "decoded", "encoded again"}
  /\ stage # "value" => \E L \in 1..Len(Encode(source)) : doc = SubSeq(Encode(source), 1, L)
  /\ IsDecoded => read = BtDecode(doc)
  /\ stage = "encoded again" => again = Encode(read.val)

\* The encoding of the source.
LEMMA SourceIsEncoded ==
  ASSUME source \in Values
  PROVE  /\ Depth \in 0..Depth /\ source \in Tree[Depth]
         /\ Encode(source) \in ByteArray /\ Len(Encode(source)) \in Nat \ {0}
<1>1. Depth \in 0..Depth /\ source \in Tree[Depth]
  BY ValuesAssumption
<1> QED
  BY <1>1, EncodingIsSome DEF Encode

\* Losing bytes, decoding and encoding again keep the document what is left of
\* the encoding of the source (EncodeSource, LoseLastByte, DecodeDoc, EncodeAgain).
THEOREM DocumentIsKept == Spec => []DocumentInv
<1>1. Init => DocumentInv
  BY DEF Init, DocumentInv, IsDecoded
<1>2. DocumentInv /\ [Next]_vars => DocumentInv'
  <2> SUFFICES ASSUME DocumentInv, [Next]_vars PROVE DocumentInv'
    OBVIOUS
  <2> DEFINE W == Encode(source)
  <2>1. Depth \in 0..Depth /\ source \in Tree[Depth] /\ W \in ByteArray /\ Len(W) \in Nat \ {0}
    BY SourceIsEncoded DEF DocumentInv
  <2>2. CASE EncodeSource
    <3>1. doc' = W /\ stage' = "encoded" /\ source' = source /\ stage' # "value"
      BY <2>2 DEF EncodeSource
    <3> HIDE DEF W
    <3>2. Len(W) \in 1..Len(W) /\ SubSeq(W, 1, Len(W)) = W
      BY <2>1 DEF ByteArray
    <3>3. \E L \in 1..Len(W) : doc' = SubSeq(W, 1, L)
      BY <3>1, <3>2
    <3>4. W' = W
      BY <3>1 DEF W, Encode
    <3>5. ~IsDecoded'
      BY <3>1 DEF IsDecoded
    <3> QED
      BY <3>1, <3>3, <3>4, <3>5 DEF DocumentInv, W
  <2>3. CASE LoseLastByte
    <3>1. /\ stage = "encoded" /\ Len(doc) > 1 /\ doc' = mid(doc, 0, Len(doc) - 1)
          /\ source' = source /\ stage' = stage
      BY <2>3 DEF LoseLastByte
    <3>2. PICK L \in 1..Len(W) : doc = SubSeq(W, 1, L)
      BY <3>1 DEF DocumentInv
    <3>3. L - 1 \in 1..Len(W) /\ doc' = SubSeq(W, 1, L - 1)
      <4> HIDE DEF W
      <4>1. L \in 0..Len(W) /\ L \in Nat
        BY <2>1
      <4>2. doc \in ByteArray /\ Len(doc) = L
        BY <2>1, <3>2, <4>1, LeadingBytes
      <4>3. L > 1 /\ L - 1 \in 1..Len(W) /\ L - 1 \in 0..Len(W) /\ ~(L - 1 < 0) /\ ~(0 + (L - 1) > L)
            /\ 0 + (L - 1) = L - 1 /\ 0 + 1 = 1
        BY <2>1, <3>1, <4>1, <4>2
      <4>4. doc' = SubSeq(doc, 1, L - 1)
        BY <3>1, <4>2, <4>3 DEF mid
      <4>5. SubSeq(SubSeq(W, 1, L), 1, L - 1) = SubSeq(W, 1, L - 1)
        <5>1. W \in Seq(Byte) /\ L <= Len(W)
          BY <2>1, <4>1 DEF ByteArray
        <5> QED
          BY <4>1, <4>3, <5>1
      <4> QED
        BY <3>2, <4>3, <4>4, <4>5
    <3> HIDE DEF W
    <3>4. W' = W
      BY <3>1 DEF W, Encode
    <3>5. ~IsDecoded' /\ stage' # "encoded again"
      BY <3>1 DEF IsDecoded
    <3> QED
      BY <3>1, <3>3, <3>4, <3>5 DEF DocumentInv, W
  <2>4. CASE DecodeDoc
    <3>1. /\ stage = "encoded" /\ read' = BtDecode(doc) /\ stage' = "decoded"
          /\ source' = source /\ doc' = doc
      BY <2>4 DEF DecodeDoc
    <3>2. W' = W /\ BtDecode(doc)' = BtDecode(doc)
      BY <3>1
    <3> HIDE DEF W
    <3> QED
      BY <3>1, <3>2 DEF DocumentInv, W
  <2>5. CASE EncodeAgain
    <3>1. /\ stage = "decoded" /\ again' = Encode(read.val) /\ stage' = "encoded again"
          /\ source' = source /\ doc' = doc /\ read' = read
      BY <2>5 DEF EncodeAgain
    <3>2. W' = W /\ BtDecode(doc)' = BtDecode(doc) /\ Encode(read.val)' = Encode(read.val)
      BY <3>1
    <3> HIDE DEF W
    <3> QED
      BY <3>1, <3>2 DEF DocumentInv, W, IsDecoded
  <2>6. CASE UNCHANGED vars
    <3>1. source' = source /\ doc' = doc /\ read' = read /\ again' = again /\ stage' = stage
      BY <2>6 DEF vars
    <3>2. W' = W /\ BtDecode(doc)' = BtDecode(doc) /\ Encode(read.val)' = Encode(read.val)
      BY <3>1
    <3> HIDE DEF W
    <3> QED
      BY <3>1, <3>2 DEF DocumentInv, W, IsDecoded
  <2> QED
    BY <2>2, <2>3, <2>4, <2>5, <2>6 DEF Next
<1> QED
  BY <1>1, <1>2, PTL DEF Spec

\* What was read of a container.
LEMMA SourceIsRead ==
  ASSUME DocumentInv, IsDecoded, IsContainer(source)
  PROVE  /\ Depth \in 0..Depth /\ source \in Containers(Depth)
         /\ \E L \in 1..Len(Encode(source)) :
              /\ doc = SubSeq(Encode(source), 1, L) /\ doc \in ByteArray /\ Len(doc) = L
              /\ Outcome(Depth, source, doc, Len(Encode(source)) - L, read)
<1> DEFINE W == Encode(source)
           n == Depth
<1>1. n \in 0..n /\ n \in 0..Depth /\ source \in Tree[n] /\ W \in ByteArray /\ Len(W) \in Nat \ {0}
      /\ W = Encoder[n][source]
  BY SourceIsEncoded DEF DocumentInv, Encode
<1>2. source \in Containers(n)
  BY <1>1 DEF Containers, IsContainer
<1>3. PICK L \in 1..Len(W) : doc = SubSeq(W, 1, L)
  BY DEF DocumentInv, IsDecoded
<1>4. doc \in ByteArray /\ Len(doc) = L
  <2> HIDE DEF W
  <2>1. L \in 0..Len(W)
    BY <1>1
  <2> QED
    BY <1>1, <1>3, <2>1, LeadingBytes
<1>5. read = BtDecode(doc)
  BY DEF DocumentInv
<1> HIDE DEF W, n
<1>6. L \in 1..Len(Encoder[n][source]) /\ doc = SubSeq(Encoder[n][source], 1, L)
  BY <1>1, <1>3
<1>7. BtDecode(doc) = DecodeContainer(doc)
  <2>1. At(doc, 0) \in {"l", "d"}
    BY <1>1, <1>2, <1>6, FirstByteOf
  <2> QED
    BY <2>1, ContainerIsDecoded
<1>8. Outcome(n, source, doc, Len(Encoder[n][source]) - L, DecodeContainer(doc))
  BY <1>1, <1>2, <1>6, ContainerDecoded
<1>9. Outcome(n, source, doc, Len(W) - L, read)
  BY <1>1, <1>5, <1>7, <1>8
<1> QED
  BY <1>1, <1>2, <1>3, <1>4, <1>9 DEF n, W

\* RoundTrip, in the states that DocumentInv describes.
LEMMA RoundTripHolds ==
  ASSUME DocumentInv
  PROVE  RoundTrip
<1> SUFFICES ASSUME IsDecoded, IsComplete, IsContainer(source), ~HasEmpty(source)
             PROVE  read = Returned(Normal(source))
  BY DEF RoundTrip
<1> DEFINE W == Encode(source)
<1>1. Depth \in 0..Depth /\ source \in Containers(Depth)
  BY SourceIsRead
<1>2. PICK L \in 1..Len(W) : /\ doc = SubSeq(W, 1, L) /\ doc \in ByteArray /\ Len(doc) = L
                             /\ Outcome(Depth, source, doc, Len(W) - L, read)
  BY SourceIsRead
<1> DEFINE z == Len(W) - L
<1>3. z = 0
  <2>1. doc = W /\ Len(doc) \in Nat
    BY <1>2 DEF IsComplete, ByteArray
  <2> QED
    BY <1>2, <2>1
<1>4. source \in Solid[Depth]
  BY DEF HasEmpty
<1>5. Outcome(Depth, source, doc, z, read)
  BY <1>2
<1> HIDE DEF W, z
<1> QED
  BY <1>1, <1>3, <1>4, <1>5, OutcomeIsPart DEF Normal

\* A value without empty containers comes back as it was, numerals apart.
THEOREM RoundTrips == Spec => []RoundTrip
BY DocumentIsKept, RoundTripHolds, PTL

\* NothingInvented, in the states that DocumentInv describes.
LEMMA NothingIsInvented ==
  ASSUME DocumentInv
  PROVE  NothingInvented
<1> SUFFICES ASSUME IsDecoded, IsContainer(source)
             PROVE  IsPart(read.val, Normal(source))
  BY DEF NothingInvented
<1>1. Depth \in 0..Depth /\ source \in Containers(Depth)
  BY SourceIsRead
<1>2. PICK L \in 1..Len(Encode(source)) : Outcome(Depth, source, doc, Len(Encode(source)) - L, read)
  BY SourceIsRead
<1>3. Parts[Depth][Normalizer[Depth][source]][read.val]
  BY <1>1, <1>2, OutcomeIsPart
<1> QED
  BY <1>3 DEF IsPart, Normal

\* The decoder never shows anything that was not encoded.
THEOREM NothingIsEverInvented == Spec => []NothingInvented
BY DocumentIsKept, NothingIsInvented, PTL

\* ReencodingIsStable, in the states that DocumentInv describes.
LEMMA ReencodingHolds ==
  ASSUME DocumentInv
  PROVE  ReencodingIsStable
<1> SUFFICES ASSUME stage = "encoded again", IsComplete, ~HasEmpty(source) PROVE again = doc
  BY DEF ReencodingIsStable
<1> DEFINE n == Depth
<1>1. /\ IsDecoded /\ again = Encode(read.val) /\ read = BtDecode(doc) /\ doc = Encode(source)
      /\ source \in Values
  BY DEF DocumentInv, IsDecoded, IsComplete
<1>2. n \in 0..Depth /\ source \in Tree[n]
  BY <1>1, SourceIsEncoded
<1>3. again = Encoder[n][read.val] /\ doc = Encoder[n][source]
  BY <1>1 DEF Encode
<1>4. CASE IsContainer(source)
  <2>1. read.val = Normalizer[n][source]
    <3>1. read = Returned(Normalizer[n][source])
      BY <1>1, <1>4, RoundTripHolds DEF RoundTrip, Normal
    <3> DEFINE x == Normalizer[n][source]
    <3> HIDE DEF x
    <3>2. read = Returned(x)
      BY <3>1 DEF x
    <3>3. read.val = x
      BY <3>2 DEF Returned
    <3> QED
      BY <3>3 DEF x
  <2> HIDE DEF n
  <2> QED
    BY <1>2, <1>3, <2>1, NormalsAreValues
<1>5. CASE ~IsContainer(source)
  <2> HIDE DEF n
  <2>1. source \in Scalars
    BY <1>2, <1>5, TreeShape DEF IsContainer
  <2> QED
    BY <1>1, <1>2, <1>3, <2>1, ScalarStable
<1> QED
  BY <1>4, <1>5

\* What was decoded is encoded to the same bytes again.
THEOREM ReencodingStaysStable == Spec => []ReencodingIsStable
BY DocumentIsKept, ReencodingHolds, PTL

\* The first elements of a list.
LEMMA FirstOfNormal ==
  ASSUME NEW n, NEW v, NEW N \in Nat, NEW i \in 0..N
  PROVE  SubSeq(FirstNormal(n, v, N), 1, i) = FirstNormal(n, v, i)
<1> DEFINE f == FirstNormal(n, v, N)
           g == FirstNormal(n, v, i)
           S == {Normalizer[n - 1][v[2][k]] : k \in 1..N}
<1>1. i \in Nat /\ 1..i \subseteq 1..N
  OBVIOUS
<1>2. f \in [1..N -> S] /\ g \in [1..i -> S] /\ \A k \in 1..i : g[k] = f[k]
  BY <1>1 DEF FirstNormal
<1> HIDE DEF f, g, S
<1>3. f \in Seq(S) /\ Len(f) = N /\ g \in Seq(S) /\ Len(g) = i
  BY <1>1, <1>2, IsSequence
<1> DEFINE h == SubSeq(f, 1, i)
<1>4. h \in Seq(S) /\ Len(h) = i /\ \A k \in 1..i : h[k] = f[k]
  BY <1>1, <1>3
<1> HIDE DEF h
<1>5. h = g
  BY <1>2, <1>3, <1>4
<1> QED
  BY <1>5 DEF f, g, h

\* CutLeavesLeadingEntries, in the states that DocumentInv describes.
LEMMA CutHolds ==
  ASSUME DocumentInv
  PROVE  CutLeavesLeadingEntries
<1> DEFINE whole == Normal(source)[2]
<1> SUFFICES ASSUME IsDecoded, IsContainer(source), ~HasEmpty(source)
             PROVE  IF source[1] = "list"
                    THEN \E n \in 0..Len(whole) : read.val = <<"list", SubSeq(whole, 1, n)>>
                    ELSE \E n \in 0..Len(KeyOrder) :
                           LET keys == {KeyOrder[j] : j \in 1..n}
                           IN  read.val = <<"dict", [k \in Keys |-> IF k \in keys THEN whole[k] ELSE Absent]>>
  BY DEF CutLeavesLeadingEntries
<1> DEFINE d == Depth
<1>1. d \in 0..Depth /\ source \in Containers(d)
  BY SourceIsRead
<1>2. PICK L \in 1..Len(Encode(source)) : Outcome(d, source, doc, Len(Encode(source)) - L, read)
  BY SourceIsRead
<1> DEFINE lost == Len(Encode(source)) - L
<1>3. Outcome(d, source, doc, lost, read) /\ source \in Solid[d] /\ whole = Normalizer[d][source][2]
  BY <1>2 DEF HasEmpty, Normal
<1> HIDE DEF lost, d, whole
<1>4. CASE source[1] = "list"
  <2> DEFINE N == Len(source[2])
  <2>1. PICK i \in 0..N, ret \in Seq(Tree[d - 1]) :
          /\ read \in {Returned(<<"list", ret>>), Thrown(<<"list", ret>>)}
          /\ ret = FirstNormal(d, source, i)
    BY <1>3, <1>4 DEF Outcome, ListOutcome
  <2>2. N \in Nat
    BY <1>1, <1>4, ListPieces
  <2>3. whole = FirstNormal(d, source, N)
    <3> DEFINE x == FirstNormal(d, source, N)
    <3>1. Normalizer[d][source] = <<"list", x>>
      BY <1>1, <1>4, NormalShape DEF FirstNormal
    <3> HIDE DEF x
    <3>2. Normalizer[d][source][2] = x
      BY <3>1
    <3> QED
      BY <1>3, <3>2 DEF x
  <2>4. Len(whole) = N
    BY <2>2, <2>3 DEF FirstNormal
  <2> DEFINE x == <<"list", ret>>
  <2>5. read.val = x
    <3> HIDE DEF x
    <3> QED
      BY <2>1, ResultOf DEF x
  <2>6. SubSeq(whole, 1, i) = ret
    BY <2>1, <2>2, <2>3, FirstOfNormal
  <2> QED
    BY <1>4, <2>4, <2>5, <2>6
<1>5. CASE source[1] = "dict"
  <2> DEFINE all == [k \in Keys |-> IF source[2][k] = Absent THEN Absent ELSE Normalizer[d - 1][source[2][k]]]
  <2>1. PICK i \in 0..Len(KeyOrder), ret \in Maps(Tree[d - 1]) :
          /\ read \in {Returned(<<"dict", ret>>), Thrown(<<"dict", ret>>)}
          /\ ret = FirstEntries(d, source, i)
    BY <1>3, <1>5 DEF Outcome, MapOutcome
  <2>2. whole = all
    <3>1. Normalizer[d][source] = <<"dict", all>>
      BY <1>1, <1>5, NormalShape
    <3> HIDE DEF all
    <3>2. Normalizer[d][source][2] = all
      BY <3>1
    <3> QED
      BY <1>3, <3>2
  <2>3. FirstEntries(d, source, i) = [k \in Keys |-> IF k \in FirstKeys(i) THEN whole[k] ELSE Absent]
    BY <2>2 DEF FirstEntries
  <2> DEFINE x == <<"dict", ret>>
  <2>4. read.val = x
    <3> HIDE DEF x
    <3> QED
      BY <2>1, ResultOf DEF x
  <2> HIDE DEF all
  <2> QED
    BY <1>5, <2>1, <2>3, <2>4 DEF FirstKeys
<1> QED
  BY <1>4, <1>5 DEF IsContainer

\* When the end of a container is lost, a number of leading entries is left.
THEOREM CutsLeaveLeadingEntries == Spec => []CutLeavesLeadingEntries
BY DocumentIsKept, CutHolds, PTL

\* InfoSectionFound, in the states that DocumentInv describes.
LEMMA InfoSectionHolds ==
  ASSUME DocumentInv
  PROVE  InfoSectionFound
<1> SUFFICES ASSUME IsDecoded, read.val[1] = "dict", Info \in Keys, read.val[2][Info][1] = "dict"
             PROVE  infoInMetadata(doc) # <<>>
  BY DEF InfoSectionFound
<1> DEFINE d == Depth
<1>1. IsContainer(source)
  <2> SUFFICES ASSUME ~IsContainer(source) PROVE FALSE
    OBVIOUS
  <2>1. d \in 0..Depth /\ source \in Tree[d] /\ Encode(source) = Encoder[d][source]
    BY SourceIsEncoded DEF DocumentInv, Encode
  <2>2. PICK L \in 1..Len(Encode(source)) : doc = SubSeq(Encode(source), 1, L)
    BY DEF DocumentInv, IsDecoded
  <2> HIDE DEF d
  <2>3. At(doc, 0) \notin {"l", "d"}
    BY <2>1, <2>2, FirstByteOf DEF Containers, IsContainer
  <2>4. read.val[1] = "str"
    BY <2>3, ScalarIsDecoded DEF DocumentInv
  <2> QED
    BY <2>4
<1>2. d \in 0..Depth /\ source \in Containers(d)
  BY <1>1, SourceIsRead
<1>3. PICK L \in 1..Len(Encode(source)) :
        doc \in ByteArray /\ Outcome(d, source, doc, Len(Encode(source)) - L, read)
  BY <1>1, SourceIsRead
<1> DEFINE lost == Len(Encode(source)) - L
<1>4. Outcome(d, source, doc, lost, read)
  BY <1>3
<1> HIDE DEF lost, d
<1>5. read.val \in Tree[d] /\ Parts[d][Normalizer[d][source]][read.val] /\ Normalizer[d][source] \in Tree[d]
  BY <1>2, <1>4, ContainerShape, OutcomeIsPart, NormalsAreValues
<1>6. source[1] = "dict"
  <2>1. Normalizer[d][source][1] = "dict"
    BY <1>2, <1>5, PartIs
  <2>2. source[1] # "list"
    <3> SUFFICES ASSUME source[1] = "list" PROVE FALSE
      OBVIOUS
    <3> DEFINE x == FirstNormal(d, source, Len(source[2]))
    <3>1. Normalizer[d][source] = <<"list", x>>
      BY <1>2, NormalShape DEF FirstNormal
    <3> HIDE DEF x
    <3>2. Normalizer[d][source][1] = "list"
      BY <3>1
    <3> QED
      BY <2>1, <3>2
  <2> QED
    BY <1>2, <2>2, ContainerShape
<1>7. PICK ret \in Maps(Tree[d - 1]) :
        read \in {Returned(<<"dict", ret>>), Thrown(<<"dict", ret>>)} /\ PartEntries(d, source, doc, ret)
  BY <1>4, <1>6 DEF Outcome, MapOutcome
<1> DEFINE x == <<"dict", ret>>
           c == source[2][Info]
           m == d - 1
<1>8. read.val[2] = ret
  <2> HIDE DEF x
  <2>1. read.val = x
    BY <1>7, ResultOf DEF x
  <2> QED
    BY <2>1 DEF x
<1>9. ret[Info] # Absent /\ ret[Info][1] = "dict"
  BY <1>8 DEF Absent
<1>10. c # Absent /\ EntryIsIn(d, source, doc, Info) /\ Parts[m][Normalizer[m][c]][ret[Info]]
  BY <1>7, <1>9 DEF PartEntries
<1>11. m \in 0..Depth /\ c \in Tree[m] /\ ret[Info] \in Tree[m]
  <2>1. d - 1 \in 0..Depth /\ source[2] \in Maps(Tree[d - 1])
    BY <1>2, <1>6, ContainerShape
  <2> QED
    BY <1>7, <1>9, <1>10, <2>1 DEF Maps
<1>12. PICK p \in Nat : Stands(doc, p, EncodeString(Info) \o Encoder[m][c])
  BY <1>10 DEF EntryIsIn
<1> HIDE DEF c, m
<1>13. c \in Containers(m) /\ c[1] = "dict"
  <2>1. Normalizer[m][c] \in Tree[m]
    BY <1>11, NormalsAreValues
  <2>2. Normalizer[m][c][1] = "dict"
    BY <1>9, <1>10, <1>11, <2>1, PartIs
  <2>3. CASE c \in Scalars
    <3>1. Normalizer[m][c] \in Scalars
      BY <1>11, <2>3, ScalarsAreEncoded, ScalarEncoding
    <3> QED
      BY <2>2, <3>1, ScalarShape
  <2>4. CASE c \notin Scalars
    <3>1. c \in Containers(m)
      BY <1>11, <2>4, TreeShape DEF Containers
    <3>2. c[1] # "list"
      <4> SUFFICES ASSUME c[1] = "list" PROVE FALSE
        OBVIOUS
      <4> DEFINE y == FirstNormal(m, c, Len(c[2]))
      <4>1. Normalizer[m][c] = <<"list", y>>
        BY <1>11, <3>1, NormalShape DEF FirstNormal
      <4> HIDE DEF y
      <4>2. Normalizer[m][c][1] = "list"
        BY <4>1
      <4> QED
        BY <2>2, <4>2
    <3> QED
      BY <1>11, <3>1, <3>2 DEF Containers
  <2> QED
    BY <2>3, <2>4
<1> QED
  BY <1>3, <1>11, <1>12, <1>13, InfoIsFound

\* Where the decoder returns an info dictionary, there is a section to digest.
THEOREM InfoSectionIsFound == Spec => []InfoSectionFound
BY DocumentIsKept, InfoSectionHolds, PTL

===============================================================================
