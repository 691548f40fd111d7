----------------------- MODULE BtTrackerRequestProofs -----------------------
(***************************************************************************)
(* For any sets of parameter values: the cached query is never out of date *)
(* when its flag vouches for it, BtTrackerRequest implements               *)
(* TrackerRequestSpec, and the query tells every two info_hashes, and      *)
(* every two peer_ids, apart.                                              *)
(***************************************************************************)
EXTENDS BtTrackerRequest, WellFoundedInduction, TLAPS

\* Every setter, whichever member it is for, either stores a value of the
\* member's set and marks the query out of date, or does nothing.
Stores ==
  /\ request' \in Requests
  /\ requestDataGenerated' = FALSE
  /\ UNCHANGED <<requestData, answer, turn>>

\* A step stores a parameter, changes nothing, or is a call of toRequestData.
LEMMA NextCases ==
  ASSUME TypeOK, Next
  PROVE  Stores \/ UNCHANGED vars \/ toRequestData
<1> USE DEF TypeOK
<1>1. ASSUME NEW new \in Hashes, setInfoHash(new) PROVE Stores
  BY <1>1 DEF setInfoHash, Store, Stores, Requests
<1>2. ASSUME NEW new \in PeerIds, setPeerId(new) PROVE Stores
  BY <1>2 DEF setPeerId, Store, Stores, Requests
<1>3. ASSUME NEW new \in Ips, setIp(new) PROVE Stores
  BY <1>3 DEF setIp, Store, Stores, Requests
<1>4. ASSUME NEW new \in Ports, setPort(new) PROVE Stores \/ UNCHANGED vars
  BY <1>4 DEF setPort, StoreIfNew, Store, Stores, Requests
<1>5. ASSUME NEW new \in Counts, setUploaded(new) PROVE Stores \/ UNCHANGED vars
  BY <1>5 DEF setUploaded, StoreIfNew, Store, Stores, Requests
<1>6. ASSUME NEW new \in Counts, setDownloaded(new) PROVE Stores \/ UNCHANGED vars
  BY <1>6 DEF setDownloaded, StoreIfNew, Store, Stores, Requests
<1>7. ASSUME NEW new \in Lefts, setLeft(new) PROVE Stores \/ UNCHANGED vars
  BY <1>7 DEF setLeft, StoreIfNew, Store, Stores, Requests
<1>8. ASSUME NEW new \in Events, setEvent(new) PROVE Stores \/ UNCHANGED vars
  BY <1>8 DEF setEvent, StoreIfNew, Store, Stores, Requests
<1>9. ASSUME NEW new \in BOOLEAN, setCompact(new) PROVE Stores \/ UNCHANGED vars
  BY <1>9 DEF setCompact, StoreIfNew, Store, Stores, Requests
<1>10. ASSUME NEW new \in BOOLEAN, setNoPeerId(new) PROVE Stores \/ UNCHANGED vars
  BY <1>10 DEF setNoPeerId, StoreIfNew, Store, Stores, Requests
<1>11. ASSUME NEW new \in Numwants, setNumwant(new) PROVE Stores \/ UNCHANGED vars
  BY <1>11 DEF setNumwant, StoreIfNew, Store, Stores, Requests
<1> QED
  BY <1>1, <1>2, <1>3, <1>4, <1>5, <1>6, <1>7, <1>8, <1>9, <1>10, <1>11 DEF Next

IInv == TypeOK /\ CacheFresh

\* A new request satisfies the inductive invariant.
LEMMA InitIInv == Init => IInv
BY DEF Init, IInv, TypeOK, CacheFresh

\* No call breaks the inductive invariant.
LEMMA NextIInv == IInv /\ [Next]_vars => IInv'
<1> SUFFICES ASSUME IInv, [Next]_vars PROVE IInv'
  OBVIOUS
<1>1. CASE Stores
  BY <1>1 DEF Stores, IInv, TypeOK, CacheFresh
<1>2. CASE toRequestData
  BY <1>2 DEF toRequestData, IInv, TypeOK, CacheFresh
<1>3. CASE UNCHANGED vars
  BY <1>3 DEF vars, IInv, TypeOK, CacheFresh
<1> QED
  BY <1>1, <1>2, <1>3, NextCases DEF IInv

\* The inductive invariant holds in every reachable state.
LEMMA SpecIInv == Spec => []IInv
BY InitIInv, NextIInv, PTL DEF Spec

\* The parameters stay within their sets.
THEOREM TypeCorrect == Spec => []TypeOK
<1>1. IInv => TypeOK
  BY DEF IInv
<1> QED
  BY SpecIInv, <1>1, PTL

\* A query that is handed out again is the query of the present parameters.
THEOREM CacheIsFresh == Spec => []CacheFresh
<1>1. IInv => CacheFresh
  BY DEF IInv
<1> QED
  BY SpecIInv, <1>1, PTL

\* BtTrackerRequest implements the specification without a cache: a setter
\* maps to Set or to a stutter, toRequestData to Ask because of CacheFresh.
THEOREM Implements == Spec => AnswersAreCurrent
<1>1. Init => Abstract!Init
  BY DEF Init, Abstract!Init
<1>2. ASSUME IInv, [Next]_vars
      PROVE  [Abstract!Next]_(Abstract!vars)
  <2>1. CASE Stores
    BY <2>1 DEF Stores, Abstract!Next, Abstract!Set
  <2>2. CASE toRequestData
    BY <1>2, <2>2 DEF toRequestData, IInv, CacheFresh, Abstract!Next, Abstract!Ask
  <2>3. CASE UNCHANGED vars
    BY <2>3 DEF vars, Abstract!vars
  <2> QED
    BY <1>2, <2>1, <2>2, <2>3, NextCases DEF IInv
<1> QED
  BY SpecIInv, <1>1, <1>2, PTL DEF Spec, AnswersAreCurrent, Abstract!Spec

-----------------------------------------------------------------------------
(* The escaping can be undone *)

\* the order of Nat as a set of pairs
Less == {ss \in Nat \X Nat : ss[1] < ss[2]}
\* A set of naturals that is not empty has a least element: the library's
\* theorem on well-founded relations takes a set, so that it can be cited.
LEMMA Least ==
  ASSUME NEW T, T \subseteq Nat, T # {}
  PROVE  \E x \in T : \A y \in T : x <= y
<1>1. IsWellFoundedOn(Less, Nat)
  BY NatLessThanWellFounded DEF OpToRel, Less
<1>2. PICK x \in T : \A y \in T : ~(<<y, x>> \in Less)
  BY <1>1, WFMin
<1>3. \A y \in T : ~(y < x)
  BY <1>2 DEF Less
<1> QED
  BY <1>3

\* Induction over Nat, for a set in place of a predicate.
LEMMA InductionInSet ==
  ASSUME NEW T, 0 \in T, \A n \in Nat : n \in T => n + 1 \in T
  PROVE  Nat \subseteq T
<1> SUFFICES ASSUME Nat \ T # {} PROVE FALSE
  OBVIOUS
<1>1. PICK x \in Nat \ T : \A y \in Nat \ T : x <= y
  BY Least
<1>2. x - 1 \in Nat /\ (x - 1) + 1 = x /\ ~(x <= x - 1)
  OBVIOUS
<1>3. x - 1 \in T
  BY <1>1, <1>2
<1> QED
  BY <1>2, <1>3

\* The code of a byte is a sequence of bytes.
LEMMA CodeType == 
  ASSUME NEW b \in Byte
  PROVE  Code(b) \in Seq(Byte)
<1>1. HexDigit(b \div 16) \in Byte /\ HexDigit(b % 16) \in Byte
  BY DEF HexDigit, Byte
<1>2. Escape(b) \in Seq(Byte)
  BY <1>1 DEF Escape, Byte
<1> QED
  BY <1>2 DEF Code

\* The code of a byte is not empty.
LEMMA CodeLength ==
  ASSUME NEW b \in Byte
  PROVE  Len(Code(b)) >= 1
BY DEF Code, Escape

\* Where the bytes of a concatenation are.
LEMMA Concatenated ==
  ASSUME NEW p \in Seq(Byte), NEW q \in Seq(Byte), NEW r, r = p \o q
  PROVE  /\ r \in Seq(Byte)
         /\ Len(r) = Len(p) + Len(q)
         /\ \A j \in 1..Len(p) : r[j] = p[j]
         /\ \A j \in 1..Len(q) : r[Len(p) + j] = q[j]
OBVIOUS

\* e[n] is what urlencodeUnicode has written behind the first n bytes of in.
IsEncoding(in, e) ==
  /\ e \in [0..Len(in) -> Seq(Byte)]
  /\ e[0] = <<>>
  /\ \A n \in 1..Len(in) : e[n] = e[n - 1] \o Code(in[n])

\* The loop of urlencodeUnicode has a result: the recursive function exists.
LEMMA EncodingExists ==
  ASSUME NEW in \in Seq(Byte)
  PROVE  \E e : IsEncoding(in, e) /\ urlencodeUnicode(in) = e[Len(in)]
<1> DEFINE Upto(m, f) == f = [n \in 0..m |-> IF n = 0 THEN <<>> ELSE f[n - 1] \o Code(in[n])]
           T == {m \in Nat : \E f : Upto(m, f)}
<1>1. 0 \in T
  <2>1. Upto(0, [n \in 0..0 |-> <<>>])
    OBVIOUS
  <2> QED
    BY <2>1
<1>2. ASSUME NEW m \in Nat, m \in T PROVE m + 1 \in T
  <2>1. PICK f : Upto(m, f)
    BY <1>2
  <2> DEFINE g == [n \in 0..(m + 1) |-> IF n <= m THEN f[n] ELSE f[m] \o Code(in[m + 1])]
  <2>2. ASSUME NEW n \in 0..(m + 1), n # 0
        PROVE  g[n] = g[n - 1] \o Code(in[n])
    <3>1. CASE n <= m
      <4>1. g[n] = f[n] /\ g[n - 1] = f[n - 1]
        BY <3>1, <2>2
      <4>2. n \in 0..m
        BY <3>1
      <4>3. f[n] = f[n - 1] \o Code(in[n])
        BY <4>2, <2>1, <2>2
      <4> QED
        BY <4>1, <4>3
    <3>2. CASE n = m + 1
      <4>1. n \in 0..(m + 1) /\ ~(n <= m) /\ in[n] = in[m + 1]
        BY <3>2
      <4>2. g[n] = f[m] \o Code(in[n])
        BY <4>1
      <4>3. n - 1 = m /\ m \in 0..(m + 1)
        BY <3>2
      <4>4. g[n - 1] = f[m]
        BY <4>3
      <4> QED
        BY <4>2, <4>4
    <3>3. n <= m \/ n = m + 1
      OBVIOUS
    <3> QED
      BY <3>1, <3>2, <3>3
  <2>3. g[0] = <<>>
    BY <2>1
  <2>4. g = [n \in 0..(m + 1) |-> IF n = 0 THEN <<>> ELSE g[n - 1] \o Code(in[n])]
    BY <2>2, <2>3
  <2>5. Upto(m + 1, g)
    BY <2>4
  <2> HIDE DEF g, Upto
  <2> QED
    BY <2>5
<1>3. Len(in) \in T
  <2> HIDE DEF T
  <2>1. Nat \subseteq T
    BY <1>1, <1>2, InductionInSet
  <2> QED
    BY <2>1
<1> DEFINE e == CHOOSE f : Upto(Len(in), f)
<1>4. Upto(Len(in), e)
  BY <1>3
<1>5. urlencodeUnicode(in) = e[Len(in)]
  BY DEF urlencodeUnicode
<1> HIDE DEF e
<1>6. /\ DOMAIN e = 0..Len(in)
      /\ e[0] = <<>>
      /\ \A n \in 1..Len(in) : e[n] = e[n - 1] \o Code(in[n])
  BY <1>4
<1>7. ASSUME NEW k \in Nat PROVE k <= Len(in) => e[k] \in Seq(Byte)
  <2> DEFINE U == {n \in Nat : n <= Len(in) => e[n] \in Seq(Byte)}
  <2>1. 0 \in U
    BY <1>6
  <2>2. ASSUME NEW n \in Nat, n \in U PROVE n + 1 \in U
    <3> SUFFICES ASSUME n + 1 <= Len(in) PROVE e[n + 1] \in Seq(Byte)
      OBVIOUS
    <3>1. e[n + 1] = e[n] \o Code(in[n + 1]) /\ in[n + 1] \in Byte
      BY <1>6
    <3> QED
      BY <2>2, <3>1, CodeType
  <2> HIDE DEF U
  <2>3. Nat \subseteq U
    BY <2>1, <2>2, InductionInSet
  <2> QED
    BY <2>3 DEF U
<1>8. e \in [0..Len(in) -> Seq(Byte)]
  BY <1>4, <1>6, <1>7
<1> QED
  BY <1>5, <1>6, <1>8 DEF IsEncoding

\* One round of the loop: it appends the code of one byte.
LEMMA EncodingStep ==
  ASSUME NEW in \in Seq(Byte), NEW e, IsEncoding(in, e), NEW n \in 1..Len(in)
  PROVE  /\ e[n - 1] \in Seq(Byte) /\ Code(in[n]) \in Seq(Byte) /\ in[n] \in Byte
         /\ Len(Code(in[n])) >= 1
         /\ e[n] = e[n - 1] \o Code(in[n])
<1>1. n - 1 \in 0..Len(in) 
  OBVIOUS
<1>2. e[n - 1] \in Seq(Byte)
  BY <1>1 DEF IsEncoding
<1>3. e[n] = e[n - 1] \o Code(in[n])
  BY <1>1 DEF IsEncoding
<1>4. in[n] \in Byte
  OBVIOUS
<1>5. Code(in[n]) \in Seq(Byte) /\ Len(Code(in[n])) >= 1
  BY <1>4, CodeType, CodeLength
<1> QED
  BY <1>2, <1>3, <1>4, <1>5

\* What a round has written is not touched by a later one.
LEMMA PartIsPrefix ==
  ASSUME NEW in \in Seq(Byte), NEW e, IsEncoding(in, e), NEW k \in 0..Len(in), NEW n \in k..Len(in)
  PROVE  /\ Len(e[k]) <= Len(e[n])
         /\ \A j \in 1..Len(e[k]) : e[n][j] = e[k][j]
<1> DEFINE IsPrefix(d) == /\ Len(e[k]) <= Len(e[k + d])
                          /\ \A j \in 1..Len(e[k]) : e[k + d][j] = e[k][j]
           T == {d \in Nat : k + d <= Len(in) => IsPrefix(d)}
<1>1. 0 \in T
  BY DEF IsEncoding
<1>2. ASSUME NEW d \in Nat, d \in T PROVE d + 1 \in T
  <2> SUFFICES ASSUME k + (d + 1) <= Len(in) PROVE IsPrefix(d + 1)
    OBVIOUS
  <2>1. k + d \in Nat /\ k + (d + 1) = (k + d) + 1 /\ IsPrefix(d)
    BY <1>2
  <2> DEFINE m == k + (d + 1)
             c == Code(in[m])
  <2>2. m \in 1..Len(in) /\ m - 1 = k + d
    OBVIOUS
  <2>3. e[k + d] \in Seq(Byte) /\ c \in Seq(Byte) /\ e[m] = e[k + d] \o c
    BY <2>2, EncodingStep
  <2> HIDE DEF m, c
  <2>4. /\ Len(e[m]) = Len(e[k + d]) + Len(c)
        /\ \A j \in 1..Len(e[k + d]) : e[m][j] = e[k + d][j]
    BY <2>3, Concatenated
  <2>5. e[k] \in Seq(Byte)
    BY DEF IsEncoding
  <2>6. Len(e[k]) <= Len(e[m]) /\ \A j \in 1..Len(e[k]) : e[m][j] = e[k][j]
    BY <2>1, <2>3, <2>4, <2>5
  <2> QED
    BY <2>6 DEF m
<1>3. n - k \in T
  <2> HIDE DEF T
  <2>1. Nat \subseteq T
    BY <1>1, <1>2, InductionInSet
  <2> QED
    BY <2>1
<1>4. k + (n - k) = n
  OBVIOUS
<1> QED
  BY <1>3, <1>4

\* No byte's code begins another's: a code of one byte is never '%'.
LEMMA CodeIsPrefixFree ==
  ASSUME NEW a \in Byte, NEW b \in Byte,
         \A j \in 1..Len(Code(a)) : j <= Len(Code(b)) => Code(a)[j] = Code(b)[j]
  PROVE  a = b
<1>1. ASSUME NEW c \in Byte
      PROVE  \/ IsPlain(c) /\ Code(c) = <<c>> /\ c # 37
             \/ ~IsPlain(c) /\ Code(c) = <<37, HexDigit(c \div 16), HexDigit(c % 16)>>
  BY DEF Code, IsPlain, Escape
<1>2. CASE IsPlain(a) \/ IsPlain(b)
  <2>1. Code(a)[1] = Code(b)[1]
    BY <1>1
  <2> QED
    BY <1>1, <1>2, <2>1
<1>3. CASE ~IsPlain(a) /\ ~IsPlain(b)
  <2>1. HexDigit(a \div 16) = HexDigit(b \div 16) /\ HexDigit(a % 16) = HexDigit(b % 16)
    BY <1>1, <1>3
  <2>2. a \div 16 = b \div 16 /\ a % 16 = b % 16
    BY <2>1 DEF HexDigit, Byte
  <2> QED
    BY <2>2 DEF Byte
<1> QED
  BY <1>2, <1>3

\* When the results are the same, so are the bytes one after the other, and
\* the second string does not end before the first.
LEMMA SameEncodingSameBytes ==
  ASSUME NEW s \in Seq(Byte), NEW t \in Seq(Byte), NEW es, NEW et,
         IsEncoding(s, es), IsEncoding(t, et), es[Len(s)] = et[Len(t)]
  PROVE  Len(s) <= Len(t) /\ \A j \in 1..Len(s) : s[j] = t[j]
<1> DEFINE Alike(k) == k <= Len(t) /\ es[k] = et[k] /\ \A j \in 1..k : s[j] = t[j]
           T == {k \in Nat : k <= Len(s) => Alike(k)}
<1>1. 0 \in T
  BY DEF IsEncoding
<1>2. ASSUME NEW k \in Nat, k \in T PROVE k + 1 \in T
  <2> SUFFICES ASSUME k + 1 <= Len(s) PROVE Alike(k + 1)
    OBVIOUS
  <2>1. Alike(k)
    BY <1>2
  <2> DEFINE c == Code(s[k + 1])
             d == Code(t[k + 1])
             w == es[Len(s)]
  <2>2. /\ es[k] \in Seq(Byte) /\ c \in Seq(Byte) /\ s[k + 1] \in Byte /\ Len(c) >= 1
        /\ es[k + 1] = es[k] \o c
    <3>1. k + 1 \in 1..Len(s) /\ (k + 1) - 1 = k
      OBVIOUS
    <3> HIDE DEF c
    <3>2. PICK n \in 1..Len(s) : n = k + 1 /\ n - 1 = k
      BY <3>1
    <3>3. /\ es[n - 1] \in Seq(Byte) /\ Code(s[n]) \in Seq(Byte) /\ s[n] \in Byte
          /\ Len(Code(s[n])) >= 1 /\ es[n] = es[n - 1] \o Code(s[n])
      BY EncodingStep
    <3> QED
      BY <3>2, <3>3 DEF c
  <2>3. /\ Len(es[k + 1]) = Len(es[k]) + Len(c)
        /\ \A j \in 1..Len(c) : es[k + 1][Len(es[k]) + j] = c[j]
    <3> HIDE DEF c
    <3> QED
      BY <2>2, Concatenated
  <2>4. /\ Len(es[k + 1]) <= Len(w)
        /\ \A j \in 1..Len(es[k + 1]) : w[j] = es[k + 1][j]
    BY PartIsPrefix
  <2>5. k + 1 <= Len(t)
    <3>1. k # Len(t)
      <4> HIDE DEF c, w
      <4>1. Len(es[k]) < Len(w)
        <5>1. Len(es[k]) \in Nat /\ Len(c) \in Nat /\ Len(w) \in Nat
          BY <2>2 DEF IsEncoding, w
        <5> QED
          BY <2>2, <2>3, <2>4, <5>1
      <4>2. Len(es[k]) # Len(w)
        BY <2>2, <4>1
      <4> QED
        BY <2>1, <4>2 DEF w
    <3> QED
      BY <2>1, <3>1
  <2>6. /\ et[k] \in Seq(Byte) /\ d \in Seq(Byte) /\ t[k + 1] \in Byte
        /\ et[k + 1] = et[k] \o d
    <3>1. k + 1 \in 1..Len(t) /\ (k + 1) - 1 = k
      BY <2>5
    <3> HIDE DEF d
    <3>2. PICK n \in 1..Len(t) : n = k + 1 /\ n - 1 = k
      BY <3>1
    <3>3. /\ et[n - 1] \in Seq(Byte) /\ Code(t[n]) \in Seq(Byte) /\ t[n] \in Byte
          /\ Len(Code(t[n])) >= 1 /\ et[n] = et[n - 1] \o Code(t[n])
      BY EncodingStep
    <3> QED
      BY <3>2, <3>3 DEF d
  <2>7. /\ Len(et[k + 1]) = Len(et[k]) + Len(d)
        /\ \A j \in 1..Len(d) : et[k + 1][Len(et[k]) + j] = d[j]
    <3> HIDE DEF d
    <3> QED
      BY <2>6, Concatenated
  <2>8. \A j \in 1..Len(et[k + 1]) : w[j] = et[k + 1][j]
    BY <2>5, PartIsPrefix
  <2>9. ASSUME NEW j \in 1..Len(c), j <= Len(d)
        PROVE  c[j] = d[j]
    <3> HIDE DEF c, d, w
    <3> DEFINE m == Len(es[k]) + j
    <3>1. m \in 1..Len(es[k + 1]) /\ m \in 1..Len(et[k + 1]) /\ j \in 1..Len(d)
      BY <2>1, <2>2, <2>3, <2>6, <2>7, <2>9
    <3>2. w[m] = c[j]
      BY <2>3, <2>4, <3>1
    <3>3. w[m] = d[j]
      BY <2>1, <2>7, <2>8, <3>1
    <3> QED
      BY <3>2, <3>3
  <2>10. s[k + 1] = t[k + 1]
    BY <2>2, <2>6, <2>9, CodeIsPrefixFree
  <2>11. es[k + 1] = et[k + 1]
    BY <2>1, <2>2, <2>6, <2>10
  <2> QED
    BY <2>1, <2>5, <2>10, <2>11
<1>3. Len(s) \in T
  <2> HIDE DEF T
  <2>1. Nat \subseteq T
    BY <1>1, <1>2, InductionInSet
  <2> QED
    BY <2>1
<1> QED
  BY <1>3

\* Different byte strings are escaped differently.
LEMMA EncodingIsInjective ==
  ASSUME NEW s \in Seq(Byte), NEW t \in Seq(Byte), urlencodeUnicode(s) = urlencodeUnicode(t)
  PROVE  s = t
<1>1. PICK es : IsEncoding(s, es) /\ urlencodeUnicode(s) = es[Len(s)]
  BY EncodingExists
<1>2. PICK et : IsEncoding(t, et) /\ urlencodeUnicode(t) = et[Len(t)]
  BY EncodingExists
<1>3. Len(s) <= Len(t) /\ Len(t) <= Len(s) /\ \A j \in 1..Len(s) : s[j] = t[j]
  BY <1>1, <1>2, SameEncodingSameBytes
<1> QED
  BY <1>3

\* Two requests with the same query have the same info_hash and peer_id.
LEMMA QueryTells ==
  ASSUME NEW q \in Requests, NEW r \in Requests, Query(q) = Query(r)
  PROVE  q.info_hash = r.info_hash /\ q.peer_id = r.peer_id
<1>1. ASSUME NEW x \in Requests
      PROVE  /\ Query(x)["info_hash"] = urlencodeUnicode(x.info_hash)
             /\ Query(x)["peer_id"] = urlencodeUnicode(x.peer_id)
             /\ x.info_hash \in Seq(Byte) /\ x.peer_id \in Seq(Byte)
  BY BytesAssumption DEF Query, Sent, Requests
<1>2. urlencodeUnicode(q.info_hash) = urlencodeUnicode(r.info_hash)
  BY <1>1
<1>3. urlencodeUnicode(q.peer_id) = urlencodeUnicode(r.peer_id)
  BY <1>1
<1> QED
  BY <1>1, <1>2, <1>3, EncodingIsInjective

\* Two torrents, or two peers, are never announced by the same query,
\* whatever bytes their hashes and ids are made of.
THEOREM HashesAreTold == Spec => []QueryTellsHashes
<1>1. ASSUME TypeOK PROVE QueryTellsHashes
  <2>1. ASSUME NEW h \in Hashes, Query([request EXCEPT !.info_hash = h]) = Query(request)
        PROVE  h = request.info_hash
    <3>1. /\ [request EXCEPT !.info_hash = h] \in Requests
          /\ [request EXCEPT !.info_hash = h].info_hash = h
      BY <1>1 DEF TypeOK, Requests
    <3> QED
      BY <1>1, <2>1, <3>1, QueryTells DEF TypeOK
  <2>2. ASSUME NEW i \in PeerIds, Query([request EXCEPT !.peer_id = i]) = Query(request)
        PROVE  i = request.peer_id
    <3>1. /\ [request EXCEPT !.peer_id = i] \in Requests
          /\ [request EXCEPT !.peer_id = i].peer_id = i
      BY <1>1 DEF TypeOK, Requests
    <3> QED
      BY <1>1, <2>2, <3>1, QueryTells DEF TypeOK
  <2> QED
    BY <2>1, <2>2 DEF QueryTellsHashes
<1> QED
  BY TypeCorrect, <1>1, PTL

=============================================================================
