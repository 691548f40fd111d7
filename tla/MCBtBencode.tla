----------------------------- MODULE MCBtBencode -----------------------------
(***************************************************************************)
(* Strings made of the letters that mean something to the decoder, numbers *)
(* of either sign, and containers two and three levels deep.               *)
(***************************************************************************)
EXTENDS BtBencode, TLC

\* the bytes of a string
B(s) == [n \in 1..Len(s) |-> SubSeq(s, n, n)]

Num(n) == <<"int", n>>
Str(s) == <<"str", B(s)>>
List(s) == <<"list", s>>
Dict(map) == <<"dict", map @@ EmptyMap>>

MCKeyOrder == <<B("a"), B("ee"), B("info")>>

SomeScalars == {Num(-1), Num(12), Str(""), Str("7"), Str("le"), Str("xee")}

ListsOver(S) == {List(<<x>>) : x \in S} \cup {List(<<x, y>>) : x \in S, y \in S}

DictsOver(keys, S) == {Dict(map) : map \in [keys -> S]}

SmallLists == {List(<<Str("le"), Num(-1)>>), List(<<List(<<Str("xee")>>)>>)}
SmallDicts == {Dict(B("a") :> Num(12)), Dict([k \in {B("a"), B("ee")} |-> Str("le")]),
               Dict(B("info") :> Dict(B("ee") :> Str("xee")))}
Nested == SmallLists \cup SmallDicts \cup {Str("xee")}

NonEmptyValues ==
  SomeScalars \cup ListsOver(SomeScalars) \cup ListsOver(Nested)
    \cup DictsOver({B("a")}, SomeScalars) \cup DictsOver({B("a"), B("info")}, Nested)
    \cup DictsOver({B("info")}, SmallDicts)
    \cup DictsOver({B("a"), B("ee"), B("info")},
               {Str("xee"), Num(12), Str("7"), List(<<Str("xee")>>), Dict(B("a") :> Num(12))})

Empties == {List(<<>>), Dict(<<>>)}
Holes == {Num(12), List(<<>>), Dict(<<>>), List(<<Dict(<<>>)>>), List(<<Str("e"), List(<<>>)>>),
          Dict(B("a") :> List(<<>>))}

MCValues ==
  NonEmptyValues \cup Empties \cup ListsOver(Holes) \cup DictsOver({B("a"), B("ee")}, Holes)

=============================================================================
