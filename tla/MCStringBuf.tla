---------------------------- MODULE MCStringBuf ----------------------------
(***************************************************************************)
(* Heaps of two objects.  The first holds up to two words, which may point *)
(* to either object; the second is small and may point back to the first.  *)
(***************************************************************************)
EXTENDS StringBuf

MCLetters == Punctuation \cup {"_", "a", "b", "c", "%", "-", "1"}
MCChars == <<"_", "a", "b", "c">>
MCCons == <<"c">>

Number == <<"int", <<"-", "1">>>>
P(o) == <<"ptr", o>>
Entry == <<"out", 0>>
Object(k, ws) == [kind |-> k, tag |-> 0, contents |-> ws]

Names == {<<"a">>, <<"a", "b">>, <<"a", "b", "a">>, <<"_", "a">>, <<"a", "_">>, <<"%">>,
          <<"a", "b", "%">>}
FieldLists == {<<>>} \cup {<<v>> : v \in {Number, P(1), P(2)}}
                     \cup {<<v, w>> : v, w \in {Number, P(2)}}
Cell(v, w) == [name |-> MCCons, object |-> Object("SEXP", <<v, w>>)]
Made(n, o) == [name |-> n, object |-> o]

First == {Made(<<>>, Object("ARRAY", f)) : f \in FieldLists}
    \cup {Made(n, Object("SEXP", f)) : n \in Names, f \in FieldLists}
    \cup {Made(<<>>, Object("CLOSURE", <<Entry>> \o f)) : f \in FieldLists}
    \cup {Made(<<>>, Object("STRING", s)) : s \in {<<NUL>>, <<"a", "b", NUL>>, <<"a", NUL, "b", NUL>>}}
    \cup {Cell(v, Number) : v \in {Number, P(1), P(2)}}
Second == {Made(<<>>, Object("ARRAY", f)) : f \in {<<>>, <<Number>>, <<P(1)>>}}
     \cup {Made(n, Object("SEXP", <<Number>>)) : n \in {<<"a", "b">>, <<"_">>}}
     \cup {Made(<<>>, Object("STRING", s)) : s \in {<<"a", NUL>>, <<"a", "b", NUL>>}}
     \cup {Cell(Number, w) : w \in {Number, P(1)}}

Pair(x, y) == [names |-> <<x.name, y.name>>, heap |-> <<x.object, y.object>>]
Cell1 == {Cell(v, P(2)) : v \in {Number, P(2)}}
MCPrograms ==
         {Pair(x, y) : x \in First, y \in {z \in Second : z # Cell(Number, P(1))}}
    \cup {Pair(x, y) : x \in Cell1, y \in {Cell(Number, Number), Cell(Number, P(1))}}
=============================================================================
