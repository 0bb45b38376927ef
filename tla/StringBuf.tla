------------------------------ MODULE StringBuf ------------------------------
(***************************************************************************)
(* Lstring of runtime/runtime.c: the value given to it is printed into the *)
(* growing buffer stringBuf, piece by piece, and the C string left there   *)
(* becomes the result.                                                     *)
(*                                                                         *)
(* A call of printValue is the list of what it has still to print: pieces  *)
(* of text, each one call of printStringBuf, values, each a nested call of *)
(* printValue, and the cells of a list.  vsnprintf writes what fits and    *)
(* ends it with a NUL; when that was not all, the buffer is doubled and    *)
(* the same piece printed again at the same place.                         *)
(*                                                                         *)
(* The tail of a list cell is an unboxed word or another cell: for a tail  *)
(* of another kind the code reads words that lie past the object.  Words   *)
(* of punctuation are shortened: "<closure " is <<"<">>.                   *)
(***************************************************************************)
EXTENDS Values

CONSTANTS InitLen,   \* STRINGBUF_INIT
          MaxLen,    \* bound of the model: no buffer grows further
          ConsName,      \* the constructor name "cons"
          Programs,  \* the heaps the program may build, tags not yet packed
          Asked      \* the objects whose text the program asks for

ASSUME StringBufAssumption ==
  /\ InitLen \in Nat \ {0} /\ MaxLen \in Nat
  /\ ConsName \in Seq(Letters) /\ Len(ConsName) < TagLen

(* The characters printValue adds, and a place that was never written. *)
Punctuation == {",", " ", "0", "x", "{", "}", "[", "]", "<", ">", "'", "(", ")"}
Unset == "?"
ASSUME PunctuationAssumption == /\ Punctuation \subseteq Letters
                                /\ Unset \notin Letters \cup {NUL}

\* The words that objects of the heap h may hold, and the objects.
Word(h) == ({"int"} \X Seq(Letters)) \cup ({"ptr"} \X DOMAIN h) \cup ({"out"} \X Nat)
ObjectOf(h) ==
  [kind : {"STRING"}, tag : Nat, contents : Seq(Letters \cup {NUL})] \cup
  [kind : {"CLOSURE", "ARRAY", "SEXP"}, tag : Nat, contents : Seq(Word(h))]

\* A list cell has an element, and its tail is an unboxed word or a cell.
IsCell(p, o) == p.heap[o].kind = "SEXP" /\ p.names[o] = ConsName
Listed(p, cell) == /\ Len(cell) = 2
                   /\ \/ cell[2][1] = "int"
                      \/ cell[2][1] = "ptr" /\ IsCell(p, cell[2][2])

\* A closure begins with its entry point.
Entered(words) == words # <<>> /\ words[1][1] = "out"

\* What the compiler and the builtins make of a program.
WellFormed(p) ==
  /\ DOMAIN p.heap = DOMAIN p.names /\ IsFiniteSet(DOMAIN p.heap)
  /\ \A o \in DOMAIN p.heap :
       /\ p.names[o] \in Seq(Letters)
       /\ p.heap[o] \in ObjectOf(p.heap)
       /\ p.heap[o].kind = "CLOSURE" => Entered(p.heap[o].contents)
       /\ IsCell(p, o) => Listed(p, p.heap[o].contents)

ASSUME ProgramsAssumption ==
  \A p \in Programs : WellFormed(p) /\ Asked \subseteq DOMAIN p.heap

VARIABLES names,     \* the constructor name each s-expression was built with
          heap,
          status,    \* "building", "failed", "idle" or "printing"
          todo,      \* what the calls of printValue have still to print
          contents, ptr, len,   \* stringBuf; cell i of the buffer is contents[i + 1]
          asked,     \* the value of the last call of Lstring
          result     \* what the last call returned

vars == <<names, heap, status, todo, contents, ptr, len, asked, result>>
buffer == <<contents, ptr, len>>

-----------------------------------------------------------------------------
(* What one call of printValue prints, in order. *)

Text(t)  == <<"text", t>>
Value(v) == <<"value", v>>
Cells(o) == <<"cells", o>>

Separator == <<",", " ">>
Address   == <<"0", "x">>            \* "0x%x" of a word that is no heap pointer

Separated(s) ==
    [i \in 1 .. (IF s = <<>> THEN 0 ELSE 2 * Len(s) - 1) |->
        IF i % 2 = 0 THEN Text(Separator) ELSE s[(i + 1) \div 2]]

Values_(ws) == [i \in 1 .. Len(ws) |-> Value(ws[i])]
Between(open, s, close) == <<Text(open)>> \o Separated(s) \o <<Text(close)>>

IsCons(o) == de_hash[heap[o].tag] = ConsName

printSexp(o) ==
    IF IsCons(o) THEN <<Text(<<"{">>), Cells(o), Text(<<"}">>)>>
    ELSE <<Text(de_hash[heap[o].tag])>> \o
         IF heap[o].contents = <<>> THEN <<>>
         ELSE Between(<<" ", "(">>, Values_(heap[o].contents), <<")">>)

printObject(o) ==
    CASE heap[o].kind = "STRING"  -> <<Text(<<"'">> \o CString(heap[o].contents) \o <<"'">>)>>
      [] heap[o].kind = "CLOSURE" ->
            Between(<<"<">>, <<Text(Address)>> \o Values_(Tail(heap[o].contents)), <<">">>)
      [] heap[o].kind = "ARRAY"   -> Between(<<"[">>, Values_(heap[o].contents), <<"]">>)
      [] heap[o].kind = "SEXP"    -> printSexp(o)

printValue(v) == CASE v[1] = "int" -> <<Text(v[2])>>
                   [] v[1] = "out" -> <<Text(Address)>>
                   [] v[1] = "ptr" -> printObject(v[2])

(* One turn of the loop over the cells of a list. *)
printCells(o) ==
    LET cell == heap[o].contents
    IN  IF cell = <<>> THEN <<>>
        ELSE <<Value(cell[1])>> \o
             IF UNBOXED(cell[2]) THEN <<>> ELSE <<Text(Separator), Cells(cell[2][2])>>

-----------------------------------------------------------------------------
(* The buffer. *)

Buffer(n) == [i \in 1 .. n |-> NUL]

(* What vsnprintf leaves: as much of the text as fits and a NUL. *)
vsnprintf(buf, at, rest, text) ==
    LET put == IF Len(text) < rest THEN Len(text) ELSE rest - 1
    IN  [i \in DOMAIN buf |->
            CASE i \in at + 1 .. at + put -> text[i - at]
              [] i = at + put + 1         -> NUL
              [] OTHER                    -> buf[i]]

ShortIfMore(written, rest) == written > rest    \* mutant: the NUL is not counted
Short(written, rest) == written >= rest

(* realloc keeps what was there and leaves the rest unset. *)
Grown(buf, n) == [i \in 1 .. n |-> IF i <= Len(buf) THEN buf[i] ELSE Unset]
OldLen(n) == n             \* mutant: the new length is not stored
NewLen(n) == 2 * n

(* Mutant: the buffer grows but the piece is not printed again. *)
printOnce(text) ==
    LET short == Short(Len(text), len - ptr)
        put   == IF short THEN len - ptr - 1 ELSE Len(text)
        n     == IF short THEN NewLen(len) ELSE len
    IN  /\ n <= MaxLen
        /\ contents' = Grown(vsnprintf(contents, ptr, len - ptr, text), n)
        /\ len' = n
        /\ ptr' = ptr + put
        /\ todo' = Tail(todo)

printStringBuf(text) ==
    LET rest    == len - ptr
        written == vsnprintf(contents, ptr, rest, text)
    IN  IF Short(Len(text), rest)
        THEN /\ NewLen(len) <= MaxLen
             /\ contents' = Grown(written, NewLen(len))
             /\ len' = NewLen(len)
             /\ UNCHANGED <<ptr, todo>>
        ELSE /\ contents' = written
             /\ ptr' = ptr + Len(text)
             /\ todo' = Tail(todo)
             /\ UNCHANGED len

-----------------------------------------------------------------------------
Init == /\ \E p \in Programs : names = p.names /\ heap = p.heap
        /\ status = "building"
        /\ todo = <<>>
        /\ contents = <<>> /\ ptr = 0 /\ len = 0
        /\ asked = <<>> /\ result = <<>>

(* The instructions SEXP of the program: Bsexp puts the packed name into   *)
(* the tag word, and a name that does not pack ends the program.           *)
Sexps == {o \in DOMAIN heap : heap[o].kind = "SEXP"}
Build ==
    /\ status = "building"
    /\ IF \A o \in Sexps : Hashable(names[o])
       THEN /\ heap' = [o \in DOMAIN heap |->
                            IF o \in Sexps THEN [heap[o] EXCEPT !.tag = LtagHash(names[o])]
                            ELSE heap[o]]
            /\ status' = "idle"
       ELSE status' = "failed" /\ UNCHANGED heap
    /\ UNCHANGED <<names, todo, contents, ptr, len, asked, result>>

Lstring(v) ==
    /\ status = "idle"
    /\ status' = "printing"
    /\ asked' = v
    /\ todo' = <<Value(v)>>
    /\ contents' = Buffer(InitLen) /\ ptr' = 0 /\ len' = InitLen
    /\ UNCHANGED <<names, heap, result>>

PrintText ==
    /\ status = "printing"
    /\ todo # <<>> /\ Head(todo)[1] = "text"
    /\ printStringBuf(Head(todo)[2])
    /\ UNCHANGED <<names, heap, status, asked, result>>

PrintValue ==
    /\ status = "printing"
    /\ todo # <<>> /\ Head(todo)[1] = "value"
    /\ todo' = printValue(Head(todo)[2]) \o Tail(todo)
    /\ UNCHANGED <<names, heap, status, asked, result, contents, ptr, len>>

PrintCells ==
    /\ status = "printing"
    /\ todo # <<>> /\ Head(todo)[1] = "cells"
    /\ todo' = printCells(Head(todo)[2]) \o Tail(todo)
    /\ UNCHANGED <<names, heap, status, asked, result, contents, ptr, len>>

(* Bstring copies the C string in the buffer, which is then freed. *)
Return ==
    /\ status = "printing"
    /\ todo = <<>>
    /\ result' = CString(contents)
    /\ status' = "idle"
    /\ contents' = <<>> /\ ptr' = 0 /\ len' = 0
    /\ UNCHANGED <<names, heap, asked, todo>>

Printing == PrintText \/ PrintValue \/ PrintCells \/ Return
Next == Build \/ (\E o \in Asked : Lstring(<<"ptr", o>>)) \/ Printing

(* One thread runs: a call of Lstring goes on until it returns. *)
Spec == Init /\ [][Next]_vars /\ WF_vars(Printing)

-----------------------------------------------------------------------------
(* Properties. *)

(* An object from which every chain of pointers is shorter than the heap   *)
(* has objects: it is on no cycle and leads to none.                       *)
Pointed(o) == IF heap[o].kind = "STRING" THEN {}
              ELSE {w[2] : w \in {x \in ToSet(heap[o].contents) : x[1] = "ptr"}}
Size == Cardinality(DOMAIN heap)
ending[d \in Nat] == IF d = 0 THEN {}
                     ELSE {o \in DOMAIN heap : Pointed(o) \subseteq ending[d - 1]}
Acyclic(o) == o \in ending[Size]

Join(s) == FlattenSeq([i \in 1 .. Len(s) |-> IF i = 1 THEN s[1] ELSE Separator \o s[i]])

(* The elements of the lists whose cells are not more than d. *)
Lists == {o \in Sexps : names[o] = ConsName}
elements[d \in Nat] ==
    [o \in DOMAIN heap |->
        IF d = 0 \/ o \notin Lists THEN <<>>
        ELSE LET cell == heap[o].contents
             IN  <<cell[1]>> \o IF UNBOXED(cell[2]) THEN <<>> ELSE elements[d - 1][cell[2][2]]]

(* The text of a value, written from the structure of the value: an array  *)
(* and a list are their elements, an s-expression the first characters of  *)
(* its name and its fields.  below has the texts of the objects it points  *)
(* to; texts[d] has those of the objects whose chains of pointers are not  *)
(* longer than d.                                                          *)
WordText(below, w) == CASE w[1] = "int" -> w[2]
                        [] w[1] = "out" -> Address
                        [] w[1] = "ptr" -> below[w[2]]
Listing(below, ws) == Join([i \in 1 .. Len(ws) |-> WordText(below, ws[i])])

ObjectText(below, o) ==
    LET fields == heap[o].contents
    IN  CASE heap[o].kind = "STRING"  -> <<"'">> \o CString(fields) \o <<"'">>
          [] heap[o].kind = "CLOSURE" -> <<"<">> \o Listing(below, fields) \o <<">">>
          [] heap[o].kind = "ARRAY"   -> <<"[">> \o Listing(below, fields) \o <<"]">>
          [] o \in Lists -> <<"{">> \o Listing(below, elements[Size][o]) \o <<"}">>
          [] OTHER -> FirstChars(names[o]) \o
                IF fields = <<>> THEN <<>>
                ELSE <<" ", "(">> \o Listing(below, fields) \o <<")">>

texts[d \in Nat] ==
    LET below == IF d = 0 THEN [o \in DOMAIN heap |-> <<>>] ELSE texts[d - 1]
    IN  [o \in DOMAIN heap |-> ObjectText(below, o)]

TextOf(v) == texts[Size][v[2]]

(* Lstring returns exactly the text of its value, however often the buffer *)
(* had to grow on the way and wherever a piece was cut when it did.        *)
TextExact == (status = "idle" /\ asked # <<>>) => result = TextOf(asked)

(* Between two pieces the buffer has a cell left at ptr, so that vsnprintf *)
(* is never given an empty rest, and there is always a NUL in it: what     *)
(* realloc left unset is never read as text.                               *)
RoomForEnd ==
    status = "printing" =>
        /\ ptr < len /\ len = Len(contents)
        /\ \E i \in 1 .. len : contents[i] = NUL /\ \A j \in 1 .. i : contents[j] # Unset

(* Printing a value with no cycle below it ends: growing the buffer makes  *)
(* room for the piece that did not fit.                                    *)
Ends == \A o \in Asked :
            (status = "printing" /\ asked = <<"ptr", o>> /\ Acyclic(o)) ~> status = "idle"

(* The names a program may test for: those of the s-expressions, and what  *)
(* they become with a character more or less.                              *)
Tested == LET built == {names[o] : o \in Sexps}
          IN  built \cup {Front(n) : n \in built \ {<<>>}}
                    \cup {Append(n, Chars[i]) : n \in built, i \in 1 .. NChars}

(* TAG says that a value was built with a name exactly when its name and   *)
(* the tested one agree on their first MAX_SEXP_TAGLEN characters; and a   *)
(* program ends for a name exactly when those hold a character outside     *)
(* chars or begin with the one whose code is zero.                         *)
Packable(name) == /\ ToSet(FirstChars(name)) \subseteq ToSet(Chars)
                  /\ name # <<>> => name[1] # Chars[1]
MatchExact ==
    /\ status = "failed" => \E o \in Sexps : ~ Packable(names[o])
    /\ status = "idle" =>
        \A o \in Sexps :
            /\ Packable(names[o])
            /\ \A n \in {x \in Tested : Packable(x)}, k \in 0 .. 2 :
                  Btag(heap, <<"ptr", o>>, LtagHash(n), k)
                    <=> /\ FirstChars(n) = FirstChars(names[o])
                        /\ k = Len(heap[o].contents)

(* The patterns #val, #str, #array, #sexp and #fun share no value, the     *)
(* tests with a length or a tag pass only values of their kind, and a      *)
(* string passes the test for another exactly when the two print the same. *)
Words == {<<"ptr", o>> : o \in DOMAIN heap} \cup
         UNION {{w \in ToSet(heap[o].contents) : w[1] # "out"} :
                    o \in {x \in DOMAIN heap : heap[x].kind # "STRING"}}
PatternsApart ==
    status = "idle" => \A v \in Words :
        LET kinds == <<Bunboxed_patt(heap, v), Bstring_tag_patt(heap, v), Barray_tag_patt(heap, v),
                       Bsexp_tag_patt(heap, v), Bclosure_tag_patt(heap, v)>>
        IN  /\ Cardinality({i \in 1 .. 5 : kinds[i]}) = 1
            /\ Bboxed_patt(heap, v) <=> ~ kinds[1]
            /\ \A n \in 0 .. 2 : Barray_patt(heap, v, n) => kinds[3]
            /\ \A o \in Sexps : Btag(heap, v, heap[o].tag, Len(heap[o].contents)) => kinds[4]
            /\ \A y \in {w \in Words : Bstring_tag_patt(heap, w)} :
                  Bstring_patt(heap, v, y) <=> kinds[2] /\ TextOf(v) = TextOf(y)

=============================================================================
