------------------------------- MODULE Values -------------------------------
(***************************************************************************)
(* Values of a Lama program, the packing of constructor names into tags    *)
(* (LtagHash and de_hash of runtime/runtime.c) and the pattern tests of    *)
(* the instructions TAG, ARRAY and PATT.                                   *)
(*                                                                         *)
(* A value is <<"int", text>> for an unboxed number, which the properties  *)
(* tell apart only by the text "%ld" gives it, <<"ptr", o>> for the        *)
(* object o of the heap, or <<"out", a>> for a word that is neither, such  *)
(* as the entry point in a closure.  An object has a kind, the tag word of *)
(* an s-expression (0 for the others) and its contents: the characters of  *)
(* a string with its final NUL, the words of the others.                   *)
(***************************************************************************)
EXTENDS Integers, Sequences, SequencesExt

CONSTANTS Letters,   \* the characters of a text
          Chars,     \* those of names, in the order of their codes
          TagLen,    \* MAX_SEXP_TAGLEN
          NUL        \* the character that ends a string

ASSUME ValuesAssumption ==
  /\ Chars \in Seq(Letters) /\ Len(Chars) > 1
  /\ \A i, j \in 1 .. Len(Chars) : Chars[i] = Chars[j] => i = j
  /\ TagLen \in Nat \ {0}
  /\ NUL \notin Letters

NChars == Len(Chars)                    \* 64: six bits of a tag for each
Code(c) == SelectInSeq(Chars, LAMBDA x : x = c) - 1

-----------------------------------------------------------------------------
(* Tags. *)

FirstChars(name) == SubSeq(name, 1, IF Len(name) < TagLen THEN Len(name) ELSE TagLen)

(* What the loop of LtagHash reads: the first MAX_SEXP_TAGLEN characters. *)
HashedOneMore(name) ==     \* mutant: the counter is compared after one more character
    SubSeq(name, 1, IF Len(name) < TagLen + 1 THEN Len(name) ELSE TagLen + 1)
Hashed(name) == FirstChars(name)

(* h[i] is the tag after i characters. *)
Pack(name) ==
    LET s == Hashed(name)
        h[i \in 0 .. Len(s)] == IF i = 0 THEN 0 ELSE h[i - 1] * NChars + Code(s[i])
    IN  h[Len(s)]

(* The digits of n, most significant first: zeros in front do not appear. *)
de_hash[n \in Nat] ==
    IF n = 0 THEN <<>>
    ELSE Append(de_hash[n \div NChars], Chars[(n % NChars) + 1])

Known(name) == \A i \in 1 .. Len(Hashed(name)) : Contains(Chars, Hashed(name)[i])

(* LtagHash returns a tag unless it calls failure: for a character that is *)
(* not in chars, or when the tag does not unpack to what was packed.       *)
Hashable(name) == /\ Known(name)
                  /\ FirstChars(name) = FirstChars(de_hash[Pack(name)])
LtagHash(name) == Pack(name)

-----------------------------------------------------------------------------
(* Pattern tests, on the value v in the heap h. *)

UNBOXED(v) == v[1] = "int"
Of(h, v) == h[v[2]]

CString(chars) == SubSeq(chars, 1, SelectInSeq(chars, LAMBDA x : x = NUL) - 1)

Bunboxed_patt(h, v)     == UNBOXED(v)
Bboxed_patt(h, v)       == ~ UNBOXED(v)
Barray_tag_patt(h, v)   == ~ UNBOXED(v) /\ Of(h, v).kind = "ARRAY"
Bstring_tag_patt(h, v)  == ~ UNBOXED(v) /\ Of(h, v).kind = "STRING"
Bsexp_tag_patt(h, v)    == ~ UNBOXED(v) /\ Of(h, v).kind = "SEXP"
Bclosure_tag_patt(h, v) == ~ UNBOXED(v) /\ Of(h, v).kind = "CLOSURE"

Barray_patt(h, v, n) == /\ ~ UNBOXED(v)
                        /\ Of(h, v).kind = "ARRAY"
                        /\ Len(Of(h, v).contents) = n

PrefixPatt(h, v, y) ==     \* mutant: only as many characters as y has are compared
    /\ ~ UNBOXED(v)
    /\ Of(h, v).kind = "STRING"
    /\ IsPrefix(CString(Of(h, y).contents), CString(Of(h, v).contents))

(* strcmp, so up to the first NUL; y is a string. *)
Bstring_patt(h, v, y) == /\ ~ UNBOXED(v)
                         /\ Of(h, v).kind = "STRING"
                         /\ CString(Of(h, v).contents) = CString(Of(h, y).contents)

Btag(h, v, t, n) == /\ ~ UNBOXED(v)
                    /\ Of(h, v).kind = "SEXP"
                    /\ Of(h, v).tag = t
                    /\ Len(Of(h, v).contents) = n

=============================================================================
