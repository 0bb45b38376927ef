--------------------------- MODULE StringBufProofs ---------------------------
(***************************************************************************)
(* Proofs about StringBuf.  Between two calls of printStringBuf there is a *)
(* NUL behind ptr and no unset cell before it (BufferInv): a piece that    *)
(* does not fit leaves its NUL in the last cell of the old buffer, and is  *)
(* printed again.  Constructor names: de_hash unpacks what LtagHash packed *)
(* exactly when the name is packable, as the digit of the first character  *)
(* of chars is lost in front.                                              *)
(* What Lstring prints is the text of its value: what is in the buffer and *)
(* the text of what is left to print are, one after the other, the text of *)
(* the value asked for (TextInv).  Each step moves a piece of text to the  *)
(* buffer or puts the pieces of an item in the place of the item, and they *)
(* have the text of the item because texts is a fixed point where the      *)
(* chains of pointers end.                                                 *)
(***************************************************************************)
EXTENDS StringBuf, DataLemmas

-----------------------------------------------------------------------------
(***************************************************************************)
(* Tags: a name is unpacked to what was packed.                            *)
(***************************************************************************)

\* The characters of names, as a set.
Alphabet == {Chars[i] : i \in 1..NChars}

\* The constants of the tags.
LEMMA NCharsType == NChars \in Nat /\ NChars > 1 /\ Chars \in Seq(Letters)
                    /\ TagLen \in Nat \ {0} /\ Alphabet \subseteq Letters
BY ValuesAssumption DEF NChars, Alphabet

\* Code is the place of a character of the alphabet, from 0.
LEMMA CodeOf ==
  ASSUME NEW i \in 1..NChars
  PROVE  Code(Chars[i]) = i - 1
<1>1. \A j \in 1..Len(Chars) : Chars[j] = Chars[i] => j = i
  BY ValuesAssumption DEF NChars
<1>2. {j \in 1..Len(Chars) : Chars[j] = Chars[i]} = {i}
  BY <1>1 DEF NChars
<1>3. Min({i}) = i
  BY DEF Min
<1>4. QED
  BY <1>2, <1>3 DEF Code, SelectInSeq

\* The digits of a number, the last apart.
LEMMA DehashDef ==
  /\ de_hash \in [Nat -> Seq(Alphabet)]
  /\ de_hash[0] = <<>>
  /\ \A n \in Nat \ {0} :
       de_hash[n] = Append(de_hash[n \div NChars], Chars[(n % NChars) + 1])
<1>1. NChars \in Nat /\ NChars > 1
  BY NCharsType
<1> DEFINE step == [n \in Nat |-> [s \in Seq(Alphabet) |-> Append(s, Chars[(n % NChars) + 1])]]
           smaller == [n \in Nat |-> IF n = 0 THEN 0 ELSE n \div NChars]
<1>2. step \in [Nat -> [Seq(Alphabet) -> Seq(Alphabet)]]
  <2>1. ASSUME NEW n \in Nat, NEW s \in Seq(Alphabet)
        PROVE  Append(s, Chars[(n % NChars) + 1]) \in Seq(Alphabet)
    <3>1. (n % NChars) + 1 \in 1..NChars
      BY <1>1, DivMod
    <3>2. Chars[(n % NChars) + 1] \in Alphabet
      BY <3>1 DEF Alphabet
    <3>3. QED
      BY <3>2, AppendProperties
  <2>2. QED
    BY <2>1
<1>3. smaller \in [Nat -> Nat] /\ \A n \in Nat : n # 0 => smaller[n] < n
  <2>1. \A n \in Nat : n \div NChars \in Nat /\ (n # 0 => n \div NChars < n)
    BY <1>1, DivMod
  <2>2. QED
    BY <2>1
<1> DEFINE V == Seq(Alphabet)
           base == <<>>
<1>4. base \in V
  OBVIOUS
<1>5. PICK f \in [Nat -> Seq(Alphabet)] :
        f[0] = <<>> /\ \A n \in Nat : n # 0 => f[n] = step[n][f[smaller[n]]]
  <2>1. step \in [Nat -> [V -> V]]
    BY <1>2
  <2> HIDE DEF step, smaller, V, base
  <2>2. Descends(smaller)
    BY <1>3 DEF Descends
  <2>3. PICK f : IsRecursive(f, V, base, step, smaller)
    BY <2>1, <2>2, <1>4, RecursiveFunction
  <2>4. QED
    BY <2>3 DEF V, base, IsRecursive
<1> HIDE DEF step, smaller
<1>6. \A n \in Nat \ {0} : f[n] = Append(f[n \div NChars], Chars[(n % NChars) + 1])
  <2>1. ASSUME NEW n \in Nat \ {0}
        PROVE  f[n] = Append(f[n \div NChars], Chars[(n % NChars) + 1])
    <3>1. smaller[n] = n \div NChars /\ f[smaller[n]] \in Seq(Alphabet)
      BY <1>3 DEF smaller
    <3>2. step[n][f[smaller[n]]] = Append(f[smaller[n]], Chars[(n % NChars) + 1])
      BY <3>1 DEF step
    <3>3. QED
      BY <1>5, <3>1, <3>2
  <2>2. QED
    BY <2>1
<1>7. f = [n \in Nat |-> IF n = 0 THEN <<>>
                         ELSE Append(f[n \div NChars], Chars[(n % NChars) + 1])]
  BY <1>5, <1>6
<1>8. de_hash = [n \in Nat |-> IF n = 0 THEN <<>>
                         ELSE Append(de_hash[n \div NChars], Chars[(n % NChars) + 1])]
  BY <1>7 DEF de_hash
<1> DEFINE T == {n \in Nat : de_hash[n] # f[n]}
<1>9. T = {}
  <2>1. SUFFICES ASSUME T # {} PROVE FALSE
    OBVIOUS
  <2>2. PICK n \in T : \A m \in T : n <= m
    BY <2>1, LeastNumber
  <2>3. n \in Nat /\ de_hash[n] # f[n]
    BY <2>2
  <2>4. n # 0
    BY <1>5, <1>8, <2>3
  <2>5. n \div NChars \in Nat /\ n \div NChars < n
    BY <1>1, <2>3, <2>4, DivMod
  <2>6. de_hash[n \div NChars] = f[n \div NChars]
    BY <2>2, <2>3, <2>5
  <2>7. QED
    BY <1>6, <1>8, <2>3, <2>4, <2>6
<1>10. de_hash = f
  BY <1>8, <1>9
<1>11. QED
  BY <1>5, <1>6, <1>10

\* The number of digits is the least that is enough: none for 0.
LEMMA DehashDigit ==
  ASSUME NEW h \in Nat, NEW i \in 1..NChars, h # 0 \/ i # 1
  PROVE  /\ h * NChars + (i - 1) \in Nat \ {0}
         /\ de_hash[h * NChars + (i - 1)] = Append(de_hash[h], Chars[i])
<1>1. NChars \in Nat /\ NChars > 1
  BY NCharsType
<1>2. PICK c \in 0..(NChars - 1) : c = i - 1
  BY <1>1
<1>3. PICK n \in Nat : n = h * NChars + c
  BY <1>1
<1>4. n \div NChars = h /\ n % NChars = c /\ (h # 0 => n # 0)
  BY <1>1, <1>2, <1>3, Digits
<1>5. n # 0
  BY <1>2, <1>3, <1>4, <1>1
<1>6. de_hash[n] = Append(de_hash[h], Chars[c + 1])
  BY <1>4, <1>5, DehashDef
<1>7. QED
  BY <1>2, <1>3, <1>5, <1>6

\* No digits begin with the character whose code is zero.
LEMMA NoLeadingZero ==
  ASSUME NEW n \in Nat \ {0}
  PROVE  Len(de_hash[n]) > 0 /\ de_hash[n][1] # Chars[1]
<1>1. NChars \in Nat /\ NChars > 1
  BY NCharsType
<1> DEFINE T == {m \in Nat \ {0} : ~(Len(de_hash[m]) > 0 /\ de_hash[m][1] # Chars[1])}
<1>2. SUFFICES ASSUME T # {} PROVE FALSE
  OBVIOUS
<1>3. PICK m \in T : \A k \in T : m <= k
  BY <1>2, LeastNumber
<1> DEFINE q == m \div NChars
           r == m % NChars
<1>4. q \in Nat /\ r \in 0..(NChars - 1) /\ m = NChars * q + r /\ q < m /\ m \in Nat
  BY <1>1, <1>3, DivMod
<1>5. de_hash[m] = Append(de_hash[q], Chars[r + 1]) /\ de_hash[q] \in Seq(Alphabet)
  BY <1>3, <1>4, DehashDef
<1> HIDE DEF q, r
<1>6. Chars[r + 1] \in Alphabet /\ r + 1 \in 1..NChars
  BY <1>4, <1>1 DEF Alphabet
<1>7. CASE q = 0
  <2>1. de_hash[m] = Append(<<>>, Chars[r + 1])
    BY <1>5, <1>7, DehashDef
  <2>2. Len(de_hash[m]) = 1 /\ de_hash[m][1] = Chars[r + 1]
    BY <2>1
  <2>3. r # 0
    BY <1>1, <1>3, <1>4, <1>7
  <2>4. Chars[r + 1] # Chars[1]
    <3>1. r + 1 \in 1..NChars /\ 1 \in 1..NChars /\ r + 1 # 1
      BY <1>1, <1>4, <1>6, <2>3
    <3>2. QED
      BY <3>1, ValuesAssumption DEF NChars
  <2>5. QED
    BY <1>3, <2>2, <2>4
<1>8. CASE q # 0
  <2>1. Len(de_hash[q]) > 0 /\ de_hash[q][1] # Chars[1]
    BY <1>3, <1>4, <1>8
  <2>2. Len(de_hash[m]) > 0 /\ de_hash[m][1] = de_hash[q][1]
    BY <1>5, <1>6, <2>1, AppendProperties
  <2>3. QED
    BY <1>3, <2>1, <2>2
<1>9. QED
  BY <1>7, <1>8

\* The first characters of a name are a sequence of its characters.
LEMMA FirstCharsType ==
  ASSUME NEW S, NEW name \in Seq(S)
  PROVE  /\ FirstChars(name) \in Seq(S)
         /\ Len(FirstChars(name)) = IF Len(name) < TagLen THEN Len(name) ELSE TagLen
         /\ Len(FirstChars(name)) \in Nat /\ Len(FirstChars(name)) <= TagLen
         /\ \A i \in 1..Len(FirstChars(name)) : FirstChars(name)[i] = name[i]
         /\ Len(name) <= TagLen => FirstChars(name) = name
<1>1. TagLen \in Nat \ {0} /\ Len(name) \in Nat
  BY NCharsType
<1>2. PICK n \in 0..Len(name) : n = IF Len(name) < TagLen THEN Len(name) ELSE TagLen
  BY <1>1
<1>3. /\ SubSeq(name, 1, n) \in Seq(S) /\ Len(SubSeq(name, 1, n)) = n
      /\ \A i \in 1..n : SubSeq(name, 1, n)[i] = name[i]
  BY <1>2, PopProperties
<1>4. FirstChars(name) = SubSeq(name, 1, n)
  BY <1>2 DEF FirstChars
<1>5. n <= TagLen
  BY <1>1, <1>2
<1>6. ASSUME Len(name) <= TagLen PROVE FirstChars(name) = name
  <2>1. n = Len(name)
    BY <1>1, <1>2, <1>6
  <2>2. QED
    BY <1>3, <1>4, <2>1, SeqEqual
<1>7. QED
  BY <1>2, <1>3, <1>4, <1>5, <1>6

\* The tag of a known name, one character after the other.
LEMMA PackDef ==
  ASSUME NEW name \in Seq(Letters), Known(name)
  PROVE  \E h \in [0..Len(Hashed(name)) -> Nat] :
           /\ h[0] = 0 /\ Pack(name) = h[Len(Hashed(name))]
           /\ \A i \in 1..Len(Hashed(name)) : h[i] = h[i - 1] * NChars + Code(Hashed(name)[i])
<1> DEFINE s == Hashed(name)
<1>1. s \in Seq(Letters) /\ Len(s) \in Nat /\ NChars \in Nat
  BY FirstCharsType, NCharsType DEF Hashed
<1>2. \A i \in 1..Len(s) : Code(s[i]) \in Nat
  <2>1. ASSUME NEW i \in 1..Len(s) PROVE Code(s[i]) \in Nat
    <3>1. PICK j \in 1..NChars : s[i] = Chars[j]
      BY DEF Known, Contains, NChars
    <3>2. QED
      BY <1>1, <3>1, CodeOf
  <2>2. QED
    BY <2>1
<1> HIDE DEF s
<1> DEFINE c == [i \in Nat |-> IF i \in 1..Len(s) THEN Code(s[i]) ELSE 0]
           step == [n \in Nat |-> [v \in Nat |-> v * NChars + c[n]]]
           smaller == [n \in Nat |-> IF n = 0 THEN 0 ELSE n - 1]
<1>3. c \in [Nat -> Nat]
  BY <1>2
<1>4. step \in [Nat -> [Nat -> Nat]]
  <2> HIDE DEF c
  <2>1. ASSUME NEW n \in Nat, NEW v \in Nat PROVE v * NChars + c[n] \in Nat
    <3>1. v * NChars \in Nat /\ c[n] \in Nat
      BY <1>1, <1>3
    <3>2. QED
      BY <3>1
  <2>2. QED
    BY <2>1
<1>5. Descends(smaller)
  BY DEF Descends
<1> HIDE DEF step, smaller
<1>6. PICK f : IsRecursive(f, Nat, 0, step, smaller)
  BY <1>4, <1>5, RecursiveFunction
<1>7. f \in [Nat -> Nat] /\ f[0] = 0
  BY <1>6 DEF IsRecursive
<1>8. ASSUME NEW i \in 1..Len(s) PROVE f[i] = f[i - 1] * NChars + Code(s[i])
  <2>1. i \in Nat /\ i # 0 /\ i - 1 \in Nat /\ smaller[i] = i - 1 /\ c[i] = Code(s[i])
    BY <1>1 DEF smaller
  <2>2. f[i] = step[i][f[i - 1]]
    BY <1>6, <2>1 DEF IsRecursive
  <2>3. step[i][f[i - 1]] = f[i - 1] * NChars + c[i]
    BY <1>7, <2>1 DEF step
  <2>4. QED
    BY <2>1, <2>2, <2>3
<1> DEFINE IsTag(h) == h = [i \in 0..Len(s) |-> IF i = 0 THEN 0
                                               ELSE h[i - 1] * NChars + Code(s[i])]
           g == [i \in 0..Len(s) |-> f[i]]
           tag == CHOOSE h : IsTag(h)
<1>9. IsTag(g)
  <2>1. ASSUME NEW i \in 0..Len(s)
        PROVE  g[i] = IF i = 0 THEN 0 ELSE g[i - 1] * NChars + Code(s[i])
    <3>1. CASE i = 0
      BY <1>7, <3>1
    <3>2. CASE i # 0
      <4>1. i \in 1..Len(s) /\ i - 1 \in 0..Len(s)
        BY <1>1, <3>2
      <4>2. QED
        BY <1>8, <3>2, <4>1
    <3>3. QED
      BY <3>1, <3>2
  <2> HIDE DEF g
  <2>2. DOMAIN g = 0..Len(s) /\ g = [i \in 0..Len(s) |-> g[i]]
    BY DEF g
  <2>3. QED
    BY <2>1, <2>2
<1>10. IsTag(tag)
  <2> HIDE DEF IsTag
  <2>1. QED BY <1>9
<1> DEFINE T == {i \in 0..Len(s) : tag[i] # f[i]}
<1>11. T = {}
  <2>1. SUFFICES ASSUME T # {} PROVE FALSE
    OBVIOUS
  <2>2. PICK i \in T : \A j \in T : i <= j
    <3>1. T \in SUBSET Nat
      BY <1>1
    <3> HIDE DEF T
    <3>2. QED BY <2>1, <3>1, LeastNumber
  <2>3. i # 0 /\ i \in 0..Len(s)
    BY <1>7, <1>10, <2>2
  <2>4. i \in 1..Len(s) /\ i - 1 \in 0..Len(s) /\ i - 1 \notin T
    BY <1>1, <2>2, <2>3
  <2>5. tag[i] = tag[i - 1] * NChars + Code(s[i])
    <3> HIDE DEF tag
    <3>1. QED BY <1>10, <2>3
  <2>6. tag[i - 1] = f[i - 1]
    BY <2>4
  <2>7. QED
    BY <1>8, <2>2, <2>4, <2>5, <2>6
<1>12. Pack(name) = tag[Len(s)]
  BY DEF Pack, s
<1>13. tag[Len(s)] = f[Len(s)]
  BY <1>1, <1>11
<1>14. QED
  <2>1. g \in [0..Len(s) -> Nat] /\ g[0] = 0 /\ g[Len(s)] = f[Len(s)]
    BY <1>1, <1>7
  <2>2. \A i \in 1..Len(s) : g[i] = g[i - 1] * NChars + Code(s[i])
    BY <1>1, <1>8
  <2> HIDE DEF g, tag
  <2>3. QED
    BY <2>1, <2>2, <1>12, <1>13 DEF s

\* The characters of a packable name are known, and a tag is unpacked to what
\* was packed: the first is not the one whose digit is lost.
LEMMA DehashPack ==
  ASSUME NEW name \in Seq(Letters), Packable(name)
  PROVE  Known(name) /\ Pack(name) \in Nat /\ de_hash[Pack(name)] = FirstChars(name)
<1> DEFINE s == Hashed(name)
<1>1. /\ s = FirstChars(name) /\ s \in Seq(Letters) /\ Len(s) \in Nat
      /\ NChars \in Nat /\ NChars > 1
  BY FirstCharsType, NCharsType DEF Hashed
<1>2. \A i \in 1..Len(s) : \E j \in 1..NChars : s[i] = Chars[j]
  <2>1. ToSet(s) = {s[i] : i \in 1..Len(s)} /\ ToSet(Chars) = {Chars[i] : i \in 1..NChars}
    BY <1>1, NCharsType DEF ToSet, NChars
  <2>2. ToSet(s) \subseteq ToSet(Chars)
    BY <1>1 DEF Packable
  <2> HIDE DEF s
  <2>3. QED
    BY <2>1, <2>2
<1>3. Known(name)
  BY <1>2 DEF Known, Contains, NChars
<1>4. Len(s) > 0 => s[1] # Chars[1]
  <2>1. Len(s) > 0 => name # <<>> /\ s[1] = name[1]
    BY <1>1, FirstCharsType
  <2>2. QED
    BY <2>1 DEF Packable
<1>5. PICK h \in [0..Len(s) -> Nat] :
        /\ h[0] = 0 /\ Pack(name) = h[Len(s)]
        /\ \A i \in 1..Len(s) : h[i] = h[i - 1] * NChars + Code(s[i])
  BY <1>3, PackDef
<1> HIDE DEF s
<1> DEFINE Unpacked(i) == /\ de_hash[h[i]] = SubSeq(s, 1, i)
                          /\ i # 0 => h[i] # 0
           T == {i \in 0..Len(s) : ~Unpacked(i)}
<1>6. T = {}
  <2>1. SUFFICES ASSUME T # {} PROVE FALSE
    OBVIOUS
  <2>2. PICK i \in T : \A j \in T : i <= j
    <3>1. T \in SUBSET Nat
      BY <1>1
    <3> HIDE DEF T
    <3>2. QED BY <2>1, <3>1, LeastNumber
  <2>3. i \in 0..Len(s) /\ ~Unpacked(i)
    BY <2>2
  <2>4. i # 0
    <3>1. SubSeq(s, 1, 0) = <<>>
      BY <1>1
    <3>2. Unpacked(0)
      BY <1>5, <3>1, DehashDef
    <3>3. QED
      BY <2>3, <3>2
  <2>5. i \in 1..Len(s) /\ i - 1 \in 0..Len(s)
    BY <1>1, <2>3, <2>4
  <2>6. Unpacked(i - 1)
    BY <1>1, <2>2, <2>5
  <2>7. PICK j \in 1..NChars : s[i] = Chars[j]
    BY <1>2, <2>5
  <2>8. h[i - 1] # 0 \/ j # 1
    <3>1. CASE i = 1
      BY <1>1, <1>4, <2>5, <2>7, <3>1
    <3>2. CASE i # 1
      BY <2>5, <2>6, <3>2
    <3>3. QED
      BY <3>1, <3>2
  <2>9. h[i] = h[i - 1] * NChars + (j - 1)
    BY <1>5, <2>5, <2>7, CodeOf
  <2>10. h[i] # 0 /\ de_hash[h[i]] = Append(de_hash[h[i - 1]], Chars[j])
    BY <1>5, <2>5, <2>8, <2>9, DehashDigit
  <2>11. SubSeq(s, 1, i) = Append(SubSeq(s, 1, i - 1), s[i])
    <3>1. i \in 1..Len(s) /\ s \in Seq(Letters)
      BY <1>1, <2>5
    <3>2. QED
      BY <3>1, SubSeqRecursiveSecond
  <2>12. Unpacked(i)
    BY <2>6, <2>7, <2>10, <2>11
  <2>13. QED
    BY <2>3, <2>12
<1>7. Unpacked(Len(s))
  BY <1>1, <1>6
<1>8. SubSeq(s, 1, Len(s)) = s
  BY <1>1, SubSeqFull
<1>9. h[Len(s)] \in Nat
  BY <1>1, <1>5
<1>10. QED
  BY <1>1, <1>3, <1>5, <1>7, <1>8, <1>9

\* LtagHash ends the program exactly for the names that are not packable.
LEMMA HashableIsPackable ==
  ASSUME NEW name \in Seq(Letters)
  PROVE  Hashable(name) <=> Packable(name)
<1>1. ASSUME Packable(name) PROVE Hashable(name)
  <2>1. Known(name) /\ de_hash[Pack(name)] = FirstChars(name)
    BY <1>1, DehashPack
  <2>2. FirstChars(FirstChars(name)) = FirstChars(name)
    BY FirstCharsType
  <2>3. QED
    BY <2>1, <2>2 DEF Hashable
<1>2. ASSUME Hashable(name) PROVE Packable(name)
  <2> DEFINE s == Hashed(name)
  <2>1. Known(name) /\ FirstChars(name) = FirstChars(de_hash[Pack(name)])
    BY <1>2 DEF Hashable
  <2>2. PICK h \in [0..Len(s) -> Nat] : Pack(name) = h[Len(s)]
    BY <2>1, PackDef
  <2>3. s = FirstChars(name) /\ s \in Seq(Letters) /\ Len(s) \in Nat
    BY FirstCharsType DEF Hashed
  <2>4. Pack(name) \in Nat
    BY <2>2, <2>3
  <2>5. ToSet(FirstChars(name)) \subseteq ToSet(Chars)
    <3>1. \A i \in 1..Len(s) : \E j \in 1..Len(Chars) : s[i] = Chars[j]
      BY <2>1 DEF Known, Contains
    <3>2. /\ ToSet(s) = {s[i] : i \in 1..Len(s)}
          /\ ToSet(Chars) = {Chars[i] : i \in 1..Len(Chars)}
      BY <2>3, NCharsType DEF ToSet
    <3> HIDE DEF s
    <3>3. ToSet(s) \subseteq ToSet(Chars)
      BY <3>1, <3>2
    <3>4. QED
      BY <2>3, <3>3
  <2>6. ASSUME name # <<>> PROVE name[1] # Chars[1]
    <3>1. Len(name) > 0 /\ TagLen > 0
      BY <2>6, NCharsType, EmptySeq
    <3>2. Len(FirstChars(name)) > 0 /\ FirstChars(name)[1] = name[1]
      BY <3>1, FirstCharsType, NCharsType
    <3> DEFINE d == de_hash[Pack(name)]
    <3>3. d \in Seq(Alphabet)
      BY <2>4, DehashDef
    <3>4. Len(FirstChars(d)) > 0 /\ FirstChars(d)[1] = name[1]
      BY <2>1, <3>2
    <3> HIDE DEF d
    <3>5. Len(d) > 0 /\ FirstChars(d)[1] = d[1]
      BY <3>3, <3>4, FirstCharsType, NCharsType
    <3>6. Pack(name) # 0
      <4>1. de_hash[0] = <<>> /\ Len(<<>>) = 0
        BY DehashDef
      <4>2. QED
        BY <3>5, <4>1 DEF d
    <3>7. QED
      BY <2>4, <3>4, <3>5, <3>6, NoLeadingZero DEF d
  <2>7. QED
    BY <2>5, <2>6 DEF Packable
<1>3. QED
  BY <1>1, <1>2

\* Two packable names have one tag exactly when they begin the same.
LEMMA SameTag ==
  ASSUME NEW n \in Seq(Letters), Packable(n), NEW m \in Seq(Letters), Packable(m)
  PROVE  Pack(n) = Pack(m) <=> FirstChars(n) = FirstChars(m)
<1>1. de_hash[Pack(n)] = FirstChars(n) /\ de_hash[Pack(m)] = FirstChars(m)
  BY DehashPack
<1>2. FirstChars(n) = FirstChars(m) => Pack(n) = Pack(m)
  BY DEF Pack, Hashed
<1>3. QED
  BY <1>1, <1>2

-----------------------------------------------------------------------------
(***************************************************************************)
(* The invariant, and what the objects and the pieces are.                 *)
(***************************************************************************)

\* The program that was built, and the items that are left to print.
Program == [names |-> names, heap |-> heap]
Item == ({"text"} \X Seq(Letters)) \cup ({"value"} \X Word(heap)) \cup ({"cells"} \X Lists)

\* What a cell of the buffer holds.
Cell == Letters \cup {NUL, Unset}

\* The inductive invariant: the heap is well formed and its tags are packed
\* names; a failed program has a name that does not pack; what is left to print
\* is typed; and there is a NUL behind ptr, with no unset cell before it.
HeapInv == WellFormed(Program) /\ Asked \subseteq DOMAIN heap
TagsInv == status \in {"idle", "printing"} =>
             \A o \in Sexps : Hashable(names[o]) /\ heap[o].tag = LtagHash(names[o])
FailedInv == status = "failed" => \E o \in Sexps : ~ Hashable(names[o])
TodoInv == status = "printing" => todo \in Seq(Item)
BufferInv == status = "printing" =>
  /\ contents \in Seq(Cell) /\ len = Len(contents) /\ ptr \in Nat
  /\ \E i \in (ptr + 1)..len : contents[i] = NUL /\ \A j \in 1..i : contents[j] # Unset

IInv == /\ status \in {"building", "failed", "idle", "printing"}
        /\ HeapInv /\ TagsInv /\ FailedInv /\ TodoInv /\ BufferInv

\* What WellFormed says of the objects, piece by piece.
LEMMA HeapFacts ==
  ASSUME HeapInv
  PROVE  /\ DOMAIN heap = DOMAIN names /\ IsFiniteSet(DOMAIN heap)
         /\ \A o \in DOMAIN heap :
              /\ names[o] \in Seq(Letters) /\ heap[o].tag \in Nat
              /\ heap[o] \in ObjectOf(heap)
              /\ heap[o].kind \in {"STRING", "CLOSURE", "ARRAY", "SEXP"}
              /\ heap[o].kind = "STRING" => heap[o].contents \in Seq(Letters \cup {NUL})
              /\ heap[o].kind # "STRING" => heap[o].contents \in Seq(Word(heap))
              /\ heap[o].kind = "CLOSURE" => Entered(heap[o].contents)
         /\ \A o \in Lists :
              /\ Len(heap[o].contents) = 2
              /\ LET w == heap[o].contents[2]
                 IN w[1] = "int" \/ (w[1] = "ptr" /\ w[2] \in Lists)
<1>1. /\ DOMAIN heap = DOMAIN names /\ IsFiniteSet(DOMAIN heap)
      /\ \A o \in DOMAIN heap :
           /\ names[o] \in Seq(Letters) /\ heap[o] \in ObjectOf(heap)
           /\ heap[o].kind = "CLOSURE" => Entered(heap[o].contents)
           /\ IsCell(Program, o) => Listed(Program, heap[o].contents)
  BY DEF HeapInv, WellFormed, Program
<1>2. ASSUME NEW o \in DOMAIN heap
      PROVE  /\ heap[o].tag \in Nat
             /\ heap[o].kind \in {"STRING", "CLOSURE", "ARRAY", "SEXP"}
             /\ heap[o].kind = "STRING" => heap[o].contents \in Seq(Letters \cup {NUL})
             /\ heap[o].kind # "STRING" => heap[o].contents \in Seq(Word(heap))
  BY <1>1 DEF ObjectOf
<1>3. ASSUME NEW o \in Lists
      PROVE  /\ Len(heap[o].contents) = 2
             /\ LET w == heap[o].contents[2]
                IN w[1] = "int" \/ (w[1] = "ptr" /\ w[2] \in Lists)
  <2>1. o \in DOMAIN heap /\ IsCell(Program, o)
    BY DEF Lists, Sexps, IsCell, Program
  <2>2. Listed(Program, heap[o].contents)
    BY <1>1, <2>1
  <2> DEFINE w == heap[o].contents[2]
  <2>3. Len(heap[o].contents) = 2 /\ (w[1] = "int" \/ (w[1] = "ptr" /\ IsCell(Program, w[2])))
    BY <2>2 DEF Listed
  <2>4. heap[o].contents \in Seq(Word(heap))
    BY <1>2, <2>1 DEF Lists, Sexps
  <2>5. w \in Word(heap)
    BY <2>3, <2>4
  <2>6. w[1] = "ptr" => w[2] \in DOMAIN heap
    BY <2>5 DEF Word
  <2>7. w[1] = "ptr" /\ IsCell(Program, w[2]) => w[2] \in Lists
    BY <2>6 DEF Lists, Sexps, IsCell, Program
  <2>8. QED
    BY <2>3, <2>7
<1>4. QED
  BY <1>1, <1>2, <1>3

\* A C string is made of the characters before its end.
EndOf(t) == LET I == {i \in 1..Len(t) : t[i] = NUL} IN IF I # {} THEN Min(I) ELSE 0

\* EndOf is the place of the first NUL.
LEMMA CStringDef ==
  ASSUME NEW t
  PROVE  CString(t) = SubSeq(t, 1, EndOf(t) - 1)
BY DEF CString, SelectInSeq, EndOf

\* A C string has no NUL.
LEMMA CStringType ==
  ASSUME NEW t \in Seq(Letters \cup {NUL})
  PROVE  CString(t) \in Seq(Letters)
<1> DEFINE I == {i \in 1..Len(t) : t[i] = NUL}
<1>1. CASE I = {}
  <2>1. EndOf(t) - 1 = -1
    BY <1>1 DEF EndOf
  <2>2. CString(t) = SubSeq(t, 1, -1)
    BY <2>1, CStringDef
  <2>3. QED
    BY <2>2, SubSeqEmpty
<1>2. CASE I # {}
  <2>1. PICK m \in I : \A i \in I : m <= i
    <3>1. I \in SUBSET Nat
      OBVIOUS
    <3> HIDE DEF I
    <3>2. QED BY <1>2, <3>1, LeastNumber
  <2>2. Min(I) \in I /\ \A i \in I : Min(I) <= i
    <3> HIDE DEF I
    <3>1. QED BY <2>1 DEF Min
  <2>3. EndOf(t) = Min(I)
    BY <1>2 DEF EndOf
  <2>4. PICK n \in 0..Len(t) : n = EndOf(t) - 1
    <3>1. EndOf(t) \in 1..Len(t) /\ Len(t) \in Nat
      BY <2>2, <2>3
    <3>2. QED
      BY <3>1
  <2>5. CString(t) = SubSeq(t, 1, n)
    BY <2>4, CStringDef
  <2>6. /\ CString(t) \in Seq(Letters \cup {NUL}) /\ Len(CString(t)) = n
        /\ \A i \in 1..n : CString(t)[i] = t[i]
    BY <2>5, PopProperties
  <2>7. \A i \in 1..n : t[i] \in Letters
    <3>1. \A i \in 1..n : i \in 1..Len(t) /\ i \notin I
      BY <2>2, <2>3, <2>4
    <3>2. QED
      BY <3>1
  <2>8. QED
    BY <2>6, <2>7
<1>3. QED
  BY <1>1, <1>2

\* What is printed is made of pieces, values and cells of lists.
LEMMA ItemTypes ==
  /\ \A t \in Seq(Letters) : Text(t) \in Item
  /\ \A w \in Word(heap) : Value(w) \in Item
  /\ \A o \in Lists : Cells(o) \in Item
  /\ \A i, j, k \in Item : /\ <<i>> \in Seq(Item) /\ <<i, j>> \in Seq(Item)
                           /\ <<i, j, k>> \in Seq(Item)
<1>1. /\ \A t \in Seq(Letters) : Text(t) \in Item
      /\ \A w \in Word(heap) : Value(w) \in Item
      /\ \A o \in Lists : Cells(o) \in Item
  BY DEF Item, Text, Value, Cells
<1>2. \A i, j, k \in Item : /\ <<i>> \in Seq(Item) /\ <<i, j>> \in Seq(Item)
                              /\ <<i, j, k>> \in Seq(Item)
  OBVIOUS
<1>3. QED
  BY <1>1, <1>2

\* The texts that printValue adds.
LEMMA PunctuationType ==
  /\ Separator \in Seq(Letters) /\ Address \in Seq(Letters)
  /\ <<"{">> \in Seq(Letters) /\ <<"}">> \in Seq(Letters)
  /\ <<"[">> \in Seq(Letters) /\ <<"]">> \in Seq(Letters)
  /\ <<"<">> \in Seq(Letters) /\ <<">">> \in Seq(Letters)
  /\ <<"'">> \in Seq(Letters)
  /\ <<" ", "(">> \in Seq(Letters) /\ <<")">> \in Seq(Letters)
<1>1. \A c \in {",", " ", "0", "x", "{", "}", "[", "]", "<", ">", "'", "(", ")"} : c \in Letters
  BY PunctuationAssumption DEF Punctuation
<1>2. \A c, d \in Letters : <<c>> \in Seq(Letters) /\ <<c, d>> \in Seq(Letters)
  OBVIOUS
<1>3. QED
  BY <1>1, <1>2 DEF Separator, Address

\* Words are printed as values.
LEMMA ValuesType ==
  ASSUME NEW ws \in Seq(Word(heap))
  PROVE  Values_(ws) \in Seq(Item)
<1>1. \A i \in 1..Len(ws) : Value(ws[i]) \in Item
  BY ItemTypes
<1>2. QED
  BY <1>1, IsASeq DEF Values_

\* Items with separators between them, within two pieces of text.
LEMMA BetweenType ==
  ASSUME NEW s \in Seq(Item), NEW open \in Seq(Letters), NEW close \in Seq(Letters)
  PROVE  Between(open, s, close) \in Seq(Item)
<1>1. Separated(s) \in Seq(Item)
  <2> DEFINE n == IF s = <<>> THEN 0 ELSE 2 * Len(s) - 1
  <2>1. n \in Nat
    BY EmptySeq
  <2>2. ASSUME NEW i \in 1..n
        PROVE  (IF i % 2 = 0 THEN Text(Separator) ELSE s[(i + 1) \div 2]) \in Item
    <3>1. s # <<>> /\ (i + 1) \div 2 \in 1..Len(s)
      BY EmptySeq
    <3>2. s[(i + 1) \div 2] \in Item
      BY <3>1
    <3>3. Text(Separator) \in Item
      BY ItemTypes, PunctuationType
    <3>4. QED
      BY <3>2, <3>3
  <2>3. QED
    BY <2>1, <2>2, IsASeq DEF Separated
<1>2. <<Text(open)>> \in Seq(Item) /\ <<Text(close)>> \in Seq(Item)
  BY ItemTypes
<1>3. QED
  BY <1>1, <1>2, Appended DEF Between

-----------------------------------------------------------------------------
(***************************************************************************)
(* What a call of printValue adds is typed.                                *)
(***************************************************************************)

\* The name in a tag word; it is that of lists only in the cells of lists.
LEMMA TagNames ==
  ASSUME HeapInv, TagsInv, status = "printing", NEW o \in Sexps
  PROVE  /\ de_hash[heap[o].tag] \in Seq(Letters)
         /\ IsCons(o) => o \in Lists
<1>1. o \in DOMAIN heap /\ names[o] \in Seq(Letters) /\ heap[o].tag \in Nat
  BY HeapFacts DEF Sexps
<1>2. heap[o].tag = Pack(names[o]) /\ Packable(names[o])
  BY <1>1, HashableIsPackable DEF TagsInv, LtagHash
<1>3. de_hash[heap[o].tag] = FirstChars(names[o])
  BY <1>1, <1>2, DehashPack
<1>4. FirstChars(names[o]) \in Seq(Letters)
  BY <1>1, FirstCharsType
<1>5. ASSUME IsCons(o) PROVE o \in Lists
  <2>1. FirstChars(names[o]) = ConsName
    BY <1>3, <1>5 DEF IsCons
  <2>2. Len(FirstChars(names[o])) < TagLen
    BY <2>1, StringBufAssumption
  <2>3. Len(names[o]) <= TagLen
    BY <1>1, <2>2, FirstCharsType, NCharsType
  <2>4. names[o] = ConsName
    BY <1>1, <2>1, <2>3, FirstCharsType
  <2>5. QED
    BY <2>4 DEF Lists
<1>6. QED
  BY <1>3, <1>4, <1>5

\* Printing an object is printing items.
LEMMA ObjectItems ==
  ASSUME HeapInv, TagsInv, status = "printing", NEW o \in DOMAIN heap
  PROVE  printObject(o) \in Seq(Item)
<1>1. heap[o].kind \in {"STRING", "CLOSURE", "ARRAY", "SEXP"}
  BY HeapFacts
<1>2. CASE heap[o].kind = "STRING"
  <2>1. CString(heap[o].contents) \in Seq(Letters)
    BY <1>2, HeapFacts, CStringType
  <2>2. <<"'">> \o CString(heap[o].contents) \o <<"'">> \in Seq(Letters)
    BY <2>1, PunctuationType, Appended
  <2>3. Text(<<"'">> \o CString(heap[o].contents) \o <<"'">>) \in Item
    BY <2>2, ItemTypes
  <2>4. printObject(o) = <<Text(<<"'">> \o CString(heap[o].contents) \o <<"'">>)>>
    BY <1>2 DEF printObject
  <2>5. QED
    BY <2>3, <2>4
<1>3. CASE heap[o].kind = "CLOSURE"
  <2>1. Tail(heap[o].contents) \in Seq(Word(heap))
    BY <1>3, HeapFacts, HeadTailProperties DEF Entered
  <2>2. Values_(Tail(heap[o].contents)) \in Seq(Item)
    BY <2>1, ValuesType
  <2>3. <<Text(Address)>> \in Seq(Item)
    BY ItemTypes, PunctuationType
  <2>4. <<Text(Address)>> \o Values_(Tail(heap[o].contents)) \in Seq(Item)
    BY <2>2, <2>3, Appended
  <2>5. QED
    BY <1>3, <2>4, BetweenType, PunctuationType DEF printObject
<1>4. CASE heap[o].kind = "ARRAY"
  <2>1. Values_(heap[o].contents) \in Seq(Item)
    BY <1>4, HeapFacts, ValuesType
  <2>2. QED
    BY <1>4, <2>1, BetweenType, PunctuationType DEF printObject
<1>5. CASE heap[o].kind = "SEXP"
  <2>1. o \in Sexps /\ printObject(o) = printSexp(o)
    BY <1>5 DEF Sexps, printObject
  <2>2. CASE IsCons(o)
    <3>1. o \in Lists
      BY <2>1, <2>2, TagNames
    <3>2. Text(<<"{">>) \in Item /\ Cells(o) \in Item /\ Text(<<"}">>) \in Item
      BY <3>1, ItemTypes, PunctuationType
    <3>3. printSexp(o) = <<Text(<<"{">>), Cells(o), Text(<<"}">>)>>
      BY <2>2 DEF printSexp
    <3>4. <<Text(<<"{">>), Cells(o), Text(<<"}">>)>> \in Seq(Item)
      BY <3>2, ItemTypes
    <3>5. QED
      BY <2>1, <3>3, <3>4
  <2>3. CASE ~ IsCons(o)
    <3> DEFINE fields == IF heap[o].contents = <<>> THEN <<>>
                         ELSE Between(<<" ", "(">>, Values_(heap[o].contents), <<")">>)
    <3>1. <<Text(de_hash[heap[o].tag])>> \in Seq(Item)
      <4>1. Text(de_hash[heap[o].tag]) \in Item
        BY <2>1, TagNames, ItemTypes
      <4>2. QED
        BY <4>1
    <3>2. Values_(heap[o].contents) \in Seq(Item)
      BY <1>5, HeapFacts, ValuesType
    <3>3. fields \in Seq(Item)
      <4>1. Between(<<" ", "(">>, Values_(heap[o].contents), <<")">>) \in Seq(Item)
        BY <3>2, BetweenType, PunctuationType
      <4>2. <<>> \in Seq(Item)
        OBVIOUS
      <4>3. QED
        BY <4>1, <4>2
    <3>4. printSexp(o) = <<Text(de_hash[heap[o].tag])>> \o fields
      BY <2>3 DEF printSexp
    <3> HIDE DEF fields
    <3>5. QED
      BY <2>1, <3>1, <3>3, <3>4, Appended
  <2>4. QED
    BY <2>2, <2>3
<1>6. QED
  BY <1>1, <1>2, <1>3, <1>4, <1>5

\* So is printing a word,
LEMMA ValueItems ==
  ASSUME HeapInv, TagsInv, status = "printing", NEW v \in Word(heap)
  PROVE  printValue(v) \in Seq(Item)
<1>1. CASE v[1] = "int"
  <2>1. v[2] \in Seq(Letters)
    BY <1>1 DEF Word
  <2>2. Text(v[2]) \in Item /\ printValue(v) = <<Text(v[2])>>
    BY <1>1, <2>1, ItemTypes DEF printValue
  <2>3. QED
    BY <2>2
<1>2. CASE v[1] = "out"
  <2>1. Text(Address) \in Item /\ printValue(v) = <<Text(Address)>>
    BY <1>2, ItemTypes, PunctuationType DEF printValue
  <2>2. QED
    BY <2>1
<1>3. CASE v[1] = "ptr"
  <2>1. v[2] \in DOMAIN heap
    BY <1>3 DEF Word
  <2>2. QED
    BY <1>3, <2>1, ObjectItems DEF printValue
<1>4. QED
  BY <1>1, <1>2, <1>3 DEF Word

\* and a cell of a list.
LEMMA CellItems ==
  ASSUME HeapInv, NEW o \in Lists
  PROVE  printCells(o) \in Seq(Item)
<1> DEFINE cell == heap[o].contents
<1>1. CASE cell = <<>>
  BY <1>1 DEF printCells
<1>2. CASE cell # <<>>
  <2>1. o \in DOMAIN heap /\ heap[o].kind = "SEXP"
    BY DEF Lists, Sexps
  <2>2. /\ cell \in Seq(Word(heap)) /\ Len(cell) = 2
        /\ cell[2][1] = "int" \/ (cell[2][1] = "ptr" /\ cell[2][2] \in Lists)
    BY <2>1, HeapFacts
  <2> DEFINE rest == IF UNBOXED(cell[2]) THEN <<>> ELSE <<Text(Separator), Cells(cell[2][2])>>
  <2>3. rest \in Seq(Item)
    <3>1. CASE UNBOXED(cell[2])
      BY <3>1
    <3>2. CASE ~ UNBOXED(cell[2])
      <4>1. Text(Separator) \in Item /\ Cells(cell[2][2]) \in Item
        BY <2>2, <3>2, ItemTypes, PunctuationType DEF UNBOXED
      <4>2. QED
        BY <3>2, <4>1
    <3>3. QED
      BY <3>1, <3>2
  <2>4. <<Value(cell[1])>> \in Seq(Item)
    <3>1. Value(cell[1]) \in Item
      BY <2>2, ItemTypes
    <3>2. QED
      BY <3>1
  <2>5. printCells(o) = <<Value(cell[1])>> \o rest
    BY <1>2 DEF printCells
  <2>6. QED
    BY <2>3, <2>4, <2>5, Appended
<1>3. QED
  BY <1>1, <1>2

-----------------------------------------------------------------------------
(***************************************************************************)
(* A piece of text in the buffer.                                          *)
(***************************************************************************)

\* How much of a piece fits.
Put(rest, text) == IF Len(text) < rest THEN Len(text) ELSE rest - 1

\* What a piece leaves in a buffer with a cell for its end.
LEMMA Written ==
  ASSUME NEW buf \in Seq(Cell), NEW at \in Nat, at < Len(buf), NEW text \in Seq(Letters),
         NEW rest, rest = Len(buf) - at
  PROVE  /\ Put(rest, text) \in Nat /\ at + Put(rest, text) + 1 <= Len(buf)
         /\ vsnprintf(buf, at, rest, text) \in Seq(Cell)
         /\ Len(vsnprintf(buf, at, rest, text)) = Len(buf)
         /\ \A i \in 1..at : vsnprintf(buf, at, rest, text)[i] = buf[i]
         /\ \A i \in (at + 1)..(at + Put(rest, text)) :
               vsnprintf(buf, at, rest, text)[i] \in Letters
         /\ \A i \in 1..Put(rest, text) : vsnprintf(buf, at, rest, text)[at + i] = text[i]
         /\ vsnprintf(buf, at, rest, text)[at + Put(rest, text) + 1] = NUL
<1> DEFINE put == Put(rest, text)
           w == vsnprintf(buf, at, rest, text)
<1>1. /\ put \in Nat /\ put <= Len(text) /\ at + put + 1 <= Len(buf)
      /\ Len(buf) \in Nat /\ Len(text) \in Nat /\ DOMAIN buf = 1..Len(buf)
  BY DEF Put
<1>2. NUL \in Cell
  BY DEF Cell
<1> DEFINE cell(i) == IF i \in (at + 1)..(at + put) THEN text[i - at]
                      ELSE IF i = at + put + 1 THEN NUL ELSE buf[i]
<1>3. w = [i \in 1..Len(buf) |-> cell(i)]
  <2>1. \A i \in 1..Len(buf) :
          (CASE i \in at + 1 .. at + put -> text[i - at]
             [] i = at + put + 1         -> NUL
             [] OTHER                    -> buf[i]) = cell(i)
    BY <1>1
  <2>2. QED
    BY <1>1, <2>1 DEF vsnprintf, Put
<1> HIDE DEF w, put
<1>4. \A i \in (at + 1)..(at + put) : text[i - at] \in Letters
  <2>1. \A i \in (at + 1)..(at + put) : i - at \in 1..Len(text)
    BY <1>1
  <2>2. QED
    BY <2>1
<1>5. \A i \in 1..Len(buf) : cell(i) \in Cell
  BY <1>1, <1>2, <1>4 DEF Cell
<1>6. w \in Seq(Cell) /\ Len(w) = Len(buf)
  <2> HIDE DEF cell
  <2>1. w \in [1..Len(buf) -> Cell]
    BY <1>3, <1>5
  <2>2. QED
    BY <1>1, <2>1
<1>7. \A i \in 1..at : w[i] = buf[i]
  BY <1>1, <1>3
<1>8. \A i \in (at + 1)..(at + put) : w[i] \in Letters
  <2>1. \A i \in (at + 1)..(at + put) : i \in 1..Len(buf) /\ cell(i) = text[i - at]
    BY <1>1
  <2>2. QED
    BY <1>3, <1>4, <2>1
<1>9. w[at + put + 1] = NUL
  BY <1>1, <1>3
<1>10. ASSUME NEW i \in 1..put PROVE w[at + i] = text[i]
  <2>1. PICK j \in 1..Len(buf) : j = at + i
    <3>1. at + i \in 1..Len(buf)
      BY <1>1
    <3>2. QED
      BY <3>1
  <2>2. j \in (at + 1)..(at + put) /\ j - at = i
    BY <1>1, <2>1
  <2>3. w[j] = text[j - at]
    BY <1>3, <2>2
  <2>4. QED
    BY <2>1, <2>2, <2>3
<1>11. QED
  BY <1>1, <1>6, <1>7, <1>8, <1>9, <1>10 DEF w, put

\* realloc keeps what was there.
LEMMA GrownProperties ==
  ASSUME NEW buf \in Seq(Cell), NEW n \in Nat, Len(buf) <= n
  PROVE  /\ Grown(buf, n) \in Seq(Cell) /\ Len(Grown(buf, n)) = n
         /\ \A i \in 1..Len(buf) : Grown(buf, n)[i] = buf[i]
<1>1. Grown(buf, n) = [i \in 1..n |-> IF i <= Len(buf) THEN buf[i] ELSE Unset]
  BY DEF Grown
<1>2. \A i \in 1..n : (IF i <= Len(buf) THEN buf[i] ELSE Unset) \in Cell
  BY DEF Cell
<1>3. Grown(buf, n) \in [1..n -> Cell]
  BY <1>1, <1>2
<1>4. QED
  BY <1>1, <1>3

\* A piece of text is printed, or the buffer doubled: in both cases the NUL of
\* vsnprintf is behind ptr.
LEMMA TextStep ==
  ASSUME IInv, PrintText
  PROVE  TodoInv' /\ BufferInv'
<1> DEFINE text == Head(todo)[2]
           rest == len - ptr
           w == vsnprintf(contents, ptr, rest, text)
           put == Put(rest, text)
<1>1. /\ status = "printing" /\ todo # <<>> /\ Head(todo)[1] = "text"
      /\ printStringBuf(text) /\ UNCHANGED <<names, heap, status, asked, result>>
  BY DEF PrintText
<1>2. todo \in Seq(Item) /\ text \in Seq(Letters)
  <2>1. todo \in Seq(Item)
    BY <1>1 DEF IInv, TodoInv
  <2>2. Head(todo) \in Item
    BY <1>1, <2>1, HeadTailProperties
  <2>3. QED
    BY <1>1, <2>1, <2>2 DEF Item
<1>3. /\ contents \in Seq(Cell) /\ len = Len(contents) /\ len \in Nat /\ ptr \in Nat
      /\ \E i \in (ptr + 1)..len : contents[i] = NUL /\ \A j \in 1..i : contents[j] # Unset
  BY <1>1 DEF IInv, BufferInv, Cell
<1>4. ptr < len /\ \A j \in 1..ptr : contents[j] # Unset
  BY <1>3
<1>5. PICK n \in Nat :
      /\ n = ptr + put + 1 /\ put \in Nat /\ n <= len
      /\ w \in Seq(Cell) /\ Len(w) = len
      /\ \A i \in 1..ptr : w[i] = contents[i]
      /\ \A i \in (ptr + 1)..(n - 1) : w[i] \in Letters
      /\ w[n] = NUL
  <2>1. /\ put \in Nat /\ ptr + put + 1 <= len
        /\ w \in Seq(Cell) /\ Len(w) = len
        /\ \A i \in 1..ptr : w[i] = contents[i]
        /\ \A i \in (ptr + 1)..(ptr + put) : w[i] \in Letters
        /\ w[ptr + put + 1] = NUL
    <3> HIDE DEF text
    <3>1. ptr < Len(contents) /\ rest = Len(contents) - ptr
      BY <1>3, <1>4
    <3> HIDE DEF rest
    <3>2. QED
      BY <1>2, <1>3, <3>1, Written
  <2>2. ptr + put + 1 \in Nat /\ ptr + put = (ptr + put + 1) - 1
    BY <1>3, <2>1
  <2> HIDE DEF put, w
  <2>3. QED
    BY <2>1, <2>2
<1>6. \A j \in 1..n : w[j] # Unset
  <2>1. \A x \in Letters : x # Unset
    BY PunctuationAssumption
  <2>2. NUL # Unset
    BY PunctuationAssumption
  <2> HIDE DEF w, put, rest
  <2>3. ASSUME NEW j \in 1..n PROVE w[j] # Unset
    <3>1. CASE j <= ptr
      BY <1>3, <1>4, <1>5, <3>1
    <3>2. CASE j = n
      BY <1>5, <2>2, <3>2
    <3>3. CASE j > ptr /\ j # n
      <4>1. j \in (ptr + 1)..(n - 1)
        BY <1>3, <1>5, <3>3
      <4>2. QED
        BY <1>5, <2>1, <4>1
    <3>4. QED
      BY <1>3, <3>1, <3>2, <3>3
  <2>4. QED
    BY <2>3
<1>7. Item' = Item /\ status' = "printing"
  BY <1>1 DEF Item, Word, Lists, Sexps
<1>8. CASE Short(Len(text), rest)
  <2>1. contents' = Grown(w, 2 * len) /\ len' = 2 * len /\ ptr' = ptr /\ todo' = todo
    BY <1>1, <1>8 DEF printStringBuf, NewLen
  <2>2. /\ contents' \in Seq(Cell) /\ Len(contents') = 2 * len
        /\ \A i \in 1..len : contents'[i] = w[i]
    <3> HIDE DEF w
    <3>1. 2 * len \in Nat /\ len <= 2 * len
      BY <1>3
    <3>2. QED
      BY <1>5, <2>1, <3>1, GrownProperties
  <2>3. contents'[n] = NUL /\ \A j \in 1..n : contents'[j] # Unset
    <3> HIDE DEF w, put
    <3>1. \A j \in 1..n : j \in 1..len
      BY <1>3, <1>5
    <3>2. n \in 1..n
      BY <1>3, <1>5
    <3>3. QED
      BY <1>5, <1>6, <2>2, <3>1, <3>2
  <2>4. n \in (ptr' + 1)..len'
    <3> HIDE DEF put
    <3>1. QED BY <1>3, <1>5, <2>1
  <2>5. BufferInv'
    <3> HIDE DEF put
    <3>1. QED BY <1>3, <2>1, <2>2, <2>3, <2>4 DEF BufferInv, Cell
  <2>6. TodoInv'
    BY <1>2, <1>7, <2>1 DEF TodoInv
  <2>7. QED
    BY <2>5, <2>6
<1>9. CASE ~ Short(Len(text), rest)
  <2>1. contents' = w /\ ptr' = ptr + Len(text) /\ todo' = Tail(todo) /\ len' = len
    BY <1>1, <1>9 DEF printStringBuf
  <2>2. put = Len(text)
    BY <1>2, <1>3, <1>9 DEF Short, Put
  <2>3. ptr' \in Nat /\ n \in (ptr' + 1)..len'
    <3> HIDE DEF put
    <3>1. QED BY <1>3, <1>5, <2>1, <2>2
  <2>4. BufferInv'
    <3> HIDE DEF put, w
    <3>1. QED BY <1>5, <1>6, <2>1, <2>3 DEF BufferInv, Cell
  <2>5. TodoInv'
    BY <1>1, <1>2, <1>7, <2>1, HeadTailProperties DEF TodoInv
  <2>6. QED
    BY <2>4, <2>5
<1>10. QED
  BY <1>8, <1>9

-----------------------------------------------------------------------------
(***************************************************************************)
(* The invariant holds.                                                    *)
(***************************************************************************)

\* A program that is not built yet.
LEMMA InitIInv == Init => IInv
<1> SUFFICES ASSUME Init PROVE IInv
  OBVIOUS
<1>1. PICK p \in Programs : names = p.names /\ heap = p.heap
  BY DEF Init
<1>2. WellFormed(p) /\ Asked \subseteq DOMAIN p.heap
  BY ProgramsAssumption
<1>3. WellFormed(Program)
  <2>1. Program.heap = p.heap /\ Program.names = p.names
    BY <1>1 DEF Program
  <2>2. \A o \in DOMAIN p.heap : /\ IsCell(Program, o) = IsCell(p, o)
                                 /\ Listed(Program, p.heap[o].contents)
                                      = Listed(p, p.heap[o].contents)
    BY <2>1 DEF IsCell, Listed
  <2>3. QED
    BY <1>2, <2>1, <2>2 DEF WellFormed
<1>4. QED
  BY <1>1, <1>2, <1>3 DEF Init, IInv, HeapInv, TagsInv, FailedInv, TodoInv, BufferInv

\* A step that builds nothing keeps the objects and their tags.
LEMMA SameHeap ==
  ASSUME IInv, UNCHANGED <<names, heap>>, status \in {"idle", "printing"},
         status' \in {"idle", "printing"}
  PROVE  HeapInv' /\ TagsInv' /\ FailedInv' /\ Item' = Item
BY DEF IInv, HeapInv, Program, TagsInv, FailedInv, Sexps, Item, Word, Lists

\* Build packs the names into the tags, or fails for one.
LEMMA BuildStep ==
  ASSUME IInv, Build
  PROVE  IInv'
<1>1. status = "building" /\ UNCHANGED <<names, todo, contents, ptr, len, asked, result>>
  BY DEF Build
<1>2. HeapInv
  BY DEF IInv
<1>3. CASE \A o \in Sexps : Hashable(names[o])
  <2>1. /\ heap' = [o \in DOMAIN heap |->
                      IF o \in Sexps THEN [heap[o] EXCEPT !.tag = LtagHash(names[o])]
                      ELSE heap[o]]
        /\ status' = "idle"
    BY <1>3 DEF Build
  <2>2. DOMAIN heap' = DOMAIN heap /\ Word(heap') = Word(heap) /\ ObjectOf(heap') = ObjectOf(heap)
    BY <2>1 DEF Word, ObjectOf
  <2>3. ASSUME NEW o \in Sexps
        PROVE  /\ Packable(names[o]) /\ Pack(names[o]) \in Nat
               /\ heap[o] \in [kind : {"CLOSURE", "ARRAY", "SEXP"}, tag : Nat,
                               contents : Seq(Word(heap))]
    <3>1. o \in DOMAIN heap /\ heap[o].kind = "SEXP" /\ heap[o] \in ObjectOf(heap)
          /\ names[o] \in Seq(Letters)
      BY <1>2, HeapFacts DEF Sexps
    <3>2. Packable(names[o])
      BY <1>3, <3>1, HashableIsPackable
    <3>3. QED
      BY <3>1, <3>2, DehashPack DEF ObjectOf
  <2>4. ASSUME NEW o \in DOMAIN heap
        PROVE  /\ heap'[o] \in ObjectOf(heap)
               /\ heap'[o].kind = heap[o].kind /\ heap'[o].contents = heap[o].contents
               /\ o \in Sexps => heap'[o].tag = LtagHash(names[o])
    <3>1. CASE o \in Sexps
      <4>1. heap'[o] = [heap[o] EXCEPT !.tag = Pack(names[o])]
        BY <2>1, <3>1 DEF LtagHash
      <4>2. QED
        BY <2>3, <3>1, <4>1 DEF ObjectOf, LtagHash
    <3>2. CASE o \notin Sexps
      <4>1. heap'[o] = heap[o]
        BY <2>1, <3>2
      <4>2. QED
        BY <1>2, <3>2, <4>1, HeapFacts
    <3>3. QED
      BY <3>1, <3>2
  <2>5. Sexps' = Sexps
    BY <2>2, <2>4 DEF Sexps
  <2>6. HeapInv'
    <3>1. \A o \in DOMAIN heap : IsCell(Program', o) = IsCell(Program, o)
      BY <1>1, <2>2, <2>4 DEF IsCell, Program
    <3>2. ASSUME NEW o \in DOMAIN heap, IsCell(Program', o)
          PROVE  Listed(Program', heap'[o].contents)
      <4>1. IsCell(Program, o) /\ o \in Lists
        BY <3>1, <3>2 DEF IsCell, Program, Lists, Sexps
      <4>2. PICK cell : cell = heap[o].contents
        OBVIOUS
      <4>3. Len(cell) = 2 /\ (cell[2][1] = "int" \/
              (cell[2][1] = "ptr" /\ cell[2][2] \in Lists))
        BY <1>2, <4>1, <4>2, HeapFacts
      <4>4. \A x \in Lists : IsCell(Program', x)
        BY <3>1 DEF Lists, Sexps, IsCell, Program
      <4>5. heap'[o].contents = cell
        BY <2>4, <4>2
      <4>6. QED
        BY <4>3, <4>4, <4>5 DEF Listed
    <3>3. QED
      BY <1>1, <1>2, <2>2, <2>4, <3>2, HeapFacts DEF HeapInv, WellFormed, Program
  <2>7. TagsInv'
    BY <1>1, <1>3, <2>4, <2>5 DEF TagsInv, Sexps
  <2>8. QED
    BY <2>1, <2>6, <2>7 DEF IInv, FailedInv, TodoInv, BufferInv
<1>4. CASE ~ \A o \in Sexps : Hashable(names[o])
  <2>1. status' = "failed" /\ heap' = heap
    BY <1>4 DEF Build
  <2>2. QED
    BY <1>1, <1>2, <1>4, <2>1
       DEF IInv, HeapInv, Program, TagsInv, FailedInv, Sexps, TodoInv, BufferInv
<1>5. QED
  BY <1>3, <1>4

\* A call begins with a buffer of NULs and one value to print.
LEMMA LstringStep ==
  ASSUME IInv, NEW o \in Asked, Lstring(<<"ptr", o>>)
  PROVE  IInv'
<1>1. /\ status = "idle" /\ status' = "printing" /\ UNCHANGED <<names, heap, result>>
      /\ todo' = <<Value(<<"ptr", o>>)>>
      /\ contents' = Buffer(InitLen) /\ ptr' = 0 /\ len' = InitLen
  BY DEF Lstring
<1>2. HeapInv' /\ TagsInv' /\ FailedInv' /\ Item' = Item
  BY <1>1, SameHeap
<1>3. TodoInv'
  <2>1. o \in DOMAIN heap
    BY DEF IInv, HeapInv
  <2>2. Value(<<"ptr", o>>) \in Item
    BY <2>1, ItemTypes DEF Word
  <2>3. QED
    BY <1>1, <1>2, <2>2 DEF TodoInv
<1>4. BufferInv'
  <2>1. InitLen \in Nat \ {0} /\ NUL \in Cell /\ NUL # Unset
    BY StringBufAssumption, PunctuationAssumption DEF Cell
  <2>2. /\ contents' \in Seq(Cell) /\ Len(contents') = InitLen
        /\ contents'[1] = NUL
    BY <1>1, <2>1 DEF Buffer
  <2>3. 1 \in (ptr' + 1)..len' /\ \A j \in 1..1 : j = 1
    BY <1>1, <2>1
  <2>4. QED
    BY <1>1, <2>1, <2>2, <2>3 DEF BufferInv
<1>5. QED
  BY <1>1, <1>2, <1>3, <1>4 DEF IInv

\* The steps of a call.
LEMMA PrintTextStep ==
  ASSUME IInv, PrintText
  PROVE  IInv'
<1>1. status = "printing" /\ UNCHANGED <<names, heap, status>>
  BY DEF PrintText
<1>2. QED
  BY <1>1, SameHeap, TextStep DEF IInv

\* What a call of printValue adds is typed as the rest is.
LEMMA TodoStep ==
  ASSUME IInv, status = "printing", NEW items \in Seq(Item), todo # <<>>,
         todo' = items \o Tail(todo),
         UNCHANGED <<names, heap, status, contents, ptr, len>>
  PROVE  IInv'
<1>1. HeapInv' /\ TagsInv' /\ FailedInv' /\ Item' = Item
  BY SameHeap
<1>2. Tail(todo) \in Seq(Item)
  BY HeadTailProperties DEF IInv, TodoInv
<1>3. items \o Tail(todo) \in Seq(Item)
  BY <1>2, Appended
<1>4. TodoInv'
  BY <1>1, <1>3 DEF TodoInv
<1>5. BufferInv'
  BY DEF IInv, BufferInv
<1>6. QED
  BY <1>1, <1>4, <1>5 DEF IInv

\* A value gives way to what printValue prints of it.
LEMMA PrintValueStep ==
  ASSUME IInv, PrintValue
  PROVE  IInv'
<1>1. /\ status = "printing" /\ todo # <<>> /\ Head(todo)[1] = "value"
      /\ todo' = printValue(Head(todo)[2]) \o Tail(todo)
      /\ UNCHANGED <<names, heap, status, contents, ptr, len>>
  BY DEF PrintValue
<1>2. todo \in Seq(Item) /\ Head(todo) \in Item
  BY <1>1, HeadTailProperties DEF IInv, TodoInv
<1>3. Head(todo)[2] \in Word(heap)
  BY <1>1, <1>2 DEF Item
<1>4. printValue(Head(todo)[2]) \in Seq(Item)
  BY <1>1, <1>3, ValueItems DEF IInv
<1>5. QED
  BY <1>1, <1>4, TodoStep

\* The cells of a list give way to one and the cells after it.
LEMMA PrintCellsStep ==
  ASSUME IInv, PrintCells
  PROVE  IInv'
<1>1. /\ status = "printing" /\ todo # <<>> /\ Head(todo)[1] = "cells"
      /\ todo' = printCells(Head(todo)[2]) \o Tail(todo)
      /\ UNCHANGED <<names, heap, status, contents, ptr, len>>
  BY DEF PrintCells
<1>2. todo \in Seq(Item) /\ Head(todo) \in Item
  BY <1>1, HeadTailProperties DEF IInv, TodoInv
<1>3. Head(todo)[2] \in Lists
  BY <1>1, <1>2 DEF Item
<1>4. printCells(Head(todo)[2]) \in Seq(Item)
  BY <1>3, CellItems DEF IInv
<1>5. QED
  BY <1>1, <1>4, TodoStep

\* The result is a copy.
LEMMA ReturnStep ==
  ASSUME IInv, Return
  PROVE  IInv'
<1>1. status = "printing" /\ status' = "idle" /\ UNCHANGED <<names, heap>>
  BY DEF Return
<1>2. QED
  BY <1>1, SameHeap DEF IInv, TodoInv, BufferInv

\* Nothing happens.
LEMMA Stutter ==
  ASSUME IInv, UNCHANGED vars
  PROVE  IInv'
BY DEF IInv, vars, HeapInv, Program, TagsInv, FailedInv, Sexps, TodoInv, Item, Word, Lists,
       BufferInv

\* Every step keeps the invariant.
LEMMA StepIInv == IInv /\ [Next]_vars => IInv'
<1> SUFFICES ASSUME IInv, [Next]_vars PROVE IInv'
  OBVIOUS
<1>1. CASE Build
  BY <1>1, BuildStep
<1>2. CASE \E o \in Asked : Lstring(<<"ptr", o>>)
  BY <1>2, LstringStep
<1>3. CASE PrintText
  BY <1>3, PrintTextStep
<1>4. CASE PrintValue
  BY <1>4, PrintValueStep
<1>5. CASE PrintCells
  BY <1>5, PrintCellsStep
<1>6. CASE Return
  BY <1>6, ReturnStep
<1>7. CASE UNCHANGED vars
  BY <1>7, Stutter
<1>8. QED
  BY <1>1, <1>2, <1>3, <1>4, <1>5, <1>6, <1>7 DEF Next, Printing

\* The inductive invariant holds of every behaviour of Lstring.
THEOREM Invariance == Spec => []IInv
<1>1. QED
  BY InitIInv, StepIInv, PTL DEF Spec

\* RoomForEnd: between two calls of printStringBuf there is a cell left at ptr
\* for the NUL of vsnprintf, and a NUL before what realloc left unset.
THEOREM RoomForEndCorrect == Spec => []RoomForEnd
<1>1. IInv => RoomForEnd
  <2> SUFFICES ASSUME IInv, status = "printing" PROVE RoomForEnd
    BY DEF RoomForEnd
  <2>1. /\ contents \in Seq(Cell) /\ len = Len(contents) /\ ptr \in Nat
        /\ \E i \in (ptr + 1)..len : contents[i] = NUL /\ \A j \in 1..i : contents[j] # Unset
    BY DEF IInv, BufferInv
  <2>2. QED
    BY <2>1 DEF RoomForEnd
<1>2. QED
  BY <1>1, Invariance, PTL

-----------------------------------------------------------------------------
(***************************************************************************)
(* The tests for a tag.                                                    *)
(***************************************************************************)

\* MatchExact: LtagHash ends the program exactly for the names that are not
\* packable, and TAG tells two names apart exactly when their first
\* MAX_SEXP_TAGLEN characters differ.
THEOREM MatchExactCorrect == Spec => []MatchExact
<1>1. IInv => MatchExact
  <2> SUFFICES ASSUME IInv PROVE MatchExact
    OBVIOUS
  <2>1. HeapInv /\ \A o \in Sexps : o \in DOMAIN heap /\ names[o] \in Seq(Letters)
                                    /\ heap[o].contents \in Seq(Word(heap))
    BY HeapFacts DEF IInv, Sexps
  <2>2. status = "failed" => \E o \in Sexps : ~ Packable(names[o])
    BY <2>1, HashableIsPackable DEF IInv, FailedInv
  <2>3. ASSUME status = "idle", NEW o \in Sexps
        PROVE  /\ Packable(names[o])
               /\ \A n \in {x \in Tested : Packable(x)}, k \in 0 .. 2 :
                     Btag(heap, <<"ptr", o>>, LtagHash(n), k)
                       <=> /\ FirstChars(n) = FirstChars(names[o])
                           /\ k = Len(heap[o].contents)
    <3>1. Packable(names[o]) /\ heap[o].tag = Pack(names[o])
      BY <2>1, <2>3, HashableIsPackable DEF IInv, TagsInv, LtagHash
    <3>2. Tested \subseteq Seq(Letters)
      <4> DEFINE built == {names[x] : x \in Sexps}
      <4>1. built \subseteq Seq(Letters)
        BY <2>1
      <4>2. \A n \in built \ {<<>>} : Front(n) \in Seq(Letters)
        BY <4>1, FrontLast
      <4>3. \A n \in built, i \in 1 .. NChars : Append(n, Chars[i]) \in Seq(Letters)
        <5>1. \A i \in 1 .. NChars : Chars[i] \in Letters
          BY NCharsType DEF Alphabet
        <5>2. QED
          BY <4>1, <5>1, AppendProperties
      <4> HIDE DEF built
      <4>4. QED
        BY <4>1, <4>2, <4>3 DEF Tested, built
    <3>3. ASSUME NEW n \in Tested, Packable(n), NEW k \in 0 .. 2
          PROVE  Btag(heap, <<"ptr", o>>, LtagHash(n), k)
                   <=> /\ FirstChars(n) = FirstChars(names[o])
                       /\ k = Len(heap[o].contents)
      <4>1. Pack(n) = Pack(names[o]) <=> FirstChars(n) = FirstChars(names[o])
        BY <2>1, <3>1, <3>2, <3>3, SameTag
      <4>2. Btag(heap, <<"ptr", o>>, LtagHash(n), k)
              <=> heap[o].tag = Pack(n) /\ Len(heap[o].contents) = k
        BY DEF Btag, UNBOXED, Of, LtagHash, Sexps
      <4>3. QED
        BY <3>1, <4>1, <4>2
    <3>4. QED
      BY <3>1, <3>3
  <2>4. QED
    BY <2>2, <2>3 DEF MatchExact
<1>2. QED
  BY <1>1, Invariance, PTL

-----------------------------------------------------------------------------
(***************************************************************************)
(* The texts of items, and joined texts.                                   *)
(***************************************************************************)

\* The texts of items, f being that of each.
TextMap(f, I) == f \in [I -> Seq(Letters)]
TextsOf(f, s) == [i \in 1..Len(s) |-> f[s[i]]]
Spelled(f, s) == FlattenSeq(TextsOf(f, s))

\* Each item has its text.
LEMMA TextsOfProperties ==
  ASSUME NEW I, NEW f, TextMap(f, I), NEW s \in Seq(I)
  PROVE  /\ TextsOf(f, s) \in Seq(Seq(Letters)) /\ Len(TextsOf(f, s)) = Len(s)
         /\ \A i \in 1..Len(s) : TextsOf(f, s)[i] = f[s[i]]
<1>1. Len(s) \in Nat /\ \A i \in 1..Len(s) : f[s[i]] \in Seq(Letters)
  BY DEF TextMap
<1>2. QED
  BY <1>1, IsASeq DEF TextsOf

\* The texts of items, one sequence after the other.
LEMMA TextsOfConcat ==
  ASSUME NEW I, NEW f, TextMap(f, I), NEW s \in Seq(I), NEW t \in Seq(I)
  PROVE  TextsOf(f, s \o t) = TextsOf(f, s) \o TextsOf(f, t)
<1>1. PICK st : st = s \o t
  OBVIOUS
<1>2. /\ st \in Seq(I) /\ Len(st) = Len(s) + Len(t)
      /\ \A i \in 1..Len(s) : st[i] = s[i]
      /\ \A i \in 1..Len(t) : st[Len(s) + i] = t[i]
  BY <1>1, Appended
<1>3. PICK a, b, c : a = TextsOf(f, s) /\ b = TextsOf(f, t) /\ c = TextsOf(f, st)
  OBVIOUS
<1>4. /\ a \in Seq(Seq(Letters)) /\ Len(a) = Len(s) /\ \A i \in 1..Len(s) : a[i] = f[s[i]]
      /\ b \in Seq(Seq(Letters)) /\ Len(b) = Len(t) /\ \A i \in 1..Len(t) : b[i] = f[t[i]]
      /\ c \in Seq(Seq(Letters)) /\ Len(c) = Len(st) /\ \A i \in 1..Len(st) : c[i] = f[st[i]]
  <2>1. ASSUME NEW u \in Seq(I)
        PROVE  /\ TextsOf(f, u) \in Seq(Seq(Letters)) /\ Len(TextsOf(f, u)) = Len(u)
               /\ \A i \in 1..Len(u) : TextsOf(f, u)[i] = f[u[i]]
    BY TextsOfProperties
  <2>2. QED
    BY <1>2, <1>3, <2>1
<1>5. ASSUME NEW i \in 1..Len(s) PROVE c[i] = a[i]
  <2>1. i \in 1..Len(st)
    BY <1>2
  <2>2. c[i] = f[st[i]] /\ a[i] = f[s[i]]
    BY <1>4, <2>1
  <2>3. st[i] = s[i]
    BY <1>2
  <2>4. QED
    BY <2>2, <2>3
<1>6. ASSUME NEW i \in 1..Len(t) PROVE c[Len(s) + i] = b[i]
  <2>1. PICK n \in 1..Len(st) : n = Len(s) + i
    <3>1. Len(s) + i \in 1..Len(st)
      BY <1>2
    <3>2. QED
      BY <3>1
  <2>2. c[n] = f[st[n]] /\ b[i] = f[t[i]]
    BY <1>4
  <2>3. st[n] = t[i]
    BY <1>2, <2>1
  <2>4. QED
    BY <2>1, <2>2, <2>3
<1>7. c = a \o b
  <2>1. /\ Len(c) = Len(a) + Len(b) /\ \A i \in 1..Len(a) : c[i] = a[i]
        /\ \A i \in 1..Len(b) : c[Len(a) + i] = b[i]
    BY <1>2, <1>4, <1>5, <1>6
  <2>2. a \in Seq(Seq(Letters)) /\ b \in Seq(Seq(Letters)) /\ c \in Seq(Seq(Letters))
    BY <1>4
  <2>3. QED
    BY <2>1, <2>2, IsConcat
<1>8. QED
  BY <1>1, <1>3, <1>7

\* The text of all is that of the first and of the rest.
LEMMA SpelledConcat ==
  ASSUME NEW I, NEW f, TextMap(f, I), NEW s \in Seq(I), NEW t \in Seq(I)
  PROVE  /\ Spelled(f, s) \in Seq(Letters)
         /\ Spelled(f, s \o t) = Spelled(f, s) \o Spelled(f, t)
<1>1. TextsOf(f, s) \in Seq(Seq(Letters)) /\ TextsOf(f, t) \in Seq(Seq(Letters))
  BY TextsOfProperties
<1>2. TextsOf(f, s \o t) = TextsOf(f, s) \o TextsOf(f, t)
  BY TextsOfConcat
<1>3. QED
  BY <1>1, <1>2, FlattenConcat, FlattenType DEF Spelled

\* The text of no item, and of one.
LEMMA SpelledSmall ==
  ASSUME NEW I, NEW f, TextMap(f, I), NEW x \in I
  PROVE  Spelled(f, <<>>) = <<>> /\ Spelled(f, <<x>>) = f[x]
<1>1. TextsOf(f, <<>>) = <<>>
  <2>1. <<>> \in Seq(I) /\ Len(<<>>) = 0
    OBVIOUS
  <2>2. Len(TextsOf(f, <<>>)) = 0 /\ TextsOf(f, <<>>) \in Seq(Seq(Letters))
    BY <2>1, TextsOfProperties
  <2>3. QED
    BY <2>2, EmptySeq
<1>2. TextsOf(f, <<x>>) = <<f[x]>>
  BY DEF TextsOf
<1>3. f[x] \in Seq(Letters)
  BY DEF TextMap
<1>4. QED
  BY <1>1, <1>2, <1>3, FlattenSmall DEF Spelled

\* The text of a first item and of those behind it.
LEMMA SpelledFirst ==
  ASSUME NEW I, NEW f, TextMap(f, I), NEW x \in I, NEW s \in Seq(I)
  PROVE  /\ Spelled(f, Cons(x, s)) = f[x] \o Spelled(f, s)
         /\ TextsOf(f, Cons(x, s)) = Cons(f[x], TextsOf(f, s))
<1>1. PICK o : o = <<x>>
  OBVIOUS
<1>2. o \in Seq(I)
  BY <1>1
<1>3. TextsOf(f, <<x>>) = <<f[x]>> /\ Spelled(f, <<x>>) = f[x]
  BY SpelledSmall DEF TextsOf
<1>4. TextsOf(f, o \o s) = TextsOf(f, o) \o TextsOf(f, s)
  BY <1>2, TextsOfConcat
<1>5. Spelled(f, o \o s) = Spelled(f, o) \o Spelled(f, s)
  BY <1>2, SpelledConcat
<1>6. Cons(x, s) = o \o s
  BY <1>1 DEF Cons
<1>7. Cons(f[x], TextsOf(f, s)) = <<f[x]>> \o TextsOf(f, s)
  BY DEF Cons
<1>8. QED
  BY <1>1, <1>3, <1>4, <1>5, <1>6, <1>7

\* The text of two items, and of three.
FewSpelled(f, x, y, z) == /\ Spelled(f, <<x, y>>) = f[x] \o f[y]
                          /\ Spelled(f, <<x, y, z>>) = (f[x] \o f[y]) \o f[z]

LEMMA SpelledFew ==
  ASSUME NEW I, NEW f, TextMap(f, I), NEW x \in I, NEW y \in I, NEW z \in I
  PROVE  FewSpelled(f, x, y, z)
<1>1. PICK a \in Seq(I), b \in Seq(I), c \in Seq(I) : a = <<x>> /\ b = <<y>> /\ c = <<z>>
  <2>1. <<x>> \in Seq(I) /\ <<y>> \in Seq(I) /\ <<z>> \in Seq(I)
    OBVIOUS
  <2>2. QED
    BY <2>1
<1>2. Spelled(f, a) = f[x] /\ Spelled(f, b) = f[y] /\ Spelled(f, c) = f[z]
  <2>1. ASSUME NEW i \in I PROVE Spelled(f, <<i>>) = f[i]
    BY SpelledSmall
  <2>2. QED
    BY <1>1, <2>1
<1>3. PICK ab \in Seq(I) : ab = a \o b
  BY Appended
<1>4. Spelled(f, ab) = Spelled(f, a) \o Spelled(f, b)
  BY <1>3, SpelledConcat
<1>5. Spelled(f, ab \o c) = Spelled(f, ab) \o Spelled(f, c)
  BY SpelledConcat
<1>6. /\ Len(a) = 1 /\ a[1] = x /\ Len(b) = 1 /\ b[1] = y /\ Len(c) = 1 /\ c[1] = z
  BY <1>1
<1>7. <<x, y>> = a \o b
  <2>1. PICK p : p = <<x, y>>
    OBVIOUS
  <2>2. p \in Seq(I) /\ Len(p) = 2 /\ p[1] = x /\ p[2] = y
    BY <2>1
  <2>3. /\ Len(p) = Len(a) + Len(b) /\ \A i \in 1..Len(a) : p[i] = a[i]
        /\ \A i \in 1..Len(b) : p[Len(a) + i] = b[i]
    BY <1>6, <2>2
  <2>4. p = a \o b
    BY <2>2, <2>3, IsConcat
  <2>5. QED
    BY <2>1, <2>4
<1>8. <<x, y, z>> = ab \o c
  <2>1. PICK p : p = <<x, y, z>>
    OBVIOUS
  <2>2. p \in Seq(I) /\ Len(p) = 3 /\ p[1] = x /\ p[2] = y /\ p[3] = z
    BY <2>1
  <2>3. Len(ab) = 2 /\ ab[1] = x /\ ab[2] = y
    BY <1>3, <1>7
  <2>4. /\ Len(p) = Len(ab) + Len(c) /\ \A i \in 1..Len(ab) : p[i] = ab[i]
        /\ \A i \in 1..Len(c) : p[Len(ab) + i] = c[i]
    BY <1>6, <2>2, <2>3
  <2>5. p = ab \o c
    BY <2>2, <2>4, IsConcat
  <2>6. QED
    BY <2>1, <2>5
<1>9. QED
  BY <1>2, <1>3, <1>4, <1>5, <1>7, <1>8 DEF FewSpelled

\* Texts one after the other, in any order of putting them together.
LEMMA Associative ==
  ASSUME NEW a \in Seq(Letters), NEW b \in Seq(Letters), NEW c \in Seq(Letters)
  PROVE  (a \o b) \o c = a \o (b \o c) /\ a \o b \in Seq(Letters)
BY ConcatAssociative, Appended

\* What stands behind the first member in a join.
Commas(s) == [i \in 1..Len(s) |-> Separator \o s[i]]

\* They are texts.
LEMMA CommasType ==
  ASSUME NEW s \in Seq(Seq(Letters))
  PROVE  /\ Commas(s) \in Seq(Seq(Letters)) /\ Len(Commas(s)) = Len(s)
         /\ \A i \in 1..Len(s) : Commas(s)[i] = Separator \o s[i]
<1>1. Len(s) \in Nat /\ \A i \in 1..Len(s) : s[i] \in Seq(Letters)
  OBVIOUS
<1>2. \A i \in 1..Len(s) : Separator \o s[i] \in Seq(Letters)
  BY <1>1, PunctuationType, Appended
<1>3. QED
  BY <1>1, <1>2, IsASeq DEF Commas

\* A join is its first member and what stands behind it.
LEMMA JoinParts ==
  ASSUME NEW x \in Seq(Letters), NEW s \in Seq(Seq(Letters))
  PROVE  Join(Cons(x, s)) = x \o FlattenSeq(Commas(s))
<1>1. PICK xs : xs = Cons(x, s)
  OBVIOUS
<1>2. Prepends(xs, x, s, Seq(Letters))
  BY <1>1, ConsProperties
<1>3. /\ xs \in Seq(Seq(Letters)) /\ Len(xs) = Len(s) + 1 /\ xs[1] = x
      /\ \A i \in 1..Len(s) : xs[i + 1] = s[i]
  BY <1>2 DEF Prepends
<1>4. PICK c : c = Commas(s)
  OBVIOUS
<1>5. c \in Seq(Seq(Letters)) /\ Len(c) = Len(s) /\ \A i \in 1..Len(s) : c[i] = Separator \o s[i]
  BY <1>4, CommasType
<1>6. PICK m \in Nat : m = Len(s)
  OBVIOUS
<1> DEFINE j == [i \in 1..Len(xs) |-> IF i = 1 THEN xs[1] ELSE Separator \o xs[i]]
<1>7. j[1] = x /\ \A i \in 1..m : j[i + 1] = c[i]
  <2>1. 1 \in 1..Len(xs) /\ \A i \in 1..m : i + 1 \in 1..Len(xs) /\ i + 1 # 1
    BY <1>3, <1>6
  <2>2. j[1] = x
    BY <1>3, <2>1
  <2>3. \A i \in 1..m : j[i + 1] = Separator \o xs[i + 1]
    BY <2>1
  <2>4. QED
    BY <1>3, <1>5, <1>6, <2>2, <2>3
<1>8. \A i \in 1..(m + 1) : j[i] \in Seq(Letters)
  <2> HIDE DEF j
  <2>1. ASSUME NEW i \in 1..(m + 1) PROVE j[i] \in Seq(Letters)
    <3>1. CASE i = 1
      BY <1>7, <3>1
    <3>2. CASE i # 1
      <4>1. PICK k \in 1..m : i = k + 1
        <5>1. i - 1 \in 1..m /\ i = (i - 1) + 1
          BY <3>2
        <5>2. QED
          BY <5>1
      <4>2. c[k] \in Seq(Letters)
        BY <1>5, <1>6
      <4>3. QED
        BY <1>7, <4>1, <4>2
    <3>3. QED
      BY <3>1, <3>2
  <2>2. QED
    BY <2>1
<1>9. j \in Seq(Seq(Letters)) /\ Len(j) = m + 1
  <2>1. Len(xs) = m + 1 /\ m + 1 \in Nat
    BY <1>3, <1>6
  <2>2. DOMAIN j = 1..(m + 1) /\ j = [i \in 1..(m + 1) |-> j[i]]
    BY <2>1
  <2> HIDE DEF j
  <2>3. j \in [1..(m + 1) -> Seq(Letters)]
    BY <1>8, <2>2
  <2>4. QED
    BY <2>1, <2>3
<1>10. Join(xs) = FlattenSeq(j)
  BY DEF Join
<1> HIDE DEF j
<1>11. j = Cons(x, c)
  <2>1. Len(j) = Len(c) + 1 /\ j[1] = x /\ \A i \in 1..Len(c) : j[i + 1] = c[i]
    BY <1>5, <1>6, <1>7, <1>9
  <2>2. QED
    BY <1>5, <1>9, <2>1, IsPrepended
<1>12. FlattenSeq(Cons(x, c)) = x \o FlattenSeq(c)
  BY <1>5, FlattenFirst
<1>13. QED
  BY <1>1, <1>4, <1>10, <1>11, <1>12

\* Nothing is joined to nothing,
LEMMA JoinEmpty == Join(<<>>) = <<>>
<1>1. [i \in 1..Len(<<>>) |-> IF i = 1 THEN <<>>[1] ELSE Separator \o <<>>[i]] = <<>>
  <2>1. Len(<<>>) = 0
    OBVIOUS
  <2>2. QED
    BY <2>1, EmptySeq
<1>2. Join(<<>>) = FlattenSeq(<<>>)
  BY <1>1 DEF Join
<1>3. FlattenSeq(<<>>) = <<>>
  BY DEF FlattenSeq
<1>4. QED
  BY <1>2, <1>3

\* and texts are joined to a text.
LEMMA JoinType ==
  ASSUME NEW s \in Seq(Seq(Letters))
  PROVE  Join(s) \in Seq(Letters)
<1>1. CASE s = <<>>
  <2>1. <<>> \in Seq(Letters)
    OBVIOUS
  <2>2. QED
    BY <1>1, <2>1, JoinEmpty
<1>2. CASE s # <<>>
  <2>1. PICK y, t : y = Head(s) /\ t = Tail(s)
    OBVIOUS
  <2>2. y \in Seq(Letters) /\ t \in Seq(Seq(Letters)) /\ s = Cons(y, t)
    BY <1>2, <2>1, HasFirst
  <2>3. PICK F \in Seq(Letters) : F = FlattenSeq(Commas(t))
    BY <2>2, CommasType, FlattenType
  <2>4. Join(s) = y \o F
    BY <2>2, <2>3, JoinParts
  <2>5. QED
    BY <2>2, <2>4, Associative
<1>3. QED
  BY <1>1, <1>2

\* A join is of its first member and of the others.
LEMMA JoinFirst ==
  ASSUME NEW x \in Seq(Letters), NEW s \in Seq(Seq(Letters))
  PROVE  /\ Join(<<>>) = <<>> /\ Join(<<x>>) = x
         /\ s # <<>> => Join(Cons(x, s)) = x \o (Separator \o Join(s))
<1>1. Join(<<>>) = <<>>
  BY JoinEmpty
<1>2. Join(<<x>>) = x
  <2>1. Join(Cons(x, <<>>)) = x \o FlattenSeq(Commas(<<>>))
    <3>1. <<>> \in Seq(Seq(Letters))
      OBVIOUS
    <3>2. QED
      BY <3>1, JoinParts
  <2>2. Commas(<<>>) = <<>>
    <3>1. Len(<<>>) = 0
      OBVIOUS
    <3>2. QED
      BY <3>1, EmptySeq DEF Commas
  <2>3. Cons(x, <<>>) = <<x>>
    <3>1. <<x>> \in Seq(Seq(Letters))
      OBVIOUS
    <3>2. QED
      BY <3>1, ConcatEmptySeq DEF Cons
  <2>4. QED
    BY <2>1, <2>2, <2>3, FlattenSmall, ConcatEmptySeq
<1>3. ASSUME s # <<>> PROVE Join(Cons(x, s)) = x \o (Separator \o Join(s))
  <2>1. PICK y \in Seq(Letters), t \in Seq(Seq(Letters)) : s = Cons(y, t)
    <3>1. PICK y, t : y = Head(s) /\ t = Tail(s)
      OBVIOUS
    <3>2. y \in Seq(Letters) /\ t \in Seq(Seq(Letters)) /\ s = Cons(y, t)
      BY <1>3, <3>1, HasFirst
    <3>3. QED
      BY <3>2
  <2>2. PICK z \in Seq(Letters) : z = Separator \o y
    BY PunctuationType, Appended
  <2>3. PICK c, d : c = Commas(t) /\ d = Commas(s)
    OBVIOUS
  <2>4. /\ c \in Seq(Seq(Letters)) /\ Len(c) = Len(t)
        /\ \A i \in 1..Len(t) : c[i] = Separator \o t[i]
    BY <2>3, CommasType
  <2>5. /\ d \in Seq(Seq(Letters)) /\ Len(d) = Len(s)
        /\ \A i \in 1..Len(s) : d[i] = Separator \o s[i]
    BY <2>3, CommasType
  <2>6. Prepends(s, y, t, Seq(Letters))
    BY <2>1, ConsProperties
  <2>7. /\ Len(s) = Len(t) + 1 /\ s[1] = y
        /\ \A i \in 1..Len(t) : s[i + 1] = t[i]
    BY <2>6 DEF Prepends
  <2>8. d = Cons(z, c)
    <3>1. 1 \in 1..Len(s) /\ \A i \in 1..Len(t) : i + 1 \in 1..Len(s)
      BY <2>7
    <3>2. d[1] = z /\ \A i \in 1..Len(c) : d[i + 1] = c[i]
      BY <2>2, <2>4, <2>5, <2>7, <3>1
    <3>3. Len(d) = Len(c) + 1
      BY <2>4, <2>5, <2>7
    <3>4. QED
      BY <2>4, <2>5, <3>2, <3>3, IsPrepended
  <2>9. PICK F \in Seq(Letters) : F = FlattenSeq(c)
    BY <2>4, FlattenType
  <2>10. FlattenSeq(d) = z \o F
    BY <2>4, <2>8, <2>9, FlattenFirst
  <2>11. Join(s) = y \o F
    BY <2>1, <2>3, <2>9, JoinParts
  <2>12. PICK sep \in Seq(Letters) : sep = Separator
    BY PunctuationType
  <2>13. (sep \o y) \o F = sep \o (y \o F)
    BY Associative
  <2>14. Join(Cons(x, s)) = x \o FlattenSeq(d)
    BY <2>3, JoinParts
  <2>15. QED
    BY <2>2, <2>10, <2>11, <2>12, <2>13, <2>14
<1>4. QED
  BY <1>1, <1>2, <1>3

-----------------------------------------------------------------------------
(***************************************************************************)
(* Items with separators between them.                                     *)
(***************************************************************************)

\* Between two members of what is separated stands a separator.
LEMMA SeparatedProperties ==
  ASSUME NEW I, Text(Separator) \in I, NEW s \in Seq(I), s # <<>>
  PROVE  /\ Separated(s) \in Seq(I) /\ Len(Separated(s)) = 2 * Len(s) - 1
         /\ \A i \in 1..(2 * Len(s) - 1) :
              Separated(s)[i] = IF i % 2 = 0 THEN Text(Separator) ELSE s[(i + 1) \div 2]
<1>1. Len(s) \in Nat \ {0}
  BY EmptySeq
<1>2. PICK m \in Nat : m = 2 * Len(s) - 1
  <2>1. 2 * Len(s) - 1 \in Nat
    BY <1>1
  <2>2. QED
    BY <2>1
<1>3. Separated(s) = [i \in 1..m |-> IF i % 2 = 0 THEN Text(Separator) ELSE s[(i + 1) \div 2]]
  BY <1>2 DEF Separated
<1>4. ASSUME NEW i \in 1..m
      PROVE  (IF i % 2 = 0 THEN Text(Separator) ELSE s[(i + 1) \div 2]) \in I
  <2>1. (i + 1) \div 2 \in 1..Len(s)
    BY <1>1, <1>2
  <2>2. s[(i + 1) \div 2] \in I
    BY <2>1
  <2>3. QED
    BY <2>2
<1>5. Separated(s) \in Seq(I) /\ Len(Separated(s)) = m
  <2>1. Separated(s) \in [1..m -> I]
    BY <1>3, <1>4
  <2>2. QED
    BY <2>1
<1>6. QED
  BY <1>2, <1>3, <1>5

\* No member has nothing to be separated from, and one has not either.
LEMMA SeparatedSmall ==
  ASSUME NEW I, Text(Separator) \in I, NEW x \in I
  PROVE  Separated(<<>>) = <<>> /\ Separated(<<x>>) = <<x>>
<1>1. Separated(<<>>) = <<>>
  BY EmptySeq DEF Separated
<1>2. PICK s \in Seq(I) : s = <<x>>
  <2>1. <<x>> \in Seq(I)
    OBVIOUS
  <2>2. QED
    BY <2>1
<1>3. Len(s) = 1 /\ s[1] = x /\ s # <<>> /\ 2 * Len(s) - 1 = 1
  BY <1>2
<1>4. PICK r : r = Separated(s)
  OBVIOUS
<1>5. /\ r \in Seq(I) /\ Len(r) = 1
      /\ \A i \in 1..1 : r[i] = IF i % 2 = 0 THEN Text(Separator) ELSE s[(i + 1) \div 2]
  BY <1>3, <1>4, SeparatedProperties
<1>6. r[1] = s[1]
  <2>1. 1 \in 1..1 /\ 1 % 2 # 0 /\ (1 + 1) \div 2 = 1
    OBVIOUS
  <2>2. QED
    BY <1>5, <2>1
<1>7. \A i \in 1..Len(r) : r[i] = s[i]
  BY <1>5, <1>6
<1>8. r = s
  BY <1>3, <1>5, <1>7, SeqEqual
<1>9. QED
  BY <1>1, <1>2, <1>4, <1>8

\* What is separated behind a first member.
LEMMA SeparatedFirst ==
  ASSUME NEW I, Text(Separator) \in I, NEW x \in I, NEW t \in Seq(I), t # <<>>
  PROVE  Separated(Cons(x, t)) = Cons(x, Cons(Text(Separator), Separated(t)))
<1>1. PICK s : s = Cons(x, t)
  OBVIOUS
<1>2. PICK n \in Nat \ {0} : n = Len(t)
  BY EmptySeq
<1>3. Prepends(s, x, t, I)
  BY <1>1, ConsProperties
<1>4. /\ s \in Seq(I) /\ Len(s) = n + 1 /\ s[1] = x /\ \A i \in 1..n : s[i + 1] = t[i]
  BY <1>2, <1>3 DEF Prepends
<1>5. s # <<>>
  BY <1>4
<1>6. PICK r, q : r = Separated(s) /\ q = Separated(t)
  OBVIOUS
<1>7. PICK m \in Nat : m = 2 * n - 1
  <2>1. 2 * n - 1 \in Nat
    BY <1>2
  <2>2. QED
    BY <2>1
<1>8. /\ r \in Seq(I) /\ Len(r) = m + 2
      /\ \A i \in 1..(m + 2) : r[i] = IF i % 2 = 0 THEN Text(Separator) ELSE s[(i + 1) \div 2]
  <2>1. 2 * Len(s) - 1 = m + 2
    BY <1>4, <1>7
  <2>2. QED
    BY <1>4, <1>5, <1>6, <2>1, SeparatedProperties
<1>9. /\ q \in Seq(I) /\ Len(q) = m
      /\ \A i \in 1..m : q[i] = IF i % 2 = 0 THEN Text(Separator) ELSE t[(i + 1) \div 2]
  BY <1>2, <1>6, <1>7, SeparatedProperties
<1>10. PICK v : v = Cons(Text(Separator), q)
  OBVIOUS
<1>11. Prepends(v, Text(Separator), q, I)
  <2>1. PICK sep \in I : sep = Text(Separator)
    OBVIOUS
  <2>2. q \in Seq(I)
    BY <1>9
  <2>3. Prepends(Cons(sep, q), sep, q, I)
    BY <2>2, ConsProperties
  <2>4. QED
    BY <1>10, <2>1, <2>3
<1>12. /\ v \in Seq(I) /\ Len(v) = m + 1 /\ v[1] = Text(Separator)
       /\ \A i \in 1..m : v[i + 1] = q[i]
  BY <1>9, <1>11 DEF Prepends
<1>13. r[1] = x
  <2>1. 1 \in 1..(m + 2) /\ 1 % 2 # 0 /\ (1 + 1) \div 2 = 1
    OBVIOUS
  <2>2. QED
    BY <1>4, <1>8, <2>1
<1>14. ASSUME NEW i \in 1..(m + 1) PROVE r[i + 1] = v[i]
  <2>1. PICK j \in 1..(m + 2) : j = i + 1
    OBVIOUS
  <2>2. CASE i = 1
    <3>1. j % 2 = 0
      BY <2>1, <2>2
    <3>2. QED
      BY <1>8, <1>12, <2>1, <2>2, <3>1
  <2>3. CASE i # 1
    <3>1. PICK k \in 1..m : i = k + 1
      <4>1. i - 1 \in 1..m /\ i = (i - 1) + 1
        BY <2>3
      <4>2. QED
        BY <4>1
    <3>2. v[i] = q[k]
      BY <1>12, <3>1
    <3>3. CASE k % 2 = 0
      <4>1. j % 2 = 0
        BY <2>1, <3>1, <3>3
      <4>2. QED
        BY <1>8, <1>9, <2>1, <3>2, <3>3, <4>1
    <3>4. CASE k % 2 # 0
      <4>1. j % 2 # 0 /\ (j + 1) \div 2 = ((k + 1) \div 2) + 1 /\ (k + 1) \div 2 \in 1..n
        BY <1>7, <2>1, <3>1, <3>4
      <4>2. PICK h \in 1..n : h = (k + 1) \div 2
        BY <4>1
      <4>3. r[j] = s[h + 1]
        BY <1>8, <4>1, <4>2
      <4>4. q[k] = t[h]
        BY <1>9, <3>4, <4>2
      <4>5. QED
        BY <1>4, <2>1, <3>2, <4>3, <4>4
    <3>5. QED
      BY <3>3, <3>4
  <2>4. QED
    BY <2>2, <2>3
<1>15. r = Cons(x, v)
  <2>1. Len(r) = Len(v) + 1 /\ \A i \in 1..Len(v) : r[i + 1] = v[i]
    BY <1>8, <1>12, <1>14
  <2>2. QED
    BY <1>8, <1>12, <1>13, <2>1, IsPrepended
<1>16. QED
  BY <1>1, <1>6, <1>10, <1>15

\* The text of what is separated is a join.
SeparatedIsJoin(f, s) == Spelled(f, Separated(s)) = Join(TextsOf(f, s))

\* By induction on the number of members.
LEMMA SpelledSeparated ==
  ASSUME NEW I, NEW f, TextMap(f, I), Text(Separator) \in I,
         f[Text(Separator)] = Separator, NEW s \in Seq(I)
  PROVE  Spelled(f, Separated(s)) = Join(TextsOf(f, s))
<1> DEFINE S == {n \in Nat : \A t \in Seq(I) : Len(t) = n => SeparatedIsJoin(f, t)}
<1>1. 0 \in S
  <2>1. ASSUME NEW t \in Seq(I), Len(t) = 0 PROVE SeparatedIsJoin(f, t)
    <3>1. t = <<>>
      BY <2>1, EmptySeq
    <3>2. Separated(<<>>) = <<>> /\ Spelled(f, <<>>) = <<>>
      BY SeparatedSmall, SpelledSmall
    <3>3. TextsOf(f, <<>>) = <<>>
      BY EmptySeq DEF TextsOf
    <3>4. Join(<<>>) = <<>>
      BY JoinEmpty
    <3>5. QED
      BY <3>1, <3>2, <3>3, <3>4 DEF SeparatedIsJoin
  <2>2. QED
    BY <2>1
<1>2. ASSUME NEW n \in Nat, n \in S PROVE n + 1 \in S
  <2>1. ASSUME NEW t \in Seq(I), Len(t) = n + 1 PROVE SeparatedIsJoin(f, t)
    <3>1. t # <<>>
      BY <2>1
    <3>2. PICK x, u : x = Head(t) /\ u = Tail(t)
      OBVIOUS
    <3>3. x \in I /\ u \in Seq(I)
      BY <3>1, <3>2, HasFirst
    <3>4. x \in I /\ u \in Seq(I) /\ t = Cons(x, u) /\ Len(t) = Len(u) + 1 /\ Len(u) \in Nat
      BY <3>1, <3>2, HasFirst
    <3>5. Len(u) = n
      BY <2>1, <3>4
    <3>6. SeparatedIsJoin(f, u)
      BY <1>2, <3>4, <3>5
    <3>7. <<x>> \in Seq(I) /\ TextsOf(f, t) = Cons(f[x], TextsOf(f, u))
      <4>1. <<x>> \in Seq(I)
        BY <3>4
      <4>2. TextsOf(f, Cons(x, u)) = Cons(f[x], TextsOf(f, u))
        BY <3>3, SpelledFirst
      <4>3. QED
        BY <3>4, <4>1, <4>2
    <3>8. PICK y \in Seq(Letters) : y = f[x]
      BY <3>4 DEF TextMap
    <3>9. PICK w : w = TextsOf(f, u)
      OBVIOUS
    <3>10. w \in Seq(Seq(Letters)) /\ Len(w) = Len(u)
      BY <3>4, <3>9, TextsOfProperties
    <3>11. Spelled(f, <<x>>) = y
      BY <3>4, <3>8, SpelledSmall
    <3>12. CASE u = <<>>
      <4>1. w = <<>>
        BY <3>10, <3>12, EmptySeq
      <4>2. Cons(x, <<>>) = <<x>> /\ Cons(y, <<>>) = <<y>>
        <5>1. <<y>> \in Seq(Seq(Letters))
          OBVIOUS
        <5>2. QED
          BY <3>7, <5>1, ConcatEmptySeq DEF Cons
      <4>3. Separated(<<x>>) = <<x>>
        BY <3>4, SeparatedSmall
      <4>4. Join(<<y>>) = y
        BY <3>10, JoinFirst
      <4>5. QED
        BY <3>4, <3>7, <3>8, <3>9, <3>11, <3>12, <4>1, <4>2, <4>3, <4>4 DEF SeparatedIsJoin
    <3>13. CASE u # <<>>
      <4>1. PICK q : q = Separated(u)
        OBVIOUS
      <4>2. q \in Seq(I) /\ Separated(t) = Cons(x, Cons(Text(Separator), q))
        BY <3>4, <3>13, <4>1, SeparatedFirst, SeparatedProperties
      <4>3. PICK v : v = Cons(Text(Separator), q)
        OBVIOUS
      <4>4. PICK sep \in I : sep = Text(Separator)
        OBVIOUS
      <4>5. q \in Seq(I)
        BY <4>2
      <4>6. Prepends(Cons(sep, q), sep, q, I)
        BY <4>5, ConsProperties
      <4>7. v \in Seq(I)
        BY <4>3, <4>4, <4>6 DEF Prepends
      <4>8. Spelled(f, v) = Separator \o Spelled(f, q)
        <5>1. Spelled(f, Cons(sep, q)) = f[sep] \o Spelled(f, q)
          BY <4>5, SpelledFirst
        <5>2. QED
          BY <4>3, <4>4, <5>1
      <4>9. Spelled(f, Separated(t)) = y \o (Separator \o Spelled(f, q))
        <5>1. Spelled(f, Cons(x, v)) = f[x] \o Spelled(f, v)
          BY <3>3, <4>7, SpelledFirst
        <5>2. QED
          BY <3>8, <4>2, <4>3, <4>8, <5>1
      <4>10. w # <<>>
        BY <3>4, <3>10, <3>13, EmptySeq
      <4>11. Join(Cons(y, w)) = y \o (Separator \o Join(w))
        BY <3>10, <4>10, JoinFirst
      <4>12. Spelled(f, q) = Join(w)
        BY <3>6, <3>9, <4>1 DEF SeparatedIsJoin
      <4>13. QED
        BY <3>7, <3>8, <3>9, <4>9, <4>11, <4>12 DEF SeparatedIsJoin
    <3>14. QED
      BY <3>12, <3>13
  <2>2. QED
    BY <2>1
<1>3. Nat \subseteq S
  <2> HIDE DEF S
  <2>1. QED
    BY <1>1, <1>2, NumbersInduction
<1>4. Len(s) \in Nat
  OBVIOUS
<1>5. QED
  BY <1>3, <1>4 DEF SeparatedIsJoin

-----------------------------------------------------------------------------
(***************************************************************************)
(* Where the chains of pointers end, and the elements of lists.            *)
(***************************************************************************)

\* The objects from which the chains of pointers are shorter than d.
LEMMA EndingDef ==
  /\ ending[0] = {}
  /\ \A d \in Nat : ending[d + 1] = {o \in DOMAIN heap : Pointed(o) \subseteq ending[d]}
<1> DEFINE V == SUBSET DOMAIN heap
           base == {}
           next == [T \in V |-> {o \in DOMAIN heap : Pointed(o) \subseteq T}]
           step == [n \in Nat |-> next]
           smaller == [n \in Nat |-> IF n = 0 THEN 0 ELSE n - 1]
<1>1. base \in V /\ step \in [Nat -> [V -> V]] /\ Descends(smaller)
  <2>1. next \in [V -> V]
    OBVIOUS
  <2> HIDE DEF next, V
  <2>2. step \in [Nat -> [V -> V]]
    BY <2>1
  <2>3. Descends(smaller)
    BY DEF Descends
  <2>4. QED
    BY <2>2, <2>3 DEF V
<1>2. PICK h : IsRecursive(h, V, base, step, smaller)
  <2> HIDE DEF step, smaller, V, base
  <2>1. QED
    BY <1>1, RecursiveFunction
<1>3. h \in [Nat -> V] /\ h[0] = {}
  BY <1>2 DEF IsRecursive
<1>4. ASSUME NEW n \in Nat, n # 0
      PROVE  h[n] = {o \in DOMAIN heap : Pointed(o) \subseteq h[n - 1]}
  <2>1. n - 1 \in Nat /\ smaller[n] = n - 1
    BY <1>4
  <2>2. h[n - 1] \in V
    BY <1>3, <2>1
  <2> HIDE DEF smaller, V, next
  <2>3. h[n] = next[h[n - 1]]
    BY <1>2, <1>4, <2>1 DEF IsRecursive
  <2>4. QED
    BY <2>2, <2>3 DEF next
<1> HIDE DEF step, smaller, V, base, next
<1>5. h = [d \in Nat |-> IF d = 0 THEN {}
                         ELSE {o \in DOMAIN heap : Pointed(o) \subseteq h[d - 1]}]
  BY <1>3, <1>4
<1>6. ending = [d \in Nat |-> IF d = 0 THEN {}
                         ELSE {o \in DOMAIN heap : Pointed(o) \subseteq ending[d - 1]}]
  BY <1>5 DEF ending
<1>7. ASSUME NEW d \in Nat
      PROVE  ending[d + 1] = {o \in DOMAIN heap : Pointed(o) \subseteq ending[d]}
  <2>1. PICK n \in Nat : n = d + 1
    OBVIOUS
  <2>2. n # 0 /\ n - 1 = d
    BY <2>1
  <2>3. ending[n] = {o \in DOMAIN heap : Pointed(o) \subseteq ending[n - 1]}
    BY <1>6, <2>2
  <2>4. QED
    BY <2>1, <2>2, <2>3
<1>8. ending[0] = {}
  BY <1>6
<1>9. QED
  BY <1>7, <1>8

\* They are more for a larger d.
LEMMA EndingGrows ==
  ASSUME NEW d \in Nat
  PROVE  ending[d] \subseteq ending[d + 1] /\ ending[d] \subseteq DOMAIN heap
<1> DEFINE S == {n \in Nat : ending[n] \subseteq ending[n + 1] /\ ending[n] \subseteq DOMAIN heap}
<1>1. 0 \in S
  BY EndingDef
<1>2. ASSUME NEW n \in Nat, n \in S PROVE n + 1 \in S
  <2>1. PICK m \in Nat : m = n + 1
    OBVIOUS
  <2>2. ending[m] = {o \in DOMAIN heap : Pointed(o) \subseteq ending[n]}
    BY <2>1, EndingDef
  <2>3. ending[m + 1] = {o \in DOMAIN heap : Pointed(o) \subseteq ending[m]}
    BY EndingDef
  <2>4. ending[n] \subseteq ending[m]
    BY <1>2, <2>1
  <2>5. ending[m] \subseteq ending[m + 1] /\ ending[m] \subseteq DOMAIN heap
    BY <2>2, <2>3, <2>4
  <2>6. QED
    BY <2>1, <2>5
<1>3. Nat \subseteq S
  <2> HIDE DEF S
  <2>1. QED
    BY <1>1, <1>2, NumbersInduction
<1>4. QED
  BY <1>3

\* With as many steps as there are objects, there are no more.
LEMMA EndingEnds ==
  ASSUME IsFiniteSet(DOMAIN heap)
  PROVE  Size \in Nat /\ ending[Size + 1] = ending[Size]
<1>1. Size \in Nat
  BY FS_CardinalityType DEF Size
<1>2. ASSUME NEW d \in Nat
      PROVE  /\ IsFiniteSet(ending[d]) /\ Cardinality(ending[d]) \in Nat
             /\ Cardinality(ending[d]) <= Size
             /\ Cardinality(ending[d]) = Size => ending[d] = DOMAIN heap
  <2>1. ending[d] \in SUBSET DOMAIN heap
    BY EndingGrows
  <2>2. /\ IsFiniteSet(ending[d]) /\ Cardinality(ending[d]) <= Cardinality(DOMAIN heap)
        /\ Cardinality(DOMAIN heap) = Cardinality(ending[d]) => DOMAIN heap = ending[d]
    BY <2>1, FS_Subset
  <2>3. Cardinality(ending[d]) \in Nat
    BY <2>2, FS_CardinalityType
  <2>4. QED
    BY <2>2, <2>3 DEF Size
<1> DEFINE S == {d \in Nat : Cardinality(ending[d]) >= d \/ ending[d + 1] = ending[d]}
<1>3. 0 \in S
  <2>1. Cardinality(ending[0]) \in Nat
    BY <1>2
  <2>2. QED
    BY <2>1
<1>4. ASSUME NEW d \in Nat, d \in S PROVE d + 1 \in S
  <2>1. PICK n \in Nat : n = d + 1
    OBVIOUS
  <2>2. CASE ending[n] = ending[d]
    <3>1. /\ ending[n + 1] = {o \in DOMAIN heap : Pointed(o) \subseteq ending[n]}
          /\ ending[n] = {o \in DOMAIN heap : Pointed(o) \subseteq ending[d]}
      BY <2>1, EndingDef
    <3>2. ending[n + 1] = ending[n]
      BY <2>2, <3>1
    <3>3. QED
      BY <2>1, <3>2
  <2>3. CASE ending[n] # ending[d]
    <3>1. Cardinality(ending[d]) >= d
      BY <1>4, <2>1, <2>3
    <3>2. ending[d] \in SUBSET ending[n]
      BY <2>1, EndingGrows
    <3>3. IsFiniteSet(ending[n]) /\ Cardinality(ending[n]) \in Nat /\ Cardinality(ending[d]) \in Nat
      BY <1>2
    <3>4. /\ Cardinality(ending[d]) <= Cardinality(ending[n])
          /\ Cardinality(ending[n]) = Cardinality(ending[d]) => ending[n] = ending[d]
      BY <3>2, <3>3, FS_Subset
    <3>5. Cardinality(ending[n]) >= n
      BY <2>1, <2>3, <3>1, <3>3, <3>4
    <3>6. QED
      BY <2>1, <3>5
  <2>4. QED
    BY <2>2, <2>3
<1>5. Nat \subseteq S
  <2> HIDE DEF S
  <2>1. QED
    BY <1>3, <1>4, NumbersInduction
<1>6. Cardinality(ending[Size]) >= Size \/ ending[Size + 1] = ending[Size]
  BY <1>1, <1>5
<1>7. CASE Cardinality(ending[Size]) >= Size
  <2>1. ending[Size] = DOMAIN heap
    BY <1>1, <1>2, <1>7
  <2>2. ending[Size] \subseteq ending[Size + 1] /\ ending[Size + 1] \subseteq DOMAIN heap
    BY <1>1, EndingGrows
  <2>3. QED
    BY <1>1, <2>1, <2>2
<1>8. QED
  BY <1>1, <1>6, <1>7

\* What a word of an object points to, is pointed to by the object.
LEMMA PointedTo ==
  ASSUME NEW o \in DOMAIN heap, heap[o].kind # "STRING",
         NEW i \in 1..Len(heap[o].contents), heap[o].contents \in Seq(Word(heap)),
         heap[o].contents[i][1] = "ptr"
  PROVE  heap[o].contents[i][2] \in Pointed(o)
<1>1. heap[o].contents[i] \in {x \in ToSet(heap[o].contents) : x[1] = "ptr"}
  BY DEF ToSet
<1>2. Pointed(o) = {w[2] : w \in {x \in ToSet(heap[o].contents) : x[1] = "ptr"}}
  BY DEF Pointed
<1>3. QED
  BY <1>1, <1>2

\* The cell of a list.
First(o) == heap[o].contents[1]
Rest(o) == heap[o].contents[2]

\* It has an element and a tail, which is a number or a cell.
LEMMA CellFacts ==
  ASSUME HeapInv, NEW o \in Lists
  PROVE  /\ o \in DOMAIN heap /\ heap[o].kind = "SEXP"
         /\ heap[o].contents \in Seq(Word(heap)) /\ Len(heap[o].contents) = 2
         /\ First(o) \in Word(heap) /\ Rest(o) \in Word(heap)
         /\ ~ UNBOXED(Rest(o)) => /\ Rest(o)[1] = "ptr"
                                  /\ Rest(o)[2] \in Lists /\ Rest(o)[2] \in Pointed(o)
         /\ First(o)[1] = "ptr" => First(o)[2] \in Pointed(o)
<1>1. o \in DOMAIN heap /\ heap[o].kind = "SEXP"
  BY DEF Lists, Sexps
<1>2. heap[o].contents \in Seq(Word(heap)) /\ Len(heap[o].contents) = 2
  BY <1>1, HeapFacts
<1>3. 1 \in 1..Len(heap[o].contents) /\ 2 \in 1..Len(heap[o].contents)
  BY <1>2
<1>4. First(o) \in Word(heap) /\ Rest(o) \in Word(heap)
  BY <1>2, <1>3 DEF First, Rest
<1>5. Rest(o)[1] = "int" \/ (Rest(o)[1] = "ptr" /\ Rest(o)[2] \in Lists)
  BY HeapFacts DEF Rest
<1>6. First(o)[1] = "ptr" => First(o)[2] \in Pointed(o)
  BY <1>1, <1>2, <1>3, PointedTo DEF First
<1>7. Rest(o)[1] = "ptr" => Rest(o)[2] \in Pointed(o)
  BY <1>1, <1>2, <1>3, PointedTo DEF Rest
<1>8. QED
  BY <1>1, <1>2, <1>4, <1>5, <1>6, <1>7 DEF UNBOXED

\* The elements of lists: the first of a cell and those of its tail.
WordLists(e) == e \in [DOMAIN heap -> Seq(Word(heap))]
Elements(e, o) == Cons(First(o), IF UNBOXED(Rest(o)) THEN <<>> ELSE e[Rest(o)[2]])

\* They are words.
LEMMA ElementsType ==
  ASSUME HeapInv, NEW e, WordLists(e), NEW o \in Lists
  PROVE  /\ (IF UNBOXED(Rest(o)) THEN <<>> ELSE e[Rest(o)[2]]) \in Seq(Word(heap))
         /\ Elements(e, o) \in Seq(Word(heap))
<1>1. First(o) \in Word(heap) /\ (~ UNBOXED(Rest(o)) => Rest(o)[2] \in DOMAIN heap)
  BY CellFacts DEF Lists, Sexps
<1>2. PICK s : s = IF UNBOXED(Rest(o)) THEN <<>> ELSE e[Rest(o)[2]]
  OBVIOUS
<1>3. s \in Seq(Word(heap))
  <2>1. CASE UNBOXED(Rest(o))
    BY <1>2, <2>1
  <2>2. CASE ~ UNBOXED(Rest(o))
    <3>1. s = e[Rest(o)[2]] /\ Rest(o)[2] \in DOMAIN heap
      BY <1>1, <1>2, <2>2
    <3>2. QED
      BY <3>1 DEF WordLists
  <2>3. QED
    BY <2>1, <2>2
<1>4. Cons(First(o), s) \in Seq(Word(heap))
  <2>1. PICK x \in Word(heap) : x = First(o)
    BY <1>1
  <2>2. Prepends(Cons(x, s), x, s, Word(heap))
    BY <1>3, ConsProperties
  <2>3. QED
    BY <2>1, <2>2 DEF Prepends
<1>5. QED
  BY <1>2, <1>3, <1>4 DEF Elements

\* The definition of elements, one cell more at each step.
LEMMA ElementsDef ==
  ASSUME HeapInv
  PROVE  /\ \A o \in Lists : elements[0][o] = <<>>
         /\ \A d \in Nat : /\ WordLists(elements[d])
                           /\ \A o \in Lists : elements[d + 1][o] = Elements(elements[d], o)
<1> DEFINE V == [DOMAIN heap -> Seq(Word(heap))]
           base == [o \in DOMAIN heap |-> <<>>]
           next == [e \in V |-> [o \in DOMAIN heap |->
                                    IF o \notin Lists THEN <<>> ELSE Elements(e, o)]]
           step == [n \in Nat |-> next]
           smaller == [n \in Nat |-> IF n = 0 THEN 0 ELSE n - 1]
<1>1. base \in V
  <2>1. <<>> \in Seq(Word(heap))
    OBVIOUS
  <2>2. QED
    BY <2>1
<1>2. next \in [V -> V]
  <2>1. ASSUME NEW e \in V, NEW o \in DOMAIN heap
        PROVE  (IF o \notin Lists THEN <<>> ELSE Elements(e, o)) \in Seq(Word(heap))
    <3>1. WordLists(e)
      BY DEF WordLists
    <3>2. CASE o \in Lists
      BY <3>1, <3>2, ElementsType
    <3>3. CASE o \notin Lists
      BY <3>3
    <3>4. QED
      BY <3>2, <3>3
  <2>2. QED
    BY <2>1
<1>3. step \in [Nat -> [V -> V]] /\ Descends(smaller)
  <2> HIDE DEF next, V
  <2>1. step \in [Nat -> [V -> V]]
    BY <1>2
  <2>2. Descends(smaller)
    BY DEF Descends
  <2>3. QED
    BY <2>1, <2>2
<1>4. PICK h : IsRecursive(h, V, base, step, smaller)
  <2> HIDE DEF step, smaller, V, base
  <2>1. QED
    BY <1>1, <1>3, RecursiveFunction
<1>5. h \in [Nat -> V] /\ h[0] = base
  BY <1>4 DEF IsRecursive
<1>6. ASSUME NEW n \in Nat, n # 0
      PROVE  h[n] = [o \in DOMAIN heap |->
                        IF o \notin Lists THEN <<>> ELSE Elements(h[n - 1], o)]
  <2>1. n - 1 \in Nat /\ smaller[n] = n - 1
    BY <1>6
  <2> HIDE DEF smaller, V, next
  <2>2. h[n - 1] \in V
    BY <1>5, <2>1
  <2>3. h[n] = next[h[n - 1]]
    BY <1>4, <1>6, <2>1 DEF IsRecursive
  <2>4. QED
    BY <2>2, <2>3 DEF next
<1> HIDE DEF step, smaller, next, V
<1>7. h = [d \in Nat |->
            [o \in DOMAIN heap |->
                IF d = 0 \/ o \notin Lists THEN <<>>
                ELSE LET cell == heap[o].contents
                     IN  <<cell[1]>> \o IF UNBOXED(cell[2]) THEN <<>> ELSE h[d - 1][cell[2][2]]]]
  <2>1. ASSUME NEW d \in Nat
        PROVE  h[d] = [o \in DOMAIN heap |->
                IF d = 0 \/ o \notin Lists THEN <<>>
                ELSE LET cell == heap[o].contents
                     IN  <<cell[1]>> \o IF UNBOXED(cell[2]) THEN <<>> ELSE h[d - 1][cell[2][2]]]
    <3>1. CASE d = 0
      BY <1>5, <3>1
    <3>2. CASE d # 0
      BY <1>6, <3>2 DEF Elements, First, Rest, Cons
    <3>3. QED
      BY <3>1, <3>2
  <2>2. h = [d \in Nat |-> h[d]]
    BY <1>5
  <2>3. QED
    BY <2>1, <2>2
<1>8. elements = [d \in Nat |->
            [o \in DOMAIN heap |->
                IF d = 0 \/ o \notin Lists THEN <<>>
                ELSE LET cell == heap[o].contents
                     IN  <<cell[1]>> \o IF UNBOXED(cell[2]) THEN <<>>
                                        ELSE elements[d - 1][cell[2][2]]]]
  BY <1>7 DEF elements
<1>9. elements[0] = base
  BY <1>8
<1>10. ASSUME NEW d \in Nat
       PROVE  elements[d + 1] = [o \in DOMAIN heap |->
                        IF o \notin Lists THEN <<>> ELSE Elements(elements[d], o)]
  <2>1. PICK n \in Nat : n = d + 1
    OBVIOUS
  <2>2. n # 0 /\ n - 1 = d
    BY <2>1
  <2>3. elements[n] = [o \in DOMAIN heap |->
                        IF o \notin Lists THEN <<>> ELSE Elements(elements[n - 1], o)]
    BY <1>8, <2>2 DEF Elements, First, Rest, Cons
  <2>4. QED
    BY <2>1, <2>2, <2>3
<1> DEFINE S == {d \in Nat : WordLists(elements[d])}
<1>11. 0 \in S
  BY <1>1, <1>9 DEF WordLists, V
<1>12. ASSUME NEW d \in Nat, d \in S PROVE d + 1 \in S
  <2>1. PICK e : e = elements[d]
    OBVIOUS
  <2>2. WordLists(e)
    BY <1>12, <2>1
  <2>3. ASSUME NEW o \in DOMAIN heap
        PROVE  (IF o \notin Lists THEN <<>> ELSE Elements(e, o)) \in Seq(Word(heap))
    <3>1. CASE o \in Lists
      BY <2>2, <3>1, ElementsType
    <3>2. CASE o \notin Lists
      BY <3>2
    <3>3. QED
      BY <3>1, <3>2
  <2>4. elements[d + 1] = [o \in DOMAIN heap |->
                        IF o \notin Lists THEN <<>> ELSE Elements(e, o)]
    BY <1>10, <2>1
  <2>5. WordLists(elements[d + 1])
    BY <2>3, <2>4 DEF WordLists
  <2>6. QED
    BY <2>5
<1>13. Nat \subseteq S
  <2> HIDE DEF S
  <2>1. QED
    BY <1>11, <1>12, NumbersInduction
<1>14. ASSUME NEW d \in Nat, NEW o \in Lists
       PROVE  elements[d + 1][o] = Elements(elements[d], o)
  <2>1. o \in DOMAIN heap
    BY DEF Lists, Sexps
  <2>2. QED
    BY <1>10, <2>1
<1>15. \A o \in Lists : elements[0][o] = <<>>
  BY <1>9 DEF Lists, Sexps
<1>16. QED
  BY <1>13, <1>14, <1>15

-----------------------------------------------------------------------------
(***************************************************************************)
(* The text of an object, made of those of what it points to.              *)
(***************************************************************************)

\* The words ws lead to objects of A only.
Leads(ws, A) == \A i \in 1..Len(ws) : ws[i][1] = "ptr" => ws[i][2] \in A

\* A word more does.
LEMMA LeadsCons ==
  ASSUME NEW w \in Word(heap), NEW ws \in Seq(Word(heap)), NEW A,
         w[1] = "ptr" => w[2] \in A, Leads(ws, A)
  PROVE  Leads(Cons(w, ws), A)
<1>1. PICK u : u = Cons(w, ws)
  OBVIOUS
<1>2. Prepends(u, w, ws, Word(heap))
  BY <1>1, ConsProperties
<1>3. Len(u) = Len(ws) + 1 /\ u[1] = w /\ \A i \in 1..Len(ws) : u[i + 1] = ws[i]
  BY <1>2 DEF Prepends
<1>4. PICK n \in Nat : n = Len(ws)
  OBVIOUS
<1>5. ASSUME NEW i \in 1..(n + 1), u[i][1] = "ptr" PROVE u[i][2] \in A
  <2>1. CASE i = 1
    BY <1>3, <1>5, <2>1
  <2>2. CASE i # 1
    <3>1. PICK k \in 1..n : i = k + 1
      <4>1. i - 1 \in 1..n /\ i = (i - 1) + 1
        BY <2>2
      <4>2. QED
        BY <4>1
    <3>2. u[i] = ws[k]
      BY <1>3, <1>4, <3>1
    <3>3. QED
      BY <1>4, <1>5, <3>2 DEF Leads
  <2>3. QED
    BY <2>1, <2>2
<1>6. QED
  BY <1>1, <1>3, <1>4, <1>5 DEF Leads

\* The elements of a list point where chains from it end.
LEMMA ElementsLead ==
  ASSUME HeapInv, NEW k \in Nat, NEW d \in Nat, NEW o \in Lists, o \in ending[d + 1]
  PROVE  Leads(elements[k][o], ending[d])
<1>1. ASSUME NEW e \in Nat, NEW p \in Lists, p \in ending[e + 1]
      PROVE  Pointed(p) \subseteq ending[e]
  BY <1>1, EndingDef
<1> DEFINE S == {n \in Nat : \A e \in Nat : \A p \in Lists :
                    p \in ending[e + 1] => Leads(elements[n][p], ending[e])}
<1>2. 0 \in S
  <2>1. ASSUME NEW e \in Nat, NEW p \in Lists, p \in ending[e + 1]
        PROVE  Leads(elements[0][p], ending[e])
    <3>1. elements[0][p] = <<>>
      BY ElementsDef
    <3>2. Len(<<>>) = 0
      OBVIOUS
    <3>3. QED
      BY <3>1, <3>2 DEF Leads
  <2>2. QED
    BY <2>1
<1>3. ASSUME NEW n \in Nat, n \in S PROVE n + 1 \in S
  <2>1. ASSUME NEW e \in Nat, NEW p \in Lists, p \in ending[e + 1]
        PROVE  Leads(elements[n + 1][p], ending[e])
    <3>1. PICK f : f = elements[n]
      OBVIOUS
    <3>2. WordLists(f) /\ elements[n + 1][p] = Elements(f, p)
      BY <3>1, ElementsDef
    <3>3. PICK s : s = IF UNBOXED(Rest(p)) THEN <<>> ELSE f[Rest(p)[2]]
      OBVIOUS
    <3>4. s \in Seq(Word(heap)) /\ First(p) \in Word(heap)
      BY <3>2, <3>3, ElementsType, CellFacts
    <3>5. First(p)[1] = "ptr" => First(p)[2] \in ending[e]
      BY <1>1, <2>1, CellFacts
    <3>6. Leads(s, ending[e])
      <4>1. CASE UNBOXED(Rest(p))
        <5>1. s = <<>> /\ Len(<<>>) = 0
          BY <3>3, <4>1
        <5>2. QED
          BY <5>1 DEF Leads
      <4>2. CASE ~ UNBOXED(Rest(p))
        <5>1. PICK t : t = Rest(p)[2]
          OBVIOUS
        <5>2. t \in Lists /\ t \in ending[e]
          BY <1>1, <2>1, <4>2, <5>1, CellFacts
        <5>3. e # 0
          BY <5>2, EndingDef
        <5>4. PICK c \in Nat : e = c + 1
          <6>1. e - 1 \in Nat /\ e = (e - 1) + 1
            BY <5>3
          <6>2. QED
            BY <6>1
        <5>5. Leads(f[t], ending[c])
          BY <1>3, <3>1, <5>2, <5>4
        <5>6. ending[c] \subseteq ending[e]
          BY <5>4, EndingGrows
        <5>7. s = f[t]
          BY <3>3, <4>2, <5>1
        <5>8. QED
          BY <5>5, <5>6, <5>7 DEF Leads
      <4>3. QED
        BY <4>1, <4>2
    <3>7. Leads(Cons(First(p), s), ending[e])
      BY <3>4, <3>5, <3>6, LeadsCons
    <3>8. QED
      BY <3>2, <3>3, <3>7 DEF Elements
  <2>2. QED
    BY <2>1
<1>4. Nat \subseteq S
  <2> HIDE DEF S
  <2>1. QED
    BY <1>2, <1>3, NumbersInduction
<1>5. QED
  BY <1>4

\* A list from which the chains end has no more elements than were found.
LEMMA ElementsStable ==
  ASSUME HeapInv, NEW d \in Nat, NEW o \in Lists, o \in ending[d]
  PROVE  elements[d + 1][o] = elements[d][o]
<1> DEFINE S == {n \in Nat : \A p \in Lists :
                    p \in ending[n] => elements[n + 1][p] = elements[n][p]}
<1>1. 0 \in S
  BY EndingDef
<1>2. ASSUME NEW n \in Nat, n \in S PROVE n + 1 \in S
  <2>1. PICK m \in Nat : m = n + 1
    OBVIOUS
  <2>2. ASSUME NEW p \in Lists, p \in ending[m]
        PROVE  elements[m + 1][p] = elements[m][p]
    <3>1. Pointed(p) \subseteq ending[n]
      BY <2>1, <2>2, EndingDef
    <3>2. PICK f, g : f = elements[n] /\ g = elements[m]
      OBVIOUS
    <3>3. elements[m + 1][p] = Elements(g, p) /\ elements[m][p] = Elements(f, p)
      BY <2>1, <3>2, ElementsDef
    <3>4. ~ UNBOXED(Rest(p)) => f[Rest(p)[2]] = g[Rest(p)[2]]
      <4>1. ASSUME ~ UNBOXED(Rest(p)) PROVE Rest(p)[2] \in Lists /\ Rest(p)[2] \in ending[n]
        BY <3>1, <4>1, CellFacts
      <4>2. QED
        BY <1>2, <2>1, <3>2, <4>1
    <3>5. Elements(g, p) = Elements(f, p)
      BY <3>4 DEF Elements
    <3>6. QED
      BY <3>3, <3>5
  <2>3. QED
    BY <2>1, <2>2
<1>3. Nat \subseteq S
  <2> HIDE DEF S
  <2>1. QED
    BY <1>1, <1>2, NumbersInduction
<1>4. QED
  BY <1>3

-----------------------------------------------------------------------------
\* The texts of words.
LEMMA WordTextType ==
  ASSUME NEW b, TextMap(b, DOMAIN heap), NEW w \in Word(heap)
  PROVE  WordText(b, w) \in Seq(Letters)
<1>1. CASE w[1] = "int"
  BY <1>1 DEF Word, WordText
<1>2. CASE w[1] = "out"
  BY <1>2, PunctuationType DEF WordText
<1>3. CASE w[1] = "ptr"
  <2>1. w[2] \in DOMAIN heap
    BY <1>3 DEF Word
  <2>2. b[w[2]] \in Seq(Letters)
    BY <2>1 DEF TextMap
  <2>3. QED
    BY <1>3, <2>2 DEF WordText
<1>4. QED
  BY <1>1, <1>2, <1>3 DEF Word

\* Listing joins them.
WordTexts(b, ws) == [i \in 1..Len(ws) |-> WordText(b, ws[i])]

\* They are joined to a text.
LEMMA ListingType ==
  ASSUME NEW b, TextMap(b, DOMAIN heap), NEW ws \in Seq(Word(heap))
  PROVE  /\ WordTexts(b, ws) \in Seq(Seq(Letters)) /\ Len(WordTexts(b, ws)) = Len(ws)
         /\ \A i \in 1..Len(ws) : WordTexts(b, ws)[i] = WordText(b, ws[i])
         /\ Listing(b, ws) = Join(WordTexts(b, ws)) /\ Listing(b, ws) \in Seq(Letters)
<1>1. Len(ws) \in Nat /\ \A i \in 1..Len(ws) : ws[i] \in Word(heap)
  OBVIOUS
<1>2. \A i \in 1..Len(ws) : WordText(b, ws[i]) \in Seq(Letters)
  BY <1>1, WordTextType
<1>3. /\ WordTexts(b, ws) \in Seq(Seq(Letters)) /\ Len(WordTexts(b, ws)) = Len(ws)
      /\ \A i \in 1..Len(ws) : WordTexts(b, ws)[i] = WordText(b, ws[i])
  BY <1>1, <1>2, IsASeq DEF WordTexts
<1>4. Listing(b, ws) = Join(WordTexts(b, ws))
  BY DEF Listing, WordTexts
<1>5. Join(WordTexts(b, ws)) \in Seq(Letters)
  BY <1>3, JoinType
<1>6. QED
  BY <1>3, <1>4, <1>5

\* Where two maps agree, so do the lists.
LEMMA ListingAgrees ==
  ASSUME NEW a, NEW b, NEW A, \A o \in A : a[o] = b[o],
         NEW ws \in Seq(Word(heap)), Leads(ws, A)
  PROVE  Listing(a, ws) = Listing(b, ws)
<1>1. ASSUME NEW i \in 1..Len(ws) PROVE WordText(a, ws[i]) = WordText(b, ws[i])
  <2>1. ws[i][1] = "ptr" => a[ws[i][2]] = b[ws[i][2]]
    BY DEF Leads
  <2>2. QED
    BY <2>1 DEF WordText
<1>2. QED
  BY <1>1 DEF Listing

\* What an object holds leads to what it points to.
LEMMA FieldsLead ==
  ASSUME HeapInv, NEW o \in DOMAIN heap, heap[o].kind # "STRING"
  PROVE  heap[o].contents \in Seq(Word(heap)) /\ Leads(heap[o].contents, Pointed(o))
<1>1. heap[o].contents \in Seq(Word(heap))
  BY HeapFacts
<1>2. QED
  BY <1>1, PointedTo DEF Leads

\* The elements of a list are words.
LEMMA ListElements ==
  ASSUME HeapInv, NEW o \in Lists
  PROVE  Size \in Nat /\ elements[Size][o] \in Seq(Word(heap))
<1>1. Size \in Nat
  BY FS_CardinalityType, HeapFacts DEF Size
<1>2. o \in DOMAIN heap /\ WordLists(elements[Size])
  BY <1>1, CellFacts, ElementsDef
<1>3. QED
  BY <1>1, <1>2 DEF WordLists

\* The cases of an object's text.
LEMMA ObjectTextCases ==
  ASSUME NEW b, NEW o
  PROVE  /\ heap[o].kind = "STRING" =>
              ObjectText(b, o) = (<<"'">> \o CString(heap[o].contents)) \o <<"'">>
         /\ heap[o].kind = "CLOSURE" =>
              ObjectText(b, o) = (<<"<">> \o Listing(b, heap[o].contents)) \o <<">">>
         /\ heap[o].kind = "ARRAY" =>
              ObjectText(b, o) = (<<"[">> \o Listing(b, heap[o].contents)) \o <<"]">>
         /\ o \in Lists =>
              ObjectText(b, o) = (<<"{">> \o Listing(b, elements[Size][o])) \o <<"}">>
         /\ heap[o].kind = "SEXP" /\ o \notin Lists /\ heap[o].contents = <<>> =>
              ObjectText(b, o) = FirstChars(names[o]) \o <<>>
         /\ heap[o].kind = "SEXP" /\ o \notin Lists /\ heap[o].contents # <<>> =>
              ObjectText(b, o) =
                FirstChars(names[o]) \o ((<<" ", "(">> \o Listing(b, heap[o].contents)) \o <<")">>)
<1>1. CASE heap[o].kind = "STRING"
  BY <1>1 DEF ObjectText, Lists, Sexps
<1>2. CASE heap[o].kind = "CLOSURE"
  BY <1>2 DEF ObjectText, Lists, Sexps
<1>3. CASE heap[o].kind = "ARRAY"
  BY <1>3 DEF ObjectText, Lists, Sexps
<1>4. CASE o \in Lists
  <2>1. heap[o].kind = "SEXP"
    BY <1>4 DEF Lists, Sexps
  <2>2. QED
    BY <1>4, <2>1 DEF ObjectText
<1>5. CASE heap[o].kind = "SEXP" /\ o \notin Lists
  <2>1. CASE heap[o].contents = <<>>
    BY <1>5, <2>1 DEF ObjectText
  <2>2. CASE heap[o].contents # <<>>
    BY <1>5, <2>2 DEF ObjectText
  <2>3. QED
    BY <1>5, <2>1, <2>2
<1>6. QED
  BY <1>1, <1>2, <1>3, <1>4, <1>5

\* The texts of objects.
LEMMA ObjectTextType ==
  ASSUME HeapInv, NEW b, TextMap(b, DOMAIN heap), NEW o \in DOMAIN heap
  PROVE  ObjectText(b, o) \in Seq(Letters)
<1> DEFINE fields == heap[o].contents
<1>1. heap[o].kind \in {"STRING", "CLOSURE", "ARRAY", "SEXP"}
  BY HeapFacts
<1>2. CASE heap[o].kind = "STRING"
  <2>1. CString(fields) \in Seq(Letters)
    BY <1>2, HeapFacts, CStringType
  <2>2. PICK q \in Seq(Letters) : q = <<"'">>
    BY PunctuationType
  <2>3. ObjectText(b, o) = (q \o CString(fields)) \o q
    BY <1>2, <2>2, ObjectTextCases
  <2>4. QED
    BY <2>1, <2>3, Associative
<1>3. CASE heap[o].kind # "STRING"
  <2>1. fields \in Seq(Word(heap))
    BY <1>3, FieldsLead
  <2>2. PICK l \in Seq(Letters) : l = Listing(b, fields)
    BY <2>1, ListingType
  <2>3. ASSUME NEW open \in Seq(Letters), NEW close \in Seq(Letters), NEW t \in Seq(Letters)
        PROVE  (open \o t) \o close \in Seq(Letters)
    <3>1. open \o t \in Seq(Letters)
      BY Appended
    <3>2. QED
      BY <3>1, Appended
  <2>4. CASE heap[o].kind = "CLOSURE"
    <3>1. PICK open \in Seq(Letters), close \in Seq(Letters) : open = <<"<">> /\ close = <<">">>
      BY PunctuationType
    <3>2. ObjectText(b, o) = (open \o l) \o close
      BY <2>2, <2>4, <3>1, ObjectTextCases
    <3>3. QED
      BY <2>3, <3>2
  <2>5. CASE heap[o].kind = "ARRAY"
    <3>1. PICK open \in Seq(Letters), close \in Seq(Letters) : open = <<"[">> /\ close = <<"]">>
      BY PunctuationType
    <3>2. ObjectText(b, o) = (open \o l) \o close
      BY <2>2, <2>5, <3>1, ObjectTextCases
    <3>3. QED
      BY <2>3, <3>2
  <2>6. CASE heap[o].kind = "SEXP" /\ o \in Lists
    <3>1. elements[Size][o] \in Seq(Word(heap))
      BY <2>6, ListElements
    <3>2. PICK t \in Seq(Letters) : t = Listing(b, elements[Size][o])
      BY <3>1, ListingType
    <3>3. PICK open \in Seq(Letters), close \in Seq(Letters) : open = <<"{">> /\ close = <<"}">>
      BY PunctuationType
    <3>4. ObjectText(b, o) = (open \o t) \o close
      BY <2>6, <3>2, <3>3, ObjectTextCases
    <3>5. QED
      BY <2>3, <3>4
  <2>7. CASE heap[o].kind = "SEXP" /\ o \notin Lists
    <3>1. PICK n \in Seq(Letters) : n = FirstChars(names[o])
      BY HeapFacts, FirstCharsType
    <3>2. PICK open \in Seq(Letters), close \in Seq(Letters) :
            open = <<" ", "(">> /\ close = <<")">>
      BY PunctuationType
    <3>3. PICK c \in Seq(Letters) : c = (open \o l) \o close
      BY <2>3
    <3>4. CASE fields = <<>>
      <4>1. ObjectText(b, o) = n \o <<>>
        BY <2>7, <3>1, <3>4, ObjectTextCases
      <4>2. QED
        BY <4>1, ConcatEmptySeq
    <3>5. CASE fields # <<>>
      <4>1. ObjectText(b, o) = n \o c
        BY <2>2, <2>7, <3>1, <3>2, <3>3, <3>5, ObjectTextCases
      <4>2. QED
        BY <4>1, Appended
    <3>6. QED
      BY <3>4, <3>5
  <2>8. QED
    BY <1>1, <1>3, <2>4, <2>5, <2>6, <2>7
<1>4. QED
  BY <1>2, <1>3

\* They depend on those of what the object points to.
LEMMA ObjectAgrees ==
  ASSUME HeapInv, NEW a, NEW b, NEW A, \A p \in A : a[p] = b[p],
         NEW o \in DOMAIN heap, Pointed(o) \subseteq A,
         o \in Lists => Leads(elements[Size][o], A)
  PROVE  ObjectText(a, o) = ObjectText(b, o)
<1> DEFINE fields == heap[o].contents
<1>1. CASE heap[o].kind = "STRING"
  BY <1>1, ObjectTextCases
<1>2. CASE heap[o].kind # "STRING"
  <2>1. fields \in Seq(Word(heap)) /\ Leads(fields, A)
    BY <1>2, FieldsLead DEF Leads
  <2>2. Listing(a, fields) = Listing(b, fields)
    BY <2>1, ListingAgrees
  <2>3. o \in Lists => Listing(a, elements[Size][o]) = Listing(b, elements[Size][o])
    BY ListElements, ListingAgrees
  <2>4. QED
    BY <1>2, <2>2, <2>3 DEF ObjectText
<1>3. QED
  BY <1>1, <1>2

-----------------------------------------------------------------------------
(***************************************************************************)
(* The texts of the objects from which the chains of pointers end.         *)
(***************************************************************************)

\* No texts.
NoTexts == [o \in DOMAIN heap |-> <<>>]

\* They are texts.
LEMMA NoTextsType == TextMap(NoTexts, DOMAIN heap)
<1>1. <<>> \in Seq(Letters)
  OBVIOUS
<1>2. QED
  BY <1>1 DEF NoTexts, TextMap

\* The definition of texts, one pointer more at each step.
LEMMA TextsDef ==
  ASSUME HeapInv
  PROVE  /\ \A o \in DOMAIN heap : texts[0][o] = ObjectText(NoTexts, o)
         /\ \A d \in Nat : /\ TextMap(texts[d], DOMAIN heap)
                           /\ \A o \in DOMAIN heap :
                                texts[d + 1][o] = ObjectText(texts[d], o)
<1> DEFINE V == [DOMAIN heap -> Seq(Letters)]
           next == [b \in V |-> [o \in DOMAIN heap |-> ObjectText(b, o)]]
           base == [o \in DOMAIN heap |-> ObjectText(NoTexts, o)]
           step == [n \in Nat |-> next]
           smaller == [n \in Nat |-> IF n = 0 THEN 0 ELSE n - 1]
<1>1. base \in V
  <2>1. \A o \in DOMAIN heap : ObjectText(NoTexts, o) \in Seq(Letters)
    BY NoTextsType, ObjectTextType
  <2>2. QED
    BY <2>1
<1>2. next \in [V -> V]
  <2>1. ASSUME NEW b \in V, NEW o \in DOMAIN heap PROVE ObjectText(b, o) \in Seq(Letters)
    <3>1. TextMap(b, DOMAIN heap)
      BY DEF TextMap
    <3>2. QED
      BY <3>1, ObjectTextType
  <2>2. QED
    BY <2>1
<1>3. step \in [Nat -> [V -> V]] /\ Descends(smaller)
  <2> HIDE DEF next, V
  <2>1. step \in [Nat -> [V -> V]]
    BY <1>2
  <2>2. Descends(smaller)
    BY DEF Descends
  <2>3. QED
    BY <2>1, <2>2
<1>4. PICK h : IsRecursive(h, V, base, step, smaller)
  <2> HIDE DEF step, smaller, V, base
  <2>1. QED
    BY <1>1, <1>3, RecursiveFunction
<1>5. h \in [Nat -> V] /\ h[0] = base
  BY <1>4 DEF IsRecursive
<1>6. ASSUME NEW n \in Nat, n # 0
      PROVE  h[n] = [o \in DOMAIN heap |-> ObjectText(h[n - 1], o)]
  <2>1. n - 1 \in Nat /\ smaller[n] = n - 1
    BY <1>6
  <2> HIDE DEF smaller, V, next
  <2>2. h[n - 1] \in V
    BY <1>5, <2>1
  <2>3. h[n] = next[h[n - 1]]
    BY <1>4, <1>6, <2>1 DEF IsRecursive
  <2>4. QED
    BY <2>2, <2>3 DEF next
<1> HIDE DEF step, smaller, next, V
<1>7. h = [d \in Nat |->
            LET below == IF d = 0 THEN [o \in DOMAIN heap |-> <<>>] ELSE h[d - 1]
            IN  [o \in DOMAIN heap |-> ObjectText(below, o)]]
  <2>1. ASSUME NEW d \in Nat
        PROVE  h[d] = LET below == IF d = 0 THEN [o \in DOMAIN heap |-> <<>>] ELSE h[d - 1]
                      IN  [o \in DOMAIN heap |-> ObjectText(below, o)]
    <3>1. CASE d = 0
      BY <1>5, <3>1 DEF NoTexts
    <3>2. CASE d # 0
      BY <1>6, <3>2
    <3>3. QED
      BY <3>1, <3>2
  <2>2. h = [d \in Nat |-> h[d]]
    BY <1>5
  <2>3. QED
    BY <2>1, <2>2
<1>8. texts = [d \in Nat |->
            LET below == IF d = 0 THEN [o \in DOMAIN heap |-> <<>>] ELSE texts[d - 1]
            IN  [o \in DOMAIN heap |-> ObjectText(below, o)]]
  BY <1>7 DEF texts
<1>9. texts[0] = base
  BY <1>8 DEF NoTexts
<1>10. ASSUME NEW d \in Nat
       PROVE  texts[d + 1] = [o \in DOMAIN heap |-> ObjectText(texts[d], o)]
  <2>1. PICK n \in Nat : n = d + 1
    OBVIOUS
  <2>2. n # 0 /\ n - 1 = d
    BY <2>1
  <2>3. texts[n] = [o \in DOMAIN heap |-> ObjectText(texts[n - 1], o)]
    BY <1>8, <2>2
  <2>4. QED
    BY <2>1, <2>2, <2>3
<1> DEFINE S == {d \in Nat : TextMap(texts[d], DOMAIN heap)}
<1>11. 0 \in S
  BY <1>1, <1>9 DEF TextMap, V
<1>12. ASSUME NEW d \in Nat, d \in S PROVE d + 1 \in S
  <2>1. PICK b : b = texts[d]
    OBVIOUS
  <2>2. TextMap(b, DOMAIN heap)
    BY <1>12, <2>1
  <2>3. \A o \in DOMAIN heap : ObjectText(b, o) \in Seq(Letters)
    BY <2>2, ObjectTextType
  <2>4. texts[d + 1] = [o \in DOMAIN heap |-> ObjectText(b, o)]
    BY <1>10, <2>1
  <2>5. TextMap(texts[d + 1], DOMAIN heap)
    BY <2>3, <2>4 DEF TextMap
  <2>6. QED
    BY <2>5
<1>13. Nat \subseteq S
  <2> HIDE DEF S
  <2>1. QED
    BY <1>11, <1>12, NumbersInduction
<1>14. \A o \in DOMAIN heap : texts[0][o] = ObjectText(NoTexts, o)
  BY <1>9
<1>15. ASSUME NEW d \in Nat, NEW o \in DOMAIN heap
       PROVE  texts[d + 1][o] = ObjectText(texts[d], o)
  BY <1>10
<1>16. QED
  BY <1>13, <1>14, <1>15

\* The texts of what is below chains of length d.
Below(d) == IF d = 0 THEN NoTexts ELSE texts[d - 1]

\* They are those of objects.
LEMMA BelowDef ==
  ASSUME HeapInv, NEW d \in Nat, NEW o \in DOMAIN heap
  PROVE  Below(d + 1) = texts[d] /\ Below(d + 1)[o] = ObjectText(Below(d), o)
<1>1. Below(d + 1) = texts[d]
  BY DEF Below
<1>2. CASE d = 0
  BY <1>1, <1>2, TextsDef DEF Below
<1>3. CASE d # 0
  <2>1. PICK e \in Nat : d = e + 1
    <3>1. d - 1 \in Nat /\ d = (d - 1) + 1
      BY <1>3
    <3>2. QED
      BY <3>1
  <2>2. texts[d][o] = ObjectText(texts[e], o)
    BY <2>1, TextsDef
  <2>3. Below(d) = texts[e]
    BY <2>1 DEF Below
  <2>4. QED
    BY <1>1, <2>2, <2>3
<1>4. QED
  BY <1>1, <1>2, <1>3

\* An object from which the chains end has its text.
LEMMA TextsStable ==
  ASSUME HeapInv, NEW d \in Nat, NEW o \in ending[d]
  PROVE  Below(d + 1)[o] = Below(d)[o]
<1> DEFINE S == {n \in Nat : \A p \in ending[n] : Below(n + 1)[p] = Below(n)[p]}
<1>1. 0 \in S
  BY EndingDef
<1>2. ASSUME NEW n \in Nat, n \in S PROVE n + 1 \in S
  <2>1. PICK m \in Nat : m = n + 1
    OBVIOUS
  <2>2. ASSUME NEW p \in ending[m]
        PROVE  Below(m + 1)[p] = Below(m)[p]
    <3>1. p \in DOMAIN heap /\ Pointed(p) \subseteq ending[n]
      BY <2>1, EndingDef
    <3>2. PICK a, b : a = Below(m) /\ b = Below(n)
      OBVIOUS
    <3>3. Below(m + 1)[p] = ObjectText(a, p) /\ Below(m)[p] = ObjectText(b, p)
      BY <2>1, <3>1, <3>2, BelowDef
    <3>4. \A q \in ending[n] : a[q] = b[q]
      BY <1>2, <2>1, <3>2
    <3>5. ASSUME p \in Lists PROVE Leads(elements[Size][p], ending[n])
      <4>1. PICK k \in Nat : k = Size
        BY <3>5, ListElements
      <4>2. p \in ending[n + 1]
        BY <2>1
      <4>3. Leads(elements[k][p], ending[n])
        BY <3>5, <4>2, ElementsLead
      <4>4. QED
        BY <4>1, <4>3
    <3>6. ObjectText(a, p) = ObjectText(b, p)
      <4> HIDE DEF S
      <4>1. PICK A : A = ending[n]
        OBVIOUS
      <4>2. Pointed(p) \subseteq A /\ \A q \in A : a[q] = b[q]
        BY <3>1, <3>4, <4>1
      <4>3. p \in Lists => Leads(elements[Size][p], A)
        BY <3>5, <4>1
      <4>4. p \in DOMAIN heap
        BY <3>1
      <4>5. QED
        BY <4>2, <4>3, <4>4, ObjectAgrees
    <3>7. QED
      BY <3>3, <3>6
  <2>3. QED
    BY <2>1, <2>2
<1>3. Nat \subseteq S
  <2> HIDE DEF S
  <2>1. QED
    BY <1>1, <1>2, NumbersInduction
<1>4. QED
  BY <1>3

\* The texts of the values of a program.
Final == texts[Size]

\* The text of an object from which the chains of pointers end, is made of the
\* texts of what it points to; an object is such if all that it points to are.
LEMMA AcyclicTexts ==
  ASSUME HeapInv
  PROVE  /\ TextMap(Final, DOMAIN heap)
         /\ \A o \in DOMAIN heap : Pointed(o) \subseteq ending[Size] => Acyclic(o)
         /\ \A o \in DOMAIN heap : Acyclic(o) => Final[o] = ObjectText(Final, o)
         /\ \A o \in Lists : Acyclic(o) =>
              elements[Size][o] = Elements(elements[Size], o)
<1>1. Size \in Nat /\ ending[Size + 1] = ending[Size]
  BY EndingEnds, HeapFacts
<1>2. TextMap(Final, DOMAIN heap)
  BY <1>1, TextsDef DEF Final
<1>3. \A o \in DOMAIN heap : Pointed(o) \subseteq ending[Size] => Acyclic(o)
  BY <1>1, EndingDef DEF Acyclic
<1>4. ASSUME NEW o \in DOMAIN heap, Acyclic(o)
      PROVE  /\ Final[o] = ObjectText(Final, o)
             /\ o \in Lists => elements[Size][o] = Elements(elements[Size], o)
  <2>1. o \in ending[Size]
    BY <1>4 DEF Acyclic
  <2>2. Size # 0
    BY <2>1, EndingDef
  <2>3. PICK m \in Nat : Size = m + 1
    <3>1. Size - 1 \in Nat /\ Size = (Size - 1) + 1
      BY <1>1, <2>2
    <3>2. QED
      BY <3>1
  <2>4. Pointed(o) \subseteq ending[m]
    BY <2>1, <2>3, EndingDef
  <2>5. PICK a, b : a = Below(Size) /\ b = Final
    OBVIOUS
  <2>6. \A p \in ending[m] : a[p] = b[p]
    <3>1. Below(Size + 1) = Final
      BY <1>1 DEF Below, Final
    <3>2. ending[m] \subseteq ending[Size]
      BY <2>3, EndingGrows
    <3>3. QED
      BY <1>1, <2>5, <3>1, <3>2, TextsStable
  <2>7. o \in Lists => Leads(elements[Size][o], ending[m])
    BY <1>1, <2>1, <2>3, ElementsLead
  <2>8. ObjectText(a, o) = ObjectText(b, o)
    BY <2>4, <2>6, <2>7, ObjectAgrees
  <2>9. Final[o] = ObjectText(a, o)
    BY <1>1, <2>5, BelowDef DEF Final
  <2>10. ASSUME o \in Lists PROVE elements[Size][o] = Elements(elements[Size], o)
    <3>1. PICK e, f : e = elements[m] /\ f = elements[Size]
      OBVIOUS
    <3>2. f[o] = Elements(e, o)
      BY <2>3, <2>10, <3>1, ElementsDef
    <3>3. ~ UNBOXED(Rest(o)) => e[Rest(o)[2]] = f[Rest(o)[2]]
      <4>1. ASSUME ~ UNBOXED(Rest(o)) PROVE Rest(o)[2] \in Lists /\ Rest(o)[2] \in ending[m]
        BY <2>4, <2>10, <4>1, CellFacts
      <4>2. QED
        BY <2>3, <3>1, <4>1, ElementsStable
    <3>4. Elements(e, o) = Elements(f, o)
      BY <3>3 DEF Elements
    <3>5. QED
      BY <3>1, <3>2, <3>4
  <2>11. QED
    BY <2>5, <2>8, <2>9, <2>10
<1>5. QED
  BY <1>2, <1>3, <1>4, CellFacts

-----------------------------------------------------------------------------
(***************************************************************************)
(* The text of what is left to print.                                      *)
(***************************************************************************)

\* The text of what is left to print: of a piece, of a value, of the cells of a
\* list that are not printed yet.
ItemText(it) == IF it[1] = "text" THEN it[2]
                ELSE IF it[1] = "value" THEN WordText(Final, it[2])
                ELSE Listing(Final, elements[Size][it[2]])
ItemTexts == [it \in Item |-> ItemText(it)]

\* Those which a chain of pointers from them ends.
Whole == {it \in Item : /\ (it[1] = "value" /\ it[2][1] = "ptr") => Acyclic(it[2][2])
                        /\ it[1] = "cells" => Acyclic(it[2])}
Only(s, S) == \A i \in 1..Len(s) : s[i] \in S

\* Items have texts.
LEMMA ItemTextsType ==
  ASSUME HeapInv
  PROVE  /\ TextMap(ItemTexts, Item)
         /\ \A t \in Seq(Letters) : Text(t) \in Item /\ ItemTexts[Text(t)] = t
         /\ \A w \in Word(heap) : /\ Value(w) \in Item
                                  /\ ItemTexts[Value(w)] = WordText(Final, w)
         /\ \A o \in Lists : /\ Cells(o) \in Item
                             /\ ItemTexts[Cells(o)] = Listing(Final, elements[Size][o])
<1>1. TextMap(Final, DOMAIN heap)
  BY AcyclicTexts
<1>2. /\ \A t \in Seq(Letters) : Text(t) \in Item /\ ItemText(Text(t)) = t
      /\ \A w \in Word(heap) : Value(w) \in Item /\ ItemText(Value(w)) = WordText(Final, w)
      /\ \A o \in Lists : /\ Cells(o) \in Item
                          /\ ItemText(Cells(o)) = Listing(Final, elements[Size][o])
  BY ItemTypes DEF ItemText, Text, Value, Cells
<1>3. ASSUME NEW it \in Item PROVE ItemText(it) \in Seq(Letters)
  <2>1. CASE it \in {"text"} \X Seq(Letters)
    BY <2>1 DEF ItemText
  <2>2. CASE it \in {"value"} \X Word(heap)
    <3>1. it[2] \in Word(heap) /\ it[1] = "value"
      BY <2>2
    <3>2. WordText(Final, it[2]) \in Seq(Letters)
      BY <1>1, <3>1, WordTextType
    <3>3. QED
      BY <3>1, <3>2 DEF ItemText
  <2>3. CASE it \in {"cells"} \X Lists
    <3>1. it[2] \in Lists /\ it[1] = "cells"
      BY <2>3
    <3>2. elements[Size][it[2]] \in Seq(Word(heap))
      BY <3>1, ListElements
    <3>3. Listing(Final, elements[Size][it[2]]) \in Seq(Letters)
      BY <1>1, <3>2, ListingType
    <3>4. QED
      BY <3>1, <3>3 DEF ItemText
  <2>4. QED
    BY <2>1, <2>2, <2>3 DEF Item
<1>4. TextMap(ItemTexts, Item)
  BY <1>3 DEF TextMap, ItemTexts
<1>5. QED
  BY <1>2, <1>4 DEF ItemTexts

\* What holds of all members holds of those of a part.
LEMMA OnlyConcat ==
  ASSUME NEW I, NEW s \in Seq(I), NEW t \in Seq(I), NEW S, Only(s \o t, S)
  PROVE  Only(s, S) /\ Only(t, S)
<1>1. PICK u : u = s \o t
  OBVIOUS
<1>2. /\ Len(u) = Len(s) + Len(t) /\ Len(s) \in Nat /\ Len(t) \in Nat
      /\ \A i \in 1..Len(s) : u[i] = s[i]
      /\ \A i \in 1..Len(t) : u[Len(s) + i] = t[i]
  BY <1>1, Appended
<1>3. \A i \in 1..Len(u) : u[i] \in S
  BY <1>1 DEF Only
<1>4. ASSUME NEW i \in 1..Len(s) PROVE s[i] \in S
  <2>1. i \in 1..Len(u)
    BY <1>2
  <2>2. QED
    BY <1>2, <1>3, <2>1
<1>5. ASSUME NEW i \in 1..Len(t) PROVE t[i] \in S
  <2>1. PICK n \in 1..Len(u) : n = Len(s) + i
    <3>1. Len(s) + i \in 1..Len(u)
      BY <1>2
    <3>2. QED
      BY <3>1
  <2>2. QED
    BY <1>2, <1>3, <2>1
<1>6. QED
  BY <1>4, <1>5 DEF Only

\* So it does of the members between separators.
LEMMA OnlySeparated ==
  ASSUME NEW I, Text(Separator) \in I, NEW s \in Seq(I), NEW S, Only(Separated(s), S)
  PROVE  Only(s, S)
<1>1. CASE s = <<>>
  <2>1. Len(<<>>) = 0
    OBVIOUS
  <2>2. QED
    BY <1>1, <2>1 DEF Only
<1>2. CASE s # <<>>
  <2>1. PICK r : r = Separated(s)
    OBVIOUS
  <2>2. PICK n \in Nat : n = Len(s)
    OBVIOUS
  <2>3. /\ Len(r) = 2 * n - 1
        /\ \A i \in 1..(2 * n - 1) :
              r[i] = IF i % 2 = 0 THEN Text(Separator) ELSE s[(i + 1) \div 2]
    BY <1>2, <2>1, <2>2, SeparatedProperties
  <2>4. ASSUME NEW i \in 1..n PROVE s[i] \in S
    <3>1. PICK j \in 1..(2 * n - 1) : j = 2 * i - 1
      <4>1. 2 * i - 1 \in 1..(2 * n - 1)
        OBVIOUS
      <4>2. QED
        BY <4>1
    <3>2. j % 2 # 0 /\ (j + 1) \div 2 = i
      BY <3>1
    <3>3. r[j] = s[i]
      BY <2>3, <3>2
    <3>4. QED
      BY <2>1, <2>3, <3>3 DEF Only
  <2>5. QED
    BY <2>2, <2>4 DEF Only
<1>3. QED
  BY <1>1, <1>2

\* The texts of items, one after the other.
LEMMA ItemsSpelled ==
  ASSUME HeapInv
  PROVE  /\ \A s, t \in Seq(Item) :
               Spelled(ItemTexts, s \o t) = Spelled(ItemTexts, s) \o Spelled(ItemTexts, t)
         /\ \A x, y \in Item : Spelled(ItemTexts, <<x, y>>) = ItemTexts[x] \o ItemTexts[y]
         /\ \A x, y, z \in Item :
               Spelled(ItemTexts, <<x, y, z>>) = (ItemTexts[x] \o ItemTexts[y]) \o ItemTexts[z]
<1>1. PICK f, I : f = ItemTexts /\ I = Item
  OBVIOUS
<1>2. TextMap(ItemTexts, Item)
  BY ItemTextsType
<1>3. TextMap(f, I)
  BY <1>1, <1>2
<1>4. \A s, t \in Seq(I) : Spelled(f, s \o t) = Spelled(f, s) \o Spelled(f, t)
  BY <1>3, SpelledConcat
<1>5. \A x, y, z \in I : FewSpelled(f, x, y, z)
  BY <1>3, SpelledFew
<1>6. \A x, y, z \in Item : FewSpelled(ItemTexts, x, y, z)
  BY <1>1, <1>5
<1>7. \A s, t \in Seq(Item) :
        Spelled(ItemTexts, s \o t) = Spelled(ItemTexts, s) \o Spelled(ItemTexts, t)
  BY <1>1, <1>4
<1>8. \A x, y \in Item : Spelled(ItemTexts, <<x, y>>) = ItemTexts[x] \o ItemTexts[y]
  BY <1>6 DEF FewSpelled
<1>9. \A x, y, z \in Item :
        Spelled(ItemTexts, <<x, y, z>>) = (ItemTexts[x] \o ItemTexts[y]) \o ItemTexts[z]
  BY <1>6 DEF FewSpelled
<1>10. QED
  BY <1>7, <1>8, <1>9

\* The text of items within brackets.
LEMMA BetweenText ==
  ASSUME HeapInv, NEW open \in Seq(Letters), NEW s \in Seq(Item), NEW close \in Seq(Letters)
  PROVE  /\ Spelled(ItemTexts, Between(open, s, close)) =
              (open \o Join(TextsOf(ItemTexts, s))) \o close
         /\ Only(Between(open, s, close), Whole) => Only(s, Whole)
<1>1. PICK f : f = ItemTexts
  OBVIOUS
<1>2. TextMap(f, Item) /\ Text(Separator) \in Item /\ f[Text(Separator)] = Separator
  BY <1>1, ItemTextsType, PunctuationType
<1>3. PICK x \in Item, y \in Item : x = Text(open) /\ y = Text(close)
  BY ItemTypes
<1>4. f[x] = open /\ f[y] = close
  BY <1>1, <1>3, ItemTextsType
<1>5. PICK a \in Seq(Item), c \in Seq(Item) : a = <<x>> /\ c = <<y>>
  BY ItemTypes
<1>6. Spelled(f, a) = open /\ Spelled(f, c) = close
  <2>1. Spelled(f, <<x>>) = f[x]
    BY <1>2, SpelledSmall
  <2>2. Spelled(f, <<y>>) = f[y]
    BY <1>2, SpelledSmall
  <2>3. QED
    BY <1>4, <1>5, <2>1, <2>2
<1>7. PICK r : r = Separated(s)
  OBVIOUS
<1>8. r \in Seq(Item)
  <2>1. CASE s = <<>>
    <3>1. Separated(<<>>) = <<>>
      BY <1>2, SeparatedSmall
    <3>2. QED
      BY <1>7, <2>1, <3>1
  <2>2. CASE s # <<>>
    BY <1>2, <1>7, <2>2, SeparatedProperties
  <2>3. QED
    BY <2>1, <2>2
<1>9. Spelled(f, r) = Join(TextsOf(f, s))
  BY <1>2, <1>7, SpelledSeparated
<1>10. PICK b \in Seq(Item) : b = a \o r
  BY <1>8, Appended
<1>11. TextMap(f, Item) /\ \A u, v \in Seq(Item) : Spelled(f, u \o v) = Spelled(f, u) \o Spelled(f, v)
  BY <1>1, <1>2, ItemsSpelled
<1>12. Spelled(f, a \o r) = Spelled(f, a) \o Spelled(f, r)
  BY <1>5, <1>8, <1>11
<1>13. Spelled(f, b) = Spelled(f, a) \o Spelled(f, r)
  BY <1>10, <1>12
<1>14. Spelled(f, b \o c) = Spelled(f, b) \o Spelled(f, c)
  <2>1. b \in Seq(Item) /\ c \in Seq(Item)
    BY <1>5, <1>10
  <2>2. QED
    BY <1>11, <2>1
<1>15. Between(open, s, close) = b \o c
  BY <1>3, <1>5, <1>7, <1>10 DEF Between
<1>16. ASSUME Only(b \o c, Whole) PROVE Only(s, Whole)
  <2>1. Only(a \o r, Whole)
    BY <1>10, <1>16, OnlyConcat
  <2>2. Only(r, Whole)
    BY <1>8, <2>1, OnlyConcat
  <2>3. QED
    BY <1>2, <1>7, <2>2, OnlySeparated
<1>17. QED
  BY <1>1, <1>6, <1>9, <1>13, <1>14, <1>15, <1>16

\* The texts of values are those of their words.
LEMMA ValuesText ==
  ASSUME HeapInv, NEW ws \in Seq(Word(heap))
  PROVE  /\ Values_(ws) \in Seq(Item)
         /\ TextsOf(ItemTexts, Values_(ws)) = WordTexts(Final, ws)
         /\ Only(Values_(ws), Whole) => Leads(ws, ending[Size])
<1>1. PICK n \in Nat : n = Len(ws)
  OBVIOUS
<1>2. PICK s : s = Values_(ws)
  OBVIOUS
<1>3. s \in Seq(Item)
  BY <1>2, ValuesType
<1>4. s = [i \in 1..n |-> Value(ws[i])]
  BY <1>1, <1>2 DEF Values_
<1>5. Len(s) = n /\ \A i \in 1..n : s[i] = Value(ws[i]) /\ ws[i] \in Word(heap)
  BY <1>1, <1>4
<1>6. \A i \in 1..n : ItemTexts[s[i]] = WordText(Final, ws[i])
  BY <1>5, ItemTextsType
<1>7. TextsOf(ItemTexts, s) = WordTexts(Final, ws)
  BY <1>1, <1>5, <1>6 DEF TextsOf, WordTexts
<1>8. ASSUME Only(s, Whole), NEW i \in 1..n, ws[i][1] = "ptr"
      PROVE  ws[i][2] \in ending[Size]
  <2>1. Value(ws[i]) \in Whole
    BY <1>5, <1>8 DEF Only
  <2>2. QED
    BY <1>8, <2>1 DEF Whole, Value, Acyclic
<1>9. QED
  BY <1>1, <1>2, <1>3, <1>7, <1>8 DEF Leads

\* The texts of a word and of others.
LEMMA WordTextsCons ==
  ASSUME HeapInv, NEW w \in Word(heap), NEW ws \in Seq(Word(heap))
  PROVE  WordTexts(Final, Cons(w, ws)) = Cons(WordText(Final, w), WordTexts(Final, ws))
<1>1. TextMap(Final, DOMAIN heap)
  BY AcyclicTexts
<1>2. PICK u : u = Cons(w, ws)
  OBVIOUS
<1>3. Prepends(u, w, ws, Word(heap))
  BY <1>2, ConsProperties
<1>4. /\ u \in Seq(Word(heap)) /\ Len(u) = Len(ws) + 1 /\ Len(ws) \in Nat /\ u[1] = w
      /\ \A i \in 1..Len(ws) : u[i + 1] = ws[i]
  BY <1>3 DEF Prepends
<1>5. PICK x, t, r : x = WordText(Final, w) /\ t = WordTexts(Final, ws) /\ r = WordTexts(Final, u)
  OBVIOUS
<1>6. x \in Seq(Letters)
  BY <1>1, <1>5, WordTextType
<1>7. /\ t \in Seq(Seq(Letters)) /\ Len(t) = Len(ws)
      /\ \A i \in 1..Len(ws) : t[i] = WordText(Final, ws[i])
  BY <1>1, <1>5, ListingType
<1>8. /\ r \in Seq(Seq(Letters)) /\ Len(r) = Len(u)
      /\ \A i \in 1..Len(u) : r[i] = WordText(Final, u[i])
  BY <1>1, <1>4, <1>5, ListingType
<1>9. 1 \in 1..Len(u) /\ \A i \in 1..Len(ws) : i + 1 \in 1..Len(u)
  BY <1>4
<1>10. /\ Len(r) = Len(t) + 1 /\ r[1] = x /\ \A i \in 1..Len(t) : r[i + 1] = t[i]
  BY <1>4, <1>5, <1>7, <1>8, <1>9
<1>11. r = Cons(x, t)
  <2>1. r \in Seq(Seq(Letters)) /\ t \in Seq(Seq(Letters))
    BY <1>7, <1>8
  <2>2. PICK S : S = Seq(Letters)
    OBVIOUS
  <2>3. r \in Seq(S) /\ t \in Seq(S) /\ x \in S
    BY <1>6, <2>1, <2>2
  <2>4. QED
    BY <1>10, <2>3, IsPrepended
<1>12. QED
  BY <1>2, <1>5, <1>11

\* What leads nowhere else than its words, is acyclic when they are.
LEMMA AcyclicFields ==
  ASSUME HeapInv, NEW o \in DOMAIN heap, heap[o].kind # "STRING",
         Leads(heap[o].contents, ending[Size])
  PROVE  Acyclic(o)
<1>1. Pointed(o) = {w[2] : w \in {x \in ToSet(heap[o].contents) : x[1] = "ptr"}}
  BY DEF Pointed
<1>2. heap[o].contents \in Seq(Word(heap))
  BY FieldsLead
<1>3. ASSUME NEW x \in ToSet(heap[o].contents), x[1] = "ptr" PROVE x[2] \in ending[Size]
  <2>1. PICK i \in 1..Len(heap[o].contents) : x = heap[o].contents[i]
    BY <1>2 DEF ToSet
  <2>2. QED
    BY <1>3, <2>1 DEF Leads
<1>4. Pointed(o) \subseteq ending[Size]
  BY <1>1, <1>3
<1>5. QED
  BY <1>4, AcyclicTexts

-----------------------------------------------------------------------------
(***************************************************************************)
(* What the code prints of an item is the text of the item.                *)
(***************************************************************************)

\* A tag says that a cell is one of a list exactly when it was built as one.
LEMMA TagOfLists ==
  ASSUME HeapInv, TagsInv, status = "printing", NEW o \in Sexps
  PROVE  /\ de_hash[heap[o].tag] = FirstChars(names[o])
         /\ FirstChars(names[o]) \in Seq(Letters)
         /\ IsCons(o) <=> o \in Lists
<1>1. o \in DOMAIN heap /\ names[o] \in Seq(Letters) /\ heap[o].tag \in Nat
  BY HeapFacts DEF Sexps
<1>2. heap[o].tag = Pack(names[o]) /\ Packable(names[o])
  BY <1>1, HashableIsPackable DEF TagsInv, LtagHash
<1>3. de_hash[heap[o].tag] = FirstChars(names[o])
  BY <1>1, <1>2, DehashPack
<1>4. FirstChars(names[o]) \in Seq(Letters)
  BY <1>1, FirstCharsType
<1>5. ASSUME o \in Lists PROVE IsCons(o)
  <2>1. names[o] = ConsName
    BY <1>5 DEF Lists
  <2>2. Len(ConsName) <= TagLen
    BY StringBufAssumption, ValuesAssumption
  <2>3. FirstChars(ConsName) = ConsName
    BY <2>2, StringBufAssumption, FirstCharsType
  <2>4. QED
    BY <1>3, <2>1, <2>3 DEF IsCons
<1>6. QED
  BY <1>3, <1>4, <1>5, TagNames

\* What the code prints of an object is its text, if what it prints ends.
LEMMA ObjectPrinted ==
  ASSUME HeapInv, TagsInv, status = "printing", NEW o \in DOMAIN heap,
         Only(printObject(o), Whole)
  PROVE  Acyclic(o) /\ Spelled(ItemTexts, printObject(o)) = Final[o]
<1> DEFINE fields == heap[o].contents
<1>1. TextMap(ItemTexts, Item)
  BY ItemTextsType
<1>2. heap[o].kind \in {"STRING", "CLOSURE", "ARRAY", "SEXP"}
  BY HeapFacts
<1>3. SUFFICES Acyclic(o) /\ Spelled(ItemTexts, printObject(o)) = ObjectText(Final, o)
  BY AcyclicTexts
<1>4. CASE heap[o].kind = "STRING"
  <2>1. Acyclic(o)
    <3>1. Pointed(o) = {}
      BY <1>4 DEF Pointed
    <3>2. QED
      BY <3>1, AcyclicTexts
  <2>2. PICK t : t = (<<"'">> \o CString(fields)) \o <<"'">>
    OBVIOUS
  <2>3. ObjectText(Final, o) = t
    BY <1>4, <2>2, ObjectTextCases
  <2>4. t \in Seq(Letters)
    <3>1. TextMap(Final, DOMAIN heap)
      BY AcyclicTexts
    <3>2. QED
      BY <2>3, <3>1, ObjectTextType
  <2>5. PICK x \in Item : x = Text(t)
    BY <2>4, ItemTypes
  <2>6. printObject(o) = <<x>>
    BY <1>4, <2>2, <2>5 DEF printObject
  <2>7. Spelled(ItemTexts, <<x>>) = ItemTexts[x]
    BY <1>1, SpelledSmall
  <2>8. ItemTexts[x] = t
    BY <2>4, <2>5, ItemTextsType
  <2>9. QED
    BY <2>1, <2>3, <2>6, <2>7, <2>8
<1>5. CASE heap[o].kind = "ARRAY"
  <2>1. fields \in Seq(Word(heap))
    BY <1>5, FieldsLead
  <2>2. PICK s : s = Values_(fields)
    OBVIOUS
  <2>3. /\ s \in Seq(Item) /\ TextsOf(ItemTexts, s) = WordTexts(Final, fields)
        /\ Only(s, Whole) => Leads(fields, ending[Size])
    BY <2>1, <2>2, ValuesText
  <2>4. PICK open \in Seq(Letters), close \in Seq(Letters) : open = <<"[">> /\ close = <<"]">>
    BY PunctuationType
  <2>5. printObject(o) = Between(open, s, close)
    BY <1>5, <2>2, <2>4 DEF printObject
  <2>6. /\ Spelled(ItemTexts, printObject(o)) = (open \o Join(TextsOf(ItemTexts, s))) \o close
        /\ Only(s, Whole)
    BY <2>3, <2>5, BetweenText
  <2>7. ObjectText(Final, o) = (open \o Listing(Final, fields)) \o close
    BY <1>5, <2>4, ObjectTextCases
  <2>8. Listing(Final, fields) = Join(WordTexts(Final, fields))
    BY DEF Listing, WordTexts
  <2>9. Acyclic(o)
    BY <1>5, <2>3, <2>6, AcyclicFields
  <2>10. QED
    BY <2>3, <2>6, <2>7, <2>8, <2>9
<1>6. CASE heap[o].kind = "CLOSURE"
  <2>1. fields \in Seq(Word(heap))
    BY <1>6, FieldsLead
  <2>2. fields # <<>> /\ fields[1][1] = "out"
    BY <1>6, HeapFacts DEF Entered
  <2>3. PICK w, ws : w = Head(fields) /\ ws = Tail(fields)
    OBVIOUS
  <2>4. /\ w \in Word(heap) /\ ws \in Seq(Word(heap)) /\ fields = Cons(w, ws)
        /\ w[1] = "out"
    BY <2>1, <2>2, <2>3, HasFirst
  <2>5. PICK s : s = Values_(ws)
    OBVIOUS
  <2>6. /\ s \in Seq(Item) /\ TextsOf(ItemTexts, s) = WordTexts(Final, ws)
        /\ Only(s, Whole) => Leads(ws, ending[Size])
    BY <2>4, <2>5, ValuesText
  <2>7. PICK x \in Item : x = Text(Address)
    BY PunctuationType, ItemTypes
  <2>8. ItemTexts[x] = Address
    BY <2>7, ItemTextsType, PunctuationType
  <2>9. PICK a \in Seq(Item) : a = <<x>>
    BY ItemTypes
  <2>10. PICK u \in Seq(Item) : u = a \o s
    BY <2>6, Appended
  <2>11. u = Cons(x, s)
    BY <2>9, <2>10 DEF Cons
  <2>12. PICK tws : tws = WordTexts(Final, ws)
    OBVIOUS
  <2>13. TextsOf(ItemTexts, u) = Cons(Address, tws)
    <3>1. TextsOf(ItemTexts, Cons(x, s)) = Cons(ItemTexts[x], TextsOf(ItemTexts, s))
      BY <1>1, <2>6, SpelledFirst
    <3>2. QED
      BY <2>6, <2>8, <2>11, <2>12, <3>1
  <2>14. WordTexts(Final, fields) = Cons(Address, tws)
    <3>1. WordTexts(Final, Cons(w, ws)) = Cons(WordText(Final, w), WordTexts(Final, ws))
      BY <2>4, WordTextsCons
    <3>2. WordText(Final, w) = Address
      BY <2>4 DEF WordText
    <3>3. QED
      BY <2>4, <2>12, <3>1, <3>2
  <2>15. PICK open \in Seq(Letters), close \in Seq(Letters) : open = <<"<">> /\ close = <<">">>
    BY PunctuationType
  <2>16. printObject(o) = Between(open, u, close)
    BY <1>6, <2>3, <2>5, <2>7, <2>9, <2>10, <2>15 DEF printObject
  <2>17. /\ Spelled(ItemTexts, printObject(o)) = (open \o Join(TextsOf(ItemTexts, u))) \o close
         /\ Only(u, Whole)
    BY <2>16, BetweenText
  <2>18. ObjectText(Final, o) = (open \o Listing(Final, fields)) \o close
    BY <1>6, <2>15, ObjectTextCases
  <2>19. Listing(Final, fields) = Join(WordTexts(Final, fields))
    BY DEF Listing, WordTexts
  <2>20. Acyclic(o)
    <3>1. Only(s, Whole)
      BY <2>6, <2>10, <2>17, OnlyConcat
    <3>2. Leads(Cons(w, ws), ending[Size])
      BY <2>4, <2>6, <3>1, LeadsCons
    <3>3. QED
      BY <1>6, <2>4, <3>2, AcyclicFields
  <2>21. QED
    BY <2>13, <2>14, <2>17, <2>18, <2>19, <2>20
<1>7. CASE heap[o].kind = "SEXP"
  <2>1. o \in Sexps /\ printObject(o) = printSexp(o)
    BY <1>7 DEF Sexps, printObject
  <2>2. CASE IsCons(o)
    <3>1. o \in Lists
      BY <2>1, <2>2, TagOfLists
    <3>2. PICK open \in Seq(Letters), close \in Seq(Letters) : open = <<"{">> /\ close = <<"}">>
      BY PunctuationType
    <3>3. PICK x \in Item, y \in Item, z \in Item :
            x = Text(open) /\ y = Cells(o) /\ z = Text(close)
      BY <3>1, ItemTypes
    <3>4. printObject(o) = <<x, y, z>>
      BY <2>1, <2>2, <3>2, <3>3 DEF printSexp
    <3>5. Spelled(ItemTexts, <<x, y, z>>) = (ItemTexts[x] \o ItemTexts[y]) \o ItemTexts[z]
      BY ItemsSpelled
    <3>6. /\ ItemTexts[x] = open /\ ItemTexts[z] = close
          /\ ItemTexts[y] = Listing(Final, elements[Size][o])
      BY <3>1, <3>3, ItemTextsType
    <3>7. ObjectText(Final, o) = (open \o Listing(Final, elements[Size][o])) \o close
      BY <1>7, <3>1, <3>2, ObjectTextCases
    <3>8. Acyclic(o)
      <4>1. 2 \in 1..Len(<<x, y, z>>) /\ <<x, y, z>>[2] = y
        OBVIOUS
      <4>2. y \in Whole
        BY <3>4, <4>1 DEF Only
      <4>3. QED
        BY <3>3, <4>2 DEF Whole, Cells
    <3>9. QED
      BY <3>4, <3>5, <3>6, <3>7, <3>8
  <2>3. CASE ~ IsCons(o)
    <3>1. o \notin Lists
      BY <2>1, <2>3, TagOfLists
    <3>2. PICK n \in Seq(Letters) : n = FirstChars(names[o]) /\ n = de_hash[heap[o].tag]
      BY <2>1, TagOfLists
    <3>3. PICK x \in Item : x = Text(n)
      BY ItemTypes
    <3>4. PICK a \in Seq(Item) : a = <<x>>
      BY ItemTypes
    <3>5. Spelled(ItemTexts, a) = n
      <4>1. Spelled(ItemTexts, <<x>>) = ItemTexts[x]
        BY <1>1, SpelledSmall
      <4>2. QED
        BY <3>3, <3>4, <4>1, ItemTextsType
    <3>6. fields \in Seq(Word(heap))
      BY <1>7, FieldsLead
    <3>7. PICK s : s = Values_(fields)
      OBVIOUS
    <3>8. /\ s \in Seq(Item) /\ TextsOf(ItemTexts, s) = WordTexts(Final, fields)
          /\ Only(s, Whole) => Leads(fields, ending[Size])
      BY <3>6, <3>7, ValuesText
    <3>9. PICK open \in Seq(Letters), close \in Seq(Letters) :
             open = <<" ", "(">> /\ close = <<")">>
      BY PunctuationType
    <3>10. CASE fields = <<>>
      <4>1. printObject(o) = a \o <<>>
        BY <2>1, <2>3, <3>2, <3>3, <3>4, <3>10 DEF printSexp
      <4>2. ObjectText(Final, o) = n \o <<>>
        BY <1>7, <3>1, <3>2, <3>10, ObjectTextCases
      <4>3. a \o <<>> = a /\ n \o <<>> = n
        BY ConcatEmptySeq
      <4>4. Acyclic(o)
        <5>1. Len(<<>>) = 0
          OBVIOUS
        <5>2. Leads(fields, ending[Size])
          BY <3>10, <5>1 DEF Leads
        <5>3. QED
          BY <1>7, <5>2, AcyclicFields
      <4>5. QED
        BY <3>5, <4>1, <4>2, <4>3, <4>4
    <3>11. CASE fields # <<>>
      <4>1. PICK b : b = Between(open, s, close)
        OBVIOUS
      <4>2. b \in Seq(Item)
        BY <3>8, <4>1, BetweenType
      <4>3. printObject(o) = a \o b
        BY <2>1, <2>3, <3>2, <3>3, <3>4, <3>7, <3>9, <3>11, <4>1 DEF printSexp
      <4>4. Spelled(ItemTexts, a \o b) = n \o Spelled(ItemTexts, b)
        BY <3>5, <4>2, ItemsSpelled
      <4>5. /\ Spelled(ItemTexts, b) = (open \o Join(TextsOf(ItemTexts, s))) \o close
            /\ Only(b, Whole) => Only(s, Whole)
        BY <3>8, <4>1, BetweenText
      <4>6. Only(b, Whole)
        BY <4>2, <4>3, OnlyConcat
      <4>7. ObjectText(Final, o) = n \o ((open \o Listing(Final, fields)) \o close)
        BY <1>7, <3>1, <3>2, <3>9, <3>11, ObjectTextCases
      <4>8. Listing(Final, fields) = Join(WordTexts(Final, fields))
        BY DEF Listing, WordTexts
      <4>9. Acyclic(o)
        BY <1>7, <3>8, <4>5, <4>6, AcyclicFields
      <4>10. QED
        BY <3>8, <4>3, <4>4, <4>5, <4>7, <4>8, <4>9
    <3>12. QED
      BY <3>10, <3>11
  <2>4. QED
    BY <2>2, <2>3
<1>8. QED
  BY <1>2, <1>4, <1>5, <1>6, <1>7

\* So is what it prints of a value,
LEMMA ValuePrinted ==
  ASSUME HeapInv, TagsInv, status = "printing", NEW v \in Word(heap),
         Only(printValue(v), Whole)
  PROVE  Value(v) \in Whole /\ Spelled(ItemTexts, printValue(v)) = ItemTexts[Value(v)]
<1>1. /\ TextMap(ItemTexts, Item) /\ Value(v) \in Item
      /\ ItemTexts[Value(v)] = WordText(Final, v)
  BY ItemTextsType
<1>2. CASE v[1] = "ptr"
  <2>1. PICK o \in DOMAIN heap : o = v[2]
    BY <1>2 DEF Word
  <2>2. printValue(v) = printObject(o)
    BY <1>2, <2>1 DEF printValue
  <2>3. Acyclic(o) /\ Spelled(ItemTexts, printObject(o)) = Final[o]
    BY <2>2, ObjectPrinted
  <2>4. WordText(Final, v) = Final[o]
    BY <1>2, <2>1 DEF WordText
  <2>5. Value(v) \in Whole
    BY <1>1, <2>1, <2>3 DEF Whole, Value
  <2>6. QED
    BY <1>1, <2>2, <2>3, <2>4, <2>5
<1>3. CASE v[1] \in {"int", "out"}
  <2>1. PICK t \in Seq(Letters) : t = WordText(Final, v)
    BY AcyclicTexts, WordTextType
  <2>2. PICK x \in Item : x = Text(t)
    BY ItemTypes
  <2>3. printValue(v) = <<x>>
    BY <1>3, <2>1, <2>2 DEF printValue, WordText
  <2>4. Spelled(ItemTexts, <<x>>) = ItemTexts[x]
    BY <1>1, SpelledSmall
  <2>5. ItemTexts[x] = t
    BY <2>2, ItemTextsType
  <2>6. Value(v) \in Whole
    BY <1>1, <1>3 DEF Whole, Value
  <2>7. QED
    BY <1>1, <2>1, <2>3, <2>4, <2>5, <2>6
<1>4. QED
  BY <1>2, <1>3 DEF Word

\* and of the cells of a list.
LEMMA CellsPrinted ==
  ASSUME HeapInv, NEW o \in Lists, Only(printCells(o), Whole)
  PROVE  Cells(o) \in Whole /\ Spelled(ItemTexts, printCells(o)) = ItemTexts[Cells(o)]
<1>1. PICK f : f = ItemTexts
  OBVIOUS
<1>2. /\ TextMap(f, Item) /\ Cells(o) \in Item
      /\ f[Cells(o)] = Listing(Final, elements[Size][o])
  BY <1>1, ItemTextsType
<1>3. PICK v, w : v = First(o) /\ w = Rest(o)
  OBVIOUS
<1>4. v \in Word(heap) /\ heap[o].contents # <<>> /\ o \in DOMAIN heap /\ heap[o].kind = "SEXP"
  <2>1. Len(<<>>) = 0
    OBVIOUS
  <2>2. QED
    <3>1. o \in Sexps /\ Sexps \subseteq DOMAIN heap /\ \A p \in Sexps : heap[p].kind = "SEXP"
      BY DEF Lists, Sexps
    <3>2. First(o) \in Word(heap)
      BY CellFacts
    <3>3. heap[o].contents \in Seq(Word(heap)) /\ Len(heap[o].contents) = 2
      BY CellFacts
    <3>4. heap[o].contents # <<>>
      BY <2>1, <3>3
    <3>5. QED
      BY <1>3, <3>1, <3>2, <3>4
<1>5. PICK x \in Item : x = Value(v)
  BY <1>4, ItemTypes
<1>6. PICK s : s = IF UNBOXED(w) THEN <<>> ELSE <<Text(Separator), Cells(w[2])>>
  OBVIOUS
<1>7. s \in Seq(Item)
  <2>1. CASE UNBOXED(w)
    BY <1>6, <2>1
  <2>2. CASE ~ UNBOXED(w)
    <3>1. Text(Separator) \in Item /\ Cells(w[2]) \in Item
      BY <1>3, <2>2, CellFacts, ItemTypes, PunctuationType
    <3>2. <<Text(Separator), Cells(w[2])>> \in Seq(Item)
      BY <3>1, ItemTypes
    <3>3. QED
      BY <1>6, <2>2, <3>2
  <2>3. QED
    BY <2>1, <2>2
<1>8. PICK a \in Seq(Item) : a = <<x>>
  BY ItemTypes
<1>9. printCells(o) = a \o s
  BY <1>3, <1>4, <1>5, <1>6, <1>8 DEF printCells, First, Rest
<1>10. Only(a, Whole) /\ Only(s, Whole)
  BY <1>7, <1>9, OnlyConcat
<1>11. v[1] = "ptr" => v[2] \in ending[Size]
  <2>1. 1 \in 1..Len(a) /\ a[1] = x
    BY <1>8
  <2>2. x \in Whole
    BY <1>10, <2>1 DEF Only
  <2>3. QED
    BY <1>5, <2>2 DEF Whole, Value, Acyclic
<1>12. ~ UNBOXED(w) => w[2] \in ending[Size] /\ w[2] \in Lists
  <2>1. ASSUME ~ UNBOXED(w) PROVE w[2] \in ending[Size]
    <3>1. s[2] = Cells(w[2]) /\ 2 \in 1..Len(s)
      BY <1>6, <2>1
    <3>2. Cells(w[2]) \in Whole
      BY <1>10, <3>1 DEF Only
    <3>3. QED
      BY <3>2 DEF Whole, Cells, Acyclic
  <2>2. QED
    BY <1>3, <2>1, CellFacts
<1>13. Acyclic(o)
  <2>1. ASSUME NEW i \in 1..Len(heap[o].contents), heap[o].contents[i][1] = "ptr"
        PROVE  heap[o].contents[i][2] \in ending[Size]
    <3>1. Len(heap[o].contents) = 2
      BY CellFacts
    <3>2. CASE i = 1
      BY <1>3, <1>11, <2>1, <3>2 DEF First
    <3>3. CASE i = 2
      BY <1>3, <1>12, <2>1, <3>3 DEF Rest, UNBOXED
    <3>4. QED
      BY <3>1, <3>2, <3>3
  <2>2. Leads(heap[o].contents, ending[Size])
    BY <2>1 DEF Leads
  <2>3. QED
    BY <1>4, <2>2, AcyclicFields
<1>14. PICK e : e = elements[Size]
  OBVIOUS
<1>15. PICK ws : ws = IF UNBOXED(w) THEN <<>> ELSE e[w[2]]
  OBVIOUS
<1>16. ws \in Seq(Word(heap)) /\ e[o] = Cons(v, ws)
  <2>1. WordLists(e)
    BY <1>14, ListElements, ElementsDef
  <2>2. ws \in Seq(Word(heap))
    BY <1>3, <1>15, <2>1, ElementsType
  <2>3. e[o] = Elements(e, o)
    BY <1>13, <1>14, AcyclicTexts
  <2>4. QED
    BY <1>3, <1>15, <2>2, <2>3 DEF Elements
<1>17. PICK y, tws : y = WordText(Final, v) /\ tws = WordTexts(Final, ws)
  OBVIOUS
<1>18. y \in Seq(Letters) /\ tws \in Seq(Seq(Letters)) /\ Len(tws) = Len(ws)
  BY <1>4, <1>16, <1>17, AcyclicTexts, WordTextType, ListingType
<1>19. f[Cells(o)] = Join(Cons(y, tws))
  <2>1. WordTexts(Final, Cons(v, ws)) = Cons(y, tws)
    BY <1>4, <1>16, <1>17, WordTextsCons
  <2>2. QED
    BY <1>2, <1>14, <1>16, <2>1 DEF Listing, WordTexts
<1>20. f[x] = y
  BY <1>1, <1>4, <1>5, <1>17, ItemTextsType
<1>21. Spelled(f, a \o s) = y \o Spelled(f, s)
  <2>1. Spelled(f, <<x>>) = f[x]
    BY <1>2, SpelledSmall
  <2>2. Spelled(f, a \o s) = Spelled(f, a) \o Spelled(f, s)
    BY <1>2, <1>7, SpelledConcat
  <2>3. QED
    BY <1>8, <1>20, <2>1, <2>2
<1>22. CASE UNBOXED(w)
  <2>1. s = <<>> /\ ws = <<>>
    BY <1>6, <1>15, <1>22
  <2>2. tws = <<>>
    <3>1. Len(<<>>) = 0
      OBVIOUS
    <3>2. QED
      BY <1>18, <2>1, <3>1, EmptySeq
  <2>3. Spelled(f, <<>>) = <<>>
    BY <1>2, <1>5, SpelledSmall
  <2>4. y \o <<>> = y
    BY <1>18, ConcatEmptySeq
  <2>5. Cons(y, <<>>) = <<y>>
    <3>1. <<y>> \in Seq(Seq(Letters))
      BY <1>18
    <3>2. QED
      BY <3>1, ConcatEmptySeq DEF Cons
  <2>6. Join(<<y>>) = y
    BY <1>18, JoinFirst
  <2>7. QED
    BY <1>1, <1>2, <1>9, <1>13, <1>19, <1>21, <2>1, <2>2, <2>3, <2>4, <2>5, <2>6
       DEF Whole, Cells
<1>23. CASE ~ UNBOXED(w)
  <2>1. PICK t \in Lists : t = w[2] /\ t \in ending[Size]
    BY <1>12, <1>23
  <2>2. ws = e[t]
    BY <1>15, <1>23, <2>1
  <2>3. PICK sep \in Item, c \in Item : sep = Text(Separator) /\ c = Cells(t)
    BY ItemTypes, PunctuationType
  <2>4. s = <<sep, c>>
    BY <1>6, <1>23, <2>1, <2>3
  <2>5. Spelled(f, <<sep, c>>) = f[sep] \o f[c]
    BY <1>1, ItemsSpelled
  <2>6. f[sep] = Separator /\ f[c] = Listing(Final, e[t])
    BY <1>1, <1>14, <2>3, ItemTextsType, PunctuationType
  <2>7. f[c] = Join(tws)
    BY <1>17, <2>2, <2>6 DEF Listing, WordTexts
  <2>8. tws # <<>>
    <3>1. e[t] = Elements(e, t)
      BY <1>14, <2>1, AcyclicTexts DEF Acyclic
    <3>2. PICK us : us = IF UNBOXED(Rest(t)) THEN <<>> ELSE e[Rest(t)[2]]
      OBVIOUS
    <3>3. WordLists(e)
      BY <1>14, ListElements, ElementsDef
    <3>4. us \in Seq(Word(heap)) /\ First(t) \in Word(heap)
      BY <3>2, <3>3, ElementsType, CellFacts
    <3>5. ws = Cons(First(t), us)
      BY <2>2, <3>1, <3>2 DEF Elements
    <3>6. Len(ws) = Len(us) + 1 /\ Len(us) \in Nat
      <4>1. PICK h \in Word(heap) : h = First(t)
        BY <3>4
      <4>2. Prepends(Cons(h, us), h, us, Word(heap))
        BY <3>4, ConsProperties
      <4>3. QED
        BY <3>4, <3>5, <4>1, <4>2 DEF Prepends
    <3>7. Len(<<>>) = 0
      OBVIOUS
    <3>8. QED
      BY <1>18, <3>6, <3>7
  <2>9. Join(Cons(y, tws)) = y \o (Separator \o Join(tws))
    BY <1>18, <2>8, JoinFirst
  <2>10. QED
    BY <1>1, <1>2, <1>9, <1>13, <1>19, <1>21, <2>4, <2>5, <2>6, <2>7, <2>9
       DEF Whole, Cells
<1>24. QED
  BY <1>22, <1>23

-----------------------------------------------------------------------------
(***************************************************************************)
(* The inductive invariant of the text.                                    *)
(***************************************************************************)

\* What was printed, and the inductive invariant of the text: in the buffer are
\* letters up to ptr, and then a NUL unless a piece is about to be printed; what
\* was printed and the text of what is left are the text of the value, unless
\* printing it never ends.
Printed == SubSeq(contents, 1, ptr)
TextInv ==
  /\ status \in {"building", "failed"} => asked = <<>>
  /\ status = "idle" => (asked # <<>> => result = Final[asked[2]])
  /\ status = "printing" =>
       /\ \A i \in 1..ptr : contents[i] \in Letters
       /\ contents[ptr + 1] = NUL \/ (todo # <<>> /\ Head(todo)[1] = "text")
       /\ Only(todo, Whole) => Printed \o Spelled(ItemTexts, todo) = Final[asked[2]]

\* The texts are those of the program, which does not change.
LEMMA SameTexts ==
  ASSUME UNCHANGED <<names, heap>>
  PROVE  ItemTexts' = ItemTexts /\ Whole' = Whole /\ Final' = Final
<1>1. elements' = elements
  BY DEF elements, Lists, Sexps, UNBOXED
<1>2. ending' = ending /\ Size' = Size
  BY DEF ending, Pointed, Size
<1>3. texts' = texts
  BY <1>1 DEF texts, ObjectText, WordText, Listing, Lists, Sexps, Size
<1>4. Item' = Item
  BY DEF Item, Word, Lists, Sexps
<1>5. Final' = Final
  BY <1>2, <1>3 DEF Final
<1>6. Whole' = Whole
  BY <1>2, <1>4 DEF Whole, Acyclic
<1>7. ItemTexts' = ItemTexts
  BY <1>1, <1>2, <1>4, <1>5 DEF ItemTexts, ItemText, WordText, Listing
<1>8. QED
  BY <1>5, <1>6, <1>7

\* A sequence of members of S with one more in front.
LEMMA OnlyCons ==
  ASSUME NEW I, NEW x \in I, NEW s \in Seq(I), NEW S, x \in S, Only(s, S)
  PROVE  Only(Cons(x, s), S)
<1>1. PICK u : u = Cons(x, s)
  OBVIOUS
<1>2. PICK n \in Nat : n = Len(s)
  OBVIOUS
<1>3. Prepends(u, x, s, I)
  BY <1>1, ConsProperties
<1>4. Len(u) = n + 1 /\ u[1] = x /\ \A i \in 1..n : u[i + 1] = s[i]
  BY <1>2, <1>3 DEF Prepends
<1>5. ASSUME NEW i \in 1..(n + 1) PROVE u[i] \in S
  <2>1. CASE i = 1
    BY <1>4, <2>1
  <2>2. CASE i # 1
    <3>1. PICK k \in 1..n : i = k + 1
      <4>1. i - 1 \in 1..n /\ i = (i - 1) + 1
        BY <2>2
      <4>2. QED
        BY <4>1
    <3>2. QED
      BY <1>2, <1>4, <3>1 DEF Only
  <2>3. QED
    BY <2>1, <2>2
<1>6. QED
  BY <1>1, <1>4, <1>5 DEF Only

\* Two sequences of cells that agree up to n.
LEMMA SamePrefix ==
  ASSUME NEW s \in Seq(Cell), NEW t \in Seq(Cell), NEW n \in Nat, n <= Len(s), n <= Len(t),
         \A i \in 1..n : s[i] = t[i]
  PROVE  SubSeq(s, 1, n) = SubSeq(t, 1, n)
<1>1. PICK a, b : a = SubSeq(s, 1, n) /\ b = SubSeq(t, 1, n)
  OBVIOUS
<1>2. n \in 0..Len(s) /\ n \in 0..Len(t)
  OBVIOUS
<1>3. /\ a \in Seq(Cell) /\ Len(a) = n /\ \A i \in 1..n : a[i] = s[i]
      /\ b \in Seq(Cell) /\ Len(b) = n /\ \A i \in 1..n : b[i] = t[i]
  BY <1>1, <1>2, PopProperties
<1>4. Len(a) = Len(b) /\ \A i \in 1..Len(a) : a[i] = b[i]
  BY <1>3
<1>5. a = b
  BY <1>3, <1>4, SeqEqual
<1>6. QED
  BY <1>1, <1>5

\* A prefix of letters is a text.
LEMMA PrefixText ==
  ASSUME NEW s \in Seq(Cell), NEW n \in Nat, n <= Len(s), \A i \in 1..n : s[i] \in Letters
  PROVE  SubSeq(s, 1, n) \in Seq(Letters) /\ Len(SubSeq(s, 1, n)) = n
         /\ \A i \in 1..n : SubSeq(s, 1, n)[i] = s[i]
<1>1. n \in 0..Len(s)
  OBVIOUS
<1>2. PICK a : a = SubSeq(s, 1, n)
  OBVIOUS
<1>3. a \in Seq(Cell) /\ Len(a) = n /\ \A i \in 1..n : a[i] = s[i]
  BY <1>1, <1>2, PopProperties
<1>4. a \in Seq(Letters)
  BY <1>3
<1>5. QED
  BY <1>2, <1>3, <1>4

\* w is the buffer buf with the text of a piece at its place, if it fits, and
\* with what stood before that place.
WithPiece(w, buf, at, text, rest) ==
  /\ SubSeq(w, 1, at) = SubSeq(buf, 1, at)
  /\ Len(w) = Len(buf) /\ w \in Seq(Cell)
  /\ \A i \in 1..at : w[i] = buf[i]
  /\ ~ Short(Len(text), rest) =>
       /\ at + Len(text) + 1 <= Len(buf)
       /\ SubSeq(w, 1, at + Len(text)) = SubSeq(buf, 1, at) \o text
       /\ \A i \in 1..(at + Len(text)) : w[i] \in Letters
       /\ w[at + Len(text) + 1] = NUL

\* A piece that fits is behind what was there, and a NUL behind it; of a piece
\* that does not fit, nothing counts as printed.
LEMMA PieceWritten ==
  ASSUME NEW buf \in Seq(Cell), NEW at \in Nat, at < Len(buf), NEW text \in Seq(Letters),
         NEW rest, rest = Len(buf) - at, \A i \in 1..at : buf[i] \in Letters,
         NEW w, w = vsnprintf(buf, at, rest, text)
  PROVE  WithPiece(w, buf, at, text, rest)
<1>1. PICK put : put = Put(rest, text)
  OBVIOUS
<1>2. /\ put \in Nat /\ at + put + 1 <= Len(buf)
      /\ w \in Seq(Cell) /\ Len(w) = Len(buf)
      /\ \A i \in 1..at : w[i] = buf[i]
      /\ \A i \in 1..put : w[at + i] = text[i]
      /\ w[at + put + 1] = NUL
  BY <1>1, Written
<1>3. SubSeq(w, 1, at) = SubSeq(buf, 1, at)
  BY <1>2, SamePrefix
<1>4. ASSUME ~ Short(Len(text), rest)
      PROVE  /\ at + Len(text) + 1 <= Len(buf)
             /\ SubSeq(w, 1, at + Len(text)) = SubSeq(buf, 1, at) \o text
             /\ \A i \in 1..(at + Len(text)) : w[i] \in Letters
             /\ w[at + Len(text) + 1] = NUL
  <2>1. put = Len(text)
    BY <1>1, <1>4 DEF Short, Put
  <2>2. PICK n \in Nat : n = at + put
    <3>1. at + put \in Nat
      BY <1>2
    <3>2. QED
      BY <3>1
  <2>3. ASSUME NEW i \in 1..put PROVE w[at + i] \in Letters
    <3>1. text[i] \in Letters
      BY <2>1
    <3>2. QED
      BY <1>2, <3>1
  <2>4. ASSUME NEW i \in 1..n PROVE w[i] \in Letters
    <3>1. CASE i <= at
      BY <1>2, <3>1
    <3>2. CASE ~ (i <= at)
      <4>1. PICK k \in 1..put : i = at + k
        <5>1. i - at \in 1..put /\ i = at + (i - at)
          BY <1>2, <2>2, <3>2
        <5>2. QED
          BY <5>1
      <4>2. QED
        BY <2>3, <4>1
    <3>3. QED
      BY <3>1, <3>2
  <2>5. PICK a, b : a = SubSeq(w, 1, n) /\ b = SubSeq(buf, 1, at)
    OBVIOUS
  <2>6. a \in Seq(Letters) /\ Len(a) = n /\ \A i \in 1..n : a[i] = w[i]
    <3>1. n <= Len(w)
      BY <1>2, <2>2
    <3>2. QED
      BY <1>2, <2>4, <2>5, <3>1, PrefixText
  <2>7. b \in Seq(Letters) /\ Len(b) = at /\ \A i \in 1..at : b[i] = buf[i]
    BY <2>5, PrefixText
  <2>8. Len(a) = Len(b) + Len(text)
    BY <2>1, <2>2, <2>6, <2>7
  <2>9. \A i \in 1..Len(b) : a[i] = b[i]
    <3>1. \A i \in 1..at : i \in 1..n
      BY <1>2, <2>2
    <3>2. QED
      BY <1>2, <2>6, <2>7, <3>1
  <2>10. \A i \in 1..Len(text) : a[Len(b) + i] = text[i]
    <3>1. ASSUME NEW i \in 1..put PROVE a[at + i] = text[i]
      <4>1. PICK k \in 1..n : k = at + i
        <5>1. at + i \in 1..n
          BY <1>2, <2>2
        <5>2. QED
          BY <5>1
      <4>2. QED
        BY <1>2, <2>6, <4>1
    <3>2. QED
      BY <2>1, <2>7, <3>1
  <2>11. a = b \o text
    BY <2>6, <2>7, <2>8, <2>9, <2>10, IsConcat
  <2>12. QED
    BY <1>2, <2>1, <2>2, <2>4, <2>5, <2>11
<1>5. QED
  BY <1>2, <1>3, <1>4 DEF WithPiece

\* The C string in a buffer ends at the first NUL.
LEMMA CStringAt ==
  ASSUME NEW s, NEW n \in Nat, Len(s) \in Nat, n < Len(s),
         \A i \in 1..n : s[i] \in Letters, s[n + 1] = NUL
  PROVE  CString(s) = SubSeq(s, 1, n)
<1> DEFINE I == {i \in 1..Len(s) : s[i] = NUL}
<1>1. \A i \in 1..n : s[i] # NUL
  BY ValuesAssumption
<1>2. n + 1 \in I
  OBVIOUS
<1>3. \A i \in I : n + 1 <= i
  BY <1>1
<1>4. I \subseteq Nat
  OBVIOUS
<1>5. EndOf(s) = n + 1
  <2>1. EndOf(s) = Min(I)
    BY <1>2 DEF EndOf
  <2> HIDE DEF I
  <2>2. Min(I) \in I /\ \A i \in I : Min(I) <= i
    BY <1>2, <1>3 DEF Min
  <2>3. n + 1 <= Min(I) /\ Min(I) <= n + 1 /\ Min(I) \in Nat
    BY <1>2, <1>3, <1>4, <2>2
  <2>4. QED
    BY <2>1, <2>3
<1>6. EndOf(s) - 1 = n
  BY <1>5
<1>7. QED
  BY <1>6, CStringDef

-----------------------------------------------------------------------------
(***************************************************************************)
(* The steps of Lstring keep it.                                           *)
(***************************************************************************)

\* A call begins with nothing printed and the value left to print.
LEMMA LstringText ==
  ASSUME IInv, TextInv, NEW o \in Asked, Lstring(<<"ptr", o>>)
  PROVE  TextInv'
<1>1. /\ status = "idle" /\ status' = "printing" /\ UNCHANGED <<names, heap>>
      /\ todo' = <<Value(<<"ptr", o>>)>> /\ asked' = <<"ptr", o>>
      /\ contents' = Buffer(InitLen) /\ ptr' = 0
  BY DEF Lstring
<1>2. ItemTexts' = ItemTexts /\ Final' = Final
  BY <1>1, SameTexts
<1>3. PICK v \in Word(heap) : v = <<"ptr", o>>
  <2>1. o \in DOMAIN heap
    BY DEF IInv, HeapInv
  <2>2. QED
    BY <2>1 DEF Word
<1>4. /\ TextMap(ItemTexts, Item) /\ Value(v) \in Item
      /\ ItemTexts[Value(v)] = WordText(Final, v)
  BY ItemTextsType DEF IInv
<1>5. ItemTexts[Value(v)] = Final[o] /\ Final[o] \in Seq(Letters)
  <2>1. WordText(Final, v) = Final[o]
    BY <1>3 DEF WordText
  <2>2. WordText(Final, v) \in Seq(Letters)
    BY AcyclicTexts, WordTextType DEF IInv
  <2>3. QED
    BY <1>4, <2>1, <2>2
<1>6. Spelled(ItemTexts, <<Value(v)>>) = Final[o]
  BY <1>4, <1>5, SpelledSmall
<1>7. contents'[1] = NUL
  <2>1. 1 \in 1..InitLen
    BY StringBufAssumption
  <2>2. QED
    BY <1>1, <2>1 DEF Buffer
<1>8. Printed' = <<>>
  BY <1>1, SubSeqEmpty DEF Printed
<1>9. Printed' \o Spelled(ItemTexts', todo') = Final'[asked'[2]]
  <2>1. <<>> \o Final[o] = Final[o]
    BY <1>5, ConcatEmptySeq
  <2>2. QED
    BY <1>1, <1>2, <1>3, <1>6, <1>8, <2>1
<1>10. QED
  BY <1>1, <1>7, <1>9 DEF TextInv

\* What is left to print.
LEMMA TodoFacts ==
  ASSUME IInv, status = "printing", todo # <<>>
  PROVE  /\ Head(todo) \in Item /\ Tail(todo) \in Seq(Item)
         /\ todo = Cons(Head(todo), Tail(todo))
         /\ TextMap(ItemTexts, Item)
         /\ Spelled(ItemTexts, Tail(todo)) \in Seq(Letters)
         /\ Spelled(ItemTexts, todo) =
              ItemTexts[Head(todo)] \o Spelled(ItemTexts, Tail(todo))
         /\ Head(todo) \in Whole /\ Only(Tail(todo), Whole) => Only(todo, Whole)
<1>1. todo \in Seq(Item)
  BY DEF IInv, TodoInv
<1>2. PICK x, t : x = Head(todo) /\ t = Tail(todo)
  OBVIOUS
<1>3. x \in Item /\ t \in Seq(Item) /\ todo = Cons(x, t)
  BY <1>1, <1>2, HasFirst
<1>4. TextMap(ItemTexts, Item)
  BY ItemTextsType DEF IInv
<1>5. Spelled(ItemTexts, t) \in Seq(Letters)
  BY <1>3, <1>4, SpelledConcat
<1>6. Spelled(ItemTexts, Cons(x, t)) = ItemTexts[x] \o Spelled(ItemTexts, t)
  BY <1>3, <1>4, SpelledFirst
<1>7. x \in Whole /\ Only(t, Whole) => Only(Cons(x, t), Whole)
  BY <1>3, OnlyCons
<1>8. QED
  BY <1>2, <1>3, <1>4, <1>5, <1>6, <1>7

\* The buffer, while it is used.
LEMMA BufferFacts ==
  ASSUME IInv, TextInv, status = "printing"
  PROVE  /\ contents \in Seq(Cell) /\ len = Len(contents) /\ len \in Nat
         /\ ptr \in Nat /\ ptr < len /\ Printed \in Seq(Letters)
<1>1. /\ contents \in Seq(Cell) /\ len = Len(contents) /\ ptr \in Nat
      /\ \E i \in (ptr + 1)..len : contents[i] = NUL /\ \A j \in 1..i : contents[j] # Unset
  BY DEF IInv, BufferInv
<1>2. len \in Nat /\ ptr < len
  BY <1>1
<1>3. \A i \in 1..ptr : contents[i] \in Letters
  BY DEF TextInv
<1>4. Printed \in Seq(Letters)
  BY <1>1, <1>2, <1>3, PrefixText DEF Printed
<1>5. QED
  BY <1>1, <1>2, <1>4

\* A piece of text moves from what is left to the buffer, or nothing moves.
LEMMA PrintTextText ==
  ASSUME IInv, TextInv, PrintText
  PROVE  TextInv'
<1>1. /\ status = "printing" /\ status' = "printing" /\ todo # <<>> /\ Head(todo)[1] = "text"
      /\ printStringBuf(Head(todo)[2]) /\ UNCHANGED <<names, heap, asked>>
  BY DEF PrintText
<1>2. ItemTexts' = ItemTexts /\ Final' = Final /\ Whole' = Whole
  BY <1>1, SameTexts
<1>3. PICK x, t : x = Head(todo) /\ t = Tail(todo)
  OBVIOUS
<1>4. /\ x \in Item /\ t \in Seq(Item)
      /\ Spelled(ItemTexts, t) \in Seq(Letters)
      /\ Spelled(ItemTexts, todo) = ItemTexts[x] \o Spelled(ItemTexts, t)
      /\ x \in Whole /\ Only(t, Whole) => Only(todo, Whole)
  BY <1>1, <1>3, TodoFacts
<1>5. PICK text \in Seq(Letters) : text = Head(todo)[2] /\ x = Text(text)
  BY <1>1, <1>3, <1>4 DEF Item, Text
<1>6. ItemTexts[x] = text /\ x \in Whole
  BY <1>4, <1>5, ItemTextsType DEF IInv, Whole, Text
<1>7. /\ contents \in Seq(Cell) /\ len = Len(contents) /\ len \in Nat
      /\ ptr \in Nat /\ ptr < len /\ Printed \in Seq(Letters)
  BY <1>1, BufferFacts
<1>8. /\ \A i \in 1..ptr : contents[i] \in Letters
      /\ Only(todo, Whole) => Printed \o Spelled(ItemTexts, todo) = Final[asked[2]]
  BY <1>1 DEF TextInv
<1>9. PICK rest, w : rest = len - ptr /\ w = vsnprintf(contents, ptr, rest, text)
  OBVIOUS
<1>10. /\ SubSeq(w, 1, ptr) = Printed /\ w \in Seq(Cell) /\ Len(w) = len
       /\ \A i \in 1..ptr : w[i] = contents[i]
       /\ ~ Short(Len(text), rest) =>
              /\ SubSeq(w, 1, ptr + Len(text)) = Printed \o text
              /\ \A i \in 1..(ptr + Len(text)) : w[i] \in Letters
              /\ w[ptr + Len(text) + 1] = NUL
  <2>1. \A i \in 1..ptr : contents[i] \in Letters
    BY <1>8
  <2>2. contents \in Seq(Cell) /\ rest = Len(contents) - ptr /\ ptr < Len(contents)
    BY <1>7, <1>9
  <2>3. WithPiece(w, contents, ptr, text, rest)
    BY <1>7, <1>9, <2>1, <2>2, PieceWritten
  <2>4. QED
    BY <1>7, <2>3 DEF WithPiece, Printed
<1>11. CASE Short(Len(text), rest)
  <2>1. contents' = Grown(w, 2 * len) /\ ptr' = ptr /\ todo' = todo
    BY <1>1, <1>5, <1>9, <1>11 DEF printStringBuf, NewLen
  <2>2. /\ contents' \in Seq(Cell) /\ Len(contents') = 2 * len
        /\ \A i \in 1..len : contents'[i] = w[i]
    <3>1. 2 * len \in Nat /\ len <= 2 * len
      BY <1>7
    <3>2. QED
      BY <1>10, <2>1, <3>1, GrownProperties
  <2>3. \A i \in 1..ptr : i \in 1..len
    BY <1>7
  <2>4. \A i \in 1..ptr : contents'[i] = contents[i]
    BY <1>10, <2>2, <2>3
  <2>5. Printed' = Printed
    <3>1. ptr <= Len(contents) /\ ptr <= Len(contents')
      BY <1>7, <2>2
    <3>2. SubSeq(contents', 1, ptr) = SubSeq(contents, 1, ptr)
      BY <1>7, <2>2, <2>4, <3>1, SamePrefix
    <3>3. QED
      BY <2>1, <3>2 DEF Printed
  <2>6. \A i \in 1..ptr' : contents'[i] \in Letters
    BY <1>8, <2>1, <2>4
  <2>7. Only(todo', Whole') => Printed' \o Spelled(ItemTexts', todo') = Final'[asked'[2]]
    BY <1>1, <1>2, <1>8, <2>1, <2>5
  <2>8. todo' # <<>> /\ Head(todo')[1] = "text"
    BY <1>1, <2>1
  <2>9. QED
    BY <1>1, <2>6, <2>7, <2>8 DEF TextInv
<1>12. CASE ~ Short(Len(text), rest)
  <2>1. contents' = w /\ ptr' = ptr + Len(text) /\ todo' = t
    BY <1>1, <1>3, <1>5, <1>9, <1>12 DEF printStringBuf
  <2>2. Printed' = Printed \o text
    BY <1>10, <1>12, <2>1 DEF Printed
  <2>3. ASSUME Only(t, Whole)
        PROVE  (Printed \o text) \o Spelled(ItemTexts, t) = Final[asked[2]]
    <3>1. PICK r \in Seq(Letters), p \in Seq(Letters) : r = Spelled(ItemTexts, t) /\ p = Printed
      BY <1>4, <1>7
    <3>2. Only(todo, Whole)
      BY <1>4, <1>6, <2>3
    <3>3. p \o (text \o r) = Final[asked[2]]
      BY <1>4, <1>6, <1>8, <3>1, <3>2
    <3>4. (p \o text) \o r = p \o (text \o r)
      BY Associative
    <3>5. QED
      BY <3>1, <3>3, <3>4
  <2>4. Only(todo', Whole') => Printed' \o Spelled(ItemTexts', todo') = Final'[asked'[2]]
    BY <1>1, <1>2, <2>1, <2>2, <2>3
  <2>5. /\ \A i \in 1..ptr' : contents'[i] \in Letters
        /\ contents'[ptr' + 1] = NUL
    BY <1>10, <1>12, <2>1
  <2>6. QED
    BY <1>1, <2>4, <2>5 DEF TextInv
<1>13. QED
  BY <1>11, <1>12

\* What is printed for an item has the text of the item.
LEMMA ItemPrinted ==
  ASSUME IInv, TextInv, status = "printing", todo # <<>>, Head(todo)[1] # "text",
         NEW items \in Seq(Item), todo' = items \o Tail(todo),
         Only(items, Whole) => /\ Head(todo) \in Whole
                               /\ Spelled(ItemTexts, items) = ItemTexts[Head(todo)],
         UNCHANGED <<names, heap, status, asked, contents, ptr, len>>
  PROVE  TextInv'
<1>1. ItemTexts' = ItemTexts /\ Final' = Final /\ Whole' = Whole
  BY SameTexts
<1>2. PICK x, t : x = Head(todo) /\ t = Tail(todo)
  OBVIOUS
<1>3. /\ x \in Item /\ t \in Seq(Item) /\ TextMap(ItemTexts, Item)
      /\ Spelled(ItemTexts, todo) = ItemTexts[x] \o Spelled(ItemTexts, t)
      /\ x \in Whole /\ Only(t, Whole) => Only(todo, Whole)
  BY <1>2, TodoFacts
<1>4. Spelled(ItemTexts, items \o t) = Spelled(ItemTexts, items) \o Spelled(ItemTexts, t)
  BY <1>3, SpelledConcat
<1>5. ASSUME Only(items \o t, Whole)
      PROVE  Printed \o Spelled(ItemTexts, items \o t) = Final[asked[2]]
  <2>1. Only(items, Whole) /\ Only(t, Whole)
    BY <1>3, <1>5, OnlyConcat
  <2>2. Only(todo, Whole) /\ Spelled(ItemTexts, items) = ItemTexts[x]
    BY <1>2, <1>3, <2>1
  <2>3. Printed \o Spelled(ItemTexts, todo) = Final[asked[2]]
    BY <2>2 DEF TextInv
  <2>4. QED
    BY <1>3, <1>4, <2>2, <2>3
<1>6. Printed' = Printed
  BY DEF Printed
<1>7. Only(todo', Whole') => Printed' \o Spelled(ItemTexts', todo') = Final'[asked'[2]]
  BY <1>1, <1>2, <1>5, <1>6
<1>8. contents[ptr + 1] = NUL /\ \A i \in 1..ptr : contents[i] \in Letters
  BY DEF TextInv
<1>9. QED
  BY <1>7, <1>8 DEF TextInv

\* A value and the cells of a list give way to what is printed of them.
LEMMA PrintValueText ==
  ASSUME IInv, TextInv, PrintValue
  PROVE  TextInv'
<1>1. /\ status = "printing" /\ todo # <<>> /\ Head(todo)[1] = "value"
      /\ todo' = printValue(Head(todo)[2]) \o Tail(todo)
      /\ UNCHANGED <<names, heap, status, asked, contents, ptr, len>>
  BY DEF PrintValue
<1>2. Head(todo) \in Item
  BY <1>1, TodoFacts
<1>3. PICK v \in Word(heap) : v = Head(todo)[2] /\ Head(todo) = Value(v)
  BY <1>1, <1>2 DEF Item, Value
<1>4. printValue(v) \in Seq(Item)
  BY <1>1, ValueItems DEF IInv
<1>5. Only(printValue(v), Whole) =>
        /\ Value(v) \in Whole
        /\ Spelled(ItemTexts, printValue(v)) = ItemTexts[Value(v)]
  BY <1>1, ValuePrinted DEF IInv
<1>6. PICK items : items = printValue(v)
  OBVIOUS
<1>7. QED
  BY <1>1, <1>3, <1>4, <1>5, <1>6, ItemPrinted

\* The cells of a list give way to an element and the cells behind it.
LEMMA PrintCellsText ==
  ASSUME IInv, TextInv, PrintCells
  PROVE  TextInv'
<1>1. /\ status = "printing" /\ todo # <<>> /\ Head(todo)[1] = "cells"
      /\ todo' = printCells(Head(todo)[2]) \o Tail(todo)
      /\ UNCHANGED <<names, heap, status, asked, contents, ptr, len>>
  BY DEF PrintCells
<1>2. Head(todo) \in Item
  BY <1>1, TodoFacts
<1>3. PICK o \in Lists : o = Head(todo)[2] /\ Head(todo) = Cells(o)
  BY <1>1, <1>2 DEF Item, Cells
<1>4. printCells(o) \in Seq(Item)
  BY CellItems DEF IInv
<1>5. Only(printCells(o), Whole) =>
        /\ Cells(o) \in Whole
        /\ Spelled(ItemTexts, printCells(o)) = ItemTexts[Cells(o)]
  BY CellsPrinted DEF IInv
<1>6. PICK items : items = printCells(o)
  OBVIOUS
<1>7. QED
  BY <1>1, <1>3, <1>4, <1>5, <1>6, ItemPrinted

\* When nothing is left to print, the buffer holds the text.
LEMMA ReturnText ==
  ASSUME IInv, TextInv, Return
  PROVE  TextInv'
<1>1. /\ status = "printing" /\ status' = "idle" /\ todo = <<>>
      /\ result' = CString(contents) /\ UNCHANGED <<names, heap, asked>>
  BY DEF Return
<1>2. Final' = Final
  BY <1>1, SameTexts
<1>3. /\ contents \in Seq(Cell) /\ len = Len(contents) /\ len \in Nat
      /\ ptr \in Nat /\ ptr < len /\ Printed \in Seq(Letters)
  BY <1>1, BufferFacts
<1>4. /\ \A i \in 1..ptr : contents[i] \in Letters
      /\ contents[ptr + 1] = NUL
      /\ Only(todo, Whole) => Printed \o Spelled(ItemTexts, todo) = Final[asked[2]]
  BY <1>1 DEF TextInv
<1>5. Only(todo, Whole)
  <2>1. Len(<<>>) = 0
    OBVIOUS
  <2>2. QED
    BY <1>1, <2>1 DEF Only
<1>6. Spelled(ItemTexts, <<>>) = <<>>
  <2>1. TextMap(ItemTexts, Item) /\ Text(Separator) \in Item
    BY ItemTextsType, PunctuationType DEF IInv
  <2>2. QED
    BY <2>1, SpelledSmall
<1>7. Printed \o <<>> = Printed
  BY <1>3, ConcatEmptySeq
<1>8. CString(contents) = Printed
  BY <1>3, <1>4, CStringAt DEF Printed
<1>9. result' = Final'[asked'[2]]
  BY <1>1, <1>2, <1>4, <1>5, <1>6, <1>7, <1>8
<1>10. QED
  BY <1>1, <1>9 DEF TextInv

\* Every step keeps the invariant of the text.
LEMMA StepTextInv == IInv /\ TextInv /\ [Next]_vars => TextInv'
<1> SUFFICES ASSUME IInv, TextInv, [Next]_vars PROVE TextInv'
  OBVIOUS
<1>1. CASE Build
  <2>1. status = "building" /\ status' \in {"idle", "failed"} /\ asked' = asked
    BY <1>1 DEF Build
  <2>2. asked = <<>>
    BY <2>1 DEF TextInv
  <2>3. QED
    BY <2>1, <2>2 DEF TextInv
<1>2. CASE \E o \in Asked : Lstring(<<"ptr", o>>)
  BY <1>2, LstringText
<1>3. CASE PrintText
  BY <1>3, PrintTextText
<1>4. CASE PrintValue
  BY <1>4, PrintValueText
<1>5. CASE PrintCells
  BY <1>5, PrintCellsText
<1>6. CASE Return
  BY <1>6, ReturnText
<1>7. CASE UNCHANGED vars
  <2>1. UNCHANGED <<names, heap, status, todo, contents, ptr, len, asked, result>>
    BY <1>7 DEF vars
  <2>2. ItemTexts' = ItemTexts /\ Final' = Final /\ Whole' = Whole /\ Printed' = Printed
    BY <2>1, SameTexts DEF Printed
  <2>3. QED
    BY <2>1, <2>2 DEF TextInv
<1>8. QED
  BY <1>1, <1>2, <1>3, <1>4, <1>5, <1>6, <1>7 DEF Next, Printing

\* TextExact: Lstring returns exactly the text of its value, however often
\* extendStringBuf doubled the buffer and wherever vsnprintf cut a piece.
THEOREM TextExactCorrect == Spec => []TextExact
<1>1. Init => TextInv
  BY DEF Init, TextInv
<1>2. TextInv => TextExact
  BY DEF TextInv, TextExact, TextOf, Final
<1>3. QED
  BY <1>1, <1>2, StepTextInv, Invariance, PTL DEF Spec

-----------------------------------------------------------------------------
(***************************************************************************)
(* The patterns.                                                           *)
(***************************************************************************)

\* The text of a string is its characters in quotes.
LEMMA StringText ==
  ASSUME HeapInv, NEW o \in DOMAIN heap, heap[o].kind = "STRING"
  PROVE  texts[Size][o] = (<<"'">> \o CString(heap[o].contents)) \o <<"'">>
<1>1. Size \in Nat
  BY FS_CardinalityType, HeapFacts DEF Size
<1>2. \A b : ObjectText(b, o) = (<<"'">> \o CString(heap[o].contents)) \o <<"'">>
  BY ObjectTextCases
<1>3. PICK b : texts[Size][o] = ObjectText(b, o)
  <2>1. CASE Size = 0
    BY <2>1, TextsDef
  <2>2. CASE Size # 0
    <3>1. PICK m \in Nat : Size = m + 1
      <4>1. Size - 1 \in Nat /\ Size = (Size - 1) + 1
        BY <1>1, <2>2
      <4>2. QED
        BY <4>1
    <3>2. QED
      BY <3>1, TextsDef
  <2>3. QED
    BY <2>1, <2>2
<1>4. QED
  BY <1>2, <1>3

\* Two texts in quotes are one exactly when what is in the quotes is.
LEMMA SameQuoted ==
  ASSUME NEW s \in Seq(Letters), NEW t \in Seq(Letters)
  PROVE  (<<"'">> \o s) \o <<"'">> = (<<"'">> \o t) \o <<"'">> <=> s = t
<1>1. PICK q \in Seq(Letters) : q = <<"'">>
  BY PunctuationType
<1>2. Len(q) = 1
  BY <1>1
<1>3. PICK F : F = [u \in Seq(Letters) |-> (q \o u) \o q]
  OBVIOUS
<1>4. ASSUME NEW u \in Seq(Letters)
      PROVE  /\ (q \o u) \o q \in Seq(Letters) /\ Len((q \o u) \o q) = Len(u) + 2
             /\ \A i \in 1..Len(u) : ((q \o u) \o q)[i + 1] = u[i]
  <2>1. PICK v \in Seq(Letters) : v = q \o u
    BY Appended
  <2>2. Len(v) = Len(u) + 1 /\ Len(u) \in Nat /\ \A i \in 1..Len(u) : v[i + 1] = u[i]
    <3>1. Len(q \o u) = Len(q) + Len(u) /\ \A i \in 1..Len(u) : (q \o u)[Len(q) + i] = u[i]
      BY Appended
    <3>2. \A i \in 1..Len(u) : Len(q) + i = i + 1
      BY <1>2
    <3>3. QED
      BY <1>2, <2>1, <3>1, <3>2
  <2>3. PICK w \in Seq(Letters) : w = v \o q
    BY Appended
  <2>4. Len(w) = Len(v) + 1 /\ \A i \in 1..Len(v) : w[i] = v[i]
    <3>1. Len(v \o q) = Len(v) + Len(q) /\ \A i \in 1..Len(v) : (v \o q)[i] = v[i]
      BY Appended
    <3>2. QED
      BY <1>2, <2>3, <3>1
  <2>5. ASSUME NEW i \in 1..Len(u) PROVE w[i + 1] = u[i]
    <3>1. i + 1 \in 1..Len(v)
      BY <2>2
    <3>2. QED
      BY <2>2, <2>4, <3>1
  <2>6. QED
    BY <2>1, <2>2, <2>3, <2>4, <2>5
<1>5. ASSUME (q \o s) \o q = (q \o t) \o q PROVE s = t
  <2>1. PICK a : a = (q \o s) \o q
    OBVIOUS
  <2>2. Len(a) = Len(s) + 2 /\ \A i \in 1..Len(s) : a[i + 1] = s[i]
    BY <1>4, <2>1
  <2>3. Len(a) = Len(t) + 2 /\ \A i \in 1..Len(t) : a[i + 1] = t[i]
    BY <1>4, <1>5, <2>1
  <2>4. Len(s) = Len(t)
    BY <2>2, <2>3
  <2>5. QED
    BY <2>2, <2>3, <2>4, SeqEqual
<1>6. QED
  BY <1>1, <1>5

\* Of five flags that are not up twice, and not all down, one is up.
LEMMA OneOfFive ==
  ASSUME NEW k, NEW n \in 1..5,
         k[1] <=> n = 1, k[2] <=> n = 2, k[3] <=> n = 3, k[4] <=> n = 4, k[5] <=> n = 5
  PROVE  Cardinality({i \in 1..5 : k[i]}) = 1
<1>1. {i \in 1..5 : k[i]} = {n}
  <2>1. ASSUME NEW i \in 1..5 PROVE k[i] <=> n = i
    <3>1. i = 1 \/ i = 2 \/ i = 3 \/ i = 4 \/ i = 5
      OBVIOUS
    <3>2. QED
      BY <3>1
  <2>2. QED
    BY <2>1
<1>2. QED
  BY <1>1, FS_Singleton

\* A word of a program is a number or points to an object.
LEMMA WordsFacts ==
  ASSUME HeapInv, NEW v \in Words
  PROVE  UNBOXED(v) \/ (v[1] = "ptr" /\ v[2] \in DOMAIN heap)
<1>1. CASE v \in {<<"ptr", o>> : o \in DOMAIN heap}
  BY <1>1
<1>2. CASE v \notin {<<"ptr", o>> : o \in DOMAIN heap}
  <2>1. PICK o \in DOMAIN heap : /\ heap[o].kind # "STRING"
                                 /\ v \in ToSet(heap[o].contents) /\ v[1] # "out"
    BY <1>2 DEF Words
  <2>2. heap[o].contents \in Seq(Word(heap))
    BY <2>1, FieldsLead
  <2>3. v \in Word(heap)
    BY <2>1, <2>2 DEF ToSet
  <2>4. QED
    BY <2>1, <2>3 DEF Word, UNBOXED
<1>3. QED
  BY <1>1, <1>2

\* PatternsApart: the patterns for the kinds of values share no value, those with
\* a length or a tag pass only values of their kind, and a string passes the test
\* for another exactly when the two print the same.
THEOREM PatternsApartCorrect == Spec => []PatternsApart
<1>1. IInv => PatternsApart
  <2> SUFFICES ASSUME IInv, NEW v \in Words
               PROVE  LET kinds == <<Bunboxed_patt(heap, v), Bstring_tag_patt(heap, v),
                                     Barray_tag_patt(heap, v), Bsexp_tag_patt(heap, v),
                                     Bclosure_tag_patt(heap, v)>>
                      IN  /\ Cardinality({i \in 1 .. 5 : kinds[i]}) = 1
                          /\ Bboxed_patt(heap, v) <=> ~ kinds[1]
                          /\ \A n \in 0 .. 2 : Barray_patt(heap, v, n) => kinds[3]
                          /\ \A o \in Sexps :
                               Btag(heap, v, heap[o].tag, Len(heap[o].contents)) => kinds[4]
                          /\ \A y \in {w \in Words : Bstring_tag_patt(heap, w)} :
                               Bstring_patt(heap, v, y) <=> kinds[2] /\ TextOf(v) = TextOf(y)
    BY DEF PatternsApart
  <2> DEFINE kinds == <<Bunboxed_patt(heap, v), Bstring_tag_patt(heap, v),
                        Barray_tag_patt(heap, v), Bsexp_tag_patt(heap, v),
                        Bclosure_tag_patt(heap, v)>>
  <2>1. HeapInv
    BY DEF IInv
  <2>2. UNBOXED(v) \/ /\ v[1] = "ptr" /\ v[2] \in DOMAIN heap
                      /\ heap[v[2]].kind \in {"STRING", "CLOSURE", "ARRAY", "SEXP"}
    BY <2>1, WordsFacts, HeapFacts
  <2>3. /\ kinds[1] = UNBOXED(v)
        /\ kinds[2] = (~ UNBOXED(v) /\ heap[v[2]].kind = "STRING")
        /\ kinds[3] = (~ UNBOXED(v) /\ heap[v[2]].kind = "ARRAY")
        /\ kinds[4] = (~ UNBOXED(v) /\ heap[v[2]].kind = "SEXP")
        /\ kinds[5] = (~ UNBOXED(v) /\ heap[v[2]].kind = "CLOSURE")
    BY DEF Bunboxed_patt, Bstring_tag_patt, Barray_tag_patt, Bsexp_tag_patt,
           Bclosure_tag_patt, Of
  <2>4. Cardinality({i \in 1 .. 5 : kinds[i]}) = 1
    <3>1. PICK k : k = kinds
      OBVIOUS
    <3>2. PICK n \in 1..5 : /\ n = 1 <=> UNBOXED(v)
                            /\ n = 2 <=> (~ UNBOXED(v) /\ heap[v[2]].kind = "STRING")
                            /\ n = 3 <=> (~ UNBOXED(v) /\ heap[v[2]].kind = "ARRAY")
                            /\ n = 4 <=> (~ UNBOXED(v) /\ heap[v[2]].kind = "SEXP")
                            /\ n = 5 <=> (~ UNBOXED(v) /\ heap[v[2]].kind = "CLOSURE")
      <4> HIDE DEF kinds
      <4> DEFINE n == IF UNBOXED(v) THEN 1 ELSE IF heap[v[2]].kind = "STRING" THEN 2
                      ELSE IF heap[v[2]].kind = "ARRAY" THEN 3
                      ELSE IF heap[v[2]].kind = "SEXP" THEN 4 ELSE 5
      <4>1. /\ n \in 1..5
            /\ n = 1 <=> UNBOXED(v)
            /\ n = 2 <=> (~ UNBOXED(v) /\ heap[v[2]].kind = "STRING")
            /\ n = 3 <=> (~ UNBOXED(v) /\ heap[v[2]].kind = "ARRAY")
            /\ n = 4 <=> (~ UNBOXED(v) /\ heap[v[2]].kind = "SEXP")
            /\ n = 5 <=> (~ UNBOXED(v) /\ heap[v[2]].kind = "CLOSURE")
        BY <2>2
      <4> HIDE DEF n
      <4>2. QED
        BY <4>1
    <3>3. /\ k[1] <=> n = 1
          /\ k[2] <=> n = 2
          /\ k[3] <=> n = 3
          /\ k[4] <=> n = 4
          /\ k[5] <=> n = 5
      <4> HIDE DEF kinds
      <4>1. QED
        BY <2>3, <3>1, <3>2
    <3>4. QED
      <4> HIDE DEF kinds
      <4>1. Cardinality({i \in 1..5 : k[i]}) = 1
        BY <3>3, OneOfFive
      <4>2. QED
        BY <3>1, <4>1
  <2>5. /\ Bboxed_patt(heap, v) <=> ~ kinds[1]
        /\ \A n \in 0 .. 2 : Barray_patt(heap, v, n) => kinds[3]
        /\ \A o \in Sexps : Btag(heap, v, heap[o].tag, Len(heap[o].contents)) => kinds[4]
    <3> HIDE DEF kinds
    <3>1. QED
      BY <2>3 DEF Bboxed_patt, Barray_patt, Btag, Of
  <2>6. ASSUME NEW y \in Words, Bstring_tag_patt(heap, y)
        PROVE  Bstring_patt(heap, v, y) <=> kinds[2] /\ TextOf(v) = TextOf(y)
    <3> HIDE DEF kinds
    <3>1. /\ y[2] \in DOMAIN heap /\ heap[y[2]].kind = "STRING"
      BY <2>1, <2>6, WordsFacts DEF Bstring_tag_patt, Of
    <3>2. CASE ~ kinds[2]
      BY <2>3, <3>2 DEF Bstring_patt, Of
    <3>3. CASE kinds[2]
      <4>1. ~ UNBOXED(v) /\ v[2] \in DOMAIN heap /\ heap[v[2]].kind = "STRING"
        BY <2>2, <2>3, <3>3
      <4>2. PICK s, t : s = CString(heap[v[2]].contents) /\ t = CString(heap[y[2]].contents)
        OBVIOUS
      <4>3. s \in Seq(Letters) /\ t \in Seq(Letters)
        <5>1. /\ heap[v[2]].contents \in Seq(Letters \cup {NUL})
              /\ heap[y[2]].contents \in Seq(Letters \cup {NUL})
          BY <2>1, <3>1, <4>1, HeapFacts
        <5>2. QED
          BY <4>2, <5>1, CStringType
      <4>4. /\ TextOf(v) = (<<"'">> \o s) \o <<"'">>
            /\ TextOf(y) = (<<"'">> \o t) \o <<"'">>
        BY <2>1, <3>1, <4>1, <4>2, StringText DEF TextOf
      <4>5. TextOf(v) = TextOf(y) <=> s = t
        BY <4>3, <4>4, SameQuoted
      <4>6. Bstring_patt(heap, v, y) <=> s = t
        BY <4>1, <4>2 DEF Bstring_patt, Of
      <4>7. QED
        BY <3>3, <4>5, <4>6
    <3>4. QED
      BY <3>2, <3>3
  <2>7. QED
    BY <2>4, <2>5, <2>6
<1>2. QED
  BY <1>1, Invariance, PTL

=============================================================================
