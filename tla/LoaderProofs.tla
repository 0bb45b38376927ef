---------------------------- MODULE LoaderProofs ----------------------------
(***************************************************************************)
(* What the decoder and the loader do with any files of the compiler, cut  *)
(* short at any byte.                                                      *)
(***************************************************************************)
EXTENDS CompiledFile, DataLemmas

---------------------------------------------------------------------------
(***************************************************************************)
(* The decoder.                                                            *)
(***************************************************************************)

\* The decoder looks at the code of a file and at nothing else.
LEMMA SameCode ==
  ASSUME NEW f, NEW b, NEW i, b.code = f.code
  PROVE  /\ FixedEnd(b, i) = FixedEnd(f, i)
         /\ End(b, i) = End(f, i)
         /\ Decoded(b, i) = Decoded(f, i)
         /\ Decoded(b, i).end = End(f, i)
<1>1. FixedEnd(b, i) = FixedEnd(f, i)
  BY DEF FixedEnd
<1>2. End(b, i) = End(f, i)
  BY <1>1 DEF End
<1>3. Decoded(b, i) = Decoded(f, i)
  BY <1>2 DEF Decoded
<1>4. Decoded(b, i).end = End(b, i)
  BY DEF Decoded
<1>5. QED
  BY <1>1, <1>2, <1>3, <1>4

\* Every opcode has a number of integers.
LEMMA FormatTyped == \A opcode \in 0..255 : FormatOf(opcode).ints \in Nat
<1>1. \A f \in Formats : f.ints \in Nat
  BY DEF Formats, Format
<1>2. Unknown.ints \in Nat
  BY DEF Unknown, Format
<1>3. TAKE opcode \in 0..255
<1>4. FormatOf(opcode) = IF \E f \in Formats : IsFormatOf(f, opcode)
                           THEN CHOOSE f \in Formats : IsFormatOf(f, opcode)
                           ELSE Unknown
  BY DEF FormatOf, FormatTable
<1>5. QED
  BY <1>1, <1>2, <1>4

\* The instructions of a file lie one after the other, before its STOP.
LEMMA StartsOrdered ==
  ASSUME NEW f, Compiled(f)
  PROVE  \A k \in 1..(Len(f.starts) - 1) :
           /\ f.starts[k] \in Nat /\ f.starts[k + 1] \in Nat
           /\ f.starts[k] < f.starts[k + 1]
           /\ f.starts[k + 1] <= Len(f.code) - 1
<1> DEFINE N == Len(f.starts)
           C == Len(f.code) - 1
<1>1. f.starts \in Seq(Nat) /\ N \in Nat /\ N > 1 /\ C \in Int /\ f.starts[N] = C
  BY DEF Compiled
<1>2. \A k \in 1..N : f.starts[k] \in Nat
  BY <1>1
<1>3. \A k \in 1..(N - 1) : f.starts[k] < f.starts[k + 1]
  BY DEF Compiled, InstructionOK
<1> HIDE DEF N, C
<1>4. \A k \in 1..N : f.starts[k] <= C
  <2> DEFINE Late == {k \in 1..N : f.starts[k] > C}
  <2>1. SUFFICES ASSUME Late # {} PROVE FALSE
    <3>1. \A k \in 1..N : ~(f.starts[k] > C) => f.starts[k] <= C
      BY <1>1, <1>2
    <3>2. QED
      BY <3>1
  <2>2. Late \in SUBSET Nat /\ IsFiniteSet(Late)
    <3>1. IsFiniteSet(1..N) /\ Late \subseteq 1..N
      BY <1>1, FS_Interval
    <3>2. QED
      BY <3>1, FS_Subset, <1>1
  <2>3. PICK m \in Late : \A k \in Late : k <= m
    <3> HIDE DEF Late
    <3>1. QED BY <2>1, <2>2, FiniteMax
  <2>4. m \in 1..N /\ m # N /\ f.starts[m] > C
    BY <1>1, <1>2
  <2>5. m \in 1..(N - 1) /\ m + 1 \in 1..N /\ m + 1 \notin Late
    BY <1>1, <2>3, <2>4
  <2>6. f.starts[m + 1] <= C
    BY <2>5, <1>2, <1>1
  <2>7. QED
    BY <2>4, <2>5, <2>6, <1>3, <1>2, <1>1
<1>5. ASSUME NEW k \in 1..(N - 1)
      PROVE  /\ f.starts[k] \in Nat /\ f.starts[k + 1] \in Nat
             /\ f.starts[k] < f.starts[k + 1] /\ f.starts[k + 1] <= C
  <2>1. k \in 1..N /\ k + 1 \in 1..N
    BY <1>1
  <2>2. QED
    BY <2>1, <1>2, <1>3, <1>4
<1>6. QED
  BY <1>5 DEF N, C

\* What a file of the compiler has where its instruction k starts.
LEMMA AtInstruction ==
  ASSUME NEW f, Compiled(f), NEW b, b.code = f.code,
         NEW k \in 1..(Len(f.starts) - 1), NEW i, f.starts[k] = i
  PROVE  /\ i \in Nat /\ i < Len(f.code) - 1 /\ Len(f.code) \in Nat
         /\ FixedEnd(b, i) \in Int /\ i < FixedEnd(b, i)
         /\ FixedEnd(b, i) <= End(b, i)
         /\ End(b, i) = f.starts[k + 1] /\ Decoded(b, i).end = End(b, i)
         /\ End(b, i) \in Int /\ i < End(b, i) /\ End(b, i) < Len(f.code)
         /\ Decoded(b, i) = Decoded(f, i)
         /\ Decoded(b, i).name # "UNKNOWN"
         /\ Decoded(b, i).name = "TEXT" =>
              Decoded(b, i).ints[1] \in 0..f.stringtab_size
         /\ Decoded(b, i).name \in {"JMP", "CJMP", "CALL", "CLOSURE"} =>
              Decoded(b, i).ints[1] \in Starts(f)
         /\ k = Len(f.starts) - 1 => Decoded(b, i).name \in {"JMP", "END", "FAIL"}
         /\ k # Len(f.starts) - 1 => f.starts[k + 1] \in Starts(f)
<1>1. f.starts[k] = i
  OBVIOUS
<1>2. InstructionOK(f, k) /\ f.code \in Seq(0..255) /\ Len(f.starts) \in Nat
  BY DEF Compiled
<1>3. /\ i \in Nat /\ f.starts[k + 1] \in Nat /\ i < f.starts[k + 1]
      /\ f.starts[k + 1] <= Len(f.code) - 1
  BY <1>1, StartsOrdered
<1>4. PICK locs : locs = IF Decoded(f, i).name = "CLOSURE" THEN Decoded(f, i).ints[2] ELSE 0
  OBVIOUS
<1>5. /\ locs \in Nat /\ f.starts[k + 1] = FixedEnd(f, i) + LocBytes * locs
      /\ Decoded(f, i).name # "UNKNOWN"
      /\ Decoded(f, i).name = "TEXT" => Decoded(f, i).ints[1] \in 0..f.stringtab_size
      /\ Decoded(f, i).name \in {"JMP", "CJMP", "CALL", "CLOSURE"} =>
           Decoded(f, i).ints[1] \in Starts(f)
      /\ k = Len(f.starts) - 1 => Decoded(f, i).name \in {"JMP", "END", "FAIL"}
  BY <1>1, <1>2, <1>4 DEF InstructionOK
<1>6. /\ FixedEnd(b, i) = FixedEnd(f, i) /\ End(b, i) = End(f, i)
      /\ Decoded(b, i) = Decoded(f, i) /\ Decoded(b, i).end = End(f, i)
  BY SameCode
<1>7. Len(f.code) \in Nat
  BY <1>2
<1>8. FixedEnd(f, i) \in Int /\ i < FixedEnd(f, i)
  <2>1. i + 1 \in 1..Len(f.code)
    BY <1>3, <1>7
  <2>2. f.code[i + 1] \in 0..255
    BY <1>2, <2>1, ElementOfSeq
  <2>3. FormatOf(f.code[i + 1]).ints \in Nat
    BY <2>2, FormatTyped
  <2>4. QED
    BY <2>3, <1>3 DEF FixedEnd, IntBytes
<1>9. k # Len(f.starts) - 1 => f.starts[k + 1] \in Starts(f)
  <2>1. HAVE k # Len(f.starts) - 1
  <2>2. k + 1 \in 1..(Len(f.starts) - 1)
    BY <1>2, <2>1
  <2>3. QED
    BY <2>2 DEF Starts
<1>10. End(f, i) = f.starts[k + 1]
  <2>1. Decoded(f, i).name = FormatOf(f.code[i + 1]).name
    BY DEF Decoded
  <2>2. CASE Decoded(f, i).name = "CLOSURE"
    <3>1. FormatOf(f.code[i + 1]).ints = 2
      <4>1. \A g \in Formats : g.name = "CLOSURE" => g.ints = 2
        BY DEF Formats, Format
      <4>2. Unknown.name # "CLOSURE"
        BY DEF Unknown, Format
      <4>3. f.code[i + 1] \in 0..255
        <5>1. i + 1 \in 1..Len(f.code)
          BY <1>3, <1>7
        <5>2. QED
          BY <1>2, <5>1, ElementOfSeq
      <4>4. PICK opcode \in 0..255 : opcode = f.code[i + 1]
        BY <4>3
      <4>5. FormatOf(opcode) = IF \E g \in Formats : IsFormatOf(g, opcode)
                                 THEN CHOOSE g \in Formats : IsFormatOf(g, opcode)
                                 ELSE Unknown
        BY DEF FormatOf, FormatTable
      <4>6. FormatOf(opcode) \in Formats \/ FormatOf(opcode) = Unknown
        BY <4>5
      <4>7. QED
        BY <4>1, <4>2, <4>4, <4>6, <2>1, <2>2
    <3>2. Decoded(f, i).ints[2] = Int32(f.code, i + 1 + IntBytes * (2 - 1))
      BY <3>1 DEF Decoded
    <3>3. Decoded(f, i).ints[2] = Int32(f.code, i + 1 + IntBytes)
      <4>1. i + 1 + IntBytes * (2 - 1) = i + 1 + IntBytes
        BY <1>3 DEF IntBytes
      <4>2. QED
        BY <3>2, <4>1
    <3>4. Int32(f.code, i + 1 + IntBytes) = locs
      BY <3>3, <1>4, <2>2
    <3>5. End(f, i) = FixedEnd(f, i) + LocBytes * (IF locs > 0 THEN locs ELSE 0)
      BY <3>4, <2>1, <2>2 DEF End
    <3>6. (IF locs > 0 THEN locs ELSE 0) = locs
      BY <1>5
    <3>7. QED
      BY <3>5, <3>6, <1>5
  <2>3. CASE Decoded(f, i).name # "CLOSURE"
    <3>1. End(f, i) = FixedEnd(f, i)
      BY <2>1, <2>3 DEF End
    <3>2. locs = 0
      BY <1>4, <2>3
    <3>3. QED
      BY <3>1, <3>2, <1>5, <1>8 DEF LocBytes, IntBytes
  <2>4. QED
    BY <2>2, <2>3
<1>11. FixedEnd(f, i) <= f.starts[k + 1]
  BY <1>3, <1>5, <1>8 DEF LocBytes, IntBytes
<1>12. /\ FixedEnd(b, i) <= End(b, i) /\ End(b, i) \in Int
       /\ i < End(b, i) /\ End(b, i) < Len(f.code)
       /\ End(b, i) = f.starts[k + 1] /\ Decoded(b, i).end = End(b, i)
  BY <1>3, <1>6, <1>7, <1>10, <1>11
<1>13. i < Len(f.code) - 1
  BY <1>3, <1>7
<1>14. QED
  BY <1>3, <1>5, <1>6, <1>7, <1>8, <1>9, <1>12, <1>13

\* What it has where an instruction starts.
LEMMA AtStart ==
  ASSUME NEW f, Compiled(f), NEW b, b.code = f.code, NEW i \in Starts(f)
  PROVE  /\ i \in Nat /\ i < Len(f.code) - 1 /\ Len(f.code) \in Nat
         /\ FixedEnd(b, i) \in Int /\ i < FixedEnd(b, i)
         /\ FixedEnd(b, i) <= End(b, i)
         /\ End(b, i) \in Int /\ i < End(b, i) /\ End(b, i) < Len(f.code)
         /\ Decoded(b, i).end = End(b, i)
         /\ Decoded(b, i).name # "UNKNOWN"
         /\ Decoded(b, i).name = "TEXT" =>
              Decoded(b, i).ints[1] \in 0..f.stringtab_size
         /\ Decoded(b, i).name \in {"JMP", "CJMP", "CALL", "CLOSURE"} =>
              Decoded(b, i).ints[1] \in Starts(f)
         /\ Decoded(b, i).name \notin {"JMP", "END", "FAIL"} =>
              End(b, i) \in Starts(f)
<1>1. PICK k \in 1..(Len(f.starts) - 1) : f.starts[k] = i
  BY DEF Starts
<1>2. k # Len(f.starts) - 1 => f.starts[k + 1] \in Starts(f)
  BY <1>1, AtInstruction
<1>3. k = Len(f.starts) - 1 => Decoded(b, i).name \in {"JMP", "END", "FAIL"}
  BY <1>1, AtInstruction
<1>4. /\ i \in Nat /\ i < Len(f.code) - 1 /\ Len(f.code) \in Nat
      /\ FixedEnd(b, i) \in Int /\ i < FixedEnd(b, i)
      /\ FixedEnd(b, i) <= End(b, i) /\ End(b, i) = f.starts[k + 1]
      /\ End(b, i) \in Int /\ i < End(b, i) /\ End(b, i) < Len(f.code)
      /\ Decoded(b, i).end = End(b, i)
      /\ Decoded(b, i).name # "UNKNOWN"
  BY <1>1, AtInstruction
<1>5. /\ Decoded(b, i).name = "TEXT" =>
           Decoded(b, i).ints[1] \in 0..f.stringtab_size
      /\ Decoded(b, i).name \in {"JMP", "CJMP", "CALL", "CLOSURE"} =>
           Decoded(b, i).ints[1] \in Starts(f)
  BY <1>1, AtInstruction
<1>6. Decoded(b, i).name \notin {"JMP", "END", "FAIL"} => End(b, i) \in Starts(f)
  BY <1>2, <1>3, <1>4
<1>7. QED
  BY <1>4, <1>5, <1>6

\* What a closure captures there is of types that readLoc knows.
LEMMA StartLocsKnown ==
  ASSUME NEW f, Compiled(f), NEW b, b.code = f.code, NEW i \in Starts(f)
  PROVE  LocsKnown(b, i)
<1>1. PICK k \in 1..(Len(f.starts) - 1) : f.starts[k] = i
  BY DEF Starts
<1>2. LocsKnown(f, i)
  BY <1>1 DEF Compiled, InstructionOK
<1>3. FixedEnd(b, i) = FixedEnd(f, i) /\ End(b, i) = End(f, i)
  BY SameCode
<1>4. QED
  BY <1>2, <1>3 DEF LocsKnown

\* Every instruction of a whole file decodes.
LEMMA StartDecodes ==
  ASSUME NEW f, Compiled(f), NEW b, b.code = f.code, b.code_size = Len(f.code),
         b.stringtab_size = f.stringtab_size, NEW i \in Starts(f)
  PROVE  Decodable(b, i)
<1>1. /\ i \in Nat /\ i < Len(f.code) - 1 /\ Len(f.code) \in Nat
      /\ FixedEnd(b, i) \in Int /\ i < FixedEnd(b, i)
      /\ FixedEnd(b, i) <= End(b, i)
      /\ End(b, i) \in Int /\ End(b, i) < Len(f.code)
      /\ Decoded(b, i).name # "UNKNOWN"
      /\ Decoded(b, i).name = "TEXT" =>
           Decoded(b, i).ints[1] \in 0..f.stringtab_size
  BY AtStart
<1>2. f.stringtab_size \in Nat
  BY DEF Compiled
<1>3. Readable(b, i)
  <2>1. 0 <= i /\ i + 1 < b.code_size
    BY <1>1
  <2>2. i + (FixedEnd(b, i) - i) < b.code_size
    BY <1>1
  <2>3. i + (End(b, i) - i) < b.code_size
    BY <1>1
  <2>4. QED
    BY <2>1, <2>2, <2>3 DEF Readable, CanRead
<1>4. Decoded(b, i).name = "TEXT" => StringInTable(b, Decoded(b, i).ints[1])
  BY <1>1, <1>2 DEF StringInTable
<1>5. LocsKnown(b, i)
  BY StartLocsKnown
<1>6. QED
  BY <1>1, <1>3, <1>4, <1>5 DEF Decodable

\* No two instructions start in one place.
LEMMA StartsIncrease ==
  ASSUME NEW f, Compiled(f),
         NEW j \in 1..Len(f.starts), NEW k \in 1..Len(f.starts), j < k
  PROVE  f.starts[j] < f.starts[k]
<1> DEFINE n == Len(f.starts)
           Late == {m \in 1..n : j < m /\ ~(f.starts[j] < f.starts[m])}
<1>1. /\ n \in Nat /\ j \in 1..n /\ k \in 1..n
      /\ \A m \in 1..(n - 1) : /\ f.starts[m] \in Nat /\ f.starts[m + 1] \in Nat
                              /\ f.starts[m] < f.starts[m + 1]
  <2>1. n \in Nat
    BY DEF Compiled
  <2>2. \A m \in 1..(n - 1) : /\ f.starts[m] \in Nat /\ f.starts[m + 1] \in Nat
                              /\ f.starts[m] < f.starts[m + 1]
    BY StartsOrdered
  <2>3. QED
    BY <2>1, <2>2
<1> HIDE DEF n
<1>2. SUFFICES ASSUME Late # {} PROVE FALSE
  BY <1>1 DEF n
<1>3. Late \in SUBSET Nat
  BY <1>1
<1>4. PICK m \in Late : \A x \in Late : m <= x
  <2> HIDE DEF Late
  <2>1. QED BY <1>2, <1>3, LeastNumber
<1>5. m \in 1..n /\ j < m /\ ~(f.starts[j] < f.starts[m])
  OBVIOUS
<1>6. m - 1 \in 1..(n - 1) /\ j \in 1..(n - 1) /\ m - 1 \notin Late /\ m - 1 \in 1..n
  BY <1>1, <1>4, <1>5
<1>7. f.starts[m - 1] \in Nat /\ f.starts[m] \in Nat /\ f.starts[m - 1] < f.starts[m]
      /\ f.starts[j] \in Nat
  <2>1. (m - 1) + 1 = m
    BY <1>5, <1>1
  <2>2. QED
    BY <1>1, <1>6, <2>1
<1>8. CASE j = m - 1
  BY <1>5, <1>7, <1>8
<1>9. CASE j # m - 1
  <2>1. j < m - 1
    BY <1>1, <1>5, <1>9
  <2>2. f.starts[j] < f.starts[m - 1]
    BY <1>6, <2>1
  <2>3. QED
    BY <1>5, <1>7, <2>2
<1>10. QED
  BY <1>8, <1>9

---------------------------------------------------------------------------
(***************************************************************************)
(* The loader.                                                             *)
(***************************************************************************)

\* What b, read from the first n bytes of f, has of the code.
Faithful(f, n, b) ==
  /\ b.loaded = TRUE
  /\ b.code = f.code
  /\ b.code_size \in Int
  /\ n < TablesEnd(f) => b.code_size < 0
  /\ n >= TablesEnd(f) => /\ b.code_size = n - TablesEnd(f)
                          /\ b.stringtab_size = f.stringtab_size

\* The sizes of a file.
LEMMA Measures ==
  ASSUME NEW f, Compiled(f)
  PROVE  /\ Len(f.publics) \in Nat /\ f.stringtab_size \in Nat
         /\ Len(f.code) \in Nat /\ Len(f.code) > 1
         /\ TablesEnd(f) = 12 + 8 * Len(f.publics) + f.stringtab_size
         /\ TablesEnd(f) \in Nat
         /\ FileSize(f) = TablesEnd(f) + Len(f.code)
         /\ Starts(f) \subseteq 0..(Len(f.code) - 1)
<1>1. Len(f.publics) \in Nat /\ f.stringtab_size \in Nat /\ Len(f.code) \in Nat
  BY DEF Compiled
<1>2. TablesEnd(f) = 12 + 8 * Len(f.publics) + f.stringtab_size
  BY DEF TablesEnd, HeaderBytes, PublicBytes
<1>3. Starts(f) \subseteq 0..(Len(f.code) - 1)
  <2>1. ASSUME NEW i \in Starts(f) PROVE i \in 0..(Len(f.code) - 1)
    <3>1. i \in Nat /\ i < Len(f.code) - 1
      BY AtStart
    <3>2. QED
      BY <3>1, <1>1
  <2>2. QED
    BY <2>1
<1>4. Len(f.code) > 1
  <2>1. 1 \in 1..(Len(f.starts) - 1)
    BY DEF Compiled
  <2>2. f.starts[1] \in Nat /\ f.starts[1 + 1] \in Nat /\ f.starts[1] < f.starts[1 + 1]
        /\ f.starts[1 + 1] <= Len(f.code) - 1
    BY <2>1, StartsOrdered
  <2>3. QED
    BY <2>2, <1>1
<1>5. QED
  BY <1>1, <1>2, <1>3, <1>4 DEF FileSize

\* What is there of the header is read as it is.
LEMMA HeaderRead ==
  ASSUME NEW f, Compiled(f), NEW n \in Nat, NEW h \in Headers(f, n)
  PROVE  /\ h.stringtab_size \in Int /\ h.global_area_size \in Int
         /\ h.public_symbols_number \in Int
         /\ n >= 12 => /\ h.stringtab_size = f.stringtab_size
                       /\ h.global_area_size = f.global_area_size
                       /\ h.public_symbols_number = Len(f.publics)
<1>1. /\ h.stringtab_size \in Found(f.stringtab_size, 4, n)
      /\ h.global_area_size \in Found(f.global_area_size, 8, n)
      /\ h.public_symbols_number \in Found(Len(f.publics), 12, n)
  BY DEF Headers
<1>2. f.stringtab_size \in Int /\ f.global_area_size \in Int /\ Len(f.publics) \in Int
  BY DEF Compiled
<1>3. ASSUME NEW value \in Int, NEW end \in 0..12, NEW x \in Found(value, end, n)
      PROVE  x \in Int /\ (n >= 12 => x = value)
  <2>1. x \in IF end <= n THEN {value} ELSE Garbage
    BY <1>3 DEF Found
  <2>2. n >= 12 => end <= n
    OBVIOUS
  <2>3. QED
    BY <2>1, <2>2, GarbageAssumption
<1>4. 4 \in 0..12 /\ 8 \in 0..12 /\ 12 \in 0..12
  OBVIOUS
<1>5. QED
  BY <1>1, <1>2, <1>3, <1>4

\* What is there of a public symbol is read as it is.
LEMMA PublicRead ==
  ASSUME NEW f, Compiled(f), NEW n \in 0..FileSize(f), NEW i \in Nat \ {0},
         NEW p \in Publics(f, n, i)
  PROVE  /\ p.name \in Int /\ p.offset \in Int /\ p.isMain \in BOOLEAN
         /\ n >= TablesEnd(f) /\ i <= Len(f.publics)
              => /\ p.name \in 0..f.stringtab_size
                 /\ p.offset \in Starts(f)
         /\ n = FileSize(f) /\ i <= Len(f.publics)
              /\ f.publics[i].name + NameBytes <= f.stringtab_size
              => p.isMain = f.publics[i].isMain
<1> DEFINE there == i <= Len(f.publics) /\ HeaderBytes + PublicBytes * i <= n
           nameEnd == TablesEnd(f) - f.stringtab_size + f.publics[i].name + NameBytes
<1>1. p \in IF there
              THEN {[name |-> f.publics[i].name, offset |-> f.publics[i].offset,
                     isMain |-> m] :
                      m \in IF nameEnd <= n THEN {f.publics[i].isMain} ELSE BOOLEAN}
              ELSE {[name |-> a, offset |-> o, isMain |-> m] :
                      a \in Garbage, o \in Garbage, m \in BOOLEAN}
  BY DEF Publics
<1>2. /\ Len(f.publics) \in Nat /\ f.stringtab_size \in Nat /\ Len(f.code) \in Nat
      /\ TablesEnd(f) = 12 + 8 * Len(f.publics) + f.stringtab_size
      /\ FileSize(f) = TablesEnd(f) + Len(f.code)
      /\ Starts(f) \subseteq 0..(Len(f.code) - 1)
  BY Measures
<1>3. i <= Len(f.publics) =>
        /\ f.publics[i].name \in 0..f.stringtab_size
        /\ f.publics[i].offset \in Starts(f)
        /\ f.publics[i].isMain \in BOOLEAN
  <2>1. HAVE i <= Len(f.publics)
  <2>2. i \in 1..Len(f.publics)
    BY <2>1, <1>2
  <2>3. f.publics[i] \in [name : 0..f.stringtab_size, offset : Starts(f),
                           isMain : BOOLEAN]
    BY <2>2, ElementOfSeq DEF Compiled
  <2>4. QED
    BY <2>3
<1>4. n >= TablesEnd(f) /\ i <= Len(f.publics) => there
  BY <1>2 DEF HeaderBytes, PublicBytes
<1>5. n = FileSize(f) /\ i <= Len(f.publics)
        /\ f.publics[i].name + NameBytes <= f.stringtab_size => nameEnd <= n
  <2> DEFINE s == f.stringtab_size
             a == f.publics[i].name
             e == TablesEnd(f)
             c == Len(f.code)
  <2>1. s \in Nat /\ e \in Nat /\ c \in Nat /\ FileSize(f) = e + c
    BY Measures
  <2>2. i <= Len(f.publics) => a \in Int
    BY <1>2, <1>3
  <2>3. nameEnd = e - s + a + 5 /\ NameBytes = 5
    BY DEF NameBytes
  <2> HIDE DEF s, a, e, c, nameEnd
  <2>4. ASSUME n = e + c, a \in Int, a + 5 <= s PROVE nameEnd <= n
    BY <2>1, <2>3, <2>4
  <2>5. QED
    BY <2>1, <2>2, <2>3, <2>4 DEF s, a
<1>6. n = FileSize(f) => n >= TablesEnd(f)
  BY <1>2
<1> HIDE DEF there, nameEnd
<1>7. CASE there
  <2>1. PICK m \in IF nameEnd <= n THEN {f.publics[i].isMain} ELSE BOOLEAN :
          p = [name |-> f.publics[i].name, offset |-> f.publics[i].offset,
               isMain |-> m]
    BY <1>1, <1>7
  <2>2. i <= Len(f.publics)
    BY <1>7 DEF there
  <2>3. /\ p.name = f.publics[i].name /\ p.offset = f.publics[i].offset
        /\ p.isMain = m
    BY <2>1
  <2>4. p.name \in Int /\ p.offset \in Int
    BY <2>2, <2>3, <1>2, <1>3
  <2>5. p.isMain \in BOOLEAN /\ (nameEnd <= n => p.isMain = f.publics[i].isMain)
    BY <2>1, <2>2, <2>3, <1>3, Zenon
  <2>6. QED
    BY <2>2, <2>3, <2>4, <2>5, <1>3, <1>5
<1>8. CASE ~there
  <2>1. p \in {[name |-> a, offset |-> o, isMain |-> m] :
                 a \in Garbage, o \in Garbage, m \in BOOLEAN}
    BY <1>1, <1>8
  <2>2. p.name \in Int /\ p.offset \in Int /\ p.isMain \in BOOLEAN
    BY <2>1, GarbageAssumption
  <2>3. QED
    BY <2>2, <1>4, <1>6, <1>8
<1>9. QED
  BY <1>7, <1>8

\* What get_string and the check of the entry point let pass.
LEMMA NotRefused ==
  ASSUME NEW h, NEW s \in Nat, h.stringtab_size = s, NEW n \in Nat, NEW p,
         p.name \in 0..s, p.offset \in 0..(n - 1)
  PROVE  ~NameRefused(h, p) /\ ~EntryRefused(p, n)
<1>1. ~(p.name < 0) /\ ~(p.name > s)
  OBVIOUS
<1>2. ~(p.offset < 0) /\ ~(p.offset >= n)
  OBVIOUS
<1>3. QED
  BY <1>1, <1>2 DEF NameRefused, EntryRefused

\* A file is refused, or b has of its code what the file has; "main" is where
\* an instruction starts; and a whole file is not refused.
LEMMA Loads ==
  ASSUME NEW f, Compiled(f), NEW n \in 0..FileSize(f), NEW b \in ReadFile(f, n)
  PROVE  /\ b.loaded \in BOOLEAN
         /\ b.loaded = TRUE => /\ Faithful(f, n, b)
                               /\ b.entry \in Int
                               /\ n >= TablesEnd(f) => b.entry \in Starts(f)
         /\ n = FileSize(f) => b.loaded = TRUE
<1>1. /\ Len(f.publics) \in Nat /\ f.stringtab_size \in Nat /\ Len(f.code) \in Nat
      /\ TablesEnd(f) = 12 + 8 * Len(f.publics) + f.stringtab_size
      /\ FileSize(f) = TablesEnd(f) + Len(f.code) /\ n \in Nat
      /\ Starts(f) \subseteq 0..(Len(f.code) - 1) /\ FileSize(f) \in Nat
      /\ f.global_area_size \in Nat
  <2>1. f.global_area_size \in Nat
    BY DEF Compiled
  <2>2. QED
    BY Measures, <2>1
<1>2. PICK h \in Headers(f, n) :
        b \in IF HeaderRefused(h, n) THEN {NoFile}
              ELSE LET all == UNION {Publics(f, n, i) : i \in 1..h.public_symbols_number}
                   IN {Tables(f, h, found, n) : found \in
                         {g \in [1..h.public_symbols_number -> all] :
                            \A i \in DOMAIN g : g[i] \in Publics(f, n, i)}}
  BY DEF ReadFile
<1>3. /\ h.stringtab_size \in Int /\ h.global_area_size \in Int
      /\ h.public_symbols_number \in Int
      /\ n >= 12 => /\ h.stringtab_size = f.stringtab_size
                    /\ h.global_area_size = f.global_area_size
                    /\ h.public_symbols_number = Len(f.publics)
  BY <1>1, HeaderRead
<1>4. NoFile.loaded = FALSE
  BY DEF NoFile
<1>5. CASE HeaderRefused(h, n)
  <2>1. b = NoFile
    BY <1>2, <1>5
  <2>2. n = FileSize(f) => FALSE
    <3> DEFINE p == Len(f.publics)
               s == f.stringtab_size
               c == Len(f.code)
    <3>1. p \in Nat /\ s \in Nat /\ c \in Nat /\ FileSize(f) = 12 + 8 * p + s + c
      BY <1>1
    <3>2. n >= 12 => /\ h.stringtab_size = s /\ h.public_symbols_number = p
                     /\ h.global_area_size \in Nat
      BY <1>1, <1>3
    <3>3. \/ h.global_area_size < 0 \/ h.stringtab_size < 0
          \/ h.public_symbols_number < 0
          \/ 8 * h.public_symbols_number + h.stringtab_size > n
      BY <1>5 DEF HeaderRefused, PublicBytes
    <3> HIDE DEF p, s, c
    <3>4. HAVE n = FileSize(f)
    <3>5. n >= 12 /\ n = 12 + 8 * p + s + c
      BY <3>1, <3>4
    <3>6. s >= 0 /\ p >= 0 /\ ~(8 * p + s > n)
      BY <3>1, <3>5
    <3>7. /\ h.stringtab_size = s /\ h.public_symbols_number = p
          /\ h.global_area_size \in Nat
      BY <3>2, <3>5
    <3>8. ~(h.global_area_size < 0) /\ ~(s < 0) /\ ~(p < 0)
      BY <3>1, <3>7
    <3>9. QED
      BY <3>3, <3>6, <3>7, <3>8
  <2>3. QED
    BY <2>1, <2>2, <1>4
<1>6. CASE ~HeaderRefused(h, n)
  <2> DEFINE P == h.public_symbols_number
             all == UNION {Publics(f, n, i) : i \in 1..P}
  <2>1. /\ P \in Nat /\ h.stringtab_size >= 0
        /\ n >= 12 => P = Len(f.publics)
    BY <1>3, <1>6 DEF HeaderRefused
  <2>2. PICK found \in {g \in [1..P -> all] :
                          \A i \in DOMAIN g : g[i] \in Publics(f, n, i)} :
          b = Tables(f, h, found, n)
    BY <1>2, <1>6
  <2>3. DOMAIN found = 1..P /\ \A i \in 1..P : found[i] \in Publics(f, n, i)
    BY <2>2
  <2>4. \A i \in 1..P :
          /\ found[i].name \in Int /\ found[i].offset \in Int
          /\ n >= TablesEnd(f) => /\ found[i].name \in 0..f.stringtab_size
                                  /\ found[i].offset \in Starts(f)
    <3>1. TAKE i \in 1..P
    <3>2. i \in Nat \ {0} /\ found[i] \in Publics(f, n, i)
          /\ (n >= TablesEnd(f) => i <= Len(f.publics))
      <4>1. n >= TablesEnd(f) => P = Len(f.publics)
        <5>1. n >= TablesEnd(f) => n >= 12
          BY <1>1
        <5>2. QED
          BY <5>1, <2>1
      <4>2. i \in Nat \ {0} /\ i <= P
        BY <2>1
      <4>3. found[i] \in Publics(f, n, i)
        BY <2>3
      <4> HIDE DEF P
      <4>4. QED
        BY <4>1, <4>2, <4>3
    <3>3. QED
      BY <3>2, PublicRead
  <2> DEFINE mains == {i \in DOMAIN found : found[i].isMain}
             refused == \/ mains = {}
                        \/ \E i \in DOMAIN found : \/ NameRefused(h, found[i])
                                                   \/ EntryRefused(found[i], n)
             loaded == [loaded |-> TRUE, code |-> f.code, code_size |-> CodeSize(h, n),
                        stringtab_size |-> h.stringtab_size,
                        entry |-> found[Max(mains)].offset]
  <2>5. b = IF refused THEN NoFile ELSE loaded
    BY <2>2 DEF Tables
  <2>6. /\ CodeSize(h, n) \in Int
        /\ n < TablesEnd(f) => CodeSize(h, n) < 0
        /\ n >= TablesEnd(f) => /\ CodeSize(h, n) = n - TablesEnd(f)
                                /\ h.stringtab_size = f.stringtab_size
    <3> DEFINE p == Len(f.publics)
               s == f.stringtab_size
    <3>1. p \in Nat /\ s \in Nat /\ TablesEnd(f) = 12 + 8 * p + s
      BY <1>1
    <3>2. n >= 12 => h.stringtab_size = s /\ P = p
      BY <1>3
    <3>3. CodeSize(h, n) = n - (12 + 8 * P + h.stringtab_size)
      BY DEF CodeSize, HeaderBytes, PublicBytes
    <3> HIDE DEF p, P
    <3>4. P \in Nat /\ h.stringtab_size \in Nat
      BY <1>3, <2>1
    <3>5. CASE n >= 12
      BY <3>1, <3>2, <3>3, <3>4, <3>5
    <3>6. CASE n < 12
      BY <3>1, <3>3, <3>4, <3>6
    <3>7. QED
      BY <3>5, <3>6
  <2>7. mains # {} => Max(mains) \in 1..P
    <3>1. HAVE mains # {}
    <3>2. mains \in SUBSET Nat /\ IsFiniteSet(mains) /\ mains \subseteq 1..P
      <4>0. P \in Int /\ 1 \in Int
        BY <2>1
      <4>1. mains \subseteq 1..P /\ IsFiniteSet(1..P)
        <5>1. IsFiniteSet(1..P)
          BY <4>0, FS_Interval
        <5>2. QED
          BY <5>1, <2>3
      <4>2. QED
        BY <4>1, FS_Subset, <2>1
    <3> HIDE DEF mains
    <3>3. PICK m \in mains : \A x \in mains : x <= m
      BY <3>1, <3>2, FiniteMax
    <3>4. \E m1 \in mains : \A x \in mains : m1 >= x
      BY <3>3, <3>2
    <3>5. Max(mains) \in mains
      <4>1. Max(mains) = CHOOSE m1 \in mains : \A x \in mains : m1 >= x
        BY DEF Max
      <4>2. QED
        BY <4>1, <3>4
    <3>6. QED
      BY <3>2, <3>5
  <2>8. n = FileSize(f) => ~refused
    <3>1. HAVE n = FileSize(f)
    <3>0. Starts(f) \subseteq 0..(n - 1)
      <4> DEFINE c == Len(f.code)
      <4>1. c \in Nat /\ TablesEnd(f) \in Nat /\ n = TablesEnd(f) + c
            /\ Starts(f) \subseteq 0..(c - 1)
        BY <3>1, Measures
      <4> HIDE DEF c
      <4>2. 0..(c - 1) \subseteq 0..(n - 1)
        BY <4>1
      <4>3. QED
        BY <4>1, <4>2
    <3>2. n >= TablesEnd(f) /\ n >= 12 /\ P = Len(f.publics)
          /\ h.stringtab_size = f.stringtab_size
      BY <3>1, <1>1, <1>3, <2>1, SMTT(30)
    <3>3. PICK i \in 1..P :
            f.publics[i].isMain /\ f.publics[i].name + NameBytes <= f.stringtab_size
      <4>1. /\ f.publics \in Seq([name : 0..f.stringtab_size, offset : Starts(f),
                                    isMain : BOOLEAN])
            /\ \E i \in DOMAIN f.publics :
                 /\ f.publics[i].isMain
                 /\ f.publics[i].name + NameBytes <= f.stringtab_size
        BY DEF Compiled
      <4>2. DOMAIN f.publics = 1..P
        BY <4>1, <3>2
      <4>3. QED
        BY <4>1, <4>2
    <3>4. found[i].isMain = f.publics[i].isMain
      <4>1. i \in Nat \ {0} /\ i <= Len(f.publics) /\ found[i] \in Publics(f, n, i)
        BY <2>1, <2>3, <3>2
      <4>2. QED
        BY <4>1, <3>1, <3>3, PublicRead
    <3>5. mains # {}
      BY <3>3, <3>4, <2>3, Zenon
    <3>6. ASSUME NEW j \in 1..P
          PROVE  ~NameRefused(h, found[j]) /\ ~EntryRefused(found[j], n)
      <4>1. found[j].name \in 0..f.stringtab_size /\ found[j].offset \in Starts(f)
        BY <2>4, <3>2
      <4>2. found[j].offset \in 0..(n - 1)
        BY <4>1, <3>0
      <4>3. QED
        BY <4>1, <4>2, <3>2, <1>1, NotRefused
    <3>7. QED
      BY <3>5, <3>6, <2>3
  <2> HIDE DEF mains, refused
  <2>9. CASE refused
    BY <2>5, <2>8, <2>9, <1>4
  <2>10. CASE ~refused
    <3>1. mains # {}
      BY <2>10 DEF refused
    <3>2. b = loaded /\ Max(mains) \in 1..P
      BY <2>5, <2>7, <2>10, <3>1
    <3>3. /\ b.loaded = TRUE /\ b.code = f.code /\ b.code_size = CodeSize(h, n)
          /\ b.stringtab_size = h.stringtab_size
          /\ b.entry = found[Max(mains)].offset
      BY <3>2
    <3>4. Faithful(f, n, b)
      BY <3>3, <2>6 DEF Faithful
    <3>5. b.entry \in Int /\ (n >= TablesEnd(f) => b.entry \in Starts(f))
      BY <3>2, <3>3, <2>4
    <3>6. QED
      BY <3>3, <3>4, <3>5
  <2>11. QED
    BY <2>9, <2>10
<1>7. QED
  BY <1>5, <1>6

=============================================================================
