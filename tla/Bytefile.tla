------------------------------ MODULE Bytefile ------------------------------
(***************************************************************************)
(* The loader of src/bytecode/bytefile.cpp.  A file is what the compiler   *)
(* wrote: a header of three integers, the table of public symbols, the     *)
(* strings, and the code.  On disk it may have been cut short: of size     *)
(* bytes the loader gets what is there, and what it reads beyond them is   *)
(* memory that malloc returned and nothing wrote.                          *)
(***************************************************************************)
EXTENDS Integers, Sequences, FiniteSetsExt

CONSTANT Garbage     \* bound: the integers unwritten memory may hold

ASSUME GarbageAssumption == Garbage \subseteq Int /\ Garbage # {}

HeaderBytes == 12
PublicBytes == 8
NameBytes == 5       \* "main" with its end, and the other names

TablesEnd(file) == HeaderBytes + PublicBytes * Len(file.publics)
                     + file.stringtab_size
FileSize(file) == TablesEnd(file) + Len(file.code)

\* What the loader finds in an integer that ends at byte "end" of a file.
Found(value, end, size) == IF end <= size THEN {value} ELSE Garbage

\* The header.
Headers(file, size) ==
  {[stringtab_size |-> s, global_area_size |-> g, public_symbols_number |-> p] :
     s \in Found(file.stringtab_size, 4, size),
     g \in Found(file.global_area_size, 8, size),
     p \in Found(Len(file.publics), 12, size)}

\* The checks of the header.  The sections are compared with the size of the
\* file, and not with what the header leaves of it.
HeaderRefused(h, size) ==
  \/ h.global_area_size < 0 \/ h.stringtab_size < 0 \/ h.public_symbols_number < 0
  \/ PublicBytes * h.public_symbols_number + h.stringtab_size > size

\* Mutant: the header is taken for code.
CodeSizeWithHeader(h, size) ==
  size - (PublicBytes * h.public_symbols_number + h.stringtab_size)

CodeSize(h, size) ==
  size - (HeaderBytes + PublicBytes * h.public_symbols_number + h.stringtab_size)

(***************************************************************************)
(* The search for "main".  A public symbol is the place of its name in the *)
(* string table and its offset in the code.                                *)
(***************************************************************************)

\* The entry i of the table, and whether its name compares equal to "main".
Publics(file, size, i) ==
  LET end == HeaderBytes + PublicBytes * i
      there == i <= Len(file.publics)
      public == file.publics[i]
      nameEnd(n) == TablesEnd(file) - file.stringtab_size + n + NameBytes
  IN IF there /\ end <= size
       THEN {[name |-> public.name, offset |-> public.offset, isMain |-> m] :
               m \in IF nameEnd(public.name) <= size THEN {public.isMain} ELSE BOOLEAN}
       ELSE {[name |-> n, offset |-> o, isMain |-> m] :
               n \in Garbage, o \in Garbage, m \in BOOLEAN}

\* get_string admits the place after the table.
NameRefused(h, public) == public.name < 0 \/ public.name > h.stringtab_size

\* The entry point is compared with the size of the file.
EntryRefused(public, size) ==
  public.isMain /\ (public.offset < 0 \/ public.offset >= size)

\* What readFile may return: nothing for a file it refuses, or the tables
\* with the place of the last "main".
NoFile == [loaded |-> FALSE]

Tables(file, h, found, size) ==
  LET mains == {i \in DOMAIN found : found[i].isMain} IN
  IF \/ mains = {}
     \/ \E i \in DOMAIN found : \/ NameRefused(h, found[i])
                                \/ EntryRefused(found[i], size)
    THEN NoFile
    ELSE [loaded |-> TRUE, code |-> file.code, code_size |-> CodeSize(h, size),
          stringtab_size |-> h.stringtab_size, entry |-> found[Max(mains)].offset]

ReadFile(file, size) ==
  UNION {IF HeaderRefused(h, size) THEN {NoFile}
         ELSE LET all == UNION {Publics(file, size, i) : i \in 1..h.public_symbols_number}
              IN {Tables(file, h, found, size) : found \in
                    {f \in [1..h.public_symbols_number -> all] :
                       \A i \in DOMAIN f : f[i] \in Publics(file, size, i)}} :
           h \in Headers(file, size)}
=============================================================================
