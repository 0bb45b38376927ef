---------------------------- MODULE ObjectStore ----------------------------
(***************************************************************************)
(* What the heap promises to a program: a store of objects that have an    *)
(* identity and keep their contents for as long as the program can reach   *)
(* them.  There are no addresses and no collections; an object that cannot *)
(* be reached any more does not exist.                                     *)
(***************************************************************************)
EXTENDS Naturals, Sequences, FiniteSets, Functions, Reachability

CONSTANT Unboxed     \* the unboxed integers

VARIABLES
  stack,    \* the virtual stack: unboxed values, 0, and identities
  objs,     \* the objects that can be reached, records with an identity
  nextId    \* identities from here on have never been used

vars == <<stack, objs, nextId>>

IdsIn(s) == Range(s) \ {Unboxed, 0}

\* The objects that an object of o refers to, by identity.
Graph(o) == [n \in {x.id : x \in o} |->
               UNION {IdsIn(x.fields) : x \in {y \in o : y.id = n}}]

\* The objects of o that can be reached from the stack s.
Reachable(s, o) ==
  UNION {{x \in o : x.id \in reached} : reached \in {Reach(IdsIn(s), Graph(o))}}

\* The values a program can lay its hands on.
Visible(s, o) == {Unboxed, 0} \cup Range(s) \cup UNION {Range(x.fields) : x \in o}

Init == /\ Range(stack) \subseteq {Unboxed, 0}
        /\ objs = {}
        /\ nextId = 1

\* The program moves values it holds about the stack: from stack s and
\* objects o to t and p, like every step below.
Move(s, o, t, p) ==
  /\ Range(t) \subseteq Visible(s, o)
  /\ p = Reachable(t, o)
  /\ UNCHANGED nextId

\* It writes the topmost value into a field of an object, and may then drop
\* the object and the index under the value.
Write(s, o, t, p) ==
  LET top == s[Len(s)] IN
  /\ t = s \/ t = Append(SubSeq(s, 1, Len(s) - 3), top)
  /\ \E x \in o : \E i \in DOMAIN x.fields :
       p = Reachable(t, (o \ {x}) \cup {[x EXCEPT !.fields[i] = top]})
  /\ UNCHANGED nextId

\* It creates an object from its topmost k values, which the object replaces:
\* an array of them, a string, or an object with a word of its own that takes
\* the place of the extra operand on top.
Object(n, kind, args) ==
  [id |-> n, kind |-> kind,
   fields |-> CASE kind = "string" -> <<0>>
                [] kind = "array"  -> args
                [] OTHER -> <<0>> \o SubSeq(args, 1, Len(args) - 1)]

New(s, o, t, p) ==
  /\ nextId' = nextId + 1
  /\ \E new \in p :
       LET k == Len(s) + 1 - Len(t)
           args == SubSeq(s, Len(s) - k + 1, Len(s))
       IN /\ k >= (IF new.kind \in {"sexp", "closure"} THEN 1 ELSE 0)
          /\ new.kind = "string" => k = 0
          /\ new = Object(nextId, new.kind, args)
          /\ t = Append(SubSeq(s, 1, Len(s) - k), nextId)
          /\ p = Reachable(t, o \cup {new})

Next ==
  \E s \in {stack}, o \in {objs}, t \in {stack'}, p \in {objs'} :
     Move(s, o, t, p) \/ Write(s, o, t, p) \/ New(s, o, t, p)

Spec == Init /\ [][Next]_vars
=============================================================================
