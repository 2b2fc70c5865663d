---------------------------- MODULE AmfCodecProofs ----------------------------
(***************************************************************************)
(* The theorems about AmfCodec: whatever values a command holds, nested to *)
(* whatever depth, each of them is decoded to what it means (RoundTrip),   *)
(* each field begins where the one before ended (FieldsAsSentHolds), and   *)
(* the remote reads what OBS sent (RelayedAsSentHolds).                    *)
(*                                                                         *)
(* The functions of AmfCodec are recursive, and the provers know such a    *)
(* function only as "some f with f = [x \in S |-> ...]".  So the first     *)
(* part shows that there is one.  The provers cannot instantiate a theorem *)
(* about an operator either; hence Recursion is about all the recursive    *)
(* functions at once, each known by its name.                              *)
(***************************************************************************)
EXTENDS AmfCodec, SequenceTheorems, FiniteSetTheorems, TLAPS

-----------------------------------------------------------------------------
(* Induction over the natural numbers, for sets.                           *)

\* Every set of naturals has a least member.
LEMMA Smallest ==
  ASSUME NEW T \in SUBSET Nat, T # {}
  PROVE  \E n \in T : \A m \in T : n <= m
<1>1. IsWellFoundedOn(OpToRel(<, Nat), Nat)
  BY NatLessThanWellFounded
<1>2. PICK n \in T : \A m \in T : ~ (<<m, n>> \in OpToRel(<, Nat))
  BY <1>1, WFMin
<1>3. \A m \in T : ~ (m < n)
  BY <1>2 DEF OpToRel
<1>. QED
  BY <1>3

\* What holds of 0, and of n + 1 whenever of n, holds of all naturals.
LEMMA Induction ==
  ASSUME NEW T, 0 \in T, \A n \in Nat : n \in T => n + 1 \in T
  PROVE  \A n \in Nat : n \in T
<1>. SUFFICES ASSUME NEW k \in Nat, k \notin T PROVE FALSE
  OBVIOUS
<1>1. PICK n \in Nat \ T : \A m \in Nat \ T : n <= m
  BY Smallest
<1>2. n - 1 \in Nat /\ n - 1 \in T
  BY <1>1
<1>3. n \in T
  BY <1>2
<1>. QED
  BY <1>1, <1>3

-----------------------------------------------------------------------------
(* Recursive functions.  An argument is in Chain(r, n) when the recursion  *)
(* of the function r ends within n steps from it; Body(r, f, x) is what    *)
(* the definition of r gives for x when f is used for r itself.            *)

\* Each call of Decode is for fewer bytes, or as many and fewer items.
Size(call) == 256 * Len(call[2]) + call[3]

Chain(r, n) ==
  CASE r = "Nested" -> 0..(n - 1)
    [] r = "Decode" -> {c \in Calls : Size(c) < n}
    [] OTHER -> IF n = 0 THEN {}
                ELSE {v \in Value : v \in Nested[n - 1] \/ (v \in Arrays /\ n > Depth)}

All(r) == UNION {Chain(r, n) : n \in Nat}

\* What the values of the parts of v are, by f.
OverParts(f, v) == [i \in 1..Len(v.parts) |-> f[v.parts[i]]]

NestedBody(parts) ==
  Scalars
    \cup Keyed("object", {<<>>}, parts)
    \cup {v \in Keyed("typed", Short(Ascii), parts) : \A i \in 1..Len(v.keys) : v.keys[i] # ClassName}
    \cup [type : {"sarray"}, bytes : {<<>>}, keys : {<<>>}, parts : Short(parts)]

EncodesBody(f, v) == v.type # "sarray" /\ \A i \in 1..Len(v.parts) : f[v.parts[i]]
StrictBody(f, v) == v.type = "sarray" \/ \E i \in 1..Len(v.parts) : f[v.parts[i]]

DecodeBody(f, c) ==
  CASE c[1] = "one"     -> ByMarker(f, c[2])
    [] c[1] = "members" -> DecodeMembers(f, c[2])
    [] c[1] = "items"   -> DecodeItems(f, c[2], c[3])

Body(r, f, x) ==
  CASE r = "Nested"         -> NestedBody(IF x = 0 THEN {} ELSE f[x - 1])
    [] r = "Decode"         -> DecodeBody(f, x)
    [] r = "Bytes"          -> WrittenAs(x, OverParts(f, x))
    [] r = "Meaning"        -> MeantAs(x, OverParts(f, x))
    [] r = "EncodeOne"      -> EncodedAs(x, OverParts(f, x))
    [] r = "Encodes"        -> EncodesBody(f, x)
    [] r = "HasStrictArray" -> StrictBody(f, x)

\* What is known of the values of r, whatever they are.
Ok(r, y) == r = "Decode" => y.len \in Nat

Grows(r) == Chain(r, 0) = {} /\ \A n \in Nat : Chain(r, n) \subseteq Chain(r, n + 1)
Agree(r, n, f, g) == \A y \in Chain(r, n) : f[y] = g[y] /\ Ok(r, f[y])

\* The body depends only on what f gives for arguments further down.
WellDefined(r) ==
  \A n \in Nat : \A f, g : Agree(r, n, f, g) =>
     \A x \in Chain(r, n + 1) : Body(r, f, x) = Body(r, g, x) /\ Ok(r, Body(r, f, x))
Solves(r, f, n) == \A x \in Chain(r, n) : f[x] = Body(r, f, x) /\ Ok(r, f[x])
IsDef(r, f) == f = [x \in All(r) |-> Body(r, f, x)]

\* An argument that n steps suffice for is one for more steps, too.
LEMMA ChainGrows ==
  ASSUME NEW r, Grows(r), NEW m \in Nat, NEW n \in Nat, m <= n
  PROVE  Chain(r, m) \subseteq Chain(r, n)
<1>. DEFINE T == {k \in Nat : Chain(r, m) \subseteq Chain(r, m + k)}
<1>1. 0 \in T
  BY m + 0 = m
<1>2. ASSUME NEW k \in Nat, k \in T PROVE k + 1 \in T
  <2>1. Chain(r, m + k) \subseteq Chain(r, (m + k) + 1)
    BY m + k \in Nat DEF Grows
  <2>2. (m + k) + 1 = m + (k + 1)
    OBVIOUS
  <2>3. Chain(r, m) \subseteq Chain(r, m + k)
    BY <1>2
  <2>. QED
    BY <2>1, <2>2, <2>3
<1>. HIDE DEF T
<1>3. \A k \in Nat : k \in T
  BY <1>1, <1>2, Induction
<1>4. n - m \in T
  BY <1>3
<1>5. Chain(r, m) \subseteq Chain(r, m + (n - m))
  BY <1>4 DEF T
<1>6. m + (n - m) = n
  OBVIOUS
<1>. QED
  BY <1>5, <1>6

\* Two solutions agree as far as both go.
LEMMA SolutionsAgree ==
  ASSUME NEW r, Grows(r), WellDefined(r), NEW n \in Nat, NEW f, NEW g,
         Solves(r, f, n), Solves(r, g, n)
  PROVE  Agree(r, n, f, g)
<1>. DEFINE T == {k \in Nat : k <= n => Agree(r, k, f, g)}
<1>1. 0 \in T
  BY DEF Agree, Grows
<1>2. ASSUME NEW k \in Nat, k \in T PROVE k + 1 \in T
  <2>. SUFFICES ASSUME k + 1 <= n PROVE Agree(r, k + 1, f, g)
    OBVIOUS
  <2>1. Agree(r, k, f, g)
    BY <1>2
  <2>2. Chain(r, k + 1) \subseteq Chain(r, n)
    BY ChainGrows, k + 1 \in Nat
  <2>3. ASSUME NEW x \in Chain(r, k + 1) PROVE f[x] = g[x] /\ Ok(r, f[x])
    <3>1. Body(r, f, x) = Body(r, g, x)
      BY <2>1 DEF WellDefined
    <3>2. f[x] = Body(r, f, x) /\ Ok(r, f[x]) /\ g[x] = Body(r, g, x)
      BY <2>2 DEF Solves
    <3>. QED
      BY <3>1, <3>2
  <2>. QED
    BY <2>3 DEF Agree
<1>. HIDE DEF T
<1>3. \A k \in Nat : k \in T
  BY <1>1, <1>2, Induction
<1>4. n \in T
  BY <1>3
<1>. QED
  BY <1>4 DEF T

\* There is a solution as far as one likes.
LEMMA SolutionExists ==
  ASSUME NEW r, Grows(r), WellDefined(r)
  PROVE  \A n \in Nat : \E f : Solves(r, f, n)
<1>. DEFINE T == {k \in Nat : \E f : Solves(r, f, k)}
<1>1. 0 \in T
  BY DEF Solves, Grows
<1>2. ASSUME NEW k \in Nat, k \in T PROVE k + 1 \in T
  <2>1. PICK f : Solves(r, f, k)
    BY <1>2
  <2>. DEFINE g == [x \in Chain(r, k + 1) |-> Body(r, f, x)]
  <2>2. Chain(r, k) \subseteq Chain(r, k + 1)
    BY DEF Grows
  <2>3. Agree(r, k, f, g)
    BY <2>1, <2>2 DEF Solves, Agree
  <2>4. \A x \in Chain(r, k + 1) : g[x] = Body(r, f, x)
    OBVIOUS
  <2>. HIDE DEF g
  <2>5. \A x \in Chain(r, k + 1) : Body(r, f, x) = Body(r, g, x) /\ Ok(r, Body(r, f, x))
    BY <2>3 DEF WellDefined
  <2>6. Solves(r, g, k + 1)
    BY <2>4, <2>5 DEF Solves
  <2>. QED
    BY <2>6
<1>. HIDE DEF T
<1>3. \A k \in Nat : k \in T
  BY <1>1, <1>2, Induction
<1>. QED
  BY <1>3 DEF T

\* Each definition whose body uses the function for smaller arguments only
\* defines a function: that of the depth of values, of Decode, and the five
\* over values.
LEMMA Recursion ==
  ASSUME NEW r, Grows(r), WellDefined(r)
  PROVE  \E f : IsDef(r, f) /\ \A x \in All(r) : Ok(r, f[x])
<1>. DEFINE S(n) == CHOOSE f : Solves(r, f, n)
            F == [x \in All(r) |-> S(CHOOSE n \in Nat : x \in Chain(r, n))[x]]
<1>1. \A n \in Nat : Solves(r, S(n), n)
  BY SolutionExists
<1>2. ASSUME NEW n \in Nat, NEW x \in Chain(r, n)
      PROVE  x \in All(r) /\ F[x] = S(n)[x] /\ Ok(r, F[x])
  <2>1. x \in All(r)
    BY DEF All
  <2>2. PICK m \in Nat : x \in Chain(r, m) /\ m = (CHOOSE i \in Nat : x \in Chain(r, i))
    OBVIOUS
  <2>3. F[x] = S(m)[x]
    BY <2>1, <2>2
  <2>. DEFINE least == IF m <= n THEN m ELSE n
  <2>4. PICK k \in Nat : k <= m /\ k <= n /\ x \in Chain(r, k)
    <3>1. least \in Nat /\ least <= m /\ least <= n /\ x \in Chain(r, least)
      BY <2>2
    <3>. HIDE DEF least
    <3>. QED
      BY <3>1
  <2>5. Solves(r, S(m), k) /\ Solves(r, S(n), k)
    <3>1. Chain(r, k) \subseteq Chain(r, m) /\ Chain(r, k) \subseteq Chain(r, n)
      BY <2>4, ChainGrows
    <3>2. Solves(r, S(m), m) /\ Solves(r, S(n), n)
      BY <1>1
    <3>. HIDE DEF S
    <3>. QED
      BY <3>1, <3>2 DEF Solves
  <2>. HIDE DEF S, F
  <2>6. Agree(r, k, S(m), S(n))
    BY <2>5, SolutionsAgree
  <2>. QED
    BY <2>1, <2>3, <2>4, <2>6 DEF Agree
<1>. HIDE DEF S
<1>3. ASSUME NEW x \in All(r)
      PROVE  F[x] = Body(r, F, x) /\ Ok(r, F[x])
  <2>. HIDE DEF F
  <2>1. PICK n \in Nat : x \in Chain(r, n)
    BY DEF All
  <2>2. x \in Chain(r, n + 1)
    BY <2>1 DEF Grows
  <2>3. Agree(r, n, F, S(n + 1))
    <3>1. ASSUME NEW y \in Chain(r, n) PROVE F[y] = S(n + 1)[y] /\ Ok(r, F[y])
      <4>1. y \in Chain(r, n + 1)
        BY DEF Grows
      <4>. QED
        BY <4>1, <1>2, n + 1 \in Nat
    <3>. QED
      BY <3>1 DEF Agree
  <2>4. Body(r, F, x) = Body(r, S(n + 1), x)
    BY <2>2, <2>3 DEF WellDefined
  <2>5. S(n + 1)[x] = Body(r, S(n + 1), x)
    BY <1>1, <2>2, n + 1 \in Nat DEF Solves
  <2>6. F[x] = S(n + 1)[x] /\ Ok(r, F[x])
    BY <2>2, <1>2, n + 1 \in Nat
  <2>. QED
    BY <2>4, <2>5, <2>6
<1>4. F = [x \in All(r) |-> Body(r, F, x)]
  <2>. DEFINE G == [x \in All(r) |-> Body(r, F, x)]
  <2>1. \A x \in All(r) : G[x] = F[x]
    <3>1. \A x \in All(r) : G[x] = Body(r, F, x)
      BY Zenon
    <3>. QED
      BY <3>1, <1>3, Zenon
  <2>2. DOMAIN F = All(r) /\ DOMAIN G = All(r)
    BY Zenon
  <2>3. F = [x \in DOMAIN F |-> F[x]] /\ G = [x \in DOMAIN G |-> G[x]]
    <3>1. F = [x \in DOMAIN F |-> F[x]]
      OBVIOUS
    <3>. QED
      BY <3>1
  <2>. QED
    BY <2>1, <2>2, <2>3, SMT
<1>. HIDE DEF F
<1>6. IsDef(r, F)
  BY <1>4, Zenon DEF IsDef
<1>. QED
  BY <1>3, <1>6

-----------------------------------------------------------------------------
(* The values, and how deep they are nested.                               *)

\* Nested is what its definition says.
LEMMA NestedDef ==
  \A d \in Nat : Nested[d] = NestedBody(IF d = 0 THEN {} ELSE Nested[d - 1])
<1>1. Grows("Nested")
  BY DEF Grows, Chain
<1>2. WellDefined("Nested")
  <2>. SUFFICES ASSUME NEW n \in Nat, NEW f, NEW g, Agree("Nested", n, f, g),
                       NEW x \in Chain("Nested", n + 1)
                PROVE  Body("Nested", f, x) = Body("Nested", g, x) /\ Ok("Nested", Body("Nested", f, x))
    BY DEF WellDefined
  <2>1. \A y \in 0..(n - 1) : f[y] = g[y]
    BY DEF Agree, Chain
  <2>2. x = 0 \/ x - 1 \in 0..(n - 1)
    BY DEF Chain
  <2>3. (IF x = 0 THEN {} ELSE f[x - 1]) = (IF x = 0 THEN {} ELSE g[x - 1])
    BY <2>1, <2>2
  <2>. QED
    BY <2>3, Zenon DEF Body, Ok
<1>3. All("Nested") = Nat
  <2>1. \A n \in Nat : Chain("Nested", n) = 0..(n - 1)
    BY DEF Chain
  <2>2. \A n \in Nat : n \in Chain("Nested", n + 1)
    BY <2>1
  <2>3. ASSUME NEW m \in All("Nested") PROVE m \in Nat
    <3>1. PICK n \in Nat : m \in Chain("Nested", n)
      BY DEF All
    <3>. QED
      BY <3>1, <2>1
  <2>4. \A m \in Nat : m \in All("Nested")
    BY <2>2, \A n \in Nat : n + 1 \in Nat DEF All
  <2>. QED
    BY <2>3, <2>4
<1>. DEFINE G(f) == [d \in Nat |-> NestedBody(IF d = 0 THEN {} ELSE f[d - 1])]
<1>4. \E f : f = G(f)
  <2>1. PICK f : IsDef("Nested", f)
    BY <1>1, <1>2, Recursion
  <2>2. \A x : Body("Nested", f, x) = NestedBody(IF x = 0 THEN {} ELSE f[x - 1])
    BY DEF Body
  <2>. QED
    BY <2>1, <2>2, <1>3, Zenon DEF IsDef
<1>5. Nested = (CHOOSE f : f = G(f))
  BY Zenon DEF Nested, NestedBody
<1>6. Nested = G(Nested)
  <2>. HIDE DEF G
  <2>. QED
    BY <1>4, <1>5, Zenon
<1>. QED
  BY <1>6, Zenon

\* Out of more parts there are more values.
LEMMA BodyGrows ==
  ASSUME NEW S, NEW T, S \subseteq T
  PROVE  NestedBody(S) \subseteq NestedBody(T)
<1>1. Seq(S) \subseteq Seq(T)
  BY SeqMonotonic
<1>2. \A type, bytes : Keyed(type, bytes, S) \subseteq Keyed(type, bytes, T)
  BY <1>1 DEF Keyed
<1>3. Short(S) \subseteq Short(T)
  BY <1>1 DEF Short
<1>. QED
  BY <1>2, <1>3 DEF NestedBody

\* The parts of a value are nested one less deep.
Inner(d) == IF d = 0 THEN {} ELSE Nested[d - 1]

\* The values of a depth, without the recursion.
LEMMA NestedIs ==
  ASSUME NEW d \in Nat
  PROVE  Nested[d] = NestedBody(Inner(d))
BY NestedDef DEF Inner

\* Values that are nested less deep are among those nested deeper.
LEMMA NestedGrows ==
  \A d \in Nat : Inner(d) \subseteq Nested[d]
<1>. DEFINE T == {d \in Nat : Inner(d) \subseteq Nested[d]}
<1>1. 0 \in T
  BY DEF Inner
<1>2. ASSUME NEW d \in Nat, d \in T PROVE d + 1 \in T
  <2>1. Inner(d) \subseteq Inner(d + 1) /\ Inner(d + 1) = Nested[d]
    BY <1>2 DEF Inner
  <2>2. Nested[d] = NestedBody(Inner(d)) /\ Nested[d + 1] = NestedBody(Inner(d + 1))
    BY NestedIs
  <2>3. NestedBody(Inner(d)) \subseteq NestedBody(Inner(d + 1))
    BY <2>1, BodyGrows
  <2>. QED
    BY <2>1, <2>2, <2>3
<1>. HIDE DEF T
<1>3. \A d \in Nat : d \in T
  BY <1>1, <1>2, Induction
<1>. QED
  BY <1>3 DEF T

\* The same over any distance.
LEMMA NestedMonotonic ==
  ASSUME NEW m \in Nat, NEW n \in Nat, m <= n
  PROVE  Nested[m] \subseteq Nested[n]
<1>. DEFINE T == {k \in Nat : Nested[m] \subseteq Nested[m + k]}
<1>1. 0 \in T
  BY m + 0 = m
<1>2. ASSUME NEW k \in Nat, k \in T PROVE k + 1 \in T
  <2>1. Inner(m + (k + 1)) = Nested[m + k]
    BY m + (k + 1) # 0, (m + (k + 1)) - 1 = m + k DEF Inner
  <2>2. Inner(m + (k + 1)) \subseteq Nested[m + (k + 1)]
    BY NestedGrows, m + (k + 1) \in Nat
  <2>. QED
    BY <1>2, <2>1, <2>2
<1>. HIDE DEF T
<1>3. \A k \in Nat : k \in T
  BY <1>1, <1>2, Induction
<1>4. n - m \in T
  BY <1>3
<1>5. Nested[m] \subseteq Nested[m + (n - m)]
  BY <1>4 DEF T
<1>. QED
  BY <1>5, m + (n - m) = n

\* A scalar has neither keys nor parts, and the bytes of its type.
LEMMA ScalarShape ==
  ASSUME NEW v \in Scalars
  PROVE  /\ v.keys = <<>> /\ v.parts = <<>>
         /\ v = Scalar(v.type, v.bytes)
         /\ \/ v.type \in {"number", "date"} /\ v.bytes \in [1..8 -> Byte]
            \/ v.type = "bool" /\ v.bytes \in {<<0>>, <<1>>}
            \/ v.type \in {"string", "long", "xml"} /\ v.bytes \in Short(Ascii)
            \/ v.type \in {"null", "undefined"} /\ v.bytes = <<>>
            \/ v.type = "ref" /\ \E n \in 0..9 : v.bytes = <<n>>
BY DEF Scalars, Scalar

\* What a value out of the parts is: a scalar, or of one of the four types
\* that have parts.
LEMMA BodyShape ==
  ASSUME NEW S, NEW v \in NestedBody(S)
  PROVE  \/ v \in Scalars
         \/ v \in Keyed("object", {<<>>}, S)
         \/ v \in Keyed("typed", Short(Ascii), S) /\ \A i \in 1..Len(v.keys) : v.keys[i] # ClassName
         \/ v \in [type : {"sarray"}, bytes : {<<>>}, keys : {<<>>}, parts : Short(S)]
BY DEF NestedBody

\* The parts of a value are nested less deep, and no ECMA array is nested.
LEMMA PartsOf ==
  ASSUME NEW d \in Nat, NEW v \in Nested[d]
  PROVE  v.parts \in Seq(Inner(d)) /\ v.type # "array"
<1>1. v \in NestedBody(Inner(d))
  BY NestedIs
<1>2. CASE v \in Scalars
  <2>1. v.parts = <<>> /\ v.type # "array"
    BY <1>2, ScalarShape
  <2>. QED
    BY <2>1, EmptySeq
<1>3. CASE v \in Keyed("object", {<<>>}, Inner(d)) \/ v \in Keyed("typed", Short(Ascii), Inner(d))
  BY <1>3 DEF Keyed
<1>4. CASE v \in [type : {"sarray"}, bytes : {<<>>}, keys : {<<>>}, parts : Short(Inner(d))]
  BY <1>4 DEF Short
<1>. QED
  BY <1>1, <1>2, <1>3, <1>4, BodyShape

\* The parts of an ECMA array are nested less deep than Depth.
LEMMA ArrayParts ==
  ASSUME NEW v \in Arrays
  PROVE  v.parts \in Seq(Nested[Depth - 1]) /\ v.type = "array"
BY DEF Arrays, Keyed

Trees == {"Bytes", "Meaning", "EncodeOne", "Encodes", "HasStrictArray"}

\* The chain of a function over values goes by depth, the arrays last.
LEMMA TreeChain ==
  ASSUME NEW r \in Trees, NEW n \in Nat
  PROVE  Chain(r, n) = IF n = 0 THEN {}
                       ELSE {v \in Value : v \in Nested[n - 1] \/ (v \in Arrays /\ n > Depth)}
BY DEF Trees, Chain

\* The chain of such a function reaches all values.
LEMMA TreeGrows ==
  ASSUME NEW r \in Trees
  PROVE  Grows(r) /\ All(r) = Value
<1>1. ASSUME NEW n \in Nat PROVE Chain(r, n) \subseteq Chain(r, n + 1)
  <2>1. CASE n = 0
    BY <2>1, TreeChain
  <2>2. CASE n # 0
    <3>1. Nested[n - 1] \subseteq Nested[(n + 1) - 1]
      BY <2>2, NestedMonotonic, n - 1 \in Nat, (n + 1) - 1 \in Nat
    <3>2. n > Depth => n + 1 > Depth
      BY CommandsAssumption
    <3>3. /\ Chain(r, n) = {v \in Value : v \in Nested[n - 1] \/ (v \in Arrays /\ n > Depth)}
          /\ Chain(r, n + 1) = {v \in Value : v \in Nested[(n + 1) - 1] \/ (v \in Arrays /\ n + 1 > Depth)}
      BY <2>2, TreeChain, n + 1 \in Nat, n + 1 # 0
    <3>. QED
      BY <3>1, <3>2, <3>3
  <2>. QED
    BY <2>1, <2>2
<1>2. Chain(r, 0) = {}
  BY TreeChain
<1>3. ASSUME NEW v \in All(r) PROVE v \in Value
  <2>1. PICK n \in Nat : v \in Chain(r, n)
    BY DEF All
  <2>. QED
    BY <2>1, TreeChain
<1>4. ASSUME NEW v \in Value PROVE v \in All(r)
  <2>1. Depth + 2 \in Nat /\ Depth + 2 # 0 /\ (Depth + 2) - 1 = Depth + 1 /\ Depth + 2 > Depth
    BY CommandsAssumption
  <2>2. v \in Chain(r, Depth + 2)
    BY <2>1, TreeChain DEF Value
  <2>. QED
    BY <2>1, <2>2 DEF All
<1>. QED
  BY <1>1, <1>2, <1>3, <1>4 DEF Grows

\* The parts of a value are one step down.
LEMMA TreeParts ==
  ASSUME NEW r \in Trees, NEW n \in Nat, NEW v \in Chain(r, n + 1)
  PROVE  v \in Value /\ \A i \in 1..Len(v.parts) : v.parts[i] \in Chain(r, n)
<1>1. v \in Value /\ (v \in Nested[n] \/ (v \in Arrays /\ n + 1 > Depth))
  BY TreeChain, n + 1 \in Nat, n + 1 # 0, (n + 1) - 1 = n
<1>2. Depth \in Nat \ {0} /\ Depth - 1 \in Nat /\ Depth + 1 \in Nat
  BY CommandsAssumption
<1>3. CASE v \in Arrays /\ n + 1 > Depth
  <2>1. v.parts \in Seq(Nested[Depth - 1])
    BY <1>3, ArrayParts
  <2>2. \A i \in 1..Len(v.parts) : v.parts[i] \in Nested[Depth - 1]
    BY <2>1, ElementOfSeq
  <2>3. n # 0 /\ n - 1 \in Nat /\ Depth - 1 <= n - 1 /\ Depth - 1 <= Depth + 1
    BY <1>2, <1>3
  <2>4. Nested[Depth - 1] \subseteq Nested[n - 1] /\ Nested[Depth - 1] \subseteq Nested[Depth + 1]
    BY <1>2, <2>3, NestedMonotonic
  <2>5. Chain(r, n) = {w \in Value : w \in Nested[n - 1] \/ (w \in Arrays /\ n > Depth)}
    BY <2>3, TreeChain
  <2>. QED
    BY <1>1, <2>2, <2>4, <2>5 DEF Value
<1>4. CASE v \in Nested[n] /\ v \notin Arrays
  <2>1. v.parts \in Seq(Inner(n)) /\ v \in Nested[Depth + 1]
    BY <1>1, <1>4, PartsOf DEF Value
  <2>2. v.parts \in Seq(Inner(Depth + 1)) /\ Inner(Depth + 1) = Nested[Depth]
    BY <1>2, <2>1, PartsOf DEF Inner
  <2>3. \A i \in 1..Len(v.parts) : v.parts[i] \in Inner(n) /\ v.parts[i] \in Nested[Depth]
    BY <2>1, <2>2, ElementOfSeq
  <2>4. Nested[Depth] \subseteq Nested[Depth + 1]
    BY <1>2, NestedMonotonic, Depth <= Depth + 1
  <2>5. CASE n = 0
    BY <1>1, <2>3, <2>5 DEF Inner
  <2>6. CASE n # 0
    <3>1. Inner(n) = Nested[n - 1]
      BY <2>6 DEF Inner
    <3>2. Chain(r, n) = {w \in Value : w \in Nested[n - 1] \/ (w \in Arrays /\ n > Depth)}
      BY <2>6, TreeChain
    <3>. QED
      BY <1>1, <2>3, <2>4, <3>1, <3>2 DEF Value
  <2>. QED
    BY <2>5, <2>6
<1>5. v \in Nested[n] => v \notin Arrays
  BY PartsOf, ArrayParts
<1>. QED
  BY <1>1, <1>3, <1>4, <1>5

\* A function over values exists when its body looks at the parts alone.
LEMMA TreeRecursion ==
  ASSUME NEW r \in Trees,
         \A f, g : \A v \in Value : (\A i \in 1..Len(v.parts) : f[v.parts[i]] = g[v.parts[i]])
                                      => Body(r, f, v) = Body(r, g, v)
  PROVE  \E f : f = [v \in Value |-> Body(r, f, v)]
<1>1. \A y : Ok(r, y)
  BY DEF Ok, Trees
<1>2. WellDefined(r)
  <2>. SUFFICES ASSUME NEW n \in Nat, NEW f, NEW g, Agree(r, n, f, g), NEW v \in Chain(r, n + 1)
                PROVE  Body(r, f, v) = Body(r, g, v) /\ Ok(r, Body(r, f, v))
    BY DEF WellDefined
  <2>1. v \in Value /\ \A i \in 1..Len(v.parts) : v.parts[i] \in Chain(r, n)
    BY TreeParts
  <2>2. \A i \in 1..Len(v.parts) : f[v.parts[i]] = g[v.parts[i]]
    BY <2>1 DEF Agree
  <2>. QED
    BY <1>1, <2>1, <2>2
<1>3. PICK f : IsDef(r, f)
  BY <1>2, TreeGrows, Recursion
<1>4. All(r) = Value
  BY TreeGrows
<1>. QED
  BY <1>3, <1>4, Zenon DEF IsDef

\* The bodies of the first three use their function for the parts alone.
LEMMA PartsAgree ==
  ASSUME NEW f, NEW g, NEW v,
         \A i \in 1..Len(v.parts) : f[v.parts[i]] = g[v.parts[i]]
  PROVE  OverParts(f, v) = OverParts(g, v)
BY DEF OverParts

\* Bytes is what its definition says; and so are the next four.
LEMMA BytesDef ==
  \A v \in Value : Bytes[v] = WrittenAs(v, OverParts(Bytes, v))
<1>1. "Bytes" \in Trees /\ \A f, v : Body("Bytes", f, v) = WrittenAs(v, OverParts(f, v))
  BY DEF Trees, Body
<1>2. \A f, g : \A v \in Value : (\A i \in 1..Len(v.parts) : f[v.parts[i]] = g[v.parts[i]])
                                   => Body("Bytes", f, v) = Body("Bytes", g, v)
  <2>. SUFFICES ASSUME NEW f, NEW g, NEW v \in Value,
                       \A i \in 1..Len(v.parts) : f[v.parts[i]] = g[v.parts[i]]
                PROVE  Body("Bytes", f, v) = Body("Bytes", g, v)
    BY Zenon
  <2>1. OverParts(f, v) = OverParts(g, v)
    BY PartsAgree
  <2>. QED
    BY <1>1, <2>1, Zenon
<1>. DEFINE G(f) == [v \in Value |-> WrittenAs(v, OverParts(f, v))]
<1>3. \E f : f = G(f)
  <2>1. PICK f : f = [v \in Value |-> Body("Bytes", f, v)]
    BY <1>1, <1>2, TreeRecursion
  <2>2. \A v \in Value : Body("Bytes", f, v) = WrittenAs(v, OverParts(f, v))
    BY <1>1
  <2>3. f = G(f)
    BY <2>1, <2>2, Zenon
  <2>. QED
    BY <2>3
<1>4. Bytes = (CHOOSE f : f = G(f))
  BY Zenon DEF Bytes, OverParts
<1>5. Bytes = G(Bytes)
  <2>. HIDE DEF G
  <2>. QED
    BY <1>3, <1>4, Zenon
<1>. QED
  BY <1>5, Zenon

LEMMA MeaningDef ==
  \A v \in Value : Meaning[v] = MeantAs(v, OverParts(Meaning, v))
<1>1. "Meaning" \in Trees /\ \A f, v : Body("Meaning", f, v) = MeantAs(v, OverParts(f, v))
  BY DEF Trees, Body
<1>2. \A f, g : \A v \in Value : (\A i \in 1..Len(v.parts) : f[v.parts[i]] = g[v.parts[i]])
                                   => Body("Meaning", f, v) = Body("Meaning", g, v)
  <2>. SUFFICES ASSUME NEW f, NEW g, NEW v \in Value,
                       \A i \in 1..Len(v.parts) : f[v.parts[i]] = g[v.parts[i]]
                PROVE  Body("Meaning", f, v) = Body("Meaning", g, v)
    BY Zenon
  <2>1. OverParts(f, v) = OverParts(g, v)
    BY PartsAgree
  <2>. QED
    BY <1>1, <2>1, Zenon
<1>. DEFINE G(f) == [v \in Value |-> MeantAs(v, OverParts(f, v))]
<1>3. \E f : f = G(f)
  <2>1. PICK f : f = [v \in Value |-> Body("Meaning", f, v)]
    BY <1>1, <1>2, TreeRecursion
  <2>2. \A v \in Value : Body("Meaning", f, v) = MeantAs(v, OverParts(f, v))
    BY <1>1
  <2>3. f = G(f)
    BY <2>1, <2>2, Zenon
  <2>. QED
    BY <2>3
<1>4. Meaning = (CHOOSE f : f = G(f))
  BY Zenon DEF Meaning, OverParts
<1>5. Meaning = G(Meaning)
  <2>. HIDE DEF G
  <2>. QED
    BY <1>3, <1>4, Zenon
<1>. QED
  BY <1>5, Zenon

LEMMA EncodeOneDef ==
  \A v \in Value : EncodeOne[v] = EncodedAs(v, OverParts(EncodeOne, v))
<1>1. "EncodeOne" \in Trees /\ \A f, v : Body("EncodeOne", f, v) = EncodedAs(v, OverParts(f, v))
  BY DEF Trees, Body
<1>2. \A f, g : \A v \in Value : (\A i \in 1..Len(v.parts) : f[v.parts[i]] = g[v.parts[i]])
                                   => Body("EncodeOne", f, v) = Body("EncodeOne", g, v)
  <2>. SUFFICES ASSUME NEW f, NEW g, NEW v \in Value,
                       \A i \in 1..Len(v.parts) : f[v.parts[i]] = g[v.parts[i]]
                PROVE  Body("EncodeOne", f, v) = Body("EncodeOne", g, v)
    BY Zenon
  <2>1. OverParts(f, v) = OverParts(g, v)
    BY PartsAgree
  <2>. QED
    BY <1>1, <2>1, Zenon
<1>. DEFINE G(f) == [v \in Value |-> EncodedAs(v, OverParts(f, v))]
<1>3. \E f : f = G(f)
  <2>1. PICK f : f = [v \in Value |-> Body("EncodeOne", f, v)]
    BY <1>1, <1>2, TreeRecursion
  <2>2. \A v \in Value : Body("EncodeOne", f, v) = EncodedAs(v, OverParts(f, v))
    BY <1>1
  <2>3. f = G(f)
    BY <2>1, <2>2, Zenon
  <2>. QED
    BY <2>3
<1>4. EncodeOne = (CHOOSE f : f = G(f))
  BY Zenon DEF EncodeOne, OverParts
<1>5. EncodeOne = G(EncodeOne)
  <2>. HIDE DEF G
  <2>. QED
    BY <1>3, <1>4, Zenon
<1>. QED
  BY <1>5, Zenon

LEMMA EncodesDef ==
  \A v \in Value : Encodes[v] = EncodesBody(Encodes, v)
<1>1. "Encodes" \in Trees /\ \A f, v : Body("Encodes", f, v) = EncodesBody(f, v)
  BY DEF Trees, Body
<1>2. ASSUME NEW f, NEW g, NEW v, \A i \in 1..Len(v.parts) : f[v.parts[i]] = g[v.parts[i]]
      PROVE  EncodesBody(f, v) = EncodesBody(g, v)
  BY <1>2, Zenon DEF EncodesBody
<1>3. \A f, g : \A v \in Value : (\A i \in 1..Len(v.parts) : f[v.parts[i]] = g[v.parts[i]])
                                   => Body("Encodes", f, v) = Body("Encodes", g, v)
  <2>. SUFFICES ASSUME NEW f, NEW g, NEW v \in Value,
                       \A i \in 1..Len(v.parts) : f[v.parts[i]] = g[v.parts[i]]
                PROVE  Body("Encodes", f, v) = Body("Encodes", g, v)
    BY Zenon
  <2>1. EncodesBody(f, v) = EncodesBody(g, v)
    BY <1>2
  <2>. QED
    BY <1>1, <2>1, Zenon
<1>. DEFINE G(f) == [v \in Value |-> EncodesBody(f, v)]
<1>4. \E f : f = G(f)
  <2>1. PICK f : f = [v \in Value |-> Body("Encodes", f, v)]
    BY <1>1, <1>3, TreeRecursion
  <2>2. \A v \in Value : Body("Encodes", f, v) = EncodesBody(f, v)
    BY <1>1
  <2>3. f = G(f)
    BY <2>1, <2>2, Zenon
  <2>. QED
    BY <2>3
<1>5. Encodes = (CHOOSE f : f = G(f))
  BY Zenon DEF Encodes, EncodesBody
<1>6. Encodes = G(Encodes)
  <2>. HIDE DEF G
  <2>. QED
    BY <1>4, <1>5, Zenon
<1>. QED
  BY <1>6, Zenon

LEMMA HasStrictArrayDef ==
  \A v \in Value : HasStrictArray[v] = StrictBody(HasStrictArray, v)
<1>1. "HasStrictArray" \in Trees /\ \A f, v : Body("HasStrictArray", f, v) = StrictBody(f, v)
  BY DEF Trees, Body
<1>2. ASSUME NEW f, NEW g, NEW v, \A i \in 1..Len(v.parts) : f[v.parts[i]] = g[v.parts[i]]
      PROVE  StrictBody(f, v) = StrictBody(g, v)
  BY <1>2, Zenon DEF StrictBody
<1>3. \A f, g : \A v \in Value : (\A i \in 1..Len(v.parts) : f[v.parts[i]] = g[v.parts[i]])
                                   => Body("HasStrictArray", f, v) = Body("HasStrictArray", g, v)
  <2>. SUFFICES ASSUME NEW f, NEW g, NEW v \in Value,
                       \A i \in 1..Len(v.parts) : f[v.parts[i]] = g[v.parts[i]]
                PROVE  Body("HasStrictArray", f, v) = Body("HasStrictArray", g, v)
    BY Zenon
  <2>1. StrictBody(f, v) = StrictBody(g, v)
    BY <1>2
  <2>. QED
    BY <1>1, <2>1, Zenon
<1>. DEFINE G(f) == [v \in Value |-> StrictBody(f, v)]
<1>4. \E f : f = G(f)
  <2>1. PICK f : f = [v \in Value |-> Body("HasStrictArray", f, v)]
    BY <1>1, <1>3, TreeRecursion
  <2>2. \A v \in Value : Body("HasStrictArray", f, v) = StrictBody(f, v)
    BY <1>1
  <2>3. f = G(f)
    BY <2>1, <2>2, Zenon
  <2>. QED
    BY <2>3
<1>5. HasStrictArray = (CHOOSE f : f = G(f))
  BY Zenon DEF HasStrictArray, StrictBody
<1>6. HasStrictArray = G(HasStrictArray)
  <2>. HIDE DEF G
  <2>. QED
    BY <1>4, <1>5, Zenon
<1>. QED
  BY <1>6, Zenon

-----------------------------------------------------------------------------
(* The bytes that are looked at.                                           *)

\* What From returns.
LEMMA FromIs ==
  ASSUME NEW S, NEW s \in Seq(S), NEW i \in Nat \ {0}
  PROVE  /\ From(s, i) \in Seq(S)
         /\ Len(From(s, i)) = IF i <= Len(s) THEN Len(s) - i + 1 ELSE 0
         /\ \A j \in 1..(Len(s) - i + 1) : From(s, i)[j] = s[i + j - 1]
<1>1. Len(s) \in Nat /\ \A j \in i..Len(s) : s[j] \in S
  <2>1. Len(s) \in Nat /\ \A j \in 1..Len(s) : s[j] \in S
    BY LenProperties, ElementOfSeq
  <2>. QED
    BY <2>1
<1>2. Len(s) \in Int /\ i \in Int
  BY <1>1
<1>. QED
  BY <1>1, <1>2, SubSeqProperties DEF From

\* What follows the first byte is shorter: the decoders come to an end.
LEMMA FromShorter ==
  ASSUME NEW b \in Seq(Byte), NEW i \in Nat \ {0}
  PROVE  /\ From(b, i) \in Seq(Byte) /\ Len(From(b, i)) \in Nat /\ Len(From(b, i)) <= Len(b)
         /\ i # 1 /\ Len(b) # 0 => Len(From(b, i)) < Len(b)
<1>1. Len(b) \in Nat
  BY LenProperties
<1>2. From(b, i) \in Seq(Byte) /\ Len(From(b, i)) = IF i <= Len(b) THEN Len(b) - i + 1 ELSE 0
  BY FromIs
<1>. QED
  BY <1>1, <1>2

\* A byte is read, or 0 past the end.
LEMMA ByteAtType ==
  ASSUME NEW b \in Seq(Byte), NEW i \in Nat \ {0}
  PROVE  ByteAt(b, i) \in Byte
<1>1. Len(b) \in Nat /\ 0 \in Byte
  BY LenProperties DEF Byte
<1>2. CASE i <= Len(b)
  BY <1>1, <1>2, ElementOfSeq, i \in 1..Len(b) DEF ByteAt
<1>3. CASE ~(i <= Len(b))
  BY <1>1, <1>3 DEF ByteAt
<1>. QED
  BY <1>2, <1>3

-----------------------------------------------------------------------------
(* Decode is well defined: what it calls is smaller.                       *)

\* f and g give the same for all calls smaller than k, and a length.
Below(f, g, k) ==
  \A c \in Calls : Size(c) < k => f[c] = g[c] /\ f[c].len \in Nat

\* The same of two bodies of Decode.
Same(x, y) == x = y /\ x.len \in Nat

\* On a smaller call two functions that agree below k agree.
LEMMA CallBelow ==
  ASSUME NEW f, NEW g, NEW k \in Nat, Below(f, g, k),
         NEW do \in {"one", "members", "items"}, NEW b \in Seq(Byte), NEW n \in Byte,
         256 * Len(b) + n < k
  PROVE  Same(f[<<do, b, n>>], g[<<do, b, n>>])
<1>. DEFINE c == <<do, b, n>>
<1>1. c \in Calls /\ c[2] = b /\ c[3] = n
  BY DEF Calls
<1>2. Size(c) < k
  BY <1>1 DEF Size
<1>3. f[c] = g[c] /\ f[c].len \in Nat
  BY <1>1, <1>2 DEF Below
<1>. QED
  BY <1>3 DEF Same

\* A round of amf0decObject calls on fewer bytes only.
LEMMA MembersAgree ==
  ASSUME NEW f, NEW g, NEW b \in Seq(Byte), Below(f, g, 256 * Len(b))
  PROVE  Same(DecodeMembers(f, b), DecodeMembers(g, b))
<1>. DEFINE n == ByteAt(b, 2)
            key == Slice(b, 3, n)
            val(h) == h[<<"one", From(b, 3 + n), 0>>]
            rest(h) == h[<<"members", From(b, 3 + n + val(h).len), 0>>]
            last(h) == Decoded(2 + n + val(h).len + rest(h).len,
                               Object(<<key>> \o rest(h).value.keys, <<val(h).value>> \o rest(h).value.parts))
            none == Object(<<>>, <<>>)
<1>1. n \in Nat /\ Len(b) \in Nat /\ 0 \in Byte
  <2>1. n \in Byte
    BY ByteAtType, 2 \in Nat \ {0}
  <2>. HIDE DEF n
  <2>2. Len(b) \in Nat
    BY LenProperties
  <2>. QED
    BY <2>1, <2>2 DEF Byte
<1>. HIDE DEF n
<1>2. ASSUME ~(Len(b) < 2 + n)
      PROVE  Same(val(f), val(g)) /\ Same(rest(f), rest(g))
  <2>1. /\ From(b, 3 + n) \in Seq(Byte)
        /\ 256 * Len(From(b, 3 + n)) + 0 < 256 * Len(b)
    <3>1. 3 + n \in Nat \ {0}
      BY <1>1
    <3>2. From(b, 3 + n) \in Seq(Byte) /\ Len(From(b, 3 + n)) = IF 3 + n <= Len(b) THEN Len(b) - (3 + n) + 1 ELSE 0
      BY <3>1, FromIs
    <3>. QED
      BY <1>1, <1>2, <3>2
  <2>2. Same(val(f), val(g))
    BY <1>1, <2>1, CallBelow
  <2>3. PICK i \in Nat \ {0} : i = 3 + n + val(f).len /\ i = 3 + n + val(g).len /\ i >= 3 + n
    BY <1>1, <2>2 DEF Same
  <2>4. /\ From(b, i) \in Seq(Byte)
        /\ 256 * Len(From(b, i)) + 0 < 256 * Len(b)
    <3>1. From(b, i) \in Seq(Byte) /\ Len(From(b, i)) = IF i <= Len(b) THEN Len(b) - i + 1 ELSE 0
      BY FromIs
    <3>. QED
      BY <1>1, <1>2, <2>3, <3>1
  <2>5. Same(f[<<"members", From(b, i), 0>>], g[<<"members", From(b, i), 0>>])
    BY <1>1, <2>4, CallBelow
  <2>. QED
    BY <2>2, <2>3, <2>5
<1>3. \A h : DecodeMembers(h, b) =
        IF ByteAt(b, 1) = 9 THEN Decoded(0, none)
        ELSE IF Len(b) < 2 + n THEN Decoded(2 + n, none)
        ELSE IF ByteAt(b, 3 + n) = 9 THEN Decoded(3 + n, none)
        ELSE IF key = <<>> THEN Decoded(2, none)
        ELSE last(h)
  BY Zenon DEF DecodeMembers, n
<1>4. \A m \in Nat : \A v : Same(Decoded(m, v), Decoded(m, v))
  BY DEF Same, Decoded
<1>. HIDE DEF key, none
<1>5. ASSUME ~(Len(b) < 2 + n) PROVE Same(last(f), last(g))
  <2>1. /\ val(f) = val(g) /\ rest(f) = rest(g)
        /\ val(f).len \in Nat /\ rest(f).len \in Nat
    BY <1>2, <1>5 DEF Same
  <2>. HIDE DEF val, rest
  <2>2. last(f) = last(g)
    BY <2>1, Zenon
  <2>3. last(f).len = 2 + n + val(f).len + rest(f).len
    BY DEF Decoded
  <2>. QED
    BY <1>1, <2>1, <2>2, <2>3 DEF Same
<1>. HIDE DEF last
<1>. QED
  BY <1>1, <1>3, <1>4, <1>5

\* A result whose length is a natural agrees with itself.
LEMMA DecodedSame ==
  ASSUME NEW m \in Nat, NEW v
  PROVE  Same(Decoded(m, v), Decoded(m, v))
BY DEF Same, Decoded

\* A round of amf0decSArray calls on as many bytes with fewer items, or on
\* fewer bytes.
LEMMA ItemsAgree ==
  ASSUME NEW f, NEW g, NEW b \in Seq(Byte), NEW n \in Byte, Below(f, g, 256 * Len(b) + n)
  PROVE  Same(DecodeItems(f, b, n), DecodeItems(g, b, n))
<1>1. Len(b) \in Nat /\ n \in Nat /\ 0 \in Byte
  BY LenProperties DEF Byte
<1>2. CASE n = 0
  BY <1>2, DecodedSame DEF DecodeItems
<1>3. CASE n # 0
  <2>. DEFINE item(h) == h[<<"one", b, 0>>]
              rest(h) == h[<<"items", From(b, item(h).len + 1), n - 1>>]
              last(h) == Decoded(item(h).len + rest(h).len, StrictArray(<<item(h).value>> \o rest(h).value.parts))
  <2>1. Same(item(f), item(g))
    <3>1. 256 * Len(b) + 0 < 256 * Len(b) + n /\ 256 * Len(b) + n \in Nat
      BY <1>1, <1>3
    <3>. QED
      BY <1>1, <3>1, CallBelow
  <2>2. PICK i \in Nat \ {0} : i = item(f).len + 1 /\ i = item(g).len + 1
    BY <2>1 DEF Same
  <2>3. From(b, i) \in Seq(Byte) /\ 256 * Len(From(b, i)) + (n - 1) < 256 * Len(b) + n
    <3>1. From(b, i) \in Seq(Byte) /\ Len(From(b, i)) = IF i <= Len(b) THEN Len(b) - i + 1 ELSE 0
      BY FromIs
    <3>. QED
      BY <1>1, <1>3, <3>1
  <2>4. n - 1 \in Byte /\ 256 * Len(b) + n \in Nat
    BY <1>1, <1>3 DEF Byte
  <2>5. Same(f[<<"items", From(b, i), n - 1>>], g[<<"items", From(b, i), n - 1>>])
    BY <2>3, <2>4, CallBelow
  <2>6. Same(rest(f), rest(g))
    BY <2>2, <2>5
  <2>7. /\ item(f) = item(g) /\ rest(f) = rest(g)
        /\ item(f).len \in Nat /\ rest(f).len \in Nat
    BY <2>1, <2>6 DEF Same
  <2>8. DecodeItems(f, b, n) = last(f) /\ DecodeItems(g, b, n) = last(g)
    BY <1>3, Zenon DEF DecodeItems
  <2>. HIDE DEF item, rest
  <2>9. last(f) = last(g)
    BY <2>7, Zenon
  <2>10. last(f).len = item(f).len + rest(f).len
    BY DEF Decoded
  <2>. QED
    BY <2>7, <2>8, <2>9, <2>10 DEF Same
<1>. QED
  BY <1>2, <1>3

\* amf0decObject calls on fewer bytes only, and so do the next three.
LEMMA ObjectAgrees ==
  ASSUME NEW f, NEW g, NEW k \in Nat, Below(f, g, k), NEW b \in Seq(Byte),
         256 * Len(From(b, 2)) < k
  PROVE  Same(DecodeObject(f, b), DecodeObject(g, b))
<1>. DEFINE obj(h) == h[<<"members", From(b, 2), 0>>]
<1>1. From(b, 2) \in Seq(Byte)
  BY FromIs, 2 \in Nat \ {0}
<1>2. 256 * Len(From(b, 2)) + 0 < k /\ 0 \in Byte
  BY <1>1, LenProperties DEF Byte
<1>3. Same(obj(f), obj(g))
  BY <1>1, <1>2, CallBelow
<1>4. obj(f) = obj(g) /\ obj(f).len \in Nat
  BY <1>3 DEF Same
<1>5. /\ DecodeObject(f, b) = Decoded(1 + obj(f).len, obj(f).value)
      /\ DecodeObject(g, b) = Decoded(1 + obj(g).len, obj(g).value)
  BY Zenon DEF DecodeObject
<1>. HIDE DEF obj
<1>. QED
  BY <1>4, <1>5, DecodedSame

\* A string takes its marker and its length at least.
LEMMA StringType ==
  ASSUME NEW b \in Seq(Byte), NEW w \in Nat
  PROVE  DecodeString(b, w).len \in Nat /\ DecodeString(b, w).len >= 1 + w
<1>1. ByteAt(b, 1 + w) \in Byte
  BY ByteAtType, 1 + w \in Nat \ {0}
<1>2. DecodeString(b, w).len = 1 + w + ByteAt(b, 1 + w)
  BY DEF DecodeString, Decoded
<1>3. PICK n \in Nat : n = ByteAt(b, 1 + w)
  BY <1>1 DEF Byte
<1>. QED
  BY <1>2, <1>3

LEMMA ArrayAgrees ==
  ASSUME NEW f, NEW g, NEW b \in Seq(Byte), Len(b) # 0, Below(f, g, 256 * Len(b))
  PROVE  Same(DecodeArray(f, b), DecodeArray(g, b))
<1>. DEFINE obj(h) == DecodeObject(h, From(b, 5))
<1>1. Len(b) \in Nat /\ 256 * Len(b) \in Nat
  BY LenProperties
<1>2. From(b, 5) \in Seq(Byte) /\ Len(From(b, 5)) \in Nat /\ Len(From(b, 5)) < Len(b)
  BY FromShorter, 5 \in Nat \ {0} /\ 5 # 1
<1>3. 256 * Len(From(From(b, 5), 2)) < 256 * Len(b)
  <2>1. Len(From(From(b, 5), 2)) <= Len(From(b, 5)) /\ Len(From(From(b, 5), 2)) \in Nat
    BY <1>2, FromShorter, 2 \in Nat \ {0}
  <2>. QED
    BY <1>1, <1>2, <2>1
<1>4. Same(obj(f), obj(g))
  BY <1>1, <1>2, <1>3, ObjectAgrees
<1>5. obj(f) = obj(g) /\ 5 + obj(f).len \in Nat
  BY <1>4 DEF Same
<1>6. /\ DecodeArray(f, b) = Decoded(5 + obj(f).len, obj(f).value)
      /\ DecodeArray(g, b) = Decoded(5 + obj(g).len, obj(g).value)
  BY Zenon DEF DecodeArray
<1>. HIDE DEF obj
<1>. QED
  BY <1>5, <1>6, DecodedSame

LEMMA SArrayAgrees ==
  ASSUME NEW f, NEW g, NEW b \in Seq(Byte), Len(b) # 0, Below(f, g, 256 * Len(b))
  PROVE  Same(DecodeSArray(f, b), DecodeSArray(g, b))
<1>. DEFINE items(h) == h[<<"items", From(b, 6), ByteAt(b, 5)>>]
<1>1. Len(b) \in Nat /\ 256 * Len(b) \in Nat
  BY LenProperties
<1>2. From(b, 6) \in Seq(Byte) /\ Len(From(b, 6)) \in Nat /\ Len(From(b, 6)) < Len(b)
  BY FromShorter, 6 \in Nat \ {0} /\ 6 # 1
<1>3. ByteAt(b, 5) \in Byte
  BY ByteAtType, 5 \in Nat \ {0}
<1>4. PICK n \in Byte : n = ByteAt(b, 5)
  BY <1>3
<1>5. 256 * Len(From(b, 6)) + n < 256 * Len(b)
  BY <1>1, <1>2 DEF Byte
<1>6. Same(f[<<"items", From(b, 6), n>>], g[<<"items", From(b, 6), n>>])
  BY <1>1, <1>2, <1>5, CallBelow
<1>7. items(f) = items(g) /\ 5 + items(f).len \in Nat
  BY <1>4, <1>6 DEF Same
<1>8. /\ DecodeSArray(f, b) = Decoded(5 + items(f).len, items(f).value)
      /\ DecodeSArray(g, b) = Decoded(5 + items(g).len, items(g).value)
  BY Zenon DEF DecodeSArray
<1>. HIDE DEF items
<1>. QED
  BY <1>7, <1>8, DecodedSame

LEMMA TypedAgrees ==
  ASSUME NEW f, NEW g, NEW b \in Seq(Byte), Len(b) # 0, Below(f, g, 256 * Len(b))
  PROVE  Same(DecodeTyped(f, b), DecodeTyped(g, b))
<1>. DEFINE class == DecodeString(b, 2)
            obj(h) == DecodeObject(h, From(b, class.len))
            value(h) == Object(Append(obj(h).value.keys, ClassName), Append(obj(h).value.parts, class.value))
<1>1. Len(b) \in Nat /\ 256 * Len(b) \in Nat
  BY LenProperties
<1>2. PICK n \in Nat : n = class.len /\ n >= 3
  <2>1. class.len \in Nat /\ class.len >= 1 + 2
    BY StringType, 2 \in Nat
  <2>. HIDE DEF class
  <2>. QED
    BY <2>1
<1>. HIDE DEF class
<1>3. From(b, n) \in Seq(Byte) /\ Len(From(b, n)) \in Nat /\ Len(From(b, n)) < Len(b)
  BY <1>2, FromShorter, n \in Nat \ {0} /\ n # 1
<1>4. 256 * Len(From(From(b, n), 2)) < 256 * Len(b)
  <2>1. Len(From(From(b, n), 2)) <= Len(From(b, n)) /\ Len(From(From(b, n), 2)) \in Nat
    BY <1>3, FromShorter, 2 \in Nat \ {0}
  <2>. QED
    BY <1>1, <1>3, <2>1
<1>5. Same(DecodeObject(f, From(b, n)), DecodeObject(g, From(b, n)))
  BY <1>1, <1>3, <1>4, ObjectAgrees
<1>6. obj(f) = obj(g) /\ obj(f).len \in Nat
  BY <1>2, <1>5 DEF Same
<1>7. /\ DecodeTyped(f, b) = Decoded(class.len + obj(f).len - 1, value(f))
      /\ DecodeTyped(g, b) = Decoded(class.len + obj(g).len - 1, value(g))
  BY Zenon DEF DecodeTyped, class
<1>. HIDE DEF obj
<1>8. value(f) = value(g)
  BY <1>6, Zenon
<1>9. class.len + obj(f).len - 1 \in Nat
  BY <1>2, <1>6
<1>. HIDE DEF value
<1>. QED
  BY <1>6, <1>7, <1>8, <1>9, DecodedSame

\* The rule for each marker.
LEMMA MarkerIs ==
  ASSUME NEW h, NEW b
  PROVE  /\ ByteAt(b, 1) = 0 => ByMarker(h, b) = Decoded(9, Scalar("number", Slice(b, 2, 8)))
         /\ ByteAt(b, 1) = 1 => ByMarker(h, b) = Decoded(2, Scalar("bool", <<IF ByteAt(b, 2) # 0 THEN 1 ELSE 0>>))
         /\ ByteAt(b, 1) = 2 => ByMarker(h, b) = DecodeString(b, 2)
         /\ ByteAt(b, 1) = 3 => ByMarker(h, b) = DecodeObject(h, b)
         /\ ByteAt(b, 1) = 5 => ByMarker(h, b) = Decoded(1, Null)
         /\ ByteAt(b, 1) = 6 => ByMarker(h, b) = Decoded(1, Undefined)
         /\ ByteAt(b, 1) = 7 => ByMarker(h, b) = Decoded(3, Scalar("string", <<114, 101, 102, 48 + ByteAt(b, 3)>>))
         /\ ByteAt(b, 1) = 8 => ByMarker(h, b) = DecodeArray(h, b)
         /\ ByteAt(b, 1) = 10 => ByMarker(h, b) = DecodeSArray(h, b)
         /\ ByteAt(b, 1) = 11 => ByMarker(h, b) = Decoded(11, Scalar("number", Slice(b, 4, 8)))
         /\ ByteAt(b, 1) = 12 => ByMarker(h, b) = DecodeString(b, 4)
         /\ ByteAt(b, 1) = 15 => ByMarker(h, b) = DecodeString(b, 2)
         /\ ByteAt(b, 1) = 16 => ByMarker(h, b) = DecodeTyped(h, b)
         /\ ByteAt(b, 1) \notin {0, 1, 2, 3, 5, 6, 7, 8, 10, 11, 12, 15, 16} => ByMarker(h, b) = Throws
<1>. DEFINE m == ByteAt(b, 1)
<1>1. ASSUME m = 0 PROVE ByMarker(h, b) = Decoded(9, Scalar("number", Slice(b, 2, 8)))
  BY <1>1 DEF ByMarker
<1>2. ASSUME m = 1 PROVE ByMarker(h, b) = Decoded(2, Scalar("bool", <<IF ByteAt(b, 2) # 0 THEN 1 ELSE 0>>))
  BY <1>2 DEF ByMarker
<1>3. ASSUME m = 2 PROVE ByMarker(h, b) = DecodeString(b, 2)
  BY <1>3 DEF ByMarker
<1>4. ASSUME m = 3 PROVE ByMarker(h, b) = DecodeObject(h, b)
  BY <1>4 DEF ByMarker
<1>5. ASSUME m = 5 PROVE ByMarker(h, b) = Decoded(1, Null)
  BY <1>5 DEF ByMarker
<1>6. ASSUME m = 6 PROVE ByMarker(h, b) = Decoded(1, Undefined)
  BY <1>6 DEF ByMarker
<1>7. ASSUME m = 7 PROVE ByMarker(h, b) = Decoded(3, Scalar("string", <<114, 101, 102, 48 + ByteAt(b, 3)>>))
  BY <1>7 DEF ByMarker
<1>8. ASSUME m = 8 PROVE ByMarker(h, b) = DecodeArray(h, b)
  BY <1>8 DEF ByMarker
<1>9. ASSUME m = 10 PROVE ByMarker(h, b) = DecodeSArray(h, b)
  BY <1>9 DEF ByMarker
<1>10. ASSUME m = 11 PROVE ByMarker(h, b) = Decoded(11, Scalar("number", Slice(b, 4, 8)))
  BY <1>10 DEF ByMarker
<1>11. ASSUME m = 12 PROVE ByMarker(h, b) = DecodeString(b, 4)
  BY <1>11 DEF ByMarker
<1>12. ASSUME m = 15 PROVE ByMarker(h, b) = DecodeString(b, 2)
  BY <1>12 DEF ByMarker
<1>13. ASSUME m = 16 PROVE ByMarker(h, b) = DecodeTyped(h, b)
  BY <1>13 DEF ByMarker
<1>14. ASSUME m \notin {0, 1, 2, 3, 5, 6, 7, 8, 10, 11, 12, 15, 16} PROVE ByMarker(h, b) = Throws
  BY <1>14 DEF ByMarker
<1>. QED
  BY <1>1, <1>2, <1>3, <1>4, <1>5, <1>6, <1>7, <1>8, <1>9, <1>10, <1>11, <1>12, <1>13, <1>14

\* Whatever the marker, the decoder calls on fewer bytes only.
LEMMA ByMarkerAgrees ==
  ASSUME NEW f, NEW g, NEW b \in Seq(Byte), Below(f, g, 256 * Len(b))
  PROVE  Same(ByMarker(f, b), ByMarker(g, b))
<1>1. Len(b) \in Nat /\ 256 * Len(b) \in Nat
  BY LenProperties
<1>2. ByteAt(b, 1) # 0 => Len(b) # 0
  BY <1>1 DEF ByteAt
<1>3. \A m \in Nat : \A v : Same(Decoded(m, v), Decoded(m, v))
  BY DecodedSame
<1>4. \A w \in Nat : Same(DecodeString(b, w), DecodeString(b, w))
  BY StringType DEF Same
<1>5. Same(Throws, Throws)
  BY <1>3 DEF Throws
<1>6. CASE ByteAt(b, 1) = 3
  <2>1. From(b, 2) \in Seq(Byte) /\ Len(From(b, 2)) \in Nat /\ Len(From(b, 2)) < Len(b)
    BY <1>2, <1>6, FromShorter, 2 \in Nat \ {0} /\ 2 # 1 /\ 3 # 0
  <2>2. 256 * Len(From(b, 2)) < 256 * Len(b)
    BY <1>1, <2>1
  <2>3. Same(DecodeObject(f, b), DecodeObject(g, b))
    BY <1>1, <2>2, ObjectAgrees
  <2>. QED
    BY <1>6, <2>3, MarkerIs
<1>7. CASE ByteAt(b, 1) = 8
  <2>1. Same(DecodeArray(f, b), DecodeArray(g, b))
    BY <1>2, <1>7, ArrayAgrees
  <2>. QED
    BY <1>7, <2>1, MarkerIs
<1>8. CASE ByteAt(b, 1) = 10
  <2>1. Same(DecodeSArray(f, b), DecodeSArray(g, b))
    BY <1>2, <1>8, SArrayAgrees
  <2>. QED
    BY <1>8, <2>1, MarkerIs
<1>9. CASE ByteAt(b, 1) = 16
  <2>1. Same(DecodeTyped(f, b), DecodeTyped(g, b))
    BY <1>2, <1>9, TypedAgrees
  <2>. QED
    BY <1>9, <2>1, MarkerIs
<1>10. CASE ByteAt(b, 1) \notin {3, 8, 10, 16}
  <2>1. ByMarker(f, b) = ByMarker(g, b)
    BY <1>10 DEF ByMarker
  <2>2. CASE ByteAt(b, 1) \in {2, 12, 15}
    <3>1. ByMarker(f, b) = DecodeString(b, 2) \/ ByMarker(f, b) = DecodeString(b, 4)
      <4>1. ASSUME ByteAt(b, 1) = 2 PROVE ByMarker(f, b) = DecodeString(b, 2)
        BY <4>1, MarkerIs, Zenon
      <4>2. ASSUME ByteAt(b, 1) = 12 PROVE ByMarker(f, b) = DecodeString(b, 4)
        BY <4>2, MarkerIs, Zenon
      <4>3. ASSUME ByteAt(b, 1) = 15 PROVE ByMarker(f, b) = DecodeString(b, 2)
        BY <4>3, MarkerIs, Zenon
      <4>. QED
        BY <2>2, <4>1, <4>2, <4>3
    <3>2. Same(DecodeString(b, 2), DecodeString(b, 2)) /\ Same(DecodeString(b, 4), DecodeString(b, 4))
      BY <1>4
    <3>. QED
      BY <2>1, <3>1, <3>2, Zenon
  <2>3. CASE ByteAt(b, 1) \in {0, 1, 5, 6, 7, 11}
    <3>1. PICK m, v : m \in Nat /\ ByMarker(f, b) = Decoded(m, v)
      <4>1. ASSUME ByteAt(b, 1) = 0 PROVE \E v : ByMarker(f, b) = Decoded(9, v)
        BY <4>1, MarkerIs, Zenon
      <4>2. ASSUME ByteAt(b, 1) = 1 PROVE \E v : ByMarker(f, b) = Decoded(2, v)
        BY <4>2, MarkerIs, Zenon
      <4>3. ASSUME ByteAt(b, 1) = 5 PROVE \E v : ByMarker(f, b) = Decoded(1, v)
        BY <4>3, MarkerIs, Zenon
      <4>4. ASSUME ByteAt(b, 1) = 6 PROVE \E v : ByMarker(f, b) = Decoded(1, v)
        BY <4>4, MarkerIs, Zenon
      <4>5. ASSUME ByteAt(b, 1) = 7 PROVE \E v : ByMarker(f, b) = Decoded(3, v)
        BY <4>5, MarkerIs, Zenon
      <4>6. ASSUME ByteAt(b, 1) = 11 PROVE \E v : ByMarker(f, b) = Decoded(11, v)
        BY <4>6, MarkerIs, Zenon
      <4>. QED
        BY <2>3, <4>1, <4>2, <4>3, <4>4, <4>5, <4>6
    <3>. QED
      BY <1>3, <2>1, <3>1
  <2>4. CASE ByteAt(b, 1) \notin {0, 1, 2, 3, 5, 6, 7, 8, 10, 11, 12, 15, 16}
    <3>1. ByMarker(f, b) = Throws
      BY <2>4, MarkerIs
    <3>. QED
      BY <1>5, <2>1, <3>1, Zenon
  <2>. QED
    BY <1>10, <2>2, <2>3, <2>4
<1>. QED
  BY <1>6, <1>7, <1>8, <1>9, <1>10

\* Decode is what its definition says, and the lengths it gives are naturals.
LEMMA DecodeDef ==
  \A c \in Calls : Decode[c] = DecodeBody(Decode, c) /\ Decode[c].len \in Nat
<1>1. \A c \in Calls : Size(c) \in Nat
  <2>. SUFFICES ASSUME NEW c \in Calls PROVE Size(c) \in Nat
    OBVIOUS
  <2>1. c[2] \in Seq(Byte) /\ c[3] \in Byte
    BY DEF Calls
  <2>2. PICK l \in Nat, n \in Nat : l = Len(c[2]) /\ n = c[3]
    <3>1. Len(c[2]) \in Nat
      BY <2>1, LenProperties
    <3>2. c[3] \in Nat
      <4>1. PICK k \in Byte : k = c[3]
        BY <2>1
      <4>. QED
        BY <4>1 DEF Byte
    <3>. QED
      BY <3>1, <3>2
  <2>. QED
    BY <2>2 DEF Size
<1>2. \A n : Chain("Decode", n) = {c \in Calls : Size(c) < n}
  BY DEF Chain
<1>3. Grows("Decode")
  BY <1>1, <1>2 DEF Grows
<1>4. All("Decode") = Calls
  <2>1. ASSUME NEW c \in Calls PROVE c \in All("Decode")
    <3>1. Size(c) + 1 \in Nat /\ Size(c) < Size(c) + 1
      BY <1>1
    <3>2. c \in Chain("Decode", Size(c) + 1)
      BY <1>2, <3>1
    <3>. QED
      BY <3>1, <3>2 DEF All
  <2>2. ASSUME NEW c \in All("Decode") PROVE c \in Calls
    <3>1. PICK n \in Nat : c \in Chain("Decode", n)
      BY DEF All
    <3>. QED
      BY <1>2, <3>1
  <2>. QED
    BY <2>1, <2>2
<1>5. \A f, c : Body("Decode", f, c) = DecodeBody(f, c)
  BY DEF Body
<1>6. ASSUME NEW n \in Nat, NEW f, NEW g, Agree("Decode", n, f, g), NEW c \in Chain("Decode", n + 1)
      PROVE  Same(DecodeBody(f, c), DecodeBody(g, c))
  <2>1. c \in Calls /\ Size(c) \in Nat /\ Size(c) <= n
    BY <1>1, <1>2, n + 1 \in Nat
  <2>2. c[1] \in {"one", "members", "items"} /\ c[2] \in Seq(Byte) /\ c[3] \in Byte /\ Len(c[2]) \in Nat
    <3>1. c[1] \in {"one", "members", "items"} /\ c[2] \in Seq(Byte) /\ c[3] \in Byte
      BY <2>1 DEF Calls
    <3>. QED
      BY <3>1, LenProperties
  <2>3. Below(f, g, n)
    BY <1>2, <1>6 DEF Agree, Below, Ok
  <2>4. Below(f, g, 256 * Len(c[2]) + c[3]) /\ Below(f, g, 256 * Len(c[2]))
    <3>1. PICK s \in Nat : s = Size(c) /\ s <= n
      BY <2>1
    <3>2. Below(f, g, s)
      BY <1>1, <2>3, <3>1 DEF Below
    <3>3. PICK l \in Nat : l = 256 * Len(c[2]) /\ l <= s
      <4>1. PICK m \in Nat, k \in Nat : m = Len(c[2]) /\ k = c[3]
        <5>1. PICK k \in Byte : k = c[3]
          BY <2>2
        <5>2. k \in Nat
          BY DEF Byte
        <5>. QED
          BY <2>2, <5>1, <5>2
      <4>2. s = 256 * m + k
        BY <3>1, <4>1 DEF Size
      <4>3. 256 * m \in Nat /\ 256 * m <= s
        BY <4>2
      <4>. QED
        BY <4>1, <4>3
    <3>4. Below(f, g, l)
      BY <1>1, <3>2, <3>3 DEF Below
    <3>5. s = 256 * Len(c[2]) + c[3]
      BY <3>1 DEF Size
    <3>. QED
      BY <3>2, <3>3, <3>4, <3>5, Zenon
  <2>5. CASE c[1] = "one"
    <3>1. Same(ByMarker(f, c[2]), ByMarker(g, c[2]))
      BY <2>2, <2>4, ByMarkerAgrees
    <3>. QED
      BY <2>5, <3>1 DEF DecodeBody
  <2>6. CASE c[1] = "members"
    <3>1. Same(DecodeMembers(f, c[2]), DecodeMembers(g, c[2]))
      BY <2>2, <2>4, MembersAgree
    <3>. QED
      BY <2>6, <3>1 DEF DecodeBody
  <2>7. CASE c[1] = "items"
    <3>1. Same(DecodeItems(f, c[2], c[3]), DecodeItems(g, c[2], c[3]))
      BY <2>2, <2>4, ItemsAgree
    <3>. QED
      BY <2>7, <3>1 DEF DecodeBody
  <2>. QED
    BY <2>2, <2>5, <2>6, <2>7
<1>7. WellDefined("Decode")
  <2>. SUFFICES ASSUME NEW n \in Nat, NEW f, NEW g, Agree("Decode", n, f, g), NEW c \in Chain("Decode", n + 1)
                PROVE  Body("Decode", f, c) = Body("Decode", g, c) /\ Ok("Decode", Body("Decode", f, c))
    BY DEF WellDefined
  <2>1. Same(DecodeBody(f, c), DecodeBody(g, c))
    BY <1>6
  <2>. QED
    BY <1>5, <2>1 DEF Same, Ok
<1>. DEFINE G(f) == [c \in Calls |-> DecodeBody(f, c)]
<1>8. \E f : f = G(f) /\ \A c \in Calls : f[c].len \in Nat
  <2>1. PICK f : IsDef("Decode", f) /\ \A c \in Calls : Ok("Decode", f[c])
    BY <1>3, <1>4, <1>7, Recursion
  <2>2. \A c \in Calls : Body("Decode", f, c) = DecodeBody(f, c)
    BY <1>5
  <2>3. f = G(f)
    BY <1>4, <2>1, <2>2, Zenon DEF IsDef
  <2>. QED
    BY <2>1, <2>3 DEF Ok
<1>9. Decode = (CHOOSE f : f = G(f))
  BY Zenon DEF Decode, DecodeBody
<1>10. Decode = G(Decode)
  <2>. HIDE DEF G
  <2>. QED
    BY <1>8, <1>9, Zenon
<1>. DEFINE T == {n \in Nat : \A c \in Calls : Size(c) < n => Decode[c].len \in Nat}
<1>11. 0 \in T
  BY <1>1
<1>12. ASSUME NEW n \in Nat, n \in T PROVE n + 1 \in T
  <2>1. Agree("Decode", n, Decode, Decode)
    BY <1>2, <1>12 DEF Agree, Ok
  <2>2. ASSUME NEW c \in Calls, Size(c) < n + 1 PROVE Decode[c].len \in Nat
    <3>1. c \in Chain("Decode", n + 1)
      BY <1>2, <2>2
    <3>2. DecodeBody(Decode, c).len \in Nat
      BY <1>6, <2>1, <3>1 DEF Same
    <3>. QED
      BY <1>10, <3>2
  <2>. QED
    BY <2>2
<1>. HIDE DEF T, G
<1>13. \A n \in Nat : n \in T
  BY <1>11, <1>12, Induction
<1>14. ASSUME NEW c \in Calls PROVE Decode[c].len \in Nat
  <2>1. Size(c) + 1 \in Nat /\ Size(c) < Size(c) + 1
    BY <1>1
  <2>2. Size(c) + 1 \in T
    BY <1>13, <2>1
  <2>. QED
    BY <2>1, <2>2 DEF T
<1>. QED
  BY <1>10, <1>14, Zenon DEF G

-----------------------------------------------------------------------------
(* Sequences of bytes, put together and taken apart.                       *)

\* FlattenSeq joins from the left.
LEMMA FlattenIs ==
  ASSUME NEW S, NEW ss \in Seq(Seq(S)), Len(ss) # 0
  PROVE  \E f : /\ \A i \in 1..Len(ss) : f[i] = IF i = 1 THEN ss[i] ELSE f[i - 1] \o ss[i]
                /\ FlattenSeq(ss) = f[Len(ss)]
<1>. DEFINE G(k, f) == [i \in 1..k |-> IF i = 1 THEN ss[i] ELSE f[i - 1] \o ss[i]]
            T == {k \in Nat : \E f : f = G(k, f)}
            H(f) == G(Len(ss), f)
<1>1. 0 \in T
  <2>1. <<>> = G(0, <<>>)
    OBVIOUS
  <2>. QED
    BY <2>1
<1>2. ASSUME NEW k \in Nat, k \in T PROVE k + 1 \in T
  <2>1. PICK f : f = G(k, f)
    BY <1>2
  <2>. DEFINE g == G(k + 1, f)
  <2>2. ASSUME NEW i \in 1..k PROVE f[i] = g[i]
    <3>1. G(k, f)[i] = g[i]
      OBVIOUS
    <3>. QED
      BY <2>1, <3>1, Zenon
  <2>3. g = G(k + 1, g)
    <3>1. \A i \in 1..(k + 1) : i # 1 => i - 1 \in 1..k
      OBVIOUS
    <3>2. g = [i \in 1..(k + 1) |-> g[i]]
      OBVIOUS
    <3>3. \A i \in 1..(k + 1) : g[i] = IF i = 1 THEN ss[i] ELSE f[i - 1] \o ss[i]
      BY Zenon
    <3>. HIDE DEF g
    <3>4. \A i \in 1..(k + 1) : g[i] = IF i = 1 THEN ss[i] ELSE g[i - 1] \o ss[i]
      BY <2>2, <3>1, <3>3, Zenon
    <3>. QED
      BY <3>2, <3>4
  <2>. HIDE DEF g, G
  <2>4. k + 1 \in Nat
    OBVIOUS
  <2>. QED
    BY <2>3, <2>4, Zenon
<1>. HIDE DEF T
<1>3. \A k \in Nat : k \in T
  BY <1>1, <1>2, Induction
<1>4. Len(ss) \in T
  BY <1>3, LenProperties
<1>5. \E f : f = H(f)
  BY <1>4 DEF T
<1>. DEFINE f == CHOOSE f : f = H(f)
<1>6. f = H(f)
  <2>. HIDE DEF H
  <2>. QED
    BY <1>5, Zenon
<1>7. FlattenSeq(ss) = f[Len(ss)]
  BY Zenon DEF FlattenSeq
<1>. HIDE DEF f
<1>8. \A i \in 1..Len(ss) : f[i] = IF i = 1 THEN ss[i] ELSE f[i - 1] \o ss[i]
  BY <1>6, Zenon
<1>. QED
  BY <1>7, <1>8

\* The elements of the joined sequence are those of its parts.
LEMMA FlattenType ==
  ASSUME NEW S, NEW ss \in Seq(Seq(S))
  PROVE  FlattenSeq(ss) \in Seq(S)
<1>1. Len(ss) \in Nat /\ \A i \in 1..Len(ss) : ss[i] \in Seq(S)
  BY LenProperties, ElementOfSeq
<1>2. CASE Len(ss) = 0
  <2>1. FlattenSeq(ss) = ss
    BY <1>2 DEF FlattenSeq
  <2>2. ss = <<>>
    BY <1>2, EmptySeq
  <2>. QED
    BY <2>1, <2>2, EmptySeq
<1>3. CASE Len(ss) # 0
  <2>1. PICK f : /\ \A i \in 1..Len(ss) : f[i] = IF i = 1 THEN ss[i] ELSE f[i - 1] \o ss[i]
                 /\ FlattenSeq(ss) = f[Len(ss)]
    BY <1>3, FlattenIs
  <2>. DEFINE T == {k \in Nat : k + 1 <= Len(ss) => f[k + 1] \in Seq(S)}
  <2>2. 0 \in T
    BY <1>1, <1>3, <2>1
  <2>3. ASSUME NEW k \in Nat, k \in T PROVE k + 1 \in T
    <3>. SUFFICES ASSUME (k + 1) + 1 <= Len(ss) PROVE f[(k + 1) + 1] \in Seq(S)
      OBVIOUS
    <3>1. (k + 1) + 1 \in 1..Len(ss) /\ (k + 1) + 1 # 1 /\ ((k + 1) + 1) - 1 = k + 1
      BY <1>1
    <3>2. f[(k + 1) + 1] = f[k + 1] \o ss[(k + 1) + 1]
      BY <2>1, <3>1
    <3>3. f[k + 1] \in Seq(S) /\ ss[(k + 1) + 1] \in Seq(S)
      BY <1>1, <2>3, <3>1
    <3>. QED
      BY <3>2, <3>3, ConcatProperties
  <2>. HIDE DEF T
  <2>4. \A k \in Nat : k \in T
    BY <2>2, <2>3, Induction
  <2>5. Len(ss) - 1 \in T
    BY <1>1, <1>3, <2>4
  <2>6. f[(Len(ss) - 1) + 1] \in Seq(S)
    BY <1>1, <2>5 DEF T
  <2>7. (Len(ss) - 1) + 1 = Len(ss)
    BY <1>1
  <2>. QED
    BY <2>1, <2>6, <2>7
<1>. QED
  BY <1>2, <1>3

\* Nothing joined is nothing.
LEMMA FlattenEmpty == FlattenSeq(<<>>) = <<>>
<1>1. Len(<<>>) = 0
  BY EmptySeq
<1>. QED
  BY <1>1 DEF FlattenSeq

\* The first part, and the others joined.
LEMMA FlattenFirst ==
  ASSUME NEW S, NEW ss \in Seq(Seq(S)), Len(ss) # 0
  PROVE  FlattenSeq(ss) = ss[1] \o FlattenSeq(From(ss, 2))
<1>. DEFINE t == From(ss, 2)
<1>1. Len(ss) \in Nat \ {0} /\ \A i \in 1..Len(ss) : ss[i] \in Seq(S)
  BY LenProperties, ElementOfSeq
<1>2. 2 \in Nat \ {0}
  OBVIOUS
<1>3. /\ t \in Seq(Seq(S)) /\ Len(t) = IF 2 <= Len(ss) THEN Len(ss) - 2 + 1 ELSE 0
      /\ \A j \in 1..(Len(ss) - 2 + 1) : t[j] = ss[2 + j - 1]
  BY <1>2, FromIs
<1>4. PICK f : /\ \A i \in 1..Len(ss) : f[i] = IF i = 1 THEN ss[i] ELSE f[i - 1] \o ss[i]
               /\ FlattenSeq(ss) = f[Len(ss)]
  BY FlattenIs
<1>7. \A x, y, z \in Seq(S) : (x \o y) \o z = x \o (y \o z)
  BY ConcatAssociative
<1>. HIDE DEF t
<1>5. CASE Len(ss) = 1
  <2>1. t = <<>>
    BY <1>3, <1>5, EmptySeq
  <2>2. FlattenSeq(ss) = ss[1]
    BY <1>4, <1>5
  <2>3. ss[1] \o <<>> = ss[1]
    BY <1>1, ConcatEmptySeq
  <2>. QED
    BY <2>1, <2>2, <2>3, FlattenEmpty DEF t
<1>6. CASE Len(ss) # 1
  <2>1. Len(t) = Len(ss) - 1 /\ Len(t) # 0 /\ Len(t) \in Nat
    <3>1. Len(t) = IF 2 <= Len(ss) THEN Len(ss) - 2 + 1 ELSE 0
      BY <1>3
    <3>2. PICK n \in Nat : n = Len(ss) /\ n # 0 /\ n # 1
      BY <1>1, <1>6
    <3>3. 2 <= n /\ n - 2 + 1 = n - 1 /\ n - 1 # 0 /\ n - 1 \in Nat
      BY <3>2
    <3>. QED
      BY <3>1, <3>2, <3>3, Zenon
  <2>2. \A j \in 1..Len(t) : t[j] = ss[j + 1] /\ t[j] \in Seq(S)
    <3>1. \A j \in 1..Len(t) : j \in 1..(Len(ss) - 2 + 1) /\ 2 + j - 1 = j + 1 /\ j + 1 \in 1..Len(ss)
      BY <1>1, <2>1
    <3>. QED
      BY <1>1, <1>3, <3>1
  <2>3. PICK g : /\ \A i \in 1..Len(t) : g[i] = IF i = 1 THEN t[i] ELSE g[i - 1] \o t[i]
                 /\ FlattenSeq(t) = g[Len(t)]
    BY <1>3, <2>1, FlattenIs
  <2>. DEFINE R(k) == g[k] \in Seq(S) /\ f[k + 1] = ss[1] \o g[k]
              T == {k \in Nat : k \in 1..Len(t) => R(k)}
  <2>4. R(1)
    <3>1. 1 \in 1..Len(t) /\ 2 \in 1..Len(ss) /\ 1 \in 1..Len(ss) /\ 2 # 1 /\ 2 - 1 = 1 /\ 1 + 1 = 2
      BY <1>1, <2>1
    <3>2. g[1] = t[1] /\ t[1] = ss[2] /\ t[1] \in Seq(S)
      BY <2>2, <2>3, <3>1
    <3>3. f[2] = f[1] \o ss[2] /\ f[1] = ss[1]
      BY <1>4, <3>1
    <3>. QED
      BY <3>1, <3>2, <3>3
  <2>5. ASSUME NEW k \in 1..Len(t), R(k), k + 1 \in 1..Len(t) PROVE R(k + 1)
    <3>. DEFINE i == k + 1
    <3>1. i + 1 \in 1..Len(ss) /\ i # 1 /\ i + 1 # 1 /\ i - 1 = k /\ (i + 1) - 1 = i /\ i \in 1..Len(t)
      BY <2>1, <2>5
    <3>2. g[k] \in Seq(S) /\ f[i] = ss[1] \o g[k]
      BY <2>5
    <3>. HIDE DEF i
    <3>3. g[i] = g[k] \o t[i] /\ t[i] = ss[i + 1] /\ t[i] \in Seq(S)
      BY <2>2, <2>3, <3>1
    <3>4. f[i + 1] = f[i] \o ss[i + 1]
      BY <1>4, <3>1
    <3>5. g[k] \o t[i] \in Seq(S)
      BY <3>2, <3>3, ConcatProperties
    <3>6. (ss[1] \o g[k]) \o t[i] = ss[1] \o (g[k] \o t[i])
      <4>1. 1 \in 1..Len(ss)
        BY <1>1
      <4>2. ss[1] \in Seq(S)
        BY <1>1, <4>1, Zenon
      <4>3. g[k] \in Seq(S) /\ t[i] \in Seq(S)
        BY <3>2, <3>3
      <4>. QED
        BY <1>7, <4>2, <4>3, Zenon
    <3>7. g[i] \in Seq(S) /\ f[i + 1] = ss[1] \o g[i]
      BY <3>2, <3>3, <3>4, <3>5, <3>6
    <3>. QED
      BY <3>7 DEF i
  <2>. HIDE DEF R
  <2>6. 0 \in T
    BY <2>1
  <2>7. ASSUME NEW k \in Nat, k \in T PROVE k + 1 \in T
    <3>1. CASE k = 0
      BY <2>4, <3>1
    <3>2. CASE k # 0
      BY <2>1, <2>5, <2>7, <3>2
    <3>. QED
      BY <3>1, <3>2
  <2>. HIDE DEF T
  <2>8. \A k \in Nat : k \in T
    BY <2>6, <2>7, Induction
  <2>9. R(Len(t))
    BY <2>1, <2>8 DEF T
  <2>10. Len(t) + 1 = Len(ss)
    BY <1>1, <2>1
  <2>11. f[Len(t) + 1] = ss[1] \o g[Len(t)]
    BY <2>9 DEF R
  <2>. QED
    BY <1>4, <2>3, <2>10, <2>11 DEF t
<1>. QED
  BY <1>5, <1>6

\* A rest of a rest is a rest.
LEMMA FromFrom ==
  ASSUME NEW S, NEW s \in Seq(S), NEW i \in Nat \ {0}, NEW j \in Nat \ {0}
  PROVE  From(From(s, i), j) = From(s, i + j - 1)
<1>. DEFINE t == From(s, i)
            k == i + j - 1
<1>1. Len(s) \in Nat /\ k \in Nat \ {0}
  BY LenProperties
<1>2. /\ t \in Seq(S) /\ Len(t) = IF i <= Len(s) THEN Len(s) - i + 1 ELSE 0
      /\ \A n \in 1..(Len(s) - i + 1) : t[n] = s[i + n - 1]
  BY FromIs
<1>. HIDE DEF t, k
<1>3. /\ From(t, j) \in Seq(S) /\ Len(From(t, j)) = IF j <= Len(t) THEN Len(t) - j + 1 ELSE 0
      /\ \A n \in 1..(Len(t) - j + 1) : From(t, j)[n] = t[j + n - 1]
  BY <1>2, FromIs
<1>4. /\ From(s, k) \in Seq(S) /\ Len(From(s, k)) = IF k <= Len(s) THEN Len(s) - k + 1 ELSE 0
      /\ \A n \in 1..(Len(s) - k + 1) : From(s, k)[n] = s[k + n - 1]
  BY <1>1, FromIs
<1>5. Len(From(t, j)) = Len(From(s, k))
  BY <1>1, <1>2, <1>3, <1>4 DEF k
<1>6. ASSUME NEW n \in 1..Len(From(t, j)) PROVE From(t, j)[n] = From(s, k)[n]
  <2>1. /\ n \in 1..(Len(t) - j + 1) /\ n \in 1..(Len(s) - k + 1) /\ j + n - 1 \in 1..(Len(s) - i + 1)
        /\ i + (j + n - 1) - 1 = k + n - 1
    BY <1>1, <1>2, <1>3 DEF k
  <2>. QED
    BY <1>2, <1>3, <1>4, <2>1
<1>7. From(t, j) = From(s, k)
  BY <1>3, <1>4, <1>5, <1>6, SeqEqual
<1>. QED
  BY <1>7 DEF t, k

\* The same from any part on.
LEMMA FlattenFrom ==
  ASSUME NEW S, NEW ss \in Seq(Seq(S)), NEW i \in 1..Len(ss)
  PROVE  FlattenSeq(From(ss, i)) = ss[i] \o FlattenSeq(From(ss, i + 1))
<1>1. Len(ss) \in Nat
  BY LenProperties
<1>2. i \in Nat \ {0} /\ 2 \in Nat \ {0} /\ i + 2 - 1 = i + 1 /\ i <= Len(ss) /\ i + 1 - 1 = i
  BY <1>1
<1>3. /\ From(ss, i) \in Seq(Seq(S)) /\ Len(From(ss, i)) = Len(ss) - i + 1
      /\ \A j \in 1..(Len(ss) - i + 1) : From(ss, i)[j] = ss[i + j - 1]
  BY <1>2, FromIs
<1>4. Len(From(ss, i)) # 0 /\ 1 \in 1..(Len(ss) - i + 1)
  BY <1>1, <1>3
<1>5. From(ss, i)[1] = ss[i]
  BY <1>2, <1>3, <1>4
<1>6. From(From(ss, i), 2) = From(ss, i + 1)
  BY <1>2, FromFrom
<1>. QED
  BY <1>3, <1>4, <1>5, <1>6, FlattenFirst

\* Past the end nothing is left.
LEMMA FromEmpty ==
  ASSUME NEW S, NEW s \in Seq(S), NEW i \in Nat \ {0}, i > Len(s)
  PROVE  From(s, i) = <<>>
<1>1. Len(s) \in Nat /\ From(s, i) \in Seq(S) /\ Len(From(s, i)) = IF i <= Len(s) THEN Len(s) - i + 1 ELSE 0
  BY FromIs, LenProperties
<1>. QED
  BY <1>1, EmptySeq

\* From the first on, all is left.
LEMMA FromOne ==
  ASSUME NEW S, NEW s \in Seq(S)
  PROVE  From(s, 1) = s
BY SubSeqFull DEF From

\* What From returns for an index up to the one after the last.
LEMMA FromLen ==
  ASSUME NEW S, NEW s \in Seq(S), NEW i \in 1..(Len(s) + 1)
  PROVE  /\ From(s, i) \in Seq(S) /\ Len(From(s, i)) = Len(s) - i + 1
         /\ \A j \in 1..(Len(s) - i + 1) : From(s, i)[j] = s[i + j - 1]
<1>1. PICK n \in Nat : n = Len(s)
  BY LenProperties
<1>2. i \in Nat \ {0} /\ (IF i <= n THEN n - i + 1 ELSE 0) = n - i + 1
  BY <1>1
<1>3. /\ From(s, i) \in Seq(S) /\ Len(From(s, i)) = IF i <= Len(s) THEN Len(s) - i + 1 ELSE 0
      /\ \A j \in 1..(Len(s) - i + 1) : From(s, i)[j] = s[i + j - 1]
  BY <1>2, FromIs
<1>. QED
  BY <1>1, <1>2, <1>3, Zenon

\* What \o returns.
LEMMA ConcatLen ==
  ASSUME NEW S, NEW s \in Seq(S), NEW t \in Seq(S), NEW m \in Nat, m = Len(s), NEW n \in Nat, n = Len(t)
  PROVE  /\ s \o t \in Seq(S) /\ Len(s \o t) = m + n
         /\ \A j \in 1..(m + n) : (s \o t)[j] = IF j <= m THEN s[j] ELSE t[j - m]
BY ConcatProperties

\* The rest of a joined sequence, from within its first part on.
LEMMA FromConcatIn ==
  ASSUME NEW S, NEW s \in Seq(S), NEW t \in Seq(S), NEW i \in 1..(Len(s) + 1)
  PROVE  From(s \o t, i) = From(s, i) \o t
<1>1. PICK m \in Nat : m = Len(s)
  BY LenProperties
<1>2. PICK n \in Nat : n = Len(t)
  BY LenProperties
<1>3. PICK u \in Seq(S) : u = s \o t
  BY ConcatProperties
<1>4. PICK l \in Nat : l = m + n
  OBVIOUS
<1>5. l = Len(u) /\ \A j \in 1..l : u[j] = IF j <= m THEN s[j] ELSE t[j - m]
  BY <1>1, <1>2, <1>3, <1>4, ConcatLen
<1>6. i \in 1..(m + 1) /\ i \in 1..(l + 1) /\ i \in Nat \ {0}
  BY <1>1, <1>4
<1>7. PICK v \in Seq(S) : v = From(s, i)
  BY <1>1, <1>6, FromLen
<1>8. PICK k \in Nat : k = m - i + 1
  BY <1>6
<1>9. k = Len(v) /\ \A j \in 1..k : v[j] = s[i + j - 1]
  <2>1. Len(From(s, i)) = Len(s) - i + 1 /\ \A j \in 1..(Len(s) - i + 1) : From(s, i)[j] = s[i + j - 1]
    BY FromLen
  <2>. QED
    BY <1>1, <1>7, <1>8, <2>1, Zenon
<1>10. PICK w \in Seq(S) : w = From(u, i)
  BY <1>5, <1>6, FromLen
<1>11. Len(w) = l - i + 1 /\ \A j \in 1..(l - i + 1) : w[j] = u[i + j - 1]
  <2>1. l = Len(u) /\ i \in 1..(Len(u) + 1)
    BY <1>5, <1>6, Zenon
  <2>2. Len(From(u, i)) = Len(u) - i + 1 /\ \A j \in 1..(Len(u) - i + 1) : From(u, i)[j] = u[i + j - 1]
    BY <2>1, FromLen
  <2>. QED
    BY <1>10, <2>1, <2>2, Zenon
<1>12. l - i + 1 = k + n
  BY <1>4, <1>6, <1>8
<1>13. PICK x \in Seq(S) : x = v \o t
  BY ConcatProperties
<1>14. Len(x) = k + n /\ \A j \in 1..(k + n) : x[j] = IF j <= k THEN v[j] ELSE t[j - k]
  BY <1>2, <1>9, <1>13, ConcatLen
<1>15. ASSUME NEW j \in 1..(k + n) PROVE w[j] = x[j]
  <2>1. i + j - 1 \in 1..l
    BY <1>6, <1>12
  <2>2. w[j] = IF i + j - 1 <= m THEN s[i + j - 1] ELSE t[i + j - 1 - m]
    <3>1. w[j] = u[i + j - 1]
      BY <1>11, <1>12, Zenon
    <3>. QED
      BY <1>5, <2>1, <3>1
  <2>3. CASE j <= k
    <3>1. i + j - 1 <= m /\ j \in 1..k
      BY <1>6, <1>8, <2>3
    <3>. QED
      BY <1>9, <1>14, <2>2, <2>3, <3>1, Zenon
  <2>4. CASE ~(j <= k)
    <3>1. ~(i + j - 1 <= m) /\ i + j - 1 - m = j - k
      BY <1>6, <1>8, <2>4
    <3>. QED
      BY <1>14, <2>2, <2>4, <3>1, Zenon
  <2>. QED
    BY <2>3, <2>4
<1>16. Len(w) = Len(x) /\ \A j \in 1..Len(w) : w[j] = x[j]
  BY <1>11, <1>12, <1>14, <1>15, Zenon
<1>17. w = x
  BY <1>16, SeqEqual
<1>. QED
  BY <1>3, <1>7, <1>10, <1>13, <1>17, Zenon

\* And from the end of its first part on.
LEMMA FromConcat ==
  ASSUME NEW S, NEW s \in Seq(S), NEW t \in Seq(S)
  PROVE  From(s \o t, Len(s) + 1) = t
<1>1. Len(s) \in Nat
  BY LenProperties
<1>2. Len(s) + 1 \in 1..(Len(s) + 1) /\ Len(s) + 1 \in Nat \ {0} /\ Len(s) + 1 > Len(s)
  BY <1>1
<1>3. From(s \o t, Len(s) + 1) = From(s, Len(s) + 1) \o t
  BY <1>2, FromConcatIn
<1>4. From(s, Len(s) + 1) = <<>>
  BY <1>2, FromEmpty
<1>. QED
  BY <1>3, <1>4, ConcatEmptySeq

\* The slice of a joined sequence that is its second part.
LEMMA SliceConcat ==
  ASSUME NEW S, NEW s \in Seq(S), NEW t \in Seq(S), NEW u \in Seq(S)
  PROVE  Slice(s \o (t \o u), Len(s) + 1, Len(t)) = t
<1>1. PICK m \in Nat : m = Len(s)
  BY LenProperties
<1>2. PICK n \in Nat : n = Len(t)
  BY LenProperties
<1>3. PICK k \in Nat : k = Len(u)
  BY LenProperties
<1>4. PICK r \in Seq(S) : r = t \o u
  BY ConcatProperties
<1>5. PICK l \in Nat : l = n + k
  OBVIOUS
<1>6. l = Len(r) /\ \A j \in 1..l : r[j] = IF j <= n THEN t[j] ELSE u[j - n]
  BY <1>2, <1>3, <1>4, <1>5, ConcatLen
<1>7. PICK b \in Seq(S) : b = s \o r
  BY ConcatProperties
<1>8. Len(b) = m + l /\ \A j \in 1..(m + l) : b[j] = IF j <= m THEN s[j] ELSE r[j - m]
  BY <1>1, <1>6, <1>7, ConcatLen
<1>9. m + 1 + n - 1 = m + n /\ (~(m + n < m + l) => m + l = m + n)
  BY <1>5
<1>10. Slice(b, m + 1, n) = SubSeq(b, m + 1, m + n)
  BY <1>8, <1>9, Zenon DEF Slice
<1>11. \A j \in (m + 1)..(m + n) : b[j] \in S
  <2>1. \A j \in (m + 1)..(m + n) : j \in 1..(m + l)
    BY <1>5
  <2>2. \A j \in 1..Len(b) : b[j] \in S
    BY ElementOfSeq
  <2>. QED
    BY <1>8, <2>1, <2>2, Zenon
<1>12. m + 1 \in Int /\ m + n \in Int
  OBVIOUS
<1>13. PICK x : x = SubSeq(b, m + 1, m + n)
  OBVIOUS
<1>14. /\ x \in Seq(S)
       /\ Len(x) = IF m + 1 <= m + n THEN m + n - (m + 1) + 1 ELSE 0
       /\ \A j \in 1..(m + n - (m + 1) + 1) : x[j] = b[m + 1 + j - 1]
  BY <1>11, <1>12, <1>13, SubSeqProperties
<1>15. (IF m + 1 <= m + n THEN m + n - (m + 1) + 1 ELSE 0) = n /\ m + n - (m + 1) + 1 = n
  OBVIOUS
<1>16. ASSUME NEW j \in 1..n PROVE x[j] = t[j]
  <2>1. /\ m + 1 + j - 1 = m + j /\ m + j \in 1..(m + l)
        /\ ~(m + j <= m) /\ m + j - m = j /\ j \in 1..l /\ j <= n
    BY <1>5
  <2>2. x[j] = b[m + j]
    BY <1>14, <1>15, <2>1, Zenon
  <2>3. b[m + j] = r[j]
    BY <1>8, <2>1
  <2>4. r[j] = t[j]
    BY <1>6, <2>1, Zenon
  <2>. QED
    BY <2>2, <2>3, <2>4
<1>17. Len(x) = Len(t) /\ \A j \in 1..Len(x) : x[j] = t[j]
  BY <1>2, <1>14, <1>15, <1>16, Zenon
<1>18. x = t
  BY <1>14, <1>17, SeqEqual
<1>. QED
  BY <1>1, <1>2, <1>4, <1>7, <1>10, <1>13, <1>18, Zenon

\* A byte of the first part.
LEMMA ByteAtConcat ==
  ASSUME NEW S, NEW s \in Seq(S), NEW t \in Seq(S), NEW i \in 1..Len(s)
  PROVE  ByteAt(s \o t, i) = s[i]
<1>1. Len(s) \in Nat /\ Len(t) \in Nat
  BY LenProperties
<1>2. i \in 1..(Len(s) + Len(t)) /\ i <= Len(s) /\ i <= Len(s) + Len(t)
  BY <1>1
<1>3. (s \o t)[i] = s[i] /\ Len(s \o t) = Len(s) + Len(t)
  BY <1>2, ConcatProperties
<1>. QED
  BY <1>2, <1>3 DEF ByteAt

\* Single bytes joined, and so in the next three lemmas.
LEMMA TwoBytes ==
  ASSUME NEW a \in Byte, NEW b \in Byte
  PROVE  <<a>> \o <<b>> = <<a, b>>
<1>1. <<a>> \in Seq(Byte) /\ <<b>> \in Seq(Byte) /\ <<a, b>> \in Seq(Byte)
  OBVIOUS
<1>2. 1 = Len(<<a>>) /\ 1 = Len(<<b>>) /\ Len(<<a, b>>) = 2 /\ 1 \in Nat
  OBVIOUS
<1>3. PICK x : x = <<a>> \o <<b>>
  OBVIOUS
<1>4. x \in Seq(Byte) /\ Len(x) = 1 + 1 /\ \A j \in 1..(1 + 1) : x[j] = IF j <= 1 THEN <<a>>[j] ELSE <<b>>[j - 1]
  BY <1>1, <1>2, <1>3, ConcatLen
<1>5. x[1] = a /\ x[2] = b
  BY <1>4
<1>6. \A j \in 1..Len(x) : x[j] = <<a, b>>[j]
  BY <1>4, <1>5
<1>7. x = <<a, b>>
  BY <1>1, <1>2, <1>4, <1>6, SeqEqual
<1>. QED
  BY <1>3, <1>7

LEMMA TwoJoin ==
  ASSUME NEW a \in Byte, NEW b \in Byte, NEW c \in Byte
  PROVE  /\ <<a>> \o <<b, c>> = <<a, b, c>>
         /\ <<a, b, c>> \in Seq(Byte) /\ Len(<<a, b, c>>) = 3
<1>1. <<a>> \in Seq(Byte) /\ <<b, c>> \in Seq(Byte) /\ <<a, b, c>> \in Seq(Byte)
  OBVIOUS
<1>2. 1 = Len(<<a>>) /\ 2 = Len(<<b, c>>) /\ Len(<<a, b, c>>) = 3 /\ 1 \in Nat /\ 2 \in Nat
  OBVIOUS
<1>3. PICK x : x = <<a>> \o <<b, c>>
  OBVIOUS
<1>4. x \in Seq(Byte) /\ Len(x) = 1 + 2 /\ \A j \in 1..(1 + 2) : x[j] = IF j <= 1 THEN <<a>>[j] ELSE <<b, c>>[j - 1]
  BY <1>1, <1>2, <1>3, ConcatLen
<1>5. x[1] = a /\ x[2] = b /\ x[3] = c
  BY <1>4
<1>6. \A j \in 1..Len(x) : x[j] = <<a, b, c>>[j]
  BY <1>4, <1>5
<1>7. x = <<a, b, c>>
  BY <1>1, <1>2, <1>4, <1>6, SeqEqual
<1>. QED
  BY <1>1, <1>2, <1>3, <1>7

LEMMA JoinTwo ==
  ASSUME NEW a \in Byte, NEW b \in Byte, NEW c \in Byte
  PROVE  <<a, b>> \o <<c>> = <<a, b, c>>
<1>1. <<a>> \in Seq(Byte) /\ <<b>> \in Seq(Byte) /\ <<c>> \in Seq(Byte)
  OBVIOUS
<1>2. <<a, b>> = <<a>> \o <<b>> /\ <<b>> \o <<c>> = <<b, c>> /\ <<a>> \o <<b, c>> = <<a, b, c>>
  BY TwoBytes, TwoJoin
<1>3. (<<a>> \o <<b>>) \o <<c>> = <<a>> \o (<<b>> \o <<c>>)
  BY <1>1, ConcatAssociative
<1>. QED
  BY <1>2, <1>3, Zenon

LEMMA FourJoin ==
  ASSUME NEW a \in Byte, NEW b \in Byte, NEW c \in Byte, NEW d \in Byte, NEW e \in Byte
  PROVE  /\ <<a>> \o <<b, c, d, e>> = <<a, b, c, d, e>>
         /\ <<a, b, c, d, e>> \in Seq(Byte) /\ Len(<<a, b, c, d, e>>) = 5
<1>1. <<a>> \in Seq(Byte) /\ <<b, c, d, e>> \in Seq(Byte) /\ <<a, b, c, d, e>> \in Seq(Byte)
  OBVIOUS
<1>2. 1 = Len(<<a>>) /\ 4 = Len(<<b, c, d, e>>) /\ Len(<<a, b, c, d, e>>) = 5 /\ 1 \in Nat /\ 4 \in Nat
  OBVIOUS
<1>3. PICK x : x = <<a>> \o <<b, c, d, e>>
  OBVIOUS
<1>4. x \in Seq(Byte) /\ Len(x) = 1 + 4 /\ \A j \in 1..(1 + 4) : x[j] = IF j <= 1 THEN <<a>>[j] ELSE <<b, c, d, e>>[j - 1]
  BY <1>1, <1>2, <1>3, ConcatLen
<1>5. x[1] = a /\ x[2] = b /\ x[3] = c /\ x[4] = d /\ x[5] = e
  BY <1>4
<1>6. \A j \in 1..Len(x) : x[j] = <<a, b, c, d, e>>[j]
  BY <1>4, <1>5
<1>7. x = <<a, b, c, d, e>>
  BY <1>1, <1>2, <1>4, <1>6, SeqEqual
<1>. QED
  BY <1>1, <1>2, <1>3, <1>7

-----------------------------------------------------------------------------
(* What decodes to what.                                                   *)

\* Whatever follows bs, decoding takes just bs and gives v; and an object
\* does not take bs for its end.
Trips(bs, v) ==
  /\ bs \in Seq(Byte) /\ Len(bs) # 0 /\ bs[1] # 9
  /\ \A r \in Seq(Byte) : DecodeOne(bs \o r) = Decoded(Len(bs), v)

\* The same of the members of an object, and of the items of an array.
MembersTrip(bs, v) ==
  bs \in Seq(Byte) /\ \A r \in Seq(Byte) : Decode[<<"members", bs \o r, 0>>] = Decoded(Len(bs), v)
ItemsTrip(bs, n, v) ==
  bs \in Seq(Byte) /\ \A r \in Seq(Byte) : Decode[<<"items", bs \o r, n>>] = Decoded(Len(bs), v)

\* Each call of Decode is the decoder it names.
LEMMA CallIs ==
  ASSUME NEW b \in Seq(Byte), NEW n \in Byte
  PROVE  /\ DecodeOne(b) = ByMarker(Decode, b)
         /\ Decode[<<"one", b, 0>>] = ByMarker(Decode, b)
         /\ Decode[<<"members", b, 0>>] = DecodeMembers(Decode, b)
         /\ Decode[<<"items", b, n>>] = DecodeItems(Decode, b, n)
<1>. DEFINE c == <<"one", b, 0>>
            d == <<"members", b, 0>>
            e == <<"items", b, n>>
<1>1. 0 \in Byte
  BY DEF Byte
<1>2. c \in Calls /\ d \in Calls /\ e \in Calls
  BY <1>1 DEF Calls
<1>3. /\ c[1] = "one" /\ c[2] = b
      /\ d[1] = "members" /\ d[2] = b
      /\ e[1] = "items" /\ e[2] = b /\ e[3] = n
  OBVIOUS
<1>4. "one" # "members" /\ "one" # "items" /\ "members" # "items"
  OBVIOUS
<1>. HIDE DEF c, d, e
<1>5. Decode[c] = DecodeBody(Decode, c) /\ Decode[d] = DecodeBody(Decode, d) /\ Decode[e] = DecodeBody(Decode, e)
  BY <1>2, DecodeDef
<1>6. DecodeBody(Decode, c) = ByMarker(Decode, b)
  BY <1>3, <1>4 DEF DecodeBody
<1>7. DecodeBody(Decode, d) = DecodeMembers(Decode, b)
  BY <1>3, <1>4 DEF DecodeBody
<1>8. DecodeBody(Decode, e) = DecodeItems(Decode, b, n)
  BY <1>3, <1>4 DEF DecodeBody
<1>. QED
  BY <1>5, <1>6, <1>7, <1>8 DEF c, d, e, DecodeOne

\* The first byte chooses the rule.
LEMMA Marked ==
  ASSUME NEW bs \in Seq(Byte), Len(bs) # 0, NEW r \in Seq(Byte)
  PROVE  bs \o r \in Seq(Byte) /\ ByteAt(bs \o r, 1) = bs[1] /\ DecodeOne(bs \o r) = ByMarker(Decode, bs \o r)
<1>1. PICK b \in Seq(Byte) : b = bs \o r
  BY ConcatProperties
<1>2. Len(bs) \in Nat /\ 0 \in Byte
  BY LenProperties DEF Byte
<1>3. 1 \in 1..Len(bs)
  BY <1>2
<1>4. ByteAt(bs \o r, 1) = bs[1]
  BY <1>3, ByteAtConcat
<1>5. DecodeOne(b) = ByMarker(Decode, b)
  BY <1>2, CallIs
<1>. QED
  BY <1>1, <1>4, <1>5

\* What a decoder may know of the bytes b, when they begin with the head h
\* and then x.
Begins(b, h, x, r) ==
  /\ b \in Seq(Byte) /\ r \in Seq(Byte) /\ b = h \o (x \o r) /\ From(b, Len(h) + 1) = x \o r
  /\ Slice(b, Len(h) + 1, Len(x)) = x
  /\ \A i \in 1..Len(h) : ByteAt(b, i) = h[i]

\* What follows a head begins after it.
LEMMA AfterHead ==
  ASSUME NEW h \in Seq(Byte), NEW s \in Seq(Byte), NEW r \in Seq(Byte)
  PROVE  Begins((h \o s) \o r, h, s, r)
<1>1. PICK t \in Seq(Byte) : t = s \o r
  BY ConcatProperties
<1>2. (h \o s) \o r = h \o (s \o r)
  BY ConcatAssociative
<1>3. Slice(h \o (s \o r), Len(h) + 1, Len(s)) = s
  BY SliceConcat
<1>4. From(h \o t, Len(h) + 1) = t
  BY FromConcat
<1>5. \A i \in 1..Len(h) : ByteAt(h \o t, i) = h[i]
  BY ByteAtConcat
<1>6. h \o t \in Seq(Byte)
  BY ConcatProperties
<1>. QED
  BY <1>1, <1>2, <1>3, <1>4, <1>5, <1>6, Zenon DEF Begins

\* A value trips when its decoder does so for all that begins with it.
LEMMA HeadTrips ==
  ASSUME NEW h \in Seq(Byte), Len(h) # 0, h[1] # 9, NEW x \in Seq(Byte), NEW v,
         \A b, r : Begins(b, h, x, r) => ByMarker(Decode, b) = Decoded(Len(h) + Len(x), v)
  PROVE  Trips(h \o x, v)
<1>1. PICK bs \in Seq(Byte) : bs = h \o x
  BY ConcatProperties
<1>2. PICK m \in Nat : m = Len(h)
  BY LenProperties
<1>3. PICK n \in Nat : n = Len(x)
  BY LenProperties
<1>4. 1 \in 1..(m + n) /\ 1 <= m /\ m + n # 0
  BY <1>2
<1>5. Len(h \o x) = m + n /\ \A i \in 1..(m + n) : (h \o x)[i] = IF i <= m THEN h[i] ELSE x[i - m]
  BY <1>2, <1>3, ConcatLen
<1>6. Len(bs) = m + n /\ bs[1] = h[1]
  BY <1>1, <1>4, <1>5, Zenon
<1>7. Len(bs) # 0
  BY <1>4, <1>6, Zenon
<1>8. ASSUME NEW r \in Seq(Byte) PROVE DecodeOne(bs \o r) = Decoded(Len(bs), v)
  <2>1. PICK b \in Seq(Byte) : b = bs \o r
    BY ConcatProperties
  <2>2. Begins((h \o x) \o r, h, x, r)
    BY AfterHead
  <2>3. Begins(b, h, x, r)
    BY <1>1, <2>1, <2>2, Zenon
  <2>4. ByMarker(Decode, b) = Decoded(Len(h) + Len(x), v)
    BY <2>3, Zenon
  <2>5. DecodeOne(bs \o r) = ByMarker(Decode, bs \o r)
    BY <1>7, Marked
  <2>. QED
    BY <1>2, <1>3, <1>6, <2>1, <2>4, <2>5, Zenon
<1>. QED
  BY <1>1, <1>6, <1>7, <1>8, Zenon DEF Trips

\* The marker is the first byte of the head.
LEMMA BeginsWith ==
  ASSUME NEW b, NEW h \in Seq(Byte), NEW x, NEW r, Begins(b, h, x, r), Len(h) # 0
  PROVE  ByteAt(b, 1) = h[1]
<1>1. Len(h) \in Nat
  BY LenProperties
<1>2. 1 \in 1..Len(h)
  BY <1>1
<1>. QED
  BY <1>2 DEF Begins

\* A double is eight bytes.
LEMMA EightBytes ==
  ASSUME NEW x \in [1..8 -> Byte]
  PROVE  x \in Seq(Byte) /\ Len(x) = 8
<1>1. x \in Seq(Byte)
  BY SeqDef, 8 \in Nat
<1>2. PICK n \in Nat : n = Len(x)
  BY <1>1, LenProperties
<1>3. 1..n = 1..8
  BY <1>1, <1>2, LenProperties
<1>4. n = 8
  <2>1. n \in 1..n \/ n = 0
    OBVIOUS
  <2>2. 8 \in 1..n
    BY <1>3
  <2>. QED
    BY <1>3, <2>1, <2>2
<1>. QED
  BY <1>1, <1>2, <1>4

\* amf0decNumber reads what a peer writes for a number.
LEMMA NumberTrips ==
  ASSUME NEW x \in [1..8 -> Byte]
  PROVE  Trips(<<0>> \o x, Scalar("number", x))
<1>. DEFINE h == <<0>>
<1>1. h \in Seq(Byte) /\ Len(h) = 1 /\ h[1] = 0
  BY DEF Byte
<1>2. x \in Seq(Byte) /\ Len(x) = 8
  BY EightBytes
<1>. HIDE DEF h
<1>3. Len(h) # 0 /\ h[1] # 9 /\ Len(h) + 1 = 2 /\ Len(h) + Len(x) = 9
  BY <1>1, <1>2
<1>4. ASSUME NEW b, NEW r, Begins(b, h, x, r) PROVE ByMarker(Decode, b) = Decoded(Len(h) + Len(x), Scalar("number", x))
  <2>1. ByteAt(b, 1) = 0
    BY <1>1, <1>3, <1>4, BeginsWith
  <2>2. ByMarker(Decode, b) = Decoded(9, Scalar("number", Slice(b, 2, 8)))
    BY <2>1, MarkerIs, Zenon
  <2>3. Slice(b, 2, 8) = x
    BY <1>2, <1>3, <1>4, Zenon DEF Begins
  <2>. QED
    BY <1>3, <2>2, <2>3, Zenon
<1>5. Trips(h \o x, Scalar("number", x))
  BY <1>1, <1>2, <1>3, <1>4, HeadTrips
<1>. QED
  BY <1>5 DEF h

\* amf0decDate skips the time zone and reads the double.
LEMMA DateTrips ==
  ASSUME NEW x \in [1..8 -> Byte]
  PROVE  Trips(<<11, 0, 0>> \o x, Scalar("number", x))
<1>. DEFINE h == <<11, 0, 0>>
<1>1. h \in Seq(Byte) /\ Len(h) = 3 /\ h[1] = 11
  BY DEF Byte
<1>2. x \in Seq(Byte) /\ Len(x) = 8
  BY EightBytes
<1>. HIDE DEF h
<1>3. Len(h) # 0 /\ h[1] # 9 /\ Len(h) + 1 = 4 /\ Len(h) + Len(x) = 11
  BY <1>1, <1>2
<1>4. ASSUME NEW b, NEW r, Begins(b, h, x, r) PROVE ByMarker(Decode, b) = Decoded(Len(h) + Len(x), Scalar("number", x))
  <2>1. ByteAt(b, 1) = 11
    BY <1>1, <1>3, <1>4, BeginsWith
  <2>2. ByMarker(Decode, b) = Decoded(11, Scalar("number", Slice(b, 4, 8)))
    BY <2>1, MarkerIs, Zenon
  <2>3. Slice(b, 4, 8) = x
    BY <1>2, <1>3, <1>4, Zenon DEF Begins
  <2>. QED
    BY <1>3, <2>2, <2>3, Zenon
<1>5. Trips(h \o x, Scalar("number", x))
  BY <1>1, <1>2, <1>3, <1>4, HeadTrips
<1>. QED
  BY <1>5 DEF h

\* amf0decBool reads what a peer writes for a truth.
LEMMA BoolTrips ==
  ASSUME NEW n \in {0, 1}
  PROVE  Trips(<<1>> \o <<n>>, Scalar("bool", <<n>>))
<1>. DEFINE h == <<1, n>>
<1>1. h \in Seq(Byte) /\ Len(h) = 2 /\ h[1] = 1 /\ h[2] = n /\ 2 \in 1..2 /\ n \in Byte /\ 1 \in Byte
  BY DEF Byte
<1>2. <<>> \in Seq(Byte) /\ Len(<<>>) = 0 /\ h \o <<>> = h
  BY <1>1, EmptySeq, ConcatEmptySeq
<1>3. <<1>> \o <<n>> = h
  BY <1>1, TwoBytes
<1>. HIDE DEF h
<1>4. Len(h) # 0 /\ h[1] # 9 /\ Len(h) + 0 = 2
  BY <1>1
<1>5. ASSUME NEW b, NEW r, Begins(b, h, <<>>, r)
      PROVE  ByMarker(Decode, b) = Decoded(Len(h) + Len(<<>>), Scalar("bool", <<n>>))
  <2>1. ByteAt(b, 1) = 1
    BY <1>1, <1>4, <1>5, BeginsWith
  <2>2. ByMarker(Decode, b) = Decoded(2, Scalar("bool", <<IF ByteAt(b, 2) # 0 THEN 1 ELSE 0>>))
    BY <2>1, MarkerIs, Zenon
  <2>3. ByteAt(b, 2) = n
    BY <1>1, <1>5, Zenon DEF Begins
  <2>4. (IF n # 0 THEN 1 ELSE 0) = n
    OBVIOUS
  <2>. QED
    BY <1>2, <1>4, <2>2, <2>3, <2>4, Zenon
<1>6. Trips(h \o <<>>, Scalar("bool", <<n>>))
  BY <1>1, <1>2, <1>4, <1>5, HeadTrips
<1>. QED
  BY <1>2, <1>3, <1>6

\* A decoder that takes its marker alone.
LEMMA MarkerTrips ==
  ASSUME NEW n \in Byte, n # 9, NEW v, \A b : ByteAt(b, 1) = n => ByMarker(Decode, b) = Decoded(1, v)
  PROVE  Trips(<<n>>, v)
<1>. DEFINE h == <<n>>
<1>1. <<>> \in Seq(Byte) /\ Len(<<>>) = 0
  BY EmptySeq
<1>2. h \in Seq(Byte) /\ Len(h) = 1 /\ h[1] = n /\ h \o <<>> = h
  BY ConcatEmptySeq
<1>. HIDE DEF h
<1>3. Len(h) # 0 /\ h[1] # 9 /\ 1 # 0 /\ 1 + 0 = 1
  BY <1>2
<1>4. ASSUME NEW b, NEW r, Begins(b, h, <<>>, r)
      PROVE  ByMarker(Decode, b) = Decoded(Len(h) + Len(<<>>), v)
  <2>1. ByteAt(b, 1) = n
    BY <1>2, <1>3, <1>4, BeginsWith
  <2>2. ByMarker(Decode, b) = Decoded(1, v)
    BY <2>1
  <2>. QED
    BY <1>1, <1>2, <1>3, <2>2, Zenon
<1>5. Trips(h \o <<>>, v)
  BY <1>1, <1>2, <1>3, <1>4, HeadTrips
<1>. QED
  BY <1>2, <1>5 DEF h

\* amf0decNull and amf0decUndefined do.
LEMMA NullTrips == Trips(<<5>>, Null) /\ Trips(<<6>>, Undefined)
<1>1. 5 \in Byte /\ 6 \in Byte /\ 5 # 9 /\ 6 # 9
  BY DEF Byte
<1>2. \A b : ByteAt(b, 1) = 5 => ByMarker(Decode, b) = Decoded(1, Null)
  BY MarkerIs, Zenon
<1>3. \A b : ByteAt(b, 1) = 6 => ByMarker(Decode, b) = Decoded(1, Undefined)
  BY MarkerIs, Zenon
<1>. QED
  BY <1>1, <1>2, <1>3, MarkerTrips

\* amf0decRef makes a text of the index.
LEMMA RefTrips ==
  ASSUME NEW n \in Byte
  PROVE  Trips(<<7, 0>> \o <<n>>, Scalar("string", <<114, 101, 102, 48 + n>>))
<1>. DEFINE h == <<7, 0, n>>
            v == Scalar("string", <<114, 101, 102, 48 + n>>)
<1>1. h \in Seq(Byte) /\ Len(h) = 3 /\ h[1] = 7 /\ h[3] = n /\ 3 \in 1..3 /\ 7 \in Byte /\ 0 \in Byte
  BY DEF Byte
<1>2. <<>> \in Seq(Byte) /\ Len(<<>>) = 0 /\ h \o <<>> = h
  BY <1>1, EmptySeq, ConcatEmptySeq
<1>3. <<7, 0>> \o <<n>> = h
  BY <1>1, JoinTwo
<1>. HIDE DEF h, v
<1>4. Len(h) # 0 /\ h[1] # 9 /\ Len(h) + 0 = 3
  BY <1>1
<1>5. ASSUME NEW b, NEW r, Begins(b, h, <<>>, r) PROVE ByMarker(Decode, b) = Decoded(Len(h) + Len(<<>>), v)
  <2>1. ByteAt(b, 1) = 7
    BY <1>1, <1>4, <1>5, BeginsWith
  <2>2. ByMarker(Decode, b) = Decoded(3, Scalar("string", <<114, 101, 102, 48 + ByteAt(b, 3)>>))
    BY <2>1 DEF ByMarker
  <2>3. ByteAt(b, 3) = n
    BY <1>1, <1>5, Zenon DEF Begins
  <2>. QED
    BY <1>2, <1>4, <2>2, <2>3, Zenon DEF v
<1>6. Trips(h \o <<>>, v)
  BY <1>1, <1>2, <1>4, <1>5, HeadTrips
<1>. QED
  BY <1>2, <1>3, <1>6, Zenon DEF v

\* The length of a short sequence fits into a byte.
LEMMA ShortLen ==
  ASSUME NEW S, NEW s \in Short(S)
  PROVE  s \in Seq(S) /\ Len(s) \in Byte /\ Len(s) \in Nat
<1>1. s \in Seq(S) /\ Len(s) < 256
  BY DEF Short
<1>2. Len(s) \in Nat
  BY <1>1, LenProperties
<1>3. PICK n \in Nat : n = Len(s)
  BY <1>2
<1>4. n < 256
  BY <1>1, <1>3, Zenon
<1>5. n \in Byte
  BY <1>4 DEF Byte
<1>. QED
  BY <1>1, <1>3, <1>5, Zenon

\* amf0decString and amf0decXmlDoc read a length of two bytes and the text.
LEMMA TextTrips ==
  ASSUME NEW m \in {2, 15}, NEW s \in Short(Byte)
  PROVE  /\ Trips(<<m>> \o UString(s), Scalar("string", s))
         /\ <<m>> \o UString(s) = <<m, 0, Len(s)>> \o s
<1>1. s \in Seq(Byte) /\ Len(s) \in Byte /\ Len(s) \in Nat
  BY ShortLen
<1>2. PICK n \in Byte : n = Len(s)
  BY <1>1
<1>3. m \in Byte /\ 0 \in Byte /\ 2 \in Nat
  BY DEF Byte
<1>. DEFINE h == <<m, 0, n>>
<1>4. /\ h \in Seq(Byte) /\ Len(h) = 3 /\ h[1] = m /\ h[3] = n /\ 1 + 2 = 3 /\ m # 9 /\ 3 # 0
      /\ <<m>> \o <<0, n>> = h /\ <<m>> \in Seq(Byte) /\ <<0, n>> \in Seq(Byte)
  BY <1>3, TwoJoin
<1>. HIDE DEF h
<1>5. <<m>> \o (<<0, n>> \o s) = (<<m>> \o <<0, n>>) \o s
  BY <1>1, <1>4, ConcatAssociative
<1>6. ASSUME NEW b, NEW r, Begins(b, h, s, r) PROVE ByMarker(Decode, b) = Decoded(Len(h) + Len(s), Scalar("string", s))
  <2>1. ByteAt(b, 1) = m
    BY <1>4, <1>6, BeginsWith
  <2>2. DecodeString(b, 2) = Decoded(Len(h) + Len(s), Scalar("string", s))
    <3>1. 1 + 2 = 3 /\ 2 + 2 = 3 + 1 /\ 3 \in 1..3
      OBVIOUS
    <3>2. ByteAt(b, 1 + 2) = Len(s)
      BY <1>2, <1>4, <1>6, <3>1, Zenon DEF Begins
    <3>3. Slice(b, 2 + 2, Len(s)) = s
      BY <1>4, <1>6, <3>1, Zenon DEF Begins
    <3>. QED
      BY <1>4, <3>1, <3>2, <3>3, Zenon DEF DecodeString
  <2>3. m = 2 => ByMarker(Decode, b) = DecodeString(b, 2)
    BY <2>1, MarkerIs, Zenon
  <2>4. m = 15 => ByMarker(Decode, b) = DecodeString(b, 2)
    BY <2>1, MarkerIs, Zenon
  <2>. QED
    BY <2>2, <2>3, <2>4
<1>7. Trips(h \o s, Scalar("string", s))
  <2>1. Len(h) # 0 /\ h[1] # 9
    BY <1>4, Zenon
  <2>. QED
    BY <1>1, <1>4, <1>6, <2>1, HeadTrips
<1>8. <<m>> \o UString(s) = h \o s
  BY <1>2, <1>4, <1>5, Zenon DEF UString, U16
<1>. QED
  BY <1>2, <1>7, <1>8, Zenon DEF h

\* amf0decLongString reads a length of four bytes and the text.
LEMMA LongTrips ==
  ASSUME NEW s \in Short(Byte)
  PROVE  Trips(<<12>> \o U32(Len(s)) \o s, Scalar("string", s))
<1>1. s \in Seq(Byte) /\ Len(s) \in Byte /\ Len(s) \in Nat
  BY ShortLen
<1>2. PICK n \in Byte : n = Len(s)
  BY <1>1
<1>. DEFINE h == <<12, 0, 0, 0, n>>
<1>3. /\ h \in Seq(Byte) /\ Len(h) = 5 /\ h[1] = 12 /\ h[5] = n /\ 1 + 4 = 5 /\ 12 # 9 /\ 5 # 0 /\ 4 \in Nat
      /\ <<12>> \o <<0, 0, 0, n>> = h
  <2>1. 12 \in Byte /\ 0 \in Byte
    BY DEF Byte
  <2>. QED
    BY <2>1, FourJoin
<1>. HIDE DEF h
<1>4. ASSUME NEW b, NEW r, Begins(b, h, s, r) PROVE ByMarker(Decode, b) = Decoded(Len(h) + Len(s), Scalar("string", s))
  <2>1. ByteAt(b, 1) = 12
    BY <1>3, <1>4, BeginsWith
  <2>2. DecodeString(b, 4) = Decoded(Len(h) + Len(s), Scalar("string", s))
    <3>1. 1 + 4 = 5 /\ 2 + 4 = 5 + 1 /\ 5 \in 1..5
      OBVIOUS
    <3>2. ByteAt(b, 1 + 4) = Len(s)
      BY <1>2, <1>3, <1>4, <3>1, Zenon DEF Begins
    <3>3. Slice(b, 2 + 4, Len(s)) = s
      BY <1>3, <1>4, <3>1, Zenon DEF Begins
    <3>. QED
      BY <1>3, <3>1, <3>2, <3>3, Zenon DEF DecodeString
  <2>3. ByMarker(Decode, b) = DecodeString(b, 4)
    BY <2>1, MarkerIs, Zenon
  <2>. QED
    BY <2>2, <2>3
<1>5. Trips(h \o s, Scalar("string", s))
  <2>1. Len(h) # 0 /\ h[1] # 9
    BY <1>3, Zenon
  <2>. QED
    BY <1>1, <1>3, <1>4, <2>1, HeadTrips
<1>6. <<12>> \o U32(Len(s)) \o s = h \o s
  BY <1>2, <1>3, Zenon DEF U32
<1>. QED
  BY <1>5, <1>6

\* An object from its second byte on.
LEMMA ObjectIs ==
  ASSUME NEW b, NEW mem, NEW r \in Seq(Byte), NEW v, MembersTrip(mem, v), From(b, 2) = mem \o r
  PROVE  DecodeObject(Decode, b) = Decoded(1 + Len(mem), v)
<1>1. Decode[<<"members", From(b, 2), 0>>] = Decoded(Len(mem), v)
  BY Zenon DEF MembersTrip
<1>2. Decoded(Len(mem), v).len = Len(mem) /\ Decoded(Len(mem), v).value = v
  BY DEF Decoded
<1>. QED
  BY <1>1, <1>2, Zenon DEF DecodeObject

\* amf0decObject takes its marker and the members.
LEMMA ObjectTrips ==
  ASSUME NEW mem, NEW v, MembersTrip(mem, v)
  PROVE  Trips(<<3>> \o mem, v)
<1>. DEFINE h == <<3>>
<1>1. h \in Seq(Byte) /\ Len(h) = 1 /\ h[1] = 3
  BY DEF Byte
<1>2. mem \in Seq(Byte) /\ Len(h) # 0 /\ h[1] # 9 /\ 1 + 1 = 2
  BY <1>1 DEF MembersTrip
<1>. HIDE DEF h
<1>3. ASSUME NEW b, NEW r, Begins(b, h, mem, r) PROVE ByMarker(Decode, b) = Decoded(Len(h) + Len(mem), v)
  <2>1. ByteAt(b, 1) = 3
    BY <1>1, <1>2, <1>3, BeginsWith
  <2>2. ByMarker(Decode, b) = DecodeObject(Decode, b)
    BY <2>1, MarkerIs, Zenon
  <2>3. r \in Seq(Byte) /\ From(b, 2) = mem \o r
    BY <1>1, <1>2, <1>3, Zenon DEF Begins
  <2>4. DecodeObject(Decode, b) = Decoded(1 + Len(mem), v)
    BY <2>3, ObjectIs
  <2>. QED
    BY <1>1, <2>2, <2>4, Zenon
<1>4. Trips(h \o mem, v)
  BY <1>1, <1>2, <1>3, HeadTrips
<1>. QED
  BY <1>4 DEF h

\* amf0decTypedObj takes the class name and the members; the byte that both
\* of them count is taken off again.
LEMMA TypedTrips ==
  ASSUME NEW c \in Short(Byte), NEW mem, NEW v, MembersTrip(mem, v)
  PROVE  Trips(<<16>> \o UString(c) \o mem,
               Object(Append(v.keys, ClassName), Append(v.parts, Scalar("string", c))))
<1>. DEFINE o == Object(Append(v.keys, ClassName), Append(v.parts, Scalar("string", c)))
<1>1. c \in Seq(Byte) /\ Len(c) \in Byte
  BY ShortLen
<1>2. PICK n \in Byte : n = Len(c)
  BY <1>1
<1>. DEFINE h == <<16, 0, n>>
<1>3. /\ h \in Seq(Byte) /\ Len(h) = 3 /\ h[1] = 16 /\ h[3] = n /\ 3 \in 1..3 /\ 1 \in 1..3
      /\ <<16>> \in Seq(Byte) /\ <<0, n>> \in Seq(Byte) /\ <<16>> \o <<0, n>> = h
  <2>1. 16 \in Byte /\ 0 \in Byte
    BY DEF Byte
  <2>. QED
    BY <2>1, TwoJoin
<1>. HIDE DEF h
<1>4. PICK g \in Seq(Byte) : g = h \o c
  BY <1>1, <1>3, ConcatProperties
<1>5. <<16>> \o UString(c) = g
  <2>1. <<16>> \o (<<0, n>> \o c) = (<<16>> \o <<0, n>>) \o c
    BY <1>1, <1>3, ConcatAssociative
  <2>. QED
    BY <1>2, <1>3, <1>4, <2>1, Zenon DEF UString, U16
<1>6. Len(g) = 3 + n /\ \A i \in 1..(3 + n) : g[i] = IF i <= 3 THEN h[i] ELSE c[i - 3]
  <2>1. /\ Len(h \o c) = Len(h) + Len(c)
        /\ \A i \in 1..(Len(h) + Len(c)) : (h \o c)[i] = IF i <= Len(h) THEN h[i] ELSE c[i - Len(h)]
    <3>1. h \in Seq(Byte) /\ c \in Seq(Byte)
      BY <1>1, <1>3
    <3>. QED
      BY <3>1, ConcatProperties
  <2>. QED
    BY <1>2, <1>3, <1>4, <2>1, Zenon
<1>7. PICK k \in Nat \ {0} : k = 3 + n
  BY DEF Byte
<1>8. Len(g) = k /\ Len(g) # 0 /\ g[1] = 16 /\ g[1] # 9 /\ g[3] = n
  <2>1. 1 \in 1..(3 + n) /\ 3 \in 1..(3 + n) /\ 1 <= 3 /\ 3 <= 3 /\ k # 0 /\ 16 # 9
    BY <1>7 DEF Byte
  <2>. QED
    BY <1>3, <1>6, <1>7, <2>1, Zenon
<1>9. mem \in Seq(Byte)
  BY DEF MembersTrip
<1>. HIDE DEF o
<1>10. ASSUME NEW b, NEW r, Begins(b, g, mem, r) PROVE ByMarker(Decode, b) = Decoded(Len(g) + Len(mem), o)
  <2>1. ByteAt(b, 1) = 16
    BY <1>8, <1>10, BeginsWith
  <2>2. ByMarker(Decode, b) = DecodeTyped(Decode, b)
    BY <2>1, MarkerIs, Zenon
  <2>3. b \in Seq(Byte) /\ r \in Seq(Byte) /\ b = g \o (mem \o r) /\ From(b, k + 1) = mem \o r
    BY <1>8, <1>10, Zenon DEF Begins
  <2>4. DecodeString(b, 2) = Decoded(k, Scalar("string", c))
    <3>1. 1 + 2 = 3 /\ 2 + 2 = 3 + 1 /\ 3 \in 1..k
      BY <1>7 DEF Byte
    <3>2. ByteAt(b, 1 + 2) = n
      BY <1>8, <1>10, <3>1, Zenon DEF Begins
    <3>3. PICK t \in Seq(Byte) : t = mem \o r
      BY <1>9, <2>3, ConcatProperties
    <3>4. Begins((h \o c) \o t, h, c, t)
      BY <1>1, <1>3, <3>3, AfterHead
    <3>5. Slice(b, 2 + 2, n) = c
      BY <1>2, <1>3, <1>4, <2>3, <3>1, <3>3, <3>4, Zenon DEF Begins
    <3>. QED
      BY <1>7, <3>1, <3>2, <3>5, Zenon DEF DecodeString
  <2>5. From(From(b, k), 2) = mem \o r
    <3>1. 2 \in Nat \ {0} /\ k + 2 - 1 = k + 1
      OBVIOUS
    <3>2. From(From(b, k), 2) = From(b, k + 2 - 1)
      BY <2>3, <3>1, FromFrom
    <3>. QED
      BY <2>3, <3>1, <3>2, Zenon
  <2>6. DecodeObject(Decode, From(b, k)) = Decoded(1 + Len(mem), v)
    <3>1. PICK a : a = From(b, k)
      OBVIOUS
    <3>2. From(a, 2) = mem \o r
      BY <2>5, <3>1, Zenon
    <3>3. r \in Seq(Byte)
      BY <2>3
    <3>4. DecodeObject(Decode, a) = Decoded(1 + Len(mem), v)
      BY <3>2, <3>3, ObjectIs
    <3>. QED
      BY <3>1, <3>4, Zenon
  <2>7. /\ Decoded(k, Scalar("string", c)).len = k /\ Decoded(k, Scalar("string", c)).value = Scalar("string", c)
        /\ Decoded(1 + Len(mem), v).len = 1 + Len(mem) /\ Decoded(1 + Len(mem), v).value = v
    BY DEF Decoded
  <2>8. k + (1 + Len(mem)) - 1 = k + Len(mem)
    <3>1. PICK l \in Nat : l = Len(mem)
      BY <1>9, LenProperties
    <3>2. k + (1 + l) - 1 = k + l
      OBVIOUS
    <3>. QED
      BY <3>1, <3>2, Zenon
  <2>9. DecodeTyped(Decode, b) = Decoded(k + (1 + Len(mem)) - 1, o)
    BY <2>4, <2>6, <2>7, Zenon DEF DecodeTyped, o
  <2>. QED
    BY <1>8, <2>2, <2>8, <2>9, Zenon
<1>11. Trips(g \o mem, o)
  BY <1>8, <1>9, <1>10, HeadTrips
<1>. QED
  BY <1>5, <1>11 DEF o

\* amf0decArray gives the object, and counts a byte too many.
LEMMA ArrayIs ==
  ASSUME NEW n \in Byte, NEW mem, NEW v, MembersTrip(mem, v), NEW r \in Seq(Byte)
  PROVE  /\ <<8>> \o U32(n) \o mem \in Seq(Byte) /\ Len(<<8>> \o U32(n) \o mem) \in Nat \ {0}
         /\ DecodeOne((<<8>> \o U32(n) \o mem) \o r) = Decoded(Len(<<8>> \o U32(n) \o mem) + 1, v)
<1>. DEFINE h == <<8, 0, 0, 0, n>>
<1>1. h \in Seq(Byte) /\ Len(h) = 5 /\ h[1] = 8 /\ <<8>> \o <<0, 0, 0, n>> = h
  <2>1. 8 \in Byte /\ 0 \in Byte
    BY DEF Byte
  <2>. QED
    BY <2>1, FourJoin
<1>. HIDE DEF h
<1>2. mem \in Seq(Byte) /\ Len(h) # 0
  BY <1>1 DEF MembersTrip
<1>3. PICK bs \in Seq(Byte) : bs = h \o mem
  BY <1>1, <1>2, ConcatProperties
<1>4. PICK l \in Nat : l = Len(mem)
  BY <1>2, LenProperties
<1>5. Len(bs) = 5 + l
  <2>1. Len(h \o mem) = Len(h) + Len(mem)
    <3>1. h \in Seq(Byte) /\ mem \in Seq(Byte)
      BY <1>1, <1>2
    <3>. QED
      BY <3>1, ConcatProperties
  <2>. QED
    BY <1>1, <1>3, <1>4, <2>1, Zenon
<1>6. PICK b \in Seq(Byte) : b = bs \o r
  BY ConcatProperties
<1>7. Begins(b, h, mem, r)
  <2>1. Begins((h \o mem) \o r, h, mem, r)
    BY <1>1, <1>2, AfterHead
  <2>. QED
    BY <1>3, <1>6, <2>1, Zenon
<1>8. ByteAt(b, 1) = 8
  BY <1>1, <1>2, <1>7, BeginsWith
<1>9. DecodeOne(b) = ByMarker(Decode, b)
  <2>1. 0 \in Byte
    BY DEF Byte
  <2>. QED
    BY <2>1, CallIs
<1>10. ByMarker(Decode, b) = DecodeArray(Decode, b)
  BY <1>8, MarkerIs, Zenon
<1>11. From(From(b, 5), 2) = mem \o r
  <2>1. 2 \in Nat \ {0} /\ 5 \in Nat \ {0} /\ 5 + 2 - 1 = 5 + 1
    OBVIOUS
  <2>2. From(From(b, 5), 2) = From(b, 5 + 2 - 1)
    BY <2>1, FromFrom
  <2>3. From(b, 5 + 1) = mem \o r
    BY <1>1, <1>7, Zenon DEF Begins
  <2>. QED
    BY <2>1, <2>2, <2>3, Zenon
<1>12. DecodeObject(Decode, From(b, 5)) = Decoded(1 + Len(mem), v)
  BY <1>11, ObjectIs
<1>13. Decoded(1 + Len(mem), v).len = 1 + Len(mem) /\ Decoded(1 + Len(mem), v).value = v
  BY DEF Decoded
<1>14. DecodeArray(Decode, b) = Decoded(5 + (1 + Len(mem)), v)
  BY <1>12, <1>13, Zenon DEF DecodeArray
<1>15. 5 + (1 + l) = 5 + l + 1 /\ 5 + l \in Nat \ {0}
  OBVIOUS
<1>16. <<8>> \o U32(n) \o mem = bs
  BY <1>1, <1>3, Zenon DEF U32
<1>. QED
  BY <1>4, <1>5, <1>6, <1>9, <1>10, <1>14, <1>15, <1>16, Zenon

\* amf0decSArray takes the number of items and the items.
LEMMA SArrayTrips ==
  ASSUME NEW n \in Byte, NEW flat, NEW v, ItemsTrip(flat, n, v)
  PROVE  Trips(<<10>> \o U32(n) \o flat, v)
<1>. DEFINE h == <<10, 0, 0, 0, n>>
<1>1. h \in Seq(Byte) /\ Len(h) = 5 /\ h[1] = 10 /\ h[5] = n /\ <<10>> \o <<0, 0, 0, n>> = h
  <2>1. 10 \in Byte /\ 0 \in Byte
    BY DEF Byte
  <2>. QED
    BY <2>1, FourJoin
<1>2. flat \in Seq(Byte) /\ Len(h) # 0 /\ h[1] # 9 /\ 5 + 1 = 6 /\ 5 \in 1..5
  BY <1>1 DEF ItemsTrip
<1>. HIDE DEF h
<1>3. ASSUME NEW b, NEW r, Begins(b, h, flat, r) PROVE ByMarker(Decode, b) = Decoded(Len(h) + Len(flat), v)
  <2>1. ByteAt(b, 1) = 10
    BY <1>1, <1>2, <1>3, BeginsWith
  <2>2. ByMarker(Decode, b) = DecodeSArray(Decode, b)
    BY <2>1, MarkerIs, Zenon
  <2>3. r \in Seq(Byte) /\ From(b, 6) = flat \o r /\ ByteAt(b, 5) = n
    BY <1>1, <1>2, <1>3, Zenon DEF Begins
  <2>4. Decode[<<"items", From(b, 6), ByteAt(b, 5)>>] = Decoded(Len(flat), v)
    BY <2>3, Zenon DEF ItemsTrip
  <2>5. Decoded(Len(flat), v).len = Len(flat) /\ Decoded(Len(flat), v).value = v
    BY DEF Decoded
  <2>6. DecodeSArray(Decode, b) = Decoded(5 + Len(flat), v)
    BY <2>4, <2>5, Zenon DEF DecodeSArray
  <2>. QED
    BY <1>1, <2>2, <2>6, Zenon
<1>4. Trips(h \o flat, v)
  BY <1>1, <1>2, <1>3, HeadTrips
<1>5. <<10>> \o U32(n) \o flat = h \o flat
  BY <1>1, Zenon DEF U32
<1>. QED
  BY <1>4, <1>5

-----------------------------------------------------------------------------
(* The loops.                                                              *)

Regroups(x, y, z) == (x \o y) \o z = x \o (y \o z)

\* Bytes that are joined may be grouped in either way.
LEMMA Regroup ==
  ASSUME NEW x \in Seq(Byte), NEW y \in Seq(Byte), NEW z \in Seq(Byte)
  PROVE  Regroups(x, y, z)
BY ConcatAssociative DEF Regroups

\* Induction from n + 1 down to 1.
LEMMA Downward ==
  ASSUME NEW T, NEW n \in Nat, n + 1 \in T, \A i \in 1..n : i + 1 \in T => i \in T
  PROVE  1 \in T
<1>. DEFINE D == {k \in Nat : k <= n => n - k + 1 \in T}
<1>1. 0 \in D
  <2>1. n - 0 + 1 = n + 1
    OBVIOUS
  <2>. QED
    BY <2>1
<1>2. ASSUME NEW k \in Nat, k \in D PROVE k + 1 \in D
  <2>. SUFFICES ASSUME k + 1 <= n PROVE n - (k + 1) + 1 \in T
    OBVIOUS
  <2>1. PICK i \in 1..n : i = n - (k + 1) + 1 /\ i + 1 = n - k + 1
    OBVIOUS
  <2>2. i + 1 \in T
    BY <1>2, <2>1
  <2>. QED
    BY <2>1, <2>2
<1>. HIDE DEF D
<1>3. n \in D
  BY <1>1, <1>2, Induction
<1>4. n - n + 1 \in T
  BY <1>3 DEF D
<1>5. n - n + 1 = 1
  OBVIOUS
<1>. QED
  BY <1>4, <1>5

\* The loop of amf0decObject ends with the empty key.
LEMMA NoMembers == MembersTrip(ObjectEnd, Object(<<>>, <<>>))
<1>1. ObjectEnd \in Seq(Byte) /\ Len(ObjectEnd) = 3
      /\ ObjectEnd[1] = 0 /\ ObjectEnd[2] = 0 /\ ObjectEnd[3] = 9
      /\ 1 \in 1..3 /\ 2 \in 1..3 /\ 3 \in 1..3
  BY DEF ObjectEnd, Byte
<1>2. ASSUME NEW r \in Seq(Byte)
      PROVE  Decode[<<"members", ObjectEnd \o r, 0>>] = Decoded(Len(ObjectEnd), Object(<<>>, <<>>))
  <2>1. PICK b \in Seq(Byte) : b = ObjectEnd \o r
    BY <1>1, ConcatProperties
  <2>2. \A i \in 1..Len(ObjectEnd) : ByteAt(ObjectEnd \o r, i) = ObjectEnd[i]
    BY <1>1, ByteAtConcat
  <2>3. ByteAt(b, 1) = 0 /\ ByteAt(b, 2) = 0 /\ ByteAt(b, 3) = 9
    BY <1>1, <2>1, <2>2, Zenon
  <2>4. Len(b) = 3 + Len(r) /\ Len(r) \in Nat
    <3>1. Len(ObjectEnd \o r) = Len(ObjectEnd) + Len(r) /\ Len(r) \in Nat
      BY <1>1, ConcatProperties, LenProperties
    <3>. QED
      BY <1>1, <2>1, <3>1, Zenon
  <2>5. 0 \in Byte /\ 0 # 9 /\ 3 + 0 = 3 /\ ~(Len(b) < 2 + 0)
    BY <2>4 DEF Byte
  <2>6. Decode[<<"members", b, 0>>] = DecodeMembers(Decode, b)
    BY <2>5, CallIs
  <2>7. DecodeMembers(Decode, b) = Decoded(3, Object(<<>>, <<>>))
    BY <2>3, <2>5, Zenon DEF DecodeMembers
  <2>. QED
    BY <1>1, <2>1, <2>6, <2>7, Zenon
<1>. QED
  BY <1>1, <1>2 DEF MembersTrip

\* The first byte of the second part.
LEMMA ByteAtSecond ==
  ASSUME NEW S, NEW s \in Seq(S), NEW t \in Seq(S), Len(t) # 0
  PROVE  ByteAt(s \o t, Len(s) + 1) = t[1]
<1>1. PICK m \in Nat : m = Len(s)
  BY LenProperties
<1>2. PICK n \in Nat : n = Len(t) /\ n # 0
  BY LenProperties
<1>3. Len(s \o t) = m + n /\ \A j \in 1..(m + n) : (s \o t)[j] = IF j <= m THEN s[j] ELSE t[j - m]
  BY <1>1, <1>2, ConcatLen
<1>4. m + 1 \in 1..(m + n) /\ m + 1 <= m + n /\ ~(m + 1 <= m) /\ m + 1 - m = 1
  BY <1>2
<1>5. (s \o t)[m + 1] = t[1]
  <2>1. (s \o t)[m + 1] = IF m + 1 <= m THEN s[m + 1] ELSE t[m + 1 - m]
    BY <1>3, <1>4
  <2>. QED
    BY <1>4, <2>1, Zenon
<1>6. ByteAt(s \o t, m + 1) = (s \o t)[m + 1]
  BY <1>3, <1>4, Zenon DEF ByteAt
<1>. QED
  BY <1>1, <1>5, <1>6, Zenon

\* A round of the loop takes one key and its value.
LEMMA OneMember ==
  ASSUME NEW key \in Short(Byte) \ {<<>>}, NEW e, NEW v, Trips(e, v),
         NEW m, NEW ks, NEW ps, MembersTrip(m, Object(ks, ps))
  PROVE  MembersTrip((UString(key) \o e) \o m, Object(<<key>> \o ks, <<v>> \o ps))
<1>1. key \in Seq(Byte) /\ Len(key) \in Byte /\ key # <<>>
  BY ShortLen
<1>2. PICK n \in Byte : n = Len(key)
  BY <1>1
<1>3. n \in Nat /\ 0 \in Byte
  BY DEF Byte
<1>4. e \in Seq(Byte) /\ Len(e) # 0 /\ e[1] # 9
  BY DEF Trips
<1>5. m \in Seq(Byte)
  BY DEF MembersTrip
<1>. DEFINE h == <<0, n>>
<1>6. h \in Seq(Byte) /\ Len(h) = 2 /\ h[1] = 0 /\ h[2] = n /\ 1 \in 1..2 /\ 2 \in 1..2
  BY <1>3
<1>. HIDE DEF h
<1>7. PICK g \in Seq(Byte) : g = h \o key
  BY <1>1, <1>6, ConcatProperties
<1>8. UString(key) = g
  BY <1>2, <1>7, Zenon DEF UString, U16, h
<1>9. PICK ge \in Seq(Byte) : ge = g \o e
  BY <1>4, ConcatProperties
<1>10. PICK bs \in Seq(Byte) : bs = ge \o m
  BY <1>5, ConcatProperties
<1>11. PICK l \in Nat : l = Len(e)
  BY <1>4, LenProperties
<1>12. PICK k \in Nat : k = Len(m)
  BY <1>5, LenProperties
<1>13. Len(g) = 2 + n
  <2>1. h \in Seq(Byte) /\ key \in Seq(Byte)
    BY <1>1, <1>6
  <2>2. Len(h \o key) = Len(h) + Len(key)
    BY <2>1, ConcatProperties
  <2>. QED
    BY <1>2, <1>6, <1>7, <2>2, Zenon
<1>14. Len(bs) = 2 + n + l + k
  <2>1. Len(g \o e) = Len(g) + Len(e)
    BY <1>4, ConcatProperties
  <2>2. Len(ge \o m) = Len(ge) + Len(m)
    BY <1>5, ConcatProperties
  <2>. QED
    BY <1>9, <1>10, <1>11, <1>12, <1>13, <2>1, <2>2, Zenon
<1>15. ASSUME NEW r \in Seq(Byte)
       PROVE  Decode[<<"members", bs \o r, 0>>] = Decoded(Len(bs), Object(<<key>> \o ks, <<v>> \o ps))
  <2>1. PICK b \in Seq(Byte) : b = bs \o r
    BY ConcatProperties
  <2>2. PICK u \in Seq(Byte) : u = m \o r
    BY <1>5, ConcatProperties
  <2>3. PICK t \in Seq(Byte) : t = e \o u
    BY <1>4, ConcatProperties
  <2>4. b = (g \o e) \o u
    <3>1. (ge \o m) \o r = ge \o (m \o r)
      <4>1. Regroups(ge, m, r)
        BY <1>5, Regroup, Zenon
      <4>. QED
        BY <4>1, Zenon DEF Regroups
    <3>. QED
      BY <1>9, <1>10, <2>1, <2>2, <3>1, Zenon
  <2>5. Begins(b, g, e, u)
    <3>1. Begins((g \o e) \o u, g, e, u)
      BY <1>4, AfterHead
    <3>. QED
      BY <2>4, <3>1, Zenon
  <2>6. b = g \o t /\ From(b, 2 + n + 1) = t
    BY <1>13, <2>3, <2>5, Zenon DEF Begins
  <2>7. Begins(b, h, key, t)
    <3>1. Begins((h \o key) \o t, h, key, t)
      <4>1. h \in Seq(Byte) /\ key \in Seq(Byte)
        BY <1>1, <1>6
      <4>. QED
        BY <4>1, AfterHead
    <3>. QED
      BY <1>7, <2>6, <3>1, Zenon
  <2>8. ByteAt(b, 1) = 0 /\ ByteAt(b, 2) = n
    BY <1>6, <2>7, Zenon DEF Begins
  <2>9. 2 + 1 = 3 /\ 2 + n + 1 = 3 + n /\ 0 # 9 /\ 3 + n \in Nat \ {0}
    BY <1>3
  <2>10. Slice(b, 3, n) = key
    BY <1>2, <1>6, <2>7, <2>9, Zenon DEF Begins
  <2>11. From(b, 3 + n) = t
    BY <2>6, <2>9, Zenon
  <2>12. Len(t) # 0 /\ t[1] = e[1]
    <3>1. PICK j \in Nat : j = Len(u)
      BY LenProperties
    <3>2. l # 0 /\ 1 \in 1..(l + j) /\ 1 <= l /\ l + j # 0
      BY <1>4, <1>11
    <3>3. Len(e \o u) = l + j /\ \A i \in 1..(l + j) : (e \o u)[i] = IF i <= l THEN e[i] ELSE u[i - l]
      BY <1>4, <1>11, <3>1, ConcatLen
    <3>. QED
      BY <2>3, <3>2, <3>3, Zenon
  <2>13. ByteAt(b, 3 + n) # 9
    <3>1. ByteAt(g \o t, Len(g) + 1) = t[1]
      BY <2>12, ByteAtSecond
    <3>. QED
      BY <1>4, <1>13, <2>6, <2>9, <2>12, <3>1, Zenon
  <2>14. ~(Len(b) < 2 + n)
    <3>1. PICK j \in Nat : j = Len(r)
      BY LenProperties
    <3>2. Len(bs \o r) = Len(bs) + Len(r)
      BY ConcatProperties
    <3>3. Len(b) = 2 + n + l + k + j
      BY <1>14, <2>1, <3>1, <3>2, Zenon
    <3>4. ~(2 + n + l + k + j < 2 + n)
      BY <1>3
    <3>. QED
      BY <3>3, <3>4, Zenon
  <2>15. Decode[<<"one", t, 0>>] = Decoded(l, v)
    BY <1>11, <2>3, Zenon DEF Trips, DecodeOne
  <2>16. From(b, 3 + n + l) = u
    <3>1. l + 1 \in Nat \ {0} /\ (3 + n) + (l + 1) - 1 = 3 + n + l
      BY <1>3
    <3>2. From(From(b, 3 + n), l + 1) = From(b, (3 + n) + (l + 1) - 1)
      BY <2>9, <3>1, FromFrom
    <3>3. From(e \o u, Len(e) + 1) = u
      BY <1>4, FromConcat
    <3>. QED
      BY <1>11, <2>3, <2>11, <3>1, <3>2, <3>3, Zenon
  <2>17. Decode[<<"members", u, 0>>] = Decoded(k, Object(ks, ps))
    BY <1>12, <2>2, Zenon DEF MembersTrip
  <2>18. /\ Decoded(l, v).len = l /\ Decoded(l, v).value = v
         /\ Decoded(k, Object(ks, ps)).len = k
         /\ Decoded(k, Object(ks, ps)).value.keys = ks /\ Decoded(k, Object(ks, ps)).value.parts = ps
    BY DEF Decoded, Object
  <2>19. DecodeMembers(Decode, b) = Decoded(2 + n + l + k, Object(<<key>> \o ks, <<v>> \o ps))
    BY <1>1, <2>8, <2>9, <2>10, <2>11, <2>13, <2>14, <2>15, <2>16, <2>17, <2>18, Zenon DEF DecodeMembers
  <2>20. Decode[<<"members", b, 0>>] = DecodeMembers(Decode, b)
    BY <1>3, CallIs
  <2>. QED
    BY <1>14, <2>1, <2>19, <2>20, Zenon
<1>16. MembersTrip(bs, Object(<<key>> \o ks, <<v>> \o ps))
  BY <1>15 DEF MembersTrip
<1>. QED
  BY <1>8, <1>9, <1>10, <1>16, Zenon

\* A rest is its first element and the rest after it.
LEMMA FromFirst ==
  ASSUME NEW S, NEW s \in Seq(S), NEW i \in 1..Len(s)
  PROVE  From(s, i) = <<s[i]>> \o From(s, i + 1)
<1>1. PICK n \in Nat : n = Len(s)
  BY LenProperties
<1>2. i \in 1..n /\ n \in i..n
  BY <1>1
<1>3. SubSeq(s, i, n) = <<s[i]>> \o SubSeq(s, i + 1, n)
  BY <1>1, <1>2, SubSeqRecursiveFirst
<1>. QED
  BY <1>1, <1>3, Zenon DEF From

\* The loop takes all members.
LEMMA MembersLoop ==
  ASSUME NEW S, NEW keys \in Seq(Short(Byte) \ {<<>>}), NEW meant \in Seq(S), NEW ms \in Seq(Seq(Byte)),
         Len(meant) = Len(keys), Len(ms) = Len(keys), NEW enc,
         \A i \in 1..Len(keys) : ms[i] = UString(keys[i]) \o enc[i] /\ Trips(enc[i], meant[i])
  PROVE  MembersTrip(FlattenSeq(ms) \o ObjectEnd, Object(keys, meant))
<1>1. PICK n \in Nat : n = Len(keys)
  BY LenProperties
<1>. DEFINE P(i) == MembersTrip(FlattenSeq(From(ms, i)) \o ObjectEnd, Object(From(keys, i), From(meant, i)))
            T == {i \in Nat : P(i)}
<1>2. ObjectEnd \in Seq(Byte)
  BY DEF ObjectEnd, Byte
<1>3. P(n + 1)
  <2>1. n + 1 \in Nat \ {0} /\ n + 1 > n
    OBVIOUS
  <2>2. From(ms, n + 1) = <<>> /\ From(keys, n + 1) = <<>> /\ From(meant, n + 1) = <<>>
    BY <1>1, <2>1, FromEmpty
  <2>3. <<>> \o ObjectEnd = ObjectEnd
    BY <1>2, ConcatEmptySeq
  <2>. QED
    BY <2>2, <2>3, NoMembers, FlattenEmpty, Zenon
<1>4. ASSUME NEW i \in 1..n, P(i + 1) PROVE P(i)
  <2>1. /\ keys[i] \in Short(Byte) \ {<<>>} /\ Trips(enc[i], meant[i]) /\ ms[i] = UString(keys[i]) \o enc[i]
        /\ ms[i] \in Seq(Byte)
    <3>1. i \in 1..Len(keys) /\ i \in 1..Len(ms)
      BY <1>1
    <3>. QED
      BY <3>1, ElementOfSeq
  <2>2. PICK f \in Seq(Byte) : f = FlattenSeq(From(ms, i + 1))
    <3>1. From(ms, i + 1) \in Seq(Seq(Byte))
      BY FromIs, i + 1 \in Nat \ {0}
    <3>. QED
      BY <3>1, FlattenType
  <2>3. MembersTrip((UString(keys[i]) \o enc[i]) \o (f \o ObjectEnd),
                    Object(<<keys[i]>> \o From(keys, i + 1), <<meant[i]>> \o From(meant, i + 1)))
    <3>1. MembersTrip(f \o ObjectEnd, Object(From(keys, i + 1), From(meant, i + 1)))
      BY <1>4, <2>2, Zenon
    <3>. HIDE DEF P
    <3>. QED
      BY <2>1, <3>1, OneMember
  <2>4. /\ From(keys, i) = <<keys[i]>> \o From(keys, i + 1) /\ From(meant, i) = <<meant[i]>> \o From(meant, i + 1)
    BY <1>1, FromFirst
  <2>5. FlattenSeq(From(ms, i)) = ms[i] \o f
    BY <1>1, <2>2, FlattenFrom
  <2>6. (ms[i] \o f) \o ObjectEnd = ms[i] \o (f \o ObjectEnd)
    <3>1. Regroups(ms[i], f, ObjectEnd)
      BY <1>2, <2>1, Regroup, Zenon
    <3>. QED
      BY <3>1, Zenon DEF Regroups
  <2>. QED
    BY <2>1, <2>3, <2>4, <2>5, <2>6, Zenon
<1>. HIDE DEF P
<1>5. n + 1 \in T /\ \A i \in 1..n : i + 1 \in T => i \in T
  BY <1>3, <1>4
<1>. HIDE DEF T
<1>6. 1 \in T
  BY <1>5, Downward
<1>7. P(1)
  BY <1>6 DEF T
<1>8. From(ms, 1) = ms /\ From(keys, 1) = keys /\ From(meant, 1) = meant
  BY FromOne
<1>. QED
  BY <1>7, <1>8, Zenon DEF P

\* The loop of amf0decSArray ends when no items are to go.
LEMMA NoItems == ItemsTrip(<<>>, 0, StrictArray(<<>>))
<1>1. <<>> \in Seq(Byte) /\ Len(<<>>) = 0 /\ 0 \in Byte
  BY EmptySeq DEF Byte
<1>2. ASSUME NEW r \in Seq(Byte)
      PROVE  Decode[<<"items", <<>> \o r, 0>>] = Decoded(Len(<<>>), StrictArray(<<>>))
  <2>1. <<>> \o r = r
    BY ConcatEmptySeq
  <2>2. Decode[<<"items", r, 0>>] = DecodeItems(Decode, r, 0)
    BY <1>1, CallIs
  <2>3. DecodeItems(Decode, r, 0) = Decoded(0, StrictArray(<<>>))
    BY Zenon DEF DecodeItems
  <2>. QED
    BY <1>1, <2>1, <2>2, <2>3, Zenon
<1>. QED
  BY <1>1, <1>2 DEF ItemsTrip

\* A round of the loop takes one item.
LEMMA OneItem ==
  ASSUME NEW e, NEW v, Trips(e, v), NEW n \in Nat, n + 1 \in Byte, NEW m, NEW ps, ItemsTrip(m, n, StrictArray(ps))
  PROVE  ItemsTrip(e \o m, n + 1, StrictArray(<<v>> \o ps))
<1>1. e \in Seq(Byte)
  BY DEF Trips
<1>2. m \in Seq(Byte)
  BY DEF ItemsTrip
<1>3. PICK bs \in Seq(Byte) : bs = e \o m
  BY <1>1, <1>2, ConcatProperties
<1>4. PICK l \in Nat : l = Len(e)
  BY <1>1, LenProperties
<1>5. PICK k \in Nat : k = Len(m)
  BY <1>2, LenProperties
<1>6. Len(bs) = l + k
  <2>1. Len(e \o m) = Len(e) + Len(m)
    BY <1>1, <1>2, ConcatProperties
  <2>. QED
    BY <1>3, <1>4, <1>5, <2>1, Zenon
<1>7. n + 1 # 0 /\ (n + 1) - 1 = n
  OBVIOUS
<1>8. ASSUME NEW r \in Seq(Byte)
      PROVE  Decode[<<"items", bs \o r, n + 1>>] = Decoded(Len(bs), StrictArray(<<v>> \o ps))
  <2>1. PICK b \in Seq(Byte) : b = bs \o r
    BY ConcatProperties
  <2>2. PICK u \in Seq(Byte) : u = m \o r
    BY <1>2, ConcatProperties
  <2>3. b = e \o u
    <3>1. Regroups(e, m, r)
      BY <1>1, <1>2, Regroup, Zenon
    <3>. QED
      BY <1>3, <2>1, <2>2, <3>1, Zenon DEF Regroups
  <2>4. Decode[<<"one", b, 0>>] = Decoded(l, v)
    BY <1>4, <2>3, Zenon DEF Trips, DecodeOne
  <2>5. From(b, l + 1) = u
    <3>1. From(e \o u, Len(e) + 1) = u
      BY <1>1, FromConcat
    <3>. QED
      BY <1>4, <2>3, <3>1, Zenon
  <2>6. Decode[<<"items", u, n>>] = Decoded(k, StrictArray(ps))
    BY <1>5, <2>2, Zenon DEF ItemsTrip
  <2>7. /\ Decoded(l, v).len = l /\ Decoded(l, v).value = v
        /\ Decoded(k, StrictArray(ps)).len = k /\ Decoded(k, StrictArray(ps)).value.parts = ps
    BY DEF Decoded, StrictArray
  <2>8. DecodeItems(Decode, b, n + 1) = Decoded(l + k, StrictArray(<<v>> \o ps))
    BY <1>7, <2>4, <2>5, <2>6, <2>7, Zenon DEF DecodeItems
  <2>9. Decode[<<"items", b, n + 1>>] = DecodeItems(Decode, b, n + 1)
    BY CallIs
  <2>. QED
    BY <1>6, <2>1, <2>8, <2>9, Zenon
<1>9. ItemsTrip(bs, n + 1, StrictArray(<<v>> \o ps))
  BY <1>8 DEF ItemsTrip
<1>. QED
  BY <1>3, <1>9, Zenon

\* The loop takes all items.
LEMMA ItemsLoop ==
  ASSUME NEW S, NEW enc \in Seq(Seq(Byte)), NEW meant \in Seq(S), Len(meant) = Len(enc), Len(enc) \in Byte,
         \A i \in 1..Len(enc) : Trips(enc[i], meant[i])
  PROVE  ItemsTrip(FlattenSeq(enc), Len(enc), StrictArray(meant))
<1>1. PICK n \in Nat : n = Len(enc)
  BY LenProperties
<1>. DEFINE P(i) == ItemsTrip(FlattenSeq(From(enc, i)), n + 1 - i, StrictArray(From(meant, i)))
            T == {i \in Nat : P(i)}
<1>2. P(n + 1)
  <2>1. n + 1 \in Nat \ {0} /\ n + 1 > n /\ n + 1 - (n + 1) = 0
    OBVIOUS
  <2>2. From(enc, n + 1) = <<>> /\ From(meant, n + 1) = <<>>
    BY <1>1, <2>1, FromEmpty
  <2>. QED
    BY <2>1, <2>2, NoItems, FlattenEmpty, Zenon
<1>3. ASSUME NEW i \in 1..n, P(i + 1) PROVE P(i)
  <2>1. Trips(enc[i], meant[i])
    BY <1>1
  <2>2. PICK k \in Nat : k = n + 1 - (i + 1) /\ k + 1 = n + 1 - i
    OBVIOUS
  <2>3. k + 1 \in Byte
    <3>1. n \in Byte
      BY <1>1
    <3>. QED
      BY <2>2, <3>1 DEF Byte
  <2>4. ItemsTrip(FlattenSeq(From(enc, i + 1)), k, StrictArray(From(meant, i + 1)))
    BY <1>3, <2>2, Zenon
  <2>5. ItemsTrip(enc[i] \o FlattenSeq(From(enc, i + 1)), k + 1, StrictArray(<<meant[i]>> \o From(meant, i + 1)))
    <3>. HIDE DEF P
    <3>. QED
      BY <2>1, <2>3, <2>4, OneItem
  <2>6. From(meant, i) = <<meant[i]>> \o From(meant, i + 1)
    BY <1>1, FromFirst
  <2>7. FlattenSeq(From(enc, i)) = enc[i] \o FlattenSeq(From(enc, i + 1))
    BY <1>1, FlattenFrom
  <2>. QED
    BY <2>2, <2>5, <2>6, <2>7, Zenon
<1>. HIDE DEF P
<1>4. n + 1 \in T /\ \A i \in 1..n : i + 1 \in T => i \in T
  BY <1>2, <1>3
<1>. HIDE DEF T
<1>5. 1 \in T
  BY <1>4, Downward
<1>6. P(1)
  BY <1>5 DEF T
<1>7. From(enc, 1) = enc /\ From(meant, 1) = meant /\ n + 1 - 1 = n
  BY FromOne
<1>. QED
  BY <1>1, <1>6, <1>7, Zenon DEF P

-----------------------------------------------------------------------------
(* Values.                                                                 *)

\* Members as they are written, the value of the i-th as enc[i].
Written(keys, enc) == FlattenSeq([i \in 1..Len(keys) |-> UString(keys[i]) \o enc[i]])

\* WrittenAs by the type; and so are MeantAs and EncodedAs.
LEMMA WrittenIs ==
  ASSUME NEW v, NEW parts
  PROVE  /\ v.type = "number" => WrittenAs(v, parts) = <<0>> \o v.bytes
         /\ v.type = "bool" => WrittenAs(v, parts) = <<1>> \o v.bytes
         /\ v.type = "string" => WrittenAs(v, parts) = <<2>> \o UString(v.bytes)
         /\ v.type = "object" => WrittenAs(v, parts) = <<3>> \o (Written(v.keys, parts) \o ObjectEnd)
         /\ v.type = "null" => WrittenAs(v, parts) = <<5>>
         /\ v.type = "undefined" => WrittenAs(v, parts) = <<6>>
         /\ v.type = "ref" => WrittenAs(v, parts) = <<7, 0>> \o v.bytes
         /\ v.type = "array" => WrittenAs(v, parts) = <<8>> \o U32(Len(v.keys)) \o (Written(v.keys, parts) \o ObjectEnd)
         /\ v.type = "sarray" => WrittenAs(v, parts) = <<10>> \o U32(Len(v.parts)) \o FlattenSeq(parts)
         /\ v.type = "date" => WrittenAs(v, parts) = <<11, 0, 0>> \o v.bytes
         /\ v.type = "long" => WrittenAs(v, parts) = <<12>> \o U32(Len(v.bytes)) \o v.bytes
         /\ v.type = "xml" => WrittenAs(v, parts) = <<15>> \o UString(v.bytes)
         /\ v.type = "typed" => WrittenAs(v, parts) = <<16>> \o UString(v.bytes) \o (Written(v.keys, parts) \o ObjectEnd)
<1>1. ASSUME v.type = "number" PROVE WrittenAs(v, parts) = <<0>> \o v.bytes
  BY <1>1 DEF WrittenAs
<1>2. ASSUME v.type = "bool" PROVE WrittenAs(v, parts) = <<1>> \o v.bytes
  BY <1>2 DEF WrittenAs
<1>3. ASSUME v.type = "string" PROVE WrittenAs(v, parts) = <<2>> \o UString(v.bytes)
  BY <1>3 DEF WrittenAs
<1>4. ASSUME v.type = "object" PROVE WrittenAs(v, parts) = <<3>> \o (Written(v.keys, parts) \o ObjectEnd)
  BY <1>4 DEF WrittenAs, Written
<1>5. ASSUME v.type = "null" PROVE WrittenAs(v, parts) = <<5>>
  BY <1>5 DEF WrittenAs
<1>6. ASSUME v.type = "undefined" PROVE WrittenAs(v, parts) = <<6>>
  BY <1>6 DEF WrittenAs
<1>7. ASSUME v.type = "ref" PROVE WrittenAs(v, parts) = <<7, 0>> \o v.bytes
  BY <1>7 DEF WrittenAs
<1>8. ASSUME v.type = "array" PROVE WrittenAs(v, parts) = <<8>> \o U32(Len(v.keys)) \o (Written(v.keys, parts) \o ObjectEnd)
  BY <1>8 DEF WrittenAs, Written
<1>9. ASSUME v.type = "sarray" PROVE WrittenAs(v, parts) = <<10>> \o U32(Len(v.parts)) \o FlattenSeq(parts)
  BY <1>9 DEF WrittenAs
<1>10. ASSUME v.type = "date" PROVE WrittenAs(v, parts) = <<11, 0, 0>> \o v.bytes
  BY <1>10 DEF WrittenAs
<1>11. ASSUME v.type = "long" PROVE WrittenAs(v, parts) = <<12>> \o U32(Len(v.bytes)) \o v.bytes
  BY <1>11 DEF WrittenAs
<1>12. ASSUME v.type = "xml" PROVE WrittenAs(v, parts) = <<15>> \o UString(v.bytes)
  BY <1>12 DEF WrittenAs
<1>13. ASSUME v.type = "typed" PROVE WrittenAs(v, parts) = <<16>> \o UString(v.bytes) \o (Written(v.keys, parts) \o ObjectEnd)
  BY <1>13 DEF WrittenAs, Written
<1>. QED
  BY <1>1, <1>2, <1>3, <1>4, <1>5, <1>6, <1>7, <1>8, <1>9, <1>10, <1>11, <1>12, <1>13

LEMMA MeantIs ==
  ASSUME NEW v, NEW parts
  PROVE  /\ v.type = "number" => MeantAs(v, parts) = Scalar("number", v.bytes)
         /\ v.type = "date" => MeantAs(v, parts) = Scalar("number", v.bytes)
         /\ v.type = "string" => MeantAs(v, parts) = Scalar("string", v.bytes)
         /\ v.type = "long" => MeantAs(v, parts) = Scalar("string", v.bytes)
         /\ v.type = "xml" => MeantAs(v, parts) = Scalar("string", v.bytes)
         /\ v.type = "bool" => MeantAs(v, parts) = v
         /\ v.type = "null" => MeantAs(v, parts) = v
         /\ v.type = "undefined" => MeantAs(v, parts) = v
         /\ v.type = "ref" => MeantAs(v, parts) = Scalar("string", <<114, 101, 102, 48 + v.bytes[1]>>)
         /\ v.type = "object" => MeantAs(v, parts) = Object(v.keys, parts)
         /\ v.type = "array" => MeantAs(v, parts) = Object(v.keys, parts)
         /\ v.type = "typed" => MeantAs(v, parts) = Object(Append(v.keys, ClassName),
                                                          Append(parts, Scalar("string", v.bytes)))
         /\ v.type = "sarray" => MeantAs(v, parts) = StrictArray(parts)
<1>1. ASSUME v.type = "number" PROVE MeantAs(v, parts) = Scalar("number", v.bytes)
  BY <1>1 DEF MeantAs
<1>2. ASSUME v.type = "date" PROVE MeantAs(v, parts) = Scalar("number", v.bytes)
  BY <1>2 DEF MeantAs
<1>3. ASSUME v.type = "string" PROVE MeantAs(v, parts) = Scalar("string", v.bytes)
  BY <1>3 DEF MeantAs
<1>4. ASSUME v.type = "long" PROVE MeantAs(v, parts) = Scalar("string", v.bytes)
  BY <1>4 DEF MeantAs
<1>5. ASSUME v.type = "xml" PROVE MeantAs(v, parts) = Scalar("string", v.bytes)
  BY <1>5 DEF MeantAs
<1>6. ASSUME v.type = "bool" PROVE MeantAs(v, parts) = v
  BY <1>6 DEF MeantAs
<1>7. ASSUME v.type = "null" PROVE MeantAs(v, parts) = v
  BY <1>7 DEF MeantAs
<1>8. ASSUME v.type = "undefined" PROVE MeantAs(v, parts) = v
  BY <1>8 DEF MeantAs
<1>9. ASSUME v.type = "ref" PROVE MeantAs(v, parts) = Scalar("string", <<114, 101, 102, 48 + v.bytes[1]>>)
  BY <1>9 DEF MeantAs
<1>10. ASSUME v.type = "object" PROVE MeantAs(v, parts) = Object(v.keys, parts)
  BY <1>10 DEF MeantAs
<1>11. ASSUME v.type = "array" PROVE MeantAs(v, parts) = Object(v.keys, parts)
  BY <1>11 DEF MeantAs
<1>12. ASSUME v.type = "typed"
       PROVE  MeantAs(v, parts) = Object(Append(v.keys, ClassName), Append(parts, Scalar("string", v.bytes)))
  BY <1>12 DEF MeantAs
<1>13. ASSUME v.type = "sarray" PROVE MeantAs(v, parts) = StrictArray(parts)
  BY <1>13 DEF MeantAs
<1>. QED
  BY <1>1, <1>2, <1>3, <1>4, <1>5, <1>6, <1>7, <1>8, <1>9, <1>10, <1>11, <1>12, <1>13

LEMMA EncodedIs ==
  ASSUME NEW v, NEW parts
  PROVE  /\ v.type = "number" => EncodedAs(v, parts) = <<0>> \o v.bytes
         /\ v.type = "bool" => EncodedAs(v, parts) = <<1>> \o v.bytes
         /\ v.type = "string" => EncodedAs(v, parts) = <<2>> \o U16(Units(v.bytes)) \o v.bytes
         /\ v.type = "null" => EncodedAs(v, parts) = <<5>>
         /\ v.type = "undefined" => EncodedAs(v, parts) = <<6>>
         /\ v.type = "object" => EncodedAs(v, parts) = <<3>> \o Written(v.keys, parts) \o ObjectEnd
<1>1. ASSUME v.type = "number" PROVE EncodedAs(v, parts) = <<0>> \o v.bytes
  BY <1>1 DEF EncodedAs
<1>2. ASSUME v.type = "bool" PROVE EncodedAs(v, parts) = <<1>> \o v.bytes
  BY <1>2 DEF EncodedAs
<1>3. ASSUME v.type = "string" PROVE EncodedAs(v, parts) = <<2>> \o U16(Units(v.bytes)) \o v.bytes
  BY <1>3 DEF EncodedAs
<1>4. ASSUME v.type = "null" PROVE EncodedAs(v, parts) = <<5>>
  BY <1>4 DEF EncodedAs
<1>5. ASSUME v.type = "undefined" PROVE EncodedAs(v, parts) = <<6>>
  BY <1>5 DEF EncodedAs
<1>6. ASSUME v.type = "object" PROVE EncodedAs(v, parts) = <<3>> \o Written(v.keys, parts) \o ObjectEnd
  BY <1>6 DEF EncodedAs, EncodeObject, Written
<1>. QED
  BY <1>1, <1>2, <1>3, <1>4, <1>5, <1>6

\* In ASCII each byte is a character.
LEMMA UnitsIs ==
  ASSUME NEW s \in Short(Ascii)
  PROVE  Units(s) = Len(s)
<1>1. s \in Seq(Ascii) /\ Len(s) \in Nat
  BY ShortLen
<1>2. \A i \in 1..Len(s) : s[i] \in Ascii
  BY <1>1, ElementOfSeq
<1>6. \A x \in Ascii : x \notin 128..191 /\ ~(x >= 240)
  BY DEF Ascii
<1>3. \A i \in 1..Len(s) : s[i] \notin 128..191 /\ ~(s[i] >= 240)
  BY <1>2, <1>6, Zenon
<1>4. /\ {i \in 1..Len(s) : s[i] \notin 128..191} = 1..Len(s)
      /\ {i \in 1..Len(s) : s[i] >= 240} = {}
  BY <1>3, Zenon
<1>5. Cardinality(1..Len(s)) = Len(s)
  <2>1. PICK n \in Nat : n = Len(s)
    BY <1>1
  <2>2. Cardinality(1..n) = n
    BY FS_Interval
  <2>. QED
    BY <2>1, <2>2, Zenon
<1>7. Cardinality({}) = 0
  BY FS_EmptySet
<1>8. Units(s) = Len(s) + 0
  BY <1>4, <1>5, <1>7, Zenon DEF Units
<1>. QED
  BY <1>1, <1>8

\* A short text is short and of bytes.
LEMMA AsciiIsByte ==
  ASSUME NEW s \in Short(Ascii)
  PROVE  s \in Short(Byte)
<1>1. s \in Seq(Ascii) /\ Len(s) < 256
  BY DEF Short
<1>2. Ascii \subseteq Byte
  BY DEF Ascii, Byte
<1>3. s \in Seq(Byte)
  BY <1>1, <1>2, SeqMonotonic
<1>. QED
  BY <1>1, <1>3 DEF Short

\* What the codec makes of a value: it is encoded as itself, or it is an
\* array that it cannot encode.
Good(m) == m \in Value /\ (Encodes[m] => Trips(EncodeOne[m], m)) /\ (~Encodes[m] => HasStrictArray[m])

\* A scalar is a value of any depth.
LEMMA ScalarValue ==
  ASSUME NEW d \in Nat, NEW v \in Scalars
  PROVE  v \in Nested[d] /\ v \in Value
<1>1. Nested[d] = NestedBody(Inner(d))
  BY NestedIs
<1>2. Depth + 1 \in Nat
  BY CommandsAssumption
<1>3. Nested[Depth + 1] = NestedBody(Inner(Depth + 1))
  BY <1>2, NestedIs
<1>. QED
  BY <1>1, <1>3 DEF Value, NestedBody

\* What has no members and a type of JavaScript is encoded as itself.
LEMMA PlainGood ==
  ASSUME NEW m \in Scalars, m.type \in {"number", "bool", "string", "null", "undefined"}
  PROVE  Encodes[m] /\ Good(m)
<1>1. m \in Value
  BY ScalarValue, 0 \in Nat
<1>2. m.keys = <<>> /\ m.parts = <<>> /\ m = Scalar(m.type, m.bytes)
  BY ScalarShape
<1>3. Encodes[m]
  <2>1. Len(m.parts) = 0
    BY <1>2, EmptySeq
  <2>2. EncodesBody(Encodes, m)
    BY <2>1 DEF EncodesBody
  <2>. QED
    BY <1>1, <2>2, EncodesDef, Zenon
<1>4. EncodeOne[m] = EncodedAs(m, OverParts(EncodeOne, m))
  BY <1>1, EncodeOneDef, Zenon
<1>5. CASE m.type = "number"
  <2>1. m.bytes \in [1..8 -> Byte]
    BY <1>5, ScalarShape
  <2>2. Trips(<<0>> \o m.bytes, Scalar("number", m.bytes))
    BY <2>1, NumberTrips
  <2>3. EncodeOne[m] = <<0>> \o m.bytes
    BY <1>4, <1>5, EncodedIs, Zenon
  <2>. QED
    BY <1>1, <1>2, <1>3, <1>5, <2>2, <2>3, Zenon DEF Good
<1>6. CASE m.type = "bool"
  <2>1. m.bytes \in {<<0>>, <<1>>}
    BY <1>6, ScalarShape
  <2>2. PICK n \in {0, 1} : m.bytes = <<n>>
    BY <2>1
  <2>3. Trips(<<1>> \o <<n>>, Scalar("bool", <<n>>))
    BY BoolTrips
  <2>4. EncodeOne[m] = <<1>> \o m.bytes
    BY <1>4, <1>6, EncodedIs, Zenon
  <2>. QED
    BY <1>1, <1>2, <1>3, <1>6, <2>2, <2>3, <2>4, Zenon DEF Good
<1>7. CASE m.type = "string"
  <2>1. m.bytes \in Short(Ascii)
    BY <1>7, ScalarShape
  <2>2. m.bytes \in Short(Byte) /\ Units(m.bytes) = Len(m.bytes)
    BY <2>1, AsciiIsByte, UnitsIs
  <2>3. m.bytes \in Seq(Byte) /\ Len(m.bytes) \in Byte /\ 2 \in Byte /\ 0 \in Byte
    BY <2>2, ShortLen DEF Byte
  <2>4. <<2>> \o <<0, Len(m.bytes)>> = <<2, 0, Len(m.bytes)>>
    BY <2>3, TwoJoin
  <2>5. 2 \in {2, 15}
    OBVIOUS
  <2>6. Trips(<<2>> \o UString(m.bytes), Scalar("string", m.bytes))
        /\ <<2>> \o UString(m.bytes) = <<2, 0, Len(m.bytes)>> \o m.bytes
    BY <2>2, <2>5, TextTrips
  <2>7. EncodeOne[m] = <<2>> \o U16(Units(m.bytes)) \o m.bytes
    BY <1>4, <1>7, EncodedIs, Zenon
  <2>8. EncodeOne[m] = <<2>> \o UString(m.bytes)
    BY <2>2, <2>4, <2>6, <2>7, Zenon DEF U16
  <2>. QED
    BY <1>1, <1>2, <1>3, <1>7, <2>6, <2>8, Zenon DEF Good
<1>8. CASE m.type = "null"
  <2>1. m = Null
    BY <1>2, <1>8, ScalarShape DEF Null
  <2>2. EncodeOne[m] = <<5>>
    BY <1>4, <1>8, EncodedIs, Zenon
  <2>. QED
    BY <1>1, <1>3, <2>1, <2>2, NullTrips, Zenon DEF Good
<1>9. CASE m.type = "undefined"
  <2>1. m = Undefined
    BY <1>2, <1>9, ScalarShape DEF Undefined
  <2>2. EncodeOne[m] = <<6>>
    BY <1>4, <1>9, EncodedIs, Zenon
  <2>. QED
    BY <1>1, <1>3, <2>1, <2>2, NullTrips, Zenon DEF Good
<1>. QED
  BY <1>5, <1>6, <1>7, <1>8, <1>9

\* The types of JavaScript that have no members.
PlainTypes == {"number", "bool", "string", "null", "undefined"}

\* The scalars that decoding gives.
LEMMA ScalarIn ==
  /\ \A x \in [1..8 -> Byte] : Scalar("number", x) \in Scalars /\ Scalar("number", x).type = "number"
  /\ \A x \in Short(Ascii) : Scalar("string", x) \in Scalars /\ Scalar("string", x).type = "string"
  /\ Null \in Scalars /\ Null.type = "null" /\ Undefined \in Scalars /\ Undefined.type = "undefined"
<1>1. \A x \in [1..8 -> Byte] : Scalar("number", x) \in Scalars /\ Scalar("number", x).type = "number"
  BY DEF Scalar, Scalars
<1>2. \A x \in Short(Ascii) : Scalar("string", x) \in Scalars /\ Scalar("string", x).type = "string"
  BY DEF Scalar, Scalars
<1>3. Null \in Scalars /\ Null.type = "null" /\ Undefined \in Scalars /\ Undefined.type = "undefined"
  BY DEF Scalar, Scalars, Null, Undefined
<1>. QED
  BY <1>1, <1>2, <1>3

\* A value without parts is decoded to what it means, and what it means has
\* no parts either.
LEMMA ScalarTrip ==
  ASSUME NEW v \in Scalars
  PROVE  Trips(Bytes[v], Meaning[v]) /\ Meaning[v] \in Scalars /\ Meaning[v].type \in PlainTypes
<1>1. v \in Value
  BY ScalarValue, 0 \in Nat
<1>2. v = Scalar(v.type, v.bytes)
  BY ScalarShape
<1>. DEFINE enc == OverParts(Bytes, v)
            meant == OverParts(Meaning, v)
<1>. HIDE DEF enc, meant
<1>3. Bytes[v] = WrittenAs(v, enc) /\ Meaning[v] = MeantAs(v, meant)
  BY <1>1, BytesDef, MeaningDef, Zenon DEF enc, meant
<1>4. \A x \in Short(Ascii) : x \in Short(Byte)
  BY AsciiIsByte
<1>5. CASE v.type = "number"
  <2>1. v.bytes \in [1..8 -> Byte]
    BY <1>5, ScalarShape
  <2>2. Trips(<<0>> \o v.bytes, Scalar("number", v.bytes))
    BY <2>1, NumberTrips
  <2>3. Bytes[v] = <<0>> \o v.bytes /\ Meaning[v] = Scalar("number", v.bytes)
    BY <1>3, <1>5, WrittenIs, MeantIs, Zenon
  <2>. QED
    BY <2>1, <2>2, <2>3, ScalarIn, Zenon DEF PlainTypes
<1>6. CASE v.type = "date"
  <2>1. v.bytes \in [1..8 -> Byte]
    BY <1>6, ScalarShape
  <2>2. Trips(<<11, 0, 0>> \o v.bytes, Scalar("number", v.bytes))
    BY <2>1, DateTrips
  <2>3. Bytes[v] = <<11, 0, 0>> \o v.bytes /\ Meaning[v] = Scalar("number", v.bytes)
    BY <1>3, <1>6, WrittenIs, MeantIs, Zenon
  <2>. QED
    BY <2>1, <2>2, <2>3, ScalarIn, Zenon DEF PlainTypes
<1>7. CASE v.type = "bool"
  <2>1. v.bytes \in {<<0>>, <<1>>}
    BY <1>7, ScalarShape
  <2>2. PICK n \in {0, 1} : v.bytes = <<n>>
    BY <2>1
  <2>3. Trips(<<1>> \o <<n>>, Scalar("bool", <<n>>))
    BY BoolTrips
  <2>4. Bytes[v] = <<1>> \o v.bytes /\ Meaning[v] = v
    BY <1>3, <1>7, WrittenIs, MeantIs, Zenon
  <2>. QED
    BY <1>2, <1>7, <2>2, <2>3, <2>4, Zenon DEF PlainTypes
<1>8. CASE v.type \in {"string", "xml"}
  <2>1. v.bytes \in Short(Ascii)
    BY <1>8, ScalarShape
  <2>2. v.bytes \in Short(Byte)
    BY <1>4, <2>1
  <2>3. \A m \in {2, 15} : Trips(<<m>> \o UString(v.bytes), Scalar("string", v.bytes))
    BY <2>2, TextTrips
  <2>4. Trips(<<2>> \o UString(v.bytes), Scalar("string", v.bytes))
        /\ Trips(<<15>> \o UString(v.bytes), Scalar("string", v.bytes))
    BY <2>3
  <2>5. Bytes[v] = <<2>> \o UString(v.bytes) \/ Bytes[v] = <<15>> \o UString(v.bytes)
    BY <1>3, <1>8, WrittenIs, Zenon
  <2>6. Meaning[v] = Scalar("string", v.bytes)
    BY <1>3, <1>8, MeantIs, Zenon
  <2>. QED
    BY <2>1, <2>4, <2>5, <2>6, ScalarIn, Zenon DEF PlainTypes
<1>9. CASE v.type = "long"
  <2>1. v.bytes \in Short(Ascii)
    BY <1>9, ScalarShape
  <2>2. Trips(<<12>> \o U32(Len(v.bytes)) \o v.bytes, Scalar("string", v.bytes))
    BY <1>4, <2>1, LongTrips
  <2>3. Bytes[v] = <<12>> \o U32(Len(v.bytes)) \o v.bytes /\ Meaning[v] = Scalar("string", v.bytes)
    BY <1>3, <1>9, WrittenIs, MeantIs, Zenon
  <2>. QED
    BY <2>1, <2>2, <2>3, ScalarIn, Zenon DEF PlainTypes
<1>10. CASE v.type = "null"
  <2>1. v = Null
    BY <1>2, <1>10, ScalarShape DEF Null
  <2>2. Bytes[v] = <<5>> /\ Meaning[v] = v
    BY <1>3, <1>10, WrittenIs, MeantIs, Zenon
  <2>. QED
    BY <2>1, <2>2, ScalarIn, NullTrips, Zenon DEF PlainTypes
<1>11. CASE v.type = "undefined"
  <2>1. v = Undefined
    BY <1>2, <1>11, ScalarShape DEF Undefined
  <2>2. Bytes[v] = <<6>> /\ Meaning[v] = v
    BY <1>3, <1>11, WrittenIs, MeantIs, Zenon
  <2>. QED
    BY <2>1, <2>2, ScalarIn, NullTrips, Zenon DEF PlainTypes
<1>12. CASE v.type = "ref"
  <2>1. PICK n \in 0..9 : v.bytes = <<n>>
    BY <1>12, ScalarShape
  <2>2. n \in Byte /\ 48 + n \in Ascii /\ 114 \in Ascii /\ 101 \in Ascii /\ 102 \in Ascii
    BY <2>1 DEF Byte, Ascii
  <2>3. Trips(<<7, 0>> \o <<n>>, Scalar("string", <<114, 101, 102, 48 + n>>))
    BY <2>2, RefTrips
  <2>4. <<114, 101, 102, 48 + n>> \in Short(Ascii)
    <3>. DEFINE t == <<114, 101, 102, 48 + n>>
    <3>1. t \in Seq(Ascii)
      BY <2>2
    <3>2. Len(t) < 256
      OBVIOUS
    <3>. QED
      BY <3>1, <3>2 DEF Short
  <2>5. Bytes[v] = <<7, 0>> \o v.bytes
        /\ Meaning[v] = Scalar("string", <<114, 101, 102, 48 + v.bytes[1]>>)
    BY <1>3, <1>12, WrittenIs, MeantIs, Zenon
  <2>6. v.bytes[1] = n
    BY <2>1
  <2>7. Bytes[v] = <<7, 0>> \o <<n>> /\ Meaning[v] = Scalar("string", <<114, 101, 102, 48 + n>>)
    BY <2>1, <2>5, <2>6, Zenon
  <2>. QED
    BY <2>3, <2>4, <2>7, ScalarIn, Zenon DEF PlainTypes
<1>. QED
  BY <1>5, <1>6, <1>7, <1>8, <1>9, <1>10, <1>11, <1>12, ScalarShape

\* What f makes of the parts, which are in S, is a sequence over D.
OverPartsFits(f, v, S, D) ==
  /\ OverParts(f, v) \in Seq(D) /\ Len(OverParts(f, v)) = Len(v.parts)
  /\ \A i \in 1..Len(v.parts) : v.parts[i] \in S /\ OverParts(f, v)[i] = f[v.parts[i]]

\* OverParts keeps the number of the parts.
LEMMA OverPartsIs ==
  ASSUME NEW f, NEW v, NEW S, NEW D, v.parts \in Seq(S), \A p \in S : f[p] \in D
  PROVE  OverPartsFits(f, v, S, D)
<1>1. PICK n \in Nat : n = Len(v.parts)
  BY LenProperties
<1>2. \A i \in 1..n : v.parts[i] \in S
  BY <1>1, ElementOfSeq
<1>. DEFINE g == [i \in 1..n |-> f[v.parts[i]]]
<1>3. g \in [1..n -> D] /\ \A i \in 1..n : g[i] = f[v.parts[i]]
  BY <1>2
<1>4. OverParts(f, v) = g
  BY <1>1, Zenon DEF OverParts
<1>. HIDE DEF g
<1>5. g \in Seq(D) /\ Len(g) = n
  BY <1>3
<1>. QED
  BY <1>1, <1>2, <1>3, <1>4, <1>5, Zenon DEF OverPartsFits

\* A key is written in bytes.
LEMMA UStringType ==
  ASSUME NEW s \in Short(Byte)
  PROVE  UString(s) \in Seq(Byte)
<1>1. s \in Seq(Byte) /\ Len(s) \in Byte /\ 0 \in Byte
  BY ShortLen DEF Byte
<1>2. <<0, Len(s)>> \in Seq(Byte)
  BY <1>1
<1>3. <<0, Len(s)>> \o s \in Seq(Byte)
  BY <1>1, <1>2, ConcatProperties
<1>. QED
  BY <1>3, Zenon DEF UString, U16

\* Members are decoded to an object of their keys and of what their values
\* are decoded to.
LEMMA KeyedTrip ==
  ASSUME NEW S, NEW keys \in Seq(Short(Byte) \ {<<>>}), NEW meant \in Seq(S), Len(meant) = Len(keys),
         NEW enc, \A i \in 1..Len(keys) : Trips(enc[i], meant[i])
  PROVE  /\ MembersTrip(Written(keys, enc) \o ObjectEnd, Object(keys, meant))
         /\ Written(keys, enc) \in Seq(Byte)
<1>1. PICK n \in Nat : n = Len(keys)
  BY LenProperties
<1>2. \A i \in 1..n : keys[i] \in Short(Byte) \ {<<>>}
  BY <1>1, ElementOfSeq
<1>3. \A i \in 1..n : UString(keys[i]) \in Seq(Byte) /\ enc[i] \in Seq(Byte)
  <2>. SUFFICES ASSUME NEW i \in 1..n PROVE UString(keys[i]) \in Seq(Byte) /\ enc[i] \in Seq(Byte)
    OBVIOUS
  <2>1. Trips(enc[i], meant[i])
    BY <1>1
  <2>2. keys[i] \in Short(Byte)
    BY <1>2
  <2>. QED
    BY <2>1, <2>2, UStringType DEF Trips
<1>4. \A i \in 1..n : UString(keys[i]) \o enc[i] \in Seq(Byte)
  BY <1>3, ConcatProperties
<1>. DEFINE ms == [i \in 1..n |-> UString(keys[i]) \o enc[i]]
<1>5. ms \in [1..n -> Seq(Byte)] /\ \A i \in 1..n : ms[i] = UString(keys[i]) \o enc[i]
  BY <1>4, Zenon
<1>6. Written(keys, enc) = FlattenSeq(ms)
  BY <1>1, Zenon DEF Written
<1>. HIDE DEF ms
<1>7. ms \in Seq(Seq(Byte)) /\ Len(ms) = n
  BY <1>5
<1>8. Len(ms) = Len(keys) /\ \A i \in 1..Len(keys) : ms[i] = UString(keys[i]) \o enc[i] /\ Trips(enc[i], meant[i])
  BY <1>1, <1>5, <1>7, Zenon
<1>9. MembersTrip(FlattenSeq(ms) \o ObjectEnd, Object(keys, meant))
  BY <1>7, <1>8, MembersLoop
<1>10. FlattenSeq(ms) \in Seq(Byte)
  BY <1>7, FlattenType
<1>. QED
  BY <1>6, <1>9, <1>10, Zenon

\* The fields of an object and of a strict array.
LEMMA ObjectTwice ==
  ASSUME NEW keys, NEW parts
  PROVE  /\ Object(keys, parts).keys = keys /\ Object(keys, parts).parts = parts
         /\ Object(keys, parts).type = "object" /\ Object(keys, parts).bytes = <<>>
         /\ StrictArray(parts).parts = parts /\ StrictArray(parts).type = "sarray"
BY DEF Object, StrictArray

\* The names of members are short strings, and not empty.
LEMMA NamesAre == Seq(Names) \subseteq Seq(Short(Byte) \ {<<>>})
<1>1. \A s \in Names : s \in Short(Byte) \ {<<>>}
  BY AsciiIsByte DEF Names
<1>. QED
  BY <1>1, SeqMonotonic

\* What Object makes is one of the values with members, and those are all
\* that have its type.
LEMMA ObjectKeyed ==
  ASSUME NEW S
  PROVE  /\ \A v \in Keyed("object", {<<>>}, S) : v = Object(v.keys, v.parts)
         /\ \A keys \in Seq(Names), parts \in Seq(S) :
              Len(keys) = Len(parts) /\ IsInjective(keys) => Object(keys, parts) \in Keyed("object", {<<>>}, S)
BY DEF Keyed, Object

\* An object is good when its members are.
LEMMA ObjectGood ==
  ASSUME NEW S, NEW m \in Keyed("object", {<<>>}, S), m \in Value,
         \A i \in 1..Len(m.parts) : Good(m.parts[i])
  PROVE  Good(m)
<1>. DEFINE enc == OverParts(EncodeOne, m)
<1>1. m.keys \in Seq(Short(Byte) \ {<<>>}) /\ m.parts \in Seq(S) /\ Len(m.parts) = Len(m.keys)
      /\ m.type = "object" /\ m = Object(m.keys, m.parts)
  BY ObjectKeyed, NamesAre DEF Keyed
<1>2. m.type # "sarray"
  BY <1>1
<1>3. Encodes[m] <=> \A i \in 1..Len(m.parts) : Encodes[m.parts[i]]
  <2>1. Encodes[m] = EncodesBody(Encodes, m)
    BY EncodesDef
  <2>. QED
    BY <1>2, <2>1 DEF EncodesBody
<1>4. \A i \in 1..Len(m.parts) : enc[i] = EncodeOne[m.parts[i]]
  BY Zenon DEF OverParts
<1>5. EncodeOne[m] = EncodedAs(m, enc)
  BY EncodeOneDef, Zenon
<1>. HIDE DEF enc
<1>6. ASSUME Encodes[m] PROVE Trips(EncodeOne[m], m)
  <2>1. \A i \in 1..Len(m.parts) : Trips(enc[i], m.parts[i])
    BY <1>3, <1>4, <1>6, Zenon DEF Good
  <2>2. \A i \in 1..Len(m.keys) : Trips(enc[i], m.parts[i])
    BY <1>1, <2>1, Zenon
  <2>3. MembersTrip(Written(m.keys, enc) \o ObjectEnd, Object(m.keys, m.parts)) /\ Written(m.keys, enc) \in Seq(Byte)
    BY <1>1, <2>2, KeyedTrip
  <2>4. Trips(<<3>> \o (Written(m.keys, enc) \o ObjectEnd), Object(m.keys, m.parts))
    BY <2>3, ObjectTrips
  <2>5. EncodeOne[m] = <<3>> \o Written(m.keys, enc) \o ObjectEnd
    BY <1>1, <1>5, EncodedIs, Zenon
  <2>6. <<3>> \in Seq(Byte) /\ ObjectEnd \in Seq(Byte)
    BY DEF ObjectEnd, Byte
  <2>7. Regroups(<<3>>, Written(m.keys, enc), ObjectEnd)
    BY <2>3, <2>6, Regroup, Zenon
  <2>8. EncodeOne[m] = <<3>> \o (Written(m.keys, enc) \o ObjectEnd)
    BY <2>5, <2>7, Zenon DEF Regroups
  <2>. QED
    BY <1>1, <2>4, <2>8, Zenon
<1>7. ASSUME ~Encodes[m] PROVE HasStrictArray[m]
  <2>1. PICK i \in 1..Len(m.parts) : ~Encodes[m.parts[i]]
    BY <1>3, <1>7, Zenon
  <2>2. HasStrictArray[m.parts[i]]
    BY <2>1, Zenon DEF Good
  <2>3. HasStrictArray[m] = StrictBody(HasStrictArray, m)
    BY HasStrictArrayDef
  <2>. QED
    BY <2>2, <2>3, Zenon DEF StrictBody
<1>. QED
  BY <1>6, <1>7, Zenon DEF Good

\* A strict array is one of those that cannot be encoded.
LEMMA StrictGood ==
  ASSUME NEW m \in Value, m.type = "sarray"
  PROVE  ~Encodes[m] /\ HasStrictArray[m] /\ Good(m)
<1>1. Encodes[m] = EncodesBody(Encodes, m)
  BY EncodesDef
<1>2. HasStrictArray[m] = StrictBody(HasStrictArray, m)
  BY HasStrictArrayDef
<1>3. ~Encodes[m]
  BY <1>1 DEF EncodesBody
<1>4. HasStrictArray[m]
  BY <1>2, Zenon DEF StrictBody
<1>. QED
  BY <1>3, <1>4, Zenon DEF Good

-----------------------------------------------------------------------------
(* The round trip: every value is decoded to what it means, and what it    *)
(* means is encoded so that it is decoded to itself.                       *)

Round(v, D) == Trips(Bytes[v], Meaning[v]) /\ Meaning[v] \in D /\ Good(Meaning[v])

\* An object whose members are good, and out of D.
GoodObject(m, D) == m \in Keyed("object", {<<>>}, D) /\ \A i \in 1..Len(m.parts) : Good(m.parts[i])

\* Parts that are decoded to what they mean make an object that is.
LEMMA MembersRound ==
  ASSUME NEW S, NEW D, NEW v, v.keys \in Seq(Names), v.parts \in Seq(S),
         Len(v.keys) = Len(v.parts), IsInjective(v.keys), \A p \in S : Round(p, D)
  PROVE  /\ OverParts(Meaning, v) \in Seq(D) /\ Len(OverParts(Meaning, v)) = Len(v.keys)
         /\ GoodObject(Object(v.keys, OverParts(Meaning, v)), D)
         /\ MembersTrip(Written(v.keys, OverParts(Bytes, v)) \o ObjectEnd, Object(v.keys, OverParts(Meaning, v)))
         /\ Written(v.keys, OverParts(Bytes, v)) \in Seq(Byte)
<1>. DEFINE enc == OverParts(Bytes, v)
            meant == OverParts(Meaning, v)
<1>1. (\A p \in S : Meaning[p] \in D) /\ \A p \in S : Bytes[p] \in Seq(Byte)
  BY Zenon DEF Round, Trips
<1>2. /\ meant \in Seq(D) /\ Len(meant) = Len(v.parts)
      /\ \A i \in 1..Len(v.parts) : v.parts[i] \in S /\ meant[i] = Meaning[v.parts[i]]
  <2>1. OverPartsFits(Meaning, v, S, D)
    BY <1>1, OverPartsIs, Zenon
  <2>. QED
    BY <2>1, Zenon DEF OverPartsFits
<1>3. \A i \in 1..Len(v.parts) : enc[i] = Bytes[v.parts[i]]
  <2>1. OverPartsFits(Bytes, v, S, Seq(Byte))
    BY <1>1, OverPartsIs, Zenon
  <2>. QED
    BY <2>1, Zenon DEF OverPartsFits
<1>. HIDE DEF enc, meant
<1>4. \A i \in 1..Len(v.keys) : Trips(enc[i], meant[i]) /\ Good(meant[i])
  <2>. SUFFICES ASSUME NEW i \in 1..Len(v.parts) PROVE Trips(enc[i], meant[i]) /\ Good(meant[i])
    BY Zenon
  <2>1. v.parts[i] \in S /\ meant[i] = Meaning[v.parts[i]] /\ enc[i] = Bytes[v.parts[i]]
    BY <1>2, <1>3, Zenon
  <2>2. Round(v.parts[i], D)
    BY <2>1
  <2>. QED
    BY <2>1, <2>2, Zenon DEF Round
<1>5. Len(meant) = Len(v.keys)
  BY <1>2
<1>6. \A i \in 1..Len(v.keys) : Trips(enc[i], meant[i])
  BY <1>4
<1>7. MembersTrip(Written(v.keys, enc) \o ObjectEnd, Object(v.keys, meant)) /\ Written(v.keys, enc) \in Seq(Byte)
  BY <1>2, <1>5, <1>6, NamesAre, KeyedTrip
<1>8. Len(v.keys) = Len(meant)
  BY <1>5
<1>9. Object(v.keys, meant) \in Keyed("object", {<<>>}, D)
  BY <1>2, <1>8, ObjectKeyed
<1>10. Object(v.keys, meant).parts = meant
  BY ObjectTwice
<1>11. GoodObject(Object(v.keys, meant), D)
  BY <1>4, <1>5, <1>9, <1>10, Zenon DEF GoodObject
<1>. QED
  BY <1>2, <1>5, <1>7, <1>11 DEF enc, meant

\* The name under which decoding keeps the class can be a key.
LEMMA ClassNameIs == ClassName \in Names
<1>. DEFINE proto == <<95, 95, 112, 114, 111, 116, 111, 95, 95>>
<1>1. <<95, 95>> \in Seq(Ascii) /\ Len(<<95, 95>>) = 2 /\ <<95, 95>> # <<>> /\ <<95, 95>>[1] = 95
  BY DEF Ascii
<1>2. Len(proto) = 9
  OBVIOUS
<1>. HIDE DEF proto
<1>3. <<95, 95>> # proto /\ 95 \notin 48..57
  BY <1>1, <1>2
<1>. QED
  BY <1>1, <1>3 DEF ClassName, Short, Names, proto

\* A further member of another name.
LEMMA MoreMembers ==
  ASSUME NEW D, NEW keys, NEW parts, GoodObject(Object(keys, parts), D),
         NEW key \in Names, NEW part \in D, Good(part),
         \A i \in 1..Len(keys) : keys[i] # key
  PROVE  GoodObject(Object(Append(keys, key), Append(parts, part)), D)
<1>. DEFINE K == Names
            more == Append(keys, key)
            rest == Append(parts, part)
<1>1. Object(keys, parts).keys = keys /\ Object(keys, parts).parts = parts
  BY ObjectTwice
<1>2. keys \in Seq(K) /\ parts \in Seq(D) /\ Len(keys) = Len(parts) /\ IsInjective(keys)
  BY <1>1 DEF GoodObject, Keyed
<1>3. \A i \in 1..Len(parts) : Good(parts[i])
  BY <1>1 DEF GoodObject
<1>. HIDE DEF K
<1>4. key \in K
  BY DEF K
<1>5. /\ more \in Seq(K) /\ Len(more) = Len(keys) + 1 /\ more[Len(keys) + 1] = key
      /\ \A i \in 1..Len(keys) : more[i] = keys[i]
  BY <1>2, <1>4, AppendProperties
<1>6. /\ rest \in Seq(D) /\ Len(rest) = Len(parts) + 1 /\ rest[Len(parts) + 1] = part
      /\ \A i \in 1..Len(parts) : rest[i] = parts[i]
  BY <1>2, AppendProperties
<1>. HIDE DEF more, rest
<1>7. PICK n \in Nat : n = Len(keys)
  BY <1>2, LenProperties
<1>8. IsInjective(more)
  <2>1. \A i, j \in 1..n : keys[i] = keys[j] => i = j
    BY <1>2, <1>7 DEF IsInjective
  <2>2. DOMAIN more = 1..(n + 1)
    BY <1>5, <1>7
  <2>3. \A i \in 1..(n + 1) : i \in 1..n \/ i = n + 1
    OBVIOUS
  <2>4. more[n + 1] = key /\ (\A i \in 1..n : more[i] = keys[i]) /\ \A i \in 1..n : keys[i] # key
    BY <1>5, <1>7, Zenon
  <2>5. \A i, j \in 1..(n + 1) : more[i] = more[j] => i = j
    BY <2>1, <2>3, <2>4, Zenon
  <2>. QED
    BY <2>2, <2>5 DEF IsInjective
<1>9. \A i \in 1..Len(rest) : Good(rest[i])
  <2>1. Len(parts) = n /\ Len(rest) = n + 1
    BY <1>2, <1>6, <1>7
  <2>2. \A i \in 1..(n + 1) : i \in 1..n \/ i = n + 1
    OBVIOUS
  <2>3. rest[n + 1] = part /\ \A i \in 1..n : rest[i] = parts[i] /\ Good(parts[i])
    BY <1>3, <1>6, <2>1, Zenon
  <2>. QED
    BY <2>1, <2>2, <2>3, Zenon
<1>10. Len(more) = Len(rest)
  BY <1>2, <1>5, <1>6
<1>11. Object(more, rest) \in Keyed("object", {<<>>}, D)
  BY <1>5, <1>6, <1>8, <1>10, ObjectKeyed DEF K
<1>12. Object(more, rest).parts = rest
  BY ObjectTwice
<1>13. GoodObject(Object(more, rest), D)
  BY <1>9, <1>11, <1>12, Zenon DEF GoodObject
<1>. QED
  BY <1>13 DEF more, rest

\* The values of a depth that commands may have.
LEMMA Within ==
  ASSUME NEW d \in Nat, d <= Depth
  PROVE  /\ Nested[d + 1] \subseteq Value /\ Nested[d + 1] = NestedBody(Nested[d]) /\ Nested[d] \subseteq Nested[d + 1]
         /\ Scalars \subseteq Nested[d] /\ Nested[d] = NestedBody(Inner(d)) /\ Inner(d) \subseteq Nested[d]
<1>1. Depth \in Nat /\ d + 1 \in Nat /\ Depth + 1 \in Nat /\ d + 1 <= Depth + 1 /\ d <= d + 1
      /\ d + 1 # 0 /\ (d + 1) - 1 = d
  BY CommandsAssumption
<1>2. Nested[d + 1] \subseteq Nested[Depth + 1] /\ Nested[d] \subseteq Nested[d + 1]
  BY <1>1, NestedMonotonic
<1>3. Inner(d + 1) = Nested[d]
  BY <1>1, Zenon DEF Inner
<1>4. Nested[d + 1] = NestedBody(Inner(d + 1)) /\ Nested[d] = NestedBody(Inner(d))
  BY <1>1, NestedIs
<1>5. Scalars \subseteq Nested[d] /\ Inner(d) \subseteq Nested[d]
  BY <1>4, NestedGrows DEF NestedBody
<1>. QED
  BY <1>2, <1>3, <1>4, <1>5 DEF Value

\* An object of good members is good.
LEMMA ObjectRound ==
  ASSUME NEW d \in Nat, d <= Depth, NEW m, GoodObject(m, Nested[d])
  PROVE  m \in Nested[d + 1] /\ Good(m)
<1>1. Nested[d + 1] \subseteq Value /\ Nested[d + 1] = NestedBody(Nested[d])
  BY Within
<1>2. m \in Keyed("object", {<<>>}, Nested[d]) /\ \A i \in 1..Len(m.parts) : Good(m.parts[i])
  BY DEF GoodObject
<1>3. m \in Nested[d + 1]
  BY <1>1, <1>2 DEF NestedBody
<1>4. m \in Value
  BY <1>1, <1>3
<1>. QED
  BY <1>2, <1>3, <1>4, ObjectGood

\* What a value means that has keys.
LEMMA KeyedMeaning ==
  ASSUME NEW d \in Nat, d <= Depth, \A p \in Inner(d) : Round(p, Nested[d]), NEW v \in Nested[d],
         v.type \in {"object", "typed"}
  PROVE  Trips(Bytes[v], Meaning[v]) /\ GoodObject(Meaning[v], Nested[d])
<1>. DEFINE enc == OverParts(Bytes, v)
            meant == OverParts(Meaning, v)
            c == Scalar("string", v.bytes)
<1>1. v \in Value /\ Scalars \subseteq Nested[d] /\ v \in NestedBody(Inner(d))
  BY Within
<1>2. Bytes[v] = WrittenAs(v, enc) /\ Meaning[v] = MeantAs(v, meant)
  BY <1>1, BytesDef, MeaningDef, Zenon
<1>3. v \notin Scalars
  BY ScalarShape
<1>4. \/ v \in Keyed("object", {<<>>}, Inner(d))
      \/ v \in Keyed("typed", Short(Ascii), Inner(d)) /\ \A i \in 1..Len(v.keys) : v.keys[i] # ClassName
  <2>1. v.type # "sarray"
    OBVIOUS
  <2>2. v \notin [type : {"sarray"}, bytes : {<<>>}, keys : {<<>>}, parts : Short(Inner(d))]
    BY <2>1
  <2>. QED
    BY <1>1, <1>3, <2>2, BodyShape
<1>5. v.keys \in Seq(Names) /\ v.parts \in Seq(Inner(d)) /\ Len(v.keys) = Len(v.parts)
      /\ IsInjective(v.keys)
  BY <1>4 DEF Keyed
<1>6. /\ meant \in Seq(Nested[d]) /\ Len(meant) = Len(v.keys)
      /\ GoodObject(Object(v.keys, meant), Nested[d])
      /\ MembersTrip(Written(v.keys, enc) \o ObjectEnd, Object(v.keys, meant))
      /\ Written(v.keys, enc) \in Seq(Byte)
  BY <1>5, MembersRound
<1>. HIDE DEF enc, meant, c
<1>7. ASSUME v.type = "object" PROVE Trips(Bytes[v], Meaning[v]) /\ GoodObject(Meaning[v], Nested[d])
  <2>1. Trips(<<3>> \o (Written(v.keys, enc) \o ObjectEnd), Object(v.keys, meant))
    BY <1>6, ObjectTrips
  <2>2. Bytes[v] = <<3>> \o (Written(v.keys, enc) \o ObjectEnd) /\ Meaning[v] = Object(v.keys, meant)
    BY <1>2, <1>7, WrittenIs, MeantIs, Zenon
  <2>. QED
    BY <1>6, <2>1, <2>2, Zenon
<1>8. ASSUME v.type = "typed" PROVE Trips(Bytes[v], Meaning[v]) /\ GoodObject(Meaning[v], Nested[d])
  <2>1. v.bytes \in Short(Ascii) /\ \A i \in 1..Len(v.keys) : v.keys[i] # ClassName
    BY <1>4, <1>8 DEF Keyed
  <2>2. v.bytes \in Short(Byte)
    BY <2>1, AsciiIsByte
  <2>3. Object(v.keys, meant).keys = v.keys /\ Object(v.keys, meant).parts = meant
    BY ObjectTwice
  <2>4. Trips(<<16>> \o UString(v.bytes) \o (Written(v.keys, enc) \o ObjectEnd),
              Object(Append(Object(v.keys, meant).keys, ClassName), Append(Object(v.keys, meant).parts, c)))
    BY <1>6, <2>2, TypedTrips DEF c
  <2>5. c \in Scalars /\ c.type \in {"number", "bool", "string", "null", "undefined"}
    BY <2>1, ScalarIn DEF c
  <2>6. c \in Nested[d] /\ Good(c)
    BY <1>1, <2>5, PlainGood
  <2>7. GoodObject(Object(Append(v.keys, ClassName), Append(meant, c)), Nested[d])
    BY <1>6, <2>1, <2>6, ClassNameIs, MoreMembers
  <2>8. Bytes[v] = <<16>> \o UString(v.bytes) \o (Written(v.keys, enc) \o ObjectEnd)
    BY <1>2, <1>8, WrittenIs, Zenon
  <2>9. Meaning[v] = Object(Append(v.keys, ClassName), Append(meant, c))
    BY <1>2, <1>8, MeantIs, Zenon DEF c
  <2>. QED
    BY <2>3, <2>4, <2>7, <2>8, <2>9, Zenon
<1>. QED
  BY <1>7, <1>8

\* A strict array is decoded to what its items mean.
LEMMA StrictMeaning ==
  ASSUME NEW d \in Nat, d <= Depth, \A p \in Inner(d) : Round(p, Nested[d]), NEW v \in Nested[d],
         v.type = "sarray"
  PROVE  Round(v, Nested[d + 1])
<1>. DEFINE enc == OverParts(Bytes, v)
            meant == OverParts(Meaning, v)
<1>1. v \in Value /\ v \in NestedBody(Inner(d)) /\ Nested[d + 1] \subseteq Value /\ Nested[d + 1] = NestedBody(Nested[d])
  BY Within
<1>2. Bytes[v] = WrittenAs(v, enc) /\ Meaning[v] = MeantAs(v, meant)
  BY <1>1, BytesDef, MeaningDef, Zenon
<1>3. v \notin Scalars
  BY ScalarShape
<1>4. v.parts \in Short(Inner(d))
  <2>1. \A type, bytes : v \in Keyed(type, bytes, Inner(d)) => v.type = type
    BY DEF Keyed
  <2>2. v.type # "object" /\ v.type # "typed"
    OBVIOUS
  <2>3. v \in [type : {"sarray"}, bytes : {<<>>}, keys : {<<>>}, parts : Short(Inner(d))]
    BY <1>1, <1>3, <2>1, <2>2, BodyShape, Zenon
  <2>. QED
    BY <2>3
<1>5. v.parts \in Seq(Inner(d)) /\ Len(v.parts) \in Byte
  BY <1>4, ShortLen
<1>6. (\A p \in Inner(d) : Meaning[p] \in Nested[d]) /\ \A p \in Inner(d) : Bytes[p] \in Seq(Byte)
  BY Zenon DEF Round, Trips
<1>7. OverPartsFits(Meaning, v, Inner(d), Nested[d]) /\ OverPartsFits(Bytes, v, Inner(d), Seq(Byte))
  BY <1>5, <1>6, OverPartsIs, Zenon
<1>. HIDE DEF enc, meant
<1>8. meant \in Seq(Nested[d]) /\ enc \in Seq(Seq(Byte)) /\ Len(meant) = Len(v.parts) /\ Len(enc) = Len(v.parts)
  BY <1>7, Zenon DEF enc, meant, OverPartsFits
<1>9. \A i \in 1..Len(v.parts) : Trips(enc[i], meant[i])
  <2>. SUFFICES ASSUME NEW i \in 1..Len(v.parts) PROVE Trips(enc[i], meant[i])
    OBVIOUS
  <2>1. v.parts[i] \in Inner(d) /\ meant[i] = Meaning[v.parts[i]] /\ enc[i] = Bytes[v.parts[i]]
    BY <1>7, Zenon DEF enc, meant, OverPartsFits
  <2>. QED
    BY <2>1, Zenon DEF Round
<1>10. Len(meant) = Len(enc) /\ Len(enc) \in Byte /\ \A i \in 1..Len(enc) : Trips(enc[i], meant[i])
  BY <1>5, <1>8, <1>9, Zenon
<1>11. ItemsTrip(FlattenSeq(enc), Len(enc), StrictArray(meant))
  BY <1>8, <1>10, ItemsLoop
<1>12. Trips(<<10>> \o U32(Len(enc)) \o FlattenSeq(enc), StrictArray(meant))
  BY <1>10, <1>11, SArrayTrips
<1>13. Bytes[v] = <<10>> \o U32(Len(v.parts)) \o FlattenSeq(enc) /\ Meaning[v] = StrictArray(meant)
  BY <1>2, WrittenIs, MeantIs, Zenon
<1>14. StrictArray(meant) \in Nested[d + 1]
  <2>1. Len(meant) < 256
    <3>1. Len(meant) \in Byte
      BY <1>10
    <3>2. \A k \in Byte : k < 256
      BY DEF Byte
    <3>. QED
      BY <3>1, <3>2, Zenon
  <2>2. meant \in Short(Nested[d])
    BY <1>8, <2>1 DEF Short
  <2>3. StrictArray(meant) \in [type : {"sarray"}, bytes : {<<>>}, keys : {<<>>}, parts : Short(Nested[d])]
    BY <2>2 DEF StrictArray
  <2>. QED
    BY <1>1, <2>3 DEF NestedBody
<1>15. StrictArray(meant).type = "sarray" /\ StrictArray(meant) \in Value
  BY <1>1, <1>14, ObjectTwice
<1>16. Good(StrictArray(meant))
  BY <1>15, StrictGood
<1>. QED
  BY <1>8, <1>12, <1>13, <1>14, <1>16, Zenon DEF Round

\* Values trip when those that are nested less deep do.
LEMMA RoundStep ==
  ASSUME NEW d \in Nat, d <= Depth, \A p \in Inner(d) : Round(p, Nested[d])
  PROVE  \A v \in Nested[d] : Round(v, Nested[d + 1])
<1>. SUFFICES ASSUME NEW v \in Nested[d] PROVE Round(v, Nested[d + 1])
  OBVIOUS
<1>1. v \in NestedBody(Inner(d)) /\ Scalars \subseteq Nested[d] /\ Nested[d] \subseteq Nested[d + 1]
  BY Within
<1>2. CASE v \in Scalars
  <2>1. Trips(Bytes[v], Meaning[v]) /\ Meaning[v] \in Scalars /\ Meaning[v].type \in PlainTypes
    BY <1>2, ScalarTrip
  <2>2. Meaning[v] \in Scalars /\ Meaning[v].type \in {"number", "bool", "string", "null", "undefined"}
    BY <2>1 DEF PlainTypes
  <2>3. Good(Meaning[v])
    BY <2>2, PlainGood
  <2>. QED
    BY <1>1, <2>1, <2>3 DEF Round
<1>3. CASE v.type \in {"object", "typed"}
  <2>1. Trips(Bytes[v], Meaning[v]) /\ GoodObject(Meaning[v], Nested[d])
    BY <1>3, KeyedMeaning
  <2>2. Meaning[v] \in Nested[d + 1] /\ Good(Meaning[v])
    BY <2>1, ObjectRound
  <2>. QED
    BY <2>1, <2>2, Zenon DEF Round
<1>4. CASE v.type = "sarray"
  BY <1>4, StrictMeaning
<1>5. v \in Scalars \/ v.type \in {"object", "typed"} \/ v.type = "sarray"
  <2>1. \A type, bytes : v \in Keyed(type, bytes, Inner(d)) => v.type = type
    BY DEF Keyed
  <2>2. v \in [type : {"sarray"}, bytes : {<<>>}, keys : {<<>>}, parts : Short(Inner(d))] => v.type = "sarray"
    OBVIOUS
  <2>. QED
    BY <1>1, <2>1, <2>2, BodyShape, Zenon
<1>. QED
  BY <1>2, <1>3, <1>4, <1>5

\* Each decoder takes just the bytes of its value and gives what the value
\* means, however the values are nested; and encodeOne writes what it gave
\* in a way that decodes to the same again, unless a strict array is in it.
THEOREM RoundTrip ==
  \A d \in Nat : d <= Depth => \A v \in Nested[d] : Round(v, Nested[d + 1])
<1>. DEFINE T == {d \in Nat : d <= Depth => \A v \in Nested[d] : Round(v, Nested[d + 1])}
<1>1. 0 \in T
  <2>1. 0 <= Depth /\ 0 \in Nat
    BY CommandsAssumption
  <2>2. Inner(0) = {}
    BY Zenon DEF Inner
  <2>3. \A v \in Nested[0] : Round(v, Nested[0 + 1])
    BY <2>1, <2>2, RoundStep
  <2>. QED
    BY <2>1, <2>3
<1>2. ASSUME NEW d \in Nat, d \in T PROVE d + 1 \in T
  <2>1. SUFFICES ASSUME d + 1 <= Depth PROVE \A v \in Nested[d + 1] : Round(v, Nested[(d + 1) + 1])
    OBVIOUS
  <2>2. d + 1 \in Nat /\ d <= Depth /\ d + 1 # 0 /\ (d + 1) - 1 = d
    BY <2>1, CommandsAssumption
  <2>3. Inner(d + 1) = Nested[d]
    BY <2>2, Zenon DEF Inner
  <2>4. \A p \in Inner(d + 1) : Round(p, Nested[d + 1])
    BY <1>2, <2>2, <2>3
  <2>. QED
    BY <2>1, <2>2, <2>4, RoundStep
<1>. HIDE DEF T
<1>3. \A d \in Nat : d \in T
  BY <1>1, <1>2, Induction
<1>. QED
  BY <1>3, Zenon DEF T

\* The parts of what commands hold trip.
LEMMA DepthIs ==
  /\ Depth \in Nat /\ Depth - 1 \in Nat /\ Depth + 1 \in Nat /\ Depth <= Depth /\ Depth - 1 <= Depth
  /\ (Depth - 1) + 1 = Depth /\ Inner(Depth) = Nested[Depth - 1]
  /\ \A p \in Inner(Depth) : Round(p, Nested[Depth])
<1>1. /\ Depth \in Nat /\ Depth - 1 \in Nat /\ Depth + 1 \in Nat /\ Depth <= Depth /\ Depth - 1 <= Depth
      /\ (Depth - 1) + 1 = Depth /\ Depth # 0
  BY CommandsAssumption
<1>2. Inner(Depth) = Nested[Depth - 1]
  BY <1>1, Zenon DEF Inner
<1>3. \A p \in Nested[Depth - 1] : Round(p, Nested[(Depth - 1) + 1])
  BY <1>1, RoundTrip
<1>. QED
  BY <1>1, <1>2, <1>3

\* An ECMA array decodes as its object, but for one byte too many.
LEMMA ArrayRound ==
  ASSUME NEW v \in Arrays
  PROVE  /\ Bytes[v] \in Seq(Byte) /\ Len(Bytes[v]) \in Nat \ {0}
         /\ \A r \in Seq(Byte) : DecodeOne(Bytes[v] \o r) = Decoded(Len(Bytes[v]) + 1, Meaning[v])
         /\ GoodObject(Meaning[v], Nested[Depth])
<1>. DEFINE enc == OverParts(Bytes, v)
            meant == OverParts(Meaning, v)
            mem == Written(v.keys, enc) \o ObjectEnd
<1>1. v \in Value /\ v.type = "array"
  BY ArrayParts DEF Value
<1>2. Bytes[v] = WrittenAs(v, enc) /\ Meaning[v] = MeantAs(v, meant)
  BY <1>1, BytesDef, MeaningDef, Zenon
<1>3. v.keys \in Seq(Names) /\ v.parts \in Seq(Inner(Depth)) /\ Len(v.keys) = Len(v.parts)
      /\ IsInjective(v.keys) /\ Len(v.keys) < 256
  BY DepthIs DEF Arrays, Keyed
<1>4. \A p \in Inner(Depth) : Round(p, Nested[Depth])
  BY DepthIs
<1>5. /\ GoodObject(Object(v.keys, meant), Nested[Depth])
      /\ MembersTrip(mem, Object(v.keys, meant))
  BY <1>3, <1>4, MembersRound
<1>6. Len(v.keys) \in Byte
  <2>1. PICK n \in Nat : n = Len(v.keys)
    BY <1>3, LenProperties
  <2>2. n < 256
    BY <1>3, <2>1
  <2>3. n \in Byte
    BY <2>2 DEF Byte
  <2>. QED
    BY <2>1, <2>3
<1>7. Bytes[v] = <<8>> \o U32(Len(v.keys)) \o mem /\ Meaning[v] = Object(v.keys, meant)
  BY <1>1, <1>2, WrittenIs, MeantIs, Zenon
<1>. HIDE DEF enc, meant, mem
<1>8. /\ <<8>> \o U32(Len(v.keys)) \o mem \in Seq(Byte) /\ Len(<<8>> \o U32(Len(v.keys)) \o mem) \in Nat \ {0}
      /\ \A r \in Seq(Byte) : DecodeOne((<<8>> \o U32(Len(v.keys)) \o mem) \o r)
                                = Decoded(Len(<<8>> \o U32(Len(v.keys)) \o mem) + 1, Object(v.keys, meant))
  <2>1. <<>> \in Seq(Byte)
    BY EmptySeq
  <2>2. <<8>> \o U32(Len(v.keys)) \o mem \in Seq(Byte) /\ Len(<<8>> \o U32(Len(v.keys)) \o mem) \in Nat \ {0}
    BY <1>5, <1>6, <2>1, ArrayIs
  <2>3. ASSUME NEW r \in Seq(Byte)
        PROVE  DecodeOne((<<8>> \o U32(Len(v.keys)) \o mem) \o r)
                 = Decoded(Len(<<8>> \o U32(Len(v.keys)) \o mem) + 1, Object(v.keys, meant))
    BY <1>5, <1>6, ArrayIs
  <2>. QED
    BY <2>2, <2>3, Zenon
<1>. QED
  BY <1>5, <1>7, <1>8, Zenon

-----------------------------------------------------------------------------
(* The loop over the fields.                                               *)

\* The fields that are written as enc[1], enc[2]... are decoded to vs[1],
\* vs[2]...: of the last one a byte too many may be counted.
Reads(enc, vs) ==
  /\ enc \in Seq(Seq(Byte)) /\ Len(vs) = Len(enc)
  /\ \A i \in 1..Len(enc) :
       /\ Len(enc[i]) # 0
       /\ \/ \A r \in Seq(Byte) : DecodeOne(enc[i] \o r) = Decoded(Len(enc[i]), vs[i])
          \/ i = Len(enc) /\ \A r \in Seq(Byte) : DecodeOne(enc[i] \o r) = Decoded(Len(enc[i]) + 1, vs[i])

\* The fields fs are decoded, and the bytes b are left.
Reading(enc, vs, fs, b) ==
  Len(fs) \in 0..Len(enc) /\ fs = SubSeq(vs, 1, Len(fs)) /\ b = FlattenSeq(From(enc, Len(fs) + 1))

\* Before the first field none is decoded.
LEMMA ReadingBegins ==
  ASSUME NEW enc, NEW vs, Reads(enc, vs)
  PROVE  Reading(enc, vs, <<>>, FlattenSeq(enc))
<1>1. PICK n \in Nat : n = Len(enc)
  BY LenProperties DEF Reads
<1>2. 0 \in 0..n /\ 0 + 1 = 1 /\ 0 < 1 /\ 0 \in Int /\ 1 \in Int
  BY <1>1
<1>3. SubSeq(vs, 1, 0) = <<>>
  BY <1>2, SubSeqEmpty
<1>4. From(enc, 1) = enc
  BY FromOne DEF Reads
<1>5. Len(<<>>) = 0
  BY EmptySeq
<1>. QED
  BY <1>1, <1>2, <1>3, <1>4, <1>5, Zenon DEF Reading

\* One more of a sequence.
LEMMA OneMore ==
  ASSUME NEW S, NEW s \in Seq(S), NEW n \in Nat, n + 1 \in 1..Len(s)
  PROVE  Append(SubSeq(s, 1, n), s[n + 1]) = SubSeq(s, 1, n + 1) /\ Len(SubSeq(s, 1, n + 1)) = n + 1
<1>1. PICK l \in Nat : l = Len(s)
  BY LenProperties
<1>2. \A i \in 1..l : s[i] \in S
  BY <1>1, ElementOfSeq
<1>3. n + 1 <= l /\ 1 \in Int /\ n \in Int /\ n + 1 \in Int /\ 1 <= n + 1 /\ (n + 1) - 1 + 1 = n + 1
      /\ n - 1 + 1 = n /\ (~(1 <= n) => n = 0)
  BY <1>1
<1>4. (\A i \in 1..n : i \in 1..l) /\ (\A i \in 1..(n + 1) : i \in 1..l)
  BY <1>3
<1>. DEFINE a == SubSeq(s, 1, n)
            b == SubSeq(s, 1, n + 1)
<1>5. a \in Seq(S) /\ Len(a) = (IF 1 <= n THEN n - 1 + 1 ELSE 0) /\ \A i \in 1..(n - 1 + 1) : a[i] = s[1 + i - 1]
  BY <1>2, <1>3, <1>4, SubSeqProperties
<1>6. /\ b \in Seq(S) /\ Len(b) = (IF 1 <= n + 1 THEN (n + 1) - 1 + 1 ELSE 0)
      /\ \A i \in 1..((n + 1) - 1 + 1) : b[i] = s[1 + i - 1]
  BY <1>2, <1>3, <1>4, SubSeqProperties
<1>. HIDE DEF a, b
<1>7. Len(a) = n /\ Len(b) = n + 1
  BY <1>3, <1>5, <1>6
<1>8. \A i \in 1..(n + 1) : 1 + i - 1 = i
  OBVIOUS
<1>9. (\A i \in 1..n : i \in 1..(n + 1)) /\ n + 1 \in 1..(n + 1) /\ \A i \in 1..(n + 1) : i \in 1..n \/ i = n + 1
  OBVIOUS
<1>10. (\A i \in 1..n : a[i] = s[i]) /\ \A i \in 1..(n + 1) : b[i] = s[i]
  BY <1>3, <1>5, <1>6, <1>8, <1>9, Zenon
<1>11. s[n + 1] \in S
  BY <1>1, <1>2, <1>3
<1>. DEFINE c == Append(a, s[n + 1])
<1>12. /\ c \in Seq(S) /\ Len(c) = Len(a) + 1 /\ (\A i \in 1..Len(a) : c[i] = a[i]) /\ c[Len(a) + 1] = s[n + 1]
  BY <1>5, <1>11, AppendProperties
<1>. HIDE DEF c
<1>13. Len(c) = n + 1 /\ (\A i \in 1..n : c[i] = s[i]) /\ c[n + 1] = s[n + 1]
  BY <1>7, <1>10, <1>12, Zenon
<1>14. Len(b) = Len(c) /\ \A i \in 1..Len(b) : b[i] = c[i]
  BY <1>7, <1>9, <1>10, <1>13, Zenon
<1>15. b = c
  BY <1>6, <1>12, <1>14, SeqEqual
<1>. QED
  BY <1>7, <1>15 DEF a, b, c

\* A round of the loop decodes the next field, wherever it begins.
LEMMA ReadingGoesOn ==
  ASSUME NEW V, NEW enc, NEW vs \in Seq(V), Reads(enc, vs), NEW fs, NEW b, Reading(enc, vs, fs, b), b # <<>>
  PROVE  Reading(enc, vs, Append(fs, DecodeOne(b).value), From(b, DecodeOne(b).len + 1))
<1>1. PICK l \in Nat : l = Len(enc)
  BY LenProperties DEF Reads
<1>2. PICK n \in 0..l : n = Len(fs)
  <2>1. Len(fs) \in 0..l
    BY <1>1, Zenon DEF Reading
  <2>. QED
    BY <2>1
<1>3. enc \in Seq(Seq(Byte)) /\ Len(vs) = l /\ fs = SubSeq(vs, 1, n) /\ b = FlattenSeq(From(enc, n + 1))
  BY <1>1, <1>2, Zenon DEF Reads, Reading
<1>4. n + 1 \in 1..l
  <2>1. SUFFICES ASSUME n = l PROVE FALSE
    BY <1>1, <1>2
  <2>2. n + 1 \in Nat \ {0} /\ n + 1 > Len(enc)
    BY <1>1, <1>2, <2>1
  <2>3. From(enc, n + 1) = <<>>
    BY <1>3, <2>2, FromEmpty
  <2>. QED
    BY <1>3, <2>3, FlattenEmpty, Zenon
<1>. DEFINE e == enc[n + 1]
            v == vs[n + 1]
            rest == FlattenSeq(From(enc, (n + 1) + 1))
<1>5. n \in Nat /\ (n + 1) + 1 \in Nat \ {0} /\ n + 1 \in 1..Len(enc) /\ n + 1 \in 1..Len(vs) /\ n + 1 \in 0..l
  BY <1>1, <1>2, <1>3, <1>4
<1>6. From(enc, (n + 1) + 1) \in Seq(Seq(Byte))
  BY <1>3, <1>5, FromIs
<1>7. e \in Seq(Byte) /\ rest \in Seq(Byte) /\ b = e \o rest
  BY <1>3, <1>5, <1>6, ElementOfSeq, FlattenType, FlattenFrom
<1>. HIDE DEF e, rest, v
<1>8. Append(fs, v) = SubSeq(vs, 1, n + 1) /\ Len(SubSeq(vs, 1, n + 1)) = n + 1
  BY <1>3, <1>5, OneMore DEF v
<1>9. \/ \A r \in Seq(Byte) : DecodeOne(e \o r) = Decoded(Len(e), v)
      \/ n + 1 = l /\ \A r \in Seq(Byte) : DecodeOne(e \o r) = Decoded(Len(e) + 1, v)
  BY <1>1, <1>5, Zenon DEF Reads, e, v
<1>10. From(b, DecodeOne(b).len + 1) = rest /\ DecodeOne(b).value = v
  <2>1. CASE \A r \in Seq(Byte) : DecodeOne(e \o r) = Decoded(Len(e), v)
    <3>1. DecodeOne(b) = Decoded(Len(e), v)
      BY <1>7, <2>1, Zenon
    <3>2. DecodeOne(b).len = Len(e) /\ DecodeOne(b).value = v
      BY <3>1 DEF Decoded
    <3>3. From(e \o rest, Len(e) + 1) = rest
      BY <1>7, FromConcat
    <3>. QED
      BY <1>7, <3>2, <3>3, Zenon
  <2>2. CASE n + 1 = l /\ \A r \in Seq(Byte) : DecodeOne(e \o r) = Decoded(Len(e) + 1, v)
    <3>1. DecodeOne(b) = Decoded(Len(e) + 1, v)
      BY <1>7, <2>2, Zenon
    <3>2. DecodeOne(b).len = Len(e) + 1 /\ DecodeOne(b).value = v
      BY <3>1 DEF Decoded
    <3>3. (n + 1) + 1 > Len(enc)
      BY <1>1, <1>5, <2>2
    <3>4. From(enc, (n + 1) + 1) = <<>>
      BY <1>3, <1>5, <3>3, FromEmpty
    <3>5. rest = <<>>
      BY <3>4, FlattenEmpty, Zenon DEF rest
    <3>6. b = e
      BY <1>7, <3>5, ConcatEmptySeq
    <3>7. PICK k \in Nat : k = Len(e)
      BY <1>7, LenProperties
    <3>8. (Len(e) + 1) + 1 \in Nat \ {0} /\ (Len(e) + 1) + 1 > Len(e)
      <4>1. (k + 1) + 1 \in Nat \ {0} /\ (k + 1) + 1 > k
        OBVIOUS
      <4>. QED
        BY <3>7, <4>1
    <3>9. From(e, (Len(e) + 1) + 1) = <<>>
      BY <1>7, <3>8, FromEmpty
    <3>. QED
      BY <3>2, <3>5, <3>6, <3>9, Zenon
  <2>. QED
    BY <1>9, <2>1, <2>2
<1>11. Len(Append(fs, v)) = n + 1
  BY <1>8, Zenon
<1>. QED
  BY <1>1, <1>5, <1>8, <1>10, <1>11, Zenon DEF Reading, rest

\* The loop ends with all fields decoded.
LEMMA ReadingEnds ==
  ASSUME NEW V, NEW enc, NEW vs \in Seq(V), Reads(enc, vs), NEW fs, NEW b, Reading(enc, vs, fs, b),
         NEW k \in Nat, Len(enc) <= k, ~(b # <<>> /\ Len(fs) < k)
  PROVE  fs = vs /\ b = <<>>
<1>1. PICK l \in Nat : l = Len(enc)
  BY LenProperties DEF Reads
<1>2. PICK n \in 0..l : n = Len(fs)
  <2>1. Len(fs) \in 0..l
    BY <1>1, Zenon DEF Reading
  <2>. QED
    BY <2>1
<1>3. enc \in Seq(Seq(Byte)) /\ Len(vs) = l /\ fs = SubSeq(vs, 1, n) /\ b = FlattenSeq(From(enc, n + 1))
  BY <1>1, <1>2, Zenon DEF Reads, Reading
<1>4. n = l
  <2>1. SUFFICES ASSUME n + 1 \in 1..l PROVE FALSE
    BY <1>1, <1>2
  <2>2. n < k /\ (n + 1) + 1 \in Nat \ {0} /\ n + 1 \in 1..Len(enc)
    BY <1>1, <1>2, <2>1
  <2>3. b = <<>>
    BY <1>2, <2>2
  <2>. DEFINE e == enc[n + 1]
              rest == FlattenSeq(From(enc, (n + 1) + 1))
  <2>4. From(enc, (n + 1) + 1) \in Seq(Seq(Byte))
    BY <1>3, <2>2, FromIs
  <2>5. e \in Seq(Byte) /\ rest \in Seq(Byte) /\ b = e \o rest
    BY <1>3, <2>2, <2>4, ElementOfSeq, FlattenType, FlattenFrom
  <2>6. Len(e) # 0
    BY <2>2, Zenon DEF Reads
  <2>. HIDE DEF e, rest
  <2>7. Len(e \o rest) = Len(e) + Len(rest)
    BY <2>5, ConcatProperties
  <2>8. Len(<<>>) = 0 /\ Len(e) \in Nat /\ Len(rest) \in Nat
    BY <2>5, EmptySeq, LenProperties
  <2>9. Len(e) + Len(rest) = 0
    BY <2>3, <2>5, <2>7, <2>8, Zenon
  <2>. QED
    BY <2>6, <2>8, <2>9
<1>5. n + 1 \in Nat \ {0} /\ n + 1 > Len(enc)
  BY <1>1, <1>2, <1>4
<1>6. From(enc, n + 1) = <<>>
  BY <1>3, <1>5, FromEmpty
<1>7. SubSeq(vs, 1, Len(vs)) = vs
  BY SubSeqFull
<1>. QED
  BY <1>3, <1>4, <1>6, <1>7, FlattenEmpty, Zenon

\* The fields of a command as they are written, and what they mean.
Wire(fs) == [i \in 1..Len(fs) |-> Bytes[fs[i]]]
MeantBy(fs) == [i \in 1..Len(fs) |-> Meaning[fs[i]]]

\* What holds of a field.
FieldTrips(v) ==
  /\ Bytes[v] \in Seq(Byte) /\ Len(Bytes[v]) # 0 /\ Good(Meaning[v]) /\ Meaning[v] \in Value
  /\ \/ \A r \in Seq(Byte) : DecodeOne(Bytes[v] \o r) = Decoded(Len(Bytes[v]), Meaning[v])
     \/ v.type = "array" /\ \A r \in Seq(Byte) : DecodeOne(Bytes[v] \o r) = Decoded(Len(Bytes[v]) + 1, Meaning[v])
  /\ v.type \in {"object", "typed", "array"} => GoodObject(Meaning[v], Nested[Depth])

\* Every field of a command is decoded to what it means.
LEMMA FieldRound ==
  ASSUME NEW v \in Nested[Depth] \cup Arrays
  PROVE  FieldTrips(v)
<1>1. CASE v \in Nested[Depth]
  <2>1. Depth \in Nat /\ Depth <= Depth /\ \A p \in Inner(Depth) : Round(p, Nested[Depth])
    BY DepthIs
  <2>2. Round(v, Nested[Depth + 1])
    BY <1>1, <2>1, RoundTrip
  <2>3. Nested[Depth + 1] \subseteq Value
    BY <2>1, Within
  <2>4. v.type # "array"
    BY <1>1, <2>1, PartsOf
  <2>5. v.type \in {"object", "typed"} => GoodObject(Meaning[v], Nested[Depth])
    BY <1>1, <2>1, KeyedMeaning
  <2>6. v.type \in {"object", "typed", "array"} => v.type \in {"object", "typed"}
    BY <2>4
  <2>. QED
    BY <2>2, <2>3, <2>5, <2>6, Zenon DEF FieldTrips, Round, Trips
<1>2. CASE v \in Arrays
  <2>1. /\ Bytes[v] \in Seq(Byte) /\ Len(Bytes[v]) \in Nat \ {0}
        /\ \A r \in Seq(Byte) : DecodeOne(Bytes[v] \o r) = Decoded(Len(Bytes[v]) + 1, Meaning[v])
        /\ GoodObject(Meaning[v], Nested[Depth])
    BY <1>2, ArrayRound
  <2>2. Depth \in Nat /\ Depth <= Depth
    BY DepthIs
  <2>3. Good(Meaning[v])
    BY <2>1, <2>2, ObjectRound
  <2>4. v.type = "array" /\ Len(Bytes[v]) # 0
    BY <1>2, <2>1, ArrayParts
  <2>. QED
    BY <2>1, <2>3, <2>4, Zenon DEF FieldTrips, Good
<1>. QED
  BY <1>1, <1>2

\* So are all the fields of a command, one after the other.
LEMMA FieldsRead ==
  ASSUME NEW s \in Sent
  PROVE  /\ Reads(Wire(s.fields), MeantBy(s.fields))
         /\ MeantBy(s.fields) \in Seq(Value) /\ Len(MeantBy(s.fields)) = Len(s.fields)
         /\ Len(Wire(s.fields)) = Len(s.fields)
         /\ \A i \in 1..Len(s.fields) :
              /\ Good(MeantBy(s.fields)[i])
              /\ s.fields[i].type \in {"object", "typed", "array"} => GoodObject(MeantBy(s.fields)[i], Nested[Depth])
<1>. DEFINE fs == s.fields
            enc == Wire(s.fields)
            vs == MeantBy(s.fields)
<1>1. fs \in Seq(Nested[Depth] \cup Arrays) /\ \A i \in 1..(Len(fs) - 1) : fs[i].type # "array"
  BY CommandsAssumption
<1>. HIDE DEF fs
<1>2. PICK n \in Nat : n = Len(fs)
  BY <1>1, LenProperties
<1>3. \A i \in 1..n : FieldTrips(fs[i])
  BY <1>1, <1>2, ElementOfSeq, FieldRound
<1>4. \A i \in 1..n : Bytes[fs[i]] \in Seq(Byte) /\ Meaning[fs[i]] \in Value
  BY <1>3, Zenon DEF FieldTrips
<1>5. enc = [i \in 1..n |-> Bytes[fs[i]]] /\ vs = [i \in 1..n |-> Meaning[fs[i]]]
  BY <1>2, Zenon DEF Wire, MeantBy, fs
<1>. HIDE DEF enc, vs
<1>6. enc \in [1..n -> Seq(Byte)] /\ \A i \in 1..n : enc[i] = Bytes[fs[i]]
  BY <1>4, <1>5, Zenon
<1>7. vs \in [1..n -> Value] /\ \A i \in 1..n : vs[i] = Meaning[fs[i]]
  BY <1>4, <1>5, Zenon
<1>8. enc \in Seq(Seq(Byte)) /\ Len(enc) = n
  BY <1>6
<1>9. vs \in Seq(Value) /\ Len(vs) = n
  BY <1>7
<1>10. \A i \in 1..n : fs[i].type = "array" => i = n
  BY <1>1, <1>2
<1>11. Reads(enc, vs)
  <2>1. ASSUME NEW i \in 1..n
        PROVE  /\ Len(enc[i]) # 0
               /\ \/ \A r \in Seq(Byte) : DecodeOne(enc[i] \o r) = Decoded(Len(enc[i]), vs[i])
                  \/ i = n /\ \A r \in Seq(Byte) : DecodeOne(enc[i] \o r) = Decoded(Len(enc[i]) + 1, vs[i])
    <3>1. enc[i] = Bytes[fs[i]] /\ vs[i] = Meaning[fs[i]] /\ FieldTrips(fs[i]) /\ (fs[i].type = "array" => i = n)
      BY <1>3, <1>6, <1>7, <1>10
    <3>. QED
      BY <3>1, Zenon DEF FieldTrips
  <2>. QED
    BY <1>8, <1>9, <2>1, Zenon DEF Reads
<1>12. \A i \in 1..n : /\ Good(vs[i])
                       /\ fs[i].type \in {"object", "typed", "array"} => GoodObject(vs[i], Nested[Depth])
  BY <1>3, <1>7, Zenon DEF FieldTrips
<1>. QED
  BY <1>2, <1>8, <1>9, <1>11, <1>12, Zenon DEF fs, enc, vs

\* What is encoded is read as it was.
LEMMA RelayedReads ==
  ASSUME NEW r \in Seq(Value), \A i \in 1..Len(r) : Good(r[i]) /\ Encodes[r[i]]
  PROVE  Reads([i \in 1..Len(r) |-> EncodeOne[r[i]]], r)
<1>1. PICK n \in Nat : n = Len(r)
  BY LenProperties
<1>. DEFINE enc == [i \in 1..n |-> EncodeOne[r[i]]]
<1>2. \A i \in 1..n : Trips(EncodeOne[r[i]], r[i])
  BY <1>1, Zenon DEF Good
<1>3. \A i \in 1..n : EncodeOne[r[i]] \in Seq(Byte)
  BY <1>2, Zenon DEF Trips
<1>4. enc \in [1..n -> Seq(Byte)] /\ \A i \in 1..n : enc[i] = EncodeOne[r[i]]
  BY <1>3, Zenon
<1>. HIDE DEF enc
<1>5. enc \in Seq(Seq(Byte)) /\ Len(enc) = n
  BY <1>4
<1>6. \A i \in 1..n : Trips(enc[i], r[i])
  BY <1>2, <1>4, Zenon
<1>7. Reads(enc, r)
  BY <1>1, <1>5, <1>6, Zenon DEF Reads, Trips
<1>. QED
  BY <1>1, <1>7, Zenon DEF enc

-----------------------------------------------------------------------------
(* The command that the client makes of the fields.                        *)

\* A value for a member of the object for connect: it is not from the client
\* that a strict array comes.
PartFine(p, obj) == p \in Nested[Depth] /\ Good(p) /\ (~Encodes[p] => HasStrictArray[obj])

\* A value without members brings no strict array.
LEMMA PlainFine ==
  ASSUME NEW p \in Scalars, p.type \in {"number", "bool", "string", "null", "undefined"}, NEW obj
  PROVE  PartFine(p, obj) /\ p \in Value
<1>1. p \in Nested[Depth] /\ p \in Value
  BY DepthIs, ScalarValue
<1>2. Encodes[p] /\ Good(p)
  BY PlainGood
<1>. QED
  BY <1>1, <1>2, Zenon DEF PartFine

\* Nor does one that the client puts in.
LEMMA OwnValues ==
  ASSUME NEW obj
  PROVE  /\ PartFine(NonPrivate, obj) /\ PartFine(Fmle, obj) /\ PartFine(Url, obj) /\ PartFine(Undefined, obj)
         /\ PartFine(Null, obj) /\ PartFine(TransId, obj) /\ PartFine(Live, obj)
<1>1. <<110>> \in Short(Ascii) /\ <<109>> \in Short(Ascii) /\ <<108>> \in Short(Ascii)
  <2>1. \A n \in Ascii : <<n>> \in Short(Ascii)
    BY DEF Short
  <2>2. 110 \in Ascii /\ 109 \in Ascii /\ 108 \in Ascii
    BY DEF Ascii
  <2>. QED
    BY <2>1, <2>2
<1>2. /\ NonPrivate \in Scalars /\ NonPrivate.type = "string"
      /\ Fmle \in Scalars /\ Fmle.type = "string"
      /\ Live \in Scalars /\ Live.type = "string"
  BY <1>1, ScalarIn, Zenon DEF NonPrivate, Fmle, Live
<1>3. /\ Url \in Scalars /\ Url.type = "string" /\ TransId \in Scalars /\ TransId.type = "number"
  BY CommandsAssumption
<1>4. Null \in Scalars /\ Null.type = "null" /\ Undefined \in Scalars /\ Undefined.type = "undefined"
  BY ScalarIn
<1>5. \A p \in Scalars : p.type = "string" \/ p.type = "number" \/ p.type = "null" \/ p.type = "undefined"
                           => PartFine(p, obj)
  BY PlainFine
<1>. QED
  BY <1>2, <1>3, <1>4, <1>5, Zenon

\* A member of what OBS sent brings one only from there.
LEMMA MemberFine ==
  ASSUME NEW obj, GoodObject(obj, Nested[Depth]), NEW key
  PROVE  PartFine(Member(obj, key), obj)
<1>. DEFINE found == {i \in 1..Len(obj.keys) : obj.keys[i] = key}
<1>1. obj \in Keyed("object", {<<>>}, Nested[Depth]) /\ \A i \in 1..Len(obj.parts) : Good(obj.parts[i])
  BY Zenon DEF GoodObject
<1>2. obj.parts \in Seq(Nested[Depth]) /\ Len(obj.keys) = Len(obj.parts)
  BY <1>1 DEF Keyed
<1>3. obj \in Value
  <2>1. Nested[Depth + 1] \subseteq Value
    BY DepthIs, Within
  <2>2. obj \in Nested[Depth + 1]
    BY DepthIs, ObjectRound
  <2>. QED
    BY <2>1, <2>2
<1>4. CASE found = {}
  <2>1. Member(obj, key) = Undefined
    BY <1>4, Zenon DEF Member
  <2>. QED
    BY <2>1, OwnValues, Zenon
<1>5. CASE found # {}
  <2>. DEFINE j == CHOOSE i \in found : TRUE
  <2>1. j \in found
    BY <1>5, Zenon
  <2>2. Member(obj, key) = obj.parts[j]
    BY <1>5, Zenon DEF Member
  <2>. HIDE DEF j
  <2>3. j \in 1..Len(obj.parts)
    BY <1>2, <2>1
  <2>4. obj.parts[j] \in Nested[Depth] /\ Good(obj.parts[j])
    BY <1>1, <1>2, <2>3, ElementOfSeq
  <2>5. ~Encodes[obj.parts[j]] => HasStrictArray[obj]
    <3>1. HasStrictArray[obj] = StrictBody(HasStrictArray, obj)
      BY <1>3, HasStrictArrayDef
    <3>2. ~Encodes[obj.parts[j]] => HasStrictArray[obj.parts[j]]
      BY <2>4, Zenon DEF Good
    <3>. QED
      BY <2>3, <3>1, <3>2, Zenon DEF StrictBody
  <2>. QED
    BY <2>2, <2>4, <2>5, Zenon DEF PartFine
<1>. QED
  BY <1>4, <1>5

\* There is one member of a name.
LEMMA MemberIs ==
  ASSUME NEW obj, IsInjective(obj.keys), NEW S, obj.keys \in Seq(S), NEW i \in 1..Len(obj.keys)
  PROVE  Member(obj, obj.keys[i]) = obj.parts[i]
<1>. DEFINE found == {k \in 1..Len(obj.keys) : obj.keys[k] = obj.keys[i]}
<1>1. DOMAIN obj.keys = 1..Len(obj.keys)
  BY LenProperties
<1>2. \A k \in 1..Len(obj.keys) : obj.keys[k] = obj.keys[i] => k = i
  BY <1>1, Zenon DEF IsInjective
<1>3. found = {i}
  BY <1>2
<1>4. (CHOOSE k \in found : TRUE) = i
  BY <1>3
<1>5. found # {}
  BY <1>3
<1>6. Member(obj, obj.keys[i]) = obj.parts[CHOOSE k \in found : TRUE]
  BY <1>5, Zenon DEF Member
<1>. QED
  BY <1>4, <1>6, Zenon

\* The object that sendConnect makes has members of five names, or six.
LEMMA ConnectKeys ==
  /\ <<App, Type, FlashVer, SwfUrl, TcUrl>> \in Seq(Names)
  /\ IsInjective(<<App, Type, FlashVer, SwfUrl, TcUrl>>)
  /\ \A i \in 1..5 : <<App, Type, FlashVer, SwfUrl, TcUrl>>[i] # ObjectEncoding
  /\ ObjectEncoding \in Names
<1>1. /\ App[1] = 97 /\ Type[1] = 116 /\ FlashVer[1] = 102 /\ SwfUrl[1] = 115 /\ TcUrl[1] = 117
      /\ ObjectEncoding[1] = 111
  BY DEF App, Type, FlashVer, SwfUrl, TcUrl, ObjectEncoding
<1>2. ASSUME NEW n \in Ascii \ 48..57 PROVE <<n>> \in Names
  <2>. DEFINE proto == <<95, 95, 112, 114, 111, 116, 111, 95, 95>>
  <2>1. <<n>> \in Seq(Ascii) /\ Len(<<n>>) = 1 /\ <<n>> # <<>> /\ <<n>>[1] = n
    OBVIOUS
  <2>2. Len(proto) = 9
    OBVIOUS
  <2>. HIDE DEF proto
  <2>3. <<n>> # proto
    BY <2>1, <2>2
  <2>. QED
    BY <2>1, <2>3 DEF Short, Names, proto
<1>3. \A n \in {97, 116, 102, 115, 117, 111} : n \in Ascii \ 48..57
  BY DEF Ascii
<1>4. /\ App \in Names /\ Type \in Names /\ FlashVer \in Names
      /\ SwfUrl \in Names /\ TcUrl \in Names /\ ObjectEncoding \in Names
  BY <1>2, <1>3, Zenon DEF App, Type, FlashVer, SwfUrl, TcUrl, ObjectEncoding
<1>5. /\ App # Type /\ App # FlashVer /\ App # SwfUrl /\ App # TcUrl /\ App # ObjectEncoding
      /\ Type # FlashVer /\ Type # SwfUrl /\ Type # TcUrl /\ Type # ObjectEncoding
      /\ FlashVer # SwfUrl /\ FlashVer # TcUrl /\ FlashVer # ObjectEncoding
      /\ SwfUrl # TcUrl /\ SwfUrl # ObjectEncoding /\ TcUrl # ObjectEncoding
  BY <1>1
<1>. DEFINE ks == <<App, Type, FlashVer, SwfUrl, TcUrl>>
<1>6. ks \in Seq(Names)
  BY <1>4
<1>7. DOMAIN ks = 1..5 /\ ks[1] = App /\ ks[2] = Type /\ ks[3] = FlashVer /\ ks[4] = SwfUrl /\ ks[5] = TcUrl
  OBVIOUS
<1>. HIDE DEF ks
<1>8. \A i \in 1..5 : i = 1 \/ i = 2 \/ i = 3 \/ i = 4 \/ i = 5
  OBVIOUS
<1>9. \A i, j \in 1..5 : ks[i] = ks[j] => i = j
  BY <1>5, <1>7, <1>8
<1>10. IsInjective(ks)
  BY <1>7, <1>9, Zenon DEF IsInjective
<1>11. \A i \in 1..5 : ks[i] # ObjectEncoding
  BY <1>5, <1>7, <1>8
<1>. QED
  BY <1>4, <1>6, <1>10, <1>11 DEF ks

\* A sequence of five.
LEMMA FiveSeq ==
  ASSUME NEW S, NEW a \in S, NEW b \in S, NEW c \in S, NEW d \in S, NEW e \in S
  PROVE  <<a, b, c, d, e>> \in Seq(S) /\ Len(<<a, b, c, d, e>>) = 5
OBVIOUS

\* The first three members of the object, of which RelayedAsSent speaks.
ConnectMembers(keys, parts, obj) ==
  /\ 1 \in 1..Len(keys) /\ 2 \in 1..Len(keys) /\ 3 \in 1..Len(keys)
  /\ keys[1] = App /\ keys[2] = Type /\ keys[3] = FlashVer
  /\ parts[1] = Member(obj, App)
  /\ parts[2] = OrElse(Member(obj, Type), NonPrivate)
  /\ parts[3] = OrElse(Member(obj, FlashVer), Fmle)

\* The object that sendConnect makes can be encoded, unless a member that
\* it takes over holds a strict array.
LEMMA ConnectFine ==
  ASSUME NEW obj, GoodObject(obj, Nested[Depth])
  PROVE  /\ ConnectObject(obj) \in Value /\ Good(ConnectObject(obj))
         /\ ~Encodes[ConnectObject(obj)] => HasStrictArray[obj]
         /\ ConnectMembers(ConnectObject(obj).keys, ConnectObject(obj).parts, obj)
<1>. DEFINE D == Nested[Depth]
            ks == <<App, Type, FlashVer, SwfUrl, TcUrl>>
            p1 == Member(obj, App)
            p2 == OrElse(Member(obj, Type), NonPrivate)
            p3 == OrElse(Member(obj, FlashVer), Fmle)
            ps == <<p1, p2, p3, Url, Url>>
            more == Member(obj, ObjectEncoding)
            c == ConnectObject(obj)
<1>1. PartFine(p1, obj) /\ PartFine(p2, obj) /\ PartFine(p3, obj) /\ PartFine(Url, obj) /\ PartFine(more, obj)
  <2>1. \A key : PartFine(Member(obj, key), obj)
    BY MemberFine
  <2>2. PartFine(NonPrivate, obj) /\ PartFine(Fmle, obj) /\ PartFine(Url, obj)
    BY OwnValues, Zenon
  <2>. QED
    BY <2>1, <2>2, Zenon DEF OrElse
<1>2. /\ ks \in Seq(Names) /\ IsInjective(ks) /\ ObjectEncoding \in Names
      /\ \A i \in 1..5 : ks[i] # ObjectEncoding
  BY ConnectKeys
<1>3. Len(ks) = 5 /\ ks[1] = App /\ ks[2] = Type /\ ks[3] = FlashVer
  OBVIOUS
<1>4. \/ c = Object(ks \o <<>>, ps \o <<>>)
      \/ c = Object(ks \o <<ObjectEncoding>>, ps \o <<more>>)
  BY Zenon DEF ConnectObject
<1>. HIDE DEF p1, p2, p3, more, c
<1>5. p1 \in D /\ p2 \in D /\ p3 \in D /\ Url \in D /\ more \in D /\ Good(more)
  BY <1>1, Zenon DEF PartFine
<1>6. ps \in Seq(D) /\ Len(ps) = 5 /\ ps[1] = p1 /\ ps[2] = p2 /\ ps[3] = p3 /\ ps[4] = Url /\ ps[5] = Url
  <2>1. ps \in Seq(D) /\ Len(ps) = 5
    <3>. HIDE DEF D
    <3>. QED
      BY <1>5, FiveSeq
  <2>2. ps[1] = p1 /\ ps[2] = p2 /\ ps[3] = p3 /\ ps[4] = Url /\ ps[5] = Url
    OBVIOUS
  <2>. QED
    BY <2>1, <2>2
<1>. HIDE DEF D, ps, ks
<1>7. \A i \in 1..5 : i = 1 \/ i = 2 \/ i = 3 \/ i = 4 \/ i = 5
  OBVIOUS
<1>8. \A i \in 1..5 : PartFine(ps[i], obj)
  BY <1>1, <1>6, <1>7, Zenon
<1>9. GoodObject(Object(ks, ps), D)
  <2>1. Object(ks, ps) \in Keyed("object", {<<>>}, D)
    BY <1>2, <1>3, <1>6, ObjectKeyed
  <2>2. \A i \in 1..Len(ps) : Good(ps[i])
    BY <1>6, <1>8, Zenon DEF PartFine
  <2>3. Object(ks, ps).parts = ps
    BY ObjectTwice
  <2>. QED
    BY <2>1, <2>2, <2>3, Zenon DEF GoodObject
<1>10. \E keys, parts : /\ c = Object(keys, parts) /\ GoodObject(Object(keys, parts), D)
                        /\ \A i \in 1..Len(parts) : PartFine(parts[i], obj)
                        /\ ConnectMembers(keys, parts, obj)
  <2>1. 1 \in 1..5 /\ 2 \in 1..5 /\ 3 \in 1..5 /\ 1 \in 1..6 /\ 2 \in 1..6 /\ 3 \in 1..6 /\ 5 + 1 = 6
        /\ \A i \in 1..6 : i \in 1..5 \/ i = 6
    OBVIOUS
  <2>2. CASE c = Object(ks \o <<>>, ps \o <<>>)
    <3>1. ks \o <<>> = ks /\ ps \o <<>> = ps
      BY <1>2, <1>6, ConcatEmptySeq
    <3>2. ConnectMembers(ks, ps, obj)
      BY <1>3, <1>6, <2>1, Zenon DEF ConnectMembers, p1, p2, p3
    <3>3. c = Object(ks, ps) /\ \A i \in 1..Len(ps) : PartFine(ps[i], obj)
      BY <1>6, <1>8, <2>2, <3>1, Zenon
    <3>. QED
      BY <1>9, <3>2, <3>3, Zenon
  <2>3. CASE c = Object(ks \o <<ObjectEncoding>>, ps \o <<more>>)
    <3>. DEFINE ks6 == Append(ks, ObjectEncoding)
                ps6 == Append(ps, more)
    <3>1. ks6 = ks \o <<ObjectEncoding>> /\ ps6 = ps \o <<more>>
      <4>1. ks6 = ks \o <<ObjectEncoding>>
        BY <1>2, AppendIsConcat
      <4>2. ps6 = ps \o <<more>>
        BY <1>5, <1>6, AppendIsConcat
      <4>. QED
        BY <4>1, <4>2
    <3>2. Len(ks6) = Len(ks) + 1 /\ \A i \in 1..Len(ks) : ks6[i] = ks[i]
      BY <1>2, AppendProperties
    <3>3. Len(ps6) = Len(ps) + 1 /\ (\A i \in 1..Len(ps) : ps6[i] = ps[i]) /\ ps6[Len(ps) + 1] = more
      <4>1. ps \in Seq(D) /\ more \in D
        BY <1>5, <1>6, Zenon
      <4>. QED
        BY <4>1, AppendProperties
    <3>4. \A i \in 1..Len(ks) : ks[i] # ObjectEncoding
      BY <1>2, <1>3, Zenon
    <3>5. GoodObject(Object(ks6, ps6), D)
      BY <1>2, <1>5, <1>9, <3>4, MoreMembers
    <3>. HIDE DEF ks6, ps6
    <3>6. Len(ks6) = 6 /\ Len(ps6) = 6 /\ ps6[6] = more /\ \A i \in 1..5 : ks6[i] = ks[i] /\ ps6[i] = ps[i]
      BY <1>3, <1>6, <2>1, <3>2, <3>3, Zenon
    <3>7. \A i \in 1..Len(ps6) : PartFine(ps6[i], obj)
      BY <1>1, <1>8, <2>1, <3>6, Zenon
    <3>8. ConnectMembers(ks6, ps6, obj)
      BY <1>3, <1>6, <2>1, <3>6, Zenon DEF ConnectMembers, p1, p2, p3
    <3>9. c = Object(ks6, ps6)
      BY <2>3, <3>1, Zenon
    <3>. QED
      BY <3>5, <3>7, <3>8, <3>9, Zenon
  <2>. QED
    BY <1>4, <2>2, <2>3
<1>11. PICK keys, parts : /\ c = Object(keys, parts) /\ GoodObject(Object(keys, parts), D)
                          /\ \A i \in 1..Len(parts) : PartFine(parts[i], obj)
                          /\ ConnectMembers(keys, parts, obj)
  BY <1>10, Zenon
<1>12. c.keys = keys /\ c.parts = parts /\ c.type = "object"
  BY <1>11, ObjectTwice
<1>13. c \in Nested[Depth + 1] /\ Good(c)
  <2>1. GoodObject(c, Nested[Depth]) /\ Depth \in Nat /\ Depth <= Depth
    BY <1>11, DepthIs DEF D
  <2>. QED
    BY <2>1, ObjectRound
<1>14. c \in Value
  BY <1>13, Zenon DEF Good
<1>15. ~Encodes[c] => HasStrictArray[obj]
  <2>1. Encodes[c] = EncodesBody(Encodes, c)
    BY <1>14, EncodesDef
  <2>2. c.type # "sarray"
    BY <1>12
  <2>3. ~Encodes[c] => \E i \in 1..Len(parts) : ~Encodes[parts[i]]
    BY <1>12, <2>1, <2>2, Zenon DEF EncodesBody
  <2>. QED
    BY <1>11, <2>3, Zenon DEF PartFine
<1>. QED
  BY <1>11, <1>12, <1>13, <1>14, <1>15, Zenon DEF c

\* What relayCommand makes of a command, by its name.
LEMMA RelayedIs ==
  ASSUME NEW cmd, NEW vs
  PROVE  /\ cmd = "connect" => Relayed(cmd, vs) = <<TransId, ConnectObject(vs[2])>> /\ FieldCount(cmd) = 3
         /\ cmd = "createStream" => Relayed(cmd, vs) = <<TransId, Null>> /\ FieldCount(cmd) = 2
         /\ cmd = "publish" => /\ Relayed(cmd, vs) = <<TransId, Null, Field(vs, 3), OrElse(Field(vs, 4), Live)>>
                               /\ FieldCount(cmd) = 4
         /\ cmd \notin {"connect", "createStream", "publish"} => Relayed(cmd, vs) = [vs EXCEPT ![1] = TransId]
<1>1. ASSUME cmd = "connect" PROVE Relayed(cmd, vs) = <<TransId, ConnectObject(vs[2])>> /\ FieldCount(cmd) = 3
  BY <1>1 DEF Relayed, FieldCount
<1>2. ASSUME cmd = "createStream" PROVE Relayed(cmd, vs) = <<TransId, Null>> /\ FieldCount(cmd) = 2
  BY <1>2 DEF Relayed, FieldCount
<1>3. ASSUME cmd = "publish"
      PROVE  Relayed(cmd, vs) = <<TransId, Null, Field(vs, 3), OrElse(Field(vs, 4), Live)>> /\ FieldCount(cmd) = 4
  BY <1>3 DEF Relayed, FieldCount
<1>4. ASSUME cmd \notin {"connect", "createStream", "publish"}
      PROVE  Relayed(cmd, vs) = [vs EXCEPT ![1] = TransId]
  BY <1>4 DEF Relayed
<1>. QED
  BY <1>1, <1>2, <1>3, <1>4

\* A value to be encoded: a strict array in it is one of what OBS sent.
ValueFine(m, vs) ==
  m \in Value /\ Good(m) /\ (~Encodes[m] => \E j \in 1..Len(vs) : HasStrictArray[vs[j]])

\* What RelayedAsSent says of the fields r that the remote got.
Carries(cmd, vs, r) ==
  /\ r[1] = TransId
  /\ CASE cmd = "createStream" -> Len(r) = 2
       [] cmd = "publish" ->
            /\ r[3] = vs[3]
            /\ Len(vs) = 4 /\ ~IsNullish(vs[4]) => r[4] = vs[4]
       [] cmd = "connect" ->
            \A i \in 1..Len(vs[2].keys) :
              LET key == vs[2].keys[i]  part == vs[2].parts[i]
              IN  key = App \/ (key \in {Type, FlashVer} /\ ~IsNullish(part)) =>
                    \E j \in 1..Len(r[2].keys) : r[2].keys[j] = key /\ r[2].parts[j] = part
       [] OTHER -> From(r, 2) = From(vs, 2)

\* The fields of a relayed command can be encoded, but for strict arrays,
\* are no more than its kind has, and carry what OBS meant.
RelayedFine(cmd, vs) ==
  /\ Relayed(cmd, vs) \in Seq(Value) /\ Len(Relayed(cmd, vs)) \in 1..FieldCount(cmd)
  /\ \A i \in 1..Len(Relayed(cmd, vs)) : ValueFine(Relayed(cmd, vs)[i], vs)
  /\ Carries(cmd, vs, Relayed(cmd, vs))

\* The fields that the client puts in can be encoded.
LEMMA OwnFine ==
  ASSUME NEW vs
  PROVE  ValueFine(TransId, vs) /\ ValueFine(Null, vs) /\ ValueFine(Undefined, vs) /\ ValueFine(Live, vs)
<1>1. /\ TransId \in Scalars /\ TransId.type = "number"
      /\ Null \in Scalars /\ Null.type = "null" /\ Undefined \in Scalars /\ Undefined.type = "undefined"
  BY CommandsAssumption, ScalarIn
<1>2. Live \in Scalars /\ Live.type = "string"
  <2>1. <<108>> \in Short(Ascii)
    BY DEF Short, Ascii
  <2>. QED
    BY <2>1, ScalarIn, Zenon DEF Live
<1>3. \A m \in Scalars : m.type = "string" \/ m.type = "number" \/ m.type = "null" \/ m.type = "undefined"
                           => m \in Value /\ Encodes[m] /\ Good(m)
  <2>. SUFFICES ASSUME NEW m \in Scalars,
                       m.type = "string" \/ m.type = "number" \/ m.type = "null" \/ m.type = "undefined"
                PROVE  m \in Value /\ Encodes[m] /\ Good(m)
    OBVIOUS
  <2>1. Encodes[m] /\ Good(m)
    BY PlainGood
  <2>. QED
    BY <2>1, Zenon DEF Good
<1>. QED
  BY <1>1, <1>2, <1>3, Zenon DEF ValueFine

\* So can those that are taken over, but for strict arrays.
LEMMA MeantFine ==
  ASSUME NEW vs, NEW i \in 1..Len(vs), Good(vs[i])
  PROVE  ValueFine(vs[i], vs)
BY Zenon DEF ValueFine, Good

\* sendConnect relays the application, the type and the version.
LEMMA ConnectCarries ==
  ASSUME NEW vs, 2 \in 1..Len(vs), GoodObject(vs[2], Nested[Depth])
  PROVE  RelayedFine("connect", vs)
<1>. DEFINE obj == vs[2]
            c == ConnectObject(obj)
            r == <<TransId, c>>
<1>1. Relayed("connect", vs) = r /\ FieldCount("connect") = 3
  BY RelayedIs
<1>2. /\ c \in Value /\ Good(c) /\ (~Encodes[c] => HasStrictArray[obj])
      /\ ConnectMembers(c.keys, c.parts, obj)
  BY ConnectFine
<1>. HIDE DEF c
<1>3. ValueFine(c, vs) /\ ValueFine(TransId, vs)
  BY <1>2, OwnFine, Zenon DEF ValueFine
<1>4. TransId \in Value /\ c \in Value
  BY <1>3, Zenon DEF ValueFine
<1>5. r \in Seq(Value) /\ Len(r) = 2 /\ r[1] = TransId /\ r[2] = c
  BY <1>4
<1>. HIDE DEF r
<1>6. Len(r) \in 1..3 /\ \A i \in 1..Len(r) : i = 1 \/ i = 2
  BY <1>5
<1>7. \A i \in 1..Len(r) : ValueFine(r[i], vs)
  BY <1>3, <1>5, <1>6, Zenon
<1>8. ASSUME NEW i \in 1..Len(obj.keys),
             obj.keys[i] = App \/ (obj.keys[i] \in {Type, FlashVer} /\ ~IsNullish(obj.parts[i]))
      PROVE  \E j \in 1..Len(r[2].keys) : r[2].keys[j] = obj.keys[i] /\ r[2].parts[j] = obj.parts[i]
  <2>1. obj.keys \in Seq(Names) /\ IsInjective(obj.keys)
    BY DEF GoodObject, Keyed
  <2>2. Member(obj, obj.keys[i]) = obj.parts[i]
    BY <2>1, MemberIs
  <2>3. \/ obj.keys[i] = App
        \/ obj.keys[i] = Type /\ ~IsNullish(obj.parts[i])
        \/ obj.keys[i] = FlashVer /\ ~IsNullish(obj.parts[i])
    BY <1>8
  <2>. QED
    BY <1>2, <1>5, <2>2, <2>3, Zenon DEF ConnectMembers, OrElse
<1>9. Carries("connect", vs, r)
  <2>1. "connect" # "createStream" /\ "connect" # "publish"
    OBVIOUS
  <2>2. \A i \in 1..Len(obj.keys) :
          obj.keys[i] = App \/ (obj.keys[i] \in {Type, FlashVer} /\ ~IsNullish(obj.parts[i])) =>
            \E j \in 1..Len(r[2].keys) : r[2].keys[j] = obj.keys[i] /\ r[2].parts[j] = obj.parts[i]
    BY <1>8
  <2>3. r[1] = TransId
    BY <1>5
  <2>. HIDE DEF r
  <2>. QED
    BY <2>1, <2>2, <2>3 DEF Carries
<1>. QED
  BY <1>1, <1>5, <1>6, <1>7, <1>9, Zenon DEF RelayedFine

\* A sequence of four.
LEMMA FourSeq ==
  ASSUME NEW S, NEW a \in S, NEW b \in S, NEW c \in S, NEW d \in S
  PROVE  <<a, b, c, d>> \in Seq(S) /\ Len(<<a, b, c, d>>) = 4
OBVIOUS

\* createStream is sent with nothing but the id of the client.
LEMMA CreateCarries ==
  ASSUME NEW vs
  PROVE  RelayedFine("createStream", vs)
<1>. DEFINE r == <<TransId, Null>>
<1>1. Relayed("createStream", vs) = r /\ FieldCount("createStream") = 2
  BY RelayedIs
<1>2. ValueFine(TransId, vs) /\ ValueFine(Null, vs)
  BY OwnFine, Zenon
<1>3. TransId \in Value /\ Null \in Value
  BY <1>2, Zenon DEF ValueFine
<1>4. r \in Seq(Value) /\ Len(r) = 2 /\ r[1] = TransId /\ r[2] = Null
  BY <1>3
<1>. HIDE DEF r
<1>5. Len(r) \in 1..2 /\ \A i \in 1..Len(r) : i = 1 \/ i = 2
  BY <1>4
<1>6. \A i \in 1..Len(r) : ValueFine(r[i], vs)
  BY <1>2, <1>4, <1>5, Zenon
<1>7. Carries("createStream", vs, r)
  BY <1>4 DEF Carries
<1>. QED
  BY <1>1, <1>4, <1>5, <1>6, <1>7, Zenon DEF RelayedFine

\* publish is sent with the name of the stream and its type.
LEMMA PublishCarries ==
  ASSUME NEW vs \in Seq(Value), Len(vs) \in 3..4, \A i \in 1..Len(vs) : Good(vs[i])
  PROVE  RelayedFine("publish", vs)
<1>. DEFINE a == Field(vs, 3)
            b == OrElse(Field(vs, 4), Live)
            r == <<TransId, Null, a, b>>
<1>1. Relayed("publish", vs) = r /\ FieldCount("publish") = 4
  BY RelayedIs
<1>2. ValueFine(TransId, vs) /\ ValueFine(Null, vs) /\ ValueFine(Undefined, vs) /\ ValueFine(Live, vs)
  BY OwnFine, Zenon
<1>3. \A i \in 1..Len(vs) : ValueFine(vs[i], vs)
  BY MeantFine
<1>4. 3 \in 1..Len(vs) /\ 3 <= Len(vs) /\ (4 <= Len(vs) => 4 \in 1..Len(vs)) /\ (Len(vs) = 4 => 4 <= Len(vs))
  <2>1. PICK n \in 3..4 : n = Len(vs)
    BY Zenon
  <2>2. 3 \in 1..n /\ 3 <= n /\ (4 <= n => 4 \in 1..n) /\ (n = 4 => 4 <= n)
    OBVIOUS
  <2>. QED
    BY <2>1, <2>2, Zenon
<1>5. a = vs[3] /\ ValueFine(a, vs)
  BY <1>3, <1>4, Zenon DEF Field
<1>6. ValueFine(Field(vs, 4), vs)
  BY <1>2, <1>3, <1>4, Zenon DEF Field
<1>7. ValueFine(b, vs)
  BY <1>2, <1>6, Zenon DEF OrElse
<1>8. Len(vs) = 4 /\ ~IsNullish(vs[4]) => b = vs[4]
  BY <1>4, Zenon DEF Field, OrElse
<1>. HIDE DEF a, b
<1>9. TransId \in Value /\ Null \in Value /\ a \in Value /\ b \in Value
  BY <1>2, <1>5, <1>7, Zenon DEF ValueFine
<1>10. r \in Seq(Value) /\ Len(r) = 4
  BY <1>9, FourSeq
<1>11. r[1] = TransId /\ r[2] = Null /\ r[3] = a /\ r[4] = b
  OBVIOUS
<1>. HIDE DEF r
<1>12. Len(r) \in 1..4 /\ \A i \in 1..Len(r) : i = 1 \/ i = 2 \/ i = 3 \/ i = 4
  BY <1>10
<1>13. \A i \in 1..Len(r) : ValueFine(r[i], vs)
  BY <1>2, <1>5, <1>7, <1>11, <1>12, Zenon
<1>14. Carries("publish", vs, r)
  <2>1. r[1] = TransId /\ r[3] = vs[3] /\ (Len(vs) = 4 /\ ~IsNullish(vs[4]) => r[4] = vs[4])
    BY <1>5, <1>8, <1>11, Zenon
  <2>. QED
    BY <2>1 DEF Carries
<1>. QED
  BY <1>1, <1>10, <1>12, <1>13, <1>14, Zenon DEF RelayedFine

\* Another command is sent as it was decoded, but for the id.
LEMMA OtherCarries ==
  ASSUME NEW cmd, cmd \notin {"connect", "createStream", "publish"}, NEW vs \in Seq(Value),
         Len(vs) \in 1..FieldCount(cmd), \A i \in 1..Len(vs) : Good(vs[i])
  PROVE  RelayedFine(cmd, vs)
<1>. DEFINE r == [vs EXCEPT ![1] = TransId]
<1>1. Relayed(cmd, vs) = r
  BY RelayedIs
<1>2. ValueFine(TransId, vs) /\ \A i \in 1..Len(vs) : ValueFine(vs[i], vs)
  BY OwnFine, MeantFine
<1>3. TransId \in Value
  BY <1>2, Zenon DEF ValueFine
<1>4. 1 \in 1..Len(vs) /\ Len(vs) \in Nat
  BY LenProperties
<1>5. r \in Seq(Value) /\ Len(r) = Len(vs) /\ \A i \in 1..Len(vs) : r[i] = IF i = 1 THEN TransId ELSE vs[i]
  BY <1>3, <1>4, ExceptSeq
<1>. HIDE DEF r
<1>6. \A i \in 1..Len(r) : ValueFine(r[i], vs)
  BY <1>2, <1>5, Zenon
<1>7. From(r, 2) = From(vs, 2)
  <2>1. 2 \in 1..(Len(vs) + 1)
    BY <1>4
  <2>2. 2 \in 1..(Len(r) + 1)
    BY <1>5, <2>1, Zenon
  <2>3. /\ From(vs, 2) \in Seq(Value) /\ Len(From(vs, 2)) = Len(vs) - 2 + 1
        /\ \A j \in 1..(Len(vs) - 2 + 1) : From(vs, 2)[j] = vs[2 + j - 1]
    BY <2>1, FromLen
  <2>4. /\ From(r, 2) \in Seq(Value) /\ Len(From(r, 2)) = Len(r) - 2 + 1
        /\ \A j \in 1..(Len(r) - 2 + 1) : From(r, 2)[j] = r[2 + j - 1]
    BY <1>5, <2>2, FromLen
  <2>5. \A j \in 1..(Len(vs) - 2 + 1) : 2 + j - 1 \in 1..Len(vs) /\ 2 + j - 1 # 1
    BY <1>4
  <2>6. Len(From(r, 2)) = Len(From(vs, 2)) /\ \A j \in 1..Len(From(r, 2)) : From(r, 2)[j] = From(vs, 2)[j]
    BY <1>5, <2>3, <2>4, <2>5, Zenon
  <2>. QED
    BY <2>3, <2>4, <2>6, SeqEqual
<1>8. r[1] = TransId
  BY <1>4, <1>5
<1>9. Carries(cmd, vs, r)
  BY <1>7, <1>8 DEF Carries
<1>. QED
  BY <1>1, <1>5, <1>6, <1>9, Zenon DEF RelayedFine

\* What is relayed of a command, whichever it is.
LEMMA CommandCarries ==
  ASSUME NEW s \in Sent
  PROVE  RelayedFine(s.cmd, MeantBy(s.fields))
<1>. DEFINE vs == MeantBy(s.fields)
<1>1. /\ vs \in Seq(Value) /\ Len(vs) = Len(s.fields)
      /\ \A i \in 1..Len(vs) : Good(vs[i])
      /\ \A i \in 1..Len(vs) : s.fields[i].type \in {"object", "typed", "array"} => GoodObject(vs[i], Nested[Depth])
  BY FieldsRead, Zenon
<1>2. /\ Len(s.fields) \in 1..FieldCount(s.cmd)
      /\ s.cmd = "publish" => Len(s.fields) >= 3
      /\ s.cmd = "connect" => Len(s.fields) >= 2 /\ s.fields[2].type \in {"object", "typed", "array"}
  BY CommandsAssumption
<1>3. Len(vs) \in 1..FieldCount(s.cmd) /\ Len(vs) \in Nat
  BY <1>1, <1>2, LenProperties
<1>. HIDE DEF vs
<1>4. ASSUME s.cmd = "connect" PROVE RelayedFine(s.cmd, vs)
  <2>1. Len(vs) >= 2
    BY <1>1, <1>2, <1>4, Zenon
  <2>2. 2 \in 1..Len(vs)
    BY <1>3, <2>1
  <2>3. GoodObject(vs[2], Nested[Depth])
    BY <1>1, <1>2, <1>4, <2>2, Zenon
  <2>4. RelayedFine("connect", vs)
    BY <2>2, <2>3, ConnectCarries
  <2>. QED
    BY <1>4, <2>4, Zenon
<1>5. ASSUME s.cmd = "createStream" PROVE RelayedFine(s.cmd, vs)
  BY <1>5, CreateCarries, Zenon
<1>6. ASSUME s.cmd = "publish" PROVE RelayedFine(s.cmd, vs)
  <2>1. Len(vs) >= 3 /\ FieldCount("publish") = 4
    BY <1>1, <1>2, <1>6, RelayedIs, Zenon
  <2>2. Len(vs) \in 1..4
    BY <1>3, <1>6, <2>1, Zenon
  <2>3. Len(vs) \in 3..4
    <3>1. PICK n \in 1..4 : n = Len(vs)
      BY <2>2, Zenon
    <3>2. n >= 3
      BY <2>1, <3>1, Zenon
    <3>3. n \in 3..4
      BY <3>2
    <3>. QED
      BY <3>1, <3>3, Zenon
  <2>4. RelayedFine("publish", vs)
    BY <1>1, <2>3, PublishCarries
  <2>. QED
    BY <1>6, <2>4, Zenon
<1>7. ASSUME s.cmd \notin {"connect", "createStream", "publish"} PROVE RelayedFine(s.cmd, vs)
  BY <1>1, <1>3, <1>7, OtherCarries
<1>. QED
  BY <1>4, <1>5, <1>6, <1>7 DEF vs

-----------------------------------------------------------------------------
(* The invariant.                                                          *)

Again == Relayed(sent.cmd, MeantBy(sent.fields))
EncodedFields(r) == [i \in 1..Len(r) |-> EncodeOne[r[i]]]

IInv ==
  /\ sent \in Sent
  /\ at = "server" => Reading(Wire(sent.fields), MeantBy(sent.fields), fields, buffer)
  /\ at = "remote" => /\ \A i \in 1..Len(Again) : Encodes[Again[i]]
                      /\ Reading(EncodedFields(Again), Again, fields, buffer)
  /\ at = "dropped" => \E i \in 1..Len(MeantBy(sent.fields)) : HasStrictArray[MeantBy(sent.fields)[i]]
  /\ at = "arrived" => fields = Again /\ buffer = <<>>

\* What the remote reads, when all of it could be encoded.
LEMMA AgainReads ==
  ASSUME sent \in Sent
  PROVE  /\ Again \in Seq(Value) /\ Len(Again) \in Nat /\ Len(Again) <= FieldCount(sent.cmd)
         /\ FieldCount(sent.cmd) \in Nat
         /\ (\A i \in 1..Len(Again) : Encodes[Again[i]]) => Reads(EncodedFields(Again), Again)
         /\ \A i \in 1..Len(Again) : ValueFine(Again[i], MeantBy(sent.fields))
<1>1. RelayedFine(sent.cmd, MeantBy(sent.fields))
  BY CommandCarries
<1>2. /\ Again \in Seq(Value) /\ Len(Again) \in 1..FieldCount(sent.cmd)
      /\ \A i \in 1..Len(Again) : ValueFine(Again[i], MeantBy(sent.fields))
  BY <1>1, Zenon DEF RelayedFine, Again
<1>3. FieldCount(sent.cmd) \in Nat
  <2>1. sent.cmd \in {"connect", "createStream", "publish", "releaseStream", "FCPublish",
                      "FCUnpublish", "deleteStream", "closeStream"}
    BY CommandsAssumption
  <2>. QED
    BY <2>1 DEF FieldCount
<1>. HIDE DEF Again
<1>4. Len(Again) \in Nat /\ Len(Again) <= FieldCount(sent.cmd)
  <2>1. PICK n \in Nat, k \in Nat : n = Len(Again) /\ k = FieldCount(sent.cmd)
    BY <1>2, <1>3, LenProperties
  <2>2. n \in 1..k
    BY <1>2, <2>1, Zenon
  <2>3. n <= k
    BY <2>2
  <2>. QED
    BY <2>1, <2>3, Zenon
<1>5. ASSUME \A i \in 1..Len(Again) : Encodes[Again[i]] PROVE Reads(EncodedFields(Again), Again)
  <2>1. \A i \in 1..Len(Again) : Good(Again[i]) /\ Encodes[Again[i]]
    BY <1>2, <1>5, Zenon DEF ValueFine
  <2>2. Reads([i \in 1..Len(Again) |-> EncodeOne[Again[i]]], Again)
    BY <1>2, <2>1, RelayedReads
  <2>. QED
    BY <2>2, Zenon DEF EncodedFields
<1>. QED
  BY <1>2, <1>3, <1>4, <1>5, Zenon

\* The server has all of the command to decode.
LEMMA InitInv ==
  ASSUME Init
  PROVE  IInv
<1>1. sent \in Sent /\ at = "server" /\ fields = <<>> /\ buffer = FlattenSeq(Wire(sent.fields))
  BY Zenon DEF Init, Wire
<1>2. Reads(Wire(sent.fields), MeantBy(sent.fields))
  BY <1>1, FieldsRead
<1>3. Reading(Wire(sent.fields), MeantBy(sent.fields), <<>>, FlattenSeq(Wire(sent.fields)))
  BY <1>2, ReadingBegins
<1>4. Reading(Wire(sent.fields), MeantBy(sent.fields), fields, buffer)
  BY <1>1, <1>3, Zenon
<1>5. at # "remote" /\ at # "dropped" /\ at # "arrived"
  BY <1>1
<1>. QED
  BY <1>1, <1>4, <1>5, Zenon DEF IInv

\* One more field is decoded, by the server or by the remote.
LEMMA DecodeFieldInv ==
  ASSUME IInv, DecodeField
  PROVE  IInv'
<1>1. /\ sent' = sent /\ at' = at /\ buffer # <<>>
      /\ fields' = Append(fields, DecodeOne(buffer).value)
      /\ buffer' = From(buffer, DecodeOne(buffer).len + 1)
      /\ at = "server" \/ at = "remote"
  BY Zenon DEF DecodeField, Decoding
<1>2. sent \in Sent
  BY Zenon DEF IInv
<1>3. Again' = Again /\ (sent.fields)' = sent.fields
  BY <1>1, Zenon DEF Again
<1>4. ASSUME at = "server" PROVE IInv'
  <2>1. Reading(Wire(sent.fields), MeantBy(sent.fields), fields, buffer)
    BY <1>4, Zenon DEF IInv
  <2>2. Reads(Wire(sent.fields), MeantBy(sent.fields)) /\ MeantBy(sent.fields) \in Seq(Value)
    BY <1>2, FieldsRead
  <2>3. Reading(Wire(sent.fields), MeantBy(sent.fields), Append(fields, DecodeOne(buffer).value),
                From(buffer, DecodeOne(buffer).len + 1))
    BY <1>1, <2>1, <2>2, ReadingGoesOn
  <2>4. Reading(Wire(sent'.fields), MeantBy(sent'.fields), fields', buffer')
    BY <1>1, <2>3, Zenon
  <2>5. at' # "remote" /\ at' # "dropped" /\ at' # "arrived"
    BY <1>1, <1>4
  <2>. QED
    BY <1>1, <1>2, <2>4, <2>5, Zenon DEF IInv
<1>5. ASSUME at = "remote" PROVE IInv'
  <2>1. (\A i \in 1..Len(Again) : Encodes[Again[i]]) /\ Reading(EncodedFields(Again), Again, fields, buffer)
    BY <1>5, Zenon DEF IInv
  <2>2. Reads(EncodedFields(Again), Again) /\ Again \in Seq(Value)
    BY <1>2, <2>1, AgainReads
  <2>3. Reading(EncodedFields(Again), Again, Append(fields, DecodeOne(buffer).value),
                From(buffer, DecodeOne(buffer).len + 1))
    <3>1. PICK r \in Seq(Value) : r = Again
      BY <2>2, Zenon
    <3>2. Reads(EncodedFields(r), r) /\ Reading(EncodedFields(r), r, fields, buffer) /\ buffer # <<>>
      BY <1>1, <2>1, <2>2, <3>1, Zenon
    <3>3. Reading(EncodedFields(r), r, Append(fields, DecodeOne(buffer).value),
                  From(buffer, DecodeOne(buffer).len + 1))
      BY <3>2, ReadingGoesOn
    <3>. QED
      BY <3>1, <3>3, Zenon
  <2>4. /\ \A i \in 1..Len(Again') : Encodes[Again'[i]]
        /\ Reading(EncodedFields(Again'), Again', fields', buffer')
    BY <1>1, <1>3, <2>1, <2>3, Zenon
  <2>5. at' # "server" /\ at' # "dropped" /\ at' # "arrived"
    BY <1>1, <1>5
  <2>6. sent' \in Sent
    BY <1>1, <1>2, Zenon
  <2>7. (EncodedFields(Again))' = EncodedFields(Again')
    BY <1>3, Zenon
  <2>. QED
    BY <2>4, <2>5, <2>6, <2>7, Zenon DEF IInv
<1>. QED
  BY <1>1, <1>4, <1>5, Zenon

\* At the end of the loop all that was sent is decoded.
LEMMA AllRead ==
  ASSUME IInv, at = "server", ~Decoding
  PROVE  fields = MeantBy(sent.fields)
<1>1. sent \in Sent /\ Reading(Wire(sent.fields), MeantBy(sent.fields), fields, buffer)
  BY Zenon DEF IInv
<1>2. ~(buffer # <<>> /\ Len(fields) < FieldCount(sent.cmd))
  BY Zenon DEF Decoding
<1>3. /\ Reads(Wire(sent.fields), MeantBy(sent.fields)) /\ MeantBy(sent.fields) \in Seq(Value)
      /\ Len(Wire(sent.fields)) = Len(sent.fields)
  BY <1>1, FieldsRead
<1>4. FieldCount(sent.cmd) \in Nat /\ Len(sent.fields) \in 1..FieldCount(sent.cmd)
  BY <1>1, AgainReads, CommandsAssumption
<1>5. Len(Wire(sent.fields)) <= FieldCount(sent.cmd)
  <2>1. PICK n \in 1..FieldCount(sent.cmd) : n = Len(sent.fields)
    BY <1>4, Zenon
  <2>2. n <= FieldCount(sent.cmd)
    BY <1>4
  <2>. QED
    BY <1>3, <2>1, <2>2, Zenon
<1>. QED
  BY <1>1, <1>2, <1>3, <1>4, <1>5, ReadingEnds

\* The client encodes the command, or drops it for a strict array.
LEMMA RelayInv ==
  ASSUME IInv, Relay
  PROVE  IInv'
<1>1. /\ at = "server" /\ ~Decoding /\ sent' = sent
  BY Zenon DEF Relay
<1>2. sent \in Sent /\ fields = MeantBy(sent.fields)
  BY <1>1, AllRead, Zenon DEF IInv
<1>3. Relayed(sent.cmd, fields) = Again /\ Again' = Again
  BY <1>1, <1>2, Zenon DEF Again
<1>4. \/ /\ \A i \in 1..Len(Again) : Encodes[Again[i]]
         /\ at' = "remote" /\ buffer' = FlattenSeq(EncodedFields(Again)) /\ fields' = <<>>
      \/ ~(\A i \in 1..Len(Again) : Encodes[Again[i]]) /\ at' = "dropped"
  BY <1>3, Zenon DEF Relay, EncodedFields
<1>5. sent' \in Sent
  BY <1>1, <1>2, Zenon
<1>6. CASE /\ \A i \in 1..Len(Again) : Encodes[Again[i]]
           /\ at' = "remote" /\ buffer' = FlattenSeq(EncodedFields(Again)) /\ fields' = <<>>
  <2>1. Reads(EncodedFields(Again), Again)
    BY <1>2, <1>6, AgainReads, Zenon
  <2>2. Reading(EncodedFields(Again), Again, <<>>, FlattenSeq(EncodedFields(Again)))
    BY <2>1, ReadingBegins, Zenon
  <2>3. /\ \A i \in 1..Len(Again') : Encodes[Again'[i]]
        /\ Reading(EncodedFields(Again'), Again', fields', buffer')
    BY <1>3, <1>6, <2>2, Zenon
  <2>4. at' # "server" /\ at' # "dropped" /\ at' # "arrived"
    BY <1>6
  <2>. QED
    BY <1>5, <2>3, <2>4, Zenon DEF IInv
<1>7. CASE ~(\A i \in 1..Len(Again) : Encodes[Again[i]]) /\ at' = "dropped"
  <2>1. \A i \in 1..Len(Again) : ValueFine(Again[i], MeantBy(sent.fields))
    BY <1>2, AgainReads, Zenon
  <2>2. \E i \in 1..Len(MeantBy(sent.fields)) : HasStrictArray[MeantBy(sent.fields)[i]]
    BY <1>7, <2>1, Zenon DEF ValueFine
  <2>3. \E i \in 1..Len(MeantBy(sent'.fields)) : HasStrictArray[MeantBy(sent'.fields)[i]]
    BY <1>1, <2>2, Zenon
  <2>4. at' # "server" /\ at' # "remote" /\ at' # "arrived"
    BY <1>7
  <2>. QED
    BY <1>5, <2>3, <2>4, Zenon DEF IInv
<1>. QED
  BY <1>4, <1>6, <1>7, Zenon

\* The remote has all of it decoded.
LEMMA ArriveInv ==
  ASSUME IInv, Arrive
  PROVE  IInv'
<1>1. /\ at = "remote" /\ ~Decoding /\ at' = "arrived" /\ sent' = sent /\ fields' = fields /\ buffer' = buffer
  BY Zenon DEF Arrive
<1>2. sent \in Sent /\ (\A i \in 1..Len(Again) : Encodes[Again[i]])
      /\ Reading(EncodedFields(Again), Again, fields, buffer)
  BY <1>1, Zenon DEF IInv
<1>3. Reads(EncodedFields(Again), Again) /\ Again \in Seq(Value) /\ FieldCount(sent.cmd) \in Nat
      /\ Len(Again) <= FieldCount(sent.cmd)
  BY <1>2, AgainReads, Zenon
<1>4. ~(buffer # <<>> /\ Len(fields) < FieldCount(sent.cmd))
  BY <1>1, Zenon DEF Decoding
<1>5. Len(EncodedFields(Again)) <= FieldCount(sent.cmd)
  BY <1>3, Zenon DEF Reads
<1>6. fields = Again /\ buffer = <<>>
  <2>1. PICK r \in Seq(Value) : r = Again
    BY <1>3, Zenon
  <2>2. Reads(EncodedFields(r), r) /\ Reading(EncodedFields(r), r, fields, buffer)
        /\ Len(EncodedFields(r)) <= FieldCount(sent.cmd)
    BY <1>2, <1>3, <1>5, <2>1, Zenon
  <2>3. fields = r /\ buffer = <<>>
    BY <1>3, <1>4, <2>2, ReadingEnds
  <2>. QED
    BY <2>1, <2>3, Zenon
<1>7. Again' = Again
  BY <1>1, Zenon DEF Again
<1>8. at' # "server" /\ at' # "remote" /\ at' # "dropped"
  BY <1>1
<1>9. sent' \in Sent /\ fields' = Again' /\ buffer' = <<>>
  BY <1>1, <1>2, <1>6, <1>7, Zenon
<1>. QED
  BY <1>8, <1>9, Zenon DEF IInv

\* Server and remote stand at the beginning of a field, with those before
\* it decoded.
LEMMA Invariant == Spec => []IInv
<1>1. Init => IInv
  BY InitInv
<1>2. IInv /\ [Next]_vars => IInv'
  <2>. SUFFICES ASSUME IInv, [Next]_vars PROVE IInv'
    OBVIOUS
  <2>1. CASE Next
    BY <2>1, DecodeFieldInv, RelayInv, ArriveInv, Zenon DEF Next
  <2>2. CASE UNCHANGED vars
    <3>1. sent' = sent /\ at' = at /\ buffer' = buffer /\ fields' = fields
      BY <2>2 DEF vars
    <3>2. Again' = Again
      BY <3>1, Zenon DEF Again
    <3>. QED
      BY <3>1, <3>2, Zenon DEF IInv
  <2>. QED
    BY <2>1, <2>2
<1>. QED
  BY <1>1, <1>2, PTL DEF Spec

\* The rest of the fields is written as the rest of the bytes.
LEMMA WireFrom ==
  ASSUME NEW fs, NEW n \in Nat, n <= Len(fs), NEW S, fs \in Seq(S), Wire(fs) \in Seq(Seq(Byte)),
         Len(Wire(fs)) = Len(fs)
  PROVE  Wire(From(fs, n + 1)) = From(Wire(fs), n + 1)
<1>1. PICK l \in Nat : l = Len(fs)
  BY LenProperties
<1>2. n <= l
  BY <1>1
<1>3. n + 1 \in 1..(l + 1) /\ l - (n + 1) + 1 \in Nat
      /\ \A i \in 1..(l - (n + 1) + 1) : (n + 1) + i - 1 \in 1..l
  BY <1>2
<1>. DEFINE rest == From(fs, n + 1)
            left == From(Wire(fs), n + 1)
            k == l - (n + 1) + 1
<1>4. rest \in Seq(S) /\ Len(rest) = k /\ \A i \in 1..k : rest[i] = fs[(n + 1) + i - 1]
  BY <1>1, <1>3, FromLen
<1>5. left \in Seq(Seq(Byte)) /\ Len(left) = k /\ \A i \in 1..k : left[i] = Wire(fs)[(n + 1) + i - 1]
  <2>1. PICK w \in Seq(Seq(Byte)) : w = Wire(fs)
    BY Zenon
  <2>2. Len(w) = l
    BY <1>1, <2>1, Zenon
  <2>3. n + 1 \in 1..(Len(w) + 1)
    BY <1>3, <2>2, Zenon
  <2>4. /\ From(w, n + 1) \in Seq(Seq(Byte)) /\ Len(From(w, n + 1)) = Len(w) - (n + 1) + 1
        /\ \A i \in 1..(Len(w) - (n + 1) + 1) : From(w, n + 1)[i] = w[(n + 1) + i - 1]
    BY <2>3, FromLen
  <2>. QED
    BY <2>1, <2>2, <2>4, Zenon
<1>6. \A i \in 1..l : Wire(fs)[i] = Bytes[fs[i]]
  BY <1>1, Zenon DEF Wire
<1>. HIDE DEF rest, left
<1>7. \A i \in 1..k : left[i] = Bytes[rest[i]]
  BY <1>3, <1>4, <1>5, <1>6, Zenon
<1>8. Wire(rest) = [i \in 1..k |-> Bytes[rest[i]]]
  BY <1>4, Zenon DEF Wire
<1>9. left = [i \in 1..k |-> left[i]]
  <2>. HIDE DEF k
  <2>. QED
    BY <1>5
<1>10. left = Wire(rest)
  <2>. HIDE DEF k
  <2>. QED
    BY <1>7, <1>8, <1>9
<1>. QED
  BY <1>10 DEF rest, left

\* The server decodes each field of a command to what OBS meant by it, and
\* where the next one begins it stands at its first byte.
THEOREM FieldsAsSentHolds == Spec => []FieldsAsSent
<1>1. IInv => FieldsAsSent
  <2>. SUFFICES ASSUME IInv, at = "server"
                PROVE  /\ fields = SubSeq(Meant, 1, Len(fields))
                       /\ buffer = FlattenSeq(Wire(From(sent.fields, Len(fields) + 1)))
    BY Zenon DEF FieldsAsSent, Wire
  <2>1. sent \in Sent /\ Reading(Wire(sent.fields), MeantBy(sent.fields), fields, buffer)
    BY Zenon DEF IInv
  <2>2. Reads(Wire(sent.fields), MeantBy(sent.fields)) /\ Len(Wire(sent.fields)) = Len(sent.fields)
    BY <2>1, FieldsRead
  <2>3. Wire(sent.fields) \in Seq(Seq(Byte))
    BY <2>2, Zenon DEF Reads
  <2>4. sent.fields \in Seq(Nested[Depth] \cup Arrays)
    BY <2>1, CommandsAssumption
  <2>5. /\ Len(fields) \in 0..Len(sent.fields) /\ fields = SubSeq(MeantBy(sent.fields), 1, Len(fields))
        /\ buffer = FlattenSeq(From(Wire(sent.fields), Len(fields) + 1))
    BY <2>1, <2>2, Zenon DEF Reading
  <2>6. Meant = MeantBy(sent.fields)
    BY Zenon DEF Meant, MeantBy
  <2>7. PICK n \in Nat : n = Len(fields) /\ n <= Len(sent.fields)
    <3>1. PICK l \in Nat : l = Len(sent.fields)
      BY <2>4, LenProperties
    <3>2. PICK n \in 0..l : n = Len(fields)
      BY <2>5, <3>1, Zenon
    <3>3. n \in Nat /\ n <= l
      BY <3>2
    <3>. QED
      BY <3>1, <3>2, <3>3, Zenon
  <2>8. Wire(From(sent.fields, n + 1)) = From(Wire(sent.fields), n + 1)
    BY <2>2, <2>3, <2>4, <2>7, WireFrom
  <2>. QED
    BY <2>5, <2>6, <2>7, <2>8, Zenon
<1>. QED
  BY <1>1, Invariant, PTL

\* What the remote decodes is the command of OBS as far as it is relayed,
\* and one that is not relayed has a strict array in it.
THEOREM RelayedAsSentHolds == Spec => []RelayedAsSent
<1>1. IInv => RelayedAsSent
  <2>. SUFFICES ASSUME IInv PROVE RelayedAsSent
    OBVIOUS
  <2>1. Meant = MeantBy(sent.fields)
    BY Zenon DEF Meant, MeantBy
  <2>2. at = "dropped" => \E i \in 1..Len(Meant) : HasStrictArray[Meant[i]]
    BY <2>1, Zenon DEF IInv
  <2>3. ASSUME at = "arrived" PROVE buffer = <<>> /\ Carries(sent.cmd, Meant, fields)
    <3>1. sent \in Sent /\ fields = Again /\ buffer = <<>>
      BY <2>3, Zenon DEF IInv
    <3>2. Carries(sent.cmd, MeantBy(sent.fields), Again)
      BY <3>1, CommandCarries, Zenon DEF RelayedFine, Again
    <3>. QED
      BY <2>1, <3>1, <3>2, Zenon
  <2>. QED
    BY <2>2, <2>3, Zenon DEF RelayedAsSent, Carries
<1>. QED
  BY <1>1, Invariant, PTL
=============================================================================
