-------------------------- MODULE CallPayloadProofs --------------------------
(****************************************************************************)
(* Theorems of CallPayload.  The first part justifies the recursive         *)
(* definitions over schemas, values and depths, and says what each is one   *)
(* level down; the second relates them to one another; the third carries    *)
(* the results along a call.                                                *)
(****************************************************************************)
EXTENDS CallPayload, FiniteSetTheorems, SequenceTheorems, WellFoundedInduction, TLAPS

-----------------------------------------------------------------------------
(* Recursive functions *)

\* The smaller of two numbers, as a relation.
Less == {pair \in Nat \X Nat : pair[1] < pair[2]}

\* A set of natural numbers has a least one.
LEMMA Smallest ==
  ASSUME NEW T \in SUBSET Nat, T # {}
  PROVE  \E n \in T : \A m \in T : n <= m
<1>1. IsWellFoundedOn(Less, Nat)
  BY NatLessThanWellFounded, Zenon DEF OpToRel, Less
<1>2. PICK n \in T : \A m \in T : ~(<<m, n>> \in Less)
  BY <1>1, WFMin
<1>3. ASSUME NEW m \in T PROVE n <= m
  <2>1. ~(m < n)
    BY <1>2 DEF Less
  <2>2. QED
    BY <2>1
<1>4. QED
  BY <1>3

\* G reads a function only below the rank of the place it computes.
Local(U, rank, R, G) ==
  /\ rank \in [U -> Nat] /\ R # {} /\ G \in [[U -> R] -> [U -> R]]
  /\ \A g, h \in [U -> R], x \in U :
       (\A y \in U : rank[y] < rank[x] => g[y] = h[y]) => G[g][x] = G[h][x]

\* g is right below rank n.
Approximates(g, n, U, rank, R, G) ==
  g \in [U -> R] /\ \A x \in U : rank[x] < n => g[x] = G[g][x]

\* Below any rank there is a function that agrees with what G makes of it.
LEMMA ApproximationsExist ==
  ASSUME NEW U, NEW rank, NEW R, NEW G, Local(U, rank, R, G), NEW n \in Nat
  PROVE  \E g : Approximates(g, n, U, rank, R, G)
<1> DEFINE T == {m \in Nat : ~\E g : Approximates(g, m, U, rank, R, G)}
<1>1. SUFFICES ASSUME T # {} PROVE FALSE
  OBVIOUS
<1>2. PICK m \in T : \A k \in T : m <= k
  BY <1>1, Smallest
<1>3. CASE m = 0
  <2>1. PICK r \in R : TRUE
    BY DEF Local
  <2>2. Approximates([x \in U |-> r], 0, U, rank, R, G)
    BY DEF Approximates, Local
  <2>3. QED
    BY <1>3, <2>2
<1>4. CASE m # 0
  <2>1. m - 1 \in Nat /\ m - 1 \notin T
    BY <1>2, <1>4
  <2>2. PICK g : Approximates(g, m - 1, U, rank, R, G)
    BY <2>1
  <2>3. g \in [U -> R] /\ G[g] \in [U -> R]
    BY <2>2 DEF Approximates, Local
  <2>4. ASSUME NEW x \in U, rank[x] < m PROVE G[g][x] = G[G[g]][x]
    <3>1. ASSUME NEW y \in U, rank[y] < rank[x] PROVE g[y] = G[g][y]
      <4>1. rank[y] \in Nat /\ rank[x] \in Nat
        BY DEF Local
      <4>2. rank[y] < m - 1
        BY <2>4, <3>1, <4>1
      <4>3. QED
        BY <2>2, <4>2 DEF Approximates
    <3>2. QED
      BY <2>3, <3>1 DEF Local
  <2>5. Approximates(G[g], m, U, rank, R, G)
    BY <2>3, <2>4 DEF Approximates
  <2>6. QED
    BY <2>5
<1>5. QED
  BY <1>3, <1>4

\* Two such functions agree where both are right.
LEMMA ApproximationsAgree ==
  ASSUME NEW U, NEW rank, NEW R, NEW G, Local(U, rank, R, G),
         NEW n \in Nat, NEW g, Approximates(g, n, U, rank, R, G),
         NEW m \in Nat, NEW h, Approximates(h, m, U, rank, R, G),
         NEW x \in U, rank[x] < n, rank[x] < m
  PROVE  g[x] = h[x]
<1> DEFINE Bad(k) == \E y \in U : rank[y] = k /\ k < n /\ k < m /\ g[y] # h[y]
           T == {k \in Nat : Bad(k)}
<1>0. \A y \in U : rank[y] \in Nat
  BY DEF Local
<1>1. SUFFICES ASSUME T # {} PROVE FALSE
  BY <1>0
<1>2. PICK k \in T : \A l \in T : k <= l
  BY <1>1, Smallest
<1>3. PICK y \in U : rank[y] = k /\ k < n /\ k < m /\ g[y] # h[y]
  OBVIOUS
<1>4. ASSUME NEW z \in U, rank[z] < rank[y] PROVE g[z] = h[z]
  <2>1. rank[z] \in Nat /\ rank[z] < n /\ rank[z] < m /\ ~(k <= rank[z]) /\ k \in Nat
    BY <1>0, <1>3, <1>4
  <2>2. rank[z] \notin T
    BY <1>2, <2>1
  <2>3. QED
    BY <2>1, <2>2
<1>5. g \in [U -> R] /\ h \in [U -> R]
  BY DEF Approximates
<1>6. G[g][y] = G[h][y]
  BY <1>4, <1>5 DEF Local
<1>7. g[y] = G[g][y] /\ h[y] = G[h][y]
  BY <1>3 DEF Approximates
<1>8. QED
  BY <1>3, <1>6, <1>7

\* A recursive definition that reads only below the rank of what it computes
\* defines a function.
LEMMA Recursion ==
  ASSUME NEW U, NEW rank, NEW R, NEW G, Local(U, rank, R, G)
  PROVE  \E f \in [U -> R] : f = G[f]
<1> DEFINE at(x) == CHOOSE g : Approximates(g, rank[x] + 1, U, rank, R, G)
           f == [x \in U |-> at(x)[x]]
<1>1. ASSUME NEW x \in U
      PROVE  Approximates(at(x), rank[x] + 1, U, rank, R, G) /\ rank[x] \in Nat /\ rank[x] + 1 \in Nat
  <2>1. rank[x] \in Nat /\ rank[x] + 1 \in Nat
    BY DEF Local
  <2>2. \E g : Approximates(g, rank[x] + 1, U, rank, R, G)
    BY <2>1, ApproximationsExist
  <2>3. QED
    BY <2>1, <2>2
<1> HIDE DEF at
<1>2. \A x \in U : at(x) \in [U -> R]
  BY <1>1 DEF Approximates
<1>3. f \in [U -> R]
  BY <1>2
<1>4. ASSUME NEW x \in U PROVE f[x] = G[f][x]
  <2>1. ASSUME NEW y \in U, rank[y] < rank[x] PROVE f[y] = at(x)[y]
    <3>1. rank[y] < rank[y] + 1 /\ rank[y] < rank[x] + 1
      BY <1>1, <2>1
    <3>2. at(y)[y] = at(x)[y]
      BY <1>1, <3>1, ApproximationsAgree
    <3>3. QED
      BY <3>2
  <2>2. G[f][x] = G[at(x)][x]
    BY <1>2, <1>3, <2>1 DEF Local
  <2>3. rank[x] < rank[x] + 1
    BY <1>1
  <2>4. at(x)[x] = G[at(x)][x]
    BY <1>1, <2>3 DEF Approximates
  <2>5. QED
    BY <2>2, <2>4
<1>5. G[f] \in [U -> R]
  BY <1>3 DEF Local
<1>6. f = G[f]
  <2> HIDE DEF f
  <2>1. QED
    BY <1>3, <1>4, <1>5
<1>7. QED
  BY <1>3, <1>6

\* Induction over a rank: a set that has whatever it has all lower things of,
\* has everything.
LEMMA RankInduction ==
  ASSUME NEW U, NEW rank \in [U -> Nat], NEW T \in SUBSET U,
         \A x \in U : (\A y \in U : rank[y] < rank[x] => y \in T) => x \in T
  PROVE  T = U
<1> DEFINE missing == {rank[x] : x \in U \ T}
<1>1. SUFFICES ASSUME missing # {} PROVE FALSE
  OBVIOUS
<1>2. PICK n \in missing : \A m \in missing : n <= m
  <2>1. missing \in SUBSET Nat
    OBVIOUS
  <2> HIDE DEF missing
  <2>2. QED
    BY <1>1, <2>1, Smallest
<1>3. PICK x \in U \ T : rank[x] = n
  OBVIOUS
<1>4. ASSUME NEW y \in U, rank[y] < rank[x] PROVE y \in T
  <2>1. rank[y] \in Nat /\ ~(n <= rank[y])
    BY <1>3, <1>4
  <2>2. QED
    BY <1>2, <2>1
<1>5. QED
  BY <1>3, <1>4

-----------------------------------------------------------------------------
(* The parts of values and of schemas *)

\* What the assumption on Values says of one of them.
LEMMA ValueParts ==
  ASSUME NEW v \in Values
  PROVE  /\ \E kind \in Kinds : DOMAIN v = {kind}
         /\ Nesting[v] \in Nat
         /\ Is(v, "obj") => Parts(v) = v.obj
         /\ Is(v, "arr") => Parts(v) = v.arr /\ v.arr \in Seq(Values)
         /\ Is(v, "tup") => Parts(v) = v.tup /\ v.tup \in Seq(Values)
         /\ ~Is(v, "obj") /\ ~Is(v, "arr") /\ ~Is(v, "tup") => Parts(v) = <<>>
         /\ \A k \in DOMAIN Parts(v) :
              Parts(v)[k] \in Values /\ Nesting[Parts(v)[k]] < Nesting[v]
         /\ Is(v, "live") =>
              \A o \in v.live : o \in Values /\ Is(o, "obj") /\ Nesting[o] < Nesting[v]
         /\ Is(v, "text") => v.text \in Values /\ Nesting[v.text] < Nesting[v]
<1>1. IsValue(v)
  BY JsonSchemaAssumption
<1>2. PICK kind \in Kinds : DOMAIN v = {kind}
  BY <1>1 DEF IsValue
<1>3. /\ Is(v, "obj") => Parts(v) = v.obj
      /\ Is(v, "arr") => Parts(v) = v.arr
      /\ Is(v, "tup") => Parts(v) = v.tup
      /\ ~Is(v, "obj") /\ ~Is(v, "arr") /\ ~Is(v, "tup") => Parts(v) = <<>>
  BY <1>2 DEF Parts, Is
<1>4. /\ Is(v, "arr") => v.arr \in Seq(Values)
      /\ Is(v, "tup") => v.tup \in Seq(Values)
  BY <1>1, Zenon DEF IsValue, Is
<1>5. ASSUME NEW k \in DOMAIN Parts(v) PROVE Parts(v)[k] \in Inside(v)
  <2>1. CASE Is(v, "obj") \/ Is(v, "arr") \/ Is(v, "tup")
    <3>1. Inside(v) = Range(Parts(v))
      BY <1>2, <2>1 DEF Inside, Is
    <3>2. QED
      BY <3>1 DEF Range
  <2>2. CASE ~(Is(v, "obj") \/ Is(v, "arr") \/ Is(v, "tup"))
    <3>1. Parts(v) = <<>>
      BY <1>3, <2>2
    <3>2. DOMAIN <<>> = {}
      OBVIOUS
    <3>3. QED
      BY <3>1, <3>2
  <2>3. QED
    BY <2>1, <2>2
<1>6. /\ Is(v, "live") => Inside(v) = v.live
      /\ Is(v, "text") => Inside(v) = {v.text}
  BY <1>2 DEF Inside, Is
<1>7. /\ \A part \in Inside(v) : part \in Values /\ Nesting[part] < Nesting[v]
      /\ Nesting[v] \in Nat
      /\ Is(v, "live") => \A o \in v.live : Is(o, "obj")
  BY <1>1 DEF IsValue
<1>8. QED
  BY <1>2, <1>3, <1>4, <1>5, <1>6, <1>7

\* A value is of one kind.
LEMMA OneKind ==
  ASSUME NEW v \in Values, NEW a \in Kinds, NEW b \in Kinds, Is(v, a), Is(v, b)
  PROVE  a = b
<1>1. PICK kind \in Kinds : DOMAIN v = {kind}
  BY ValueParts
<1>2. QED
  BY <1>1 DEF Is

\* What the assumption on Schemas says of one of them.
LEMMA SchemaParts ==
  ASSUME NEW s \in Schemas
  PROVE  /\ Nesting[s] \in Nat
         /\ IsBooleanSchema(s) => s \in {TrueSchema, FalseSchema}
         /\ \A t \in Subschemas(s) : t \in Schemas /\ Nesting[t] < Nesting[s]
         /\ \A name \in DOMAIN Properties(s) :
              /\ Has(s, "properties") /\ Properties(s) = s.properties
              /\ s.properties[name] \in Subschemas(s)
         /\ \A k \in {"additionalProperties", "items"} : Has(s, k) => s[k] \in Subschemas(s)
         /\ \A k \in {"allOf", "anyOf", "oneOf"} :
              Has(s, k) => s[k] \in Seq(Schemas) /\ \A i \in DOMAIN s[k] : s[k][i] \in Subschemas(s)
         /\ Branches(s) \in Seq(Schemas)
         /\ \A i \in DOMAIN Branches(s) : Branches(s)[i] \in Subschemas(s)
<1>1. IsSchema(s)
  BY JsonSchemaAssumption
<1>2. /\ Nesting[s] \in Nat
      /\ IsBooleanSchema(s) => s \in {TrueSchema, FalseSchema}
      /\ \A t \in Subschemas(s) : t \in Schemas /\ Nesting[t] < Nesting[s]
      /\ \A k \in {"allOf", "anyOf", "oneOf"} : Has(s, k) => s[k] \in Seq(Schemas)
  BY <1>1, Zenon DEF IsSchema, Has
<1>3. ASSUME NEW name \in DOMAIN Properties(s)
      PROVE  /\ Has(s, "properties") /\ Properties(s) = s.properties
             /\ s.properties[name] \in Subschemas(s)
  <2>1. Has(s, "properties") /\ Properties(s) = s.properties
    BY DEF Properties, Get, NoNames
  <2>2. Properties(s)[name] \in Range(Properties(s))
    BY DEF Range
  <2>3. QED
    BY <2>1, <2>2 DEF Subschemas
<1>4. \A k \in {"additionalProperties", "items"} : Has(s, k) => s[k] \in Subschemas(s)
  BY DEF Subschemas, Has
<1>5. DEFINE all == Get(s, "allOf", <<>>)
             any == Get(s, "anyOf", <<>>)
             one == Get(s, "oneOf", <<>>)
<1>6. all \in Seq(Schemas) /\ any \in Seq(Schemas) /\ one \in Seq(Schemas)
  BY <1>2, EmptySeq DEF Get
<1>7. Branches(s) = (all \o any) \o one
  BY DEF Branches
<1>8. /\ Has(s, "allOf") => s["allOf"] = all
      /\ Has(s, "anyOf") => s["anyOf"] = any
      /\ Has(s, "oneOf") => s["oneOf"] = one
  BY DEF Get
<1> HIDE DEF all, any, one
<1>9. /\ all \o any \in Seq(Schemas) /\ Len(all \o any) = Len(all) + Len(any)
      /\ \A i \in 1..Len(all) + Len(any) :
           (all \o any)[i] = IF i <= Len(all) THEN all[i] ELSE any[i - Len(all)]
  BY <1>6, ConcatProperties
<1>10. /\ Branches(s) \in Seq(Schemas) /\ Len(Branches(s)) = Len(all) + Len(any) + Len(one)
       /\ \A i \in 1..Len(all) + Len(any) + Len(one) :
            Branches(s)[i] = IF i <= Len(all) + Len(any) THEN (all \o any)[i]
                                                        ELSE one[i - (Len(all) + Len(any))]
  BY <1>6, <1>7, <1>9, ConcatProperties
<1>11. /\ DOMAIN all = 1..Len(all) /\ Len(all) \in Nat
       /\ DOMAIN any = 1..Len(any) /\ Len(any) \in Nat
       /\ DOMAIN one = 1..Len(one) /\ Len(one) \in Nat
       /\ DOMAIN Branches(s) = 1..Len(all) + Len(any) + Len(one)
  BY <1>6, <1>10, LenProperties
<1>12. ASSUME NEW i \in DOMAIN Branches(s) PROVE Branches(s)[i] \in Subschemas(s)
  BY DEF Subschemas, Range
<1>13. \A i \in DOMAIN all : all[i] \in Subschemas(s)
  <2>1. ASSUME NEW i \in DOMAIN all PROVE all[i] = Branches(s)[i] /\ i \in DOMAIN Branches(s)
    BY <1>9, <1>10, <1>11
  <2>2. QED
    BY <1>12, <2>1
<1>14. \A i \in DOMAIN any : any[i] \in Subschemas(s)
  <2>1. ASSUME NEW i \in DOMAIN any
        PROVE  any[i] = Branches(s)[i + Len(all)] /\ i + Len(all) \in DOMAIN Branches(s)
    BY <1>9, <1>10, <1>11
  <2>2. QED
    BY <1>12, <2>1
<1>15. \A i \in DOMAIN one : one[i] \in Subschemas(s)
  <2>1. ASSUME NEW i \in DOMAIN one
        PROVE  /\ one[i] = Branches(s)[i + (Len(all) + Len(any))]
               /\ i + (Len(all) + Len(any)) \in DOMAIN Branches(s)
    BY <1>10, <1>11
  <2>2. QED
    BY <1>12, <2>1
<1>16. \A k \in {"allOf", "anyOf", "oneOf"} :
         Has(s, k) => \A i \in DOMAIN s[k] : s[k][i] \in Subschemas(s)
  BY <1>8, <1>13, <1>14, <1>15
<1>17. QED
  BY <1>2, <1>3, <1>4, <1>10, <1>12, <1>16

-----------------------------------------------------------------------------
(* What each recursive function is, one level down *)

LEMMA SupportedUnfolds ==
  /\ SupportedAt \in [0..MaxSchemaDepth + 1 -> [Schemas -> BOOLEAN]]
  /\ \A depth \in 0..MaxSchemaDepth + 1, s \in Schemas :
       SupportedAt[depth][s] =
         (/\ depth <= MaxSchemaDepth
          /\ ~IsBooleanSchema(s) =>
               WellFormed(s) /\ \A t \in Subschemas(s) : SupportedAt[depth + 1][t])
<1> DEFINE U == 0..MaxSchemaDepth + 1
           R == [Schemas -> BOOLEAN]
           e(g, depth) == [s \in Schemas |->
                             /\ depth <= MaxSchemaDepth
                             /\ ~IsBooleanSchema(s) =>
                                  WellFormed(s) /\ \A t \in Subschemas(s) : g[depth + 1][t]]
           G == [g \in [U -> R] |-> [x \in U |-> e(g, x)]]
           rank == [x \in U |-> MaxSchemaDepth + 1 - x]
<1>1. Local(U, rank, R, G)
  <2>1. rank \in [U -> Nat]
    BY JsonSchemaAssumption
  <2>2. [s \in Schemas |-> TRUE] \in R
    OBVIOUS
  <2>3. ASSUME NEW g \in [U -> R], NEW x \in U PROVE e(g, x) \in R
    OBVIOUS
  <2>4. ASSUME NEW g \in [U -> R], NEW h \in [U -> R], NEW x \in U,
               \A y \in U : rank[y] < rank[x] => g[y] = h[y]
        PROVE  e(g, x) = e(h, x)
    <3>1. x <= MaxSchemaDepth => x + 1 \in U /\ rank[x + 1] < rank[x]
      BY JsonSchemaAssumption
    <3>2. QED
      BY <2>4, <3>1
  <2> HIDE DEF R, e, rank
  <2>5. QED
    BY <2>1, <2>2, <2>3, <2>4 DEF Local
<1>2. \E f \in [U -> R] : f = G[f]
  <2> HIDE DEF U, R, G, rank
  <2> QED
    BY <1>1, Recursion
<1>3. \A g, x : e(g, x) \in R
  OBVIOUS
<1>4. \E f : f = [x \in U |-> e(f, x)] /\ f \in [U -> R]
  <2> HIDE DEF U, R, e
  <2> QED
    BY <1>2
<1>5. SupportedAt = [x \in U |-> e(SupportedAt, x)]
  BY <1>4, Zenon DEF SupportedAt
<1>6. \A x \in U : SupportedAt[x] = e(SupportedAt, x)
  BY <1>5
<1>7. SupportedAt \in [U -> R]
  <2> HIDE DEF U, R, e
  <2> QED
    BY <1>3, <1>5
<1>8. QED
  BY <1>6, <1>7

LEMMA CheckUnfolds ==
  /\ CheckAt \in [0..MaxSchemaDepth + 1 -> [Schemas -> [Values -> BOOLEAN]]]
  /\ \A depth \in 0..MaxSchemaDepth + 1, s \in Schemas, v \in Values :
       CheckAt[depth][s][v] =
         (/\ depth <= MaxSchemaDepth
          /\ s # FalseSchema
          /\ s # TrueSchema => CheckKeywords(v, s, CheckAt[depth + 1]))
<1> DEFINE U == 0..MaxSchemaDepth + 1
           R == [Schemas -> [Values -> BOOLEAN]]
           e(g, depth) == [s \in Schemas |-> [v \in Values |->
                             /\ depth <= MaxSchemaDepth
                             /\ s # FalseSchema
                             /\ s # TrueSchema => CheckKeywords(v, s, g[depth + 1])]]
           G == [g \in [U -> R] |-> [x \in U |-> e(g, x)]]
           rank == [x \in U |-> MaxSchemaDepth + 1 - x]
<1>1. Local(U, rank, R, G)
  <2>1. rank \in [U -> Nat]
    BY JsonSchemaAssumption
  <2>2. [s \in Schemas |-> [v \in Values |-> TRUE]] \in R
    OBVIOUS
  <2>3. ASSUME NEW g \in [U -> R], NEW x \in U PROVE e(g, x) \in R
    OBVIOUS
  <2>4. ASSUME NEW g \in [U -> R], NEW h \in [U -> R], NEW x \in U,
               \A y \in U : rank[y] < rank[x] => g[y] = h[y]
        PROVE  e(g, x) = e(h, x)
    <3>1. CASE x <= MaxSchemaDepth
      <4>1. x + 1 \in U /\ rank[x + 1] < rank[x]
        BY <3>1, JsonSchemaAssumption
      <4>2. g[x + 1] = h[x + 1]
        BY <2>4, <4>1
      <4>3. QED
        BY <4>2
    <3>2. CASE ~(x <= MaxSchemaDepth)
      BY <3>2
    <3>3. QED
      BY <3>1, <3>2
  <2> HIDE DEF R, e, rank
  <2>5. QED
    BY <2>1, <2>2, <2>3, <2>4 DEF Local
<1>2. \E f \in [U -> R] : f = G[f]
  <2> HIDE DEF U, R, G, rank
  <2> QED
    BY <1>1, Recursion
<1>3. \A g, x : e(g, x) \in R
  OBVIOUS
<1>4. \E f : f = [x \in U |-> e(f, x)] /\ f \in [U -> R]
  <2> HIDE DEF U, R, e
  <2> QED
    BY <1>2
<1>5. CheckAt = [x \in U |-> e(CheckAt, x)]
  BY <1>4, Zenon DEF CheckAt
<1>6. \A x \in U : CheckAt[x] = e(CheckAt, x)
  BY <1>5
<1>7. CheckAt \in [U -> R]
  <2> HIDE DEF U, R, e
  <2> QED
    BY <1>3, <1>5
<1>8. ASSUME NEW depth \in U, NEW s \in Schemas, NEW v \in Values
      PROVE  CheckAt[depth][s][v] =
               (/\ depth <= MaxSchemaDepth
                /\ s # FalseSchema
                /\ s # TrueSchema => CheckKeywords(v, s, CheckAt[depth + 1]))
  <2>1. CheckAt[depth] = e(CheckAt, depth)
    BY <1>6
  <2>2. QED
    BY <2>1
<1>9. QED
  BY <1>7, <1>8

LEMMA DeclaredNamesUnfolds ==
  /\ DeclaredNames \in [Schemas -> SUBSET Names]
  /\ \A s \in Schemas : DeclaredNames[s] =
       DOMAIN Properties(s) \cup UNION {DeclaredNames[b] : b \in Range(Branches(s))}
<1> DEFINE R == SUBSET Names
           e(g, s) ==
             DOMAIN Properties(s) \cup UNION {g[b] : b \in Range(Branches(s))}
           G == [g \in [Schemas -> R] |-> [s \in Schemas |-> e(g, s)]]
           rank == [s \in Schemas |-> Nesting[s]]
<1>1. rank \in [Schemas -> Nat]
  BY SchemaParts
<1>2. ASSUME NEW g \in [Schemas -> R], NEW s \in Schemas PROVE e(g, s) \in R
  <2>1. \A b \in Range(Branches(s)) : g[b] \in SUBSET Names
    BY SchemaParts DEF Range
  <2>2. QED
    BY <2>1 DEF Names
<1>3. ASSUME NEW g, NEW h, NEW s \in Schemas,
             \A y \in Schemas : rank[y] < rank[s] => g[y] = h[y]
      PROVE  e(g, s) = e(h, s)
  <2>1. \A b \in Range(Branches(s)) : g[b] = h[b]
    BY <1>3, SchemaParts DEF Range
  <2>2. QED
    BY <2>1
<1>4. {} \in R
  OBVIOUS
<1> HIDE DEF R, e, rank
<1>5. Local(Schemas, rank, R, G)
  BY <1>1, <1>2, <1>3, <1>4 DEF Local
<1>6. PICK f \in [Schemas -> R] : f = [s \in Schemas |-> e(f, s)]
  <2>1. PICK f \in [Schemas -> R] : f = G[f]
    <3> HIDE DEF G
    <3> QED
      BY <1>5, Recursion
  <2>2. f = [s \in Schemas |-> e(f, s)]
    BY <2>1
  <2>3. QED
    BY <2>2
<1>7. DeclaredNames = [s \in Schemas |-> e(DeclaredNames, s)]
  BY <1>6, Zenon DEF DeclaredNames, e
<1>8. \A s \in Schemas : DeclaredNames[s] = f[s]
  <2> DEFINE T == {x \in Schemas : DeclaredNames[x] = f[x]}
  <2>1. ASSUME NEW x \in Schemas, \A y \in Schemas : rank[y] < rank[x] => y \in T PROVE x \in T
    <3>1. e(DeclaredNames, x) = e(f, x)
      BY <1>3, <2>1
    <3>2. DeclaredNames[x] = e(DeclaredNames, x) /\ f[x] = e(f, x)
      BY <1>6, <1>7
    <3>3. QED
      BY <3>1, <3>2
  <2> HIDE DEF T
  <2>2. T \in SUBSET Schemas
    BY DEF T
  <2>3. T = Schemas
    BY <1>1, <2>1, <2>2, RankInduction
  <2>4. QED
    BY <2>3 DEF T
<1>9. DeclaredNames \in [Schemas -> R]
  BY <1>6, <1>7, <1>8
<1>10. \A s \in Schemas : DeclaredNames[s] = e(DeclaredNames, s)
  BY <1>7
<1>11. QED
  BY <1>9, <1>10, Zenon DEF R, e

LEMMA WithBranchesUnfolds ==
  /\ WithBranches \in [Schemas -> SUBSET Schemas]
  /\ \A s \in Schemas : WithBranches[s] =
       {s} \cup UNION {WithBranches[b] : b \in Range(Branches(s))}
<1> DEFINE R == SUBSET Schemas
           e(g, s) ==
             {s} \cup UNION {g[b] : b \in Range(Branches(s))}
           G == [g \in [Schemas -> R] |-> [s \in Schemas |-> e(g, s)]]
           rank == [s \in Schemas |-> Nesting[s]]
<1>1. rank \in [Schemas -> Nat]
  BY SchemaParts
<1>2. ASSUME NEW g \in [Schemas -> R], NEW s \in Schemas PROVE e(g, s) \in R
  <2>1. \A b \in Range(Branches(s)) : g[b] \in SUBSET Schemas
    BY SchemaParts DEF Range
  <2>2. QED
    BY <2>1
<1>3. ASSUME NEW g, NEW h, NEW s \in Schemas,
             \A y \in Schemas : rank[y] < rank[s] => g[y] = h[y]
      PROVE  e(g, s) = e(h, s)
  <2>1. \A b \in Range(Branches(s)) : g[b] = h[b]
    BY <1>3, SchemaParts DEF Range
  <2>2. QED
    BY <2>1
<1>4. {} \in R
  OBVIOUS
<1> HIDE DEF R, e, rank
<1>5. Local(Schemas, rank, R, G)
  BY <1>1, <1>2, <1>3, <1>4 DEF Local
<1>6. PICK f \in [Schemas -> R] : f = [s \in Schemas |-> e(f, s)]
  <2>1. PICK f \in [Schemas -> R] : f = G[f]
    <3> HIDE DEF G
    <3> QED
      BY <1>5, Recursion
  <2>2. f = [s \in Schemas |-> e(f, s)]
    BY <2>1
  <2>3. QED
    BY <2>2
<1>7. WithBranches = [s \in Schemas |-> e(WithBranches, s)]
  BY <1>6, Zenon DEF WithBranches, e
<1>8. \A s \in Schemas : WithBranches[s] = f[s]
  <2> DEFINE T == {x \in Schemas : WithBranches[x] = f[x]}
  <2>1. ASSUME NEW x \in Schemas, \A y \in Schemas : rank[y] < rank[x] => y \in T PROVE x \in T
    <3>1. e(WithBranches, x) = e(f, x)
      BY <1>3, <2>1
    <3>2. WithBranches[x] = e(WithBranches, x) /\ f[x] = e(f, x)
      BY <1>6, <1>7
    <3>3. QED
      BY <3>1, <3>2
  <2> HIDE DEF T
  <2>2. T \in SUBSET Schemas
    BY DEF T
  <2>3. T = Schemas
    BY <1>1, <2>1, <2>2, RankInduction
  <2>4. QED
    BY <2>3 DEF T
<1>9. WithBranches \in [Schemas -> R]
  BY <1>6, <1>7, <1>8
<1>10. \A s \in Schemas : WithBranches[s] = e(WithBranches, s)
  BY <1>7
<1>11. QED
  BY <1>9, <1>10, Zenon DEF R, e

LEMMA NestedUnfolds ==
  /\ Nested \in [Schemas -> SUBSET Schemas]
  /\ \A s \in Schemas : Nested[s] =
       {s} \cup UNION {Nested[t] : t \in Subschemas(s)}
<1> DEFINE R == SUBSET Schemas
           e(g, s) ==
             {s} \cup UNION {g[t] : t \in Subschemas(s)}
           G == [g \in [Schemas -> R] |-> [s \in Schemas |-> e(g, s)]]
           rank == [s \in Schemas |-> Nesting[s]]
<1>1. rank \in [Schemas -> Nat]
  BY SchemaParts
<1>2. ASSUME NEW g \in [Schemas -> R], NEW s \in Schemas PROVE e(g, s) \in R
  <2>1. \A t \in Subschemas(s) : g[t] \in SUBSET Schemas
    BY SchemaParts
  <2>2. QED
    BY <2>1
<1>3. ASSUME NEW g, NEW h, NEW s \in Schemas,
             \A y \in Schemas : rank[y] < rank[s] => g[y] = h[y]
      PROVE  e(g, s) = e(h, s)
  <2>1. \A t \in Subschemas(s) : g[t] = h[t]
    BY <1>3, SchemaParts
  <2>2. QED
    BY <2>1
<1>4. {} \in R
  OBVIOUS
<1> HIDE DEF R, e, rank
<1>5. Local(Schemas, rank, R, G)
  BY <1>1, <1>2, <1>3, <1>4 DEF Local
<1>6. PICK f \in [Schemas -> R] : f = [s \in Schemas |-> e(f, s)]
  <2>1. PICK f \in [Schemas -> R] : f = G[f]
    <3> HIDE DEF G
    <3> QED
      BY <1>5, Recursion
  <2>2. f = [s \in Schemas |-> e(f, s)]
    BY <2>1
  <2>3. QED
    BY <2>2
<1>7. Nested = [s \in Schemas |-> e(Nested, s)]
  BY <1>6, Zenon DEF Nested, e
<1>8. \A s \in Schemas : Nested[s] = f[s]
  <2> DEFINE T == {x \in Schemas : Nested[x] = f[x]}
  <2>1. ASSUME NEW x \in Schemas, \A y \in Schemas : rank[y] < rank[x] => y \in T PROVE x \in T
    <3>1. e(Nested, x) = e(f, x)
      BY <1>3, <2>1
    <3>2. Nested[x] = e(Nested, x) /\ f[x] = e(f, x)
      BY <1>6, <1>7
    <3>3. QED
      BY <3>1, <3>2
  <2> HIDE DEF T
  <2>2. T \in SUBSET Schemas
    BY DEF T
  <2>3. T = Schemas
    BY <1>1, <2>1, <2>2, RankInduction
  <2>4. QED
    BY <2>3 DEF T
<1>9. Nested \in [Schemas -> R]
  BY <1>6, <1>7, <1>8
<1>10. \A s \in Schemas : Nested[s] = e(Nested, s)
  BY <1>7
<1>11. QED
  BY <1>9, <1>10, Zenon DEF R, e

\* The first of some branches is one of them.
LEMMA BranchMin ==
  ASSUME NEW s \in Schemas, NEW found \in SUBSET DOMAIN Branches(s), found # {}
  PROVE  Min(found) \in found /\ \A i \in found : Min(found) <= i
<1>1. DOMAIN Branches(s) = 1..Len(Branches(s)) /\ Len(Branches(s)) \in Nat
  BY SchemaParts, LenProperties
<1>2. found \in SUBSET Nat
  BY <1>1
<1>3. \E n \in found : \A m \in found : n <= m
  BY <1>2, Smallest
<1>4. QED
  BY <1>3 DEF Min

LEMMA FirstFoundUnfolds ==
  /\ FirstFound \in [Schemas -> [Names -> Schemas]]
  /\ \A s \in Schemas : FirstFound[s] =
       [name \in Names |->
          LET found == {i \in DOMAIN Branches(s) : FirstFound[Branches(s)[i]][name] # Absent}
          IN  CASE name \in DOMAIN Properties(s) -> s.properties[name]
                [] name \notin DOMAIN Properties(s) /\ found # {} ->
                     FirstFound[Branches(s)[Min(found)]][name]
                [] OTHER -> Absent]
<1> DEFINE R == [Names -> Schemas]
           e(g, s) ==
             [name \in Names |->
                LET found == {i \in DOMAIN Branches(s) : g[Branches(s)[i]][name] # Absent}
                IN  CASE name \in DOMAIN Properties(s) -> s.properties[name]
                      [] name \notin DOMAIN Properties(s) /\ found # {} ->
                           g[Branches(s)[Min(found)]][name]
                      [] OTHER -> Absent]
           G == [g \in [Schemas -> R] |-> [s \in Schemas |-> e(g, s)]]
           rank == [s \in Schemas |-> Nesting[s]]
<1>1. rank \in [Schemas -> Nat]
  BY SchemaParts
<1>2. ASSUME NEW g \in [Schemas -> R], NEW s \in Schemas PROVE e(g, s) \in R
  <2>1. ASSUME NEW name \in Names PROVE e(g, s)[name] \in Schemas
    <3> DEFINE found == {i \in DOMAIN Branches(s) : g[Branches(s)[i]][name] # Absent}
    <3>1. CASE name \in DOMAIN Properties(s)
      <4>1. s.properties[name] \in Schemas
        BY <3>1, SchemaParts
      <4>2. QED
        BY <3>1, <4>1
    <3>2. CASE name \notin DOMAIN Properties(s) /\ found # {}
      <4>1. Min(found) \in found
        BY <3>2, BranchMin
      <4>2. g[Branches(s)[Min(found)]][name] \in Schemas
        BY <4>1, SchemaParts
      <4>3. QED
        BY <3>2, <4>2
    <3>3. CASE name \notin DOMAIN Properties(s) /\ ~(found # {})
      BY <3>3, JsonSchemaAssumption
    <3>4. QED
      BY <3>1, <3>2, <3>3
  <2>2. QED
    BY <2>1
<1>3. ASSUME NEW g, NEW h, NEW s \in Schemas,
             \A y \in Schemas : rank[y] < rank[s] => g[y] = h[y]
      PROVE  e(g, s) = e(h, s)
  <2>1. \A i \in DOMAIN Branches(s) : g[Branches(s)[i]] = h[Branches(s)[i]]
    BY <1>3, SchemaParts
  <2>2. ASSUME NEW name \in Names PROVE e(g, s)[name] = e(h, s)[name]
    <3> DEFINE found == {i \in DOMAIN Branches(s) : g[Branches(s)[i]][name] # Absent}
    <3>1. found = {i \in DOMAIN Branches(s) : h[Branches(s)[i]][name] # Absent}
      BY <2>1
    <3>2. found # {} => g[Branches(s)[Min(found)]] = h[Branches(s)[Min(found)]]
      BY <2>1, BranchMin
    <3>3. QED
      BY <3>1, <3>2
  <2>3. QED
    BY <2>2
<1>4. [name \in Names |-> Absent] \in R
  BY JsonSchemaAssumption
<1> HIDE DEF R, e, rank
<1>5. Local(Schemas, rank, R, G)
  BY <1>1, <1>2, <1>3, <1>4 DEF Local
<1>6. PICK f \in [Schemas -> R] : f = [s \in Schemas |-> e(f, s)]
  <2>1. PICK f \in [Schemas -> R] : f = G[f]
    <3> HIDE DEF G
    <3> QED
      BY <1>5, Recursion
  <2>2. f = [s \in Schemas |-> e(f, s)]
    BY <2>1
  <2>3. QED
    BY <2>2
<1>7. FirstFound = [s \in Schemas |-> e(FirstFound, s)]
  BY <1>6, Zenon DEF FirstFound, e
<1>8. \A s \in Schemas : FirstFound[s] = f[s]
  <2> DEFINE T == {x \in Schemas : FirstFound[x] = f[x]}
  <2>1. ASSUME NEW x \in Schemas, \A y \in Schemas : rank[y] < rank[x] => y \in T PROVE x \in T
    <3>1. e(FirstFound, x) = e(f, x)
      BY <1>3, <2>1
    <3>2. FirstFound[x] = e(FirstFound, x) /\ f[x] = e(f, x)
      BY <1>6, <1>7
    <3>3. QED
      BY <3>1, <3>2
  <2> HIDE DEF T
  <2>2. T \in SUBSET Schemas
    BY DEF T
  <2>3. T = Schemas
    BY <1>1, <2>1, <2>2, RankInduction
  <2>4. QED
    BY <2>3 DEF T
<1>9. FirstFound \in [Schemas -> R]
  BY <1>6, <1>7, <1>8
<1>10. \A s \in Schemas : FirstFound[s] = e(FirstFound, s)
  BY <1>7
<1>11. QED
  BY <1>9, <1>10, Zenon DEF R, e

\* What each keyword says, by its name.
LEMMA SaysEach ==
  ASSUME NEW v, NEW s, NEW m
  PROVE  /\ \A k \in AnnotationKeywords : Says(k, v, s, m)
         /\ \A k : k \notin SupportedKeywords => ~Says(k, v, s, m)
         /\ Says("type", v, s, m) = (KindNames(v) \cap s["type"] # {})
         /\ Says("const", v, s, m) = (v = s["const"])
         /\ Says("enum", v, s, m) = (v \in s["enum"])
         /\ Says("minLength", v, s, m) = (Is(v, "str") => Len(v.str) >= s["minLength"])
         /\ Says("maxLength", v, s, m) = (Is(v, "str") => Len(v.str) <= s["maxLength"])
         /\ Says("pattern", v, s, m) = (Is(v, "str") => v.str \in s["pattern"].finds)
         /\ Says("minimum", v, s, m) = (IsNumber(v) => Halves(v) >= s["minimum"])
         /\ Says("maximum", v, s, m) = (IsNumber(v) => Halves(v) <= s["maximum"])
         /\ Says("exclusiveMinimum", v, s, m) = (IsNumber(v) => Halves(v) > s["exclusiveMinimum"])
         /\ Says("exclusiveMaximum", v, s, m) = (IsNumber(v) => Halves(v) < s["exclusiveMaximum"])
         /\ Says("multipleOf", v, s, m) = (IsNumber(v) => IsMultiple(Halves(v), s["multipleOf"]))
         /\ Says("required", v, s, m) = (Is(v, "obj") => s["required"] \subseteq DOMAIN v.obj)
         /\ Says("properties", v, s, m) = (Is(v, "obj") =>
              \A n \in DOMAIN s["properties"] \cap DOMAIN v.obj : m[s["properties"][n]][v.obj[n]])
         /\ Says("additionalProperties", v, s, m) = (Is(v, "obj") =>
              \A n \in DOMAIN v.obj \ DOMAIN Properties(s) : m[s["additionalProperties"]][v.obj[n]])
         /\ Says("items", v, s, m) = (Is(v, "arr") => \A i \in DOMAIN v.arr : m[s["items"]][v.arr[i]])
         /\ Says("minItems", v, s, m) = (Is(v, "arr") => Len(v.arr) >= s["minItems"])
         /\ Says("maxItems", v, s, m) = (Is(v, "arr") => Len(v.arr) <= s["maxItems"])
         /\ Says("uniqueItems", v, s, m) = (Is(v, "arr") /\ s["uniqueItems"] => Cardinality(Range(v.arr)) = Len(v.arr))
         /\ Says("allOf", v, s, m) = ({i \in DOMAIN s["allOf"] : m[s["allOf"][i]][v]} = DOMAIN s["allOf"])
         /\ Says("anyOf", v, s, m) = ({i \in DOMAIN s["anyOf"] : m[s["anyOf"][i]][v]} # {})
         /\ Says("oneOf", v, s, m) = (Cardinality({i \in DOMAIN s["oneOf"] : m[s["oneOf"][i]][v]}) = 1)
<1>1. \A k \in AnnotationKeywords : Says(k, v, s, m)
  BY DEF Says, AnnotationKeywords
<1>2. Says("type", v, s, m) = (KindNames(v) \cap s["type"] # {})
  BY DEF Says, AnnotationKeywords
<1>3. Says("const", v, s, m) = (v = s["const"])
  BY DEF Says, AnnotationKeywords
<1>4. Says("enum", v, s, m) = (v \in s["enum"])
  BY DEF Says, AnnotationKeywords
<1>5. Says("minLength", v, s, m) = (Is(v, "str") => Len(v.str) >= s["minLength"])
  BY DEF Says, AnnotationKeywords
<1>6. Says("maxLength", v, s, m) = (Is(v, "str") => Len(v.str) <= s["maxLength"])
  BY DEF Says, AnnotationKeywords
<1>7. Says("pattern", v, s, m) = (Is(v, "str") => v.str \in s["pattern"].finds)
  BY DEF Says, AnnotationKeywords
<1>8. Says("minimum", v, s, m) = (IsNumber(v) => Halves(v) >= s["minimum"])
  BY DEF Says, AnnotationKeywords
<1>9. Says("maximum", v, s, m) = (IsNumber(v) => Halves(v) <= s["maximum"])
  BY DEF Says, AnnotationKeywords
<1>10. Says("exclusiveMinimum", v, s, m) = (IsNumber(v) => Halves(v) > s["exclusiveMinimum"])
  BY DEF Says, AnnotationKeywords
<1>11. Says("exclusiveMaximum", v, s, m) = (IsNumber(v) => Halves(v) < s["exclusiveMaximum"])
  BY DEF Says, AnnotationKeywords
<1>12. Says("multipleOf", v, s, m) = (IsNumber(v) => IsMultiple(Halves(v), s["multipleOf"]))
  BY DEF Says, AnnotationKeywords
<1>13. Says("required", v, s, m) = (Is(v, "obj") => s["required"] \subseteq DOMAIN v.obj)
  BY DEF Says, AnnotationKeywords
<1>14. Says("properties", v, s, m) = (Is(v, "obj") =>
              \A n \in DOMAIN s["properties"] \cap DOMAIN v.obj : m[s["properties"][n]][v.obj[n]])
  BY DEF Says, AnnotationKeywords
<1>15. Says("additionalProperties", v, s, m) = (Is(v, "obj") =>
              \A n \in DOMAIN v.obj \ DOMAIN Properties(s) : m[s["additionalProperties"]][v.obj[n]])
  BY DEF Says, AnnotationKeywords
<1>16. Says("items", v, s, m) = (Is(v, "arr") => \A i \in DOMAIN v.arr : m[s["items"]][v.arr[i]])
  BY DEF Says, AnnotationKeywords
<1>17. Says("minItems", v, s, m) = (Is(v, "arr") => Len(v.arr) >= s["minItems"])
  BY DEF Says, AnnotationKeywords
<1>18. Says("maxItems", v, s, m) = (Is(v, "arr") => Len(v.arr) <= s["maxItems"])
  BY DEF Says, AnnotationKeywords
<1>19. Says("uniqueItems", v, s, m) = (Is(v, "arr") /\ s["uniqueItems"] => Cardinality(Range(v.arr)) = Len(v.arr))
  BY DEF Says, AnnotationKeywords
<1>20. Says("allOf", v, s, m) = ({i \in DOMAIN s["allOf"] : m[s["allOf"][i]][v]} = DOMAIN s["allOf"])
  BY DEF Says, AnnotationKeywords
<1>21. Says("anyOf", v, s, m) = ({i \in DOMAIN s["anyOf"] : m[s["anyOf"][i]][v]} # {})
  BY DEF Says, AnnotationKeywords
<1>22. Says("oneOf", v, s, m) = (Cardinality({i \in DOMAIN s["oneOf"] : m[s["oneOf"][i]][v]}) = 1)
  BY DEF Says, AnnotationKeywords
<1>23. \A k : k \notin SupportedKeywords => ~Says(k, v, s, m)
  BY DEF Says, SupportedKeywords, AnnotationKeywords
<1>24. QED
  BY <1>23, <1>1, <1>2, <1>3, <1>4, <1>5, <1>6, <1>7, <1>8, <1>9, <1>10, <1>11, <1>12, <1>13, <1>14, <1>15, <1>16, <1>17, <1>18, <1>19, <1>20, <1>21, <1>22

\* A keyword looks at its own schema's subschemas alone.
LEMMA SaysLocal ==
  ASSUME NEW s \in Schemas, NEW g, NEW h, \A t \in Subschemas(s) : g[t] = h[t],
         NEW v, NEW k \in DOMAIN s
  PROVE  Says(k, v, s, g) = Says(k, v, s, h)
<1>1. CASE k = "properties"
  <2>1. \A n \in DOMAIN s["properties"] : g[s["properties"][n]] = h[s["properties"][n]]
    BY <1>1, SchemaParts DEF Properties, Get, Has
  <2>2. QED
    BY <1>1, <2>1 DEF Says, AnnotationKeywords
<1>2. CASE k = "additionalProperties"
  <2>1. g[s["additionalProperties"]] = h[s["additionalProperties"]]
    BY <1>2, SchemaParts DEF Has
  <2>2. QED
    BY <1>2, <2>1 DEF Says, AnnotationKeywords
<1>3. CASE k = "items"
  <2>1. g[s["items"]] = h[s["items"]]
    BY <1>3, SchemaParts DEF Has
  <2>2. QED
    BY <1>3, <2>1 DEF Says, AnnotationKeywords
<1>4. CASE k \in {"allOf", "anyOf", "oneOf"}
  <2>1. \A i \in DOMAIN s[k] : g[s[k][i]] = h[s[k][i]]
    BY <1>4, SchemaParts DEF Has
  <2>2. {i \in DOMAIN s[k] : g[s[k][i]][v]} = {i \in DOMAIN s[k] : h[s[k][i]][v]}
    BY <2>1
  <2>3. CASE k = "allOf"
    BY <2>2, <2>3 DEF Says, AnnotationKeywords
  <2>4. CASE k = "anyOf"
    BY <2>2, <2>4 DEF Says, AnnotationKeywords
  <2>5. CASE k = "oneOf"
    BY <2>2, <2>5 DEF Says, AnnotationKeywords
  <2>6. QED
    BY <1>4, <2>3, <2>4, <2>5
<1>5. CASE k \notin {"properties", "additionalProperties", "items", "allOf", "anyOf", "oneOf"}
  <2>1. CASE k \in SupportedKeywords
    BY <1>5, <2>1 DEF Says, SupportedKeywords, AnnotationKeywords
  <2>2. CASE k \notin SupportedKeywords
    <3>1. Says(k, v, s, g) = FALSE /\ Says(k, v, s, h) = FALSE
      BY <2>2 DEF Says, SupportedKeywords, AnnotationKeywords
    <3>2. QED
      BY <3>1
  <2>3. QED
    BY <2>1, <2>2
<1>6. QED
  BY <1>1, <1>2, <1>3, <1>4, <1>5

LEMMA MeaningUnfolds ==
  /\ Meaning \in [Schemas -> [Values -> BOOLEAN]]
  /\ \A s \in Schemas : Meaning[s] =
       [v \in Values |->
          IF IsBooleanSchema(s) THEN s = TrueSchema
                                ELSE \A k \in DOMAIN s : Says(k, v, s, Meaning)]
<1> DEFINE R == [Values -> BOOLEAN]
           e(g, s) ==
             [v \in Values |->
                IF IsBooleanSchema(s) THEN s = TrueSchema
                                      ELSE \A k \in DOMAIN s : Says(k, v, s, g)]
           G == [g \in [Schemas -> R] |-> [s \in Schemas |-> e(g, s)]]
           rank == [s \in Schemas |-> Nesting[s]]
<1>1. rank \in [Schemas -> Nat]
  BY SchemaParts
<1>2. ASSUME NEW g \in [Schemas -> R], NEW s \in Schemas PROVE e(g, s) \in R
  OBVIOUS
<1>3. ASSUME NEW g, NEW h, NEW s \in Schemas,
             \A y \in Schemas : rank[y] < rank[s] => g[y] = h[y]
      PROVE  e(g, s) = e(h, s)
  <2>1. \A t \in Subschemas(s) : g[t] = h[t]
    BY <1>3, SchemaParts
  <2>2. \A v \in Values, k \in DOMAIN s : Says(k, v, s, g) = Says(k, v, s, h)
    BY <2>1, SaysLocal
  <2>3. QED
    BY <2>2
<1>4. [v \in Values |-> TRUE] \in R
  OBVIOUS
<1> HIDE DEF R, e, rank
<1>5. Local(Schemas, rank, R, G)
  BY <1>1, <1>2, <1>3, <1>4 DEF Local
<1>6. PICK f \in [Schemas -> R] : f = [s \in Schemas |-> e(f, s)]
  <2>1. PICK f \in [Schemas -> R] : f = G[f]
    <3> HIDE DEF G
    <3> QED
      BY <1>5, Recursion
  <2>2. f = [s \in Schemas |-> e(f, s)]
    BY <2>1
  <2>3. QED
    BY <2>2
<1>7. Meaning = [s \in Schemas |-> e(Meaning, s)]
  BY <1>6, Zenon DEF Meaning, e
<1>8. \A s \in Schemas : Meaning[s] = f[s]
  <2> DEFINE T == {x \in Schemas : Meaning[x] = f[x]}
  <2>1. ASSUME NEW x \in Schemas, \A y \in Schemas : rank[y] < rank[x] => y \in T PROVE x \in T
    <3>1. e(Meaning, x) = e(f, x)
      BY <1>3, <2>1
    <3>2. Meaning[x] = e(Meaning, x) /\ f[x] = e(f, x)
      BY <1>6, <1>7
    <3>3. QED
      BY <3>1, <3>2
  <2> HIDE DEF T
  <2>2. T \in SUBSET Schemas
    BY DEF T
  <2>3. T = Schemas
    BY <1>1, <2>1, <2>2, RankInduction
  <2>4. QED
    BY <2>3 DEF T
<1>9. Meaning \in [Schemas -> R]
  BY <1>6, <1>7, <1>8
<1>10. \A s \in Schemas : Meaning[s] = e(Meaning, s)
  BY <1>7
<1>11. QED
  BY <1>9, <1>10, Zenon DEF R, e

LEMMA WalkUnfolds ==
  /\ WalkAt \in [0..MaxArgumentDepth + 1 -> [Schemas -> [Values -> BOOLEAN]]]
  /\ \A depth \in 0..MaxArgumentDepth + 1 : WalkAt[depth] =
       [s \in Schemas |-> [v \in Values |->
          /\ depth <= MaxArgumentDepth
          /\ Is(v, "obj") =>
               /\ DOMAIN v.obj \subseteq DeclaredNames[s]
               /\ \A name \in DOMAIN v.obj : WalkAt[depth + 1][SubschemaFor(s, name)][v.obj[name]]
          /\ Is(v, "arr") =>
               \A i \in DOMAIN v.arr : WalkAt[depth + 1][Get(s, "items", Absent)][v.arr[i]]]]
<1> DEFINE U == 0..MaxArgumentDepth + 1
           R == [Schemas -> [Values -> BOOLEAN]]
           e(g, depth) ==
             [s \in Schemas |-> [v \in Values |->
                /\ depth <= MaxArgumentDepth
                /\ Is(v, "obj") =>
                     /\ DOMAIN v.obj \subseteq DeclaredNames[s]
                     /\ \A name \in DOMAIN v.obj : g[depth + 1][SubschemaFor(s, name)][v.obj[name]]
                /\ Is(v, "arr") =>
                     \A i \in DOMAIN v.arr : g[depth + 1][Get(s, "items", Absent)][v.arr[i]]]]
           G == [g \in [U -> R] |-> [depth \in U |-> e(g, depth)]]
           rank == [depth \in U |-> MaxArgumentDepth + 1 - depth]
<1>1. rank \in [U -> Nat]
  BY JsonSchemaAssumption
<1>2. ASSUME NEW g \in [U -> R], NEW depth \in U PROVE e(g, depth) \in R
  OBVIOUS
<1>3. ASSUME NEW g, NEW h, NEW depth \in U,
             \A y \in U : rank[y] < rank[depth] => g[y] = h[y]
      PROVE  e(g, depth) = e(h, depth)
  <2>1. CASE depth <= MaxArgumentDepth
    <3>1. depth + 1 \in U /\ rank[depth + 1] < rank[depth]
      BY <2>1, JsonSchemaAssumption
    <3>2. g[depth + 1] = h[depth + 1]
      BY <1>3, <3>1
    <3>3. QED
      BY <3>2
  <2>2. CASE ~(depth <= MaxArgumentDepth)
    BY <2>2
  <2>3. QED
    BY <2>1, <2>2
<1>4. [s \in Schemas |-> [v \in Values |-> TRUE]] \in R
  OBVIOUS
<1> HIDE DEF U, R, e, rank
<1>5. Local(U, rank, R, G)
  BY <1>1, <1>2, <1>3, <1>4 DEF Local
<1>6. PICK f \in [U -> R] : f = [depth \in U |-> e(f, depth)]
  <2>1. PICK f \in [U -> R] : f = G[f]
    <3> HIDE DEF G
    <3> QED
      BY <1>5, Recursion
  <2>2. f = [depth \in U |-> e(f, depth)]
    BY <2>1
  <2>3. QED
    BY <2>2
<1>7. WalkAt = [depth \in U |-> e(WalkAt, depth)]
  <2>1. \E w : w = [depth \in U |-> e(w, depth)]
    BY <1>6
  <2>2. QED
    BY <2>1, Zenon DEF WalkAt, e, U
<1>8. \A depth \in U : WalkAt[depth] = f[depth]
  <2> DEFINE T == {x \in U : WalkAt[x] = f[x]}
  <2>1. ASSUME NEW x \in U, \A y \in U : rank[y] < rank[x] => y \in T PROVE x \in T
    <3>1. e(WalkAt, x) = e(f, x)
      BY <1>3, <2>1
    <3>2. WalkAt[x] = e(WalkAt, x) /\ f[x] = e(f, x)
      BY <1>6, <1>7
    <3>3. QED
      BY <3>1, <3>2
  <2> HIDE DEF T
  <2>2. T \in SUBSET U
    BY DEF T
  <2>3. T = U
    BY <1>1, <2>1, <2>2, RankInduction
  <2>4. QED
    BY <2>3 DEF T
<1>9. WalkAt \in [U -> R]
  BY <1>6, <1>7, <1>8
<1>10. \A depth \in U : WalkAt[depth] = e(WalkAt, depth)
  BY <1>7
<1>11. QED
  BY <1>9, <1>10, Zenon DEF R, e, U

\* What may be read of all parts of a value together.
PartReadings(v, intoLists, reading) ==
  Combinations(Parts(v), [k \in DOMAIN Parts(v) |-> reading[Parts(v)[k]][intoLists]])

LEMMA CopiesEach ==
  ASSUME NEW v \in Values, NEW b, NEW m
  PROVE  /\ Is(v, "live") => Copies(v, b, m) = UNION {m[o][b] : o \in v.live}
         /\ Is(v, "obj") => Copies(v, b, m) = {[obj |-> f] : f \in PartReadings(v, b, m)}
         /\ Is(v, "tup") => Copies(v, b, m) = {[arr |-> f] : f \in PartReadings(v, b, m)}
         /\ Is(v, "arr") /\ b => Copies(v, b, m) = {[arr |-> f] : f \in PartReadings(v, b, m)}
         /\ Is(v, "arr") /\ ~b => Copies(v, b, m) = {v}
         /\ ~Is(v, "live") /\ ~Is(v, "obj") /\ ~Is(v, "tup") /\ ~Is(v, "arr") =>
              Copies(v, b, m) = {v}
<1>1. \E kind \in Kinds : DOMAIN v = {kind}
  BY ValueParts
<1>2. /\ Is(v, "live") => ~Is(v, "obj") /\ ~Is(v, "tup") /\ ~Is(v, "arr")
      /\ Is(v, "obj") => ~Is(v, "live") /\ ~Is(v, "tup") /\ ~Is(v, "arr")
      /\ Is(v, "tup") => ~Is(v, "live") /\ ~Is(v, "obj") /\ ~Is(v, "arr")
      /\ Is(v, "arr") => ~Is(v, "live") /\ ~Is(v, "obj") /\ ~Is(v, "tup")
  BY <1>1 DEF Is
<1>3. ASSUME Is(v, "live") PROVE Copies(v, b, m) = UNION {m[o][b] : o \in v.live}
  BY <1>2, <1>3 DEF Copies
<1>4. ASSUME Is(v, "obj") PROVE Copies(v, b, m) = {[obj |-> f] : f \in PartReadings(v, b, m)}
  BY <1>2, <1>4 DEF Copies, PartReadings
<1>5. ASSUME Is(v, "tup") PROVE Copies(v, b, m) = {[arr |-> f] : f \in PartReadings(v, b, m)}
  BY <1>2, <1>5 DEF Copies, PartReadings
<1>6. ASSUME Is(v, "arr"), b PROVE Copies(v, b, m) = {[arr |-> f] : f \in PartReadings(v, b, m)}
  BY <1>2, <1>6 DEF Copies, PartReadings
<1>7. ASSUME Is(v, "arr"), ~b PROVE Copies(v, b, m) = {v}
  BY <1>2, <1>7 DEF Copies
<1>8. ASSUME ~Is(v, "live"), ~Is(v, "obj"), ~Is(v, "tup"), ~Is(v, "arr") PROVE Copies(v, b, m) = {v}
  BY <1>8 DEF Copies
<1>9. QED
  BY <1>3, <1>4, <1>5, <1>6, <1>7, <1>8

LEMMA CopiesLocal ==
  ASSUME NEW v \in Values, NEW g, NEW h, NEW b,
         \A y \in Values : Nesting[y] < Nesting[v] => g[y] = h[y]
  PROVE  Copies(v, b, g) = Copies(v, b, h)
<1>1. [k \in DOMAIN Parts(v) |-> g[Parts(v)[k]][b]] = [k \in DOMAIN Parts(v) |-> h[Parts(v)[k]][b]]
  BY ValueParts
<1>2. PartReadings(v, b, g) = PartReadings(v, b, h)
  BY <1>1, Zenon DEF PartReadings
<1>3. ASSUME Is(v, "live") PROVE UNION {g[o][b] : o \in v.live} = UNION {h[o][b] : o \in v.live}
  <2>1. \A o \in v.live : g[o] = h[o]
    BY <1>3, ValueParts
  <2>2. QED
    BY <2>1
<1>4. CASE Is(v, "live")
  <2>1. /\ Copies(v, b, g) = UNION {g[o][b] : o \in v.live}
        /\ Copies(v, b, h) = UNION {h[o][b] : o \in v.live}
    BY <1>4, CopiesEach
  <2>2. QED
    BY <1>3, <1>4, <2>1, Zenon
<1>5. CASE ~Is(v, "live")
  BY <1>2, <1>5, CopiesEach
<1>6. QED
  BY <1>4, <1>5

LEMMA ReadingsUnfold ==
  /\ Readings \in [Values -> [BOOLEAN -> SUBSET Values]]
  /\ \A v \in Values : Readings[v] =
       [intoLists \in BOOLEAN |-> Copies(v, intoLists, Readings) \cap Values]
<1> DEFINE R == [BOOLEAN -> SUBSET Values]
           e(g, v) ==
             [intoLists \in BOOLEAN |-> Copies(v, intoLists, g) \cap Values]
           G == [g \in [Values -> R] |-> [v \in Values |-> e(g, v)]]
           rank == [v \in Values |-> Nesting[v]]
<1>1. rank \in [Values -> Nat]
  BY ValueParts
<1>2. ASSUME NEW g \in [Values -> R], NEW v \in Values PROVE e(g, v) \in R
  OBVIOUS
<1>3. ASSUME NEW g, NEW h, NEW v \in Values,
             \A y \in Values : rank[y] < rank[v] => g[y] = h[y]
      PROVE  e(g, v) = e(h, v)
  <2>1. \A b \in BOOLEAN : Copies(v, b, g) = Copies(v, b, h)
    BY <1>3, CopiesLocal
  <2>2. QED
    BY <2>1
<1>4. [intoLists \in BOOLEAN |-> {}] \in R
  OBVIOUS
<1> HIDE DEF R, e, rank
<1>5. Local(Values, rank, R, G)
  BY <1>1, <1>2, <1>3, <1>4 DEF Local
<1>6. PICK f \in [Values -> R] : f = [v \in Values |-> e(f, v)]
  <2>1. PICK f \in [Values -> R] : f = G[f]
    <3> HIDE DEF G
    <3> QED
      BY <1>5, Recursion
  <2>2. f = [v \in Values |-> e(f, v)]
    BY <2>1
  <2>3. QED
    BY <2>2
<1>7. Readings = [v \in Values |-> e(Readings, v)]
  BY <1>6, Zenon DEF Readings, e
<1>8. \A v \in Values : Readings[v] = f[v]
  <2> DEFINE T == {x \in Values : Readings[x] = f[x]}
  <2>1. ASSUME NEW x \in Values, \A y \in Values : rank[y] < rank[x] => y \in T PROVE x \in T
    <3>1. e(Readings, x) = e(f, x)
      BY <1>3, <2>1
    <3>2. Readings[x] = e(Readings, x) /\ f[x] = e(f, x)
      BY <1>6, <1>7
    <3>3. QED
      BY <3>1, <3>2
  <2> HIDE DEF T
  <2>2. T \in SUBSET Values
    BY DEF T
  <2>3. T = Values
    BY <1>1, <2>1, <2>2, RankInduction
  <2>4. QED
    BY <2>3 DEF T
<1>9. Readings \in [Values -> R]
  BY <1>6, <1>7, <1>8
<1>10. \A v \in Values : Readings[v] = e(Readings, v)
  BY <1>7
<1>11. QED
  BY <1>9, <1>10, Zenon DEF R, e

\* The names and indices on a path.
Places == Nat \cup UNION {DOMAIN Parts(v) : v \in Values}

LEMMA PlacesOf ==
  /\ \A i \in Nat : i \in Places
  /\ \A v \in Values : \A k \in DOMAIN Parts(v) : k \in Places
BY DEF Places

\* One step more in front of a path.
LEMMA LongerPath ==
  ASSUME NEW k \in Places, NEW p \in Seq(Places)
  PROVE  /\ <<k>> \o p \in Seq(Places)
         /\ Len(<<k>> \o p) = Len(p) + 1
         /\ \A q \in Seq(Places) : <<k>> \o p = <<k>> \o q => p = q
<1>1. <<k>> \in Seq(Places) /\ Len(<<k>>) = 1
  OBVIOUS
<1>2. /\ <<k>> \o p \in Seq(Places)
      /\ Len(<<k>> \o p) = Len(p) + 1
  <2>1. Len(p) \in Nat
    BY LenProperties
  <2>2. QED
    BY <1>1, <2>1, ConcatProperties
<1>3. ASSUME NEW q \in Seq(Places), <<k>> \o p = <<k>> \o q PROVE p = q
  BY <1>1, <1>3, ConcatSimplifications
<1>4. QED
  BY <1>2, <1>3

LEMMA NodesUnfold ==
  /\ Nodes \in [Values -> SUBSET [path : Seq(Places), value : Values]]
  /\ \A v \in Values : Nodes[v] =
       {[path |-> <<>>, value |-> v]} \cup
       UNION {{[path |-> <<k>> \o n.path, value |-> n.value] : n \in Nodes[Parts(v)[k]]} :
                k \in DOMAIN Parts(v)}
<1> DEFINE R == SUBSET [path : Seq(Places), value : Values]
           e(g, v) ==
             {[path |-> <<>>, value |-> v]} \cup
             UNION {{[path |-> <<k>> \o n.path, value |-> n.value] : n \in g[Parts(v)[k]]} :
                      k \in DOMAIN Parts(v)}
           G == [g \in [Values -> R] |-> [v \in Values |-> e(g, v)]]
           rank == [v \in Values |-> Nesting[v]]
<1>1. rank \in [Values -> Nat]
  BY ValueParts
<1>2. ASSUME NEW g \in [Values -> R], NEW v \in Values PROVE e(g, v) \in R
  <2>1. [path |-> <<>>, value |-> v] \in [path : Seq(Places), value : Values]
    BY EmptySeq
  <2>2. ASSUME NEW k \in DOMAIN Parts(v), NEW n \in g[Parts(v)[k]]
        PROVE  [path |-> <<k>> \o n.path, value |-> n.value] \in [path : Seq(Places), value : Values]
    <3>1. k \in Places
      BY PlacesOf
    <3>2. n \in [path : Seq(Places), value : Values]
      BY ValueParts
    <3>3. n.path \in Seq(Places) /\ n.value \in Values
      BY <3>2
    <3>4. <<k>> \o n.path \in Seq(Places)
      BY <3>1, <3>3, LongerPath
    <3>5. QED
      BY <3>3, <3>4
  <2> DEFINE all == [path : Seq(Places), value : Values]
             below(k) == {[path |-> <<k>> \o n.path, value |-> n.value] : n \in g[Parts(v)[k]]}
  <2> HIDE DEF all
  <2>3. \A k \in DOMAIN Parts(v) : below(k) \subseteq all
    BY <2>2 DEF all
  <2> HIDE DEF below
  <2>4. {[path |-> <<>>, value |-> v]} \cup UNION {below(k) : k \in DOMAIN Parts(v)} \in SUBSET all
    BY <2>1, <2>3 DEF all
  <2>5. QED
    BY <2>4 DEF all, below
<1>3. ASSUME NEW g, NEW h, NEW v \in Values,
             \A y \in Values : rank[y] < rank[v] => g[y] = h[y]
      PROVE  e(g, v) = e(h, v)
  <2>1. \A k \in DOMAIN Parts(v) : g[Parts(v)[k]] = h[Parts(v)[k]]
    BY <1>3, ValueParts
  <2> DEFINE A(k) == {[path |-> <<k>> \o n.path, value |-> n.value] : n \in g[Parts(v)[k]]}
             B(k) == {[path |-> <<k>> \o n.path, value |-> n.value] : n \in h[Parts(v)[k]]}
  <2>2. \A k \in DOMAIN Parts(v) : A(k) = B(k)
    BY <2>1
  <2> HIDE DEF A, B
  <2>3. UNION {A(k) : k \in DOMAIN Parts(v)} = UNION {B(k) : k \in DOMAIN Parts(v)}
    BY <2>2
  <2>4. QED
    BY <2>3, Zenon DEF A, B
<1>4. {} \in R
  OBVIOUS
<1> HIDE DEF R, e, rank
<1>5. Local(Values, rank, R, G)
  BY <1>1, <1>2, <1>3, <1>4 DEF Local
<1>6. PICK f \in [Values -> R] : f = [v \in Values |-> e(f, v)]
  <2>1. PICK f \in [Values -> R] : f = G[f]
    <3> HIDE DEF G
    <3> QED
      BY <1>5, Recursion
  <2>2. f = [v \in Values |-> e(f, v)]
    BY <2>1
  <2>3. QED
    BY <2>2
<1>7. Nodes = [v \in Values |-> e(Nodes, v)]
  BY <1>6, Zenon DEF Nodes, e
<1>8. \A v \in Values : Nodes[v] = f[v]
  <2> DEFINE T == {x \in Values : Nodes[x] = f[x]}
  <2>1. ASSUME NEW x \in Values, \A y \in Values : rank[y] < rank[x] => y \in T PROVE x \in T
    <3>1. e(Nodes, x) = e(f, x)
      BY <1>3, <2>1
    <3>2. Nodes[x] = e(Nodes, x) /\ f[x] = e(f, x)
      BY <1>6, <1>7
    <3>3. QED
      BY <3>1, <3>2
  <2> HIDE DEF T
  <2>2. T \in SUBSET Values
    BY DEF T
  <2>3. T = Values
    BY <1>1, <2>1, <2>2, RankInduction
  <2>4. QED
    BY <2>3 DEF T
<1>9. Nodes \in [Values -> R]
  BY <1>6, <1>7, <1>8
<1>10. \A v \in Values : Nodes[v] = e(Nodes, v)
  BY <1>7
<1>11. QED
  BY <1>9, <1>10, Zenon DEF R, e

LEMMA DeclaredUnfolds ==
  /\ DeclaredBy \in [Values -> [SUBSET Schemas -> BOOLEAN]]
  /\ \A v \in Values : DeclaredBy[v] =
       [schemas \in SUBSET Schemas |->
          LET governing == UNION {WithBranches[s] : s \in schemas}
              declaring(name) == {s \in governing : name \in DOMAIN Properties(s)}
          IN  /\ Is(v, "obj") => \A n \in DOMAIN v.obj :
                   /\ declaring(n) # {}
                   /\ DeclaredBy[v.obj[n]][{s.properties[n] : s \in declaring(n)}]
              /\ Is(v, "arr") => \A i \in DOMAIN v.arr :
                   DeclaredBy[v.arr[i]][{s.items : s \in {t \in governing : Has(t, "items")}}]]
<1> DEFINE R == [SUBSET Schemas -> BOOLEAN]
           e(g, v) ==
             [schemas \in SUBSET Schemas |->
                LET governing == UNION {WithBranches[s] : s \in schemas}
                    declaring(name) == {s \in governing : name \in DOMAIN Properties(s)}
                IN  /\ Is(v, "obj") => \A n \in DOMAIN v.obj :
                         /\ declaring(n) # {}
                         /\ g[v.obj[n]][{s.properties[n] : s \in declaring(n)}]
                    /\ Is(v, "arr") => \A i \in DOMAIN v.arr :
                         g[v.arr[i]][{s.items : s \in {t \in governing : Has(t, "items")}}]]
           G == [g \in [Values -> R] |-> [v \in Values |-> e(g, v)]]
           rank == [v \in Values |-> Nesting[v]]
<1>1. rank \in [Values -> Nat]
  BY ValueParts
<1>2. ASSUME NEW g \in [Values -> R], NEW v \in Values PROVE e(g, v) \in R
  OBVIOUS
<1>3. ASSUME NEW g, NEW h, NEW v \in Values,
             \A y \in Values : rank[y] < rank[v] => g[y] = h[y]
      PROVE  e(g, v) = e(h, v)
  <2>1. Is(v, "obj") => \A n \in DOMAIN v.obj : g[v.obj[n]] = h[v.obj[n]]
    BY <1>3, ValueParts
  <2>2. Is(v, "arr") => \A i \in DOMAIN v.arr : g[v.arr[i]] = h[v.arr[i]]
    BY <1>3, ValueParts
  <2>3. QED
    BY <2>1, <2>2
<1>4. [schemas \in SUBSET Schemas |-> TRUE] \in R
  OBVIOUS
<1> HIDE DEF R, e, rank
<1>5. Local(Values, rank, R, G)
  BY <1>1, <1>2, <1>3, <1>4 DEF Local
<1>6. PICK f \in [Values -> R] : f = [v \in Values |-> e(f, v)]
  <2>1. PICK f \in [Values -> R] : f = G[f]
    <3> HIDE DEF G
    <3> QED
      BY <1>5, Recursion
  <2>2. f = [v \in Values |-> e(f, v)]
    BY <2>1
  <2>3. QED
    BY <2>2
<1>7. DeclaredBy = [v \in Values |-> e(DeclaredBy, v)]
  BY <1>6, Zenon DEF DeclaredBy, e
<1>8. \A v \in Values : DeclaredBy[v] = f[v]
  <2> DEFINE T == {x \in Values : DeclaredBy[x] = f[x]}
  <2>1. ASSUME NEW x \in Values, \A y \in Values : rank[y] < rank[x] => y \in T PROVE x \in T
    <3>1. e(DeclaredBy, x) = e(f, x)
      BY <1>3, <2>1
    <3>2. DeclaredBy[x] = e(DeclaredBy, x) /\ f[x] = e(f, x)
      BY <1>6, <1>7
    <3>3. QED
      BY <3>1, <3>2
  <2> HIDE DEF T
  <2>2. T \in SUBSET Values
    BY DEF T
  <2>3. T = Values
    BY <1>1, <2>1, <2>2, RankInduction
  <2>4. QED
    BY <2>3 DEF T
<1>9. DeclaredBy \in [Values -> R]
  BY <1>6, <1>7, <1>8
<1>10. \A v \in Values : DeclaredBy[v] = e(DeclaredBy, v)
  BY <1>7
<1>11. QED
  BY <1>9, <1>10, Zenon DEF R, e

-----------------------------------------------------------------------------
(* The check of a schema is the meaning of its keywords *)

LEMMA MatchesEach ==
  ASSUME NEW v
  PROVE  /\ MatchesType(v, "object") <=> Is(v, "obj")
         /\ MatchesType(v, "array") <=> Is(v, "arr")
         /\ MatchesType(v, "string") <=> Is(v, "str")
         /\ MatchesType(v, "boolean") <=> Is(v, "bool")
         /\ MatchesType(v, "null") <=> Is(v, "null")
         /\ MatchesType(v, "number") <=> IsNumber(v)
         /\ MatchesType(v, "integer") <=> Is(v, "int") \/ (Is(v, "float") /\ v.float % 2 = 0)
BY DEF MatchesType

\* The names of its type are the types a value matches.
LEMMA TypesMatch ==
  ASSUME NEW v \in Values, NEW name \in TypeNames
  PROVE  MatchesType(v, name) <=> name \in KindNames(v)
<1>1. PICK kind \in Kinds : DOMAIN v = {kind}
  BY ValueParts
<1>2. Is(v, "int") => v.int \in Int
  BY JsonSchemaAssumption DEF IsValue, Is
<1>3. Is(v, "int") => (2 * v.int) % 2 = 0
  BY <1>2
<1>4. CASE Is(v, "int")
  <2>1. KindNames(v) = {"number"} \cup {n \in {"integer"} : Halves(v) % 2 = 0}
    BY <1>1, <1>4 DEF KindNames, Is, IsNumber
  <2>2. Halves(v) % 2 = 0
    BY <1>3, <1>4 DEF Halves
  <2>3. MatchesType(v, name) <=> name \in {"number", "integer"}
    BY <1>1, <1>4, MatchesEach DEF Is, IsNumber, TypeNames
  <2>4. QED
    BY <2>1, <2>2, <2>3
<1>5. CASE Is(v, "float")
  <2>1. KindNames(v) = {"number"} \cup {n \in {"integer"} : Halves(v) % 2 = 0}
    BY <1>1, <1>5 DEF KindNames, Is, IsNumber
  <2>2. Halves(v) = v.float
    BY <1>1, <1>5 DEF Halves, Is
  <2>3. MatchesType(v, name) <=> name = "number" \/ (name = "integer" /\ v.float % 2 = 0)
    BY <1>1, <1>5, MatchesEach DEF Is, IsNumber, TypeNames
  <2>4. QED
    BY <2>1, <2>2, <2>3
<1>6. CASE ~Is(v, "int") /\ ~Is(v, "float")
  BY <1>1, <1>6 DEF MatchesType, KindNames, Is, IsNumber, Kinds, TypeNames
<1>7. QED
  BY <1>4, <1>5, <1>6

\* The elements of a list are distinct iff they are as many as its places.
LEMMA DistinctIffAsMany ==
  ASSUME NEW S, NEW list \in Seq(S)
  PROVE  IsInjective(list) <=> Cardinality(Range(list)) = Len(list)
<1> DEFINE places == DOMAIN list
<1>1. places = 1..Len(list) /\ Len(list) \in Nat /\ list \in [places -> S]
  BY LenProperties
<1>2. IsFiniteSet(places) /\ Cardinality(places) = Len(list)
  <2>1. IsFiniteSet(1..Len(list)) /\ Cardinality(1..Len(list)) = Len(list)
    <3>1. \A n \in Nat : IsFiniteSet(1..n) /\ Cardinality(1..n) = IF 1 > n THEN 0 ELSE n - 1 + 1
      BY FS_Interval
    <3>2. QED
      BY <1>1, <3>1
  <2>2. QED
    BY <1>1, <2>1
<1>3. list \in [places -> Range(list)]
  BY <1>1 DEF Range
<1>4. list \in Surjection(places, Range(list))
  BY <1>3 DEF Surjection, Range
<1>5. Cardinality(Range(list)) = Cardinality(places) <=> list \in Injection(places, Range(list))
  BY <1>2, <1>4, FS_Surjection
<1>6. list \in Injection(places, Range(list)) <=> IsInjective(list)
  BY <1>3 DEF Injection, IsInjective
<1>7. QED
  BY <1>2, <1>5, <1>6

\* How many of a list of places are chosen.
LEMMA HowMany ==
  ASSUME NEW n \in Nat, NEW chosen \in SUBSET 1..n
  PROVE  /\ IsFiniteSet(chosen) /\ Cardinality(chosen) \in Nat
         /\ Cardinality(chosen) = n <=> chosen = 1..n
         /\ Cardinality(chosen) > 0 <=> chosen # {}
<1>1. IsFiniteSet(1..n) /\ Cardinality(1..n) = n
  <2>1. \A m \in Nat : IsFiniteSet(1..m) /\ Cardinality(1..m) = IF 1 > m THEN 0 ELSE m - 1 + 1
    BY FS_Interval
  <2>2. QED
    BY <2>1
<1>2. IsFiniteSet(chosen) /\ (Cardinality(1..n) = Cardinality(chosen) => 1..n = chosen)
  BY <1>1, FS_Subset
<1>3. Cardinality(chosen) \in Nat
  BY <1>2, FS_CardinalityType
<1>4. Cardinality(chosen) = 0 <=> chosen = {}
  BY <1>2, FS_EmptySet
<1>5. Cardinality(chosen) > 0 <=> chosen # {}
  <2>1. \A c \in Nat : c > 0 <=> c # 0
    OBVIOUS
  <2>2. QED
    BY <1>3, <1>4, <2>1, Zenon
<1>6. chosen = 1..n => Cardinality(chosen) = n
  BY <1>1, Zenon
<1>7. Cardinality(chosen) = n => chosen = 1..n
  BY <1>1, <1>2
<1>8. QED
  BY <1>2, <1>3, <1>5, <1>6, <1>7

\* Keyword by keyword, one level of the check is one level of the meaning, if
\* they agree on the subschemas.
LEMMA KeywordsMean ==
  ASSUME NEW s \in Schemas, NEW v \in Values, WellFormed(s), NEW g, NEW h,
         \A t \in Subschemas(s), w \in Values : g[t][w] <=> h[t][w]
  PROVE  CheckKeywords(v, s, g) <=> \A k \in DOMAIN s : Says(k, v, s, h)
<1>1. ASSUME Has(s, "type")
       PROVE  Says("type", v, s, h) <=> (\E name \in s["type"] : MatchesType(v, name))
  <2>1. s["type"] \subseteq TypeNames
    BY <1>1 DEF WellFormed, Has
  <2>2. \A name \in s["type"] : MatchesType(v, name) <=> name \in KindNames(v)
    BY <2>1, TypesMatch
  <2>3. Says("type", v, s, h) <=> KindNames(v) \cap s["type"] # {}
    BY DEF Says, AnnotationKeywords
  <2>4. QED
    BY <2>2, <2>3
<1>2. ASSUME Has(s, "const")
       PROVE  Says("const", v, s, h) <=> (v = s["const"])
  BY DEF Says, AnnotationKeywords
<1>3. ASSUME Has(s, "enum")
       PROVE  Says("enum", v, s, h) <=> (v \in s["enum"])
  BY DEF Says, AnnotationKeywords
<1>4. ASSUME Has(s, "minLength")
       PROVE  Says("minLength", v, s, h) <=> (Is(v, "str") => Len(v.str) >= s["minLength"])
  BY DEF Says, AnnotationKeywords
<1>5. ASSUME Has(s, "maxLength")
       PROVE  Says("maxLength", v, s, h) <=> (Is(v, "str") => Len(v.str) <= s["maxLength"])
  BY DEF Says, AnnotationKeywords
<1>6. ASSUME Has(s, "pattern")
       PROVE  Says("pattern", v, s, h) <=> (Is(v, "str") => v.str \in s["pattern"].finds)
  BY DEF Says, AnnotationKeywords
<1>7. ASSUME Has(s, "minimum")
       PROVE  Says("minimum", v, s, h) <=> (IsNumber(v) => Halves(v) >= s["minimum"])
  BY DEF Says, AnnotationKeywords
<1>8. ASSUME Has(s, "maximum")
       PROVE  Says("maximum", v, s, h) <=> (IsNumber(v) => Halves(v) <= s["maximum"])
  BY DEF Says, AnnotationKeywords
<1>9. ASSUME Has(s, "exclusiveMinimum")
       PROVE  Says("exclusiveMinimum", v, s, h) <=> (IsNumber(v) => Halves(v) > s["exclusiveMinimum"])
  BY DEF Says, AnnotationKeywords
<1>10. ASSUME Has(s, "exclusiveMaximum")
       PROVE  Says("exclusiveMaximum", v, s, h) <=> (IsNumber(v) => Halves(v) < s["exclusiveMaximum"])
  BY DEF Says, AnnotationKeywords
<1>11. ASSUME Has(s, "multipleOf")
       PROVE  Says("multipleOf", v, s, h) <=> (IsNumber(v) => IsMultiple(Halves(v), s["multipleOf"]))
  BY DEF Says, AnnotationKeywords
<1>12. ASSUME Has(s, "required")
       PROVE  Says("required", v, s, h) <=> (Is(v, "obj") => s["required"] \subseteq DOMAIN v.obj)
  BY DEF Says, AnnotationKeywords
<1>13. ASSUME Has(s, "properties")
       PROVE  Says("properties", v, s, h) <=> (Is(v, "obj") =>
           \A n \in DOMAIN s["properties"] \cap DOMAIN v.obj : g[s["properties"][n]][v.obj[n]])
  <2>1. ASSUME Is(v, "obj"), NEW n \in DOMAIN s["properties"] \cap DOMAIN v.obj
        PROVE  s["properties"][n] \in Subschemas(s) /\ v.obj[n] \in Values
    <3>1. n \in DOMAIN Properties(s)
      BY <1>13, <2>1 DEF Properties, Get, Has
    <3>2. QED
      BY <2>1, <3>1, SchemaParts, ValueParts
  <2>2. Says("properties", v, s, h)
          <=> (Is(v, "obj") =>
                 \A n \in DOMAIN s["properties"] \cap DOMAIN v.obj : h[s["properties"][n]][v.obj[n]])
    BY DEF Says, AnnotationKeywords
  <2>3. QED
    BY <2>1, <2>2
<1>14. ASSUME Has(s, "additionalProperties")
       PROVE  Says("additionalProperties", v, s, h) <=> (Is(v, "obj") =>
           \A n \in DOMAIN v.obj \ DOMAIN Properties(s) : g[s["additionalProperties"]][v.obj[n]])
  <2>1. s["additionalProperties"] \in Subschemas(s)
    BY <1>14, SchemaParts DEF Has
  <2>2. Is(v, "obj") => \A n \in DOMAIN v.obj : v.obj[n] \in Values
    BY ValueParts
  <2>3. Says("additionalProperties", v, s, h)
          <=> (Is(v, "obj") =>
                 \A n \in DOMAIN v.obj \ DOMAIN Properties(s) : h[s["additionalProperties"]][v.obj[n]])
    BY DEF Says, AnnotationKeywords
  <2>4. QED
    BY <2>1, <2>2, <2>3
<1>15. ASSUME Has(s, "items")
       PROVE  Says("items", v, s, h) <=> (Is(v, "arr") => \A i \in DOMAIN v.arr : g[s["items"]][v.arr[i]])
  <2>1. s["items"] \in Subschemas(s)
    BY <1>15, SchemaParts DEF Has
  <2>2. Is(v, "arr") => \A i \in DOMAIN v.arr : v.arr[i] \in Values
    BY ValueParts
  <2>3. Says("items", v, s, h)
          <=> (Is(v, "arr") => \A i \in DOMAIN v.arr : h[s["items"]][v.arr[i]])
    BY DEF Says, AnnotationKeywords
  <2>4. QED
    BY <2>1, <2>2, <2>3
<1>16. ASSUME Has(s, "minItems")
       PROVE  Says("minItems", v, s, h) <=> (Is(v, "arr") => Len(v.arr) >= s["minItems"])
  BY DEF Says, AnnotationKeywords
<1>17. ASSUME Has(s, "maxItems")
       PROVE  Says("maxItems", v, s, h) <=> (Is(v, "arr") => Len(v.arr) <= s["maxItems"])
  BY DEF Says, AnnotationKeywords
<1>18. ASSUME Has(s, "uniqueItems")
       PROVE  Says("uniqueItems", v, s, h) <=> (Is(v, "arr") => (s["uniqueItems"] => IsInjective(v.arr)))
  <2>1. Is(v, "arr") => (IsInjective(v.arr) <=> Cardinality(Range(v.arr)) = Len(v.arr))
    BY ValueParts, DistinctIffAsMany
  <2>2. Says("uniqueItems", v, s, h)
          <=> (Is(v, "arr") /\ s["uniqueItems"] => Cardinality(Range(v.arr)) = Len(v.arr))
    BY DEF Says, AnnotationKeywords
  <2>3. QED
    BY <2>1, <2>2
<1>19. ASSUME Has(s, "allOf")
       PROVE  Says("allOf", v, s, h) <=> (Satisfied(v, s, "allOf", g) = Len(s["allOf"]))
  <2> DEFINE it == s["allOf"]
             holds == {i \in DOMAIN it : h[it[i]][v]}
  <2>1. it \in Seq(Schemas) /\ \A i \in DOMAIN it : it[i] \in Subschemas(s)
    BY <1>19, SchemaParts DEF Has
  <2>2. {i \in DOMAIN it : g[it[i]][v]} = holds
    BY <2>1
  <2>3. Satisfied(v, s, "allOf", g) = Cardinality(holds)
    BY <2>2, Zenon DEF Satisfied
  <2>4. Says("allOf", v, s, h) <=> holds = DOMAIN it
    BY DEF Says, AnnotationKeywords
  <2>5. DOMAIN it = 1..Len(it) /\ Len(it) \in Nat
    BY <2>1, LenProperties
  <2>6. holds \in SUBSET 1..Len(it)
    BY <2>5
  <2> HIDE DEF it, holds
  <2>7. /\ IsFiniteSet(holds) /\ Cardinality(holds) \in Nat
        /\ Cardinality(holds) = Len(it) <=> holds = DOMAIN it
        /\ Cardinality(holds) > 0 <=> holds # {}
    BY <2>5, <2>6, HowMany
  <2>8. QED
    BY <2>3, <2>4, <2>7 DEF it
<1>20. ASSUME Has(s, "anyOf")
       PROVE  Says("anyOf", v, s, h) <=> (Satisfied(v, s, "anyOf", g) > 0)
  <2> DEFINE it == s["anyOf"]
             holds == {i \in DOMAIN it : h[it[i]][v]}
  <2>1. it \in Seq(Schemas) /\ \A i \in DOMAIN it : it[i] \in Subschemas(s)
    BY <1>20, SchemaParts DEF Has
  <2>2. {i \in DOMAIN it : g[it[i]][v]} = holds
    BY <2>1
  <2>3. Satisfied(v, s, "anyOf", g) = Cardinality(holds)
    BY <2>2, Zenon DEF Satisfied
  <2>4. Says("anyOf", v, s, h) <=> holds # {}
    BY DEF Says, AnnotationKeywords
  <2>5. DOMAIN it = 1..Len(it) /\ Len(it) \in Nat
    BY <2>1, LenProperties
  <2>6. holds \in SUBSET 1..Len(it)
    BY <2>5
  <2> HIDE DEF it, holds
  <2>7. /\ IsFiniteSet(holds) /\ Cardinality(holds) \in Nat
        /\ Cardinality(holds) = Len(it) <=> holds = DOMAIN it
        /\ Cardinality(holds) > 0 <=> holds # {}
    BY <2>5, <2>6, HowMany
  <2>8. QED
    BY <2>3, <2>4, <2>7 DEF it
<1>21. ASSUME Has(s, "oneOf")
       PROVE  Says("oneOf", v, s, h) <=> (Satisfied(v, s, "oneOf", g) = 1)
  <2> DEFINE it == s["oneOf"]
             holds == {i \in DOMAIN it : h[it[i]][v]}
  <2>1. it \in Seq(Schemas) /\ \A i \in DOMAIN it : it[i] \in Subschemas(s)
    BY <1>21, SchemaParts DEF Has
  <2>2. {i \in DOMAIN it : g[it[i]][v]} = holds
    BY <2>1
  <2>3. Satisfied(v, s, "oneOf", g) = Cardinality(holds)
    BY <2>2, Zenon DEF Satisfied
  <2>4. Says("oneOf", v, s, h) <=> Cardinality(holds) = 1
    BY DEF Says, AnnotationKeywords
  <2>5. DOMAIN it = 1..Len(it) /\ Len(it) \in Nat
    BY <2>1, LenProperties
  <2>6. holds \in SUBSET 1..Len(it)
    BY <2>5
  <2> HIDE DEF it, holds
  <2>7. /\ IsFiniteSet(holds) /\ Cardinality(holds) \in Nat
        /\ Cardinality(holds) = Len(it) <=> holds = DOMAIN it
        /\ Cardinality(holds) > 0 <=> holds # {}
    BY <2>5, <2>6, HowMany
  <2>8. QED
    BY <2>3, <2>4, <2>7 DEF it
<1>22. CheckKeywords(v, s, g) <=>
         /\ Has(s, "type") => (\E name \in s["type"] : MatchesType(v, name))
         /\ Has(s, "const") => (v = s["const"])
         /\ Has(s, "enum") => (v \in s["enum"])
         /\ Has(s, "minLength") => (Is(v, "str") => Len(v.str) >= s["minLength"])
         /\ Has(s, "maxLength") => (Is(v, "str") => Len(v.str) <= s["maxLength"])
         /\ Has(s, "pattern") => (Is(v, "str") => v.str \in s["pattern"].finds)
         /\ Has(s, "minimum") => (IsNumber(v) => Halves(v) >= s["minimum"])
         /\ Has(s, "maximum") => (IsNumber(v) => Halves(v) <= s["maximum"])
         /\ Has(s, "exclusiveMinimum") => (IsNumber(v) => Halves(v) > s["exclusiveMinimum"])
         /\ Has(s, "exclusiveMaximum") => (IsNumber(v) => Halves(v) < s["exclusiveMaximum"])
         /\ Has(s, "multipleOf") => (IsNumber(v) => IsMultiple(Halves(v), s["multipleOf"]))
         /\ Has(s, "required") => (Is(v, "obj") => s["required"] \subseteq DOMAIN v.obj)
         /\ Has(s, "properties") => (Is(v, "obj") =>
           \A n \in DOMAIN s["properties"] \cap DOMAIN v.obj : g[s["properties"][n]][v.obj[n]])
         /\ Has(s, "additionalProperties") => (Is(v, "obj") =>
           \A n \in DOMAIN v.obj \ DOMAIN Properties(s) : g[s["additionalProperties"]][v.obj[n]])
         /\ Has(s, "items") => (Is(v, "arr") => \A i \in DOMAIN v.arr : g[s["items"]][v.arr[i]])
         /\ Has(s, "minItems") => (Is(v, "arr") => Len(v.arr) >= s["minItems"])
         /\ Has(s, "maxItems") => (Is(v, "arr") => Len(v.arr) <= s["maxItems"])
         /\ Has(s, "uniqueItems") => (Is(v, "arr") => (s["uniqueItems"] => IsInjective(v.arr)))
         /\ Has(s, "allOf") => (Satisfied(v, s, "allOf", g) = Len(s["allOf"]))
         /\ Has(s, "anyOf") => (Satisfied(v, s, "anyOf", g) > 0)
         /\ Has(s, "oneOf") => (Satisfied(v, s, "oneOf", g) = 1)
  <2>1. Is(v, "obj") => (CheckObject(v.obj, s, g) <=>
          /\ Has(s, "required") => (Is(v, "obj") => s["required"] \subseteq DOMAIN v.obj)
          /\ Has(s, "properties") => (Is(v, "obj") =>
           \A n \in DOMAIN s["properties"] \cap DOMAIN v.obj : g[s["properties"][n]][v.obj[n]])
          /\ Has(s, "additionalProperties") => (Is(v, "obj") =>
           \A n \in DOMAIN v.obj \ DOMAIN Properties(s) : g[s["additionalProperties"]][v.obj[n]]))
    BY DEF CheckObject, Properties, Get, NoNames, Has
  <2>2. Is(v, "arr") => (CheckArray(v.arr, s, g) <=>
          /\ Has(s, "minItems") => (Is(v, "arr") => Len(v.arr) >= s["minItems"])
          /\ Has(s, "maxItems") => (Is(v, "arr") => Len(v.arr) <= s["maxItems"])
          /\ Has(s, "uniqueItems") => (Is(v, "arr") => (s["uniqueItems"] => IsInjective(v.arr)))
          /\ Has(s, "items") => (Is(v, "arr") => \A i \in DOMAIN v.arr : g[s["items"]][v.arr[i]]))
    BY DEF CheckArray, Get, Has
  <2>3. Is(v, "str") => (CheckString(v.str, s) <=>
          /\ Has(s, "minLength") => (Is(v, "str") => Len(v.str) >= s["minLength"])
          /\ Has(s, "maxLength") => (Is(v, "str") => Len(v.str) <= s["maxLength"])
          /\ Has(s, "pattern") => (Is(v, "str") => v.str \in s["pattern"].finds))
    BY DEF CheckString, Has
  <2>4. IsNumber(v) => (CheckNumber(Halves(v), s) <=>
          /\ Has(s, "minimum") => (IsNumber(v) => Halves(v) >= s["minimum"])
          /\ Has(s, "maximum") => (IsNumber(v) => Halves(v) <= s["maximum"])
          /\ Has(s, "exclusiveMinimum") => (IsNumber(v) => Halves(v) > s["exclusiveMinimum"])
          /\ Has(s, "exclusiveMaximum") => (IsNumber(v) => Halves(v) < s["exclusiveMaximum"])
          /\ Has(s, "multipleOf") => (IsNumber(v) => IsMultiple(Halves(v), s["multipleOf"])))
    BY DEF CheckNumber, Has
  <2>5. QED
    BY <2>1, <2>2, <2>3, <2>4 DEF CheckKeywords
<1>23. (\A k \in DOMAIN s : Says(k, v, s, h)) <=>
         /\ Has(s, "type") => Says("type", v, s, h)
         /\ Has(s, "const") => Says("const", v, s, h)
         /\ Has(s, "enum") => Says("enum", v, s, h)
         /\ Has(s, "minLength") => Says("minLength", v, s, h)
         /\ Has(s, "maxLength") => Says("maxLength", v, s, h)
         /\ Has(s, "pattern") => Says("pattern", v, s, h)
         /\ Has(s, "minimum") => Says("minimum", v, s, h)
         /\ Has(s, "maximum") => Says("maximum", v, s, h)
         /\ Has(s, "exclusiveMinimum") => Says("exclusiveMinimum", v, s, h)
         /\ Has(s, "exclusiveMaximum") => Says("exclusiveMaximum", v, s, h)
         /\ Has(s, "multipleOf") => Says("multipleOf", v, s, h)
         /\ Has(s, "required") => Says("required", v, s, h)
         /\ Has(s, "properties") => Says("properties", v, s, h)
         /\ Has(s, "additionalProperties") => Says("additionalProperties", v, s, h)
         /\ Has(s, "items") => Says("items", v, s, h)
         /\ Has(s, "minItems") => Says("minItems", v, s, h)
         /\ Has(s, "maxItems") => Says("maxItems", v, s, h)
         /\ Has(s, "uniqueItems") => Says("uniqueItems", v, s, h)
         /\ Has(s, "allOf") => Says("allOf", v, s, h)
         /\ Has(s, "anyOf") => Says("anyOf", v, s, h)
         /\ Has(s, "oneOf") => Says("oneOf", v, s, h)
  <2>1. DOMAIN s \subseteq SupportedKeywords
    BY DEF WellFormed
  <2>2. \A k \in AnnotationKeywords : Says(k, v, s, h)
    BY SaysEach
  <2>3. QED
    BY <2>1, <2>2 DEF SupportedKeywords, Has
<1>24. QED
  BY <1>1, <1>2, <1>3, <1>4, <1>5, <1>6, <1>7, <1>8, <1>9, <1>10, <1>11, <1>12, <1>13, <1>14, <1>15, <1>16, <1>17, <1>18, <1>19, <1>20, <1>21, <1>22, <1>23

\* At any depth, the check of a schema that loads is its meaning.
LEMMA CheckIsMeaning ==
  \A depth \in 0..MaxSchemaDepth + 1, s \in Schemas, v \in Values :
    SupportedAt[depth][s] => (CheckAt[depth][s][v] <=> Meaning[s][v])
<1> DEFINE U == 0..MaxSchemaDepth + 1
           rank == [depth \in U |-> MaxSchemaDepth + 1 - depth]
           T == {depth \in U : \A s \in Schemas, v \in Values :
                   SupportedAt[depth][s] => (CheckAt[depth][s][v] <=> Meaning[s][v])}
<1>1. rank \in [U -> Nat]
  BY JsonSchemaAssumption
<1>2. ASSUME NEW depth \in U, \A y \in U : rank[y] < rank[depth] => y \in T,
             NEW s \in Schemas, NEW v \in Values, SupportedAt[depth][s]
      PROVE  CheckAt[depth][s][v] <=> Meaning[s][v]
  <2>1. /\ depth <= MaxSchemaDepth
        /\ ~IsBooleanSchema(s) =>
             WellFormed(s) /\ \A t \in Subschemas(s) : SupportedAt[depth + 1][t]
    BY <1>2, SupportedUnfolds
  <2>2. depth + 1 \in U /\ rank[depth + 1] < rank[depth]
    BY <2>1, JsonSchemaAssumption
  <2>3. CheckAt[depth][s][v] <=>
          s # FalseSchema /\ (s # TrueSchema => CheckKeywords(v, s, CheckAt[depth + 1]))
    BY <2>1, CheckUnfolds
  <2>4. Meaning[s][v] <=>
          IF IsBooleanSchema(s) THEN s = TrueSchema ELSE \A k \in DOMAIN s : Says(k, v, s, Meaning)
    BY MeaningUnfolds
  <2>5. CASE IsBooleanSchema(s)
    <3>1. s \in {TrueSchema, FalseSchema}
      BY <2>5, SchemaParts
    <3>2. TrueSchema # FalseSchema
      BY DEF TrueSchema, FalseSchema
    <3>3. QED
      BY <2>3, <2>4, <2>5, <3>1, <3>2
  <2>6. CASE ~IsBooleanSchema(s)
    <3>1. s # TrueSchema /\ s # FalseSchema
      BY <2>6 DEF IsBooleanSchema, TrueSchema, FalseSchema
    <3>2. \A t \in Subschemas(s), w \in Values : CheckAt[depth + 1][t][w] <=> Meaning[t][w]
      <4>1. depth + 1 \in T
        BY <1>2, <2>2
      <4>2. QED
        BY <2>1, <2>6, <4>1, SchemaParts
    <3>3. CheckKeywords(v, s, CheckAt[depth + 1]) <=> \A k \in DOMAIN s : Says(k, v, s, Meaning)
      <4> DEFINE below == CheckAt[depth + 1]
      <4>1. WellFormed(s)
        BY <2>1, <2>6
      <4>2. \A t \in Subschemas(s), w \in Values : below[t][w] <=> Meaning[t][w]
        BY <3>2
      <4> HIDE DEF below
      <4>3. CheckKeywords(v, s, below) <=> \A k \in DOMAIN s : Says(k, v, s, Meaning)
        BY <4>1, <4>2, KeywordsMean, Zenon
      <4>4. QED
        BY <4>3 DEF below
    <3>4. QED
      BY <2>3, <2>4, <2>6, <3>1, <3>3
  <2>7. QED
    BY <2>5, <2>6
<1>3. \A x \in U : (\A y \in U : rank[y] < rank[x] => y \in T) => x \in T
  BY <1>2
<1>4. T \in SUBSET U
  OBVIOUS
<1>5. T = U
  <2> HIDE DEF T, U, rank
  <2> QED
    BY <1>1, <1>3, <1>4, RankInduction
<1>6. QED
  BY <1>5

LEMMA CheckSatisfies ==
  ASSUME NEW s \in Schemas, Supported(s), NEW v \in Values
  PROVE  Check(v, s) <=> Satisfies(v, s)
<1>1. 0 \in 0..MaxSchemaDepth + 1
  BY JsonSchemaAssumption
<1>2. QED
  BY <1>1, CheckIsMeaning DEF Supported, Check, Satisfies

-----------------------------------------------------------------------------
(* The walk over the names is the declaration of every name *)

\* The names a schema declares are those of its own properties and of those of
\* the branches of its combinators, and a name is looked up in one of these.
LEMMA LookUp ==
  \A s \in Schemas : \A name \in Names :
    /\ name \in DeclaredNames[s] <=> \E t \in WithBranches[s] : name \in DOMAIN Properties(t)
    /\ name \in DeclaredNames[s] =>
         \E t \in WithBranches[s] :
           name \in DOMAIN Properties(t) /\ FirstFound[s][name] = t.properties[name]
    /\ name \notin DeclaredNames[s] => FirstFound[s][name] = Absent
<1> DEFINE rank == [s \in Schemas |-> Nesting[s]]
           Right(s, name) ==
             /\ name \in DeclaredNames[s] <=>
                  \E t \in WithBranches[s] : name \in DOMAIN Properties(t)
             /\ name \in DeclaredNames[s] =>
                  \E t \in WithBranches[s] :
                    name \in DOMAIN Properties(t) /\ FirstFound[s][name] = t.properties[name]
             /\ name \notin DeclaredNames[s] => FirstFound[s][name] = Absent
           T == {s \in Schemas : \A name \in Names : Right(s, name)}
<1>1. rank \in [Schemas -> Nat]
  BY SchemaParts
<1>2. ASSUME NEW s \in Schemas, \A y \in Schemas : rank[y] < rank[s] => y \in T, NEW name \in Names
      PROVE  Right(s, name)
  <2> DEFINE branch(i) == Branches(s)[i]
             found == {i \in DOMAIN Branches(s) : FirstFound[branch(i)][name] # Absent}
  <2>1. \A i \in DOMAIN Branches(s) : branch(i) \in Schemas /\ Right(branch(i), name)
    BY <1>2, SchemaParts
  <2>2. DeclaredNames[s] = DOMAIN Properties(s) \cup UNION {DeclaredNames[b] : b \in Range(Branches(s))}
    BY DeclaredNamesUnfolds
  <2>3. name \in DeclaredNames[s] <=>
          \/ name \in DOMAIN Properties(s)
          \/ \E i \in DOMAIN Branches(s) : name \in DeclaredNames[branch(i)]
    BY <2>2 DEF Range
  <2>4. WithBranches[s] = {s} \cup UNION {WithBranches[b] : b \in Range(Branches(s))}
    BY WithBranchesUnfolds
  <2>5. \A t : t \in WithBranches[s] <=>
          t = s \/ \E i \in DOMAIN Branches(s) : t \in WithBranches[branch(i)]
    BY <2>4 DEF Range
  <2>6. FirstFound[s][name] =
          CASE name \in DOMAIN Properties(s) -> s.properties[name]
            [] name \notin DOMAIN Properties(s) /\ found # {} ->
                 FirstFound[Branches(s)[Min(found)]][name]
            [] OTHER -> Absent
    BY FirstFoundUnfolds
  <2>7. name \in DeclaredNames[s] <=> \E t \in WithBranches[s] : name \in DOMAIN Properties(t)
    BY <2>1, <2>3, <2>5
  <2>8. CASE name \in DOMAIN Properties(s)
    <3>1. FirstFound[s][name] = s.properties[name]
      BY <2>6, <2>8
    <3>2. QED
      BY <2>3, <2>5, <2>7, <2>8, <3>1
  <2>9. CASE name \notin DOMAIN Properties(s) /\ found # {}
    <3>1. PICK i \in found : i = Min(found)
      BY <2>9, BranchMin
    <3>2. FirstFound[s][name] = FirstFound[branch(i)][name] /\ i \in DOMAIN Branches(s)
      BY <2>6, <2>9, <3>1
    <3>3. name \in DeclaredNames[branch(i)]
      BY <2>1, <3>1, <3>2
    <3>4. QED
      BY <2>1, <2>3, <2>5, <2>7, <3>2, <3>3
  <2>10. CASE name \notin DOMAIN Properties(s) /\ ~(found # {})
    <3>1. FirstFound[s][name] = Absent
      BY <2>6, <2>10
    <3>2. \A i \in DOMAIN Branches(s) : FirstFound[branch(i)][name] = Absent
      BY <2>10
    <3>3. QED
      BY <2>1, <2>3, <2>5, <2>7, <2>10, <3>1, <3>2
  <2>11. QED
    BY <2>8, <2>9, <2>10
<1>3. \A x \in Schemas : (\A y \in Schemas : rank[y] < rank[x] => y \in T) => x \in T
  <2> HIDE DEF Right
  <2> QED
    BY <1>2
<1>4. T \in SUBSET Schemas
  OBVIOUS
<1>5. T = Schemas
  <2> HIDE DEF T, rank
  <2> QED
    BY <1>1, <1>3, <1>4, RankInduction
<1>6. QED
  BY <1>5

\* A missing schema declares nothing.
LEMMA AbsentDeclares ==
  Absent \in Schemas /\ DeclaredNames[Absent] = {} /\ Get(Absent, "items", Absent) = Absent
<1>1. Absent \in Schemas
  BY JsonSchemaAssumption
<1>2. Properties(Absent) = NoNames
  BY DEF Properties, Get, Has, Absent
<1>3. Branches(Absent) = <<>> \o <<>> \o <<>>
  BY DEF Branches, Get, Has, Absent
<1>4. Range(Branches(Absent)) = {}
  <2>1. Len(Branches(Absent)) = 0 /\ Branches(Absent) \in Seq(Schemas)
    BY <1>1, <1>3, SchemaParts
  <2>2. DOMAIN Branches(Absent) = {}
    BY <2>1, LenProperties
  <2>3. QED
    BY <2>2 DEF Range
<1>5. DeclaredNames[Absent] = {}
  BY <1>1, <1>2, <1>4, DeclaredNamesUnfolds DEF NoNames
<1>6. QED
  BY <1>1, <1>5 DEF Get, Has, Absent

\* One step of the walk, and of the declaration it is compared with.
LEMMA WalkSteps ==
  ASSUME NEW depth \in 0..MaxArgumentDepth + 1, NEW s \in Schemas, NEW v \in Values
  PROVE  WalkAt[depth][s][v] <=>
           /\ depth <= MaxArgumentDepth
           /\ Is(v, "obj") =>
                /\ DOMAIN v.obj \subseteq DeclaredNames[s]
                /\ \A name \in DOMAIN v.obj : WalkAt[depth + 1][FirstFound[s][name]][v.obj[name]]
           /\ Is(v, "arr") =>
                \A i \in DOMAIN v.arr : WalkAt[depth + 1][Get(s, "items", Absent)][v.arr[i]]
BY WalkUnfolds DEF SubschemaFor

Governing(schemas) == UNION {WithBranches[s] : s \in schemas}
Declaring(schemas, name) == {s \in Governing(schemas) : name \in DOMAIN Properties(s)}
OfName(schemas, name) == {s.properties[name] : s \in Declaring(schemas, name)}
OfItems(schemas) == {s.items : s \in {t \in Governing(schemas) : Has(t, "items")}}

LEMMA DeclaredSteps ==
  ASSUME NEW v \in Values, NEW schemas \in SUBSET Schemas
  PROVE  /\ DeclaredBy[v][schemas] <=>
              /\ Is(v, "obj") => \A n \in DOMAIN v.obj :
                   Declaring(schemas, n) # {} /\ DeclaredBy[v.obj[n]][OfName(schemas, n)]
              /\ Is(v, "arr") => \A i \in DOMAIN v.arr : DeclaredBy[v.arr[i]][OfItems(schemas)]
         /\ Governing(schemas) \in SUBSET Schemas
         /\ \A n : OfName(schemas, n) \in SUBSET Schemas
         /\ OfItems(schemas) \in SUBSET Schemas
<1>1. DeclaredBy[v][schemas] <=>
        /\ Is(v, "obj") => \A n \in DOMAIN v.obj :
             Declaring(schemas, n) # {} /\ DeclaredBy[v.obj[n]][OfName(schemas, n)]
        /\ Is(v, "arr") => \A i \in DOMAIN v.arr : DeclaredBy[v.arr[i]][OfItems(schemas)]
  BY DeclaredUnfolds DEF Governing, Declaring, OfName, OfItems
<1>2. Governing(schemas) \in SUBSET Schemas
  BY WithBranchesUnfolds DEF Governing
<1>3. \A n : OfName(schemas, n) \in SUBSET Schemas
  BY <1>2, SchemaParts DEF OfName, Declaring
<1>4. OfItems(schemas) \in SUBSET Schemas
  BY <1>2, SchemaParts DEF OfItems
<1>5. QED
  BY <1>1, <1>2, <1>3, <1>4

\* What passes the walk has declared names only.
LEMMA WalkDeclares ==
  \A v \in Values : \A depth \in 0..MaxArgumentDepth + 1, s \in Schemas, schemas \in SUBSET Schemas :
    (s \in schemas \/ s = Absent) /\ WalkAt[depth][s][v] => DeclaredBy[v][schemas]
<1> DEFINE rank == [v \in Values |-> Nesting[v]]
           T == {v \in Values :
                   \A depth \in 0..MaxArgumentDepth + 1, s \in Schemas, schemas \in SUBSET Schemas :
                     (s \in schemas \/ s = Absent) /\ WalkAt[depth][s][v] => DeclaredBy[v][schemas]}
<1>1. rank \in [Values -> Nat]
  BY ValueParts
<1>2. ASSUME NEW v \in Values, \A y \in Values : rank[y] < rank[v] => y \in T,
             NEW depth \in 0..MaxArgumentDepth + 1, NEW s \in Schemas, NEW schemas \in SUBSET Schemas,
             s \in schemas \/ s = Absent, WalkAt[depth][s][v]
      PROVE  DeclaredBy[v][schemas]
  <2>1. /\ depth <= MaxArgumentDepth
        /\ Is(v, "obj") =>
             /\ DOMAIN v.obj \subseteq DeclaredNames[s]
             /\ \A name \in DOMAIN v.obj : WalkAt[depth + 1][FirstFound[s][name]][v.obj[name]]
        /\ Is(v, "arr") =>
             \A i \in DOMAIN v.arr : WalkAt[depth + 1][Get(s, "items", Absent)][v.arr[i]]
    BY <1>2, WalkSteps
  <2>2. depth + 1 \in 0..MaxArgumentDepth + 1
    BY <2>1, JsonSchemaAssumption
  <2>3. \A k \in DOMAIN Parts(v) : Parts(v)[k] \in T
    BY <1>2, ValueParts
  <2>4. s \in schemas => WithBranches[s] \subseteq Governing(schemas) /\ s \in Governing(schemas)
    BY WithBranchesUnfolds DEF Governing
  <2>5. ASSUME Is(v, "obj"), NEW n \in DOMAIN v.obj
        PROVE  Declaring(schemas, n) # {} /\ DeclaredBy[v.obj[n]][OfName(schemas, n)]
    <3>1. n \in DeclaredNames[s] /\ n \in Names
      BY <2>1, <2>5, DeclaredNamesUnfolds
    <3>2. s \in schemas
      BY <1>2, <3>1, AbsentDeclares
    <3>3. PICK t \in WithBranches[s] :
            n \in DOMAIN Properties(t) /\ FirstFound[s][n] = t.properties[n]
      BY <3>1, LookUp
    <3>4. t \in Declaring(schemas, n)
      BY <2>4, <3>2, <3>3 DEF Declaring
    <3>5. FirstFound[s][n] \in OfName(schemas, n) /\ OfName(schemas, n) \in SUBSET Schemas
      BY <3>3, <3>4, DeclaredSteps DEF OfName
    <3>6. v.obj[n] \in T
      BY <2>3, <2>5, ValueParts
    <3>7. WalkAt[depth + 1][FirstFound[s][n]][v.obj[n]]
      BY <2>1, <2>5
    <3>8. QED
      BY <2>2, <3>4, <3>5, <3>6, <3>7
  <2>6. ASSUME Is(v, "arr"), NEW i \in DOMAIN v.arr
        PROVE  DeclaredBy[v.arr[i]][OfItems(schemas)]
    <3> DEFINE items == Get(s, "items", Absent)
    <3>1. items \in OfItems(schemas) \/ items = Absent
      <4>1. CASE s = Absent
        BY <4>1, AbsentDeclares
      <4>2. CASE s \in schemas
        BY <2>4, <4>2 DEF OfItems, Get
      <4>3. QED
        BY <1>2, <4>1, <4>2
    <3>2. OfItems(schemas) \in SUBSET Schemas /\ items \in Schemas
      BY <3>1, DeclaredSteps, AbsentDeclares
    <3>3. v.arr[i] \in T
      BY <2>3, <2>6, ValueParts
    <3>4. WalkAt[depth + 1][items][v.arr[i]]
      BY <2>1, <2>6
    <3> HIDE DEF items
    <3>5. QED
      BY <2>2, <3>1, <3>2, <3>3, <3>4
  <2>7. QED
    BY <2>5, <2>6, DeclaredSteps
<1>3. \A x \in Values : (\A y \in Values : rank[y] < rank[x] => y \in T) => x \in T
  BY <1>2
<1>4. T \in SUBSET Values
  OBVIOUS
<1>5. T = Values
  <2> HIDE DEF T, rank
  <2> QED
    BY <1>1, <1>3, <1>4, RankInduction
<1>6. QED
  BY <1>5

\* The nodes of a part are nodes of the whole, one level down.
LEMMA NodesOfParts ==
  ASSUME NEW v \in Values, NEW k \in DOMAIN Parts(v)
  PROVE  /\ Parts(v)[k] \in Values
         /\ \A n \in Nodes[Parts(v)[k]] :
              /\ n.path \in Seq(Places) /\ n.value \in Values
              /\ [path |-> <<k>> \o n.path, value |-> n.value] \in Nodes[v]
              /\ Len(<<k>> \o n.path) = Len(n.path) + 1 /\ Len(n.path) \in Nat
<1>1. Parts(v)[k] \in Values /\ k \in Places
  BY ValueParts, PlacesOf
<1>2. ASSUME NEW n \in Nodes[Parts(v)[k]]
      PROVE  n.path \in Seq(Places) /\ n.value \in Values
  BY <1>1, NodesUnfold
<1>3. ASSUME NEW n \in Nodes[Parts(v)[k]]
      PROVE  [path |-> <<k>> \o n.path, value |-> n.value] \in Nodes[v]
  <2> DEFINE of(j) == {[path |-> <<j>> \o m.path, value |-> m.value] : m \in Nodes[Parts(v)[j]]}
  <2>1. Nodes[v] = {[path |-> <<>>, value |-> v]} \cup UNION {of(j) : j \in DOMAIN Parts(v)}
    BY NodesUnfold, Zenon
  <2>2. [path |-> <<k>> \o n.path, value |-> n.value] \in of(k)
    BY <1>3
  <2> HIDE DEF of
  <2>3. QED
    BY <2>1, <2>2
<1>4. ASSUME NEW n \in Nodes[Parts(v)[k]]
      PROVE  Len(<<k>> \o n.path) = Len(n.path) + 1 /\ Len(n.path) \in Nat
  BY <1>1, <1>2, <1>4, LongerPath, LenProperties
<1>5. QED
  BY <1>1, <1>2, <1>3, <1>4

\* A value is a node of itself.
LEMMA RootNode ==
  ASSUME NEW v \in Values
  PROVE  [path |-> <<>>, value |-> v] \in Nodes[v]
BY NodesUnfold

\* A value that has parts is deeper than they are.
LEMMA DeeperParts ==
  ASSUME NEW v \in Values, NEW k \in DOMAIN Parts(v), NEW limit \in Int, ~Deeper(v, limit)
  PROVE  limit >= 1 /\ ~Deeper(Parts(v)[k], limit - 1)
<1>1. ASSUME NEW n \in Nodes[Parts(v)[k]] PROVE Len(n.path) + 1 <= limit /\ Len(n.path) \in Nat
  <2> DEFINE longer == [path |-> <<k>> \o n.path, value |-> n.value]
  <2>1. longer \in Nodes[v] /\ Len(longer.path) = Len(n.path) + 1 /\ Len(n.path) \in Nat
    BY <1>1, NodesOfParts
  <2>2. ~(Len(longer.path) > limit)
    BY <2>1 DEF Deeper
  <2>3. QED
    BY <2>1, <2>2
<1>2. [path |-> <<>>, value |-> Parts(v)[k]] \in Nodes[Parts(v)[k]]
  BY NodesOfParts, RootNode
<1>3. limit >= 1
  BY <1>1, <1>2
<1>4. QED
  BY <1>1, <1>3 DEF Deeper

\* What is nested in a nested schema is nested, and so are branches.
LEMMA NestedBelow ==
  \A s \in Schemas :
    /\ s \in Nested[s] /\ s \in WithBranches[s]
    /\ WithBranches[s] \subseteq Nested[s]
    /\ \A t \in Nested[s] : Nested[t] \subseteq Nested[s]
<1> DEFINE rank == [s \in Schemas |-> Nesting[s]]
           Right(s) ==
             /\ WithBranches[s] \subseteq Nested[s]
             /\ \A t \in Nested[s] : Nested[t] \subseteq Nested[s]
           T == {s \in Schemas : Right(s)}
<1>1. rank \in [Schemas -> Nat]
  BY SchemaParts
<1>2. ASSUME NEW s \in Schemas, \A y \in Schemas : rank[y] < rank[s] => y \in T
      PROVE  Right(s)
  <2>1. \A t \in Subschemas(s) : t \in Schemas /\ Right(t)
    BY <1>2, SchemaParts
  <2>2. Nested[s] = {s} \cup UNION {Nested[t] : t \in Subschemas(s)}
    BY NestedUnfolds
  <2>3. WithBranches[s] = {s} \cup UNION {WithBranches[b] : b \in Range(Branches(s))}
    BY WithBranchesUnfolds
  <2>4. \A b \in Range(Branches(s)) : b \in Subschemas(s)
    BY SchemaParts DEF Range
  <2>5. WithBranches[s] \subseteq Nested[s]
    BY <2>1, <2>2, <2>3, <2>4
  <2>6. \A t \in Nested[s] : Nested[t] \subseteq Nested[s]
    BY <2>1, <2>2
  <2>7. QED
    BY <2>5, <2>6
<1>3. \A x \in Schemas : (\A y \in Schemas : rank[y] < rank[x] => y \in T) => x \in T
  BY <1>2
<1>4. T \in SUBSET Schemas
  OBVIOUS
<1>5. T = Schemas
  <2> HIDE DEF T, rank
  <2> QED
    BY <1>1, <1>3, <1>4, RankInduction
<1>6. ASSUME NEW s \in Schemas PROVE s \in Nested[s] /\ s \in WithBranches[s]
  BY NestedUnfolds, WithBranchesUnfolds
<1>7. QED
  BY <1>5, <1>6

\* A schema that leaves the walk no choice is made of such schemas.
LEMMA WalkableBelow ==
  ASSUME NEW s \in Schemas, Walkable(s), NEW t \in WithBranches[s], NEW u \in Subschemas(t)
  PROVE  Walkable(u)
<1>1. t \in Schemas /\ t \in Nested[s]
  BY NestedBelow, WithBranchesUnfolds
<1>2. u \in Schemas /\ u \in Nested[u] /\ Nested[t] = {t} \cup UNION {Nested[x] : x \in Subschemas(t)}
  BY <1>1, SchemaParts, NestedBelow, NestedUnfolds
<1>3. u \in Nested[t]
  BY <1>2
<1>4. Nested[u] \subseteq Nested[s]
  BY <1>1, <1>3, NestedBelow
<1>5. QED
  BY <1>4 DEF Walkable

\* Declared names pass the walk, where the branches leave it no choice and the
\* value keeps within the rail.
LEMMA DeclaredWalks ==
  \A v \in Values : \A depth \in 0..MaxArgumentDepth, s \in Schemas, schemas \in SUBSET Schemas :
    /\ (schemas = {s} /\ Walkable(s)) \/ (schemas = {} /\ s = Absent)
    /\ DeclaredBy[v][schemas] /\ ~Deeper(v, MaxArgumentDepth - depth)
    => WalkAt[depth][s][v]
<1> DEFINE rank == [v \in Values |-> Nesting[v]]
           Alone(s, schemas) == (schemas = {s} /\ Walkable(s)) \/ (schemas = {} /\ s = Absent)
           T == {v \in Values :
                   \A depth \in 0..MaxArgumentDepth, s \in Schemas, schemas \in SUBSET Schemas :
                     Alone(s, schemas) /\ DeclaredBy[v][schemas] /\ ~Deeper(v, MaxArgumentDepth - depth)
                     => WalkAt[depth][s][v]}
<1>1. rank \in [Values -> Nat]
  BY ValueParts
<1>2. ASSUME NEW v \in Values, \A y \in Values : rank[y] < rank[v] => y \in T,
             NEW depth \in 0..MaxArgumentDepth, NEW s \in Schemas, NEW schemas \in SUBSET Schemas,
             Alone(s, schemas), DeclaredBy[v][schemas], ~Deeper(v, MaxArgumentDepth - depth)
      PROVE  WalkAt[depth][s][v]
  <2>1. /\ Is(v, "obj") => \A n \in DOMAIN v.obj :
             Declaring(schemas, n) # {} /\ DeclaredBy[v.obj[n]][OfName(schemas, n)]
        /\ Is(v, "arr") => \A i \in DOMAIN v.arr : DeclaredBy[v.arr[i]][OfItems(schemas)]
    BY <1>2, DeclaredSteps
  <2>2. ASSUME NEW k \in DOMAIN Parts(v)
        PROVE  /\ Parts(v)[k] \in T
               /\ depth + 1 \in 0..MaxArgumentDepth
               /\ ~Deeper(Parts(v)[k], MaxArgumentDepth - (depth + 1))
    <3>1. MaxArgumentDepth - depth \in Int
      BY JsonSchemaAssumption
    <3>2. MaxArgumentDepth - depth >= 1 /\ ~Deeper(Parts(v)[k], (MaxArgumentDepth - depth) - 1)
      BY <1>2, <2>2, <3>1, DeeperParts
    <3>3. (MaxArgumentDepth - depth) - 1 = MaxArgumentDepth - (depth + 1)
      BY JsonSchemaAssumption
    <3>4. Parts(v)[k] \in T
      BY <1>2, <2>2, ValueParts
    <3>5. QED
      BY <3>2, <3>3, <3>4, JsonSchemaAssumption
  <2>3. schemas = {s} => Governing(schemas) = WithBranches[s]
    BY DEF Governing
  <2>4. schemas = {} => Governing(schemas) = {}
    BY DEF Governing
  <2>5. ASSUME Is(v, "obj"), NEW n \in DOMAIN v.obj
        PROVE  n \in DeclaredNames[s] /\ WalkAt[depth + 1][FirstFound[s][n]][v.obj[n]]
    <3>1. schemas = {s} /\ Walkable(s)
      BY <1>2, <2>1, <2>4, <2>5 DEF Declaring
    <3>2. \E t \in WithBranches[s] : n \in DOMAIN Properties(t)
      BY <2>1, <2>3, <2>5, <3>1 DEF Declaring
    <3>3. n \in Names
      BY <3>2, WithBranchesUnfolds DEF Names
    <3>4. n \in DeclaredNames[s]
      BY <3>2, <3>3, LookUp
    <3>5. PICK t \in WithBranches[s] :
            n \in DOMAIN Properties(t) /\ FirstFound[s][n] = t.properties[n]
      BY <3>3, <3>4, LookUp
    <3>6. \A b \in WithBranches[s] : n \in DOMAIN Properties(b) => b = t
      <4>1. s \in Nested[s]
        BY NestedBelow
      <4>2. \A b, c \in WithBranches[s] :
              DOMAIN Properties(b) \cap DOMAIN Properties(c) # {} => b = c
        BY <3>1, <4>1 DEF Walkable
      <4>3. QED
        BY <3>5, <4>2
    <3>7. OfName(schemas, n) = {FirstFound[s][n]}
      BY <2>3, <3>1, <3>5, <3>6 DEF OfName, Declaring
    <3>8. t \in Schemas /\ FirstFound[s][n] \in Subschemas(t) /\ FirstFound[s][n] \in Schemas
      BY <3>5, SchemaParts, WithBranchesUnfolds
    <3>9. Walkable(FirstFound[s][n])
      BY <3>1, <3>5, <3>8, WalkableBelow
    <3>10. n \in DOMAIN Parts(v) /\ Parts(v)[n] = v.obj[n]
      BY <2>5, ValueParts
    <3>11. DeclaredBy[v.obj[n]][{FirstFound[s][n]}]
      BY <2>1, <2>5, <3>7
    <3>12. WalkAt[depth + 1][FirstFound[s][n]][v.obj[n]]
      BY <2>2, <3>8, <3>9, <3>10, <3>11
    <3>13. QED
      BY <3>4, <3>12
  <2>6. ASSUME Is(v, "arr"), NEW i \in DOMAIN v.arr
        PROVE  WalkAt[depth + 1][Get(s, "items", Absent)][v.arr[i]]
    <3> DEFINE items == Get(s, "items", Absent)
    <3>1. i \in DOMAIN Parts(v) /\ Parts(v)[i] = v.arr[i]
      BY <2>6, ValueParts
    <3>2. items \in Schemas /\ Alone(items, OfItems(schemas))
      <4>1. CASE schemas = {} /\ s = Absent
        <5>1. OfItems(schemas) = {} /\ items = Absent
          BY <2>4, <4>1, AbsentDeclares DEF OfItems
        <5>2. QED
          BY <5>1, AbsentDeclares
      <4>2. CASE schemas = {s} /\ Walkable(s) /\ Has(s, "items")
        <5>1. \A b \in WithBranches[s] : Has(b, "items") <=> b = s
          BY <4>2, NestedBelow DEF Walkable
        <5>2. OfItems(schemas) = {items} /\ items = s.items
          BY <2>3, <4>2, <5>1, NestedBelow DEF OfItems, Get
        <5>3. items \in Subschemas(s) /\ items \in Schemas
          BY <4>2, <5>2, SchemaParts
        <5>4. Walkable(items)
          BY <4>2, <5>3, NestedBelow, WalkableBelow
        <5>5. QED
          BY <5>2, <5>3, <5>4
      <4>3. CASE schemas = {s} /\ Walkable(s) /\ ~Has(s, "items")
        <5>1. \A b \in WithBranches[s] : ~Has(b, "items")
          BY <4>3, NestedBelow DEF Walkable
        <5>2. OfItems(schemas) = {}
          BY <2>3, <4>3, <5>1 DEF OfItems
        <5>3. items = Absent
          BY <4>3 DEF Get
        <5>4. QED
          BY <5>2, <5>3, AbsentDeclares
      <4>4. QED
        BY <1>2, <4>1, <4>2, <4>3
    <3>3. OfItems(schemas) \in SUBSET Schemas
      BY DeclaredSteps
    <3>4. DeclaredBy[v.arr[i]][OfItems(schemas)]
      BY <2>1, <2>6
    <3> HIDE DEF items, Alone
    <3>5. QED
      BY <2>2, <3>1, <3>2, <3>3, <3>4 DEF items
  <2>7. depth \in 0..MaxArgumentDepth + 1 /\ depth <= MaxArgumentDepth
    BY JsonSchemaAssumption
  <2>8. QED
    BY <2>5, <2>6, <2>7, WalkSteps
<1>3. \A x \in Values : (\A y \in Values : rank[y] < rank[x] => y \in T) => x \in T
  <2> HIDE DEF Alone
  <2> QED
    BY <1>2
<1>4. T \in SUBSET Values
  OBVIOUS
<1>5. T = Values
  <2> HIDE DEF T, rank
  <2> QED
    BY <1>1, <1>3, <1>4, RankInduction
<1>6. QED
  BY <1>5

-----------------------------------------------------------------------------
(* What is read of an argument *)

\* What may be read of a value is a value.
LEMMA ReadingsAreCopies ==
  ASSUME NEW v \in Values, NEW intoLists \in BOOLEAN
  PROVE  /\ Readings[v][intoLists] = Copies(v, intoLists, Readings) \cap Values
         /\ Readings[v][intoLists] \subseteq Values
BY ReadingsUnfold

\* To read all parts is to read each.
LEMMA PartReadingsEach ==
  ASSUME NEW v \in Values, NEW intoLists, NEW f \in PartReadings(v, intoLists, Readings)
  PROVE  /\ DOMAIN f = DOMAIN Parts(v) /\ f = [k \in DOMAIN Parts(v) |-> f[k]]
         /\ \A k \in DOMAIN Parts(v) : f[k] \in Readings[Parts(v)[k]][intoLists]
BY DEF PartReadings, Combinations

\* No mapping whose readings differ is left in v.
Settled(v) == \A n \in Nodes[v] : ~Is(n.value, "live")

LEMMA SettledParts ==
  ASSUME NEW v \in Values
  PROVE  Settled(v) <=> ~Is(v, "live") /\ \A k \in DOMAIN Parts(v) : Settled(Parts(v)[k])
<1>1. ASSUME Settled(v) PROVE ~Is(v, "live")
  BY <1>1, RootNode DEF Settled
<1>2. ASSUME Settled(v), NEW k \in DOMAIN Parts(v) PROVE Settled(Parts(v)[k])
  <2>1. SUFFICES ASSUME NEW n \in Nodes[Parts(v)[k]] PROVE ~Is(n.value, "live")
    BY DEF Settled
  <2> DEFINE longer == [path |-> <<k>> \o n.path, value |-> n.value]
  <2>2. longer \in Nodes[v]
    BY NodesOfParts
  <2>3. ~Is(longer.value, "live")
    BY <1>2, <2>2 DEF Settled
  <2>4. QED
    BY <2>3
<1>3. ASSUME ~Is(v, "live"), \A k \in DOMAIN Parts(v) : Settled(Parts(v)[k]), NEW n \in Nodes[v]
      PROVE  ~Is(n.value, "live")
  <2> DEFINE of(k) == {[path |-> <<k>> \o m.path, value |-> m.value] : m \in Nodes[Parts(v)[k]]}
  <2>1. Nodes[v] = {[path |-> <<>>, value |-> v]} \cup UNION {of(k) : k \in DOMAIN Parts(v)}
    BY NodesUnfold, Zenon
  <2>2. CASE n = [path |-> <<>>, value |-> v]
    BY <1>3, <2>2
  <2>3. CASE \E k \in DOMAIN Parts(v) : n \in of(k)
    BY <1>3, <2>3 DEF Settled
  <2>4. QED
    <3> HIDE DEF of
    <3> QED
      BY <1>3, <2>1, <2>2, <2>3
<1>4. QED
  BY <1>1, <1>2, <1>3 DEF Settled

\* Named, since the provers replace a truth value wherever it is known.
GoesIntoLists(into) == into

\* What a reading is, kind by kind.
LEMMA ReadingMembers ==
  ASSUME NEW v \in Values, NEW into \in BOOLEAN, NEW w \in Readings[v][into]
  PROVE  /\ Is(v, "live") => \E o \in v.live : w \in Readings[o][into]
         /\ Is(v, "obj") => \E f \in PartReadings(v, into, Readings) : w = [obj |-> f]
         /\ Is(v, "tup") => \E f \in PartReadings(v, into, Readings) : w = [arr |-> f]
         /\ Is(v, "arr") /\ GoesIntoLists(into) => \E f \in PartReadings(v, into, Readings) : w = [arr |-> f]
         /\ Is(v, "arr") /\ ~into => w = v
         /\ ~Is(v, "live") /\ ~Is(v, "obj") /\ ~Is(v, "tup") /\ ~Is(v, "arr") => w = v
<1>1. w \in Copies(v, into, Readings)
  BY ReadingsAreCopies
<1>2. QED
  BY <1>1, CopiesEach DEF GoesIntoLists

\* json_safe leaves no such mapping behind, but in a list.
LEMMA SafeIsSettled ==
  ASSUME NoMappingInsideAList
  PROVE  \A v \in Values : \A w \in JsonSafe(v) : Settled(w)
<1> DEFINE into == FALSE
<1>0. into \in BOOLEAN /\ ~into
  OBVIOUS
<1> HIDE DEF into
<1> DEFINE rank == [v \in Values |-> Nesting[v]]
           T == {v \in Values : \A w \in Readings[v][into] : Settled(w)}
<1>1. rank \in [Values -> Nat]
  BY ValueParts
<1>2. ASSUME NEW v \in Values, \A y \in Values : rank[y] < rank[v] => y \in T,
             NEW w \in Readings[v][into]
      PROVE  Settled(w)
  <2>1. w \in Copies(v, into, Readings) /\ w \in Values
    BY <1>2, <1>0, ReadingsAreCopies
  <2>2. \A u \in Values : Is(u, "arr") => Settled(u)
    BY DEF NoMappingInsideAList, Settled
  <2>3. CASE Is(v, "live")
    <3>1. PICK o \in v.live : w \in Readings[o][into]
      BY <1>0, <1>2, <2>1, <2>3, ReadingMembers
    <3>2. o \in T
      BY <1>2, <2>3, ValueParts
    <3>3. QED
      BY <3>1, <3>2
  <2>4. CASE Is(v, "obj")
    <3>1. PICK f \in PartReadings(v, into, Readings) : w = [obj |-> f]
      BY <1>0, <1>2, <2>1, <2>4, ReadingMembers
    <3>2. Is(w, "obj") /\ ~Is(w, "live") /\ w.obj = f
      BY <3>1 DEF Is
    <3>3. Parts(w) = f
      BY <2>1, <3>2, ValueParts
    <3>4. \A k \in DOMAIN Parts(w) : Settled(Parts(w)[k])
      <4>1. \A k \in DOMAIN Parts(v) : Parts(v)[k] \in T
        BY <1>2, ValueParts
      <4>2. DOMAIN f = DOMAIN Parts(v) /\ \A k \in DOMAIN Parts(v) : f[k] \in Readings[Parts(v)[k]][into]
        BY <1>0, PartReadingsEach
      <4>3. QED
        BY <3>3, <4>1, <4>2
    <3>5. QED
      BY <2>1, <3>2, <3>4, SettledParts
  <2>5. CASE Is(v, "tup")
    <3>1. PICK f \in PartReadings(v, into, Readings) : w = [arr |-> f]
      BY <1>0, <1>2, <2>1, <2>5, ReadingMembers
    <3>2. QED
      BY <2>1, <2>2, <3>1 DEF Is
  <2>6. CASE Is(v, "arr")
    BY <1>0, <1>2, <2>1, <2>2, <2>6, ReadingMembers
  <2>7. CASE ~Is(v, "live") /\ ~Is(v, "obj") /\ ~Is(v, "tup") /\ ~Is(v, "arr")
    <3>1. w = v
      BY <1>0, <1>2, <2>1, <2>7, ReadingMembers
    <3>2. DOMAIN Parts(v) = {}
      BY <2>7, ValueParts
    <3>3. QED
      BY <2>7, <3>1, <3>2, SettledParts
  <2>8. QED
    BY <2>3, <2>4, <2>5, <2>6, <2>7
<1>3. \A x \in Values : (\A y \in Values : rank[y] < rank[x] => y \in T) => x \in T
  BY <1>2
<1>4. T \in SUBSET Values
  OBVIOUS
<1>5. T = Values
  <2> HIDE DEF T, rank
  <2> QED
    BY <1>1, <1>3, <1>4, RankInduction
<1>6. QED
  BY <1>5 DEF into, JsonSafe

\* All readings of v are the same.
ReadsOnce(v, into) == \A x, y \in Readings[v][into] : x = y

\* Two readings differ only where the readings of a part differ.
LEMMA SameParts ==
  ASSUME NEW v \in Values, NEW into \in BOOLEAN, ~Is(v, "live"),
         \A k \in DOMAIN Parts(v) : ReadsOnce(Parts(v)[k], into),
         NEW x \in Readings[v][into], NEW y \in Readings[v][into]
  PROVE  GoesIntoLists(into) => x = y
<1>1. \A f, g \in PartReadings(v, into, Readings) : f = g
  <2>1. SUFFICES ASSUME NEW f \in PartReadings(v, into, Readings),
                        NEW g \in PartReadings(v, into, Readings)
                 PROVE  f = g
    OBVIOUS
  <2>2. f = [k \in DOMAIN Parts(v) |-> f[k]]
        /\ \A k \in DOMAIN Parts(v) : f[k] \in Readings[Parts(v)[k]][into]
    BY PartReadingsEach
  <2>3. g = [k \in DOMAIN Parts(v) |-> g[k]]
        /\ \A k \in DOMAIN Parts(v) : g[k] \in Readings[Parts(v)[k]][into]
    BY PartReadingsEach
  <2>4. \A k \in DOMAIN Parts(v) : f[k] = g[k]
    BY <2>2, <2>3 DEF ReadsOnce
  <2>5. QED
    BY <2>2, <2>3, <2>4
<1>2. CASE Is(v, "obj")
  <2>1. PICK f \in PartReadings(v, into, Readings) : x = [obj |-> f]
    BY <1>2, ReadingMembers
  <2>2. PICK g \in PartReadings(v, into, Readings) : y = [obj |-> g]
    BY <1>2, ReadingMembers
  <2>3. QED
    BY <1>1, <2>1, <2>2
<1>3. CASE Is(v, "tup")
  <2>1. PICK f \in PartReadings(v, into, Readings) : x = [arr |-> f]
    BY <1>3, ReadingMembers
  <2>2. PICK g \in PartReadings(v, into, Readings) : y = [arr |-> g]
    BY <1>3, ReadingMembers
  <2>3. QED
    BY <1>1, <2>1, <2>2
<1>4. CASE Is(v, "arr")
  <2>1. GoesIntoLists(into) => \E f \in PartReadings(v, into, Readings) : x = [arr |-> f]
    BY <1>4, ReadingMembers
  <2>2. GoesIntoLists(into) => \E f \in PartReadings(v, into, Readings) : y = [arr |-> f]
    BY <1>4, ReadingMembers
  <2>3. QED
    BY <1>1, <2>1, <2>2
<1>5. CASE ~Is(v, "obj") /\ ~Is(v, "tup") /\ ~Is(v, "arr")
  <2>1. x = v
    BY <1>5, ReadingMembers
  <2>2. y = v
    BY <1>5, ReadingMembers
  <2>3. QED
    BY <2>1, <2>2
<1>6. QED
  BY <1>2, <1>3, <1>4, <1>5

\* Every reading of a settled value is the same.
LEMMA SettledReadsOnce ==
  \A v \in Values : Settled(v) => \A x, y \in Read(v) : x = y
<1> DEFINE into == TRUE
<1>0. into \in BOOLEAN /\ GoesIntoLists(into)
  BY DEF GoesIntoLists
<1> HIDE DEF into
<1> DEFINE rank == [v \in Values |-> Nesting[v]]
           T == {v \in Values : Settled(v) => ReadsOnce(v, into)}
<1>1. rank \in [Values -> Nat]
  BY ValueParts
<1>2. ASSUME NEW v \in Values, \A y \in Values : rank[y] < rank[v] => y \in T, Settled(v)
      PROVE  ReadsOnce(v, into)
  <2>1. ~Is(v, "live") /\ \A k \in DOMAIN Parts(v) : Settled(Parts(v)[k])
    BY <1>2, SettledParts
  <2>2. \A k \in DOMAIN Parts(v) : Parts(v)[k] \in T
    BY <1>2, ValueParts
  <2>3. QED
    BY <1>0, <1>2, <2>1, <2>2, SameParts DEF ReadsOnce
<1>3. \A x \in Values : (\A y \in Values : rank[y] < rank[x] => y \in T) => x \in T
  BY <1>2
<1>4. T \in SUBSET Values
  OBVIOUS
<1>5. T = Values
  <2> HIDE DEF T, rank
  <2> QED
    BY <1>1, <1>3, <1>4, RankInduction
<1>6. QED
  BY <1>5 DEF into, Read, ReadsOnce

\* A mapping is read as a mapping.
LEMMA MappingsStayMappings ==
  ASSUME NEW v \in Values, NEW intoLists \in BOOLEAN, NEW w \in Readings[v][intoLists],
         Is(v, "obj") \/ Is(v, "live")
  PROVE  Is(w, "obj")
<1>1. ASSUME NEW u \in Values, Is(u, "obj"), NEW x \in Readings[u][intoLists] PROVE Is(x, "obj")
  <2>1. x \in {[obj |-> f] : f \in PartReadings(u, intoLists, Readings)}
    BY <1>1, ReadingsAreCopies, CopiesEach
  <2>2. QED
    BY <2>1 DEF Is
<1>2. CASE Is(v, "live")
  <2>1. PICK o \in v.live : w \in Readings[o][intoLists]
    BY <1>2, ReadingsAreCopies, CopiesEach
  <2>2. QED
    BY <1>1, <1>2, <2>1, ValueParts
<1>3. QED
  BY <1>1, <1>2

-----------------------------------------------------------------------------
(* Along a call *)

Copying == {"copied", "validated", "walked"}
Sending == {"frozen", "sent", "answered"}

\* What is there at each point of a call.
InOrder ==
  /\ entry \in Entries
  /\ pc \in {"loading", "ready", "done"} \cup Copying \cup Sending
  /\ pc \in {"loading", "ready"} \cup Sending => safe = Absent
  /\ pc \in {"loading", "ready"} \cup Copying => sent = Absent
  /\ pc \in Copying => safe # Absent
  /\ pc \in Sending => sent # Absent
  /\ (result = Absent) = (pc \notin {"answered", "done"})
  /\ safe # Absent => given # Absent /\ sent = Absent

\* A call is for an entry whose schemas passed when the manifest was loaded.
Loaded ==
  pc \notin {"loading", "done"} \/ safe # Absent \/ sent # Absent =>
    /\ Supported(entry.input)
    /\ entry.output # Absent => Supported(entry.output)

\* safe_arguments is a copy of what the caller gave.
Copied ==
  safe # Absent => safe \in Values /\ Is(safe, "obj") /\ \E v \in Values : safe \in JsonSafe(v)

\* What each check of preflight_read leaves behind.
Proved ==
  /\ pc \in {"validated", "walked"} => \E v \in Read(safe) : Check(v, entry.input)
  /\ pc = "walked" => \E v \in Read(safe) : Walk(v, entry.input)
  /\ pc = "done" /\ safe # Absent =>
       \E v \in Read(safe) : ~Check(v, entry.input) \/ ~Walk(v, entry.input)
  /\ sent # Absent => sent \in Values
  /\ sent # Absent /\ NoMappingInsideAList => Check(sent, entry.input) /\ Walk(sent, entry.input)

\* What ends a call is a refusal, or what was made of an answer.
Answered ==
  result # Absent =>
    \/ result \in {Refuse("not_ready"), Refuse("input_invalid")}
    \/ pc = "answered" /\ \E raw \in Results : result = Outcome(raw, entry.output)

CallInv == InOrder /\ Loaded /\ Copied /\ Proved /\ Answered

\* No refusal and no delivery is a missing result.
LEMMA ResultsArePresent ==
  /\ \A code : Refuse(code) # Absent /\ ~Has(Refuse(code), "data")
  /\ \A v, source : Deliver(v, source) # Absent
  /\ \A raw, output : Outcome(raw, output) # Absent
<1>1. \A code : Refuse(code) # Absent /\ ~Has(Refuse(code), "data")
  BY DEF Refuse, Absent, Has
<1>2. \A v, source : Deliver(v, source) # Absent
  <2>1. SUFFICES ASSUME NEW v, NEW source PROVE Deliver(v, source) # Absent
    OBVIOUS
  <2>2. "data" \in DOMAIN Deliver(v, source) /\ "data" \notin DOMAIN Absent
    BY DEF Deliver, Absent
  <2>3. QED
    BY <2>2
<1>3. ASSUME NEW raw, NEW output PROVE Outcome(raw, output) # Absent
  BY <1>1, <1>2 DEF Outcome, MapResult
<1>4. QED
  BY <1>1, <1>2, <1>3

LEMMA CallInvInit == Init => CallInv
<1>1. ASSUME Init PROVE CallInv
  BY <1>1 DEF Init, CallInv, InOrder, Loaded, Copied, Proved, Answered, Copying, Sending
<1>2. QED
  BY <1>1

\* What one step does, in one place.
LEMMA Steps ==
  ASSUME CallInv, [Next]_vars
  PROVE  \/ Load \/ Validate \/ RefuseUndeclared \/ Freeze \/ Send
         \/ \E a \in Arguments : Copy(a)
         \/ \E raw \in Results : Receive(raw)
         \/ UNCHANGED vars
BY DEF Next

\* A copy of a mapping is a mapping.
LEMMA CopyIsMapping ==
  ASSUME NEW a \in Arguments, Is(a, "obj") \/ Is(a, "live"), NEW w \in JsonSafe(a)
  PROVE  a \in Values /\ a # Absent /\ w \in Values /\ Is(w, "obj") /\ w # Absent
<1> DEFINE into == FALSE
<1>1. into \in BOOLEAN /\ w \in Readings[a][into]
  BY DEF JsonSafe
<1> HIDE DEF into
<1>2. a \in Values
  BY PayloadAssumption
<1>3. w \in Values /\ Is(w, "obj")
  BY <1>1, <1>2, ReadingsAreCopies, MappingsStayMappings
<1>4. ~Is(Absent, "obj") /\ ~Is(Absent, "live")
  BY DEF Is, Absent
<1>5. QED
  BY <1>2, <1>3, <1>4

\* A reading of a mapping is a mapping.
LEMMA ReadIsMapping ==
  ASSUME NEW v \in Values, Is(v, "obj"), NEW w \in Read(v)
  PROVE  w \in Values /\ Is(w, "obj") /\ w # Absent
<1> DEFINE into == TRUE
<1>1. into \in BOOLEAN /\ w \in Readings[v][into]
  BY DEF Read
<1> HIDE DEF into
<1>2. w \in Values /\ Is(w, "obj")
  BY <1>1, ReadingsAreCopies, MappingsStayMappings
<1>3. ~Is(Absent, "obj")
  BY DEF Is, Absent
<1>4. QED
  BY <1>2, <1>3

LEMMA InOrderNext ==
  ASSUME CallInv, [Next]_vars PROVE InOrder'
<1> USE DEF CallInv, InOrder, Copying, Sending
<1>1. ASSUME Load PROVE InOrder'
  BY <1>1, ResultsArePresent DEF Load, Refused
<1>2. ASSUME NEW a \in Arguments, Copy(a) PROVE InOrder'
  <2>1. CASE Is(a, "obj") \/ Is(a, "live")
    BY <1>2, <2>1, CopyIsMapping DEF Copy
  <2>2. CASE ~(Is(a, "obj") \/ Is(a, "live"))
    BY <1>2, <2>2, ResultsArePresent DEF Copy, Refused
  <2>3. QED
    BY <2>1, <2>2
<1>3. ASSUME Validate PROVE InOrder'
  BY <1>3, ResultsArePresent DEF Validate, Refused
<1>4. ASSUME RefuseUndeclared PROVE InOrder'
  BY <1>4, ResultsArePresent DEF RefuseUndeclared, Refused
<1>5. ASSUME Freeze PROVE InOrder'
  <2>1. sent' # Absent
    BY <1>5, ReadIsMapping DEF Freeze, Copied
  <2>2. QED
    BY <1>5, <2>1 DEF Freeze
<1>6. ASSUME Send PROVE InOrder'
  BY <1>6, ResultsArePresent DEF Send, Refused
<1>7. ASSUME NEW raw \in Results, Receive(raw) PROVE InOrder'
  BY <1>7, ResultsArePresent DEF Receive
<1>8. ASSUME UNCHANGED vars PROVE InOrder'
  BY <1>8 DEF vars
<1>9. QED
  BY <1>1, <1>2, <1>3, <1>4, <1>5, <1>6, <1>7, <1>8, Steps

LEMMA LoadedNext ==
  ASSUME CallInv, [Next]_vars PROVE Loaded'
<1> USE DEF CallInv, InOrder, Loaded, Copying, Sending
<1>1. ASSUME Load PROVE Loaded'
  BY <1>1 DEF Load, Refused, Loadable
<1>2. ASSUME NEW a \in Arguments, Copy(a) PROVE Loaded'
  BY <1>2 DEF Copy, Refused
<1>3. ASSUME Validate PROVE Loaded'
  BY <1>3 DEF Validate, Refused
<1>4. ASSUME RefuseUndeclared PROVE Loaded'
  BY <1>4 DEF RefuseUndeclared, Refused
<1>5. ASSUME Freeze PROVE Loaded'
  BY <1>5 DEF Freeze
<1>6. ASSUME Send PROVE Loaded'
  BY <1>6 DEF Send, Refused
<1>7. ASSUME NEW raw \in Results, Receive(raw) PROVE Loaded'
  BY <1>7 DEF Receive
<1>8. ASSUME UNCHANGED vars PROVE Loaded'
  BY <1>8 DEF vars
<1>9. QED
  BY <1>1, <1>2, <1>3, <1>4, <1>5, <1>6, <1>7, <1>8, Steps

LEMMA CopiedNext ==
  ASSUME CallInv, [Next]_vars PROVE Copied'
<1> USE DEF CallInv, Copied
<1>1. ASSUME NEW a \in Arguments, Copy(a) PROVE Copied'
  <2>1. CASE Is(a, "obj") \/ Is(a, "live")
    <3>1. safe' \in JsonSafe(a)
      BY <1>1, <2>1 DEF Copy
    <3>2. QED
      BY <2>1, <3>1, CopyIsMapping
  <2>2. CASE ~(Is(a, "obj") \/ Is(a, "live"))
    BY <1>1, <2>2 DEF Copy
  <2>3. QED
    BY <2>1, <2>2
<1>2. ASSUME Load \/ Validate \/ RefuseUndeclared \/ Send \/ UNCHANGED vars PROVE Copied'
  BY <1>2 DEF Load, Validate, RefuseUndeclared, Send, vars
<1>3. ASSUME Freeze PROVE Copied'
  BY <1>3 DEF Freeze
<1>4. ASSUME NEW raw \in Results, Receive(raw) PROVE Copied'
  BY <1>4 DEF Receive
<1>5. QED
  BY <1>1, <1>2, <1>3, <1>4, Steps

\* What is frozen is what was checked: the copy has one reading.
LEMMA FrozenIsChecked ==
  ASSUME CallInv, Freeze
  PROVE  /\ sent' \in Values
         /\ NoMappingInsideAList => Check(sent', entry.input) /\ Walk(sent', entry.input)
<1>1. safe # Absent /\ safe \in Values /\ Is(safe, "obj") /\ pc = "walked" /\ sent' \in Read(safe)
  BY DEF CallInv, InOrder, Copied, Freeze, Copying
<1>2. sent' \in Values
  BY <1>1, ReadIsMapping
<1>3. ASSUME NoMappingInsideAList PROVE Check(sent', entry.input) /\ Walk(sent', entry.input)
  <2>1. PICK v \in Values : safe \in JsonSafe(v)
    BY <1>1 DEF CallInv, Copied
  <2>2. Settled(safe)
    BY <1>3, <2>1, SafeIsSettled
  <2>3. \A x, y \in Read(safe) : x = y
    BY <1>1, <2>2, SettledReadsOnce
  <2>4. /\ \E w \in Read(safe) : Check(w, entry.input)
        /\ \E w \in Read(safe) : Walk(w, entry.input)
    BY <1>1 DEF CallInv, Proved
  <2>5. QED
    BY <1>1, <2>3, <2>4
<1>4. QED
  BY <1>2, <1>3

LEMMA ProvedNext ==
  ASSUME CallInv, [Next]_vars PROVE Proved'
<1> USE DEF CallInv, InOrder, Proved, Copying, Sending
<1>1. ASSUME Load PROVE Proved'
  BY <1>1 DEF Load, Refused
<1>2. ASSUME NEW a \in Arguments, Copy(a) PROVE Proved'
  BY <1>2 DEF Copy, Refused
<1>3. ASSUME Validate PROVE Proved'
  BY <1>3 DEF Validate, Refused
<1>4. ASSUME RefuseUndeclared PROVE Proved'
  BY <1>4 DEF RefuseUndeclared, Refused
<1>5. ASSUME Freeze PROVE Proved'
  <2>1. pc' = "frozen" /\ safe' = Absent /\ entry' = entry
    BY <1>5 DEF Freeze
  <2>2. QED
    BY <1>5, <2>1, FrozenIsChecked
<1>6. ASSUME Send PROVE Proved'
  BY <1>6 DEF Send, Refused
<1>7. ASSUME NEW raw \in Results, Receive(raw) PROVE Proved'
  BY <1>7 DEF Receive
<1>8. ASSUME UNCHANGED vars PROVE Proved'
  BY <1>8 DEF vars
<1>9. QED
  BY <1>1, <1>2, <1>3, <1>4, <1>5, <1>6, <1>7, <1>8, Steps

LEMMA AnsweredNext ==
  ASSUME CallInv, [Next]_vars PROVE Answered'
<1> USE DEF CallInv, InOrder, Answered, Copying, Sending
<1>1. ASSUME Load PROVE Answered'
  BY <1>1 DEF Load, Refused
<1>2. ASSUME NEW a \in Arguments, Copy(a) PROVE Answered'
  BY <1>2 DEF Copy, Refused
<1>3. ASSUME Validate PROVE Answered'
  BY <1>3 DEF Validate, Refused
<1>4. ASSUME RefuseUndeclared PROVE Answered'
  BY <1>4 DEF RefuseUndeclared, Refused
<1>5. ASSUME Freeze PROVE Answered'
  BY <1>5 DEF Freeze
<1>6. ASSUME Send PROVE Answered'
  BY <1>6 DEF Send, Refused
<1>7. ASSUME NEW raw \in Results, Receive(raw) PROVE Answered'
  BY <1>7 DEF Receive
<1>8. ASSUME UNCHANGED vars PROVE Answered'
  BY <1>8 DEF vars
<1>9. QED
  BY <1>1, <1>2, <1>3, <1>4, <1>5, <1>6, <1>7, <1>8, Steps

LEMMA CallInvNext == CallInv /\ [Next]_vars => CallInv'
<1>1. ASSUME CallInv, [Next]_vars PROVE CallInv'
  BY <1>1, InOrderNext, LoadedNext, CopiedNext, ProvedNext, AnsweredNext DEF CallInv
<1>2. QED
  BY <1>1

\* The inductive invariant of a call: at each point, which of the argument, its
\* copy, the frozen copy and the result there are, and what has been checked of
\* them (preflight_read and call_tool, one step after the other).
THEOREM CallInvariant == Spec => []CallInv
<1>1. Init => CallInv
  BY CallInvInit
<1>2. CallInv /\ [Next]_vars => CallInv'
  BY CallInvNext
<1>3. QED
  BY <1>1, <1>2, PTL DEF Spec

\* Every keyword of a schema that loads is enforced (schema.py, _check): on any
\* reading of the copied arguments the verdict is the meaning of the schema.
THEOREM KeywordsEnforced == Spec => []EveryKeywordEnforced
<1>1. CallInv => EveryKeywordEnforced
  <2>1. SUFFICES ASSUME CallInv, pc = "copied", NEW v \in Read(safe)
                 PROVE  Check(v, entry.input) <=> Satisfies(v, entry.input)
    BY DEF EveryKeywordEnforced
  <2>2. safe \in Values /\ Is(safe, "obj") /\ Supported(entry.input) /\ entry.input \in Schemas
    BY <2>1, PayloadAssumption DEF CallInv, InOrder, Loaded, Copied, Copying
  <2>3. v \in Values
    BY <2>1, <2>2, ReadIsMapping
  <2>4. QED
    BY <2>2, <2>3, CheckSatisfies
<1>2. QED
  BY <1>1, CallInvariant, PTL

\* Where no mapping whose readings differ is inside a list, what is sent is what
\* was checked (preflight_read: copy, validate, freeze), however often the
\* caller's mapping changes its answers.
THEOREM SentWasProved ==
  ASSUME NoMappingInsideAList
  PROVE  Spec => []SentIsProved
<1>1. CallInv => SentIsProved
  <2>1. SUFFICES ASSUME CallInv, sent # Absent
                 PROVE  Satisfies(sent, entry.input)
    BY DEF SentIsProved
  <2>2. /\ sent \in Values /\ Check(sent, entry.input)
        /\ Supported(entry.input) /\ entry.input \in Schemas
    BY <2>1, PayloadAssumption DEF CallInv, InOrder, Loaded, Proved
  <2>3. QED
    BY <2>2, CheckSatisfies
<1>2. QED
  BY <1>1, CallInvariant, PTL

\* Where no such mapping is inside a list, every name in what is sent is declared
\* by the schemas that govern its place (_refuse_undeclared).
THEOREM NamesAreDeclared ==
  ASSUME NoMappingInsideAList
  PROVE  Spec => []OnlyDeclaredNames
<1>1. CallInv => OnlyDeclaredNames
  <2>1. SUFFICES ASSUME CallInv, sent # Absent
                 PROVE  Declared(sent, entry.input)
    BY DEF OnlyDeclaredNames
  <2>2. sent \in Values /\ Walk(sent, entry.input) /\ entry.input \in Schemas
    BY <2>1, PayloadAssumption DEF CallInv, InOrder, Proved
  <2>3. WalkAt[0][entry.input][sent] /\ 0 \in 0..MaxArgumentDepth + 1
    BY <2>2, JsonSchemaAssumption DEF Walk
  <2>4. {entry.input} \in SUBSET Schemas /\ entry.input \in {entry.input}
    BY <2>2
  <2>5. QED
    BY <2>2, <2>3, <2>4, WalkDeclares DEF Declared
<1>2. QED
  BY <1>1, CallInvariant, PTL

\* What satisfies the schema, has declared names only and keeps within the rail
\* passes both checks, if the branches of combinators leave the walk no choice.
LEMMA LegalPasses ==
  ASSUME NEW s \in Schemas, Supported(s), Walkable(s), NEW v \in Values,
         Satisfies(v, s), Declared(v, s), ~Deeper(v, MaxArgumentDepth)
  PROVE  Check(v, s) /\ Walk(v, s)
<1>1. Check(v, s)
  BY CheckSatisfies
<1>2. 0 \in 0..MaxArgumentDepth /\ MaxArgumentDepth - 0 = MaxArgumentDepth
  BY JsonSchemaAssumption
<1>3. {s} \in SUBSET Schemas
  OBVIOUS
<1>4. WalkAt[0][s][v]
  <2> DEFINE top == 0
  <2>1. top \in 0..MaxArgumentDepth /\ ~Deeper(v, MaxArgumentDepth - top)
    BY <1>2
  <2> HIDE DEF top
  <2>2. WalkAt[top][s][v]
    BY <1>3, <2>1, DeclaredWalks DEF Declared
  <2>3. QED
    BY <2>2 DEF top
<1>5. QED
  BY <1>1, <1>4 DEF Walk

\* Arguments that mean what the schema says and have only names it declares are
\* not refused (_check and _refuse_undeclared do not disagree with each other).
THEOREM LegalArgumentsAccepted == Spec => []LegalArgumentsPass
<1>1. CallInv => LegalArgumentsPass
  <2>1. SUFFICES ASSUME CallInv, pc = "done", safe # Absent, Walkable(entry.input)
                 PROVE  \E v \in Read(safe) :
                          \/ ~Satisfies(v, entry.input)
                          \/ ~Declared(v, entry.input)
                          \/ Deeper(v, MaxArgumentDepth)
    BY DEF LegalArgumentsPass
  <2>2. PICK v \in Read(safe) : ~Check(v, entry.input) \/ ~Walk(v, entry.input)
    BY <2>1 DEF CallInv, Proved
  <2>3. safe \in Values /\ Is(safe, "obj") /\ Supported(entry.input) /\ entry.input \in Schemas
    BY <2>1, PayloadAssumption DEF CallInv, InOrder, Loaded, Copied
  <2>4. v \in Values
    BY <2>3, ReadIsMapping
  <2>5. QED
    BY <2>1, <2>2, <2>3, <2>4, LegalPasses
<1>2. QED
  BY <1>1, CallInvariant, PTL

-----------------------------------------------------------------------------
(* How much there is of a value *)

\* The union of finitely many finite sets is finite.
LEMMA FiniteUnion ==
  ASSUME NEW F, IsFiniteSet(F), \A x \in F : IsFiniteSet(x)
  PROVE  IsFiniteSet(UNION F)
<1> DEFINE U == Nat
           rank == [n \in U |-> n]
           T == {n \in U : \A G \in SUBSET F : Cardinality(G) = n => IsFiniteSet(UNION G)}
<1>1. rank \in [U -> Nat]
  OBVIOUS
<1>2. ASSUME NEW n \in U, \A m \in U : rank[m] < rank[n] => m \in T,
             NEW G \in SUBSET F, Cardinality(G) = n
      PROVE  IsFiniteSet(UNION G)
  <2>1. IsFiniteSet(G)
    BY FS_Subset
  <2>2. CASE G = {}
    <3>1. UNION G = {}
      BY <2>2
    <3>2. QED
      BY <3>1, FS_EmptySet
  <2>3. CASE G # {}
    <3>1. PICK x \in G : TRUE
      BY <2>3
    <3>2. Cardinality(G \ {x}) = n - 1 /\ n # 0
      <4>1. Cardinality(G \ {x}) = Cardinality(G) - 1
        BY <2>1, <3>1, FS_RemoveElement
      <4>2. Cardinality(G) # 0
        BY <2>1, <2>3, FS_EmptySet
      <4>3. QED
        BY <1>2, <4>1, <4>2
    <3>3. n - 1 \in T
      BY <1>2, <3>2
    <3>4. IsFiniteSet(UNION (G \ {x})) /\ IsFiniteSet(x)
      BY <3>2, <3>3
    <3>5. UNION G = x \cup UNION (G \ {x})
      BY <3>1
    <3> DEFINE rest == UNION (G \ {x})
    <3> HIDE DEF rest
    <3>6. IsFiniteSet(x \cup rest)
      BY <3>4, FS_Union DEF rest
    <3>7. QED
      BY <3>5, <3>6 DEF rest
  <2>4. QED
    BY <2>2, <2>3
<1>3. \A n \in U : (\A m \in U : rank[m] < rank[n] => m \in T) => n \in T
  BY <1>2
<1>4. T \in SUBSET U
  OBVIOUS
<1>5. T = U
  <2> HIDE DEF T, rank, U
  <2> QED
    BY <1>1, <1>3, <1>4, RankInduction
<1>6. Cardinality(F) \in Nat /\ F \in SUBSET F
  BY FS_CardinalityType
<1>7. QED
  BY <1>5, <1>6

\* A function has no more results than places.
LEMMA FiniteRange ==
  ASSUME NEW D, IsFiniteSet(D), NEW R, NEW f \in [D -> R]
  PROVE  IsFiniteSet(Range(f)) /\ Cardinality(Range(f)) <= Cardinality(D)
<1>1. f \in Surjection(D, Range(f))
  BY DEF Surjection, Range
<1>2. QED
  BY <1>1, FS_Surjection

\* A value has finitely many parts.
LEMMA FinitelyManyParts ==
  ASSUME NEW v \in Values
  PROVE  IsFiniteSet(DOMAIN Parts(v))
<1>1. \A list \in Seq(Values) : IsFiniteSet(DOMAIN list)
  <2>1. SUFFICES ASSUME NEW list \in Seq(Values) PROVE IsFiniteSet(DOMAIN list)
    OBVIOUS
  <2>2. DOMAIN list = 1..Len(list) /\ Len(list) \in Nat
    BY LenProperties
  <2>3. \A n \in Nat : IsFiniteSet(1..n)
    BY FS_Interval
  <2>4. QED
    BY <2>2, <2>3
<1>2. CASE Is(v, "obj")
  BY <1>2, ValueParts, JsonSchemaAssumption DEF IsValue
<1>3. CASE Is(v, "arr") \/ Is(v, "tup")
  BY <1>1, <1>3, ValueParts
<1>4. CASE ~Is(v, "obj") /\ ~Is(v, "arr") /\ ~Is(v, "tup")
  <2>1. DOMAIN Parts(v) = {}
    BY <1>4, ValueParts
  <2>2. QED
    BY <2>1, FS_EmptySet
<1>5. QED
  BY <1>2, <1>3, <1>4

\* What a value is made of is finite, if it is so for each of its parts.
LEMMA FiniteFromParts ==
  ASSUME NEW v \in Values, NEW of, \A k \in DOMAIN Parts(v) : IsFiniteSet(of[k])
  PROVE  IsFiniteSet(UNION {of[k] : k \in DOMAIN Parts(v)})
<1> DEFINE D == DOMAIN Parts(v)
           f == [k \in D |-> of[k]]
<1>1. IsFiniteSet(D)
  BY FinitelyManyParts
<1>2. f \in [D -> {of[k] : k \in D}] /\ {of[k] : k \in D} = Range(f)
  BY DEF Range
<1>3. IsFiniteSet(Range(f))
  <2> HIDE DEF f, D
  <2> QED
    BY <1>1, <1>2, FiniteRange
<1>4. QED
  BY <1>2, <1>3, FiniteUnion

\* A value has finitely many nodes.
LEMMA NodesFinite ==
  \A v \in Values : IsFiniteSet(Nodes[v])
<1> DEFINE rank == [v \in Values |-> Nesting[v]]
           T == {v \in Values : IsFiniteSet(Nodes[v])}
<1>1. rank \in [Values -> Nat]
  BY ValueParts
<1>2. ASSUME NEW v \in Values, \A y \in Values : rank[y] < rank[v] => y \in T
      PROVE  IsFiniteSet(Nodes[v])
  <2> DEFINE below(k) == {[path |-> <<k>> \o n.path, value |-> n.value] : n \in Nodes[Parts(v)[k]]}
             of == [k \in DOMAIN Parts(v) |-> below(k)]
  <2>1. ASSUME NEW k \in DOMAIN Parts(v) PROVE IsFiniteSet(below(k))
    <3> DEFINE N == Nodes[Parts(v)[k]]
               f == [n \in N |-> [path |-> <<k>> \o n.path, value |-> n.value]]
    <3>1. Parts(v)[k] \in T
      BY <1>2, ValueParts
    <3>2. IsFiniteSet(N) /\ f \in [N -> below(k)] /\ below(k) = Range(f)
      BY <3>1 DEF Range
    <3>3. IsFiniteSet(Range(f))
      <4> HIDE DEF f, N, below
      <4> QED
        BY <3>2, FiniteRange
    <3>4. QED
      BY <3>2, <3>3
  <2>2. Nodes[v] = {[path |-> <<>>, value |-> v]} \cup UNION {below(k) : k \in DOMAIN Parts(v)}
    BY NodesUnfold, Zenon
  <2> HIDE DEF below
  <2>3. {below(k) : k \in DOMAIN Parts(v)} = {of[k] : k \in DOMAIN Parts(v)}
    OBVIOUS
  <2>4. \A k \in DOMAIN Parts(v) : IsFiniteSet(of[k])
    BY <2>1
  <2> HIDE DEF of
  <2>5. IsFiniteSet(UNION {of[k] : k \in DOMAIN Parts(v)})
    BY <2>4, FiniteFromParts
  <2> DEFINE rest == UNION {of[k] : k \in DOMAIN Parts(v)}
             root == [path |-> <<>>, value |-> v]
  <2>6. Nodes[v] = rest \cup {root}
    BY <2>2, <2>3
  <2> HIDE DEF rest, root
  <2>7. IsFiniteSet(rest \cup {root})
    BY <2>5, FS_AddElement DEF rest
  <2>8. QED
    BY <2>6, <2>7
<1>3. \A x \in Values : (\A y \in Values : rank[y] < rank[x] => y \in T) => x \in T
  BY <1>2
<1>4. T \in SUBSET Values
  OBVIOUS
<1>5. T = Values
  <2> HIDE DEF T, rank
  <2> QED
    BY <1>1, <1>3, <1>4, RankInduction
<1>6. QED
  BY <1>5

\* A part has no more nodes than the whole.
LEMMA FewerNodes ==
  ASSUME NEW v \in Values, NEW k \in DOMAIN Parts(v)
  PROVE  Cardinality(Nodes[Parts(v)[k]]) <= Cardinality(Nodes[v])
<1> DEFINE N == Nodes[Parts(v)[k]]
           f == [n \in N |-> [path |-> <<k>> \o n.path, value |-> n.value]]
<1>1. \A n \in N : n \in [path : Seq(Places), value : Values]
  BY NodesUnfold, ValueParts
<1>2. f \in [N -> Nodes[v]]
  BY NodesOfParts
<1>3. ASSUME NEW m \in N, NEW n \in N, f[m] = f[n] PROVE m = n
  <2>1. <<k>> \o m.path = <<k>> \o n.path /\ m.value = n.value
    BY <1>3
  <2>2. k \in Places /\ m.path \in Seq(Places) /\ n.path \in Seq(Places)
    BY <1>1, <1>3, PlacesOf
  <2>3. m.path = n.path
    BY <2>1, <2>2, LongerPath
  <2>4. QED
    BY <1>1, <1>3, <2>1, <2>3
<1>4. f \in Injection(N, Nodes[v])
  BY <1>2, <1>3 DEF Injection, IsInjective
<1>5. IsFiniteSet(Nodes[v])
  BY NodesFinite
<1>6. QED
  <2> HIDE DEF f, N
  <2> QED
    BY <1>4, <1>5, FS_Injection DEF N

\* What is in a bounded value is bounded, and one level shallower.
LEMMA BoundedParts ==
  ASSUME NEW v \in Values, NEW k \in DOMAIN Parts(v), Bounded(v, Response)
  PROVE  /\ Bounded(Parts(v)[k], Response)
         /\ ~Deeper(Parts(v)[k], Response.depth - 1)
<1> DEFINE part == Parts(v)[k]
<1>0. Response.depth \in Nat /\ Response.nodes \in Nat
  BY PayloadAssumption DEF BudgetAssumption
<1>1. ~Deeper(part, Response.depth - 1)
  BY <1>0, DeeperParts DEF Bounded
<1>2. part \in Values /\ Nodes[part] \in SUBSET [path : Seq(Places), value : Values]
  BY NodesOfParts, NodesUnfold
<1>3. ~Deeper(part, Response.depth)
  <2>1. ASSUME NEW n \in Nodes[part] PROVE ~(Len(n.path) > Response.depth)
    <3>1. Len(n.path) \in Nat /\ ~(Len(n.path) > Response.depth - 1)
      BY <1>1, <1>2, <2>1, LenProperties DEF Deeper
    <3>2. QED
      BY <1>0, <3>1
  <2>2. QED
    BY <2>1 DEF Deeper
<1>4. Cardinality(Nodes[part]) <= Response.nodes
  <2>1. Cardinality(Nodes[part]) \in Nat /\ Cardinality(Nodes[v]) \in Nat
    BY <1>2, NodesFinite, FS_CardinalityType
  <2>2. Cardinality(Nodes[part]) <= Cardinality(Nodes[v]) /\ Cardinality(Nodes[v]) <= Response.nodes
    BY FewerNodes DEF Bounded
  <2>3. QED
    BY <1>0, <2>1, <2>2
<1>5. ASSUME NEW n \in Nodes[part], NEW length \in StringLengths(n.value)
      PROVE  length <= Response.string
  <2> DEFINE longer == [path |-> <<k>> \o n.path, value |-> n.value]
  <2>1. longer \in Nodes[v]
    BY NodesOfParts
  <2>2. \A l \in StringLengths(longer.value) : l <= Response.string
    BY <2>1 DEF Bounded
  <2>3. QED
    BY <1>5, <2>2
<1>6. QED
  BY <1>1, <1>3, <1>4, <1>5 DEF Bounded

-----------------------------------------------------------------------------
(* What is delivered *)

LEMMA NothingIsMissing ==
  ~Is(Absent, "obj") /\ ~Is(Absent, "arr") /\ ~Is(Absent, "text")
BY DEF Is, Absent

\* What was checked of an answer that was not refused.
LEMMA Delivery ==
  ASSUME NEW raw \in Results, NEW output, Has(Outcome(raw, output), "data")
  PROVE  /\ Bounded(raw, Response)
         /\ ~IsToolError(raw) /\ TextOnly(raw) /\ Is(Payload(raw), "obj")
         /\ output # Absent => Supported(output)
         /\ Fits(raw, output)
         /\ Outcome(raw, output) = Deliver(Payload(raw), Source(raw))
<1> DEFINE mappable == TextOnly(raw) /\ Is(Payload(raw), "obj")
           enforceable == output # Absent => Supported(output)
<1>1. \A code : ~Has(Refuse(code), "data")
  BY ResultsArePresent
<1>2. Bounded(raw, Response) /\ Outcome(raw, output) = MapResult(raw, output)
  BY <1>1 DEF Outcome
<1>3. MapResult(raw, output) =
        CASE IsToolError(raw) -> Refuse("provider_error")
          [] ~IsToolError(raw) /\ ~mappable -> Refuse("protocol_error")
          [] ~IsToolError(raw) /\ mappable /\ ~enforceable -> Refuse("not_ready")
          [] OTHER -> IF Fits(raw, output)
                        THEN Deliver(Payload(raw), Source(raw))
                        ELSE Refuse("protocol_error")
  BY DEF MapResult
<1> HIDE DEF mappable, enforceable
<1>4. ~IsToolError(raw) /\ mappable /\ enforceable /\ Fits(raw, output)
  BY <1>1, <1>2, <1>3
<1>5. Outcome(raw, output) = Deliver(Payload(raw), Source(raw))
  BY <1>2, <1>3, <1>4
<1>6. QED
  BY <1>2, <1>4, <1>5 DEF mappable, enforceable

\* Structured content is a part of the answer.
LEMMA StructuredPart ==
  ASSUME NEW raw \in Results, Bounded(raw, Response), Present(Structured(raw))
  PROVE  /\ Payload(raw) = Structured(raw) /\ Payload(raw) \in Values
         /\ Bounded(Payload(raw), Response) /\ ~Deeper(Payload(raw), Response.depth - 1)
<1>1. raw \in Values /\ Is(raw, "obj") /\ Parts(raw) = raw.obj
  BY PayloadAssumption, ValueParts
<1>2. "structuredContent" \in DOMAIN raw.obj /\ Structured(raw) = raw.obj["structuredContent"]
  BY DEF Present, Structured, Get, Has
<1>3. Payload(raw) = Structured(raw)
  BY DEF Payload
<1> DEFINE k == "structuredContent"
<1>4. k \in DOMAIN Parts(raw) /\ Payload(raw) = Parts(raw)[k]
  BY <1>1, <1>2, <1>3
<1> HIDE DEF k
<1>5. QED
  BY <1>1, <1>3, <1>4, BoundedParts, ValueParts

\* The JSON of the only text block is a value, and was bounded by itself.
LEMMA TextPart ==
  ASSUME NEW raw \in Results, TextOnly(raw), ~Present(Structured(raw)), Is(Payload(raw), "obj")
  PROVE  Payload(raw) \in Values /\ Bounded(Payload(raw), Response)
<1>1. raw \in Values /\ Is(raw, "obj") /\ Parts(raw) = raw.obj
  BY PayloadAssumption, ValueParts
<1> DEFINE list == Content(raw).arr
<1>2. Len(list) = 1 /\ Payload(raw) = DecodeTextPayload(list[1])
  BY NothingIsMissing DEF Payload
<1>3. Content(raw) = raw.obj["content"] /\ "content" \in DOMAIN raw.obj
  <2>1. CASE Present(Get(raw.obj, "content", Absent))
    BY <2>1 DEF Content, Present, Get, Has
  <2>2. CASE ~Present(Get(raw.obj, "content", Absent))
    <3>1. Content(raw) = [arr |-> <<>>]
      BY <2>2 DEF Content
    <3>2. QED
      BY <1>2, <3>1
  <2>3. QED
    BY <2>1, <2>2
<1>4. Content(raw) \in Values /\ Is(Content(raw), "arr")
  BY <1>1, <1>3, ValueParts DEF TextOnly
<1>5. list \in Seq(Values)
  BY <1>4, ValueParts
<1>6. 1 \in DOMAIN list
  <2> HIDE DEF list
  <2> QED
    BY <1>2, <1>5, LenProperties
<1> DEFINE block == list[1]
           text == Get(block.obj, "text", Absent)
<1>7. block \in Values /\ Is(block, "obj")
  <2>1. block \in Values
    BY <1>5, <1>6, ElementOfSeq
  <2>2. block \in Range(list)
    BY <1>6 DEF Range
  <2>3. QED
    BY <2>1, <2>2 DEF TextOnly, IsTextBlock
<1>8. DecodeTextPayload(block) =
        IF /\ Is(text, "text") /\ Is(text.text, "obj")
           /\ ~ExceedsTextDepth(text.text, Response.depth)
           /\ Bounded(text.text, Response)
          THEN text.text
          ELSE Absent
  BY DEF DecodeTextPayload
<1> HIDE DEF block, list
<1>9. Is(text, "text") /\ Bounded(text.text, Response) /\ Payload(raw) = text.text
  <2> HIDE DEF text
  <2> QED
    BY <1>2, <1>8, NothingIsMissing DEF block
<1>10. text \in Values
  <2>1. "text" \in DOMAIN block.obj /\ text = block.obj["text"]
    BY <1>9, NothingIsMissing DEF Get, Has
  <2>2. QED
    BY <1>7, <2>1, ValueParts
<1>11. QED
  <2> HIDE DEF text
  <2> QED
    BY <1>9, <1>10, ValueParts

\* Whatever is delivered fits the reviewed output schema and the bounds of a
\* response, from whichever part of the answer it came (_map_result), and a call
\* ends with one result.
THEOREM DeliveryIsReviewed == Spec => []DeliveredIsReviewed
<1>1. ASSUME CallInv PROVE TypeOK
  BY <1>1 DEF CallInv, InOrder, TypeOK, Copying, Sending
<1>2. ASSUME CallInv, result # Absent, Has(result, "data")
      PROVE  /\ Bounded(result.data, Response)
             /\ entry.output # Absent => Satisfies(result.data, entry.output)
  <2>1. PICK raw \in Results : result = Outcome(raw, entry.output)
    BY <1>2, ResultsArePresent DEF CallInv, Answered
  <2>2. /\ Bounded(raw, Response) /\ TextOnly(raw) /\ Is(Payload(raw), "obj")
        /\ entry.output # Absent => Supported(entry.output)
        /\ Fits(raw, entry.output)
        /\ result = Deliver(Payload(raw), Source(raw))
    BY <1>2, <2>1, Delivery
  <2>3. result.data = Payload(raw)
    BY <2>2 DEF Deliver
  <2>4. Payload(raw) \in Values /\ Bounded(Payload(raw), Response)
    BY <2>2, StructuredPart, TextPart
  <2>5. entry.output \in Schemas
    BY <1>2, PayloadAssumption DEF CallInv, InOrder
  <2>6. ASSUME entry.output # Absent PROVE Satisfies(Payload(raw), entry.output)
    BY <2>2, <2>4, <2>5, <2>6, CheckSatisfies DEF Fits
  <2>7. QED
    BY <2>3, <2>4, <2>6
<1>3. CallInv => DeliveredIsReviewed
  BY <1>1, <1>2 DEF DeliveredIsReviewed
<1>4. QED
  BY <1>3, CallInvariant, PTL

-----------------------------------------------------------------------------
(* The same data again as text *)

\* The parts of the answer that gives data again as text.
Quoted(v) == [text |-> v]
Word == [str |-> "text"]
Block(v) == [obj |-> [type |-> Word, text |-> Quoted(v)]]
Blocks(v) == [arr |-> <<Block(v)>>]

LEMMA TextOfParts ==
  ASSUME NEW v, TextOf(v) \in Values
  PROVE  /\ Is(TextOf(v), "obj") /\ TextOf(v).obj = [content |-> Blocks(v)]
         /\ DOMAIN Parts(TextOf(v)) = {"content"} /\ Parts(TextOf(v))["content"] = Blocks(v)
         /\ Blocks(v) \in Values /\ Is(Blocks(v), "arr") /\ Blocks(v).arr = <<Block(v)>>
         /\ DOMAIN Parts(Blocks(v)) = {1} /\ Parts(Blocks(v))[1] = Block(v)
         /\ Block(v) \in Values /\ Is(Block(v), "obj")
         /\ Block(v).obj = [type |-> Word, text |-> Quoted(v)]
         /\ DOMAIN Parts(Block(v)) = {"type", "text"}
         /\ Parts(Block(v))["type"] = Word /\ Parts(Block(v))["text"] = Quoted(v)
         /\ Word \in Values /\ Is(Word, "str") /\ DOMAIN Parts(Word) = {}
         /\ Quoted(v) \in Values /\ Is(Quoted(v), "text") /\ DOMAIN Parts(Quoted(v)) = {}
<1>1. TextOf(v) = [obj |-> [content |-> Blocks(v)]]
  BY DEF TextOf, Blocks, Block, Word, Quoted
<1>2. Is(TextOf(v), "obj") /\ TextOf(v).obj = [content |-> Blocks(v)]
  BY <1>1 DEF Is
<1>3. Parts(TextOf(v)) = [content |-> Blocks(v)]
  BY <1>2, ValueParts
<1>4. DOMAIN Parts(TextOf(v)) = {"content"} /\ Parts(TextOf(v))["content"] = Blocks(v)
  BY <1>3
<1>5. Blocks(v) \in Values
  BY <1>4, ValueParts
<1>6. Is(Blocks(v), "arr") /\ Blocks(v).arr = <<Block(v)>>
  BY DEF Blocks, Is
<1>7. DOMAIN Parts(Blocks(v)) = {1} /\ Parts(Blocks(v))[1] = Block(v)
  <2>1. Parts(Blocks(v)) = <<Block(v)>>
    BY <1>5, <1>6, ValueParts
  <2>2. \A b : DOMAIN <<b>> = {1} /\ <<b>>[1] = b
    OBVIOUS
  <2>3. QED
    BY <2>1, <2>2
<1>8. Block(v) \in Values
  BY <1>5, <1>7, ValueParts
<1>9. Is(Block(v), "obj") /\ Block(v).obj = [type |-> Word, text |-> Quoted(v)]
  BY DEF Block, Is
<1>10. Parts(Block(v)) = [type |-> Word, text |-> Quoted(v)]
  BY <1>8, <1>9, ValueParts
<1>11. /\ DOMAIN Parts(Block(v)) = {"type", "text"}
       /\ Parts(Block(v))["type"] = Word /\ Parts(Block(v))["text"] = Quoted(v)
  BY <1>10
<1>12. Word \in Values /\ Quoted(v) \in Values
  BY <1>8, <1>11, ValueParts
<1>13. Is(Word, "str") /\ ~Is(Word, "obj") /\ ~Is(Word, "arr") /\ ~Is(Word, "tup")
  BY DEF Word, Is
<1>14. Is(Quoted(v), "text") /\ ~Is(Quoted(v), "obj") /\ ~Is(Quoted(v), "arr") /\ ~Is(Quoted(v), "tup")
  BY DEF Quoted, Is
<1>15. DOMAIN Parts(Word) = {} /\ DOMAIN Parts(Quoted(v)) = {}
  BY <1>12, <1>13, <1>14, ValueParts
<1>16. QED
  BY <1>2, <1>4, <1>5, <1>6, <1>7, <1>8, <1>9, <1>11, <1>12, <1>13, <1>14, <1>15

\* The answer that gives data again as text is mapped to the same data.
LEMMA TextOfMaps ==
  ASSUME NEW v \in Values, Is(v, "obj"), TextOf(v) \in Values, Bounded(v, Response),
         ~ExceedsTextDepth(v, Response.depth), NEW output,
         output # Absent => Supported(output) /\ Check(v, output)
  PROVE  MapResult(TextOf(v), output) = Deliver(v, "text_content")
<1> DEFINE raw == TextOf(v)
<1>1. /\ raw.obj = [content |-> Blocks(v)]
      /\ Is(Blocks(v), "arr") /\ Blocks(v).arr = <<Block(v)>>
      /\ Is(Block(v), "obj") /\ Block(v).obj = [type |-> Word, text |-> Quoted(v)]
  BY TextOfParts
<1> HIDE DEF raw
<1>2. ~IsToolError(raw)
  <2>1. Get(raw.obj, "isError", Absent) = Absent
    BY <1>1 DEF Get, Has
  <2>2. Absent # [bool |-> TRUE]
    BY DEF Absent
  <2>3. QED
    BY <2>1, <2>2 DEF IsToolError
<1>3. ~Present(Structured(raw)) /\ Source(raw) = "text_content"
  <2>1. Structured(raw) = Absent
    BY <1>1 DEF Structured, Get, Has
  <2>2. QED
    BY <2>1 DEF Present, Source
<1>4. Content(raw) = Blocks(v)
  <2>1. Get(raw.obj, "content", Absent) = Blocks(v)
    BY <1>1 DEF Get, Has
  <2>2. ~Is([null |-> TRUE], "arr") /\ ~Is(Absent, "arr")
    BY DEF Is, Absent
  <2>3. Present(Blocks(v))
    BY <1>1, <2>2 DEF Present
  <2>4. QED
    BY <2>1, <2>3 DEF Content
<1>5. TextOnly(raw)
  <2>1. \A b : Range(<<b>>) = {b}
    BY DEF Range
  <2>2. Get(Block(v).obj, "type", Absent) = [str |-> "text"]
    BY <1>1 DEF Get, Has, Word
  <2>3. IsTextBlock(Block(v))
    BY <1>1, <2>2 DEF IsTextBlock
  <2>4. QED
    BY <1>1, <1>4, <2>1, <2>3 DEF TextOnly
<1>6. Payload(raw) = DecodeTextPayload(Block(v))
  <2>1. \A b : Len(<<b>>) = 1 /\ <<b>>[1] = b
    OBVIOUS
  <2>2. Len(Content(raw).arr) = 1 /\ Content(raw).arr[1] = Block(v)
    BY <1>1, <1>4, <2>1
  <2>3. QED
    BY <1>3, <2>2 DEF Payload
<1>7. DecodeTextPayload(Block(v)) = v
  <2>1. Get(Block(v).obj, "text", Absent) = Quoted(v)
    BY <1>1 DEF Get, Has
  <2>2. Is(Quoted(v), "text") /\ Quoted(v).text = v
    BY DEF Quoted, Is
  <2>3. QED
    BY <2>1, <2>2 DEF DecodeTextPayload
<1>8. Payload(raw) = v /\ Fits(raw, output)
  BY <1>6, <1>7 DEF Fits
<1>9. MapResult(raw, output) = Deliver(Payload(raw), Source(raw))
  <2> DEFINE mappable == TextOnly(raw) /\ Is(Payload(raw), "obj")
             enforceable == output # Absent => Supported(output)
  <2>1. mappable /\ enforceable
    BY <1>5, <1>8
  <2>2. MapResult(raw, output) =
          CASE IsToolError(raw) -> Refuse("provider_error")
            [] ~IsToolError(raw) /\ ~mappable -> Refuse("protocol_error")
            [] ~IsToolError(raw) /\ mappable /\ ~enforceable -> Refuse("not_ready")
            [] OTHER -> IF Fits(raw, output)
                          THEN Deliver(Payload(raw), Source(raw))
                          ELSE Refuse("protocol_error")
    BY DEF MapResult
  <2> HIDE DEF mappable, enforceable
  <2>3. QED
    BY <1>2, <1>8, <2>1, <2>2
<1>10. QED
  BY <1>3, <1>8, <1>9 DEF raw

\* What was accepted as structured content is accepted, with the same data, when
\* it comes as text in an answer within the bounds of a response (_map_result and
\* _decode_text_payload): the text is not held to a narrower depth.
THEOREM DuplicateIsTheSame ==
  ASSUME TextsAreValues
  PROVE  Spec => []DuplicateMeansTheSame
<1>1. CallInv => DuplicateMeansTheSame
  <2>1. SUFFICES ASSUME CallInv, result # Absent, Has(result, "data"),
                        result.source = "structured_content",
                        Bounded(TextOf(result.data), Response),
                        ~(Size(TextOf(result.data)) > Response.bytes)
                 PROVE  Outcome(TextOf(result.data), entry.output) =
                          Deliver(result.data, "text_content")
    BY DEF DuplicateMeansTheSame
  <2>2. PICK raw \in Results : result = Outcome(raw, entry.output)
    BY <2>1, ResultsArePresent DEF CallInv, Answered
  <2>3. /\ Bounded(raw, Response) /\ Is(Payload(raw), "obj")
        /\ entry.output # Absent => Supported(entry.output)
        /\ Fits(raw, entry.output)
        /\ result = Deliver(Payload(raw), Source(raw))
    BY <2>1, <2>2, Delivery
  <2> DEFINE v == Payload(raw)
  <2>4. result.data = v /\ Source(raw) = "structured_content"
    BY <2>1, <2>3 DEF Deliver
  <2>5. Present(Structured(raw))
    BY <2>4 DEF Source
  <2>6. /\ v = Structured(raw) /\ v \in Values
        /\ Bounded(v, Response) /\ ~Deeper(v, Response.depth - 1)
    BY <2>3, <2>5, StructuredPart
  <2>7. TextOf(v) \in Values
    BY <2>3, <2>6 DEF TextsAreValues
  <2>8. ~ExceedsTextDepth(v, Response.depth)
    <3>1. ASSUME NEW n \in Nodes[v] PROVE ~(Len(n.path) + 1 > Response.depth)
      <4>1. Len(n.path) \in Nat /\ ~(Len(n.path) > Response.depth - 1)
        BY <2>6, <3>1, NodesUnfold, LenProperties DEF Deeper
      <4>2. Response.depth \in Nat
        BY PayloadAssumption DEF BudgetAssumption
      <4>3. QED
        BY <4>1, <4>2
    <3>2. QED
      BY <3>1 DEF ExceedsTextDepth
  <2>9. entry.output # Absent => Supported(entry.output) /\ Check(v, entry.output)
    BY <2>3 DEF Fits
  <2> HIDE DEF v
  <2>10. MapResult(TextOf(v), entry.output) = Deliver(v, "text_content")
    BY <2>3, <2>6, <2>7, <2>8, <2>9, TextOfMaps DEF v
  <2>11. Bounded(TextOf(v), Response) /\ ~(Size(TextOf(v)) > Response.bytes)
    BY <2>1, <2>4
  <2>12. Outcome(TextOf(v), entry.output) = MapResult(TextOf(v), entry.output)
    BY <2>11 DEF Outcome
  <2>13. QED
    BY <2>4, <2>10, <2>12
<1>2. QED
  BY <1>1, CallInvariant, PTL
=============================================================================
