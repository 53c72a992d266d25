------------------------ MODULE SurfaceDiscoveryProofs ------------------------
(* Theorems about SurfaceDiscovery, for any manifest, any tools a provider may *)
(* offer, any cursors and any budgets.                                         *)
EXTENDS SurfaceDiscovery, FiniteSetTheorems, SequenceTheorems, TLAPS

-----------------------------------------------------------------------------
(* FlattenSeq, by smallest counterexample *)

Less == {pair \in Nat \X Nat : pair[1] < pair[2]}

\* A set of natural numbers that is not empty has a smallest element.
LEMMA Smallest ==
  ASSUME NEW T \in SUBSET Nat, T # {}
  PROVE  \E n \in T : \A m \in T : n <= m
<1>1. IsWellFoundedOn(Less, Nat)
  BY NatLessThanWellFounded, Zenon DEF OpToRel, Less
<1>2. \E n \in T : \A m \in T : ~(<<m, n>> \in Less)
  BY <1>1, WFMin
<1>3. PICK n \in T : \A m \in T : ~(<<m, n>> \in Less)
  BY <1>2
<1>4. ASSUME NEW m \in T PROVE n <= m
  <2>1. ~(m < n)
    BY <1>3 DEF Less
  <2>2. QED
    BY <2>1
<1>5. QED
  BY <1>4

\* The first n of some sequences, flattened: what FlattenSeq computes step by step.
Flattens(f, s, n) ==
  f = [i \in 1..n |-> IF i = 1 THEN s[i] ELSE f[i - 1] \o s[i]]

LEMMA FlattensValue ==
  ASSUME NEW f, NEW s, NEW n \in Nat, Flattens(f, s, n), NEW i \in 1..n
  PROVE  f[i] = IF i = 1 THEN s[i] ELSE f[i - 1] \o s[i]
BY DEF Flattens

LEMMA FlattensExists ==
  ASSUME NEW s, NEW n \in Nat
  PROVE  \E f : Flattens(f, s, n)
<1> DEFINE T == {m \in Nat : ~\E f : Flattens(f, s, m)}
<1>1. SUFFICES ASSUME T # {} PROVE FALSE
  OBVIOUS
<1>2. PICK m \in T : \A k \in T : m <= k
  BY <1>1, Smallest
<1>3. CASE m = 0
  <2>1. Flattens([i \in 1..0 |-> <<>>], s, 0)
    BY DEF Flattens
  <2>2. QED
    BY <1>3, <2>1
<1>4. CASE m # 0
  <2>1. m - 1 \in Nat /\ m \in Nat /\ m - 1 \notin T
    BY <1>2, <1>4
  <2>2. PICK g : Flattens(g, s, m - 1)
    BY <2>1
  <2> DEFINE last == IF m = 1 THEN s[m] ELSE g[m - 1] \o s[m]
             f == [i \in 1..m |-> IF i = m THEN last ELSE g[i]]
  <2>3. ASSUME NEW i \in 1..m
        PROVE  f[i] = IF i = 1 THEN s[i] ELSE f[i - 1] \o s[i]
    <3>1. CASE i = m
      <4>1. f[i] = last
        BY <3>1
      <4>2. CASE m = 1
        BY <3>1, <4>1, <4>2
      <4>3. CASE m # 1
        <5>1. m - 1 \in 1..m /\ m - 1 # m
          BY <1>4, <2>1, <4>3
        <5>2. f[m - 1] = g[m - 1]
          BY <5>1
        <5>3. QED
          BY <3>1, <4>1, <4>3, <5>2
      <4>4. QED
        BY <4>2, <4>3
    <3>2. CASE i # m
      <4>1. i \in 1..(m - 1) /\ f[i] = g[i]
        BY <2>1, <3>2
      <4>2. g[i] = IF i = 1 THEN s[i] ELSE g[i - 1] \o s[i]
        BY <2>1, <2>2, <4>1, FlattensValue
      <4>3. i # 1 => f[i - 1] = g[i - 1]
        <5>1. i # 1 => i - 1 \in 1..m /\ i - 1 # m
          BY <2>1, <4>1
        <5>2. QED
          BY <5>1
      <4>4. QED
        BY <4>1, <4>2, <4>3
    <3>3. QED
      BY <3>1, <3>2
  <2>4. Flattens(f, s, m)
    <3>1. f = [i \in 1..m |-> f[i]]
      OBVIOUS
    <3> HIDE DEF f
    <3>2. QED
      BY <2>3, <3>1 DEF Flattens
  <2>5. QED
    BY <2>4
<1>5. QED
  BY <1>3, <1>4

\* Two sequences that begin alike are flattened alike as far as that.
LEMMA FlattensAlike ==
  ASSUME NEW f, NEW s, NEW n \in Nat, Flattens(f, s, n),
         NEW g, NEW t, NEW m \in Nat, Flattens(g, t, m),
         n <= m, \A i \in 1..n : s[i] = t[i], NEW i \in 1..n
  PROVE  f[i] = g[i]
<1> DEFINE T == {k \in 1..n : f[k] # g[k]}
<1>1. SUFFICES ASSUME T # {} PROVE FALSE
  OBVIOUS
<1>2. PICK k \in T : \A l \in T : k <= l
  <2>1. T \in SUBSET Nat
    OBVIOUS
  <2>2. QED
    BY <1>1, <2>1, Smallest
<1>3. k \in 1..n /\ k \in 1..m /\ k \in Nat
  OBVIOUS
<1>4. /\ f[k] = IF k = 1 THEN s[k] ELSE f[k - 1] \o s[k]
      /\ g[k] = IF k = 1 THEN t[k] ELSE g[k - 1] \o t[k]
  BY <1>3, FlattensValue
<1>5. k # 1 => f[k - 1] = g[k - 1]
  <2>1. SUFFICES ASSUME k # 1 PROVE f[k - 1] = g[k - 1]
    OBVIOUS
  <2>2. k - 1 \in 1..n /\ k - 1 < k /\ k - 1 \in Nat
    BY <1>3, <2>1
  <2>3. k - 1 \notin T
    BY <1>2, <1>3, <2>2
  <2>4. QED
    BY <2>2, <2>3
<1>6. QED
  BY <1>3, <1>4, <1>5

LEMMA FlattenFacts ==
  ASSUME NEW S, NEW s \in Seq(S), s # <<>>
  PROVE  \E f : Flattens(f, s, Len(s)) /\ FlattenSeq(s) = f[Len(s)]
<1>1. Len(s) \in Nat /\ Len(s) # 0
  BY EmptySeq
<1> DEFINE F == CHOOSE f : Flattens(f, s, Len(s))
<1>2. Flattens(F, s, Len(s))
  <2>1. \E f : Flattens(f, s, Len(s))
    BY <1>1, FlattensExists
  <2>2. QED
    BY <2>1
<1>3. FlattenSeq(s) = F[Len(s)]
  BY <1>1, Zenon DEF FlattenSeq, Flattens
<1>4. QED
  BY <1>2, <1>3

\* One more sequence is put at the end.
LEMMA FlattenAppend ==
  ASSUME NEW S, NEW s \in Seq(Seq(S)), NEW t \in Seq(S), FlattenSeq(s) \in Seq(S)
  PROVE  FlattenSeq(Append(s, t)) = FlattenSeq(s) \o t
<1> DEFINE a == Append(s, t)
           n == Len(s)
<1>1. /\ a \in Seq(Seq(S)) /\ a # <<>> /\ Len(a) = n + 1 /\ n \in Nat /\ a[n + 1] = t
      /\ \A i \in 1..n : a[i] = s[i]
  BY AppendProperties, LenProperties
<1>2. PICK g : Flattens(g, a, n + 1) /\ FlattenSeq(a) = g[n + 1]
  BY <1>1, FlattenFacts
<1>3. g[n + 1] = IF n + 1 = 1 THEN t ELSE g[n] \o t
  <2> HIDE DEF a, n
  <2>1. n + 1 \in 1..(n + 1) /\ n + 1 \in Nat /\ (n + 1) - 1 = n
    BY <1>1
  <2>2. g[n + 1] = IF n + 1 = 1 THEN a[n + 1] ELSE g[(n + 1) - 1] \o a[n + 1]
    BY <1>2, <2>1, FlattensValue
  <2>3. QED
    BY <1>1, <2>1, <2>2
<1>4. CASE n = 0
  <2>1. s = <<>>
    BY <1>4, EmptySeq
  <2>2. FlattenSeq(s) = <<>>
    BY <1>4, <2>1 DEF FlattenSeq
  <2>3. <<>> \o t = t
    BY ConcatEmptySeq
  <2>4. QED
    BY <1>2, <1>3, <1>4, <2>2, <2>3
<1>5. CASE n # 0
  <2>1. s # <<>>
    BY <1>5, EmptySeq
  <2>2. PICK f : Flattens(f, s, n) /\ FlattenSeq(s) = f[n]
    BY <2>1, FlattenFacts
  <2>3. n \in 1..n /\ n <= n + 1 /\ n + 1 \in Nat
    BY <1>1, <1>5
  <2>4. g[n] = f[n]
    <3> HIDE DEF a, n
    <3> QED BY <1>1, <1>2, <2>2, <2>3, FlattensAlike
  <2>5. QED
    BY <1>1, <1>2, <1>3, <1>5, <2>2, <2>4
<1>6. QED
  BY <1>4, <1>5

-----------------------------------------------------------------------------
(* The budgets *)

Raw == Offered \cup {Malformed}
Seen == {ObservedTool(t) : t \in Offered}
Answers == [asked : Cursors \cup {NoCursor}, tools : Seq(Raw),
            next : Cursors \cup {NoCursor, Malformed}]

Kinds == {"incomplete_discovery", "duplicate_provider_tool", "unknown_provider_tool",
          "missing_provider_tool", "schema_digest_mismatch", "metadata_digest_mismatch",
          "provider_surface_digest_mismatch"}

LEMMA DifferenceKinds == DOMAIN Differences = Kinds /\ (DOMAIN Differences)' = Kinds
BY DEF Differences, Kinds

LEMMA PageFacts ==
  ASSUME NEW p \in Page
  PROVE  p.tools \in Seq(Raw) /\ p.next \in Cursors \cup {NoCursor, Malformed}
<1>1. p.tools \in SeqOf(Raw, MaxPageTools) /\ p.next \in Cursors \cup {NoCursor, Malformed}
  BY DEF Page, BoundedSeq, Raw
<1>2. PICK m \in 0..MaxPageTools : p.tools \in [1..m -> Raw]
  BY <1>1 DEF SeqOf
<1>3. m \in Nat
  BY DiscoveryAssumption
<1>4. QED
  BY <1>1, <1>2, <1>3, SeqDef

LEMMA SmallerOfTwo ==
  ASSUME NEW a \in Int, NEW b \in Int
  PROVE  Min({a, b}) = IF a <= b THEN a ELSE b
BY DEF Min

\* The tools a page adds: as many as there is room for.
LEMMA TakenFacts ==
  ASSUME NEW s \in Seq(Raw), NEW room \in Nat,
         NEW taken, taken = SubSeq(s, 1, Min({Len(s), room}))
  PROVE  /\ taken \in Seq(Raw) /\ Len(taken) <= room
         /\ Malformed \notin Range(taken) => taken \in Seq(Offered)
         /\ ~(Len(s) > room) => taken = s
<1>1. Len(s) \in Nat /\ \A i \in 1..Len(s) : s[i] \in Raw
  BY LenProperties, ElementOfSeq
<1> DEFINE m == Min({Len(s), room})
<1>2. m = IF Len(s) <= room THEN Len(s) ELSE room
  BY <1>1, SmallerOfTwo
<1>3. /\ m \in Nat /\ m <= Len(s) /\ m <= room
      /\ ~(Len(s) > room) => m = Len(s)
  BY <1>1, <1>2
<1> HIDE DEF m
<1>4. taken \in Seq(Raw) /\ Len(taken) = m /\ \A i \in 1..m : taken[i] = s[i]
  <2>1. \A i \in 1..m : s[i] \in Raw
    BY <1>1, <1>3
  <2>2. /\ SubSeq(s, 1, m) \in Seq(Raw) /\ Len(SubSeq(s, 1, m)) = IF 1 <= m THEN m - 1 + 1 ELSE 0
        /\ \A i \in 1..(m - 1 + 1) : SubSeq(s, 1, m)[i] = s[1 + i - 1]
    BY <1>3, <2>1, SubSeqProperties
  <2>3. taken = SubSeq(s, 1, m)
    BY DEF m
  <2>4. m - 1 + 1 = m /\ (1 <= m \/ m = 0)
    BY <1>3
  <2>5. Len(taken) = m
    BY <1>3, <2>2, <2>3, <2>4
  <2>6. \A i \in 1..m : taken[i] = s[i]
    <3>1. SUFFICES ASSUME NEW i \in 1..m PROVE taken[i] = s[i]
      OBVIOUS
    <3>2. i \in 1..(m - 1 + 1) /\ 1 + i - 1 = i
      BY <1>3
    <3>3. QED
      BY <2>2, <2>3, <3>2
  <2>7. QED
    BY <2>2, <2>3, <2>5, <2>6
<1>5. ASSUME Malformed \notin Range(taken) PROVE taken \in Seq(Offered)
  <2>1. taken \in Seq(Range(taken)) /\ Range(taken) \subseteq Raw
    BY <1>4, SeqOfRange, RangeOfSeq
  <2>2. Range(taken) \subseteq Offered
    BY <1>5, <2>1 DEF Raw
  <2>3. QED
    BY <2>1, <2>2, SeqMonotonic
<1>6. ASSUME ~(Len(s) > room) PROVE taken = s
  BY <1>3, <1>4, <1>6, SeqEqual
<1>7. QED
  BY <1>3, <1>4, <1>5, <1>6

\* What is kept of the tools of a page, one for one.
LEMMA ObservedFacts ==
  ASSUME NEW s \in Seq(Raw)
  PROVE  /\ ObservedTools(s) \in Seq({ObservedTool(t) : t \in Raw})
         /\ Len(ObservedTools(s)) = Len(s) /\ Len(s) \in Nat
         /\ DOMAIN s = 1..Len(s) /\ DOMAIN ObservedTools(s) = 1..Len(s)
         /\ \A i \in 1..Len(s) : s[i] \in Raw /\ ObservedTools(s)[i] = ObservedTool(s[i])
         /\ s \in Seq(Offered) => ObservedTools(s) \in Seq(Seen)
<1>1. Len(s) \in Nat /\ DOMAIN s = 1..Len(s) /\ \A i \in 1..Len(s) : s[i] \in Raw
  BY LenProperties, ElementOfSeq
<1>2. ObservedTools(s) = [i \in 1..Len(s) |-> ObservedTool(s[i])]
  BY <1>1 DEF ObservedTools
<1>3. ObservedTools(s) \in [1..Len(s) -> {ObservedTool(t) : t \in Raw}]
  BY <1>1, <1>2
<1>4. ObservedTools(s) \in Seq({ObservedTool(t) : t \in Raw})
  BY <1>1, <1>3, SeqDef
<1>5. Len(ObservedTools(s)) = Len(s)
  BY <1>1, <1>2, <1>4, LenProperties
<1>6. ASSUME s \in Seq(Offered) PROVE ObservedTools(s) \in Seq(Seen)
  <2>1. \A i \in 1..Len(s) : s[i] \in Offered
    BY <1>6, ElementOfSeq
  <2>2. ObservedTools(s) \in [1..Len(s) -> Seen]
    BY <1>2, <2>1 DEF Seen
  <2>3. QED
    BY <1>1, <2>2, SeqDef
<1>7. QED
  BY <1>1, <1>2, <1>4, <1>5, <1>6

\* Tools that follow others are kept after them.
LEMMA ObservedConcat ==
  ASSUME NEW s \in Seq(Raw), NEW t \in Seq(Raw)
  PROVE  ObservedTools(s \o t) = ObservedTools(s) \o ObservedTools(t)
<1> DEFINE m == Len(s)
           n == Len(t)
           A == {ObservedTool(x) : x \in Raw}
           u == ObservedTools(s) \o ObservedTools(t)
<1>1. /\ s \o t \in Seq(Raw) /\ Len(s \o t) = m + n /\ m \in Nat /\ n \in Nat
      /\ \A i \in 1..(m + n) : (s \o t)[i] = IF i <= m THEN s[i] ELSE t[i - m]
  BY ConcatProperties, LenProperties
<1>2. /\ ObservedTools(s) \in Seq(A) /\ Len(ObservedTools(s)) = m
      /\ ObservedTools(t) \in Seq(A) /\ Len(ObservedTools(t)) = n
      /\ \A i \in 1..m : ObservedTools(s)[i] = ObservedTool(s[i])
      /\ \A i \in 1..n : ObservedTools(t)[i] = ObservedTool(t[i])
  BY ObservedFacts
<1>3. /\ ObservedTools(s \o t) \in Seq(A) /\ Len(ObservedTools(s \o t)) = m + n
      /\ \A i \in 1..(m + n) : ObservedTools(s \o t)[i] = ObservedTool((s \o t)[i])
  BY <1>1, ObservedFacts
<1> HIDE DEF m, n, A
<1>4. /\ u \in Seq(A) /\ Len(u) = m + n
      /\ \A i \in 1..(m + n) :
           u[i] = IF i <= m THEN ObservedTools(s)[i] ELSE ObservedTools(t)[i - m]
  BY <1>2, ConcatProperties
<1> HIDE DEF u
<1>5. \A i \in 1..(m + n) : u[i] = ObservedTools(s \o t)[i]
  <2>1. SUFFICES ASSUME NEW i \in 1..(m + n) PROVE u[i] = ObservedTools(s \o t)[i]
    OBVIOUS
  <2>2. CASE i <= m
    <3>1. i \in 1..m
      BY <1>1, <2>2
    <3>2. QED
      BY <1>1, <1>2, <1>3, <1>4, <2>2, <3>1
  <2>3. CASE ~(i <= m)
    <3>1. i - m \in 1..n
      BY <1>1, <2>3
    <3>2. QED
      BY <1>1, <1>2, <1>3, <1>4, <2>3, <3>1
  <2>4. QED
    BY <2>2, <2>3
<1>6. u = ObservedTools(s \o t)
  BY <1>3, <1>4, <1>5, SeqEqual
<1>7. QED
  BY <1>6 DEF u

\* How a page that is read ends the discovery or lets it go on.
Fails(p)  == pc' = "failed" /\ UNCHANGED <<cursor, seen, complete>>

Overruns(p) ==
  /\ Len(tools) + Len(p.tools) > MaxTools
  /\ pc' = "assess" /\ complete' = FALSE /\ bytes' <= MaxBytes /\ UNCHANGED <<cursor, seen>>

Ends(p) ==
  /\ p.next = NoCursor /\ p.tools \in Seq(Offered) /\ tools' = tools \o ObservedTools(p.tools)
  /\ pc' = "assess" /\ bytes' <= MaxBytes /\ UNCHANGED <<cursor, seen, complete>>

Continues(p) ==
  /\ p.next \in Cursors \ seen /\ p.tools \in Seq(Offered)
  /\ tools' = tools \o ObservedTools(p.tools)
  /\ cursor' = p.next /\ seen' = seen \cup {p.next}
  /\ pc' = pc /\ bytes' <= MaxBytes /\ UNCHANGED complete

LEMMA ReadFacts ==
  ASSUME TypeOK, Len(tools) <= MaxTools, NEW p \in Page, ReadPage(p)
  PROVE  /\ tools' \in Seq(Seen) /\ Len(tools') <= MaxTools
         /\ Fails(p) \/ Overruns(p) \/ Ends(p) \/ Continues(p)
<1>1. /\ tools \in Seq(Seen) /\ Len(tools) \in Nat /\ MaxTools \in Nat
      /\ p.tools \in Seq(Raw) /\ p.next \in Cursors \cup {NoCursor, Malformed} /\ Len(p.tools) \in Nat
  BY DiscoveryAssumption, PageFacts, LenProperties DEF TypeOK, Seen
<1>2. /\ bytes \in Nat /\ MaxBytes \in Nat /\ PageBytes(p) \in Nat /\ bytes' = bytes + PageBytes(p)
  BY <1>1, DiscoveryAssumption DEF TypeOK, PageBytes, ReadPage
<1>3. CASE bytes' > MaxBytes
  <2>1. pc' = "failed" /\ UNCHANGED <<cursor, seen, tools, complete>>
    BY <1>3 DEF ReadPage
  <2>2. QED
    BY <1>1, <2>1 DEF Fails
<1>4. CASE ~(bytes' > MaxBytes)
  <2>1. TakesTools(p) /\ bytes' <= MaxBytes
    BY <1>2, <1>4 DEF ReadPage
  <2>2. PICK room \in Nat : room = MaxTools - Len(tools)
    BY <1>1
  <2>3. PICK taken : taken = SubSeq(p.tools, 1, Min({Len(p.tools), room}))
    OBVIOUS
  <2>4. /\ taken \in Seq(Raw) /\ Len(taken) <= room /\ Len(taken) \in Nat
        /\ Malformed \notin Range(taken) => taken \in Seq(Offered)
        /\ ~(Len(p.tools) > room) => taken = p.tools
    BY <1>1, <2>3, TakenFacts, LenProperties
  <2>5. CASE Malformed \in Range(taken)
    <3>1. pc' = "failed" /\ UNCHANGED <<cursor, seen, tools, complete>>
      BY <2>1, <2>2, <2>3, <2>5 DEF TakesTools
    <3>2. QED
      BY <1>1, <3>1 DEF Fails
  <2>6. CASE Malformed \notin Range(taken)
    <3> DEFINE kept == ObservedTools(taken)
    <3>0. kept \in Seq(Seen) /\ Len(kept) = Len(taken)
      BY <2>4, <2>6, ObservedFacts
    <3> HIDE DEF kept
    <3>1. /\ tools \o kept \in Seq(Seen)
          /\ Len(tools \o kept) = Len(tools) + Len(taken)
      <4>1. /\ tools \o kept \in Seq(Seen)
            /\ Len(tools \o kept) = Len(tools) + Len(kept)
        BY <1>1, <3>0, ConcatProperties, Zenon
      <4>2. QED
        BY <3>0, <4>1
    <3>2. Len(tools \o kept) <= MaxTools
      BY <1>1, <2>2, <2>4, <3>1
    <3>3. CASE Len(p.tools) > room
      <4>1. /\ tools' = tools \o kept /\ complete' = FALSE /\ pc' = "assess"
            /\ UNCHANGED <<cursor, seen>>
        BY <2>1, <2>2, <2>3, <2>6, <3>3 DEF TakesTools, kept
      <4>2. Len(tools) + Len(p.tools) > MaxTools
        BY <1>1, <2>2, <3>3
      <4>3. QED
        BY <2>1, <3>1, <3>2, <4>1, <4>2 DEF Overruns
    <3>4. CASE ~(Len(p.tools) > room)
      <4>1. /\ tools' = tools \o kept /\ UNCHANGED complete /\ FollowsCursor(p)
            /\ kept = ObservedTools(p.tools) /\ p.tools \in Seq(Offered)
        BY <2>1, <2>2, <2>3, <2>4, <2>6, <3>4 DEF TakesTools, kept
      <4>2. Fails(p) \/ Ends(p) \/ Continues(p)
        BY <1>1, <2>1, <4>1 DEF FollowsCursor, Fails, Ends, Continues
      <4>3. QED
        BY <3>1, <3>2, <4>1, <4>2
    <3>5. QED
      BY <3>3, <3>4
  <2>7. QED
    BY <2>5, <2>6
<1>5. QED
  BY <1>3, <1>4

Budgets == WithinBudgets /\ served \in Seq(Answers) /\ (pc = "listing" => Len(served) = pages)

LEMMA BudgetsKept ==
  ASSUME Budgets, [Next]_vars
  PROVE  Budgets'
<1> USE DEF Budgets, WithinBudgets
<1>1. /\ pages \in Nat /\ bytes \in Nat /\ Len(served) \in Nat /\ Len(tools) \in Nat
      /\ MaxPages \in Nat /\ MaxBytes \in Nat
  BY DiscoveryAssumption, LenProperties DEF TypeOK
<1>2. ASSUME NEW p \in Page, ReadPage(p) PROVE Budgets'
  <2>1. /\ pc = "listing" /\ pages < MaxPages /\ pages' = pages + 1
        /\ bytes' = bytes + PageBytes(p) /\ findings' = findings
        /\ served' = Append(served, [asked |-> cursor, tools |-> p.tools, next |-> p.next])
    BY <1>2 DEF ReadPage, PagesLeft
  <2>2. bytes' \in Nat
    <3>1. Len(p.tools) \in Nat
      BY PageFacts, LenProperties
    <3>2. QED
      BY <1>1, <2>1, <3>1 DEF PageBytes
  <2>3. [asked |-> cursor, tools |-> p.tools, next |-> p.next] \in Answers
    BY PageFacts DEF Answers, TypeOK
  <2>4. served' \in Seq(Answers) /\ Len(served') = Len(served) + 1
    BY <2>1, <2>3, AppendProperties
  <2>5. tools' \in Seq(Seen) /\ Len(tools') <= MaxTools
    BY <1>2, ReadFacts
  <2>6. /\ pc' \in {"listing", "assess", "failed"} /\ complete' \in BOOLEAN
        /\ cursor' \in Cursors \cup {NoCursor} /\ seen' \subseteq Cursors
        /\ pc' # "failed" => bytes' <= MaxBytes
    <3>1. Fails(p) \/ Overruns(p) \/ Ends(p) \/ Continues(p)
      BY <1>2, ReadFacts
    <3>2. QED
      BY <2>1, <3>1 DEF Fails, Overruns, Ends, Continues, TypeOK
  <2>7. TypeOK'
    BY <1>1, <2>1, <2>2, <2>5, <2>6, DifferenceKinds DEF TypeOK, Seen
  <2>8. QED
    BY <1>1, <2>1, <2>4, <2>5, <2>6, <2>7
<1>3. CASE RequestFails
  <2>1. /\ pc = "listing" /\ pages < MaxPages /\ pages' = pages + 1 /\ pc' = "failed"
        /\ UNCHANGED <<cursor, seen, tools, bytes, complete, findings, served>>
    BY <1>3 DEF RequestFails, PagesLeft
  <2>2. TypeOK'
    BY <1>1, <2>1, DifferenceKinds DEF TypeOK
  <2>3. QED
    BY <1>1, <2>1, <2>2
<1>4. CASE PageBudgetSpent \/ Assess
  <2>1. /\ pc' \in {"assess", "ready", "not_ready"} /\ pc \in {"listing", "assess"}
        /\ complete' \in BOOLEAN /\ findings' \subseteq Kinds
        /\ UNCHANGED <<cursor, seen, tools, pages, bytes, served>>
    BY <1>4, DifferenceKinds DEF PageBudgetSpent, Assess, Reasons, TypeOK
  <2>2. TypeOK'
    BY <1>1, <2>1, DifferenceKinds DEF TypeOK
  <2>3. QED
    BY <1>1, <2>1, <2>2
<1>5. CASE UNCHANGED vars
  BY <1>5, DifferenceKinds DEF vars, TypeOK
<1>6. QED
  BY <1>2, <1>3, <1>4, <1>5 DEF Next

LEMMA BudgetsInvariant == Spec => []Budgets
<1>1. Init => Budgets
  <2> SUFFICES ASSUME Init PROVE Budgets
    OBVIOUS
  <2>1. tools = <<>> /\ served = <<>>
    BY DEF Init
  <2>2. tools \in Seq(Seen) /\ served \in Seq(Answers) /\ Len(tools) = 0 /\ Len(served) = 0
    BY <2>1, EmptySeq
  <2>3. TypeOK
    BY <2>2 DEF Init, TypeOK, Seen
  <2>4. QED
    BY <2>2, <2>3, DiscoveryAssumption DEF Init, Budgets, WithinBudgets
<1>2. Budgets /\ [Next]_vars => Budgets'
  BY BudgetsKept
<1>3. QED
  BY <1>1, <1>2, PTL DEF Spec

\* Whatever pages the provider answers with, no budget is overrun: not the pages that
\* are asked for, not the tools that are kept, not the bytes of what is assessed.
THEOREM DiscoveryStaysWithinBudgets == Spec => []WithinBudgets
<1>1. Budgets => WithinBudgets
  BY DEF Budgets
<1>2. QED
  BY <1>1, BudgetsInvariant, PTL

-----------------------------------------------------------------------------
(* What a complete surface is *)

\* No page is asked for twice: the next cursor has not been used.
Trail ==
  /\ \A i, j \in 1..Len(served) : i # j => served[i].asked # served[j].asked
  /\ pc = "listing" =>
       /\ cursor \in {NoCursor} \cup seen
       /\ \A i \in 1..Len(served) : served[i].asked \in ({NoCursor} \cup seen) \ {cursor}

\* While pages are read, what was served has been taken and there is more to come.
SoFar ==
  pc = "listing" =>
    /\ complete /\ tools = ObservedTools(ServedTools) /\ ServedTools \in Seq(Offered)
    /\ served # <<>> => Last(served).next # NoCursor

\* After that it has been taken to its end, or it was too much.
InTheEnd ==
  pc \in {"assess", "ready", "not_ready"} =>
    /\ served # <<>>
    /\ IF complete
         THEN /\ tools = ObservedTools(ServedTools) /\ ServedTools \in Seq(Offered)
              /\ Last(served).next = NoCursor
         ELSE Last(served).next # NoCursor \/ Len(ServedTools) > MaxTools

Judged == pc \in {"ready", "not_ready"} => (pc = "ready" <=> Reasons = {})

Course == ServedTools \in Seq(Raw) /\ Trail /\ SoFar /\ InTheEnd /\ Judged

\* The pages served, and one more.
LEMMA ServedAppend ==
  ASSUME served \in Seq(Answers), ServedTools \in Seq(Raw), NEW r \in Answers,
         served' = Append(served, r)
  PROVE  /\ ServedTools' = ServedTools \o r.tools
         /\ ServedTools' \in Seq(Raw) /\ Len(ServedTools') = Len(ServedTools) + Len(r.tools)
         /\ Last(served)' = r /\ served' # <<>>
         /\ Len(served') = Len(served) + 1 /\ Len(served) \in Nat
         /\ served'[Len(served) + 1] = r /\ \A i \in 1..Len(served) : served'[i] = served[i]
<1> DEFINE n == Len(served)
           old == [i \in DOMAIN served |-> served[i].tools]
           new == [i \in DOMAIN served' |-> served'[i].tools]
<1>1. /\ n \in Nat /\ served' \in Seq(Answers) /\ Len(served') = n + 1 /\ served' # <<>>
      /\ DOMAIN served = 1..n /\ DOMAIN served' = 1..(n + 1)
      /\ served'[n + 1] = r /\ \A i \in 1..n : served'[i] = served[i]
  BY AppendProperties, LenProperties
<1>2. \A i \in 1..n : served[i].tools \in Seq(Raw)
  <2>1. SUFFICES ASSUME NEW i \in 1..n PROVE served[i].tools \in Seq(Raw)
    OBVIOUS
  <2>2. served[i] \in Answers
    BY ElementOfSeq
  <2>3. QED
    BY <2>2 DEF Answers
<1>3. old \in Seq(Seq(Raw)) /\ Len(old) = n /\ r.tools \in Seq(Raw)
  <2>1. old = [i \in 1..n |-> served[i].tools]
    BY <1>1
  <2>2. old \in [1..n -> Seq(Raw)]
    BY <1>2, <2>1
  <2>3. old \in Seq(Seq(Raw))
    BY <1>1, <2>2, SeqDef
  <2>4. Len(old) = n
    BY <1>1, <2>1, <2>3, LenProperties
  <2>5. QED
    BY <2>3, <2>4 DEF Answers
<1>4. new = Append(old, r.tools)
  <2>1. new = [i \in 1..(n + 1) |-> served'[i].tools]
    BY <1>1
  <2>2. new \in [1..(n + 1) -> Seq(Raw)]
    BY <1>1, <1>2, <1>3, <2>1
  <2>3. new \in Seq(Seq(Raw)) /\ n + 1 \in Nat
    BY <1>1, <2>2, SeqDef
  <2>4. Len(new) = n + 1
    BY <1>1, <2>1, <2>3, LenProperties
  <2>5. /\ Append(old, r.tools) \in Seq(Seq(Raw)) /\ Len(Append(old, r.tools)) = n + 1
        /\ \A i \in 1..n : Append(old, r.tools)[i] = old[i]
        /\ Append(old, r.tools)[n + 1] = r.tools
    BY <1>3, AppendProperties
  <2>6. \A i \in 1..(n + 1) : new[i] = Append(old, r.tools)[i]
    BY <1>1, <2>1, <2>5
  <2>7. QED
    BY <2>3, <2>4, <2>5, <2>6, SeqEqual
<1>5. FlattenSeq(new) = FlattenSeq(old) \o r.tools
  BY <1>3, <1>4, FlattenAppend DEF ServedTools
<1>6. ServedTools' = ServedTools \o r.tools
  BY <1>5 DEF ServedTools
<1>7. ServedTools' \in Seq(Raw) /\ Len(ServedTools') = Len(ServedTools) + Len(r.tools)
  BY <1>3, <1>6, ConcatProperties
<1>8. Last(served)' = r
  BY <1>1 DEF Last
<1>9. QED
  BY <1>1, <1>6, <1>7, <1>8

LEMMA TrailKept ==
  ASSUME Budgets, Course, NEW p \in Page, ReadPage(p)
  PROVE  Trail'
<1> USE DEF Budgets, WithinBudgets, Course
<1> DEFINE r == [asked |-> cursor, tools |-> p.tools, next |-> p.next]
<1>1. pc = "listing" /\ served' = Append(served, r)
  BY DEF ReadPage
<1>2. r \in Answers
  BY PageFacts DEF Answers, TypeOK
<1>3. /\ Len(served') = Len(served) + 1 /\ Len(served) \in Nat
      /\ served'[Len(served) + 1] = r /\ \A i \in 1..Len(served) : served'[i] = served[i]
  BY <1>1, <1>2, ServedAppend
<1>4. /\ \A i, j \in 1..Len(served) : i # j => served[i].asked # served[j].asked
      /\ \A i \in 1..Len(served) : served[i].asked \in ({NoCursor} \cup seen) \ {cursor}
      /\ cursor \in {NoCursor} \cup seen
  BY <1>1 DEF Trail
<1>5. /\ served'[Len(served) + 1].asked = cursor
      /\ \A i \in 1..Len(served) : served'[i].asked = served[i].asked
  BY <1>3
<1> HIDE DEF r
<1>6. \A i, j \in 1..Len(served') : i # j => served'[i].asked # served'[j].asked
  <2>1. SUFFICES ASSUME NEW i \in 1..Len(served'), NEW j \in 1..Len(served'), i # j
                 PROVE  served'[i].asked # served'[j].asked
    OBVIOUS
  <2>2. /\ i \in 1..Len(served) \/ i = Len(served) + 1
        /\ j \in 1..Len(served) \/ j = Len(served) + 1
    BY <1>3
  <2>3. QED
    BY <1>4, <1>5, <2>1, <2>2
<1>7. ASSUME pc' = "listing"
      PROVE  /\ cursor' \in {NoCursor} \cup seen'
             /\ \A i \in 1..Len(served') : served'[i].asked \in ({NoCursor} \cup seen') \ {cursor'}
  <2>1. Continues(p)
    BY <1>7, ReadFacts DEF Fails, Overruns, Ends
  <2>2. cursor' \in Cursors \ seen /\ seen' = seen \cup {cursor'} /\ cursor' # NoCursor
    BY <2>1, DiscoveryAssumption DEF Continues
  <2>3. \A i \in 1..Len(served') : served'[i].asked \in {NoCursor} \cup seen
    <3>1. SUFFICES ASSUME NEW i \in 1..Len(served') PROVE served'[i].asked \in {NoCursor} \cup seen
      OBVIOUS
    <3>2. i \in 1..Len(served) \/ i = Len(served) + 1
      BY <1>3
    <3>3. QED
      BY <1>4, <1>5, <3>2
  <2>4. QED
    BY <2>2, <2>3
<1>8. QED
  BY <1>6, <1>7 DEF Trail

LEMMA ReadKeepsCourse ==
  ASSUME Budgets, Course, NEW p \in Page, ReadPage(p)
  PROVE  Course'
<1> USE DEF Budgets, WithinBudgets, Course
<1> DEFINE r == [asked |-> cursor, tools |-> p.tools, next |-> p.next]
<1>1. pc = "listing" /\ served' = Append(served, r)
  BY DEF ReadPage
<1>2. r \in Answers
  BY PageFacts DEF Answers, TypeOK
<1>3. /\ ServedTools' = ServedTools \o p.tools
      /\ ServedTools' \in Seq(Raw) /\ Len(ServedTools') = Len(ServedTools) + Len(p.tools)
      /\ Last(served)'.next = p.next /\ served' # <<>>
  <2>1. r.tools = p.tools /\ r.next = p.next
    OBVIOUS
  <2> HIDE DEF r
  <2>2. /\ ServedTools' = ServedTools \o r.tools
        /\ ServedTools' \in Seq(Raw) /\ Len(ServedTools') = Len(ServedTools) + Len(r.tools)
        /\ Last(served)' = r /\ served' # <<>>
    BY <1>1, <1>2, ServedAppend
  <2>3. QED
    BY <2>1, <2>2
<1>4. /\ complete /\ tools = ObservedTools(ServedTools) /\ ServedTools \in Seq(Offered)
      /\ ObservedTools(ServedTools') = tools \o ObservedTools(p.tools)
  BY <1>1, <1>3, PageFacts, ObservedConcat DEF SoFar
<1>5. Fails(p) \/ Overruns(p) \/ Ends(p) \/ Continues(p)
  BY ReadFacts
<1> HIDE DEF r
<1>10. p.tools \in Seq(Offered) => ServedTools' \in Seq(Offered)
  BY <1>3, <1>4, ConcatProperties
<1>6. SoFar'
  <2>1. SUFFICES ASSUME pc' = "listing" PROVE  /\ complete' /\ tools' = ObservedTools(ServedTools') /\ ServedTools' \in Seq(Offered)
                        /\ Last(served)'.next # NoCursor
    BY DEF SoFar
  <2>2. Continues(p)
    BY <1>5, <2>1 DEF Fails, Overruns, Ends
  <2>3. QED
    BY <1>3, <1>4, <1>10, <2>2, DiscoveryAssumption DEF Continues
<1>7. InTheEnd'
  <2>1. CASE Fails(p) \/ Continues(p)
    BY <1>1, <2>1 DEF Fails, Continues, InTheEnd
  <2>2. CASE Overruns(p)
    <3>1. Len(tools) = Len(ServedTools)
      BY <1>4, ObservedFacts
    <3>2. complete' = FALSE /\ Len(ServedTools') > MaxTools
      BY <1>3, <2>2, <3>1 DEF Overruns
    <3>3. QED
      BY <1>3, <3>2 DEF InTheEnd
  <2>3. CASE Ends(p)
    <3>1. /\ complete' /\ tools' = ObservedTools(ServedTools') /\ ServedTools' \in Seq(Offered)
          /\ Last(served)'.next = NoCursor
      BY <1>3, <1>4, <1>10, <2>3 DEF Ends
    <3>2. QED
      BY <1>3, <3>1 DEF InTheEnd
  <2>4. QED
    BY <1>5, <2>1, <2>2, <2>3
<1>8. Judged'
  BY <1>1, <1>5 DEF Fails, Overruns, Ends, Continues, Judged
<1>9. QED
  BY <1>3, <1>6, <1>7, <1>8, TrailKept

LEMMA CourseKept ==
  ASSUME Budgets, Course, [Next]_vars
  PROVE  Course'
<1> USE DEF Budgets, WithinBudgets, Course
<1>1. CASE PageBudgetSpent
  <2>1. /\ pc = "listing" /\ pc' = "assess" /\ complete' = FALSE /\ ~(pages < MaxPages)
        /\ UNCHANGED <<cursor, seen, tools, served>>
    BY <1>1 DEF PageBudgetSpent, PagesLeft
  <2>2. Len(served) = pages /\ pages \in Nat /\ MaxPages \in Nat \ {0} /\ Len(served) > 0
    BY <2>1, DiscoveryAssumption DEF TypeOK
  <2>3. served # <<>>
    BY <2>2, EmptySeq
  <2>4. Last(served).next # NoCursor
    BY <2>1, <2>3 DEF SoFar
  <2>5. ServedTools' = ServedTools /\ Last(served)' = Last(served)
    BY <2>1 DEF ServedTools, Last
  <2>6. QED
    BY <2>1, <2>3, <2>4, <2>5 DEF Trail, SoFar, InTheEnd, Judged
<1>2. CASE RequestFails
  <2>1. pc' = "failed" /\ UNCHANGED <<cursor, seen, tools, complete, served>>
    BY <1>2 DEF RequestFails
  <2>2. ServedTools' = ServedTools
    BY <2>1 DEF ServedTools
  <2>3. QED
    BY <2>1, <2>2 DEF Trail, SoFar, InTheEnd, Judged
<1>3. CASE Assess
  <2>1. /\ pc = "assess" /\ findings' = Reasons /\ UNCHANGED <<cursor, seen, tools, complete, served>>
        /\ pc' = IF findings' = {} THEN "ready" ELSE "not_ready"
    BY <1>3 DEF Assess
  <2>2. ServedTools' = ServedTools /\ Last(served)' = Last(served)
    BY <2>1 DEF ServedTools, Last
  <2>3. Reasons' = Reasons
    BY <2>1 DEF Reasons, Differences, Count, Places, FirstOf
  <2>4. QED
    BY <2>1, <2>2, <2>3 DEF Trail, SoFar, InTheEnd, Judged
<1>4. CASE UNCHANGED vars
  <2>1. UNCHANGED <<pc, cursor, seen, tools, complete, served>>
    BY <1>4 DEF vars
  <2>2. ServedTools' = ServedTools /\ Last(served)' = Last(served)
    BY <2>1 DEF ServedTools, Last
  <2>3. Reasons' = Reasons
    BY <2>1 DEF Reasons, Differences, Count, Places, FirstOf
  <2>4. QED
    BY <2>1, <2>2, <2>3 DEF Trail, SoFar, InTheEnd, Judged
<1>5. QED
  BY <1>1, <1>2, <1>3, <1>4, ReadKeepsCourse DEF Next

LEMMA CourseInvariant == Spec => [](Budgets /\ Course)
<1>1. Init => Course
  <2> SUFFICES ASSUME Init PROVE Course
    OBVIOUS
  <2>1. served = <<>> /\ Len(served) = 0 /\ tools = <<>>
    BY EmptySeq DEF Init
  <2>2. ServedTools = <<>>
    <3>1. DOMAIN served = {}
      BY <2>1
    <3>2. [i \in DOMAIN served |-> served[i].tools] = <<>>
      BY <3>1
    <3>3. QED
      BY <3>2, EmptySeq DEF ServedTools, FlattenSeq
  <2>3. ServedTools \in Seq(Raw) /\ ServedTools \in Seq(Offered)
    BY <2>2, EmptySeq
  <2>4. ObservedTools(ServedTools) = <<>>
    BY <2>2, <2>3, ObservedFacts, EmptySeq
  <2>5. QED
    BY <2>1, <2>3, <2>4 DEF Init, Course, Trail, SoFar, InTheEnd, Judged
<1>2. Budgets /\ Course /\ [Next]_vars => Course'
  BY CourseKept
<1>3. QED
  BY <1>1, <1>2, BudgetsInvariant, PTL DEF Spec

\* A surface that discovery calls complete is everything the provider served, up to a
\* page without a next cursor, and no page of it was asked for twice.
THEOREM CompleteSurfacesAreWhole == Spec => []CompleteMeansWhole
<1>1. Budgets /\ Course => CompleteMeansWhole
  <2> SUFFICES ASSUME Budgets, Course, pc \in {"assess", "ready", "not_ready"}, complete
               PROVE  /\ served # <<>> /\ Last(served).next = NoCursor
                      /\ tools = ObservedTools(ServedTools)
                      /\ \A i, j \in DOMAIN served : i # j => served[i].asked # served[j].asked
    BY DEF CompleteMeansWhole
  <2>1. DOMAIN served = 1..Len(served)
    BY LenProperties DEF Budgets
  <2>2. QED
    BY <2>1 DEF Course, InTheEnd, Trail
<1>2. QED
  BY <1>1, CourseInvariant, PTL

-----------------------------------------------------------------------------
(* What ready means *)

\* The reviewed tools, each once, in some order.
Lists(t, n) ==
  /\ DOMAIN t = 1..n /\ Range(t) = Manifest
  /\ \A i, j \in 1..n : t[i] = t[j] => i = j

LEMMA ListsNames ==
  ASSUME NEW n \in Nat, NEW t, Lists(t, n), NEW i \in 1..n, NEW j \in 1..n, t[i].name = t[j].name
  PROVE  i = j
<1>1. t[i] \in Manifest /\ t[j] \in Manifest
  BY DEF Lists, Range
<1>2. t[i] = t[j]
  BY <1>1, DiscoveryAssumption
<1>3. QED
  BY <1>2 DEF Lists

\* In a sequence as long as the manifest with the reviewed tools in it each is once.
LEMMA AsManyIsEachOnce ==
  ASSUME NEW n \in Nat, NEW t, DOMAIN t = 1..n, t \in [1..n -> Range(t)],
         Range(t) = Manifest, n = Cardinality(Manifest)
  PROVE  Lists(t, n)
<1>1. t \in Surjection(1..n, Manifest)
  BY DEF Surjection, Range
<1>2. IsFiniteSet(1..n) /\ Cardinality(1..n) = n
  BY FS_Interval
<1>3. t \in Injection(1..n, Manifest)
  BY <1>1, <1>2, FS_Surjection
<1>4. QED
  BY <1>3 DEF Lists, Injection, IsInjective

\* And the other way round.
LEMMA EachOnceIsAsMany ==
  ASSUME NEW n \in Nat, NEW t, t \in [1..n -> Manifest], Lists(t, n)
  PROVE  n = Cardinality(Manifest)
<1>1. t \in Bijection(1..n, Manifest)
  BY DEF Lists, Range, Bijection, Injection, IsInjective, Surjection
<1>2. ExistsBijection(1..n, Manifest)
  BY <1>1 DEF ExistsBijection
<1>3. QED
  BY <1>2, FS_CountingElements

\* The manifest's own tools, as SetToSeq puts them.
LEMMA ManifestListed ==
  \E n \in Nat : Lists(SetToSeq(Manifest), n)
<1> DEFINE n == Cardinality(Manifest)
           M == SetToSeq(Manifest)
<1>1. IsFiniteSet(Manifest) /\ n \in Nat /\ ExistsBijection(1..n, Manifest)
  BY DiscoveryAssumption, FS_CardinalityType
<1>2. PICK f \in Bijection(1..n, Manifest) : TRUE
  BY <1>1 DEF ExistsBijection
<1>3. f \in [1..n -> Manifest] /\ IsInjective(f)
  BY <1>2 DEF Bijection, Injection
<1>4. M \in [1..n -> Manifest] /\ IsInjective(M)
  BY <1>3 DEF SetToSeq
<1> HIDE DEF n, M
<1>5. M \in Injection(1..n, Manifest)
  BY <1>4 DEF Injection, IsInjective
<1>6. IsFiniteSet(1..n) /\ Cardinality(1..n) = n
  BY <1>1, FS_Interval
<1>7. M \in Surjection(1..n, Manifest)
  BY <1>1, <1>5, <1>6, FS_Injection DEF n
<1>8. Lists(M, n)
  BY <1>4, <1>7 DEF Lists, Surjection, Range, IsInjective
<1>9. QED
  BY <1>1, <1>8 DEF M

\* The digest says which tools there are when each is once.
LEMMA ListsDigest ==
  ASSUME NEW n \in Nat, NEW t, Lists(t, n)
  PROVE  SurfaceDigest(t) = {[tool |-> e, nth |-> 1] : e \in Manifest}
<1>1. ASSUME NEW i \in 1..n
      PROVE  Cardinality({j \in 1..i : t[j].name = t[i].name}) = 1
  <2>1. {j \in 1..i : t[j].name = t[i].name} = {i}
    <3>1. ASSUME NEW j \in 1..i, t[j].name = t[i].name PROVE j = i
      <4>1. j \in 1..n
        OBVIOUS
      <4>2. QED
        BY <3>1, <4>1, ListsNames
    <3>2. i \in 1..i
      OBVIOUS
    <3>3. QED
      BY <3>1, <3>2
  <2>2. QED
    BY <2>1, FS_Singleton, Zenon
<1>2. SurfaceDigest(t) = {[tool |-> t[i], nth |-> 1] : i \in 1..n}
  BY <1>1 DEF SurfaceDigest, Lists
<1>3. QED
  BY <1>2 DEF Lists, Range

\* Every difference is looked for.
LEMMA NoReasons ==
  Reasons = {} <=>
    /\ complete
    /\ \A t \in Range(tools) : ~(Count(t.name) > 1)
    /\ Names(Range(tools)) = Names(Manifest)
    /\ \A e \in Manifest : Count(e.name) > 0 =>
         /\ FirstOf(e.name).schema = e.schema
         /\ FirstOf(e.name).description = e.description
         /\ FirstOf(e.name).annotations = e.annotations
    /\ SurfaceDigest(tools) = SurfaceDigest(SetToSeq(Manifest))
<1>1. Reasons = {} <=> \A k \in Kinds : ~Differences[k]
  BY DifferenceKinds DEF Reasons
<1>2. /\ Differences["incomplete_discovery"] <=> ~complete
      /\ Differences["duplicate_provider_tool"] <=> \E t \in Range(tools) : Count(t.name) > 1
      /\ Differences["unknown_provider_tool"] <=> ~(Names(Range(tools)) \subseteq Names(Manifest))
      /\ Differences["missing_provider_tool"] <=> ~(Names(Manifest) \subseteq Names(Range(tools)))
      /\ Differences["schema_digest_mismatch"] <=>
           \E e \in Manifest : Count(e.name) > 0 /\ FirstOf(e.name).schema # e.schema
      /\ Differences["metadata_digest_mismatch"] <=>
           \E e \in Manifest :
             /\ Count(e.name) > 0
             /\ \/ FirstOf(e.name).description # e.description
                \/ FirstOf(e.name).annotations # e.annotations
      /\ Differences["provider_surface_digest_mismatch"] <=>
           SurfaceDigest(tools) # SurfaceDigest(SetToSeq(Manifest))
  BY DEF Differences
<1>3. QED
  BY <1>1, <1>2 DEF Kinds

\* No findings: the digest admits no other tool, and the count no tool twice.
LEMMA NoReasonsMeansReviewed ==
  ASSUME TypeOK, Reasons = {}
  PROVE  complete /\ Len(tools) = Cardinality(Manifest) /\ Range(tools) = Manifest
<1> DEFINE n == Len(tools)
<1>1. n \in Nat /\ DOMAIN tools = 1..n
  BY LenProperties DEF TypeOK
<1>2. /\ complete
      /\ \A t \in Range(tools) : ~(Count(t.name) > 1)
      /\ SurfaceDigest(tools) = SurfaceDigest(SetToSeq(Manifest))
  BY NoReasons
<1>3. SurfaceDigest(tools) = {[tool |-> e, nth |-> 1] : e \in Manifest}
  BY <1>2, ManifestListed, ListsDigest
<1>4. Range(tools) = Manifest
  <2>1. ASSUME NEW i \in 1..n PROVE tools[i] \in Manifest
    <3> DEFINE nth == Cardinality({j \in 1..i : tools[j].name = tools[i].name})
    <3>1. [tool |-> tools[i], nth |-> nth] \in SurfaceDigest(tools)
      BY <1>1 DEF SurfaceDigest
    <3> DEFINE found == [tool |-> tools[i], nth |-> nth]
    <3>2. found.tool = tools[i]
      OBVIOUS
    <3> HIDE DEF found
    <3>3. PICK e \in Manifest : found = [tool |-> e, nth |-> 1]
      BY <1>3, <3>1 DEF found
    <3>4. QED
      BY <3>2, <3>3
  <2>2. ASSUME NEW e \in Manifest PROVE \E i \in 1..n : tools[i] = e
    <3>1. [tool |-> e, nth |-> 1] \in SurfaceDigest(tools)
      BY <1>3
    <3>2. QED
      BY <1>1, <3>1 DEF SurfaceDigest
  <2>3. QED
    BY <1>1, <2>1, <2>2 DEF Range
<1>5. ASSUME NEW i \in 1..n, NEW j \in 1..n, tools[i] = tools[j] PROVE i = j
  <2>1. SUFFICES ASSUME i # j PROVE FALSE
    OBVIOUS
  <2> DEFINE P == Places(tools[i].name)
  <2>2. P \subseteq 1..n /\ {i, j} \subseteq P
    BY <1>1, <1>5 DEF Places
  <2>3. IsFiniteSet(P)
    <3>1. IsFiniteSet(1..n)
      BY <1>1, FS_Interval
    <3> HIDE DEF P, n
    <3>2. QED
      BY <2>2, <3>1, FS_Subset
  <2>4. IsFiniteSet({i}) /\ Cardinality({i}) = 1 /\ {i, j} = {i} \cup {j} /\ j \notin {i}
    BY <2>1, FS_Singleton
  <2>5. Cardinality({i, j}) = 2
    BY <2>4, FS_AddElement, SMTT(30)
  <2>6. Cardinality({i, j}) <= Cardinality(P) /\ Cardinality(P) \in Nat
    BY <2>2, <2>3, FS_Subset, FS_CardinalityType
  <2>7. Cardinality(P) > 1
    BY <2>5, <2>6
  <2>8. tools[i] \in Range(tools)
    BY <1>1 DEF Range
  <2>9. QED
    BY <1>2, <2>7, <2>8 DEF Count
<1>6. Lists(tools, n) /\ tools \in [1..n -> Manifest]
  BY <1>1, <1>4, <1>5, LenProperties DEF Lists, Range, TypeOK
<1>7. QED
  BY <1>1, <1>2, <1>4, <1>6, EachOnceIsAsMany

\* No difference: each tool is alone under its name, and it is the reviewed one.
LEMMA ReviewedMeansNoReasons ==
  ASSUME TypeOK, complete, Len(tools) = Cardinality(Manifest), Range(tools) = Manifest
  PROVE  Reasons = {}
<1> DEFINE n == Len(tools)
<1>1. n \in Nat /\ DOMAIN tools = 1..n /\ tools \in [1..n -> Range(tools)]
  BY LenProperties DEF TypeOK, Range
<1>2. Lists(tools, n)
  BY <1>1, AsManyIsEachOnce
<1> HIDE DEF n
<1>3. ASSUME NEW i \in 1..n PROVE Places(tools[i].name) = {i}
  BY <1>1, <1>2, ListsNames DEF Places
<1>4. ASSUME NEW i \in 1..n PROVE Count(tools[i].name) = 1 /\ FirstOf(tools[i].name) = tools[i]
  <2>1. Places(tools[i].name) = {i} /\ i \in Int
    BY <1>1, <1>3
  <2>2. Cardinality({i}) = 1
    BY FS_Singleton
  <2>3. Min({i}) = i
    BY <2>1 DEF Min
  <2>4. QED
    BY <2>1, <2>2, <2>3 DEF Count, FirstOf
<1>5. \A t \in Manifest : Count(t.name) = 1 /\ FirstOf(t.name) = t
  BY <1>1, <1>4 DEF Range
<1>6. SurfaceDigest(tools) = SurfaceDigest(SetToSeq(Manifest))
  BY <1>1, <1>2, ManifestListed, ListsDigest
<1>7. QED
  BY <1>5, <1>6, NoReasons

\* What is kept of a tool is the reviewed one exactly when the tool serves as it.
LEMMA ServesAsReviewed ==
  ASSUME NEW t \in Raw, NEW e \in Manifest
  PROVE  ServesAs(t, e) <=> t # Malformed /\ ObservedTool(t) = e
<1>1. SUFFICES ASSUME t # Malformed PROVE ServesAs(t, e) <=> ObservedTool(t) = e
  BY DEF ServesAs
<1>2. /\ IsTool(e)
      /\ e.description # Null /\ e.annotations # Null
  BY DiscoveryAssumption
<1>3. /\ ObservedTool(t).name = t.name /\ ObservedTool(t).schema = t.schema
      /\ ObservedTool(t).description = IF t.description = Null THEN "" ELSE t.description
      /\ ObservedTool(t).annotations = IF t.annotations = Null THEN {} ELSE t.annotations
  BY DEF ObservedTool
<1>4. ObservedTool(t) = e <=>
        /\ ObservedTool(t).name = e.name /\ ObservedTool(t).schema = e.schema
        /\ ObservedTool(t).description = e.description
        /\ ObservedTool(t).annotations = e.annotations
  BY <1>2 DEF ObservedTool, IsTool
<1>5. QED
  BY <1>1, <1>2, <1>3, <1>4 DEF ServesAs

\* What is kept of some tools is the manifest exactly when they serve as it.
LEMMA KeptAsReviewed ==
  ASSUME NEW s \in Seq(Raw)
  PROVE  Malformed \notin Range(s) =>
           (Range(ObservedTools(s)) = Manifest <=>
              /\ \A t \in Range(s) : \E e \in Manifest : ServesAs(t, e)
              /\ \A e \in Manifest : \E t \in Range(s) : ServesAs(t, e))
<1>1. /\ Range(s) = {s[i] : i \in 1..Len(s)}
      /\ Range(ObservedTools(s)) = {ObservedTool(s[i]) : i \in 1..Len(s)}
      /\ \A i \in 1..Len(s) : s[i] \in Raw
  BY ObservedFacts DEF Range
<1>2. Range(ObservedTools(s)) = {ObservedTool(t) : t \in Range(s)} /\ Range(s) \subseteq Raw
  BY <1>1
<1>3. ASSUME Malformed \notin Range(s), NEW t \in Range(s), NEW e \in Manifest
      PROVE  ServesAs(t, e) <=> ObservedTool(t) = e
  BY <1>2, <1>3, ServesAsReviewed
<1>4. QED
  BY <1>2, <1>3

\* A gateway that is ready was served exactly the reviewed tools, each once and
\* unchanged up to the two spellings of an empty field, to the last page, whatever
\* the provider offers.
THEOREM ReadyMeansReviewed == Spec => [](pc = "ready" => ServedAsReviewed)
<1>1. Budgets /\ Course => (pc = "ready" => ServedAsReviewed)
  <2> SUFFICES ASSUME Budgets, Course, pc = "ready" PROVE ServedAsReviewed
    OBVIOUS
  <2>1. Reasons = {} /\ TypeOK
    BY DEF Course, Judged, Budgets, WithinBudgets
  <2>2. complete /\ Len(tools) = Cardinality(Manifest) /\ Range(tools) = Manifest
    BY <2>1, NoReasonsMeansReviewed
  <2>3. /\ tools = ObservedTools(ServedTools) /\ Last(served).next = NoCursor
        /\ ServedTools \in Seq(Raw) /\ ServedTools \in Seq(Offered)
    BY <2>2 DEF Course, InTheEnd
  <2>4. Len(ServedTools) = Cardinality(Manifest)
    BY <2>2, <2>3, ObservedFacts
  <2>5. Malformed \notin Range(ServedTools)
    <3>1. Range(ServedTools) \subseteq Offered
      BY <2>3, RangeOfSeq
    <3>2. QED
      BY <3>1, DiscoveryAssumption
  <2>6. QED
    BY <2>2, <2>3, <2>4, <2>5, KeptAsReviewed DEF ServedAsReviewed
<1>2. QED
  BY <1>1, CourseInvariant, PTL

\* And where the tool budget admits the manifest, a gateway that was served the
\* reviewed tools so, to the last page, is ready.
THEOREM ReadyExactlyWhenReviewed ==
  ASSUME Cardinality(Manifest) <= MaxTools
  PROVE  Spec => []ReadyIffReviewed
<1>1. Budgets /\ Course => (pc \in {"ready", "not_ready"} /\ ServedAsReviewed => pc = "ready")
  <2> SUFFICES ASSUME Budgets, Course, pc \in {"ready", "not_ready"}, ServedAsReviewed
               PROVE  pc = "ready"
    OBVIOUS
  <2>1. TypeOK
    BY DEF Budgets, WithinBudgets
  <2>2. /\ complete /\ tools = ObservedTools(ServedTools)
        /\ ServedTools \in Seq(Raw)
    <3>1. ~(Len(ServedTools) > MaxTools)
      BY DiscoveryAssumption, FS_CardinalityType DEF ServedAsReviewed
    <3>2. QED
      BY <3>1 DEF Course, InTheEnd, ServedAsReviewed
  <2>3. Malformed \notin Range(ServedTools)
    BY DEF ServedAsReviewed, ServesAs
  <2>4. Range(tools) = Manifest
    BY <2>2, <2>3, KeptAsReviewed DEF ServedAsReviewed
  <2>5. Len(tools) = Cardinality(Manifest)
    BY <2>2, ObservedFacts DEF ServedAsReviewed
  <2>6. Reasons = {}
    BY <2>1, <2>2, <2>4, <2>5, ReviewedMeansNoReasons
  <2>7. QED
    BY <2>6 DEF Course, Judged
<1>2. Budgets /\ Course /\ (pc = "ready" => ServedAsReviewed) => ReadyIffReviewed
  BY <1>1 DEF ReadyIffReviewed
<1>3. QED
  BY <1>2, CourseInvariant, ReadyMeansReviewed, PTL
=============================================================================
