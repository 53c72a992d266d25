--------------------------- MODULE MCCallPayload ---------------------------
(* Small families of schemas, arguments and results for CallPayload. *)
EXTENDS CallPayload

Null == [null |-> TRUE]
Yes == [bool |-> TRUE]
Whole(n) == [int |-> n]
Half(h) == [float |-> h]
Str(s) == [str |-> s]
Arr(s) == [arr |-> s]
Obj(f) == [obj |-> f]

TypeIs(t) == [type |-> {t}]
ObjectOf(f) == [type |-> {"object"}, properties |-> f]
AnyInteger == TypeIs("integer")
Unknown == [format |-> "date"]

LeafSchemas == {
  TrueSchema, FalseSchema, AnyInteger, Unknown,
  [type |-> {"boolean", "null", "number"}],
  [const |-> Whole(1)],
  [enum |-> {Whole(1), Str("ab"), Yes}],
  [type |-> {"string"}, minLength |-> 1, title |-> "name"],
  [maxLength |-> 1],
  [pattern |-> [usable |-> TRUE, finds |-> {"ab"}]],
  [pattern |-> [usable |-> FALSE, finds |-> {}]],
  [minimum |-> 1, maximum |-> 2],
  [exclusiveMinimum |-> 1, exclusiveMaximum |-> 4],
  [multipleOf |-> 2], [multipleOf |-> 4], [multipleOf |-> 16], [multipleOf |-> 0],
  [uniqueItems |-> TRUE, items |-> AnyInteger, minItems |-> 1],
  [maxItems |-> 1],
  [required |-> {"b"}], [type |-> {}], [enum |-> {}]}

Combined == {
  [anyOf |-> <<AnyInteger, TypeIs("string")>>],
  [oneOf |-> <<[minimum |-> 2], AnyInteger>>],
  [allOf |-> <<AnyInteger, [minimum |-> 2]>>],
  [anyOf |-> <<>>],
  [anyOf |-> <<[type |-> {"array"}, items |-> ObjectOf([b |-> AnyInteger])], TypeIs("null")>>],
  [oneOf |-> <<[items |-> AnyInteger], [items |-> [items |-> AnyInteger]]>>],
  [oneOf |-> <<ObjectOf([b |-> AnyInteger]), ObjectOf([b |-> TypeIs("string")])>>]}

NestedSchemas == {
  ObjectOf([b |-> AnyInteger]),
  [type |-> {"object"}],
  ObjectOf([b |-> TrueSchema]) @@ [additionalProperties |-> FalseSchema],
  [additionalProperties |-> AnyInteger],
  [additionalProperties |-> Unknown],
  [items |-> ObjectOf([b |-> AnyInteger])],
  [items |-> [items |-> [items |-> AnyInteger]]]}

RootSchemas ==
  {ObjectOf([a |-> s]) : s \in LeafSchemas \cup Combined \cup NestedSchemas} \cup
  {ObjectOf([a |-> AnyInteger, b |-> TypeIs("string")]) @@ [required |-> {"a"}],
   [anyOf |-> <<ObjectOf([a |-> AnyInteger]), ObjectOf([b |-> ObjectOf([a |-> Yes])])>>],
   [oneOf |-> <<[properties |-> [a |-> AnyInteger]], [properties |-> [b |-> [required |-> {"a"}]]]>>],
   [allOf |-> <<[properties |-> [a |-> ObjectOf([b |-> AnyInteger])]]>>]}

OutputSchemas == {Absent, ObjectOf([a |-> AnyInteger]), ObjectOf([a |-> Unknown])}

MCEntries ==
  [input : RootSchemas, output : {Absent}] \cup
  [input : {ObjectOf([a |-> AnyInteger])}, output : OutputSchemas \cup {NoNames}] \cup
  [input : {NoNames}, output : {Absent}]

Scalars == {Null, Yes, Whole(0), Whole(1), Half(1), Half(2), Half(4), Whole(17),
            Str(""), Str("ab"), Str("w"), Str("longer than a response may be")}

Plain ==
  Scalars \cup
  {Arr(<<>>), Arr(<<Whole(1)>>), Arr(<<Whole(1), Whole(1)>>), Arr(<<Whole(1), Half(2)>>), Arr(<<Null>>),
   Arr(<<Arr(<<Whole(1)>>)>>), Arr(<<Arr(<<Arr(<<Whole(1)>>)>>)>>),
   Arr(<<Obj([b |-> Whole(1)])>>), Arr(<<Obj([b |-> Whole(1)]), Obj([c |-> Whole(1)])>>),
   Obj(NoNames), Obj([b |-> Whole(1)]), Obj([b |-> Str("ab")]), Obj([b |-> Whole(1), c |-> Null]),
   Obj([b |-> Obj(NoNames)]), Obj([b |-> Obj([c |-> Whole(1)])]), Obj([b |-> Arr(<<Obj([b |-> Whole(1)])>>)])}

\* A mapping that reads once as the one and once as the other.
Wavering == [live |-> {Obj([b |-> Whole(1)]), Obj([b |-> Whole(1), c |-> Whole(1)]), Obj([b |-> Null])}]

MCArguments ==
  {Obj([a |-> v]) : v \in Plain \cup {Wavering, [tup |-> <<Wavering, Wavering>>]}} \cup
  {Obj(NoNames), Whole(1), Arr(<<>>), [live |-> {Obj(NoNames), Obj([a |-> Whole(1)])}],
   Obj([b |-> Str("ab")]), Obj([a |-> Whole(1), b |-> Str("ab")]), Obj([b |-> Obj([a |-> Null])])}

\* The same mapping inside a list.
MCListedArguments == {Obj([a |-> Arr(<<Wavering>>)])}

-----------------------------------------------------------------------------
TextBlock(v) == Obj([type |-> Str("text"), text |-> [text |-> v]])
Blocks == {Absent, Null, Whole(1), Arr(<<>>), Arr(<<TextBlock(Obj([a |-> Whole(1)]))>>),
           Arr(<<TextBlock(Whole(1)), TextBlock(Whole(1))>>), Arr(<<Obj([type |-> Str("image")])>>),
           Arr(<<Obj([type |-> Str("text"), text |-> Whole(1)])>>), Arr(<<Null>>)} \cup
          {Arr(<<TextBlock(v)>>) : v \in {Absent, Whole(1)} \cup {Obj([a |-> w]) : w \in Plain}}
Structures == {Absent, Null, Whole(1), Obj(NoNames)} \cup {Obj([a |-> w]) : w \in Plain}

Filled(f) == [n \in {m \in DOMAIN f : f[m] # Absent} |-> f[n]]

MCResults ==
  {Obj(Filled([isError |-> Absent, content |-> c, structuredContent |-> d])) :
     c \in Blocks, d \in Structures} \cup
  {Obj(Filled([isError |-> e, content |-> c, structuredContent |-> Obj([a |-> Whole(1)])])) :
     e \in {Null, [bool |-> FALSE], Yes}, c \in Blocks}

-----------------------------------------------------------------------------
(* The values and the schemas the families are made from. *)

RECURSIVE PartsOf(_)
PartsOf(v) == {v} \cup UNION {PartsOf(part) : part \in Inside(v)}
WithParts(values) == UNION {PartsOf(v) : v \in values}

RECURSIVE AllReadings(_, _)
AllReadings(v, intoLists) ==
  Copies(v, intoLists, [part \in Inside(v) |-> [into \in BOOLEAN |-> AllReadings(part, into)]])

\* Structured content again as text.
Repeated ==
  {TextOf(Structured(raw)) : raw \in {r \in MCResults : Is(Structured(r), "obj")}}

\* All values of a run: those preflight_read may see, and those that come back.
AllValues(arguments) ==
  LET passed == WithParts(arguments)
      copied == UNION {AllReadings(v, intoLists) : v \in passed, intoLists \in BOOLEAN}
  IN  {v : v \in WithParts(passed \cup copied \cup {Absent} \cup MCResults \cup Repeated)}

\* The schemas in s, whatever the code looks at.
SchemasIn(s) ==
  Range(Properties(s)) \cup Range(Branches(s))
    \cup {s[k] : k \in {"additionalProperties", "items"} \cap DOMAIN s}

RECURSIVE SubschemasOf(_)
SubschemasOf(s) == {s} \cup UNION {SubschemasOf(t) : t \in SchemasIn(s)}

AllSchemas ==
  {Absent} \cup UNION {SubschemasOf(e.input) \cup SubschemasOf(e.output) : e \in MCEntries}

RECURSIVE Height(_, _)
Height(node, isValue) ==
  LET below == IF isValue THEN Inside(node) ELSE SchemasIn(node)
      heights == {Height(part, isValue) : part \in below}
  IN  IF heights = {} THEN 0 ELSE 1 + Max(heights)

Heights(values) ==
  LET below == {v : v \in values}    \* so that TLC lists them once
  IN  [node \in below \cup AllSchemas |-> Height(node, node \in below)]

PlainValues == AllValues(MCArguments)
ListedValues == AllValues(MCListedArguments)
PlainHeights == Heights(PlainValues)
ListedHeights == Heights(ListedValues)

\* Names for the constants: TLC then computes what they stand for once.
MCValues == PlainValues
MCListedValues == ListedValues
MCSchemas == AllSchemas
MCNesting == PlainHeights
MCListedNesting == ListedHeights

MCRequest == [depth |-> 3, nodes |-> 5, string |-> 1, bytes |-> 6]
MCResponse == [depth |-> 3, nodes |-> 12, string |-> 20, bytes |-> 40]
MCUtf8 == [str \in {"w"} |-> 3]

\* The theorems speak of the run payload.
ASSUME Arguments # MCListedArguments => NoMappingInsideAList
ASSUME TextsAreValues

\* With 4 binary digits and a tolerance of 1/8, all exact multiples pass, and also
\* 17 of 2, which rounds to 8 times 2, and 1 of 8, which is an eighth away from 0.
ASSUME \A m \in 1..20, q \in -20..20 : IsMultiple(q * m, m)
ASSUME IsMultiple(17, 2) /\ IsMultiple(1, 8) /\ ~IsMultiple(3, 16) /\ ~IsMultiple(3, 2)
=============================================================================
