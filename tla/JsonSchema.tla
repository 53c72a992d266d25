----------------------------- MODULE JsonSchema -----------------------------
(****************************************************************************)
(* The strict subset of JSON Schema of schema.py, and the walk over the     *)
(* names of the arguments of manifest.py (_refuse_undeclared).              *)
(*                                                                          *)
(* A JSON value is a record with one field, which names its kind:           *)
(*   [null |-> TRUE]  [bool |-> b]  [int |-> n]  [float |-> h]              *)
(*   [str |-> s]      [arr |-> <<v1, v2>>]       [obj |-> [name |-> v]]     *)
(* A float counts halves: [float |-> 2] is 1.0 and differs from [int |-> 1],*)
(* as in the canonical form.  [tup |-> <<v1, v2>>] is a tuple, [live |-> S] *)
(* a mapping every reading of which gives a member of S, and [text |-> v]   *)
(* a string with the JSON text of v, or with no JSON if v is Absent.        *)
(*                                                                          *)
(* A schema is a function from its keywords; the bounds on numbers count    *)
(* halves, and a pattern is [usable, finds] with the strings in which it is *)
(* found.  What the code computes by recursion over a schema, a value or a  *)
(* depth is a recursive function here.                                      *)
(****************************************************************************)
EXTENDS Integers, SequencesExt

CONSTANTS
  Values,            \* the values there are, and the parts of each
  Schemas,           \* the schemas there are, and the subschemas of each
  Nesting,           \* how deep a value or a schema nests: both are finite trees
  MaxSchemaDepth,    \* MAX_SCHEMA_DEPTH of schema.py
  MaxArgumentDepth,  \* _MAX_ARGUMENT_DEPTH of manifest.py
  FloatBits,         \* the binary digits of a float: 53
  FloatPlaces,       \* the most of them after the point: 1074
  Tolerance          \* 10^9: _check_number takes a distance of 1/Tolerance for none

Is(v, kind) == kind \in DOMAIN v
IsNumber(v) == Is(v, "int") \/ Is(v, "float")
Halves(v) == IF Is(v, "int") THEN 2 * v.int ELSE v.float

Absent == [absent |-> TRUE]    \* Python's None where a schema or a value is missing
TrueSchema == [always |-> TRUE]
FalseSchema == [always |-> FALSE]
IsBooleanSchema(s) == "always" \in DOMAIN s

Has(s, keyword) == keyword \in DOMAIN s

\* schema.get(keyword, default)
Get(s, keyword, default) == IF Has(s, keyword) THEN s[keyword] ELSE default
NoNames == [name \in {} |-> Absent]

Properties(s) == Get(s, "properties", NoNames)

\* The branches of the three combinators, in the order the code visits them.
Branches(s) == Get(s, "allOf", <<>>) \o Get(s, "anyOf", <<>>) \o Get(s, "oneOf", <<>>)

\* The parts of a value by name or place, and all the values it is made from.
Parts(v) == CASE Is(v, "obj") -> v.obj
              [] Is(v, "arr") -> v.arr
              [] Is(v, "tup") -> v.tup
              [] OTHER -> <<>>

Inside(v) == CASE Is(v, "live") -> v.live
               [] Is(v, "text") -> {v.text}
               [] OTHER -> Range(Parts(v))

-----------------------------------------------------------------------------
(* ensure_schema_supported() *)

TypeNames == {"object", "array", "string", "number", "integer", "boolean", "null"}

AnnotationKeywords ==
  {"title", "description", "default", "examples", "$comment", "$schema", "$id"}
SupportedKeywords ==
  {"type", "enum", "const", "properties", "required", "additionalProperties", "items",
   "minItems", "maxItems", "uniqueItems", "minLength", "maxLength", "pattern", "minimum",
   "maximum", "exclusiveMinimum", "exclusiveMaximum", "multipleOf", "allOf", "anyOf",
   "oneOf"} \cup AnnotationKeywords

WellFormed(s) ==
  /\ DOMAIN s \subseteq SupportedKeywords
  /\ Has(s, "type") => s.type # {} /\ s.type \subseteq TypeNames
  /\ Has(s, "enum") => s.enum # {}
  /\ \A k \in {"minItems", "maxItems", "minLength", "maxLength"} \cap DOMAIN s : s[k] >= 0
  /\ Has(s, "multipleOf") => s.multipleOf > 0
  /\ Has(s, "pattern") => s.pattern.usable
  /\ \A k \in {"allOf", "anyOf", "oneOf"} \cap DOMAIN s : s[k] # <<>>

\* Faulty: what additionalProperties allows is not looked at.
SubschemasWithoutAdditional(s) ==
  Range(Properties(s)) \cup Range(Branches(s))
    \cup {s[k] : k \in {"items"} \cap DOMAIN s}

Subschemas(s) ==
  Range(Properties(s)) \cup Range(Branches(s))
    \cup {s[k] : k \in {"additionalProperties", "items"} \cap DOMAIN s}

\* The schema nests no deeper than the rail and is well formed at every level.
SupportedAt[depth \in 0..MaxSchemaDepth + 1] ==
  [s \in Schemas |->
     /\ depth <= MaxSchemaDepth
     /\ ~IsBooleanSchema(s) =>
          WellFormed(s) /\ \A t \in Subschemas(s) : SupportedAt[depth + 1][t]]

Supported(s) == SupportedAt[0][s]

-----------------------------------------------------------------------------
(* The values and the schemas there are *)

Kinds == {"null", "bool", "int", "float", "str", "arr", "obj", "tup", "live", "text", "absent"}

IsValue(v) ==
  /\ \E kind \in Kinds : DOMAIN v = {kind}
  /\ \A kind \in {"int", "float"} \cap DOMAIN v : v[kind] \in Int
  /\ \A kind \in {"arr", "tup"} \cap DOMAIN v : v[kind] \in Seq(Values)
  /\ Is(v, "str") => Len(v.str) \in Nat
  /\ Is(v, "obj") => IsFiniteSet(DOMAIN v.obj)
  /\ Is(v, "live") => \A reading \in v.live : Is(reading, "obj")
  /\ Nesting[v] \in Nat
  /\ \A part \in Inside(v) : part \in Values /\ Nesting[part] < Nesting[v]

IsSchema(s) ==
  /\ IsBooleanSchema(s) => s \in {TrueSchema, FalseSchema}
  /\ \A k \in {"allOf", "anyOf", "oneOf"} \cap DOMAIN s : s[k] \in Seq(Schemas)
  /\ Has(s, "uniqueItems") => s.uniqueItems \in BOOLEAN
  /\ Has(s, "multipleOf") => s.multipleOf \in Int
  /\ Nesting[s] \in Nat
  /\ \A t \in Subschemas(s) : t \in Schemas /\ Nesting[t] < Nesting[s]

ASSUME JsonSchemaAssumption ==
  /\ MaxSchemaDepth \in Nat /\ MaxArgumentDepth \in Nat
  /\ FloatBits \in Nat /\ FloatPlaces \in Nat /\ Tolerance \in Nat
  /\ Absent \in Values /\ \A v \in Values : IsValue(v)
  /\ Absent \in Schemas /\ \A s \in Schemas : IsSchema(s)

-----------------------------------------------------------------------------
(* validate_instance(): _check and its helpers *)

MatchesType(v, name) ==
  CASE name = "object"  -> Is(v, "obj")
    [] name = "array"   -> Is(v, "arr")
    [] name = "string"  -> Is(v, "str")
    [] name = "boolean" -> Is(v, "bool")
    [] name = "null"    -> Is(v, "null")
    [] name = "number"  -> IsNumber(v)
    [] name = "integer" -> Is(v, "int") \/ (Is(v, "float") /\ v.float % 2 = 0)

CheckString(str, s) ==
  /\ Has(s, "minLength") => Len(str) >= s.minLength
  /\ Has(s, "maxLength") => Len(str) <= s.maxLength
  /\ Has(s, "pattern") => str \in s.pattern.finds

\* The whole number nearest to n / m, the even one of two.
Nearest(n, m) ==
  LET low == n \div m
      twice == 2 * (n % m)
  IN  CASE twice < m -> low
        [] twice > m -> low + 1
        [] OTHER -> low + (low % 2)

\* The binary places after the point that a float leaves to the quotient n / m.
PlacesLeft(n, m) ==
  Max({0} \cup {k \in 1..FloatPlaces : n * 2^k < m * 2^FloatBits})

\* multipleOf: the quotient as a float is 1/Tolerance or less from a whole number.
\* (Left out: an int beyond FloatBits is rounded before it is divided by a float,
\* and a quotient beyond all floats raises OverflowError.)
IsMultiple(h, m) ==
  LET size == IF h >= 0 THEN h ELSE -h
      unit == 2^PlacesLeft(size, m)
      past == Nearest(size * unit, m) % unit
  IN  past * Tolerance <= unit \/ (unit - past) * Tolerance <= unit

CheckNumber(h, s) ==
  /\ Has(s, "minimum") => h >= s.minimum
  /\ Has(s, "maximum") => h <= s.maximum
  /\ Has(s, "exclusiveMinimum") => h > s.exclusiveMinimum
  /\ Has(s, "exclusiveMaximum") => h < s.exclusiveMaximum
  /\ Has(s, "multipleOf") => IsMultiple(h, s.multipleOf)

\* The verdicts on the level below are passed on: below[schema][value].
CheckObject(obj, s, below) ==
  LET declared == DOMAIN Properties(s)
  IN  /\ Get(s, "required", {}) \subseteq DOMAIN obj
      /\ \A name \in declared \cap DOMAIN obj : below[s.properties[name]][obj[name]]
      /\ Has(s, "additionalProperties") =>
           \A name \in DOMAIN obj \ declared : below[s.additionalProperties][obj[name]]

CheckArray(arr, s, below) ==
  /\ Has(s, "minItems") => Len(arr) >= s.minItems
  /\ Has(s, "maxItems") => Len(arr) <= s.maxItems
  /\ Get(s, "uniqueItems", FALSE) => IsInjective(arr)
  /\ Has(s, "items") => \A i \in DOMAIN arr : below[s.items][arr[i]]

\* How many branches of a combinator the value satisfies; a branch that fails
\* for its depth counts like any other.
Satisfied(v, s, combinator, below) ==
  Cardinality({i \in DOMAIN s[combinator] : below[s[combinator][i]][v]})

CheckKeywords(v, s, below) ==
  /\ Has(s, "type") => \E name \in s.type : MatchesType(v, name)
  /\ Has(s, "const") => v = s.const
  /\ Has(s, "enum") => v \in s.enum
  /\ Is(v, "str") => CheckString(v.str, s)
  /\ IsNumber(v) => CheckNumber(Halves(v), s)
  /\ Is(v, "obj") => CheckObject(v.obj, s, below)
  /\ Is(v, "arr") => CheckArray(v.arr, s, below)
  /\ Has(s, "allOf") => Satisfied(v, s, "allOf", below) = Len(s.allOf)
  /\ Has(s, "anyOf") => Satisfied(v, s, "anyOf", below) > 0
  /\ Has(s, "oneOf") => Satisfied(v, s, "oneOf", below) = 1

CheckAt[depth \in 0..MaxSchemaDepth + 1] ==
  [s \in Schemas |-> [v \in Values |->
     /\ depth <= MaxSchemaDepth
     /\ s # FalseSchema
     /\ s # TrueSchema => CheckKeywords(v, s, CheckAt[depth + 1])]]

Check(v, s) == CheckAt[0][s][v]

-----------------------------------------------------------------------------
(* _refuse_undeclared() *)

DeclaredNames[s \in Schemas] ==
  DOMAIN Properties(s) \cup UNION {DeclaredNames[b] : b \in Range(Branches(s))}

Names == UNION {DOMAIN Properties(s) : s \in Schemas}

\* The schema of a name: the schema's own property, or else the first one found
\* in a branch.
FirstFound[s \in Schemas] ==
  [name \in Names |->
     LET found == {i \in DOMAIN Branches(s) : FirstFound[Branches(s)[i]][name] # Absent}
     IN  CASE name \in DOMAIN Properties(s) -> s.properties[name]
           [] name \notin DOMAIN Properties(s) /\ found # {} ->
                FirstFound[Branches(s)[Min(found)]][name]
           [] OTHER -> Absent]

\* Faulty: the properties of the schema itself only.
SubschemaForOwn(s, name) == Get(Properties(s), name, Absent)

SubschemaFor(s, name) == FirstFound[s][name]

\* Descent follows properties, through combinators too, and items, which only
\* the schema itself may have; never additionalProperties.
WalkAt[depth \in 0..MaxArgumentDepth + 1] ==
  [s \in Schemas |-> [v \in Values |->
     /\ depth <= MaxArgumentDepth
     /\ Is(v, "obj") =>
          /\ DOMAIN v.obj \subseteq DeclaredNames[s]
          /\ \A name \in DOMAIN v.obj : WalkAt[depth + 1][SubschemaFor(s, name)][v.obj[name]]
     /\ Is(v, "arr") =>
          \A i \in DOMAIN v.arr : WalkAt[depth + 1][Get(s, "items", Absent)][v.arr[i]]]]

\* Faulty: the root's names only.
WalkRoot(v, s) == Is(v, "obj") => DOMAIN v.obj \subseteq DeclaredNames[s]

Walk(v, s) == WalkAt[0][s][v]
=============================================================================
