---------------------------- MODULE CallPayload -----------------------------
(****************************************************************************)
(* What one call carries, from the caller's mapping to the delivered data:  *)
(* the schemas of the manifest entry are checked when the manifest loads,   *)
(* preflight_read copies, validates, walks and freezes the arguments,       *)
(* call_tool bounds and sends them, and the provider's result is bounded,   *)
(* mapped and validated.  The calls' concurrency is in ProviderSession.     *)
(****************************************************************************)
EXTENDS JsonSchema

CONSTANTS
  Entries,     \* manifest entries: [input : schema, output : schema or Absent]
  Arguments,   \* what a caller may pass
  Results,     \* what the provider may answer
  Request,     \* _budget_for_request: [depth, nodes, string, bytes]
  Response,    \* _budget_for_response
  Utf8         \* the bytes of each string that has more of them than characters

BudgetAssumption(budget) ==
  budget.depth \in Nat /\ budget.nodes \in Nat /\ budget.string \in Nat /\ budget.bytes \in Nat

ASSUME PayloadAssumption ==
  /\ \A e \in Entries : e.input \in Schemas /\ e.output \in Schemas
  /\ Arguments \subseteq Values
  /\ Results \subseteq Values /\ \A raw \in Results : Is(raw, "obj")
  /\ BudgetAssumption(Request) /\ BudgetAssumption(Response)
  /\ \A str \in DOMAIN Utf8 : Utf8[str] \in Nat

VARIABLES
  pc,      \* where the call is
  entry,   \* the entry of the called capability
  given,   \* the caller's argument, while preflight_read runs
  safe,    \* safe_arguments, while preflight_read runs
  sent,    \* the frozen arguments
  result   \* [data, source], [error], or Absent

vars == <<pc, entry, given, safe, sent, result>>

-----------------------------------------------------------------------------
(* Reading the caller's argument *)

\* All ways to replace every part of f by one of the given choices.
Combinations(f, choices) ==
  {g \in [DOMAIN f -> UNION Range(choices)] : \A k \in DOMAIN f : g[k] \in choices[k]}

\* What one pass over v may read, as plain lists and dicts, if reading[part] is
\* what may be read of each part.  json_safe does not go into lists: it returns
\* them as they are.
Copies(v, intoLists, reading) ==
  LET parts == Combinations(Parts(v), [k \in DOMAIN Parts(v) |-> reading[Parts(v)[k]][intoLists]])
  IN  CASE Is(v, "live") -> UNION {reading[o][intoLists] : o \in v.live}
        [] Is(v, "obj") -> {[obj |-> f] : f \in parts}
        [] Is(v, "tup") -> {[arr |-> f] : f \in parts}
        [] Is(v, "arr") /\ intoLists -> {[arr |-> f] : f \in parts}
        [] OTHER -> {v}

Readings[v \in Values] == [intoLists \in BOOLEAN |-> Copies(v, intoLists, Readings) \cap Values]

\* No reading of a value is missing from Values.
ASSUME ReadingsAssumption ==
  \A v \in Values, intoLists \in BOOLEAN : Copies(v, intoLists, Readings) \subseteq Values

JsonSafe(v) == Readings[v][FALSE]
Read(v) == Readings[v][TRUE]

-----------------------------------------------------------------------------
(* bound_json() and _ensure_within_bytes() *)

\* The nodes of a value: each with its path from the root.
Nodes[v \in Values] ==
  {[path |-> <<>>, value |-> v]} \cup
  UNION {{[path |-> <<k>> \o n.path, value |-> n.value] : n \in Nodes[Parts(v)[k]]} :
           k \in DOMAIN Parts(v)}

Deeper(v, limit) == \E n \in Nodes[v] : Len(n.path) > limit

StringSize(str, unit) ==
  IF unit = "bytes" /\ str \in DOMAIN Utf8 THEN Utf8[str] ELSE Len(str)

\* What the canonical form takes: the strings, the names, and one for every node.
Sizes[v \in Values] ==
  [unit \in {"characters", "bytes"} |->
     LET name(k) == IF Is(v, "obj") THEN StringSize(k, unit) ELSE 0
         parts == [k \in DOMAIN Parts(v) |-> name(k) + Sizes[Parts(v)[k]][unit]]
     IN  1 + CASE Is(v, "str") -> StringSize(v.str, unit)
               [] Is(v, "text") -> Sizes[v.text][unit]
               [] OTHER -> FoldFunction(+, 0, parts)]

Size(v) == Sizes[v]["bytes"]

\* The lengths that are held to the budget: of a string, and of an object's names.
StringLengths(v) ==
  CASE Is(v, "str") -> {Len(v.str)}
    [] Is(v, "text") -> {Sizes[v.text]["characters"]}
    [] Is(v, "obj") -> {Len(name) : name \in DOMAIN v.obj}
    [] OTHER -> {}

Bounded(v, budget) ==
  /\ ~Deeper(v, budget.depth)
  /\ Cardinality(Nodes[v]) <= budget.nodes
  /\ \A n \in Nodes[v] : \A length \in StringLengths(n.value) : length <= budget.string

\* Faulty: one level less.
ExceedsTextDepthEarly(v, limit) ==
  \E n \in Nodes[v] : (Is(n.value, "obj") \/ Is(n.value, "arr")) /\ Len(n.path) + 1 >= limit

\* _exceeds_text_depth counts the brackets that are open.
ExceedsTextDepth(v, limit) ==
  \E n \in Nodes[v] : (Is(n.value, "obj") \/ Is(n.value, "arr")) /\ Len(n.path) + 1 > limit

-----------------------------------------------------------------------------
(* _map_result() *)

Refuse(code) == [error |-> code]
Deliver(v, source) == [data |-> v, source |-> source]

IsToolError(raw) == Get(raw.obj, "isError", Absent) = [bool |-> TRUE]

Present(v) == v # Absent /\ v # [null |-> TRUE]
Content(raw) ==
  LET content == Get(raw.obj, "content", Absent)
  IN  IF Present(content) THEN content ELSE [arr |-> <<>>]
Structured(raw) == Get(raw.obj, "structuredContent", Absent)

IsTextBlock(block) == Is(block, "obj") /\ Get(block.obj, "type", Absent) = [str |-> "text"]

\* Anything but text blocks is refused, wherever it appears.
TextOnly(raw) ==
  Is(Content(raw), "arr") /\ \A block \in Range(Content(raw).arr) : IsTextBlock(block)

\* The only text block's JSON object, or Absent.  The code's limit on the bytes
\* of the text is left out: the whole result was held to the same limit before.
DecodeTextPayload(block) ==
  LET text == Get(block.obj, "text", Absent)
  IN  IF /\ Is(text, "text") /\ Is(text.text, "obj")
         /\ ~ExceedsTextDepth(text.text, Response.depth)
         /\ Bounded(text.text, Response)
        THEN text.text
        ELSE Absent

Payload(raw) ==
  CASE Present(Structured(raw)) -> Structured(raw)
    [] ~Present(Structured(raw)) /\ Len(Content(raw).arr) = 1 ->
         DecodeTextPayload(Content(raw).arr[1])
    [] OTHER -> Absent

Source(raw) == IF Present(Structured(raw)) THEN "structured_content" ELSE "text_content"

\* Faulty: only structured content is checked against the output schema.
FitsIfStructured(raw, output) ==
  output # Absent /\ Present(Structured(raw)) => Check(Payload(raw), output)

Fits(raw, output) == output # Absent => Check(Payload(raw), output)

MapResult(raw, output) ==
  LET mappable == TextOnly(raw) /\ Is(Payload(raw), "obj")
      enforceable == output # Absent => Supported(output)
  IN  CASE IsToolError(raw) -> Refuse("provider_error")
        [] ~IsToolError(raw) /\ ~mappable -> Refuse("protocol_error")
        [] ~IsToolError(raw) /\ mappable /\ ~enforceable -> Refuse("not_ready")
        [] OTHER -> IF Fits(raw, output)
                      THEN Deliver(Payload(raw), Source(raw))
                      ELSE Refuse("protocol_error")

\* The part of call_tool after the answer.
Outcome(raw, output) ==
  CASE ~Bounded(raw, Response) -> Refuse("protocol_error")
    [] Bounded(raw, Response) /\ Size(raw) > Response.bytes -> Refuse("response_too_large")
    [] OTHER -> MapResult(raw, output)

-----------------------------------------------------------------------------
Init ==
  /\ pc = "loading"
  /\ entry \in Entries
  /\ given = Absent /\ safe = Absent /\ sent = Absent /\ result = Absent

Refused(code) == pc' = "done" /\ result' = Refuse(code)

\* An allowed entry's schemas, when the manifest loads.
Loadable(e) ==
  /\ DOMAIN e.input # {} /\ Supported(e.input)
  /\ e.output # Absent => DOMAIN e.output # {} /\ Supported(e.output)

Load ==
  /\ pc = "loading"
  /\ IF Loadable(entry) THEN pc' = "ready" /\ UNCHANGED result ELSE Refused("not_ready")
  /\ UNCHANGED <<entry, given, safe, sent>>

Copy(argument) ==
  /\ pc = "ready"
  /\ given' = argument
  /\ IF Is(argument, "obj") \/ Is(argument, "live")
       THEN safe' \in JsonSafe(argument) /\ pc' = "copied" /\ UNCHANGED result
       ELSE Refused("input_invalid") /\ UNCHANGED safe
  /\ UNCHANGED <<entry, sent>>

Validate ==
  /\ pc = "copied"
  /\ \E v \in Read(safe) :
       IF Check(v, entry.input)
         THEN pc' = "validated" /\ UNCHANGED result
         ELSE Refused("input_invalid")
  /\ UNCHANGED <<entry, given, safe, sent>>

RefuseUndeclared ==
  /\ pc = "validated"
  /\ \E v \in Read(safe) :
       IF Walk(v, entry.input)
         THEN pc' = "walked" /\ UNCHANGED result
         ELSE Refused("input_invalid")
  /\ UNCHANGED <<entry, given, safe, sent>>

\* Faulty: what is sent is read from the caller's mapping once more.
FreezeGiven ==
  /\ pc = "walked"
  /\ sent' \in Read(given)
  /\ given' = Absent /\ safe' = Absent
  /\ pc' = "frozen"
  /\ UNCHANGED <<entry, result>>

\* The frozen copy of safe_arguments is the result of preflight_read.
Freeze ==
  /\ pc = "walked"
  /\ sent' \in Read(safe)
  /\ given' = Absent /\ safe' = Absent
  /\ pc' = "frozen"
  /\ UNCHANGED <<entry, result>>

Send ==
  /\ pc = "frozen"
  /\ IF Bounded(sent, Request) /\ Size(sent) <= Request.bytes
       THEN pc' = "sent" /\ UNCHANGED result
       ELSE Refused("input_invalid")
  /\ UNCHANGED <<entry, given, safe, sent>>

Receive(raw) ==
  /\ pc = "sent"
  /\ pc' = "answered"
  /\ result' = Outcome(raw, entry.output)
  /\ UNCHANGED <<entry, given, safe, sent>>

Next ==
  \/ Load \/ Validate \/ RefuseUndeclared \/ Freeze \/ Send
  \/ \E a \in Arguments : Copy(a)
  \/ \E raw \in Results : Receive(raw)

Spec == Init /\ [][Next]_vars

-----------------------------------------------------------------------------
(* Reference definitions *)

KindNames(v) ==
  CASE Is(v, "obj") -> {"object"}  [] Is(v, "arr") -> {"array"}
    [] Is(v, "str") -> {"string"}  [] Is(v, "bool") -> {"boolean"}
    [] Is(v, "null") -> {"null"}
    [] IsNumber(v) -> {"number"} \cup {n \in {"integer"} : Halves(v) % 2 = 0}
    [] OTHER -> {}

\* What each keyword says of a value, one by one, if meaning[schema][value] says
\* it of every schema; a keyword with no meaning here is one nothing satisfies.
\* That a number is a multiple means what a division of floats can tell of it.
Says(keyword, v, s, meaning) ==
  LET it == s[keyword]
      branch == {i \in DOMAIN it : meaning[it[i]][v]}
  IN CASE keyword \in AnnotationKeywords -> TRUE
       [] keyword = "type" -> KindNames(v) \cap it # {}
       [] keyword = "const" -> v = it
       [] keyword = "enum" -> v \in it
       [] keyword = "minLength" -> Is(v, "str") => Len(v.str) >= it
       [] keyword = "maxLength" -> Is(v, "str") => Len(v.str) <= it
       [] keyword = "pattern" -> Is(v, "str") => v.str \in it.finds
       [] keyword = "minimum" -> IsNumber(v) => Halves(v) >= it
       [] keyword = "maximum" -> IsNumber(v) => Halves(v) <= it
       [] keyword = "exclusiveMinimum" -> IsNumber(v) => Halves(v) > it
       [] keyword = "exclusiveMaximum" -> IsNumber(v) => Halves(v) < it
       [] keyword = "multipleOf" -> IsNumber(v) => IsMultiple(Halves(v), it)
       [] keyword = "required" -> Is(v, "obj") => it \subseteq DOMAIN v.obj
       [] keyword = "properties" ->
            Is(v, "obj") => \A n \in DOMAIN it \cap DOMAIN v.obj : meaning[it[n]][v.obj[n]]
       [] keyword = "additionalProperties" ->
            Is(v, "obj") => \A n \in DOMAIN v.obj \ DOMAIN Properties(s) : meaning[it][v.obj[n]]
       [] keyword = "items" -> Is(v, "arr") => \A i \in DOMAIN v.arr : meaning[it][v.arr[i]]
       [] keyword = "minItems" -> Is(v, "arr") => Len(v.arr) >= it
       [] keyword = "maxItems" -> Is(v, "arr") => Len(v.arr) <= it
       [] keyword = "uniqueItems" -> Is(v, "arr") /\ it => Cardinality(Range(v.arr)) = Len(v.arr)
       [] keyword = "allOf" -> branch = DOMAIN it
       [] keyword = "anyOf" -> branch # {}
       [] keyword = "oneOf" -> Cardinality(branch) = 1
       [] OTHER -> FALSE

\* The meaning of a schema: every keyword is enforced, at any depth.
Meaning[s \in Schemas] ==
  [v \in Values |->
     IF IsBooleanSchema(s) THEN s = TrueSchema
                           ELSE \A k \in DOMAIN s : Says(k, v, s, Meaning)]

Satisfies(v, s) == Meaning[s][v]

WithBranches[s \in Schemas] == {s} \cup UNION {WithBranches[b] : b \in Range(Branches(s))}
Nested[s \in Schemas] == {s} \cup UNION {Nested[t] : t \in Subschemas(s)}

\* Every name in v is declared by one of the schemas that govern its place.
DeclaredBy[v \in Values] ==
  [schemas \in SUBSET Schemas |->
     LET governing == UNION {WithBranches[s] : s \in schemas}
         declaring(name) == {s \in governing : name \in DOMAIN Properties(s)}
     IN  /\ Is(v, "obj") => \A n \in DOMAIN v.obj :
              /\ declaring(n) # {}
              /\ DeclaredBy[v.obj[n]][{s.properties[n] : s \in declaring(n)}]
         /\ Is(v, "arr") => \A i \in DOMAIN v.arr :
              DeclaredBy[v.arr[i]][{s.items : s \in {t \in governing : Has(t, "items")}}]]

Declared(v, s) == DeclaredBy[v][{s}]

\* A schema whose branches leave the walk no choice: none has items, and no two
\* declare one name.
Walkable(s) ==
  \A t \in Nested[s] :
    /\ \A b \in WithBranches[t] \ {t} : ~Has(b, "items")
    /\ \A b, c \in WithBranches[t] :
         DOMAIN Properties(b) \cap DOMAIN Properties(c) # {} => b = c

-----------------------------------------------------------------------------
(* Properties *)

TypeOK ==
  /\ pc \in {"loading", "ready", "copied", "validated", "walked", "frozen", "sent",
             "answered", "done"}
  /\ (result = Absent) = (pc \notin {"answered", "done"})
  /\ safe # Absent => given # Absent /\ sent = Absent
  /\ pc \in {"frozen", "sent", "answered"} => sent # Absent

\* schema.py: "every keyword is either implemented or rejected".  For every
\* schema that loads, the verdict of _check is the meaning of all its keywords, that
\* of multipleOf up to the tolerance of its division; the depth rail of _check,
\* which inside anyOf or oneOf would turn a verdict round, never decides.
EveryKeywordEnforced ==
  pc = "copied" =>
    \A v \in Read(safe) : Check(v, entry.input) <=> Satisfies(v, entry.input)

\* preflight_read: "the value the caller may send is the value that was proved".
\* What goes out satisfies the pinned schema, however often the caller's mapping
\* changes its answers.  It fails for a mapping inside a list.
SentIsProved == sent # Absent => Satisfies(sent, entry.input)

\* _refuse_undeclared: what goes out has only names the schema declares, at
\* every depth, in arrays and under combinators.
OnlyDeclaredNames == sent # Absent => Declared(sent, entry.input)

\* The other direction: arguments that satisfy the schema, have only declared
\* names and keep within the rail are not refused, as long as the branches of
\* combinators leave the walk no choice.
LegalArgumentsPass ==
  pc = "done" /\ safe # Absent /\ Walkable(entry.input) =>
    \E v \in Read(safe) :
      \/ ~Satisfies(v, entry.input)
      \/ ~Declared(v, entry.input)
      \/ Deeper(v, MaxArgumentDepth)

\* A call ends with one result, and what is delivered satisfies the reviewed
\* output schema, from whichever part of the result it came, and is within the
\* bounds of a response.
DeliveredIsReviewed ==
  /\ TypeOK
  /\ result # Absent /\ Has(result, "data") =>
    /\ Bounded(result.data, Response)
    /\ entry.output # Absent => Satisfies(result.data, entry.output)

\* Servers repeat the structured content as text for clients that read only
\* text.  Whatever is accepted as structured content is accepted as that text,
\* with the same data, where the answer with the text is within the bounds of a
\* response: _exceeds_text_depth counts brackets, bound_json levels of values.
TextOf(v) ==
  [obj |-> [content |-> [arr |-> <<[obj |-> [type |-> [str |-> "text"], text |-> [text |-> v]]]>>]]]
DuplicateMeansTheSame ==
  LET repeated == TextOf(result.data)
  IN  /\ result # Absent /\ Has(result, "data") /\ result.source = "structured_content"
      /\ Bounded(repeated, Response) /\ ~(Size(repeated) > Response.bytes)
      => Outcome(repeated, entry.output) = Deliver(result.data, "text_content")

-----------------------------------------------------------------------------
(* Under what the theorems hold *)

\* No list has a mapping in it whose readings differ.
NoMappingInsideAList ==
  \A v \in Values : Is(v, "arr") => \A n \in Nodes[v] : ~Is(n.value, "live")

\* There are values enough to say that data comes back as text.
TextsAreValues ==
  {TextOf(Structured(raw)) : raw \in {r \in Results : Is(Structured(r), "obj")}} \subseteq Values
=============================================================================
