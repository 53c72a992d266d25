-------------------------- MODULE SurfaceDiscovery --------------------------
(****************************************************************************)
(* How a gateway learns what the provider offers, and compares it with what *)
(* was reviewed: _PrivateSession.discover of transport.py pages through     *)
(* tools/list under its budgets, then assess_surface of manifest.py lists   *)
(* every difference from the manifest.  The provider may answer each        *)
(* request with any page.                                                   *)
(****************************************************************************)
EXTENDS Naturals, SequencesExt

CONSTANTS
  Manifest,      \* the reviewed tools, one for each name
  Offered,       \* the tools a provider may offer: [name, schema, description, annotations]
  Null,          \* a description or annotations that a provider leaves out
  Cursors,       \* pagination cursors
  NoCursor,      \* the first page's cursor; a last page's next cursor
  Malformed,     \* an entry that is no tool, or a cursor that is no string
  MaxPageTools,  \* bound: tools on one page
  MaxPages,      \* limits.max_discovery_pages
  MaxTools,      \* limits.max_discovery_tools
  MaxBytes       \* limits.max_discovery_bytes

IsTool(t) == t = [name |-> t.name, schema |-> t.schema,
                  description |-> t.description, annotations |-> t.annotations]

\* A manifest's format has no null: a description is a string, annotations an object.
ASSUME DiscoveryAssumption ==
  /\ IsFiniteSet(Manifest) /\ \A x, y \in Manifest : x.name = y.name => x = y
  /\ \A t \in Manifest \cup Offered : IsTool(t) /\ t # Malformed
  /\ \A e \in Manifest : Null \notin {e.description, e.annotations}
  /\ NoCursor \notin Cursors /\ Malformed \notin Cursors \cup {NoCursor}
  /\ MaxPageTools \in Nat
  /\ MaxPages \in Nat \ {0} /\ MaxTools \in Nat \ {0} /\ MaxBytes \in Nat \ {0}

VARIABLES
  pc,        \* "listing", "assess", "ready", "not_ready" or "failed"
  cursor,    \* the cursor of the next request
  seen,      \* cursors the provider has returned
  tools,     \* the tools read so far
  pages,     \* pages requested so far
  bytes,     \* bytes read so far
  complete,  \* ObservedSurface.complete
  findings,  \* the drift findings
  served     \* history: what was asked and what was answered

vars == <<pc, cursor, seen, tools, pages, bytes, complete, findings, served>>

Page == [tools : BoundedSeq(Offered \cup {Malformed}, MaxPageTools),
         next : Cursors \cup {NoCursor, Malformed}]

\* _observed_tool: a description or annotations left out are mapped onto the
\* empty ones, as in the manifest.
ObservedTool(t) ==
  [name |-> t.name, schema |-> t.schema,
   description |-> IF t.description = Null THEN "" ELSE t.description,
   annotations |-> IF t.annotations = Null THEN {} ELSE t.annotations]

ObservedTools(ts) == [i \in DOMAIN ts |-> ObservedTool(ts[i])]

\* A page with no tools still takes bytes.
PageBytes(p) == 1 + Len(p.tools)

Init ==
  /\ pc = "listing"
  /\ cursor = NoCursor /\ seen = {} /\ tools = <<>>
  /\ pages = 0 /\ bytes = 0
  /\ complete = TRUE /\ findings = {} /\ served = <<>>

-----------------------------------------------------------------------------
(* discover() *)

\* Faulty: one page too many.
PagesLeftOffByOne == pages <= MaxPages

PagesLeft == pages < MaxPages

\* The page budget is spent: what was read is not the whole surface.
PageBudgetSpent ==
  /\ pc = "listing" /\ ~PagesLeft
  /\ complete' = FALSE
  /\ pc' = "assess"
  /\ UNCHANGED <<cursor, seen, tools, pages, bytes, findings, served>>

\* Faulty: every cursor is followed.
FollowsAnyCursor(p) ==
  IF p.next = NoCursor
    THEN pc' = "assess" /\ UNCHANGED <<cursor, seen>>
    ELSE /\ cursor' = p.next
         /\ seen' = seen \cup {p.next}
         /\ UNCHANGED pc

\* A repeated cursor has no budget: it fails the discovery.
FollowsCursor(p) ==
  CASE p.next = NoCursor -> pc' = "assess" /\ UNCHANGED <<cursor, seen>>
    [] p.next \in seen \cup {Malformed} -> pc' = "failed" /\ UNCHANGED <<cursor, seen>>
    [] OTHER             -> /\ cursor' = p.next
                            /\ seen' = seen \cup {p.next}
                            /\ UNCHANGED pc

\* The tools of a page are mapped as far as the tool budget goes; a page that
\* goes beyond it ends the discovery, incomplete, and the rest is not looked at.
TakesTools(p) ==
  LET room == MaxTools - Len(tools)
      taken == SubSeq(p.tools, 1, Min({Len(p.tools), room}))
  IN  CASE Malformed \in Range(taken) ->
             pc' = "failed" /\ UNCHANGED <<cursor, seen, tools, complete>>
        [] Malformed \notin Range(taken) /\ Len(p.tools) > room ->
             /\ tools' = tools \o ObservedTools(taken) /\ complete' = FALSE
             /\ pc' = "assess"
             /\ UNCHANGED <<cursor, seen>>
        [] OTHER -> /\ tools' = tools \o ObservedTools(taken) /\ UNCHANGED complete
                    /\ FollowsCursor(p)

\* One request and its answer.
ReadPage(p) ==
  /\ pc = "listing" /\ PagesLeft
  /\ pages' = pages + 1
  /\ bytes' = bytes + PageBytes(p)
  /\ served' = Append(served, [asked |-> cursor, tools |-> p.tools, next |-> p.next])
  /\ IF bytes' > MaxBytes
       THEN pc' = "failed" /\ UNCHANGED <<cursor, seen, tools, complete>>
       ELSE TakesTools(p)
  /\ UNCHANGED findings

\* A timeout, a refused request or an answer that is no page raises.
RequestFails ==
  /\ pc = "listing" /\ PagesLeft
  /\ pages' = pages + 1
  /\ pc' = "failed"
  /\ UNCHANGED <<cursor, seen, tools, bytes, complete, findings, served>>

-----------------------------------------------------------------------------
(* assess_surface() *)

Names(ts) == {t.name : t \in ts}
Places(name) == {i \in DOMAIN tools : tools[i].name = name}
Count(name) == Cardinality(Places(name))

\* by_name.setdefault: the first tool of a name.
FirstOf(name) == tools[Min(Places(name))]

\* provider_surface_digest: the tools sorted by name.  Two surfaces have one
\* digest only if they have the same tools, those of one name in the same order.
SurfaceDigest(seq) ==
  {[tool |-> seq[i], nth |-> Cardinality({j \in 1..i : seq[j].name = seq[i].name})] :
     i \in DOMAIN seq}

Differences ==
  [incomplete_discovery |-> ~complete,
   duplicate_provider_tool |-> \E t \in Range(tools) : Count(t.name) > 1,
   unknown_provider_tool |-> ~(Names(Range(tools)) \subseteq Names(Manifest)),
   missing_provider_tool |-> ~(Names(Manifest) \subseteq Names(Range(tools))),
   schema_digest_mismatch |->
     \E e \in Manifest : Count(e.name) > 0 /\ FirstOf(e.name).schema # e.schema,
   metadata_digest_mismatch |->
     \E e \in Manifest :
       /\ Count(e.name) > 0
       /\ \/ FirstOf(e.name).description # e.description
          \/ FirstOf(e.name).annotations # e.annotations,
   provider_surface_digest_mismatch |->
     SurfaceDigest(tools) # SurfaceDigest(SetToSeq(Manifest))]

Reasons == {r \in DOMAIN Differences : Differences[r]}

\* Faulty: the names and the digests of the first tool of each name only.
AssessByName ==
  /\ pc = "assess"
  /\ findings' = Reasons \ {"duplicate_provider_tool", "provider_surface_digest_mismatch"}
  /\ pc' = IF findings' = {} THEN "ready" ELSE "not_ready"
  /\ UNCHANGED <<cursor, seen, tools, pages, bytes, complete, served>>

Assess ==
  /\ pc = "assess"
  /\ findings' = Reasons
  /\ pc' = IF findings' = {} THEN "ready" ELSE "not_ready"
  /\ UNCHANGED <<cursor, seen, tools, pages, bytes, complete, served>>

Next ==
  \/ PageBudgetSpent
  \/ \E p \in Page : ReadPage(p)
  \/ RequestFails
  \/ Assess

Spec == Init /\ [][Next]_vars

-----------------------------------------------------------------------------
(* Properties *)

TypeOK ==
  /\ pc \in {"listing", "assess", "ready", "not_ready", "failed"}
  /\ cursor \in Cursors \cup {NoCursor} /\ seen \subseteq Cursors
  /\ tools \in Seq({ObservedTool(t) : t \in Offered}) /\ complete \in BOOLEAN
  /\ pages \in Nat /\ bytes \in Nat
  /\ findings \subseteq DOMAIN Differences

\* Everything the provider has answered.
ServedTools == FlattenSeq([i \in DOMAIN served |-> served[i].tools])

\* The state is well typed and no budget is overrun, whatever the provider
\* answers; every answer spends a page, so discovery ends.
WithinBudgets ==
  /\ TypeOK
  /\ pages <= MaxPages /\ Len(served) <= pages
  /\ Len(tools) <= MaxTools
  /\ pc # "failed" => bytes <= MaxBytes

\* A surface called complete is the whole list: all that was served, up to a
\* page without a next cursor, each page asked for once (discover).
CompleteMeansWhole ==
  pc \in {"assess", "ready", "not_ready"} /\ complete =>
    /\ served # <<>> /\ Last(served).next = NoCursor
    /\ tools = ObservedTools(ServedTools)
    /\ \A i, j \in DOMAIN served : i # j => served[i].asked # served[j].asked

\* The tool as served is the reviewed one, save that it may leave out what was
\* reviewed as empty: the manifest's format does not tell the two apart (a known
\* limitation: the docstring of _observed_tool, and manifest.py:124-137).
ServesAs(t, e) ==
  /\ t # Malformed
  /\ t.name = e.name /\ t.schema = e.schema
  /\ t.description = e.description \/ (t.description = Null /\ e.description = "")
  /\ t.annotations = e.annotations \/ (t.annotations = Null /\ e.annotations = {})

\* The provider served the reviewed tools, each once and unchanged up to the two
\* spellings of an empty field, to the last page.
ServedAsReviewed ==
  /\ Last(served).next = NoCursor
  /\ Len(ServedTools) = Cardinality(Manifest)
  /\ \A t \in Range(ServedTools) : \E e \in Manifest : ServesAs(t, e)
  /\ \A e \in Manifest : \E t \in Range(ServedTools) : ServesAs(t, e)

\* The gateway is ready exactly when what the provider served was reviewed, up to
\* the two spellings of an empty field (_observed_tool, assess_surface).
ReadyIffReviewed ==
  pc \in {"ready", "not_ready"} => (pc = "ready" <=> ServedAsReviewed)
=============================================================================
