-------------------------- MODULE ManifestDocument --------------------------
(****************************************************************************)
(* The manifest as a document: how manifest.py loads one and renders it     *)
(* back, and how refresh_manifest.py makes a new one from an observation of *)
(* the provider.                                                            *)
(*                                                                          *)
(* A digest is what was hashed: [kind, of].  Two digests are equal exactly  *)
(* when the kinds and the contents are.  Tool names are numbers, so that    *)
(* they have an order; the schemas of a tool are one value, and so are its  *)
(* description and annotations, as _observed_tool or refresh() left them: a *)
(* missing description is "" and missing annotations are {} to the digests. *)
(****************************************************************************)
EXTENDS Naturals, Sequences

CONSTANTS
  Unsupported,   \* the schemas ensure_schema_supported refuses
  EmptySchema    \* {}

NoCapability == "null"

\* A tool as the provider serves it, and as an entry records it.
Tool(e) == [name |-> e.name, schema |-> e.schema, meta |-> e.meta]
Entries(doc) == {doc.entries[i] : i \in DOMAIN doc.entries}
Tools(doc) == {Tool(e) : e \in Entries(doc)}
ToolNames(tools) == {t.name : t \in tools}

\* What a reviewer decides about a tool.
Decision(e) == [capability |-> e.capability, disposition |-> e.disposition,
                mutates |-> e.mutates, rationale |-> e.rationale]
Decisions(doc) == {[name |-> e.name, decision |-> Decision(e)] : e \in Entries(doc)}

-----------------------------------------------------------------------------
(* Digests *)

SchemaDigest(t) == [kind |-> "schema", of |-> <<t.name, t.schema>>]
MetadataDigest(t) == [kind |-> "metadata", of |-> t.meta]
SurfaceDigest(tools) == [kind |-> "provider_surface", of |-> tools]

\* compute_full_manifest_digest: everything but the digest itself, the entries
\* in canonical order.
FullDigest(doc) ==
  [kind |-> "full_manifest",
   of |-> <<doc.version, doc.observed_at, doc.reviewer, doc.provider_surface_digest, Entries(doc)>>]

-----------------------------------------------------------------------------
(* _validate_document() *)

TopLevelFields ==
  {"version", "observed_at", "reviewer", "entries",
   "provider_surface_digest", "full_manifest_digest"}

EntryFields ==
  {"name", "schema", "meta", "capability", "disposition", "mutates", "rationale",
   "schema_digest", "metadata_digest"}

\* _validate_entry: the fields, and the digests recomputed from them.  Only an
\* allowed entry needs schemas that can be enforced.
ValidEntry(e) ==
  /\ DOMAIN e = EntryFields
  /\ e.name \in Nat
  /\ e.schema # EmptySchema
  /\ e.disposition \in {"allowed", "denied"}
  /\ e.disposition = "allowed" => e.schema \notin Unsupported
  /\ e.mutates \in BOOLEAN
  /\ e.rationale # ""
  /\ e.schema_digest = SchemaDigest(e)
  /\ e.metadata_digest = MetadataDigest(e)

\* _validate_entries: at least one, none twice, in canonical order.
ValidEntries(entries) ==
  /\ entries # <<>>
  /\ \A i \in DOMAIN entries : ValidEntry(entries[i])
  /\ \A i, j \in DOMAIN entries : i < j =>
       /\ entries[i].name < entries[j].name
       /\ entries[i].capability # NoCapability => entries[i].capability # entries[j].capability

Loads(doc) ==
  /\ DOMAIN doc = TopLevelFields
  /\ doc.reviewer # ""
  /\ doc.entries \in Seq(Entries(doc)) /\ ValidEntries(doc.entries)
  /\ doc.provider_surface_digest = SurfaceDigest(Tools(doc))
  /\ doc.full_manifest_digest = FullDigest(doc)
  /\ \E e \in Entries(doc) : e.disposition = "allowed"

\* The verdict of assess_surface on a surface that was served whole.
Ready(doc, tools) ==
  /\ SurfaceDigest(tools) = doc.provider_surface_digest
  /\ ToolNames(tools) = ToolNames(Tools(doc))
  /\ \A t \in tools : \E e \in Entries(doc) :
       /\ e.name = t.name
       /\ e.schema_digest = SchemaDigest(t)
       /\ e.metadata_digest = MetadataDigest(t)

-----------------------------------------------------------------------------
(* refresh() *)

\* Faulty: looks at the schemas only.
MovedSchemas(doc, tools) ==
  {t \in tools : \A e \in Entries(doc) : e.name = t.name => e.schema_digest # SchemaDigest(t)}

\* The tools whose digests are not those of their entry.
Moved(doc, tools) ==
  {t \in tools : \A e \in Entries(doc) : e.name = t.name =>
     e.schema_digest # SchemaDigest(t) \/ e.metadata_digest # MetadataDigest(t)}

\* YYYY.MM.DD of the observation, with a counter on the same day.
NextVersion(previous, day) ==
  IF previous.day = day THEN [day |-> day, count |-> previous.count + 1]
                        ELSE [day |-> day, count |-> 0]

\* The candidate's own fields: denied, with no capability and no answer to
\* whether the tool mutates.
CandidateDecision ==
  [capability |-> NoCapability, disposition |-> "denied", mutates |-> "null",
   rationale |-> "UNREVIEWED"]

\* Faulty: takes the rationale that `admin discover` wrote.
RefreshFromCandidate(kept, t) ==
  [kept EXCEPT !.schema = t.schema, !.meta = t.meta, !.rationale = CandidateDecision.rationale,
               !.schema_digest = SchemaDigest(t), !.metadata_digest = MetadataDigest(t)]

\* The decisions are carried forward, the provider's fields come from the
\* observation.
RefreshEntry(kept, t) ==
  [kept EXCEPT !.schema = t.schema, !.meta = t.meta,
               !.schema_digest = SchemaDigest(t), !.metadata_digest = MetadataDigest(t)]

\* The new document; it may not load.
Refreshed(doc, candidate) ==
  LET observed(name) == CHOOSE t \in candidate.tools : t.name = name
      entries == [i \in DOMAIN doc.entries |->
                    RefreshEntry(doc.entries[i], observed(doc.entries[i].name))]
      refreshed == [doc EXCEPT
        !.version = NextVersion(doc.version, candidate.observed_at),
        !.observed_at = candidate.observed_at,
        !.entries = entries,
        !.provider_surface_digest = SurfaceDigest({Tool(entries[i]) : i \in DOMAIN entries})]
  IN  [refreshed EXCEPT !.full_manifest_digest = FullDigest(refreshed)]

\* classify_candidate
Classify(doc, tools) ==
  CASE ToolNames(tools) # ToolNames(Tools(doc)) -> "review_required"
    [] ToolNames(tools) = ToolNames(Tools(doc)) /\ Moved(doc, tools) # {} -> "refresh"
    [] OTHER -> "no_drift"
=============================================================================
