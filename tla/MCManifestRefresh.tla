-------------------------- MODULE MCManifestRefresh --------------------------
(****************************************************************************)
(* ManifestRefresh for TLC. Tool 1 may be called and tool 2 is denied. Tool *)
(* 1 is served with another description, with a schema that cannot be       *)
(* enforced and, while tool 2 has such a schema, with another one that can; *)
(* tool 2 disappears and is back.                                           *)
(****************************************************************************)
EXTENDS ManifestRefresh

Served(name, schema, meta) == [name |-> name, schema |-> schema, meta |-> meta]

FirstSurface == {Served(1, "s1", "m1"), Served(2, "s1", "m1")}

MCSurfaces ==
  {FirstSurface,
   {Served(1, "s1", "m2"), Served(2, "s1", "m1")},
   {Served(1, "s2", "m1"), Served(2, "unsupported", "m1")},
   {Served(1, "unsupported", "m1"), Served(2, "s1", "m1")},
   {Served(1, "s1", "m1")}}

\* The README quotes the digest beside a pin that is stale; or the pins are
\* brought up to date and another file is touched as well.
MCAmendments ==
  {[fixed |-> {"tests", "changelog"}, quoted |-> {"readme"}, others |-> FALSE],
   [fixed |-> Pinned, quoted |-> {}, others |-> TRUE]}

MCUnsupported == {"unsupported"}

FirstEntry(t) ==
  [name |-> t.name, schema |-> t.schema, meta |-> t.meta,
   capability |-> IF t.name = 1 THEN "read_one" ELSE NoCapability,
   disposition |-> IF t.name = 1 THEN "allowed" ELSE "denied", mutates |-> t.name # 1,
   rationale |-> "reviewed", schema_digest |-> SchemaDigest(t),
   metadata_digest |-> MetadataDigest(t)]

FirstManifest ==
  LET document == [version |-> [day |-> 0, count |-> 0], observed_at |-> 0,
                   reviewer |-> "owner",
                   entries |-> <<FirstEntry(Served(1, "s1", "m1")), FirstEntry(Served(2, "s1", "m1"))>>,
                   provider_surface_digest |-> SurfaceDigest(FirstSurface),
                   full_manifest_digest |-> "none"]
  IN  [document EXCEPT !.full_manifest_digest = FullDigest(document)]

MCFirstTree ==
  LET digest == FirstManifest.full_manifest_digest
  IN  [manifest |-> FirstManifest, version |-> 1, lock |-> 1,
       tests |-> [pin |-> digest, quotes |-> {}],
       readme |-> [pin |-> <<1, digest>>, quotes |-> {}], design |-> <<1, digest>>,
       changelog |-> {<<1, digest>>}, marked |-> Markers,
       link |-> [base |-> 0, head |-> 1], retained |-> NoLink, others |-> "as it was"]
=============================================================================
