------------------------ MODULE ManifestRefreshProofs ------------------------
(****************************************************************************)
(* Theorems of ManifestRefresh.  The first half is about documents alone:   *)
(* when a manifest that loads is ready on a surface, what classify_candidate*)
(* and refresh make of it, and what prepare_refresh leaves in a checkout.   *)
(* The second half carries those facts along the runs.                      *)
(****************************************************************************)
EXTENDS ManifestRefresh, SequenceTheorems, WellFoundedInduction, TLAPS

-----------------------------------------------------------------------------
(* Documents *)

\* The entries of a manifest that loads are known by their names.
LEMMA EntriesByName ==
  ASSUME NEW doc, Loads(doc)
  PROVE  /\ Len(doc.entries) \in Nat /\ DOMAIN doc.entries = 1..Len(doc.entries)
         /\ \A e \in Entries(doc) : ValidEntry(e)
         /\ \A e, f \in Entries(doc) : e.name = f.name => e = f
<1>1. Len(doc.entries) \in Nat /\ DOMAIN doc.entries = 1..Len(doc.entries)
  <2>1. doc.entries \in Seq(Entries(doc))
    BY DEF Loads
  <2>2. QED
    BY <2>1, LenProperties
<1>2. \A i, j \in DOMAIN doc.entries : i < j => doc.entries[i].name < doc.entries[j].name
  BY DEF Loads, ValidEntries
<1>3. \A e \in Entries(doc) : ValidEntry(e)
  BY DEF Loads, ValidEntries, Entries
<1>4. ASSUME NEW i \in DOMAIN doc.entries, NEW j \in DOMAIN doc.entries,
             doc.entries[i].name = doc.entries[j].name
      PROVE  i = j
  <2>1. doc.entries[i].name \in Nat /\ doc.entries[j].name \in Nat
    BY DEF Loads, ValidEntries, ValidEntry
  <2>2. i \in Nat /\ j \in Nat
    BY <1>1
  <2>3. ~(i < j) /\ ~(j < i)
    BY <1>2, <1>4, <2>1
  <2>4. QED
    BY <2>2, <2>3
<1>5. ASSUME NEW e \in Entries(doc), NEW f \in Entries(doc), e.name = f.name
      PROVE  e = f
  <2>1. PICK i \in DOMAIN doc.entries : e = doc.entries[i]
    BY DEF Entries
  <2>2. PICK j \in DOMAIN doc.entries : f = doc.entries[j]
    BY DEF Entries
  <2>3. QED
    BY <1>4, <1>5, <2>1, <2>2
<1>6. QED
  BY <1>1, <1>3, <1>5

\* A tool has the digests of an entry exactly when it is the tool of that entry.
LEMMA DigestsTellTools ==
  ASSUME NEW e, ValidEntry(e), NEW t, t = Tool(t), e.name = t.name
  PROVE  (e.schema_digest = SchemaDigest(t) /\ e.metadata_digest = MetadataDigest(t)) <=> t = Tool(e)
<1>1. e.schema_digest = SchemaDigest(e) /\ e.metadata_digest = MetadataDigest(e)
  BY DEF ValidEntry
<1>2. SchemaDigest(e) = SchemaDigest(t) <=> e.schema = t.schema
  BY DEF SchemaDigest
<1>3. MetadataDigest(e) = MetadataDigest(t) <=> e.meta = t.meta
  BY DEF MetadataDigest
<1>4. t = Tool(e) <=> e.schema = t.schema /\ e.meta = t.meta
  <2>1. t = Tool(e) => t.schema = e.schema /\ t.meta = e.meta
    BY DEF Tool
  <2>2. e.schema = t.schema /\ e.meta = t.meta => Tool(e) = Tool(t)
    BY DEF Tool
  <2>3. QED
    BY <2>1, <2>2
<1>5. QED
  BY <1>1, <1>2, <1>3, <1>4

\* A manifest that loads is ready on its own tools and on nothing else.
LEMMA ReadyOnItsTools ==
  ASSUME NEW doc, Loads(doc), NEW tools, \A t \in tools : t = Tool(t)
  PROVE  Ready(doc, tools) <=> tools = Tools(doc)
<1>1. doc.provider_surface_digest = SurfaceDigest(Tools(doc))
  BY DEF Loads
<1>2. Ready(doc, tools) => tools = Tools(doc)
  BY <1>1 DEF Ready, SurfaceDigest
<1>3. ASSUME tools = Tools(doc)
      PROVE  Ready(doc, tools)
  <2>1. ASSUME NEW t \in tools
        PROVE  \E e \in Entries(doc) :
                 /\ e.name = t.name
                 /\ e.schema_digest = SchemaDigest(t) /\ e.metadata_digest = MetadataDigest(t)
    <3>1. PICK e \in Entries(doc) : t = Tool(e)
      BY <1>3 DEF Tools
    <3>2. e.name = t.name /\ ValidEntry(e)
      BY <3>1, EntriesByName DEF Tool
    <3>3. QED
      BY <3>1, <3>2, DigestsTellTools
  <2>2. QED
    BY <1>1, <1>3, <2>1 DEF Ready
<1>4. QED
  BY <1>2, <1>3

\* Nothing moved means that the surface is that of the manifest.
LEMMA NothingMoved ==
  ASSUME NEW doc, Loads(doc), NEW tools, \A t \in tools : t = Tool(t),
         ToolNames(tools) = ToolNames(Tools(doc))
  PROVE  Moved(doc, tools) = {} <=> tools = Tools(doc)
<1>1. ASSUME Moved(doc, tools) = {}
      PROVE  tools = Tools(doc)
  <2>1. ASSUME NEW t \in tools PROVE \E e \in Entries(doc) : e.name = t.name /\ t = Tool(e)
    <3>1. PICK e \in Entries(doc) :
            /\ e.name = t.name
            /\ e.schema_digest = SchemaDigest(t) /\ e.metadata_digest = MetadataDigest(t)
      BY <1>1 DEF Moved
    <3>2. QED
      BY <3>1, EntriesByName, DigestsTellTools
  <2>2. tools \subseteq Tools(doc)
    BY <2>1 DEF Tools
  <2>3. ASSUME NEW s \in Tools(doc) PROVE s \in tools
    <3>1. PICK e \in Entries(doc) : s = Tool(e)
      BY DEF Tools
    <3>2. s.name \in ToolNames(Tools(doc)) /\ s.name = e.name
      BY <3>1 DEF ToolNames, Tool
    <3>3. PICK t \in tools : t.name = e.name
      BY <3>2 DEF ToolNames
    <3>4. PICK f \in Entries(doc) : f.name = t.name /\ t = Tool(f)
      BY <2>1
    <3>5. e = f
      BY <3>3, <3>4, EntriesByName
    <3>6. QED
      BY <3>1, <3>4, <3>5
  <2>4. QED
    BY <2>2, <2>3
<1>2. ASSUME tools = Tools(doc), NEW t \in tools
      PROVE  \E e \in Entries(doc) :
               /\ e.name = t.name
               /\ e.schema_digest = SchemaDigest(t) /\ e.metadata_digest = MetadataDigest(t)
  <2>1. PICK e \in Entries(doc) : t = Tool(e)
    BY <1>2 DEF Tools
  <2>2. e.name = t.name /\ ValidEntry(e)
    BY <2>1, EntriesByName DEF Tool
  <2>3. QED
    BY <2>1, <2>2, DigestsTellTools
<1>3. QED
  BY <1>1, <1>2 DEF Moved

\* classify_candidate and assess_surface look at different parts of the document,
\* and agree.
LEMMA NoDriftOnItsTools ==
  ASSUME NEW doc, Loads(doc), NEW tools, \A t \in tools : t = Tool(t)
  PROVE  Classify(doc, tools) = "no_drift" <=> tools = Tools(doc)
<1>1. CASE ToolNames(tools) = ToolNames(Tools(doc))
  <2>1. Classify(doc, tools) = "no_drift" <=> Moved(doc, tools) = {}
    BY <1>1 DEF Classify
  <2>2. QED
    BY <1>1, <2>1, NothingMoved
<1>2. CASE ToolNames(tools) # ToolNames(Tools(doc))
  BY <1>2 DEF Classify
<1>3. QED
  BY <1>1, <1>2

LEMMA SameNamesToRefresh ==
  ASSUME NEW doc, NEW tools, Classify(doc, tools) = "refresh"
  PROVE  ToolNames(tools) = ToolNames(Tools(doc))
BY DEF Classify

\* An entry that takes a tool of its name keeps its decision, and is valid unless
\* refresh() has to refuse the tool.
LEMMA RefreshedEntry ==
  ASSUME NEW e, ValidEntry(e), NEW t, t = Tool(t), t.name = e.name
  PROVE  LET f == RefreshEntry(e, t)
         IN  /\ f.name = e.name /\ f.capability = e.capability /\ f.disposition = e.disposition
             /\ Decision(f) = Decision(e) /\ Tool(f) = t
             /\ ValidEntry(f) <=> ~Refusable(e, t)
<1> DEFINE f == RefreshEntry(e, t)
<1>1. /\ DOMAIN f = EntryFields /\ f.name = e.name /\ f.schema = t.schema /\ f.meta = t.meta
      /\ f.capability = e.capability /\ f.disposition = e.disposition /\ f.mutates = e.mutates
      /\ f.rationale = e.rationale
      /\ f.schema_digest = SchemaDigest(t) /\ f.metadata_digest = MetadataDigest(t)
  BY DEF RefreshEntry, ValidEntry, EntryFields
<1> HIDE DEF f
<1>2. SchemaDigest(f) = SchemaDigest(t) /\ MetadataDigest(f) = MetadataDigest(t)
  BY <1>1 DEF SchemaDigest, MetadataDigest
<1>3. Tool(f) = t
  BY <1>1 DEF Tool
<1>4. Decision(f) = Decision(e)
  BY <1>1 DEF Decision
<1>5. ValidEntry(f) <=> ~Refusable(e, t)
  BY <1>1, <1>2 DEF ValidEntry, Refusable
<1>6. QED
  BY <1>1, <1>3, <1>4, <1>5 DEF f

\* What refresh() makes of a document, before it is loaded: each entry takes the
\* observed tool of its name, and the digests are those of the result.
LEMMA RefreshedDocument ==
  ASSUME NEW doc, Loads(doc), NEW candidate, \A t \in candidate.tools : t = Tool(t),
         ToolNames(candidate.tools) = ToolNames(Tools(doc))
  PROVE  LET after == Refreshed(doc, candidate)
         IN  /\ DOMAIN after = TopLevelFields /\ after.reviewer = doc.reviewer
             /\ after.provider_surface_digest = SurfaceDigest(Tools(after))
             /\ after.full_manifest_digest = FullDigest(after)
             /\ DOMAIN after.entries = DOMAIN doc.entries
             /\ after.entries = [i \in DOMAIN doc.entries |-> after.entries[i]]
             /\ \A i \in DOMAIN doc.entries : \E t \in candidate.tools :
                  t.name = doc.entries[i].name /\ after.entries[i] = RefreshEntry(doc.entries[i], t)
<1> DEFINE observed(name) == CHOOSE t \in candidate.tools : t.name = name
           entries == [i \in DOMAIN doc.entries |->
                         RefreshEntry(doc.entries[i], observed(doc.entries[i].name))]
           refreshed == [doc EXCEPT
             !.version = NextVersion(doc.version, candidate.observed_at),
             !.observed_at = candidate.observed_at,
             !.entries = entries,
             !.provider_surface_digest = SurfaceDigest({Tool(entries[i]) : i \in DOMAIN entries})]
           after == [refreshed EXCEPT !.full_manifest_digest = FullDigest(refreshed)]
<1>1. Refreshed(doc, candidate) = after
  BY DEF Refreshed
<1>2. /\ DOMAIN entries = DOMAIN doc.entries
      /\ entries = [i \in DOMAIN doc.entries |-> entries[i]]
  OBVIOUS
<1>3. ASSUME NEW i \in DOMAIN doc.entries
      PROVE  \E t \in candidate.tools :
               t.name = doc.entries[i].name /\ entries[i] = RefreshEntry(doc.entries[i], t)
  <2> DEFINE e == doc.entries[i]
  <2>1. Tool(e) \in Tools(doc) /\ Tool(e).name = e.name
    BY DEF Tools, Tool, Entries
  <2>2. e.name \in ToolNames(candidate.tools)
    BY <2>1 DEF ToolNames
  <2>3. observed(e.name) \in candidate.tools /\ observed(e.name).name = e.name
    BY <2>2 DEF ToolNames
  <2>4. entries[i] = RefreshEntry(e, observed(e.name))
    OBVIOUS
  <2> HIDE DEF observed
  <2>5. QED
    BY <2>3, <2>4
<1> HIDE DEF entries
<1>4. /\ DOMAIN refreshed = TopLevelFields /\ refreshed.reviewer = doc.reviewer
      /\ refreshed.entries = entries
      /\ refreshed.provider_surface_digest = SurfaceDigest({Tool(entries[i]) : i \in DOMAIN entries})
  BY DEF Loads, TopLevelFields
<1> HIDE DEF refreshed
<1>5. /\ DOMAIN after = TopLevelFields /\ after.reviewer = doc.reviewer /\ after.entries = entries
      /\ after.provider_surface_digest = SurfaceDigest({Tool(entries[i]) : i \in DOMAIN entries})
      /\ after.full_manifest_digest = FullDigest(refreshed)
      /\ after.version = refreshed.version /\ after.observed_at = refreshed.observed_at
      /\ after.provider_surface_digest = refreshed.provider_surface_digest
      /\ after.reviewer = refreshed.reviewer
  BY <1>4 DEF TopLevelFields
<1> HIDE DEF after
<1>6. Tools(after) = {Tool(entries[i]) : i \in DOMAIN entries}
  BY <1>5 DEF Tools, Entries
<1>7. FullDigest(after) = FullDigest(refreshed)
  BY <1>4, <1>5 DEF FullDigest, Entries
<1>8. QED
  BY <1>1, <1>2, <1>3, <1>5, <1>6, <1>7

\* The observed tools, one of each name, are the tools of the refreshed manifest.
LEMMA RefreshTakesTheTools ==
  ASSUME NEW doc, Loads(doc), NEW candidate, \A t \in candidate.tools : t = Tool(t),
         LoadsCandidate(candidate.tools),
         ToolNames(candidate.tools) = ToolNames(Tools(doc))
  PROVE  Tools(Refreshed(doc, candidate)) = candidate.tools
<1> DEFINE after == Refreshed(doc, candidate)
<1>1. /\ DOMAIN after.entries = DOMAIN doc.entries
      /\ \A i \in DOMAIN doc.entries : \E t \in candidate.tools :
           t.name = doc.entries[i].name /\ after.entries[i] = RefreshEntry(doc.entries[i], t)
  BY RefreshedDocument
<1> HIDE DEF after
<1>2. ASSUME NEW i \in DOMAIN doc.entries, NEW t \in candidate.tools,
             t.name = doc.entries[i].name
      PROVE  Tool(after.entries[i]) = t
  <2>1. PICK u \in candidate.tools :
          u.name = doc.entries[i].name /\ after.entries[i] = RefreshEntry(doc.entries[i], u)
    BY <1>1
  <2>2. u = t
    BY <1>2, <2>1 DEF LoadsCandidate
  <2>3. ValidEntry(doc.entries[i])
    BY EntriesByName DEF Entries
  <2>4. QED
    BY <1>2, <2>1, <2>2, <2>3, RefreshedEntry
<1>3. Tools(after) = {Tool(after.entries[i]) : i \in DOMAIN doc.entries}
  BY <1>1 DEF Tools, Entries
<1>4. Tools(after) \subseteq candidate.tools
  BY <1>1, <1>2, <1>3
<1>5. ASSUME NEW t \in candidate.tools PROVE t \in Tools(after)
  <2>1. t.name \in ToolNames(Tools(doc))
    BY DEF ToolNames
  <2>2. PICK i \in DOMAIN doc.entries : doc.entries[i].name = t.name
    <3>1. PICK e \in Entries(doc) : Tool(e).name = t.name
      BY <2>1 DEF ToolNames, Tools
    <3>2. QED
      BY <3>1 DEF Entries, Tool
  <2>3. QED
    BY <1>2, <1>3, <2>2
<1>6. QED
  BY <1>4, <1>5 DEF after

\* refresh() decides nothing, and refuses a candidate only for what it serves.
LEMMA RefreshDecidesNothing ==
  ASSUME NEW doc, Loads(doc), NEW candidate, \A t \in candidate.tools : t = Tool(t),
         LoadsCandidate(candidate.tools),
         ToolNames(candidate.tools) = ToolNames(Tools(doc))
  PROVE  /\ Decisions(Refreshed(doc, candidate)) = Decisions(doc)
         /\ Loads(Refreshed(doc, candidate)) <=>
              \A e \in Entries(doc), t \in candidate.tools : t.name = e.name => ~Refusable(e, t)
<1> DEFINE after == Refreshed(doc, candidate)
<1>1. /\ DOMAIN after = TopLevelFields /\ after.reviewer = doc.reviewer
      /\ after.provider_surface_digest = SurfaceDigest(Tools(after))
      /\ after.full_manifest_digest = FullDigest(after)
      /\ DOMAIN after.entries = DOMAIN doc.entries
      /\ after.entries = [i \in DOMAIN doc.entries |-> after.entries[i]]
      /\ \A i \in DOMAIN doc.entries : \E t \in candidate.tools :
           t.name = doc.entries[i].name /\ after.entries[i] = RefreshEntry(doc.entries[i], t)
  BY RefreshedDocument
<1> HIDE DEF after
<1>2. /\ Len(doc.entries) \in Nat /\ DOMAIN doc.entries = 1..Len(doc.entries)
      /\ \A i \in DOMAIN doc.entries : ValidEntry(doc.entries[i])
  BY EntriesByName DEF Entries
<1>3. ASSUME NEW i \in DOMAIN doc.entries, NEW t \in candidate.tools,
             t.name = doc.entries[i].name
      PROVE  /\ after.entries[i].name = doc.entries[i].name
             /\ after.entries[i].capability = doc.entries[i].capability
             /\ after.entries[i].disposition = doc.entries[i].disposition
             /\ Decision(after.entries[i]) = Decision(doc.entries[i])
             /\ ValidEntry(after.entries[i]) <=> ~Refusable(doc.entries[i], t)
  <2>1. PICK u \in candidate.tools :
          u.name = doc.entries[i].name /\ after.entries[i] = RefreshEntry(doc.entries[i], u)
    BY <1>1
  <2>2. u = t
    BY <1>3, <2>1 DEF LoadsCandidate
  <2>3. QED
    BY <1>2, <1>3, <2>1, <2>2, RefreshedEntry
<1>4. ASSUME NEW i \in DOMAIN doc.entries
      PROVE  /\ after.entries[i].name = doc.entries[i].name
             /\ after.entries[i].capability = doc.entries[i].capability
             /\ after.entries[i].disposition = doc.entries[i].disposition
             /\ Decision(after.entries[i]) = Decision(doc.entries[i])
  BY <1>1, <1>3
<1>5. Decisions(after) = Decisions(doc)
  <2>1. Decisions(after) = {[name |-> after.entries[i].name, decision |-> Decision(after.entries[i])] :
                              i \in DOMAIN doc.entries}
    BY <1>1 DEF Decisions, Entries
  <2>2. Decisions(doc) = {[name |-> doc.entries[i].name, decision |-> Decision(doc.entries[i])] :
                            i \in DOMAIN doc.entries}
    BY DEF Decisions, Entries
  <2>3. QED
    BY <1>4, <2>1, <2>2
<1>6. after.entries \in Seq(Entries(after)) /\ after.entries # <<>>
  <2>1. \A i \in 1..Len(doc.entries) : after.entries[i] \in Entries(after)
    BY <1>1, <1>2 DEF Entries
  <2>2. after.entries \in [1..Len(doc.entries) -> Entries(after)]
    BY <1>1, <1>2, <2>1
  <2>3. DOMAIN after.entries # {}
    <3>1. Len(doc.entries) # 0
      BY EmptySeq DEF Loads, ValidEntries
    <3>2. 1 \in DOMAIN doc.entries
      BY <1>2, <3>1
    <3>3. QED
      BY <1>1, <3>2
  <2>4. QED
    BY <1>2, <2>2, <2>3
<1>7. ASSUME NEW i \in DOMAIN doc.entries, NEW j \in DOMAIN doc.entries, i < j
      PROVE  /\ after.entries[i].name < after.entries[j].name
             /\ after.entries[i].capability # NoCapability =>
                  after.entries[i].capability # after.entries[j].capability
  <2>1. /\ doc.entries[i].name < doc.entries[j].name
        /\ doc.entries[i].capability # NoCapability
             => doc.entries[i].capability # doc.entries[j].capability
    BY <1>7 DEF Loads, ValidEntries
  <2>2. QED
    BY <1>4, <2>1
<1>8. \E e \in Entries(after) : e.disposition = "allowed"
  <2>1. PICK i \in DOMAIN doc.entries : doc.entries[i].disposition = "allowed"
    BY DEF Loads, Entries
  <2>2. after.entries[i] \in Entries(after) /\ after.entries[i].disposition = "allowed"
    BY <1>1, <1>4, <2>1 DEF Entries
  <2>3. QED
    BY <2>2
<1>9. after.reviewer # ""
  BY <1>1 DEF Loads
<1>10. Loads(after) <=> \A i \in DOMAIN doc.entries : ValidEntry(after.entries[i])
  BY <1>1, <1>6, <1>7, <1>8, <1>9 DEF Loads, ValidEntries
<1>11. (\A i \in DOMAIN doc.entries : ValidEntry(after.entries[i])) <=>
         \A e \in Entries(doc), t \in candidate.tools : t.name = e.name => ~Refusable(e, t)
  <2>1. ASSUME \A i \in DOMAIN doc.entries : ValidEntry(after.entries[i]),
               NEW e \in Entries(doc), NEW t \in candidate.tools, t.name = e.name
        PROVE  ~Refusable(e, t)
    <3>1. PICK i \in DOMAIN doc.entries : e = doc.entries[i]
      BY DEF Entries
    <3>2. QED
      BY <1>3, <2>1, <3>1
  <2>2. ASSUME \A e \in Entries(doc), t \in candidate.tools : t.name = e.name => ~Refusable(e, t),
               NEW i \in DOMAIN doc.entries
        PROVE  ValidEntry(after.entries[i])
    <3>1. PICK t \in candidate.tools : t.name = doc.entries[i].name
      BY <1>1
    <3>2. doc.entries[i] \in Entries(doc)
      BY DEF Entries
    <3>3. QED
      BY <1>3, <2>2, <3>1, <3>2
  <2>3. QED
    BY <2>1, <2>2
<1>12. QED
  BY <1>5, <1>10, <1>11 DEF after

-----------------------------------------------------------------------------
(* A checkout *)

TreeAfter(tree, base, document) ==
  LET digest == document.full_manifest_digest
      pin == <<base.version + 1, digest>>
  IN  /\ DOMAIN tree = TreeFields
      /\ tree.manifest = document
      /\ tree.version = base.version + 1 /\ tree.lock = base.version + 1
      /\ tree.tests.pin = digest /\ tree.readme.pin = pin /\ tree.design = pin
      /\ pin \in tree.changelog
      /\ tree.link = Links(base).link /\ tree.retained = Links(base).retained
      /\ tree.others = base.others

\* Checkout writes the files one after the other.
LEMMA CheckoutUnfolds ==
  ASSUME NEW base, NEW document
  PROVE  \E w : /\ w[0] = base
                /\ \A i \in 1..8 : w[i] = Write(w[i - 1], Files[i], base, document)
                /\ Checkout(base, document) = w[8]
<1> DEFINE step(tree, i) == Write(tree, Files[i], base, document)
           t1 == step(base, 1)
           t2 == step(t1, 2)
           t3 == step(t2, 3)
           t4 == step(t3, 4)
           t5 == step(t4, 5)
           t6 == step(t5, 6)
           t7 == step(t6, 7)
           t8 == step(t7, 8)
           Is(f) == f = [i \in 0..8 |-> IF i = 0 THEN base ELSE step(f[i - 1], i)]
           given == [i \in 0..8 |-> CASE i = 0 -> base [] i = 1 -> t1 [] i = 2 -> t2
                                      [] i = 3 -> t3 [] i = 4 -> t4 [] i = 5 -> t5
                                      [] i = 6 -> t6 [] i = 7 -> t7 [] i = 8 -> t8]
           w == CHOOSE f : Is(f)
<1>1. Len(Files) = 8
  BY DEF Files
<1>2. Is(given)
  <2> HIDE DEF step
  <2>1. ASSUME NEW i \in 0..8
        PROVE  given[i] = IF i = 0 THEN base ELSE step(given[i - 1], i)
    <3>1. i \in {0, 1, 2, 3, 4, 5, 6, 7, 8}
      OBVIOUS
    <3>2. QED
      BY <3>1
  <2> HIDE DEF given
  <2>2. given = [i \in 0..8 |-> given[i]]
    BY DEF given
  <2>3. QED
    BY <2>1, <2>2
<1>3. Is(w)
  <2> HIDE DEF Is, given
  <2>1. QED
    BY <1>2
<1>4. Checkout(base, document) = w[8]
  BY <1>1, Zenon DEF Checkout
<1> HIDE DEF w
<1>5. w[0] = base /\ \A i \in 1..8 : w[i] = step(w[i - 1], i)
  BY <1>3
<1>6. QED
  BY <1>4, <1>5

\* A checkout that was written to its last file is a whole release; the lock file,
\* the tests and the newest link it was made from were those of the base.
LEMMA CheckoutIsWhole ==
  ASSUME NEW base, DOMAIN base = TreeFields, NEW document, Checkout(base, document) # NoTree
  PROVE  /\ TreeAfter(Checkout(base, document), base, document)
         /\ base.lock = base.version /\ base.link.head = base.version
         /\ base.tests.pin = base.manifest.full_manifest_digest
<1>1. PICK w : /\ w[0] = base
               /\ \A i \in 1..8 : w[i] = Write(w[i - 1], Files[i], base, document)
               /\ Checkout(base, document) = w[8]
  BY CheckoutUnfolds
<1>2. ASSUME NEW i \in 1..8, w[i] # NoTree
      PROVE  /\ w[i] = WriteTo(w[i - 1], Files[i], base, document) /\ w[i - 1] # NoTree
             /\ HasTarget(w[i - 1], Files[i], base)
  BY <1>1, <1>2 DEF Write
<1>3. /\ w[8] # NoTree /\ w[7] # NoTree /\ w[6] # NoTree /\ w[5] # NoTree
      /\ w[4] # NoTree /\ w[3] # NoTree /\ w[2] # NoTree /\ w[1] # NoTree
  <2>1. w[8] # NoTree
    BY <1>1
  <2>2. w[7] # NoTree
    BY <1>2, <2>1
  <2>3. w[6] # NoTree
    BY <1>2, <2>2
  <2>4. w[5] # NoTree
    BY <1>2, <2>3
  <2>5. w[4] # NoTree
    BY <1>2, <2>4
  <2>6. w[3] # NoTree
    BY <1>2, <2>5
  <2>7. w[2] # NoTree
    BY <1>2, <2>6
  <2>8. w[1] # NoTree
    BY <1>2, <2>7
  <2>9. QED
    BY <2>1, <2>2, <2>3, <2>4, <2>5, <2>6, <2>7, <2>8
<1> DEFINE version == base.version + 1
           digest == document.full_manifest_digest
           pin == <<version, digest>>
<1>4. w[1] = [base EXCEPT !.manifest = document]
  BY <1>1, <1>2, <1>3 DEF Files, WriteTo
<1>5. w[2] = [w[1] EXCEPT !.version = version]
  BY <1>2, <1>3 DEF Files, WriteTo
<1>6. w[3] = [w[2] EXCEPT !.lock = version] /\ w[2].lock = base.version
  BY <1>2, <1>3 DEF Files, WriteTo, HasTarget
<1>7. /\ w[4] = [w[3] EXCEPT !.tests = [pin |-> digest, quotes |-> w[3].tests.quotes]]
      /\ w[3].tests.pin = base.manifest.full_manifest_digest
  BY <1>2, <1>3 DEF Files, WriteTo, HasTarget
<1>8. w[5] = [w[4] EXCEPT !.readme = [pin |-> pin, quotes |-> w[4].readme.quotes]]
  BY <1>2, <1>3 DEF Files, WriteTo
<1>9. w[6] = [w[5] EXCEPT !.design = pin]
  BY <1>2, <1>3 DEF Files, WriteTo
<1>10. w[7] = [w[6] EXCEPT !.changelog = w[6].changelog \cup {pin}] /\ w[6].link.head = base.version
  BY <1>2, <1>3 DEF Files, WriteTo, HasTarget
<1>11. w[8] = [w[7] EXCEPT !.link = Links(base).link, !.retained = Links(base).retained]
  BY <1>2, <1>3 DEF Files, WriteTo
<1> HIDE DEF version, digest, pin
<1>12. /\ DOMAIN w[1] = TreeFields /\ w[1].manifest = document
       /\ w[1].lock = base.lock /\ w[1].tests = base.tests /\ w[1].link = base.link /\ w[1].others = base.others
  BY <1>4 DEF TreeFields
<1>13. /\ DOMAIN w[2] = TreeFields /\ w[2].manifest = document /\ w[2].version = version
       /\ w[2].lock = base.lock /\ w[2].tests = base.tests /\ w[2].link = base.link /\ w[2].others = base.others
  BY <1>5, <1>12 DEF TreeFields
<1>14. /\ DOMAIN w[3] = TreeFields /\ w[3].manifest = document /\ w[3].version = version
       /\ w[3].lock = version /\ w[3].tests = base.tests /\ w[3].link = base.link /\ w[3].others = base.others
  BY <1>6, <1>13 DEF TreeFields
<1>15. /\ DOMAIN w[4] = TreeFields /\ w[4].manifest = document /\ w[4].version = version
       /\ w[4].lock = version /\ w[4].link = base.link /\ w[4].others = base.others
       /\ w[4].tests.pin = digest
  BY <1>7, <1>14 DEF TreeFields
<1>16. /\ DOMAIN w[5] = TreeFields /\ w[5].manifest = document /\ w[5].version = version
       /\ w[5].lock = version /\ w[5].link = base.link /\ w[5].others = base.others
       /\ w[5].tests.pin = digest /\ w[5].readme.pin = pin
  BY <1>8, <1>15 DEF TreeFields
<1>17. /\ DOMAIN w[6] = TreeFields /\ w[6].manifest = document /\ w[6].version = version
       /\ w[6].lock = version /\ w[6].link = base.link /\ w[6].others = base.others
       /\ w[6].tests.pin = digest /\ w[6].readme.pin = pin /\ w[6].design = pin
  BY <1>9, <1>16 DEF TreeFields
<1>18. /\ DOMAIN w[7] = TreeFields /\ w[7].manifest = document /\ w[7].version = version
       /\ w[7].lock = version /\ w[7].others = base.others
       /\ w[7].tests.pin = digest /\ w[7].readme.pin = pin /\ w[7].design = pin
       /\ pin \in w[7].changelog
  BY <1>10, <1>17 DEF TreeFields
<1>19. /\ DOMAIN w[8] = TreeFields /\ w[8].manifest = document /\ w[8].version = version
       /\ w[8].lock = version /\ w[8].others = base.others
       /\ w[8].tests.pin = digest /\ w[8].readme.pin = pin /\ w[8].design = pin
       /\ pin \in w[8].changelog
       /\ w[8].link = Links(base).link /\ w[8].retained = Links(base).retained
  BY <1>11, <1>18 DEF TreeFields
<1>20. /\ base.lock = base.version /\ base.link.head = base.version
       /\ base.tests.pin = base.manifest.full_manifest_digest
  BY <1>6, <1>7, <1>10, <1>13, <1>14, <1>17
<1>21. QED
  BY <1>1, <1>19, <1>20 DEF TreeAfter, version, digest, pin

\* What a person rewords still loads.
LEMMA RewordedLoads ==
  ASSUME NEW doc, Loads(doc), NEW reworded,
         reworded = [doc EXCEPT !.entries[1].rationale = "reworded"]
  PROVE  Loads([reworded EXCEPT !.full_manifest_digest = FullDigest(reworded)])
<1> DEFINE after == [reworded EXCEPT !.full_manifest_digest = FullDigest(reworded)]
           first == [doc.entries[1] EXCEPT !.rationale = "reworded"]
           entries == [doc.entries EXCEPT ![1] = first]
<1>1. reworded = [doc EXCEPT !.entries = entries]
  OBVIOUS
<1>2. /\ DOMAIN after = TopLevelFields /\ after.entries = entries
      /\ after.reviewer = doc.reviewer /\ after.version = doc.version
      /\ after.observed_at = doc.observed_at
      /\ after.provider_surface_digest = doc.provider_surface_digest
      /\ after.full_manifest_digest = FullDigest(reworded)
      /\ reworded.entries = entries
      /\ reworded.reviewer = doc.reviewer /\ reworded.version = doc.version
      /\ reworded.observed_at = doc.observed_at
      /\ reworded.provider_surface_digest = doc.provider_surface_digest
  <2> HIDE DEF entries
  <2>1. QED
    BY <1>1 DEF Loads, TopLevelFields
<1>3. Len(doc.entries) \in Nat /\ DOMAIN doc.entries = 1..Len(doc.entries)
  BY EntriesByName
<1>4. 1 \in DOMAIN doc.entries
  <2>1. Len(doc.entries) # 0
    BY EmptySeq DEF Loads, ValidEntries
  <2>2. QED
    BY <1>3, <2>1
<1>5. /\ ValidEntry(first) /\ Tool(first) = Tool(doc.entries[1])
      /\ first.name = doc.entries[1].name /\ first.capability = doc.entries[1].capability
      /\ first.disposition = doc.entries[1].disposition
  <2>1. ValidEntry(doc.entries[1])
    BY <1>4 DEF Loads, ValidEntries
  <2>2. /\ DOMAIN first = EntryFields /\ first.name = doc.entries[1].name
        /\ first.schema = doc.entries[1].schema /\ first.meta = doc.entries[1].meta
        /\ first.capability = doc.entries[1].capability
        /\ first.disposition = doc.entries[1].disposition
        /\ first.mutates = doc.entries[1].mutates /\ first.rationale = "reworded"
        /\ first.schema_digest = doc.entries[1].schema_digest
        /\ first.metadata_digest = doc.entries[1].metadata_digest
    BY <2>1 DEF ValidEntry, EntryFields
  <2> HIDE DEF first
  <2>3. QED
    BY <2>1, <2>2 DEF ValidEntry, Tool, SchemaDigest, MetadataDigest
<1>6. ASSUME NEW i \in DOMAIN doc.entries
      PROVE  /\ ValidEntry(entries[i]) /\ Tool(entries[i]) = Tool(doc.entries[i])
             /\ entries[i].name = doc.entries[i].name
             /\ entries[i].capability = doc.entries[i].capability
             /\ entries[i].disposition = doc.entries[i].disposition
  <2> HIDE DEF first
  <2>1. CASE i = 1
    BY <1>4, <1>5, <2>1
  <2>2. CASE i # 1
    BY <2>2 DEF Loads, ValidEntries
  <2>3. QED
    BY <2>1, <2>2
<1>7. DOMAIN entries = DOMAIN doc.entries
  OBVIOUS
<1> HIDE DEF entries
<1>8. entries \in Seq(Entries(after)) /\ entries # <<>>
  <2>1. \A i \in 1..Len(doc.entries) : entries[i] \in Entries(after)
    BY <1>2, <1>3, <1>7 DEF Entries
  <2>2. entries = [i \in 1..Len(doc.entries) |-> entries[i]]
    BY <1>3 DEF entries
  <2> HIDE DEF after
  <2>3. entries \in [1..Len(doc.entries) -> Entries(after)]
    BY <2>1, <2>2
  <2>4. entries \in Seq(Entries(after))
    BY <1>3, <2>3
  <2>5. entries # <<>>
    <3>1. DOMAIN entries # {}
      BY <1>4, <1>7
    <3>2. QED
      BY <3>1
  <2>6. QED
    BY <2>4, <2>5
<1>9. ValidEntries(entries)
  <2>1. ASSUME NEW i \in DOMAIN entries, NEW j \in DOMAIN entries, i < j
        PROVE  /\ entries[i].name < entries[j].name
               /\ entries[i].capability # NoCapability => entries[i].capability # entries[j].capability
    <3>1. /\ doc.entries[i].name < doc.entries[j].name
          /\ doc.entries[i].capability # NoCapability
               => doc.entries[i].capability # doc.entries[j].capability
      BY <1>7, <2>1 DEF Loads, ValidEntries
    <3>2. QED
      BY <1>6, <1>7, <3>1
  <2>2. QED
    BY <1>6, <1>7, <1>8, <2>1 DEF ValidEntries
<1>10. Tools(after) = Tools(doc)
  <2>1. Tools(after) = {Tool(entries[i]) : i \in DOMAIN doc.entries}
    BY <1>2, <1>7 DEF Tools, Entries
  <2>2. Tools(doc) = {Tool(doc.entries[i]) : i \in DOMAIN doc.entries}
    BY DEF Tools, Entries
  <2>3. QED
    BY <1>6, <2>1, <2>2
<1>11. \E e \in Entries(after) : e.disposition = "allowed"
  <2>1. PICK i \in DOMAIN doc.entries : doc.entries[i].disposition = "allowed"
    BY DEF Loads, Entries
  <2>2. entries[i] \in Entries(after) /\ entries[i].disposition = "allowed"
    BY <1>2, <1>6, <1>7, <2>1 DEF Entries
  <2>3. QED
    BY <2>2
<1>12. FullDigest(after) = FullDigest(reworded)
  BY <1>2 DEF FullDigest, Entries
<1> HIDE DEF after
<1>13. Loads(after)
  BY <1>2, <1>8, <1>9, <1>10, <1>11, <1>12 DEF Loads
<1>14. QED
  BY <1>13 DEF after

-----------------------------------------------------------------------------
(* The largest of some versions *)

Less == {pair \in Nat \X Nat : pair[1] < pair[2]}

LEMMA SmallestVersion ==
  ASSUME NEW T \in SUBSET Nat, T # {}
  PROVE  \E n \in T : \A m \in T : n <= m
<1>1. IsWellFoundedOn(Less, Nat)
  BY NatLessThanWellFounded, Zenon DEF OpToRel, Less
<1>2. PICK n \in T : \A m \in T : ~(<<m, n>> \in Less)
  BY <1>1, WFMin
<1>3. ASSUME NEW m \in T PROVE n <= m
  <2>1. ~(m < n)
    BY <1>2 DEF Less
  <2>2. QED
    BY <2>1
<1>4. QED
  BY <1>3

\* Versions below a bound have a largest one, and Max finds it.
LEMMA LargestVersion ==
  ASSUME NEW S \in SUBSET Nat, S # {}, NEW n \in Nat, \A v \in S : v <= n
  PROVE  Max(S) \in S /\ \A v \in S : v <= Max(S)
<1> DEFINE Bounds == {k \in Nat : \A v \in S : v <= k}
<1>1. n \in Bounds /\ Bounds \in SUBSET Nat
  OBVIOUS
<1>2. PICK b \in Bounds : \A k \in Bounds : b <= k
  <2> HIDE DEF Bounds
  <2>1. QED
    BY <1>1, SmallestVersion
<1>3. b \in S
  <2>1. SUFFICES ASSUME b \notin S PROVE FALSE
    OBVIOUS
  <2>2. ASSUME NEW v \in S PROVE v <= b - 1 /\ b - 1 \in Nat
    <3>1. v \in Nat /\ b \in Nat /\ v <= b /\ v # b
      BY <2>1
    <3>2. QED
      BY <3>1
  <2>3. b - 1 \in Bounds
    BY <2>2
  <2>4. b \in Nat /\ b <= b - 1
    BY <1>2, <2>3
  <2>5. QED
    BY <2>4
<1>4. \E x \in S : \A y \in S : x >= y
  BY <1>3
<1>5. Max(S) \in S /\ \A v \in S : Max(S) >= v
  BY <1>4, Zenon DEF Max
<1>6. QED
  BY <1>5

-----------------------------------------------------------------------------
(* The invariant *)

Released == DOMAIN tags \cup {FirstTree.link.base}

\* What is true of every commit: its manifest loads, its version is not before
\* the first nor before what its documents say, its link leads to a release.
IsTree(tree, released) ==
  /\ DOMAIN tree = TreeFields
  /\ Loads(tree.manifest)
  /\ tree.version \in Nat /\ tree.version >= FirstTree.version
  /\ tree.readme.pin[1] <= tree.version /\ tree.design[1] <= tree.version
  /\ tree.link.base \in released

World == provider \in Surfaces /\ day \in 1..MaxDay /\ changes \in 0..MaxChanges

Versions ==
  /\ FirstTree.version \in DOMAIN tags /\ DOMAIN tags \subseteq Nat
  /\ \E n \in Nat : \A v \in DOMAIN tags : v <= n

Commits ==
  /\ IsTree(main, Released)
  /\ \A v \in DOMAIN tags : IsTree(tags[v].tree, Released)
  /\ \A b \in DOMAIN branches : IsTree(branches[b].tree, Released)
  /\ \A m \in merged : IsRefresh(m.name) /\ IsTree(m.head, Released)

Requests ==
  /\ DOMAIN prs = DOMAIN branches
  /\ \A b \in DOMAIN branches :
       /\ b[1] \in {"manifest", "tool-set-review"}
       /\ prs[b] \in {"none", "open", "merged", "closed"}
       /\ DOMAIN branches[b] = {"tree", "base"}

Statuses == {"active", "success", "failure"}
History == Seq([day : 1..MaxDay, by : {"owner"}, status : Statuses])

Observed == {"second", "probed", "refresh", "review_required", "push"}
Probed == Observed \ {"second"}
Judged == Probed \ {"probed"}

\* What the active run knows at each of its steps.
Working ==
  /\ runs \in History
  /\ run.pc \in {"idle", "first", "create"} \cup Observed
  /\ run.pc = "idle" => run = NoRun
  /\ run.pc # "idle" => run.id \in 1..Len(runs)
  /\ run.pc \in {"first"} \cup Observed => IsTree(run.base, Released)
  /\ run.pc \in Observed => run.first \in Surfaces
  /\ run.pc \in Probed => run.candidate.tools \in Surfaces
  /\ run.pc \in Judged => Stable(run)
  /\ run.pc = "refresh" => Classify(run.base.manifest, run.candidate.tools) = "refresh"

Waiting ==
  queued # NoRun =>
    run # NoRun /\ queued.id \in 1..Len(runs) /\ IsTree(queued.base, Released)

\* The files of a release agree.
Whole(tree, base) ==
  LET digest == tree.manifest.full_manifest_digest
      pin == <<tree.version, digest>>
  IN  /\ tree.version = base.version + 1 /\ tree.lock = tree.version
      /\ tree.tests.pin = digest
      /\ tree.readme.pin = pin /\ tree.design = pin /\ pin \in tree.changelog
      /\ tree.link.head = tree.version

Prepared ==
  run.pc = "push" =>
    /\ IsTree(run.checkout, Released) /\ Whole(run.checkout, run.base)
    /\ run.checkout.retained # NoLink =>
         run.checkout.retained.base \in Released /\ run.checkout.retained.head \in Released
    /\ Verified(run.checkout, run.base)
    /\ Tools(run.checkout.manifest) = run.candidate.tools

IInv ==
  World /\ Versions /\ Commits /\ Requests /\ Working /\ Waiting /\ Prepared

-----------------------------------------------------------------------------
(* Steps: first what several of them share *)

\* Tags are only added, and what was released stays so.
LEMMA CommitsStay ==
  ASSUME NEW tree, NEW before, NEW after, before \subseteq after, IsTree(tree, before)
  PROVE  IsTree(tree, after)
BY DEF IsTree

\* A step of GitHub, the owner or the provider leaves the runs alone.
LEMMA RunsStay ==
  ASSUME Working, Waiting, Prepared, UNCHANGED <<runs, run, queued>>, DOMAIN tags \subseteq DOMAIN tags'
  PROVE  Working' /\ Waiting' /\ Prepared'
<1>1. Released \subseteq Released'
  BY DEF Released
<1>2. \A tree : IsTree(tree, Released) => IsTree(tree, Released')
  BY <1>1, CommitsStay
<1>3. Working'
  BY <1>2 DEF Working, Stable
<1>4. Waiting'
  BY <1>2 DEF Waiting
<1>5. Prepared'
  BY <1>1, <1>2 DEF Prepared
<1>6. QED
  BY <1>3, <1>4, <1>5

\* A step of a run that pushes nothing leaves the repository alone.
LEMMA RepositoryStays ==
  ASSUME Versions, Commits, Requests, UNCHANGED repo
  PROVE  Versions' /\ Commits' /\ Requests'
<1> USE DEF repo
<1>1. Released' = Released
  BY DEF Released
<1>2. Versions' /\ Requests'
  BY DEF Versions, Requests
<1>3. Commits'
  BY <1>1 DEF Commits
<1>4. QED
  BY <1>2, <1>3

\* The record of a run's end.
LEMMA Concluded ==
  ASSUME NEW q \in History, NEW k \in 1..Len(q), NEW status \in Statuses
  PROVE  /\ [q EXCEPT ![k].status = status] \in History
         /\ Len([q EXCEPT ![k].status = status]) = Len(q)
<1> DEFINE Records == [day : 1..MaxDay, by : {"owner"}, status : Statuses]
           e == [q[k] EXCEPT !.status = status]
<1>1. q \in Seq(Records)
  BY DEF History
<1>2. q[k] \in Records
  <2> HIDE DEF Records
  <2>1. QED
    BY <1>1, ElementOfSeq
<1>3. e \in Records
  BY <1>2
<1>4. [q EXCEPT ![k] = e] \in Seq(Records) /\ Len([q EXCEPT ![k] = e]) = Len(q)
  <2> HIDE DEF Records, e
  <2>1. QED
    BY <1>1, <1>3, ExceptSeq
<1>5. QED
  BY <1>4 DEF History

\* A run ends, and the one behind it starts.
LEMMA NextRunStarts ==
  ASSUME Working, Waiting, run # NoRun, NEW status \in Statuses, Ends(status), UNCHANGED tags
  PROVE  Working' /\ Waiting' /\ Prepared'
<1>1. run.id \in 1..Len(runs)
  BY DEF Working
<1>2. runs' \in History /\ Len(runs') = Len(runs)
  BY <1>1, Concluded DEF Ends, Working
<1>3. Released' = Released
  BY DEF Released
<1>4. Waiting'
  BY DEF Ends, Waiting
<1>5. CASE queued = NoRun
  <2>1. run' = NoRun
    BY <1>5 DEF Ends
  <2>2. QED
    BY <1>2, <1>4, <2>1 DEF Working, Prepared, NoRun, Observed, Probed, Judged
<1>6. CASE queued # NoRun
  <2>1. /\ run'.pc = "first" /\ run'.id = queued.id /\ run'.base = queued.base
        /\ queued.id \in 1..Len(runs) /\ IsTree(queued.base, Released)
    BY <1>6 DEF Ends, Started, Waiting
  <2>2. QED
    BY <1>2, <1>3, <1>4, <2>1 DEF Working, Prepared, Observed, Probed, Judged
<1>7. QED
  BY <1>5, <1>6

\* A run goes on to another step, with what it knows so far.
LEMMA RunGoesOn ==
  ASSUME Working, Waiting, run # NoRun, run'.pc \in {"first", "create"} \cup Observed,
         run'.id = run.id, UNCHANGED <<runs, queued, tags>>
  PROVE  /\ Waiting' /\ runs' \in History
         /\ run'.id \in 1..Len(runs') /\ Released' = Released /\ run' # NoRun
<1>1. run'.pc # "idle"
  BY DEF Observed
<1>2. run' # NoRun
  BY <1>1 DEF NoRun
<1>3. Released' = Released
  BY DEF Released
<1>4. QED
  BY <1>2, <1>3 DEF Working, Waiting

-----------------------------------------------------------------------------
(* The steps of a run *)

LEMMA InitHolds == Init => IInv
<1> SUFFICES ASSUME Init PROVE IInv
  OBVIOUS
<1> USE DEF Init
<1>1. FirstTree.version \in Nat /\ DOMAIN FirstTree = TreeFields /\ Loads(FirstTree.manifest)
  BY RefreshAssumption
<1>2. IsTree(FirstTree, Released)
  BY <1>1, RefreshAssumption DEF IsTree, Released
<1>3. World
  BY RefreshAssumption DEF World
<1>4. Versions
  BY <1>1 DEF Versions
<1>5. Commits /\ Requests
  BY <1>2 DEF Commits, Requests
<1>6. runs \in History
  <2>1. <<>> \in Seq([day : 1..MaxDay, by : {"owner"}, status : Statuses])
    BY EmptySeq
  <2>2. QED
    BY <2>1 DEF History
<1>7. Working /\ Waiting /\ Prepared
  BY <1>6 DEF Working, Waiting, Prepared, NoRun, Observed, Probed, Judged
<1>8. QED
  BY <1>3, <1>4, <1>5, <1>7 DEF IInv

LEMMA DispatchStep ==
  ASSUME IInv, Dispatch("owner")
  PROVE  IInv'
<1> USE DEF IInv
<1> DEFINE Records == [day : 1..MaxDay, by : {"owner"}, status : Statuses]
           id == Len(runs) + 1
           more == Recorded("owner", "active")
<1>1. UNCHANGED <<world, repo>>
  BY DEF Dispatch
<1>2. World' /\ Versions' /\ Commits' /\ Requests' /\ Released' = Released
  BY <1>1, RepositoryStays DEF World, world, repo, Released
<1>3. runs \in Seq(Records) /\ Len(runs) \in Nat
  <2>1. runs \in Seq(Records)
    BY DEF Working, History
  <2>2. QED
    BY <2>1, LenProperties
<1>4. more \in Seq(Records) /\ Len(more) = id
  <2>1. [day |-> day, by |-> "owner", status |-> "active"] \in Records
    BY DEF World, Statuses
  <2> HIDE DEF Records
  <2>2. QED
    BY <1>3, <2>1, AppendProperties DEF Recorded
<1>5. runs' \in History /\ Len(runs') = id
  <2>1. CASE runs' = more
    BY <1>4, <2>1 DEF History
  <2>2. CASE run # NoRun /\ queued # NoRun /\ runs' = [more EXCEPT ![queued.id].status = "failure"]
    <3>1. queued.id \in 1..Len(more) /\ more \in History
      BY <1>3, <1>4, <2>2 DEF Waiting, History
    <3> HIDE DEF more, id
    <3>2. QED
      BY <1>4, <2>2, <3>1, Concluded DEF Statuses
  <2>3. QED
    BY <2>1, <2>2 DEF Dispatch
<1>6. \A k \in 1..Len(runs) : k \in 1..Len(runs')
  BY <1>3, <1>5
<1>7. id \in 1..Len(runs')
  BY <1>3, <1>5
<1>8. IsTree(main, Released)
  BY DEF Commits
<1>9. CASE run = NoRun
  <2>1. run' = Started(id, main) /\ queued' = queued /\ queued = NoRun
    BY <1>9 DEF Dispatch, Waiting
  <2>2. Working' /\ Prepared'
    BY <1>2, <1>5, <1>7, <1>8, <2>1
       DEF Working, Prepared, Started, Observed, Probed, Judged
  <2>3. Waiting'
    BY <2>1 DEF Waiting
  <2>4. QED
    BY <1>2, <2>2, <2>3
<1>10. CASE run # NoRun
  <2>1. run' = run /\ queued'.id = id /\ queued'.base = main
    BY <1>10 DEF Dispatch
  <2>2. Working'
    BY <1>2, <1>5, <1>6, <2>1 DEF Working, Stable
  <2>3. Prepared'
    BY <1>2, <2>1 DEF Prepared
  <2>4. Waiting'
    BY <1>2, <1>7, <1>8, <1>10, <2>1 DEF Waiting
  <2>5. QED
    BY <1>2, <2>2, <2>3, <2>4
<1>11. QED
  BY <1>9, <1>10

LEMMA ObserveSteps ==
  ASSUME IInv, ObserveFirst \/ ObserveSecond
  PROVE  IInv'
<1> USE DEF IInv
<1>1. UNCHANGED <<world, repo, runs, queued>>
  BY DEF ObserveFirst, ObserveSecond, RunOnly
<1>2. World' /\ Versions' /\ Commits' /\ Requests'
  BY <1>1, RepositoryStays DEF World, world
<1>3. run # NoRun /\ run'.id = run.id /\ run'.base = run.base /\ run'.pc \in {"second", "probed"}
  BY DEF ObserveFirst, ObserveSecond, NoRun
<1>4. Waiting' /\ runs' \in History /\ run'.id \in 1..Len(runs') /\ Released' = Released
  BY <1>1, <1>3, RunGoesOn DEF Observed, repo
<1>5. IsTree(run.base, Released) /\ provider \in Surfaces
  BY DEF Working, World, ObserveFirst, ObserveSecond, Observed
<1>6. CASE ObserveFirst
  <2>1. run'.pc = "second" /\ run'.first = provider
    BY <1>6 DEF ObserveFirst
  <2>2. Working' /\ Prepared'
    BY <1>3, <1>4, <1>5, <2>1 DEF Working, Prepared, Observed, Probed, Judged
  <2>3. QED
    BY <1>2, <1>4, <2>2
<1>7. CASE ObserveSecond
  <2>1. run'.pc = "probed" /\ run'.first = run.first /\ run'.candidate.tools = provider
    BY <1>7 DEF ObserveSecond
  <2>2. run.first \in Surfaces
    BY <1>7 DEF ObserveSecond, Working, Observed
  <2>3. Working' /\ Prepared'
    BY <1>3, <1>4, <1>5, <2>1, <2>2 DEF Working, Prepared, Observed, Probed, Judged
  <2>4. QED
    BY <1>2, <1>4, <2>3
<1>8. QED
  BY <1>6, <1>7

LEMMA ClassifiedStep ==
  ASSUME IInv, Classified
  PROVE  IInv'
<1> USE DEF IInv
<1>1. UNCHANGED <<world, repo>> /\ run.pc = "probed" /\ Stable(run) /\ run # NoRun
  BY DEF Classified, NoRun
<1>2. World' /\ Versions' /\ Commits' /\ Requests'
  BY <1>1, RepositoryStays DEF World, world
<1> DEFINE state == Classify(run.base.manifest, run.candidate.tools)
<1>3. CASE state = "no_drift"
  <2>1. Ends("success") /\ UNCHANGED tags
    BY <1>3 DEF Classified, repo
  <2>2. QED
    BY <1>1, <1>2, <2>1, NextRunStarts DEF Statuses
<1>4. CASE state # "no_drift"
  <2>1. /\ run' = [pc |-> state, id |-> run.id, base |-> run.base,
                   first |-> run.first, candidate |-> run.candidate]
        /\ UNCHANGED <<runs, queued>>
    BY <1>4 DEF Classified
  <2>2. state \in {"refresh", "review_required"}
    BY <1>4 DEF Classify
  <2>3. /\ run'.pc = state /\ run'.id = run.id /\ run'.base = run.base
        /\ run'.first = run.first /\ run'.candidate = run.candidate
    BY <2>1
  <2> HIDE DEF state
  <2>4. Waiting' /\ runs' \in History /\ run'.id \in 1..Len(runs') /\ Released' = Released
    BY <1>1, <2>1, <2>2, <2>3, RunGoesOn DEF Observed, repo
  <2>5. IsTree(run.base, Released) /\ run.first \in Surfaces /\ run.candidate.tools \in Surfaces
    BY <1>1 DEF Working, Observed, Probed
  <2>6. Stable(run)'
    BY <1>1, <2>3 DEF Stable
  <2>7. Working'
    BY <2>2, <2>3, <2>4, <2>5, <2>6 DEF Working, Observed, Probed, Judged, state
  <2>8. Prepared'
    BY <2>2, <2>3 DEF Prepared
  <2>9. QED
    BY <1>2, <2>4, <2>7, <2>8
<1>5. QED
  BY <1>3, <1>4

\* The new comparison link leads to a release, and so does the one before it.
LEMMA LinksLeadToReleases ==
  ASSUME Versions, NEW base, IsTree(base, Released)
  PROVE  /\ Links(base).link.base \in Released /\ Links(base).link.head = base.version + 1
         /\ Links(base).retained # NoLink =>
              Links(base).retained.base \in Released /\ Links(base).retained.head \in Released
<1> DEFINE reachable == {v \in DOMAIN tags : v <= base.version}
<1>1. /\ base.version \in Nat /\ FirstTree.version <= base.version
      /\ FirstTree.version \in DOMAIN tags /\ DOMAIN tags \subseteq Nat
  <2>1. FirstTree.version \in Nat
    BY RefreshAssumption
  <2>2. QED
    BY <2>1 DEF IsTree, Versions
<1>2. reachable # {} /\ reachable \in SUBSET Nat /\ \A v \in reachable : v <= base.version
  BY <1>1
<1>3. ComparisonBase(base) = Max(reachable)
  BY <1>2 DEF ComparisonBase
<1>4. Max(reachable) \in reachable
  <2> HIDE DEF reachable
  <2>1. QED
    BY <1>1, <1>2, LargestVersion
<1>5. ComparisonBase(base) \in Released
  BY <1>3, <1>4 DEF Released
<1>6. base.link.base \in Released
  BY DEF IsTree
<1>7. QED
  BY <1>5, <1>6 DEF Links, Released

\* A whole release with other tools than its base has the shape of a release.
LEMMA CheckoutIsVerified ==
  ASSUME NEW base, IsTree(base, Released), NEW document, Loads(document),
         NEW tools, Tools(document) = tools, \A t \in tools : t = Tool(t),
         Classify(base.manifest, tools) = "refresh",
         NEW tree, TreeAfter(tree, base, document),
         base.lock = base.version, base.link.head = base.version,
         base.tests.pin = base.manifest.full_manifest_digest,
         Links(base).link.head = base.version + 1
  PROVE  Verified(tree, base)
<1> DEFINE digest == document.full_manifest_digest
<1>1. document # base.manifest /\ digest # base.manifest.full_manifest_digest
  <2>1. Loads(base.manifest)
    BY DEF IsTree
  <2>2. tools # Tools(base.manifest)
    <3>1. Classify(base.manifest, tools) # "no_drift"
      OBVIOUS
    <3>2. QED
      BY <2>1, <3>1, NoDriftOnItsTools
  <2>3. document.provider_surface_digest # base.manifest.provider_surface_digest
    <3>1. /\ document.provider_surface_digest = SurfaceDigest(tools)
          /\ base.manifest.provider_surface_digest = SurfaceDigest(Tools(base.manifest))
      BY <2>1 DEF Loads
    <3>2. SurfaceDigest(tools).of = tools /\ SurfaceDigest(Tools(base.manifest)).of = Tools(base.manifest)
      BY DEF SurfaceDigest
    <3>3. QED
      BY <2>2, <3>1, <3>2
  <2>4. /\ digest = FullDigest(document)
        /\ base.manifest.full_manifest_digest = FullDigest(base.manifest)
    BY <2>1 DEF Loads
  <2>5. FullDigest(document) # FullDigest(base.manifest)
    BY <2>3 DEF FullDigest
  <2>6. QED
    BY <2>3, <2>4, <2>5
<1>2. /\ tree.manifest = document /\ tree.version = base.version + 1
      /\ tree.lock = base.version + 1 /\ tree.tests.pin = digest
      /\ tree.readme.pin = <<base.version + 1, digest>> /\ tree.design = <<base.version + 1, digest>>
      /\ <<base.version + 1, digest>> \in tree.changelog
      /\ tree.link.head = base.version + 1 /\ tree.others = base.others
  BY DEF TreeAfter
<1>3. /\ base.version \in Nat /\ base.version + 1 # base.version
      /\ ~(base.version + 1 <= base.version)
      /\ base.readme.pin[1] <= base.version /\ base.design[1] <= base.version
  BY DEF IsTree
<1> HIDE DEF digest
<1>4. /\ tree.manifest # base.manifest /\ tree.version # base.version /\ tree.lock # base.lock
      /\ tree.tests # base.tests /\ tree.link # base.link
  BY <1>1, <1>2, <1>3
<1>5. tree.readme # base.readme /\ tree.design # base.design
  <2>1. tree.readme.pin[1] = base.version + 1 /\ tree.design[1] = base.version + 1
    BY <1>2
  <2>2. QED
    BY <1>3, <2>1
<1>6. ChangedPaths(tree, base) = ReleasePaths
  <2> DEFINE Changed(path) == \E field \in Fields(path) : tree[field] # base[field]
  <2>1. \A path \in ReleasePaths : path # "changelog" => Fields(path) = {path}
    BY DEF Fields
  <2>2. \A path \in ReleasePaths : path # "changelog" => tree[path] # base[path]
    BY <1>4, <1>5 DEF ReleasePaths
  <2>3. \A path \in ReleasePaths : path # "changelog" => Changed(path)
    BY <2>1, <2>2
  <2>4. Changed("changelog")
    BY <1>4 DEF Fields
  <2>5. ~Changed("others")
    BY <1>2 DEF Fields
  <2>6. TreeFields \ {"marked", "link", "retained"} = ReleasePaths \cup {"others"}
    BY DEF TreeFields, ReleasePaths
  <2>7. "others" \notin ReleasePaths
    BY DEF ReleasePaths
  <2>8. ChangedPaths(tree, base) = {path \in ReleasePaths \cup {"others"} : Changed(path)}
    BY <2>6 DEF ChangedPaths
  <2> HIDE DEF Changed
  <2>9. QED
    BY <2>3, <2>4, <2>5, <2>7, <2>8
<1>7. \A path \in Pinned : tree.manifest.full_manifest_digest \in DigestsIn(tree, path)
  <2>1. tree.manifest.full_manifest_digest = digest
    BY <1>2 DEF digest
  <2>2. digest \in DigestsIn(tree, "readme") /\ digest \in DigestsIn(tree, "tests")
    BY <1>2 DEF DigestsIn
  <2>3. digest \in DigestsIn(tree, "changelog")
    BY <1>2 DEF DigestsIn
  <2>4. QED
    BY <2>1, <2>2, <2>3 DEF Pinned
<1>8. QED
  BY <1>2, <1>6, <1>7 DEF Verified

LEMMA PrepareStep ==
  ASSUME IInv, Prepare
  PROVE  IInv'
<1> USE DEF IInv
<1> DEFINE base == run.base
           candidate == run.candidate
           document == Refreshed(base.manifest, candidate)
           tree == Checkout(base, document)
<1>1. UNCHANGED <<world, repo, runs, queued>> /\ run.pc = "refresh" /\ run # NoRun
  BY DEF Prepare, RunOnly, NoRun
<1>2. World' /\ Versions' /\ Commits' /\ Requests'
  BY <1>1, RepositoryStays DEF World, world
<1>3. /\ Loads(document) /\ tree # NoTree
      /\ run' = [pc |-> "push", id |-> run.id, base |-> base, first |-> run.first,
                 candidate |-> candidate, checkout |-> tree]
  BY DEF Prepare
<1>4. /\ IsTree(base, Released) /\ run.first \in Surfaces /\ candidate.tools \in Surfaces
      /\ Stable(run) /\ Classify(base.manifest, candidate.tools) = "refresh"
  BY <1>1 DEF Working, Observed, Probed, Judged
<1>5. Tools(document) = candidate.tools
  <2>1. \A t \in candidate.tools : t = Tool(t)
    BY <1>4, RefreshAssumption
  <2>2. LoadsCandidate(candidate.tools)
    BY <1>4 DEF Stable
  <2>3. Loads(base.manifest) /\ ToolNames(candidate.tools) = ToolNames(Tools(base.manifest))
    BY <1>4, SameNamesToRefresh DEF IsTree
  <2>4. QED
    BY <2>1, <2>2, <2>3, RefreshTakesTheTools
<1> HIDE DEF document
<1>6. /\ TreeAfter(tree, base, document)
      /\ base.lock = base.version /\ base.link.head = base.version
      /\ base.tests.pin = base.manifest.full_manifest_digest
  BY <1>3, <1>4, CheckoutIsWhole DEF IsTree
<1> HIDE DEF tree
<1>7. /\ Links(base).link.base \in Released /\ Links(base).link.head = base.version + 1
      /\ Links(base).retained # NoLink =>
           Links(base).retained.base \in Released /\ Links(base).retained.head \in Released
  BY <1>4, LinksLeadToReleases
<1>8. /\ run'.pc = "push" /\ run'.id = run.id /\ run'.base = base /\ run'.first = run.first
      /\ run'.candidate = candidate /\ run'.checkout = tree
  BY <1>3
<1>9. Waiting' /\ runs' \in History /\ run'.id \in 1..Len(runs') /\ Released' = Released
  BY <1>1, <1>8, RunGoesOn DEF Observed, repo
<1>10. IsTree(tree, Released)
  <2>1. base.version \in Nat /\ FirstTree.version \in Nat /\ FirstTree.version <= base.version
    BY <1>4, RefreshAssumption DEF IsTree
  <2>2. /\ base.version + 1 \in Nat /\ base.version + 1 >= FirstTree.version
        /\ base.version + 1 <= base.version + 1
    BY <2>1
  <2>3. tree.readme.pin[1] = base.version + 1 /\ tree.design[1] = base.version + 1
    BY <1>6 DEF TreeAfter
  <2>4. QED
    BY <1>3, <1>6, <1>7, <2>2, <2>3 DEF IsTree, TreeAfter
<1>11. Whole(tree, base)
  BY <1>6, <1>7 DEF Whole, TreeAfter
<1>12. Stable(run)'
  BY <1>4, <1>8 DEF Stable
<1>13. Working'
  BY <1>4, <1>8, <1>9, <1>12 DEF Working, Observed, Probed, Judged
<1>14. Prepared'
  <2>1. tree.manifest = document /\ tree.retained = Links(base).retained
    BY <1>6 DEF TreeAfter
  <2>2. Verified(tree, base)
    <3>1. \A t \in candidate.tools : t = Tool(t)
      BY <1>4, RefreshAssumption
    <3>2. QED
      BY <1>3, <1>4, <1>5, <1>6, <1>7, <3>1, CheckoutIsVerified
  <2>3. QED
    BY <1>3, <1>5, <1>7, <1>8, <1>9, <1>10, <1>11, <2>1, <2>2 DEF Prepared
<1>15. QED
  BY <1>2, <1>9, <1>13, <1>14

LEMMA PushStep ==
  ASSUME IInv, Push
  PROVE  IInv'
<1> USE DEF IInv
<1> DEFINE name == BranchOf(run)
           record == [tree |-> TreeOf(run), base |-> run.base]
<1>1. /\ UNCHANGED <<world, main, tags, merged, runs, queued>>
      /\ run.pc \in {"push", "review_required"} /\ run # NoRun
      /\ branches' = With(branches, name, record) /\ prs' = With(prs, name, "none")
      /\ run'.pc = "create" /\ run'.id = run.id
  BY DEF Push, NoRun
<1>2. Waiting' /\ runs' \in History /\ run'.id \in 1..Len(runs') /\ Released' = Released
  BY <1>1, RunGoesOn
<1>3. Working' /\ Prepared'
  BY <1>1, <1>2 DEF Working, Prepared, Observed, Probed, Judged, NoRun
<1>4. IsTree(TreeOf(run), Released)
  BY <1>1 DEF TreeOf, Working, Prepared, Observed
<1>5. name[1] \in {"manifest", "tool-set-review"}
  BY DEF BranchOf, Branch
<1> HIDE DEF name
<1>6. /\ DOMAIN branches' = DOMAIN branches \cup {name} /\ branches'[name] = record
      /\ \A b \in DOMAIN branches \ {name} : branches'[b] = branches[b]
      /\ DOMAIN prs' = DOMAIN prs \cup {name} /\ prs'[name] = "none"
      /\ \A b \in DOMAIN prs \ {name} : prs'[b] = prs[b]
  BY <1>1, Zenon DEF With
<1>7. ASSUME NEW b \in DOMAIN branches'
      PROVE  /\ IsTree(branches'[b].tree, Released) /\ b[1] \in {"manifest", "tool-set-review"}
             /\ prs'[b] \in {"none", "open", "merged", "closed"}
             /\ DOMAIN branches'[b] = {"tree", "base"}
  <2>1. CASE b = name
    BY <1>4, <1>5, <1>6, <2>1
  <2>2. CASE b # name
    <3>1. b \in DOMAIN branches /\ b \in DOMAIN prs
      BY <1>6, <2>2 DEF Requests
    <3>2. branches'[b] = branches[b] /\ prs'[b] = prs[b]
      BY <1>6, <2>2, <3>1
    <3>3. QED
      BY <3>1, <3>2 DEF Requests, Commits
  <2>3. QED
    BY <2>1, <2>2
<1>8. Commits' /\ Requests'
  BY <1>1, <1>2, <1>6, <1>7 DEF Commits, Requests
<1>9. World' /\ Versions'
  BY <1>1 DEF World, world, Versions
<1>10. QED
  BY <1>2, <1>3, <1>8, <1>9

LEMMA EndSteps ==
  ASSUME IInv, AlreadyRecorded \/ StepFails
  PROVE  IInv'
<1> USE DEF IInv
<1>1. /\ UNCHANGED <<world, repo>> /\ run # NoRun
      /\ \E status \in Statuses : Ends(status)
  BY DEF AlreadyRecorded, StepFails, NoRun, Statuses
<1>2. World' /\ Versions' /\ Commits' /\ Requests'
  BY <1>1, RepositoryStays DEF World, world
<1>3. Working' /\ Waiting' /\ Prepared'
  BY <1>1, NextRunStarts DEF repo
<1>4. QED
  BY <1>2, <1>3

LEMMA CreateStep ==
  ASSUME IInv, CreatePR
  PROVE  IInv'
<1> USE DEF IInv
<1>1. /\ UNCHANGED <<world, main, tags, branches, merged>> /\ run # NoRun
      /\ \E status \in Statuses : Ends(status)
      /\ prs' = [prs EXCEPT ![run.name] = "open"]
  BY DEF CreatePR, NoRun, Statuses
<1>2. Working' /\ Waiting' /\ Prepared'
  BY <1>1, NextRunStarts
<1>3. Requests'
  BY <1>1 DEF Requests
<1>4. Released' = Released
  BY <1>1 DEF Released
<1>5. Commits'
  BY <1>1, <1>4 DEF Commits
<1>6. World' /\ Versions'
  BY <1>1 DEF World, world, Versions
<1>7. QED
  BY <1>2, <1>3, <1>5, <1>6

-----------------------------------------------------------------------------
(* The steps of GitHub, the owner and the provider *)

LEMMA MergeStep ==
  ASSUME IInv, NEW b \in DOMAIN prs, NEW approved \in BOOLEAN, Merge(b, approved)
  PROVE  IInv'
<1> USE DEF IInv
<1>1. /\ UNCHANGED <<world, tags, branches, runs, run, queued>>
      /\ IsRefresh(b) /\ prs' = [prs EXCEPT ![b] = "merged"] /\ main' = branches[b].tree
      /\ merged' = merged \cup {[name |-> b, head |-> branches[b].tree, base |-> main,
                                 approved |-> approved]}
  BY DEF Merge
<1>2. Working' /\ Waiting' /\ Prepared'
  BY <1>1, RunsStay
<1>3. Released' = Released /\ b \in DOMAIN branches
  BY <1>1 DEF Released, Requests
<1>4. \A m \in merged' : IsRefresh(m.name) /\ IsTree(m.head, Released)
  <2>1. ASSUME NEW m \in merged' PROVE IsRefresh(m.name) /\ IsTree(m.head, Released)
    <3>1. CASE m \in merged
      BY <3>1 DEF Commits
    <3>2. CASE m \notin merged
      <4>1. m.name = b /\ m.head = branches[b].tree
        BY <1>1, <3>2
      <4>2. QED
        BY <1>1, <1>3, <4>1 DEF Commits
    <3>3. QED
      BY <3>1, <3>2
  <2>2. QED
    BY <2>1
<1>5. Commits'
  BY <1>1, <1>3, <1>4 DEF Commits
<1>6. Requests'
  BY <1>1 DEF Requests
<1>7. World' /\ Versions'
  BY <1>1 DEF World, world, Versions
<1>8. QED
  BY <1>2, <1>5, <1>6, <1>7

\* What the owner commits on a branch still makes a tree.
LEMMA AmendedIsTree ==
  ASSUME NEW tree, IsTree(tree, Released), NEW a \in Amendments
  PROVE  IsTree(Amended(tree, a), Released)
<1> DEFINE reworded == [tree.manifest EXCEPT !.entries[1].rationale = "reworded"]
           after == [reworded EXCEPT !.full_manifest_digest = FullDigest(reworded)]
           amended == Amended(tree, a)
<1>1. Loads(after)
  <2>1. Loads(tree.manifest)
    BY DEF IsTree
  <2>2. QED
    BY <2>1, RewordedLoads
<1>2. /\ DOMAIN amended = TreeFields /\ amended.manifest = after
      /\ amended.version = tree.version /\ amended.link = tree.link /\ amended.design = tree.design
      /\ amended.readme.pin[1] \in {tree.version, tree.readme.pin[1]}
  <2> HIDE DEF reworded
  <2>1. DOMAIN tree = TreeFields
    BY DEF IsTree
  <2>2. QED
    BY <2>1 DEF Amended, TreeFields, reworded
<1> HIDE DEF after, amended
<1>3. /\ tree.version \in Nat /\ tree.version >= FirstTree.version
      /\ tree.readme.pin[1] <= tree.version /\ tree.design[1] <= tree.version
      /\ tree.link.base \in Released
  BY DEF IsTree
<1>4. amended.readme.pin[1] <= amended.version
  BY <1>2, <1>3
<1>5. IsTree(amended, Released)
  BY <1>1, <1>2, <1>3, <1>4 DEF IsTree
<1>6. QED
  BY <1>5 DEF amended

LEMMA AmendStep ==
  ASSUME IInv, NEW b \in DOMAIN prs, NEW a \in Amendments, Amend(b, a)
  PROVE  IInv'
<1> USE DEF IInv
<1> DEFINE amended == Amended(branches[b].tree, a)
<1>1. /\ UNCHANGED <<world, main, tags, prs, merged, runs, run, queued>>
      /\ branches' = [branches EXCEPT ![b].tree = amended]
  BY Zenon DEF Amend
<1>2. b \in DOMAIN branches /\ IsTree(branches[b].tree, Released)
  BY DEF Requests, Commits
<1>3. IsTree(amended, Released)
  BY <1>2, AmendedIsTree
<1> HIDE DEF amended
<1>4. /\ DOMAIN branches' = DOMAIN branches
      /\ \A c \in DOMAIN branches \ {b} : branches'[c] = branches[c]
  BY <1>1
<1>5. IsTree(branches'[b].tree, Released) /\ DOMAIN branches'[b] = {"tree", "base"}
  <2>1. DOMAIN branches[b] = {"tree", "base"}
    BY <1>2 DEF Requests
  <2>2. DOMAIN branches'[b] = {"tree", "base"} /\ branches'[b].tree = amended
    BY <1>1, <1>2, <2>1
  <2>3. QED
    BY <1>3, <2>2
<1>6. Released' = Released
  BY <1>1 DEF Released
<1>7. Commits' /\ Requests'
  BY <1>1, <1>4, <1>5, <1>6 DEF Commits, Requests
<1>8. Working' /\ Waiting' /\ Prepared'
  BY <1>1, RunsStay
<1>9. World' /\ Versions'
  BY <1>1 DEF World, world, Versions
<1>10. QED
  BY <1>7, <1>8, <1>9

LEMMA BranchSteps ==
  ASSUME IInv, NEW b \in DOMAIN prs, Close(b) \/ DeleteBranch(b)
  PROVE  IInv'
<1> USE DEF IInv
<1>1. UNCHANGED <<world, main, tags, merged, runs, run, queued>>
  BY DEF Close, DeleteBranch
<1>2. Working' /\ Waiting' /\ Prepared' /\ Released' = Released
  BY <1>1, RunsStay DEF Released
<1>3. /\ DOMAIN prs' = DOMAIN branches' /\ DOMAIN branches' \subseteq DOMAIN branches
      /\ \A c \in DOMAIN branches' :
           branches'[c] = branches[c] /\ prs'[c] \in {"none", "open", "merged", "closed"}
  <2>1. CASE Close(b)
    BY <2>1 DEF Close, Requests
  <2>2. CASE DeleteBranch(b)
    <3>1. /\ DOMAIN branches' = DOMAIN branches \ {b} /\ DOMAIN prs' = DOMAIN prs \ {b}
          /\ \A c \in DOMAIN branches \ {b} : branches'[c] = branches[c]
          /\ \A c \in DOMAIN prs \ {b} : prs'[c] = prs[c]
      BY <2>2, Zenon DEF DeleteBranch, Without
    <3>2. QED
      BY <3>1 DEF Requests
  <2>3. QED
    BY <2>1, <2>2
<1>4. Commits' /\ Requests'
  BY <1>1, <1>2, <1>3 DEF Commits, Requests
<1>5. World' /\ Versions'
  BY <1>1 DEF World, world, Versions
<1>6. QED
  BY <1>2, <1>4, <1>5

\* Changes of the world are counted up to their bound.
LEMMA ChangesAreCounted ==
  ASSUME changes \in 0..MaxChanges, Change
  PROVE  changes' \in 0..MaxChanges
BY RefreshAssumption DEF Change

LEMMA ReviewStep ==
  ASSUME IInv, NEW tools, NEW linked \in BOOLEAN, NEW marked, Review(tools, linked, marked)
  PROVE  IInv'
<1> USE DEF IInv
<1> DEFINE document == Authored(main.manifest, tools)
           digest == document.full_manifest_digest
           version == main.version + 1
           link == IF linked THEN [base |-> Max(DOMAIN tags), head |-> version] ELSE main.link
<1> HIDE DEF document, digest, version, link
<1>1. /\ UNCHANGED <<provider, day, tags, branches, prs, merged, runs, run, queued>>
      /\ Loads(document) /\ Change
  BY DEF Review, document
<1>2. main' = [main EXCEPT
           !.manifest = document, !.version = version, !.lock = version,
           !.tests = [pin |-> digest, quotes |-> main.tests.quotes],
           !.readme = [pin |-> <<version, digest>>, quotes |-> main.readme.quotes],
           !.design = <<version, digest>>,
           !.changelog = main.changelog \cup {<<version, digest>>},
           !.marked = marked, !.retained = NoLink, !.link = link]
  BY DEF Review, document, digest, version, link
<1>3. DOMAIN main = TreeFields
  BY DEF Commits, IsTree
<1>4. /\ DOMAIN main' = TreeFields /\ main'.manifest = document /\ main'.version = version
      /\ main'.link = link /\ main'.readme.pin[1] = version /\ main'.design[1] = version
  BY <1>2, <1>3 DEF TreeFields
<1>5. Max(DOMAIN tags) \in DOMAIN tags
  <2>1. PICK n \in Nat : \A v \in DOMAIN tags : v <= n
    BY DEF Versions
  <2>2. DOMAIN tags \in SUBSET Nat /\ DOMAIN tags # {}
    BY DEF Versions
  <2>3. QED
    BY <2>1, <2>2, LargestVersion
<1>6. link.base \in Released
  BY <1>5 DEF link, Released, Commits, IsTree
<1>7. version \in Nat /\ version >= FirstTree.version /\ version <= version
  <2>1. main.version \in Nat /\ FirstTree.version \in Nat /\ main.version >= FirstTree.version
    BY RefreshAssumption DEF Commits, IsTree
  <2>2. QED
    BY <2>1 DEF version
<1>8. IsTree(main', Released) /\ Released' = Released
  BY <1>1, <1>4, <1>6, <1>7 DEF IsTree, Released
<1>9. Commits' /\ Requests'
  BY <1>1, <1>8 DEF Commits, Requests
<1>10. Working' /\ Waiting' /\ Prepared'
  BY <1>1, RunsStay
<1>11. World' /\ Versions'
  BY <1>1, ChangesAreCounted DEF World, Versions
<1>12. QED
  BY <1>9, <1>10, <1>11

\* A tag that was not there is added to the others.
LEMMA TaggedStep ==
  ASSUME IInv, NEW version, version \notin DOMAIN tags,
         NEW tree, IsTree(tree, Released), tree.version = version, NEW by,
         tags' = With(tags, version, [tree |-> tree, by |-> by]),
         UNCHANGED <<world, main, branches, prs, runs, run, queued>>, merged' \subseteq merged
  PROVE  IInv'
<1> USE DEF IInv
<1>1. /\ DOMAIN tags' = DOMAIN tags \cup {version}
      /\ tags'[version] = [tree |-> tree, by |-> by]
      /\ \A v \in DOMAIN tags \ {version} : tags'[v] = tags[v]
  BY Zenon DEF With
<1>2. \A v \in DOMAIN tags : tags'[v] = tags[v]
  BY <1>1
<1>3. Released \subseteq Released'
  BY <1>1 DEF Released
<1>4. \A t : IsTree(t, Released) => IsTree(t, Released')
  BY <1>3, CommitsStay
<1>5. Working' /\ Waiting' /\ Prepared'
  BY <1>1, RunsStay
<1>6. Versions'
  <2>1. version \in Nat
    BY DEF IsTree
  <2>2. PICK n \in Nat : \A v \in DOMAIN tags : v <= n
    BY DEF Versions
  <2>3. \A v \in DOMAIN tags : v \in Nat
    BY DEF Versions
  <2>4. n + version \in Nat /\ \A v \in DOMAIN tags' : v <= n + version
    BY <1>1, <2>1, <2>2, <2>3
  <2>5. QED
    BY <1>1, <2>1, <2>4 DEF Versions
<1>7. Commits'
  <2>1. \A v \in DOMAIN tags' : IsTree(tags'[v].tree, Released')
    BY <1>1, <1>2, <1>4 DEF Commits
  <2>2. QED
    BY <1>4, <2>1 DEF Commits
<1>8. World' /\ Requests'
  BY DEF World, world, Requests
<1>9. QED
  BY <1>5, <1>6, <1>7, <1>8

LEMMA TagSteps ==
  ASSUME IInv, TagByHand \/ \E m \in merged : AutoRelease(m)
  PROVE  IInv'
<1>1. CASE TagByHand
  <2>1. /\ main.version \notin DOMAIN tags
        /\ tags' = With(tags, main.version, [tree |-> main, by |-> "owner"])
        /\ UNCHANGED <<world, main, branches, prs, merged, runs, run, queued>>
    BY <1>1 DEF TagByHand
  <2>2. IsTree(main, Released)
    BY DEF IInv, Commits
  <2>3. QED
    BY <2>1, <2>2, TaggedStep
<1>2. ASSUME NEW m \in merged, AutoRelease(m) PROVE IInv'
  <2>1. /\ m.head.version \notin DOMAIN tags /\ Verified(m.head, m.base)
        /\ tags' = With(tags, m.head.version, [tree |-> m.head, by |-> "bot"])
        /\ UNCHANGED <<world, main, branches, prs, runs, run, queued>>
        /\ merged' = merged \ {m}
    BY <1>2 DEF AutoRelease, Tag
  <2>2. IsTree(m.head, Released)
    BY DEF IInv, Commits
  <2>3. QED
    BY <2>1, <2>2, TaggedStep
<1>3. QED
  BY <1>1, <1>2

LEMMA WorldSteps ==
  ASSUME IInv,
         \/ NextDay
         \/ \E tools \in Surfaces : ProviderMoves(tools)
         \/ \E m \in merged : ReleaseFails(m)
  PROVE  IInv'
<1> USE DEF IInv
<1>1. UNCHANGED <<main, tags, branches, prs, runs, run, queued>> /\ merged' \subseteq merged
  BY DEF NextDay, ProviderMoves, ReleaseFails, repo
<1>2. Working' /\ Waiting' /\ Prepared' /\ Released' = Released
  BY <1>1, RunsStay DEF Released
<1>3. Commits' /\ Requests' /\ Versions'
  BY <1>1, <1>2 DEF Commits, Requests, Versions
<1>4. World'
  <2>1. MaxDay \in Nat
    BY RefreshAssumption
  <2>2. QED
    BY <2>1, ChangesAreCounted DEF World, world, NextDay, ProviderMoves, ReleaseFails
<1>5. QED
  BY <1>2, <1>3, <1>4

LEMMA StepHolds == IInv /\ [Next]_vars => IInv'
<1> SUFFICES ASSUME IInv, [Next]_vars PROVE IInv'
  OBVIOUS
<1>1. CASE Dispatch("owner")
  BY <1>1, DispatchStep
<1>2. CASE RunSteps
  <2>1. CASE ObserveFirst \/ ObserveSecond
    BY <2>1, ObserveSteps
  <2>2. CASE Classified
    BY <2>2, ClassifiedStep
  <2>3. CASE Prepare
    BY <2>3, PrepareStep
  <2>4. CASE AlreadyRecorded \/ StepFails
    BY <2>4, EndSteps
  <2>5. CASE Push
    BY <2>5, PushStep
  <2>6. CASE CreatePR
    BY <2>6, CreateStep
  <2>7. QED
    BY <1>2, <2>1, <2>2, <2>3, <2>4, <2>5, <2>6 DEF RunSteps
<1>3. CASE Environment
  <2>1. ASSUME NEW b \in DOMAIN prs, Close(b) \/ DeleteBranch(b) PROVE IInv'
    BY <2>1, BranchSteps
  <2>2. ASSUME NEW b \in DOMAIN prs, NEW a \in Amendments, Amend(b, a) PROVE IInv'
    BY <2>2, AmendStep
  <2>3. ASSUME NEW b \in DOMAIN prs, NEW approved \in BOOLEAN, Merge(b, approved) PROVE IInv'
    BY <2>3, MergeStep
  <2>4. ASSUME NEW tools \in Surfaces,
               Review(tools, TRUE, Markers) \/ Review(tools, FALSE, Markers \ {"links"})
        PROVE  IInv'
    BY <2>4, ReviewStep
  <2>5. CASE TagByHand \/ \E m \in merged : AutoRelease(m)
    BY <2>5, TagSteps
  <2>6. CASE \/ NextDay
             \/ \E tools \in Surfaces : ProviderMoves(tools)
             \/ \E m \in merged : ReleaseFails(m)
    BY <2>6, WorldSteps
  <2>7. QED
    BY <1>3, <2>1, <2>2, <2>3, <2>4, <2>5, <2>6 DEF Environment
<1>4. CASE UNCHANGED vars
  <2>1. UNCHANGED <<world, repo, runs, run, queued, tags>>
    BY <1>4 DEF vars, repo
  <2>2. Working' /\ Waiting' /\ Prepared'
    BY <2>1, RunsStay DEF IInv
  <2>3. Versions' /\ Commits' /\ Requests'
    BY <2>1, RepositoryStays DEF IInv
  <2>4. World'
    BY <2>1 DEF IInv, World, world
  <2>5. QED
    BY <2>2, <2>3, <2>4 DEF IInv
<1>5. QED
  BY <1>1, <1>2, <1>3, <1>4 DEF Next

THEOREM Invariant == Spec => []IInv
<1>1. QED
  BY InitHolds, StepHolds, PTL DEF Spec

-----------------------------------------------------------------------------
(* What follows *)

\* Every commit, branch and tag has a manifest that loads, and a checkout is
\* pushed only as a whole release: every file that names the version or pins the
\* digest agrees with the manifest beside it.
THEOREM ReleasesAreWhole == Spec => []ReleaseIsWhole
<1>1. IInv => ReleaseIsWhole
  <2> SUFFICES ASSUME IInv PROVE ReleaseIsWhole
    OBVIOUS
  <2>1. \A t \in Trees : Loads(t.manifest) /\ t.version >= FirstTree.version
    BY DEF IInv, Trees, Commits, IsTree
  <2>2. queued = NoRun \/ run # NoRun
    BY DEF IInv, Waiting
  <2>3. TypeOK
    BY <2>1, <2>2 DEF TypeOK, IInv, World, Requests, Commits, Working, Observed
  <2>4. run.pc = "push" =>
          Loads(run.checkout.manifest) /\ Whole(run.checkout, run.base)
    BY DEF IInv, Prepared, IsTree
  <2>5. QED
    BY <2>3, <2>4 DEF ReleaseIsWhole, Whole
<1>2. QED
  BY <1>1, Invariant, PTL

\* No refresh changes a reviewer's decision, none is lost or added, and a refresh
\* is refused only for a schema the provider serves.
THEOREM DecisionsAreCarried == Spec => []DecisionsCarriedForward
<1>1. IInv => DecisionsCarriedForward
  <2> SUFFICES ASSUME IInv, run.pc = "refresh" PROVE DecisionsCarriedForward
    BY DEF DecisionsCarriedForward
  <2>1. /\ Loads(run.base.manifest) /\ run.candidate.tools \in Surfaces /\ Stable(run)
        /\ Classify(run.base.manifest, run.candidate.tools) = "refresh"
    BY DEF IInv, Working, Observed, Probed, Judged, IsTree
  <2>2. \A t \in run.candidate.tools : t = Tool(t)
    BY <2>1, RefreshAssumption
  <2>3. LoadsCandidate(run.candidate.tools)
    BY <2>1 DEF Stable
  <2>4. ToolNames(run.candidate.tools) = ToolNames(Tools(run.base.manifest))
    BY <2>1, SameNamesToRefresh
  <2>5. QED
    BY <2>1, <2>2, <2>3, <2>4, RefreshDecidesNothing DEF DecisionsCarriedForward
<1>2. QED
  BY <1>1, Invariant, PTL

\* A prepared refresh makes the server ready on what both observations saw.
THEOREM RefreshesRestoreReadiness == Spec => []RefreshRestoresReadiness
<1>1. IInv => RefreshRestoresReadiness
  <2> SUFFICES ASSUME IInv, run.pc = "push" PROVE RefreshRestoresReadiness
    BY DEF RefreshRestoresReadiness
  <2>1. /\ Loads(run.checkout.manifest)
        /\ Tools(run.checkout.manifest) = run.candidate.tools
        /\ run.first = run.candidate.tools /\ run.first \in Surfaces
    BY DEF IInv, Prepared, Working, Stable, IsTree, Observed, Probed, Judged
  <2>2. \A t \in run.first : t = Tool(t)
    BY <2>1, RefreshAssumption
  <2>3. Ready(run.checkout.manifest, run.first)
    BY <2>1, <2>2, ReadyOnItsTools
  <2>4. QED
    BY <2>1, <2>3 DEF RefreshRestoresReadiness
<1>2. QED
  BY <1>1, Invariant, PTL

\* The workflow reports no drift exactly when a server with the manifest of main
\* would be ready, for every surface the provider may serve.
THEOREM NoDriftMeansReady == Spec => []NoDriftIsReady
<1>1. IInv => NoDriftIsReady
  <2> SUFFICES ASSUME IInv, NEW tools \in Surfaces
               PROVE  Classify(main.manifest, tools) = "no_drift" <=> Ready(main.manifest, tools)
    BY DEF NoDriftIsReady
  <2>1. Loads(main.manifest) /\ \A t \in tools : t = Tool(t)
    BY RefreshAssumption DEF IInv, Commits, IsTree
  <2>2. QED
    BY <2>1, NoDriftOnItsTools, ReadyOnItsTools
<1>2. QED
  BY <1>1, Invariant, PTL

\* The comparison links of a prepared release lead to releases, whatever was
\* reviewed, tagged or left untagged since the run started.
THEOREM LinksAlwaysResolve == Spec => []LinksResolve
<1>1. IInv => LinksResolve
  <2> SUFFICES ASSUME IInv, run.pc = "push" PROVE LinksResolve
    BY DEF LinksResolve
  <2>1. /\ run.checkout.link.base \in Released
        /\ run.checkout.retained # NoLink =>
             run.checkout.retained.base \in Released /\ run.checkout.retained.head \in Released
    BY DEF IInv, Prepared, IsTree
  <2>2. QED
    BY <2>1 DEF LinksResolve, Released
<1>2. QED
  BY <1>1, Invariant, PTL

\* What was prepared has the shape that verify_release_pr.py asks for.
THEOREM PreparedIsAccepted == Spec => []PreparedIsReleasable
<1>1. IInv => PreparedIsReleasable
  BY DEF IInv, Prepared, PreparedIsReleasable
<1>2. QED
  BY <1>1, Invariant, PTL

\* No step moves or removes a tag, by the bot or by hand.
THEOREM TagsStayWhereTheyAre == Spec => TagsNeverMove
<1> DEFINE Stay == \A v \in DOMAIN tags : v \in DOMAIN tags' /\ tags'[v] = tags[v]
<1>1. ASSUME NEW version, NEW record, version \notin DOMAIN tags, tags' = With(tags, version, record)
      PROVE  Stay
  <2>1. /\ DOMAIN tags' = DOMAIN tags \cup {version}
        /\ \A v \in DOMAIN tags \ {version} : tags'[v] = tags[v]
    BY <1>1, Zenon DEF With
  <2>2. QED
    BY <1>1, <2>1
<1>2. ASSUME tags' = tags PROVE Stay
  BY <1>2
<1> HIDE DEF Stay
<1>3. [Next]_vars => Stay
  <2> SUFFICES ASSUME [Next]_vars PROVE Stay
    OBVIOUS
  <2>1. CASE Dispatch("owner") \/ UNCHANGED vars
    BY <1>2, <2>1 DEF Dispatch, repo, vars
  <2>2. CASE RunSteps
    BY <1>2, <2>2 DEF RunSteps, ObserveFirst, ObserveSecond, Classified, Prepare,
                      AlreadyRecorded, Push, CreatePR, StepFails, RunOnly, repo
  <2>3. CASE TagByHand
    BY <1>1, <2>3 DEF TagByHand
  <2>4. ASSUME NEW m \in merged, AutoRelease(m) PROVE Stay
    BY <1>1, <2>4 DEF AutoRelease, Tag
  <2>5. CASE Environment /\ ~TagByHand /\ ~(\E m \in merged : AutoRelease(m))
    BY <1>2, <2>5 DEF Environment, Amend, Close, DeleteBranch, Merge, Review, NextDay,
                      ProviderMoves, ReleaseFails, repo
  <2>6. QED
    BY <2>1, <2>2, <2>3, <2>4, <2>5 DEF Next
<1>4. QED
  BY <1>3, PTL DEF Spec, TagsNeverMove, Stay

-----------------------------------------------------------------------------
(* The refinement of WorkflowRuns *)

\* The run a Dispatch, an end of a run or a midnight leaves behind, in the eyes of
\* the trigger.
LEMMA RunsStep == IInv /\ [Next]_vars => [Runs!Next]_(Runs!runVars)
<1> SUFFICES ASSUME IInv, [Next]_vars PROVE [Runs!Next]_(Runs!runVars)
  OBVIOUS
<1> USE DEF IInv
<1>1. run # NoRun => Id(run) = run.id /\ run.id # 0
  BY DEF Id, Working
<1>2. queued # NoRun => run # NoRun /\ Id(queued) = queued.id /\ queued.id # 0
  BY DEF Id, Waiting
<1>3. Id(NoRun) = 0 /\ (run = NoRun <=> Id(run) = 0) /\ (queued = NoRun <=> Id(queued) = 0)
  BY <1>1, <1>2 DEF Id
<1>4. ASSUME UNCHANGED <<day, runs>>, Id(run)' = Id(run), Id(queued)' = Id(queued)
      PROVE  UNCHANGED Runs!runVars
  BY <1>4 DEF Runs!runVars
<1>5. ASSUME run # NoRun, NEW status \in {"success", "failure"}, Ends(status), UNCHANGED day
      PROVE  Runs!Next
  <2>1. runs' = [runs EXCEPT ![Id(run)].status = status] /\ Id(run) # 0
    BY <1>1, <1>5 DEF Ends
  <2>2. Id(run)' = Id(queued) /\ Id(queued)' = 0
    <3>1. CASE queued = NoRun
      BY <1>5, <3>1 DEF Ends, Id
    <3>2. CASE queued # NoRun
      <4>1. run'.id = queued.id /\ run'.pc = "first" /\ queued' = NoRun
        BY <1>5, <3>2 DEF Ends, Started
      <4>2. run' # NoRun
        BY <4>1 DEF NoRun
      <4>3. QED
        BY <3>2, <4>1, <4>2 DEF Id
    <3>3. QED
      BY <3>1, <3>2
  <2>3. Runs!End(status)
    BY <1>5, <2>1, <2>2 DEF Runs!End
  <2>4. QED
    BY <1>5, <2>3 DEF Runs!Next
<1>6. CASE Dispatch("owner")
  <2>1. UNCHANGED day /\ Len(runs) < MaxRuns
    BY <1>6 DEF Dispatch, world
  <2>2. Len(runs) \in Nat /\ Len(runs') = Len(runs) + 1 /\ runs' = Runs!Dispatched("owner")
    <3>1. Len(runs) \in Nat
      BY LenProperties DEF Working, History
    <3> DEFINE Records == [day : 1..MaxDay, by : {"owner"}, status : Statuses]
               more == Recorded("owner", "active")
    <3>2. more \in Seq(Records) /\ Len(more) = Len(runs) + 1
      <4>1. [day |-> day, by |-> "owner", status |-> "active"] \in Records /\ runs \in Seq(Records)
        BY DEF World, Statuses, Working, History
      <4> HIDE DEF Records
      <4>2. QED
        BY <4>1, AppendProperties DEF Recorded
    <3>3. CASE queued = NoRun
      <4>1. runs' = more
        BY <1>6, <3>3 DEF Dispatch
      <4>2. more = Runs!Dispatched("owner")
        BY <1>3, <3>3 DEF Runs!Dispatched, Recorded
      <4>3. QED
        BY <3>1, <3>2, <4>1, <4>2
    <3>4. CASE queued # NoRun
      <4>1. runs' = [more EXCEPT ![Id(queued)].status = "failure"] /\ Id(queued) # 0
        BY <1>2, <1>6, <3>4 DEF Dispatch
      <4>2. [more EXCEPT ![Id(queued)].status = "failure"] = Runs!Dispatched("owner")
        BY <4>1 DEF Runs!Dispatched, Recorded
      <4>3. Id(queued) \in 1..Len(more)
        BY <1>2, <3>1, <3>2, <3>4 DEF Waiting
      <4> HIDE DEF more
      <4>4. Len(runs') = Len(more)
        BY <3>2, <4>1, <4>3, Concluded DEF History, Statuses
      <4>5. QED
        BY <3>1, <3>2, <4>1, <4>2, <4>4
    <3>5. QED
      BY <3>3, <3>4
  <2>3. CASE run = NoRun
    <3>1. run'.id = Len(runs') /\ run'.pc = "first" /\ queued' = queued
      BY <1>6, <2>2, <2>3 DEF Dispatch, Started
    <3>2. run' # NoRun
      BY <3>1 DEF NoRun
    <3>3. Id(run)' = Len(runs') /\ Id(queued)' = Id(queued) /\ Id(run) = 0
      BY <1>3, <2>3, <3>1, <3>2 DEF Id
    <3>4. Runs!Dispatch("owner")
      BY <2>1, <2>2, <3>3 DEF Runs!Dispatch
    <3>5. QED
      BY <3>4 DEF Runs!Next
  <2>4. CASE run # NoRun
    <3>1. queued'.id = Len(runs') /\ queued'.pc = "queued" /\ run' = run
      BY <1>6, <2>2, <2>4 DEF Dispatch
    <3>2. queued' # NoRun
      BY <3>1 DEF NoRun
    <3>3. Id(queued)' = Len(runs') /\ Id(run)' = Id(run) /\ Id(run) # 0
      BY <1>1, <2>4, <3>1, <3>2 DEF Id
    <3>4. Runs!Dispatch("owner")
      BY <2>1, <2>2, <3>3 DEF Runs!Dispatch
    <3>5. QED
      BY <3>4 DEF Runs!Next
  <2>5. QED
    BY <2>3, <2>4
<1>7. ASSUME run # NoRun, run' # NoRun, run'.id = run.id, UNCHANGED <<day, runs, queued>>
      PROVE  UNCHANGED Runs!runVars
  <2>1. Id(run)' = Id(run) /\ Id(queued)' = Id(queued)
    BY <1>7 DEF Id
  <2>2. QED
    BY <1>4, <1>7, <2>1
<1>8. CASE RunSteps
  <2>1. CASE AlreadyRecorded \/ CreatePR
    <3>1. run # NoRun /\ (Ends("success") \/ Ends("failure")) /\ UNCHANGED day
      BY <2>1 DEF AlreadyRecorded, CreatePR, NoRun, world
    <3>2. QED
      BY <1>5, <3>1
  <2>2. CASE StepFails
    <3>1. run # NoRun /\ Ends("failure") /\ UNCHANGED day
      BY <2>2 DEF StepFails, world
    <3>2. QED
      BY <1>5, <3>1
  <2>3. CASE Classified /\ Classify(run.base.manifest, run.candidate.tools) = "no_drift"
    <3>1. run # NoRun /\ Ends("success") /\ UNCHANGED day
      BY <2>3 DEF Classified, NoRun, world
    <3>2. QED
      BY <1>5, <3>1
  <2>4. CASE Classified /\ Classify(run.base.manifest, run.candidate.tools) # "no_drift"
    <3>1. /\ run'.pc = Classify(run.base.manifest, run.candidate.tools) /\ run'.id = run.id
          /\ UNCHANGED <<day, runs, queued>> /\ run # NoRun
      BY <2>4 DEF Classified, NoRun, world
    <3>2. run' # NoRun
      BY <3>1 DEF Classify, NoRun
    <3>3. QED
      BY <1>7, <3>1, <3>2
  <2>5. CASE ObserveFirst \/ ObserveSecond \/ Prepare \/ Push
    <3>1. /\ run'.pc \in {"second", "probed", "push", "create"} /\ run'.id = run.id
          /\ UNCHANGED <<day, runs, queued>> /\ run # NoRun
      BY <2>5 DEF ObserveFirst, ObserveSecond, Prepare, Push, NoRun, RunOnly, world
    <3>2. run' # NoRun
      BY <3>1 DEF NoRun
    <3>3. QED
      BY <1>7, <3>1, <3>2
  <2>6. QED
    BY <1>8, <2>1, <2>2, <2>3, <2>4, <2>5 DEF RunSteps
<1>9. CASE NextDay
  <2>1. Id(run)' = Id(run) /\ Id(queued)' = Id(queued)
    BY <1>9 DEF NextDay, Id
  <2>2. Runs!NextDay
    BY <1>9, <2>1 DEF NextDay, Runs!NextDay
  <2>3. QED
    BY <2>2 DEF Runs!Next
<1>10. CASE (Environment /\ ~NextDay) \/ UNCHANGED vars
  <2>1. UNCHANGED <<day, runs, run, queued>>
    BY <1>10 DEF Environment, Amend, Close, DeleteBranch, Merge, Review, TagByHand,
                 ProviderMoves, AutoRelease, ReleaseFails, vars, world
  <2>2. QED
    BY <1>4, <2>1 DEF Id
<1>11. QED
  BY <1>6, <1>8, <1>9, <1>10 DEF Next

\* To the trigger and to the owner, the runs of the workflow are those of
\* WorkflowRuns: one at a time, one waiting, none forgotten.
THEOREM RunsAreWorkflowRuns == Spec => RunsSpec
<1>1. Init => Runs!Init
  BY DEF Init, Runs!Init, Id
<1>2. QED
  BY <1>1, Invariant, RunsStep, PTL DEF Spec, RunsSpec, Runs!Spec
=============================================================================
