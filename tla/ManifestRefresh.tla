--------------------------- MODULE ManifestRefresh ---------------------------
(****************************************************************************)
(* The daily refresh of the manifest: a run of manifest-refresh.yml probes  *)
(* the provider twice, classifies what it saw and, for an unchanged tool    *)
(* set, prepares a release in its checkout (manifest_automation.py),        *)
(* pushes a branch and opens a pull request.  The owner may amend, approve  *)
(* and merge it, and reviews changed tool sets by hand; auto-release.yml    *)
(* tags what verify_release_pr.py accepts.  Every command may fail.         *)
(*                                                                          *)
(* A tree is what the files of a commit say.  Versions are patch numbers,   *)
(* links are pairs of them, and a pin is a version with a digest.  README   *)
(* and tests have one pin that is kept up to date and may quote digests     *)
(* elsewhere; the changelog keeps the pins of its entries.                  *)
(****************************************************************************)
EXTENDS ManifestDocument, SequencesExt

CONSTANTS
  Surfaces,      \* the tool sets the provider may serve
  FirstTree,     \* main, when the project starts; it is tagged
  Amendments,    \* what a commit of the owner on a branch may leave out or add
  MaxVersion,    \* bound: versions a person makes
  MaxDay,        \* bound: days
  MaxChanges,    \* bound: changes of the provider, midnights and reviews
  MaxRuns,       \* bound: runs of the workflow
  NoTree

TreeFields ==
  {"manifest", "version", "lock", "tests", "readme", "design", "changelog",
   "marked", "link", "retained", "others"}

\* The files that name the manifest's digest and are checked for it.
Pinned == {"readme", "changelog", "tests"}

ASSUME RefreshAssumption ==
  /\ DOMAIN FirstTree = TreeFields /\ FirstTree.version \in Nat
  /\ FirstTree.readme.pin[1] <= FirstTree.version /\ FirstTree.design[1] <= FirstTree.version
  /\ Amendments \subseteq [fixed : SUBSET Pinned, quoted : SUBSET Pinned, others : BOOLEAN]
  /\ Loads(FirstTree.manifest) /\ Tools(FirstTree.manifest) \in Surfaces
  /\ \A tools \in Surfaces : \A t \in tools : t = Tool(t)
  /\ MaxDay \in Nat \ {0} /\ MaxRuns \in Nat /\ MaxChanges \in Nat

VARIABLES
  provider,   \* the tools it serves now
  day,
  changes,    \* how many there were; only bounds them
  main,       \* the tree of main
  tags,       \* version -> [tree, by]
  branches,   \* name -> [tree, base]
  prs,        \* name -> "none", "open", "merged", "closed"
  merged,     \* merges auto-release has not looked at: [name, head, base, approved]
  runs,       \* history: the runs, [day, by, status]
  run,        \* the active run
  queued      \* the one waiting behind it: [id, base]

repo == <<main, tags, branches, prs, merged>>
world == <<provider, day, changes>>
vars == <<world, repo, runs, run, queued>>

Without(f, x) == [y \in DOMAIN f \ {x} |-> f[y]]
With(f, x, v) == [y \in DOMAIN f \cup {x} |-> IF y = x THEN v ELSE f[y]]

NoRun == [pc |-> "idle"]
Branch(kind, tools) == <<kind, SurfaceDigest(tools)>>
NoLink == [base |-> 0, head |-> 0]

Init ==
  /\ provider = Tools(FirstTree.manifest) /\ day = 1 /\ changes = 0
  /\ main = FirstTree
  /\ tags = [v \in {FirstTree.version} |-> [tree |-> FirstTree, by |-> "owner"]]
  /\ branches = [b \in {} |-> NoTree] /\ prs = [b \in {} |-> "none"]
  /\ merged = {} /\ runs = <<>> /\ run = NoRun /\ queued = NoRun

-----------------------------------------------------------------------------
(* Runs of the workflow: one at a time, and one waiting; a third cancels    *)
(* the one that waits.  A run works on the commit it was dispatched for.    *)

Started(id, tree) == [pc |-> "first", id |-> id, base |-> tree]

Recorded(by, status) == Append(runs, [day |-> day, by |-> by, status |-> status])

Dispatch(by) ==
  /\ Len(runs) < MaxRuns
  /\ LET id == Len(runs) + 1
     IN  IF run = NoRun
           THEN run' = Started(id, main) /\ runs' = Recorded(by, "active") /\ UNCHANGED queued
           ELSE /\ queued' = [pc |-> "queued", id |-> id, base |-> main]
                /\ runs' = IF queued = NoRun THEN Recorded(by, "active")
                             ELSE [Recorded(by, "active") EXCEPT ![queued.id].status = "failure"]
                /\ UNCHANGED run
  /\ UNCHANGED <<world, repo>>

\* Faulty: the run behind it is left waiting.
EndsAlone(status) ==
  /\ run' = NoRun
  /\ runs' = [runs EXCEPT ![run.id].status = status]
  /\ UNCHANGED queued

\* A run that has ended lets the one behind it start.
Ends(status) ==
  /\ run' = IF queued = NoRun THEN NoRun ELSE Started(queued.id, queued.base)
  /\ queued' = NoRun
  /\ runs' = [runs EXCEPT ![run.id].status = status]

RunOnly == UNCHANGED <<world, repo, runs, queued>>

\* A command that exits with an error ends its job, and with it the run.
StepFails == run # NoRun /\ Ends("failure") /\ UNCHANGED <<world, repo>>

\* _run_discovery, after preflight_credential; a retry only observes later.
ObserveFirst ==
  /\ run.pc = "first"
  /\ run' = [pc |-> "second", id |-> run.id, base |-> run.base, first |-> provider]
  /\ RunOnly

ObserveSecond ==
  /\ run.pc = "second"
  /\ run' = [pc |-> "probed", id |-> run.id, base |-> run.base, first |-> run.first,
             candidate |-> [tools |-> provider, observed_at |-> day]]
  /\ RunOnly

\* Faulty: the first observation is not compared with the second.
StableIfAny(r) == TRUE

\* _load_candidate: at least one tool, and no name twice.
LoadsCandidate(tools) ==
  /\ tools # {}
  /\ \A t, u \in tools : t.name = u.name => t = u

\* require_stable_candidates
Stable(r) == LoadsCandidate(r.first) /\ r.first = r.candidate.tools

\* classify_candidate, and the job its answer starts.
Classified ==
  /\ run.pc = "probed" /\ Stable(run)
  /\ LET state == Classify(run.base.manifest, run.candidate.tools)
     IN  IF state = "no_drift"
           THEN Ends("success")
           ELSE /\ run' = [pc |-> state, id |-> run.id, base |-> run.base,
                           first |-> run.first, candidate |-> run.candidate]
                /\ UNCHANGED <<runs, queued>>
  /\ UNCHANGED <<world, repo>>

-----------------------------------------------------------------------------
(* prepare_refresh.  The checkout is the run's own and is thrown away when  *)
(* a step of the run fails.                                                 *)

\* _latest_existing_tag of the fetched ones, or the version itself.
ComparisonBase(tree) ==
  LET reachable == {v \in DOMAIN tags : v <= tree.version}
  IN  IF reachable = {} THEN tree.version ELSE Max(reachable)

Files == <<"manifest", "pyproject", "lock", "tests", "readme", "design", "changelog", "links">>

\* Each write finds exactly one place to update, or raises.
HasTarget(tree, file, base) ==
  CASE file = "lock" -> tree.lock = base.version
    [] file = "tests" -> tree.tests.pin = base.manifest.full_manifest_digest
    [] file \in {"readme", "design", "links"} -> file \in tree.marked
    [] file = "changelog" -> tree.link.head = base.version
    [] OTHER -> TRUE

\* Faulty: compared with the version before, whether it was released or not.
LinksFromOld(base) ==
  [link |-> [base |-> base.version, head |-> base.version + 1], retained |-> base.link]

\* The new comparison link, and the one before it if its release was made.
\* [Unreleased] leads from the same base to HEAD.
Links(base) ==
  [link |-> [base |-> ComparisonBase(base), head |-> base.version + 1],
   retained |-> IF base.link.head \in DOMAIN tags THEN base.link ELSE NoLink]

WriteTo(tree, file, base, document) ==
  LET digest == document.full_manifest_digest
      version == base.version + 1
      pin == <<version, digest>>
  IN  CASE file = "manifest" -> [tree EXCEPT !.manifest = document]
        [] file = "pyproject" -> [tree EXCEPT !.version = version]
        [] file = "lock" -> [tree EXCEPT !.lock = version]
        [] file = "tests" -> [tree EXCEPT !.tests = [pin |-> digest, quotes |-> tree.tests.quotes]]
        [] file = "readme" -> [tree EXCEPT !.readme = [pin |-> pin, quotes |-> tree.readme.quotes]]
        [] file = "design" -> [tree EXCEPT !.design = pin]
        [] file = "changelog" -> [tree EXCEPT !.changelog = @ \cup {pin}]
        [] file = "links" -> [tree EXCEPT !.link = Links(base).link,
                                          !.retained = Links(base).retained]

\* Faulty: a file that cannot be updated is skipped.
WriteOrSkip(tree, file, base, document) ==
  IF HasTarget(tree, file, base) THEN WriteTo(tree, file, base, document) ELSE tree

\* The first file without a place to update ends the run.
Write(tree, file, base, document) ==
  IF tree # NoTree /\ HasTarget(tree, file, base) THEN WriteTo(tree, file, base, document)
                                                 ELSE NoTree

Checkout(base, document) ==
  LET written[i \in 0..Len(Files)] ==
        IF i = 0 THEN base ELSE Write(written[i - 1], Files[i], base, document)
  IN  written[Len(Files)]

Prepare ==
  /\ run.pc = "refresh"
  /\ LET base == run.base
         document == Refreshed(base.manifest, run.candidate)
     IN  /\ Loads(document)
         /\ Decisions(document) = Decisions(base.manifest)   \* _assert_no_decision_changed
         /\ Checkout(base, document) # NoTree
         /\ run' = [pc |-> "push", id |-> run.id, base |-> base, first |-> run.first,
                    candidate |-> run.candidate, checkout |-> Checkout(base, document)]
  /\ RunOnly

-----------------------------------------------------------------------------
(* The branch and its pull request *)

\* The branch of what the run saw: a refresh, or the marker of a changed set.
BranchOf(r) ==
  Branch(IF r.pc = "push" THEN "manifest" ELSE "tool-set-review", r.candidate.tools)

\* write_review_marker changes none of the release files, and what it pushes is
\* never merged by the automation.
TreeOf(r) == IF r.pc = "push" THEN r.checkout ELSE r.base

IsRefresh(b) == b[1] = "manifest"

AlreadyRecorded ==
  /\ run.pc \in {"push", "review_required"} /\ BranchOf(run) \in DOMAIN branches
  /\ Ends("success")
  /\ UNCHANGED <<world, repo>>

Push ==
  /\ run.pc \in {"push", "review_required"} /\ BranchOf(run) \notin DOMAIN branches
  /\ branches' = With(branches, BranchOf(run), [tree |-> TreeOf(run), base |-> run.base])
  /\ prs' = With(prs, BranchOf(run), "none")
  /\ run' = [pc |-> "create", id |-> run.id, name |-> BranchOf(run)]
  /\ UNCHANGED <<world, main, tags, merged, runs, queued>>

\* gh pr create; gh pr merge --auto only asks GitHub to merge after approval, and
\* may fail with the pull request open.
CreatePR ==
  /\ run.pc = "create"
  /\ prs' = [prs EXCEPT ![run.name] = "open"]
  /\ \/ Ends("success")
     \/ IsRefresh(run.name) /\ Ends("failure")
  /\ UNCHANGED <<world, main, tags, branches, merged>>

-----------------------------------------------------------------------------
(* GitHub, the owner and the provider *)

\* Two changes of the same lines conflict: main must still be the base.  A
\* merge without an approval is an administrator's.
Merge(b, approved) ==
  /\ IsRefresh(b) /\ prs[b] = "open" /\ main = branches[b].base
  /\ prs' = [prs EXCEPT ![b] = "merged"]
  /\ main' = branches[b].tree
  /\ merged' = merged \cup {[name |-> b, head |-> branches[b].tree, base |-> main,
                             approved |-> approved]}
  /\ UNCHANGED <<world, tags, branches, runs, run, queued>>

\* A tree with another rationale.  Of the files that pin the manifest the owner
\* updates some, adds the digest elsewhere in some, and may touch other files.
Amended(tree, a) ==
  LET reworded == [tree.manifest EXCEPT !.entries[1].rationale = "reworded"]
      digest == FullDigest(reworded)
      pin == <<tree.version, digest>>
      quotes(file, old) == IF file \in a.quoted THEN old \cup {digest} ELSE old
  IN  [tree EXCEPT
        !.manifest = [reworded EXCEPT !.full_manifest_digest = digest],
        !.readme = [pin |-> IF "readme" \in a.fixed THEN pin ELSE @.pin,
                    quotes |-> quotes("readme", @.quotes)],
        !.tests = [pin |-> IF "tests" \in a.fixed THEN digest ELSE @.pin,
                   quotes |-> quotes("tests", @.quotes)],
        !.changelog = IF "changelog" \in a.fixed \cup a.quoted THEN @ \cup {pin} ELSE @,
        !.others = IF a.others THEN "amended" ELSE @]

\* The owner commits on the branch.  Bound: once.
Amend(b, a) ==
  /\ IsRefresh(b) /\ prs[b] = "open"
  /\ branches[b].tree.manifest.entries[1].rationale # "reworded"
  /\ branches' = [branches EXCEPT ![b].tree = Amended(branches[b].tree, a)]
  /\ UNCHANGED <<world, main, tags, prs, merged, runs, run, queued>>

Close(b) ==
  /\ prs[b] = "open"
  /\ prs' = [prs EXCEPT ![b] = "closed"]
  /\ UNCHANGED <<world, main, tags, branches, merged, runs, run, queued>>

DeleteBranch(b) ==
  /\ prs[b] \in {"merged", "closed"}
  /\ branches' = Without(branches, b) /\ prs' = Without(prs, b)
  /\ UNCHANGED <<world, main, tags, merged, runs, run, queued>>

\* A manifest a person writes: kept decisions, and one for each new tool.
Authored(doc, tools) ==
  LET entry(t) ==
        IF \E e \in Entries(doc) : e.name = t.name
          THEN RefreshEntry(CHOOSE e \in Entries(doc) : e.name = t.name, t)
          ELSE [name |-> t.name, schema |-> t.schema, meta |-> t.meta,
                capability |-> NoCapability, disposition |-> "denied", mutates |-> TRUE,
                rationale |-> "reviewed", schema_digest |-> SchemaDigest(t),
                metadata_digest |-> MetadataDigest(t)]
      entries == SetToSortSeq({entry(t) : t \in tools}, LAMBDA e, f : e.name < f.name)
      document == [doc EXCEPT !.entries = entries, !.version = NextVersion(@, day),
                              !.provider_surface_digest = SurfaceDigest(tools)]
  IN  [document EXCEPT !.full_manifest_digest = FullDigest(document)]

Change == changes < MaxChanges /\ changes' = changes + 1

Markers == {"readme", "design", "links"}

\* A review by hand is committed as a version of its own; it may forget the
\* changelog's link and its markers.
Review(tools, linked, marked) ==
  LET document == Authored(main.manifest, tools)
      digest == document.full_manifest_digest
      version == main.version + 1
  IN  /\ version <= MaxVersion
      /\ Loads(document) /\ tools # Tools(main.manifest) /\ Change
      /\ main' = [main EXCEPT
           !.manifest = document, !.version = version, !.lock = version,
           !.tests = [pin |-> digest, quotes |-> @.quotes],
           !.readme = [pin |-> <<version, digest>>, quotes |-> @.quotes],
           !.design = <<version, digest>>, !.changelog = @ \cup {<<version, digest>>},
           !.marked = marked, !.retained = NoLink,
           !.link = IF linked THEN [base |-> Max(DOMAIN tags), head |-> version] ELSE @]
      /\ UNCHANGED <<provider, day, tags, branches, prs, merged, runs, run, queued>>

TagByHand ==
  /\ main.version \notin DOMAIN tags
  /\ tags' = With(tags, main.version, [tree |-> main, by |-> "owner"])
  /\ UNCHANGED <<world, main, branches, prs, merged, runs, run, queued>>

ProviderMoves(tools) ==
  /\ tools # provider /\ Change
  /\ provider' = tools
  /\ UNCHANGED <<day, repo, runs, run, queued>>

NextDay ==
  /\ day < MaxDay /\ day' = day + 1 /\ Change
  /\ UNCHANGED <<provider, repo, runs, run, queued>>

-----------------------------------------------------------------------------
(* auto-release.yml *)

\* Faulty: forgets the lock file.
PathsWithoutLock == {"manifest", "version", "tests", "readme", "design", "changelog"}

\* The files a release changes, all of them and no other.
ReleasePaths == {"manifest", "version", "lock", "tests", "readme", "design", "changelog"}

\* The links are lines of the changelog; only reviews move the markers.
Fields(path) == IF path = "changelog" THEN {"changelog", "link", "retained"} ELSE {path}

ChangedPaths(head, base) ==
  {path \in TreeFields \ {"marked", "link", "retained"} :
     \E field \in Fields(path) : head[field] # base[field]}

\* The digests in the text of a file.
DigestsIn(tree, path) ==
  CASE path = "readme" -> {tree.readme.pin[2]} \cup tree.readme.quotes
    [] path = "tests" -> {tree.tests.pin} \cup tree.tests.quotes
    [] path = "changelog" -> {pin[2] : pin \in tree.changelog}

\* verify_release_pr.py: what has changed, one patch version up, and the digest
\* of the manifest somewhere in each file that pins it.
Verified(head, base) ==
  /\ ChangedPaths(head, base) = ReleasePaths
  /\ head.version = base.version + 1
  /\ \A path \in Pinned : head.manifest.full_manifest_digest \in DigestsIn(head, path)

\* Faulty: an existing tag is moved.
TagReplaces(m) ==
  /\ m.approved /\ Verified(m.head, m.base)
  /\ tags' = With(tags, m.head.version, [tree |-> m.head, by |-> "bot"])

\* A tag is made once.  Every branch is the bot's here, and so is the author of
\* every pull request.
Tag(m) ==
  /\ m.approved /\ Verified(m.head, m.base) /\ m.head.version \notin DOMAIN tags
  /\ tags' = With(tags, m.head.version, [tree |-> m.head, by |-> "bot"])

AutoRelease(m) ==
  /\ m \in merged
  /\ Tag(m)
  /\ merged' = merged \ {m}
  /\ UNCHANGED <<world, main, branches, prs, runs, run, queued>>

\* Refused, or a command failed; nobody runs it again.
ReleaseFails(m) ==
  /\ m \in merged
  /\ merged' = merged \ {m}
  /\ UNCHANGED <<world, main, tags, branches, prs, runs, run, queued>>

RunSteps ==
  \/ ObserveFirst \/ ObserveSecond \/ Classified
  \/ Prepare \/ AlreadyRecorded \/ Push \/ CreatePR \/ StepFails

Environment ==
  \/ \E b \in DOMAIN prs :
       \/ Close(b) \/ DeleteBranch(b)
       \/ \E a \in Amendments : Amend(b, a)
       \/ \E approved \in BOOLEAN : Merge(b, approved)
  \/ \E tools \in Surfaces :
       \/ Review(tools, TRUE, Markers)
       \/ Review(tools, FALSE, Markers \ {"links"})
  \/ TagByHand \/ NextDay
  \/ \E tools \in Surfaces : ProviderMoves(tools)
  \/ \E m \in merged : AutoRelease(m) \/ ReleaseFails(m)

Next == Dispatch("owner") \/ RunSteps \/ Environment

Spec == Init /\ [][Next]_vars

-----------------------------------------------------------------------------
(* Properties *)

Trees == {main} \cup {tags[v].tree : v \in DOMAIN tags} \cup {branches[b].tree : b \in DOMAIN branches}

TypeOK ==
  /\ provider \in Surfaces /\ day \in 1..MaxDay /\ changes \in 0..MaxChanges
  /\ DOMAIN prs = DOMAIN branches
  /\ \A b \in DOMAIN branches :
       b[1] \in {"manifest", "tool-set-review"} /\ prs[b] \in {"none", "open", "merged", "closed"}
  /\ run.pc \in {"idle", "first", "second", "probed", "refresh", "review_required", "push", "create"}
  /\ queued = NoRun \/ run # NoRun
  /\ \A t \in Trees : Loads(t.manifest) /\ t.version >= FirstTree.version
  /\ \A m \in merged : IsRefresh(m.name)

\* Runs are one at a time, and none is forgotten: to the trigger the workflow
\* is WorkflowRuns.
Id(r) == IF r = NoRun THEN 0 ELSE r.id
Runs == INSTANCE WorkflowRuns WITH
          Dispatchers <- {"owner"}, active <- Id(run), waiting <- Id(queued)
RunsSpec == Runs!Spec

\* The state is well formed, every tree has a manifest that loads, and a release
\* in a checkout is whole: every file that names the version or pins
\* the digest names those of the manifest beside it, however many of the files
\* were written before one of them had no place to update.
ReleaseIsWhole ==
  /\ TypeOK
  /\ run.pc = "push" =>
    LET tree == run.checkout
        pin == <<tree.version, tree.manifest.full_manifest_digest>>
    IN  /\ Loads(tree.manifest)
        /\ tree.version = run.base.version + 1 /\ tree.lock = tree.version
        /\ tree.tests.pin = pin[2]
        /\ {tree.readme.pin, tree.design} = {pin} /\ pin \in tree.changelog
        /\ tree.link.head = tree.version

\* What keeps refresh() from carrying a decision over to this tool: no schema at
\* all, or one that cannot be enforced on a tool that may be called.
Refusable(e, t) == t.schema = EmptySchema \/ (e.disposition = "allowed" /\ t.schema \in Unsupported)

\* The refresh decides nothing: "it cannot invent or change capability,
\* disposition, mutates or rationale", so that _assert_no_decision_changed has
\* nothing to find.  It is refused for what the provider serves and nothing else.
DecisionsCarriedForward ==
  run.pc = "refresh" =>
    LET base == run.base.manifest
        document == Refreshed(base, run.candidate)
    IN  /\ Decisions(document) = Decisions(base)
        /\ Loads(document) <=>
             \A e \in Entries(base), t \in run.candidate.tools : t.name = e.name => ~Refusable(e, t)

\* Merging a refresh cures the drift it was opened for: the server is ready on
\* the surface both observations agreed on.
RefreshRestoresReadiness ==
  run.pc = "push" => Ready(run.checkout.manifest, run.first) /\ Ready(run.checkout.manifest, run.candidate.tools)

\* classify_candidate and assess_surface agree on every surface: the workflow
\* reports no drift exactly when a server with this manifest would be ready.
NoDriftIsReady ==
  \A tools \in Surfaces : Classify(main.manifest, tools) = "no_drift" <=> Ready(main.manifest, tools)

\* The comparison links of a release lead from a release to one, its own being
\* still to come: a version that was never tagged leaves no dead link.
LinksResolve ==
  run.pc = "push" =>
    LET released == DOMAIN tags \cup {FirstTree.link.base}
        tree == run.checkout
    IN  /\ tree.link.base \in released
        /\ tree.retained # NoLink => {tree.retained.base, tree.retained.head} \subseteq released

\* What prepare_refresh writes is what verify_release_pr.py asks for: a refresh
\* that is merged as it was prepared is never refused by auto-release for its
\* shape, whatever versions, pins and quotes the branch started from.
PreparedIsReleasable == run.pc = "push" => Verified(run.checkout, run.base)

\* "Existing tags and releases are never moved or overwritten."
TagsNeverMove == [][\A v \in DOMAIN tags : v \in DOMAIN tags' /\ tags'[v] = tags[v]]_vars

=============================================================================
