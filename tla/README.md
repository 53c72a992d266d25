# A TLA+ development of rh-mcp

rh-mcp is a read gateway between a consumer and Robinhood's MCP server. A human
reviews a manifest of the provider's tools; the gateway serves only reads the
review permits, with a credential that a human obtained by a browser login. This
directory holds TLA+ modules that model its core and the automation that keeps the
manifest up to date, TLC configurations that check them on small instances, and
TLAPS proofs of the results that matter most.

Paths below are relative to the repository. `PROJECT.json` maps every definition
to the lines it models, and lists the runs, their mutants, the hazards and the
theorems.

## Inventory of the system

| component | state it keeps | operations | interacts with | hard part | correct when |
|---|---|---|---|---|---|
| credential lifecycle (`auth.py`, `credentials.py`) | the token and the client registration in a store shared by all the processes of the user; two `asyncio.Lock`s per process; one lock file | `access_token`, its refresh, `login`, `logout` | the authorization server; every request of the session | tasks x processes, rotation of refresh tokens, lost answers, crashes, cancellation, lock timeouts | no refresh token is spent twice, no grant is overwritten or revived, no lock leaks, every call ends |
| login callback listener (`auth.py`) | a future, a count of stray requests | one handler per connection; the login waits | browser, event loop | concurrent handlers, a deadline, awaits between check and use | a failed check ends the login; strays are bounded; the login ends |
| provider session: calls (`transport.py`) | a semaphore, one fault slot | `call_tool`, the guarded HTTP transport | token provider, SDK tasks | several calls share one slot; timeouts and cancellation at every await | permits are conserved, a refusal is reported once and not as something else |
| session lifecycle (`transport.py`) | an exit stack, the same slot | connect, initialize, the caller's body, close | SDK | failures, refusals and cancellation while closing | the outcome of the handshake or of the body survives teardown |
| provider session: discovery (`transport.py`, `manifest.py`) | cursor, seen cursors, tools, budgets | `discover`, `assess_surface` | provider | arbitrary pages, every budget at its limit | complete means whole; ready means exactly what was reviewed |
| read gateway (`gateway.py`, `manifest.py`) | the cached assessment and its lock | `readiness`, `invoke` | session, manifest | many tasks at the first read; cancellation of the one that discovers | one decision; only permitted calls, only after it |
| argument walk and schema subset (`manifest.py`, `schema.py`) | none | `preflight_read`, `_refuse_undeclared`, `ensure_schema_supported`, `validate_instance` | manifest, gateway | recursion, combinators, depth rails; a caller's mapping that reads differently each time | every keyword is enforced; what is sent is what was validated and has only declared names |
| result mapping (`transport.py`, `validation.py`) | none | `bound_json`, `_map_result`, decoding of text | session | bounds, error results, text that is JSON | what is delivered is bounded and fits the reviewed schema |
| egress guard (`transport.py`) | the policy of one session | `_check_egress`, redirects | guarded transport | several conditions per request | nothing leaves for another origin |
| manifest loading, digests (`manifest.py`, `canonical.py`) | none | load, validate, digest | gateway, refresh | hashing, parsing | stored digests describe stored content |
| OAuth metadata, registration, PKCE (`auth.py`) | none beyond the store | discovery, DCR, code exchange | login | provider-controlled documents | only pinned endpoints are used |
| manifest refresh (`scripts/`, `.github/workflows/`) | the run's checkout, branches, pull requests, tags | probe, classify, rewrite, push, review, release | provider, git, GitHub, the owner | two agreeing observations, many files rewritten in turn, two scripts that must agree on what a release is | decisions are carried over; no half-made release; what is prepared can be released; tags never move |
| local refresh trigger (`contrib/`) | none; it asks for GitHub's run history | hourly dispatch | workflow | ask, then dispatch; a list that lags and is cut off; midnight; runs of the owner | a daily bound; no success repeated |
| command line, configuration, models, errors | none | parsing, exit codes | all | none | |

The calls: `open_gateway` opens a session; `invoke` establishes readiness
(`discover` on the session), runs the preflight, then `call_tool`. Each HTTP
request of the session passes the guarded transport, which asks `access_token` for
the token, which may refresh it in the store. `login` and `logout` run in
processes of their own and meet the gateway only in the store. The manifest the
gateway pins is written by the refresh workflow, which the trigger and the owner
dispatch. The models follow those seams: each takes what the component below it
does as a step with all of its outcomes.

## Modules

| module | models | composed with |
|---|---|---|
| `TokenRefresh` | `StoredTokenProvider`, `login`, `logout` over the store, with the authorization server, time and crashes | implements `CredentialLineage` |
| `CredentialLineage` | abstract: what may ever happen to the stored token | |
| `TokenRefreshCancel` | `TokenRefresh` with cancelled calls and worker threads that outlive them | extends `TokenRefresh` |
| `CallbackListener` | the loopback listener and the login that waits for it | the step `Authorize` of `TokenRefresh` stands for it |
| `ProviderSession` | a session from its handshake to its end: concurrent `call_tool` calls, the semaphore, the fault slot, the guarded transport, the teardown | its `Guard` stands for `access_token` |
| `SurfaceDiscovery` | `discover` against a provider that answers any page, then `assess_surface` | |
| `ReadGateway` | `open_gateway`, `readiness`, `preflight_read` and `invoke` with several callers | implements `ReadGate`; its steps `OpenGateway`, `Discovered` and `Answered` stand for the modules above |
| `ReadGate` | abstract: what the gateway promises whoever reviewed the manifest | |
| `JsonSchema` | the schema subset, its validator, and the walk over argument names, as recursive functions | |
| `CallPayload` | what one call carries: loading its schemas, copying, validating, walking, freezing and sending the arguments, bounding and mapping the result | extends `JsonSchema` |
| `ManifestDocument` | a manifest and its digests, loading, readiness, classification, the refreshed document, as operators | |
| `ManifestRefresh` | the refresh workflow, the rewriting of a release, the owner, the release job | extends `ManifestDocument`, implements `WorkflowRuns` |
| `WorkflowRuns` | abstract: what GitHub's list of runs may do under the workflow's concurrency group | |
| `RefreshTrigger` | the hourly script | extends `WorkflowRuns` |
| `MC...` | constants for TLC | |
| `...Proofs` | theorems | |

Operators whose comment begins with "Faulty" are the mutants: what a plausible
slip in that place would do. No specification uses them.

### How the models correspond to the code

*TokenRefresh.* `token` and `registration` are the two records of the store;
`plock` and `slock` are the provider's and the store's `asyncio.Lock`, one per
process; `flock` is the lock file. A task's `pc` is the await it is about to
complete: `call` is the unlocked fast path of `access_token`, `provider`,
`process` and `flock` the three acquisitions, `reread`, `registration`,
`request` and `write` the body of `_refresh`, `release` the exit of the context
managers. A login goes through `lookup`, `register`, `keep` (all without the
lock), `browser`, then the lock and `write`. `NotStored` is a token that was
issued and is not stored: the answer was lost or malformed, or the write failed;
`RequestFails` is a failure before the server spent the refresh token. The
server (`alive`, `issued`, `clients`) is external: a refresh token is bound to
the client it was issued to, an exchange may or may not rotate it, and nothing
revokes it. Waiting for an `asyncio.Lock` by one process is distinguished from
waiting for the lock file, which polls and may time out. Cancelling a task while
its thread polls for the lock file is a step that gives up the poll; the handle
the thread may still obtain is closed when it is collected, and is left out.
`FlockTimeout` is every way in which taking the lock file fails: its deadline, but
also a directory or a lock file that cannot be opened, whoever holds the lock.

*ProviderSession.* `value` and `queue` are `anyio.Semaphore`; `wire` is the HTTP
request of each call, which runs in an SDK task and may outlive its call; `fault`
is the one `_Fault` slot. `Guard` and `Respond` are the guarded transport,
`Failed` what the SDK makes of a request that raised (an error for its call, or a
cancellation of it and of the calls beside it, as the docstrings of `_Fault` and
`_stable_error` describe), `StableError` what the waiting call reports.
`call_tool` and the handshake pass on a `GatewayError` that reaches them intact
(`transport.py:1233`, `1633`); by the docstring of `_Fault` none does, and the
models have no such step. That of the teardown (`1655`) is in `CloseQuietly`.
`Timeout` covers the read timeout as well. `stage`, `body` and `teardown` are
`_open_provider_session`: the handshake may be refused by the guard, cancelled or
fail; the body ends when its calls have; `Teardown` closes quietly, raises, is
cancelled, or has its own last request refused. The slot is read after the
teardown of a failed handshake, so a refusal recorded during that teardown can
replace the handshake's: the property allows it, for either is a refusal the
session met.

*SurfaceDiscovery.* A tool is a name, a schema, a description and annotations, all
of them values. `ObservedTool` maps a description or annotations that are left out
(`Null`) onto the empty ones, as the manifest's format does: a tool served without
a field that was reviewed as empty is no drift. That is a known limitation of the
format (the docstring of `_observed_tool`, and `manifest.py:124-137`), and
`ServesAs` states it: ready means served as reviewed up to these two spellings. A
digest is equal exactly when what it digests is: `SurfaceDigest` tells two lists
of tools apart exactly when the sorted lists differ. The tools of a page that
would overrun the tool budget are read only as far as the budget goes, so a
malformed entry beyond it is never met. `served` is history: the requests and the
pages that answered them.

*ReadGateway.* A task runs from one await to the next in one step. `OpenGateway`
opens the session, handshake and token included, before there is a gateway to
call: the pin plays no part in it. `pinned` is whether the manifest's digest is
the configured one. The manifest is a function on some of the requested
capabilities. A copy that `json_safe` made of a caller's mapping is given by the
values that reading it may yield, more than one if it has a mapping of the
caller's inside a list; validation, the walk and the freezing each read it, and
the last reading is sent.

*CallbackListener.* A request is reduced to what the handler tells apart:
malformed, stray, not GET, failing a check of the transaction, or the redirect.
A handler's awaits are the request line, the headers and its answer.

*JsonSchema, CallPayload.* A JSON value is a record that names its kind; a
float counts halves, so that `1.0` and `1` differ as they do in the canonical
form. `IsMultiple` is the float quotient of `_check_number` with its tolerance,
over a number of binary digits, a smallest exponent and a tolerance that are
constants; left out are that an integer of more than 53 bits is rounded before it
is divided by a float, and the `OverflowError` of a quotient beyond all floats. A
schema is a function from its keywords, whose loader (`Supported`) and
validator (`Check`) are written in the order and with the recursion of
`schema.py`. What the code computes by recursion is a recursive function over
three constants: `Values` and `Schemas`, closed under parts, subschemas and
readings, and `Nesting`, by which both are finite trees. `Supported`, `Check` and `Walk`
count the depth as the code does; a level is handed the verdicts of the level
below. What is read from a caller is a choice: a `live` value is a mapping
each of whose readings may differ, and `Readings` is what one pass over it may
see; `json_safe` returns lists as they are, so a second pass reads what they
hold anew. A string that is a JSON text carries its value, or none. The nodes
of a value are the places in it, whose number `bound_json` counts; the lengths of
strings and of names are in characters, `Size`, which `_ensure_within_bytes`
looks at, is in bytes (`Utf8`: those of the strings that have more of them than
characters). `Satisfies` and `Declared` are the reference definitions,
written keyword by keyword and place by place without a depth rail; of `multipleOf`
the reference says what the division can tell, no more.

*ManifestDocument, ManifestRefresh.* Digests are the contents they digest, so they
are equal exactly when the contents are. An entry and a document have exactly the
fields the loader requires (`EntryFields`, `TopLevelFields`), for it refuses
unknown ones. A tool's description and annotations are as `_observed_tool` or
`refresh` left them, a missing one being the empty one. `Stable` loads both
candidate files (`LoadsCandidate`: at least one tool, no name twice) and asks that
they agree. A tree is what the release files of a commit say: the manifest, the
version in `pyproject.toml` and in the lock file, the digests pinned in tests,
README, design and changelog, digests quoted elsewhere in README and tests, the
changelog's links (`[Unreleased]` has the same base as the new one), which
documents still have the markers their rewriting looks for, and what is in all
other files. `Verified` is `verify_release_pr.py`: which paths differ between two
trees, one patch version up, and the digest somewhere in each of three files.
`Checkout` applies `Write` to the files in the order of `prepare_refresh`; a file
whose rewriting fails leaves no checkout. A run's `pc` is the next command of the
workflow; each of them may fail (`StepFails`), after which the checkout is gone
and what was pushed stays. `CreatePR` may end the run as failed with the pull
request open, when `gh pr merge --auto` fails. The owner's actions (amend, merge,
close, delete, review by hand, tag) and the provider's are external. A merge
conflicts unless main is still the base, for both change the same lines; a merge
without an approval leads only to a release that fails. An amendment rewords the
manifest and leaves out or adds what it likes: the pins of some files, the digest
elsewhere in them, other files. Every branch and pull request of the model is the
bot's, so the release job's check of the author always passes.

*RefreshTrigger.* The script asks twice (for an active run or a success, then
for the number of runs) about a date it read once, then dispatches, looks for its
run in the list and watches it. `listed` is how far GitHub's list has come: a run
appears in it some time after its dispatch, and the script is shown the newest
`ListLimit` of it. Between any two of its steps GitHub, the owner and the calendar
may move, and it may stop. `late` is history: the script was started again before
all its runs were listed, an hour after it had given up on one. From then on
nothing is claimed, for the script would have no way of knowing of that run. That
the owner runs a failed run again on GitHub is left out.

## Runs

Deadlock is checked in `refresh`, `cancel` and `gateway`, whose tasks begin
again for ever; in the others the session, the discovery, the listener, the
call, or the bounded number of days and runs comes to an end.

| run | question | bounds | result |
|---|---|---|---|
| `refresh` | two readers, a login and a logout in three processes: locks, currency, replay, lineage | 1 token issued after the first, 2 clients, 1 crash | holds |
| `one_window` | is a lost answer the only reason a refresh is refused? | | violated |
| `cancel` | does cancellation leak a lock, and do the others still end? | 3 readers in 2 processes, 1 token issued after the first, 1 cancellation, 1 crash | holds |
| `cancel_replay` | is a refresh token still spent once? | | violated |
| `session` | permits, waiting time, faults reported once and by their call, the outcome after teardown | 3 calls, 2 permits, timeout of 2 ticks | holds |
| `discovery` | budgets, completeness, readiness | 2 reviewed tools, 7 offered, 3 cursors, 3 pages, 3 tools | holds |
| `gateway` | one discovery, the pin, uniform denials, the refinement of `ReadGate`; does every `invoke` return? | 2 callers, 4 entries, 3 copies, 1 cancellation | holds |
| `callback` | a failed check wins, strays are counted together; does the login get past its listener? | 4 connections, bound of 1 stray | holds |
| `payload` | every keyword enforced, what is sent is what was proved, names, legal arguments pass, results bounded and reviewed | schemas of every keyword, values to depth 4, rails of 3, floats of 4 binary digits | holds |
| `listed_mapping` | is it still what was proved when a caller's mapping is inside a list? | | violated |
| `automation` | whole releases, decisions, readiness after a refresh, links, releases that verify, tags, the refinement of `WorkflowRuns` | 5 surfaces, 2 runs, 2 changes of the provider, the day or the reviewed set, 1 version by hand, 2 amendments | holds |
| `trigger` | the daily bound, no success repeated | 5 runs, 2 days, 2 attempts a day, a list of 2 runs | holds |

A type invariant is part of `PermitsConserved`, `WithinBudgets`,
`DeliveredIsReviewed` and `ReleaseIsWhole`; those of the credential, the gateway,
the listener and the trigger are theorems of their own.

Why the bounds are enough. Refresh: two readers of different processes with a
login and a logout are every pair of writers, readers of one process are in
`cancel`, and the theorems lift both bounds. `MaxIssued = 2` counts the token
there is at first, so one exchange in a run succeeds, a refresh or a login: that a
refresh revives a token after a logout can happen in it, that it overwrites the
grant of a login that came in between takes a third token and rests on the theorem
`ImplementsLineage`. Session: three calls on two permits make one wait, and let a
request that has outlived its call meet two others; two ticks tell "at once" from
"at the timeout". Discovery: three pages and three tools let each budget be the
one that runs out first; the seven offered tools are the reviewed ones, the one
reviewed as empty with its fields left out, the other without its description and
with other annotations, one changed in its schema, and an unreviewed one. Gateway:
two callers are one that discovers and one that waits, and their invocations
follow each other without end; a third waiter adds nothing to a lock, and the
theorems hold for any number. One manifest entry for each disposition; copies that
are settled, legal or not, and one that reads once as valid with an undeclared
name and once the other way round. Callback: with a bound of one stray, two strays
overflow it and leave two connections to interleave with. Payload: with rails of
three, schemas and values exist on both sides of each rail; every keyword occurs
alone, and those that hold schemas occur in one another; the budgets of a request
and of a response are small enough for each to be the one that refuses. With 4
binary digits and a tolerance of an eighth, 17 is a multiple of 2 and 1 of 8, as
2^53+1 is of 2 in the code and 1.0000000001 of 1; `MCCallPayload` also checks that
every exact multiple passes. `MCCallPayload` computes `Values` and `Schemas` by
closing these families. `LegalArgumentsPass` is limited to schemas whose branches
leave the walk no choice (`Walkable`): the walk takes `items` only from the schema
itself, and of two branches that declare one name it follows the first.
Automation: two runs are one that works and one that waits, or two refreshes, the
second on top of the first; a surface drifts in metadata, in schemas (tool 2,
which is denied, to one that cannot be enforced), or loses a tool, and one cannot
be refreshed to; the second day restarts the manifest's counter. `MaxChanges`
bounds what the world does between, to two of these. A third run, which cancels
the one that waits, does not occur here: `RunsAreWorkflowRuns` is proved for any
number of them, and `trigger` has up to five of `WorkflowRuns`. Trigger: two
attempts, two of the owner and one over; a list as long as the attempts is the
shortest that bounds them, and the owner can push the script's runs out of it.

### What the violated runs show

* `one_window`: `login` stores a new registration before it has a token and
  outside `exclusive()` (`auth.py:1362`). A refresh in between, or any later
  one if the login is abandoned, sends the old refresh token with the new
  `client_id`. The docstring of `refresh_access_token` names the lost answer as
  the one uncovered window. `RefusalExplained`, which is proved, says these two
  are all there is.
* `cancel_replay`: a refresh that is cancelled while its write thread runs
  leaves both locks at once (`credentials.py:729`). Another process reads the
  old token under the locks and spends it again; the late `os.replace` may
  overwrite a newer token.
* `listed_mapping`: `json_safe` copies mappings and tuples and returns a list as
  it is (`validation.py:146`). A mapping inside a list is still the caller's when
  `validate_instance`, the walk and `freeze_json` read it one after the other, so
  what is frozen and sent need not be what was validated. In `payload` no such
  mapping occurs and `SentIsProved` holds, for mappings at the top, inside
  mappings and inside tuples.

What no run claims, because nothing in the repository says otherwise: a code
accepted in the very turn in which the deadline passes is dropped; the browser
may be told that an authorization was received which another handler then
rejects; an `auth_required` raised by `access_token()` is not recorded in the
slot; a branch pushed without its pull request, or left behind by a closed one,
counts as recorded for every later run. They are steps of the models and are
listed as hazards.

Where a docstring says more than the code does and no run shows it:

* `establish_readiness` compares the pin before it discovers, and concludes that a
  consumer with another pin "never opens a session against Robinhood at all"
  (`manifest.py:1152-1156`). `open_gateway` has opened the session, with its
  handshake and the bearer token, before there is a gateway to ask
  (`gateway.py:290-297`). What holds is `NoRequestWithoutThePin`: in that session the
  provider is asked neither for its tools nor to call one.
* "Never more than `MAX_DAILY_ATTEMPTS`" holds up to 20 of them: the script counts
  in a list of 20 runs (`local_refresh_trigger.sh:69`, `84`), so with
  `RH_MCP_MAX_DAILY_ATTEMPTS` above 20 the count never reaches the bound. It also
  needs that GitHub lists a run within the hour.

### Fairness

`TokenRefreshCancel.CFairness`: every await of a call is bounded by an HTTP,
callback or lock-poll timeout, hence weak fairness of `Step`. `asyncio.Lock`
serves its waiters in order, hence strong fairness of taking the two task locks;
the lock file has no such order and gets none (its poll may time out instead). A
worker thread that outlives its call is not assumed to finish.
`ReadGateway.Fairness` is the same argument with the readiness lock.
`CallbackListener.Fairness` gives a handler the end of its read by timeout and
the completion of its answer, and owes a slow peer nothing else. No environment
step (expiry, crash, cancellation, connection, page) is fair. The workflow and
the trigger get no fairness: GitHub promises none, and nothing is claimed to
happen there eventually.

## Proofs

For every set of tasks, processes, calls, callers or connections, every provider,
manifest and surface, every number of runs and days, and every bound.
`PROJECT.json` lists the theorems, each with the property of a run it lifts.
Every invariant and every action property of the passing runs is proved, and so
are both refinements and the lineage.

### The credential

`TokenRefreshProofs`. The inductive invariant is built in layers. Each has a
lemma that the initial states satisfy it and one that a step keeps it
(`<Layer>Init`, `<Layer>Step`), and uses the layers before it: `Types`; `Roles`
(which labels a reader, a login and a logout may be at);
`LocksHeldByTheirOwners`; `RefreshIsCurrent`, which needs the locks, for only a
task in `exclusive()` writes the token; `Provenance` (which tokens, clients and
grants have been issued); `LostWereSpent`; and `Unspent`, that the stored token's
exchange is either still to come or lost, and that the server accepts the refresh
token of a token that was not. `NoReplay` follows from the last two with the
exclusion: a reader at its request is current and no other reader is about to
write. `StoreKeepsLineage` is shown step by step: an exchange in progress has the
stored token as its predecessor (currency) and a new number (provenance).

The second part of `TokenRefreshProofs`, about `TokenRefreshCancel`, says how
much of that cancellation leaves. The locks
survive it (`LocksSurviveCancellation`): `Cancel` is one more way out of the
exclusive section, and a worker thread that lands holds no lock. Nothing else
does, as the run `cancel_replay` shows; but a step that cancels nothing and
lands no write is a step of `TokenRefresh`, and there is nothing to land before
the first cancellation (`NothingAbandoned`). Hence `UncancelledIsTokenRefresh`,
and `OnlyCancellationReplays`: in any state reached before the first
cancellation `NoReplay` and `RefusalExplained` hold, so what `cancel_replay`
finds has no other cause. The second is proved with the layers' step lemmas, for
it speaks of states before a cancellation that may still come.

### The session and discovery

`ProviderSessionProofs`. The steps are first reduced to a few kinds (a call is
made, returns, or gives up its place; a request goes on; the session or time
goes on), and what each does to the semaphore, to the requests and to the slot is
a lemma.

* `PermitsConserved`: the queue is a line (each queued call has one place,
  nobody else has one), and the free permits and the waiting calls add up to
  `MaxConcurrentCalls`.
* `FaultReportedOnce` rests on `Sources`: a refusal of a call is in one place
  only, still to be met by its request, in the slot, or in one outcome. `Lives`
  says what a call may have left behind at each stage.
* `LoneCallReportsItsRefusal` rests on `Alone`: beside a waiting call that is
  undisturbed no other call waits and no request can record anything, so the
  slot holds its own refusal or nothing.
* `OutcomeSurvivesTeardown` rests on `Ending`: what is due is settled when the
  body, or the handshake, ends, and the slot stays as it was then until it is
  read.
* `BoundedWait` is the one whose invariant had to be found. `OnTime` lays the
  queue out in rows as wide as the semaphore, and says of the call at each place
  that more waiting calls than there are places before it in its row are going
  to return in time for it. The permit passed on at the head moves each call one
  place up, which is either one place to the left, with one call fewer to wait
  for, or the end of the row before, where every waiting call has a whole
  timeout left; a call that gives up its place moves those behind it in the same
  way. A tick takes as much from the call's allowance as from the calls it waits
  for.

`SurfaceDiscoveryProofs`. `WithinBudgets` is inductive with the types of `served`
and `Len(served) = pages` while pages are read. `CompleteMeansWhole` rests on
`Course`: the cursors asked with are those already returned, none of them twice
(`Trail`); while pages are read the tools are those served (`SoFar`); afterwards
they are, or the discovery is incomplete because a budget was (`InTheEnd`).
`ReadyIffReviewed` then is a fact about the seven differences of `assess_surface`:
they are all absent exactly when the tools are the manifest's, each once; for what
was served that means each reviewed tool once, up to the two spellings of an empty
field. One half, `ReadyMeansReviewed`, needs no hypothesis. The other,
`ReadyExactlyWhenReviewed`, assumes that the manifest has no more tools than
`max_discovery_tools`: with a larger one the gateway can never be ready, whatever
is served. The code does not relate the two, and the shipped manifest is far below
the default.

### The gateway and the login

`ReadGatewayProofs`. Each step of a caller is first reduced to one of four
shapes by what it does to assessment and lock. The invariant strengthens
`OneDiscovery` with what only a pinned gateway reaches, and with what a denied
caller was told in terms of the assessment. `KeepsTheGate` is refinement: a
discovery that ends finds the gate undecided, which is `OneDiscovery`. What it says
of a call is that one reading of the copy validated, one has declared names only,
and one was sent; `SettledCallsWereValidated` adds that these are one value where
the copy has one reading. Where it has several, the run `listed_mapping` shows that
they need not be.

`CallbackListenerProofs`. `NoCodeAfterMismatch` needs that a login never returns
a code other than the one its future holds, and that the future is cancelled
only by the login itself.

### The call

`CallPayloadProofs`, for all schemas and all values that are finite trees.

It begins with the recursive definitions: that each has a value (`Recursion`), and
what that value is one level down (`SupportedUnfolds`, `CheckUnfolds`,
`WalkUnfolds` and so on). Then it relates what the code computes to what it is to
compute:

* `KeywordsMean`: with the same verdicts below, what `_check` asks of a value is
  what the keywords of the schema say, each taken by itself.
* `CheckIsMeaning`: for a schema supported at a depth, `Check` from that depth is
  the meaning of the schema. The rail of the loader is the rail of the validator,
  so `_check` never meets its own; that matters inside `anyOf` and `oneOf`, where a
  branch that failed for its depth would turn the verdict round.
* `WalkDeclares`: what the walk lets pass is declared, because the schema the walk
  takes for a name is one of those that govern its place. The converse,
  `DeclaredWalks`, needs `Walkable` and the depth.
* `SafeIsSettled` and `SettledReadsOnce`: what `json_safe` returns, where no
  caller's mapping is inside a list, has exactly one reading. Validation, walk and
  freezing then read the same.
* `NodesFinite`, `BoundedParts`: the nodes of a value are finitely many, and a part
  of a bounded value is bounded.

The invariant `CallInv` of a call then is short: which of the argument, its copy,
the frozen copy and the result there are (`InOrder`), that the schemas have been
checked (`Loaded`), that the copy is one of `json_safe` (`Copied`), what each check
leaves behind (`Proved`), and what a result can be (`Answered`).
`SentWasProved` and `NamesAreDeclared` assume `NoMappingInsideAList`, without which
the run `listed_mapping` refutes the first. `DuplicateIsTheSame` compares two
ways through `_map_result`, for data whose answer as text is itself within the
bounds of a response. That is a condition and no consequence: the default limits
(`config.py:245-258`) give a response exactly four bytes for each character of the
longest string, which leaves the longest text of characters of four bytes no room
for what is around it.

### Refreshing the manifest

`ManifestRefreshProofs` begins with documents. For a manifest that loads, three
things are the same: `assess_surface` is ready on some tools, `classify_candidate`
says `no_drift`, and the tools are the manifest's own. They look at different
fields (the surface's digest, the entries' digests, names); `DigestsTellTools`
and `EntriesByName` are what makes them agree. Hence `NoDriftIsReady`. A
refresh keeps the names and the decisions of every entry and takes the tools of
the candidate (`RefreshTakesTheTools`), hence `RefreshRestoresReadiness`.
`DecisionsCarriedForward` speaks of the document before anything has looked at it
(`RefreshedEntry`, `RefreshedDocument`): its decisions are the old ones, and it loads
exactly when no tool is `Refusable`; so `Prepare`'s own checks can only fail for what
the provider serves. `CheckoutIsWhole` follows the eight
rewritings in turn: what each leaves of the earlier ones.

Along the runs, the invariant `IInv` has a part for the world, for the versions
(tags are naturals with a largest, so that the next one is new), for every commit
(`IsTree`: it has the fields of a tree, its manifest loads, its link leads to a
release), for the requests, for what the active run knows at each of its steps,
for the one that waits, and for the checkout about to be pushed (`Prepared`).
`ReleaseIsWhole`, `LinksResolve` and `PreparedIsReleasable` are read off it; for
the last, `CheckoutIsVerified` shows that each of the eight rewritings changes its
file: a new version is larger than every pinned one, and a new manifest has
another digest. `TagsNeverMove` and the refinement of `WorkflowRuns` are by cases
on the steps.

`RefreshTriggerProofs`. That the script may go on with what it asked: while it
asks it dispatches nothing, so its own runs carry no date after the one it asks
about (`NoneSinceToday`); only an active run can still succeed, and all its runs
of that date have failed (`OwnRunsFailed`, which needs `EveryRunIsKnown`: a run
that ended is neither active nor waiting); their number does not grow
(`OneMoreAllowed`). Both need that it sees its own runs: they are
listed, but for `late` (`OwnRunsListed`), and where one of the date is cut off, all
that is shown is of that date or a later one (`Beyond`), so that the second question
stops the script. The dispatch then falls on the date asked about, with these
facts, or on one that has begun since and has no run of the script. The list of
runs is reduced first to what a dispatch and an end do to each element.

### Assumptions

Only those named in the modules, which TLC evaluates on every run: tasks have one
role; `NoTask`, `NoCaller`, `NoCall` are not tasks or calls; bounds are naturals,
and those the configuration requires to be positive are; the reviewed tools have
one name each; the first release has the files of a release, a manifest that loads
and no pin of a later version; the manifest's entries have the fields the
preflight reads; values and schemas are finite trees, with their parts, subschemas
and readings among them. Four hypotheses of theorems go beyond them: that of
`ReadyExactlyWhenReviewed`; that the list shows `MaxDailyAttempts` runs, of the
trigger's two; and `NoMappingInsideAList` and `TextsAreValues` (there are values
enough to write data as text) of the call, both of which hold in the run
`payload`, where TLC evaluates them.

### How induction over data is avoided

The provers cannot instantiate an induction theorem that takes an operator. Where
a proof needs one, it goes by a smallest element of a set of naturals, which
well-foundedness of `<` gives without it: that `FlattenSeq` has a value and adds
one sequence at a time (`FlattensExists`), and that a bounded set of versions has
a largest (`LargestVersion`). `Checkout` is a function on `0..8`, whose values
are unfolded one by one (`CheckoutUnfolds`). For values and schemas the same is
stated once for sets: if a subset takes in every element of which it holds all
those of lower rank, it is the whole set (`RankInduction`), the rank being
`Nesting` or the depth that is left. A recursive definition over the rank has a
value because it has one up to every rank (`Recursion`); both are stated with the
set, or the function, as a parameter, and not an operator.

### Only model-checked

* Liveness, `CallsReturn`, `InvokesReturn` and `LoginReturns`, which needs
  fairness and `ENABLED`.
* The three violations, which are counterexamples.
* That `IsMultiple` accepts every exact multiple (an assumption of `MCCallPayload`).

## Not modelled

Hashing, canonical JSON and parsing (digests are compared as values, JSON text by
the value it has); the syntax of patterns (a pattern is the strings it is found
in); the comparisons of the egress guard, one conjunction over a request, of which
`ProviderSession` has the verdicts; the validation of the OAuth metadata; the
`security(1)` subprocess (the keychain store keeps the same contract as the file
store, an `asyncio.Lock` and the same lock file around whole-record writes); the
encryption of an observation and the texts of pull requests; the SDK, the
authorization server and GitHub beyond the steps named above, such as running a
failed run again, and branches and pull requests that are not the bot's; packaging
tools and the mutation tester. The command line adds parsing and exit codes to the
modelled operations.

## Plan

1. Composition: gateway, session and store in one module, on the promise that a
   refused refresh reaches every caller as `auth_required`.
2. The validation of the OAuth metadata and of the egress policy as operators,
   against a reference.
3. Theorems: that a write left behind by a cancelled call is the only thing that
   can take the stored token back to an earlier one (the lineage of
   `TokenRefreshCancel`, with `Land` as its exception); that a run of the workflow
   which finds drift either fails or leaves a branch for it.
