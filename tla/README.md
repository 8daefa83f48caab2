# Verification of blobl

TLA+ specifications of the Bloblang language server and command line tool in `src/`, their
TLC model-checking runs, and TLAPS proofs. Modules follow the Go code; every definition
that models code is listed with its source lines in `PROJECT.json` (`map`).

    tlc -workers 2 -config ExecutionCacheRace.cfg MCExecutionCache.tla
    tlapm ExecutionCacheProofs.tla

## 1. Inventory

One Go binary serves an editor (LSP on stdio), an MCP client, and a shell (`fmt`, `lint`,
`run`, `test`, `schema`, `docs`). Hard concurrency lives in the language server; hard
failures live where files are replaced and where mappings run in a subprocess.

| Part | State | Operations | Talks to | What is hard | What makes it correct |
| --- | --- | --- | --- | --- | --- |
| Execution cache (`benthos/executor_cache.go`) | LRU list, two maps, byte total, in-flight map | `cachedExecution`, `InvalidateDocument` | requests call it; edits invalidate it | several goroutines on one key; an execution outlives its invalidation; cancellation of a leader or a waiter; eviction limits | no stale result is cached; one execution per key; nobody waits for ever; list, maps and total agree |
| Document lifecycle (`lsp/handler.go`, `lifecycle.go`, `diagnostics.go`, `workspace.go`) | document store, samples, generations and their contexts, last and execution diagnostics | open, change, watched files, close, shutdown; `validateDocument`; `requestDocument`, `publishExecDiagnosticsVersion` | starts validations; invalidates cache and parser; feeds the outbox | `h.mu` is released between the snapshot and the publication; samples and regions are reread without it | published diagnostics belong to one revision; no superseded request publishes; trees of closed documents are released |
| Diagnostic outbox (`lsp/diagnostic_outbox.go`) | newest publication per document, order, wake channel | enqueue, the sending goroutine, stop | handlers fill it; it writes to the client and asks the handler what is current | lost wake-ups, stale items, failed writes, a close racing a publication | the editor ends up with what the server has |
| Preview requests (`lsp/inlay_hints.go`, `code_lens.go`, hover, completion) | per request: captured revision | hints, lenses, hovers | executor, parser, lifecycle | an edit during the evaluation; regions of a YAML host are requested one by one | a superseded request neither publishes nor caches |
| Syntax tree parser (`benthos/parser.go`) | native trees per document | `Parse`, `InvalidateDocument`, `Close` | everybody | leaks after close, use after shutdown | trees are owned |
| File replacement and write batch (`cli/files.go`, `cli/cli.go`) | files, one temporary file, the exit status | read, compare, write, sync, recheck, rename | the file system, editors | an editor saving meanwhile, a kill, a power failure, one failing file of many | no torn file, no visible edit lost, a truthful status |
| Tooling and lint rules (`lsp/tooling.go`, `lsp/lint.go`) | one handler behind a mutex; the texts of a fix loop | `Lint` with its fix loop, the bounded importer, code actions | the batch above, `evaluation` | fixes that enable fixes, overlapping edits, suppressions inside what is replaced, imports in circles | the loop ends; a fix never changes a meaning or touches what is suppressed |
| Formatting (`lsp/formatting.go`, `lsp/layout.go`) | none | groups and breaks, rendering, the comparison of tokens | tooling, the editor | what follows a group counts for its width; comments force breaks; commas come and go | idempotent; no token is lost; lines are broken where they can be |
| Mapping worker (`mapping/isolated.go`, `evaluation`, `mcpserver/run.go`) | a subprocess, its pipes, a deadline | execute, kill, classify | `run`, `test`, MCP | a mapping that never ends, output beyond the bound, deadline against result | every call returns; the cause is named correctly |
| Fixture suites (`mapping/fixtures.go`) | results so far | `RunSuite`, `fixtureJSONValue`, `check` | worker | cancellation between cases; aliases of expected documents, numbers by their value | no case is blamed for the cancellation; a case passes exactly when its outcome is the expected one |
| Input and sample resolution (`mapping/resolve.go`, `benthos/sample.go`) | the request, the snapshot of imports | `Resolve`, `ExtractSample`, `snapshotImports` | files | whole and partial directives, automatic samples; files that change while imports are read | the last directive that speaks of a field wins; the evaluator finds every import in the snapshot |
| Discovery and configuration (`cli/discovery.go`, `editorconfig`) | caches of policies | `expandPaths`, `globFS`, `ignored`, `ResolveSource` | files | nested ignore files, negation, project boundary | exactly the visible files are listed, and nothing of an excluded directory is read |
| Rename (`lsp/rename.go`, `lsp/navigation.go`) | the texts of the workspace, the edits collected | prepare, definition, rename of variables, parameters and maps | documents, files, the grammar | shadowing, lets that may not run, imports around circles, texts that drop out of the search | a rename that is accepted changes no meaning |
| YAML regions, positions, other lint rules, help search, schema inference | none or per call | pure functions | the parts above | offsets and encodings | tested input by input |

`PROJECT.json` lists each of them with its status; `hazards` lists what is hard to test, at
the line where it bites.

## 2. Plan

Done in this order, most important first:

1. `ExecutionCache`, with the abstract `ExecutionService` it implements; `ExecutionCacheProofs`.
2. `DiagnosticOutbox`, and `DocumentLifecycle`, which composes it with the handlers, the
   validations and the requests.
3. `ToolWrite` and `ToolWriteProofs`.
4. `MappingWorker`.
5. `RenameLocal` with `RenameLocalProofs`, and `RenameMap`.
6. `Discovery`, run together with `ToolWrite`.
7. `Formatting` with `Rendering` and `Layout`, and `ToolLint` with `LintFix`, run together with
   the two halves of the rename; their proofs are in `TextEditsProofs`.
8. `Samples` with `SamplesProofs`, and `Fixtures`, run together with `MappingWorker`.
9. The cache as an `ExecutionService`, `LifecycleProofs`, `WorkerProofs`, the accounts of the
   cache, `DiscoveryProofs` and `TextEditsProofs`, for which the formatter, its renderer and the
   lint loop were separated from the layout and the rule.

Next:

10. `RegionRequests`: the nested `requestDocument` of lenses and hints in a YAML host
   (`code_lens.go:23-42`, `inlay_hints.go:40-65`), which may see a newer revision; the offset
   tables of scalars (`embedded.go:151-319`).
11. Pure algorithms against reference definitions: preview budget, search ranking and edit
    distance, schema merge; the search of `RenameMap` over buffers that change meanwhile.
12. An abstract feed of diagnostics that the lifecycle implements.

## 3. Modules

### ExecutionCache, ExecutionService

Each caller is a goroutine in `cachedExecution`. The critical sections of `c.mu` are single
actions: `LookupHit`, `LookupWait`, `LookupLead` (lines 72-101), `Commit` (119-136) and
`InvalidateDocument` (146-160). What runs outside the mutex is a step of its own: `Check`,
`AnswerHit`, `Begin`, `Execute`, `WaitDone`, `WaitCanceled`. `entries`, `newer` and `bytes`
are the map, the LRU order and the running total of the list; `pending`, `flights` and
`closed` are the in-flight map, the flights and their done channels. A result is reduced to
its kind, its size and the revision of its document at registration; `revision` counts the
invalidations. `uses` and `used` count the hits and insertions as they happen, apart from the
list, so that what was used last is not read off the order that eviction works with. Values,
digests and the snippet that is run are left out.

`ExecutionService` knows neither cache nor flights: a caller gets one answer, no older than
its call, and a context error only if its own context is done.

### DiagnosticOutbox, DocumentLifecycle

`DiagnosticOutbox` has the queue (`outPending`, `order`, `wake`), the sending goroutine and
the client. `DocumentLifecycle` extends it. `h.mu` is modelled by `editing`: an edit first
puts its text into the store (`SetText`), which readers outside the mutex may see, and then
begins the generation (`FinishEdit`); everybody who takes `h.mu` waits for `Unlocked`. A
validation runs through `Debounce`, `Capture`, any number of `Read`s without the mutex,
`Publish` (or `Abandon`) and `DiscardValidated`; it remembers which texts and samples it
read. A request runs through `Snapshot`, `CheckContext`, `ParseRequested`, then `Answer` or
`PublishExec`, and `DiscardRequested`. The look at the context and the parse are two steps with
no lock over both, and each evaluation of a statement repeats them (`ExecuteThroughContext`), so
that a request may parse the text of a document that has just been closed: the trees are then
its own until `DiscardRequested` (the deferred `done()`) runs. A text and a sample are represented by the generation that set
them, execution diagnostics by the generation that found them in each part of a document.
One variable `stopped` stands for the two flags Shutdown sets in one critical section.

Left out: what diagnostics say, the diagnostics of other documents' imports, initialization,
the refresh requests, and the nested requests of a YAML host (planned). The generation is
looked at when a publication is queued, when its context is, and again by the sender; no
single one of these checks can be dropped to make the client's diagnostics go backwards, so
no property of the wire alone is stated: `Settles` states the end result.

### ToolWrite

`runTool`'s loop (`NextFile`, `Look`, `Read`, `Work`) and `replaceFile` (`Before`, `Compare`,
`Create`, `Write`, `Sync`, `Recheck`, `Rename`), one system call per step, against an editor
that writes in place, renames another file or link to the path, or removes it, and against
cancellation, a kill and a power failure. The formatter or fixer is a function `Output` that
may fail. The file system is external: `Lstat` returns kind, inode, size and time. A write in
place may leave size and time as they were (a coarse clock); that, and an edit after the
second `Lstat`, is what the ghost `hidden` marks, and the one thing the code cannot see.

### MappingWorker

`RunSuite` takes a case (`NextCase`), gives it to `Execute` with a deadline of its own and
collects the result (`Collect`) unless the context of the suite is done. `executeWorker` is
`Request`, `Start`, `Wait` and `Classify`, which looks at the context as late as the code
does; `ServeWorker` is `Evaluate` and `WriteAnswer`, a byte at a time into the bounded
buffer. `KillWorker` is `os/exec`'s part of `CommandContext`; it may come too late for a
process that has ended. `DeadlinePasses` and `EndSuite` may come at any time. Left out: the
request's way to the worker, `WaitDelay` (the worker has no children that could keep its
pipe open), and the decoding of requests and answers.

### RenameLocal, RenameMap

`RenameLocal` is the first half of `Rename`: `symbols`, `scopeOf` and `visibleDefinition` as
operators on a text that is reduced to its symbols in order, each with the extent of its
scope or initializer; `Accepts` and `Answer` are the two loops of the handler. What a rename
has to preserve is not what `visibleDefinition` says but what a run reads, so the runtime is
modelled next to it, as external: it executes the text and the renamed text side by side
(`Execute`), any let may be in a branch that is not taken (`Skip`), and a read looks up a
variable of the mapping by its name at run time. Names that are no identifiers are refused
and left out; ranges and quoting are data.

`RenameMap` is the second half: `Definition` follows imports depth first as
`definitionForText` does, `MapNameExists` reaches through all of them, `Search` looks at one
text after the other and adds its matches or refuses the request. The recursion of the search
is a list of the paths still to be looked at (`Visit`), and `Steps` counts how often it can go
on. A text has its set of declared and applied names and its imports; one with a syntax error is
`broken`. All texts are in the workspace, and no buffer changes during the search (planned).
`MCRename` puts both halves in one module.

### Discovery

`Expand`, `ReadDir`, `Visit` and `Finish` are `collectInputs`, `globFS.ReadDir`, the callback
of `WalkDir` and the end of a scan; `Ignored` is `ignored` of the policy, with the boundary
its rules begin at (`Boundary`), the directories from there to the entry (`Levels`) and the
order in which each is tried before its own settings are read. The tree has directories,
files, Git roots, settings and ignore files; a rule is the verdict of one ignore file on one
entry, so that the matching of patterns is external. The scan keeps what it opened, because
`docs/cli.md:48` promises that the files of an excluded directory are never read. The promise
ends at a Git root, a context of its own: one that is named as the base of a scan is read even
if a project around it excludes it. Left out:
symbolic links, which are never followed, and the caches, which hold what they were filled
with while a tree stands still.

### Formatting, Rendering, Layout

`Format` is `formatText`: the layout of a tree (`LayoutOf`, a parameter) is rendered, its tokens
are read again (`ReadTokens`), and they replace the text if the comparison of tokens finds them
equivalent (`Pass`, `Matching`); it does this to a source, and then again to what it made.
`Rendering` writes a layout within a width: texts, lines, and groups that are put on one line
(`FlatLayout`) if they fit together with what follows them (`Following`). The code keeps a
layout as a tree; here it is the sequence of its texts, lines and groups, where a group comes
before the elements it holds and concatenation is that of sequences. The indentation of a line
is added up when it is nested, and the `following` that the code hands down the tree is the
width of what comes behind the group in the sequence. `Layout` is what the run renders: a syntax
tree of nodes and tokens is turned into a layout (`NodeLayout` and the operators below it follow
`layout.go`). A token has a text, a width and a place; the line breaks a source has before each
token are the one thing besides the tree that the layout looks at. They are modules of their own
because the renderer keeps to the width, and the comparison to the tokens, whatever a layout
does, and both are proved to.

### ToolLint, LintFix

In `ToolLint`, `Start`, `Find`, `Fix`, `Report` are the loop of `Lint`, and `ReadOne` the bounded
importer of `environment`, call by call, which `ReadAll` lets a validation use to its end; files
may change at any time (`WriteImports`). `CodeAction` is the editor's way to the same fixes, in
any order. What is found and fixed is a parameter, of which `RuleAssumption` says that a round
leaves a shorter text with the same imports unless there is nothing to fix. `LintFix` is the
only rule with a safe fix, and TLC evaluates the assumption on all texts that the run's files
lead to (`MCFiles`). There a text is a sequence of tokens: statements with receivers and chained
`without` calls, lambdas, comments, imports, and regions of a YAML file. `Consecutive`,
`Suppressed` and `Replacement` are the rule and its fix, `ApplyToolEdits` the choice of disjoint
edits. The other rules have no safe fix and are left out.

### Samples

`Start`, `Candidates`, `Sibling`, `Directive`, `Sampled`, `Import` and `Finish` are the
stages of `Resolve`, one file read per step, while another process writes (`Write`). A sample
is an object with its four fields, a directive a name and an object or a path. Two scans read the
head of a text: `Explicit` looks for a whole sample whose name comes right after `#!`, `Directive`
trims what follows `#!`. A directive `#! sample` is therefore applied, but on top of the automatic
sample, whose root it leaves unless it has one; and it is of no help against a sample beside the
mapping that is broken or ambiguous. The parser
that asks for imports is external: it asks depth first, in the order of the text. Syntax
errors, which only make it ask for less, and the sizes of texts are abstracted.

### Fixtures

`Decode` is `fixtureJSONValue` over the nodes of a YAML document, a depth first expansion
that counts values and remembers the nodes it is inside; `Run` names the stage an evaluation
ends in; `Check` is `check`. Numbers have a text and a value. What the property says is
independent of the expansion: paths through the document, with aliases as edges.

### MCToolWrite, MCTextEdits, MCEvaluation

Three modules compose independent components in one state space: `MCToolWrite` the scan
(`stage`, `ScanNext`) and the batch (`pc`, `Next`) of a command, `MCTextEdits` what rewrites texts, `MCEvaluation` what run and test do
with a mapping. One component moves in each behaviour and the others rest.

## 4. Runs

The runs that pass are exhaustive. `CHECK_DEADLOCK FALSE` is set in all
of them: callers may have used up their calls, the server may be shut down, a batch ends.

| Run | Checks | Bounds, and why they are enough |
| --- | --- | --- |
| `ExecutionCacheRace` | `TypeOK`, `NoResurrection`, `SingleFlight`, `FlightsLand`, `ImplementsService` | 3 callers, 1 key, 4 calls, 1 invalidation: a disowned leader, its successor and a waiter at once, and one call that comes after all of them; sizes below and above the limit of an entry |
| `ExecutionCacheLRU` | `Accounted`, `EvictsOldest` | 2 callers, 3 keys of 1 document, 4 calls, limits of 2 entries and 3 bytes, sizes 1 and 2: each limit evicts, alone and together, and two insertions, a hit that reorders them and the insertion that evicts fit in; keys are symmetric |
| `ExecutionCacheReturns` | `EveryCallReturns` | 3 callers, a key that is cached and one that bypasses the cache; no fairness for an execution |
| `LifecycleValidations` | `Coherent` | 1 YAML document (the host that reads its text twice), 3 generations: an old, a superseding and a reopened one |
| `LifecycleQueue` | `TypeOK`, `QueueDrains`, `Shown`, `TreesReleased`, `ShutdownEnds` | 2 documents, 2 generations in all: two entries of the queue and a close of each; no requests, whose trees `TreesOwned` covers |
| `LifecycleRequests` | `FreshExec`, `Settles`, `TreesOwned` | 1 document, 1 request used again and again, 2 generations: a request that parses after the close or publishes next to a validation, with its publication merged, replaced, failed or dropped; `ClientSettles` (section 5) has any number of documents |
| `ToolWriteBatch` | `NeverTorn`, `ExitTruthful`, `OverwritesOnlyRead` | 2 files, 2 edits at any point, so one between the checks and one in the window; texts fixed to clean, fixed with remaining findings, clean, reported, refused |
| | `ListsVisible`, `ReadsOnlyVisible`, `FailsForSettings` | 4 nested directories, an empty one and a skipped one; settings in two, Git roots in two, nested or in one project, a rule that ignores and one that brings back (then settings in one) on any level and from either kind of file, an unreadable ignore file; 8 arguments |
| `WorkerSuite` | `NoRunaway`, `NotBlamed`, `KilledByName`, `SuiteEnds` | 2 cases, 2 bytes of buffer and up to 4 of an answer: a worker that answers, fails, floods its output or never ends, and a second case after each |
| | `FieldsFromLast`, `ImportsClosed` | headers of up to 2 of 16 directives and of 3 of those that can be applied, with and without a space after `#!`; every graph of 2 imports, 2 writes at any point; 6 reads and 2 retained imports, so that each limit is met |
| | `ExpectationMeans` | documents of up to 4 nodes with aliases to any of them, 5 expanded values; each expectation against each outcome |
| `TextEdits` | `ReadsPreserved`, `Reversible`, `UsersKeep` | every text of 4 symbols and 2 names: two lets and two reads, or a lambda in a lambda; every project of 3 texts of the sets in `MCRename`, one broken at most: a shadowing, a circle, a collision two imports away, a third name that one of two imports has |
| | `NoOverfull`, `OnlyCommasGo`, `Idempotent` | 7 trees (a hugged collection, a lambda, comments before a dot, behind a comma and between statements, a match), up to 2 more line breaks anywhere, every width between one that breaks all groups and one that breaks none |
| | `MeaningKept`, `SuppressionKept`, `CyclesEnd`, `Converges` | up to 4 chained calls, nested in an argument, with comments between them; two statements, two regions; every import graph of 2 files, 4 calls and 5 bytes, 1 write: a file has as many bytes as imports, so that a circle of single imports ends by the count and one of double imports by the bytes |
| `RenameMapCapture` | violates `NothingCaptured` | 3 texts, none broken |
| `RenameMapBroken` | violates `DeclarationRenamed` | 3 texts, one broken at most |
| `ScanPatterns` | violates `HonorsPatterns` | the tree of `ToolWriteBatch` |

Names of bounds: `MaxCalls`, `MaxRevision`, `MaxGeneration`, `MaxEdits`, `MaxCases`,
`MaxAnswerBytes`, `MaxBroken`, `MaxWrites`. `MaxReads`, `MaxImports`, `MaxBytes` and
`MaxValues` are limits of the code with small values.

Two disagreements with `docs/features/rename.md`, both in `PROJECT.json` `findings`. A text
that imports the renamed map and another map, without using the renamed one, is not searched
for collisions: line 14 promises that captures are rejected, and its apply is captured. And
a declaration in a text with a syntax error can be renamed from a use elsewhere: all uses
are renamed, the declaration is not.

One with `docs/cli.md:54`: outside a Git project the rules for an entry begin at the topmost
directory above it that has settings, so that a `.bloblangrc.json` in a nested directory ends
the ignore files between it and the scanned directory.

Fairness. `Spec` of the cache assumes that a goroutine that can run does and that a mutex is
granted (Go's mutex is starvation-free); an execution need not end, and `EveryCallReturns`
says who may be held up by it. `Spec` of the lifecycle assumes that goroutines run, that the debounce timer fires and
that a write to the client returns, with or without an error. Nobody has to edit, ask,
cancel, or shut down. The worker's fairness is that goroutines run, that the deadline
passes, and that a killed process ends; a mapping need not.

## 5. Proofs

The theorems hold for all values of the constants under the named assumptions
(`CacheAssumption`, `LifecycleAssumption`, `PublicationAssumption`, `ToolWriteAssumption`,
`TextsAssumption`, `SamplesAssumption`, `WorkerAssumption`, `DiscoveryAssumption`, `GapsAssumption`,
`LimitsAssumption`, `FilesAssumption`, `RuleAssumption`, and those of
`RenameMap`: finitely many texts, numbered from 1, some name, and projects of the right type). None of the invariants is
inductive as it stands; what follows is what each needs besides. The inductive ones were model
checked on the runs' instances before they were proved.

`ExecutionCacheProofs`: the safety properties of `ExecutionCacheRace` and
`ExecutionCacheLRU`. That a commit caches nothing stale needs to know that a leader that still
owns its key was not disowned, and that nobody waits in vain needs to know which flights
exist. The inductive invariant `FlightInv` adds who leads (`Leaders`), that a flight has
one leader (`Ownership`), that a pending flight is led at the current revision (`Owned`),
and that a waiter's flight is closed or led (`Waiters`). Steps that touch neither flights
nor entries are dispatched by one lemma (`QuietStep`); leading, committing and invalidating
have their own. `Accounted` is inductive together with `FlightInv`: a commit inserts a key that
is pending, so not cached, and the total is a sum, for which the lemmas on `BytesOf` show that
it does not depend on the order of its terms (`BytesOfOne`) and splits (`BytesOfSplit`). Each of
them takes a smallest counterexample (`SmallestExists`), because no prover here can use the
library's induction theorem. `EvictsOldest` compares the times of use, which the cache does not
have: it needs `UsedInOrder`, that the list is in the order of the last uses, which a hit keeps
because it moves its entry to the front, an insertion because it puts it there, and a removal
because it leaves the rest in order; and `Enabled`, that a cache without room for an entry is
never looked at.

In the same module, the cache implements `ExecutionService`. Every step is shown to be
a step of the service or to leave what it shows alone (`HiddenStep`). `ServiceInv` says that
calls are not ahead of their document (`Called`), that what a leader or a hit holds is at least
as new as the call (`Timely`), for a hit because of `NoResurrection`, and that a leader holds
a cancellation only if its own context is done (`Contents`).

`LifecycleProofs`: all safety properties of the lifecycle and the outbox, in layers. `TypeInv`
adds to the types who works for which document (`Hosted`), how generations are counted
(`Counted`), what the sender holds (`Carried`), and `QueueDrains`: a publication enters the
queue and wakes the sender in one critical section. `LatestInv` says what the latest generation
of a document stands for: its sample, its text unless an edit is under way, a validation that
began. On these rest `CoherentInv`, that a validation that is still current has read the text of
its own generation and nothing else (`Reading`, `OfOneRevision`), `FreshExec` and `TreesOwned`.
`SettleInv` follows a publication to the client: the newest one a document has had, wherever it
is (`Newest`, in the queue, with the sender or shown), says what the server holds (`Answers`),
or a write failed. `PublicationAssumption` says that no publication is none.

`ToolWriteProofs`: `NeverTorn`, `OverwritesOnlyRead` and `ExitTruthful`. `Inv` says where
the tool may be (`Position`), that paths name synced texts and the temporary file is
complete by the time of the rename (`Whole`), that the editor's inodes are new (`Inodes`),
and that the text is the one read as long as `Lstat` returns what it did (`Seen`). `Truth`
adds that every processed file is finished or was touched. It assumes that the formatter is
idempotent (`formatting_v2_test.go`).

`RenameLocalProofs`: `ReadsPreserved` and `Reversible`, for texts of any length. The link
between the static check and the run is that both texts have the same shape and every symbol
resolves to the same declaration in both (`Alike`), from which it follows that two lets of a
mapping have one name in the first text exactly if they do in the second, where a read could
tell. `Inv` adds that the runs have assigned the same lets (`SameAssigned`), and that what is
assigned lies before the position (`Recorded`). For `Reversible`, the symbols of the renamed
binding are the same before and after (`BindingKept`), so renaming back changes exactly these
(`ChangedBack`), and the old name is free where the new one was put (`OldNameFree`).
`TextsAssumption` is what the grammar guarantees: scopes nest, and a let is inside nothing but
a named map.

`SamplesProofs`: `ImportsClosed` and `FieldsFromLast`, for any import graph, whatever others
write while files are read, and headers of any length. The first rests on `Snapshot`: some
set of names that were read contains what the text and these names import, except what is
still to be read; each call moves one name from the one to the other, and at the end nothing
is left. The second rests on `FromLast`, which has the last directive that speaks of a field
as a witness, so that adding a directive needs no induction, on `Automatic`, that the automatic
sample is applied first, where the scan finds nothing, and on `Processed`, that every directive
that was applied has a value, as the scan wants it. `SamplesAssumption` is the shape of the
requests and files.

`WorkerProofs`: `NoRunaway`, `NotBlamed` and `KilledByName`, for suites, answers and buffers of
any size. They speak of executions that have returned; `WorkerInv` says what is so before: a
process is alive only while it is waited for (`Contained`), a kill has a reason in the context
that stays (`Justified`), and a result that waits to be collected was complete before the
suite's context was done, unless it is done now (`Punctual`). `AnswerWhole` is proved besides:
what is decoded is all the worker wrote.

`DiscoveryProofs`: `ListsVisible`, `ReadsOnlyVisible` and `FailsForSettings`, for every finite
tree, any nesting of roots, settings and ignore files and any set of rules.
`DiscoveryAssumption` says that the tree is finite and no directory is inside itself. The
reference `Excluded` is recursive; `ExcludedIs` gives it a form without recursion, `Hidden`:
an entry is hidden when the rules for it, or for one of the directories around it below its
boundary, ignore it. That needs that a directory below its boundary shares it with its parent
(`BoundaryOfParent`, for each of the three places a boundary can be) and that no Git root is
among them; the directories are then tried under the same rules whichever entry below asks
(`FoundIs`), and the policy's verdict is the reference's (`Verdicts`). `ScanInv` says of the
traversal that it visits only children of visible directories, opens and lists nothing hidden
(`Within`), that whatever it has not listed lies below an entry it has still to visit
(`Covers`), that it goes on only as long as everything opened could be read (`Readable`), and
that a pattern for entries hands the files of its base and walks of its directories apart
(`Staged`). The proof showed two things the runs had not: `ReadsOnlyVisible` was too strong for
a base that is a Git root inside an excluded directory, which the trees of `ToolWriteBatch`
now have, and two branches of `ReadDir` overlapped.

`TextEditsProofs`: `UsersKeep`, for any number of texts and names and imports of any shape.
What a name stands for is the end of a search, so the proofs are about two searches, step by
step. A search ends within `Steps` (`SearchEnds`: what remains becomes less with every visit,
because the imports of a text are read once) and comes to every text that is imported, around
any circle (`SearchComplete`). `DefinitionKept` says when a search before the edits and one after
them find the same: the two names are declared in the same imported texts, at least where it
matters. `MapInv` has what the handler has made sure of: the texts searched so far that have
matches, and no others, are edited, and none of them reaches the new name (`Answers`).
`DeclarationRenamedUnlessBroken` shows that a syntax error is the only way to what
`RenameMapBroken` finds. The theorems about recursion rest on `Inductive`, induction over Nat
stated of a set, and `StepsExist`, that what is defined step by step exists. The proof corrected
the property: its first form, true for two names, claimed that nothing a text applies under the
renamed name changes, whatever it imports; a third name refutes it as `RenameMapCapture` does,
and the run has one now.

In the same module, `OnlyCommasGo`, whatever a layout renders. The comparison counts the tokens
it has found again: a count that has passed the end of the result never comes back, so that one
that ends there has gone up by one or stayed at every token before (`MatchingClimbs`). Each count
is then reached (`ClimbsThrough`), at one place (`ReachedOrdered`); the tokens at these places
survive in their order, and the rest are commas that may go (`SurvivorsAre`).

And `NoOverfull`, for any layout and any width. The invariant of the renderer is that what is
still to come on a line that holds a flattened break fits: the column and the width of the rest
up to its next line break together are within the width (`Fitting`). A text moves its width from
the rest to the column, a line ends the rest, a group that does not fit changes neither, and one
that does has been measured with exactly this rest (`PutFits`). The two recursions it measures
with are followed step by step, like the searches (`FlatLayoutTyped`, `PrefixIs`, `RenderFits`).

And `CyclesEnd` and `Converges`, for any rule with `RuleAssumption`. The importer has no search
for cycles: every call is counted, so one call more than there may be has either been refused or
left nothing to read (`CountedNext`). A file that is missing or reaches itself, with all files
that reach it, is a set every member of which is missing or imports another one (`Endless`).
What is still to be read meets this set as long as no call is refused (`MeetsNext`), so it is
never read to its end. `Rounds` says of the loop that all texts before the present one are
longer, so that none comes back, and that it is left for a text without fixes or one that is not
valid: a candidate that is not has the same imports, hence neither is the text it comes from
(`ValidSame`), unless they were written meanwhile.

Model-checked only: `Idempotent`, `MeaningKept`, `SuppressionKept` and `ExpectationMeans`, which
speak of what a layout, a fix or a fixture does, walks over trees by recursion, so that they
need induction over data; that the rule of `LintFix` has
`RuleAssumption`, for the same reason; and everything about liveness (`EveryCallReturns`,
`Shown`, `TreesReleased`, `ShutdownEnds`, `SuiteEnds`).

## 6. Not modelled

Preview rendering, completion, signature help, documentation search and schema inference are
pure functions of one text; they are planned where a reference definition says more than the
code, and left to their tests otherwise. The lint rules without a safe fix only report. The
matching of patterns is that of a library, and so are the Bloblang runtime, Tree-sitter, the
LSP and MCP libraries and `tidwall`. The MCP server and the command line wrap the components
above without a state of their own. A panic in an execution would leave a flight open; nothing
in the program recovers, so the process ends and it is not modelled.
