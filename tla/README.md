# A verification of glasir

glasir indexes a source tree into a graph of symbols and serves questions about
it to agents, over stdio or HTTP, while the tree changes underneath. This
directory holds TLA+ models of the parts of it that are hard to test, the TLC
configurations that check them, and proofs that TLAPS checks.

Paths below are relative to the repository root (`src/graph.rs`); PROJECT.json
names the exact lines every definition stands for.

## 1. The system

| Component | Code | State it keeps | Operations |
|---|---|---|---|
| Base CSR | `src/csr.rs` | immutable rows of edges per node | build, validate, read |
| Delta store | `src/delta.rs` | edges added, edges masked, nodes per file | replace a file's edges, add, re-link, register a file |
| Graph | `src/graph.rs`, `src/published.rs` | the published snapshot (an `Arc`), the `compacting` flag | `load`, `update`, `update_batch`, compaction thread |
| Registry and ingestion | `src/ingest.rs`, `src/resolve.rs` | name to node, placeholders | ingest a file, forget nodes, link placeholders |
| Analysis | `src/main.rs` `analyse`, `build_graph`, `refresh_files` | the graph and the registry being made | full build, incremental refresh, links |
| Snapshot cache | `src/snapshot.rs`, `src/main.rs` `analyse`, `store_snapshot` | `.glasir-graph`: the compacted graph, its names, the files' mtimes | load, find the stale files, store |
| Watcher | `src/watcher.rs` | the last seen mtimes | poll, diff, send a batch |
| Serve loop | `src/main.rs` `run_serve` | published state, generation, last error | rebuild on a change, publish, report readiness |
| HTTP server | `src/http.rs` | connection count, shutdown flag, event streams | accept, authenticate, answer, stream, drain |
| Audit log | `src/audit.rs` | bounded queue, missed counter, file | record, write, flush |
| Tokens | `src/auth.rs` | token file, its loaded copy | append, revoke, rotate, reload |
| Queries | `src/mcp.rs`, `src/physics.rs`, `src/guard.rs` | none: one snapshot, and a search's own queue, stack or heap | shortest path, impact, expansion, cycles |
| Language server client | `src/lsp.rs`, `src/main.rs` `run_watch` | one server per language, readiness, request ids | start, await a reply, open a text, ask for symbols and references |
| Git commands | `src/repos.rs`, `src/commits.rs` | a child, its pipes, a deadline | run and collect, ask for many objects |

How they interact: the watcher sends batches of changed paths to the one thread
that ingests. That thread is the only writer of the graph ("writers serialize on
the caller side", graph.rs:209); each batch becomes calls of `Graph::update` or
one `Graph::update_batch`, whose closure edits a copy of the delta. Readers
clone the `Arc` of the published snapshot and never block. An `update` that
leaves the delta at `COMPACTION_THRESHOLD` or more starts a detached thread
that folds base and delta into a new base and publishes it if nobody published
meanwhile. The HTTP and stdio servers read; nothing they do writes the graph.
Under `serve --watch` the batch handler analyses the tree again and replaces the
served graph; event streams and probes learn of it from a counter. Each request
thread hands its record to the audit log's writer thread and never waits for it.

The hard behaviours are the races between the writer and the compaction thread,
the state that survives a compaction or a restart and the state that does not
(file ownership, links), staleness between a file's contents and its recorded
mtime, the limits of the server (slots, timeouts, queues), and other programs
that answer late, in pieces or never. PROJECT.json lists each under `hazards`
with the line where it bites.

What makes each component correct:

* Base CSR: rows have no gap, no edge points past the last row.
* Delta store: re-ingesting a file replaces exactly what it contributed.
* Graph: each update takes effect once, on the store as it is then; compaction
  is invisible to readers; the flag is up exactly while a thread compacts.
* Registry: an incremental pass leaves the graph a full build would make.
* Snapshot cache: what is loaded as fresh is what a build would produce.
* Serve loop: a change is eventually served or reported; readiness is truthful.
* HTTP: slots are given back, the drain ends.
* Audit: every record is a line of its own, or is counted as missed.
* Tokens: a request is judged by a set of tokens that was in force during it.
* Queries: an answer is what its definition over paths says, not what the order
  of the search makes of it.
* Children: what is recorded is what was asked for and answered; nobody waits
  for ever on a full pipe.

## 2. Modules

* `DeltaStore` - the data: base, delta, union view, compaction and the four
  mutations, as operators on records. The edges leaving a node are a *bag*
  (a function from edges to how many copies there are), because the graph is a
  multigraph and a duplicated link set is one of the things that goes wrong.
* `Graph` - the protocol of graph.rs and published.rs. `current` is the
  published snapshot with its address (`arc`) and generation; `held` is the
  `Arc` each thread loaded; `pc` says where a thread is. Every action is what
  happens between two accesses to shared memory: `Load`, `Publish`, `Retry`
  (the CAS failed in `update`), `LoseBatch` (the CAS failed in
  `update_batch`), `SpawnCompaction`; `LoadSource`, `PublishCompacted`,
  `DiscardCompacted`, `Panic`, `ClearFlag` for the compaction thread. A swap
  allocates an address that no live `Arc` has, and any such address: reuse of
  freed memory is part of the model.
* `AtomicGraph` - what `Graph` promises: one store that each call changes in a
  single step, and that compaction (`Fold`) may rearrange at any time.
* `GraphHistory` - `Graph` with three history variables (loads per call, the
  ownership each file was last registered with, and which of it since the last
  compaction) and the properties that need them, and fairness.
* `Registry` - the symbol registry over a delta store: minting and forgetting
  names, what ingesting a file does to names and edges (`ApplyFacts`, `Vanish`),
  tier 3 (`LinkPlaceholders`). It also says what a tree *means*, independently
  of how it is read (`Definitions`, `Calls`, `Symbols`, `TreeLinks`): the
  reference the results are compared with. A symbol is a record of file and
  name; a bare name has no file.
* `Analyse` - analyses one after another, with the tree edited, files
  unreadable and the process killed in between or meanwhile. `disk`, `mtime`
  and `locked` are the tree, `cache` is `.glasir-graph`; `reg` and `store` are
  the registry and the graph of the analysis. `Begin` walks and loads, choosing
  refresh or build; `Parse` reads one file (the pool, any order); `Fold` applies
  one file in path order, looking at the disk again where the code does: a
  refresh reads a file once more as UTF-8 (`FoldRefreshed`) and forgets one that
  is not; `Link` is tier 3 and the orphans; `StartWrite` truncates the stored
  graph, `FinishWrite` fills it, `FailWrite` leaves it absent or torn. `doubt` is
  a history variable: the files whose text the graph may not show, because they
  changed, were not read, or were forgotten though they are there. A later
  analysis that folds the text takes a file out; storing the graph does not.
* `Audit` - the audit log: `Accept`, `Refuse` and `CountDrop` are a request
  thread's `record` (a failed `try_send` and the later add are two steps);
  `TakeRecord`, `SwapCount`, `WriteLine` and `LoseLine` the writer's;
  `StartFlush` and `FlushTimeout` the flush. A record is its number. A failed
  write may leave part of a line (`torn`), and the next one is glued to it.
* `AuditLedger` - what a log promises of the records it accepts: each is settled
  once, in order, as a line or as lost. `Audit` implements it.
* `Server` - http.rs over that log. `loop` is the thread of `serve_on`, from the
  accept loop through the drain to the flush, `phase` what each connection's
  thread is at, `live` the counter. `Check` and `Admit` are the load and the
  later add; `AcceptFails` is the error that ends the loop; `Leave` is the drop
  of `LiveGuard`, which every way out of a thread comes to, a panic included.
* `Publish`, `Serve` - `run_serve` with `--watch`. `Publish` is the state the
  watch thread shares, replaced in three steps; `Serve` adds the tree, the
  watcher's stamps, the stored graph with the stamps it was stored with, a
  stream with its client, and a probe. An analysis is what `Analyse` makes of a
  tree: stored text where the recorded stamp is the present one, read text
  elsewhere, and the stamps of the moment it stores. `Walk` has the two walks of
  an analysis fail one by one, each as `walk` lets it: with no file, and no error.
  `ReadFails` is a file that cannot be read when it is its turn: it keeps its
  stored text or loses it, and its stamp is recorded all the same. `overlapped`
  is history: the files changed while nobody looked, or passed over by a failed
  walk or read.
* `Tokens` - the token file. `Truncate`, `RefillPart` and `Refill` are `fs::write`
  in `revoke`; `Remove` and `Rename` the end of `rotate`, the first on Windows
  only; an append may leave part of a line; `Die` ends the operator anywhere. A
  write need not change the file's time (`CoarseClock`), and only Unix has inodes.
  `StampTime`, `StampContent` and `Answer` are the three accesses of
  `Tokens::current`. `valid`, `inForce` and `rewritten` are history: the entries
  that should be in force, now and since each call began, and the operations that
  had the file rewritten or gone meanwhile.
* `Queries` - the snapshot a question reads; `ShortestPath`, `Impact`, `Expand`
  and `Cycles` are the questions, each with its search as actions (one iteration
  of a loop) and a property that says without a search what the answer is.
  `Cycles` is two searches: `walk` of mcp.rs and `dfs` of guard.rs are the same
  but for where they test the length, which `searcher` tells apart.
* `Lsp` - the language server client. `client` says which reply is awaited;
  `toServer` and `toClient` are the pipes; the server (`Take`, `Answer`,
  `Report`, `Exit`) answers in any order, about the text it had when it was
  asked or with an error, may exit at any moment, and may keep the text of a file
  that is opened a second time, which the protocol forbids.
* `Output` - `output_within`: git prints in chunks into pipes that fill, hangs,
  fails, or leaves a helper that holds the pipes; two threads drain, and each may
  be cut short (`DrainFails`) by an error of its read or a panic.
* `CatFiles` - `cat_files`: a thread writes names while the answers are read.
* `GraphProofs` (of `DeltaStore`, `Graph`, `AtomicGraph` and `GraphHistory`),
  `AnalyseProofs`, `ContentsProofs` (both of `Analyse`), `ServerProofs` (and
  `Audit`), `ServeProofs`, `TokensProofs`, `LspProofs`, `QueriesProofs` - the
  theorems.
* `MCGraphValues`, `MCGraph`, `MCGraphHistory`, `MCAnalyse`, `MCServer`,
  `MCServe`, `MCTokens`, `MCQueries`, `MCChildren` - values of the constants.
  `MCQueries` and `MCChildren` check one question, and one kind of child, in a
  behaviour: nothing couples them.

How they compose: `Graph` and `Registry` both use `DeltaStore`; `Analyse` uses
`Registry` and holds its graph as one store, without the protocol of `Graph`,
because nobody else can see it before the analysis ends. The proof that `Graph`
implements an atomic store is what justifies this. `Server` extends `Audit`: its
calls are the records, its shutdown asks for the flush. `Serve` extends
`Publish` and uses, instead of `Analyse`, what an analysis does with stamps and
texts. The questions read a snapshot that `Graph` has published and that nobody
changes any more.

The definitions called *faulty variants* are never used by a specification:
each is a plausible error in the definition that follows it, kept to show
(PROJECT.json, `mutants`) that a property would notice.

## 3. Runs

The graph, over three nodes of which the base knows two, one file and two kinds:

| Run | Instance | Shows |
|---|---|---|
| `race` | 2 writers, `update` and `update_batch`, 2 compaction slots, threshold 2, 3 generations from which calls start, 4 addresses | type invariant, no ABA, generations tell staleness, one worker behind the flag, base stays closed, `Graph` implements `AtomicGraph`, compaction is invisible |
| `single` | 1 writer, 2 slots, threshold 2, over a stored base, fairness | an update needs at most two attempts, compaction ends, calls return; file scoping and re-linking replace exactly what they should, of what was registered since the last compaction, and while no link is stored |
| `scoped_compacted` | 1 writer, no stored base | **violated**: compaction forgets file ownership |

The analysis, over two files and two names:

| Run | Instance | Shows |
|---|---|---|
| `analyses` | 2 edits at any moment, files unreadable at any moment, definitions that move, one file sometimes Latin-1; failed and torn writes, crashes | type invariant; definitions, calls and links are those of the files the graph shows; what is stored as fresh is current; ids are never handed out twice, links never mislead |
| `latin` | 3 edits, none while an analysis runs | **violated**: a refresh forgets a file that a build indexes |

The server and the programs around it:

| Run | Instance | Shows |
|---|---|---|
| `server` | 4 connections, one from outside, 2 slots, a channel of 1, 2 records | slots are threads and come back, drops are counted once, the log implements its ledger, calls are accounted for at a clean exit, the server stops |
| `serve` | 2 files, 2 edits, 1 failure of an analysis, a walk or a read, a stream, a probe, fairness | what is stale has a named reason, clients are told, probes keep up; changes are served, clients hear of newer graphs |
| `batch_lost` | as `serve`, no failures | **violated**: a re-index that a batch triggers serves the old text |
| `tokens` | 2 request threads, 2 names, 3 writes after the first, a clock that stands still, torn lines, crashes; Unix or Windows, chosen at the start | answers are whole sets that were in force |
| `queries` | every graph of up to 4 edges over 3 definitions and a placeholder, two confidences, 2 hops | shortest paths, hop distances, scores and cycles are what their definitions say |
| `children` | 3 saves, 1 ping, 2 symbols; 2 chunks over a pipe of 1; 4 objects over pipes of 1 | recorded facts are verified, nobody waits for ever on a program that gets on, output is whole or refused, objects get their own answers |
| `wedged` | as `children`, only glasir's own threads get on | **violated**: a hung language server holds the watcher |

Bounds of the graph's runs. Four addresses for at most five Arcs alive (the
published one and one per thread) is deliberate: an exhausted allocator only
blocks a swap, and with few addresses reuse happens at once. `MaxGeneration`
stops new *calls*, never a thread that is under way, so every race is played to
its end. A second compaction slot is there so that two threads could run at once
if the flag did not prevent it. Three nodes are enough for an edge between two
base nodes, one to a minted node and one from it.

Bounds of the analyses. `MaxEdits` bounds the changes of files; analyses,
crashes and failed writes are unbounded. Two edits are enough for an id to be
minted, forgotten, stored, and its successor to be minted after a restart: the
mutants that hand an id out twice are found with them.
`Nodes` has more ids than any run hands out (`TypeOK` says so). `ChurnFactor` is
1 instead of the code's 5, because with two files every edit would exceed a
fifth; the choice between build and refresh is still made by the same test.
The properties are about the files the graph shows, the ones not in `doubt`, and
calls and links about texts that are `Steady`: they do not call what only another
text of their file defines (section 4, number 4). A file that is in doubt comes
out of it when it is read again. One text calls at its top level, that is, from
`<module>`. Deletions and files that come back are in both runs, as `Absent` is
always a next text. `latin` states what the self-check says of every refresh, on a
tree that rests, with every recorded time the present one.

Bounds of the server's runs. Two slots and three admissible connections make one
find the server full; one place in the channel and two records make a drop, a
drop that is counted late, and a flush that finds the channel full. Two edits
are enough for one that nobody looks at and one that follows it; the failure may
be an analysis, a walk or a read, at any moment. Three writes of the token file hold a revocation
torn in the middle, or one that ends and another operation; two threads are the
one that takes a stamp and the one that fills the cache under it. The pipes of
`Lsp` are unbounded in the model: its messages are few; those of `Output` and
`CatFiles` hold one chunk, so that they fill at once.

Bounds of the queries. `MaxHops` is 2, one less than the longest path without a
cycle has, so that a path may use its hops up where another has some left: the
case the shipped limit of 3 meets on real graphs. `KeptAreTheBest` promises a
node the score of a path on which no node is held up in this way; one that is held
up may be lost (section 4, number 16). One of the three seeds is below the
threshold: it is kept all the same, and goes nowhere. `MaxFiles` 2 with three files puts a
cycle on either side of both searches' bounds.

Deadlock checking is off where the environment stops at its bound (writers stop
calling, files stop changing) or the program ends; it is on in `tokens`.

Fairness. Weak, per thread, on its own steps, everywhere: these are ordinary
threads running loops. In `HFairSpec` entering a call is the environment's
choice and has none. In `FairServerSpec` the accept loop, each connection's
thread and the drain's deadline get on, but the writer of the audit log does
not have to (a disk may hang), and nothing is assumed of clients: one that says
nothing in the head of its request is left out of `SlotsComeBack`, because
`read_line_retry` reads again without end (section 4, number 10). In `FairSpec`
the watch thread and the stream's thread get on. `LspFairness` and
`OutputFairness` assume something of other programs: that a server that lives
reads and answers, and that a helper ends; git itself may hang, as the clock and
the drains get on. What is left without these assumptions is checked under
`ClientFairness` and `OwnFairness`, where only glasir's own threads and the clock
get on: `wedged` then finds the one promise broken, and number 21 of section 4 is
the other. In `CatFairness`
git gets on while it lives, as `cat_files` has no time limit.

## 4. The disagreements

Each is what a document, a comment or an assertion of the repository says, and the
code does otherwise. Numbers 1, 3, 6 and 18 have a run, and PROJECT.json quotes both
sides under `findings`. Each of the others is stated as a property in the module it
is about, beside the one that does hold and leaves room for it, with the line it
quotes. TLC finds it violated when it takes the place of all properties in the
configuration named here: `SameCalls` in `latin` is `MCAnalyse_latin.cfg`, checked
for `SameCalls` alone.

The graph and the analysis:

1. *File ownership does not survive compaction* (run `scoped_compacted`,
   `FileScoping`). `compact` starts the new delta with `DeltaStore::new()`
   (graph.rs:166), `file_nodes` included, so a file ingested again afterwards
   leaves its old edges in the view.
2. *Links are replaced only while they are in the delta* (`LinksReplaced` in
   `scoped_compacted`, delta.rs:103).
3. *A refresh forgets a file that is not UTF-8* (run `latin`, `SameSymbols`,
   main.rs:1248), and stores its present time, so it is missing until it changes
   or the graph is built anew.
4. *A definition that left its caller's file* (`SameCalls` in `latin` with
   `Texts <- CallerStays`, ingest.rs:1124). Whether a call is local is decided
   before the names the parse dropped are forgotten.
5. *A stored link outlives what it was made from* (`SameLinks` in `latin` with
   `Texts <- SecondDefinition`, main.rs:3931): links are replaced only when
   there are new ones, and not in the base.

The server:

6. *A re-index may lose the change that caused it* (run `batch_lost`,
   `BatchIsServed`, main.rs:1050). The stamp stored for a file is the one it has
   when the graph is stored, not the one of the text that was read.
7. *A change before the watcher's first look* is never reported (`ServedAtRest`
   in `batch_lost`, watcher.rs:201). A failed walk (main.rs:4257) and a file
   that cannot be read while it is analysed (main.rs:1239, 1248) leave files
   stale in the same way; `StaleIsExplained` names all of them.
8. *A stream does not tell of a graph published while it opens*
   (`OpenStreamsTell` in `batch_lost`, http.rs:1092).
9. *An error of `accept` skips the drain* (`DrainsBeforeReturning` in `server`,
   http.rs:325), and the flush.
10. *A client silent in its head keeps its slot* (`SilentClientsLeave` in
    `server`, http.rs:765).
11. *A record the disk refuses is in no count* (`LossesCounted` in `server`,
    audit.rs:103), and
12. *a torn line takes the next record in* (`OneRecordPerLine` in `server`,
    audit.rs:196).

The tokens:

13. *A rotation on Windows leaves a moment without a file* (`RotationIsWhole` in
    `tokens`, auth.rs:146).
14. *A revoked token may come back* (`RevokedIsOut` in `tokens`, auth.rs:222):
    the stamp is taken before the entries are read, so the cache may hold newer
    entries under the stamp of the emptied file. It takes a second emptying
    within one tick of the file system's clock. `AnswersAreWhole` says that
    nothing but a recurring stamp has this effect.
15. *A file being rewritten counts as unconfigured* (`NoOtherWayIn` in `tokens`,
    auth.rs:106 and http.rs:442).

The ranking, and the programs glasir runs:

16. *A node does not keep its best score* (`BestScoreIsKept` in `queries`,
    physics.rs:182) when a path that used up its hops came first.
17. *A foreign node below the threshold is kept* (`BelowIsDropped` in `queries`
    with `MaxNodes = 4`, physics.rs:204).
18. *A hung language server stops the watch command* (run `wedged`,
    `WedgedQueryEnds`, lsp.rs:155).
19. *Facts of an old text* are recorded for the new one (`FactsAreOfTheSave` in
    `children`, lsp.rs:184) by a server that ignores a second `didOpen`.
20. *An error is recorded as a file without references* (`ErrorsAreNotRecorded`
    in `children`, lsp.rs:177).
21. *A helper holds the caller beyond the time limit* (`CommandsReturn` in
    `wedged`, repos.rs:95).
22. *Output that was cut short counts as whole* (`DoneIsWhole` in `children`,
    repos.rs:64).

Observed, and checked by no run:

* *A build can have competition* (graph.rs:267). The SCIP import of `build_graph`
  goes through `update` and may pass the threshold; the compaction may then
  publish while `update_batch` holds its snapshot, and the batch is dropped.
  `AtomicGraph` allows it (`Drop`).
* *`<module>` is forgotten* (ingest.rs:1380). After a restart a file owns all
  symbols with its prefix, and a parse never lists `<module>` among them; the
  node then keeps edges without a name, and no later refresh owns it. The
  properties of `Analyse` leave the callers called `<module>` out.
* *An unreadable root reads as an empty tree* (main.rs:4257), which
  watcher.rs:138 rules out: "an empty answer would read as every file deleted".
* A compaction thread that cannot be spawned leaves the flag up (graph.rs:294).
* A re-index that failed is not tried again before the next change.
* A first look of the watcher that fails ends its thread (watcher.rs:201). The
  result is dropped (main.rs:2572), so the server goes on and reports nothing.
* Drops after the last line that could be written are never noted; threads that
  outlive the drain's deadline may hand over records after the flush
  (http.rs:395).
* A crash between the two halves of `revoke`'s write leaves no token at all
  (auth.rs:106). Two operators at once lose each other's changes.
* The links of the language server are one set: those of the file saved last
  replace those of every other (main.rs:3919).
* "no-cycles" (guard.rs) gives up beyond eight files: a tree whose only cycle is
  longer passes. `cycles` sorts what it found tightest first, but stops looking
  at `limit` in the order of the search.
* The confidence `shortest_path` shows beside a node is that of the edge *leaving*
  it, not of the one "that reached it" (mcp.rs:1383), and the search prefers a
  strong edge one hop at a time, so a compiler-resolved route need not win.
* `expand` keeps a seed that scores below the threshold (physics.rs:167).
* In `cat_files` the answer of a missing object is told from a header by having
  fewer than three words (commits.rs:140); an object name with blanks in it can
  have three.

## 5. Proofs

For any nodes, files, kinds, threshold, threads, addresses and calls that meet
`DeltaAssumption` and `GraphAssumption`:

* `ControlInv` (GraphProofs) types the state and ties `pc`, `held` and `call`
  together; it is inductive and gives `TypeCorrect`.
* `PublicationInv` strengthens it with the two facts about held Arcs. They need
  each other: an address can equal the published one only for the published
  snapshot because a swap takes an address no held Arc has, and a held
  generation is smaller than the published one unless nothing was published
  since. It gives `NoAba` and `GenerationIsReliable`.
* `OneCompaction` is inductive with `ControlInv`.
* `BaseIsValid` rests on `CompactCloses`: every edge of the union view is
  covered by the width of the rebuild.
* `GraphIsAtomic` is the refinement: `Publish` maps to `Commit` because an
  unchanged address means (by `PublicationInv`) that the mutation ran on the
  published store; `PublishCompacted` maps to `Fold`; `LoseBatch` to `Drop`.
  `ReadsChangeByWritesOnly` follows with `CompactKeepsView`.
* `AtMostOneRetry`: with one writer, at most two attempts.
* `ScopeIsKept` and `LinksAreReplaced`: file scoping is exact for the nodes a file
  was registered with since the last compaction, and links are replaced while the
  base has none, whatever writers and compactions do. By `ScopeInv` the delta owns
  for a file what it was registered with since then. They say that what section 4
  shows is the *only* way either promise fails. `ReplaceScopesFile` is the same about
  a single mutation: scoping is exact if the delta knows the file's nodes.

For any files, names, texts and bounds (AnalyseProofs): `IdInv` says that the
registry and the graph are `AnalysisOK`, and every stored graph `SnapshotOK`.

* `RegistryOK`: names have nodes of their own, all below `next`. `GraphOK`: what
  base and delta mention, at either end of an edge, lies below `next` as well,
  whether a name still has it or was forgotten. So an id that is minted is at no
  end of an edge. They give `OneSymbolPerNode` and `FreshIdsAreUnused`.
* `SnapshotOK` is what makes this survive a restart: a compacted base has no gap
  in its rows, so the ids restored are below their number, from which a restored
  registry counts on (`GraphSnapshot::width`).
* `LinksFit`: as far as the ends of a link have names, they are a placeholder and
  a definition of its name. Forgetting, minting, replacing a file's edges,
  linking and compacting keep it because an id never gets a second name, and no
  new name gets an old id. It gives `LinksNeverMislead`.

Assumed are finitely many files and names and ids without a gap, and for
`LinksNeverMislead` that ids never run out (`Nodes = Nat`), as `Mint` has no
meaning in the model once they do.

Of what a graph *contains* (ContentsProofs), over any edits, locks and encodings,
during an analysis or between: ids never run out, and a caller is a definition of
its file or its top level, which is all the scanner produces (scope.rs:157, 331).
This condition is called `Scanned`. Builds, refreshes, failed writes and crashes
come in any order and number.

* `AnalysisTyped` is `TypeOK`, and needs `Nodes = Nat` alone.
* `ContentsInv` follows the definitions of each file that is not in doubt. Times
  only rise, so a file that has the time recorded for it is the file that was
  stored (`StoredFilesAreCurrent`); and a file already folded in, or left out
  because its time is the recorded one, has in the registry exactly the names its
  text defines. At the end every file is one or the other, or in doubt
  (`DefinitionsStayExact`).
* `CallsInv` does the same for calls, and rests on two more facts. The node of every
  definition is a row of the base or owned by its file in the delta, so that
  compaction keeps its row; and a fold rewrites the rows of its own file only. A
  placeholder somebody calls is no orphan, so forgetting orphans takes no callee.
  It gives `CallsStayExact`, for a text that is `Steady`: for others it is false
  (section 4, number 4).
* `LinksStayComplete`: `Link` makes every link there is to make, compaction keeps
  it, and until the next `Link` nothing is read. It needs every file shown and
  steady, for a link has its ends in two files.

For any files and bounds (ServeProofs):

* `CountInv` says where the counter stands: one behind the graph exactly between
  the store and the bump. With what a stream and a probe have read it is
  inductive, and gives `ProbesKeepUp` and `StaleClientsTold`.
* `FollowInv` follows each file from the tree to what is served: for a file that
  is not in `overlapped` the stored graph records the version it was made from,
  or no stamp at all, and at each stage of the watch thread what that stage holds
  is the present version, unless the file was changed after the poll - which the
  next poll finds. A read that fails puts its file into `overlapped`, as a failed
  walk does. It gives `StaleExplained`.

For any connections, limit, channel and number of records (ServerProofs):

* `SlotInv`: the counter is the number of connections in a phase that holds a
  slot, and below the limit while the loop is between its load and its add. It
  gives `SlotsKept`.
* `DropInv`: every dropped record is in one of four counts, and the threads about
  to count one are those in phase `recorded`. It gives `DropsKept`.
* `RecordInv`: every record handed over is in the channel, in the writer's hand,
  written, refused by the disk or dropped. `FlushInv`: unless the deadline has
  passed, a flush is the last command of the channel, because no thread is left
  to hand over a record behind it, and once it is answered the channel and the
  writer's hand are empty. Together they give `AccountedAtExit`, for a disk that
  took every line.
* `LedgerKept` is the refinement of `AuditLedger`: what the ledger has pending is
  what the writer holds and then what is in the channel, without the flush. A
  flush is at most once in the channel, so to take it off moves no record, and to
  take a record off takes the ledger's oldest. A record of which the disk took a
  part, or that was glued to such a part, is one the ledger has lost.

For any readers, names and number of writes (TokensProofs):

* `FileInv` ties the file to the operator's process (outside the windows of a
  revocation and of a rotation on Windows, what is in the file is in force) and
  the cache to the file (a set that was cached since the last write is the
  file's). `CallInv` says what a call may be answered: the file's entries by now,
  and the cached ones if the cache was filled since the call began. The stamp
  alone would not do, as it may recur on a clock that stands still; so the model
  counts writes, and a stamp recurs when it was taken of the file before some
  write that came before the call. Two threads that took their stamps between
  the same two writes began with the same file, so what either cached is whole
  for both, although the contents they compared were read at different moments.
  They give `WholeAnswers`.

For any snapshot and question, with finitely many nodes (QueriesProofs):

* `ShortestWalkFound`: `prev` is a tree over the nodes seen, with a depth function
  that exists at each moment; the queue is sorted by depth and spans two of them,
  and what left it has its neighbours seen. So any walk to the goal that is no
  longer than the head's depth is in the tree. Following `prev` back goes up one
  level at a time.
* `LevelsAreExact`: the levels swept are the sets of callers at each distance, by
  the shortest walk that reaches a node.
* `CyclesListed`: the cycles found are exactly those the search has passed, in the
  order in which it walks (`Later` says which are to come), each once. Both
  searches, of mcp.rs and guard.rs, are instances.
* `BestPathsFound`: the argument of Dijkstra's algorithm, with three things that
  it does not have. A foreign node's score is not the cost it goes on at, so a
  worse path to it may be followed again: what comes of that is never better. A
  branch below the threshold is cut, which loses nothing as every hop costs. And
  hops are limited, which does lose paths: those on which some node is `HeldUp`,
  that is, reached as cheaply by a path of `MaxHops` hops. No other is lost,
  however few the hops. `NothingMissed` says that every edge of a scored node can improve
  nothing, or waits in the heap at that node's score.

For any saves, pings and symbols (LspProofs), with `LspInv`, a conjunction of:

* `IdsInv`: a reply with the awaited id, in the pipe or in the server's work,
  answers the question that is awaited, about the text at hand; a request with
  that id is behind every text in the pipe. Asking keeps it because ids are
  fresh; that the server is about to read the request keeps it because of
* `TextInv`: once a question is asked the server has been given a text, and none
  is on its way while its replies are gathered, so they are all about one text -
  which need not be the one at hand (section 4, number 19); and of
* `PrimingInv`: what is in the pipes tells how far the server is. The client is
  ready only after the end of the priming, and that comes once and last, so a
  reference is asked for of a server that has primed, or has exited.

`FactsInv` and `RecordedInv` then say that what is gathered, and what is recorded,
is such replies in the order of their ids. They give `VerifiedFacts`. The proof is
long because every action moves messages between sequences.

Some of these proofs need induction over data, where an induction rule is out of
the provers' reach. They use a least counterexample instead (`LeastNumber`, from
the library's theorem on well-founded relations): of the lengths at which a walk
escapes the search there is a least, and it cannot be one.

Only model-checked: liveness (`CompactionEnds`, `CallsReturn`, `StopsInTime`,
`SlotsComeBack`, `ChangesAreServed`, `StaleClientsHear`, `SavesAreHandled`,
`OutputIsWholeOrRefused`, `ObjectsAreAnswered`), which TLAPS does not prove under
fairness. Every invariant and every other action property of a passing run is a
theorem, the contents of a graph under `Scanned`, which their run meets as well.

## 6. Not modelled

Left out of the modelled components: the edge attributes (timestamp, authority),
imports, receivers, base classes, macros and languages (they make placeholders
more precise, or force a full build), Markdown and SCIP inside an analysis, the
side tables (docs, spans, routes, dispatch), files leaving the scope. The walk
and the load of the stored graph are one step; the two walks of a build are one,
and fail on their own in `Serve` only. There a walk fails as a whole: a single
directory that cannot be read is left out.
Of the server: TLS, origins, the content of replies. Of the tokens: expiry,
hashing, hand edits, operators that run at once. Of the language server: what its
facts do to the graph.

Most of the code is of three kinds that are not modelled. The language scanners
(`parsers/`, some 27,000 lines) are functions from text to facts. `main.rs` is,
from line 4401 on, the self-check: 10,000 lines of `demo_` functions that assert
on the rest. The tools of `mcp.rs` beside the four modelled ones filter, rank and
format one immutable snapshot. These have no state, no concurrency and no failure
beyond an early return, and a model of them would repeat the code; the models
take a scanner's result (definitions and calls of a file) and a snapshot as
input. Text search, clustering, embedding and layout compute with floating-point
numbers, which neither tool does. Importers decode external formats; what they
write reaches the graph by the mutations that are modelled. `parallel.rs` shares
nothing between its threads, and contracts match lists of strings.

What would come next: `run_watch`, the folds of `Registry` inside a running process
whose graph compacts, with the links of the language server; the calls of
`<module>` across a restart; two operators of the token file at once.
