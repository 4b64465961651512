# PDRS and FinSpace in TLA+

PDRS (`src/pdrs`) compiles a schema, a rooted acyclic graph of terminal, choice
and range nodes, into tables that turn every word of the schema into an integer
rank and back. FinSpace (`finspace/src/finspace`) compiles conditional field
definitions into such a graph and runs user functions over ranks with a
checkpoint. This directory holds TLA+ modules translated from that code, the
TLC configurations that check them on small instances, and proofs for every
value of the constants that TLAPS checks.

Paths below are relative to the repository; line numbers are those of the
commit the modules were written against.

## 1. Inventory

| part | state it keeps | operations | hard behaviour |
|---|---|---|---|
| compiled schema, `src/pdrs/core.py` 56-229 | nodes; work lists of the graph passes; `_counts`, `_depths`, `_choice_lookup`, `_choice_ends` | the constructor: parse, target check, reachability, Kahn's order, counting, indexing | graphs with shared nodes and parallel edges; cyclic input; limits; a table used before it is filled |
| rank and unrank, `core.py` 255-322 | none between calls; a walk has a node, a position, a number | `rank`, `unrank` | two algorithms that must be inverse; boundaries of blocks |
| derived operations, `core.py` 324-382 | none | `sample`, `enumerate_values`, `partition`, `trace`, `encode_rank`, `decode_rank` | floor division at interval bounds, payload widths |
| domain cipher, `src/pdrs/crypto.py` | keys derived once | `encrypt_rank`, `decrypt_rank`, `encrypt`, `decrypt` | Feistel inverse, cycle walking must end and be undone |
| FinSpace schema, `finspace/schema.py` | fields and conditions | activity, value resolution, relevant context; building, loading, saving | which earlier fields a later one depends on; keys of JSON mappings |
| FinSpace compiler, `finspace/compiler.py` | `memo`, `nodes`, `counter` | recursive `_build` with memoization, dead branch pruning | a memo key that forgets a dependency |
| space, `finspace/space.py` | the compiled schema | `rank`, `unrank` on records, `partition`, `sample`, `sample_stratified`, `condition` | tokens and records must correspond under conditions; strata that are empty or too small |
| runner, `finspace/runner.py` 193-325 | futures dict, source iterator, `completed_before`, counters | `run` | workers finish in any order, exceptions in the middle of a batch, crash and resume |
| checkpoint store, `runner.py` 85-190 | tables `runs` and `tasks` | `ensure_run`, `completed_ranks`, `record`, `results`, `close` | commit granularity, power loss under `synchronous=NORMAL`, retries over old rows, processes that start one run id together |
| native engine, `native/c`, and its harness `scripts/native_evidence.py` | schema arrays, marks and counts of a recursion | load, count, rank, unrank, `verify`; export and comparison | 64-bit overflow, duplicate names and labels, cycles |
| fuzzing sources, `src/pdrs/fuzzing.py` | candidates, planned ranks, the value mutations start from, counters | four sources under one budget; overlap of workers | random draws, an order that depends on the hash seed, what is counted where |
| generators, `src/pdrs/generators.py` and `run_phase1_9.py` 84-117 | a counter and a dict shared by recursive calls | build a document | names that must not collide, nodes that nothing leads to |
| baselines, `src/pdrs/baselines.py` | none | fixed positions, local codes, wire bytes | what an encoding must be able to tell apart |
| second paper's engine, `paper/arxiv_v2/src` | nodes, counts, tables; a unique table | constructor, rank, unrank, lower, decision diagram | normalisation, fields that repeat on some paths only |
| selection and allocation, `pdrs_v2.py` 339-375, `run_phase1_9.py` 261-297 and 342-355 | the ranks drawn so far | five selection methods, five policies | uniformity, overlaps, remainders, more workers than ranks |
| evolution and audits, `scripts/run_full_experiments.py`, `scripts/verify_theorems.py` | counters | compare two versions; round trips | ranks that move; what a verdict may conclude |
| export, `finspace/cli.py` | a file that is being written | `export` | rows of different shapes, errors half way |
| other commands, adapters, templates, other paper and benchmark code | - | - | conversions and measurements around the parts above |

How they interact: FinSpace's compiler produces the document that
`CompiledSchema` validates and counts; `Space` translates records to token
sequences and calls `rank`/`unrank`; the runner draws ranks from an iterable,
calls `Space.unrank` on the main thread, hands the record to a pool, and writes
each result to the store from the main thread. A later run reads the completed
ranks of the store once, before its first rank. The cipher permutes ranks. The
native engines load the same graphs from a text form.

What makes each correct: the constructor accepts exactly the closed, connected,
acyclic graphs within the limits, and its tables lay the alternatives of each
node next to each other without gap or overlap; rank and unrank are inverse and
stay within the tables; partitions cover the domain once; a compiled FinSpace
graph has exactly the words of the unmemoized enumeration; a run never gets
ahead of its capacity, loses nothing it has acknowledged, never repeats what is
stored as completed and eventually completes everything.

## 2. Modules

| module | models |
|---|---|
| `PdrsSchema` | node forms, edges, prefix sums, and `IsCompiled`, the interface between the constructor and the walks |
| `CompiledSchema`, `CompiledSchema_proofs` | the constructor, one iteration of each of its loops per step; theorems |
| `RankUnrank`, `RankUnrank_proofs` | a call of one operation and then of the other on its answer, one node per step; theorems |
| `NumberLemmas` | facts about naturals, quotients, powers and maxima that several proofs cite |
| `Checkpoint` | the rows of the store as a sequence of commits, and what `ensure_run` and `completed_ranks` read from it |
| `Runner` | `Runner.run` with its pool, and what may go wrong around it |
| `Campaign` | what resuming promises, with no runs, pools or files |
| `RunnerCampaign`, `Runner_proofs` | the mapping of `Runner` to `Campaign`; theorems about both |
| `Partition`, `Partition_proofs` | independent workers that cut a space into intervals and batches, and theorems about them |
| `Widths`, `Payload` | powers and bit lengths; `encode_rank` and `decode_rank` (theorems in `Partition_proofs`) |
| `FinSchema` | FinSpace fields, conditions and schemas; records to tokens and back |
| `SchemaCompiler`, `SchemaCompiler_proofs` | `SchemaCompiler._build`, call by call, and the plain enumeration it is compared with; theorems |
| `DomainCipher`, `DomainCipher_proofs` | the Feistel network, cycle walking and tags, round by round; theorems |
| `SharedCheckpoint`, `SharedCheckpoint_proofs` | processes on one store, statement by statement; theorems |
| `FieldForms` | the forms of a field and of a condition, and the constructors that programs call |
| `SchemaCodec` | constructing, loading and saving FinSpace schemas (theorems in `SchemaCompiler_proofs`) |
| `Stratified` | `condition` and `sample_stratified`, stratum by stratum (theorems in `SchemaCompiler_proofs`) |
| `Export` | `finspace export`, row by row (theorems in `Partition_proofs`) |
| `NativeCount` | the C engine in words of a few bits: reading a file and counting its words (theorem in `CompiledSchema_proofs`) |
| `NativeEngine` | `NativeCount` with rank, unrank, the self-test and the comparison around the engine |
| `FieldCheck` | the field check of the second paper's engine (theorem in `CompiledSchema_proofs`) |
| `PdrsV2` | `FieldCheck` with the other passes of the constructor of the second paper's engine, its operations, and the decision diagram |
| `Allocation` | selection methods and allocation policies, draw by draw (theorems in `Partition_proofs`) |
| `SchemaWords` | the words of a schema in order, for the modules around the engine |
| `Fuzzing`, `Baselines`, `Generators` | the sources and their loop; the reference encodings; the programs that write schemas |
| `Evolution`, `Audits` | edits of a schema and the ranks that survive them; programs that check by running (theorems of `Audits` in `RankUnrank_proofs`) |
| `MC...` | constants for TLC, and reference definitions where a property needs one |
| `MCEvidence`, `MCFinSpace` | one run each for the smaller machines: `part` chooses the machine, and the machines' variables are laid over `s1`, `s2`, ... |

### The compiled schema

`CompiledSchema` has a program counter `pc` for the pass the constructor is in
and one variable for each work list of the source: `pending` and `reachable`
(158-165), `indegree`, `queue` and `topological` (172-184), `postorder` and
`position` (188-215), and the tables. `Parse` abstracts JSON and `str()`: a raw
node is one of the three forms or malformed. `Visit`, `TakeReady`,
`ReleaseEdge` and `CountNode` are one round of their loops. A `SchemaError` is
the end state `rejected` with the reason in `verdict`. `CheckReachable` chooses
any order of the initial queue where the source sorts it, which covers the
sorted one. A count that is looked up before it is there would be a `KeyError`,
and an error of TLC: `compile` shows that it does not happen. The limits are an
input like the document (`Calls`), since a caller gives both.

`Tiled` (in `PdrsSchema`) is what the walks rely on: for a choice node the
offset of the first branch is 0, each end is the offset plus the count of the
target, each next offset is that end, and the last end is the count of the
node; for a range node the count is width times block; depths decrease along
edges. `IsCompiled` adds that every number is there. `ReadyIsCompiled` says that the
constructor establishes it, and `RankUnrank` assumes it of its constant `Schemas`.

### Rank and unrank

A state of `RankUnrank` holds a schema, the operation called first, and the
walk: `node`, `tokens`, `position`, `number` (the sum in rank, the remainder in
unrank). `CallUnrank` and `CallRank` start the first call with any input,
`CallBack` passes the answer to the other operation. An exception ends in
`raised` (the `SchemaError`s) or in `assertion` (the `AssertionError`s of
304, 309 and 320). Tokens carry their Python type, since rank tells `str`, `int`
and `bool` apart. `trail` is a history variable used by the proofs.

### The runner

`Checkpoint` represents the file by the sequence of its commits: the row of
the run first, then one row per `record`. The upsert makes the last row of a
rank the one that counts (`StatusOf`). `synced` is how many commits no loss of
power can take back; it grows when the store is closed and whenever SQLite
chooses to copy its log.

`Runner` follows the main thread through `_parallel` and `run` (`phase`):

| phase | code |
|---|---|
| `fill` | the first `submit_one` calls, 244-246 |
| `wait` | `while futures` and `wait`, 247-248 |
| `batch` | `for future in done`, 249-251: any future of the set is next |
| `record` | the body of the loop in `run`, 303-311 |
| `refill` | `submit_one` after a result, 252 |
| `unwinding` | an exception inside the generator leaves the executor's `with` block, which waits for the futures it holds |
| `returned`, `raised`, `off` | the run is over, or its process is dead |

`Drawn` is the generator `pending`: it counts skipped ranks as submitted and
stops at the first rank to execute. `Finish` is a worker; the pool starts
futures in the order of submission, at most `Crew` at a time. An execution
completes, fails, or completes with a value that is not JSON. `BreakPool` is
the death of a worker process, `Crash` that of the interpreter, `PowerLoss`
that of the machine. The sequential backend takes the same steps with room for
one rank. Futures that are in flight when `run` raises from its own loop go on
to their end and are forgotten.

`Campaign` is the promise: a rank is claimed by one worker at a time and never
again once stored as completed; completions are only lost to a loss of power and
not even then once they are safe. `RunnerCampaign` maps the runner to it.

### Partitions and payloads

In `Partition` every worker computes its interval from its own number
(`PartOf`), cuts it into batches of a size of its own (`BatchOf`) and enumerates
them. `Divide`, `TakeBatch`, `Yield`, `EndBatch` and `EndPart` are the steps of
that program; `Die` ends a worker at any point between, and its successor starts
from the interval again. `seen` is what a worker has ever yielded, dead
predecessors included. The same formula is in `core.py` 335-340 and `space.py`
200-207; `Cut` is its floor division.

`Payload` encodes a rank or receives any payload, decodes it, and encodes what
it has decoded. The number of bits of a byte is a constant so that several
bytes are needed for small counts. `to_bytes` and `from_bytes` are modelled by
what they compute, the overflow error included.

### The FinSpace compiler

`FinSchema` has the operators of `schema.py`. A value stands for its canonical
JSON text, which is what the code compares. A field has `values`, or
`dependsOn` with `cases` and a `default`; `when` is a set of conditions.
`TokensFromRecord` and `RecordFromTokens` are `space.py` 91-135; `TakeField` and
`TakeToken` are one round of their loops, and `Taken` and `Read` what the loops
have after each number of fields. That no list has a value twice, which the
constructors of schema.py check, is an assumption on the inputs
(`InputsAssumption`).

`SchemaCompiler` makes the recursion explicit: `phase` is `call` when `_build`
is entered with `arg`, `loop` when the topmost frame of `stack` is in its loop
over values, `return` when a call has returned `answer`. Each branch of `_build`
is an action: `CallEnd`, `CallKnown` (memo hit), `CallInactive` with
`PassAnswer`, `CallUnresolved` (the exception of `resolve_values`), `CallDead`,
`CallField` with `SkipValue`, `TryValue`, `TakeAnswer`, and `CloseDead` or
`CloseNode`. The memo, the nodes and the counter survive from one call to the
next, so an entry made in one context is used in another; `CompilesExactly`
says that the document has the words of the plain enumeration all the same, and
that it is one the constructor of `CompiledSchema` accepts.

### The domain cipher

A behaviour of `DomainCipher` is a call of `encrypt_rank` or `decrypt_rank` with
any number and the opposite call on its answer. `Split`, `Round` and `EndPass`
are one pass: halves, one round, and the test that ends the cycle walk. The
HMAC is a constant function for each tweak and round (`table`). `Seal` and
`Open` are `encrypt` and `decrypt` of a ciphertext whose value or tweak may have
been mixed up with that of another; ranks and values are the same here, since
`RankUnrank` relates them. A tag is the pair it is computed from, which assumes
that tags of different pairs differ. `trail` is a history variable: the halves
before each round of the first call, taken away one by one on the way back.

### Two processes on one checkpoint

`SharedCheckpoint` splits `ensure_run` at its statements: `Select` looks for
the row (127-130), `Insert` writes it (131-137) and `ReadCompleted` reads the
rows of tasks, with steps of the other processes between. SQLite serialises the
statements; a second row of one run id violates the primary key, so the later
`Insert` raises. `Stop` is a lock that is not had in time, or the death of the
process. `RunHasOneSpace` says that nevertheless all rows of a run id are of the
space that got it first, that a process past `ensure_run` has this space, and that
one that returns leaves an outcome for every rank. What two processes of the same
space may do is execute a rank twice: each reads the completed ranks once.

### FinSpace around the compiler

`SchemaCodec` distinguishes a number, a truth value and a text of one spelling,
as `_unique` does. `FieldFromDict` reads `when` first, takes a field without
`depends_on` for one with values (a list or a range) and any other for one with cases,
which are a mapping or a list. `Json` turns the keys of a mapping into text,
which is why `to_dict` writes cases as a list. `Build` is `__post_init__`, after a
file has been read or a program has called the constructors. `SavedIsSame` says
that a schema which is saved and loaded again resolves to the same values in every
context.

`Stratified` follows `sample_stratified`: `Begin` shuffles the values and
allocates, `Condition` builds the space of one stratum, `Sample` draws from it,
`Finish` returns what was drawn; the order that the last shuffle gives it is
left out, and `output` keeps one set of records for each stratum. A stratum
without records raises in `Condition`, one that is too small in `Sample`. The
records of a conditioned space are those the compiler keeps, field after field
(`Compiled`): `SampledRecordsAreRanked` proves that these are the records that `rank`
accepts, for every schema, and `RecordsMatchWords` that those are the records of the
words of the compiled graph.

`Export` keeps the file as it is on disk, `Close` included when an exception
leaves the `with` block; `Fail` is the handler of `main`. A line has the values of its
record. A cell has only the text of its value (`Text`): null, empty text and a field that
is absent are one empty cell, and 1 and "1" look alike. `ExportIsComplete` therefore
asks of a CSV file what it can hold, the text of every value that is not written as an
empty cell.

### The native engine

`NativeCount` has machine words of `Bits` bits. `Load` reads the lines and resolves the
targets; `Call`, `Descend`, `Take` and `Close` are `compute_count` with its stack, `CheckedAdd` and `CheckedMul` its
arithmetic. A file need not come from the exporter: names and labels may repeat.
`NativeEngine` extends it with what the engine does after counting: `Verify` is `command_verify`; `Compare` draws the ranks that
`deterministic_ranks` may choose and compares with the words of the reference.
`CountsNeverWrap` says that the counts of a file that is loaded are the exact
ones (`Exact`, a recursive function of unbounded integers), and that a file is refused for
a reason only: a line that is not accepted, a cycle, a node that is not reached, an exact
count that is no machine word, a path that is too long, or a line of more than `MaxTokens`
parts. The last refuses a sound file: `split_tabs` stops at 8192 parts (lines 89-100), so that
a choice with 4094 branches or more does not have the number of parts that line 265 asks
for (`Split`, `TooLong`). A signed difference that overflows has no defined value in C; the model
takes what a subtraction instruction yields, as the builds do. `ConformanceIsTrue`
says that a report without failures means that the two engines agree on what was
compared, and that the self-test fails exactly for files in which a node has two
branches of one label, which the loader does not refuse.

### The second paper

`PdrsV2` has one action per pass of its constructor. The field check is `FieldCheck`,
which it extends: `VisitField` is one round of its worklist, and a node is looked at once
for each set of fields that may come before it. `Nfc` is a constant function, under which names, labels and
fields may become equal. `RankOf`, `Unrank` and `Lower` are operators, the empty set
being an exception. `CompileDiagram` is the recursion of `mdd_baseline.py` with
its unique table.

The oracle (`NaiveEnumerate`) and the diagram read the document as it was written
(`Raw`), not the nodes of the constructor: a name is found only as it is spelt, and labels and
fields of two spellings stay apart. They raise (the empty set) for a name that is
missing, for a malformed node and for nodes that lead back to themselves, all of which
an accepted document can have, since the last of two nodes whose names become equal
replaces the first. `RecordsIdentifyWords` compares the engine with the words of
the document in normal form (`WrittenWords`), and the oracle with the engine where no
two names become equal: there it raises exactly when a name is not spelt as it is declared,
and otherwise agrees word by word, up to the spelling of labels. `DiagramIsReduced` compares the
diagram with the oracle and with the tree of the written document. Python's
own limit of recursion, which a deep document meets in both, is left out.

`Allocation` is a machine for one method or one policy. A draw is any number the
generator can return, so `UniformSample` can count: for each sample, the draws of
Floyd's loop that lead to it are as many as for any other. `Hash` is one rank of the
loop that assigns ranks by a digest, which may be any worker; the other policies
are one step each.

### Experiments

`Fuzzing` follows one source through its budgeted loop. `Account` is the loop of
`_run_values`, over any values the source may return; `DepthCandidates` are the
tokens of a depth in any order of first occurrence the hash seed allows.
`SourcesAreFair` relates the sources: each proposes what its words allow, the one
over ranks never the same twice, workers over intervals never what another does.
`Generators` has the four loops as functions and the recursions as machines
with a stack. `Baselines` is the loop over depths; the indices of a sample are floors of multiples of a
floating step, so `SampleIndices` allows the one below where a multiple is whole (counts
beyond 2^52, where a step loses more, are not modelled). `Evolution` applies one edit and
counts the ranks that name the same object before and after. `Audits` takes any
two tables for `rank` and `unrank`, right or wrong, and asks what the verdict of
the audit says about them.

## 3. Runs

The machines stop at a final state by design (the constructor ends, calls end,
the client stops when it has nothing left to do), so deadlock is not checked.

| run | question | bounds |
|---|---|---|
| `compile` | are exactly the good documents accepted, are the limits exact, does the constructor end; counts, depths and tables against the set of words | all maps from three names to 23 forms of nodes, malformed ones, missing targets, self loops and cycles included, under limits of 2 bits and depth 1 (exceeded and met) and under a limit of two nodes; four nodes with three-way choices, repeated targets, edges that skip levels and cycles through all nodes, whose ranges just meet their limit |
| `rank_unrank` | round trips both ways, acceptance against the set of words, no assertion | all acyclic four-node graphs of a family with one-way and three-way choices, ranges of widths 1 and 3 with negative starts; indices -1..28, all token sequences up to length 3 over seven tokens |
| `runner_campaign` | does a sequence of resumed runs implement the campaign, is the summary true, is everything completed in the end | three ranks in two orders, two spaces, capacity and workers 2, sequential and process backends, one failure (an exception or a result that is not JSON) and one crash; any number of runs |
| `runner_any` | laziness, accounting and termination for any arguments | lists with repeated and out-of-range ranks, limits, both backends, with and without checkpoint and resume, on a store with up to three commits of earlier runs |
| `runner_fail_fast` | are completed ranks stored | one run with `fail_fast`; violated, see section 5 |
| `partition` | is each rank done by exactly one worker, whatever the sizes | one to seven ranks, one to three workers, batches of 1, 2 and 4, one death |
| `cipher` | do passes and rounds undo each other, does cycle walking end | counts 1-5, 7, 11, 16: networks of two and four bits, full ones and ones of which most values are outside the domain; six rounds, twelve families of round functions, two tweaks |
| `fin_compile` | is the memoized graph the plain one, does the engine accept it, do records and words correspond, does conditioning keep tokens | 100 four-field schemas from conditions and dependencies on near and far fields, inactive ones included, four invalid ones; seven choices of fixed values, one of an unknown name |
| `v2_schema` | is the field check exact over all paths, do records identify words, do the oracle and the diagram, which read the raw document, agree with it, and is the diagram minimal | documents of four and five nodes with two spellings of a name, a label and a field; names that are spelt otherwise than declared, declared twice, replaced nodes that are malformed or on a cycle; 16 words, depth 3, width 3 as limits, met and exceeded |
| `evidence` | one question for each part around the compiled schema, below | below |
| `finspace` | one question for each part of FinSpace that meets in files and calls, below | below |
| `finspace_conditioned` | can records of a conditioned space be ranked in its parent | the constants of `finspace`; violated, see section 5 |

| part of `evidence` | question | bounds |
|---|---|---|
| `Allocation` | is the sample uniform, does each method keep its budget, does each policy assign each rank once | sizes 1, 4, 5 and 6, prime and composite, budgets 0 to 4, one to three workers, all draws |
| `Fuzzing` | is the report true, is the comparison fair | four graphs with shared nodes, unequal depths, a wide range and a terminal root; budgets to 6, of which the sources that propose take 3; bugs at no rank or at two |
| `Generators` | does the engine accept what they write, does it have the promised words | arguments that are refused and small good ones; spans over leap years and the year 1900; trees of depth 3 |
| `Baselines` | do local codes and wire bytes tell all words apart, is the rank never wider than what it is compared with | 140 graphs with terminals at several depths; sample limits below and above the count |
| `Payload` | does each rank fit, come back, and have only one payload | bytes of two bits; counts 1-18 and 63-65, so one to four bytes, on both sides of each power of the radix; all payloads of up to four bytes |
| `Evolution` | which ranks survive an edit | 160 graphs of four nodes, six edits |
| `Audits` | what does a verdict say | all pairs of tables over up to three ranks and four values; the whole domain up to size 2, a sample of 2 beyond |
| `NativeCount`, `NativeEngine` | do counts never wrap, do reports tell the truth | files of up to five lines, words of 4 bits: products and sums on both sides of 16, ranges up to the whole word; depth limit 3; lines of at most 12 parts, so three branches are accepted and four are not |

| part of `finspace` | question | bounds |
|---|---|---|
| `SchemaCodec` | does a saved schema mean the same | two fields, the second in every form, right and wrong; three values that print alike |
| `Stratified` | is the allocation met, do exactly the right calls raise | three fields over two or three values, empty strata included; samples from -1 to 7 |
| `Export` | is what is reported in the file | eight spaces of one to four records whose fields come and go, with null, empty text and values that print alike; intervals inside, across and outside |
| `SharedCheckpoint` | does a run id keep its space | two processes, two spaces, two ranks, three starts |

The parts of one run share nothing but its states: no step of one leads into
another, so a property of a part holds in the run as it would on its own.

Four fields are enough for the compiler: the last field may depend on one that
the third does not look at, so that a memo key must carry a name past a field
that ignores it, and a context in which a field is inactive meets one in which
it has a value. Two values per field give live and dead branches side by side.

Three or four nodes are enough for the constructor and the walks because each
step looks at one node and its targets: shared targets, parallel edges, edges
that skip a level and cycles of every length up to three occur. A capacity of
two with three ranks makes the fill loop stop at capacity, the refill loop run
dry, and a done set have one or two elements. Further bounds (`MaxRows`,
`MaxFailures`, `MaxCrashes`) are guards of `Start`, `Finish` and the faults: no run
starts on a store with more than `MaxRows` commits. In `runner_campaign` it never binds:
with one row of the run, one completion of each rank and one failure no store has
more than five.

A machine word of four bits is enough for the native engine since its checks
compare with the largest word only. Draws of generators are explored exhaustively,
so small domains suffice to count them. The experiments run with schemas on which
each of their branches is taken; what they compute depends on counts, depths and
shared nodes, all of which occur.

Fairness: the constructor (`compile`) runs in one thread to its end, and so
does a call of the cipher (`cipher`), hence weak fairness of their steps. For the
runner, the main thread is not suspended (`WF(MainThread)`) and user functions
return (`WF(Finish)`); a function that never returns keeps `run` waiting, in the
code as well. `EventuallyAll` adds a client that repeats the command for the whole
campaign in its space, whatever other runs come between (`FairCampaign`: strong
fairness, since runs of the other client may keep the store busy); it is about
functions that fail finitely often, which `MaxFailures` says. All other runs check safety only.

## 4. Theorems

`RankUnrank_proofs` proves, for every set of compiled schemas that satisfies
`IsCompiled`, every set of indices and of token sequences:

- `TypeCorrect`, `AssertionsHold`, `RanksAreIndices` (`RankInDomain`: an answer
  of rank is an index that unrank accepts), `WalksAreBounded` (`DepthBounds`):
  from the inductive invariant `SafeInv`. Its strengthening is `InBounds`: while
  unrank walks, the remainder is below the count of the node it is at; while rank
  walks, the sum leaves room for the count of the node. Without it the
  remainder of a step cannot be known to be an index of the next node. The last
  two are proved only: a run of `RankInDomain` would repeat what `RoundTrip`
  shows.
- `RoundTrips`: what the second call returns is the argument of the first, and
  it does not raise. `TripInv` says that during the first call the trail has an
  edge (`Leads`) for every token, with the distance of the block it leads to, and
  that the second call is at the node of the trail it has reached with the
  number that the trail prescribes. Two lemmas carry the step: `LeadsOnce`, a
  token leads to one place, needed by rank on the way back; and `LeadsApart`,
  the blocks of two tokens of a node have no index in common, needed by unrank on
  the way back.

- `AcceptsWords` (`AcceptsExactly`): rank returns exactly for the words of the
  schema, unrank exactly for the indices below its count, and with one of those
  words. The reference is `IsWord`: some path from the root to a terminal has an
  edge for each token (`Spells`). It is not enough that a raised call has refused
  its argument at some node; `EndInv` says that the walk so far has followed the
  only path that the tokens allow (`SameWalk`), so that no other one spells the word.
- `CountsAreExact`: the words that can be read from a node are finite, and as many
  as the node counts. `InnerLists` builds a list without repetition of the words
  of a node from those of its targets, one block for each token, and `AllListed`
  takes the least deep node without one. `LeadsAll` (each index lies in the block of
  some token) and `WordsUnfold` carry it.

- `VerdictsHold` (`VerdictsAreTrue` of `Audits`), for every size of the domain
  (`Domains`, naturals), every two functions, right or wrong, and every sample. The invariant
  is that some set of ranks has been looked at (`Looked`): it is disjoint from what is
  left and with it makes the domain if that is audited as a whole; the counter is its
  size; what was collected is its image; and failures are zero only while all of it came
  back. `CollectedApart`: ranks that come back are collected apart, so sizes agree;
  `SetsAgree`: a comparison of sets that fails has a wrong rank.

The lemmas below the theorems about walks are about the tables: `BlocksInOrder`, `BranchUnique`,
`BlockInside` (choice blocks are in order, disjoint and inside the node),
`BisectFacts` (bisect_right finds the branch that holds an index) and
`DivModFacts` and `BlockFacts` for ranges. Where an induction over positions is
needed the least counterexample is taken (`LeastNat`).

`CompiledSchema_proofs` proves, for every document and all limits
(`CallsAssumption`: a finite document, limits that are naturals):

- `GraphChecksAreExact` (`AcceptsExactlyDags`): a run that ends has found every
  parse error, missing target, unreachable node and cycle, and nothing else.
- `CompiledIsUsable` (`ReadyIsCompiled`): the tables it leaves satisfy `IsCompiled`.
  This is `SchemasAssumption` of `RankUnrank`, word for word, so that the theorems
  about the walks hold of whatever the constructor accepts.

Both follow from `ConstructorCorrect`, the inductive invariant `IInv`, which has one
part for each pass. `ReachInv`: what is visited or pending is in every closed set
that holds the root. `KahnInv`: the indegree of a name is the number of its incoming
edges that are not released yet, it is zero exactly for what is taken or queued, no
name is taken twice, and every name is taken after the sources of its edges. From
it, names that are left when the queue is empty contain a cycle (`LeftIsCyclic`), and
an order of all names excludes one (`OrderedIsAcyclic`). `PostorderInv`: targets come
first. `CountInv`: what is counted is what lies before the position, and its
numbers solve the equations of the counting pass; hence no target is looked up
before it is counted. `PrefixSumFacts` says what the recursive function `PrefixSum`
computes.

- `CountsAndDepths` (`CountsWords`): the count of a name is the number of its words
  and its depth the length of the longest.
- `LimitsHold` (`LimitsAreExact`): a refusal for bits or depth has a name to show,
  and no name beyond a limit is counted.

Both follow from `WordInv`, which holds at every step of the counting pass and says
that what is counted is `Measured`. The step (`MeasureName`) needs that the words of a
name are those of its steps, each token once (`StepList`), so that they are a
disjoint union whose members add up as `PrefixSum` adds them (`DisjointUnion`).
`Words` lists words up to as many tokens as there are names; that none is longer is
the part of `WordInv` that bounds a depth by the position in the postorder, without
which an equation between the words of a name and of its targets would fail.

`Runner_proofs` proves, for every list of ranks, crew, capacity and store, every
outcome of the user function, and any number of crashes and losses of power
(`RunnerAssumption`, and `CheckpointAssumption`: the absence of a space is not one):

- `KeepsToCapacity` (`Lazy`) and `ReturnAccountsForAll` (`AllAccounted`), from
  `FlowInv`: each future has the position of its rank in the list as its id, no two
  have the same, what is drawn and not settled is in the futures dict or just
  yielded, and the futures only run out with the list.
- `SummarySaysWhatIsStored` (`SummaryIsTrue`), from `StoreInv` in addition: the
  counters count positions of the list, and each rank that occurs once has in the
  store the status its position was counted under, for runs that resume and for
  those that do not, on any store that earlier runs have left.
- `RunsMakeACampaign` (`ImplementsCampaign`): under `Resuming` (the runs keep to
  the checkpoint, resume, and are given distinct ranks) every behaviour of the
  runner is one of `Campaign`. `CampaignInv` says that a rank completed in the
  store was so before the run or is at a position that is done with; therefore a
  rank in hand is not completed, and a claim is a claim of the campaign
  (`NotCompleted`). Without `Resuming` it is false, since a run that does not resume
  executes completed ranks again.

`SharedCheckpoint_proofs` proves `KeepsItsSpace` (`RunHasOneSpace`) for any processes
and spaces. The invariant (`Sound` of every process) is about what a process
knows: past `ensure_run` its space is that of the run row; what it has read as completed
is stored; what it has executed is stored, but for the rank it is about to record.
`OthersSound` shows that rows of other processes leave this alone.

`Partition_proofs` proves, for every set of counts, crews and batch sizes and any
number of deaths, `Disjoint`, `Complete`, `Even`, `Seamless` and
`PartitionTypes`. The inductive invariant is `Sound` of every worker: its
interval, once computed, is `PartOf` of its number, what it has yielded lies
inside, and all ranks of the interval up to where it is have been yielded; this
also has to hold while a successor yields again what a dead worker had yielded.
`Disjoint` then needs that cuts do not decrease (`CutFacts`, from `FloorMono`),
`Complete` that every rank lies between two neighbouring cuts (`CutsCover`, by
the first cut above it), and `Even` that floors of equal steps differ by one at
most (`FloorSpread`). `Seamless` proves `Joined` (batches join without a gap) and
`NeverRefused`. `Even` proves `Balanced`, which no run repeats.

It also has the three other things that are done with the ranks of a space.

- `PayloadsAreUnique` (`OnePayloadEach`), for bytes of one bit or more, counts of one or
  more and payloads of every length. `WidthFits`: the width that is computed from the bits of the
  last rank holds every rank, by the laws of powers in `NumberLemmas` (`PowerMono`,
  `PowerOfPower`, `BitLengthFacts`). `NumberReturns` and `PayloadReturns`: along a
  payload, the number of each prefix is the quotient by the power that is left, since
  floors of floors are floors (`FloorTwice`); so digits and number determine each other.
- `ExportsAreComplete` (`ExportIsComplete`), for every space, interval and format,
  whatever the values of the records. `ExportAssumption` says that a command has at most
  one `--stop` and one `--limit` and that these are integers. The invariant
  (`IsFile`) is that the file holds the lines of the ranks from `start` up to `next`, each of
  which fits the header, and `ReadsBack` that such a line reads as what it keeps of its row.
- `RanksAreAssignedOnce` (`RanksOnce` of `Allocation`), for every schema, budget, window
  and number of workers. `AllocationAssumption` says what the constructor of the second
  paper's engine guarantees (`MeasuredSchema`): there is a record, and the intervals
  of the root's branches divide the ranks. For the policies, `Once` says that each
  rank below some number stands at exactly one position of one list. It holds of a list
  of all ranks that is cut at points that do not decrease (`OnceCut`: contiguous and
  central), stays true under one more rank at the end of any list (`OnceMore`: hash),
  and of the strides because quotient and remainder are unique (`StridedOnce`). For the
  permuted policy, a multiplier whose only common divisor with the count is one has
  different products for different ranks (`Coprime`: the least positive number whose
  product is a multiple of the count divides every other such number), and an injection of a
  finite set into itself leaves nothing out (`AffineListing`). For the methods, the
  invariant `AllocInv` has one part for each phase. `Sampled`: Floyd's set has as many
  members as draws were made, all below the rank that the next draw may add, so that
  a repeated candidate is replaced by one that is new (`FloydRound`). `Merging`: the
  boundary ranks and those still to be considered are enough for the budget.
  `Picking`: the output and the candidates are disjoint lists without a repetition, whose
  lengths add up to the sample. `SharesAddUp`: the shares of the branches make the budget.

`DomainCipher_proofs` proves, for every domain, every round function, every
even number of rounds and every XOR that stays within a half and undoes itself,
`CipherTypes`, `CipherRoundTrip` and `CipherAccepts`. The invariant (`Walks`)
says that the trail is a path: each entry leads to the next by one round, or by
a join, a test that fails and a split at the end of a pass; and that the second
call is at the end of what is left of the trail. From this the second call takes
the passes of the first backwards, and its intermediate values are outside the
domain because those of the first were. `HalfAssumption` (two halves hold the
domain, XOR is an involution) is a property of `HalfDomain` and `^` that TLC
evaluates for the counts of the run. That the walk comes back to the domain at
all (`Returns`), before the assertions of lines 88 and 101, needs the cycle
structure of a permutation of a finite set, a counting argument by induction,
and is left to TLC. `CipherAccepts` proves `AnswerAccepted`, which no run repeats.

`SchemaCompiler_proofs` proves, for every list of fields (in any order of names,
references and conditions, valid or not) and every choice of fixed values:

- `CompilesForAll` (`CompilesExactly`): what `_build` returns has the words of the
  plain enumeration `Plain`; an empty space and an unresolved dependency are reported
  just when they are there; and the document is one the engine accepts.
- `SharesStates` (`NodesShared`): no more choice nodes than remembered contexts with
  a live suffix.

The inductive invariant (`Good`, a solution `L` of the equations of `Language` in its
hand) has four parts. `Graph`: targets of a node have smaller numbers, all branches
lead somewhere, no value occurs twice, and `L` has a word for every node. `Memo`: an
entry is right for the call that made it and so for *every* call with the same key,
because the enumeration from a field on depends on the relevant part of the context
only (`SameFrom`, by induction downwards over the fields); this is where an entry made
in one context is used in another. `Running`: each frame on the stack is the call that
the frame below it waits for, its branches are exactly the live ones of the values it has
tried, with their positions as values, and its key is not in the memo yet, since
the index of an open frame is smaller than that of every call it makes; so the entry
written at its end is new, and every node has an entry of its own. `Used`: every node
is a target of a node or of an open frame, or the answer that is being handed on, so
that nothing is left unconnected.
`L` itself is extended with each node (`Grows`), and at the end it is `Language`.

- `RecordsMatchWords` (`RecordsAreWords`): `unrank` of each word is a record that
  `rank` turns into this word again, and what `rank` accepts is the record of a word.
- `ConditionsExactly` (`Conditioned`): what is fixed leaves exactly the words whose
  records agree with it, with the tokens they have in the parent space.

These two are about the loops of `space.py` and the words of `CompilesForAll`. Going
up the fields, the loop that reads a word is, after each field, in a context in
which the tokens left are a word of the fields left (`ReadAll`). Going down,
what it has read for a field is not changed by later ones, because names differ
(`ReadSettles`); hence the loop that takes the record passes through the same contexts
(`TakesBack`). For a record that is accepted, the tokens taken from any field on are a
word of what is left (`TakenWords`). For conditioning the same downward induction
compares, in the contexts of the parent's word, the words that are left with
and without what is fixed (`WordAgreesStep`).

- `FilesKeepSchemas` (`SavedIsSame`): what `to_dict` writes of an accepted schema is loaded as
  this schema (`FieldReturns`, `SchemaReturns`), and what is loaded has in every context the values
  that the document means (`FieldMeans`), which needs that no two cases are for the same value.
  `CodecAssumption` says that an optional key occurs at most once and that fields are
  records of their dataclass.
- `StratifiedCampaignsAreBalanced` (`StratifiedIsBalanced`). The invariant `StratInv` keeps the
  order of the shuffled values and how many strata are done with (`Halfway`): what is
  left of the values and of the allocations (`Waiting`), and of each stratum done with
  its share, drawn from the records of the space that have its value (`Given`). The records
  of a stratum are these (`Narrowed`, by induction over the fields) when the field was
  free; if it was fixed, those that `rank` accepts are (`MetAccepted`, `AcceptedMet`). Every record has one of the
  values of an unconditional field because names differ (`MetSettles`), so there is a stratum
  in a space with records. `PortionFacts` is about the shares, `PortionsMakeAll` about the sum of
  disjoint sets of these sizes. A refusal is traced to its reason in `StratCondition` (a value
  without records) and `StratSample` (a stratum below its share, a negative number,
  a field that was fixed). The assumption `SampledAssumption` is that schemas are
  those that constructors accept and numbers are integers.
- `SampledRecordsAreRanked`: the records of a space, as `Stratified` makes them, are those that
  `_tokens_from_record` accepts.

`CompiledSchema_proofs` also proves, for every list of lines, every width of the
machine words and all limits of the depth and of the parts of a line, `NativeCountsAreExact` (`CountsNeverWrap`,
for `NativeCount`; the steps of `NativeEngine` that come later leave the counts alone).
The equations that relate the count of a node to those behind it (`Solves`) have at most one
solution on nodes without a cycle (`OneSolution`: a disagreement needs one behind it) and
have one on all of them (`SomeSolution`, by a largest solved set that is closed), so
`Exact` is what its definition says, and what the engine has computed can be compared with it.
The invariant `NativeInv` says of the recursion (`Tree`): the calls on the stack are a path
from the root (`Chain`); the nodes marked 1 are those on the stack; those marked 2 are
closed, have no cycle, and their counts are a positive solution (`Counts`); the total of each call is
the sum over the branches it has taken, or the product with the width as a machine word
(`InCall`); and every node met is in each closed set that holds the root. A node met while
marked 1 then lies on a cycle (`OnCycle`), a stack above the limit is a path that is too
long (`DeepPath`), and a checked sum or product that dies exceeds the exact count of its node
(`StepFits`). A line that `split_tabs` cuts short is not accepted, and one that has all its parts is judged by
them (`LinesFacts`). A width of zero is that of a range over the whole word, whose exact count is
at least the number of words, so a zero total means a count that does not fit (`EndFits`).
`NativeAssumption` says what lines are when they have been cut: of one of three kinds, a choice
with a list of branches and a range with two integers, which the files of the run are.

A last theorem there is `FieldsAreCheckedExactly`, for `FieldCheck` on any nodes whose
targets are declared, with cycles as well: the pass refuses exactly when a path from the
root records one field twice (`FieldsExact`). The invariant `FieldsInv` says that what was
seen or waits is the end of a path with the fields before it (`Reached`), and that while the
pass has not refused, what was seen repeats no field and is followed only by what was seen
or waits, with one more field (`Handled`). A refusal is then the end of a path that repeats
a field (`RepeatFound`). When nothing waits, every node of every path was seen with
exactly the fields before it (`NothingDoubled`, node by node along the path), although most
paths were never walked. `PathFieldsExact` checks for whole behaviours of `PdrsV2` that the pass begins with
declared nodes, states `FieldsExact` for paths as long as there are nodes, and compares with a
recursive definition that enumerates the paths.

Only model-checked: rank, unrank and the comparison of the native engine, the second
paper's engine other than its field check, the modules about experiments other than `Audits` and `Allocation`, and all liveness (`Terminates`,
`Returns`, `RunEnds`, `EventuallyAll`). Liveness is out of the prover's reach, and so
is what the recursive operators of `SchemaWords`, `PdrsV2`, `NativeEngine` and
the modules above them compute. `UniformSample` counts draws, an induction over
sequences that is out of reach as well. That `_build` ends is visible in `fin_compile` (the state graph is finite and has no cycle) but not stated
as a property.

## 5. Findings

`docs/runner.md` line 25 says "Completed ranks are stored in SQLite and skipped
on resume." With `fail_fast=True` they need not be: `runner_fail_fast` shows two
workers finish, one with success and one with failure, both in the same `done`
set; the failure is recorded first, `run` raises at line 311, and the completed
rank, whose result was there, is never recorded. The next run executes it again.
The same loss follows a result that is not JSON, and a rank out of range, while
other futures are in flight. No rank is lost for good: `EventuallyAll` holds.

`finspace/docs/sampling-and-partitioning.md` line 35 says of conditioned spaces:
"Records remain rankable in the parent space." `condition` lets a new value
replace a fixed one (`space.py` 178), so a space of kind `x` conditioned on kind
`y` has records that its parent refuses at line 112; `finspace_conditioned`
shows one. `sample_stratified` ranks its records in the space it was called on,
and raises there when the field of the strata is already fixed.

Some more behaviours are no contradiction of what documents say, but worth knowing.
The fixed-field baseline adds a sentinel at a depth at which a terminal is met
(`baselines.py` 117-130) and none at the deeper positions, at which the words that
ended are absent as well; `BaselinesAreFair` shows that the rank is never wider than
that allocation even so. The columns of a CSV export are the keys of its first
record (`cli.py` 97): a later record with another field makes `writerow` raise, the
file keeps the rows so far and the command ends with status 2; `ExportIsComplete`
shows that such an export is never reported as done. In one that is, null, empty
text and absent fields cannot be told apart. The C engine refuses a sound choice of 4094
branches or more (`pdrs_native.c` 12, 265), which no document names and the Rust
engine, which splits a line into all its parts, does not do. The oracle and the decision
diagram of the second paper read the raw document: where two spellings of a name meet, the
schema is accepted and they raise `KeyError`, and where two spellings of a label or a field
meet, they keep apart what the engine takes for one.

## 6. Not modelled

Names, labels, records given to user functions and error texts are opaque. A
random draw is any value it may return; distributions are only counted where a
property is about them (`UniformSample`). Hashing, the text of JSON, YAML and IR
files, CSV quoting, command lines other than `export`, adapters, batch conversion
and templates are left out: they are conversions and I/O with no state of their
own. The Rust engine is the C engine with `u64::checked_mul` and `checked_add` and without
a limit of the parts of a line; a module for it would repeat `NativeEngine`. Corpora, benchmarks, statistics,
figures, injected defects and the study of real programs measure the parts above and
keep nothing but their results. The `results` query of the store only reads. A negative
`max_in_flight` is outside the model of the runner. `DomainCipher` says nothing
about secrecy.

## 7. Plan

What is left are the walks of the native engine and the second paper's engine. Their
theorems need `UnrankFrom`, `RankFrom` and the words of `PdrsV2` as recursive functions
in place of recursive operators, as `Sums` and `Exact` are in `NativeCount`.

Theorems about a module without a proof module of its own go to that of the
component it belongs to, with the module as a named instance.
