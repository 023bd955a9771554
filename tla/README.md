# nlsqlc: specifications, model checking and proofs

nlsqlc compiles an untrusted S-expression query (Query IR) to parameterised SQL
against a trusted schema and policy.  This directory holds TLA+ modules of its
components, the TLC configurations that check them on small instances, and
proofs, checked by TLAPS, that hold for every value of their constants.

    tlc -workers 2 -config QueryCompiler.cfg MCQueryCompiler
    tlapm QueryCompilerProofs.tla

## 1. The system

| part | source | state it keeps | operations | what is hard | what makes it correct |
|---|---|---|---|---|---|
| schema builder | `src/nlsql.c` 305-387 | table, column and key arrays; `b->schema` | create, add_table, add_column, add_foreign_key, finalize, both destroys | call order, ownership of the schema object, full arrays | names resolve, arrays are kept in bounds, one owner, a finalized schema never changes |
| policy builder | `src/nlsql.c` 390-445 | allow, deny and tenant rules, limits, runtime tenant | create, setters, destroy | full arrays, first-match rules | the rules that were accepted are those the compiler applies |
| query compiler | `src/nlsql.c` 534-1158 | sources, parameter table, SQL buffer, result | `nlsql_compile_ir` | one parameter table across all clauses, tenant predicates for every source, any allocation may be refused | every placeholder is bound to what it means, every tenant source has its predicate, only what the policy allows is read |
| IR parser | `src/nlsql.c` 453-532, 906-937 | nodes, depth, node count | `parse_node`, `nesting_safe`, `clauses_valid` | bounds met inside a recursive descent | every tree is freed, bounds hold |
| compound compiler | `src/nlsql.c` 1162-1439 | two results being merged, an extended scope | `nlsql_compile_set`, `nlsql_compile_cte` | renumbering, release on every error path, array bounds | the merged query means what its parts meant, nothing leaks, the outer query sees only the projection |
| inference, questions | `src/nlsql.c` 1441-1508 | none | `nlsql_compile_inferred`, `nlsql_compile_question` | a callback in the middle of a call | what is inferred is compiled like any text |
| Python SDK | `bindings/python/nlsql.py` | native handles, or a Python schema and policy | the same calls, a second compiler, an optimizer, an asynchronous client | closing while a compilation runs in another thread; two engines that must agree | no handle is used after it is closed; both engines answer alike |
| rate limiter | `tools/server.py` 36-59 | tokens and last time per client | `allow` | a clock that is set back, fractions of tokens | bursts are bounded, refusals are justified |
| HTTP gateway | `tools/server.py` 114-407 | current schema and policy, metrics | one thread per request; reload | handlers race a reload; exceptions with the lock held | no stale schema, no closed handle, every request answered and counted once |
| migration worker | `tools/worker.py` | hash and columns last seen | poll, report, rewrite the schema file | the database changes between two reads; a step fails; restarts | reports are true and complete, the file is what the database was |
| monitor | `tools/monitor.py` | windows of the last records | `record`, `summary` | full windows | windows agree |
| importers | `tools/sqlite_schema_import.py`, `tools/db_introspect.py` | none | one read of a catalogue | torn reads, atomic replacement | the file is what the catalogue was |
| front ends | CLI, REPL, playground, C++ wrapper, examples | none of their own | | | |

Builders and compilers run in the caller's thread and share nothing but the
schema and policy, which are read-only once built.  Every compilation of a text
goes through the parser, and the compound compiler calls the query compiler
twice.  The Python SDK hands a text to the native compiler when the library is
loaded and to its own engine otherwise; its asynchronous client runs compilations
in an executor's threads over handles that `close()` destroys.  The gateway holds
one schema and one policy, replaces both on reload and passes them to the compiler
from many threads.  The worker reads a database and rewrites the schema file, as
the importers do, that the command line and a reload of the gateway read.

## 2. Modules

| module | models | extends or instantiates |
|---|---|---|
| `SchemaRegistry` | what a builder promises: one draft grows, is published once and is then frozen | |
| `SchemaBuilder` | the C builder with its arrays and its pointers | `SchemaRegistry` by a refinement mapping |
| `ParameterTable` | what it means that placeholders are bound by a table | |
| `Compilation` | what a compile call promises its caller | `ParameterTable` |
| `QueryCompiler` | `nlsql_compile_ir` from the request to the released result | `Compilation` by a refinement mapping |
| `CompoundCompiler` | `nlsql_compile_set`, `nlsql_compile_cte` | assumes `Compilation` of its two queries; `Compilation` by a refinement mapping for set operations |
| `RateLimiter` | `TokenBucketRateLimiter.allow` and a clock | |
| `Gateway` | `NLSQLGateway.reload` and the POST endpoints, one thread per request | |
| `MigrationWorker` | `SchemaDriftDetector`, `MigrationWorker` and the importer they call | |
| `SyntaxTree` | syntax trees, the Python engine's reader, its look-up of clauses and the text it makes of a question | |
| `QueryTree` | the Python engine's optimizer and printer | `SyntaxTree` |
| `FallbackEngine` | the Python engine: `_py_compile_ir_engine`, set, CTE and question calls | `QueryTree` |
| `PythonSDK` | the synchronous calls of a program without the native library, the `Query` object and `diff` | `FallbackEngine` |
| `DualEngine` | both engines on one request | extends `QueryCompiler`, instantiates `FallbackEngine` |
| `AsyncClient` | `AsyncNLSQLClient` over native handles: event loop, executor, `close()` | |
| `SchemaFiles` | the tools that write a schema file, how it gets on disk, and its two readers | |
| `QueryParser` | `parse_node`, `nesting_safe`, `clauses_valid`, and the inference and question calls | `SyntaxTree`, whose reader is the reference |
| `MC*` | the values of the constants for TLC | the module of that name |
| `*Proofs` | theorems and proofs; those about `Gateway` and `RateLimiter` are in `ServerProofs`, those about `AsyncClient` and `PythonSDK` in `ClientProofs` | the module of that name, `TLAPS` |

State and actions follow the code.  Where a module abstracts, its header says so:

* **SchemaBuilder.**  One action per API call, in any order and with any
  argument, `NULL` after `finalize` included.  A failed allocation in `create`
  changes nothing and is a stutter.  `crashed` is a process that dereferenced
  `NULL`; `Restart` begins anew.
* **QueryCompiler.**  A request is the parsed query.  Actions are the loops and
  checks of `compile_tree`: the admission checks, one turn of the join loop, the
  column and type checks, one leaf of the expression being emitted, one turn of
  the tenant loop, the limit, the result.  Any step may find the buffer or the
  memory refused.  The SQL text is kept as what is read of it: placeholders in
  order, tenant predicates, the join each ON clause came from, the row limit.
  Expressions are one operator deep, since nesting adds parentheses only;
  `IS NULL`, equality and bare leaves stand for the operators.  When several
  refusals apply to one malformed clause, the order among them is left out.
* **CompoundCompiler.**  A query that compiles is any member of `Answers`, which
  `Compilation` constrains and `QueryCompiler` is shown to keep; whether it
  compiles is open, except that an outer query compiles only if the columns it
  reads from the CTE resolve in the extended scope.  The refusal of a set
  operation's `LIMIT` that does not fit its `snprintf` buffer cannot happen.
* **RateLimiter.**  Tokens are integers in a unit small enough for rate,
  capacity and cost; the code uses floating point.  The clock may be set back,
  as `time.time()` may.  `low`, `high`, `granted`, `full` and `spent` are
  history variables of an observer.
* **Gateway.**  A stamp stands for each content the schema file has had.  A
  policy's content never changes (its path is never read), its object does.
  Schemas and policies are reference-counted objects, closed by `__del__`.
  `Raise` is any exception in a reload; an item of a JSON-RPC batch that raises
  drops the batch.  `Reply` is `_send_json`, which raises when the client has gone:
  the request is in the metrics by then, and `told` and `lost` tell the answers
  that were written from those that were not.  Requests the limiter refuses, malformed bodies, GET
  endpoints and the list of latencies are left out: they touch nothing here.
* **SyntaxTree, QueryTree, FallbackEngine.**  Texts are sequences of tokens; only integers are
  read as numbers.  The SQL is what is read of it, as in `QueryCompiler`.  The two
  engines are modelled each from its own source, so that comparing them says
  something.  That a denied name is searched in the text, also inside other names,
  is kept (`Within`).  The clauses of a window expression are lists.  What the code
  does by recursion are recursive functions here, of the trees over texts and
  integers (`Nested`) up to the nesting that Python's recursion limit admits
  (`MaxNesting`); a text that nests deeper raises `RecursionError`, which the engine
  catches like any exception, and is refused.  What an expression means (`Value` in
  `PythonSDK`) is SQL's: three truth values, `NULL` for a division by zero, division
  towards zero; integers are unbounded there and in the optimizer, and decimals are
  not read.
* **PythonSDK.**  The engine keeps nothing between calls, so texts of other callers
  are compiled while no `Query` object is held.  `diff` raises on a text that
  cannot be read and then answers nothing.
* **AsyncClient.**  A step is what runs at once under the interpreter lock; a
  foreign call releases it, so each constructor's call, each destroy, the clearing
  of each pointer and each read of one in `compile_ir` is a step.  The executor's
  queue, cancellation and `__del__` are modelled as Python's library defines them.
* **SchemaFiles.**  The database rests while it is read (`MigrationWorker` has the
  other case), and a schema fits one buffer: `write_text` empties the file, then
  writes it.  A power loss keeps any content that was not yet synced.  Both readers
  fill a builder's arrays line by line and refuse what does not fit: `MaxTables`,
  `MaxColumns` and `MaxKeys` are the 256, 2048 and 2048 of `nlsql.c` 8-10 and
  `MaxObjects` is `max_schema_objects`, 4096 by default (`nlsql.c` 288).  The gateway
  over a Python schema, which has no bounds, is left out.  No name
  contains the word of a flag, which the gateway looks for in the whole line.
* **QueryParser.**  The recursion of `parse_node` is a stack of open lists; a
  refusal unwinds it one list at a time.  A node carries the tree it stands for
  and the allocations it owns.  Any allocation may be refused.  Bytes
  are tokens, and `max_ir_bytes` counts those.  The compilation of an accepted tree
  is `QueryCompiler`'s: here it ends one way or the other.  The callback is
  external: it fails, or leaves a text of which it reports any length.
* **MigrationWorker.**  Each `PRAGMA` and each read of the importer is a step of
  its own, between which the database may change: of each table the importer reads
  the columns first and the keys after, and raises at a key whose parent it has not
  listed.  It maps no tenant columns here (`worker.py` 91), so its checks of those
  never fire; its refusal of a name it takes for unsafe is among what `Raise` stands
  for.  The file is emptied, then written; `saved` is what the last write that ended
  has put there.  The hash is as good as the names it is made of, i.e. free of
  collisions.  `Raise` is any exception of `run_once`, which `start` catches;
  `Restart` is a new process.

## 3. What TLC checks

| run | bounds | shows |
|---|---|---|
| `SchemaBuilder` | 3 good and 1 bad table names, 2 good and 1 bad column names, arrays of 2, 3 and 2, 4 objects | `SchemaSound`, `OneOwner` in every order of calls; `Implements` the registry, so that a published schema is frozen |
| `QueryCompiler` | 3 tables in a chain of foreign keys, 2 with tenant keys, up to 3 joins, 10 policies, 5 dialects, a table of 2 parameters | `ParametersMatch`, `TenantCoverage`, `JoinsMatchKeysByAlias`, `Authorised`, `KeepsContract`, `CallReturns`; `EnginesAgree` compares with the Python engine on every request the native one accepts |
| `CompoundCompiler` | queries with 0 to 2 parameters used up to three times, a table of 3, CTEs with up to 3 fields | `Rebased`, `Releases`, `ScopeSound`, `KeepsContract` |
| `RateLimiter` | 2 clients, 5 readings of the clock, rate 2, capacity 4, cost 3 | `WindowBound`, `RefusedWhenUsedUp` |
| `Gateway` | 2 threads, 1 edit, 2 reloads that complete, 1 counted request, batches of 2 | `ReloadVisible`, `ClosedWhenUnused`, `CountedOnce`, `Progress` |
| `MigrationWorker` | 2 tables, 1 column, 2 types, 1 key that a table may have, 3 changes, 1 exception or restart | `ReportsAddUp`, `ReportsTrue`, `FileFresh`, `CatchesUp` |
| `PythonSDK` | 1 table to build from, 2 calls of a kind, texts and operands with nested, folded, repeated and refused parts, 2 dialects | `PlaceholdersFind`, `PolicyKept`, `CanonicalFaithful`, `BuiltAsCalled`, `OptimizerKeepsMeaning` (for NULL, 0 and 1 in each column and parameter) |
| `AsyncClient` | 2 compilations, 2 threads, any number of `close()` | `ObjectsFreed`, `OnlyCloseMatters`, `Settled` |
| `SchemaFiles` | 6 tools, arrays of 2 tables, 4 columns and 1 key, 4 objects, databases of up to 3 tables, 5 columns and 2 keys that fit each array or are one beyond it, keys in every direction, 2 runs, a crash, error or power loss at any step | `FilesSound`, `CliLoads`, `TenantsLoad` |
| `QueryParser` | every text of up to 7 tokens over `(`, `)`, a name and a name that is too long, queries with each clause missing, repeated or unknown, lists of 4, nesting of 6, node budgets of 3, 19 and 20 | `TypeOK`, `NothingLeaks`, `TreesAlike`, `QuestionsAlike`, `CallReturns` |

The bounds are chosen so that every interesting case happens: arrays fill up and
one more call is made; two queries' tables together fit, fill or overflow the
third; a second reload overtakes the first and a file changes between their
reads; a table changes after it was listed and before it was read; a client is
closed between any two reads of a compilation, with the other still in the queue;
a text is at each of the parser's bounds and one beyond, alone and nested, and the
budget of 20 nodes is that of a whole query while 19 ends inside it.  More
of anything repeats these cases, and for the safety properties of section 4 the
proofs cover the rest.

Some checked properties are conjunctions of parts that are defined beside them and
spoken of here by their own names: `SchemaSound` is `InBounds` and `WellFormed`;
`ParametersMatch` is `PlaceholdersBound` and `NoOrphanParameter`; `ScopeSound` is
`ScopeInBounds` and `OnlyProjectionsOfFreshName`; `Progress` is `RequestsEnd` and
`LockReturned`; `PolicyKept` is `EveryTenantGuarded` and `NothingDenied`;
`CanonicalFaithful` is `CanonicalCompilesAlike` and `IdenticalCompileAlike`;
`ObjectsFreed` is `FreedOnce` and `NothingLeaks`; `OnlyCloseMatters` is `CallsLive`
and `EngineKept`; `Settled` is `Answered` and `ResultsFreed`; `FilesSound` is `TypeOK`
and `NeverTorn`; `CliLoads` is `LoadedTrue` and `CliAccepts`; `TenantsLoad` is
`GatewayLoads` and `RulesHold`; `TreesAlike` is `ReadsAlike` and `ClausesAlike`.

Types are proved, except those of `PythonSDK`, which `BuiltAsCalled` checks; the run
of `QueryParser` checks its `TypeOK` as well, since that one bounds the parser's
depth.  Each property has a mutant, a version of one definition with a plausible
bug, kept beside the original (`param_index_ByName`, `Lock_Free`,
`Check_DriftOnly`, ...); the property fails when the mutant takes its place.

### Fairness

* `QueryCompiler`: `WF_vars(Compile)`.  A call is one C function that is never
  suspended by anything the program does, so its steps go on; nobody has to
  make a call or to destroy a result.
* `Gateway`: `WF_vars(Serve(t))` for every thread that compiles.  Threads are
  scheduled by the operating system and compiling blocks on nothing.  Reloads are
  *not* fair, since a file system may hang: `RequestsEnd` holds nevertheless, and
  `LockReturned` states the fairness of `Load(t)` as its premise.
* `MigrationWorker`: `WF_vars(Work)`.  `start` loops for ever and catches every
  exception.  `Raise` and `Restart` are bounded, so that a database at rest meets
  a poll that works: a worker whose every poll fails catches up with nothing.
* `AsyncClient`: `WF_vars(Work(w))` for the executor's threads, which block on
  nothing, and `WF` of the steps of a `close()` that was begun, which is plain code.
  `SF_vars(Deliver(j))` and `SF_vars(Discard(j))`: the event loop serves what is
  done, although a caller that closes the client over and over disables both in
  between.  Nobody has to submit, cancel or close anything.
* `QueryParser`: `WF_vars(Work)`, one C function as above; the inference callback
  is assumed to return, and its caller need not destroy the result.
* The other modules state safety only and assume none.

### Disagreements found

Two runs each check one statement of the documentation that the code
does not keep.  TLC's counterexample is in the last column.

| run | statement | where | what happens |
|---|---|---|---|
| `CompoundCompilerBounds` | `ParamsInBounds` | `docs/security/threat-model.md` 16 | a CTE's two parameter tables are copied into one without a check |
| `MigrationWorkerPublishes` | `DriftPublished` | `tools/worker.py` 6 | the importer is given a `str` and calls `resolve()`: no file is ever written |

Where a property would fail for such a reason, the checked property states the
exact condition under which the code keeps it:

* `JoinsMatchKeysByAlias`: aliases are distinct (`nlsql.c` 1046 finds a join's ON
  clause again by its alias; `docs/API.md` 36 says the validated one is emitted);
* `Rebased`: in SQLite the placeholders of the first query, and all where the second
  query has none.  Those of the second lose their first digit (`append_rebased`,
  `nlsql.c` 1339-1343), so that `?1` becomes `?` and the offset;
* `Releases`: every return path, but when a query of a CTE does not compile,
  `compile_cte` leaves that query's own result behind (`nlsql.c` 1249, 1258-1261), and
  nothing else;
* `OnlyProjectionsOfFreshName`: the CTE is not named after a table;
* `Authorised`: apart from the default limit, which the policy does not cap.  A column
  read is one of the first source that carries its alias.  The native compiler
  accepts a repeated alias, under which the database may read a later source, whose
  column may be denied; `threat-model.md` 12 names alias shadowing among what is
  prevented;
* `EnginesAgree`: one tenant rule for a table (the native engine takes the first,
  the Python engine the last), distinct aliases, and for acceptance no denied
  column (the Python engine refuses a denied *name* anywhere in the text);
* `PlaceholdersFind`: a number is that of the parameter within the placeholder's own
  query.  The Python engine renumbers nothing, so the numbers of a merged query's
  second half lead to the right parameter only from the end of the first half's, and
  are wrong as they stand unless the first has none;
* `EveryTenantGuarded`: distinct aliases, in each half of a set or CTE;
* `OptimizerKeepsMeaning`: conditions of `and`, `or`, `not`, the six comparisons and
  the four operations over columns, parameters, integers, `true` and `false`, but not
  one that divides two numbers of the text with a remainder: `nlsql.py` 462 rounds
  down, and `(eq (div -7 2) (div -8 2))` becomes `true`, though -3 is not -4.  Of the
  other operators (`like`, `in`, `between`, `is-null`, `case`, functions) nothing is
  said;
* `NothingDenied`: no table or column is named `true` or `false`, the texts the
  optimizer writes itself, which are not in the text that is searched for names;
* `CanonicalCompilesAlike`: no clause that is compiled holds a number the optimizer
  has folded.  Where the engine passes over such a number (a clause or a branch of
  `case` it does not know), the canonical IR has its numeral, which is read as a text
  and may make a different clause or branch;
* `CallsLive`, `EngineKept`: unless `close()` was called over an outstanding
  compilation, which then may pass a destroyed handle or be refused with `LIMIT`;
* `FileTrue`: a table's columns are those of one moment of the poll and its keys those
  of another, so that a key may name a column the file has not; a table dropped after
  it was listed stays in the file with no column;
* `FileKept`: the file is empty while it is written, or after a write that did not end;
* `CliAccepts`, `GatewayLoads`: the builder has room for the database (`Room`); for the
  command line also, keys point backward to columns that are there, and no
  introspected column has two flags;
* `LoadedTrue`: an emptied file is loaded as an empty schema.  It is there only while
  a tool that calls `write_text` writes, or after it was killed or the power was lost,
  never by the atomic importer.

Further divergences seen while modelling, which no run states:

* `nlsql.c`: `add_table` after `finalize` reads through a `NULL` schema (341 and
  374; `threat-model.md` 17 promises checked pointers); a MySQL placeholder used
  twice is two `?` with one entry in the manifest (611; `tenant-isolation.md` 3
  speaks of bound parameters); a compilation refused for lack of memory hands out
  its parameters so far (1125-1131), though `threat-model.md` 16 says
  failure-atomic; the outer query of a CTE is emitted with its schema
  (`"public"."name"`), so it names a stored table and not the CTE; `WHERE` drops a
  second operand; `max_schema_objects` does not bound columns; `compile_set`
  answers every failed query with `POLICY`; a repeated clause is refused where the
  Python engine takes the last;
* `nlsql.py`, Python engine: folded numbers are refused when they are emitted;
  `compile_cte` neither renumbers nor looks at the outer query's status
  (`docs/API.md` 14); joins are not matched with foreign keys, and neither types
  nor the policy's limits are enforced; the default limit is 100; an empty select
  compiles;
* `nlsql.py`, SDK: `compile_question` and `AsyncNLSQLClient.compile` pass the
  dialect where `compile_ir` drops it, so that the answer is PostgreSQL's;
* `sqlite_schema_import.py` 73 writes keys with their table, in the order of names,
  and the command line (`nlsqlc.c` 92) adds them as it reads: a forward reference
  is refused (`nlsql.c` 360), although `docs/sqlite-schema-import.md` 5-10 has the
  output ready for `nlsqlc`; a key without a target column is written as `None`;
* `db_introspect.py`: several flags are written as several words, which the command
  line refuses; when PostgreSQL cannot be reached, the files of a made-up template
  are written and the exit status is 0;
* `server.py`: a reload whose policy fails leaves the new schema with the old
  policy; the schema file's foreign keys and table flags are not read, and a flag
  is looked for in the whole line; `threading.RWMutex` does not exist, so the lock
  is a plain one;
* `worker.py`: the drift report of a poll whose import fails reaches nobody but
  the log, and the import is not tried again; the rewritten file has no tenant keys,
  since the importer is given no mapping (91); a change of types is not seen; a
  file that does not exist is not written before something drifts; the file is
  written in place, so that a reload at that moment sees no tables;
* `repl.py`: `\e` keeps the line that was typed, and after an empty line `\q` is
  not recognised.

## 4. What is proved

For every value of the constants, from the `ASSUME`s the modules state.  TLC
evaluates the assumptions in every run.

| theorem | property | argument |
|---|---|---|
| `SchemaBuilderProofs!TypeCorrect`, `SchemaIsSound`, `SingleOwnership`, `FrozenAfterFinalize` | `TypeOK`, `SchemaSound`, `OneOwner`, `HandedOutIsFrozen` | `IInv` joins them and adds `Vacant`: where no object is allocated the arrays are empty, which the induction needs when `create` follows a destroy |
| `SchemaBuilderProofs!BuilderImplementsRegistry` | `Implements` | every action is an action of the registry or a stutter, under `IInv` |
| `QueryCompilerProofs!TypeCorrect`, `ParametersAgree` | `TypeOK`, `ParametersMatch` | `IInv` is `Typed` (types and, for each stage, what is known of request and cursor), `PlaceholdersBound` and `Answered` (status and output agree with the stage); `EntriesUsed` adds that an entry is used as soon as it is allocated, unless the step fails between the two |
| `QueryCompilerProofs!JoinsFollowKeys`, `OnlyAuthorised` | `JoinsMatchKeysByAlias`, `Authorised` | `SourceInv`: each source but the first is that of its join and is reached along a key from an earlier one; no column read is denied in the first source of its alias; the ON clauses written are those an alias is looked up to, which with distinct aliases are the ones that were checked; the row limit, in the stages after it is written, is the one asked for or the default |
| `QueryCompilerProofs!TenantsCovered` | `TenantCoverage` | `TenantInv`: the predicates written are those of a prefix of the sources; the prefix is empty before the tenant loop, grows by one source a turn, and is everything after |
| `QueryCompilerProofs!CompilerKeepsContract` | `KeepsContract` | every step accepts, refuses, or is invisible to the caller |
| `QueryCompilerProofs!EveryStepAdvances` | (safety half of `CallReturns`) | each step leaves fewer stages by `Depth`, which places the limit where the dialect writes it, or fewer elements of the clause, or fewer leaves of the element, and never fewer than none |
| `CompoundCompilerProofs!TypeCorrect`, `MergedPlaceholders`, `MergeReleases`, `ScopeIsSound` | `TypeOK`, `Rebased`, `Releases`, `ScopeSound` | `IInv` is `Accounted`, `Operands`, `Tables`, `Memory` and `Scoped`: what is returned, compiled, copied, allocated and visible in each stage; renumbering by the length of the first table keeps `Bound` (`RebasedHoles`, `BoundConcat`), a longer table keeps it of the first query's placeholders (`BoundPrefix`), and these come first as they were (`MergedFirst`), in SQLite too.  `Memory` says what is allocated also after each failure |
| `CompoundCompilerProofs!SetsKeepContract` | `KeepsContract` | a set operation of two queries that keep the contract keeps it |
| `ServerProofs!LimiterTypeCorrect`, `BurstBounded`, `RefusalJustified` | `LimiterTypeOK`, `WindowBound`, `RefusedWhenUsedUp` | `Watched` and `Accounted`: what is granted and what is still in the bucket never exceed a full bucket and the refill; true also when the clock is set back, since it then takes back what it gave |
| `ServerProofs!TypeCorrect` | `TypeOK` | with `Pending` and `Named`, what a thread has left and what it holds at each place |
| `ServerProofs!NoStaleSchema` | `ReloadVisible` | `Fresh`: one reload has the lock at a time, each reads a file no older than the schema in force, and every debt is at most the schema in force or that of a reload that has renewed it |
| `ServerProofs!EachCountedOnce` | `CountedOnce` | `Tallied`: the requests counted and not yet answered are finitely many, only requests that are to be counted get to the metrics, and each that leaves them was told its answer or lost it |
| `ServerProofs!RequestsAdvance` | (safety half of `RequestsEnd`) | each step of the thread itself leaves fewer compilations of the request or fewer places of the one it is in (`ServeNearer`), and nobody else's step moves it (`OthersStay`): what is left to TLC is that its next step is never disabled |
| `ServerProofs!HandlesClosedWhenUnused` | `ClosedWhenUnused` | `Lifetimes` adds that no object has a number that is still to be given |
| `MigrationWorkerProofs!DifferencesAddUp` | `ReportsAddUp` | `Remembered`: hash and names are replaced together, and equal hashes mean equal names, so that a quiet poll keeps the sum |
| `MigrationWorkerProofs!TypeCorrect` | `TypeOK` | with `Historic`: a table's present layout is one of those recorded since the poll began |
| `MigrationWorkerProofs!ReportsHappened` | `ReportsTrue` | `Listing` and `Reading`: what the snapshot has of a table is a layout the table had since the poll began; the past only grows until the next poll, so later changes cannot falsify it |
| `MigrationWorkerProofs!FileWasSo` | `FileFresh` | `WasSo`, the same of what the importer has read, of columns and of keys each by itself, kept by the file until the next poll; the first of the tables left to read may have its columns already and its keys not; `Kept`: the file is what was saved last, or emptied by a write that goes on or failed |
| `ClientProofs!TypeCorrect`, `EveryObjectFreed`, `OnlyAnEarlyClose` | `TypeOK`, `ObjectsFreed`, `OnlyCloseMatters` | `IInv` is `TypeOK`, `Handles` (which objects live, by wrapper, by what was made and by what is still to be closed), `Threads` (what the pointers a thread has tested and copied say of the objects, unless it was closed over) and `EngineKept` |
| `ClientProofs!PlaceholdersMatch` | `PlaceholdersFind` | `Answers`: the answer a caller holds is that of its call.  `Matched`: each placeholder has the parameter at its place and, where dialects number them, its place for a number; each emission (`EmitAllMatched`, `AddTenantsMatched`) keeps it and only adds.  Joined tables keep places, and numbers within each half (`JoinedInOrder`) |
| `ClientProofs!EngineKeepsPolicy` | `PolicyKept` | `Passed`: an answer is a refusal, or its tables are allowed ones, its columns are written in the tree that was emitted, and its predicates are those of `Ruled`, with the placeholders that `PolicyHoles` counts.  Trees are followed by the texts they are made of: the reader makes them of the tokens (`Pure`), the optimizer adds two texts (`OptimizedNested`), and clauses and leaves are parts of them, so a column in the SQL has both its names in the text or is one of those two (`ColumnsRead`), where the search of the text has found it.  `Chained` and `Spoken`: the text of a `Query` object is a sequence of tokens like any other.  The predicates of a set or a CTE are those of its halves, one after the other (`EnginePredicates`) |
| `ClientProofs!OptimizerSound`, `MeaningKept` | (second) `OptimizerKeepsMeaning` | `Alike`: two expressions of the same kind and of the same value in every row.  The items of a list may be replaced by others alike (`ItemsAlike`), and each rule of the optimizer makes of a list something alike: folding (`FoldAlike`), equal literals (`EqualAlike`), negations (`NotAlike`), and junctions (`JunctionAlike`), where `Combination` says which values of the operands may be left out and which decide.  By the nesting of trees the optimizer makes of any expression something alike (`OptimizedAlike`); a parameter or a column has the same value on both sides, whatever it is; a quotient of two numbers of the text is folded as SQL divides if no remainder is left; of a condition without a `Kind` nothing is said |
| `QueryParserProofs!TypeCorrect` | `TypeOK` | `IInv` joins `TypeOK` and `NothingLeaks` with `Descent`, `Allocation` and `OpenLists`.  `Descent`: while a text is read, it passed `nesting_safe`, and as many lists are open as parentheses were opened and not closed up to the same token, so the bound the scan checked bounds the recursion |
| `QueryParserProofs!NoNodeLeaks` | `NothingLeaks` | `OpenLists`: no two open lists share a node, so that unwinding one frees nothing of another, and each but the innermost has room for the list open in it; `Allocation`: in which stages result and buffer are held |
| `QueryParserProofs!EveryStepAdvances` | (safety half of `CallReturns`) | each step of a call goes on to a later stage, or to a later token, or unwinds one list: there is no step to repeat for ever |
| `QueryParserProofs!TreesAgree` | `TreesAlike` | `Alike`: after any number of tokens the reader's stack holds the same open lists as the parser's, and the nodes counted are the tokens that are not `)`; a refusal has its reason, and a text that the Python reader has lost stays lost.  `Grown`: the trees are made of texts and lists of trees, so that both look-ups of a clause find the same one |
| `QueryParserProofs!QuestionsAgree` | `QuestionsAlike` | `Asking`: until a call is answered, what a question is made into is what is read, and what is refused of it has another reason.  `ReadsAs` says of a window of a text that the reader, wherever it stands, appends the window's tree to the innermost list and is back at the depth it came from, and `Inside` the same of a beginning of a list; windows compose to lists of two and three items (`PairReadsAs`, `TripleReadsAs`) and so to the tree of each kind of question (`AskedRead`), which `QuestionAccepted` finds valid.  With `Alike` this is the tree the parser has |
| `SchemaFilesProofs!ImportIsAtomic` | `FilesSound` | `Prepared`: outside `idle` the text is one this run has made, so it is neither none nor the emptied file; the temporary file that is renamed has it and was synced; an import is never in the steps of `write_text` |
| `SchemaFilesProofs!CommandLineLoads` | `CliLoads` | `Traced`: what is on disk, in memory or in the temporary file is nothing, the emptied file, or the text of one run, made of one database; two of the same run are the same, and the policy of a run has its rules.  `Layout`: where in such a text each table has its lines, and that every key comes after its own table's columns and after another table's exactly if that table's name comes first.  `CliReads`: the command line has loaded what the lines say as long as it accepts each, and `LayoutAccepted` says which it accepts.  `TablesCounted`, `ColumnsCounted` and `KeysCounted`: what the builder has counted before each line, and `Refusals` that it refuses a line by these counts; there is room for every line exactly if the database has `Room` (`RoomOfLayout`) |
| `SchemaFilesProofs!TenantsAgree` | `TenantsLoad` | `Traced` and `Layout` too: a column always comes after its table, so the gateway passes over none (`GatewayReads`), and it takes a flag for the tenant key exactly where the rule of the policy was made |

The proofs about texts and trees, of the parser, the schema file and the Python engine, need inductions, for
which the library's theorems cannot be used: they take an operator as a parameter.
`UpTo` replaces them by the least counterexample, taken from a set with
`WellFoundedInduction`'s `WFMin`.  Readers, the optimizer and
the emission are therefore recursive functions and not recursive operators; that
each function exists is proved first, and `ReaderSteps`, `LoadsSteps`,
`FlattenSteps`, `NestedSteps`, `OptimizedSteps`, `VisitSteps`, `KindSteps` and
`ValueSteps` are what is used of it.  An induction over trees is one over their nesting.  What a
file's sections have joined together is said by offsets (`Placed`), and the order
of the tables by the number of tables before each (`Ordered`).

`CompoundCompiler` assumes that a compiled query is something
(`NothingAssumption`), and `SchemaFiles` that the builder's bounds are numbers
(`BoundsAssumption`).

`SchemaFiles` assumes of a database (`CataloguesAssumption`) what every database
has: finitely many tables with a place in the order of names, distinct column
names in a table, and keys that start at a column of their table.  It is not
assumed that a key's target exists, nor that it comes first.

`PythonSDK` assumes that what a caller hands over as text is a sequence of tokens
(`CallsAssumption`); `QueryTree` that numerals stand for integers, that the recursion
limit admits some nesting (`NestingAssumption`), and that the two texts the optimizer
writes are texts (`WrittenAssumption`), for which the provers have no rule.

`QueryParser` assumes for questions (`QuestionsAssumption`) that the names of a
schema have no parentheses and are not too long, as `ident` (`nlsql.c` 178) makes
sure when the builder takes them, that no word of `Vocabulary` is too long, and
that lists of three items nested six deep are admitted: `parse_node` admits 64
items and `nesting_safe` 128 open lists.

Only model-checked:

* the liveness properties (`CallReturns`, `Progress`, `CatchesUp`, `Settled`),
  which with `ENABLED` are out of the prover's reach; the two `EveryStepAdvances`
  and `RequestsAdvance` are the parts of three that are not;
* `CanonicalFaithful` and `EnginesAgree`, which read again what was printed from a
  tree of any shape.  For the first the provers would need rules for `ToString`, by
  which numerals are printed;
* `BuiltAsCalled`, which is meant for callers who give each method whole expressions,
  as those of the instance do: `to_ir` (`nlsql.py` 970-983) puts the texts next to each
  other, so that a condition with a parenthesis too many may end the clause it is in.

## 5. What is not modelled

* The policy setters: arrays that fill up, each by itself; the compiler is checked
  with the rules they would have accepted.
* `monitor.py`: three windows that no other part calls.
* The C++ wrapper, which is `SchemaBuilder` with one legal order of calls.
* The command line's arguments and policy file, the REPL, the playground, the
  examples, the benchmark, build and release scripts: they read files, format or
  print.  The command line's reader of a schema file is in `SchemaFiles`.
* The gateway's GET endpoints, middleware and body parsing, which touch none of the
  state modelled here.
* `dist/`, which is generated from `src/`.
* Formatting of SQL, manifest and diagnostics, fingerprints and relevance scores,
  conversions no property here is about.
* Floating-point numbers: the rate limiter's are integers in a small unit, and the
  optimizer's folding of fractions is left out.

## 6. Plan

Written: the modules of section 2, in that order, most important first.

To prove next: `CanonicalFaithful` by the nesting of trees, from an assumption that
the numeral `ToString` makes of an integer is read as that integer.

What is left to model: the policy setters composed
with `SchemaBuilder` and the context's lifetime; the worker and the gateway over
one file, with what `SchemaFiles` says of a file in the middle of `write_text`;
the monitor's windows.
