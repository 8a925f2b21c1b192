# Verification of awaken-foundation

This directory holds TLA+ models of the repository, the TLC configurations that
check them and TLAPS proofs about them. Every
definition is translated from the source; `PROJECT.json` maps each one to the
lines it stands for.

## The system

| Component | State it keeps | Operations | What is hard |
|---|---|---|---|
| Migration planning, `awaken-scoped-migration/src/lib.rs` | none (pure): migrations with per-dialect bodies, checksums, aliases; bundles of strictly increasing versions | constructors, `plan`, `accepts_checksum`, `checksum_for`, `render`, `lint` | drift, unknown versions, published-legacy aliases, versions inserted below recorded ones; scans that read words instead of SQL; substitutions that see each other's text |
| Ledger schema, `ledger.rs` | two tables per namespace: receipts and a one-row generation stamp | `bootstrap_action`, `verify_presence`, `create_statements`, `check_ledger_version` | half-created, foreign or doubly stamped ledgers must be refused, never repaired |
| PostgreSQL runner, `postgres.rs` | the ledger and the schema in the database; advisory transaction locks | `run_bundle(s)`, `verify_bundle(s)` | three transactions per run, replicas starting together, crashes at every await, ambiguous commits, lock-key collisions, non-atomic verification |
| SQLite runners, `sqlite.rs` (sqlx) and `awaken-scoped-migration-sqlite` (rusqlite) | the same, in one file with one write lock | `run_bundle(s)`; `verify_bundle(s)` (sqlx only) | check-then-apply race without the early write lock, busy timeout, snapshot reads |
| Connection contract, `awaken-connection` | none of its own | `Transport::dial`, `DialEnd`/`ListenSide`, `bind_pair` | one side fails while the other waits; callers that share the ends |
| Connection auth, `awaken-connection-auth` | none | `HeaderAuthMaterial` | redaction only |
| NATS transport, `nats.rs` | queues between the caller and a reader and a writer task, pending acknowledgements, a shared `closed` flag | `connect`, `poll_read/write/flush/shutdown`, `Drop` | two background tasks racing the caller; what an acknowledgement, an end of stream or a shutdown mean to the other side |
| HTTP channel, `http.rs` | a pooled client | one request, one response | error classification |
| Query engine, `awaken-query` | none of its own; the cursor a client carries from page to page | keyset conditions, filter compilation, grouping, filter DSL | ties, NULLs, rounding, direction and backward flips; cursors used with another sort; rows changed between pages; placeholders numbered across fragments; precedence and quoting lost in text |
| API contract, `awaken-api-contract` | none (pure) | `parse_list_query`, schema validation, page/error/auth types | conflicting pagination parameters; what is validated against what is compiled |
| Hooks and CI, `hooks/`, `scripts/ci/`, `xtask/` | none | line-oriented repository checks | - |

The components interact as follows. A runner (one per backend) reads the
ledger, calls the pure `plan`, and executes the pending bodies and inserts
their receipts inside one transaction; the database is the only state shared by
processes, and the lock is the only synchronisation. Transports implement the
connection contract. `awaken-query` compiles the `ListQuery` values that
`awaken-api-contract` parses. The hooks guard the sources that declare
migrations.

What makes each part correct:

* planning and runners: receipts and executed bodies correspond one to one in
  every committed state; a plan is never stale when it is applied; success
  means the schema the release declares; a refused ledger is left exactly as
  found; concurrent and retried runs never fail or repeat because of each
  other; locks are always released;
* NATS transport: bytes arrive in order and at most once, without gaps over a
  healthy network; a flush that succeeds vouches for every byte written; a
  flush returns; the channel reports errors and survives being used after one;
* `bind_pair`: it answers when both halves have finished, with both channels or
  with an error, the accept's before the dial's; a call that does not answer
  waits for a peer and for nothing else;
* keyset paging: a walk in one direction shows the rows asked for, in order and
  once, whatever changes around them, and a cursor always leads further;
* compilation: the statement selects exactly the rows the filter asks for, on
  both dialects, alone or inside a larger statement; every placeholder has its
  parameter; size bounds hold everywhere in the tree;
* list query parsing: at most one pagination mode, no clause dropped, every
  accepted query compiles; the filter grammar means what it says;
* authoring: what is built is what the runners assume; `lint` passes exactly the
  bundles that stand alone; a body is rendered in its tokens and nowhere else.

## Plan

In the order of importance, all built:

1. The migration core, which changes production databases and whose hazards are
   concurrency and failure. `MigrationPlan` - pure decisions. `MigrationDatabase` - committed database
   and releases. `MigrationLedger` - abstract specification of any runner.
   `MigrationSession` - what the runner shells share. `PostgresRunner`,
   `SqliteRunner` - the shells; each refines `MigrationLedger`.
   `MigrationSessionProofs` - lemmas about any shell; `PostgresRunnerProofs`,
   `SqliteRunnerProofs`.
2. The NATS channel: `ByteStream` (abstract) and `NatsDuplex`, which refines it
   over a lossy broker; `NatsDuplexProofs`.
3. Keyset paging over a changing table: `KeysetPaging`, `KeysetPagingProofs`.
4. The query path: `FilterAst` (what all front ends produce), `ListQuery` and
   `FilterDsl` (the front ends), `SqlFragments` (the compiler), `QueryCompile`
   (the compiler and its caller), `QuerySemantics` (the databases that read the
   text). `ListQuery` extends `SqlFragments`, so parsing, validation and
   compilation are one specification. `SqlFragmentsProofs`, `QueryProofs`.
5. Authoring: `BundleAuthoring` extends `MigrationPlan`, whose `IsBundle` the
   runners assume and its `BuiltAreBundles` establishes; `TemplateRender`.
6. `BindPair`, `BindPairProofs`.

The safety properties and refinements of the three concurrent protocols
(migration runners, NATS channel, keyset walks) are theorems, and so are what
compilation binds and refuses, what parsing makes of a request, and what
authoring builds. What remains checked by TLC alone is listed at the end of Proofs, with the reason.

## Modules of the migration core

| Module | Models | Correspondence |
|---|---|---|
| `MigrationPlan` | `lib.rs`, `ledger.rs`: identity of migrations, `plan`, bootstrap decisions | a SQL body is an element of `Body`, told apart by equality; SHA-256 of `label NUL body` is the pair `<<version, body>>` (the label is injective and the hash taken as collision-free); a bundle is a function from its versions |
| `MigrationDatabase` | the committed database of one namespace | `tables`, `stamps` and `rows` are the two ledger tables; `effects` records each body executed on the schema with who ran it and what ran before it, so that repeating, reordering or losing one is visible |
| `MigrationLedger` | what any runner promises | two actions: an atomic stamped `Bootstrap`, and `ApplyBundle`, a whole bundle with its receipts in declared order |
| `MigrationSession` | what the shells share | one program counter per process, one action per await; `tx` holds the writes of the open transaction; `COMMIT` (`Publish`) makes them visible in one step |
| `PostgresRunner` | `postgres.rs` | `ensure_ledger` = `AcquireBootstrapLock`, `ProbeLedger`, `CreateLedger` (three statements), `AssertLedgerVersionIn`, `CommitBootstrap`; `run_bundle` goes on with `AssertVersion`, `AcquireApplierGuard`, `ApplyPlan` (read and plan, then body and receipt of each migration), `CommitBundle`; `verify_bundle` = three reads of what is committed at each |
| `SqliteRunner` | `sqlite.rs` and the rusqlite crate | one `BEGIN IMMEDIATE` transaction holding the write lock from before the probe to the commit; `verify_bundle` reads its snapshot |
| `Deployments`, `MC*` | constants for TLC | four releases, nine databases, the calls of a rolling deployment |
| `MigrationSessionProofs`, `PostgresRunnerProofs`, `SqliteRunnerProofs` | proofs | see Proofs |

In `MigrationSession`, the engines are modelled by what the runners rely on: atomic commit; a dropped
transaction leaves nothing; a unique table name or `(bundle_id, version)` key
held by an open transaction makes a second writer wait, a committed one makes
it fail; on PostgreSQL a statement sees what is committed when it starts
(READ COMMITTED); an advisory transaction lock has one holder until its
transaction ends. Two bundle ids, or a bundle id and the bootstrap name, may
have the same `hashtext` key.

Failures: with `FaultsOn` a statement may fail, or the process die, at any
await; the transaction is rolled back by a later step, while its locks are
still held; a commit may take effect and its acknowledgement be lost. A call
may then be made again (`MaxCalls`).

## Modules of the NATS channel

| Module | Models | Correspondence |
|---|---|---|
| `ByteStream` | what a byte-duplex promises, a stream for each direction | bytes are numbered as written; a read extends what was received, in order, without gaps unless the network is lossy |
| `NatsDuplex` | `nats.rs`: two endpoints, each a caller, a reader task and a writer task | `phase` is `connect`'s progress; `closed`, `outbound`, `pendingPublishes`, `inbound`, `inboundBuf` are the fields of `NatsDuplex`; `reader`, `writer`, `publishing` are the tasks; `op` is the flush or shutdown being polled; `written`, `published`, `got`, `since`, `last`, `refused`, `eof` only record what happened |
| `NatsDuplexProofs` | proofs | see Proofs |

A chunk is the sequence of the numbers of its bytes, so losing, repeating or
swapping one is visible. `connect` is `Subscribe`, then `Connected` or
`ConnectFails`. The reader task is `ReaderForwards` and `ReaderEnds`. The writer
task is `WriterTakes`, then `PublishSucceeds` or `PublishFails`; after a
failure it stores the flag (`WriterCloses`) and then leaves, which drops the
queue and the senders in it (`WriterEnds`), three steps between which the
caller may run. A writer may also stop without an answer (`WriterDies`: a panic,
or the end of its runtime), the case for which the code has "NATS writer stopped
before publish completed" and "NATS writer closed": the flag is then not set and
only the dropped queue tells the caller. `poll_pending_publishes` looks at one acknowledgement per step
(`PublishSeen`, `FailureSeen`, `PollFinished`), so that the writer may answer
in between; a dropped future is `Abandon`. `Drop` aborts the tasks, which stop
at a later step (`AbortReader`, `AbortWriter`).

External, modelled from how `nats.rs` uses it: the clients forward chunks in
order; the server hands a chunk to the peer's subscription if it has it, and
drops it otherwise (`Register`, `Forward`). A behaviour has a healthy network or
a faulty one (`faulty`, chosen at the start and visible to no one): on a faulty
one a publish may be refused, a client may stop, a chunk may be lost (`Lose`,
`ClientStops`), and the flush in `connect` may return before the server has the
subscription. The error text of `nats.rs` ("could not be flushed to the
server") suggests that it waits, and `OpenEndMissesNothing` depends on it, so
that property is about the healthy network; the others hold on both. A oneshot
receiver that has returned the writer's answer panics when it is polled
again; one whose sender was dropped may panic or repeat its error, since the
sources here do not say which. A write of no bytes and a read into a full
buffer change nothing and are left out, as are trace headers and spans. Only
the ends in `Writing` write, and the writer task of the other, which has nothing
to publish, takes no step.

## Modules of the query engine and the list query

| Module | Models | Correspondence |
|---|---|---|
| `KeysetPaging`, `MCKeysetPaging` | `cursor.rs`, with the ordering of `build.rs` and the groups of `group.rs` | `KeysetCondition` is `keyset_condition`, `ComparisonOp` and `JsonToParam` its helpers, `CursorRejected` its refusals and `lookup`'s, `CursorAt` a cursor made with `set` and carried by `encode` and `decode`. A walk is `Open`, then `Continue` for each page, or `Turn` for a walk the other way; a `Continue` under another sort is refused, or starts a walk of its own at the cursor; `Insert`, `Update`, `Delete` are everybody else |
| `FilterAst` | the filter tree of `query.rs` and `validate_filter` | scalars are records of one shape; a text is a sequence of characters; groups nest up to `Nesting`, which the theorems leave open |
| `SqlFragments` | `build.rs`, `dialect.rs`, and the text of `keyset_condition` | a WHERE body is a sequence of tests, AND, OR and parentheses; a test carries its placeholders, a `ParamBuilder` is its next number and its parameters; the recursive `render_node` is a recursive function from filters to what they render from a given `ParamBuilder` on |
| `QueryCompile` | `compile` for both dialects, by a consumer that has bound a parameter before or not | `CompileFor` compiles; `StartParam` is the option of that name |
| `QuerySemantics`, `MCQueryCompile` | the consumer's statement around a fragment and the databases that read it | `Statement` puts the consumer's predicate before and a keyset condition after the fragment; `BoundArgs` and `SqlHolds` read the text back: parameters by number (PostgreSQL) or by their order (SQLite), AND before OR, LIKE with each database's own escaping and case |
| `ListQuery`, `MCListQuery` | `parse_list_query` and its helpers, `QuerySchema::validate`, `FieldMap::from_schema`, `compile`, `compile_grouped` | one `Read` per pair of the request, then `Finish`, then a compilation |
| `FilterDsl` | `dsl.rs` | `Type` adds a character and parses again; `Reading` is a second, one-pass reading of the grammar with an explicit stack, to compare with the recursive splitting |
| `SqlFragmentsProofs`, `QueryProofs` | proofs | see Proofs |

The consumer of `awaken-query` is external and modelled from what the crate's
documentation asks of it: it appends LIMIT, makes the cursor from the last row
of a page, reverses ORDER BY to page backward, and takes a sort that ends in a
unique column (`SortAssumption`). Columns hold integers or NULL and stand for
any ordered type. A number in a cursor becomes a double: outside of
`-ExactUpTo..ExactUpTo`, which stands for 2^53, odd numbers go to the neighbour
with the even mantissa.
`NullsLowest` distinguishes the databases. `stable` holds the rows nobody
touched since the walk began; nothing can be promised about the others.

The filter language has no negation, so a test that SQL calls unknown can count
as not holding. What a filter asks for (`AskedFor`) is stated on the tree and
the rows, without text, placeholders or escaping; a group without any condition
below it asks for nothing; NULL is no member of a set and not outside of it
either. A `like` pattern has no backslash and no capital letter, about which the
databases disagree, and a filter composed into a larger statement has an AND at
its top (see Limits).

In `ListQuery` a value without comma is a literal, known by what `parse_scalar`
makes of it, and the aliases of operators (`startswith`, `nin`) are one name.
In `FilterDsl` the characters are those the parser tells apart; `=` and `@`
stand for a field with a scalar or a set operator. The text of a cursor token
(base64, JSON) is abstracted to its values: `decode` refuses a token that is
none, before anything modelled here happens.

## Modules of authoring

`BundleAuthoring` (with `MCBundleAuthoring`) is how migrations come to be: `Construct` is any constructor
of `Migration`, `NewBundle` is `MigrationBundle::new`, `Lint` is `lint`. A body
is a sequence of statements; a statement has the lexemes that `tokenize_words`
sees (words, quoted names, and the comments, strings and punctuation it drops)
and, separately, what the statement really does: the tables it creates and
uses (`Creates`, `Uses`) and whether it is conditional. The properties compare
the scans with the latter. FROM is followed by one table in every statement, and `Uses` means
the tables named after FROM, JOIN, REFERENCES and ALTER TABLE, as the rule does
(`lib.rs:746-748`).
The state machine is `BASpec`, and that of `QueryCompile` is `QCSpec`, so that
their theorems can stand in one module with those of another specification.

`TemplateRender` is `render`: a body is a sequence of the pieces of text that
the substitutions tell apart, a token is three of them (`{`, its name, `}`),
and `json` stands for all tokens that render to one word. `Documented` renders
in one reading of the template. A prefix does not begin with `INTEGER` and
contains no braces; INTEGER stands where a column's type does.

## Modules of the connection contract

`BindPair` (with `MCBindPair`) is `bind_pair`. `Call` starts both halves, as the first poll of the
join does; `Settle` answers when both have finished, the accept's error first;
`Abandon` drops the future. The ends belong to a transport and are external: a
dial arrives at the listener, is completed at once or only when it is accepted
(`handshake`), either end may fail if the transport is one that fails
(`mayFail`; both are chosen at the start and never change), and an accept takes any waiting connection,
another caller's or one that an abandoned call left behind.

## Runs

| Run | Instance | Shows |
|---|---|---|
| `postgres_rolling` | 2 processes with 2 calls each out of 9 (run or verify, releases v1, v2, edited, legacy, duplicate ids, two bundles in either order), 9 databases, faults, a bundle id with the bootstrap name's lock key | `TypeOK`; `SuccessMeansComplete`; `LedgerMatchesSchema`, `PlanStaysFresh` and `NoRunnerConflict` under crashes, lost acknowledgements and retries; `AppliedInOrder`; `ImplementsLedger`: every step is a step of `MigrationLedger` or leaves the database alone, which contains the fail-closed behaviour on partial, foreign and doubly stamped ledgers and on drift |
| `postgres_startup` | 2 processes with 2 calls each, two bundles in opposite orders, a database the release accepts, faults, the same colliding key | `EveryStartSucceeds`: every call returns, with success unless its own backend failed |
| `sqlite_rolling` | 2 processes with 2 calls each out of 8, 9 databases, faults | as `postgres_rolling`; `CallsReturn`: no exit path keeps the write lock |
| `nats_duplex` | one writing and one reading end, 2 bytes, chunks and reads of 1 or 2, healthy and faulty networks | `TypeOK`; `ImplementsByteStream`, without gaps on a healthy network; `OpenEndMissesNothing`; `FlushMeansPublished`; `EndAfterDelivered`; `NoWriteAfterFailure`; `FlushReturns` |
| `nats_after_error` | the same | a **violation**: `FailuresAreErrors`, see Findings |
| `keyset_paging` | 4 rows, pages of 2, a column with ties and the key, sorts in both mixed directions and by the key alone, groups, cursors used under either sort, changes between pages | `TypeOK`; `NothingSkipped`: a finished walk has shown every untouched row it is about; `PagesAscend`: none twice, in order; `CursorAdvances`: following cursors always leads on |
| `query_compile` | 2144 filters, 871 of them also composed: every operator over all texts of 2 characters out of `a b % _ \ A`, sets of up to 2 elements with NULL, groups of groups with conditions of 0, 1 and 2 parameters, broken conditions at every place; 54 rows | `StatementSelects`, `PlaceholdersMatchParams`, `CompilesWhenWellFormed` |
| `list_query` | all requests of up to 4 pairs, out of every pagination key with good and bad values, and filter and sort pairs right and wrong; a surface whose filterable, sortable and groupable fields differ | `PageIsWhatWasAsked`, `NothingDropped`, `AcceptedQueriesCompile` |
| `filter_dsl` | all inputs of up to 6 of 8 characters | `ParsesGrammar` |
| `bundle_authoring` | up to 2 bundles of up to 2 migrations, right and wrong in each way, with references inside and across bundles, comments, quoted names and per-dialect bodies | `BuiltAreBundles`, `ConditionalSqlExactly`, `LintExact` |
| `template_tokens` | all templates of up to 6 of 7 pieces | `RenderedAsDocumented` |
| `bind_pair` | 2 callers, 2 calls each; transports that fail or not, dials that complete at once or when accepted | `AnswersAreComplete`, `OnlyAPeerIsMissing`, `EveryCallReturns` |

Bounds. Every check-then-act race of the migration protocol needs two
processes. Two
migrations in a bundle separate "first of batch", "later of batch" and "already
recorded"; two bundles separate same-lock from different-lock and let a call
fail after its first bundle committed. Two calls per process give a retry
after every failure. `MaxCalls` is the only bound on behaviour; once all calls
are made a process stays idle (`Quiescent`), so deadlock checking stays on in
every run and would report processes waiting for each other.

For the NATS channel, `MaxBytes` bounds what the writing end writes and
`MaxChunk` the size of a chunk and of a read. Chunks of 1 and 2 bytes with reads
of 1 and 2 make a read stop inside a chunk, at its end, and before a next one;
two chunks are what a partial failure needs (one refused, the other left in the
queue with its acknowledgement). Only one end writes, flushes and shuts down:
the directions share nothing but `closed` and the fate of the channel, and that
end's own reader and `Drop` exercise both. Both ends connect in any order, stop
and are dropped.

For paging, 4 rows and pages of 2 give a page with a successor, a tie that
straddles two pages and a last page that is not full. A condition of three
clauses, with two equalities in one, is beyond this instance; the theorems below
hold for sorts of any length. The table's contents, the number of changes and
the length of a walk are not bounded. For compilation, 2 characters make every
pair of a wildcard, an escape character and a letter; 2 levels of groups (`Nesting = 2`) with 2
children make every nesting of AND in OR and OR in AND, and the parameters
before, in and after a nested group are misnumbered by any slip. Requests of 4
pairs hold two modes each given twice, and `parse_list_query` makes one group of
conditions (`Nesting = 1`); the theorems hold for requests of any length. Six characters of the grammar hold two
levels of parentheses around a condition, or two conditions and a connective.
Two callers with two calls let a connection left behind by one call reach any
other.

Deadlock checking is off where the system stops by itself: when a query has
been compiled, an input or template has its full length, or all calls of
`BindPair` were made. A walk never ends for good, so it stays on there.

Fairness of the migration runs. `FairSpec` gives each process weak fairness of
its own step: the database answers each statement, and the async executor polls each task.
No strong fairness is needed of the lock: every holder releases it, and a
process that makes finitely many calls takes it finitely often. Starting a call
is never forced, and neither are faults.

Fairness of `BindPair`: a task whose halves are ready is polled (`Settle`), a
dial that was sent arrives, and an end that can complete does. Nothing else is
forced: not a call, not a failure, and no accept without a connection waiting.
On a transport that fails a dial may be gone and the accept wait for ever; the
repository bounds no such wait, so `EveryCallReturns` is about transports that
do not. `OnlyAPeerIsMissing` states what remains of it on the others: a call in
progress for ever has one half finished, and the other is an accept that no
connection waits for or a dial that nobody has accepted.

Fairness of `NatsDuplex`: the runtime polls the two tasks and wakes a waiting
call, and a client either takes a chunk or refuses it, so each task and the
poll of a waiting call get weak fairness. No call, read, fault or forwarding by
the broker is forced: a flush waits for none of them.

## Findings

`FailuresAreErrors` (run `nats_after_error`). `poll_pending_publishes` returns a
failed acknowledgement as `BrokenPipe` and leaves its receiver at the front of
the queue (`nats.rs:297-300`), where only a success is popped. A caller that
flushes again, or shuts the stream down after the failed flush, polls a oneshot
receiver that has completed, and tokio panics: its task is aborted where
the channel ("implements byte-stream semantics", `nats.rs:57-59`) owes it an
error. The same line has a good side: because the failed receiver stays, no later
flush can succeed (`FlushMeansPublished`, whose mutant pops it), so a repair
should pop it and fail on the flag.

What holds but may surprise: `EndAfterDelivered` is about this end's own
subscription. A shutdown or a drop sends the peer nothing, so its reads wait
until its own client stops.

## Limits

Where a property above is stated with a condition, the code does something else
without it. These are the conditions, where the code says or suggests more, and
the smallest change of an instance that shows the difference.

* Releases only append (`AppliedInOrder`). `docs/design/scoped-migration.md:103`
  says that inserting or reordering "fails closed at the checksum", but
  `MigrationBundle::new` only checks that the declared list increases, and `plan`
  (`lib.rs:727`) makes every declared version that the ledger lacks pending: a
  release that inserts V2 below a recorded V3 is accepted and runs V2 last. Give
  `MCDeclared` a release with V1 and V3 and one with all three.
* Sort columns hold no NULL (`NothingSkipped`). `keyset_condition` compares with
  `=`, `<` and `>` only (`cursor.rs:104`), also with NULL, which no row passes. A
  nullable column followed by a unique key is the total order that
  `cursor.rs:76-77` asks of the caller, and rows are skipped all the same. Set
  `Stored = {1, Null}` in `KeysetPaging.cfg`.
* Numeric keys are exact doubles (`PagesAscend`). `json_to_param` turns each
  number into a double (`cursor.rs:133`): an integer key above 2^53 or below -2^53 is rounded,
  and the page that should resume "strictly after" the cursor shows its row
  again, or passes over the next one. Set `ExactUpTo = 2`
  in `KeysetPaging.cfg`.
* A page under another sort than the cursor's is a walk of its own. The only
  check of a cursor against the sort is that it has a value for each field
  (`cursor.rs:66`), where `docs/design/query.md:181-182` wants a cursor that can
  "detect a sort/schema mismatch and fail closed rather than silently skip rows".
  The rows that precede the cursor in the new order are not shown.
* A raw pattern has no backslash and no capital letter (`StatementSelects`).
  `like` and `ilike` render no ESCAPE clause (`build.rs:286`) and `like` is
  case-sensitive on one database only.
* A composed filter has an AND at its top (`StatementSelects`). Nested groups get
  parentheses, the top one does not (`build.rs:251`): behind the consumer's own
  predicate and AND, as `build.rs:96-97` invites, an OR filter selects rows
  outside of that predicate. `parse_list_query` always makes an AND at the top;
  the grammar of `dsl.rs` does not. Set `ComposedFilters <- AllFilters` in
  `QueryCompile.cfg`.
* A text for a text operator does not read as a number, boolean or null
  (`AcceptedQueriesCompile`). `filter[name][contains]=007` becomes the number 7
  (`query.rs:411`), is accepted and then refused by the compiler.
* The tables of both dialects count together, and FROM is followed by one table
  (`LintExact`). A reference to a table that only the other dialect's body
  creates passes (`lib.rs:778-789`, where the comment promises the rule "on both
  dialects"); a subquery in FROM makes the scan take SELECT for a table, and the
  second table of a comma list escapes it (`lib.rs:837-841`).
* A use of a table is a FROM, JOIN, REFERENCES or ALTER TABLE (`LintExact`). This
  is how the rule is written (`lib.rs:746-748`,
  `docs/design/scoped-migration.md:289-294`). A table of another bundle named by
  INSERT INTO, UPDATE, CREATE INDEX ... ON or DROP TABLE is not seen by the scan,
  the bundle passes the lint, and the instance has no such statement.
* INTEGER is a column's type (`RenderedAsDocumented`). The widening
  (`lib.rs:120`) also rewrites string literals and the beginning of longer names.

## Proofs

Migration core. `PostgresRunnerProofs` proves, for every set of processes, releases, bundles,
databases, lock keys and every hash function:

* `TypeCorrect`: `Spec => []TypeOK`;
* `LedgerMatches`: `Spec => []LedgerMatchesSchema`;
* `PlansAreFresh`: `Spec => []PlanStaysFresh`;
* `RunnersNeverConflict`: `Spec => []NoRunnerConflict`;
* `SuccessIsComplete`: `Spec => []SuccessMeansComplete`;
* `RunnerImplementsLedger`: `Spec => ImplementsLedger`, the refinement of
  `MigrationLedger`;
* `BodiesRunInOrder`: `Spec => []AppliedInOrder`, if `ReleasesAppend` and
  `FoundInOrder`.

`SqliteRunnerProofs` proves these seven theorems, under the same names, of the
SQLite shells.

The assumptions are those the modules declare: `DatabaseAssumption` (declared
bundles passed `MigrationBundle::new`, a database found at the start has honest
receipts), `SessionAssumption` and `RunnerAssumption` (the types of the calls
and of the hash). TLC evaluates them in every run.

The argument. None of them but `TypeOK` is inductive alone. The invariant is

    Inv == TypeOK /\ LedgerInv
             /\ \A p : HoldsLock(p) /\ CreatesOnEmpty(p) /\ no conflict

`LedgerInv` says that the committed receipts match the executed bodies, and
that a process that is planning (from its ledger read to its commit) has a
sound transaction: what it has applied and recorded matches, at most one body
is still without its receipt, and applied plus pending is what the committed
ledger leaves open (`PlanSound`). `HoldsLock` says that a process inside a
locked region holds that region's key; since a key has one holder, two
processes never plan the same bundle and never bootstrap together
(`Exclusion`), whatever keys collide. `CreatesOnEmpty` says that a process that
creates the ledger does so in a database without one. The steps of another
process therefore leave a planning process's bundle alone (`StillSound`,
`LedgerInvFrame`), and its own steps keep its transaction sound
(`ReadLedgerInv`, `ApplyMigrationInv`, `RecordReceiptInv`, `CommitInv`); these
lemmas are stated over `MigrationSession` and serve the SQLite shells too.
`Inv` was checked by TLC before it was proved.

The refinement needs more, per process (`ImplInv`). `BootstrapSound`: what
stands in an open bootstrap transaction and what is committed make exactly one
complete, once-stamped ledger when it commits, and after the bootstrap the
ledger is complete. `FollowsPlan`: while a process is planning, the plan it read
was no refusal, each body it has run is the one the abstract ledger would run
for that version (same process, same release, same predecessors), and what it
has recorded is older than what is pending. `KeepsPromise`: the bundles
of a call that are behind it, and all of them after "ok", are complete in the
ledger; receipts are never removed, so this persists (`PromiseMeansComplete`). The
lemmas of `MigrationSessionProofs` show for any shell that a commit of a followed
plan is `ApplyBundle`, and that nothing else a process does is visible. A step is
thus `Bootstrap`, `ApplyBundle` or a stutter (`StepImpl`).

`BodiesRunInOrder` goes through the abstract ledger: `LedgerKeepsOrder` proves
`AppliedInOrder` of `MigrationLedger`, the refinement carries it over. Its two
hypotheses are about the constants. `ReleasesAppend`: of two releases of a
bundle one is the beginning of the other, as
`docs/design/scoped-migration.md:103` asks. `FoundInOrder`: the database found at
the start was left by such releases. The deployments TLC checks satisfy both
(`AppendOnlyAssumption` in `Deployments`), and Limits shows what happens without
the first.

For SQLite, `Inv` has the same parts, with `HoldsWriter` (a process inside its
write transaction is the file's one writer) for the locks of PostgreSQL, and
`SeesThePast`: the snapshot a verification reads holds receipts that are
still there, which is why its "ok" keeps its meaning after others commit.

NATS channel. `NatsDuplexProofs` proves, for every number of bytes, chunk size
and choice of writing ends, over healthy and faulty networks:

* `TypeCorrect`: `Spec => []TypeOK`;
* `DuplexImplementsByteStream`: `Spec => ImplementsByteStream`;
* `FlushedIsPublished`: `Spec => []FlushMeansPublished`;
* `NothingMissed`: `Spec => []OpenEndMissesNothing`;
* `EndComesLast`: `Spec => []EndAfterDelivered`;
* `RefusalIsFinal`: `Spec => NoWriteAfterFailure`.

The only assumption is `DuplexAssumption`: two ends, and the types of the constants. `Inv`
says five things of each end besides `TypeOK`. `Lifecycle`: what its tasks, its
subscription and its caller may have done given where `connect` and the tasks
stand; over a healthy network an open end is registered and its writer runs.
`Sender`: while the writer runs, its chunk and its queue hold exactly the bytes
accepted and not published, in order. `Answers`: the acknowledgements still
awaited are the last ones in the caller's queue, one for each unpublished chunk,
and once a chunk is lost a negative one stands in that queue for good; an empty
queue therefore vouches for every byte. `OnTheWay`: the published bytes are
split, oldest first, over what the peer's caller has, the rest of the chunk it
reads, its queue, its subscription and the wire. `NoGap`: over a healthy network
they leave no hole from the first that arrives. Each step moves the oldest bytes
of one place behind the youngest of the next, or loses them; the lemmas on
`InOrder` say so once for any five places, so that a read, for instance, is the
move of a prefix from the partly read chunk to the caller. TLC checked `Inv` on
the instance of `nats_duplex` before it was proved.

Keyset paging. `KeysetPagingProofs` proves, for every table, column set, page
size and set of sorts that end in the unique column:

* `TypeCorrect`: `Spec => []TypeOK`, NULLs, rounding and changing sorts included;
* `NothingIsSkipped`: `Spec => []NothingSkipped`;
* `PagesAreInOrder`: `Spec => []PagesAscend`;
* `CursorsAdvance`: `Spec => CursorAdvances`.

The last three assume `ExactValues`: no NULL is stored and numbers lie in
`-ExactUpTo..ExactUpTo`; both are necessary (see Limits). The argument: under `ExactValues`
the keyset condition of a row is exactly "the walk's order puts the cursor before
the row", that order is strict and transitive, and total on rows because the last
clause is unique; a cursor carried to another sort keeps its value for that column. The
inductive invariant says that a cursor is the key its row had when the page was
served, that untouched rows shown so far do not lie beyond it, and that
untouched sought rows not yet shown do. A change by somebody else takes its row
out of `stable` and leaves the cursor alone.

Connection contract. `BindPairProofs` proves `AnswersComplete`
(`Spec => []AnswersAreComplete`) for any callers, errors and number of calls,
from `TypeOK` and the two `ASSUME`s of `BindPair`; a call that has answered no
longer moves its halves, so the invariant needs no strengthening.

Compilation. `SqlFragmentsProofs` and `QueryProofs` prove of `QueryCompile`,
for every set of filters of any depth and width, field map, sort, size bounds
and either way to start numbering:

* `CompiledPlaceholders`: `QCSpec => []PlaceholdersMatchParams`;
* `CompiledExactly`: `QCSpec => []CompilesWhenWellFormed`.

The assumptions are the types of the constants (`NestingAssumption`,
`OptionsAssumption`, `FiltersAssumption`, `ColumnsAssumption`) and that a
character is a string (`CharactersAssumption`). `QCInv` says that what is stored
for a dialect is what the query compiles to; it is inductive because no step
changes the filter. The weight lies in what compiling computes. Rendering a node
from a `ParamBuilder` on either fails, exactly when a condition below it cannot be
rendered, or `Advances` the builder: as many parameters are appended as the
number goes up, and the placeholders in the text are the numbers between, in
order. One test, one set on either dialect and one condition do so; children of
a group do by induction on their number, since the placeholders of a
concatenation follow one another (`FlattenConcat`, `NumbersConcat`); nodes do by
induction on filters.

The library's induction theorems take a predicate as parameter, which the
provers cannot instantiate. `SqlFragmentsProofs` therefore derives induction for
*sets*: a set of numbers that contains 0 and successors contains all, because
otherwise the numbers missing up to some bound would be a finite set that injects
into itself less one element (`NatInd`); the filters
of each depth follow (`FilterInduction`), and with them that the recursive
functions on numbers and filters exist and satisfy their equations
(`NatRecursion`, `FilterRecursion`).

List query. `QueryProofs` proves of `ListQuery`, for every schema, defaults, set
of pairs and length of a request:

* `PageAsAsked`: `Spec => []PageIsWhatWasAsked`;
* `NothingAskedDropped`: `Spec => []NothingDropped`;
* `AcceptedCompile`: `Spec => []AcceptedQueriesCompile`.

The assumptions say what a decoded pair is (`PairsAssumption`), that fields are
strings and numerals stand for integers, and that "no value" is neither
(`SchemaAssumption`, `NumeralsAssumption`, `NoneAssumption`). The three
properties compare the end of a request with all its pairs; what relates the two
while it is read is `GatheredFrom` in `LQInv`: each variable holds the last value
given under any of its keys, or none if there is none, and the conditions and
clauses gathered are those of the filter and sort pairs read so far, each at the
position given by how many precede it. Of a request that is
rejected for another reason than conflicting pagination nothing need be known. TLC checked
`LQInv` before it was proved. That an accepted query compiles joins the two
parts: validation of a filter finds a refused condition wherever it stands
(again by induction on filters), a field the allowlist passes has a column in the
map made from the same schema, and `CompiledExactly`'s lemma says that nothing
else but the shape and size of values can fail.

Authoring. `MigrationSessionProofs` proves of `BundleAuthoring`, for every set
of candidate migrations, statements and bundle ids:

* `AuthoredAreBundles`: `BASpec => []BuiltAreBundles`;
* `LintDecides`: `BASpec => []LintExact`, if `ScansExactly`.

`CandidatesAssumption` says what a constructor can make. `BAInv`: every migration
of the draft and of a bundle was validated, and those of a bundle ascend. From
it `IsBundle` follows, which is what `DatabaseAssumption` gives the runners'
theorems about a declared bundle: the two meet in one definition.
`ValidateBundle` compares neighbours only; that versions then ascend over any
distance is `StepwiseIncreasing`. `ScansExactly` says that the word scan finds
the tables of each body. It is a fact about the bodies that services write, not
about the code, and Limits names statements of which it is false; TLC evaluates
it for the statements of the instance (`StatementsAssumption`). The theorem
says that nothing is lost after the scans: over dialects, migrations and bundles
the lint puts them together exactly.

Only model-checked:

* `StatementSelects` needs the reading of SQL text back by two databases, and of
  patterns. `QuerySemantics` defines it with RECURSIVE operators that split a
  text at any connective; a proof would first have to show that the result does
  not depend on where it is split.
* `ParsesGrammar` and `RenderedAsDocumented` compare two computations over
  sequences of characters and pieces, one recursive or folded over the other's
  output. Both hold under conditions on the text (see Limits) that only the
  instance fixes.
* `ConditionalSqlExactly` is about whether the lexemes of single statements say
  what the statements do, a fact of the instance's statements.
* Liveness is out of the prover's reach: `CallsReturn`, `EveryStartSucceeds`,
  `FlushReturns`, `EveryCallReturns`, `OnlyAPeerIsMissing`.

`FailuresAreErrors` is violated (see Findings).

## Not modelled

Migration bodies that end the transaction themselves; the descriptions and
messages; connection pools; several namespaces in one database (each has its
own ledger, and the lock key contains the ledger's name).

* `http.rs`: a request is one check of its address and one call of the external
  HTTP client. The channel keeps nothing from one request for the next; pools,
  connections and redirects belong to the client, whose source is not here.
* `awaken-connection-auth`: header values and their redaction in Debug output;
  nothing changes state.
* `error.rs`, `auth.rs`, `console.rs` of the API contract: data types with
  constructors and serialisation.
* `hooks/`, `scripts/ci/`, `xtask/`: stateless, line-oriented checks of files,
  for which a model would only repeat regular expressions. The append-only rule
  the migration hook enforces is stated as `AppliedInOrder`.
