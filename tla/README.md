# TLA+ models of the clickhouse-regression test harness

The repository is a regression suite for ClickHouse, written with TestFlows.
Its code does not implement a database. It drives one: it builds SQL and shell
commands, sends them to docker nodes, compares their output with snapshots or
with a second query, and rewrites and restores configuration files around the
tests. The parts worth model checking are the ones with state, failures and
concurrency:

* Given steps that change a node's configuration and must restore it;
* the order of the phases around the parallel `Pool` executors and their
  `join()` (the pool itself is TestFlows' and not in the repository);
* the module-level orchestration that sets shared context between phases;
* a few pure algorithms: the zoo.cfg merge, the pair enumeration and sort,
  and the numbering of the generated requirements document;
* the snapshot store the checks compare against.

## Inventory

| Component | Source | State | Operations | Interacts with |
|---|---|---|---|---|
| ZooKeeper config Given step | `ssl_server/tests/zookeeper.py` 108-190 | zoo.cfg on the ZooKeeper node, the `ZooKeeperConfig` record (content, prev_content), the ZooKeeper process | read and merge (`create_zookeeper_config_content`), write, restart, yield, finally: restore and restart | ZooKeeper node through `node.command` and `restart_zookeeper(timeout)` |
| ZooKeeper SSL feature | `ssl_server/tests/zookeeper.py` 7-105, 193-299 | keystore and truststore aliases on the ZooKeeper node, ClickHouse `config.d`, the cleanup stack of the Given steps | keytool genkeypair, certreq, sign, validate, importcert; the ClickHouse secure ZooKeeper config; the connection check | both nodes; TestFlows runs cleanups in reverse order |
| Parquet regression | `parquet/regression.py` | `self.context` (uri, storage, credentials), the `Pool(2)` executor | table definition, 7 parallel features, `join()`, the storages loop, the s3 feature | features read the shared context |
| Parquet glob scenarios | `parquet/tests/glob.py` | snapshot store | SELECT with a glob and a snapshot compare; CREATE TABLE AS SELECT and a snapshot compare | snapshot store (TestFlows) |
| Parquet requirements | `parquet/requirements/requirements.py` | generated `Requirement` records and the `Specification` headings | none at run time | scenarios attach requirements with `@Requirements` |
| FINAL force modifier | `selects/tests/final/force_modifier.py` | the fixture tables (name, engine, `final_modifier_available`) | positive scenarios (`SELECT ... FINAL` equals `force_select_final=1`), negative ones (they differ), join, union and WITH variants | one ClickHouse node |
| JOIN steps | `selects/tests/steps/join.py` | none | one query each, output discarded | one node |
| argMin type matrix | `aggregate_functions/tests/argMin.py` | `Pool(3)`, snapshot store | constant checks, then datatype checks in parallel, then sorted type permutations in parallel | snapshot store |
| min, studentTTest | `aggregate_functions/tests/min.py`, `studentTTest.py` | snapshot id | sequential snapshot checks; version-dependent snapshot id | snapshot store |
| extractKeyValuePairs column | `key_value/tests/column.py` | a table per example | create, insert, query, compare with the escaped expected output | one node |
| new ReplacingMergeTree loader | `engines/tests/new_replacing_merge_tree/feature.py` | none | loads another feature | none |

What is hard about them is failure and ordering, not throughput:

* every `node.command(..., exitcode=0)` can fail and raise; a Given step that
  raises before its `yield` runs its `finally` at once, one that raises in its
  `finally` replaces the original exception and skips the rest of the block;
* `restart_zookeeper(timeout)` can give up while the server is still starting;
* parallel features share `self.context`, which the module writes between phases;
* `fail()` and `xfail()` end the whole enclosing test from inside a loop.

The properties that make each part correct:

* ZooKeeper config step: the merged file means "the old config, with the
  entries applied"; while the test body runs, the server runs the new file;
  afterwards file and server are back to the original unless the restore
  command itself failed; the step always ends.
* SSL feature: the connection check only runs once both sides are secure;
  after all cleanups the two nodes agree again; a second run behaves like the
  first.
* Parquet regression: a module that stops in the storages loop has tested
  no storage, and a pass means every storage got through its setup; every
  requested storage is tested.
* Type matrix: the datatypes and permutations features together check every
  unordered pair of the common column types; snapshot names are unique.
* FINAL scenarios: each core table is paired only with its own engine's
  duplicate table; the negative selection is a subset of the positive one.

## Modules

### ZooKeeperConfig (`ssl_server/tests/zookeeper.py` 108-190)

State: `file` (zoo.cfg as a sequence of `<<key, value>>` lines, `NoEq` for a
line without `=`), `zk` (status and the config it loaded at its last start),
`config` (the `ZooKeeperConfig` record), `restart` (the argument), `pc`,
`error` (none, raised by the setup part, or by the finally block) and
`faults`. `original` is a history variable used by the properties.

Actions, in the order of the code: `CreateConfig` (`cat`, parse, merge:
`ParseFails`, `MergeEntries`, `NewContent`), `WriteConfig`, `RestartBegin`,
`WaitReady` or `RestartTimeout`, `Body` (the yield), `RestoreConfig`, and the
second restart. A failed heredoc write leaves the file unchanged, empty or
fully written (`FailedWrite`). `ZkStarted` and `ZkStartFailed` are the server
process. `Effective` and `Override` are the reference: ZooKeeper reads zoo.cfg
with `java.util.Properties`, where the last line of a key wins.

Fairness: weak fairness on the step's own actions (the test runner always
proceeds); none on the server, which may never come up. The restart's timeout
is what makes `Terminates` hold.

### ParquetRegression (`parquet/regression.py`)

State: `phase`, the pool (`submitted`, `queue`, `running`, `finished`),
`storages` and `creds` (the arguments), `idx` (the loop), `ctx`
(`context.storage`, `context.uri`, and which storage the access keys, the
`aws_s3_bucket` and the `s3_client` were last set for), `s3Runs` and
`result`. Features are model values; the pool, which is TestFlows' `Pool(2)`,
is modelled from the specification as a FIFO queue and two workers, only so
that `join()` has something to wait for.
Actions: `ClusterUp` (`with Cluster(...)`, which may raise), `TableDefinition`,
`Submit`, `StartFeature`/`EndFeature` (the pool), `Join`, `StorageIteration`
(one pass of the loop) and `RunS3Feature`. In `StorageIteration`, `StopIn` is
`fail()` for missing AWS credentials and `xfail()` for gcs, which end the
module; `AwsContext` is lines 150-158 (uri, keys, bucket, client),
`MinioContext` lines 162-164 (uri and keys only); `start_minio` may raise after
them, in which case line 172 (`context.storage`) is not reached; any other
storage name (`OtherStorage`) only sets `context.storage` (`NextStorage`).

Fairness: weak fairness on the runner and on the pool workers; no liveness
property is checked for this module, since the pool's scheduling is not the
repository's code.

### SslZooKeeperFeature (`ssl_server/tests/zookeeper.py` 7-105, 193-299)

Composes `ZooKeeperConfig` (`ZC == INSTANCE ZooKeeperConfig`, on the same
variables) with the rest of the feature. State: `fpc` (where the feature is),
`stack` (the cleanups registered so far, latest first), `ks` and `ts` (aliases
in `/keystore.jks` and `/truststore.jks`), `chFile` and `ch` (ClickHouse's
zookeeper config file and the config it runs), `sslClient`, `checked`,
`failed`, `cleanupErr` (the parts, among `sslclient`, `zkconfig` and
`chconfig`, whose cleanup raised in this run or an earlier one), `run`
and `results`.

Actions, in the order of `feature()`: `SslSetup` (the four external Given
steps, one step that may fail), `GenKeyPair`, `SignCertificate`,
`ImportCaCertificate`, `ImportServerCertificate`, `TrustCa` (`AddAlias`: keytool
exits non-zero, and the step raises, when the alias already exists),
`SslClientConfig`, the ZooKeeper step (`ZkConfigStep` drives `ZC!Step` up to its
yield, `ZkConfigYielded` registers its cleanup, `ZkConfigRaised` is an
exception before the yield), `ChConfigApply` (`add_secure_zookeeper_configuration_file`
with `restart=True`), `Check`. Any raise (`Raise`) jumps to the cleanups, which
pop `stack`: `CleanupChConfig`, then the ZooKeeper step's finally block
(`ZkConfigStep` again, then `CleanupZkConfig`), then `CleanupSslClient`.
`EndRun` records the result; `Rerun` starts the feature again on the same
nodes. `Connected` is what the `system.zookeeper` query needs: ZooKeeper up and
listening on the port ClickHouse uses, and for TLS the client config and the
server key.

TestFlows runs every registered cleanup even when an earlier one raised (the
cleanups behave like an `ExitStack`): the model keeps popping `stack` after a
cleanup fault and only records the part in `cleanupErr`. `LeftAsFound` is
therefore stated per part: a restore write in `add_zookeeper_config`'s finally
block that fails (line 161, which also skips the restart at 165) may leave
ZooKeeper on the test configuration, but must not keep the ClickHouse config
or the SSL client from being put back. `CleanupZkConfigAbort`, the mutant in
which the raising zoo.cfg restore ends the cleanups, breaks it.

Fairness: weak fairness on the feature's own steps; none on the ZooKeeper
server.

### TypeMatrix (`aggregate_functions/tests/argMin.py` 24-98)

State: `stage` (constants, datatypes, permutations, done), `cidx` (the next
constant check), `dt` and `pm` (the two `Pool(3)` executors: submitted count,
FIFO queue, running and finished check indices) and `uses` (a bag of
snapshot keys, the feature name and the check name). Columns are records (name, type, rank); the
rank stands for Python's string order of the `"name type"` strings, which is
what `permutations.sort()` compares.

Actions: `ConstantCheck` (the five `with Check` blocks in order),
`DatatypesSubmit` (two checks per column: `String,<type>` and `<type>,String`),
`DatatypesStart`/`DatatypesEnd` (a worker), `DatatypesJoin`, then the same for
the permutations, whose check list is `PermutationChecks`: the common columns
in table order, `permutations_with_replacement` (spec-modelled: unordered pairs
once each, a column with itself included), sorted, the pairs with a String
column skipped. Only safety is checked: `CoversEveryPair` (the two pools
together cover every unordered type pair; the `itertools.combinations`
mutant, which drops a column paired with itself, breaks it) and
`SnapshotNamesUnique`.

### AggregateSnapshots (`aggregate_functions/tests/min.py`, `argMin.py` 29-55)

The argMin feature's five constant checks and the min feature, run one
after the other (argMin first) against one snapshot store; each feature has
its own snapshot id (argMin's is its test name, line 29).
State: `run` (which run of the two features), `i` (the next check), `store` (the
snapshot store: key to recorded output), and the histories `out` and
`verdict` (each check's output and verdict per run). `Checks` is the code's
list of checks in order: argMin's five constant checks, then min's four constant checks, the `inf`, `-inf`, `nan`
loop, the combined one, and one per table column named by its type. A query's
output is the query and the order of its rows: only the two `with group by` checks return
two rows without `ORDER BY`, which the engine may give in either order
(specification 4.2). `execute_query` and the snapshot store are not in the
repository; from the specification (4.1, 6), a missing baseline is recorded
(`Record`) and an existing one compared (`Compare`), under the key made of
the feature's snapshot id and the check's name. `EndRun` starts the features
again against the same store. `studentTTest.py` only chooses a snapshot id
and calls checks that are not in the repository.

### ParquetRequirements and RequirementRegistry (`parquet/requirements/requirements.py`)

`ParquetRequirements` is the generated data, abstracted to what the numbering
depends on: for each `Requirement(...)` its variable, name, level and `num`;
for the `Specification` its headings (level, number, name), its table of
contents, the requirement identifiers it lists, and for each section of the
markdown body the level, title and `version:` line. `RequirementRegistry`
walks the headings in order (`Read`), keeping the stack of open sections, and
checks at each step that the table of contents, the body and the requirement
record agree with the heading, that every listed requirement is defined, and
that each heading is numbered under the section that encloses it.

## Runs

| Run | Checks | Shows |
|---|---|---|
| `zk_config` (`MC_ZooKeeperConfig.cfg`) | TypeOK, MergeKeepsUpdate, RestoredOnExit, BodySeesNewConfig, Terminates | restoring works whichever command or restart failed before the finally block; the body never runs against a server that has not come up on the new file |
| `zk_config_duplicate_key` (`MC_ZooKeeperConfig_dup.cfg`) | MergeKeepsUpdate | violated: a repeated key keeps its first value in the merged file |
| `ssl_feature` (`MC_SslZooKeeperFeature.cfg`) | TypeOK, CheckOverTlsOnly, LeftAsFound, FeatureEnds | over two runs with up to two failures, the check only succeeds with both sides on TLS, every run ends, and at the end every part whose own cleanup did not raise is as it was found, even when another part's cleanup raised |
| `ssl_feature_rerun` (`MC_SslZooKeeperFeature_rerun.cfg`) | RerunLikeFirst | violated: with no fault at all, the second run fails at `keytool -genkeypair` because the alias `server` is still in the keystore |
| `parquet_regression` (`MC_ParquetRegression.cfg`) | TypeOK, ResultExplained | a pass means every storage got through its setup (aws with credentials, minio with `start_minio` succeeding, or a storage with no setup), and a module stopped in the loop by `fail()`, `xfail()` or a raising `start_minio` has tested no storage at all |
| `parquet_every_storage` (`MC_ParquetRegression_storages.cfg`) | EveryStorageTested | violated: with two storages only the last is tested (the `with Feature` block is outside the loop) |
| `requirement_registry` (`RequirementRegistry.cfg`) | TocAgrees, BodyAgrees, RequirementAgrees, EveryRequirementRegistered | the table of contents, the markdown body and the `Requirement` records agree heading by heading, and every listed identifier is defined |
| `requirement_numbering` (`RequirementRegistry_numbering.cfg`) | NumberedUnderParent | violated: `Import` is numbered 4.5.1.1 under 4.5, and `Export` 4.6.8.1, with no section 4.5.1 or 4.6.8 |
| `type_matrix` (`MC_TypeMatrix.cfg`) | CoversEveryPair | once the feature is done, the datatype checks (String with each type) and the permutation checks (the sorted pairs without String) together have checked every unordered pair of common column types |
| `aggregate_snapshots` (`MC_AggregateSnapshots.cfg`) | VerdictMatchesFirstRun | over three runs of argMin's constant checks and min against one store, a check passes exactly when its output is its first-run output (no check reads another's baseline, no baseline drifts) |
| `aggregate_snapshots_rerun` (`MC_AggregateSnapshots_rerun.cfg`) | RerunSameVerdict | violated: the second run fails argMin's `with group by` when the two unordered rows come the other way round |
| `type_matrix_snapshot_names` (`MC_TypeMatrix_names.cfg`) | SnapshotNamesUnique | violated: for the `string String` column both datatype checks are named `String,String` |

Bounds: the ZooKeeper run tries four zoo.cfg contents (with and without the
keys the feature removes and adds, one with a line without `=`), both values
of `restart`, and up to two faults (a failed write, a server that never
starts), which is enough to reach a failure in the setup followed by one in
the finally block. Timeouts are not counted as faults: each wait happens once.
The SSL feature runs use two zoo.cfg contents with a plain client port,
the feature's own two removing/adding entries, two runs, and two faults for
the pass run (zero for the rerun run, so that the second run's failure cannot
be blamed on a fault).
The type-matrix run uses three columns, `uint8 UInt8`, `string String` and
`bool Bool`, all common: the string column is the one every datatype check
references, so the table must have it; three columns give six datatype checks
for three workers (one always queued) and three permutation pairs whose table
order differs from their sorted order. The snapshot runs use two min columns and three runs (two for the rerun run), enough
for a rerun to meet both orders of the unordered check.
The registry run is the whole
generated document, every heading of it: it has no parameters.
The parquet runs use all seven features of `regression()`, in the code's
order, so five are queued behind the two workers of `Pool(2)` and every
order in which the workers finish them is explored (3281 states); storages
lists are empty, each single storage (aws_s3, minio, gcs and one other name),
and every pair of aws_s3 and minio, so that a minio pass follows an aws one.

## Findings

* `parquet/regression.py:174`: the s3 feature runs once, after the storages
  loop, for the last storage only.
* `ssl_server/tests/zookeeper.py:47`: the keystore and truststore aliases are
  never removed; a second run of the feature on the same node fails.
* `parquet/requirements/requirements.py:3060`: `Import` is 4.5.1.1 directly
  under 4.5, and `Export` is 4.6.8.1 under 4.6 (reusing a stale 8).
* `aggregate_functions/tests/argMin.py:62`: two checks of one feature share
  the name `String,String`, against "snapshot keys must be unique" (spec 3).
* `aggregate_functions/tests/min.py:25` (and `argMin.py:44`): a two-row
  `GROUP BY` result is snapshotted without `ORDER BY`, so a rerun on an
  unchanged server is not guaranteed the same verdict (spec 4.1, 8).
* `ssl_server/tests/zookeeper.py:130`: the merge keeps the first of repeated
  keys; ZooKeeper uses the last.

## Not modelled, and why

* The docker cluster, the SQL engine and its query results are external: the
  models treat a query as an action that may succeed or fail, and the
  `Cluster` context manager as one step that may raise (`ClusterUp`).
* `selects/tests/steps/join.py` and
  `engines/tests/new_replacing_merge_tree/feature.py` have no state.
* Formatting of SQL strings and log messages is left out.
* `selects/tests/final/force_modifier.py`: every scenario loops over
  `self.context.tables`, whose names and engines are created by helpers that
  are not in the repository; the name-prefix selection and the
  `startswith(table.engine)` pairing cannot be checked without inventing
  them, and the outputs compared are the engine's. Two of its comparisons
  have no full row order (`GROUP BY id, x ORDER BY id` at line 38, and
  `LIMIT 1` with every other clause dropped for system tables at line 40);
  they are listed as hazards, and the same unordered-rows failure is what
  `aggregate_snapshots_rerun` shows for the snapshot checks.
* `parquet/tests/glob.py`: fixed examples, one query and two snapshots each,
  with snapshot names unique per example; the glob matching is the engine's.
  Every query has `ORDER BY`, so each snapshot has one possible output; with
  no data or snapshot file in the repository, the branch in which a failed
  first snapshot skips the second is reachable only from an invented
  baseline.
* `key_value/tests/column.py`: its one piece of logic, the escaping of the
  expected output (backslashes first, then quotes, the correct order), is a
  line; the checks it runs are not in the repository.
* What the s3 feature does with `context.aws_s3_bucket` and
  `context.s3_client`: after an aws_s3 pass, a minio pass leaves both on the
  aws values (`ctx.bucket`, `ctx.client` in the model), but the feature that
  would read them is not in the repository, so no property says whether that
  is harmful; it is listed as a hazard.
* `studentTTest.py` calls the checks of `welchTTest`, which is not in the
  repository.

## Plan

Done: `ZooKeeperConfig`, `ParquetRegression` (the whole `regression()`),
`SslZooKeeperFeature` with per-part cleanup faults, `RequirementRegistry`,
`TypeMatrix` (the two pools' coverage of the type pairs),
`AggregateSnapshots` (argMin's constant checks and min) with the snapshot
store.

Considered and left out:

* Composing `TypeMatrix`'s datatype checks with the snapshot store: the two
  `String,String` checks run the same single-row query, so sharing one key
  cannot change a verdict; whether two parallel checks that both find the
  key missing both write it is decided by the snapshot library, which is not
  in the repository, and the specification (4.1, 6) does not say.
* The SSL feature's external Given steps (`enable_ssl`, `create_crt_and_key`,
  `add_trusted_ca_certificate`, `copy`) as steps of their own: their code is
  not in the repository; they stay one step that may fail.
