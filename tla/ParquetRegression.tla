-------------------------- MODULE ParquetRegression --------------------------
(***************************************************************************)
(* The regression() module of parquet/regression.py: it reads the Parquet  *)
(* table definition, submits the parquet features to a Pool(2) executor    *)
(* with parallel=True and joins them, then walks the requested storages,   *)
(* setting the S3 connection settings in the shared context for each one,  *)
(* and runs the s3 feature.                                                *)
(*                                                                         *)
(* A feature is a model value; the pool (TestFlows' Pool, not in the      *)
(* repository) starts queued features in submission order whenever fewer  *)
(* than PoolSize are running, and a feature's failure ends only that       *)
(* feature.  fail() and xfail() raise and end the whole module.            *)
(***************************************************************************)
EXTENDS Naturals, Sequences, FiniteSets

CONSTANTS
    Features,        \* the parallel features, in submission order
    PoolSize,        \* Pool(2)
    StorageChoices,  \* the values the storages argument may take
    NoStorages,      \* storages is None
    AwsS3, Minio, Gcs,
    OtherStorage,    \* a storage name none of the loop's branches matches
    AwsUri, MinioUri, NoUri

ASSUME Len(Features) >= 1
ASSUME PoolSize \in Nat \ {0}

VARIABLES
    phase,       \* where regression() is
    submitted,   \* how many features have been submitted to the pool
    queue,       \* submitted features not yet started
    running,     \* features a pool worker is running
    finished,    \* features that ended, passed or failed
    storages,    \* the storages argument
    idx,         \* index of the storage the loop is at
    creds,       \* whether all four AWS credential options are set
    ctx,         \* the context's s3 settings: storage, uri, access keys,
                 \* aws_s3_bucket and s3_client
    s3Runs,      \* the s3 feature runs: the storage label and the context
    result       \* the module's result

vars == <<phase, submitted, queue, running, finished, storages, idx, creds,
          ctx, s3Runs, result>>

FeatureSet == {Features[i] : i \in DOMAIN Features}

Init ==
    /\ phase = "cluster"
    /\ submitted = 0
    /\ queue = <<>>
    /\ running = {}
    /\ finished = {}
    /\ storages \in StorageChoices
    /\ idx = 1
    /\ creds \in BOOLEAN
    /\ ctx = [storage |-> NoStorages, uri |-> NoUri, keys |-> "none",
              bucket |-> "none", client |-> "none"]
    /\ s3Runs = {}
    /\ result = "running"

\* with Cluster(...) as cluster: bringing up the docker cluster may raise.
ClusterUp ==
    /\ phase = "cluster"
    /\ \/ phase' = "setup" /\ UNCHANGED result
       \/ phase' = "done" /\ result' = "failed"
    /\ UNCHANGED <<submitted, queue, running, finished, storages, idx, creds,
                   ctx, s3Runs>>

\* Given "I have a Parquet table definition": `cat` the definition, split it
\* into columns and eval each datatype; a malformed definition raises.
TableDefinition ==
    /\ phase = "setup"
    /\ \/ phase' = "pool" /\ UNCHANGED result
       \/ phase' = "done" /\ result' = "failed"
    /\ UNCHANGED <<submitted, queue, running, finished, storages, idx, creds,
                   ctx, s3Runs>>

\* Feature(run=..., parallel=True, executor=executor): queue the next one.
Submit ==
    /\ phase = "pool"
    /\ submitted < Len(Features)
    /\ submitted' = submitted + 1
    /\ queue' = Append(queue, Features[submitted + 1])
    /\ UNCHANGED <<phase, running, finished, storages, idx, creds, ctx,
                   s3Runs, result>>

\* A free pool worker takes the oldest queued feature.
StartFeature ==
    /\ queue # <<>>
    /\ Cardinality(running) < PoolSize
    /\ running' = running \cup {Head(queue)}
    /\ queue' = Tail(queue)
    /\ UNCHANGED <<phase, submitted, finished, storages, idx, creds, ctx,
                   s3Runs, result>>

\* A feature ends, passed or failed; either way only its own worker stops.
EndFeature(f) ==
    /\ f \in running
    /\ running' = running \ {f}
    /\ finished' = finished \cup {f}
    /\ UNCHANGED <<phase, submitted, queue, storages, idx, creds, ctx,
                   s3Runs, result>>

\* join(): wait for every submitted feature.
Joined == submitted = Len(Features) /\ queue = <<>> /\ running = {}

Join ==
    /\ phase = "pool"
    /\ Joined
    /\ phase' = IF storages = NoStorages THEN "done" ELSE "storages"
    /\ result' = IF storages = NoStorages THEN "passed" ELSE result
    /\ UNCHANGED <<submitted, queue, running, finished, storages, idx, creds,
                   ctx, s3Runs>>

\* Lines 150-158: the aws bucket, uri, access keys and boto3 client.
AwsContext(c) ==
    [c EXCEPT !.uri = AwsUri, !.keys = "aws", !.bucket = "aws",
              !.client = "aws"]

\* Lines 162-164: the minio uri and access keys; bucket and client are not
\* touched.
MinioContext(c) == [c EXCEPT !.uri = MinioUri, !.keys = "minio"]

\* The loop pass got to line 172, `self.context.storage = storage`.
NextStorage(c) ==
    /\ ctx' = c
    /\ idx' = idx + 1
    /\ UNCHANGED <<phase, result>>

\* fail(), xfail() or an exception ends the module in the middle of the loop.
StopIn(r) == phase' = "done" /\ result' = r /\ UNCHANGED idx

\* Variant of a loop pass without the gcs branch: gcs matches no branch.
StorageIterationNoXfail ==
    /\ phase = "storages"
    /\ idx <= Len(storages)
    /\ LET s == storages[idx] IN
         \/ s = AwsS3 /\ ~creds /\ StopIn("failed") /\ UNCHANGED ctx
         \/ s = AwsS3 /\ creds /\ NextStorage([AwsContext(ctx) EXCEPT !.storage = s])
         \/ s = Minio /\ NextStorage([MinioContext(ctx) EXCEPT !.storage = s])
         \/ s = Minio /\ ctx' = MinioContext(ctx) /\ StopIn("failed")
         \/ s \notin {AwsS3, Minio} /\ NextStorage([ctx EXCEPT !.storage = s])
    /\ UNCHANGED <<submitted, queue, running, finished, storages, creds,
                   s3Runs>>

\* One pass of `for storage in storages`: aws_s3 fails the module unless the
\* credentials are set, and otherwise sets its context; minio sets its uri
\* and keys and then starts the minio client, which may raise before line
\* 172; gcs xfails the module; a name no branch matches only reaches line
\* 172.
StorageIteration ==
    /\ phase = "storages"
    /\ idx <= Len(storages)
    /\ LET s == storages[idx] IN
         \/ s = AwsS3 /\ ~creds /\ StopIn("failed") /\ UNCHANGED ctx
         \/ s = AwsS3 /\ creds /\ NextStorage([AwsContext(ctx) EXCEPT !.storage = s])
         \/ s = Minio /\ NextStorage([MinioContext(ctx) EXCEPT !.storage = s])
         \/ s = Minio /\ ctx' = MinioContext(ctx) /\ StopIn("failed")
         \/ s = Gcs /\ StopIn("xfailed") /\ UNCHANGED ctx
         \/ s \notin {AwsS3, Minio, Gcs} /\ NextStorage([ctx EXCEPT !.storage = s])
    /\ UNCHANGED <<submitted, queue, running, finished, storages, creds,
                   s3Runs>>

\* After the loop, `with Feature(f"{storage}")` runs the s3 feature once,
\* for the storage the loop variable was left at.
RunS3Feature ==
    /\ phase = "storages"
    /\ idx > Len(storages)
    /\ s3Runs' = s3Runs \cup {[label |-> storages[Len(storages)], ctx |-> ctx]}
    /\ phase' = "done"
    /\ result' = "passed"
    /\ UNCHANGED <<submitted, queue, running, finished, storages, idx, creds,
                   ctx>>

Runner ==
    \/ ClusterUp
    \/ TableDefinition
    \/ Submit
    \/ Join
    \/ StorageIteration
    \/ RunS3Feature

Pool == StartFeature \/ \E f \in running : EndFeature(f)

Next == Runner \/ Pool

\* The runner thread and every pool worker keep going.
Spec == Init /\ [][Next]_vars /\ WF_vars(Runner) /\ WF_vars(Pool)

-----------------------------------------------------------------------------
TypeOK ==
    /\ phase \in {"cluster", "setup", "pool", "storages", "done"}
    /\ submitted \in 0..Len(Features)
    /\ queue \in Seq(FeatureSet)
    /\ running \subseteq FeatureSet
    /\ finished \subseteq FeatureSet
    /\ storages \in StorageChoices
    /\ creds \in BOOLEAN
    /\ ctx.storage \in {NoStorages, AwsS3, Minio, OtherStorage}
    /\ ctx.uri \in {NoUri, AwsUri, MinioUri}
    /\ result \in {"running", "passed", "failed", "xfailed"}

(* fail() and xfail() in the storages loop end the whole module: a module *)
(* passes only when every storage got through its setup (no gcs, and aws  *)
(* only with all credentials), xfails only at the first gcs, and one that *)
(* stops in the loop has run the s3 feature for no storage at all, the    *)
(* ones already set up included.                                          *)
ResultExplained ==
    /\ result = "passed" /\ storages # NoStorages =>
          \A i \in DOMAIN storages :
              storages[i] # Gcs /\ (storages[i] = AwsS3 => creds)
    /\ result = "xfailed" =>
          storages[idx] = Gcs /\ \A i \in 1..idx - 1 : storages[i] # Gcs
    /\ result \in {"failed", "xfailed"} => s3Runs = {}

(* A regression that passes has run the s3 feature for every storage it   *)
(* was asked to test.                                                     *)
EveryStorageTested ==
    phase = "done" /\ result = "passed" /\ storages # NoStorages =>
        \A i \in DOMAIN storages :
            \E r \in s3Runs : r.label = storages[i]

=============================================================================
