------------------------- MODULE AggregateSnapshots -------------------------
(***************************************************************************)
(* The snapshot checks of the argMin feature (its constant checks,        *)
(* aggregate_functions/tests/argMin.py 34-55) and of the min feature       *)
(* (aggregate_functions/tests/min.py), run one after the other against    *)
(* one snapshot store.  argMin's parallel datatype checks are modelled in  *)
(* TypeMatrix.                                                             *)
(*                                                                         *)
(* Every check sends one query through execute_query, which compares the  *)
(* output with the snapshot stored under its feature's snapshot id and    *)
(* the check's name.  The snapshot store and execute_query are not in the *)
(* repository; their behaviour is taken from the specification (4.1, 6): *)
(* a missing baseline is recorded and the check passes (record mode),    *)
(* an existing one is compared.  A failing check fails only itself        *)
(* (specification 7), so the feature goes on with the next check.         *)
(*                                                                         *)
(* A query's output is abstracted to the query and the order of its rows: *)
(* the engine orders nothing without ORDER BY (specification 4.2), so a   *)
(* result of n rows without ORDER BY may come in any of n! orders.        *)
(* The two features are run Runs times against one store and one server.  *)
(***************************************************************************)
EXTENDS Naturals, Sequences, SequencesExt, Functions, Combinatorics

CONSTANTS
    Columns,        \* table.columns: records [name, type]
    MinSnapshotId,  \* min's self.context.snapshot_id, from get_snapshot_id
    Runs            \* how many times the feature is run

ASSUME Runs \in Nat \ {0}

VARIABLES
    run,      \* which run of the features this is
    i,        \* the next check of the run
    store,    \* the snapshot store: key -> the recorded output
    out,      \* history: out[r][j] is check j's output in run r
    verdict   \* verdict[r][j]: check j passed in run r

vars == <<run, i, store, out, verdict>>

(* A check: its feature's snapshot id, its name, the rows of its result   *)
(* and whether the query orders them.                                     *)
Check(id, name, rows, ordered) ==
    [id |-> id, name |-> name, rows |-> rows, ordered |-> ordered]

(* argMin: self.context.snapshot_id = name.basename(current().name).       *)
ArgMinSnapshotId == "argMin"

ArgMinChecks ==
    [k \in 1..5 |->
        Check(ArgMinSnapshotId,
              <<"constant", "zero rows", "with group by", "NULL value handling",
                "doc example">>[k],
              IF k = 3 THEN 2 ELSE 1,
              k # 3)]

MinCheck(name, rows, ordered) == Check(MinSnapshotId, name, rows, ordered)

MinChecksUnformattedLoop ==
    << MinCheck("constant", 1, TRUE),
       MinCheck("zero rows", 1, TRUE),
       MinCheck("with group by", 2, FALSE),
       MinCheck("NULL value handling", 1, TRUE) >>
    \o [v \in 1..3 |-> MinCheck("{v}", 1, TRUE)]
    \o << MinCheck("inf, -inf, nan", 1, TRUE) >>
    \o [c \in DOMAIN Columns |-> MinCheck(Columns[c].type, 1, TRUE)]

MinChecks ==
    << MinCheck("constant", 1, TRUE),
       MinCheck("zero rows", 1, TRUE),
       MinCheck("with group by", 2, FALSE),
       MinCheck("NULL value handling", 1, TRUE) >>
    \o [v \in 1..3 |-> MinCheck(<<"inf", "-inf", "nan">>[v], 1, TRUE)]
    \o << MinCheck("inf, -inf, nan", 1, TRUE) >>
    \o [c \in DOMAIN Columns |-> MinCheck(Columns[c].type, 1, TRUE)]

(* The suite runs the argMin feature, then the min feature.               *)
Checks == ArgMinChecks \o MinChecks

(* The outputs the server may give for check j: one per order its rows    *)
(* may come in.                                                           *)
Outputs(j) ==
    {<<j, k>> : k \in 1..(IF Checks[j].ordered THEN 1 ELSE factorial[Checks[j].rows])}

(* The snapshot key: the check's feature's snapshot id and the check's name.      *)
SnapshotKey(j) == <<Checks[j].id, Checks[j].name>>

Init ==
    /\ run = 1
    /\ i = 1
    /\ store = [k \in {} |-> <<>>]
    /\ out = [r \in 1..Runs |-> <<>>]
    /\ verdict = [r \in 1..Runs |-> <<>>]

Observe(o, pass) ==
    /\ out' = [out EXCEPT ![run] = Append(@, o)]
    /\ verdict' = [verdict EXCEPT ![run] = Append(@, pass)]
    /\ i' = i + 1

(* execute_query with a baseline present: compare and never rewrite.      *)
Compare ==
    /\ i <= Len(Checks)
    /\ SnapshotKey(i) \in DOMAIN store
    /\ \E o \in Outputs(i) : Observe(o, store[SnapshotKey(i)] = o)
    /\ UNCHANGED <<run, store>>

(* execute_query without a baseline: record the output as the baseline.   *)
Record ==
    /\ i <= Len(Checks)
    /\ SnapshotKey(i) \notin DOMAIN store
    /\ \E o \in Outputs(i) :
          /\ Observe(o, TRUE)
          /\ store' = store @@ (SnapshotKey(i) :> o)
    /\ UNCHANGED run

(* The features end; the suite runs them again.                          *)
EndRun ==
    /\ i > Len(Checks)
    /\ run < Runs
    /\ run' = run + 1
    /\ i' = 1
    /\ UNCHANGED <<store, out, verdict>>

Next == Compare \/ Record \/ EndRun

Spec == Init /\ [][Next]_vars

-----------------------------------------------------------------------------

(* A check passes exactly when its output is the output the same check    *)
(* gave in the first run, in every run: no check is compared with another *)
(* check's baseline (the snapshot key of min.py line 12), and no baseline *)
(* drifts from the first output of its check, so a changed output never   *)
(* passes in a later run.                                                 *)
VerdictMatchesFirstRun ==
    \A r \in 1..run : \A j \in DOMAIN verdict[r] :
        verdict[r][j] <=> out[r][j] = out[1][j]

(* Idempotence (specification 8): a rerun of the features against the     *)
(* same server and store gives every check the verdict of the first run.  *)
RerunSameVerdict ==
    \A r \in 2..run : \A j \in DOMAIN verdict[r] : verdict[r][j] = verdict[1][j]

=============================================================================
