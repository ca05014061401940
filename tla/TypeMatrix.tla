------------------------------ MODULE TypeMatrix ------------------------------
(***************************************************************************)
(* The argMin feature of aggregate_functions/tests/argMin.py: five checks  *)
(* in sequence, then the "datatypes" feature, which runs two checks per    *)
(* column of the table in a Pool(3) and joins them, and, nested in it, the *)
(* "permutations" feature, which runs one check per sorted pair of common  *)
(* columns, skipping pairs with a String column, in a second Pool(3).      *)
(*                                                                         *)
(* Every check runs one query and compares its output with the snapshot    *)
(* named after the feature and the check.  A check's failure ends only     *)
(* that check and changes no control flow of the feature, so outcomes are  *)
(* not modelled; what is kept is which snapshot name each check uses.      *)
(* A column is a record: its name, its type and its rank in the string     *)
(* order of "name type", which is what permutations.sort() compares.       *)
(***************************************************************************)
EXTENDS Naturals, Sequences, SequencesExt, FiniteSets, Bags

CONSTANTS
    Columns,        \* table.columns, in table order
    CommonColumns,  \* helpers.tables.common_columns
    StringType,     \* the type name "String"
    PoolSize        \* Pool(3)

ASSUME PoolSize \in Nat \ {0}

VARIABLES
    stage,      \* where the feature is
    cidx,       \* the next of the sequential checks
    dt,         \* the datatypes pool: submitted count, queue, running, finished
    pm,         \* the permutations pool, likewise
    uses        \* bag of the snapshot names the checks have used (history)

vars == <<stage, cidx, dt, pm, uses>>

ConstantChecks ==
    <<"constant", "zero rows", "with group by", "NULL value handling",
      "doc example">>

\* for column in table.columns: Check "String,{type}" with (string, column)
\* and Check "{type},String" with (column, string).
DatatypeChecks ==
    FlattenSeq([i \in DOMAIN Columns |->
        << [name |-> <<StringType, Columns[i].type>>,
            args |-> <<"string", Columns[i].name>>],
           [name |-> <<Columns[i].type, StringType>>,
            args |-> <<Columns[i].name, "string">>] >>])

\* permutations_with_replacement(columns, 2), as the specification (4.3)
\* describes it: each unordered pair once, a column paired with itself
\* included, in the order of the columns.
PermutationsWithReplacement(cols) ==
    FlattenSeq([i \in DOMAIN cols |->
        [k \in 1..Len(cols) - i + 1 |-> <<cols[i], cols[i + k - 1]>>]])

\* Python's order on tuples of column strings.
PairLess(p, q) ==
    \/ p[1].rank < q[1].rank
    \/ p[1].rank = q[1].rank /\ p[2].rank < q[2].rank

CommonInTableOrder == SelectSeq(Columns, LAMBDA c : c \in CommonColumns)

\* Variant that calls itertools.combinations(columns, 2): no column is
\* paired with itself.
PermutationListCombinations ==
    LET cols == CommonInTableOrder IN
    SortSeq(FlattenSeq([i \in DOMAIN cols |->
                [k \in 1..Len(cols) - i |-> <<cols[i], cols[i + k]>>]]),
            PairLess)

\* columns = [col for col in table.columns if col in common_columns];
\* permutations = list(permutations_with_replacement(columns, 2)); sort().
PermutationList ==
    SortSeq(PermutationsWithReplacement(CommonInTableOrder), PairLess)

\* The loop body's `continue` for a String column, then Check
\* "{type1},{type2}" with the two column names.
PermutationChecks ==
    LET kept == SelectSeq(PermutationList,
                          LAMBDA p : p[1].type # StringType /\ p[2].type # StringType)
    IN [i \in DOMAIN kept |->
            [name |-> <<kept[i][1].type, kept[i][2].type>>,
             args |-> <<kept[i][1].name, kept[i][2].name>>]]

EmptyPool == [sub |-> 0, queue |-> <<>>, running |-> {}, finished |-> {}]

Init ==
    /\ stage = "constant"
    /\ cidx = 1
    /\ dt = EmptyPool
    /\ pm = EmptyPool
    /\ uses = EmptyBag

UseSnapshot(feature, name) == uses' = uses (+) SetToBag({<<feature, name>>})

\* with Check(name): execute_query(...), one after the other.
ConstantCheck ==
    /\ stage = "constant"
    /\ UseSnapshot("argMin", ConstantChecks[cidx])
    /\ IF cidx = Len(ConstantChecks)
         THEN stage' = "datatypes" /\ UNCHANGED cidx
         ELSE cidx' = cidx + 1 /\ UNCHANGED stage
    /\ UNCHANGED <<dt, pm>>

\* Check(..., parallel=True, executor=executor)(...): queue the next check.
Submit(p, checks) ==
    /\ p.sub < Len(checks)
    /\ p' = [p EXCEPT !.sub = @ + 1, !.queue = Append(@, p.sub + 1)]

\* A free worker takes the oldest queued check, which runs its query.
PoolStart(p, checks, feature) ==
    /\ p.queue # <<>>
    /\ Cardinality(p.running) < PoolSize
    /\ p' = [p EXCEPT !.queue = Tail(@), !.running = @ \cup {Head(p.queue)}]
    /\ UseSnapshot(feature, checks[Head(p.queue)].name)

\* A check ends, passed or failed.
PoolEnd(p, i) ==
    /\ i \in p.running
    /\ p' = [p EXCEPT !.running = @ \ {i}, !.finished = @ \cup {i}]

\* join(): every submitted check has ended.
Joined(p, checks) ==
    p.sub = Len(checks) /\ p.queue = <<>> /\ p.running = {}

DatatypesSubmit ==
    /\ stage = "datatypes"
    /\ Submit(dt, DatatypeChecks)
    /\ UNCHANGED <<stage, cidx, pm, uses>>

DatatypesStart ==
    /\ PoolStart(dt, DatatypeChecks, "datatypes")
    /\ UNCHANGED <<stage, cidx, pm>>

DatatypesEnd(i) ==
    /\ PoolEnd(dt, i)
    /\ UNCHANGED <<stage, cidx, pm, uses>>

\* join() of the datatypes pool; the permutations feature starts after it.
DatatypesJoin ==
    /\ stage = "datatypes"
    /\ Joined(dt, DatatypeChecks)
    /\ stage' = "permutations"
    /\ UNCHANGED <<cidx, dt, pm, uses>>

PermutationsSubmit ==
    /\ stage = "permutations"
    /\ Submit(pm, PermutationChecks)
    /\ UNCHANGED <<stage, cidx, dt, uses>>

PermutationsStart ==
    /\ PoolStart(pm, PermutationChecks, "permutations")
    /\ UNCHANGED <<stage, cidx, dt>>

PermutationsEnd(i) ==
    /\ PoolEnd(pm, i)
    /\ UNCHANGED <<stage, cidx, dt, uses>>

PermutationsJoin ==
    /\ stage = "permutations"
    /\ Joined(pm, PermutationChecks)
    /\ stage' = "done"
    /\ UNCHANGED <<cidx, dt, pm, uses>>

Feature ==
    \/ ConstantCheck
    \/ DatatypesSubmit
    \/ DatatypesJoin
    \/ PermutationsSubmit
    \/ PermutationsJoin

Workers ==
    \/ DatatypesStart
    \/ PermutationsStart
    \/ \E i \in DOMAIN DatatypeChecks : DatatypesEnd(i)
    \/ \E i \in DOMAIN PermutationChecks : PermutationsEnd(i)

Next == Feature \/ Workers

\* The feature's thread and the pool workers keep going; a query returns.
Spec == Init /\ [][Next]_vars /\ WF_vars(Feature) /\ WF_vars(Workers)

-----------------------------------------------------------------------------
(* The `continue` of the permutations loop skips every pair with a String *)
(* column because "we already cover String data type above": once the     *)
(* feature is done, the datatypes and permutations checks together have   *)
(* run every unordered pair of the common columns' types, a type paired   *)
(* with itself included.                                                  *)
CoversEveryPair ==
    stage = "done" =>
        LET common  == {CommonInTableOrder[i] : i \in DOMAIN CommonInTableOrder}
            checked == {{u[2][1], u[2][2]} :
                            u \in {v \in BagToSet(uses) :
                                      v[1] \in {"datatypes", "permutations"}}}
        IN \A c, d \in common : {c.type, d.type} \in checked

(* Each check of the feature uses a snapshot name no other check uses.    *)
SnapshotNamesUnique ==
    \A k \in BagToSet(uses) : CopiesIn(k, uses) = 1

=============================================================================
