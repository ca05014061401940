--------------------------- MODULE MC_AggregateSnapshots ---------------------------
EXTENDS AggregateSnapshots

\* Two columns of the fixture table, as column.name and column.datatype.name.
MCColumns == << [name |-> "uint8", type |-> "UInt8"],
                [name |-> "string", type |-> "String"] >>
=============================================================================
