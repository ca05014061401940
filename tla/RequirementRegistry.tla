-------------------------- MODULE RequirementRegistry --------------------------
(***************************************************************************)
(* A reader of the SRS032 Specification object of                          *)
(* parquet/requirements/requirements.py: it walks the headings tuple in    *)
(* order, keeping the chain of open sections (the headings above the       *)
(* current one), as the generated table of contents and any tool that      *)
(* builds the section tree from Heading(level, num) does.  At each heading *)
(* the properties compare the headings tuple with the other three copies   *)
(* of the same structure in the file: the Requirement records, the table   *)
(* of contents and the markdown body of the content string.                *)
(***************************************************************************)
EXTENDS Naturals, Sequences, SequencesExt, ParquetRequirements

VARIABLES
    pos,    \* index of the next heading to read
    open    \* the enclosing sections of the heading at pos, outermost first

vars == <<pos, open>>

Requirement(name) == CHOOSE r \in ToSet(RequirementList) : r.name = name
RequirementNames == {r.name : r \in ToSet(RequirementList)}

Init == pos = 1 /\ open = <<>>

\* Read the next Heading: close every open section at its level or deeper,
\* then open it.
Read ==
    /\ pos <= Len(Headings)
    /\ LET h == Headings[pos] IN
         open' = Append(SelectSeq(open, LAMBDA o : o.level < h.level),
                        [level |-> h.level, num |-> h.num])
    /\ pos' = pos + 1

Spec == Init /\ [][Read]_vars

-----------------------------------------------------------------------------

\* The heading being read, and the sections it is nested in.
Current == Headings[pos]
Enclosing == SelectSeq(open, LAMBDA o : o.level < Current.level)

(* The table of contents generated into the content string lists the      *)
(* same heading, with the same number and nesting depth, at the same       *)
(* position as the headings tuple.                                        *)
TocAgrees ==
    pos <= Len(Headings) => Toc[pos] = Current

(* The markdown body has the same heading at the same position, at the    *)
(* same level, and a requirement heading's "version:" line gives the      *)
(* version of its Requirement record.                                     *)
BodyAgrees ==
    pos <= Len(Headings) =>
        /\ Body[pos].level = Current.level
        /\ Body[pos].name = Current.name
        /\ Current.name \in RequirementNames =>
               Body[pos].version = Requirement(Current.name).version

(* A requirement's heading and its Requirement record, which scenarios    *)
(* attach with @Requirements, agree on level and number.                  *)
RequirementAgrees ==
    pos <= Len(Headings) /\ Current.name \in RequirementNames =>
        /\ Requirement(Current.name).level = Current.level
        /\ Requirement(Current.name).num = Current.num

(* Every Requirement record is registered in the requirements tuple and   *)
(* has a heading, and the tuple names nothing else: a reader that has     *)
(* seen every heading has seen every requirement.                         *)
EveryRequirementRegistered ==
    pos = Len(Headings) + 1 =>
        /\ ToSet(ListedList) = {r.var : r \in ToSet(RequirementList)}
        /\ RequirementNames \subseteq {Headings[i].name : i \in DOMAIN Headings}

(* Every heading is numbered inside the section that encloses it: its     *)
(* number has as many parts as its level, and without its last part it   *)
(* is the number of the enclosing section one level up.                   *)
NumberedUnderParent ==
    pos <= Len(Headings) =>
        /\ Len(Current.num) = Current.level
        /\ Current.level > 1 =>
               /\ Enclosing # <<>>
               /\ Last(Enclosing).level = Current.level - 1
               /\ Last(Enclosing).num = Front(Current.num)

=============================================================================
