--------------------------- MODULE ZooKeeperConfig ---------------------------
(***************************************************************************)
(* The Given step add_zookeeper_configuration_file of                      *)
(* ssl_server/tests/zookeeper.py: it reads zoo.cfg on the ZooKeeper node,  *)
(* merges the caller's entries into it (create_zookeeper_config_content),  *)
(* writes the merged file, restarts ZooKeeper, yields to the test, and in  *)
(* its finally block writes the old content back and restarts again        *)
(* (add_zookeeper_config).                                                 *)
(*                                                                         *)
(* zoo.cfg is a sequence of lines <<key, value>>; a line without '=' has   *)
(* the value NoEq.  Every node.command(..., exitcode=0) may fail, and      *)
(* restart_zookeeper(timeout) may give up before the server is ready, or   *)
(* the server may never come up; these faults share the budget MaxFaults.  *)
(***************************************************************************)
EXTENDS Naturals, Sequences, SequencesExt

CONSTANTS
    Keys,          \* configuration keys
    Vals,          \* configuration values
    None,          \* Python None: an entry that removes its key
    NoEq,          \* the value of a line that has no '='
    CurrentFiles,  \* the zoo.cfg contents the node may start with
    Entries,       \* the caller's entries dict, in insertion order
    MaxFaults      \* bound on injected command failures and timeouts

Line == Keys \X (Vals \cup {NoEq})

ASSUME CurrentFiles \subseteq Seq(Line)
ASSUME Entries \in Seq(Keys \X (Vals \cup {None}))
ASSUME MaxFaults \in Nat

VARIABLES
    file,      \* content of zoo.cfg on the ZooKeeper node
    zk,        \* the ZooKeeper server: its status and the config it loaded
    config,    \* the ZooKeeperConfig object: content and prev_content
    restart,   \* the step's restart argument
    pc,        \* where the step is
    error,     \* the exception leaving the step: "none", or raised by the
               \* "setup" part or by the finally block ("cleanup"), whose
               \* exception replaces one already propagating
    faults,    \* faults injected so far
    original   \* zoo.cfg as it was before the step (history)

vars == <<file, zk, config, restart, pc, error, faults, original>>

NoConfig == [content |-> <<>>, prev |-> <<>>]

-----------------------------------------------------------------------------
(* create_zookeeper_config_content: parse and merge.                       *)

KeysOf(s) == {s[i][1] : i \in DOMAIN s}

\* key, value = line.split("=", 1) raises on a line without '='.
ParseFails(lines) == \E i \in DOMAIN lines : lines[i][2] = NoEq

\* Variant without the `if not key in entries` guard: the file's value
\* replaces the caller's entry in place.
MergeEntriesUnguarded(entries, lines) ==
    FoldLeft(LAMBDA d, l :
                IF l[1] \in KeysOf(d)
                  THEN [i \in DOMAIN d |-> IF d[i][1] = l[1] THEN l ELSE d[i]]
                  ELSE Append(d, l),
             entries, lines)

\* for line in current: if not key in entries: entries[key] = value
MergeEntries(entries, lines) ==
    FoldLeft(LAMBDA d, l : IF l[1] \in KeysOf(d) THEN d ELSE Append(d, l),
             entries, lines)

\* Variant that writes every entry, None ones included.
NewContentUnfiltered(entries, lines) == MergeEntries(entries, lines)

\* "\n".join(f"{k}={v}" for k, v in entries.items() if v is not None)
NewContent(entries, lines) ==
    SelectSeq(MergeEntries(entries, lines), LAMBDA l : l[2] # None)

-----------------------------------------------------------------------------
(* ZooKeeper's reading of a zoo.cfg (java.util.Properties: the last line   *)
(* of a key wins), and the update the step is meant to make.               *)

LastIndex(s, k) == Max({i \in DOMAIN s : s[i][1] = k})

Effective(s) == [k \in KeysOf(s) |-> s[LastIndex(s, k)][2]]

Override(eff, entries) ==
    LET E       == Effective(entries)
        removed == {k \in DOMAIN E : E[k] = None}
    IN [k \in (DOMAIN eff \cup DOMAIN E) \ removed |->
            IF k \in DOMAIN E THEN E[k] ELSE eff[k]]

-----------------------------------------------------------------------------

Init ==
    /\ file \in CurrentFiles
    /\ zk = [status |-> "up", loaded |-> file]
    /\ config = NoConfig
    /\ restart \in BOOLEAN
    /\ pc = "create"
    /\ error = "none"
    /\ faults = 0
    /\ original = file

Fault == faults < MaxFaults /\ faults' = faults + 1

\* The node's command raised: `cat <<HEREDOC > path` may have truncated the
\* file or written all of it before the failure is seen.
FailedWrite(content) ==
    /\ Fault
    /\ file' \in {file, <<>>, content}

\* create_zookeeper_config_content: `cat path`, parse every line, merge.
CreateConfig ==
    /\ pc = "create"
    /\ IF ParseFails(file)
         THEN /\ pc' = "done"
              /\ error' = "setup"
              /\ UNCHANGED config
         ELSE /\ config' = [content |-> NewContent(Entries, file), prev |-> file]
              /\ pc' = "write"
              /\ UNCHANGED error
    /\ UNCHANGED <<file, zk, restart, faults>>

\* add_zookeeper_config, try: write config.content.
WriteConfig ==
    /\ pc = "write"
    /\ \/ /\ file' = config.content
          /\ pc' = IF restart THEN "restart" ELSE "body"
          /\ UNCHANGED <<error, faults>>
       \/ /\ FailedWrite(config.content)
          /\ pc' = "restore"
          /\ error' = "setup"
    /\ UNCHANGED <<zk, config, restart>>

\* node.restart_zookeeper(timeout): stop the server and start it on the
\* current zoo.cfg, then wait for it (WaitReady / RestartTimeout).
RestartBegin(from, to) ==
    /\ pc = from
    /\ zk' = [status |-> "starting", loaded |-> file]
    /\ pc' = to
    /\ UNCHANGED <<file, config, restart, error, faults>>

\* Variant that goes on without checking the server answered.
WaitReadyUnchecked(from, to) ==
    /\ pc = from
    /\ pc' = to
    /\ UNCHANGED <<file, zk, config, restart, error, faults>>

WaitReady(from, to) ==
    /\ pc = from
    /\ zk.status = "up"
    /\ pc' = to
    /\ UNCHANGED <<file, zk, config, restart, error, faults>>

\* The wait gives up whenever the server is not up yet: it may be down for
\* good, or still starting and come up after the timeout.
\* Variant of a wait with no timeout.
TimeoutNever == FALSE

TimeoutFires == zk.status # "up"

RestartTimeout(from, to, part) ==
    /\ pc = from
    /\ TimeoutFires
    /\ pc' = to
    /\ error' = part
    /\ UNCHANGED <<file, zk, config, restart, faults>>

\* The test body between the yield and the cleanup.
Body ==
    /\ pc = "body"
    /\ pc' = "restore"
    /\ UNCHANGED <<file, zk, config, restart, error, faults>>

\* Variant of the finally block that writes the file back but does not
\* restart ZooKeeper.
RestoreConfigNoRestart ==
    /\ pc = "restore"
    /\ \/ /\ file' = config.prev
          /\ pc' = "done"
          /\ UNCHANGED <<error, faults>>
       \/ /\ FailedWrite(config.prev)
          /\ pc' = "done"
          /\ error' = "cleanup"
    /\ UNCHANGED <<zk, config, restart>>

\* finally: write config.prev_content back; a failure here raises and skips
\* the restart that follows it.
RestoreConfig ==
    /\ pc = "restore"
    /\ \/ /\ file' = config.prev
          /\ pc' = IF restart THEN "restart2" ELSE "done"
          /\ UNCHANGED <<error, faults>>
       \/ /\ FailedWrite(config.prev)
          /\ pc' = "done"
          /\ error' = "cleanup"
    /\ UNCHANGED <<zk, config, restart>>

\* The ZooKeeper server process, outside the step's control.
ZkStarted ==
    /\ zk.status = "starting"
    /\ zk' = [zk EXCEPT !.status = "up"]
    /\ UNCHANGED <<file, config, restart, pc, error, faults>>

ZkStartFailed ==
    /\ zk.status = "starting"
    /\ Fault
    /\ zk' = [zk EXCEPT !.status = "down"]
    /\ UNCHANGED <<file, config, restart, pc, error>>

Step ==
    /\ \/ CreateConfig
       \/ WriteConfig
       \/ RestartBegin("restart", "wait")
       \/ WaitReady("wait", "body")
       \/ RestartTimeout("wait", "restore", "setup")
       \/ Body
       \/ RestoreConfig
       \/ RestartBegin("restart2", "wait2")
       \/ WaitReady("wait2", "done")
       \/ RestartTimeout("wait2", "done", "cleanup")
    /\ UNCHANGED original

Server == (ZkStarted \/ ZkStartFailed) /\ UNCHANGED original

Next == Step \/ Server

\* The test runner always takes its next step; the server is not assumed to
\* ever come up, the restart's timeout is what guarantees progress.
Spec == Init /\ [][Next]_vars /\ WF_vars(Step)

-----------------------------------------------------------------------------

TypeOK ==
    /\ file \in Seq(Line)
    /\ zk.status \in {"up", "starting", "down"}
    /\ zk.loaded \in Seq(Line)
    /\ config.content \in Seq(Keys \X Vals)
    /\ config.prev \in Seq(Line)
    /\ restart \in BOOLEAN
    /\ pc \in {"create", "write", "restart", "wait", "body", "restore",
               "restart2", "wait2", "done"}
    /\ error \in {"none", "setup", "cleanup"}
    /\ faults \in 0..MaxFaults
    /\ original \in Seq(Line)

(* The file written by create_zookeeper_config_content means to ZooKeeper  *)
(* what the caller asked for: every key it had, except that each entry     *)
(* overrides its key and an entry of None removes it.                      *)
MergeKeepsUpdate ==
    pc \notin {"create"} /\ config # NoConfig =>
        Effective(config.content) = Override(Effective(config.prev), Entries)

(* When the step has finished and its finally block did not itself raise,  *)
(* zoo.cfg is back to what it was, and ZooKeeper is up and running on it,  *)
(* whichever of the write, the restart or the test body failed before.     *)
RestoredOnExit ==
    pc = "done" /\ error # "cleanup" =>
        /\ file = original
        /\ zk.status = "up"
        /\ zk.loaded = original

(* While the test body runs, zoo.cfg holds the merged content and, when    *)
(* the step restarts ZooKeeper, the server that answers is running on it.  *)
BodySeesNewConfig ==
    pc = "body" =>
        /\ file = config.content
        /\ restart => zk.status = "up" /\ zk.loaded = config.content

(* The step always finishes, even when ZooKeeper never comes back up.      *)
Terminates == <>(pc = "done")

=============================================================================
