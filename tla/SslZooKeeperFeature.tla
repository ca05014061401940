------------------------- MODULE SslZooKeeperFeature -------------------------
(***************************************************************************)
(* The zookeeper feature of ssl_server/tests/zookeeper.py: it creates the  *)
(* ZooKeeper server key and certificate in /keystore.jks, trusts the CA in *)
(* /truststore.jks, configures ClickHouse as an SSL client, switches       *)
(* ZooKeeper to its secure port (the ZooKeeperConfig step), points         *)
(* ClickHouse at that port and checks the connection.  The Given steps     *)
(* that registered a cleanup are undone in reverse order when the feature  *)
(* ends or a step raises.  The feature may be run again on the same nodes. *)
(*                                                                         *)
(* The ZooKeeper config step is the ZooKeeperConfig module, instantiated   *)
(* on this module's variables; its test body is the rest of the feature.   *)
(***************************************************************************)
EXTENDS Naturals, Sequences, FiniteSets

CONSTANTS Keys, Vals, None, NoEq, CurrentFiles, Entries, MaxFaults,
          Runs       \* how many times the feature is run on the same nodes

ASSUME Runs \in Nat \ {0}

VARIABLES file, zk, config, restart, pc, error, faults, original

VARIABLES
    fpc,        \* where the feature is
    stack,      \* the cleanups registered so far, the latest first
    ks,         \* aliases in /keystore.jks on the ZooKeeper node
    ts,         \* aliases in /truststore.jks on the ZooKeeper node
    chFile,     \* ClickHouse's zookeeper config.d file: plain or secure
    ch,         \* ClickHouse: the zookeeper config it runs with
    sslClient,  \* ClickHouse's SSL client configuration is in place
    checked,    \* the connection check ran and succeeded in this run
    failed,     \* a step of this run raised
    cleanupErr, \* the parts whose cleanup raised, in this run or an earlier one
    run,        \* the run number
    results     \* the result of each finished run

zcVars == <<file, zk, config, restart, pc, error, faults, original>>
fVars == <<fpc, stack, ks, ts, chFile, ch, sslClient, checked, failed,
           cleanupErr, run, results>>
vars == <<zcVars, fVars>>

ZC == INSTANCE ZooKeeperConfig

-----------------------------------------------------------------------------
(* What ZooKeeper listens on, and whether ClickHouse reaches it.           *)

PlainListener(cfg) == "clientPort" \in DOMAIN ZC!Effective(cfg)
SecureListener(cfg) == "secureClientPort" \in DOMAIN ZC!Effective(cfg)

Connected ==
    /\ zk.status = "up"
    /\ ch = "plain" => PlainListener(zk.loaded)
    /\ ch = "secure" => SecureListener(zk.loaded) /\ sslClient
                        /\ "server" \in ks

-----------------------------------------------------------------------------

Init ==
    /\ ZC!Init
    /\ restart = TRUE
    /\ fpc = "ssl"
    /\ stack = <<>>
    /\ ks = {}
    /\ ts = {}
    /\ chFile = "plain"
    /\ ch = "plain"
    /\ sslClient = FALSE
    /\ checked = FALSE
    /\ failed = FALSE
    /\ cleanupErr = {}
    /\ run = 1
    /\ results = <<>>

zcRest == <<file, zk, config, restart, pc, error, original>>

\* Variant of an exception that leaves the feature without its cleanups.
RaiseNoCleanup == fpc' = "aborted" /\ failed' = TRUE

\* A step raised: skip the rest of the feature and run the cleanups.
Raise == fpc' = "cleanup" /\ failed' = TRUE

\* Move from one step of the feature to the next, or raise on a fault.
StepOrFault(from, to) ==
    /\ fpc = from
    /\ \/ fpc' = to /\ UNCHANGED <<failed, faults>>
       \/ ZC!Fault /\ Raise

\* keytool -importcert / -genkeypair with exitcode=0: it exits non-zero,
\* and the step raises, when the alias is already in the store.
AddAlias(store, alias, from, to) ==
    /\ fpc = from
    /\ IF alias \in store
         THEN Raise /\ UNCHANGED <<store, faults>>
         ELSE \/ store' = store \cup {alias} /\ fpc' = to
                 /\ UNCHANGED <<failed, faults>>
              \/ ZC!Fault /\ Raise /\ UNCHANGED store

\* enable_ssl, the ClickHouse client key and certificate, the CA on the
\* ZooKeeper node and the copy of the CA key.
SslSetup ==
    /\ StepOrFault("ssl", "genkey")
    /\ UNCHANGED <<zcRest, stack, ks, ts, chFile, ch, sslClient, checked,
                   cleanupErr, run, results>>

\* create_zookeeper_crt_and_key: keytool -genkeypair -alias {name}.
GenKeyPair ==
    /\ AddAlias(ks, "server", "genkey", "sign")
    /\ UNCHANGED <<zcRest, stack, ts, chFile, ch, sslClient, checked,
                   cleanupErr, run, results>>

\* keytool -certreq, sign_certificate with the CA, validate_certificate.
SignCertificate ==
    /\ StepOrFault("sign", "importca")
    /\ UNCHANGED <<zcRest, stack, ks, ts, chFile, ch, sslClient, checked,
                   cleanupErr, run, results>>

\* add_certificate_to_zookeeper_truststore(alias="ca", keystore=keystore).
ImportCaCertificate ==
    /\ AddAlias(ks, "ca", "importca", "importsrv")
    /\ UNCHANGED <<zcRest, stack, ts, chFile, ch, sslClient, checked,
                   cleanupErr, run, results>>

\* add_certificate_to_zookeeper_truststore(alias="server", ...): the signed
\* certificate is a reply to the key entry "server", which keytool accepts.
ImportServerCertificate ==
    /\ StepOrFault("importsrv", "trust")
    /\ UNCHANGED <<zcRest, stack, ks, ts, chFile, ch, sslClient, checked,
                   cleanupErr, run, results>>

\* add_certificate_to_zookeeper_truststore(alias="my_own_ca").
TrustCa ==
    /\ AddAlias(ts, "my_own_ca", "trust", "sslclient")
    /\ UNCHANGED <<zcRest, stack, ks, chFile, ch, sslClient, checked,
                   cleanupErr, run, results>>

\* add_ssl_client_configuration_file: a Given step with a cleanup.
SslClientConfig ==
    /\ fpc = "sslclient"
    /\ \/ /\ sslClient' = TRUE
          /\ stack' = <<"sslclient">> \o stack
          /\ fpc' = "zkconfig"
          /\ UNCHANGED <<failed, faults>>
       \/ ZC!Fault /\ Raise /\ UNCHANGED <<sslClient, stack>>
    /\ UNCHANGED <<zcRest, ks, ts, chFile, ch, checked, cleanupErr, run,
                   results>>

\* Variant that only drives the step during the feature's setup.
ZkPhaseSetupOnly == fpc = "zkconfig" /\ pc \notin {"body", "done"}

\* add_zookeeper_configuration_file(entries): the ZooKeeperConfig step runs
\* up to its yield, and again from there when its cleanup is due.
ZkPhase ==
    \/ fpc = "zkconfig" /\ pc \notin {"body", "done"}
    \/ fpc = "cleanup" /\ stack # <<>> /\ Head(stack) = "zkconfig"
       /\ pc # "done"

\* The ZooKeeper step's finally block raised (add_zookeeper_config).
ZkCleanupErr == IF error = "cleanup" THEN cleanupErr \cup {"zkconfig"} ELSE cleanupErr

ZkConfigStep == ZkPhase /\ ZC!Step /\ UNCHANGED fVars

ZkConfigYielded ==
    /\ fpc = "zkconfig"
    /\ pc = "body"
    /\ stack' = <<"zkconfig">> \o stack
    /\ fpc' = "chconfig"
    /\ UNCHANGED <<zcVars, ks, ts, chFile, ch, sslClient, checked, failed,
                   cleanupErr, run, results>>

\* The step raised before its yield; its finally block has already run,
\* and may itself have raised.
ZkConfigRaised ==
    /\ fpc = "zkconfig"
    /\ pc = "done"
    /\ Raise
    /\ cleanupErr' = ZkCleanupErr
    /\ UNCHANGED <<zcVars, stack, ks, ts, chFile, ch, sslClient, checked,
                   run, results>>

\* add_secure_zookeeper_configuration_file(restart=True): write
\* zookeeper_secure.xml (port 2281, secure 1) and restart ClickHouse.
ChConfigApply ==
    /\ fpc = "chconfig"
    /\ \/ /\ chFile' = "secure"
          /\ ch' = "secure"
          /\ stack' = <<"chconfig">> \o stack
          /\ fpc' = "check"
          /\ UNCHANGED <<failed, faults>>
       \/ ZC!Fault /\ Raise /\ UNCHANGED <<chFile, ch, stack>>
    /\ UNCHANGED <<zcRest, ks, ts, sslClient, checked, cleanupErr, run,
                   results>>

\* check_clickhouse_connection_to_zookeeper: SELECT from system.zookeeper.
Check ==
    /\ fpc = "check"
    /\ checked' = Connected
    /\ fpc' = "cleanup"
    /\ failed' = ~Connected
    /\ UNCHANGED <<zcVars, stack, ks, ts, chFile, ch, sslClient, cleanupErr,
                   run, results>>

Pop == stack' = Tail(stack)

CleanupSslClient ==
    /\ fpc = "cleanup"
    /\ stack # <<>> /\ Head(stack) = "sslclient"
    /\ Pop
    /\ \/ sslClient' = FALSE /\ UNCHANGED <<cleanupErr, faults>>
       \/ ZC!Fault /\ cleanupErr' = cleanupErr \cup {"sslclient"} /\ UNCHANGED sslClient
    /\ UNCHANGED <<zcRest, fpc, ks, ts, chFile, ch, checked, failed, run,
                   results>>

\* add_config's cleanup: restore the file, restart ClickHouse; a failed
\* restart leaves ClickHouse on the secure config.
CleanupChConfig ==
    /\ fpc = "cleanup"
    /\ stack # <<>> /\ Head(stack) = "chconfig"
    /\ Pop
    /\ chFile' = "plain"
    /\ \/ ch' = "plain" /\ UNCHANGED <<cleanupErr, faults>>
       \/ ZC!Fault /\ cleanupErr' = cleanupErr \cup {"chconfig"} /\ UNCHANGED ch
    /\ UNCHANGED <<zcRest, fpc, ks, ts, sslClient, checked, failed, run,
                   results>>

\* Variant in which a raising cleanup ends the cleanups: those registered
\* before it never run.
CleanupZkConfigAbort ==
    /\ fpc = "cleanup"
    /\ stack # <<>> /\ Head(stack) = "zkconfig"
    /\ pc = "done"
    /\ stack' = IF error = "cleanup" THEN <<>> ELSE Tail(stack)
    /\ cleanupErr' = ZkCleanupErr
    /\ UNCHANGED <<zcVars, fpc, ks, ts, chFile, ch, sslClient, checked,
                   failed, run, results>>

\* The ZooKeeper config step's finally block has run; whether or not it
\* raised, the cleanups registered before it run next.
CleanupZkConfig ==
    /\ fpc = "cleanup"
    /\ stack # <<>> /\ Head(stack) = "zkconfig"
    /\ pc = "done"
    /\ Pop
    /\ cleanupErr' = ZkCleanupErr
    /\ UNCHANGED <<zcVars, fpc, ks, ts, chFile, ch, sslClient, checked,
                   failed, run, results>>

EndRun ==
    /\ fpc = "cleanup"
    /\ stack = <<>>
    /\ fpc' = "end"
    /\ results' = Append(results, IF failed THEN "fail" ELSE "pass")
    /\ UNCHANGED <<zcVars, stack, ks, ts, chFile, ch, sslClient, checked,
                   failed, cleanupErr, run>>

\* The feature runs again on the same nodes: the keystores and config
\* files are as the previous run left them.
Rerun ==
    /\ fpc = "end"
    /\ run < Runs
    /\ run' = run + 1
    /\ fpc' = "ssl"
    /\ checked' = FALSE
    /\ failed' = FALSE
    /\ config' = ZC!NoConfig
    /\ pc' = "create"
    /\ error' = "none"
    /\ original' = file
    /\ UNCHANGED <<file, zk, restart, faults, stack, ks, ts, chFile, ch,
                   sslClient, cleanupErr, results>>

Feature ==
    \/ SslSetup
    \/ GenKeyPair
    \/ SignCertificate
    \/ ImportCaCertificate
    \/ ImportServerCertificate
    \/ TrustCa
    \/ SslClientConfig
    \/ ZkConfigStep
    \/ ZkConfigYielded
    \/ ZkConfigRaised
    \/ ChConfigApply
    \/ Check
    \/ CleanupSslClient
    \/ CleanupChConfig
    \/ CleanupZkConfig
    \/ EndRun
    \/ Rerun

Next == Feature \/ (ZC!Server /\ UNCHANGED fVars)

Spec == Init /\ [][Next]_vars /\ WF_vars(Feature)

-----------------------------------------------------------------------------

TypeOK ==
    /\ ZC!TypeOK
    /\ fpc \in {"ssl", "genkey", "sign", "importca", "importsrv", "trust",
                "sslclient", "zkconfig", "chconfig", "check", "cleanup", "end"}
    /\ stack \in Seq({"sslclient", "zkconfig", "chconfig"})
    /\ ks \subseteq {"server", "ca"}
    /\ ts \subseteq {"my_own_ca"}
    /\ chFile \in {"plain", "secure"}
    /\ ch \in {"plain", "secure"}
    /\ {sslClient, checked, failed} \subseteq BOOLEAN
    /\ cleanupErr \subseteq {"sslclient", "zkconfig", "chconfig"}
    /\ run \in 1..Runs
    /\ results \in Seq({"pass", "fail"})

(* When the connection check is about to succeed, ClickHouse talks to     *)
(* ZooKeeper over TLS and ZooKeeper no longer accepts plain connections:   *)
(* the check exercises what the feature claims to configure.               *)
CheckOverTlsOnly ==
    fpc = "check" /\ Connected =>
        /\ ch = "secure"
        /\ ~PlainListener(zk.loaded)

(* When a run has ended, every part whose cleanup did not raise (in this  *)
(* run or an earlier one) is back to its original configuration, however  *)
(* the others' cleanups failed: a zoo.cfg restore that raises does not    *)
(* keep the ClickHouse config or the SSL client from being put back.  With *)
(* no cleanup error at all, ClickHouse reaches ZooKeeper again.            *)
LeftAsFound ==
    fpc = "end" =>
        /\ "zkconfig" \notin cleanupErr =>
              file = original /\ zk.status = "up" /\ zk.loaded = original
        /\ "chconfig" \notin cleanupErr => chFile = "plain" /\ ch = "plain"
        /\ "sslclient" \notin cleanupErr => ~sslClient
        /\ cleanupErr = {} => Connected

(* Every run of the feature ends.                                         *)
FeatureEnds == <>(fpc = "end" /\ run = Runs)

(* Without faults, running the feature again on the same nodes gives the  *)
(* result of the first run.                                                *)
RerunLikeFirst ==
    fpc = "end" /\ run = 2 /\ faults = 0 => results[2] = results[1]

=============================================================================
