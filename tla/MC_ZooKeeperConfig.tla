------------------------- MODULE MC_ZooKeeperConfig -------------------------
(* The entries the zookeeper feature passes (reduced to the keys that      *)
(* matter: clientPort removed, secureClientPort added), and the zoo.cfg    *)
(* contents the node may hold before the step.                             *)
EXTENDS ZooKeeperConfig

MCKeys == {"clientPort", "secureClientPort", "dataDir"}
MCVals == {"2181", "2281", "/data"}

MCEntries == << <<"clientPort", None>>, <<"secureClientPort", "2281">> >>

MCCurrentFiles ==
    { << <<"dataDir", "/data">>, <<"clientPort", "2181">> >>,
      << <<"clientPort", "2181">>, <<"secureClientPort", "2181">> >>,
      << <<"dataDir", "/data">> >>,
      << <<"dataDir", NoEq>>, <<"clientPort", "2181">> >> }

\* A zoo.cfg that repeats a key.
MCDuplicateFiles ==
    { << <<"clientPort", "2181">>, <<"dataDir", "/data">>, <<"dataDir", "2181">> >> }
=============================================================================
