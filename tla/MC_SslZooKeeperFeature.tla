----------------------- MODULE MC_SslZooKeeperFeature -----------------------
(* The feature's entries (clientPort removed, secureClientPort added) on a *)
(* zoo.cfg with a plain client port, with and without other settings.     *)
EXTENDS SslZooKeeperFeature

MCKeys == {"clientPort", "secureClientPort", "dataDir"}
MCVals == {"2181", "2281", "/data"}

MCEntries == << <<"clientPort", None>>, <<"secureClientPort", "2281">> >>

MCCurrentFiles ==
    { << <<"dataDir", "/data">>, <<"clientPort", "2181">> >>,
      << <<"clientPort", "2181">> >> }
=============================================================================
