-------------------------- MODULE MCDiscoveryLoop --------------------------
EXTENDS DiscoveryLoop

CONSTANTS m1, m2

MCEntity == ({"ambient"} \X {"audio", "visual"}) \cup ({"person"} \X {"audio", "visual"})
            \cup ({"ble", "known"} \X Mac)

\* HALF_LIVES in ticks of 30 seconds.
MCHalfLife(e) == CASE e = <<"person", "audio">>  -> 4
                   [] e = <<"person", "visual">> -> 2
                   [] e[1] = "known"             -> 10
                   [] OTHER                      -> 1

MCSound == {[class |-> "silence", confidence |-> 5], [class |-> "speech", confidence |-> 80]}
MCView == {[mean |-> 20, confidence |-> 30, people |-> FALSE],
           [mean |-> 120, confidence |-> 70, people |-> TRUE]}

MCSetups == {[sensors |-> {"ble", "mic"}, duration |-> 0],
             [sensors |-> {"mic", "camera"}, duration |-> 3],
             [sensors |-> {"ble"}, duration |-> 2]}
============================================================================
