---------------------------- MODULE AutoDiscovery ----------------------------
(***************************************************************************)
(* discovery/auto.py: auto_discover_profile.                               *)
(*                                                                         *)
(* One thread lists the USB devices and one probes the ports of all the    *)
(* signatures, each in a thread of its own, while the caller scans for     *)
(* BLE; the caller joins both for a while and scores the signatures with   *)
(* what there is.  The network thread joins its probes one after another,  *)
(* each for as long as all of them were given together, so one slow host   *)
(* can keep it past the caller's patience, and all it found is lost; and   *)
(* probes that it gave up on write into the dictionary it has handed over. *)
(*                                                                         *)
(* A signature stands for a profile, with one USB id, BLE name and port.   *)
(***************************************************************************)
EXTENDS Naturals, FiniteSets, FiniteSetsExt

CONSTANTS Signatures,  \* 1..n, in the order of the manifest
          Confidence   \* of each, in hundredths

ASSUME DiscoverAssumption == /\ Cardinality(Signatures) \in Nat \ {0}
                             /\ Signatures = 1..Cardinality(Signatures)
                             /\ Confidence \in [Signatures -> 0..100]

VARIABLES usbThere, bleThere, portOpen,  \* signatures whose device would be found
          usb,                           \* do_usb: "run" or "done"
          usbIds,                        \* usb_result[0]
          probe,                         \* probe(), per signature
          results,                       \* the dictionary of the open ports, as a set
          netJoins,                      \* do_network: the probe it joins; past the last one it is done
          main,                          \* auto_discover_profile: its place
          bleNames,
          network,                       \* net_result[0] is the dictionary
          known,                         \* what the scans had found when the scoring began
          score,                         \* the score of each signature scored so far
          gaveUp,                        \* a join timed out or a scan failed
          chosen                         \* the profile, or 0 for NoDeviceFoundError

discoverVars == <<usbThere, bleThere, portOpen, usb, usbIds, probe, results, netJoins, main,
                  bleNames, network, known, score, gaveUp, chosen>>

LastSignature == Max(Signatures)

DiscoverInit ==
    /\ usbThere \in SUBSET Signatures /\ bleThere \in SUBSET Signatures
    /\ portOpen \in SUBSET Signatures
    /\ usb = "run" /\ usbIds = {} /\ results = {} /\ netJoins = 1
    /\ probe = [s \in Signatures |-> "run"]
    /\ main = "ble" /\ bleNames = {} /\ network = FALSE
    /\ known = [s \in Signatures |-> 0] /\ score = [s \in Signatures |-> 0]
    /\ gaveUp = FALSE /\ chosen = 0

World == UNCHANGED <<usbThere, bleThere, portOpen>>

\* A tenth of the confidence for each tenth of the weights 1.0, 0.8 and 0.7.
Score(s, ids, names, ports) ==
    Confidence[s] * ((IF s \in ids THEN 10 ELSE 0) + (IF s \in names THEN 8 ELSE 0)
                     + (IF s \in ports THEN 7 ELSE 0))

Ports == IF network THEN results ELSE {}

-----------------------------------------------------------------------------
(* The threads.                                                            *)

OnlyThread == World /\ UNCHANGED <<main, bleNames, network, known, score, chosen>>

\* Neither lsusb nor system_profiler may answer; and what comes when the caller has
\* looked at usb_result is not seen.
ScanUsb(works) == /\ usb = "run" /\ usb' = "done"
                  /\ usbIds' = IF works /\ main \in {"ble", "usb", "net"} THEN usbThere ELSE usbIds
                  /\ gaveUp' = (gaveUp \/ ~works)
                  /\ OnlyThread /\ UNCHANGED <<probe, results, netJoins>>

Probe(s) == /\ probe[s] = "run" /\ probe' = [probe EXCEPT ![s] = "done"]
            /\ results' = IF s \in portOpen THEN results \cup {s} ELSE results
            /\ OnlyThread /\ UNCHANGED <<usb, usbIds, netJoins, gaveUp>>

JoinProbe(timeout) == /\ netJoins \in Signatures /\ netJoins' = netJoins + 1
                      /\ timeout <=> probe[netJoins] = "run"
                      /\ gaveUp' = (gaveUp \/ timeout)
                      /\ OnlyThread /\ UNCHANGED <<usb, usbIds, probe, results>>

-----------------------------------------------------------------------------
(* The caller.                                                             *)

OnlyCaller == World /\ UNCHANGED <<usb, probe, results, netJoins>>

ScanBle(works) == /\ main = "ble" /\ main' = "usb"
                  /\ bleNames' = IF works THEN bleThere ELSE {}
                  /\ gaveUp' = (gaveUp \/ ~works)
                  /\ OnlyCaller /\ UNCHANGED <<usbIds, network, known, score, chosen>>

JoinUsb(timeout) == /\ main = "usb" /\ main' = "net"
                    /\ timeout <=> usb = "run"
                    /\ gaveUp' = (gaveUp \/ timeout)
                    /\ OnlyCaller /\ UNCHANGED <<usbIds, bleNames, network, known, score, chosen>>

\* Deliberate fault: the dictionary is looked at before the thread is joined.
JoinNetwork_Not(timeout) ==
    /\ main = "net" /\ main' = "score"
    /\ network' = ~(netJoins \in Signatures)
    /\ known' = [s \in Signatures |-> Score(s, usbIds, bleNames, IF network' THEN results ELSE {})]
    /\ gaveUp' = (gaveUp \/ timeout)
    /\ OnlyCaller /\ UNCHANGED <<usbIds, bleNames, score, chosen>>

\* The list that do_usb makes later is another one; the dictionary is the same.
JoinNetwork(timeout) ==
    /\ main = "net" /\ main' = "score"
    /\ timeout <=> netJoins \in Signatures
    /\ network' = ~timeout
    /\ gaveUp' = (gaveUp \/ timeout)
    /\ known' = [s \in Signatures |-> Score(s, usbIds, bleNames, IF timeout THEN {} ELSE results)]
    /\ OnlyCaller /\ UNCHANGED <<usbIds, bleNames, score, chosen>>

\* _score_signatures.  usb_ids and ble_names are the caller's own by now.
ScoreOne(s) == /\ main = "score" /\ score[s] = 0
               /\ \A earlier \in 1..(s - 1) : score[earlier] > 0
               /\ score' = [score EXCEPT ![s] = Score(s, usbIds, bleNames, Ports) + 1]
               /\ main' = IF s = LastSignature THEN "choose" ELSE "score"
               /\ OnlyCaller /\ UNCHANGED <<usbIds, bleNames, network, known, gaveUp, chosen>>

\* sort() keeps the manifest's order among equals; no match is an error.
Choose == /\ main = "choose" /\ main' = "returned"
          /\ LET best == {s \in Signatures : \A t \in Signatures : score[t] <= score[s]}
             IN  chosen' = IF score[Min(best)] > 1 THEN Min(best) ELSE 0
          /\ OnlyCaller /\ UNCHANGED <<usbIds, bleNames, network, known, score, gaveUp>>

DiscoverNext == \/ \E works \in BOOLEAN : ScanUsb(works) \/ ScanBle(works)
                \/ \E timeout \in BOOLEAN : JoinProbe(timeout) \/ JoinUsb(timeout)
                                            \/ JoinNetwork(timeout)
                \/ \E s \in Signatures : Probe(s) \/ ScoreOne(s)
                \/ Choose

DiscoverSpec == DiscoverInit /\ [][DiscoverNext]_discoverVars

-----------------------------------------------------------------------------
(* Properties.                                                             *)

\* Every variable keeps the values its comment names.
DiscoverTypeOK == /\ usbIds \subseteq usbThere /\ results \subseteq portOpen
                  /\ netJoins \in 1..(LastSignature + 1) /\ chosen \in Signatures \cup {0}

\* The profile returned is of a device that is there, and none that the scans had
\* found more of when the scoring began is passed over, though probes go on
\* meanwhile; if every scan ended in time it is the best there is, the first of
\* the manifest among equals, and NoDeviceFoundError means that nothing is there.
BestFound ==
    main = "returned" =>
        LET there == [s \in Signatures |-> Score(s, usbThere, bleThere, portOpen)]
        IN  /\ chosen # 0 => there[chosen] > 0
            /\ \A s \in Signatures : known[s] > 0 => chosen # 0 /\ known[s] <= score[chosen] - 1
            /\ ~gaveUp => /\ chosen = 0 <=> \A s \in Signatures : there[s] = 0
                          /\ chosen # 0 => \A s \in Signatures :
                                there[s] < there[chosen] \/ (there[s] = there[chosen] /\ s >= chosen)

=============================================================================
