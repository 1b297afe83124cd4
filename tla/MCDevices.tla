------------------------------ MODULE MCDevices ------------------------------
(* The parts of the device HALs and profiles, and of the context they      *)
(* feed, each on its own: Init picks the one that runs, the others stay as *)
(* they began.  Two threads drive each HAL; a microphone buffer holds two  *)
(* frames of four; the Pi speaks with two sounds, and over BLE three       *)
(* coroutines send payloads of two chunks.                                 *)
EXTENDS MicrophoneHals, TransportHals, PiAudioOutput, HealthMonitor, PiBleLink, PoseSensors,
        IosReceiver, HeadsetFeeds, PhotoChunks, AutoDiscovery, SensorFusion, TLC

CONSTANTS p1, p2, c1, c2, s1, s2, r1, r2, m1, m2, u1, u2, j1, j2, j3, l1, l2, q1, q2,
          v1, v2, e1, e2, d1, d2, w1, w2
MCMicKinds == {"reachy", "pi", "openglass", "g2", "rayban", "ios"}
MCTransportKinds == {"pi", "reachy", "reachy2", "oakd", "frame", "g2", "attachment",
                     "rayban", "avp", "openglass", "go2",
                     "rayban_mock", "avp_mock", "openglass_mock", "go2_mock"}
MCPollers == {p1, p2}
MCCallers == {c1, c2}
MCSounds == {s1, s2}
MCRegistrars == {r1, r2}
MCMonitors == {m1, m2}
MCUsers == {u1, u2}
MCJobs == {j1, j2, j3}
MCRadio == {l1, l2}
MCMotionKinds == {"reachy", "reachy2", "frame", "oakd", "g2"}
MCProbes == {q1, q2}
MCServers == {v1, v2}
MCPosters == {e1, e2}
MCReaders == {d1, d2}
MCSockets == {w1, w2}
MCHeadsetKinds == {"rayban", "avp"}
MCSignatures == {1, 2}
MCConfidence == <<80, 100>>
MCCounts == 0..3

VARIABLE part
mcVars == <<micVars, transportVars, audioVars, healthVars, bleVars, motionVars,
            iosVars, headsetVars, photoVars, discoverVars, fusionVars, part>>

\* The part that runs is free in what it begins with, the others are not.
MCInit == /\ part \in {"mic", "transport", "audio", "health", "ble", "pose",
                     "ios", "headset", "photo", "discover", "fusion"}
          /\ part # "mic" => mic = "pi"
          /\ part # "transport" => hal = PiWiFiTransport
          /\ part # "pose" => sensor = ReachyMotionTracker
          /\ part # "headset" => headset = "avp"
          /\ part # "discover" => usbThere = {} /\ bleThere = {} /\ portOpen = {}
          /\ part # "fusion" => channels = CHOOSE c \in Inputs : TRUE
          /\ MicInit /\ TransportInit /\ AudioInit /\ HealthInit /\ BleInit /\ MotionInit
          /\ IosInit /\ HeadsetInit /\ PhotoInit /\ DiscoverInit /\ FusionInit

MCNext ==
    /\ part' = part
    /\ \/ part = "mic" /\ MicNext
          /\ UNCHANGED <<transportVars, audioVars, healthVars, bleVars, motionVars,
                         iosVars, headsetVars, photoVars, discoverVars, fusionVars>>
       \/ part = "transport" /\ TransportNext
          /\ UNCHANGED <<micVars, audioVars, healthVars, bleVars, motionVars,
                         iosVars, headsetVars, photoVars, discoverVars, fusionVars>>
       \/ part = "audio" /\ AudioNext
          /\ UNCHANGED <<micVars, transportVars, healthVars, bleVars, motionVars,
                         iosVars, headsetVars, photoVars, discoverVars, fusionVars>>
       \/ part = "health" /\ HealthNext
          /\ UNCHANGED <<micVars, transportVars, audioVars, bleVars, motionVars,
                         iosVars, headsetVars, photoVars, discoverVars, fusionVars>>
       \/ part = "ble" /\ BleNext
          /\ UNCHANGED <<micVars, transportVars, audioVars, healthVars, motionVars,
                         iosVars, headsetVars, photoVars, discoverVars, fusionVars>>
       \/ part = "pose" /\ MotionNext
          /\ UNCHANGED <<micVars, transportVars, audioVars, healthVars, bleVars,
                         iosVars, headsetVars, photoVars, discoverVars, fusionVars>>
       \/ part = "ios" /\ IosNext
          /\ UNCHANGED <<micVars, transportVars, audioVars, healthVars, bleVars,
                         motionVars, headsetVars, photoVars, discoverVars, fusionVars>>
       \/ part = "headset" /\ HeadsetNext
          /\ UNCHANGED <<micVars, transportVars, audioVars, healthVars, bleVars,
                         motionVars, iosVars, photoVars, discoverVars, fusionVars>>
       \/ part = "photo" /\ PhotoNext
          /\ UNCHANGED <<micVars, transportVars, audioVars, healthVars, bleVars,
                         motionVars, iosVars, headsetVars, discoverVars, fusionVars>>
       \/ part = "discover" /\ DiscoverNext
          /\ UNCHANGED <<micVars, transportVars, audioVars, healthVars, bleVars,
                         motionVars, iosVars, headsetVars, photoVars, fusionVars>>
       \/ part = "fusion" /\ FusionNext
          /\ UNCHANGED <<micVars, transportVars, audioVars, healthVars, bleVars,
                         motionVars, iosVars, headsetVars, photoVars, discoverVars>>

MCSpec == MCInit /\ [][MCNext]_mcVars

\* The coroutines are interchangeable, and so are the threads of a microphone.
MCSymmetry == Permutations(MCJobs) \cup Permutations(MCPollers)
=============================================================================
