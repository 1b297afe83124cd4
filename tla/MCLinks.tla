------------------------------- MODULE MCLinks -------------------------------
(* Six components on the way from a device to the agent and back, each on *)
(* its own: Init picks the one that runs, the others stay as they began.   *)
(* Two threads over one link, with a window of one result; three handles,  *)
(* two of one id; three packets; two calls; two threads over one model;    *)
(* two packets in fragments, one a chunk too long for its count to fit.    *)
EXTENDS UnifiedTransport, MultiDevice, WiFiClient, SttBridge, LocalMlx, Fragmenter,
        TLC

CONSTANTS t1, t2, glasses, spare, robot, c1, c2, r1, k1, k2, h1, h2, m1, m2
MCThreads == {t1, t2}
MCHandles == {glasses, spare, robot}
MCDeviceId == glasses :> 1 @@ spare :> 1 @@ robot :> 2
MCCapabilities == glasses :> {"display", "audio_output"} @@ spare :> {"display"}
                    @@ robot :> {"actuator", "audio_output"}
MCClients == {c1, c2}
MCRouters == {r1}
MCBody == <<1, 2, 1>>
MCCalls == {k1, k2}
MCSenders == {h1, h2}
MCMessages == {m1, m2}
MCChunks == m1 :> 3 @@ m2 :> 4
MCCopies == m1 :> 2 @@ m2 :> 1
MCKey == m1 :> 1 @@ m2 :> 2

VARIABLE part
mcVars == <<linkVars, fleetVars, wifiVars, sttVars, mlxVars, vars, part>>

MCInit == /\ part \in {"link", "fleet", "wifi", "stt", "mlx", "ble"}
          /\ part # "link" => config = [onError |-> FALSE, threshold |-> FALSE]
          /\ part # "stt" => mode = [c \in Calls |-> "sync"]
          /\ part # "mlx" => available = TRUE
          /\ LinkInit /\ FleetInit /\ WifiInit /\ SttInit /\ MlxInit /\ Init

MCNext ==
    /\ part' = part
    /\ \/ part = "link" /\ LinkNext
          /\ UNCHANGED <<fleetVars, wifiVars, sttVars, mlxVars, vars>>
       \/ part = "fleet" /\ FleetNext
          /\ UNCHANGED <<linkVars, wifiVars, sttVars, mlxVars, vars>>
       \/ part = "wifi" /\ WifiNext
          /\ UNCHANGED <<linkVars, fleetVars, sttVars, mlxVars, vars>>
       \/ part = "stt" /\ SttNext
          /\ UNCHANGED <<linkVars, fleetVars, wifiVars, mlxVars, vars>>
       \/ part = "mlx" /\ MlxNext
          /\ UNCHANGED <<linkVars, fleetVars, wifiVars, sttVars, vars>>
       \/ part = "ble" /\ Next
          /\ UNCHANGED <<linkVars, fleetVars, wifiVars, sttVars, mlxVars>>

MCSpec == MCInit /\ [][MCNext]_mcVars
=============================================================================
