-------------------------- MODULE MCEmbodimentSDK --------------------------
EXTENDS EmbodimentSDK

CONSTANTS r1, c1, c2

\* Restarts of a full registry, and a response with callbacks that come and go.
MCSetups ==
  {[hals |-> {"microphone", "classifier", "display"}, starts |-> 2,
    responses |-> {}, handlers |-> {}],
   [hals |-> {}, starts |-> 1, responses |-> {r1}, handlers |-> {c1, c2}]}
============================================================================
