------------------------- MODULE MCHalOrchestrator -------------------------
(* Instance of HalOrchestrator for TLC.                                    *)
EXTENDS HalOrchestrator

CONSTANTS e1, e2, h1, h2

HooksAt(s, list) == [x \in Stage |-> IF x = s THEN list ELSE <<>>]

(* One setup per policy, and one with the edges retry_count = 0 and no     *)
(* timeout.  The default policy meets the changing hook list and a second  *)
(* run() while the first one's pipelines are in flight; each optional HAL  *)
(* is present in one setup and absent in another.                          *)
MCSetups ==
  { [error_policy |-> "continue", retry_count |-> 3, timeout |-> TRUE,
     hals |-> {}, hooks |-> HooksAt("CAPTURE", <<h1, h2>>),
     changes |-> {<<"CAPTURE", h1>>}, runs |-> 2, once |-> {}],
    [error_policy |-> "abort", retry_count |-> 3, timeout |-> TRUE,
     hals |-> {"display"}, hooks |-> HooksAt("ACTUATE", <<h1, h2>>),
     changes |-> {}, runs |-> 1, once |-> {e1}],
    [error_policy |-> "retry", retry_count |-> 2, timeout |-> TRUE,
     hals |-> {"classifier"}, hooks |-> HooksAt("CLASSIFY", <<h1, h2>>),
     changes |-> {}, runs |-> 1, once |-> {}],
    [error_policy |-> "retry", retry_count |-> 0, timeout |-> FALSE,
     hals |-> {"microphone"}, hooks |-> HooksAt("TRIGGER", <<h1>>),
     changes |-> {}, runs |-> 1, once |-> {e2}] }
============================================================================
