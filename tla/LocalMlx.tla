------------------------------ MODULE LocalMlx ------------------------------
(***************************************************************************)
(* transport/mlx.py: LocalMLXTransport.                                    *)
(*                                                                         *)
(* The model is loaded by the first send that needs it and kept; anybody   *)
(* may unload it to have its memory back.  send_async runs send on a       *)
(* thread of the executor, so sends, loads and unloads run at once, and    *)
(* nothing locks the three attributes they share.                          *)
(***************************************************************************)
EXTENDS Naturals

CONSTANTS Senders,  \* the threads
          MaxLoads  \* bound on the models loaded, numbered as loading ends

VARIABLES available,  \* mlx_lm is installed
          model,      \* _model: the load it came from, 0 for None
          tokenizer,  \* _tokenizer, likewise
          loaded,     \* _loaded
          sender,     \* each thread: its place, whether it sends, and what it holds
          loads,      \* models loaded so far
          unloadMet   \* an unload ran at the same time as another call

mlxVars == <<available, model, tokenizer, loaded, sender, loads, unloadMet>>

OutOfMlx == [pc |-> "out", sends |-> FALSE, model |-> 0, tokenizer |-> 0]

MlxInit == /\ available \in BOOLEAN
           /\ model = 0 /\ tokenizer = 0 /\ loaded = FALSE
           /\ sender = [s \in Senders |-> OutOfMlx]
           /\ loads = 0 /\ unloadMet = FALSE

SameHost == UNCHANGED available
Unloading == {"model gone", "tokenizer gone", "flag down"}
InMlx == {s \in Senders : sender[s].pc # "out"}
StepMlx(s, from, to) == sender[s].pc = from /\ sender' = [sender EXCEPT ![s].pc = to]
OnlySender == SameHost /\ UNCHANGED <<model, tokenizer, loaded, loads, unloadMet>>

-----------------------------------------------------------------------------
(* send and load_model.                                                    *)

BeginMlx(s, sends, to) ==
    /\ sender[s] = OutOfMlx
    /\ sender' = [sender EXCEPT ![s] = [OutOfMlx EXCEPT !.pc = to, !.sends = sends]]
    /\ unloadMet' = (unloadMet \/ \/ to = "model gone" /\ InMlx # {}
                                  \/ \E t \in InMlx : sender[t].pc \in Unloading)
    /\ SameHost /\ UNCHANGED <<model, tokenizer, loaded, loads>>

\* Without mlx_lm a send goes to the fallback, or raises.
SendMlx(s) == BeginMlx(s, TRUE, IF available THEN "test" ELSE "elsewhere")
SendElsewhere(s) == /\ sender[s].pc = "elsewhere" /\ sender' = [sender EXCEPT ![s] = OutOfMlx]
                /\ OnlySender

\* A model that is loaded already is not asked whether mlx_lm is there.
LoadModel(s) == BeginMlx(s, FALSE, "test")

TestLoaded(s) ==
    /\ sender[s].pc = "test"
    /\ sender' = CASE ~loaded -> [sender EXCEPT ![s].pc = "load"]
                   [] loaded /\ sender[s].sends -> [sender EXCEPT ![s].pc = "read"]
                   [] OTHER -> [sender EXCEPT ![s] = OutOfMlx]
    /\ OnlySender

\* Deliberate fault: the flag goes up before the model is there.
LoadWeights_FlagFirst(s) == /\ sender[s].pc = "load" /\ available /\ loads < MaxLoads
                     /\ loads' = loads + 1 /\ loaded' = TRUE
                     /\ sender' = [sender EXCEPT ![s].pc = "store", ![s].model = loads',
                                                 ![s].tokenizer = loads']
                     /\ SameHost /\ UNCHANGED <<model, tokenizer, unloadMet>>

\* mlx_lm.load, which takes seconds.
LoadWeights(s) == /\ sender[s].pc = "load" /\ available /\ loads < MaxLoads
           /\ loads' = loads + 1
           /\ sender' = [sender EXCEPT ![s].pc = "store", ![s].model = loads',
                                       ![s].tokenizer = loads']
           /\ SameHost /\ UNCHANGED <<model, tokenizer, loaded, unloadMet>>

\* It is not installed, or does not know the model.
LoadRaises(s) == /\ sender[s].pc = "load"
                 /\ sender' = [sender EXCEPT ![s] = OutOfMlx]
                 /\ OnlySender

\* self._model, self._tokenizer = ...
StoreModel(s) == /\ StepMlx(s, "store", "store tokenizer") /\ model' = sender[s].model
                 /\ SameHost /\ UNCHANGED <<tokenizer, loaded, loads, unloadMet>>

StoreTokenizer(s) == /\ StepMlx(s, "store tokenizer", "set") /\ tokenizer' = sender[s].tokenizer
                     /\ SameHost /\ UNCHANGED <<model, loaded, loads, unloadMet>>

SetLoaded(s) ==
    /\ sender[s].pc = "set" /\ loaded' = TRUE
    /\ sender' = IF sender[s].sends THEN [sender EXCEPT ![s].pc = "read"]
                 ELSE [sender EXCEPT ![s] = OutOfMlx]
    /\ SameHost /\ UNCHANGED <<model, tokenizer, loads, unloadMet>>

\* The arguments of generate, one attribute after the other.
ReadModel(s) == /\ sender[s].pc = "read"
                /\ sender' = [sender EXCEPT ![s].pc = "read tokenizer", ![s].model = model]
                /\ OnlySender

ReadTokenizer(s) == /\ sender[s].pc = "read tokenizer"
                    /\ sender' = [sender EXCEPT ![s].pc = "generate", ![s].tokenizer = tokenizer]
                    /\ OnlySender

\* The answer, or an exception.
GenerateText(s) == /\ sender[s].pc = "generate"
               /\ sender' = [sender EXCEPT ![s] = OutOfMlx]
               /\ OnlySender

-----------------------------------------------------------------------------
(* unload_model.                                                           *)

UnloadModel(s) == BeginMlx(s, FALSE, "model gone")

DropModel(s) == /\ StepMlx(s, "model gone", "tokenizer gone") /\ model' = 0
                /\ SameHost /\ UNCHANGED <<tokenizer, loaded, loads, unloadMet>>

DropTokenizer(s) == /\ StepMlx(s, "tokenizer gone", "flag down") /\ tokenizer' = 0
                    /\ SameHost /\ UNCHANGED <<model, loaded, loads, unloadMet>>

ClearLoaded(s) == /\ StepMlx(s, "flag down", "out") /\ loaded' = FALSE
                  /\ SameHost /\ UNCHANGED <<model, tokenizer, loads, unloadMet>>

MlxNext == \E s \in Senders :
              \/ SendMlx(s) \/ SendElsewhere(s) \/ LoadModel(s) \/ TestLoaded(s) \/ LoadWeights(s)
              \/ LoadRaises(s) \/ StoreModel(s) \/ StoreTokenizer(s) \/ SetLoaded(s)
              \/ ReadModel(s) \/ ReadTokenizer(s) \/ GenerateText(s)
              \/ UnloadModel(s) \/ DropModel(s) \/ DropTokenizer(s) \/ ClearLoaded(s)

MlxSpec == MlxInit /\ [][MlxNext]_mlxVars

-----------------------------------------------------------------------------
(* Properties.                                                             *)

\* Every variable keeps the values its comment names.
MlxTypeOK == /\ {model, tokenizer} \subseteq 0..loads /\ loads \in 0..MaxLoads
             /\ \A s \in Senders : {sender[s].model, sender[s].tokenizer} \subseteq 0..loads

\* However many sends, loads and loads that fail run at once: as long as no
\* unload met another call, generate is given a model and a tokenizer, and a
\* transport that says it is loaded has both.  (An unload that meets a load
\* may leave it saying so for ever without either.)
LoadedHasModel ==
    ~unloadMet => /\ (loaded /\ \A s \in InMlx : sender[s].pc \notin Unloading)
                       => model # 0 /\ tokenizer # 0
                  /\ \A s \in Senders : sender[s].pc = "generate"
                                          => sender[s].model # 0 /\ sender[s].tokenizer # 0

=============================================================================
