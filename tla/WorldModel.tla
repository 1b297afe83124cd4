----------------------------- MODULE WorldModel -----------------------------
(***************************************************************************)
(* discovery/world_model.py: the entities seen lately, with a confidence   *)
(* that decays linearly from the last observation.  An update refreshes    *)
(* what was observed and then demotes what has decayed below the floor.    *)
(*                                                                         *)
(* An entity is a pair of a kind and a value.  Confidence is in per cent;  *)
(* descriptions, narrative and the history of snapshots, which only the    *)
(* wording of a report uses, are left out.                                 *)
(***************************************************************************)
EXTENDS Integers

CONSTANTS
  Entity,       \* <<"ambient", "audio">>, <<"person", "visual">>, <<"ble", mac>>, ...
  HalfLife(_)   \* ticks after which an entity's confidence is 0: HALF_LIVES

Percent == 0 .. 100
Floor == 20     \* CONFIDENCE_FLOOR

ASSUME WorldAssumption == \A e \in Entity : HalfLife(e) \in Nat \ {0}

VARIABLES
  entityStates,  \* the entities in self.entity_states
  lastKnown,     \* the entities in self.last_known
  lastSeen,      \* EntityState.last_seen
  initial,       \* EntityState.initial_confidence
  lastUpdated,   \* self.last_updated
  observed       \* history variable: every entity observed in this session

worldVars == <<entityStates, lastKnown, lastSeen, initial, lastUpdated, observed>>

WorldTypeOK ==
  /\ entityStates \subseteq Entity /\ lastKnown \subseteq Entity /\ observed \subseteq Entity
  /\ lastSeen \in [Entity -> Nat] /\ initial \in [Entity -> Percent]
  /\ lastUpdated \in Nat

EmptyWorld ==
  /\ entityStates = {} /\ lastKnown = {} /\ observed = {}
  /\ lastSeen = [e \in Entity |-> 0] /\ initial = [e \in Entity |-> 0]
  /\ lastUpdated = 0

ForgetWorld ==
  /\ entityStates' = {} /\ lastKnown' = {} /\ observed' = {}
  /\ lastSeen' = [e \in Entity |-> 0] /\ initial' = [e \in Entity |-> 0]
  /\ lastUpdated' = 0

----------------------------------------------------------------------------
\* current_confidence is below the floor, for a confidence c of `age` ticks ago.
Faded(c, age, halfLife) == age >= halfLife \/ c * (halfLife - age) < Floor * halfLife

\* Deliberate fault: an entity seen again is not taken out of last_known.
UpdateEntities_Kept(t, obs) ==
  LET active == entityStates \cup DOMAIN obs
      seen == [e \in Entity |-> IF e \in DOMAIN obs THEN t ELSE lastSeen[e]]
      conf == [e \in Entity |-> IF e \in DOMAIN obs THEN obs[e] ELSE initial[e]]
      faded == {e \in active : Faded(conf[e], t - seen[e], HalfLife(e))}
  IN  /\ lastSeen' = seen /\ initial' = conf
      /\ entityStates' = active \ faded
      /\ lastKnown' = lastKnown \cup faded

\* _upsert_entity for what was observed, each with its confidence, and _decay_entities.
UpdateEntities(t, obs) ==
  LET active == entityStates \cup DOMAIN obs
      seen == [e \in Entity |-> IF e \in DOMAIN obs THEN t ELSE lastSeen[e]]
      conf == [e \in Entity |-> IF e \in DOMAIN obs THEN obs[e] ELSE initial[e]]
      faded == {e \in active : Faded(conf[e], t - seen[e], HalfLife(e))}
  IN  /\ lastSeen' = seen /\ initial' = conf
      /\ entityStates' = active \ faded
      /\ lastKnown' = (lastKnown \ DOMAIN obs) \cup faded

UpdateWorld(t, obs) ==
  /\ UpdateEntities(t, obs)
  /\ lastUpdated' = t
  /\ observed' = observed \cup DOMAIN obs

----------------------------------------------------------------------------
(* The world model by itself, under any observations at any later time.    *)
Observations == UNION {[E -> Percent] : E \in SUBSET Entity}

WorldNext == \/ \E t \in Nat, obs \in Observations : t >= lastUpdated /\ UpdateWorld(t, obs)
             \/ ForgetWorld

WorldSpec == EmptyWorld /\ [][WorldNext]_worldVars

----------------------------------------------------------------------------
(* Whatever was observed is tracked, in one of the two dictionaries, and    *)
(* never in both; and it is in the active one exactly when its confidence,  *)
(* at the time of the latest update, has not faded below the floor.         *)
EntitiesTracked ==
  /\ entityStates \cap lastKnown = {}
  /\ entityStates \cup lastKnown = observed
  /\ \A e \in observed :
       e \in entityStates <=> ~Faded(initial[e], lastUpdated - lastSeen[e], HalfLife(e))
============================================================================
