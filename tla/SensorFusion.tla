---------------------------- MODULE SensorFusion ----------------------------
(***************************************************************************)
(* context/context_builder.py: what SensorContext is made of the channels  *)
(* that a device has: the conflicts between them, the awareness level and  *)
(* the summary, of which only the warnings are kept.  Levels are counted   *)
(* in twentieths: 0.25 for a channel is 5, a conflict takes 3 and channels *)
(* that corroborate one another add 2.                                     *)
(***************************************************************************)
EXTENDS Integers, FiniteSets, FiniteSetsExt

CONSTANTS Absent,   \* a channel that is None
          Unknown,  \* a count that is None
          Counts    \* the numbers of people considered

ASSUME FusionAssumption == Counts \subseteq Nat /\ Unknown \notin Counts

VARIABLES channels,  \* audio, visual, motion and proximity of the next context
          context    \* the SensorContext made last

fusionVars == <<channels, context>>

Audio == [speakers : Counts \cup {Unknown}, ambient : {"speech", "silence", "other"}]
Visual == [people : Counts \cup {Unknown}]
Motion == {"stationary", "moving", "running", "gesture"}

Names == {"audio", "visual", "motion", "proximity"}
Inputs == [audio : Audio \cup {Absent}, visual : Visual \cup {Absent},
           motion : Motion \cup {Absent}, proximity : {"here", Absent}]

Present(c) == {n \in Names : c[n] # Absent}
Without(c, n) == [c EXCEPT ![n] = Absent]

\* Both numbers of people are known.
Counted(c) == /\ {"audio", "visual"} \subseteq Present(c)
              /\ c.audio.speakers # Unknown /\ c.visual.people # Unknown

\* Deliberate fault: more people than speakers, without the margin.
CountConflict_NoMargin(c) == Counted(c) /\ \/ c.audio.speakers > c.visual.people + 1
                                           \/ c.visual.people > c.audio.speakers

\* More speakers than people, by two; or more people than speakers, by three.
CountConflict(c) == Counted(c) /\ \/ c.audio.speakers > c.visual.people + 1
                                  \/ c.visual.people > c.audio.speakers + 2
MotionConflict(c) == /\ {"audio", "motion"} \subseteq Present(c)
                     /\ c.motion = "running" /\ c.audio.ambient = "silence"

DetectConflicts(c) == (IF CountConflict(c) THEN {"count"} ELSE {})
                        \cup (IF MotionConflict(c) THEN {"motion"} ELSE {})

\* The same number, or one more or less where there is somebody to see and to hear.
CountAgrees(c) == Counted(c) /\ LET a == c.audio.speakers  v == c.visual.people
                                IN  \/ a = v
                                    \/ a > 0 /\ v > 0 /\ a - v \in {-1, 1}
MotionAgrees(c) == /\ {"audio", "motion"} \subseteq Present(c)
                   /\ \/ c.motion \in {"moving", "running"} /\ c.audio.ambient # "silence"
                      \/ c.motion = "stationary" /\ c.audio.ambient = "speech"
SpeakerSeen(c) == /\ {"audio", "visual"} \subseteq Present(c)
                  /\ c.audio.ambient = "speech"
                  /\ c.visual.people \notin {0, Unknown}

SensorsCorroborate(c) == CountAgrees(c) \/ MotionAgrees(c) \/ SpeakerSeen(c)

Clamp(n) == Max({0, Min({20, n})})

AwarenessLevel(c) == Clamp(5 * Cardinality(Present(c)) - 3 * Cardinality(DetectConflicts(c))
                             + IF SensorsCorroborate(c) THEN 2 ELSE 0)

\* No channel, no warning; below 0.3 the coverage is called limited.
Summary(c) == IF Present(c) = {} THEN {"nothing"}
              ELSE (IF DetectConflicts(c) # {} THEN {"conflict"} ELSE {})
                     \cup (IF AwarenessLevel(c) < 6 THEN {"limited"} ELSE {})

NoContext == [level |-> 0, conflicts |-> {}, summary |-> {}]

FusionInit == channels \in Inputs /\ context = NoContext

Build == /\ context = NoContext
         /\ context' = [level |-> AwarenessLevel(channels),
                        conflicts |-> DetectConflicts(channels),
                        summary |-> Summary(channels)]
         /\ UNCHANGED channels

FusionNext == Build

FusionSpec == FusionInit /\ [][FusionNext]_fusionVars

-----------------------------------------------------------------------------
(* Properties.                                                             *)

\* What the level and the summary say of the channels, as the numbers in the code
\* have it: another channel lowers the level only when it brings both conflicts
\* with it.  Counts that contradict one another are not taken to agree as well.
\* Nothing short of all four channels without a conflict is certain, and what is
\* lost to a conflict is said in the summary.  Coverage is called limited where one
\* channel speaks alone: no conflict takes two channels below that threshold.
LevelFair ==
    context # NoContext =>
        LET c == channels
        IN  /\ \A n \in Present(c) :
                 \/ AwarenessLevel(Without(c, n)) <= context.level
                 \/ Cardinality(context.conflicts) = 2 /\ DetectConflicts(Without(c, n)) = {}
            /\ ~(CountConflict(c) /\ CountAgrees(c))
            /\ context.level = 20 <=> Present(c) = Names /\ context.conflicts = {}
            /\ context.conflicts = {} \/ "conflict" \in context.summary
            /\ "limited" \in context.summary <=> Cardinality(Present(c)) = 1

=============================================================================
