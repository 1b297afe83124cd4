---------------------------- MODULE PoseSensors ----------------------------
(***************************************************************************)
(* The motion HALs without a gyroscope: read_sample() gives the difference *)
(* between what the device says now and what it said last.                 *)
(*                                                                         *)
(* What a Reachy cannot read is a pose of zero; the Frame and the G2 keep  *)
(* the last reading they have; the OAK-D stores the empty frame of a failed*)
(* capture, and a JPEG of another length than the last, and gives no       *)
(* difference.  Nothing is locked: on Reachy 2 get_angular_velocity() takes*)
(* a sample of its own from another thread, and shutdown() forgets the last*)
(* pose at any moment.                                                     *)
(*                                                                         *)
(* A pose is one small number: an angle, the axis of the accelerometer,    *)
(* the brightness of the frame, the signal of one arm of the glasses.      *)
(* Left out are what is done to a difference afterwards: it is divided by  *)
(* the time, and the camera and the glasses take its size, scaled.         *)
(***************************************************************************)
EXTENDS Integers

CONSTANTS MotionKinds,  \* the classes considered
          Probes,       \* threads that read
          MaxPose,      \* poses are 0..MaxPose
          MaxReads,     \* bound on the samples
          NoPose        \* None

ASSUME MotionAssumption == MaxPose \in Nat /\ NoPose \notin 0..MaxPose

VARIABLES sensor,   \* the class
          pose,     \* what the device would say now
          last,     \* _last_pose, _last_accel, _prev_frame_data, _last_rssi_left
          prober,   \* read_sample: its place and the reading it holds
          origin,   \* the first pose since initialize(), shutdown() or, on the
                    \* OAK-D, a frame that was not compared with the one before
          moved,    \* the differences given since, with their signs
          tangled,  \* two calls overlapped since
          reads     \* samples begun

motionVars == <<sensor, pose, last, prober, origin, moved, tangled, reads>>

\* zero: what cannot be read is a pose of zero.  fails: a reading may fail and
\* leave the last one alone.  starts: initialize() takes one.  replaces: what
\* cannot be compared with the last one takes its place.
ReachyMotionTracker == [zero |-> TRUE, fails |-> FALSE, starts |-> TRUE, replaces |-> FALSE]
Reachy2MotionTracker == [zero |-> TRUE, fails |-> FALSE, starts |-> TRUE, replaces |-> FALSE]
FrameIMUHAL == [zero |-> TRUE, fails |-> TRUE, starts |-> FALSE, replaces |-> FALSE]
OakDFrameChangeIMU == [zero |-> FALSE, fails |-> TRUE, starts |-> TRUE, replaces |-> TRUE]
G2RSSIMotionProxy == [zero |-> FALSE, fails |-> TRUE, starts |-> FALSE, replaces |-> FALSE]

MotionClass(kind) == CASE kind = "reachy" -> ReachyMotionTracker
                       [] kind = "reachy2" -> Reachy2MotionTracker
                       [] kind = "frame" -> FrameIMUHAL
                       [] kind = "oakd" -> OakDFrameChangeIMU
                       [] kind = "g2" -> G2RSSIMotionProxy

Resting == [pc |-> "out", read |-> NoPose]
Reading == {p \in Probes : prober[p] # Resting}

MotionInit == /\ sensor \in {MotionClass(kind) : kind \in MotionKinds}
              /\ pose = 0 /\ last = NoPose /\ origin = NoPose
              /\ prober = [p \in Probes |-> Resting]
              /\ moved = 0 /\ tangled = FALSE /\ reads = 0

\* What a reading may give.
Given(v) == v = pose \/ (sensor.zero /\ v = 0) \/ (sensor.fails /\ v = NoPose)

Moves == /\ pose' \in 0..MaxPose
         /\ UNCHANGED <<sensor, last, prober, origin, moved, tangled, reads>>

\* The application does so before it reads.
InitializeMotion ==
    /\ Reading = {}
    /\ \E v \in 0..MaxPose \cup {NoPose} : Given(v) /\ last' = (IF sensor.starts THEN v ELSE last)
    /\ origin' = last' /\ moved' = 0 /\ tangled' = FALSE
    /\ UNCHANGED <<sensor, pose, prober, reads>>

\* read_sample() asks the device.
AskPose(p) == /\ prober[p].pc = "out" /\ reads < MaxReads /\ reads' = reads + 1
              /\ \E v \in 0..MaxPose \cup {NoPose} :
                    /\ Given(v)
                    /\ prober' = [prober EXCEPT ![p] = [pc |-> "test", read |-> v]]
              /\ tangled' = (tangled \/ Reading # {})
              /\ UNCHANGED <<sensor, pose, last, origin, moved>>

\* Deliberate fault: a reading that failed is stored all the same.
TestLast_Forgets(p) ==
    /\ prober[p].pc = "test" /\ (prober[p].read = NoPose => ~sensor.replaces)
    /\ prober' = [prober EXCEPT ![p] = IF last = NoPose \/ @.read = NoPose
                                       THEN [@ EXCEPT !.pc = "store"]
                                       ELSE [@ EXCEPT !.pc = "subtract"]]
    /\ UNCHANGED <<sensor, pose, last, origin, moved, tangled, reads>>

\* if self._last_pose is None.  What failed leaves the last one alone.
TestLast(p) ==
    /\ prober[p].pc = "test" /\ (prober[p].read = NoPose => ~sensor.replaces)
    /\ prober' = [prober EXCEPT ![p] =
                     IF @.read = NoPose THEN Resting
                     ELSE [@ EXCEPT !.pc = IF last = NoPose THEN "store" ELSE "subtract"]]
    /\ UNCHANGED <<sensor, pose, last, origin, moved, tangled, reads>>

\* The OAK-D: a capture that failed, or a JPEG of another length than the last.
SkipDifference(p) ==
    /\ prober[p].pc = "test" /\ sensor.replaces
    /\ prober' = [prober EXCEPT ![p].pc = "store"]
    /\ origin' = NoPose /\ moved' = 0
    /\ UNCHANGED <<sensor, pose, last, tangled, reads>>

\* A last pose that shutdown() has taken away meanwhile: TypeError.
Subtract(p) ==
    /\ prober[p].pc = "subtract"
    /\ prober' = [prober EXCEPT ![p] = IF last = NoPose THEN Resting ELSE [@ EXCEPT !.pc = "store"]]
    /\ moved' = IF last = NoPose THEN moved ELSE moved + prober[p].read - last
    /\ UNCHANGED <<sensor, pose, last, origin, tangled, reads>>

StoreLast(p) == /\ prober[p].pc = "store"
                /\ last' = prober[p].read
                /\ origin' = IF origin = NoPose THEN prober[p].read ELSE origin
                /\ prober' = [prober EXCEPT ![p] = Resting]
                /\ UNCHANGED <<sensor, pose, moved, tangled, reads>>

ShutdownMotion == /\ last' = NoPose /\ origin' = NoPose /\ moved' = 0
                  /\ tangled' = (Reading # {})
                  /\ UNCHANGED <<sensor, pose, prober, reads>>

MotionNext == \/ Moves \/ InitializeMotion \/ ShutdownMotion
              \/ \E p \in Probes : AskPose(p) \/ TestLast(p) \/ SkipDifference(p) \/ Subtract(p)
                              \/ StoreLast(p)

MotionSpec == MotionInit /\ [][MotionNext]_motionVars

-----------------------------------------------------------------------------
(* Properties.                                                             *)

\* Every variable keeps the values its comment names.
MotionTypeOK == /\ pose \in 0..MaxPose /\ {last, origin} \subseteq 0..MaxPose \cup {NoPose}
                /\ \A p \in Probes : prober[p].read \in 0..MaxPose \cup {NoPose}

\* As long as no two calls overlap, what all callers together are given adds up:
\* on the Reachys, the Frame and the G2, whatever readings failed in between, the
\* differences since the first pose make the way from it to the last one, so a
\* phantom movement that a failed reading of a Reachy makes is taken back by the
\* next sample; on the OAK-D they do so since the last frame it did not compare,
\* and a movement between that frame and the one before it is given to nobody.
\* (What get_angular_velocity() was given read_sample() does not give again.)
MotionConserved == (~tangled /\ Reading = {} /\ last # NoPose) => moved = last - origin

=============================================================================
