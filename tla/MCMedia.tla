------------------------------- MODULE MCMedia -------------------------------
(***************************************************************************)
(* The parts of a sink below its threads, and the snapshot sink: each      *)
(* behaviour is one of a single part, the others stay as they are.         *)
(***************************************************************************)
EXTENDS SnapshotSink, MediaClock, AudioMixer, Compositor, LayoutDetector, Passthrough

VARIABLE part

mediaVars == <<part, snapshotVars, clockVars, mixerVars, compositorVars, detectorVars, passVars>>

\* A detector that has stopped does nothing more.
DetectorStopped ==
    /\ expected = {} /\ users = [u \in Senders |-> NoUser] /\ shown = {} /\ settled = TRUE
    /\ running = FALSE /\ thread = "done" /\ alone = {}

MediaInit ==
    /\ part \in {"snapshot", "clock", "mixer", "compositor", "detector", "passthrough"}
    /\ SnapshotInit /\ ClockInit /\ MixerInit /\ CompositorInit /\ PassInit
    /\ IF part = "detector" THEN DetectorInit ELSE DetectorStopped
    /\ part # "snapshot" => mode = "composite"
    /\ part # "clock" => kind = "encode"

Snapshot == /\ part = "snapshot" /\ SnapshotNext
            /\ UNCHANGED <<part, clockVars, mixerVars, compositorVars, detectorVars, passVars>>
Clock == /\ part = "clock" /\ ClockNext
         /\ UNCHANGED <<part, snapshotVars, mixerVars, compositorVars, detectorVars, passVars>>
Mixer == /\ part = "mixer" /\ MixerNext
         /\ UNCHANGED <<part, snapshotVars, clockVars, compositorVars, detectorVars, passVars>>
Composition == /\ part = "compositor" /\ CompositorNext
               /\ UNCHANGED <<part, snapshotVars, clockVars, mixerVars, detectorVars, passVars>>
Detector == /\ part = "detector" /\ DetectorNext
            /\ UNCHANGED <<part, snapshotVars, clockVars, mixerVars, compositorVars, passVars>>
Passing == /\ part = "passthrough" /\ PassNext
           /\ UNCHANGED <<part, snapshotVars, clockVars, mixerVars, compositorVars, detectorVars>>

MediaNext == Snapshot \/ Clock \/ Mixer \/ Composition \/ Detector \/ Passing

MediaSpec == /\ MediaInit /\ [][MediaNext]_mediaVars
             /\ SnapshotFairness /\ DetectorFairness

\* Landscape, portrait, a canvas narrower than a spotlight's edge, and a wide one
MCCanvases == {<<16, 10>>, <<6, 14>>, <<2, 4>>, <<50, 28>>}
MCSources == {<<16, 9>>, <<1, 40>>}
\* Overlapping ones, one at an edge, one with an odd coordinate
MCCustomRegions == {<<>>, <<Box(0, 0, 4, 4), Box(2, 0, 4, 8)>>, <<Box(0, 2, 2, 2)>>, <<Box(1, 0, 2, 2)>>}
=============================================================================
