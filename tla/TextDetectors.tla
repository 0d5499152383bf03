--------------------------- MODULE TextDetectors ----------------------------
(***************************************************************************)
(* detector.detect(text), which scan.py, streaming.py, tools.py and rag.py *)
(* call and no class of the package defines: with the detectors the        *)
(* package installs every call raises AttributeError.  A program that      *)
(* wants these modules to work has to put subclasses of its own into       *)
(* scan._detectors; both cases are modelled.  Confidences are in tenths.   *)
(***************************************************************************)
EXTENDS Integers, Sequences, FiniteSets

VARIABLE installed      \* "package" or "subclasses"

\* The detectors, in the order of _get_detectors, and one of cross-task
\* contamination, which scan.py has a name for and a program may add to the list; a
\* threat is named for its detector.
DetectorOrder ==
    <<"prompt_injection", "secret_leakage", "self_reinforcement", "cross_task_contamination">>

Detectors == { DetectorOrder[n] : n \in DOMAIN DetectorOrder }

DetectRaises == installed = "package"

\* The threats of the detectors in `flagged`, in their order.
ThreatList(flagged) ==
    LET Listed(d) == IF d \in flagged THEN <<d>> ELSE <<>>
    IN  Listed(DetectorOrder[1]) \o Listed(DetectorOrder[2])
            \o Listed(DetectorOrder[3]) \o Listed(DetectorOrder[4])

MaxOf(S) == IF S = {} THEN 0 ELSE CHOOSE m \in S : \A n \in S : n <= m
=============================================================================
