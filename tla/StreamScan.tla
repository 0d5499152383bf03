----------------------------- MODULE StreamScan -----------------------------
(***************************************************************************)
(* StreamScanner (streaming.py): a sliding window over the chunks of a     *)
(* stream, scanned every scan_interval chunks.  A stream is a sequence of  *)
(* letters, which are numbers.                                             *)
(***************************************************************************)
EXTENDS TextDetectors

CONSTANTS
    Chunks,                     \* sequences of letters
    StreamConfidence,           \* detector -> <<pattern, confidence>>
    WindowSize, Thresholds, Intervals,
    MaxChunks                   \* bound on the length of a stream

VARIABLES
    interval, threshold,
    buffer, chunkCount, totalChars, alerts,
    answer,             \* of the last call
    stream, ends        \* history: this stream, and where its chunks end

streamVars ==
    <<interval, threshold, buffer, chunkCount, totalChars, alerts, answer, stream, ends>>

ASSUME StreamAssumption ==
    /\ WindowSize \in Nat \ {0}
    /\ Intervals \subseteq Nat \ {0}
    /\ Chunks \subseteq Seq(Nat)
    /\ \A d \in Detectors : StreamConfidence[d][1] \in Seq(Nat) \ {<<>>}

Occurs(pattern, text) ==
    \E i \in 1 .. Len(text) - Len(pattern) + 1 :
        SubSeq(text, i, i + Len(pattern) - 1) = pattern

LastOf(text, n) == IF Len(text) > n THEN SubSeq(text, Len(text) - n + 1, Len(text)) ELSE text

\* detector.detect(text), when it does not raise, reaches the threshold.
Detected(detector, text) ==
    /\ Occurs(StreamConfidence[detector][1], text)
    /\ StreamConfidence[detector][2] >= threshold

StreamFound(text) == { d \in Detectors : Detected(d, text) }

\* Mutant: a detector added to the other copies is forgotten in this one.
StreamNamesTwo == {"prompt_injection", "secret_leakage"}

\* The isinstance chain of feed.
StreamNames == {"prompt_injection", "secret_leakage", "self_reinforcement"}

StreamThreats(text) == ThreatList(StreamFound(text) \cap StreamNames)

\* Mutant: the window is trimmed before the chunk is added.
WindowLate(chunk) == LastOf(buffer, WindowSize) \o chunk

Window(chunk) == LastOf(buffer \o chunk, WindowSize)

IsDue(count) == count % interval = 0

\* feed: the counters and the window have moved when the scan raises.
Fed(chunk) ==
    LET window == Window(chunk)
        threats == StreamThreats(window)
        due == IsDue(chunkCount + 1)
    IN  /\ chunkCount' = chunkCount + 1
        /\ totalChars' = totalChars + Len(chunk)
        /\ buffer' = window
        /\ stream' = stream \o chunk
        /\ ends' = Append(ends, Len(stream) + Len(chunk))
        /\ alerts' = IF due /\ ~DetectRaises /\ threats # <<>>
                     THEN Append(alerts,
                            [threats |-> threats, chunk |-> chunkCount + 1,
                             chars |-> totalChars + Len(chunk),
                             confidence |->
                                 MaxOf({ StreamConfidence[d][2] : d \in StreamFound(window) })])
                     ELSE alerts
        /\ UNCHANGED <<interval, threshold>>

Raises(chunk) == DetectRaises /\ IsDue(chunkCount + 1)

Feed(chunk) ==
    /\ chunkCount < MaxChunks
    /\ Fed(chunk)
    /\ answer' = IF Raises(chunk) THEN [call |-> "feed", out |-> "raised"]
                 ELSE [call |-> "feed",
                       out |-> IF alerts' # alerts THEN "alert" ELSE "none"]

Summary(list, count, chars) ==
    [call |-> "finalize", out |-> IF list = <<>> THEN "safe" ELSE "unsafe",
     chunks |-> count, chars |-> chars, alerts |-> list]

\* Mutant: whatever is left in the window is forgotten.
FinalizeWithoutFlush ==
    /\ answer' = Summary(alerts, chunkCount, totalChars)
    /\ UNCHANGED <<interval, threshold, buffer, chunkCount, totalChars, alerts, stream, ends>>

\* finalize: a window that was not scanned yet is fed once more, with an empty
\* chunk, which is due only when the interval divides the next count too.
FinalizeNow ==
    /\ buffer = <<>> \/ IsDue(chunkCount)
    /\ answer' = Summary(alerts, chunkCount, totalChars)
    /\ UNCHANGED <<interval, threshold, buffer, chunkCount, totalChars, alerts, stream, ends>>

FinalizeFlushing ==
    /\ buffer # <<>> /\ ~IsDue(chunkCount)
    /\ chunkCount < MaxChunks
    /\ Fed(<<>>)
    /\ answer' = IF Raises(<<>>) THEN [call |-> "finalize", out |-> "raised"]
                 ELSE Summary(alerts', chunkCount', totalChars')

ResetStream ==
    /\ buffer' = <<>> /\ chunkCount' = 0 /\ totalChars' = 0 /\ alerts' = <<>>
    /\ stream' = <<>> /\ ends' = <<>>
    /\ answer' = [call |-> "reset", out |-> "none"]
    /\ UNCHANGED <<interval, threshold>>

StreamInit ==
    /\ interval \in Intervals
    /\ threshold \in Thresholds
    /\ buffer = <<>> /\ chunkCount = 0 /\ totalChars = 0 /\ alerts = <<>>
    /\ answer = [call |-> "init", out |-> "none"]
    /\ stream = <<>> /\ ends = <<>>

StreamNext ==
    \/ \E chunk \in Chunks : Feed(chunk)
    \/ FinalizeNow \/ FinalizeFlushing
    \/ ResetStream

-----------------------------------------------------------------------------

Upto(n) == SubSeq(stream, 1, ends[n])

\* What a window holds, of the kinds an alert names.
Threatening(window) ==
    ThreatList({ d \in Detectors \ {"cross_task_contamination"} : Detected(d, window) })

\* The alerts are exactly those of the due chunks: at each, what the last
\* WindowSize letters of the whole stream hold.  No trimming loses a letter of it,
\* none is seen twice, and an earlier stream leaves no alert behind.  Contamination
\* raises no alert.
AlertsExact ==
    LET Expected(n) ==
            Threatening(LastOf(Upto(n), WindowSize))
        Due == { n \in DOMAIN ends : n % interval = 0 }
    IN  { <<alerts[i].chunk, alerts[i].threats>> : i \in DOMAIN alerts }
            = IF DetectRaises THEN {}
              ELSE { <<n, Expected(n)>> : n \in { m \in Due : Expected(m) # <<>> } }

\* A summary that calls a stream safe which holds a threat, all within the last
\* window, comes from subclasses only when the scan of the end was not due:
\* never with an interval of one or two.
SafeMeansScanned ==
    answer.call = "finalize" /\ answer.out = "safe" /\ ~DetectRaises /\ interval <= 2
        => Threatening(LastOf(stream, WindowSize)) = <<>>

\* What is due is scanned, and what a summary calls safe was.
StreamIsScanned == AlertsExact /\ SafeMeansScanned

=============================================================================
