-------------------------------- MODULE Feed --------------------------------
(* What following a session promises: a log grows line by line, and each of  *)
(* its lines that is not blank is shown when those before it have been.  A   *)
(* line that has been shown is never taken back.                             *)
EXTENDS Naturals, Sequences

VARIABLES
  log,   \* the lines written so far
  shown  \* the places of those that have been shown

Awaited(i) == log[i] = "text" /\ i \notin shown

FeedInit == log = <<>> /\ shown = {}

Write(line) ==
  /\ log' = Append(log, line)
  /\ UNCHANGED shown

Show(i) ==
  /\ Awaited(i)
  /\ \A j \in 1 .. i - 1 : ~Awaited(j)
  /\ shown' = shown \cup {i}
  /\ UNCHANGED log

FeedNext == \/ \E line \in {"text", "blank"} : Write(line)
            \/ \E i \in 1 .. Len(log) : Show(i)

FeedSpec == FeedInit /\ [][FeedNext]_<<log, shown>>
=============================================================================
