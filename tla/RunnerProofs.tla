---------------------------- MODULE RunnerProofs ----------------------------
(* The theorems about Runner, for any messages of any length.                *)
EXTENDS Runner, SequenceTheorems, TLAPS

-----------------------------------------------------------------------------
(* Types *)

(* A script that leaves takes the processes that have yet to write with it.  *)
MsgState == {"idle", "accepted", "written", "lost", "refused"}

Spared == \A m \in Messages : msg'[m] = "written" <=> msg[m] = "written"

LEMMA Leaving ==
  ASSUME TypeOK, NEW c, Leave(c)
  PROVE  phase' = "gone" /\ exit' = c /\ msg' \in [Messages -> MsgState] /\ Spared
  <1>1. msg \in [Messages -> MsgState]
    BY DEF TypeOK, MsgState
  <1>2. phase' = "gone" /\ exit' = c
    BY DEF Leave
  <1>3. msg' = [m \in Messages |-> IF msg[m] = "accepted" THEN "lost" ELSE msg[m]]
    BY DEF Leave
  <1>4. \A m \in Messages : (IF msg[m] = "accepted" THEN "lost" ELSE msg[m]) \in MsgState
    BY <1>1 DEF MsgState
  <1>5. msg' \in [Messages -> MsgState]
    BY <1>3, <1>4
  <1>6. Spared
    BY <1>3 DEF Spared
  <1> QED
    BY <1>2, <1>5, <1>6

(* The two ways on from a command: with the next one, or out of the script,  *)
(* with zero if it was told to leave and with one and a reason if not.       *)
LEMMA Going ==
  ASSUME NEW p, Go(p)
  PROVE  \/ ~told /\ phase' = p /\ UNCHANGED <<exit, msg>>
         \/ told /\ Leave("zero")
  BY DEF Go

LEMMA Failing ==
  ASSUME Fail
  PROVE  \/ told /\ Leave("zero") /\ UNCHANGED reason
         \/ ~told /\ Leave("one") /\ reason' = TRUE
  BY DEF Fail

(* The lines of a message are lines. *)
LEMMA LinesTyped ==
  ASSUME NEW m \in Messages
  PROVE  /\ LinesOf(m) \in Seq(Line)
         /\ Len(LinesOf(m)) = Len(Text[m])
         /\ Len(Text[m]) \in Nat
         /\ \A i \in 1 .. Len(Text[m]) : LinesOf(m)[i] = <<m, i>>
  <1>1. Text[m] \in Seq({"words", "blank"})
    BY RunnerAssumption
  <1>2. Len(Text[m]) \in Nat
    BY <1>1
  <1>3. \A i \in 1 .. Len(Text[m]) : <<m, i>> \in Line
    BY <1>2 DEF Line
  <1> QED
    BY <1>2, <1>3 DEF LinesOf

-----------------------------------------------------------------------------
(* The invariant.  What a step does to phase, exit and msg is one of two     *)
(* things, and none of the setup is done while there is a FIFO.              *)

(* The script goes on, or leaves. *)
OnOrOut ==
  \/ phase' \in Phase \ {"gone"} /\ UNCHANGED <<exit, msg, reason>>
  \/ /\ Leave("zero") /\ told /\ UNCHANGED reason
  \/ /\ Leave("one") /\ reason' = TRUE

(* A silent exit is that of MakeFifo, where a message made a file. *)
Early == phase \in Setup \cup {"mkfifo"} => path # "fifo"

RInv == TypeOK /\ Early /\ SilentOnlyIfEarly /\ ZeroMeansTold

LEMMA ScriptStep ==
  ASSUME RInv, UNCHANGED <<path, told>>, pipe' \in Seq(Line), turns' \in Seq(Line), Running,
         jobs' \in [Jobs -> {"idle", "running", "ok", "failed"}],
         OnOrOut, phase' \in Setup \cup {"mkfifo"} => phase \in Setup \cup {"mkfifo"}
  PROVE  RInv'
  <1> USE DEF RInv, Running
  <1>1. CASE phase' \in Phase \ {"gone"} /\ UNCHANGED <<exit, msg, reason>>
    BY <1>1 DEF TypeOK, Early, SilentOnlyIfEarly, ZeroMeansTold
  <1>2. CASE Leave("zero") /\ told /\ UNCHANGED reason
    <2>1. phase' = "gone" /\ exit' = "zero" /\ msg' \in [Messages -> MsgState]
      BY <1>2, Leaving
    <2> QED
      BY <1>2, <2>1 DEF TypeOK, Early, SilentOnlyIfEarly, ZeroMeansTold, Phase, Setup, Jobs, MsgState
  <1>3. CASE Leave("one") /\ reason' = TRUE
    <2>1. phase' = "gone" /\ exit' = "one" /\ msg' \in [Messages -> MsgState]
      BY <1>3, Leaving
    <2> QED
      BY <1>3, <2>1 DEF TypeOK, Early, SilentOnlyIfEarly, ZeroMeansTold, Phase, Setup, Jobs, MsgState
  <1> QED
    BY <1>1, <1>2, <1>3 DEF OnOrOut


(* The commands of the script that leave path alone. *)
LEMMA CommandStep ==
  ASSUME RInv,
         \/ Authenticate \/ Checkout \/ Prompt \/ OpenFifo \/ TurnEnds \/ ReadLine \/ Trap
         \/ \E j \in Jobs : JobEnds(j) \/ Wait(j)
  PROVE  RInv'
  <1> DEFINE Early1(p) == p \in Setup \cup {"mkfifo"}
             Ended == {"idle", "running", "ok", "failed"}
  <1>0. /\ jobs \in [Jobs -> Ended] /\ pipe \in Seq(Line) /\ turns \in Seq(Line)
        /\ phase \in Phase
    BY DEF RInv, TypeOK
  <1>1. ASSUME NEW p \in Phase \ {"gone"}, (Go(p) /\ UNCHANGED reason) \/ Fail
        PROVE  OnOrOut /\ phase' \in {p, "gone"}
    <2>1. CASE Go(p) /\ UNCHANGED reason
      BY <2>1, Going DEF OnOrOut, Leave
    <2>2. CASE Fail
      BY <2>2, Failing DEF OnOrOut, Leave
    <2> QED
      BY <1>1, <2>1, <2>2
  <1>2. CASE Authenticate
    <2>1. OnOrOut /\ phase' \in {"clone", "gone"}
      BY <1>1, <1>2 DEF Authenticate, Phase, Setup
    <2>2. jobs' \in [Jobs -> Ended]
      BY <1>0, <1>2 DEF Authenticate
    <2>3. phase = "auth" /\ UNCHANGED <<path, pipe, turns, told>>
      BY <1>2 DEF Authenticate
    <2> QED
      BY <1>0, <2>1, <2>2, <2>3, ScriptStep DEF Setup, Running
  <1>3. CASE Checkout
    <2>1. OnOrOut /\ phase' \in {"prompt", "gone"}
      BY <1>1, <1>3 DEF Checkout, Phase, Setup
    <2>2. phase = "checkout" /\ UNCHANGED <<jobs, path, pipe, turns, told>>
      BY <1>3 DEF Checkout
    <2> QED
      BY <1>0, <2>1, <2>2, ScriptStep DEF Setup, Running
  <1>4. CASE Prompt
    <2>1. OnOrOut /\ phase' \in {"mkfifo", "gone"}
      BY <1>1, <1>4 DEF Prompt, Phase, Setup
    <2>2. phase = "prompt" /\ UNCHANGED <<jobs, path, pipe, turns, told>>
      BY <1>4 DEF Prompt
    <2> QED
      BY <1>0, <2>1, <2>2, ScriptStep DEF Setup, Running
  <1>5. CASE OpenFifo
    <2>1. OnOrOut /\ phase' \in {"first", "gone"}
      BY <1>1, <1>5 DEF OpenFifo, Phase, Setup
    <2>2. phase = "open" /\ UNCHANGED <<jobs, path, pipe, turns, told>>
      BY <1>5 DEF OpenFifo
    <2> QED
      BY <1>0, <2>1, <2>2, ScriptStep DEF Setup, Running
  <1>6. CASE TurnEnds
    <2>1. OnOrOut /\ phase' \in {"read", "gone"}
      BY <1>1, <1>6 DEF TurnEnds, Phase, Setup
    <2>2. phase # "gone" /\ UNCHANGED <<jobs, path, pipe, turns, told>>
      BY <1>6 DEF TurnEnds
    <2> QED
      BY <1>0, <2>1, <2>2, ScriptStep DEF Setup, Running
  <1>7. CASE ReadLine
    <2>1. phase = "read" /\ phase' \in {"read", "turn"} /\ UNCHANGED <<jobs, path, msg, told, reason, exit>>
      BY <1>7 DEF ReadLine
    <2>2. Head(pipe) \in Line /\ Tail(pipe) \in Seq(Line)
      BY <1>0, <1>7 DEF ReadLine
    <2>3. pipe' \in Seq(Line) /\ turns' \in Seq(Line)
      BY <1>0, <1>7, <2>2 DEF ReadLine
    <2>4. OnOrOut
      BY <2>1 DEF OnOrOut, Phase, Setup
    <2> QED
      BY <1>0, <2>1, <2>3, <2>4, ScriptStep DEF Setup, Running
  <1>8. CASE Trap
    <2>1. OnOrOut /\ phase' = "gone"
      BY <1>8 DEF Trap, OnOrOut, Leave
    <2>2. phase # "gone" /\ UNCHANGED <<jobs, path, pipe, turns, told>>
      BY <1>8 DEF Trap, Interruptible, Jobs
    <2> QED
      BY <1>0, <2>1, <2>2, ScriptStep DEF Setup, Running
  <1>9. ASSUME NEW j \in Jobs, JobEnds(j) PROVE RInv'
    <2>1. jobs' \in [Jobs -> Ended]
      BY <1>0, <1>9 DEF JobEnds
    <2>2. phase # "gone" /\ UNCHANGED <<phase, path, pipe, turns, msg, told, reason, exit>>
      BY <1>9 DEF JobEnds, Running
    <2>3. OnOrOut
      BY <1>0, <2>2 DEF OnOrOut
    <2> QED
      BY <1>0, <2>1, <2>2, <2>3, ScriptStep DEF Running
  <1>10. ASSUME NEW j \in Jobs, Wait(j) PROVE RInv'
    <2>1. AfterJob[j] \in {"meta", "diff", "checkout"}
      BY DEF AfterJob, Jobs
    <2>2. OnOrOut /\ phase' \in {AfterJob[j], "gone"}
      BY <1>1, <1>10, <2>1 DEF Wait, Phase, Setup
    <2>3. phase = j /\ UNCHANGED <<jobs, path, pipe, turns, told>>
      BY <1>10 DEF Wait
    <2>4. j \in Setup
      BY DEF Jobs, Setup
    <2> QED
      BY <1>0, <2>2, <2>3, <2>4, ScriptStep DEF Setup, Running
  <1> QED
    BY <1>2, <1>3, <1>4, <1>5, <1>6, <1>7, <1>8, <1>9, <1>10

(* mkfifo: the only exit without a reason, and the only step that makes the  *)
(* FIFO, after which no message makes a file.                                *)
LEMMA MakeFifoStep ==
  ASSUME RInv, MakeFifo
  PROVE  RInv'
  <1> USE DEF RInv
  <1>1. CASE path = "none"
    <2>1. Go("open") /\ path' = "fifo" /\ UNCHANGED <<jobs, pipe, turns, told, reason>>
      BY <1>1 DEF MakeFifo
    <2>2. CASE ~told /\ phase' = "open" /\ UNCHANGED <<exit, msg>>
      BY <2>1, <2>2 DEF MakeFifo, TypeOK, Early, SilentOnlyIfEarly, ZeroMeansTold, Phase, Setup
    <2>3. CASE told /\ Leave("zero")
      <3>1. phase' = "gone" /\ exit' = "zero" /\ msg' \in [Messages -> MsgState]
        BY <2>3, Leaving
      <3> QED
        BY <2>1, <2>3, <3>1 DEF TypeOK, Early, SilentOnlyIfEarly, ZeroMeansTold, Phase, Setup, MsgState
    <2> QED
      BY <2>1, <2>2, <2>3, Going
  <1>2. CASE path # "none"
    <2>1. /\ path = "file" /\ UNCHANGED <<jobs, path, pipe, turns, told, reason>>
          /\ Leave(IF told THEN "zero" ELSE "one")
      BY <1>2 DEF MakeFifo, Early, TypeOK
    <2>2. /\ phase' = "gone" /\ exit' = (IF told THEN "zero" ELSE "one")
          /\ msg' \in [Messages -> MsgState]
      BY <2>1, Leaving
    <2> QED
      BY <2>1, <2>2 DEF TypeOK, Early, SilentOnlyIfEarly, ZeroMeansTold, Phase, Setup, MsgState
  <1> QED
    BY <1>1, <1>2

LEMMA OutsideStep ==
  ASSUME RInv, Stop \/ Kill \/ \E m \in Messages : Send(m) \/ Write(m)
  PROVE  RInv'
  <1> USE DEF RInv
  <1>1. CASE Stop
    BY <1>1 DEF Stop, TypeOK, Early, SilentOnlyIfEarly, ZeroMeansTold
  <1>2. CASE Kill
    <2>1. UNCHANGED <<jobs, path, pipe, turns, told, reason>>
      BY <1>2 DEF Kill
    <2>2. phase' = "gone" /\ exit' = "killed" /\ msg' \in [Messages -> MsgState]
      BY <1>2, Leaving DEF Kill
    <2> QED
      BY <2>1, <2>2 DEF TypeOK, Early, SilentOnlyIfEarly, ZeroMeansTold, Phase, Setup, MsgState
  <1>3. ASSUME NEW m \in Messages, Send(m) PROVE RInv'
    <2>1. UNCHANGED <<phase, jobs, path, pipe, turns, told, reason, exit>>
      BY <1>3 DEF Send
    <2>2. msg' \in [Messages -> MsgState]
      BY <1>3 DEF Send, TypeOK, MsgState
    <2> QED
      BY <2>1, <2>2 DEF TypeOK, Early, SilentOnlyIfEarly, ZeroMeansTold, MsgState
  <1>4. ASSUME NEW m \in Messages, Write(m) PROVE RInv'
    <2>1. UNCHANGED <<phase, jobs, turns, told, reason, exit>>
      BY <1>4 DEF Write
    <2>2. msg \in [Messages -> MsgState]
      BY DEF TypeOK, MsgState
    <2>3. \/ pipe' = pipe \o LinesOf(m) /\ msg' = [msg EXCEPT ![m] = "written"] /\ path' = path
          \/ pipe' = pipe /\ msg' = [msg EXCEPT ![m] = "lost"] /\ path # "fifo" /\ path' = "file"
      BY <1>4 DEF Write
    <2>4. LinesOf(m) \in Seq(Line) /\ pipe \in Seq(Line)
      BY LinesTyped DEF TypeOK
    <2>5. msg' \in [Messages -> MsgState]
      BY <2>2, <2>3 DEF MsgState
    <2>6. pipe \o LinesOf(m) \in Seq(Line)
      BY <2>4, ConcatProperties
    <2>8. pipe' \in Seq(Line)
      BY <2>3, <2>4, <2>6
    <2>7. path' = path \/ (path # "fifo" /\ path' = "file")
      BY <2>3
    <2> QED
      BY <2>1, <2>5, <2>7, <2>8 DEF TypeOK, Early, SilentOnlyIfEarly, ZeroMeansTold, MsgState
  <1> QED
    BY <1>1, <1>2, <1>3, <1>4

LEMMA RunnerInvariance == Spec => []RInv
  <1>1. ASSUME Init PROVE RInv
    <2>1. pipe \in Seq(Line) /\ turns \in Seq(Line)
      BY <1>1 DEF Init
    <2>2. jobs \in [Jobs -> {"idle", "running", "ok", "failed"}]
      BY <1>1 DEF Init
    <2>3. msg \in [Messages -> {"idle", "accepted", "written", "lost", "refused"}]
      BY <1>1 DEF Init
    <2>4. TypeOK
      BY <1>1, <2>1, <2>2, <2>3 DEF Init, TypeOK, Phase, Setup
    <2> QED
      BY <1>1, <2>4 DEF Init, RInv, Early, SilentOnlyIfEarly, ZeroMeansTold
  <1>2. RInv /\ [Next]_vars => RInv'
    <2> SUFFICES ASSUME RInv, [Next]_vars PROVE RInv'
      OBVIOUS
    <2>1. CASE Next
      BY <2>1, CommandStep, MakeFifoStep, OutsideStep DEF Next, Script
    <2>2. CASE UNCHANGED vars
      BY <2>2 DEF vars, RInv, TypeOK, Early, SilentOnlyIfEarly, ZeroMeansTold
    <2> QED
      BY <2>1, <2>2
  <1> QED
    BY <1>1, <1>2, PTL DEF Spec

(* Each variable of the runner keeps its range. *)
THEOREM RunnerTypes == Spec => []TypeOK
  <1>1. RInv => TypeOK
    BY DEF RInv
  <1> QED
    BY <1>1, RunnerInvariance, PTL

(* A runner that leaves with an error and no reason in its log does so       *)
(* because a message came before the FIFO.                                   *)
THEOREM ErrorsHaveReasons == Spec => []SilentOnlyIfEarly
  <1>1. RInv => SilentOnlyIfEarly
    BY DEF RInv
  <1> QED
    BY <1>1, RunnerInvariance, PTL

(* Only a runner that was told to leave leaves with zero. *)
THEOREM SuccessWasAskedFor == Spec => []ZeroMeansTold
  <1>1. RInv => ZeroMeansTold
    BY DEF RInv
  <1> QED
    BY <1>1, RunnerInvariance, PTL

-----------------------------------------------------------------------------
(* LinesKept *)

(* Whose line a place of a sequence holds, and the three things LinesKept    *)
(* says of all lines that were written.                                      *)
FromWritten(seq) ==
  \A k \in 1 .. Len(seq) :
    \E m \in Messages : msg[m] = "written" /\ \E i \in 1 .. Len(Text[m]) : seq[k] = <<m, i>>

InOrder(seq) ==
  \A k, l \in 1 .. Len(seq) : k < l /\ seq[k][1] = seq[l][1] => seq[k][2] < seq[l][2]

Complete(seq) ==
  \A m \in Messages : msg[m] = "written" =>
    \A i \in 1 .. Len(Text[m]) : ~Blank(<<m, i>>) => \E k \in 1 .. Len(seq) : seq[k] = <<m, i>>

LEMMA KeptParts ==
  LinesKept <=> FromWritten(Seen) /\ InOrder(Seen) /\ Complete(Seen)
                  /\ \A k \in 1 .. Len(turns) : ~Blank(turns[k])
  BY DEF LinesKept, FromWritten, InOrder, Complete

(* A step that neither reads nor writes. *)
LEMMA NothingMoves ==
  ASSUME LinesKept, UNCHANGED <<pipe, turns>>, Spared
  PROVE  LinesKept'
  BY DEF LinesKept, Seen, Spared, Blank

(* Taking the first line off the FIFO: onto the turns, or away. *)
LEMMA MovesOn ==
  ASSUME NEW S, NEW s \in Seq(S), NEW t \in Seq(S), t # <<>>
  PROVE  Append(s, Head(t)) \o Tail(t) = s \o t
  <1>1. Head(t) \in S /\ Tail(t) \in Seq(S) /\ <<Head(t)>> \in Seq(S)
    BY HeadTailProperties
  <1>2. Append(s, Head(t)) = s \o <<Head(t)>>
    BY <1>1, AppendIsConcat
  <1>3. (s \o <<Head(t)>>) \o Tail(t) = s \o (<<Head(t)>> \o Tail(t))
    BY <1>1, ConcatAssociative
  <1>4. <<Head(t)>> \o Tail(t) = t
    BY <1>1
  <1> QED
    BY <1>2, <1>3, <1>4

LEMMA GoesAway ==
  ASSUME NEW S, NEW s \in Seq(S), NEW t \in Seq(S), t # <<>>
  PROVE  /\ Len(s \o t) \in Nat /\ Len(s) \in Nat
         /\ Len(s) < Len(s \o t)
         /\ Len(s \o Tail(t)) = Len(s \o t) - 1
         /\ \A k \in 1 .. Len(s) : (s \o Tail(t))[k] = (s \o t)[k]
         /\ \A k \in Len(s) + 1 .. Len(s \o t) - 1 : (s \o Tail(t))[k] = (s \o t)[k + 1]
         /\ (s \o t)[Len(s) + 1] = Head(t)
  <1>1. Tail(t) \in Seq(S) /\ Len(t) \in Nat \ {0} /\ Len(Tail(t)) = Len(t) - 1 /\ Len(s) \in Nat
    OBVIOUS
  <1>2. \A k \in 1 .. Len(t) - 1 : Tail(t)[k] = t[k + 1]
    OBVIOUS
  <1>3. Len(s \o t) = Len(s) + Len(t) /\ Len(s \o Tail(t)) = Len(s) + Len(Tail(t))
    BY <1>1
  <1>4. \A k \in 1 .. Len(s) : (s \o Tail(t))[k] = (s \o t)[k]
    BY <1>1
  <1>5. ASSUME NEW k \in Len(s) + 1 .. Len(s \o t) - 1 PROVE (s \o Tail(t))[k] = (s \o t)[k + 1]
    <2>1. (s \o Tail(t))[k] = Tail(t)[k - Len(s)]
      BY <1>1, <1>3
    <2>2. (s \o t)[k + 1] = t[k + 1 - Len(s)]
      BY <1>1, <1>3
    <2>3. k - Len(s) \in 1 .. Len(t) - 1 /\ (k - Len(s)) + 1 = k + 1 - Len(s)
      BY <1>1, <1>3
    <2> QED
      BY <1>2, <2>1, <2>2, <2>3
  <1>6. (s \o t)[Len(s) + 1] = Head(t)
    BY <1>1
  <1> QED
    BY <1>1, <1>3, <1>4, <1>5, <1>6

-----------------------------------------------------------------------------

LEMMA ReadKeeps ==
  ASSUME TypeOK, LinesKept, ReadLine
  PROVE  LinesKept'
  <1>1. pipe \in Seq(Line) /\ turns \in Seq(Line)
    BY DEF TypeOK
  <1>2. pipe # <<>> /\ pipe' = Tail(pipe) /\ UNCHANGED msg
    BY DEF ReadLine
  <1>3. CASE ~Blank(Head(pipe))
    <2>1. turns' = Append(turns, Head(pipe))
      BY <1>3 DEF ReadLine
    <2>2. Seen' = Seen
      BY <1>1, <1>2, <2>1, MovesOn DEF Seen
    <2>3. \A k \in 1 .. Len(turns') : ~(Blank(turns[k])')
      <3> TAKE k \in 1 .. Len(turns')
      <3>1. Len(turns') = Len(turns) + 1 /\ Len(turns) \in Nat
        BY <1>1, <2>1
      <3>2. CASE k <= Len(turns)
        <4>1. turns'[k] = turns[k]
          BY <1>1, <2>1, <3>1, <3>2
        <4> QED
          BY <3>1, <3>2, <4>1 DEF LinesKept, Blank
      <3>3. CASE k = Len(turns) + 1
        <4>1. turns'[k] = Head(pipe)
          BY <1>1, <2>1, <3>1, <3>3
        <4> QED
          BY <1>3, <4>1 DEF Blank
      <3> QED
        BY <3>1, <3>2, <3>3
    <2> QED
      BY <1>2, <2>2, <2>3 DEF LinesKept, Blank
  <1>4. CASE Blank(Head(pipe))
    <2> DEFINE n == Len(turns)
               old == Seen
               new == Seen'
               Up(k) == IF k <= n THEN k ELSE k + 1
    <2>1. turns' = turns
      BY <1>4 DEF ReadLine
    <2>2. /\ Len(old) \in Nat /\ n \in Nat /\ n < Len(old) /\ Len(new) = Len(old) - 1
          /\ \A k \in 1 .. n : new[k] = old[k]
          /\ \A k \in n + 1 .. Len(old) - 1 : new[k] = old[k + 1]
          /\ old[n + 1] = Head(pipe)
      <3>1. /\ Len(turns \o pipe) \in Nat /\ Len(turns) \in Nat
            /\ Len(turns) < Len(turns \o pipe)
            /\ Len(turns \o Tail(pipe)) = Len(turns \o pipe) - 1
            /\ \A k \in 1 .. Len(turns) : (turns \o Tail(pipe))[k] = (turns \o pipe)[k]
            /\ \A k \in Len(turns) + 1 .. Len(turns \o pipe) - 1 :
                 (turns \o Tail(pipe))[k] = (turns \o pipe)[k + 1]
            /\ (turns \o pipe)[Len(turns) + 1] = Head(pipe)
        <4> HIDE DEF n, old, new
        <4> QED
          BY <1>1, <1>2, GoesAway, Zenon
      <3>2. old = turns \o pipe
        BY DEF Seen
      <3>3. new = turns \o Tail(pipe)
        BY <1>2, <2>1 DEF Seen
      <3> HIDE DEF old, new
      <3> QED
        BY <3>1, <3>2, <3>3, Zenon
    <2> HIDE DEF n, old, new
    <2>3. \A k \in 1 .. Len(new) : Up(k) \in 1 .. Len(old) /\ new[k] = old[Up(k)]
      <3> TAKE k \in 1 .. Len(new)
      <3>1. CASE k <= n
        <4>1. Up(k) = k /\ k \in 1 .. n /\ k \in 1 .. Len(old)
          BY <2>2, <3>1
        <4> HIDE DEF Up
        <4> QED
          BY <2>2, <4>1
      <3>2. CASE k > n
        <4>1. /\ Up(k) = k + 1
              /\ k \in n + 1 .. Len(old) - 1
              /\ k + 1 \in 1 .. Len(old)
          BY <2>2, <3>2
        <4> HIDE DEF Up
        <4> QED
          BY <2>2, <4>1
      <3> QED
        BY <2>2, <3>1, <3>2
    <2>4. \A k, l \in 1 .. Len(new) : k < l => Up(k) < Up(l)
      BY <2>2
    <2>5. \A l \in 1 .. Len(old) : l = n + 1 \/ \E k \in 1 .. Len(new) : Up(k) = l
      <3> TAKE l \in 1 .. Len(old)
      <3>1. CASE l <= n
        <4>1. l \in 1 .. Len(new) /\ Up(l) = l
          BY <2>2, <3>1
        <4> QED
          BY <4>1
      <3>2. CASE l > n + 1
        <4>1. l - 1 \in 1 .. Len(new) /\ Up(l - 1) = l
          BY <2>2, <3>2
        <4> QED
          BY <4>1
      <3>3. l <= n \/ l = n + 1 \/ l > n + 1
        BY <2>2
      <3> HIDE DEF Up
      <3> QED
        BY <3>1, <3>2, <3>3
    <2> HIDE DEF Up
    <2>6. FromWritten(old) /\ InOrder(old) /\ Complete(old)
      BY KeptParts DEF old
    <2>7. \A k \in 1 .. Len(new) :
            \E m \in Messages : msg'[m] = "written" /\ \E i \in 1 .. Len(Text[m]) : new[k] = <<m, i>>
      BY <1>2, <2>3, <2>6 DEF FromWritten
    <2>8. \A k, l \in 1 .. Len(new) : k < l /\ new[k][1] = new[l][1] => new[k][2] < new[l][2]
      BY <2>3, <2>4, <2>6 DEF InOrder
    <2>9. ASSUME NEW m \in Messages, msg'[m] = "written",
                 NEW i \in 1 .. Len(Text[m]), ~Blank(<<m, i>>)
          PROVE  \E k \in 1 .. Len(new) : new[k] = <<m, i>>
      <3>1. PICK l \in 1 .. Len(old) : old[l] = <<m, i>>
        BY <1>2, <2>6, <2>9 DEF Complete
      <3>2. l # n + 1
        BY <1>4, <2>2, <2>9, <3>1
      <3>3. PICK k \in 1 .. Len(new) : Up(k) = l
        BY <2>5, <3>2
      <3> QED
        BY <2>3, <3>1, <3>3
    <2>10. \A k \in 1 .. Len(turns) : ~Blank(turns[k])
      BY KeptParts
    <2> QED
      BY <2>1, <2>7, <2>8, <2>9, <2>10 DEF LinesKept, Blank, new
  <1> QED
    BY <1>3, <1>4

LEMMA WriteKeeps ==
  ASSUME TypeOK, LinesKept, NEW m \in Messages, Write(m)
  PROVE  LinesKept'
  <1>1. pipe \in Seq(Line) /\ turns \in Seq(Line) /\ msg \in [Messages -> MsgState]
    BY DEF TypeOK, MsgState
  <1>2. msg[m] = "accepted" /\ UNCHANGED turns
    BY DEF Write
  <1>3. CASE path # "fifo"
    <2>1. msg' = [msg EXCEPT ![m] = "lost"] /\ UNCHANGED pipe
      BY <1>3 DEF Write
    <2>2. Spared
      BY <1>1, <1>2, <2>1 DEF Spared
    <2> QED
      BY <1>2, <2>1, <2>2, NothingMoves
  <1>4. CASE path = "fifo"
    <2>1. pipe' = pipe \o LinesOf(m) /\ msg' = [msg EXCEPT ![m] = "written"]
      BY <1>4 DEF Write
    <2>2. msg'[m] = "written" /\ \A o \in Messages : o # m => msg'[o] = msg[o]
      BY <1>1, <2>1
    <2> DEFINE old == Seen
               new == Seen'
               add == LinesOf(m)
               t == Len(Text[m])
    <2>3. /\ add \in Seq(Line) /\ Len(add) = t /\ t \in Nat
          /\ \A i \in 1 .. t : add[i] = <<m, i>>
      BY LinesTyped
    <2> HIDE DEF add, t
    <2>4. new = (turns \o pipe) \o add /\ old = turns \o pipe /\ old \in Seq(Line)
      <3>1. new = turns \o (pipe \o add)
        BY <1>2, <2>1 DEF Seen, add
      <3>2. turns \o (pipe \o add) = (turns \o pipe) \o add
        BY <1>1, <2>3, ConcatAssociative
      <3>3. turns \o pipe \in Seq(Line)
        BY <1>1, ConcatProperties
      <3> QED
        BY <3>1, <3>2, <3>3 DEF Seen
    <2> HIDE DEF old, new
    <2>5. /\ Len(new) = Len(old) + t /\ Len(old) \in Nat
          /\ \A k \in 1 .. Len(old) : new[k] = old[k]
          /\ \A k \in Len(old) + 1 .. Len(new) : k - Len(old) \in 1 .. t /\ new[k] = <<m, k - Len(old)>>
      <3>1. new = old \o add /\ old \in Seq(Line)
        BY <2>4
      <3>2. /\ Len(new) = Len(old) + Len(add) /\ Len(old) \in Nat
            /\ \A k \in 1 .. Len(old) + Len(add) :
                 new[k] = IF k <= Len(old) THEN old[k] ELSE add[k - Len(old)]
        <4>1. add \in Seq(Line)
          BY <2>3
        <4>2. /\ Len(old \o add) = Len(old) + Len(add)
              /\ \A k \in 1 .. Len(old) + Len(add) :
                   (old \o add)[k] = IF k <= Len(old) THEN old[k] ELSE add[k - Len(old)]
          BY <3>1, <4>1, ConcatProperties
        <4>3. Len(old) \in Nat
          BY <3>1
        <4> QED
          BY <3>1, <4>2, <4>3
      <3>3. Len(new) = Len(old) + t /\ \A k \in 1 .. Len(old) : new[k] = old[k]
        BY <2>3, <3>2
      <3>4. ASSUME NEW k \in Len(old) + 1 .. Len(new)
            PROVE  k - Len(old) \in 1 .. t /\ new[k] = <<m, k - Len(old)>>
        <4>1. k - Len(old) \in 1 .. t /\ k \in 1 .. Len(old) + Len(add) /\ ~(k <= Len(old))
          BY <2>3, <3>2, <3>3
        <4>2. new[k] = add[k - Len(old)]
          BY <3>2, <4>1
        <4> QED
          BY <2>3, <4>1, <4>2
      <3> QED
        BY <3>2, <3>3, <3>4
    <2>6. FromWritten(old) /\ InOrder(old) /\ Complete(old)
      BY KeptParts DEF old
    <2>7. \A k \in 1 .. Len(old) : old[k][1] # m
      BY <1>2, <2>6 DEF FromWritten
    <2>8. \A k \in 1 .. Len(new) :
            \E o \in Messages : msg'[o] = "written" /\ \E i \in 1 .. Len(Text[o]) : new[k] = <<o, i>>
      <3> TAKE k \in 1 .. Len(new)
      <3>1. CASE k <= Len(old)
        <4>1. k \in 1 .. Len(old)
          BY <2>5, <3>1
        <4>2. PICK o \in Messages : msg[o] = "written" /\ \E i \in 1 .. Len(Text[o]) : old[k] = <<o, i>>
          BY <2>6, <4>1 DEF FromWritten
        <4>3. msg'[o] = "written" /\ new[k] = old[k]
          BY <1>2, <2>2, <2>5, <4>1, <4>2
        <4> QED
          BY <4>2, <4>3
      <3>2. CASE k > Len(old)
        BY <2>2, <2>5, <3>2 DEF t
      <3> QED
        BY <2>5, <3>1, <3>2
    <2>9. ASSUME NEW k \in 1 .. Len(new), NEW l \in 1 .. Len(new), k < l, new[k][1] = new[l][1]
          PROVE  new[k][2] < new[l][2]
      <3>1. CASE l <= Len(old)
        <4>1. k \in 1 .. Len(old) /\ l \in 1 .. Len(old)
          BY <2>5, <2>9, <3>1
        <4> QED
          BY <2>5, <2>6, <2>9, <4>1 DEF InOrder
      <3>2. CASE k > Len(old)
        <4>1. new[k] = <<m, k - Len(old)>> /\ new[l] = <<m, l - Len(old)>>
          BY <2>5, <2>9, <3>2
        <4> QED
          BY <2>5, <2>9, <4>1
      <3>3. CASE k <= Len(old) /\ l > Len(old)
        <4>1. new[k][1] # m /\ new[l][1] = m
          BY <2>5, <2>7, <3>3
        <4> QED
          BY <2>9, <4>1
      <3> QED
        BY <2>5, <3>1, <3>2, <3>3
    <2>10. ASSUME NEW o \in Messages, msg'[o] = "written",
                  NEW i \in 1 .. Len(Text[o]), ~Blank(<<o, i>>)
           PROVE  \E k \in 1 .. Len(new) : new[k] = <<o, i>>
      <3>1. CASE o = m
        <4>1. i \in 1 .. t
          BY <3>1 DEF t
        <4>2. Len(old) + i \in Len(old) + 1 .. Len(new) /\ (Len(old) + i) - Len(old) = i
          BY <2>3, <2>5, <4>1
        <4>3. Len(old) + i \in 1 .. Len(new)
          BY <2>5, <4>2
        <4> QED
          BY <2>5, <3>1, <4>2, <4>3
      <3>2. CASE o # m
        <4>1. PICK k \in 1 .. Len(old) : old[k] = <<o, i>>
          BY <2>2, <2>6, <2>10, <3>2 DEF Complete
        <4>2. k \in 1 .. Len(new) /\ new[k] = old[k]
          BY <2>3, <2>5
        <4> QED
          BY <4>1, <4>2
      <3> QED
        BY <3>1, <3>2
    <2>11. \A k \in 1 .. Len(turns) : ~Blank(turns[k])
      BY KeptParts
    <2> QED
      BY <1>2, <2>8, <2>9, <2>10, <2>11 DEF LinesKept, Blank, new
  <1> QED
    BY <1>3, <1>4

(* Of a message that was written, each line that is not blank is claude's    *)
(* turn or waits in the FIFO, in order and once; claude is called with no    *)
(* blank line, nor with any line of a message that was lost.                 *)
THEOREM LinesBecomeTurns == Spec => []LinesKept
  <1>1. Init => LinesKept
    <2> SUFFICES ASSUME Init PROVE LinesKept
      OBVIOUS
    <2>1. Seen = <<>> /\ turns = <<>>
      BY DEF Init, Seen
    <2>2. \A m \in Messages : msg[m] = "idle"
      BY DEF Init
    <2> QED
      BY <2>1, <2>2 DEF LinesKept
  <1>2. TypeOK /\ LinesKept /\ [Next]_vars => LinesKept'
    <2> SUFFICES ASSUME TypeOK, LinesKept, [Next]_vars PROVE LinesKept'
      OBVIOUS
    <2>1. CASE ReadLine
      BY <2>1, ReadKeeps
    <2>2. ASSUME NEW m \in Messages, Write(m) PROVE LinesKept'
      BY <2>2, WriteKeeps
    <2>3. ASSUME UNCHANGED <<pipe, turns, msg>> PROVE LinesKept'
      BY <2>3, NothingMoves DEF Spared
    <2>4. ASSUME NEW c, Leave(c), UNCHANGED <<pipe, turns>> PROVE LinesKept'
      BY <2>4, Leaving, NothingMoves
    <2>5. ASSUME NEW p, Go(p), UNCHANGED <<pipe, turns>> PROVE LinesKept'
      BY <2>3, <2>4, <2>5 DEF Go
    <2>6. ASSUME Fail, UNCHANGED <<pipe, turns>> PROVE LinesKept'
      BY <2>4, <2>6, Failing
    <2>7. ASSUME NEW m \in Messages, Send(m) PROVE LinesKept'
      <3>1. UNCHANGED <<pipe, turns>>
        BY <2>7 DEF Send
      <3>2. Spared
        BY <2>7 DEF Send, Spared, TypeOK
      <3> QED
        BY <3>1, <3>2, NothingMoves
    <2>8. CASE Authenticate
      BY <2>5, <2>6, <2>8 DEF Authenticate
    <2>9. CASE Checkout
      BY <2>5, <2>6, <2>9 DEF Checkout
    <2>10. CASE Prompt
      BY <2>5, <2>6, <2>10 DEF Prompt
    <2>11. CASE MakeFifo
      <3>1. UNCHANGED <<pipe, turns>> /\ (Go("open") \/ Leave(IF told THEN "zero" ELSE "one"))
        BY <2>11 DEF MakeFifo
      <3> QED
        BY <2>4, <2>5, <3>1
    <2>12. CASE OpenFifo \/ TurnEnds
      BY <2>5, <2>12 DEF OpenFifo, TurnEnds
    <2>13. CASE Trap \/ Kill
      BY <2>4, <2>13 DEF Trap, Kill
    <2>14. ASSUME NEW j \in Jobs, JobEnds(j) PROVE LinesKept'
      BY <2>3, <2>14 DEF JobEnds
    <2>15. ASSUME NEW j \in Jobs, Wait(j) PROVE LinesKept'
      BY <2>5, <2>6, <2>15 DEF Wait
    <2>16. CASE Stop
      BY <2>3, <2>16 DEF Stop
    <2>17. CASE UNCHANGED vars
      BY <2>3, <2>17 DEF vars
    <2> QED
      BY <2>1, <2>2, <2>7, <2>8, <2>9, <2>10, <2>11, <2>12, <2>13, <2>14, <2>15, <2>16, <2>17
         DEF Next, Script
  <1> QED
    BY <1>1, <1>2, RunnerTypes, PTL DEF Spec

=============================================================================
