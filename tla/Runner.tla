------------------------------- MODULE Runner -------------------------------
(* The script that runs in a session's container, entrypoint.sh, and the     *)
(* messages users send to it.  The API hands a message to a process in the   *)
(* container and does not wait for it; the process writes the message to the *)
(* FIFO the script reads.  Whoever ends the session makes Docker send a      *)
(* SIGTERM, and a SIGKILL when the grace period is over.                     *)
(*                                                                           *)
(* A message of at most PIPE_BUF bytes is written as a whole.  claude leaves *)
(* its standard input alone, as it has its prompt.                           *)
EXTENDS Naturals, Sequences

CONSTANTS
  Messages,  \* messages users send
  Text       \* for each, its lines: "words" or "blank"

ASSUME RunnerAssumption == Text \in [Messages -> Seq({"words", "blank"})]

VARIABLES
  phase,  \* what the script is at
  jobs,   \* its background jobs
  path,   \* what is at /tmp/claude-input
  pipe,   \* the lines in the FIFO
  turns,  \* the lines claude was called with
  msg,    \* the messages
  told,   \* the container was asked to stop
  reason, \* an error event is in the log
  exit    \* the exit code

vars == <<phase, jobs, path, pipe, turns, msg, told, reason, exit>>

-----------------------------------------------------------------------------
(* Types *)

Jobs == {"clone", "meta", "diff"}

(* "clone", "meta" and "diff" are the waits for the three jobs. *)
Setup == {"auth", "clone", "meta", "diff", "checkout", "prompt"}
Phase == Setup \cup {"mkfifo", "open", "first", "read", "turn", "gone"}

Line == Messages \X Nat

TypeOK ==
  /\ phase \in Phase
  /\ jobs \in [Jobs -> {"idle", "running", "ok", "failed"}]
  /\ path \in {"none", "file", "fifo"}
  /\ pipe \in Seq(Line)
  /\ turns \in Seq(Line)
  /\ msg \in [Messages -> {"idle", "accepted", "written", "lost", "refused"}]
  /\ told \in BOOLEAN
  /\ reason \in BOOLEAN
  /\ exit \in {"none", "zero", "one", "killed"}
  /\ exit # "none" <=> phase = "gone"

-----------------------------------------------------------------------------
(* The script *)

Running == phase # "gone"

(* In wait and read, bash runs its trap at once; while a command is in the   *)
(* foreground, when that has ended.                                          *)
Interruptible == phase \in Jobs \cup {"read"}

(* Every process of the container ends with the script. *)
Leave(code) ==
  /\ phase' = "gone"
  /\ exit' = code
  /\ msg' = [m \in Messages |-> IF msg[m] = "accepted" THEN "lost" ELSE msg[m]]

(* On to the next command, if there is no signal to be handled first. *)
Go(next) == IF told THEN Leave("zero") ELSE (phase' = next /\ UNCHANGED <<exit, msg>>)

(* emit_error, exit 1: of a step that checks, or of the trap on ERR. *)
Fail == IF told THEN Leave("zero") /\ UNCHANGED reason ELSE Leave("one") /\ reason' = TRUE

Authenticate ==
  /\ phase = "auth"
  /\ \/ /\ Go("clone")
        /\ jobs' = IF told THEN jobs ELSE [j \in Jobs |-> "running"]
        /\ UNCHANGED reason
     \/ Fail /\ UNCHANGED jobs
  /\ UNCHANGED <<path, pipe, turns, told>>

JobEnds(j) ==
  /\ Running
  /\ jobs[j] = "running"
  /\ \E how \in {"ok", "failed"} : jobs' = [jobs EXCEPT ![j] = how]
  /\ UNCHANGED <<phase, path, pipe, turns, msg, told, reason, exit>>

AfterJob == [clone |-> "meta", meta |-> "diff", diff |-> "checkout"]

(* The jobs are waited for one after the other. *)
Wait(j) ==
  /\ phase = j
  /\ ~told
  /\ \/ jobs[j] = "ok" /\ Go(AfterJob[j]) /\ UNCHANGED reason
     \/ jobs[j] = "failed" /\ Fail
  /\ UNCHANGED <<jobs, path, pipe, turns, told>>

Checkout ==
  /\ phase = "checkout"
  /\ \/ Go("prompt") /\ UNCHANGED reason
     \/ Fail
  /\ UNCHANGED <<jobs, path, pipe, turns, told>>

(* Mutant of Prompt: no trap reports a command that fails. *)
PromptUntrapped ==
  /\ phase = "prompt"
  /\ UNCHANGED reason
  /\ Go("mkfifo") \/ Leave(IF told THEN "zero" ELSE "one")
  /\ UNCHANGED <<jobs, path, pipe, turns, told>>

(* The metadata are parsed and the prompt is put together; then the trap on  *)
(* ERR is cleared.                                                           *)
Prompt ==
  /\ phase = "prompt"
  /\ \/ Go("mkfifo") /\ UNCHANGED reason
     \/ Fail
  /\ UNCHANGED <<jobs, path, pipe, turns, told>>

(* mkfifo fails where there is a file, and `set -e` ends the script. *)
MakeFifo ==
  /\ phase = "mkfifo"
  /\ IF path = "none" THEN Go("open") /\ path' = "fifo"
     ELSE Leave(IF told THEN "zero" ELSE "one") /\ UNCHANGED path
  /\ UNCHANGED <<jobs, pipe, turns, told, reason>>

(* The script has both ends open from now on, so there is no end of file. *)
OpenFifo ==
  /\ phase = "open"
  /\ Go("first")
  /\ UNCHANGED <<jobs, path, pipe, turns, told, reason>>

(* Mutant of TurnEnds: the session ends with its turn. *)
TurnEndsSession ==
  /\ phase \in {"first", "turn"}
  /\ Leave("zero")
  /\ UNCHANGED <<jobs, path, pipe, turns, told, reason>>

(* claude has answered or failed (`|| true`).  The first turn is that of the *)
(* skill's prompt.                                                           *)
TurnEnds ==
  /\ phase \in {"first", "turn"}
  /\ Go("read")
  /\ UNCHANGED <<jobs, path, pipe, turns, told, reason>>

Blank(line) == Text[line[1]][line[2]] = "blank"

(* Mutant of ReadLine: a blank line takes the next one with it. *)
ReadLineAndNext ==
  /\ phase = "read"
  /\ ~told
  /\ pipe # <<>>
  /\ IF Blank(Head(pipe))
     THEN pipe' = SubSeq(pipe, 3, Len(pipe)) /\ UNCHANGED <<phase, turns>>
     ELSE pipe' = Tail(pipe) /\ phase' = "turn" /\ turns' = Append(turns, Head(pipe))
  /\ UNCHANGED <<jobs, path, msg, told, reason, exit>>

(* Mutant of ReadLine: a line is complete when the next one begins. *)
ReadLineLate ==
  /\ phase = "read"
  /\ ~told
  /\ Len(pipe) > 1
  /\ pipe' = Tail(pipe)
  /\ IF Blank(Head(pipe)) THEN UNCHANGED <<phase, turns>>
     ELSE phase' = "turn" /\ turns' = Append(turns, Head(pipe))
  /\ UNCHANGED <<jobs, path, msg, told, reason, exit>>

ReadLine ==
  /\ phase = "read"
  /\ ~told
  /\ pipe # <<>>
  /\ pipe' = Tail(pipe)
  /\ IF Blank(Head(pipe)) THEN UNCHANGED <<phase, turns>>
     ELSE phase' = "turn" /\ turns' = Append(turns, Head(pipe))
  /\ UNCHANGED <<jobs, path, msg, told, reason, exit>>

(* cleanup: `exit 0` *)
Trap ==
  /\ told
  /\ Interruptible
  /\ Leave("zero")
  /\ UNCHANGED <<jobs, path, pipe, turns, told, reason>>

Script ==
  \/ Authenticate \/ Checkout \/ Prompt \/ MakeFifo \/ OpenFifo \/ TurnEnds \/ ReadLine \/ Trap
  \/ \E j \in Jobs : JobEnds(j) \/ Wait(j)

-----------------------------------------------------------------------------
(* Docker *)

(* A user, the cleanup loop or a worker that goes down stops the container. *)
Stop ==
  /\ Running
  /\ ~told
  /\ told' = TRUE
  /\ UNCHANGED <<phase, jobs, path, pipe, turns, msg, reason, exit>>

(* The grace period is over, or the memory limit exceeded. *)
Kill ==
  /\ Running
  /\ Leave("killed")
  /\ UNCHANGED <<jobs, path, pipe, turns, told, reason>>

-----------------------------------------------------------------------------
(* Messages *)

(* send_message: the API answers when Docker has started the process, or has *)
(* refused to.                                                               *)
Send(m) ==
  /\ msg[m] = "idle"
  /\ \/ Running /\ msg' = [msg EXCEPT ![m] = "accepted"]
     \/ msg' = [msg EXCEPT ![m] = "refused"]
  /\ UNCHANGED <<phase, jobs, path, pipe, turns, told, reason, exit>>

LinesOf(m) == [i \in 1 .. Len(Text[m]) |-> <<m, i>>]

(* Where there is no FIFO yet, the shell's `>` makes a file, which nobody    *)
(* reads.  To open a FIFO is to wait for its reader.                         *)
Write(m) ==
  /\ msg[m] = "accepted"
  /\ \/ /\ path = "fifo" /\ phase # "open"
        /\ pipe' = pipe \o LinesOf(m)
        /\ msg' = [msg EXCEPT ![m] = "written"]
        /\ UNCHANGED path
     \/ /\ path # "fifo"
        /\ path' = "file"
        /\ msg' = [msg EXCEPT ![m] = "lost"]
        /\ UNCHANGED pipe
  /\ UNCHANGED <<phase, jobs, turns, told, reason, exit>>

-----------------------------------------------------------------------------
(* Specification *)

Init ==
  /\ phase = "auth"
  /\ jobs = [j \in Jobs |-> "idle"]
  /\ path = "none"
  /\ pipe = <<>> /\ turns = <<>>
  /\ msg = [m \in Messages |-> "idle"]
  /\ told = FALSE /\ reason = FALSE
  /\ exit = "none"

Next == Script \/ Stop \/ Kill \/ \E m \in Messages : Send(m) \/ Write(m)

Spec == Init /\ [][Next]_vars

(* Commands end -- claude after its --max-turns -- the processes that write  *)
(* run, and a grace period ends.                                             *)
Fairness ==
  /\ WF_vars(Script)
  /\ \A m \in Messages : WF_vars(Write(m))
  /\ WF_vars(told /\ Kill)

FairSpec == Spec /\ Fairness

-----------------------------------------------------------------------------
(* Properties *)

(* A runner that leaves with an error has put the reason into its log, so    *)
(* that the page can show it -- unless a message was sent before there was a *)
(* FIFO.                                                                     *)
SilentOnlyIfEarly == exit = "one" /\ ~reason => path = "file"

(* A runner leaves with zero, which the API records as success, only because *)
(* it was told to leave: neither claude nor a writer that closes the FIFO    *)
(* ends the conversation.                                                    *)
ZeroMeansTold == exit = "zero" => told

(* The lines claude has been called with, and those that wait. *)
Seen == turns \o pipe

(* Of a message that was written, each line that is not blank becomes a turn *)
(* or still waits in the FIFO, in the order of its lines and once.  No turn  *)
(* is of anything else, and none of a blank line.                            *)
LinesKept ==
  /\ \A k \in 1 .. Len(Seen) :
       \E m \in Messages : msg[m] = "written" /\ \E i \in 1 .. Len(Text[m]) : Seen[k] = <<m, i>>
  /\ \A k, l \in 1 .. Len(Seen) : k < l /\ Seen[k][1] = Seen[l][1] => Seen[k][2] < Seen[l][2]
  /\ \A m \in Messages : msg[m] = "written" =>
       \A i \in 1 .. Len(Text[m]) : ~Blank(<<m, i>>) => \E k \in 1 .. Len(Seen) : Seen[k] = <<m, i>>
  /\ \A k \in 1 .. Len(turns) : ~Blank(turns[k])

(* A message the API has accepted is answered turn by turn, if the runner    *)
(* stays.                                                                    *)
MessagesAnswered ==
  \A m \in Messages :
    msg[m] = "accepted" ~>
      \/ ~Running
      \/ \A i \in 1 .. Len(Text[m]) : ~Blank(<<m, i>>) => \E k \in 1 .. Len(turns) : turns[k] = <<m, i>>
=============================================================================
