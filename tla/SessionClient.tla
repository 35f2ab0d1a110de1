---------------------------- MODULE SessionClient ----------------------------
(* The page that shows a running session (ContainerSession.tsx), on top of   *)
(* the stream it reads.                                                      *)
(*                                                                           *)
(* The page opens an EventSource and remembers the last id it was sent.      *)
(* When the network breaks, the EventSource reconnects by itself, with the   *)
(* URL it was created with and the last id it has received itself.  When the *)
(* server refuses it, the page asks for the session's status, after a delay  *)
(* that doubles, and opens another EventSource while the session runs; of a  *)
(* session that is still PENDING it expects nothing more.  A frame of the    *)
(* server says that the session is done, or that the stream broke.           *)
EXTENDS EventStream

CONSTANT MaxReconnects   \* MAX_RECONNECTS

ASSUME ClientAssumption == MaxReconnects \in Nat

VARIABLE page
vars == <<svars, page>>

-----------------------------------------------------------------------------
(* Types *)

(* The page has no stream, asks for one, reads one, asks for the status of   *)
(* the session, waits for what never comes, or has come to an end.           *)
PagePC == {"off", "asking", "reading", "polling", "waiting", "settled"}
Page == [pc     : PagePC,
         conn   : SUBSET Conns,    \* the connection it reads, if any
         url    : Nat,             \* the offset in the EventSource's URL
         last   : Nat,             \* the EventSource's Last-Event-ID
         offset : Nat,             \* sseOffsetRef
         tries  : 0..MaxReconnects + 1,   \* reconnectCountRef
         shown  : SUBSET Event]    \* what it has been sent

Blank == [pc |-> "off", conn |-> {}, url |-> 0, last |-> 0, offset |-> 0, tries |-> 0,
          shown |-> {}]

PageTypeOK == TypeOK /\ page \in Page

Turn(r) == page' = r

-----------------------------------------------------------------------------
(* The page *)

(* Mutant of OpenSource: the page begins anew whenever it opens a stream. *)
OpenSourceAnew(r) == [Blank EXCEPT !.pc = "asking", !.tries = r.tries]

(* connectStream: a new EventSource, whose URL carries the offset. *)
OpenSource(r) == [r EXCEPT !.pc = "asking", !.url = r.offset, !.last = 0]

(* The EventSource is closed, or its connection is lost. *)
CloseSource(r, pc) == [r EXCEPT !.pc = pc, !.conn = {}, !.url = 0, !.last = 0]
LoseSource(r) == [r EXCEPT !.pc = "asking", !.conn = {}]

(* What the page does with a status it has asked for: a session that has     *)
(* ended is shown as ended, a running one is streamed, and nothing at all is *)
(* done about a PENDING one.                                                 *)
Act == \/ over /\ Turn(CloseSource(page, "settled"))
       \/ begun /\ ~over /\ Turn(OpenSource(page))
       \/ ~begun /\ Turn(CloseSource(page, "waiting"))

(* The page shows a session there is, or has just opened one: the answer to  *)
(* that says RUNNING, before it is committed.                                *)
Mount ==
  /\ page.pc = "off"
  /\ Act \/ Turn(OpenSource(page))
  /\ UNCHANGED svars

(* Mutant of ResumeOffset: the id the EventSource sends is one too many. *)
ResumeOffsetPast == IF page.url # 0 THEN page.url ELSE page.last + 1

(* _resume_offset: the URL's offset, else the header's. *)
ResumeOffset == IF page.url # 0 THEN page.url ELSE page.last

Accepted(c) ==
  /\ page.pc = "asking"
  /\ Connect(c, ResumeOffset)
  /\ Turn([page EXCEPT !.pc = "reading", !.conn = {c}, !.tries = 0])

(* Mutant of Refused: every error of an EventSource is taken for a network   *)
(* that it will recover from.                                                *)
RefusedUnseen ==
  /\ page.pc = "asking"
  /\ Turn([page EXCEPT !.pc = "reading"])
  /\ UNCHANGED svars

(* Any answer but a stream makes the EventSource give up: the session is not *)
(* running any more, the token in the URL has expired, or the rate limit is  *)
(* reached.                                                                  *)
Refused ==
  /\ page.pc = "asking"
  /\ Turn([CloseSource(page, IF page.tries < MaxReconnects THEN "polling" ELSE "settled")
            EXCEPT !.tries = @ + 1])
  /\ UNCHANGED svars

(* pollSessionStatus; an answer that does not come ends it, too. *)
Poll ==
  /\ page.pc = "polling"
  /\ \/ Act /\ UNCHANGED svars
     \/ RequestFails /\ Turn(CloseSource(page, "settled"))

(* onmessage, and the listeners for done and error. *)
ReadFrame(c) ==
  LET f == Head(wire[c]) IN
  /\ page.pc = "reading" /\ page.conn = {c}
  /\ Receive(c)
  /\ \/ /\ f.kind = "event"
        /\ Turn([page EXCEPT !.last = f.id, !.offset = f.id,
                             !.shown = @ \cup {[id |-> f.id, line |-> f.line]}])
     \/ /\ f.kind # "event"
        /\ Turn(CloseSource(page, "settled"))

(* The network breaks: the EventSource reconnects. *)
NetworkBreaks(c) ==
  /\ page.pc = "reading" /\ page.conn = {c}
  /\ Turn(LoseSource(page))
  /\ Hangup(c) /\ Fault

(* The server was killed. *)
CrashSeen ==
  /\ Crash
  /\ Turn(IF page.pc = "reading" THEN LoseSource(page) ELSE page)

(* The page is left. *)
LeavePage ==
  /\ page.pc \in {"asking", "reading", "polling", "waiting"}
  /\ Turn(CloseSource(page, "settled"))
  /\ \/ \E c \in page.conn : Hangup(c) /\ NoFault
     \/ page.conn = {} /\ UNCHANGED svars

-----------------------------------------------------------------------------
(* Specification *)

Init == StreamInit
        /\ page = Blank

PageStep == \/ Mount \/ Refused \/ Poll
            \/ \E c \in Conns : Accepted(c) \/ ReadFrame(c)

Next == \/ Server /\ UNCHANGED page
        \/ PageStep
        \/ \E c \in Conns : NetworkBreaks(c)
        \/ CrashSeen
        \/ LeavePage

Spec == Init /\ [][Next]_vars

(* asyncio resumes the connections, detached tasks and the page; the line    *)
(* that is being written is finished or cut off by the exit.  The container  *)
(* need not exit, and nobody need open or leave the page.                    *)
Fairness ==
  /\ \A c \in Conns : WF_vars(Work(c) /\ UNCHANGED page)
  /\ \A c \in Conns : WF_vars(ReadFrame(c))
  /\ \A c \in Conns : WF_vars(Accepted(c))
  /\ WF_vars(Refused)
  /\ WF_vars(Poll)

FairSpec == Spec /\ Fairness

-----------------------------------------------------------------------------
(* Properties *)

(* What the page has been sent has no holes: it never shows a line before    *)
(* one that precedes it, over any number of lost networks, reconnects and    *)
(* refused streams (sseOffsetRef, _resume_offset, the numbering that starts  *)
(* anew with each connection).                                               *)
NothingSkipped ==
  \A e \in page.shown : \A i \in 1..e.line :
    log[i] = "text" => [id |-> Number(i), line |-> i] \in page.shown

(* The page is a feed of the container's log: however often it reconnects,   *)
(* it shows the next line or, of a line that is sent once more, nothing new; *)
(* and it keeps what it has shown (connectStream, appendMessage).            *)
Transcript == INSTANCE Feed WITH log <- log, shown <- {e.line : e \in page.shown}

KeepsFeed == Transcript!FeedSpec

(* A stream that was opened is followed to its end: once the container has   *)
(* exited and nothing breaks any more, the session is finalized, though its  *)
(* clients be gone (_drain_and_finalize) -- unless the container is removed  *)
(* first, and whoever did it did not come to write the end.                  *)
StreamsFinalize ==
  \A c \in Conns :
    (conn[c].pc # "idle" /\ ~up /\ faults = 0)
      ~> (over \/ (gone /\ \A d \in Conns : conn[d].pc = "idle"))

(* The page comes to know the end: it does not wait for ever at a session    *)
(* that has ended and whose container has exited, unless the answer it had   *)
(* to its question was PENDING (pollSessionStatus, the frames done and       *)
(* error).                                                                   *)
PageSettles == (over /\ ~up /\ page.pc # "waiting") ~> (page.pc \in {"off", "settled"})
=============================================================================
