----------------------------- MODULE EventStream -----------------------------
(* The output of one container on its way to browsers and to the table       *)
(* session_events.                                                           *)
(*                                                                           *)
(* Each connection reads the container's log from its beginning, numbers the *)
(* lines that are not blank, stores them in batches and sends those the      *)
(* client has not seen.  When the client goes away, or the stream breaks, a  *)
(* detached task takes the connection's place and reads the log once more,   *)
(* to its end.  Whoever has come to the end finalizes the session and looks  *)
(* for the scorecard among the stored events.                                *)
(*                                                                           *)
(* The log is a sequence of lines; which chunks it arrives in, and what the  *)
(* lines say, is left out.  A line is named by its place in the log.  Docker *)
(* ends a followed log when the container has exited, and sometimes earlier; *)
(* of a container that has been removed there is no log.                     *)
EXTENDS Naturals, Sequences, FiniteSets

CONSTANTS
  Conns,      \* connections, one for each request of a stream at a time
  BatchSize,  \* PERSIST_BATCH_SIZE
  MaxLines,   \* how many lines the container writes at most
  MaxFaults   \* how many failed writes, broken streams, failed requests and crashes

ASSUME StreamAssumption == /\ BatchSize \in Nat \ {0}
                           /\ MaxLines \in Nat
                           /\ MaxFaults \in Nat

VARIABLES
  log,      \* the lines written so far
  up,       \* the container runs
  gone,     \* the container has been removed
  begun,    \* the row has become RUNNING: its opener's commit has taken effect
  conn,     \* connections and the detached tasks that follow them
  wire,     \* frames sent on a connection and not yet received
  stored,   \* the table session_events
  loose,    \* batches in the hands of detached tasks
  over,     \* the row is no longer RUNNING
  dropped,  \* ids whose insertion failed
  faults    \* faults left

svars == <<log, up, gone, begun, conn, wire, stored, loose, over, dropped, faults>>

-----------------------------------------------------------------------------
(* Types *)

Lines == {"text", "blank"}
Event == [id : Nat, line : Nat]

ConnPC == {"idle", "open", "read", "flush", "pause", "last", "final", "judge", "write"}
Conn == [pc       : ConnPC,
         live     : BOOLEAN,        \* a client is attached
         offset   : Nat,            \* the last id the client has seen
         pos      : Nat,            \* lines read
         cut      : BOOLEAN,        \* the log ended while there may be more of it
         event_id : Nat,            \* lines numbered
         pending  : SUBSET Event,   \* numbered, and in no batch yet
         batch    : SUBSET Event]   \* being inserted

Idle == [pc |-> "idle", live |-> FALSE, offset |-> 0, pos |-> 0, cut |-> FALSE,
         event_id |-> 0, pending |-> {}, batch |-> {}]

(* A reader that asks for the log from its beginning: a client's, or nobody's. *)
Reader(live, offset) == [Idle EXCEPT !.pc = "open", !.live = live, !.offset = offset]

Frame == [kind : {"event", "done", "error"}, id : Nat, line : Nat]
EventFrame(e) == [kind |-> "event", id |-> e.id, line |-> e.line]
Notice(k) == [kind |-> k, id |-> 0, line |-> 0]

TypeOK ==
  /\ log \in Seq(Lines)
  /\ up \in BOOLEAN /\ gone \in BOOLEAN /\ begun \in BOOLEAN
  /\ conn \in [Conns -> Conn]
  /\ wire \in [Conns -> Seq(Frame)]
  /\ stored \in SUBSET Event
  /\ loose \in SUBSET (SUBSET Event)
  /\ over \in BOOLEAN
  /\ dropped \in SUBSET Nat
  /\ faults \in 0..MaxFaults

-----------------------------------------------------------------------------
Fault == faults > 0 /\ faults' = faults - 1
NoFault == UNCHANGED faults

Ids(events) == {e.id : e \in events}

(* INSERT ... ON CONFLICT DO NOTHING. *)
Insert(batch) == stored \cup {e \in batch : e.id \notin Ids(stored)}

-----------------------------------------------------------------------------
(* The container *)

(* A line is there once its newline is. *)
WriteLine(kind) ==
  /\ up /\ Len(log) < MaxLines
  /\ log' = Append(log, kind)
  /\ UNCHANGED <<up, gone, begun, conn, wire, stored, loose, over, dropped, faults>>

(* The exit may cut a line off before its newline: it is a line nevertheless. *)
ContainerExits ==
  /\ up
  /\ up' = FALSE
  /\ \/ UNCHANGED log
     \/ Len(log) < MaxLines /\ log' = Append(log, "text")
  /\ UNCHANGED <<gone, begun, conn, wire, stored, loose, over, dropped, faults>>

(* The opener commits, after it has answered.  Until then nobody else knows  *)
(* the container.                                                            *)
RowCommitted ==
  /\ ~begun
  /\ begun' = TRUE
  /\ UNCHANGED <<log, up, gone, conn, wire, stored, loose, over, dropped, faults>>

(* A stop or the expiry loop removes the container, with force. *)
RemovedElsewhere ==
  /\ begun /\ ~gone
  /\ gone' = TRUE /\ up' = FALSE
  /\ UNCHANGED <<log, begun, conn, wire, stored, loose, over, dropped, faults>>

(* They, or another worker, end the row; whether the container is down by    *)
(* then depends on Docker.                                                   *)
EndElsewhere ==
  /\ begun /\ ~over
  /\ over' = TRUE
  /\ UNCHANGED <<log, up, gone, begun, conn, wire, stored, loose, dropped, faults>>

-----------------------------------------------------------------------------
(* A connection *)

Step(c, r) == conn' = [conn EXCEPT ![c] = r]
Send(c, frames) == wire' = [wire EXCEPT ![c] = @ \o frames]

(* What a connection yields for the line it has numbered last. *)
Output(c, e) == IF conn[c].live /\ e.id > conn[c].offset THEN <<EventFrame(e)>> ELSE <<>>

(* stream_container_output: only a running session can be streamed. *)
Connect(c, offset) ==
  /\ conn[c].pc = "idle" /\ wire[c] = <<>>
  /\ begun /\ ~over
  /\ Step(c, Reader(TRUE, offset))
  /\ UNCHANGED <<log, up, gone, begun, wire, stored, loose, over, dropped, faults>>

Detach(events) == loose' = IF events = {} THEN loose ELSE loose \cup {events}

(* Mutant of Leave: only the finalization is detached, not the draining. *)
LeaveToFinalize(c) ==
  /\ Detach(conn[c].pending)
  /\ Step(c, [Idle EXCEPT !.pc = "final"])

(* Mutant of Leave: nobody follows the connection. *)
LeaveForGood(c) ==
  /\ Detach(conn[c].pending)
  /\ Step(c, Idle)

(* The pending lines go to a task of their own, and another one drains the   *)
(* log from its beginning.                                                   *)
Leave(c) ==
  /\ Detach(conn[c].pending)
  /\ Step(c, Reader(FALSE, 0))

(* Reading the log raises.  A client is told by a frame of its own; a        *)
(* detached task only logs it and is gone.                                   *)
Raises(c) ==
  \/ /\ conn[c].live
     /\ Leave(c)
     /\ Send(c, <<Notice("error")>>)
  \/ /\ ~conn[c].live
     /\ Detach(conn[c].pending)
     /\ Step(c, Idle)
     /\ UNCHANGED wire

(* The log of a removed container is a 404. *)
OpenLog(c) ==
  /\ conn[c].pc = "open"
  /\ \/ ~gone /\ Step(c, [conn[c] EXCEPT !.pc = "read"]) /\ UNCHANGED <<wire, loose>>
     \/ gone /\ Raises(c)
  /\ UNCHANGED <<log, up, gone, begun, stored, over, dropped, faults>>

(* The lines between two that are numbered are blank. *)
BlankBetween(i, j) == \A k \in i + 1..j - 1 : log[k] = "blank"

(* Mutant of Numbered: a client that resumes at an offset is given its lines *)
(* under the numbers that follow it.                                         *)
NumberedFromOffset(c, e) ==
  [conn[c] EXCEPT !.pos = e.line, !.event_id = e.id,
                  !.pending = @ \cup {[e EXCEPT !.id = @ + conn[c].offset]}]

(* The connection has numbered line e: it is stored whatever the offset is.  *)
Numbered(c, e) ==
  [conn[c] EXCEPT !.pos = e.line, !.event_id = e.id, !.pending = @ \cup {e}]

(* The next line that is not blank.  The frame is yielded after the batch    *)
(* that the line may have filled.                                            *)
TakeLine(c, line) ==
  LET e == [id |-> conn[c].event_id + 1, line |-> line]
      r == Numbered(c, e)
  IN /\ conn[c].pc = "read"
     /\ conn[c].pos < line /\ line <= Len(log)
     /\ log[line] = "text" /\ BlankBetween(conn[c].pos, line)
     /\ \/ /\ Cardinality(r.pending) < BatchSize
           /\ Step(c, r)
           /\ Send(c, Output(c, e))
        \/ /\ Cardinality(r.pending) >= BatchSize
           /\ Step(c, [r EXCEPT !.pc = "flush", !.batch = r.pending, !.pending = {}])
           /\ UNCHANGED wire
     /\ UNCHANGED <<log, up, gone, begun, stored, loose, over, dropped, faults>>

(* Everything there is to read has been read. *)
CaughtUp(c) == BlankBetween(conn[c].pos, Len(log) + 1)

(* No output for KEEPALIVE_INTERVAL_SECONDS: what is pending is flushed. *)
Keepalive(c) ==
  /\ conn[c].pc = "read"
  /\ CaughtUp(c)
  /\ conn[c].pending # {}
  /\ Step(c, [conn[c] EXCEPT !.pc = "pause", !.batch = conn[c].pending, !.pending = {}])
  /\ UNCHANGED <<log, up, gone, begun, wire, stored, loose, over, dropped, faults>>

(* _persist: an insertion that fails is logged and forgotten. *)
Persist(batch) ==
  \/ /\ stored' = Insert(batch)
     /\ NoFault /\ UNCHANGED dropped
  \/ /\ dropped' = dropped \cup Ids(batch)
     /\ Fault /\ UNCHANGED stored

(* The batch a line has filled, and the line's own frame after it; or the    *)
(* batch of a pause.                                                         *)
Flush(c) ==
  /\ conn[c].pc \in {"flush", "pause"}
  /\ Persist(conn[c].batch)
  /\ Step(c, [conn[c] EXCEPT !.pc = "read", !.batch = {}])
  /\ \/ /\ conn[c].pc = "flush"
        /\ Send(c, Output(c, [id |-> conn[c].event_id, line |-> conn[c].pos]))
     \/ conn[c].pc = "pause" /\ UNCHANGED wire
  /\ UNCHANGED <<log, up, gone, begun, loose, over>>

(* The container has exited and its log is read. *)
LogEnds(c) ==
  /\ conn[c].pc = "read"
  /\ ~up
  /\ CaughtUp(c)
  /\ Step(c, [conn[c] EXCEPT !.pc = "last"])
  /\ UNCHANGED <<log, up, gone, begun, wire, stored, loose, over, dropped, faults>>

(* Docker closes the log all the same: because the container is removed, or  *)
(* the connection to the daemon is lost.  To the reader that is an end like  *)
(* any other.                                                                *)
LogCut(c) ==
  /\ conn[c].pc = "read"
  /\ (gone /\ NoFault) \/ Fault
  /\ Step(c, [conn[c] EXCEPT !.pc = "last", !.cut = TRUE])
  /\ UNCHANGED <<log, up, gone, begun, wire, stored, loose, over, dropped>>

(* The stream has ended on its own: the last partial batch can be awaited. *)
LastFlush(c) ==
  /\ conn[c].pc = "last"
  /\ Persist(conn[c].pending)
  /\ Step(c, [conn[c] EXCEPT !.pc = "final", !.pending = {}])
  /\ UNCHANGED <<log, up, gone, begun, wire, loose, over>>

-----------------------------------------------------------------------------
(* Finalization *)

(* finalize_session reads the row: whoever comes late reports what it says. *)
FinalRead(c) ==
  /\ conn[c].pc = "final"
  /\ \/ /\ over
        /\ Step(c, Idle)
        /\ Send(c, IF conn[c].live THEN <<Notice("done")>> ELSE <<>>)
     \/ /\ ~over
        /\ Step(c, [conn[c] EXCEPT !.pc = "judge"])
        /\ UNCHANGED wire
  /\ UNCHANGED <<log, up, gone, begun, stored, loose, over, dropped, faults>>

(* Whatever fails in it is logged, and reported as a failed session; so is a *)
(* container that was removed before it could be waited for.                 *)
FinalFails(c) ==
  /\ \/ conn[c].pc \in {"final", "judge", "write"} /\ Fault
     \/ conn[c].pc = "judge" /\ gone /\ NoFault
  /\ Step(c, Idle)
  /\ Send(c, IF conn[c].live THEN <<Notice("done")>> ELSE <<>>)
  /\ UNCHANGED <<log, up, gone, begun, stored, loose, over, dropped>>

(* It waits for the exit, or until the TTL has passed, and then removes the  *)
(* container by force; that this fails is not noticed.                       *)
FinalRemove(c) ==
  /\ conn[c].pc = "judge"
  /\ Step(c, [conn[c] EXCEPT !.pc = "write"])
  /\ \/ gone' = TRUE /\ up' = FALSE /\ NoFault
     \/ Fault /\ UNCHANGED <<gone, up>>
  /\ UNCHANGED <<log, begun, wire, stored, loose, over, dropped>>

(* It writes the end; after an exit with zero it looks for the scorecard in  *)
(* the stored events.                                                        *)
FinalWrite(c) ==
  /\ conn[c].pc = "write"
  /\ over' = TRUE
  /\ Step(c, Idle)
  /\ Send(c, IF conn[c].live THEN <<Notice("done")>> ELSE <<>>)
  /\ UNCHANGED <<log, up, gone, begun, stored, loose, dropped, faults>>

-----------------------------------------------------------------------------
(* What goes wrong *)

(* The client is gone, or the network between: the connection notices, and   *)
(* an insertion that was under way may have been committed.  A detached task *)
(* does not mind.                                                            *)
Hangup(c) ==
  /\ \/ /\ conn[c].pc # "idle" /\ conn[c].live
        /\ stored' \in {stored, Insert(conn[c].batch)}
        /\ Leave(c)
     \/ ~conn[c].live /\ UNCHANGED <<conn, stored, loose>>
  /\ wire' = [wire EXCEPT ![c] = <<>>]
  /\ UNCHANGED <<log, up, gone, begun, over, dropped>>

(* The log cannot be had, or not to its end. *)
StreamBreaks(c) ==
  /\ conn[c].pc \in {"open", "read"}
  /\ Fault
  /\ Raises(c)
  /\ UNCHANGED <<log, up, gone, begun, stored, over, dropped>>

LooseFlush(events) ==
  /\ events \in loose
  /\ Persist(events)
  /\ loose' = loose \ {events}
  /\ UNCHANGED <<log, up, gone, begun, conn, wire, over>>

(* The process is killed with its connections and detached tasks. *)
Crash ==
  /\ Fault
  /\ conn' = [c \in Conns |-> Idle]
  /\ wire' = [c \in Conns |-> <<>>]
  /\ loose' = {}
  /\ UNCHANGED <<log, up, gone, begun, stored, over, dropped>>

(* Another request fails. *)
RequestFails ==
  /\ Fault
  /\ UNCHANGED <<log, up, gone, begun, conn, wire, stored, loose, over, dropped>>

Receive(c) ==
  /\ wire[c] # <<>>
  /\ wire' = [wire EXCEPT ![c] = Tail(@)]
  /\ UNCHANGED <<log, up, gone, begun, conn, stored, loose, over, dropped, faults>>

-----------------------------------------------------------------------------
(* Specification *)

StreamInit ==
  /\ log = <<>>
  /\ up = TRUE
  /\ gone = FALSE
  /\ begun = FALSE
  /\ conn = [c \in Conns |-> Idle]
  /\ wire = [c \in Conns |-> <<>>]
  /\ stored = {}
  /\ loose = {}
  /\ over = FALSE
  /\ dropped = {}
  /\ faults = MaxFaults

(* What asyncio resumes by itself. *)
Work(c) == \/ \E line \in 1..Len(log) : TakeLine(c, line)
           \/ OpenLog(c) \/ Keepalive(c) \/ Flush(c) \/ LogEnds(c)
           \/ LastFlush(c) \/ FinalRead(c) \/ FinalRemove(c) \/ FinalWrite(c)

Container == \/ \E k \in Lines : WriteLine(k)
             \/ ContainerExits \/ RemovedElsewhere
             \/ RowCommitted \/ EndElsewhere

(* Every step but those of a client. *)
Server == \/ Container
          \/ \E c \in Conns : Work(c)
          \/ \E c \in Conns : LogCut(c) \/ StreamBreaks(c) \/ FinalFails(c)
          \/ \E events \in loose : LooseFlush(events)

StreamNext == \/ Server
              \/ Crash \/ RequestFails
              \/ \E c \in Conns, offset \in Nat : Connect(c, offset)
              \/ \E c \in Conns : Receive(c)
              \/ \E c \in Conns : Hangup(c) /\ (Fault \/ NoFault)

StreamSpec == StreamInit /\ [][StreamNext]_svars

-----------------------------------------------------------------------------
(* Properties *)

(* The place of a line among those that are numbered. *)
TextLines(l, line) == {i \in 1..line : l[i] = "text"}
Number(line) == Cardinality(TextLines(log, line))

(* Every event that anybody holds. *)
Events(frames) == {[id |-> frames[i].id, line |-> frames[i].line] :
                   i \in {j \in 1..Len(frames) : frames[j].kind = "event"}}
Known == stored \cup (UNION loose)
         \cup (UNION {conn[c].pending \cup conn[c].batch \cup Events(wire[c]) : c \in Conns})

(* Readers number the log each for itself, from wherever their clients       *)
(* resume, and the first one to store an id decides what it says: an id      *)
(* nevertheless names the same line for all of them, in memory, on the wire  *)
(* and in the table (stream_events, _persist).                               *)
IdNamesOneLine == \A e, f \in Known : e.id = f.id <=> e.line = f.line

(* Whoever is about to search the stored events for a scorecard will find    *)
(* every line the container wrote, whatever clients came and went, except    *)
(* those whose insertion has failed, and those after the place where its own *)
(* log was cut off (_drain_and_finalize).                                    *)
FinalizerReadsAll ==
  \A c \in Conns : conn[c].pc \in {"judge", "write"} =>
    \A i \in 1..Len(log) : log[i] = "text" =>
      \/ Number(i) \in Ids(stored) \cup dropped
      \/ conn[c].cut /\ i > conn[c].pos
=============================================================================
