-------------------------- MODULE SessionLifecycle --------------------------
(* The life of a container session: the row of container_sessions, the       *)
(* Docker container behind it, and everything in the API that writes either. *)
(*                                                                           *)
(* Several uvicorn workers share one PostgreSQL database and one Docker      *)
(* socket.  A session's row is written by the request that opens it, by stop *)
(* and delete requests, by the finalizer behind every stream (two tabs, or a *)
(* reconnect, make two finalizers), and by three maintenance jobs of every   *)
(* worker.  All of them read the row, talk to Docker with no transaction     *)
(* visible to the others, and write back what they decided on that read.     *)
(*                                                                           *)
(* A database transaction is modelled by its reads, its flush and its commit.*)
(* A flush emits an UPDATE of the changed columns only and holds the row     *)
(* lock until the commit.  Flush and commit are one step wherever nothing    *)
(* else happens in between; the opener (which answers 201 before get_db      *)
(* commits), the finalizer (which posts to GitHub in between) and the        *)
(* shutdown job (whose loop autoflushes) keep the two apart.                 *)
EXTENDS Naturals, FiniteSets

CONSTANTS
  Sessions,   \* session ids, each with at most one container
  Workers,    \* API processes
  Stops,      \* POST .../stop requests
  Viewers,    \* streams, each carrying one finalization of its session
  Deletes,    \* DELETE requests
  None,       \* no worker, no session
  MaxFaults,  \* how many crashes, shutdowns, Docker and host errors may happen
  SlowOpeners \* whether opening a session may take longer than the TTL

ASSUME NoneAssumption == None \notin Workers \cup Sessions
ASSUME FaultsAssumption == MaxFaults \in Nat
ASSUME SlowAssumption == SlowOpeners \in BOOLEAN

VARIABLES
  row,     \* the committed row of each session
  cont,    \* Docker's state of the session's container
  code,    \* the container's exit code, kept by whoever already waits for it
  label,   \* the live worker whose boot id labels the container
  aged,    \* sessions whose created_at is past the TTL
  op,      \* progress of the request that opens the session
  st, fv, de, wk,   \* local state of stops, viewers, deletes and workers
  posts,   \* the finalizers that have posted a PR comment for the session
  faults   \* faults left

vars == <<row, cont, code, label, aged, op, st, fv, de, wk, posts, faults>>

-----------------------------------------------------------------------------
(* Types *)

Terminal   == {"completed", "failed", "timeout", "cancelled"}
Unfinished == {"pending", "running"}
Statuses   == Terminal \cup Unfinished

Row == [status : Statuses \cup {"absent"},
        cid    : BOOLEAN,       \* container_id is set
        done   : BOOLEAN,       \* completed_at is set
        score  : BOOLEAN]       \* scorecard and xp_earned are set

ContState == {"none", "created", "running", "exited", "removed"}
ExitCode  == {"ok", "bad"}                 \* zero or not
OpenerPC  == {"idle", "opened", "created", "started", "failing", "flushed", "over"}

Stop   == [pc : {"idle", "halt", "remove", "write", "stopped", "over"}, sid : Sessions \cup {None}]
Viewer == [pc : {"idle", "opening", "streaming", "detached", "draining", "ended", "waiting",
                 "attached", "exited", "mark", "flush", "flushed", "posted",
                 "done", "dead"},
           sid     : Sessions \cup {None},
           live    : BOOLEAN,       \* a client is attached
           verdict : Statuses,      \* what await_exit_status returned
           fresh   : BOOLEAN,       \* mark_completed read the row RUNNING
           found   : BOOLEAN,       \* a scorecard was found and flushed
           told    : Statuses]      \* what finalize_session returned
Delete == [pc : {"idle", "read", "over"}, sid : Sessions \cup {None}]
Worker == [pc   : {"down", "reconcile", "up", "expire", "stopping"},
           todo : SUBSET Sessions,  \* still to look at
           ids  : SUBSET Sessions,  \* read with a container id, to be stopped
           rm   : SUBSET Sessions,  \* stopped, to be removed
           hit  : SUBSET Sessions,  \* changed in memory
           held : SUBSET Sessions]  \* flushed, not yet committed

TypeOK ==
  /\ row \in [Sessions -> Row]
  /\ cont \in [Sessions -> ContState]
  /\ code \in [Sessions -> ExitCode \cup {"none"}]
  /\ label \in [Sessions -> Workers \cup {None}]
  /\ aged \in SUBSET Sessions
  /\ op \in [Sessions -> OpenerPC]
  /\ st \in [Stops -> Stop]
  /\ fv \in [Viewers -> Viewer]
  /\ de \in [Deletes -> Delete]
  /\ wk \in [Workers -> Worker]
  /\ posts \in [Sessions -> SUBSET Viewers]
  /\ faults \in 0..MaxFaults

-----------------------------------------------------------------------------
(* Rows *)

Blank(status) == [status |-> status, cid |-> FALSE, done |-> FALSE, score |-> FALSE]
Absent == Blank("absent")
Present(s) == row[s].status # "absent"
IsUnfinished(s) == row[s].status \in Unfinished

(* Mutant of Terminate: the writer saves every column as it once read it. *)
TerminateWhole(r, verdict) ==
  [status |-> verdict, cid |-> r.cid, done |-> TRUE, score |-> FALSE]

Terminate(r, verdict) ==
  [status |-> verdict, cid |-> r.cid, done |-> TRUE, score |-> r.score]
Scored(r) == [status |-> r.status, cid |-> r.cid, done |-> r.done, score |-> TRUE]

(* Who holds the row lock between its flush and its commit. *)
Locked(s) ==
  \/ op[s] = "flushed"
  \/ \E v \in Viewers : fv[v].pc \in {"flushed", "posted"} /\ fv[v].sid = s
  \/ \E w \in Workers : s \in wk[w].held

Writable(s) == Present(s) /\ ~Locked(s)

Fault == faults > 0 /\ faults' = faults - 1
NoFault == UNCHANGED faults

-----------------------------------------------------------------------------
(* Docker *)

(* docker stop.  SIGTERM exits 0 through the entrypoint's trap, unless Claude *)
(* is in the foreground past the grace period and the container is killed.   *)
(* An error (404 for a removed container) is swallowed by every caller, which*)
(* then does not try to remove it: answered says which of the two it was.    *)
StopCall(s, answered) ==
  \/ /\ answered
     /\ cont[s] \in {"running", "exited"}
     /\ cont' = [cont EXCEPT ![s] = "exited"]
     /\ \E k \in IF cont[s] = "running" THEN ExitCode ELSE {code[s]} :
          code' = [code EXCEPT ![s] = k]
     /\ NoFault
  \/ /\ ~answered
     /\ IF cont[s] = "removed" THEN NoFault ELSE Fault
     /\ UNCHANGED <<cont, code>>

(* docker rm -f, which kills what still runs; every caller swallows errors.  *)
RemoveCall(s) ==
  \/ /\ cont' = [cont EXCEPT ![s] = "removed"]
     /\ code' = [code EXCEPT ![s] = IF @ = "none" THEN "bad" ELSE @]
     /\ NoFault
  \/ Fault /\ UNCHANGED <<cont, code>>

(* The container ends on its own: a setup failure, or killed for memory. *)
RunnerDies(s) ==
  /\ cont[s] = "running"
  /\ cont' = [cont EXCEPT ![s] = "exited"]
  /\ code' = [code EXCEPT ![s] = "bad"]
  /\ UNCHANGED <<row, label, aged, op, st, fv, de, wk, posts, faults>>

(* SIGTERM from outside the API (the host, an operator): the trap exits 0. *)
HostStops(s) ==
  /\ cont[s] = "running"
  /\ Fault
  /\ cont' = [cont EXCEPT ![s] = "exited"]
  /\ code' = [code EXCEPT ![s] = "ok"]
  /\ UNCHANGED <<row, label, aged, op, st, fv, de, wk, posts>>

(* CONTAINER_TTL_SECONDS pass since created_at.  No Docker call of an opener *)
(* has a deadline, so with SlowOpeners that may be while it still opens.     *)
PassTTL(s) ==
  /\ Present(s)
  /\ SlowOpeners \/ op[s] = "over"
  /\ s \notin aged
  /\ aged' = aged \cup {s}
  /\ UNCHANGED <<row, cont, code, label, op, st, fv, de, wk, posts, faults>>

-----------------------------------------------------------------------------
(* Opening a session: POST /sessions, or the pull_request webhook.           *)

(* open_session: the row is created and committed before Docker is touched.  *)
(* start_container later checks the status of this same object, which its    *)
(* second SELECT does not refresh: to the opener the row stays PENDING.      *)
Open(s, w) ==
  /\ op[s] = "idle"
  /\ wk[w].pc \in {"up", "expire"}
  /\ row' = [row EXCEPT ![s] = Blank("pending")]
  /\ op' = [op EXCEPT ![s] = "opened"]
  /\ label' = [label EXCEPT ![s] = w]
  /\ UNCHANGED <<cont, code, aged, st, fv, de, wk, posts, faults>>

(* The webhook handler records a PENDING row; nothing ever starts it. *)
Announce(s) ==
  /\ op[s] = "idle"
  /\ \E w \in Workers : wk[w].pc # "down"
  /\ row' = [row EXCEPT ![s] = Blank("pending")]
  /\ op' = [op EXCEPT ![s] = "over"]
  /\ UNCHANGED <<cont, code, label, aged, st, fv, de, wk, posts, faults>>

CreateContainer(s) ==
  /\ op[s] = "opened"
  /\ \/ /\ cont' = [cont EXCEPT ![s] = "created"]
        /\ op' = [op EXCEPT ![s] = "created"]
        /\ NoFault
     \/ /\ Fault                        \* an error, or an answer that got lost
        /\ \E c \in {"none", "created"} : cont' = [cont EXCEPT ![s] = c]
        /\ op' = [op EXCEPT ![s] = "failing"]
  /\ UNCHANGED <<row, code, label, aged, st, fv, de, wk, posts>>

StartContainer(s) ==
  /\ op[s] = "created"
  /\ \/ /\ cont' = [cont EXCEPT ![s] = "running"]
        /\ op' = [op EXCEPT ![s] = "started"]
        /\ NoFault
     \/ /\ Fault
        /\ \E c \in {"created", "running"} : cont' = [cont EXCEPT ![s] = c]
        /\ op' = [op EXCEPT ![s] = "failing"]
  /\ UNCHANGED <<row, code, label, aged, st, fv, de, wk, posts>>

(* The skill is unknown, or Docker failed: FAILED, committed at once.  The   *)
(* container, if one was created, is left as it is.                          *)
RecordFailed(s) ==
  /\ op[s] \in {"opened", "failing"}
  /\ Writable(s)
  /\ row' = [row EXCEPT ![s] = Terminate(@, "failed")]
  /\ op' = [op EXCEPT ![s] = "over"]
  /\ UNCHANGED <<cont, code, label, aged, st, fv, de, wk, posts, faults>>

FlushRunning(s) ==
  /\ op[s] = "started"
  /\ Writable(s)
  /\ op' = [op EXCEPT ![s] = "flushed"]
  /\ UNCHANGED <<row, cont, code, label, aged, st, fv, de, wk, posts, faults>>

(* Mutants of CommitRunning: the container id is not written with the status;*)
(* the whole row is written as start_container read it.                      *)
CommitStatusOnly(s) ==
  /\ op[s] = "flushed"
  /\ row' = [row EXCEPT ![s].status = "running"]
  /\ op' = [op EXCEPT ![s] = "over"]
  /\ UNCHANGED <<cont, code, label, aged, st, fv, de, wk, posts, faults>>
CommitWhole(s) ==
  /\ op[s] = "flushed"
  /\ row' = [row EXCEPT ![s] = [Blank("running") EXCEPT !.cid = TRUE]]
  /\ op' = [op EXCEPT ![s] = "over"]
  /\ UNCHANGED <<cont, code, label, aged, st, fv, de, wk, posts, faults>>

(* get_db commits after the 201 went out.  The UPDATE sets container_id,     *)
(* status and started_at, whatever the row has become meanwhile.             *)
CommitRunning(s) ==
  /\ op[s] = "flushed"
  /\ row' = [row EXCEPT ![s].status = "running", ![s].cid = TRUE]
  /\ op' = [op EXCEPT ![s] = "over"]
  /\ UNCHANGED <<cont, code, label, aged, st, fv, de, wk, posts, faults>>

(* Mutant of OpenerLosesRow: the row is merged, so inserted again. *)
OpenerRestoresRow(s) ==
  /\ op[s] \in {"opened", "failing", "started"}
  /\ ~Present(s)
  /\ row' = [row EXCEPT ![s] = [Blank("running") EXCEPT !.cid = TRUE]]
  /\ op' = [op EXCEPT ![s] = "over"]
  /\ UNCHANGED <<cont, code, label, aged, st, fv, de, wk, posts, faults>>

(* The UPDATE matches no row: StaleDataError, rolled back. *)
OpenerLosesRow(s) ==
  /\ op[s] \in {"opened", "failing", "started"}
  /\ ~Present(s)
  /\ op' = [op EXCEPT ![s] = "over"]
  /\ UNCHANGED <<row, cont, code, label, aged, st, fv, de, wk, posts, faults>>

-----------------------------------------------------------------------------
(* Stopping and deleting *)

(* Mutant of StopRead: the container id is not looked at. *)
StopReadAny(r, s) ==
  /\ st[r].pc = "idle"
  /\ Present(s)
  /\ st' = [st EXCEPT ![r] = [pc |-> IF IsUnfinished(s) THEN "halt" ELSE "over", sid |-> s]]
  /\ UNCHANGED <<row, cont, code, label, aged, op, fv, de, wk, posts, faults>>

(* The route reads the row, then asks GitHub about the caller; stop_container*)
(* decides on that first read.  A finished session is returned as it is.     *)
StopRead(r, s) ==
  /\ st[r].pc = "idle"
  /\ Present(s)
  /\ st' = [st EXCEPT ![r] =
       [pc |-> IF ~IsUnfinished(s) THEN "over"
               ELSE IF row[s].cid THEN "halt" ELSE "write",
        sid |-> s]]
  /\ UNCHANGED <<row, cont, code, label, aged, op, fv, de, wk, posts, faults>>

StopHalt(r) ==
  /\ st[r].pc = "halt"
  /\ \E answered \in BOOLEAN :
       /\ StopCall(st[r].sid, answered)
       /\ st' = [st EXCEPT ![r].pc = IF answered THEN "remove" ELSE "write"]
  /\ UNCHANGED <<row, label, aged, op, fv, de, wk, posts>>

StopRemove(r) ==
  /\ st[r].pc = "remove"
  /\ RemoveCall(st[r].sid)
  /\ st' = [st EXCEPT ![r].pc = "write"]
  /\ UNCHANGED <<row, label, aged, op, fv, de, wk, posts>>

(* Mutant of StopWrite: an upsert, which needs no row. *)
StopUpserts(r) ==
  /\ st[r].pc = "write"
  /\ ~Locked(st[r].sid)
  /\ row' = [row EXCEPT ![st[r].sid] = Terminate(@, "cancelled")]
  /\ st' = [st EXCEPT ![r].pc = "stopped"]
  /\ UNCHANGED <<cont, code, label, aged, op, fv, de, wk, posts, faults>>

StopWrite(r) ==
  /\ st[r].pc = "write"
  /\ \/ /\ Writable(st[r].sid)
        /\ row' = [row EXCEPT ![st[r].sid] = Terminate(@, "cancelled")]
        /\ st' = [st EXCEPT ![r].pc = "stopped"]
     \/ /\ ~Present(st[r].sid)
        /\ st' = [st EXCEPT ![r].pc = "over"]
        /\ UNCHANGED row
  /\ UNCHANGED <<cont, code, label, aged, op, fv, de, wk, posts, faults>>

DeleteRead(d, s) ==
  /\ de[d].pc = "idle"
  /\ Present(s)
  /\ de' = [de EXCEPT ![d] = [pc |-> "read", sid |-> s]]
  /\ UNCHANGED <<row, cont, code, label, aged, op, st, fv, wk, posts, faults>>

(* Only the row goes, and its events by cascade: Docker is not told. *)
DeleteWrite(d) ==
  /\ de[d].pc = "read"
  /\ ~Locked(de[d].sid)
  /\ row' = [row EXCEPT ![de[d].sid] = Absent]
  /\ de' = [de EXCEPT ![d].pc = "over"]
  /\ UNCHANGED <<cont, code, label, aged, op, st, fv, wk, posts, faults>>

-----------------------------------------------------------------------------
(* Streaming and finalizing *)

GoTo(v, pc) == fv' = [fv EXCEPT ![v].pc = pc]
OnlyViewer == UNCHANGED <<row, cont, code, label, aged, op, st, de, wk, posts, faults>>

(* finalize_session returns. *)
Return(v, status) == fv' = [fv EXCEPT ![v].pc = "done", ![v].told = status]

(* The stream is given up: _drain_and_finalize begins anew, with no client,  *)
(* and with a finalizer that knows nothing of the one before.                *)
Detach(v) ==
  fv' = [fv EXCEPT ![v].pc = "detached", ![v].live = FALSE, ![v].verdict = "pending",
                   ![v].fresh = FALSE, ![v].found = FALSE]

(* The stream route admits a session that is RUNNING with a container id. *)
StreamOpen(v, s) ==
  /\ fv[v].pc = "idle"
  /\ row[s].status = "running" /\ row[s].cid
  /\ fv' = [fv EXCEPT ![v].pc = "opening", ![v].sid = s, ![v].live = TRUE]
  /\ OnlyViewer

(* The log of a removed container is a 404: the stream sends an error frame  *)
(* and detaches, the detached drain is logged and finalizes nothing.         *)
OpenLog(v) ==
  LET gone == cont[fv[v].sid] = "removed" IN
  /\ \/ /\ fv[v].pc = "opening"
        /\ IF gone THEN Detach(v) ELSE GoTo(v, "streaming")
     \/ /\ fv[v].pc = "detached"
        /\ GoTo(v, IF gone THEN "dead" ELSE "draining")
  /\ OnlyViewer

(* The log reaches its end because the container is gone, or because the     *)
(* daemon drops the connection while it still runs.                          *)
StreamEnds(v) ==
  /\ fv[v].pc \in {"streaming", "draining"}
  /\ \/ cont[fv[v].sid] # "running" /\ NoFault
     \/ cont[fv[v].sid] = "running" /\ Fault
  /\ GoTo(v, "ended")
  /\ UNCHANGED <<row, cont, code, label, aged, op, st, de, wk, posts>>

(* The client hangs up, at any point until the finalizer has returned, or    *)
(* the log raises.  The await under way is cancelled, which no handler of    *)
(* the finalizer catches: an open transaction is rolled back.                *)
StreamBreaks(v) ==
  /\ fv[v].live /\ fv[v].pc \notin {"idle", "done", "dead"}
  /\ Detach(v)
  /\ OnlyViewer

(* Phase 1: a session that is not RUNNING is only reported. *)
FinalizeRead(v) ==
  LET r == row[fv[v].sid] IN
  /\ fv[v].pc = "ended"
  /\ IF r.status = "running" /\ r.cid THEN GoTo(v, "waiting")
     ELSE Return(v, IF r.status = "absent" THEN "failed" ELSE r.status)
  /\ OnlyViewer

(* Phase 2: wait for the exit.  A removed container is a 404 to the waiter,  *)
(* and an exception like any other Docker error.                             *)
Attach(v) ==
  /\ fv[v].pc = "waiting"
  /\ IF cont[fv[v].sid] = "removed" THEN Return(v, "failed") ELSE GoTo(v, "attached")
  /\ OnlyViewer

(* Mutant of AwaitExit: whatever has ended has succeeded. *)
AwaitAnyExit(v) ==
  LET s == fv[v].sid IN
  /\ fv[v].pc = "attached"
  /\ \E verdict \in {"completed", "timeout"} :
       /\ verdict = "completed" => code[s] # "none"
       /\ verdict = "timeout"   => s \in aged /\ code[s] = "none"
       /\ fv' = [fv EXCEPT ![v].pc = "exited", ![v].verdict = verdict]
  /\ OnlyViewer

AwaitExit(v) ==
  LET s == fv[v].sid IN
  /\ fv[v].pc = "attached"
  /\ \E verdict \in {"completed", "failed", "timeout"} :
       /\ verdict = "completed" => code[s] = "ok"
       /\ verdict = "failed"    => code[s] = "bad"
       /\ verdict = "timeout"   => s \in aged /\ code[s] = "none"
       /\ fv' = [fv EXCEPT ![v].pc = "exited", ![v].verdict = verdict]
  /\ OnlyViewer

(* remove_container(force=True), errors suppressed. *)
RemoveExited(v) ==
  /\ fv[v].pc = "exited"
  /\ RemoveCall(fv[v].sid)
  /\ GoTo(v, "mark")
  /\ UNCHANGED <<row, label, aged, op, st, de, wk, posts>>

(* Phase 3, mark_completed: only a row read RUNNING will be changed. *)
MarkRead(v) ==
  LET r == row[fv[v].sid] IN
  /\ fv[v].pc = "mark"
  /\ IF r.status = "absent" THEN Return(v, "failed")
     ELSE fv' = [fv EXCEPT ![v].pc = "flush", ![v].fresh = (r.status = "running")]
  /\ OnlyViewer

(* The status, then the scorecard if the verdict is COMPLETED and the stored *)
(* events carry one -- whether or not mark_completed changed the status.     *)
FinalizeFlush(v) ==
  LET s == fv[v].sid IN
  /\ fv[v].pc = "flush"
  /\ \E found \in BOOLEAN :
       /\ found => fv[v].verdict = "completed"
       /\ \/ /\ ~fv[v].fresh /\ ~found
             /\ Return(v, fv[v].verdict)
          \/ /\ fv[v].fresh \/ found
             /\ Writable(s)
             /\ fv' = [fv EXCEPT ![v].pc = "flushed", ![v].found = found]
          \/ /\ fv[v].fresh \/ found
             /\ ~Present(s)
             /\ Return(v, "failed")
  /\ OnlyViewer

(* The comment goes out inside the transaction, if the installation opted in *)
(* and GitHub accepts it; otherwise the finalizer commits without it.        *)
PostComment(v) ==
  LET s == fv[v].sid IN
  /\ fv[v].pc = "flushed" /\ fv[v].found
  /\ posts' = [posts EXCEPT ![s] = @ \cup {v}]
  /\ GoTo(v, "posted")
  /\ UNCHANGED <<row, cont, code, label, aged, op, st, de, wk, faults>>

(* What the finalizer has flushed. *)
Flushed(v) ==
  LET s      == fv[v].sid
      marked == IF fv[v].fresh THEN Terminate(row[s], fv[v].verdict) ELSE row[s]
  IN [row EXCEPT ![s] = IF fv[v].found THEN Scored(marked) ELSE marked]

(* Mutant of FinalizeCommit: a failure to commit is not noticed. *)
FinalizeCommitUnchecked(v) ==
  /\ fv[v].pc \in {"flushed", "posted"}
  /\ \/ row' = Flushed(v) /\ NoFault
     \/ row' = row /\ Fault
  /\ Return(v, fv[v].verdict)
  /\ UNCHANGED <<cont, code, label, aged, op, st, de, wk, posts>>

(* Leaving the second get_db_context commits.  The client may hang up while  *)
(* it does.  Or it raises, whether or not it has taken effect, and what the  *)
(* finalizer returns is FAILED: the comment may be out with nothing stored.  *)
FinalizeCommit(v) ==
  /\ fv[v].pc \in {"flushed", "posted"}
  /\ \/ row' = Flushed(v) /\ Return(v, fv[v].verdict) /\ NoFault
     \/ row' = Flushed(v) /\ fv[v].live /\ Detach(v) /\ NoFault
     \/ row' \in {row, Flushed(v)} /\ Return(v, "failed") /\ Fault
  /\ UNCHANGED <<cont, code, label, aged, op, st, de, wk, posts>>

(* An exception in the phases before is caught as well, and reported the     *)
(* same way; errors of remove_container and of the comment are suppressed.   *)
FinalizeFails(v) ==
  /\ fv[v].pc \in {"ended", "waiting", "attached", "mark", "flush"}
  /\ Fault
  /\ Return(v, "failed")
  /\ UNCHANGED <<row, cont, code, label, aged, op, st, de, wk, posts>>

-----------------------------------------------------------------------------
(* Maintenance: reconciliation at boot, the expiry loop, graceful shutdown.  *)

Job(pc, todo, ids, hit) ==
  [pc |-> pc, todo |-> todo, ids |-> ids, rm |-> {}, hit |-> hit, held |-> {}]
Idle(pc) == Job(pc, {}, {}, {})
OnlyWorker == UNCHANGED <<row, cont, code, label, aged, op, st, fv, de, posts, faults>>

(* What a job writes into the rows it decided on, and where it goes next. *)
Verdict(pc) == CASE pc = "reconcile" -> "failed"
                 [] pc = "expire"    -> "timeout"
                 [] pc = "stopping"  -> "cancelled"
After(pc) == IF pc = "stopping" THEN "down" ELSE "up"

(* A row without a container id is stale at once, the others are probed. *)
Boot(w) ==
  LET unfinished == {s \in Sessions : IsUnfinished(s)} IN
  /\ wk[w].pc = "down"
  /\ wk' = [wk EXCEPT ![w] = Job("reconcile", {s \in unfinished : row[s].cid}, {},
                                             {s \in unfinished : ~row[s].cid})]
  /\ OnlyWorker

(* container_is_running: an error counts as "not running". *)
Probe(w, s) ==
  /\ wk[w].pc = "reconcile" /\ s \in wk[w].todo
  /\ \/ /\ NoFault
        /\ wk' = [wk EXCEPT ![w].todo = @ \ {s},
                            ![w].hit  = IF cont[s] = "running" THEN @ ELSE @ \cup {s}]
     \/ /\ Fault
        /\ wk' = [wk EXCEPT ![w].todo = @ \ {s}, ![w].hit = @ \cup {s}]
  /\ UNCHANGED <<row, cont, code, label, aged, op, st, fv, de, posts>>

(* Mutant of ExpireRead: only RUNNING rows expire. *)
ExpireReadRunning(w) ==
  LET expired == {s \in aged : row[s].status = "running"} IN
  /\ wk[w].pc = "up"
  /\ expired # {}
  /\ wk' = [wk EXCEPT ![w] = Job("expire", expired, {s \in expired : row[s].cid}, {})]
  /\ OnlyWorker

(* cleanup_expired: the unfinished rows past their TTL, as they are now. *)
ExpireRead(w) ==
  LET expired == {s \in aged : IsUnfinished(s)} IN
  /\ wk[w].pc = "up"
  /\ expired # {}
  /\ wk' = [wk EXCEPT ![w] = Job("expire", expired, {s \in expired : row[s].cid}, {})]
  /\ OnlyWorker

(* Row by row: a row without a container id has nothing to destroy. *)
ExpireSkip(w, s) ==
  /\ wk[w].pc = "expire" /\ wk[w].rm = {} /\ s \in wk[w].todo \ wk[w].ids
  /\ wk' = [wk EXCEPT ![w].todo = @ \ {s}, ![w].hit = @ \cup {s}]
  /\ OnlyWorker

(* _destroy, for the expiry loop and for the shutdown job: stop, remove. *)
JobStop(w, s) ==
  /\ wk[w].pc \in {"expire", "stopping"} /\ wk[w].rm = {} /\ s \in wk[w].ids
  /\ \E answered \in BOOLEAN :
       /\ StopCall(s, answered)
       /\ wk' = [wk EXCEPT ![w] =
            [wk[w] EXCEPT !.todo = @ \ {s},
                          !.ids  = @ \ {s},
                          !.rm   = IF answered THEN {s} ELSE {},
                          !.hit  = IF answered THEN @ ELSE @ \cup {s}]]
  /\ UNCHANGED <<row, label, aged, op, st, fv, de, posts>>

JobRemove(w, s) ==
  /\ s \in wk[w].rm
  /\ RemoveCall(s)
  /\ wk' = [wk EXCEPT ![w].rm = {}, ![w].hit = @ \cup {s}]
  /\ UNCHANGED <<row, label, aged, op, st, fv, de, posts>>

(* Mutant of ShutdownRead: every runner on the host is listed, not only those*)
(* of this process.                                                          *)
ShutdownReadAll(w) ==
  /\ wk[w].pc \in {"up", "expire"}
  /\ \A s \in Sessions : label[s] = w => op[s] = "over"
  /\ Fault
  /\ wk' = [wk EXCEPT ![w] = Job("stopping", {s \in Sessions : cont[s] = "running"}, {}, {})]
  /\ UNCHANGED <<row, cont, code, label, aged, op, st, fv, de, posts>>

(* SIGTERM: uvicorn lets its requests finish, the expiry loop is cancelled   *)
(* wherever it is (its transaction rolls back), and Docker is asked for the  *)
(* running containers that carry this process's boot id.                     *)
ShutdownRead(w) ==
  /\ wk[w].pc \in {"up", "expire"}
  /\ \A s \in Sessions : label[s] = w => op[s] = "over"
  /\ Fault
  /\ wk' = [wk EXCEPT ![w] = Job("stopping",
              {s \in Sessions : label[s] = w /\ cont[s] = "running"}, {}, {})]
  /\ UNCHANGED <<row, cont, code, label, aged, op, st, fv, de, posts>>

(* The loop's next SELECT autoflushes the rows changed so far.  A row that   *)
(* is gone, or has completed_at set, is skipped.                             *)
ShutdownGet(w, s) ==
  /\ wk[w].pc = "stopping" /\ wk[w].ids \cup wk[w].rm = {} /\ s \in wk[w].todo
  /\ \A h \in wk[w].hit : Writable(h)
  /\ wk' = [wk EXCEPT ![w] =
       [wk[w] EXCEPT
          !.todo = @ \ {s},
          !.held = @ \cup wk[w].hit,
          !.hit  = IF Present(s) /\ ~row[s].done /\ ~row[s].cid THEN {s} ELSE {},
          !.ids  = IF Present(s) /\ ~row[s].done /\ row[s].cid THEN {s} ELSE {}]]
  /\ OnlyWorker

(* A process ends: no container is labelled with its boot id any more (the   *)
(* next process has another), and the requests it was opening stop here.     *)
GoesDown(w) ==
  /\ label' = [s \in Sessions |-> IF label[s] = w THEN None ELSE label[s]]
  /\ op' = [s \in Sessions |-> IF label[s] = w THEN "over" ELSE op[s]]

Leave(w) ==
  /\ wk' = [wk EXCEPT ![w] = Idle(After(wk[w].pc))]
  /\ IF wk[w].pc = "stopping" THEN GoesDown(w) ELSE UNCHANGED <<label, op>>
  /\ UNCHANGED <<cont, code, aged, st, fv, de, posts, faults>>

(* One transaction for all rows of the job: every row changed in memory is   *)
(* flushed, waiting for its lock, and all of them are committed.             *)
JobCommit(w) ==
  /\ wk[w].pc \in {"reconcile", "expire", "stopping"}
  /\ wk[w].todo \cup wk[w].ids \cup wk[w].rm = {}
  /\ \A s \in wk[w].hit : Writable(s)
  /\ row' = [s \in Sessions |-> IF s \in wk[w].hit \cup wk[w].held
                                THEN Terminate(row[s], Verdict(wk[w].pc)) ELSE row[s]]
  /\ Leave(w)

(* One of the rows was deleted: StaleDataError at the flush, and the whole   *)
(* transaction is rolled back, for the rows that are still there as well.    *)
JobLosesRow(w) ==
  /\ wk[w].pc \in {"reconcile", "expire", "stopping"}
  /\ wk[w].ids \cup wk[w].rm = {}
  /\ wk[w].pc # "stopping" => wk[w].todo = {}
  /\ \E s \in wk[w].hit : ~Present(s)
  /\ Leave(w)
  /\ UNCHANGED row

-----------------------------------------------------------------------------
(* Crashes.  A request may die on its own (its worker's other work survives  *)
(* or not); its transaction is rolled back.                                  *)

Crash(w) ==
  /\ wk[w].pc # "down"
  /\ Fault
  /\ wk' = [wk EXCEPT ![w] = Idle("down")]
  /\ GoesDown(w)
  /\ UNCHANGED <<row, cont, code, aged, st, fv, de, posts>>

StopDies(r) ==
  /\ st[r].pc \in {"halt", "remove", "write"}
  /\ Fault
  /\ st' = [st EXCEPT ![r].pc = "over"]
  /\ UNCHANGED <<row, cont, code, label, aged, op, fv, de, wk, posts>>

ViewerDies(v) ==
  /\ fv[v].pc \notin {"idle", "done", "dead"}
  /\ Fault
  /\ GoTo(v, "dead")
  /\ UNCHANGED <<row, cont, code, label, aged, op, st, de, wk, posts>>

DeleteDies(d) ==
  /\ de[d].pc = "read"
  /\ Fault
  /\ de' = [de EXCEPT ![d].pc = "over"]
  /\ UNCHANGED <<row, cont, code, label, aged, op, st, fv, wk, posts>>

-----------------------------------------------------------------------------
Init ==
  /\ row = [s \in Sessions |-> Absent]
  /\ cont = [s \in Sessions |-> "none"]
  /\ code = [s \in Sessions |-> "none"]
  /\ label = [s \in Sessions |-> None]
  /\ aged = {}
  /\ op = [s \in Sessions |-> "idle"]
  /\ st = [r \in Stops |-> [pc |-> "idle", sid |-> None]]
  /\ fv = [v \in Viewers |-> [pc |-> "idle", sid |-> None, live |-> FALSE,
                              verdict |-> "pending", fresh |-> FALSE, found |-> FALSE, told |-> "pending"]]
  /\ de = [d \in Deletes |-> [pc |-> "idle", sid |-> None]]
  /\ wk = [w \in Workers |-> Idle("down")]
  /\ posts = [s \in Sessions |-> {}]
  /\ faults = MaxFaults

Opening(s) == CreateContainer(s) \/ StartContainer(s) \/ RecordFailed(s)
                \/ FlushRunning(s) \/ CommitRunning(s) \/ OpenerLosesRow(s)
Stopping(r) == (\E s \in Sessions : StopRead(r, s)) \/ StopHalt(r) \/ StopRemove(r) \/ StopWrite(r)
Deleting(d) == (\E s \in Sessions : DeleteRead(d, s)) \/ DeleteWrite(d)
Finalizing(v) == OpenLog(v) \/ FinalizeRead(v) \/ Attach(v) \/ AwaitExit(v)
                   \/ RemoveExited(v) \/ MarkRead(v) \/ FinalizeFlush(v)
                   \/ PostComment(v) \/ FinalizeCommit(v)
Viewing(v) == (\E s \in Sessions : StreamOpen(v, s)) \/ StreamEnds(v)
                \/ StreamBreaks(v) \/ Finalizing(v)
Sweeping(w) == ExpireRead(w) \/ JobCommit(w) \/ JobLosesRow(w)
                 \/ \E s \in Sessions : Probe(w, s) \/ ExpireSkip(w, s) \/ JobStop(w, s)
                                          \/ JobRemove(w, s) \/ ShutdownGet(w, s)

Next ==
  \/ \E s \in Sessions : RunnerDies(s) \/ HostStops(s) \/ PassTTL(s)
                           \/ Announce(s) \/ Opening(s)
  \/ \E s \in Sessions, w \in Workers : Open(s, w)
  \/ \E r \in Stops : Stopping(r) \/ StopDies(r)
  \/ \E d \in Deletes : Deleting(d) \/ DeleteDies(d)
  \/ \E v \in Viewers : Viewing(v) \/ FinalizeFails(v) \/ ViewerDies(v)
  \/ \E w \in Workers : Boot(w) \/ Sweeping(w) \/ ShutdownRead(w) \/ Crash(w)

Spec == Init /\ [][Next]_vars

(* Everything the API itself has begun goes on, as long as it does not crash:*)
(* asyncio resumes what it awaits, the expiry loop ticks every 300 s, and a  *)
(* worker that ends is restarted.  Nothing is assumed of users, of the runner*)
(* or of the host.  Only the TTL is sure to pass.                            *)
Fairness ==
  /\ \A s \in Sessions : WF_vars(PassTTL(s)) /\ WF_vars(Opening(s))
  /\ \A v \in Viewers : WF_vars(Finalizing(v))
  /\ \A w \in Workers : WF_vars(Boot(w)) /\ WF_vars(Sweeping(w))

FairSpec == Spec /\ Fairness

-----------------------------------------------------------------------------
(* What holds *)

(* The columns of a row agree, although every writer sets only some of them  *)
(* from its own stale read: a PENDING row has no container id and no end, a  *)
(* RUNNING one has its container id, an ended one its completed_at, and only *)
(* a session that has a container id can carry a scorecard.                  *)
RowShape ==
  \A s \in Sessions :
    LET r == row[s] IN
    /\ r.status = "pending" => ~r.cid /\ ~r.done
    /\ r.status = "running" => r.cid
    /\ r.status \in Terminal => r.done
    /\ r.score => r.cid
    /\ r.status = "absent" => r = Absent

(* A row is COMPLETED, carries a scorecard or has its results on the pull    *)
(* request only when its container has ended with exit code 0 -- never       *)
(* because somebody gave up waiting for it, and never while it runs.         *)
SuccessIsEarned ==
  \A s \in Sessions :
    row[s].status = "completed" \/ row[s].score \/ posts[s] # {} =>
      code[s] = "ok" /\ cont[s] \in {"exited", "removed"}

(* A finalizer that found the results, posted them and says COMPLETED has    *)
(* stored them, and the row keeps the scorecard whatever stops, sweeps and   *)
(* late starts run beside it.  It may still have posted what is not stored,  *)
(* when its commit fails or it dies in between; then it does not say so.     *)
PostedScoreIsStored ==
  \A s \in Sessions : \A v \in posts[s] :
    fv[v].found /\ fv[v].told = "completed" /\ Present(s) => row[s].score

(* A graceful shutdown stops no container of another process: "stopping the  *)
(* lot cancelled peers' live sessions on any single worker restart".         *)
ShutdownSparesPeers ==
  [][\A w \in Workers, s \in Sessions :
       wk[w].pc = "stopping" /\ wk'[w] # wk[w] /\ cont[s] = "running" /\ cont'[s] # "running"
         => label[s] = w]_vars

(* A deleted session stays deleted: no request, finalizer or sweep that still*)
(* holds the object in memory writes the row back.                           *)
DeletedStaysDeleted ==
  [][\A s \in Sessions : op[s] # "idle" /\ ~Present(s) => ~Present(s)']_vars

(* A session that has ended never loses its completed_at, its container id   *)
(* or its scorecard to a writer that read the row before they were set.      *)
EndIsRemembered ==
  [][\A s \in Sessions : Present(s) /\ Present(s)' =>
       /\ row[s].done => row'[s].done
       /\ row[s].cid => row'[s].cid
       /\ row[s].score => row'[s].score]_vars

(* The rows, read through status, container id and exit code, keep the       *)
(* abstract contract: one birth, one start, no unearned success, no revival. *)
Contract == INSTANCE SessionContract WITH
  status  <- [s \in Sessions |-> row[s].status],
  started <- {s \in Sessions : row[s].cid},
  born    <- {s \in Sessions : op[s] # "idle"},
  exit    <- code

KeepsContract == Contract!ContractSpec

-----------------------------------------------------------------------------
(* Why it holds: the inductive invariant                                     *)

(* Nobody knows a container before its opener has committed its id, so only  *)
(* the opener moves it until then, and it starts in step with the opener.    *)
OpenerInv ==
  \A s \in Sessions :
    /\ op[s] = "idle" => row[s] = Absent /\ label[s] = None
    /\ op[s] \in {"idle", "opened"} => cont[s] = "none"
    /\ op[s] = "created" => cont[s] = "created"
    /\ op[s] = "flushed" => Present(s)
    /\ row[s].cid => op[s] = "over"
    /\ code[s] # "none" <=> cont[s] \in {"exited", "removed"}

(* Stops and deletes hold the id of a session that exists or existed, and    *)
(* talk to Docker only about a container whose id they read in its row.      *)
RequestInv ==
  /\ \A r \in Stops : st[r].pc # "idle" =>
       /\ st[r].sid \in Sessions
       /\ op[st[r].sid] # "idle"
       /\ st[r].pc \in {"halt", "remove"} => op[st[r].sid] = "over"
  /\ \A d \in Deletes : de[d].pc # "idle" =>
       /\ de[d].sid \in Sessions
       /\ op[de[d].sid] # "idle"

(* A finalizer belongs to a session with a container id, keeps its row from  *)
(* being deleted while it holds the lock, and says COMPLETED only on exit 0. *)
(* One that has found a scorecard and says so has committed it.              *)
ViewerOK(v) ==
  /\ fv[v].found => /\ fv[v].verdict = "completed"
                    /\ fv[v].pc \in {"flushed", "posted", "done", "dead"}
  /\ fv[v].verdict = "completed" => fv[v].pc # "idle" /\ code[fv[v].sid] = "ok"
  /\ fv[v].pc \in {"exited", "mark", "flush", "flushed", "posted"} => fv[v].verdict \in Terminal
  /\ fv[v].pc # "idle" =>
       /\ fv[v].sid \in Sessions
       /\ op[fv[v].sid] = "over"
       /\ Present(fv[v].sid) => row[fv[v].sid].cid
       /\ fv[v].pc \in {"flushed", "posted"} => Present(fv[v].sid)
  /\ fv[v].told = "completed" =>
       /\ fv[v].pc = "done"
       /\ fv[v].found /\ Present(fv[v].sid) => row[fv[v].sid].score

ViewerInv == \A v \in Viewers : ViewerOK(v)

(* A job destroys only containers it knows from a row, and keeps the rows it *)
(* has flushed.                                                              *)
WorkerOK(w) ==
  /\ \A s \in wk[w].ids \cup wk[w].rm : op[s] = "over"
  /\ \A s \in wk[w].held : Present(s)
  /\ wk[w].pc \in {"down", "up"} => wk[w] = Idle(wk[w].pc)

WorkerInv == \A w \in Workers : WorkerOK(w)

(* Whoever has posted results is a finalizer of that session. *)
PostInv ==
  \A s \in Sessions : \A v \in posts[s] : fv[v].pc # "idle" /\ fv[v].sid = s

IInv == /\ TypeOK /\ RowShape /\ SuccessIsEarned
        /\ OpenerInv /\ RequestInv /\ ViewerInv /\ WorkerInv /\ PostInv

-----------------------------------------------------------------------------
(* Every session ends for good: after finitely many crashes and shutdowns no *)
(* row is PENDING or RUNNING any more, not even by a late start, although no *)
(* stream need ever be opened and the runner never exits on its own.         *)
SessionsEnd ==
  \A s \in Sessions : IsUnfinished(s) ~> []~IsUnfinished(s)

=============================================================================
