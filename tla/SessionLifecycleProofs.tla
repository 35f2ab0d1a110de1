----------------------- MODULE SessionLifecycleProofs -----------------------
(* The theorems about SessionLifecycle, for any number of sessions, workers, *)
(* requests, finalizers and faults.                                          *)
(*                                                                           *)
(* IInv is inductive.  One lemma per action shows that the action keeps it,  *)
(* conjunct by conjunct; actions of the same kind share a lemma: what a      *)
(* finalizer does to its own state (ViewerMoves), what a job does to its own *)
(* (JobMoves), a Docker call (DockerCall), rows that end (EndingKeeps).      *)
EXTENDS SessionLifecycle, TLAPS

-----------------------------------------------------------------------------
(* Helpers *)

(* The fault budget stays within its bound, whether a step uses it or not. *)
LEMMA FaultTyped ==
  ASSUME TypeOK, Fault \/ NoFault
  PROVE  faults' \in 0..MaxFaults
  BY FaultsAssumption DEF TypeOK, Fault, NoFault

(* A step of one finalizer that touches nothing else keeps the invariant if  *)
(* that finalizer's own part of it holds again, and if it stays with its     *)
(* session.                                                                  *)
LEMMA ViewerMoves ==
  ASSUME IInv, NEW v \in Viewers,
         UNCHANGED <<row, cont, code, label, aged, op, st, de, wk, posts>>,
         Fault \/ NoFault,
         fv' \in [Viewers -> Viewer],
         \A x \in Viewers \ {v} : fv'[x] = fv[x],
         ViewerOK(v)',
         fv[v].pc # "idle" => fv'[v].pc # "idle" /\ fv'[v].sid = fv[v].sid
  PROVE  IInv'
  <1>1. TypeOK'
    BY FaultTyped DEF IInv, TypeOK
  <1>2. ViewerInv'
    <2> SUFFICES ASSUME NEW x \in Viewers, x # v PROVE ViewerOK(x)'
      BY DEF ViewerInv
    <2> QED
      BY DEF IInv, ViewerInv, ViewerOK, Present
  <1>3. PostInv'
    <2> SUFFICES ASSUME NEW s \in Sessions, NEW x \in posts[s]
                 PROVE fv'[x].pc # "idle" /\ fv'[x].sid = s
      BY DEF PostInv
    <2>1. x \in Viewers /\ fv[x].pc # "idle" /\ fv[x].sid = s
      BY DEF IInv, TypeOK, PostInv
    <2> QED
      BY <2>1
  <1>4. RowShape' /\ SuccessIsEarned' /\ OpenerInv' /\ RequestInv' /\ WorkerInv'
    BY DEF IInv, RowShape, SuccessIsEarned, OpenerInv, RequestInv, WorkerInv, WorkerOK, Present
  <1> QED
    BY <1>1, <1>2, <1>3, <1>4 DEF IInv

(* A step of one worker's job that touches only its own memory keeps the     *)
(* invariant if that worker's own part of it holds again.                    *)
LEMMA JobMoves ==
  ASSUME IInv, NEW w \in Workers,
         UNCHANGED <<row, cont, code, label, aged, op, st, fv, de, posts>>,
         Fault \/ NoFault,
         wk' \in [Workers -> Worker],
         \A x \in Workers \ {w} : wk'[x] = wk[x],
         WorkerOK(w)'
  PROVE  IInv'
  <1>1. TypeOK'
    BY FaultTyped DEF IInv, TypeOK
  <1>2. WorkerInv'
    <2> SUFFICES ASSUME NEW x \in Workers, x # w PROVE WorkerOK(x)'
      BY DEF WorkerInv
    <2> QED
      BY DEF IInv, WorkerInv, WorkerOK, Present
  <1>3. /\ RowShape' /\ SuccessIsEarned' /\ OpenerInv' /\ RequestInv'
        /\ ViewerInv' /\ PostInv'
    BY DEF IInv, RowShape, SuccessIsEarned, OpenerInv, RequestInv,
           ViewerInv, ViewerOK, PostInv, Present
  <1> QED
    BY <1>1, <1>2, <1>3 DEF IInv

(* docker stop and docker rm -f of a started container, by whoever: the      *)
(* container and its exit code stay in step, and an exit code once known is  *)
(* kept.                                                                     *)
LEMMA DockerCall ==
  ASSUME IInv, NEW s \in Sessions, op[s] = "over", UNCHANGED <<row, label, op, posts>>,
         RemoveCall(s) \/ \E answered \in BOOLEAN : StopCall(s, answered)
  PROVE  /\ cont' \in [Sessions -> ContState]
         /\ code' \in [Sessions -> ExitCode \cup {"none"}]
         /\ faults' \in 0..MaxFaults
         /\ SuccessIsEarned'
         /\ OpenerInv'
         /\ \A x \in Sessions : code[x] = "ok" => code'[x] = "ok"
  <1> DEFINE ended == {"exited", "removed"}
  <1>1. faults' \in 0..MaxFaults
    BY FaultTyped DEF IInv, RemoveCall, StopCall
  <1>2. PICK c \in ContState, k \in ExitCode \cup {"none"} :
          /\ cont' = [cont EXCEPT ![s] = c]
          /\ code' = [code EXCEPT ![s] = k]
          /\ k # "none" <=> c \in ended
          /\ code[s] = "ok" => k = "ok" /\ c \in ended
    <2>0. /\ cont \in [Sessions -> ContState]
          /\ code \in [Sessions -> ExitCode \cup {"none"}]
          /\ code[s] # "none" <=> cont[s] \in ended
      BY DEF IInv, TypeOK, OpenerInv
    <2>1. CASE RemoveCall(s)
      BY <2>0, <2>1 DEF RemoveCall, ContState, ExitCode
    <2>2. CASE \E answered \in BOOLEAN : StopCall(s, answered)
      BY <2>0, <2>2 DEF StopCall, ContState, ExitCode
    <2> QED
      BY <2>1, <2>2
  <1>3. /\ cont' \in [Sessions -> ContState]
        /\ code' \in [Sessions -> ExitCode \cup {"none"}]
        /\ \A x \in Sessions : code[x] = "ok" => code'[x] = "ok"
    BY <1>2 DEF IInv, TypeOK
  <1>4. SuccessIsEarned'
    BY <1>2 DEF IInv, TypeOK, SuccessIsEarned
  <1>5. OpenerInv'
    BY <1>2 DEF IInv, TypeOK, OpenerInv, Present
  <1> QED
    BY <1>1, <1>3, <1>4, <1>5

(* Ending present rows as FAILED, TIMEOUT or CANCELLED: the row keeps its    *)
(* shape, its container id and its scorecard, and nothing appears or         *)
(* disappears.                                                               *)
LEMMA RowsEnd ==
  ASSUME IInv, NEW S \in SUBSET Sessions, NEW verdict \in Terminal \ {"completed"},
         \A s \in S : Present(s),
         row' = [s \in Sessions |-> IF s \in S THEN Terminate(row[s], verdict) ELSE row[s]]
  PROVE  /\ row' \in [Sessions -> Row]
         /\ RowShape'
         /\ \A s \in Sessions : /\ row'[s].cid = row[s].cid
                                /\ row'[s].score = row[s].score
                                /\ Present(s)' <=> Present(s)
                                /\ row'[s].status = "completed" => row[s].status = "completed"
                                /\ row[s] = Absent => row'[s] = Absent
  <1>1. ASSUME NEW s \in Sessions
        PROVE  /\ row'[s] \in Row
               /\ row'[s].cid = row[s].cid
               /\ row'[s].score = row[s].score
               /\ row'[s].status = "absent" <=> row[s].status = "absent"
               /\ row'[s].status = "completed" => row[s].status = "completed"
               /\ row'[s].status = "pending" => ~row'[s].cid /\ ~row'[s].done
               /\ row'[s].status = "running" => row'[s].cid
               /\ row'[s].status \in Terminal => row'[s].done
               /\ row'[s].status = "absent" => row'[s] = Absent
               /\ row'[s].score => row'[s].cid
               /\ row[s] = Absent => row'[s] = Absent
    <2>1. row[s] \in Row
      BY DEF IInv, TypeOK
    <2>2. CASE s \in S
      <3>1. row'[s] = Terminate(row[s], verdict) /\ row[s].status # "absent"
        BY <2>2 DEF Present
      <3>2. row[s] # Absent
        BY <3>1 DEF Absent, Blank
      <3> QED
        BY <2>1, <3>1, <3>2 DEF IInv, RowShape, Row, Statuses, Terminal, Unfinished, Terminate
    <2>3. CASE s \notin S
      <3>1. row'[s] = row[s]
        BY <2>3
      <3> QED
        BY <2>1, <3>1 DEF IInv, RowShape
    <2> QED
      BY <2>2, <2>3
  <1> QED
    BY <1>1 DEF RowShape, Present

(* Rows that end as FAILED, TIMEOUT or CANCELLED keep every part of the      *)
(* invariant that is about rows, whatever happens to their openers           *)
(* meanwhile.                                                                *)
LEMMA EndingKeeps ==
  ASSUME IInv, NEW S \in SUBSET Sessions, NEW verdict \in Terminal \ {"completed"},
         \A s \in S : Present(s),
         row' = [s \in Sessions |-> IF s \in S THEN Terminate(row[s], verdict) ELSE row[s]],
         UNCHANGED <<cont, code, fv, posts, de>>,
         op' \in [Sessions -> OpenerPC],
         \A s \in Sessions : label'[s] \in {label[s], None},
         \A s \in Sessions : op'[s] = op[s] \/ op'[s] = "over"
  PROVE  /\ row' \in [Sessions -> Row]
         /\ RowShape' /\ SuccessIsEarned' /\ OpenerInv' /\ ViewerInv' /\ PostInv'
         /\ \A s \in Sessions : Present(s)' <=> Present(s)
  <1>1. /\ row' \in [Sessions -> Row]
        /\ RowShape'
        /\ \A s \in Sessions : /\ row'[s].cid = row[s].cid
                               /\ row'[s].score = row[s].score
                               /\ Present(s)' <=> Present(s)
                               /\ row'[s].status = "completed" => row[s].status = "completed"
                               /\ row[s] = Absent => row'[s] = Absent
    BY RowsEnd
  <1> HIDE DEF Absent
  <1>2. SuccessIsEarned'
    BY <1>1 DEF IInv, SuccessIsEarned
  <1>3. OpenerInv'
    BY <1>1 DEF IInv, OpenerInv, Absent
  <1>4. ViewerInv'
    <2> SUFFICES ASSUME NEW v \in Viewers PROVE ViewerOK(v)'
      BY DEF ViewerInv
    <2>1. ViewerOK(v)
      BY DEF IInv, ViewerInv
    <2> QED
      BY <1>1, <2>1 DEF ViewerOK
  <1>5. PostInv'
    BY <1>1 DEF IInv, PostInv
  <1> QED
    BY <1>1, <1>2, <1>3, <1>4, <1>5

-----------------------------------------------------------------------------
(* Opening *)

(* open_session inserts the row. *)
LEMMA OpenKeeps ==
  ASSUME IInv, NEW s \in Sessions, NEW w \in Workers, Open(s, w)
  PROVE  IInv'
  <1>1. TypeOK'
    BY DEF Open, IInv, TypeOK, Blank, Row, Statuses, Unfinished, OpenerPC
  <1>2. RowShape'
    BY DEF Open, IInv, Blank, RowShape, Terminal
  <1>3. SuccessIsEarned'
    BY DEF Open, IInv, Blank, SuccessIsEarned
  <1>4. OpenerInv'
    BY DEF Open, IInv, Blank, OpenerInv, TypeOK, Present
  <1>5. RequestInv'
    BY DEF Open, IInv, RequestInv
  <1>6. ViewerInv'
    BY DEF Open, IInv, ViewerInv, ViewerOK, Present
  <1>7. WorkerInv'
    BY DEF Open, IInv, Blank, WorkerInv, WorkerOK, Present
  <1>8. PostInv'
    BY DEF Open, IInv, PostInv, TypeOK, ViewerInv, ViewerOK, Present
  <1> QED
    BY <1>1, <1>2, <1>3, <1>4, <1>5, <1>6, <1>7, <1>8 DEF IInv

(* The webhook handler inserts a row. *)
LEMMA AnnounceKeeps ==
  ASSUME IInv, NEW s \in Sessions, Announce(s)
  PROVE  IInv'
  <1>1. TypeOK'
    BY DEF Announce, IInv, TypeOK, Blank, Row, Statuses, Unfinished, OpenerPC
  <1>2. RowShape'
    BY DEF Announce, IInv, Blank, RowShape, Terminal
  <1>3. SuccessIsEarned'
    BY DEF Announce, IInv, Blank, SuccessIsEarned
  <1>4. OpenerInv'
    BY DEF Announce, IInv, OpenerInv, TypeOK, Present
  <1>5. RequestInv'
    BY DEF Announce, IInv, RequestInv
  <1>6. ViewerInv'
    BY DEF Announce, IInv, ViewerInv, ViewerOK, Present
  <1>7. WorkerInv'
    BY DEF Announce, IInv, Blank, WorkerInv, WorkerOK, Present
  <1>8. PostInv'
    BY DEF Announce, IInv, PostInv, TypeOK, ViewerInv, ViewerOK, Present
  <1> QED
    BY <1>1, <1>2, <1>3, <1>4, <1>5, <1>6, <1>7, <1>8 DEF IInv

(* docker create. *)
LEMMA CreateContainerKeeps ==
  ASSUME IInv, NEW s \in Sessions, CreateContainer(s)
  PROVE  IInv'
  <1>1. TypeOK'
    <2>1. faults' \in 0..MaxFaults
      BY FaultTyped DEF CreateContainer, IInv, TypeOK, NoFault
    <2> QED
      BY <2>1 DEF CreateContainer, IInv, TypeOK, ContState, OpenerPC
  <1>2. SuccessIsEarned'
    BY DEF CreateContainer, IInv, SuccessIsEarned, TypeOK, OpenerInv
  <1>3. OpenerInv'
    BY DEF CreateContainer, IInv, OpenerInv, TypeOK, Present
  <1>4. RequestInv'
    BY DEF CreateContainer, IInv, RequestInv, TypeOK
  <1>5. ViewerInv'
    BY DEF CreateContainer, IInv, ViewerInv, ViewerOK, TypeOK, Present
  <1>6. WorkerInv'
    BY DEF CreateContainer, IInv, WorkerInv, WorkerOK, TypeOK, Worker, Present
  <1>7. RowShape' /\ PostInv'
    BY DEF CreateContainer, IInv, RowShape, PostInv, Present
  <1> QED
    BY <1>1, <1>2, <1>3, <1>4, <1>5, <1>6, <1>7 DEF IInv

(* docker start. *)
LEMMA StartContainerKeeps ==
  ASSUME IInv, NEW s \in Sessions, StartContainer(s)
  PROVE  IInv'
  <1>1. TypeOK'
    <2>1. faults' \in 0..MaxFaults
      BY FaultTyped DEF StartContainer, IInv, TypeOK, NoFault
    <2> QED
      BY <2>1 DEF StartContainer, IInv, TypeOK, ContState, OpenerPC
  <1>2. SuccessIsEarned'
    BY DEF StartContainer, IInv, SuccessIsEarned, TypeOK, OpenerInv
  <1>3. OpenerInv'
    BY DEF StartContainer, IInv, OpenerInv, TypeOK, Present
  <1>4. RequestInv'
    BY DEF StartContainer, IInv, RequestInv, TypeOK
  <1>5. ViewerInv'
    BY DEF StartContainer, IInv, ViewerInv, ViewerOK, TypeOK, Present
  <1>6. WorkerInv'
    BY DEF StartContainer, IInv, WorkerInv, WorkerOK, TypeOK, Worker, Present
  <1>7. RowShape' /\ PostInv'
    BY DEF StartContainer, IInv, RowShape, PostInv, Present
  <1> QED
    BY <1>1, <1>2, <1>3, <1>4, <1>5, <1>6, <1>7 DEF IInv

(* start_container records FAILED. *)
LEMMA RecordFailedKeeps ==
  ASSUME IInv, NEW s \in Sessions, RecordFailed(s)
  PROVE  IInv'
  <1> DEFINE S == {s}
  <1>1. /\ op[s] \in {"opened", "failing"} /\ Present(s)
        /\ row' = [row EXCEPT ![s] = Terminate(@, "failed")]
        /\ op' = [op EXCEPT ![s] = "over"]
        /\ UNCHANGED <<cont, code, label, aged, st, fv, de, wk, posts, faults>>
    BY DEF RecordFailed, Writable
  <1>2. /\ op' \in [Sessions -> OpenerPC]
        /\ \A x \in Sessions : op'[x] = op[x] \/ op'[x] = "over"
    BY <1>1 DEF IInv, TypeOK, OpenerPC
  <1>3. row' = [x \in Sessions |-> IF x \in S THEN Terminate(row[x], "failed") ELSE row[x]]
    BY <1>1 DEF IInv, TypeOK
  <1>4. /\ S \in SUBSET Sessions /\ \A x \in S : Present(x)
        /\ "failed" \in Terminal \ {"completed"}
    BY <1>1 DEF Terminal
  <1> HIDE DEF S
  <1>5. /\ row' \in [Sessions -> Row]
        /\ RowShape' /\ SuccessIsEarned' /\ OpenerInv' /\ ViewerInv' /\ PostInv'
        /\ \A x \in Sessions : Present(x)' <=> Present(x)
    BY <1>1, <1>2, <1>3, <1>4, EndingKeeps
  <1>6. TypeOK'
    BY <1>1, <1>2, <1>5 DEF IInv, TypeOK
  <1>7. RequestInv'
    BY <1>1, <1>2 DEF IInv, RequestInv
  <1>8. WorkerInv'
    BY <1>1, <1>2, <1>5 DEF IInv, TypeOK, Worker, WorkerInv, WorkerOK
  <1> QED
    BY <1>5, <1>6, <1>7, <1>8 DEF IInv

(* start_container flushes RUNNING. *)
LEMMA FlushRunningKeeps ==
  ASSUME IInv, NEW s \in Sessions, FlushRunning(s)
  PROVE  IInv'
  <1>1. TypeOK'
    BY DEF FlushRunning, IInv, TypeOK, OpenerPC
  <1>2. OpenerInv'
    BY DEF FlushRunning, IInv, Writable, Present, OpenerInv
  <1>3. RequestInv'
    BY DEF FlushRunning, IInv, RequestInv
  <1>4. ViewerInv'
    BY DEF FlushRunning, IInv, Present, ViewerInv, ViewerOK
  <1>5. WorkerInv'
    BY DEF FlushRunning, IInv, Present, WorkerInv, WorkerOK
  <1>6. RowShape' /\ SuccessIsEarned' /\ PostInv'
    BY DEF FlushRunning, IInv, RowShape, SuccessIsEarned, PostInv, Present
  <1> QED
    BY <1>1, <1>2, <1>3, <1>4, <1>5, <1>6 DEF IInv

(* get_db commits RUNNING over whatever the row has become. *)
LEMMA CommitRunningKeeps ==
  ASSUME IInv, NEW s \in Sessions, CommitRunning(s)
  PROVE  IInv'
  <1>1. TypeOK'
    <2> DEFINE r == [row[s] EXCEPT !.status = "running", !.cid = TRUE]
    <2>1. row \in [Sessions -> Row]
      BY DEF IInv, TypeOK
    <2>2. row' = [row EXCEPT ![s] = r]
      BY <2>1 DEF CommitRunning
    <2>3. r \in Row
      BY <2>1 DEF Row, Statuses, Unfinished
    <2> HIDE DEF r
    <2>4. row' \in [Sessions -> Row]
      BY <2>1, <2>2, <2>3
    <2>5. op' \in [Sessions -> OpenerPC]
      BY DEF CommitRunning, IInv, TypeOK, OpenerPC
    <2> QED
      BY <2>4, <2>5 DEF CommitRunning, IInv, TypeOK
  <1>2. RowShape'
    BY DEF CommitRunning, IInv, TypeOK, Row, OpenerInv
  <1>3. SuccessIsEarned'
    BY DEF CommitRunning, IInv, TypeOK, Row, OpenerInv, RequestInv, ViewerInv, ViewerOK,
       Absent, Blank
  <1>4. OpenerInv'
    BY DEF CommitRunning, IInv, OpenerInv, TypeOK, RequestInv, ViewerInv, ViewerOK,
       WorkerInv, WorkerOK, Present
  <1>5. RequestInv'
    BY DEF CommitRunning, IInv, RequestInv
  <1>6. ViewerInv'
    BY DEF CommitRunning, IInv, TypeOK, Viewer, Row, Terminal, Locked, OpenerInv, RowShape,
       Present, Absent, Blank
  <1>7. WorkerInv'
    BY DEF CommitRunning, IInv, WorkerInv, WorkerOK, TypeOK, Worker, Present
  <1>8. PostInv'
    BY DEF CommitRunning, IInv, TypeOK, Row, ViewerInv, ViewerOK, OpenerInv, Present,
       Absent, Blank
  <1> QED
    BY <1>1, <1>2, <1>3, <1>4, <1>5, <1>6, <1>7, <1>8 DEF IInv

(* The opener's row was deleted. *)
LEMMA OpenerLosesRowKeeps ==
  ASSUME IInv, NEW s \in Sessions, OpenerLosesRow(s)
  PROVE  IInv'
  <1>1. TypeOK'
    BY DEF OpenerLosesRow, IInv, TypeOK, OpenerPC
  <1>2. OpenerInv'
    BY DEF OpenerLosesRow, IInv, OpenerInv, Present
  <1>3. RequestInv'
    BY DEF OpenerLosesRow, IInv, RequestInv
  <1>4. ViewerInv'
    BY DEF OpenerLosesRow, IInv, ViewerInv, ViewerOK, Present
  <1>5. WorkerInv'
    BY DEF OpenerLosesRow, IInv, WorkerInv, WorkerOK, Present
  <1>6. RowShape' /\ SuccessIsEarned' /\ PostInv'
    BY DEF OpenerLosesRow, IInv, RowShape, SuccessIsEarned, PostInv, Present
  <1> QED
    BY <1>1, <1>2, <1>3, <1>4, <1>5, <1>6 DEF IInv

(* The runner dies on its own. *)
LEMMA RunnerDiesKeeps ==
  ASSUME IInv, NEW s \in Sessions, RunnerDies(s)
  PROVE  IInv'
  <1>1. TypeOK'
    BY DEF RunnerDies, IInv, TypeOK, ContState, ExitCode
  <1>2. SuccessIsEarned'
    BY DEF RunnerDies, IInv, SuccessIsEarned
  <1>3. OpenerInv'
    BY DEF RunnerDies, IInv, OpenerInv, TypeOK, Present
  <1>4. ViewerInv'
    BY DEF RunnerDies, IInv, ViewerInv, ViewerOK, OpenerInv, Present
  <1>5. RowShape' /\ RequestInv' /\ WorkerInv' /\ PostInv'
    BY DEF RunnerDies, IInv, RowShape, RequestInv, WorkerInv, PostInv, WorkerOK, Present
  <1> QED
    BY <1>1, <1>2, <1>3, <1>4, <1>5 DEF IInv

(* The container is stopped from outside. *)
LEMMA HostStopsKeeps ==
  ASSUME IInv, NEW s \in Sessions, HostStops(s)
  PROVE  IInv'
  <1>1. TypeOK'
    <2>1. faults' \in 0..MaxFaults
      BY FaultTyped DEF HostStops, IInv, TypeOK
    <2> QED
      BY <2>1 DEF HostStops, IInv, TypeOK, ContState, ExitCode
  <1>2. SuccessIsEarned'
    BY DEF HostStops, IInv, SuccessIsEarned
  <1>3. OpenerInv'
    BY DEF HostStops, IInv, OpenerInv, TypeOK, Present
  <1>4. ViewerInv'
    BY DEF HostStops, IInv, ViewerInv, ViewerOK, Present
  <1>5. RowShape' /\ RequestInv' /\ WorkerInv' /\ PostInv'
    BY DEF HostStops, IInv, RowShape, RequestInv, WorkerInv, PostInv, WorkerOK, Present
  <1> QED
    BY <1>1, <1>2, <1>3, <1>4, <1>5 DEF IInv

(* A session grows older than its TTL. *)
LEMMA PassTTLKeeps ==
  ASSUME IInv, NEW s \in Sessions, PassTTL(s)
  PROVE  IInv'
  <1>1. TypeOK'
    BY DEF PassTTL, IInv, TypeOK
  <1>2. RowShape' /\ SuccessIsEarned' /\ OpenerInv' /\ RequestInv' /\ ViewerInv' /\ WorkerInv' /\ PostInv'
    BY DEF PassTTL, IInv, RowShape, SuccessIsEarned, OpenerInv, RequestInv, ViewerInv,
       WorkerInv, PostInv, ViewerOK, WorkerOK, Present
  <1> QED
    BY <1>1, <1>2 DEF IInv

-----------------------------------------------------------------------------
(* Stopping and deleting *)

(* A stop request's local state after a move. *)
LEMMA StopSet ==
  ASSUME IInv, NEW r \in Stops, NEW pc \in {"remove", "write", "stopped", "over"},
         st' = [st EXCEPT ![r].pc = pc]
  PROVE  /\ st' \in [Stops -> Stop]
         /\ st'[r].pc = pc /\ st'[r].sid = st[r].sid
         /\ \A x \in Stops \ {r} : st'[x] = st[x]
  <1>1. st \in [Stops -> Stop]
    BY DEF IInv, TypeOK
  <1> QED
    BY <1>1 DEF Stop

(* The stop route reads the row. *)
LEMMA StopReadKeeps ==
  ASSUME IInv, NEW r \in Stops, NEW s \in Sessions, StopRead(r, s)
  PROVE  IInv'
  <1>1. TypeOK'
    BY DEF StopRead, IInv, TypeOK, Stop
  <1>2. RequestInv'
    BY DEF StopRead, IInv, Present, RequestInv, OpenerInv, Absent, Blank
  <1>3. RowShape' /\ SuccessIsEarned' /\ OpenerInv' /\ ViewerInv' /\ WorkerInv' /\ PostInv'
    BY DEF StopRead, IInv, RowShape, SuccessIsEarned, OpenerInv, ViewerInv, WorkerInv,
       PostInv, ViewerOK, WorkerOK, Present
  <1> QED
    BY <1>1, <1>2, <1>3 DEF IInv

(* A stop request stops, or removes, the container. *)
LEMMA StopHaltKeeps ==
  ASSUME IInv, NEW r \in Stops, StopHalt(r) \/ StopRemove(r)
  PROVE  IInv'
  <1>1. PICK pc \in {"remove", "write"} : st' = [st EXCEPT ![r].pc = pc]
    BY DEF StopHalt, StopRemove
  <1>2. /\ st[r].pc \in {"halt", "remove"}
        /\ st[r].sid \in Sessions /\ op[st[r].sid] = "over"
        /\ RemoveCall(st[r].sid) \/ \E answered \in BOOLEAN : StopCall(st[r].sid, answered)
        /\ UNCHANGED <<row, label, aged, op, fv, de, wk, posts>>
    BY DEF StopHalt, StopRemove, IInv, RequestInv
  <1>3. /\ cont' \in [Sessions -> ContState]
        /\ code' \in [Sessions -> ExitCode \cup {"none"}]
        /\ faults' \in 0..MaxFaults
        /\ SuccessIsEarned'
        /\ OpenerInv'
        /\ \A x \in Sessions : code[x] = "ok" => code'[x] = "ok"
    BY <1>2, DockerCall
  <1>4. TypeOK'
    BY <1>1, <1>2, <1>3, StopSet DEF IInv, TypeOK
  <1>5. RequestInv'
    BY <1>1, <1>2, StopSet DEF IInv, RequestInv
  <1>6. ViewerInv'
    BY <1>2, <1>3 DEF IInv, ViewerInv, ViewerOK, Present
  <1>7. RowShape' /\ WorkerInv' /\ PostInv'
    BY <1>2 DEF IInv, RowShape, WorkerInv, WorkerOK, PostInv, Present
  <1> QED
    BY <1>3, <1>4, <1>5, <1>6, <1>7 DEF IInv

(* stop_container writes CANCELLED, or finds the row gone. *)
LEMMA StopWriteKeeps ==
  ASSUME IInv, NEW r \in Stops, StopWrite(r)
  PROVE  IInv'
  <1>1. /\ st[r].pc = "write" /\ st[r].sid \in Sessions
        /\ UNCHANGED <<cont, code, label, aged, op, fv, de, wk, posts, faults>>
    BY DEF StopWrite, IInv, RequestInv
  <1>2. PICK pc \in {"stopped", "over"} : st' = [st EXCEPT ![r].pc = pc]
    BY DEF StopWrite
  <1>3. RequestInv'
    BY <1>1, <1>2, StopSet DEF IInv, RequestInv
  <1>4. CASE UNCHANGED row
    <2>1. TypeOK'
      BY <1>1, <1>2, <1>4, StopSet DEF IInv, TypeOK
    <2> QED
      BY <1>1, <1>3, <1>4, <2>1 DEF IInv, RowShape, SuccessIsEarned, OpenerInv, ViewerInv,
         ViewerOK, WorkerInv, WorkerOK, PostInv, Present
  <1>5. CASE Present(st[r].sid) /\ row' = [row EXCEPT ![st[r].sid] = Terminate(@, "cancelled")]
    <2> DEFINE S == {st[r].sid}
    <2>1. row' = [s \in Sessions |-> IF s \in S THEN Terminate(row[s], "cancelled") ELSE row[s]]
      BY <1>1, <1>5 DEF IInv, TypeOK
    <2>2. /\ row' \in [Sessions -> Row]
          /\ RowShape' /\ SuccessIsEarned' /\ OpenerInv' /\ ViewerInv' /\ PostInv'
          /\ \A s \in Sessions : Present(s)' <=> Present(s)
      <3>1. /\ S \in SUBSET Sessions /\ \A s \in S : Present(s)
            /\ "cancelled" \in Terminal \ {"completed"}
            /\ op' \in [Sessions -> OpenerPC] /\ op' = op
        BY <1>1, <1>5 DEF Terminal, IInv, TypeOK
      <3> HIDE DEF S
      <3> QED
        BY <1>1, <2>1, <3>1, EndingKeeps
    <2>3. TypeOK'
      BY <1>1, <1>2, <2>2, StopSet DEF IInv, TypeOK
    <2>4. WorkerInv'
      BY <1>1, <2>2 DEF IInv, TypeOK, Worker, WorkerInv, WorkerOK
    <2> QED
      BY <1>3, <2>2, <2>3, <2>4 DEF IInv
  <1> QED
    BY <1>4, <1>5 DEF StopWrite, Writable

(* A stop request dies. *)
LEMMA StopDiesKeeps ==
  ASSUME IInv, NEW r \in Stops, StopDies(r)
  PROVE  IInv'
  <1>1. TypeOK'
    <2>1. faults' \in 0..MaxFaults
      BY FaultTyped DEF StopDies, IInv, TypeOK
    <2> QED
      BY <2>1 DEF StopDies, IInv, TypeOK, Stop
  <1>2. RequestInv'
    BY DEF StopDies, IInv, RequestInv
  <1>3. RowShape' /\ SuccessIsEarned' /\ OpenerInv' /\ ViewerInv' /\ WorkerInv' /\ PostInv'
    BY DEF StopDies, IInv, RowShape, SuccessIsEarned, OpenerInv, ViewerInv, WorkerInv,
       PostInv, ViewerOK, WorkerOK, Present
  <1> QED
    BY <1>1, <1>2, <1>3 DEF IInv

(* The delete route reads the row. *)
LEMMA DeleteReadKeeps ==
  ASSUME IInv, NEW d \in Deletes, NEW s \in Sessions, DeleteRead(d, s)
  PROVE  IInv'
  <1>1. TypeOK'
    BY DEF DeleteRead, IInv, TypeOK, Delete
  <1>2. RequestInv'
    BY DEF DeleteRead, IInv, Present, RequestInv, OpenerInv, Absent, Blank
  <1>3. RowShape' /\ SuccessIsEarned' /\ OpenerInv' /\ ViewerInv' /\ WorkerInv' /\ PostInv'
    BY DEF DeleteRead, IInv, RowShape, SuccessIsEarned, OpenerInv, ViewerInv, WorkerInv,
       PostInv, ViewerOK, WorkerOK, Present
  <1> QED
    BY <1>1, <1>2, <1>3 DEF IInv

(* The row is deleted. *)
LEMMA DeleteWriteKeeps ==
  ASSUME IInv, NEW d \in Deletes, DeleteWrite(d)
  PROVE  IInv'
  <1>1. TypeOK'
    BY DEF DeleteWrite, IInv, TypeOK, Blank, Absent, Row, Statuses, Terminal, Unfinished,
       Delete
  <1>2. RowShape'
    BY DEF DeleteWrite, IInv, Blank, Absent, RowShape, Terminal
  <1>3. SuccessIsEarned'
    BY DEF DeleteWrite, IInv, Blank, Absent, SuccessIsEarned
  <1>4. OpenerInv'
    BY DEF DeleteWrite, IInv, Blank, Absent, Locked, OpenerInv, RequestInv, ViewerInv,
       ViewerOK, WorkerInv, WorkerOK, Present
  <1>5. RequestInv'
    BY DEF DeleteWrite, IInv, RequestInv
  <1>6. ViewerInv'
    BY DEF DeleteWrite, IInv, Blank, Absent, Locked, ViewerInv, ViewerOK, Present
  <1>7. WorkerInv'
    BY DEF DeleteWrite, IInv, Locked, WorkerInv, WorkerOK, Present
  <1>8. PostInv'
    BY DEF DeleteWrite, IInv, Blank, Absent, PostInv, Present
  <1> QED
    BY <1>1, <1>2, <1>3, <1>4, <1>5, <1>6, <1>7, <1>8 DEF IInv

(* A delete request dies. *)
LEMMA DeleteDiesKeeps ==
  ASSUME IInv, NEW d \in Deletes, DeleteDies(d)
  PROVE  IInv'
  <1>1. TypeOK'
    <2>1. faults' \in 0..MaxFaults
      BY FaultTyped DEF DeleteDies, IInv, TypeOK
    <2> QED
      BY <2>1 DEF DeleteDies, IInv, TypeOK, Delete
  <1>2. RequestInv'
    BY DEF DeleteDies, IInv, RequestInv
  <1>3. RowShape' /\ SuccessIsEarned' /\ OpenerInv' /\ ViewerInv' /\ WorkerInv' /\ PostInv'
    BY DEF DeleteDies, IInv, RowShape, SuccessIsEarned, OpenerInv, ViewerInv, WorkerInv,
       PostInv, ViewerOK, WorkerOK, Present
  <1> QED
    BY <1>1, <1>2, <1>3 DEF IInv

-----------------------------------------------------------------------------
(* Streaming and finalizing *)

(* A finalizer that only moves on keeps everything it remembers. *)
LEMMA GoToMoves ==
  ASSUME IInv, NEW v \in Viewers,
         NEW pc \in {"streaming", "dead", "draining", "ended", "waiting",
                     "attached", "mark", "posted"},
         GoTo(v, pc)
  PROVE  /\ fv' \in [Viewers -> Viewer]
         /\ \A x \in Viewers \ {v} : fv'[x] = fv[x]
         /\ fv'[v].pc = pc
         /\ \A f \in {"sid", "live", "verdict", "fresh", "found", "told"} : fv'[v][f] = fv[v][f]
  <1>1. fv \in [Viewers -> Viewer]
    BY DEF IInv, TypeOK
  <1>2. fv' = [fv EXCEPT ![v].pc = pc]
    BY DEF GoTo
  <1> QED
    BY <1>1, <1>2 DEF Viewer

(* A finalizer that returns keeps everything it remembers. *)
LEMMA ReturnMoves ==
  ASSUME IInv, NEW v \in Viewers, NEW status \in Statuses, Return(v, status)
  PROVE  /\ fv' \in [Viewers -> Viewer]
         /\ \A x \in Viewers \ {v} : fv'[x] = fv[x]
         /\ fv'[v].pc = "done" /\ fv'[v].told = status
         /\ \A f \in {"sid", "verdict", "fresh", "found"} : fv'[v][f] = fv[v][f]
  <1> DEFINE u == [fv[v] EXCEPT !.pc = "done", !.told = status]
  <1>1. fv \in [Viewers -> Viewer]
    BY DEF IInv, TypeOK
  <1>2. fv' = [fv EXCEPT ![v] = u]
    BY <1>1 DEF Return
  <1>3. /\ u \in Viewer
        /\ u.pc = "done" /\ u.told = status
        /\ \A f \in {"sid", "verdict", "fresh", "found"} : u[f] = fv[v][f]
    BY <1>1 DEF Viewer
  <1> HIDE DEF u
  <1> QED
    BY <1>1, <1>2, <1>3

(* A finalizer that is given up forgets everything but its session. *)
LEMMA DetachMoves ==
  ASSUME IInv, NEW v \in Viewers, Detach(v)
  PROVE  /\ fv' \in [Viewers -> Viewer]
         /\ \A x \in Viewers \ {v} : fv'[x] = fv[x]
         /\ fv'[v].pc = "detached" /\ fv'[v].verdict = "pending" /\ ~fv'[v].found
         /\ fv'[v].sid = fv[v].sid /\ fv'[v].told = fv[v].told
  <1> DEFINE u == [fv[v] EXCEPT !.pc = "detached", !.live = FALSE, !.verdict = "pending",
                                !.fresh = FALSE, !.found = FALSE]
  <1>1. fv \in [Viewers -> Viewer]
    BY DEF IInv, TypeOK
  <1>2. fv' = [fv EXCEPT ![v] = u]
    BY <1>1 DEF Detach
  <1>3. /\ u \in Viewer
        /\ u.pc = "detached" /\ u.verdict = "pending" /\ ~u.found
        /\ u.sid = fv[v].sid /\ u.told = fv[v].told
    <2>1. fv[v] \in Viewer /\ "pending" \in Statuses
      BY <1>1 DEF Statuses, Unfinished
    <2> QED
      BY <2>1 DEF Viewer
  <1> HIDE DEF u
  <1> QED
    BY <1>1, <1>2, <1>3

(* The stream route admits a RUNNING session that has a container id. *)
LEMMA StreamOpenKeeps ==
  ASSUME IInv, NEW v \in Viewers, NEW s \in Sessions, StreamOpen(v, s)
  PROVE  IInv'
  <1> DEFINE u == [fv[v] EXCEPT !.pc = "opening", !.sid = s, !.live = TRUE]
  <1>1. fv \in [Viewers -> Viewer] /\ fv[v].pc = "idle"
    BY DEF StreamOpen, IInv, TypeOK
  <1>2. fv' = [fv EXCEPT ![v] = u]
    BY <1>1 DEF StreamOpen
  <1>3. /\ u \in Viewer
        /\ u.pc = "opening" /\ u.sid = s
        /\ u.verdict = fv[v].verdict /\ u.found = fv[v].found /\ u.told = fv[v].told
    BY <1>1 DEF Viewer
  <1> HIDE DEF u
  <1>4. ViewerOK(v)'
    BY <1>1, <1>2, <1>3 DEF StreamOpen, OnlyViewer, IInv, ViewerInv, ViewerOK, OpenerInv, Present
  <1> QED
    <2>1. fv' \in [Viewers -> Viewer] /\ \A x \in Viewers \ {v} : fv'[x] = fv[x]
      BY <1>1, <1>2, <1>3
    <2>2. UNCHANGED <<row, cont, code, label, aged, op, st, de, wk, posts>> /\ NoFault
      BY DEF StreamOpen, OnlyViewer, NoFault
    <2> QED
      BY <1>1, <1>4, <2>1, <2>2, ViewerMoves

(* A stream that is given up, with nothing else changed. *)
LEMMA DetachKeeps ==
  ASSUME IInv, NEW v \in Viewers, Detach(v), OnlyViewer, fv[v].pc \notin {"idle", "done"}
  PROVE  IInv'
  <1>1. ViewerOK(v)'
    BY DetachMoves DEF OnlyViewer, IInv, ViewerInv, ViewerOK, Present
  <1> QED
    BY <1>1, DetachMoves, ViewerMoves DEF OnlyViewer, NoFault

(* Opening the log, for the stream or for the detached drain. *)
LEMMA OpenLogKeeps ==
  ASSUME IInv, NEW v \in Viewers, OpenLog(v)
  PROVE  IInv'
  <1>1. fv[v].pc \in {"opening", "detached"} /\ OnlyViewer
    BY DEF OpenLog
  <1>2. CASE Detach(v)
    BY <1>1, <1>2, DetachKeeps
  <1>3. ASSUME NEW pc \in {"streaming", "dead", "draining"}, GoTo(v, pc)
        PROVE  IInv'
    <2>1. ViewerOK(v)'
      BY <1>1, <1>3, GoToMoves DEF OnlyViewer, IInv, ViewerInv, ViewerOK, Present
    <2> QED
      BY <1>1, <1>3, <2>1, GoToMoves, ViewerMoves DEF OnlyViewer, NoFault
  <1> QED
    BY <1>2, <1>3 DEF OpenLog

(* The log ends. *)
LEMMA StreamEndsKeeps ==
  ASSUME IInv, NEW v \in Viewers, StreamEnds(v)
  PROVE  IInv'
  <1>1. GoTo(v, "ended") /\ fv[v].pc \in {"streaming", "draining"}
    BY DEF StreamEnds
  <1>2. ViewerOK(v)'
    BY <1>1, GoToMoves DEF StreamEnds, IInv, ViewerInv, ViewerOK, Present
  <1> QED
    BY <1>1, <1>2, GoToMoves, ViewerMoves DEF StreamEnds

(* The client leaves, and whatever it had begun is begun anew without it. *)
LEMMA StreamBreaksKeeps ==
  ASSUME IInv, NEW v \in Viewers, StreamBreaks(v)
  PROVE  IInv'
  BY DetachKeeps DEF StreamBreaks

(* Phase 1 of finalize_session. *)
LEMMA FinalizeReadKeeps ==
  ASSUME IInv, NEW v \in Viewers, FinalizeRead(v)
  PROVE  IInv'
  <1>1. fv[v].pc = "ended"
    BY DEF FinalizeRead
  <1>2. CASE GoTo(v, "waiting")
    <2>1. ViewerOK(v)'
      BY <1>1, <1>2, GoToMoves DEF FinalizeRead, OnlyViewer, IInv, ViewerInv, ViewerOK, Present
    <2> QED
      BY <1>1, <1>2, <2>1, GoToMoves, ViewerMoves DEF FinalizeRead, OnlyViewer, NoFault
  <1>3. CASE \E status \in Statuses : Return(v, status)
    <2>1. ViewerOK(v)'
      BY <1>1, <1>3, ReturnMoves DEF FinalizeRead, OnlyViewer, IInv, ViewerInv, ViewerOK, Present
    <2> QED
      BY <1>1, <1>3, <2>1, ReturnMoves, ViewerMoves DEF FinalizeRead, OnlyViewer, NoFault
  <1>4. /\ "failed" \in Statuses
        /\ row[fv[v].sid].status \in Statuses \cup {"absent"}
    <2>1. fv[v].sid \in Sessions
      BY <1>1 DEF IInv, ViewerInv, ViewerOK
    <2> QED
      BY <2>1 DEF IInv, TypeOK, Row, Statuses, Terminal
  <1> QED
    BY <1>2, <1>3, <1>4 DEF FinalizeRead

(* Phase 2 attaches to the container, or fails to. *)
LEMMA AttachKeeps ==
  ASSUME IInv, NEW v \in Viewers, Attach(v)
  PROVE  IInv'
  <1>1. fv[v].pc = "waiting" /\ "failed" \in Statuses /\ OnlyViewer
    BY DEF Attach, Statuses, Terminal
  <1>2. CASE GoTo(v, "attached")
    <2>1. ViewerOK(v)'
      BY <1>1, <1>2, GoToMoves DEF OnlyViewer, IInv, ViewerInv, ViewerOK, Present
    <2> QED
      BY <1>1, <1>2, <2>1, GoToMoves, ViewerMoves DEF OnlyViewer, NoFault
  <1>3. CASE Return(v, "failed")
    <2>1. ViewerOK(v)'
      BY <1>1, <1>3, ReturnMoves DEF OnlyViewer, IInv, ViewerInv, ViewerOK, Present
    <2> QED
      BY <1>1, <1>3, <2>1, ReturnMoves, ViewerMoves DEF OnlyViewer, NoFault
  <1> QED
    BY <1>2, <1>3 DEF Attach

(* An exception before anything is written is reported as FAILED. *)
LEMMA FinalizeFailsKeeps ==
  ASSUME IInv, NEW v \in Viewers, FinalizeFails(v)
  PROVE  IInv'
  <1>1. /\ fv[v].pc \in {"ended", "waiting", "attached", "mark", "flush"}
        /\ Return(v, "failed") /\ Fault /\ "failed" \in Statuses
        /\ UNCHANGED <<row, cont, code, label, aged, op, st, de, wk, posts>>
    BY DEF FinalizeFails, Statuses, Terminal
  <1>2. ViewerOK(v)'
    BY <1>1, ReturnMoves DEF IInv, ViewerInv, ViewerOK, Present
  <1> QED
    BY <1>1, <1>2, ReturnMoves, ViewerMoves

(* await_exit_status: COMPLETED is decided on exit code 0 only. *)
LEMMA AwaitExitKeeps ==
  ASSUME IInv, NEW v \in Viewers, AwaitExit(v)
  PROVE  IInv'
  <1>1. fv \in [Viewers -> Viewer] /\ fv[v].pc = "attached"
    BY DEF AwaitExit, IInv, TypeOK
  <1>2. PICK verdict \in Terminal :
          /\ verdict = "completed" => code[fv[v].sid] = "ok"
          /\ fv' = [fv EXCEPT ![v].pc = "exited", ![v].verdict = verdict]
    BY DEF AwaitExit, Terminal
  <1> DEFINE u == [fv[v] EXCEPT !.pc = "exited", !.verdict = verdict]
  <1>3. fv' = [fv EXCEPT ![v] = u]
    BY <1>1, <1>2
  <1>4. /\ u \in Viewer
        /\ u.pc = "exited" /\ u.verdict = verdict
        /\ u.sid = fv[v].sid /\ u.found = fv[v].found /\ u.told = fv[v].told
    BY <1>1 DEF Viewer, Statuses
  <1> HIDE DEF u
  <1>5. ~fv[v].found /\ fv[v].told # "completed"
    BY <1>1 DEF IInv, ViewerInv, ViewerOK
  <1>6. ViewerOK(v)'
    <2>1. /\ fv[v].sid \in Sessions
          /\ op[fv[v].sid] = "over"
          /\ Present(fv[v].sid) => row[fv[v].sid].cid
      BY <1>1 DEF IInv, ViewerInv, ViewerOK
    <2>2. UNCHANGED <<op, row, code>>
      BY DEF AwaitExit, OnlyViewer
    <2>3. fv'[v] = u
      BY <1>1, <1>3
    <2> QED
      BY <1>2, <1>4, <1>5, <2>1, <2>2, <2>3 DEF ViewerOK, Present
  <1> QED
    BY <1>1, <1>3, <1>4, <1>6, ViewerMoves DEF AwaitExit, OnlyViewer, NoFault

(* The finalizer removes the container. *)
LEMMA RemoveExitedKeeps ==
  ASSUME IInv, NEW v \in Viewers, RemoveExited(v)
  PROVE  IInv'
  <1>1. /\ fv[v].pc = "exited" /\ fv[v].sid \in Sessions /\ op[fv[v].sid] = "over"
        /\ RemoveCall(fv[v].sid) /\ GoTo(v, "mark")
        /\ UNCHANGED <<row, label, aged, op, st, de, wk, posts>>
    BY DEF RemoveExited, IInv, ViewerInv, ViewerOK
  <1>2. /\ fv' \in [Viewers -> Viewer]
        /\ \A x \in Viewers \ {v} : fv'[x] = fv[x]
        /\ fv'[v].pc = "mark" /\ fv'[v].sid = fv[v].sid /\ fv'[v].found = fv[v].found
        /\ fv'[v].verdict = fv[v].verdict /\ fv'[v].told = fv[v].told
    BY <1>1, GoToMoves
  <1>3. /\ cont' \in [Sessions -> ContState]
        /\ code' \in [Sessions -> ExitCode \cup {"none"}]
        /\ faults' \in 0..MaxFaults
        /\ SuccessIsEarned'
        /\ OpenerInv'
        /\ \A x \in Sessions : code[x] = "ok" => code'[x] = "ok"
    BY <1>1, DockerCall
  <1>4. TypeOK'
    BY <1>1, <1>2, <1>3 DEF IInv, TypeOK
  <1>5. ViewerInv'
    <2> SUFFICES ASSUME NEW x \in Viewers PROVE ViewerOK(x)'
      BY DEF ViewerInv
    <2>1. ViewerOK(x)
      BY DEF IInv, ViewerInv
    <2> QED
      BY <1>1, <1>2, <1>3, <2>1 DEF ViewerOK, Present
  <1>6. PostInv'
    <2>1. \A s \in Sessions : posts[s] \subseteq Viewers
      BY DEF IInv, TypeOK
    <2>2. \A x \in Viewers : fv[x].pc # "idle" => fv'[x].pc # "idle" /\ fv'[x].sid = fv[x].sid
      BY <1>2
    <2> QED
      BY <1>1, <2>1, <2>2 DEF IInv, PostInv
  <1>7. RowShape' /\ RequestInv' /\ WorkerInv'
    BY <1>1 DEF IInv, RowShape, RequestInv, WorkerInv, WorkerOK, Present
  <1> QED
    BY <1>3, <1>4, <1>5, <1>6, <1>7 DEF IInv

(* mark_completed reads the row. *)
LEMMA MarkReadKeeps ==
  ASSUME IInv, NEW v \in Viewers, MarkRead(v)
  PROVE  IInv'
  <1>1. fv[v].pc = "mark" /\ "failed" \in Statuses /\ fv \in [Viewers -> Viewer]
    BY DEF MarkRead, Statuses, Terminal, IInv, TypeOK
  <1>2. CASE Return(v, "failed")
    <2>1. ViewerOK(v)'
      BY <1>1, <1>2, ReturnMoves DEF MarkRead, OnlyViewer, IInv, ViewerInv, ViewerOK, Present
    <2> QED
      BY <1>1, <1>2, <2>1, ReturnMoves, ViewerMoves DEF MarkRead, OnlyViewer, NoFault
  <1>3. ASSUME NEW fresh \in BOOLEAN, fv' = [fv EXCEPT ![v].pc = "flush", ![v].fresh = fresh]
        PROVE  IInv'
    <2> DEFINE u == [fv[v] EXCEPT !.pc = "flush", !.fresh = fresh]
    <2>1. fv' = [fv EXCEPT ![v] = u]
      BY <1>1, <1>3
    <2>2. /\ u \in Viewer
          /\ u.pc = "flush"
          /\ u.sid = fv[v].sid /\ u.found = fv[v].found /\ u.verdict = fv[v].verdict
          /\ u.told = fv[v].told
      BY <1>1 DEF Viewer
    <2> HIDE DEF u
    <2>3. ViewerOK(v)'
      BY <1>1, <2>1, <2>2 DEF MarkRead, OnlyViewer, IInv, ViewerInv, ViewerOK, Present
    <2> QED
      BY <1>1, <2>1, <2>2, <2>3, ViewerMoves DEF MarkRead, OnlyViewer, NoFault
  <1> QED
    BY <1>2, <1>3 DEF MarkRead

(* The finalizer flushes: a scorecard only on a COMPLETED verdict. *)
LEMMA FinalizeFlushKeeps ==
  ASSUME IInv, NEW v \in Viewers, FinalizeFlush(v)
  PROVE  IInv'
  <1>1. fv[v].pc = "flush" /\ "failed" \in Statuses /\ fv \in [Viewers -> Viewer]
    BY DEF FinalizeFlush, Statuses, Terminal, IInv, TypeOK
  <1>2. CASE \E status \in Statuses : Return(v, status)
    <2>1. ViewerOK(v)'
      BY <1>1, <1>2, ReturnMoves DEF FinalizeFlush, OnlyViewer, IInv, ViewerInv, ViewerOK, Present
    <2> QED
      BY <1>1, <1>2, <2>1, ReturnMoves, ViewerMoves DEF FinalizeFlush, OnlyViewer, NoFault
  <1>3. ASSUME NEW found \in BOOLEAN,
               found => fv[v].verdict = "completed",
               Present(fv[v].sid),
               fv' = [fv EXCEPT ![v].pc = "flushed", ![v].found = found]
        PROVE  IInv'
    <2> DEFINE u == [fv[v] EXCEPT !.pc = "flushed", !.found = found]
    <2>1. fv' = [fv EXCEPT ![v] = u]
      BY <1>1, <1>3
    <2>2. /\ u \in Viewer
          /\ u.pc = "flushed" /\ u.found = found
          /\ u.sid = fv[v].sid /\ u.verdict = fv[v].verdict /\ u.told = fv[v].told
      BY <1>1 DEF Viewer
    <2> HIDE DEF u
    <2>3. ViewerOK(v)'
      BY <1>1, <1>3, <2>1, <2>2 DEF FinalizeFlush, OnlyViewer, IInv, ViewerInv, ViewerOK, Present
    <2> QED
      BY <1>1, <2>1, <2>2, <2>3, ViewerMoves DEF FinalizeFlush, OnlyViewer, NoFault
  <1>4. fv[v].verdict \in Statuses
    BY <1>1 DEF Viewer
  <1> QED
    BY <1>1, <1>2, <1>3, <1>4 DEF FinalizeFlush, Writable

(* The comment is posted while the scorecard is flushed and not yet          *)
(* committed.                                                                *)
LEMMA PostCommentKeeps ==
  ASSUME IInv, NEW v \in Viewers, PostComment(v)
  PROVE  IInv'
  <1> DEFINE s == fv[v].sid
  <1>1. /\ fv[v].pc = "flushed" /\ fv[v].found /\ s \in Sessions
        /\ code[s] = "ok" /\ Present(s)
        /\ GoTo(v, "posted")
        /\ posts' = [posts EXCEPT ![s] = @ \cup {v}]
        /\ UNCHANGED <<row, cont, code, label, aged, op, st, de, wk, faults>>
    BY DEF PostComment, IInv, ViewerInv, ViewerOK
  <1>2. /\ fv' \in [Viewers -> Viewer]
        /\ \A x \in Viewers \ {v} : fv'[x] = fv[x]
        /\ fv'[v].pc = "posted" /\ fv'[v].sid = s /\ fv'[v].found
        /\ fv'[v].verdict = fv[v].verdict /\ fv'[v].told = fv[v].told
    BY <1>1, GoToMoves
  <1>3. posts \in [Sessions -> SUBSET Viewers]
    BY DEF IInv, TypeOK
  <1>4. TypeOK'
    BY <1>1, <1>2, <1>3 DEF IInv, TypeOK
  <1>5. SuccessIsEarned'
    <2>1. cont[s] \in {"exited", "removed"}
      BY <1>1 DEF IInv, OpenerInv
    <2> QED
      BY <1>1, <1>3, <2>1 DEF IInv, SuccessIsEarned
  <1>6. ViewerInv'
    <2> SUFFICES ASSUME NEW x \in Viewers PROVE ViewerOK(x)'
      BY DEF ViewerInv
    <2>1. ViewerOK(x)
      BY DEF IInv, ViewerInv
    <2> QED
      BY <1>1, <1>2, <2>1 DEF ViewerOK, Present
  <1>7. PostInv'
    <2> SUFFICES ASSUME NEW y \in Sessions, NEW x \in posts'[y]
                 PROVE fv'[x].pc # "idle" /\ fv'[x].sid = y
      BY DEF PostInv
    <2>1. CASE x = v
      <3>1. y = s
        BY <1>1, <1>3, <2>1 DEF IInv, PostInv
      <3> QED
        BY <1>2, <2>1, <3>1
    <2>2. CASE x # v
      <3>1. x \in posts[y] /\ x \in Viewers
        BY <1>1, <1>3, <2>2
      <3> QED
        BY <1>2, <2>2, <3>1 DEF IInv, PostInv
    <2> QED
      BY <2>1, <2>2
  <1>8. RowShape' /\ OpenerInv' /\ RequestInv' /\ WorkerInv'
    BY <1>1 DEF IInv, RowShape, OpenerInv, RequestInv, WorkerInv, WorkerOK, Present
  <1> QED
    BY <1>4, <1>5, <1>6, <1>7, <1>8 DEF IInv

(* What the finalizer flushed is committed, and whatever it does next: the   *)
(* row keeps its shape, and stays with a scorecard if one was found.         *)
LEMMA FlushedKeeps ==
  ASSUME IInv, NEW v \in Viewers, fv[v].pc \in {"flushed", "posted"}, row' = Flushed(v),
         Fault \/ NoFault,
         UNCHANGED <<cont, code, label, aged, op, st, de, wk, posts>>,
         fv' \in [Viewers -> Viewer],
         \A x \in Viewers \ {v} : fv'[x] = fv[x],
         fv'[v].sid = fv[v].sid,
         \/ fv'[v].pc = "done" /\ fv'[v].found = fv[v].found /\ fv'[v].verdict = fv[v].verdict
         \/ /\ fv'[v].pc = "detached" /\ ~fv'[v].found
            /\ fv'[v].verdict = "pending" /\ fv'[v].told = fv[v].told
  PROVE  IInv'
  <1> DEFINE s == fv[v].sid
  <1>1. /\ fv \in [Viewers -> Viewer] /\ fv[v] \in Viewer
        /\ fv[v].verdict \in Terminal /\ fv[v].told # "completed"
        /\ s \in Sessions /\ op[s] = "over" /\ Present(s) /\ row[s].cid
        /\ row[s] \in Row
        /\ fv[v].verdict = "completed" => code[s] = "ok"
        /\ fv[v].found => fv[v].verdict = "completed"
    BY DEF IInv, TypeOK, ViewerInv, ViewerOK
  <1>2. PICK r \in Row :
          /\ row' = [row EXCEPT ![s] = r]
          /\ r.cid
          /\ r.status # "absent"
          /\ \/ r.status = row[s].status /\ r.done = row[s].done
             \/ r.status = fv[v].verdict /\ r.done
          /\ IF fv[v].found THEN r.score ELSE r.score = row[s].score
    <2> DEFINE marked == IF fv[v].fresh THEN Terminate(row[s], fv[v].verdict) ELSE row[s]
               r == IF fv[v].found THEN Scored(marked) ELSE marked
    <2>1. /\ marked \in Row /\ marked.cid /\ marked.status # "absent"
          /\ marked.score = row[s].score
          /\ \/ marked.status = row[s].status /\ marked.done = row[s].done
             \/ marked.status = fv[v].verdict /\ marked.done
      BY <1>1 DEF Terminate, Row, Statuses, Terminal, Present
    <2> HIDE DEF marked
    <2>2. /\ r \in Row /\ r.cid /\ r.status # "absent"
          /\ \/ r.status = row[s].status /\ r.done = row[s].done
             \/ r.status = fv[v].verdict /\ r.done
          /\ IF fv[v].found THEN r.score ELSE r.score = row[s].score
      BY <2>1 DEF Scored, Row
    <2>3. row' = [row EXCEPT ![s] = r]
      BY DEF Flushed, marked
    <2> HIDE DEF r
    <2> QED
      BY <2>2, <2>3
  <1>3. row \in [Sessions -> Row] /\ \A y \in Sessions : y # s => row'[y] = row[y]
    BY <1>2 DEF IInv, TypeOK
  <1>4. row'[s] = r
    BY <1>1, <1>2, <1>3
  <1> HIDE DEF s
  <1>5. TypeOK'
    BY <1>1, <1>2, FaultTyped DEF IInv, TypeOK
  <1>6. RowShape'
    <2> SUFFICES ASSUME NEW y \in Sessions
                 PROVE  /\ row'[y].status = "pending" => ~row'[y].cid /\ ~row'[y].done
                        /\ row'[y].status = "running" => row'[y].cid
                        /\ row'[y].status \in Terminal => row'[y].done
                        /\ row'[y].score => row'[y].cid
                        /\ row'[y].status = "absent" => row'[y] = Absent
      BY DEF RowShape
    <2>1. /\ row[y].status = "pending" => ~row[y].cid /\ ~row[y].done
          /\ row[y].status = "running" => row[y].cid
          /\ row[y].status \in Terminal => row[y].done
          /\ row[y].score => row[y].cid
          /\ row[y].status = "absent" => row[y] = Absent
      BY DEF IInv, RowShape
    <2>2. CASE y # s
      BY <1>3, <2>1, <2>2
    <2>3. CASE y = s
      BY <1>1, <1>2, <1>4, <2>1, <2>3 DEF Terminal
    <2> QED
      BY <2>2, <2>3
  <1>7. SuccessIsEarned'
    BY <1>1, <1>2, <1>3 DEF IInv, SuccessIsEarned, OpenerInv
  <1>8. OpenerInv'
    BY <1>1, <1>2, <1>3 DEF IInv, OpenerInv, Present
  <1>9. ViewerInv'
    <2> SUFFICES ASSUME NEW x \in Viewers PROVE ViewerOK(x)'
      BY DEF ViewerInv
    <2>1. ViewerOK(x)
      BY DEF IInv, ViewerInv
    <2>2. CASE x = v
      BY <1>1, <1>2, <1>4, <2>1, <2>2 DEF ViewerOK, Present, s, Terminal
    <2>3. CASE x # v
      <3>1. fv'[x] = fv[x]
        BY <2>3
      <3>2. fv[x].pc # "idle" => fv[x].sid \in Sessions
        BY <2>1 DEF ViewerOK
      <3>3. \A y \in Sessions : /\ row[y].cid => row'[y].cid
                                /\ row[y].score => row'[y].score
                                /\ row'[y].status # "absent" <=> row[y].status # "absent"
        BY <1>1, <1>2, <1>3, <1>4 DEF Present
      <3>4. fv[x].told = "completed" => fv[x].pc # "idle"
        BY <2>1 DEF ViewerOK
      <3>5. UNCHANGED <<code, op>>
        OBVIOUS
      <3>6. CASE fv[x].pc = "idle"
        BY <2>1, <3>1, <3>4, <3>5, <3>6 DEF ViewerOK
      <3>7. CASE fv[x].pc # "idle"
        <4>1. fv[x].sid \in Sessions
          BY <3>2, <3>7
        <4>2. PICK y \in Sessions : y = fv[x].sid
          BY <4>1
        <4>3. /\ row[y].cid => row'[y].cid
              /\ row[y].score => row'[y].score
              /\ row'[y].status # "absent" <=> row[y].status # "absent"
          BY <3>3
        <4> QED
          BY <2>1, <3>1, <3>5, <3>7, <4>2, <4>3 DEF ViewerOK, Present
      <3> QED
        BY <3>6, <3>7
    <2> QED
      BY <2>2, <2>3
  <1>10. WorkerInv'
    BY <1>1, <1>2, <1>3 DEF IInv, WorkerInv, WorkerOK, Present
  <1>11. PostInv'
    <2>1. \A x \in Viewers : fv[x].pc # "idle" => fv'[x].pc # "idle" /\ fv'[x].sid = fv[x].sid
      BY <1>1
    <2> QED
      BY <2>1 DEF IInv, PostInv, TypeOK
  <1>12. RequestInv'
    BY DEF IInv, RequestInv
  <1> QED
    BY <1>5, <1>6, <1>7, <1>8, <1>9, <1>10, <1>11, <1>12 DEF IInv

(* The finalizer commits what it flushed, is cancelled while it does, or     *)
(* fails to.                                                                 *)
LEMMA FinalizeCommitKeeps ==
  ASSUME IInv, NEW v \in Viewers, FinalizeCommit(v)
  PROVE  IInv'
  <1>1. /\ fv[v].pc \in {"flushed", "posted"}
        /\ UNCHANGED <<cont, code, label, aged, op, st, de, wk, posts>>
        /\ Fault \/ NoFault
    BY DEF FinalizeCommit
  <1>2. fv[v].verdict \in Statuses /\ "failed" \in Statuses
    BY DEF IInv, TypeOK, Viewer, Statuses, Terminal
  <1>3. CASE row' = Flushed(v) /\ Detach(v)
    BY <1>1, <1>3, DetachMoves, FlushedKeeps
  <1>4. CASE row' = Flushed(v) /\ \E status \in Statuses : Return(v, status)
    BY <1>1, <1>4, ReturnMoves, FlushedKeeps
  <1>5. CASE row' = row /\ Return(v, "failed")
    <2>1. ViewerOK(v)'
      BY <1>1, <1>2, <1>5, ReturnMoves DEF IInv, ViewerInv, ViewerOK, Present
    <2> QED
      BY <1>1, <1>2, <1>5, <2>1, ReturnMoves, ViewerMoves
  <1> QED
    BY <1>2, <1>3, <1>4, <1>5 DEF FinalizeCommit

(* A finalizer dies and its transaction is rolled back. *)
LEMMA ViewerDiesKeeps ==
  ASSUME IInv, NEW v \in Viewers, ViewerDies(v)
  PROVE  IInv'
  <1>1. GoTo(v, "dead") /\ fv[v].pc # "idle"
    BY DEF ViewerDies
  <1>2. ViewerOK(v)'
    BY <1>1, GoToMoves DEF ViewerDies, IInv, ViewerInv, ViewerOK, Present
  <1> QED
    BY <1>1, <1>2, GoToMoves, ViewerMoves DEF ViewerDies

-----------------------------------------------------------------------------
(* Maintenance *)

(* A worker's local state after an update of the whole record. *)
LEMMA JobSet ==
  ASSUME IInv, NEW w \in Workers, NEW u \in Worker, wk' = [wk EXCEPT ![w] = u]
  PROVE  /\ wk' \in [Workers -> Worker]
         /\ wk'[w] = u
         /\ \A x \in Workers \ {w} : wk'[x] = wk[x]
  BY DEF IInv, TypeOK

(* Reconciliation reads the unfinished rows. *)
LEMMA BootKeeps ==
  ASSUME IInv, NEW w \in Workers, Boot(w)
  PROVE  IInv'
  <1> DEFINE unfinished == {s \in Sessions : IsUnfinished(s)}
             u == Job("reconcile", {s \in unfinished : row[s].cid}, {},
                                   {s \in unfinished : ~row[s].cid})
  <1>1. wk' = [wk EXCEPT ![w] = u] /\ OnlyWorker
    BY DEF Boot
  <1>2. u \in Worker /\ u.pc = "reconcile" /\ u.ids = {} /\ u.rm = {} /\ u.held = {}
    BY DEF Worker, Job
  <1> HIDE DEF u
  <1>3. WorkerOK(w)'
    BY <1>1, <1>2, JobSet DEF WorkerOK
  <1> QED
    BY <1>1, <1>2, <1>3, JobSet, JobMoves DEF OnlyWorker, NoFault

(* Reconciliation probes one container. *)
LEMMA ProbeKeeps ==
  ASSUME IInv, NEW w \in Workers, NEW s \in Sessions, Probe(w, s)
  PROVE  IInv'
  <1>1. /\ wk[w] \in Worker /\ WorkerOK(w)
        /\ wk[w].pc = "reconcile"
        /\ Fault \/ NoFault
        /\ UNCHANGED <<row, cont, code, label, aged, op, st, fv, de, posts>>
    BY DEF Probe, IInv, TypeOK, WorkerInv
  <1>2. PICK stale \in SUBSET Sessions :
          wk' = [wk EXCEPT ![w] = [wk[w] EXCEPT !.todo = @ \ {s}, !.hit = stale]]
    <2>1. wk[w].hit \in SUBSET Sessions /\ wk[w].hit \cup {s} \in SUBSET Sessions
      BY <1>1 DEF Worker
    <2>2. wk \in [Workers -> Worker]
      BY DEF IInv, TypeOK
    <2>3. wk[w].todo \ {s} \in SUBSET Sessions
      BY <1>1 DEF Worker
    <2> QED
      BY <2>1, <2>2, <2>3 DEF Probe
  <1> DEFINE u == [wk[w] EXCEPT !.todo = @ \ {s}, !.hit = stale]
  <1>3. /\ u \in Worker /\ u.pc = "reconcile"
        /\ u.ids = wk[w].ids /\ u.rm = wk[w].rm /\ u.held = wk[w].held
    BY <1>1 DEF Worker
  <1> HIDE DEF u
  <1>4. wk' = [wk EXCEPT ![w] = u]
    BY <1>2 DEF u
  <1>5. WorkerOK(w)'
    BY <1>1, <1>3, <1>4, JobSet DEF WorkerOK, Present
  <1> QED
    BY <1>1, <1>3, <1>4, <1>5, JobSet, JobMoves

(* The expiry loop reads the expired rows. *)
LEMMA ExpireReadKeeps ==
  ASSUME IInv, NEW w \in Workers, ExpireRead(w)
  PROVE  IInv'
  <1> DEFINE expired == {s \in aged : IsUnfinished(s)}
             u == Job("expire", expired, {s \in expired : row[s].cid}, {})
  <1>1. wk' = [wk EXCEPT ![w] = u] /\ OnlyWorker
    BY DEF ExpireRead
  <1>2. u \in Worker /\ u.pc = "expire" /\ u.rm = {} /\ u.held = {}
    BY DEF Worker, Job, IInv, TypeOK
  <1>3. \A s \in u.ids : op[s] = "over"
    BY DEF Job, IInv, TypeOK, OpenerInv
  <1> HIDE DEF u
  <1>4. WorkerOK(w)'
    BY <1>1, <1>2, <1>3, JobSet DEF WorkerOK, OnlyWorker
  <1> QED
    BY <1>1, <1>2, <1>4, JobSet, JobMoves DEF OnlyWorker, NoFault

(* An expired row without a container id needs no Docker call. *)
LEMMA ExpireSkipKeeps ==
  ASSUME IInv, NEW w \in Workers, NEW s \in Sessions, ExpireSkip(w, s)
  PROVE  IInv'
  <1> DEFINE u == [wk[w] EXCEPT !.todo = @ \ {s}, !.hit = @ \cup {s}]
  <1>1. /\ wk[w] \in Worker /\ WorkerOK(w) /\ wk \in [Workers -> Worker]
        /\ wk[w].pc = "expire" /\ OnlyWorker
    BY DEF ExpireSkip, IInv, TypeOK, WorkerInv
  <1>2. wk' = [wk EXCEPT ![w] = u]
    BY <1>1 DEF ExpireSkip
  <1>3. /\ u \in Worker /\ u.pc = "expire"
        /\ u.ids = wk[w].ids /\ u.rm = wk[w].rm /\ u.held = wk[w].held
    BY <1>1 DEF Worker
  <1> HIDE DEF u
  <1>4. WorkerOK(w)'
    BY <1>1, <1>2, <1>3, JobSet DEF WorkerOK, Present, OnlyWorker
  <1> QED
    BY <1>1, <1>2, <1>3, <1>4, JobSet, JobMoves DEF OnlyWorker, NoFault

(* A Docker call of a job about a container whose id it read in a row. *)
LEMMA JobDocker ==
  ASSUME IInv, NEW w \in Workers, NEW s \in Sessions, NEW u \in Worker,
         s \in wk[w].ids \cup wk[w].rm,
         RemoveCall(s) \/ \E answered \in BOOLEAN : StopCall(s, answered),
         wk' = [wk EXCEPT ![w] = u],
         u.pc = wk[w].pc, u.ids \subseteq wk[w].ids, u.rm \subseteq {s}, u.held = wk[w].held,
         UNCHANGED <<row, label, aged, op, st, fv, de, posts>>
  PROVE  IInv'
  <1>1. WorkerOK(w) /\ op[s] = "over" /\ wk[w].pc \notin {"down", "up"}
    BY DEF IInv, WorkerInv, WorkerOK, Idle, Job
  <1>2. /\ cont' \in [Sessions -> ContState]
        /\ code' \in [Sessions -> ExitCode \cup {"none"}]
        /\ faults' \in 0..MaxFaults
        /\ SuccessIsEarned'
        /\ OpenerInv'
        /\ \A x \in Sessions : code[x] = "ok" => code'[x] = "ok"
    BY <1>1, DockerCall
  <1>3. TypeOK'
    BY <1>2, JobSet DEF IInv, TypeOK
  <1>4. ViewerInv'
    BY <1>2 DEF IInv, ViewerInv, ViewerOK, Present
  <1>5. WorkerInv'
    <2> SUFFICES ASSUME NEW x \in Workers PROVE WorkerOK(x)'
      BY DEF WorkerInv
    <2>1. WorkerOK(x)
      BY DEF IInv, WorkerInv
    <2> QED
      BY <1>1, <2>1, JobSet DEF WorkerOK, Present
  <1>6. RowShape' /\ RequestInv' /\ PostInv'
    BY DEF IInv, RowShape, RequestInv, PostInv, Present
  <1> QED
    BY <1>2, <1>3, <1>4, <1>5, <1>6 DEF IInv

(* A job stops a container. *)
LEMMA JobStopKeeps ==
  ASSUME IInv, NEW w \in Workers, NEW s \in Sessions, JobStop(w, s)
  PROVE  IInv'
  <1>1. /\ wk[w] \in Worker /\ wk \in [Workers -> Worker]
        /\ s \in wk[w].ids
        /\ UNCHANGED <<row, label, aged, op, st, fv, de, posts>>
    BY DEF JobStop, IInv, TypeOK
  <1> DEFINE u(answered) == [wk[w] EXCEPT !.todo = @ \ {s},
                                          !.ids  = @ \ {s},
                                          !.rm   = IF answered THEN {s} ELSE {},
                                          !.hit  = IF answered THEN @ ELSE @ \cup {s}]
  <1>2. PICK answered \in BOOLEAN :
          StopCall(s, answered) /\ wk' = [wk EXCEPT ![w] = u(answered)]
    BY DEF JobStop
  <1>3. /\ u(answered) \in Worker /\ u(answered).pc = wk[w].pc
        /\ u(answered).ids \subseteq wk[w].ids
        /\ u(answered).rm \subseteq {s} /\ u(answered).held = wk[w].held
    <2>1. /\ wk[w].todo \ {s} \in SUBSET Sessions
          /\ wk[w].ids \ {s} \in SUBSET Sessions
          /\ wk[w].ids \ {s} \subseteq wk[w].ids
          /\ (IF answered THEN wk[w].hit ELSE wk[w].hit \cup {s}) \in SUBSET Sessions
          /\ (IF answered THEN {s} ELSE {}) \in SUBSET Sessions
          /\ (IF answered THEN {s} ELSE {}) \subseteq {s}
      BY <1>1 DEF Worker
    <2> QED
      BY <1>1, <2>1 DEF Worker
  <1> HIDE DEF u
  <1> QED
    BY <1>1, <1>2, <1>3, JobDocker

(* A job removes a container. *)
LEMMA JobRemoveKeeps ==
  ASSUME IInv, NEW w \in Workers, NEW s \in Sessions, JobRemove(w, s)
  PROVE  IInv'
  <1> DEFINE u == [wk[w] EXCEPT !.rm = {}, !.hit = @ \cup {s}]
  <1>1. /\ wk[w] \in Worker /\ wk \in [Workers -> Worker]
        /\ s \in wk[w].rm /\ RemoveCall(s)
        /\ UNCHANGED <<row, label, aged, op, st, fv, de, posts>>
    BY DEF JobRemove, IInv, TypeOK
  <1>2. wk' = [wk EXCEPT ![w] = u]
    BY <1>1 DEF JobRemove
  <1>3. /\ u \in Worker /\ u.pc = wk[w].pc
        /\ u.ids \subseteq wk[w].ids /\ u.rm \subseteq {s} /\ u.held = wk[w].held
    BY <1>1 DEF Worker
  <1> HIDE DEF u
  <1> QED
    BY <1>1, <1>2, <1>3, JobDocker

(* The shutdown job lists the process's own running containers. *)
LEMMA ShutdownReadKeeps ==
  ASSUME IInv, NEW w \in Workers, ShutdownRead(w)
  PROVE  IInv'
  <1> DEFINE u == Job("stopping", {s \in Sessions : label[s] = w /\ cont[s] = "running"}, {}, {})
  <1>1. /\ wk' = [wk EXCEPT ![w] = u]
        /\ Fault /\ UNCHANGED <<row, cont, code, label, aged, op, st, fv, de, posts>>
    BY DEF ShutdownRead
  <1>2. u \in Worker /\ u.pc = "stopping" /\ u.ids = {} /\ u.rm = {} /\ u.held = {}
    BY DEF Worker, Job
  <1> HIDE DEF u
  <1>3. WorkerOK(w)'
    BY <1>1, <1>2, JobSet DEF WorkerOK
  <1> QED
    BY <1>1, <1>2, <1>3, JobSet, JobMoves

(* The shutdown job looks at one row, after flushing the previous one. *)
LEMMA ShutdownGetKeeps ==
  ASSUME IInv, NEW w \in Workers, NEW s \in Sessions, ShutdownGet(w, s)
  PROVE  IInv'
  <1>1. /\ wk[w] \in Worker /\ WorkerOK(w) /\ wk \in [Workers -> Worker]
        /\ wk[w].pc = "stopping" /\ wk[w].rm = {} /\ OnlyWorker
        /\ \A h \in wk[w].hit : Present(h)
    BY DEF ShutdownGet, IInv, TypeOK, WorkerInv, Writable
  <1> DEFINE hit == IF Present(s) /\ ~row[s].done /\ ~row[s].cid THEN {s} ELSE {}
             ids == IF Present(s) /\ ~row[s].done /\ row[s].cid THEN {s} ELSE {}
             u == [wk[w] EXCEPT !.todo = @ \ {s}, !.held = @ \cup wk[w].hit,
                               !.hit = hit, !.ids = ids]
  <1>2. wk' = [wk EXCEPT ![w] = u]
    BY DEF ShutdownGet
  <1>3. \A x \in ids : row[x].cid
    OBVIOUS
  <1>4. /\ wk[w].todo \ {s} \in SUBSET Sessions
        /\ wk[w].held \cup wk[w].hit \in SUBSET Sessions
        /\ hit \in SUBSET Sessions
        /\ ids \in SUBSET Sessions
    BY <1>1 DEF Worker
  <1> HIDE DEF hit, ids
  <1>5. /\ u \in Worker /\ u.pc = "stopping"
        /\ u.ids = ids /\ u.rm = {} /\ u.held = wk[w].held \cup wk[w].hit
    BY <1>1, <1>4 DEF Worker
  <1> HIDE DEF u
  <1>6. \A x \in ids : op[x] = "over"
    BY <1>3, <1>4 DEF IInv, OpenerInv
  <1>7. WorkerOK(w)'
    BY <1>1, <1>2, <1>5, <1>6, JobSet DEF WorkerOK, Present, OnlyWorker
  <1> QED
    BY <1>1, <1>2, <1>5, <1>7, JobSet, JobMoves DEF OnlyWorker, NoFault

(* A job ends, and its process with it if it was stopping or crashed. *)
LEMMA LeaveKeeps ==
  ASSUME IInv, NEW w \in Workers,
         UNCHANGED <<cont, code, aged, st, fv, de, posts>>,
         faults' \in 0..MaxFaults,
         NEW pc \in {"down", "up"}, wk' = [wk EXCEPT ![w] = Idle(pc)],
         GoesDown(w) \/ UNCHANGED <<label, op>>,
         row' \in [Sessions -> Row],
         \A s \in Sessions : Present(s)' <=> Present(s)
  PROVE  /\ TypeOK' /\ RequestInv' /\ WorkerInv'
         /\ op' \in [Sessions -> OpenerPC]
  <1>1. label' \in [Sessions -> Workers \cup {None}]
    BY DEF IInv, TypeOK, GoesDown
  <1>2. op' \in [Sessions -> OpenerPC] /\ \A s \in Sessions : op'[s] = op[s] \/ op'[s] = "over"
    BY DEF IInv, TypeOK, GoesDown, OpenerPC
  <1>3. /\ Idle(pc) \in Worker /\ Idle(pc).pc = pc /\ Idle(pc).ids = {} /\ Idle(pc).rm = {}
        /\ Idle(pc).held = {}
    BY DEF Idle, Job, Worker
  <1>4. TypeOK'
    BY <1>1, <1>2, <1>3 DEF IInv, TypeOK
  <1>5. RequestInv'
    BY <1>2 DEF IInv, RequestInv
  <1>6. WorkerInv'
    <2> SUFFICES ASSUME NEW x \in Workers PROVE WorkerOK(x)'
      BY DEF WorkerInv
    <2>1. WorkerOK(x) /\ wk[x] \in Worker
      BY DEF IInv, WorkerInv, TypeOK
    <2>2. CASE x = w
      BY <1>3, <2>2, JobSet DEF WorkerOK
    <2>3. CASE x # w
      <3>1. wk'[x] = wk[x]
        BY <1>3, <2>3, JobSet
      <3> QED
        BY <1>2, <2>1, <3>1 DEF WorkerOK, Worker
    <2> QED
      BY <2>2, <2>3
  <1> QED
    BY <1>2, <1>4, <1>5, <1>6

(* A job ends all the rows it has decided on in one transaction. *)
LEMMA JobCommitKeeps ==
  ASSUME IInv, NEW w \in Workers, JobCommit(w)
  PROVE  IInv'
  <1> DEFINE S == wk[w].hit \cup wk[w].held
  <1>1. /\ UNCHANGED <<cont, code, aged, st, fv, de, posts, faults>>
        /\ GoesDown(w) \/ UNCHANGED <<label, op>>
        /\ \A s \in Sessions : label'[s] \in {label[s], None}
    BY DEF JobCommit, Leave, GoesDown
  <1>2. PICK pc \in {"down", "up"} : wk' = [wk EXCEPT ![w] = Idle(pc)]
    BY DEF JobCommit, Leave, After
  <1>3. PICK verdict \in Terminal \ {"completed"} :
          row' = [s \in Sessions |-> IF s \in S THEN Terminate(row[s], verdict) ELSE row[s]]
    <2>1. Verdict(wk[w].pc) \in Terminal \ {"completed"}
      BY DEF JobCommit, Verdict, Terminal
    <2> QED
      BY <2>1 DEF JobCommit
  <1>4. S \in SUBSET Sessions /\ \A s \in S : Present(s)
    BY DEF JobCommit, Writable, IInv, TypeOK, Worker, WorkerInv, WorkerOK
  <1> HIDE DEF S
  <1>5. op' \in [Sessions -> OpenerPC] /\ \A s \in Sessions : op'[s] = op[s] \/ op'[s] = "over"
    BY <1>1 DEF GoesDown, IInv, TypeOK, OpenerPC
  <1>6. /\ row' \in [Sessions -> Row]
        /\ RowShape' /\ SuccessIsEarned' /\ OpenerInv' /\ ViewerInv' /\ PostInv'
        /\ \A s \in Sessions : Present(s)' <=> Present(s)
    BY <1>1, <1>3, <1>4, <1>5, EndingKeeps
  <1>7. faults' \in 0..MaxFaults
    BY <1>1 DEF IInv, TypeOK
  <1>8. TypeOK' /\ RequestInv' /\ WorkerInv'
    BY <1>1, <1>2, <1>6, <1>7, LeaveKeeps
  <1> QED
    BY <1>6, <1>8 DEF IInv

(* A job's transaction is rolled back, or its process crashes. *)
LEMMA JobLosesRowKeeps ==
  ASSUME IInv, NEW w \in Workers, JobLosesRow(w) \/ Crash(w)
  PROVE  IInv'
  <1>1. /\ UNCHANGED <<row, cont, code, aged, st, fv, de, posts>>
        /\ GoesDown(w) \/ UNCHANGED <<label, op>>
        /\ \A s \in Sessions : label'[s] \in {label[s], None}
    BY DEF JobLosesRow, Crash, Leave, GoesDown
  <1>2. PICK pc \in {"down", "up"} : wk' = [wk EXCEPT ![w] = Idle(pc)]
    BY DEF JobLosesRow, Crash, Leave, After
  <1>3. faults' \in 0..MaxFaults
    BY FaultTyped DEF JobLosesRow, Crash, Leave, NoFault, IInv
  <1>4. row' \in [Sessions -> Row] /\ \A s \in Sessions : Present(s)' <=> Present(s)
    BY <1>1 DEF IInv, TypeOK, Present
  <1>5. /\ TypeOK' /\ RequestInv' /\ WorkerInv'
        /\ op' \in [Sessions -> OpenerPC]
    BY <1>1, <1>2, <1>3, <1>4, LeaveKeeps
  <1>6. \A s \in Sessions : op'[s] = op[s] \/ op'[s] = "over"
    BY <1>1 DEF GoesDown
  <1>7. RowShape' /\ SuccessIsEarned' /\ OpenerInv' /\ ViewerInv' /\ PostInv'
    <2> DEFINE S == {}
    <2>1. row' = [s \in Sessions |-> IF s \in S THEN Terminate(row[s], "failed") ELSE row[s]]
      BY <1>1 DEF IInv, TypeOK
    <2>2. /\ S \in SUBSET Sessions /\ \A s \in S : Present(s)
          /\ "failed" \in Terminal \ {"completed"}
      BY DEF Terminal
    <2> HIDE DEF S
    <2> QED
      BY <1>1, <1>5, <1>6, <2>1, <2>2, EndingKeeps
  <1> QED
    BY <1>5, <1>7 DEF IInv

-----------------------------------------------------------------------------
(* The invariant *)

(* The empty database, with all workers down, satisfies the invariant. *)
LEMMA InitInv ==
  ASSUME Init
  PROVE  IInv
  <1>1. TypeOK
    BY FaultsAssumption DEF Init, TypeOK, Idle, Job, Absent, Blank, Row, Stop, Viewer,
       Delete, Worker, Statuses, Terminal, Unfinished, ContState, OpenerPC
  <1>2. RowShape /\ SuccessIsEarned /\ OpenerInv
    BY DEF Init, RowShape, SuccessIsEarned, OpenerInv, Absent, Blank, Terminal
  <1>3. RequestInv /\ ViewerInv /\ WorkerInv /\ PostInv
    BY DEF Init, RequestInv, ViewerInv, ViewerOK, WorkerInv, WorkerOK, PostInv, Idle, Job
  <1> QED
    BY <1>1, <1>2, <1>3 DEF IInv

(* Every step of the system, and every stuttering step, keeps the invariant. *)
LEMMA NextInv ==
  ASSUME IInv, [Next]_vars
  PROVE  IInv'
  <1>1. ASSUME NEW s \in Sessions,
               RunnerDies(s) \/ HostStops(s) \/ PassTTL(s) \/ Announce(s) \/ Opening(s)
        PROVE  IInv'
    BY <1>1, RunnerDiesKeeps, HostStopsKeeps, PassTTLKeeps, AnnounceKeeps, CreateContainerKeeps,
       StartContainerKeeps, RecordFailedKeeps, FlushRunningKeeps, CommitRunningKeeps,
       OpenerLosesRowKeeps DEF Opening
  <1>2. ASSUME NEW s \in Sessions, NEW w \in Workers, Open(s, w)
        PROVE  IInv'
    BY <1>2, OpenKeeps
  <1>3. ASSUME NEW r \in Stops, Stopping(r) \/ StopDies(r)
        PROVE  IInv'
    BY <1>3, StopReadKeeps, StopHaltKeeps, StopWriteKeeps, StopDiesKeeps DEF Stopping
  <1>4. ASSUME NEW d \in Deletes, Deleting(d) \/ DeleteDies(d)
        PROVE  IInv'
    BY <1>4, DeleteReadKeeps, DeleteWriteKeeps, DeleteDiesKeeps DEF Deleting
  <1>5. ASSUME NEW v \in Viewers, Viewing(v) \/ FinalizeFails(v) \/ ViewerDies(v)
        PROVE  IInv'
    BY <1>5, StreamOpenKeeps, StreamEndsKeeps, StreamBreaksKeeps, OpenLogKeeps, FinalizeReadKeeps,
       AttachKeeps, AwaitExitKeeps, RemoveExitedKeeps, MarkReadKeeps, FinalizeFlushKeeps,
       PostCommentKeeps, FinalizeCommitKeeps, FinalizeFailsKeeps, ViewerDiesKeeps
       DEF Viewing, Finalizing
  <1>6. ASSUME NEW w \in Workers, Boot(w) \/ Sweeping(w) \/ ShutdownRead(w) \/ Crash(w)
        PROVE  IInv'
    BY <1>6, BootKeeps, ProbeKeeps, ExpireReadKeeps, ExpireSkipKeeps, JobStopKeeps,
       JobRemoveKeeps, ShutdownReadKeeps, ShutdownGetKeeps, JobCommitKeeps, JobLosesRowKeeps
       DEF Sweeping
  <1>7. CASE UNCHANGED vars
    BY <1>7 DEF vars, IInv, TypeOK, RowShape, SuccessIsEarned, OpenerInv, RequestInv, ViewerInv,
       ViewerOK, WorkerInv, WorkerOK, PostInv, Present
  <1> QED
    BY <1>1, <1>2, <1>3, <1>4, <1>5, <1>6, <1>7 DEF Next

(* The inductive invariant holds in every reachable state. *)
THEOREM Invariance == Spec => []IInv
  <1>1. Init => IInv
    BY InitInv
  <1>2. IInv /\ [Next]_vars => IInv'
    BY NextInv
  <1> QED
    BY <1>1, <1>2, PTL DEF Spec

(* Every variable keeps to its type: no finalizer, for one, ever answers its *)
(* client with a status that is not one.                                     *)
THEOREM TypeCorrect == Spec => []TypeOK
  <1>1. IInv => TypeOK
    BY DEF IInv
  <1> QED
    BY <1>1, Invariance, PTL

(* The columns of every row agree, however the writers interleave. *)
THEOREM RowsKeepShape == Spec => []RowShape
  <1>1. IInv => RowShape
    BY DEF IInv
  <1> QED
    BY <1>1, Invariance, PTL

(* No session is COMPLETED, scored or posted unless its container exited 0. *)
THEOREM SuccessAlwaysEarned == Spec => []SuccessIsEarned
  <1>1. IInv => SuccessIsEarned
    BY DEF IInv
  <1> QED
    BY <1>1, Invariance, PTL

(* A finalizer that posted the results and says COMPLETED has stored them,   *)
(* whether or not the commits of others, or earlier ones of its own, failed. *)
THEOREM PostedScoreStays == Spec => []PostedScoreIsStored
  <1>1. IInv => PostedScoreIsStored
    <2> SUFFICES ASSUME IInv, NEW s \in Sessions, NEW v \in posts[s],
                        fv[v].found, fv[v].told = "completed", Present(s)
                 PROVE  row[s].score
      BY DEF PostedScoreIsStored
    <2>1. v \in Viewers /\ fv[v].sid = s
      BY DEF IInv, TypeOK, PostInv
    <2> QED
      BY <2>1 DEF IInv, ViewerInv, ViewerOK
  <1> QED
    BY <1>1, Invariance, PTL

-----------------------------------------------------------------------------
(* The contract, and what steps never do to a row.  Every step is of one of  *)
(* five kinds: it creates one row, starts one, deletes one, ends some, or    *)
(* leaves all rows alone.                                                    *)

(* The kinds of steps.  A row is born when its opener leaves "idle". *)
BirthsStay == \A s \in Sessions : op'[s] = "idle" <=> op[s] = "idle"

Quiet ==
  /\ UNCHANGED row
  /\ BirthsStay
  /\ \/ UNCHANGED code
     \/ \E s \in Sessions, k \in ExitCode : code[s] = "none" /\ code' = [code EXCEPT ![s] = k]

Births(s) ==
  /\ op[s] = "idle"
  /\ op' \in {[op EXCEPT ![s] = pc] : pc \in {"opened", "over"}}
  /\ row' = [row EXCEPT ![s] = Blank("pending")]
  /\ UNCHANGED code

Starts(s) ==
  /\ Present(s) /\ ~row[s].cid
  /\ row' = [row EXCEPT ![s] = [@ EXCEPT !.status = "running", !.cid = TRUE]]
  /\ BirthsStay /\ UNCHANGED code

Drops(s) ==
  /\ op[s] # "idle"
  /\ row' = [row EXCEPT ![s] = Absent]
  /\ BirthsStay /\ UNCHANGED code

(* Rows that end, or only get a scorecard (verdict stays as it is).  *)
Ends(S, verdict) ==
  /\ \A s \in S : Present(s)
  /\ verdict = "completed" => \A s \in S : code[s] = "ok"
  /\ row' \in [Sessions -> Row]
  /\ \A s \in Sessions : row'[s].status = IF s \in S THEN verdict ELSE row[s].status
  /\ \A s \in Sessions : /\ row'[s].cid = row[s].cid
                         /\ row[s].done => row'[s].done
                         /\ row[s].score => row'[s].score
  /\ BirthsStay /\ UNCHANGED code

-----------------------------------------------------------------------------
(* A Docker call sets the exit code of a container that had none. *)
LEMMA DockerIsQuiet ==
  ASSUME IInv, NEW s \in Sessions,
         RemoveCall(s) \/ \E answered \in BOOLEAN : StopCall(s, answered),
         UNCHANGED <<row, op>>
  PROVE  Quiet
  <1>1. /\ code \in [Sessions -> ExitCode \cup {"none"}]
        /\ code[s] # "none" <=> cont[s] \in {"exited", "removed"}
    BY DEF IInv, TypeOK, OpenerInv
  <1>2. CASE RemoveCall(s)
    <2>1. CASE code[s] = "none"
      BY <1>1, <1>2, <2>1 DEF RemoveCall, Quiet, BirthsStay, ExitCode
    <2>2. CASE code[s] # "none"
      <3>1. code' = code
        BY <1>1, <1>2, <2>2 DEF RemoveCall
      <3> QED
        BY <3>1 DEF Quiet, BirthsStay
    <2> QED
      BY <2>1, <2>2
  <1>3. CASE \E answered \in BOOLEAN : StopCall(s, answered)
    <2>1. CASE cont[s] = "running"
      BY <1>1, <1>3, <2>1 DEF StopCall, Quiet, BirthsStay
    <2>2. CASE cont[s] # "running"
      <3>1. code' = code
        BY <1>1, <1>3, <2>2 DEF StopCall
      <3> QED
        BY <3>1 DEF Quiet, BirthsStay
    <2> QED
      BY <2>1, <2>2
  <1> QED
    BY <1>2, <1>3

(* A process that ends leaves no session unborn that was born, nor the other *)
(* way round: a session it labels has an opener.                             *)
LEMMA DownIsQuiet ==
  ASSUME IInv, NEW w \in Workers, GoesDown(w) \/ UNCHANGED <<label, op>>
  PROVE  BirthsStay
  BY NoneAssumption DEF IInv, OpenerInv, TypeOK, GoesDown, BirthsStay

(* The actions around one session's opener and container. *)
LEMMA SessionStep ==
  ASSUME IInv, NEW s \in Sessions,
         \/ RunnerDies(s) \/ HostStops(s) \/ PassTTL(s) \/ Announce(s) \/ Opening(s)
         \/ \E w \in Workers : Open(s, w)
  PROVE  \/ Quiet \/ Births(s) \/ Starts(s)
         \/ \E S \in SUBSET Sessions, verdict \in Terminal : Ends(S, verdict)
  <1>1. CASE RunnerDies(s) \/ HostStops(s)
    BY <1>1 DEF RunnerDies, HostStops, Quiet, BirthsStay, ExitCode, IInv, TypeOK, OpenerInv
  <1>2. CASE PassTTL(s)
    BY <1>2 DEF PassTTL, Quiet, BirthsStay
  <1>3. CASE Announce(s) \/ \E w \in Workers : Open(s, w)
    BY <1>3 DEF Announce, Open, Births
  <1>4. CASE CreateContainer(s) \/ StartContainer(s)
    BY <1>4 DEF CreateContainer, StartContainer, Quiet, BirthsStay, IInv, TypeOK
  <1>5. CASE FlushRunning(s) \/ OpenerLosesRow(s)
    BY <1>5 DEF FlushRunning, OpenerLosesRow, Quiet, BirthsStay, IInv, TypeOK
  <1>6. CASE RecordFailed(s)
    <2> DEFINE S == {s}
    <2>1. \A x \in Sessions : row'[x] = IF x \in S THEN Terminate(row[x], "failed") ELSE row[x]
      BY <1>6 DEF RecordFailed, IInv, TypeOK
    <2>2. /\ \A x \in S : Present(x)
          /\ BirthsStay /\ UNCHANGED code
      BY <1>6 DEF RecordFailed, Writable, BirthsStay, IInv, TypeOK
    <2>3. row' \in [Sessions -> Row]
      BY <1>6, RecordFailedKeeps DEF IInv, TypeOK
    <2>4. Ends(S, "failed")
      BY <2>1, <2>2, <2>3 DEF Ends, Terminate
    <2> QED
      BY <2>4 DEF Terminal
  <1>7. CASE CommitRunning(s)
    <2>1. Present(s) /\ ~row[s].cid /\ BirthsStay /\ UNCHANGED code
      BY <1>7 DEF CommitRunning, IInv, OpenerInv, TypeOK, BirthsStay
    <2>2. row' = [row EXCEPT ![s] = [row[s] EXCEPT !.status = "running", !.cid = TRUE]]
      BY <1>7 DEF CommitRunning, IInv, TypeOK
    <2> QED
      BY <2>1, <2>2 DEF Starts
  <1> QED
    BY <1>1, <1>2, <1>3, <1>4, <1>5, <1>6, <1>7 DEF Opening

(* Stop and delete requests. *)
LEMMA RequestStep ==
  ASSUME IInv,
         \/ \E r \in Stops : Stopping(r) \/ StopDies(r)
         \/ \E d \in Deletes : Deleting(d) \/ DeleteDies(d)
  PROVE  \/ Quiet
         \/ \E s \in Sessions : Drops(s)
         \/ \E S \in SUBSET Sessions, verdict \in Terminal : Ends(S, verdict)
  <1>1. ASSUME NEW r \in Stops, StopHalt(r) \/ StopRemove(r)
        PROVE  Quiet
    <2>1. /\ st[r].sid \in Sessions
          /\ RemoveCall(st[r].sid) \/ \E answered \in BOOLEAN : StopCall(st[r].sid, answered)
          /\ UNCHANGED <<row, op>>
      BY <1>1 DEF StopHalt, StopRemove, IInv, RequestInv
    <2> QED
      BY <2>1, DockerIsQuiet
  <1>2. ASSUME NEW r \in Stops, (\E s \in Sessions : StopRead(r, s)) \/ StopDies(r)
        PROVE  Quiet
    BY <1>2 DEF StopRead, StopDies, Quiet, BirthsStay
  <1>3. ASSUME NEW r \in Stops, StopWrite(r)
        PROVE  Quiet \/ \E S \in SUBSET Sessions, verdict \in Terminal : Ends(S, verdict)
    <2>1. CASE UNCHANGED row
      BY <1>3, <2>1 DEF StopWrite, Quiet, BirthsStay
    <2>2. CASE row' # row
      <3> DEFINE S == {st[r].sid}
      <3>1. /\ st[r].sid \in Sessions /\ Present(st[r].sid)
            /\ row' = [row EXCEPT ![st[r].sid] = Terminate(@, "cancelled")]
            /\ BirthsStay /\ UNCHANGED code
        BY <1>3, <2>2 DEF StopWrite, Writable, IInv, RequestInv, BirthsStay
      <3>2. \A x \in Sessions : row'[x] = IF x \in S THEN Terminate(row[x], "cancelled") ELSE row[x]
        BY <3>1 DEF IInv, TypeOK
      <3>3. row' \in [Sessions -> Row]
        BY <1>3, StopWriteKeeps DEF IInv, TypeOK
      <3>4. Ends(S, "cancelled")
        BY <3>1, <3>2, <3>3 DEF Ends, Terminate
      <3> QED
        BY <3>1, <3>4 DEF Terminal
    <2> QED
      BY <2>1, <2>2
  <1>4. ASSUME NEW d \in Deletes, (\E s \in Sessions : DeleteRead(d, s)) \/ DeleteDies(d)
        PROVE  Quiet
    BY <1>4 DEF DeleteRead, DeleteDies, Quiet, BirthsStay
  <1>5. ASSUME NEW d \in Deletes, DeleteWrite(d)
        PROVE  \E s \in Sessions : Drops(s)
    <2>1. de[d].sid \in Sessions /\ Drops(de[d].sid)
      BY <1>5 DEF DeleteWrite, Drops, IInv, RequestInv, BirthsStay
    <2> QED
      BY <2>1
  <1> QED
    BY <1>1, <1>2, <1>3, <1>4, <1>5 DEF Stopping, Deleting

(* Streams and finalizers. *)
LEMMA ViewerStep ==
  ASSUME IInv, NEW v \in Viewers, Viewing(v) \/ FinalizeFails(v) \/ ViewerDies(v)
  PROVE  Quiet \/ \E S \in SUBSET Sessions, verdict \in Terminal : Ends(S, verdict)
  <1>1. CASE (\E s \in Sessions : StreamOpen(v, s)) \/ OpenLog(v) \/ FinalizeRead(v)
               \/ AwaitExit(v) \/ MarkRead(v) \/ FinalizeFlush(v) \/ StreamBreaks(v)
    BY <1>1 DEF StreamOpen, OpenLog, FinalizeRead, AwaitExit, MarkRead, FinalizeFlush,
       StreamBreaks, OnlyViewer, Quiet, BirthsStay
  <1>2. CASE StreamEnds(v) \/ Attach(v) \/ PostComment(v) \/ FinalizeFails(v) \/ ViewerDies(v)
    BY <1>2 DEF StreamEnds, Attach, PostComment, FinalizeFails, ViewerDies, OnlyViewer, Quiet,
       BirthsStay
  <1>3. CASE RemoveExited(v)
    <2>1. /\ fv[v].sid \in Sessions /\ RemoveCall(fv[v].sid) /\ UNCHANGED <<row, op>>
      BY <1>3 DEF RemoveExited, IInv, ViewerInv, ViewerOK
    <2> QED
      BY <2>1, DockerIsQuiet
  <1>4. CASE FinalizeCommit(v) /\ UNCHANGED row
    BY <1>4 DEF FinalizeCommit, Quiet, BirthsStay
  <1>5. CASE FinalizeCommit(v) /\ row' = Flushed(v)
    <2> DEFINE s == fv[v].sid
               marked == IF fv[v].fresh THEN Terminate(row[s], fv[v].verdict) ELSE row[s]
               S == IF fv[v].fresh THEN {s} ELSE {}
    <2>1. /\ s \in Sessions /\ Present(s) /\ row[s] \in Row
          /\ fv[v].verdict \in Terminal
          /\ fv[v].verdict = "completed" => code[s] = "ok"
      BY <1>5 DEF FinalizeCommit, IInv, TypeOK, ViewerInv, ViewerOK
    <2>2. /\ row' = [row EXCEPT ![s] = IF fv[v].found THEN Scored(marked) ELSE marked]
          /\ BirthsStay /\ UNCHANGED code
      BY <1>5 DEF FinalizeCommit, Flushed, BirthsStay
    <2>3. row' \in [Sessions -> Row] /\ row \in [Sessions -> Row]
      BY <1>5, FinalizeCommitKeeps DEF IInv, TypeOK
    <2>4. /\ marked.status = (IF fv[v].fresh THEN fv[v].verdict ELSE row[s].status)
          /\ marked.cid = row[s].cid
          /\ row[s].done => marked.done
          /\ row[s].score => marked.score
      BY DEF Terminate
    <2>5. /\ row'[s].status = (IF fv[v].fresh THEN fv[v].verdict ELSE row[s].status)
          /\ row'[s].cid = row[s].cid
          /\ row[s].done => row'[s].done
          /\ row[s].score => row'[s].score
      <3> HIDE DEF marked
      <3>1. row'[s] = IF fv[v].found THEN Scored(marked) ELSE marked
        BY <2>1, <2>2, <2>3
      <3> QED
        BY <2>4, <3>1 DEF Scored
    <2>6. \A x \in Sessions : x # s => row'[x] = row[x]
      BY <2>2, <2>3
    <2>7. S \in SUBSET Sessions /\ Ends(S, fv[v].verdict)
      <3> HIDE DEF marked, s
      <3> QED
        BY <2>1, <2>2, <2>3, <2>5, <2>6 DEF Ends
    <2> QED
      BY <2>1, <2>7
  <1>6. FinalizeCommit(v) => UNCHANGED row \/ row' = Flushed(v)
    BY DEF FinalizeCommit
  <1> QED
    BY <1>1, <1>2, <1>3, <1>4, <1>5, <1>6 DEF Viewing, Finalizing

(* Maintenance jobs. *)
LEMMA WorkerStep ==
  ASSUME IInv, NEW w \in Workers, Boot(w) \/ Sweeping(w) \/ ShutdownRead(w) \/ Crash(w)
  PROVE  Quiet \/ \E S \in SUBSET Sessions, verdict \in Terminal : Ends(S, verdict)
  <1>1. CASE \/ Boot(w) \/ ExpireRead(w) \/ ShutdownRead(w)
             \/ \E s \in Sessions : Probe(w, s) \/ ExpireSkip(w, s) \/ ShutdownGet(w, s)
    BY <1>1 DEF Boot, ExpireRead, ShutdownRead, Probe, ExpireSkip, ShutdownGet, OnlyWorker,
       Quiet, BirthsStay
  <1>2. ASSUME NEW s \in Sessions, JobStop(w, s) \/ JobRemove(w, s)
        PROVE  Quiet
    <2>1. /\ RemoveCall(s) \/ \E answered \in BOOLEAN : StopCall(s, answered)
          /\ UNCHANGED <<row, op>>
      BY <1>2 DEF JobStop, JobRemove
    <2> QED
      BY <2>1, DockerIsQuiet
  <1>3. CASE JobLosesRow(w) \/ Crash(w)
    BY <1>3, DownIsQuiet DEF JobLosesRow, Crash, Leave, Quiet
  <1>4. CASE JobCommit(w)
    <2> DEFINE S == wk[w].hit \cup wk[w].held
    <2>1. BirthsStay /\ UNCHANGED code
      BY <1>4, DownIsQuiet DEF JobCommit, Leave
    <2>2. PICK verdict \in Terminal \ {"completed"} :
            row' = [s \in Sessions |-> IF s \in S THEN Terminate(row[s], verdict) ELSE row[s]]
      <3>1. Verdict(wk[w].pc) \in Terminal \ {"completed"}
        BY <1>4 DEF JobCommit, Verdict, Terminal
      <3> QED
        BY <1>4, <3>1 DEF JobCommit
    <2>3. S \in SUBSET Sessions /\ \A s \in S : Present(s)
      BY <1>4 DEF JobCommit, Writable, IInv, TypeOK, Worker, WorkerInv, WorkerOK
    <2>4. row' \in [Sessions -> Row]
      BY <1>4, JobCommitKeeps DEF IInv, TypeOK
    <2> HIDE DEF S
    <2>5. Ends(S, verdict)
      BY <2>1, <2>2, <2>3, <2>4 DEF Ends, Terminate
    <2> QED
      BY <2>3, <2>5
  <1> QED
    BY <1>1, <1>2, <1>3, <1>4 DEF Sweeping

(* Every step is of one of the five kinds. *)
LEMMA StepKinds ==
  ASSUME IInv, Next
  PROVE  \/ Quiet
         \/ \E s \in Sessions : Births(s) \/ Starts(s) \/ Drops(s)
         \/ \E S \in SUBSET Sessions, verdict \in Terminal : Ends(S, verdict)
  BY SessionStep, RequestStep, ViewerStep, WorkerStep DEF Next

-----------------------------------------------------------------------------
(* A deleted session's row never comes back. *)
THEOREM DeletedForGood == Spec => DeletedStaysDeleted
  <1> DEFINE Step == \A s \in Sessions : op[s] # "idle" /\ ~Present(s) => ~Present(s)'
  <1>1. IInv /\ [Next]_vars => [Step]_vars
    <2> SUFFICES ASSUME IInv, Next, NEW s \in Sessions, op[s] # "idle", ~Present(s)
                 PROVE  ~Present(s)'
      OBVIOUS
    <2>0. row \in [Sessions -> Row]
      BY DEF IInv, TypeOK
    <2>1. CASE Quiet
      BY <2>1 DEF Quiet, Present
    <2>2. CASE \E x \in Sessions : Births(x) \/ Starts(x) \/ Drops(x)
      BY <2>0, <2>2 DEF Births, Starts, Drops, Present, Absent, Blank
    <2>3. CASE \E S \in SUBSET Sessions, verdict \in Terminal : Ends(S, verdict)
      BY <2>3 DEF Ends, Present
    <2> QED
      BY <2>1, <2>2, <2>3, StepKinds
  <1> QED
    BY <1>1, Invariance, PTL DEF Spec, DeletedStaysDeleted

(* A row that stays never loses completed_at, container_id or scorecard.     *)
THEOREM EndRemembered == Spec => EndIsRemembered
  <1> DEFINE Step == \A s \in Sessions : Present(s) /\ Present(s)' =>
                       /\ row[s].done => row'[s].done
                       /\ row[s].cid => row'[s].cid
                       /\ row[s].score => row'[s].score
  <1>1. IInv /\ [Next]_vars => [Step]_vars
    <2> SUFFICES ASSUME IInv, Next, NEW s \in Sessions, Present(s), Present(s)'
                 PROVE  /\ row[s].done => row'[s].done
                        /\ row[s].cid => row'[s].cid
                        /\ row[s].score => row'[s].score
      OBVIOUS
    <2>0. row \in [Sessions -> Row]
      BY DEF IInv, TypeOK
    <2>1. CASE Quiet
      BY <2>1 DEF Quiet
    <2>2. ASSUME NEW x \in Sessions, Births(x)
          PROVE  row'[s] = row[s]
      <3>1. x # s
        BY <2>2 DEF Births, IInv, OpenerInv, Present, Absent, Blank
      <3> QED
        BY <2>0, <2>2, <3>1 DEF Births
    <2>3. ASSUME NEW x \in Sessions, Starts(x)
          PROVE  row'[s] = row[s] \/ row'[s] = [row[s] EXCEPT !.status = "running", !.cid = TRUE]
      BY <2>0, <2>3 DEF Starts
    <2>4. ASSUME NEW x \in Sessions, Drops(x)
          PROVE  row'[s] = row[s]
      <3>1. x # s
        BY <2>0, <2>4 DEF Drops, Present, Absent, Blank
      <3> QED
        BY <2>0, <2>4, <3>1 DEF Drops
    <2>5. CASE \E S \in SUBSET Sessions, verdict \in Terminal : Ends(S, verdict)
      BY <2>5 DEF Ends
    <2>6. row'[s] = [row[s] EXCEPT !.status = "running", !.cid = TRUE]
            => row'[s].done = row[s].done /\ row'[s].cid /\ row'[s].score = row[s].score
      <3>1. row[s] \in Row
        BY <2>0
      <3> QED
        BY <3>1 DEF Row
    <2> QED
      BY <2>1, <2>2, <2>3, <2>4, <2>5, <2>6, StepKinds
  <1> QED
    BY <1>1, Invariance, PTL DEF Spec, EndIsRemembered

-----------------------------------------------------------------------------
(* What a worker that shuts down still means to stop carries its own boot id:*)
(* a label is given once, when the opener begins, and lost only when the     *)
(* process it names has ended.                                               *)
OwnOnly(w) ==
  wk[w].pc = "stopping" =>
    \A s \in wk[w].todo \cup wk[w].ids \cup wk[w].rm : label[s] = w

(* Steps of anybody but a worker. *)
LEMMA OthersKeepOwn ==
  ASSUME IInv, NEW w \in Workers, OwnOnly(w), UNCHANGED wk,
         \/ UNCHANGED label
         \/ \E s \in Sessions, x \in Workers : Open(s, x)
  PROVE  OwnOnly(w)'
  <1>0. /\ wk[w].todo \cup wk[w].ids \cup wk[w].rm \subseteq Sessions
        /\ label \in [Sessions -> Workers \cup {None}]
    BY DEF IInv, TypeOK, Worker
  <1>1. CASE UNCHANGED label
    BY <1>1 DEF OwnOnly
  <1>2. ASSUME NEW s \in Sessions, NEW x \in Workers, Open(s, x)
        PROVE  OwnOnly(w)'
    <2>1. label[s] = None /\ label' = [label EXCEPT ![s] = x]
      BY <1>2 DEF Open, IInv, OpenerInv
    <2> QED
      BY <1>0, <2>1, NoneAssumption DEF OwnOnly
  <1> QED
    BY <1>1, <1>2

(* Another worker's steps: if its process ends, only its own labels go. *)
LEMMA PeersKeepOwn ==
  ASSUME IInv, NEW w \in Workers, NEW x \in Workers, x # w, OwnOnly(w),
         wk'[w] = wk[w], GoesDown(x) \/ UNCHANGED label
  PROVE  OwnOnly(w)'
  BY DEF OwnOnly, GoesDown, IInv, TypeOK, Worker

(* Its own steps look at the running containers it labels, and no others.    *)
LEMMA ShutdownKeepsOwn ==
  ASSUME IInv, NEW w \in Workers, OwnOnly(w),
         Boot(w) \/ Sweeping(w) \/ ShutdownRead(w) \/ Crash(w)
  PROVE  OwnOnly(w)'
  <1>0. wk \in [Workers -> Worker] /\ wk[w] \in Worker
    BY DEF IInv, TypeOK
  <1>1. CASE Boot(w) \/ ExpireRead(w) \/ Crash(w) \/ JobCommit(w) \/ JobLosesRow(w)
    <2>1. wk'[w].pc # "stopping"
      BY <1>0, <1>1 DEF Boot, ExpireRead, Crash, JobCommit, JobLosesRow, Leave, Job, Idle, After
    <2> QED
      BY <2>1 DEF OwnOnly
  <1>2. CASE ShutdownRead(w)
    <2>1. /\ wk'[w].todo = {s \in Sessions : label[s] = w /\ cont[s] = "running"}
          /\ wk'[w].ids = {} /\ wk'[w].rm = {}
          /\ UNCHANGED label
      BY <1>0, <1>2 DEF ShutdownRead, Job
    <2> QED
      BY <2>1 DEF OwnOnly
  <1>3. ASSUME NEW s \in Sessions, Probe(w, s) \/ ExpireSkip(w, s)
        PROVE  OwnOnly(w)'
    <2>1. wk[w].pc \in {"reconcile", "expire"} /\ wk'[w].pc = wk[w].pc
      BY <1>0, <1>3 DEF Probe, ExpireSkip, Worker
    <2> QED
      BY <2>1 DEF OwnOnly
  <1>4. ASSUME NEW s \in Sessions, JobStop(w, s) \/ JobRemove(w, s) \/ ShutdownGet(w, s)
        PROVE  OwnOnly(w)'
    <2>1. UNCHANGED label
      BY <1>4 DEF JobStop, JobRemove, ShutdownGet, OnlyWorker
    <2>2. CASE JobStop(w, s)
      <3>1. PICK answered \in BOOLEAN :
              wk' = [wk EXCEPT ![w] =
                [wk[w] EXCEPT !.todo = @ \ {s},
                              !.ids  = @ \ {s},
                              !.rm   = IF answered THEN {s} ELSE {},
                              !.hit  = IF answered THEN @ ELSE @ \cup {s}]]
        BY <2>2 DEF JobStop
      <3>2. /\ wk'[w].todo = wk[w].todo \ {s}
            /\ wk'[w].ids = wk[w].ids \ {s}
            /\ wk'[w].rm \subseteq {s}
            /\ wk'[w].pc = wk[w].pc
        BY <1>0, <3>1 DEF Worker
      <3>3. s \in wk[w].ids
        BY <2>2 DEF JobStop
      <3> QED
        BY <2>1, <3>2, <3>3 DEF OwnOnly
    <2>3. CASE JobRemove(w, s)
      <3>1. /\ wk'[w].todo = wk[w].todo /\ wk'[w].ids = wk[w].ids /\ wk'[w].rm = {}
            /\ wk'[w].pc = wk[w].pc
        BY <1>0, <2>3 DEF JobRemove, Worker
      <3> QED
        BY <2>1, <3>1 DEF OwnOnly
    <2>4. CASE ShutdownGet(w, s)
      <3>1. /\ wk'[w].todo = wk[w].todo \ {s}
            /\ wk'[w].ids \subseteq {s}
            /\ wk'[w].rm = {}
            /\ wk'[w].pc = wk[w].pc
        BY <1>0, <2>4 DEF ShutdownGet, Worker
      <3>2. s \in wk[w].todo
        BY <2>4 DEF ShutdownGet
      <3> QED
        BY <2>1, <3>1, <3>2 DEF OwnOnly
    <2> QED
      BY <1>4, <2>2, <2>3, <2>4
  <1> QED
    BY <1>1, <1>2, <1>3, <1>4 DEF Sweeping

(* Every step of anybody keeps it. *)
LEMMA StepKeepsOwn ==
  ASSUME IInv, [Next]_vars, NEW w \in Workers, OwnOnly(w)
  PROVE  OwnOnly(w)'
  <1>0. wk \in [Workers -> Worker]
    BY DEF IInv, TypeOK
  <1>1. CASE UNCHANGED vars
    BY <1>1 DEF vars, OwnOnly
  <1>2. CASE \E s \in Sessions : \/ RunnerDies(s) \/ HostStops(s) \/ PassTTL(s)
                                 \/ Announce(s) \/ Opening(s)
    BY <1>2, OthersKeepOwn DEF RunnerDies, HostStops, PassTTL, Announce, Opening,
       CreateContainer, StartContainer, RecordFailed, FlushRunning, CommitRunning, OpenerLosesRow
  <1>3. CASE \E s \in Sessions, x \in Workers : Open(s, x)
    <2>1. UNCHANGED wk
      BY <1>3 DEF Open
    <2> QED
      BY <1>3, <2>1, OthersKeepOwn
  <1>4. CASE \/ \E r \in Stops : Stopping(r) \/ StopDies(r)
             \/ \E d \in Deletes : Deleting(d) \/ DeleteDies(d)
    BY <1>4, OthersKeepOwn DEF Stopping, StopRead, StopHalt, StopRemove, StopWrite, StopDies,
       Deleting, DeleteRead, DeleteWrite, DeleteDies
  <1>5. CASE \E v \in Viewers : Viewing(v) \/ FinalizeFails(v) \/ ViewerDies(v)
    BY <1>5, OthersKeepOwn DEF Viewing, Finalizing, StreamOpen, OpenLog, StreamEnds, StreamBreaks,
       FinalizeRead, Attach, AwaitExit, RemoveExited, MarkRead, FinalizeFlush, PostComment,
       FinalizeCommit, FinalizeFails, ViewerDies, OnlyViewer
  <1>6. ASSUME NEW x \in Workers, x # w, Boot(x) \/ Sweeping(x) \/ ShutdownRead(x) \/ Crash(x)
        PROVE  OwnOnly(w)'
    <2>1. wk'[w] = wk[w]
      BY <1>0, <1>6 DEF Boot, Sweeping, ShutdownRead, Crash, ExpireRead, JobCommit, JobLosesRow,
         Leave, Probe, ExpireSkip, JobStop, JobRemove, ShutdownGet
    <2>2. GoesDown(x) \/ UNCHANGED label
      BY <1>6 DEF Boot, Sweeping, ShutdownRead, Crash, ExpireRead, JobCommit, JobLosesRow,
         Leave, Probe, ExpireSkip, JobStop, JobRemove, ShutdownGet, OnlyWorker
    <2> QED
      BY <1>6, <2>1, <2>2, PeersKeepOwn
  <1>7. CASE Next
    BY <1>2, <1>3, <1>4, <1>5, <1>6, <1>7, ShutdownKeepsOwn DEF Next
  <1> QED
    BY <1>1, <1>7

(* A graceful shutdown stops no container of another process. *)
THEOREM PeersSpared == Spec => ShutdownSparesPeers
  <1> DEFINE Own  == \A w \in Workers : OwnOnly(w)
             Step == \A w \in Workers, s \in Sessions :
                       wk[w].pc = "stopping" /\ wk'[w] # wk[w]
                         /\ cont[s] = "running" /\ cont'[s] # "running"
                       => label[s] = w
  <1>1. Init => Own
    BY DEF Init, OwnOnly, Idle, Job
  <1>2. IInv /\ Own /\ [Next]_vars => Own'
    BY StepKeepsOwn
  <1>3. IInv /\ Own /\ [Next]_vars => [Step]_vars
    <2> SUFFICES ASSUME IInv, Own, Next, NEW w \in Workers, NEW s \in Sessions,
                        wk[w].pc = "stopping", wk'[w] # wk[w],
                        cont[s] = "running", cont'[s] # "running"
                 PROVE  label[s] = w
      OBVIOUS
    <2>0. wk \in [Workers -> Worker] /\ cont \in [Sessions -> ContState]
      BY DEF IInv, TypeOK
    <2>1. \E x \in Workers : Boot(x) \/ Sweeping(x) \/ ShutdownRead(x) \/ Crash(x)
      <3>1. wk' # wk
        OBVIOUS
      <3> QED
        BY <3>1 DEF Next, RunnerDies, HostStops, PassTTL, Announce, Opening, Open,
           CreateContainer, StartContainer, RecordFailed, FlushRunning, CommitRunning,
           OpenerLosesRow, Stopping, StopRead, StopHalt, StopRemove, StopWrite, StopDies,
           Deleting, DeleteRead, DeleteWrite, DeleteDies, Viewing, Finalizing, StreamOpen,
           OpenLog, StreamEnds, StreamBreaks, FinalizeRead, Attach, AwaitExit, RemoveExited,
           MarkRead, FinalizeFlush, PostComment, FinalizeCommit, FinalizeFails, ViewerDies,
           OnlyViewer
    <2>2. PICK x \in Workers, y \in Sessions : JobStop(x, y) \/ JobRemove(x, y)
      <3>1. PICK x \in Workers : Boot(x) \/ Sweeping(x) \/ ShutdownRead(x) \/ Crash(x)
        BY <2>1
      <3>2. cont' # cont
        OBVIOUS
      <3>3. \E y \in Sessions : \/ Probe(x, y) \/ ExpireSkip(x, y) \/ ShutdownGet(x, y)
                                \/ JobStop(x, y) \/ JobRemove(x, y)
        BY <3>1, <3>2 DEF Boot, Sweeping, ShutdownRead, Crash, ExpireRead, JobCommit,
           JobLosesRow, Leave, OnlyWorker
      <3> QED
        BY <3>2, <3>3 DEF Probe, ExpireSkip, ShutdownGet, OnlyWorker
    <2>3. x = w
      BY <2>0, <2>2 DEF JobStop, JobRemove
    <2>4. y = s
      BY <2>0, <2>2 DEF JobStop, JobRemove, StopCall, RemoveCall
    <2>5. s \in wk[w].ids \cup wk[w].rm
      BY <2>2, <2>3, <2>4 DEF JobStop, JobRemove
    <2> QED
      BY <2>5 DEF OwnOnly
  <1> QED
    BY <1>1, <1>2, <1>3, Invariance, PTL DEF Spec, ShutdownSparesPeers

-----------------------------------------------------------------------------
(* The refinement: a birth is Create, a start Start, a deletion Drop, an     *)
(* ending End, and a step that leaves all rows alone an Exit or a stutter.   *)

(* The empty database is an initial state of the contract. *)
LEMMA ContractInitially ==
  ASSUME Init
  PROVE  Contract!ContractInit
  BY DEF Init, Contract!ContractInit, Absent, Blank

(* Every step is a step of the contract, or leaves its variables unchanged.  *)
LEMMA ContractStep ==
  ASSUME IInv, [Next]_vars
  PROVE  [Contract!ContractNext]_(Contract!contract)
  <1> DEFINE status  == [s \in Sessions |-> row[s].status]
             started == {s \in Sessions : row[s].cid}
             born    == {s \in Sessions : op[s] # "idle"}
  <1>0. row \in [Sessions -> Row] /\ op \in [Sessions -> OpenerPC]
    BY DEF IInv, TypeOK
  <1>1. CASE UNCHANGED vars
    BY <1>1 DEF vars, Contract!contract
  <1>2. CASE Quiet
    <2>1. UNCHANGED <<status, started, born>>
      BY <1>2 DEF Quiet, BirthsStay
    <2>2. CASE UNCHANGED code
      BY <2>1, <2>2 DEF Contract!contract
    <2>3. CASE code' # code
      <3>1. PICK s \in Sessions, k \in {"ok", "bad"} :
              code[s] = "none" /\ code' = [code EXCEPT ![s] = k]
        BY <1>2, <2>3 DEF Quiet, ExitCode
      <3>2. Contract!Exit(s)
        BY <2>1, <3>1 DEF Contract!Exit
      <3> QED
        BY <3>2 DEF Contract!ContractNext
    <2> QED
      BY <2>2, <2>3
  <1>3. ASSUME NEW s \in Sessions, Births(s)
        PROVE  Contract!Create(s)
    <2>1. s \notin born /\ born' = born \cup {s}
      BY <1>0, <1>3 DEF Births, OpenerPC
    <2>2. status' = [status EXCEPT ![s] = "pending"]
      BY <1>0, <1>3 DEF Births, Blank
    <2>3. row[s] = Absent
      BY <1>3 DEF Births, IInv, OpenerInv
    <2>4. started' = started
      BY <1>0, <1>3, <2>3 DEF Births, Absent, Blank
    <2> QED
      BY <1>3, <2>1, <2>2, <2>4 DEF Births, Contract!Create
  <1>4. ASSUME NEW s \in Sessions, Starts(s)
        PROVE  Contract!Start(s)
    <2>1. row[s] \in Row /\ status[s] # "absent" /\ s \notin started /\ born' = born /\ code' = code
      BY <1>0, <1>4 DEF Starts, Present, BirthsStay
    <2> DEFINE r == [row[s] EXCEPT !.status = "running", !.cid = TRUE]
    <2>2. r.status = "running" /\ r.cid
      BY <2>1 DEF Row
    <2>3. row' = [row EXCEPT ![s] = r]
      BY <1>4 DEF Starts
    <2> HIDE DEF r
    <2>4. status' = [status EXCEPT ![s] = "running"]
      BY <1>0, <2>2, <2>3
    <2>5. started' = started \cup {s}
      BY <1>0, <2>2, <2>3
    <2> QED
      BY <2>1, <2>4, <2>5 DEF Contract!Start
  <1>5. ASSUME NEW s \in Sessions, Drops(s)
        PROVE  Contract!Drop(s)
    <2>1. s \in born /\ born' = born /\ code' = code
      BY <1>5 DEF Drops, BirthsStay
    <2>2. status' = [status EXCEPT ![s] = "absent"]
      BY <1>0, <1>5 DEF Drops, Absent, Blank
    <2>3. started' = started \ {s}
      BY <1>0, <1>5 DEF Drops, Absent, Blank
    <2> QED
      BY <2>1, <2>2, <2>3 DEF Contract!Drop
  <1>6. ASSUME NEW S \in SUBSET Sessions, NEW verdict \in Terminal, Ends(S, verdict)
        PROVE  Contract!End(S, verdict)
    <2>1. /\ \A s \in S : status[s] # "absent"
          /\ verdict = "completed" => \A s \in S : code[s] = "ok"
      BY <1>6 DEF Ends, Present
    <2>2. status' = [s \in Sessions |-> IF s \in S THEN verdict ELSE status[s]]
      BY <1>6 DEF Ends
    <2>3. started' = started /\ born' = born /\ code' = code
      BY <1>6 DEF Ends, BirthsStay
    <2> QED
      BY <2>1, <2>2, <2>3 DEF Contract!End
  <1> HIDE DEF status, started, born
  <1>7. CASE Next
    BY <1>2, <1>3, <1>4, <1>5, <1>6, <1>7, StepKinds
       DEF Contract!ContractNext, Contract!Endings, Terminal
  <1> QED
    BY <1>1, <1>7

(* SessionLifecycle implements SessionContract. *)
THEOREM ContractKept == Spec => KeepsContract
  <1>1. Init => Contract!ContractInit
    BY ContractInitially
  <1>2. IInv /\ [Next]_vars => [Contract!ContractNext]_(Contract!contract)
    BY ContractStep
  <1> QED
    BY <1>1, <1>2, Invariance, PTL DEF Spec, KeepsContract, Contract!ContractSpec

=============================================================================
