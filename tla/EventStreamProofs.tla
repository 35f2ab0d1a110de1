-------------------------- MODULE EventStreamProofs --------------------------
(* Proofs about EventStream, for any number of connections, any log, any     *)
(* batch size and any number of faults, and whatever offsets clients ask     *)
(* for; and about the page, which is such a client.                          *)
(*                                                                           *)
(* Every step but the container's and a crash touches one connection, and    *)
(* LocalStep says once what it owes to the inductive invariant.              *)
EXTENDS SessionClient, TLAPS, FiniteSetTheorems

(* What an event says of the log. *)
Good(e) == /\ e \in Event
           /\ e.line \in 1..Len(log)
           /\ log[e.line] = "text"
           /\ e.id = Number(e.line)

AllGood(events) == \A e \in events : Good(e)

FramesGood(w) ==
  \A i \in 1..Len(w) : w[i].kind = "event" => Good([id |-> w[i].id, line |-> w[i].line])

(* A reader has counted right, and what it has read is in its hands or       *)
(* among the ids that are settled: stored, or dropped.  It is through with   *)
(* the log when the container is down and nothing is left of it, or when the *)
(* log was cut off.                                                          *)
ReaderOK(r, settled) ==
  /\ AllGood(r.pending) /\ AllGood(r.batch)
  /\ r.pos <= Len(log)
  /\ r.event_id = Number(r.pos)
  /\ r.pc = "flush" => r.pos >= 1 /\ log[r.pos] = "text"
  /\ \A i \in 1..r.pos : log[i] = "text" =>
       Number(i) \in Ids(r.pending) \cup Ids(r.batch) \cup settled
  /\ r.pc \in {"last", "final", "judge", "write"} /\ ~r.cut =>
       ~up /\ BlankBetween(r.pos, Len(log) + 1)
  /\ r.pc \notin {"flush", "pause"} => r.batch = {}
  /\ r.pc \in {"final", "judge", "write"} => r.pending = {}

SInv ==
  /\ TypeOK
  /\ AllGood(stored)
  /\ \A events \in loose : AllGood(events)
  /\ \A c \in Conns : FramesGood(wire[c])
  /\ \A c \in Conns : ReaderOK(conn[c], Ids(stored) \cup dropped)

-----------------------------------------------------------------------------
(* Numbers *)

LEMMA TextLinesFinite ==
  ASSUME NEW l, NEW n \in Nat
  PROVE  /\ IsFiniteSet(TextLines(l, n))
         /\ Cardinality(TextLines(l, n)) \in Nat
<1>1. IsFiniteSet(1..n)
  BY FS_Interval
<1>2. TextLines(l, n) \subseteq 1..n
  BY DEF TextLines
<1> QED BY <1>1, <1>2, FS_Subset, FS_CardinalityType

LEMMA NumberNat == \A n \in Nat : Number(n) \in Nat
BY TextLinesFinite DEF Number

LEMMA NumberZero == Number(0) = 0
<1>1. TextLines(log, 0) = {}
  BY DEF TextLines
<1> QED BY <1>1, FS_EmptySet DEF Number

(* The next line that is numbered has the next number. *)
LEMMA NextNumber ==
  ASSUME NEW p \in Nat, NEW line \in Nat, p < line,
         log[line] = "text", BlankBetween(p, line)
  PROVE  Number(line) = Number(p) + 1
<1>1. TextLines(log, line) = TextLines(log, p) \cup {line}
  <2>1. ASSUME NEW i \in TextLines(log, line), i # line PROVE i \in TextLines(log, p)
    <3>1. /\ i \in 1..line
          /\ log[i] = "text"
      BY <2>1 DEF TextLines
    <3>2. i \notin p + 1..line - 1
      BY <3>1 DEF BlankBetween
    <3> QED BY <2>1, <3>1, <3>2 DEF TextLines
  <2>2. TextLines(log, p) \cup {line} \subseteq TextLines(log, line)
    BY DEF TextLines
  <2> QED BY <2>1, <2>2
<1>2. line \notin TextLines(log, p)
  BY DEF TextLines
<1> QED BY <1>1, <1>2, TextLinesFinite, FS_AddElement DEF Number

(* A later line that is numbered has a greater number. *)
LEMMA NumberGrows ==
  ASSUME NEW i \in Nat, NEW j \in Nat, i < j, log[j] = "text"
  PROVE  Number(i) < Number(j)
<1>1. TextLines(log, i) \subseteq TextLines(log, j)
  BY DEF TextLines
<1>2. /\ j \in TextLines(log, j)
      /\ j \notin TextLines(log, i)
  BY DEF TextLines
<1>3. Cardinality(TextLines(log, i)) # Cardinality(TextLines(log, j))
  BY <1>1, <1>2, TextLinesFinite, FS_Subset
<1>4. Cardinality(TextLines(log, i)) <= Cardinality(TextLines(log, j))
  BY <1>1, TextLinesFinite, FS_Subset
<1> QED BY <1>3, <1>4, TextLinesFinite DEF Number

(* The log grows at its end: what was numbered keeps its number. *)
LEMMA NumberStays ==
  ASSUME log \in Seq(Lines), NEW k, log' = Append(log, k), NEW n \in 0..Len(log)
  PROVE  Number(n)' = Number(n)
<1>1. \A i \in 1..n : log'[i] = log[i]
  OBVIOUS
<1>2. TextLines(log', n) = TextLines(log, n)
  BY <1>1 DEF TextLines
<1> QED BY <1>2 DEF Number

LEMMA GoodStays ==
  ASSUME log \in Seq(Lines), NEW k \in Lines, log' = Append(log, k), NEW e, Good(e)
  PROVE  Good(e)'
<1>1. Number(e.line)' = Number(e.line)
  BY NumberStays DEF Good
<1>2. /\ e.line \in 1..Len(log')
      /\ log'[e.line] = log[e.line]
  BY DEF Good
<1> QED BY <1>1, <1>2 DEF Good, Number

-----------------------------------------------------------------------------
(* Steps *)

LEMMA ReadersOK ==
  ASSUME NEW live \in BOOLEAN, NEW offset \in Nat, NEW settled
  PROVE  /\ ReaderOK(Reader(live, offset), settled)
         /\ Reader(live, offset) \in Conn
         /\ ReaderOK(Idle, settled)
         /\ Idle \in Conn
<1>1. Idle \in Conn /\ ReaderOK(Idle, settled)
  BY NumberZero DEF ReaderOK, AllGood, Idle, Conn, ConnPC
<1>2. Reader(live, offset) \in Conn
  BY <1>1 DEF Reader, Conn, ConnPC
<1>3. LET r == Reader(live, offset)
      IN  r.pc = "open" /\ r.pos = 0 /\ r.event_id = 0 /\ r.pending = {} /\ r.batch = {}
  BY DEF Reader, Idle
<1>4. ReaderOK(Reader(live, offset), settled)
  BY <1>3, NumberZero DEF ReaderOK, AllGood
<1> QED BY <1>1, <1>2, <1>4

(* More may settle; a reader minds nothing else. *)
LEMMA ReaderKept ==
  ASSUME NEW r, NEW S, NEW T, ReaderOK(r, S), S \subseteq T
  PROVE  ReaderOK(r, T)
BY DEF ReaderOK

(* A step that leaves the log alone, and touches at most connection c. *)
LEMMA LocalStep ==
  ASSUME SInv, NEW c \in Conns, NEW r \in Conn, NEW w \in Seq(Frame),
         conn' = [conn EXCEPT ![c] = r],
         wire' = [wire EXCEPT ![c] = w],
         UNCHANGED log, up' \in BOOLEAN, up' => up, gone' \in BOOLEAN, begun' \in BOOLEAN,
         stored' \in SUBSET Event, stored \subseteq stored', AllGood(stored'),
         loose' \in SUBSET (SUBSET Event), \A events \in loose' : AllGood(events),
         dropped' \in SUBSET Nat, dropped \subseteq dropped',
         over' \in BOOLEAN, faults' \in 0..MaxFaults,
         ReaderOK(r, Ids(stored') \cup dropped'),
         FramesGood(w)
  PROVE  SInv'
<1>1. TypeOK'
  BY DEF SInv, TypeOK
<1>2. AllGood(stored)' /\ (\A events \in loose : AllGood(events))'
  BY DEF AllGood, Good, Number
<1>3. ASSUME NEW b \in Conns PROVE FramesGood(wire[b])'
  <2>1. FramesGood(wire'[b])
    BY DEF SInv, TypeOK
  <2> QED BY <2>1 DEF FramesGood, Good, Number
<1>4. ASSUME NEW b \in Conns PROVE ReaderOK(conn[b], Ids(stored) \cup dropped)'
  <2>1. Ids(stored) \cup dropped \subseteq Ids(stored') \cup dropped'
    BY DEF Ids
  <2>2. ReaderOK(conn'[b], Ids(stored') \cup dropped')
    BY <2>1, ReaderKept DEF SInv, TypeOK
  <2> QED BY <2>2 DEF ReaderOK, AllGood, Good, Number, BlankBetween, Ids
<1> QED BY <1>1, <1>2, <1>3, <1>4 DEF SInv

(* What is sent, and what is received. *)
LEMMA SendGood ==
  ASSUME NEW w \in Seq(Frame), FramesGood(w), NEW f \in Frame,
         f.kind = "event" => Good([id |-> f.id, line |-> f.line])
  PROVE  /\ w \o <<f>> \in Seq(Frame)
         /\ FramesGood(w \o <<f>>)
<1>1. /\ w \o <<f>> \in Seq(Frame)
      /\ Len(w \o <<f>>) = Len(w) + 1
      /\ \A i \in 1..Len(w) : (w \o <<f>>)[i] = w[i]
      /\ (w \o <<f>>)[Len(w) + 1] = f
  OBVIOUS
<1>2. \A i \in 1..Len(w) + 1 : i \in 1..Len(w) \/ i = Len(w) + 1
  OBVIOUS
<1> QED BY <1>1, <1>2 DEF FramesGood

LEMMA NothingSent ==
  ASSUME NEW w \in Seq(Frame), FramesGood(w)
  PROVE  /\ w \o <<>> = w
         /\ FramesGood(<<>>)
         /\ <<>> \in Seq(Frame)
BY DEF FramesGood

LEMMA OutputGood ==
  ASSUME NEW w \in Seq(Frame), FramesGood(w), NEW c, NEW e, Good(e)
  PROVE  /\ w \o Output(c, e) \in Seq(Frame)
         /\ FramesGood(w \o Output(c, e))
<1>1. /\ EventFrame(e) \in Frame
      /\ EventFrame(e).id = e.id
      /\ EventFrame(e).line = e.line
  BY DEF EventFrame, Frame, Good, Event
<1>2. [id |-> EventFrame(e).id, line |-> EventFrame(e).line] = e
  BY <1>1 DEF Good, Event
<1>3. Output(c, e) \in {<<EventFrame(e)>>, <<>>}
  BY DEF Output
<1> QED BY <1>1, <1>2, <1>3, SendGood, NothingSent

LEMMA NoticeGood ==
  ASSUME NEW w \in Seq(Frame), FramesGood(w), NEW k \in {"done", "error"}
  PROVE  /\ w \o <<Notice(k)>> \in Seq(Frame)
         /\ FramesGood(w \o <<Notice(k)>>)
<1>1. Notice(k) \in Frame /\ Notice(k).kind # "event"
  BY DEF Notice, Frame
<1> QED BY <1>1, SendGood

(* An insertion keeps what is stored, and what it concerns is settled. *)
LEMMA PersistGood ==
  ASSUME SInv, NEW b, AllGood(b), Persist(b)
  PROVE  /\ stored' \in SUBSET Event /\ stored \subseteq stored' /\ AllGood(stored')
         /\ dropped' \in SUBSET Nat /\ dropped \subseteq dropped'
         /\ faults' \in 0..MaxFaults
         /\ Ids(b) \subseteq Ids(stored') \cup dropped'
<1>1. b \subseteq Event /\ Ids(b) \subseteq Nat
  BY DEF AllGood, Good, Ids, Event
<1>2. faults' \in 0..MaxFaults
  BY StreamAssumption DEF Persist, Fault, NoFault, SInv, TypeOK
<1>3. Ids(b) \subseteq Ids(Insert(b))
  BY DEF Insert, Ids
<1>4. AllGood(Insert(b)) /\ stored \subseteq Insert(b) /\ Insert(b) \subseteq Event
  BY <1>1 DEF Insert, AllGood, SInv, TypeOK
<1> QED BY <1>1, <1>2, <1>3, <1>4 DEF Persist, SInv, TypeOK, NoFault, Fault

(* What is known of a connection before a step. *)
LEMMA Before ==
  ASSUME SInv, NEW c \in Conns
  PROVE  /\ conn[c] \in Conn /\ ReaderOK(conn[c], Ids(stored) \cup dropped)
         /\ wire[c] \in Seq(Frame) /\ FramesGood(wire[c])
         /\ stored \in SUBSET Event /\ AllGood(stored)
         /\ loose \in SUBSET (SUBSET Event) /\ \A events \in loose : AllGood(events)
         /\ dropped \in SUBSET Nat /\ over \in BOOLEAN /\ faults \in 0..MaxFaults
         /\ up \in BOOLEAN /\ gone \in BOOLEAN /\ begun \in BOOLEAN
         /\ conn[c].pos \in Nat /\ conn[c].event_id \in Nat
         /\ log \in Seq(Lines)
         /\ wire = [wire EXCEPT ![c] = wire[c]]
         /\ conn = [conn EXCEPT ![c] = conn[c]]
BY DEF SInv, TypeOK, Conn

LEMMA ConnectStep ==
  ASSUME SInv, NEW c \in Conns, NEW offset \in Nat, Connect(c, offset)
  PROVE  SInv'
BY Before, ReadersOK, LocalStep DEF Connect, Step

LEMMA TakeLineStep ==
  ASSUME SInv, NEW c \in Conns, NEW line \in 1..Len(log), TakeLine(c, line)
  PROVE  SInv'
<1> DEFINE e == [id |-> conn[c].event_id + 1, line |-> line]
           r == Numbered(c, e)
           f == [r EXCEPT !.pc = "flush", !.batch = r.pending, !.pending = {}]
<1>0. /\ conn[c].pc = "read"
      /\ conn[c].pos < line
      /\ log[line] = "text"
      /\ BlankBetween(conn[c].pos, line)
      /\ UNCHANGED <<log, up, gone, begun, stored, loose, over, dropped, faults>>
      /\ (\/ Step(c, r) /\ Send(c, Output(c, e))
          \/ Step(c, f) /\ UNCHANGED wire)
  BY DEF TakeLine
<1>1. Number(line) = conn[c].event_id + 1
  BY <1>0, Before, NextNumber DEF ReaderOK
<1>2. Good(e)
  BY <1>0, <1>1, Before DEF Good, Event
<1>3. /\ r.pc = "read" /\ r.pos = line /\ r.event_id = Number(line)
      /\ r.pending = conn[c].pending \cup {e} /\ r.batch = {}
      /\ r \in Conn
  <2>1. /\ conn[c] \in Conn /\ conn[c].batch = {}
        /\ e.id \in Nat /\ e.line \in Nat /\ e \in Event
    BY <1>0, <1>2, Before DEF ReaderOK, Good, Event
  <2>2. /\ r.pc = conn[c].pc /\ r.pos = e.line /\ r.event_id = e.id
        /\ r.pending = conn[c].pending \cup {e} /\ r.batch = conn[c].batch
    BY <2>1 DEF Numbered, Conn
  <2>3. r \in Conn
    BY <2>1, <2>2 DEF Numbered, Conn
  <2> QED BY <1>0, <1>1, <2>1, <2>2, <2>3
<1>4. /\ f.pc = "flush" /\ f.pos = line /\ f.event_id = Number(line)
      /\ f.pending = {} /\ f.batch = r.pending
      /\ f \in Conn
  BY <1>3 DEF Conn, ConnPC
<1>5. AllGood(r.pending)
  BY <1>2, <1>3, Before DEF AllGood, ReaderOK
<1>6. ASSUME NEW i \in 1..line, log[i] = "text"
      PROVE  Number(i) \in Ids(r.pending) \cup Ids(stored) \cup dropped
  <2>1. i \in 1..conn[c].pos \/ i = line
    BY <1>0, <1>6, Before DEF BlankBetween
  <2>2. Number(line) \in Ids(r.pending)
    BY <1>1, <1>3 DEF Ids
  <2>3. Ids(conn[c].batch) = {}
    BY <1>0, Before DEF ReaderOK, Ids
  <2>4. Ids(conn[c].pending) \subseteq Ids(r.pending)
    BY <1>3 DEF Ids
  <2> QED BY <1>6, <2>1, <2>2, <2>3, <2>4, Before DEF ReaderOK
<1>7. Ids({}) = {}
  BY DEF Ids
<1>8. ReaderOK(r, Ids(stored) \cup dropped)
  BY <1>3, <1>5, <1>6, <1>7 DEF ReaderOK, AllGood
<1>9. ReaderOK(f, Ids(stored) \cup dropped)
  BY <1>0, <1>3, <1>4, <1>5, <1>6, <1>7 DEF ReaderOK, AllGood
<1>10. /\ wire[c] \o Output(c, e) \in Seq(Frame)
       /\ FramesGood(wire[c] \o Output(c, e))
  BY <1>2, Before, OutputGood
<1> HIDE DEF r, f, e
<1>11. CASE Step(c, r) /\ Send(c, Output(c, e))
  BY <1>0, <1>3, <1>8, <1>10, <1>11, Before, LocalStep DEF Step, Send
<1>12. CASE Step(c, f) /\ UNCHANGED wire
  BY <1>0, <1>4, <1>9, <1>12, Before, LocalStep DEF Step
<1> QED BY <1>0, <1>11, <1>12

(* A connection that takes its pending lines into a batch, or settles them. *)
LEMMA KeepaliveStep ==
  ASSUME SInv, NEW c \in Conns, Keepalive(c)
  PROVE  SInv'
<1> DEFINE r == [conn[c] EXCEPT !.pc = "pause", !.batch = conn[c].pending, !.pending = {}]
<1>1. /\ r \in Conn /\ r.pc = "pause" /\ r.batch = conn[c].pending /\ r.pending = {}
      /\ r.pos = conn[c].pos /\ r.event_id = conn[c].event_id
  BY Before DEF Conn, ConnPC
<1>2. conn[c].pc = "read" /\ conn[c].batch = {}
  BY Before DEF Keepalive, ReaderOK
<1>3. ReaderOK(r, Ids(stored) \cup dropped)
  BY <1>1, <1>2, Before DEF ReaderOK, AllGood
<1>5. conn' = [conn EXCEPT ![c] = r] /\ UNCHANGED <<log, up, gone, begun, wire, stored, loose, over, dropped, faults>>
  BY DEF Keepalive, Step
<1> HIDE DEF r
<1> QED BY <1>1, <1>3, <1>5, Before, LocalStep

LEMMA FlushStep ==
  ASSUME SInv, NEW c \in Conns, Flush(c)
  PROVE  SInv'
<1> DEFINE r == [conn[c] EXCEPT !.pc = "read", !.batch = {}]
           e == [id |-> conn[c].event_id, line |-> conn[c].pos]
<1>0. /\ conn[c].pc \in {"flush", "pause"}
      /\ Persist(conn[c].batch)
      /\ Step(c, r)
      /\ UNCHANGED <<log, up, gone, begun, loose, over>>
      /\ (\/ conn[c].pc = "flush" /\ Send(c, Output(c, e))
          \/ UNCHANGED wire)
  BY DEF Flush
<1>1. /\ r \in Conn /\ r.pc = "read" /\ r.batch = {} /\ r.pending = conn[c].pending
      /\ r.pos = conn[c].pos /\ r.event_id = conn[c].event_id
  BY Before DEF Conn, ConnPC
<1>2. ReaderOK(conn[c], Ids(stored) \cup dropped) /\ AllGood(conn[c].batch)
  BY Before DEF ReaderOK
<1>3. /\ stored' \in SUBSET Event /\ stored \subseteq stored' /\ AllGood(stored')
      /\ dropped' \in SUBSET Nat /\ dropped \subseteq dropped'
      /\ faults' \in 0..MaxFaults
      /\ Ids(conn[c].batch) \subseteq Ids(stored') \cup dropped'
  BY <1>0, <1>2, PersistGood
<1>4. ReaderOK(r, Ids(stored') \cup dropped')
  <2>1. Ids(stored) \subseteq Ids(stored') /\ Ids({}) = {}
    BY <1>3 DEF Ids
  <2> QED BY <1>1, <1>2, <1>3, <2>1 DEF ReaderOK, AllGood
<1>5. CASE conn[c].pc = "flush" /\ Send(c, Output(c, e))
  <2>1. Good(e)
    BY <1>2, <1>5, Before DEF ReaderOK, Good, Event
  <2>2. /\ wire[c] \o Output(c, e) \in Seq(Frame)
        /\ FramesGood(wire[c] \o Output(c, e))
    BY <2>1, Before, OutputGood
  <2> HIDE DEF r, e
  <2> QED BY <1>0, <1>1, <1>3, <1>4, <1>5, <2>2, Before, LocalStep DEF Step, Send
<1> HIDE DEF r, e
<1>6. CASE UNCHANGED wire
  BY <1>0, <1>1, <1>3, <1>4, <1>6, Before, LocalStep DEF Step
<1> QED BY <1>0, <1>5, <1>6

LEMMA LogEndsStep ==
  ASSUME SInv, NEW c \in Conns, LogEnds(c)
  PROVE  SInv'
<1> DEFINE r == [conn[c] EXCEPT !.pc = "last"]
<1>1. /\ r \in Conn /\ r.pc = "last" /\ r.batch = conn[c].batch /\ r.pending = conn[c].pending
      /\ r.pos = conn[c].pos /\ r.event_id = conn[c].event_id
  BY Before DEF Conn, ConnPC
<1>2. /\ conn[c].pc = "read" /\ ~up /\ BlankBetween(conn[c].pos, Len(log) + 1)
  BY DEF LogEnds, CaughtUp
<1>3. ReaderOK(r, Ids(stored) \cup dropped)
  BY <1>1, <1>2, Before DEF ReaderOK
<1>5. conn' = [conn EXCEPT ![c] = r] /\ UNCHANGED <<log, up, gone, begun, wire, stored, loose, over, dropped, faults>>
  BY DEF LogEnds, Step
<1> HIDE DEF r
<1> QED BY <1>1, <1>3, <1>5, Before, LocalStep

(* A log that is cut off owes nothing about what comes after. *)
LEMMA LogCutStep ==
  ASSUME SInv, NEW c \in Conns, LogCut(c)
  PROVE  SInv'
<1> DEFINE r == [conn[c] EXCEPT !.pc = "last", !.cut = TRUE]
<1>1. /\ r \in Conn /\ r.pc = "last" /\ r.cut /\ r.batch = conn[c].batch
      /\ r.pending = conn[c].pending /\ r.pos = conn[c].pos /\ r.event_id = conn[c].event_id
  BY Before DEF Conn, ConnPC
<1>2. conn[c].pc = "read"
  BY DEF LogCut
<1>3. ReaderOK(r, Ids(stored) \cup dropped)
  BY <1>1, <1>2, Before DEF ReaderOK
<1>4. faults' \in 0..MaxFaults
  BY StreamAssumption, Before DEF LogCut, Fault, NoFault
<1>5. /\ conn' = [conn EXCEPT ![c] = r]
      /\ UNCHANGED <<log, up, gone, begun, wire, stored, loose, over, dropped>>
  BY DEF LogCut, Step
<1> HIDE DEF r
<1> QED BY <1>1, <1>3, <1>4, <1>5, Before, LocalStep

LEMMA LastFlushStep ==
  ASSUME SInv, NEW c \in Conns, LastFlush(c)
  PROVE  SInv'
<1> DEFINE r == [conn[c] EXCEPT !.pc = "final", !.pending = {}]
<1>1. /\ r \in Conn /\ r.pc = "final" /\ r.batch = conn[c].batch /\ r.pending = {}
      /\ r.cut = conn[c].cut /\ r.pos = conn[c].pos /\ r.event_id = conn[c].event_id
  BY Before DEF Conn, ConnPC
<1>2. /\ ReaderOK(conn[c], Ids(stored) \cup dropped) /\ AllGood(conn[c].pending)
      /\ conn[c].pc = "last"
  BY Before DEF ReaderOK, LastFlush
<1>3. /\ stored' \in SUBSET Event /\ stored \subseteq stored' /\ AllGood(stored')
      /\ dropped' \in SUBSET Nat /\ dropped \subseteq dropped'
      /\ faults' \in 0..MaxFaults
      /\ Ids(conn[c].pending) \subseteq Ids(stored') \cup dropped'
  BY <1>2, PersistGood DEF LastFlush
<1>4. ReaderOK(r, Ids(stored') \cup dropped')
  <2>1. Ids(stored) \subseteq Ids(stored') /\ Ids({}) = {}
    BY <1>3 DEF Ids
  <2> QED BY <1>1, <1>2, <1>3, <2>1 DEF ReaderOK, AllGood
<1>5. conn' = [conn EXCEPT ![c] = r] /\ UNCHANGED <<log, up, gone, begun, wire, loose, over>>
  BY DEF LastFlush, Step
<1> HIDE DEF r
<1> QED BY <1>1, <1>3, <1>4, <1>5, Before, LocalStep

LEMMA FinalReadStep ==
  ASSUME SInv, NEW c \in Conns, FinalRead(c)
  PROVE  SInv'
<1> DEFINE r == [conn[c] EXCEPT !.pc = "judge"]
<1>1. CASE over
  <2>1. /\ wire[c] \o <<Notice("done")>> \in Seq(Frame)
        /\ FramesGood(wire[c] \o <<Notice("done")>>)
        /\ wire[c] \o <<>> = wire[c]
    BY Before, NoticeGood, NothingSent
  <2>2. Idle \in Conn /\ ReaderOK(Idle, Ids(stored) \cup dropped)
    BY ReadersOK
  <2>3. /\ conn' = [conn EXCEPT ![c] = Idle]
        /\ UNCHANGED <<log, up, gone, begun, stored, loose, over, dropped, faults>>
        /\ (\/ wire' = [wire EXCEPT ![c] = wire[c] \o <<Notice("done")>>]
            \/ wire' = [wire EXCEPT ![c] = wire[c] \o <<>>])
    BY <1>1 DEF FinalRead, Step, Send
  <2> QED BY <2>1, <2>2, <2>3, Before, LocalStep
<1>2. CASE ~over
  <2>1. /\ r \in Conn /\ r.pc = "judge" /\ r.batch = conn[c].batch /\ r.pending = conn[c].pending
        /\ r.cut = conn[c].cut /\ r.pos = conn[c].pos /\ r.event_id = conn[c].event_id
    BY Before DEF Conn, ConnPC
  <2>2. conn[c].pc = "final"
    BY DEF FinalRead
  <2>3. ReaderOK(r, Ids(stored) \cup dropped)
    BY <2>1, <2>2, Before DEF ReaderOK
  <2>4. /\ conn' = [conn EXCEPT ![c] = r]
        /\ UNCHANGED <<log, up, gone, begun, wire, stored, loose, over, dropped, faults>>
    BY <1>2 DEF FinalRead, Step
  <2> HIDE DEF r
  <2> QED BY <2>1, <2>3, <2>4, Before, LocalStep
<1> QED BY <1>1, <1>2

(* The container is removed: whoever reads a log, nothing is added to it.     *)
LEMMA FinalRemoveStep ==
  ASSUME SInv, NEW c \in Conns, FinalRemove(c)
  PROVE  SInv'
<1> DEFINE r == [conn[c] EXCEPT !.pc = "write"]
<1>1. /\ r \in Conn /\ r.pc = "write" /\ r.batch = conn[c].batch /\ r.pending = conn[c].pending
      /\ r.cut = conn[c].cut /\ r.pos = conn[c].pos /\ r.event_id = conn[c].event_id
  BY Before DEF Conn, ConnPC
<1>2. conn[c].pc = "judge"
  BY DEF FinalRemove
<1>3. ReaderOK(r, Ids(stored) \cup dropped)
  BY <1>1, <1>2, Before DEF ReaderOK
<1>4. faults' \in 0..MaxFaults /\ up' \in BOOLEAN /\ (up' => up) /\ gone' \in BOOLEAN
  <2>1. faults' \in 0..MaxFaults
    BY StreamAssumption, Before DEF FinalRemove, Fault, NoFault
  <2>2. up \in BOOLEAN /\ gone \in BOOLEAN
    BY Before
  <2>3. CASE gone' = TRUE /\ up' = FALSE
    BY <2>1, <2>3
  <2>4. CASE UNCHANGED <<gone, up>>
    BY <2>1, <2>2, <2>4
  <2> QED BY <2>3, <2>4 DEF FinalRemove
<1>5. /\ conn' = [conn EXCEPT ![c] = r]
      /\ UNCHANGED <<log, begun, wire, stored, loose, over, dropped>>
  BY DEF FinalRemove, Step
<1> HIDE DEF r
<1> QED BY <1>1, <1>3, <1>4, <1>5, Before, LocalStep

(* A connection that is through with the log, whatever it told its client. *)
LEMMA DoneStep ==
  ASSUME SInv, NEW c \in Conns, FinalFails(c) \/ FinalWrite(c)
  PROVE  SInv'
<1>1. /\ wire[c] \o <<Notice("done")>> \in Seq(Frame)
      /\ FramesGood(wire[c] \o <<Notice("done")>>)
      /\ wire[c] \o <<>> = wire[c]
  BY Before, NoticeGood, NothingSent
<1>2. Idle \in Conn /\ ReaderOK(Idle, Ids(stored) \cup dropped)
  BY ReadersOK
<1>3. /\ conn' = [conn EXCEPT ![c] = Idle]
      /\ UNCHANGED <<log, up, gone, begun, stored, loose, dropped>>
  BY DEF FinalFails, FinalWrite, Step
<1>4. \/ wire' = [wire EXCEPT ![c] = wire[c] \o <<Notice("done")>>]
      \/ wire' = [wire EXCEPT ![c] = wire[c] \o <<>>]
  BY DEF FinalFails, FinalWrite, Send
<1>5. over' \in BOOLEAN
  BY Before DEF FinalFails, FinalWrite
<1>6. faults' \in 0..MaxFaults
  BY StreamAssumption, Before DEF FinalFails, FinalWrite, Fault, NoFault
<1> QED BY <1>1, <1>2, <1>3, <1>4, <1>5, <1>6, Before, LocalStep

(* What a connection hands over when it goes. *)
LEMMA DetachGood ==
  ASSUME SInv, NEW c \in Conns, Detach(conn[c].pending)
  PROVE  loose' \in SUBSET (SUBSET Event) /\ \A events \in loose' : AllGood(events)
<1>1. AllGood(conn[c].pending) /\ conn[c].pending \subseteq Event
  BY Before DEF ReaderOK, Conn
<1> QED BY <1>1, Before DEF Detach

LEMMA HangupStep ==
  ASSUME SInv, NEW c \in Conns, Hangup(c), Fault \/ NoFault
  PROVE  SInv'
<1>0. faults' \in 0..MaxFaults
  BY StreamAssumption, Before DEF Fault, NoFault
<1>1. /\ wire' = [wire EXCEPT ![c] = <<>>]
      /\ UNCHANGED <<log, up, gone, begun, over, dropped>>
  BY DEF Hangup
<1>2. CASE conn[c].live
  <2>1. /\ stored' \in {stored, Insert(conn[c].batch)}
        /\ Detach(conn[c].pending)
        /\ conn' = [conn EXCEPT ![c] = Reader(FALSE, 0)]
    BY <1>2 DEF Hangup, Leave, Step
  <2>2. stored' \in SUBSET Event /\ stored \subseteq stored' /\ AllGood(stored')
    <3>1. AllGood(conn[c].batch) /\ conn[c].batch \subseteq Event
      BY Before DEF ReaderOK, Conn
    <3> QED BY <2>1, <3>1, Before DEF Insert, AllGood
  <2>3. loose' \in SUBSET (SUBSET Event) /\ \A events \in loose' : AllGood(events)
    BY <2>1, DetachGood
  <2>4. /\ Reader(FALSE, 0) \in Conn
        /\ ReaderOK(Reader(FALSE, 0), Ids(stored') \cup dropped')
    BY ReadersOK
  <2> QED BY <1>0, <1>1, <2>1, <2>2, <2>3, <2>4, Before, NothingSent, LocalStep
<1>3. CASE ~conn[c].live
  <2>1. UNCHANGED <<conn, stored, loose>>
    BY <1>3 DEF Hangup
  <2> QED BY <1>0, <1>1, <2>1, Before, NothingSent, LocalStep
<1> QED BY <1>2, <1>3

(* The log raises, when it is asked for or later. *)
LEMMA RaisesStep ==
  ASSUME SInv, NEW c \in Conns, Raises(c), Fault \/ NoFault,
         UNCHANGED <<log, up, gone, begun, stored, over, dropped>>
  PROVE  SInv'
<1>0. faults' \in 0..MaxFaults /\ Detach(conn[c].pending)
  <2>1. faults' \in 0..MaxFaults
    BY StreamAssumption, Before DEF Fault, NoFault
  <2>2. Detach(conn[c].pending)
    BY DEF Raises, Leave
  <2> QED BY <2>1, <2>2
<1>1. loose' \in SUBSET (SUBSET Event) /\ \A events \in loose' : AllGood(events)
  BY <1>0, DetachGood
<1>2. /\ Reader(FALSE, 0) \in Conn /\ Idle \in Conn
      /\ ReaderOK(Reader(FALSE, 0), Ids(stored') \cup dropped')
      /\ ReaderOK(Idle, Ids(stored') \cup dropped')
  BY ReadersOK
<1>3. /\ wire[c] \o <<Notice("error")>> \in Seq(Frame)
      /\ FramesGood(wire[c] \o <<Notice("error")>>)
  BY Before, NoticeGood
<1>4. \/ /\ conn' = [conn EXCEPT ![c] = Reader(FALSE, 0)]
         /\ wire' = [wire EXCEPT ![c] = wire[c] \o <<Notice("error")>>]
      \/ conn' = [conn EXCEPT ![c] = Idle] /\ UNCHANGED wire
  BY DEF Raises, Leave, Step, Send
<1> QED BY <1>0, <1>1, <1>2, <1>3, <1>4, Before, LocalStep

LEMMA StreamBreaksStep ==
  ASSUME SInv, NEW c \in Conns, StreamBreaks(c)
  PROVE  SInv'
BY RaisesStep DEF StreamBreaks

LEMMA OpenLogStep ==
  ASSUME SInv, NEW c \in Conns, OpenLog(c)
  PROVE  SInv'
<1>1. CASE Raises(c)
  BY <1>1, RaisesStep DEF OpenLog, NoFault
<1>2. CASE Step(c, [conn[c] EXCEPT !.pc = "read"]) /\ UNCHANGED <<wire, loose>>
  <2> DEFINE r == [conn[c] EXCEPT !.pc = "read"]
  <2>1. /\ r \in Conn /\ r.pc = "read" /\ r.batch = conn[c].batch /\ r.pending = conn[c].pending
        /\ r.pos = conn[c].pos /\ r.event_id = conn[c].event_id
    BY Before DEF Conn, ConnPC
  <2>2. conn[c].pc = "open"
    BY DEF OpenLog
  <2>3. ReaderOK(r, Ids(stored) \cup dropped)
    BY <2>1, <2>2, Before DEF ReaderOK
  <2>4. /\ conn' = [conn EXCEPT ![c] = r]
        /\ UNCHANGED <<log, up, gone, begun, wire, stored, loose, over, dropped, faults>>
    BY <1>2 DEF OpenLog, Step
  <2> HIDE DEF r
  <2> QED BY <2>1, <2>3, <2>4, Before, LocalStep
<1> QED BY <1>1, <1>2 DEF OpenLog

LEMMA ReceiveStep ==
  ASSUME SInv, NEW c \in Conns, Receive(c)
  PROVE  SInv'
<1>1. /\ wire[c] # <<>> /\ wire' = [wire EXCEPT ![c] = Tail(wire[c])]
      /\ UNCHANGED <<log, up, gone, begun, conn, stored, loose, over, dropped, faults>>
  BY DEF Receive
<1>2. /\ Tail(wire[c]) \in Seq(Frame)
      /\ Len(Tail(wire[c])) = Len(wire[c]) - 1
      /\ \A i \in 1..Len(Tail(wire[c])) : Tail(wire[c])[i] = wire[c][i + 1]
  <2> DEFINE w == wire[c]
  <2>1. w \in Seq(Frame) /\ w # <<>>
    BY <1>1, Before
  <2> HIDE DEF w
  <2>2. /\ Tail(w) \in Seq(Frame)
        /\ Len(Tail(w)) = Len(w) - 1
        /\ \A i \in 1..Len(Tail(w)) : Tail(w)[i] = w[i + 1]
    BY <2>1
  <2> QED BY <2>2 DEF w
<1>3. FramesGood(Tail(wire[c]))
  <2> DEFINE w == wire[c]
             v == Tail(wire[c])
  <2>1. /\ FramesGood(w) /\ Len(w) \in Nat /\ Len(v) = Len(w) - 1
        /\ \A i \in 1..Len(v) : v[i] = w[i + 1]
    BY <1>2, Before
  <2> HIDE DEF w, v
  <2>2. \A i \in 1..Len(v) : i + 1 \in 1..Len(w)
    BY <2>1
  <2>3. FramesGood(v)
    BY <2>1, <2>2 DEF FramesGood
  <2> QED BY <2>3 DEF v
<1> QED BY <1>1, <1>2, <1>3, Before, LocalStep

LEMMA LooseFlushStep ==
  ASSUME SInv, NEW events \in loose, LooseFlush(events)
  PROVE  SInv'
<1>1. /\ Persist(events) /\ loose' = loose \ {events}
      /\ UNCHANGED <<log, up, gone, begun, conn, wire, over>>
  BY DEF LooseFlush
<1>2. AllGood(events)
  BY DEF SInv
<1>3. /\ stored' \in SUBSET Event /\ stored \subseteq stored' /\ AllGood(stored')
      /\ dropped' \in SUBSET Nat /\ dropped \subseteq dropped'
      /\ faults' \in 0..MaxFaults
  BY <1>1, <1>2, PersistGood
<1>4. TypeOK'
  BY <1>1, <1>3 DEF SInv, TypeOK
<1>5. AllGood(stored)' /\ (\A b \in loose : AllGood(b))' /\ (\A c \in Conns : FramesGood(wire[c]))'
  BY <1>1, <1>3 DEF SInv, AllGood, FramesGood, Good, Number
<1>6. ASSUME NEW c \in Conns PROVE ReaderOK(conn[c], Ids(stored) \cup dropped)'
  <2>1. Ids(stored) \cup dropped \subseteq Ids(stored') \cup dropped'
    BY <1>3 DEF Ids
  <2>2. ReaderOK(conn[c], Ids(stored') \cup dropped')
    BY <2>1, ReaderKept DEF SInv
  <2> QED BY <1>1, <2>2 DEF ReaderOK, AllGood, Good, Number, BlankBetween, Ids
<1> QED BY <1>4, <1>5, <1>6 DEF SInv

LEMMA CrashStep ==
  ASSUME SInv, Crash
  PROVE  SInv'
<1>1. /\ conn' = [c \in Conns |-> Idle] /\ wire' = [c \in Conns |-> <<>>] /\ loose' = {}
      /\ UNCHANGED <<log, up, gone, begun, stored, over, dropped>>
      /\ faults' = faults - 1 /\ faults > 0
  BY DEF Crash, Fault
<1>2. Idle \in Conn /\ ReaderOK(Idle, Ids(stored) \cup dropped)
  BY ReadersOK
<1>3. TypeOK'
  BY <1>1, <1>2, StreamAssumption DEF SInv, TypeOK
<1>4. AllGood(stored)' /\ (\A b \in loose : AllGood(b))' /\ (\A c \in Conns : FramesGood(wire[c]))'
  BY <1>1 DEF SInv, AllGood, FramesGood, Good, Number
<1>5. ASSUME NEW c \in Conns PROVE ReaderOK(conn[c], Ids(stored) \cup dropped)'
  BY <1>1, <1>2 DEF ReaderOK, AllGood, Good, Number, BlankBetween, Ids
<1> QED BY <1>3, <1>4, <1>5 DEF SInv

(* The log grows while the container runs: nobody has come to its end yet.   *)
LEMMA LogGrows ==
  ASSUME SInv, NEW k \in Lines, log' = Append(log, k), up, up' \in BOOLEAN,
         UNCHANGED <<gone, begun, conn, wire, stored, loose, over, dropped, faults>>
  PROVE  SInv'
<1>1. TypeOK'
  BY DEF SInv, TypeOK
<1>2. ASSUME NEW events, AllGood(events) PROVE AllGood(events)'
  BY <1>2, GoodStays, Before DEF AllGood, SInv, TypeOK
<1>3. ASSUME NEW c \in Conns PROVE FramesGood(wire[c])'
  BY GoodStays DEF FramesGood, SInv, TypeOK
<1>4. ASSUME NEW c \in Conns PROVE ReaderOK(conn[c], Ids(stored) \cup dropped)'
  <2> DEFINE r == conn[c]
  <2>1. /\ log \in Seq(Lines) /\ Len(log) \in Nat /\ Len(log') = Len(log) + 1
        /\ \A i \in 1..Len(log) : log'[i] = log[i]
    BY DEF SInv, TypeOK
  <2>2. /\ ReaderOK(r, Ids(stored) \cup dropped)
        /\ r.pos \in Nat
        /\ r' = r
    BY Before
  <2>3. AllGood(r.pending)' /\ AllGood(r.batch)'
    BY <1>2, <2>2 DEF ReaderOK, AllGood
  <2>4. \A i \in 0..Len(log) : Number(i)' = Number(i)
    BY <2>1, NumberStays
  <2>5. /\ r.pos <= Len(log)
        /\ r.pos \in 0..Len(log)
        /\ \A i \in 1..r.pos : i \in 0..Len(log) /\ i \in 1..Len(log)
    BY <2>1, <2>2 DEF ReaderOK
  <2>6. (r.event_id = Number(r.pos))'
    BY <2>2, <2>4, <2>5 DEF ReaderOK
  <2>7. r.pc \in {"last", "final", "judge", "write"} => r.cut
    BY <2>2 DEF ReaderOK
  <2>8. /\ r'.pos <= Len(log')
        /\ r'.pc = "flush" => r'.pos >= 1 /\ log'[r'.pos] = "text"
    BY <2>1, <2>2, <2>5 DEF ReaderOK
  <2>9. ASSUME NEW i \in 1..r.pos, log'[i] = "text"
        PROVE  Number(i)' \in Ids(r.pending) \cup Ids(r.batch) \cup (Ids(stored) \cup dropped)
    BY <2>1, <2>2, <2>4, <2>5, <2>9 DEF ReaderOK
  <2>10. /\ r'.pc \notin {"flush", "pause"} => r'.batch = {}
         /\ r'.pc \in {"last", "final", "judge", "write"} => r'.cut
         /\ r'.pc \in {"final", "judge", "write"} => r'.pending = {}
    BY <2>2, <2>7 DEF ReaderOK
  <2> QED BY <2>2, <2>3, <2>6, <2>8, <2>9, <2>10 DEF ReaderOK, Ids
<1> QED BY <1>1, <1>2, <1>3, <1>4 DEF SInv

LEMMA ExitStep ==
  ASSUME SInv, up' \in BOOLEAN, up' => up, gone' \in BOOLEAN, begun' \in BOOLEAN,
         over' \in BOOLEAN,
         UNCHANGED <<log, conn, wire, stored, loose, dropped, faults>>
  PROVE  SInv'
<1>1. TypeOK'
  BY DEF SInv, TypeOK
<1>2. AllGood(stored)' /\ (\A b \in loose : AllGood(b))' /\ (\A c \in Conns : FramesGood(wire[c]))'
  BY DEF SInv, AllGood, FramesGood, Good, Number
<1>3. ASSUME NEW c \in Conns PROVE ReaderOK(conn[c], Ids(stored) \cup dropped)'
  BY DEF SInv, ReaderOK, AllGood, Good, Number, BlankBetween, Ids
<1> QED BY <1>1, <1>2, <1>3 DEF SInv

LEMMA FaultStep ==
  ASSUME SInv, faults > 0, faults' = faults - 1,
         UNCHANGED <<log, up, gone, begun, conn, wire, stored, loose, over, dropped>>
  PROVE  SInv'
<1>1. TypeOK'
  BY StreamAssumption DEF SInv, TypeOK
<1>2. AllGood(stored)' /\ (\A b \in loose : AllGood(b))' /\ (\A c \in Conns : FramesGood(wire[c]))'
  BY DEF SInv, AllGood, FramesGood, Good, Number
<1>3. ASSUME NEW c \in Conns PROVE ReaderOK(conn[c], Ids(stored) \cup dropped)'
  BY DEF SInv, ReaderOK, AllGood, Good, Number, BlankBetween, Ids
<1> QED BY <1>1, <1>2, <1>3 DEF SInv

LEMMA InitInv == StreamInit => SInv
<1> SUFFICES ASSUME StreamInit PROVE SInv
  OBVIOUS
<1>1. Idle \in Conn /\ ReaderOK(Idle, Ids(stored) \cup dropped)
  BY ReadersOK
<1>2. TypeOK
  <2>1. log \in Seq(Lines) /\ wire \in [Conns -> Seq(Frame)]
    BY DEF StreamInit
  <2>2. conn \in [Conns -> Conn]
    BY <1>1 DEF StreamInit
  <2>3. up \in BOOLEAN /\ gone \in BOOLEAN /\ begun \in BOOLEAN /\ over \in BOOLEAN
    BY DEF StreamInit
  <2>4. faults \in 0..MaxFaults
    BY StreamAssumption DEF StreamInit
  <2>5. stored \in SUBSET Event /\ loose \in SUBSET (SUBSET Event) /\ dropped \in SUBSET Nat
    BY DEF StreamInit
  <2> QED BY <2>1, <2>2, <2>3, <2>4, <2>5 DEF TypeOK
<1>3. AllGood(stored) /\ (\A events \in loose : AllGood(events)) /\ (\A c \in Conns : FramesGood(wire[c]))
  BY DEF StreamInit, AllGood, FramesGood
<1>4. ASSUME NEW c \in Conns PROVE ReaderOK(conn[c], Ids(stored) \cup dropped)
  BY <1>1 DEF StreamInit
<1> QED BY <1>2, <1>3, <1>4 DEF SInv

LEMMA NextInv == SInv /\ [StreamNext]_svars => SInv'
<1> SUFFICES ASSUME SInv, [StreamNext]_svars PROVE SInv'
  OBVIOUS
<1>1. ASSUME NEW k \in Lines, WriteLine(k) PROVE SInv'
  BY <1>1, LogGrows DEF WriteLine, SInv, TypeOK
<1>2. CASE ContainerExits
  <2>1. CASE UNCHANGED log
    BY <1>2, <2>1, ExitStep DEF ContainerExits, SInv, TypeOK
  <2>2. CASE log' = Append(log, "text")
    <3>1. "text" \in Lines
      BY DEF Lines
    <3> QED BY <1>2, <2>2, <3>1, LogGrows DEF ContainerExits
  <2> QED BY <1>2, <2>1, <2>2 DEF ContainerExits
<1>3. CASE RemovedElsewhere \/ RowCommitted \/ EndElsewhere
  <2>1. /\ up \in BOOLEAN /\ gone \in BOOLEAN /\ begun \in BOOLEAN /\ over \in BOOLEAN
    BY DEF SInv, TypeOK
  <2>2. CASE RemovedElsewhere
    BY <2>1, <2>2, ExitStep DEF RemovedElsewhere
  <2>3. CASE RowCommitted
    BY <2>1, <2>3, ExitStep DEF RowCommitted
  <2>4. CASE EndElsewhere
    BY <2>1, <2>4, ExitStep DEF EndElsewhere
  <2> QED BY <1>3, <2>2, <2>3, <2>4
<1>4. ASSUME NEW c \in Conns, Work(c) PROVE SInv'
  BY <1>4, TakeLineStep, OpenLogStep, KeepaliveStep, FlushStep, LogEndsStep, LastFlushStep,
     FinalReadStep, FinalRemoveStep, DoneStep DEF Work
<1>5. ASSUME NEW c \in Conns, LogCut(c) \/ StreamBreaks(c) \/ FinalFails(c) PROVE SInv'
  BY <1>5, LogCutStep, StreamBreaksStep, DoneStep
<1>6. ASSUME NEW events \in loose, LooseFlush(events) PROVE SInv'
  BY <1>6, LooseFlushStep
<1>7. CASE Crash
  BY <1>7, CrashStep
<1>12. CASE RequestFails
  BY <1>12, FaultStep DEF RequestFails, Fault
<1>8. ASSUME NEW c \in Conns, NEW offset \in Nat, Connect(c, offset) PROVE SInv'
  BY <1>8, ConnectStep
<1>9. ASSUME NEW c \in Conns, Receive(c) PROVE SInv'
  BY <1>9, ReceiveStep
<1>10. ASSUME NEW c \in Conns, Hangup(c), Fault \/ NoFault PROVE SInv'
  BY <1>10, HangupStep
<1>11. CASE UNCHANGED svars
  BY <1>11, ExitStep DEF svars, SInv, TypeOK
<1> QED BY <1>1, <1>2, <1>3, <1>4, <1>5, <1>6, <1>7, <1>8, <1>9, <1>10, <1>11, <1>12
        DEF StreamNext, Server, Container

LEMMA StreamInvariance == StreamSpec => []SInv
BY InitInv, NextInv, PTL DEF StreamSpec

-----------------------------------------------------------------------------
(* Every variable of the stream stays within its type, whatever clients ask. *)
THEOREM StreamTypeCorrect == StreamSpec => []TypeOK
<1>1. SInv => TypeOK
  BY DEF SInv
<1> QED BY <1>1, StreamInvariance, PTL

(* An id names one line, for every reader, in memory, on the wire and in the *)
(* table, however often clients reconnect, and at whatever offsets: the      *)
(* number of a line is a fact of the log alone.                              *)
THEOREM IdsAreFacts == StreamSpec => []IdNamesOneLine
<1>1. SInv => IdNamesOneLine
  <2> SUFFICES ASSUME SInv, NEW e \in Known, NEW f \in Known
               PROVE  e.id = f.id <=> e.line = f.line
    BY DEF IdNamesOneLine
  <2>1. \A g \in Known : Good(g)
    <3>1. \A g \in stored : Good(g)
      BY DEF SInv, AllGood
    <3>2. \A g \in UNION loose : Good(g)
      BY DEF SInv, AllGood
    <3>3. ASSUME NEW c \in Conns, NEW g \in conn[c].pending \cup conn[c].batch \cup Events(wire[c])
          PROVE  Good(g)
      <4>1. CASE g \in Events(wire[c])
        <5>1. PICK i \in 1..Len(wire[c]) :
                     /\ wire[c][i].kind = "event"
                     /\ g = [id |-> wire[c][i].id, line |-> wire[c][i].line]
          BY <4>1 DEF Events
        <5> QED BY <5>1 DEF SInv, FramesGood
      <4>2. CASE g \in conn[c].pending \cup conn[c].batch
        BY <4>2, Before DEF ReaderOK, AllGood
      <4> QED BY <4>1, <4>2
    <3> QED BY <3>1, <3>2, <3>3 DEF Known
  <2>2. Good(e) /\ Good(f)
    BY <2>1
  <2>3. /\ e.line \in Nat /\ e.id = Number(e.line) /\ log[e.line] = "text" /\ e.id \in Nat
        /\ f.line \in Nat /\ f.id = Number(f.line) /\ log[f.line] = "text" /\ f.id \in Nat
    BY <2>2 DEF Good, Event
  <2>4. e.line < f.line => Number(e.line) < Number(f.line)
    BY <2>3, NumberGrows
  <2>5. f.line < e.line => Number(f.line) < Number(e.line)
    BY <2>3, NumberGrows
  <2> QED BY <2>3, <2>4, <2>5
<1> QED BY <1>1, StreamInvariance, PTL

(* Whoever judges a session has every line of its log in the table, or knows *)
(* of a failed insertion, up to where the log it has read was cut off, if it *)
(* was, and whatever clients came and went.                                  *)
THEOREM NoLineUnread == StreamSpec => []FinalizerReadsAll
<1>1. SInv => FinalizerReadsAll
  <2> SUFFICES ASSUME SInv, NEW c \in Conns, conn[c].pc \in {"judge", "write"},
                      NEW i \in 1..Len(log), log[i] = "text",
                      ~(conn[c].cut /\ i > conn[c].pos)
               PROVE  Number(i) \in Ids(stored) \cup dropped
    BY DEF FinalizerReadsAll
  <2>1. /\ ReaderOK(conn[c], Ids(stored) \cup dropped)
        /\ conn[c].pos \in Nat /\ log \in Seq(Lines)
    BY Before
  <2>2. i \in 1..conn[c].pos
    BY <2>1 DEF ReaderOK, BlankBetween
  <2>3. Ids(conn[c].pending) = {} /\ Ids(conn[c].batch) = {}
    BY <2>1 DEF ReaderOK, Ids
  <2> QED BY <2>1, <2>2, <2>3 DEF ReaderOK
<1> QED BY <1>1, StreamInvariance, PTL

-----------------------------------------------------------------------------
(* The page *)

PInv ==
  /\ SInv
  /\ page \in Page
  /\ page.pc # "settled" => page.tries <= MaxReconnects

LEMMA PageInit == Init => PInv
<1> SUFFICES ASSUME Init PROVE PInv
  OBVIOUS
<1>1. SInv
  BY InitInv DEF Init
<1>2. Blank \in Page /\ Blank.tries = 0
  BY ClientAssumption DEF Blank, Page, PagePC
<1> QED BY <1>1, <1>2, ClientAssumption DEF Init, PInv

(* Each step of the page is a step of a client, or none for the stream. *)
LEMMA PageStreams ==
  ASSUME PInv, [Next]_vars
  PROVE  [StreamNext]_svars
<1>1. ResumeOffset \in Nat
  BY DEF ResumeOffset, PInv, Page
<1>2. ASSUME NEW c \in Conns, Accepted(c) PROVE StreamNext
  BY <1>1, <1>2 DEF Accepted, StreamNext
<1>3. ASSUME NEW c \in Conns, ReadFrame(c) PROVE StreamNext
  BY <1>3 DEF ReadFrame, StreamNext
<1>4. ASSUME NEW c \in Conns, NetworkBreaks(c) PROVE StreamNext
  BY <1>4 DEF NetworkBreaks, StreamNext
<1>5. CASE LeavePage
  <2>1. page.conn \subseteq Conns
    BY DEF PInv, Page
  <2> QED BY <1>5, <2>1 DEF LeavePage, StreamNext
<1>6. CASE Mount \/ Refused \/ Poll
  BY <1>6 DEF Mount, Refused, Poll, StreamNext
<1>7. CASE CrashSeen
  BY <1>7 DEF CrashSeen, StreamNext
<1>8. CASE UNCHANGED vars
  BY <1>8 DEF vars
<1> QED BY <1>2, <1>3, <1>4, <1>5, <1>6, <1>7, <1>8 DEF Next, PageStep, StreamNext

LEMMA PageNext ==
  ASSUME PInv, [Next]_vars
  PROVE  PInv'
<1>0. SInv'
  BY PageStreams, NextInv DEF PInv
<1>1. /\ page.conn \in SUBSET Conns /\ page.url \in Nat /\ page.last \in Nat
      /\ page.offset \in Nat /\ page.tries \in 0..MaxReconnects + 1
      /\ page.shown \in SUBSET Event /\ page \in Page
      /\ page.pc # "settled" => page.tries <= MaxReconnects
  BY DEF PInv, Page
<1>2. CASE UNCHANGED page
  BY <1>0, <1>1, <1>2 DEF PInv
<1>3. CASE page' = OpenSource(page) /\ page.pc # "settled"
  BY <1>0, <1>1, <1>3 DEF PInv, OpenSource, Page, PagePC
<1>4. CASE page' = CloseSource(page, "settled")
  BY <1>0, <1>1, <1>4 DEF PInv, CloseSource, Page, PagePC
<1>5. CASE page' = LoseSource(page) /\ page.pc # "settled"
  BY <1>0, <1>1, <1>5 DEF PInv, LoseSource, Page, PagePC
<1>10. CASE page' = CloseSource(page, "waiting") /\ page.pc # "settled"
  BY <1>0, <1>1, <1>10 DEF PInv, CloseSource, Page, PagePC
<1>11. CASE Act /\ page.pc # "settled"
  BY <1>3, <1>4, <1>10, <1>11 DEF Act, Turn
<1>6. CASE Mount \/ Poll
  BY <1>3, <1>4, <1>6, <1>11 DEF Mount, Poll, Turn
<1>7. CASE Refused
  <2>1. page' = [CloseSource(page, IF page.tries < MaxReconnects THEN "polling" ELSE "settled")
                   EXCEPT !.tries = page.tries + 1]
    BY <1>1, <1>7 DEF Refused, Turn, CloseSource, Page
  <2>2. page.tries \in 0..MaxReconnects
    BY <1>1, <1>7, ClientAssumption DEF Refused
  <2>3. CASE page.tries < MaxReconnects
    <3>1. page' = [CloseSource(page, "polling") EXCEPT !.tries = page.tries + 1]
      BY <2>1, <2>3
    <3>2. page.tries + 1 \in 0..MaxReconnects + 1 /\ page.tries + 1 <= MaxReconnects
      BY <2>2, <2>3, ClientAssumption
    <3>3. page' \in Page /\ page'.tries = page.tries + 1
      BY <1>1, <3>1, <3>2 DEF CloseSource, Page, PagePC
    <3> QED BY <1>0, <3>2, <3>3 DEF PInv
  <2>4. CASE ~(page.tries < MaxReconnects)
    <3>1. page' = [CloseSource(page, "settled") EXCEPT !.tries = page.tries + 1]
      BY <2>1, <2>4
    <3>2. page.tries + 1 \in 0..MaxReconnects + 1
      BY <2>2, ClientAssumption
    <3>3. page' \in Page /\ page'.pc = "settled"
      BY <1>1, <3>1, <3>2 DEF CloseSource, Page, PagePC
    <3> QED BY <1>0, <3>3 DEF PInv
  <2> QED BY <2>3, <2>4
<1>8. ASSUME NEW c \in Conns, Accepted(c) PROVE PInv'
  <2>1. page' = [page EXCEPT !.pc = "reading", !.conn = {c}, !.tries = 0]
    BY <1>8 DEF Accepted, Turn
  <2>2. page' \in Page /\ page'.tries = 0
    <3>1. 0 \in 0..MaxReconnects + 1 /\ {c} \in SUBSET Conns
      BY ClientAssumption
    <3> QED BY <1>1, <2>1, <3>1 DEF Page, PagePC
  <2> QED BY <1>0, <2>2, ClientAssumption DEF PInv
<1>9. ASSUME NEW c \in Conns, ReadFrame(c) PROVE PInv'
  <2> DEFINE f == Head(wire[c])
  <2>1. f \in Frame /\ page.pc = "reading"
    BY <1>9, Before DEF ReadFrame, Receive, PInv
  <2>2. f.id \in Nat /\ [id |-> f.id, line |-> f.line] \in Event
    BY <2>1 DEF Frame, Event
  <2>3. CASE page' = [page EXCEPT !.last = f.id, !.offset = f.id,
                                  !.shown = @ \cup {[id |-> f.id, line |-> f.line]}]
    <3> HIDE DEF f
    <3>1. page' \in Page /\ page'.tries = page.tries /\ page'.pc = page.pc
      BY <1>1, <2>2, <2>3 DEF Page
    <3> QED BY <1>0, <1>1, <3>1 DEF PInv
  <2> QED BY <1>4, <1>9, <2>3 DEF ReadFrame, Turn
<1> QED BY <1>2, <1>3, <1>4, <1>5, <1>6, <1>7, <1>8, <1>9
        DEF Next, PageStep, NetworkBreaks, CrashSeen, LeavePage, Turn, vars

LEMMA PageInvariance == Spec => []PInv
BY PageInit, PageNext, PTL DEF Spec

(* The page is one of the clients the stream expects: all that is proved of  *)
(* EventStream holds under the page's reconnects, polls and departures.      *)
THEOREM PageIsClient == Spec => StreamSpec
<1>1. Init => StreamInit
  BY DEF Init
<1>2. PInv /\ [Next]_vars => [StreamNext]_svars
  BY PageStreams
<1> QED BY <1>1, <1>2, PageInvariance, PTL DEF Spec, StreamSpec

(* The variables of the page stay within their types; it never counts more   *)
(* reconnects than MAX_RECONNECTS and the one that makes it give up.         *)
THEOREM PageTypeCorrect == Spec => []PageTypeOK
<1>1. PInv => PageTypeOK
  BY DEF PInv, SInv, PageTypeOK
<1> QED BY <1>1, PageInvariance, PTL

-----------------------------------------------------------------------------
(* What the page is shown                                                    *)
(*                                                                           *)
(* A line is covered by what the page has been shown and the first k frames  *)
(* on their way to it.  The page has been shown all lines up to its offset,  *)
(* the wire carries the lines that follow in their order, and whatever its   *)
(* connection has passed over is covered.                                    *)
Num(l, n) == Cardinality(TextLines(l, n))

Seen(l, shown, i) == [id |-> Num(l, i), line |-> i] \in shown

SeenTo(l, shown, n) ==
  /\ n <= Num(l, Len(l))
  /\ \A i \in 1..Len(l) : l[i] = "text" /\ Num(l, i) <= n => Seen(l, shown, i)

Carried(w, k, i) == \E j \in 1..k : w[j].kind = "event" /\ w[j].line = i
Covered(l, shown, w, k, i) == Seen(l, shown, i) \/ Carried(w, k, i)

CoveredBelow(l, shown, w, k, n) == \A i \in 1..n - 1 : l[i] = "text" => Covered(l, shown, w, k, i)

InOrder(l, shown, w) ==
  \A k \in 1..Len(w) : w[k].kind = "event" => CoveredBelow(l, shown, w, k - 1, w[k].line)

Passed(r) == IF r.pc = "flush" THEN r.pos ELSE r.pos + 1
Flow(l, shown, r, w) ==
  /\ InOrder(l, shown, w)
  /\ r.live => SeenTo(l, shown, r.offset) /\ CoveredBelow(l, shown, w, Len(w), Passed(r))

NoHoles(l, shown) == \A e \in shown : \A i \in 1..e.line : l[i] = "text" => Seen(l, shown, i)

ShownInv ==
  /\ PInv
  /\ AllGood(page.shown)
  /\ NoHoles(log, page.shown)
  /\ SeenTo(log, page.shown, page.offset)
  /\ SeenTo(log, page.shown, page.url)
  /\ SeenTo(log, page.shown, page.last)
  /\ \A c \in page.conn : Flow(log, page.shown, conn[c], wire[c])

(* Counting. *)
LEMMA NumFacts ==
  ASSUME NEW l
  PROVE  /\ Num(l, 0) = 0
         /\ \A n \in Nat : Num(l, n) \in Nat
         /\ \A i, j \in Nat : i <= j => Num(l, i) <= Num(l, j)
         /\ \A i, j \in Nat : i < j /\ l[j] = "text" => Num(l, i) < Num(l, j)
<1>1. TextLines(l, 0) = {}
  BY DEF TextLines
<1>2. ASSUME NEW i \in Nat, NEW j \in Nat, i <= j PROVE Num(l, i) <= Num(l, j)
  <2>1. TextLines(l, i) \subseteq TextLines(l, j)
    BY <1>2 DEF TextLines
  <2> QED BY <2>1, TextLinesFinite, FS_Subset DEF Num
<1>3. ASSUME NEW i \in Nat, NEW j \in Nat, i < j, l[j] = "text" PROVE Num(l, i) < Num(l, j)
  <2>1. TextLines(l, i) \subseteq TextLines(l, j)
    BY <1>3 DEF TextLines
  <2>2. /\ j \in TextLines(l, j)
        /\ j \notin TextLines(l, i)
    BY <1>3 DEF TextLines
  <2>3. Cardinality(TextLines(l, i)) # Cardinality(TextLines(l, j))
    BY <2>1, <2>2, TextLinesFinite, FS_Subset
  <2>4. Cardinality(TextLines(l, i)) <= Cardinality(TextLines(l, j))
    BY <2>1, TextLinesFinite, FS_Subset
  <2> QED BY <2>3, <2>4, TextLinesFinite DEF Num
<1> QED BY <1>1, <1>2, <1>3, TextLinesFinite, FS_EmptySet DEF Num

(* Nothing precedes the first line. *)
LEMMA SeenToZero ==
  ASSUME NEW l \in Seq(Lines), NEW shown
  PROVE  SeenTo(l, shown, 0)
<1>1. Num(l, Len(l)) \in Nat
  BY NumFacts
<1>2. \A i \in 1..Len(l) : l[i] = "text" => 0 < Num(l, i)
  <2>1. \A i \in Nat : 0 < i /\ l[i] = "text" => Num(l, 0) < Num(l, i)
    BY NumFacts
  <2> QED BY <2>1, NumFacts
<1>3. \A i \in 1..Len(l) : Num(l, i) \in Nat
  BY NumFacts
<1> QED BY <1>1, <1>2, <1>3 DEF SeenTo

(* Frames *)
LEMMA NoticeFlows ==
  ASSUME NEW l, NEW shown, NEW w \in Seq(Frame), NEW k \in {"done", "error"}, InOrder(l, shown, w)
  PROVE  InOrder(l, shown, w \o <<Notice(k)>>)
<1> DEFINE v == w \o <<Notice(k)>>
<1>1. /\ Len(v) = Len(w) + 1
      /\ \A i \in 1..Len(w) : v[i] = w[i]
      /\ v[Len(w) + 1] = Notice(k)
      /\ Len(w) \in Nat
  OBVIOUS
<1>2. Notice(k).kind # "event"
  BY DEF Notice
<1> HIDE DEF v
<1>3. ASSUME NEW j \in 1..Len(v), v[j].kind = "event"
      PROVE  CoveredBelow(l, shown, v, j - 1, v[j].line)
  <2>1. j \in 1..Len(w) /\ v[j] = w[j]
    BY <1>1, <1>2, <1>3
  <2>2. CoveredBelow(l, shown, w, j - 1, w[j].line)
    BY <1>3, <2>1 DEF InOrder
  <2>3. \A i \in 1..j - 1 : v[i] = w[i]
    BY <1>1, <2>1
  <2> QED BY <2>1, <2>2, <2>3 DEF CoveredBelow, Covered, Carried
<1>4. InOrder(l, shown, v)
  BY <1>3 DEF InOrder
<1> QED BY <1>4 DEF v

LEMMA EventFlows ==
  ASSUME NEW l, NEW shown, NEW w \in Seq(Frame), NEW e \in Event,
         InOrder(l, shown, w), CoveredBelow(l, shown, w, Len(w), e.line)
  PROVE  /\ InOrder(l, shown, w \o <<EventFrame(e)>>)
         /\ CoveredBelow(l, shown, w \o <<EventFrame(e)>>, Len(w) + 1, e.line + 1)
         /\ Len(w \o <<EventFrame(e)>>) = Len(w) + 1
<1> DEFINE v == w \o <<EventFrame(e)>>
<1>1. /\ Len(v) = Len(w) + 1
      /\ \A i \in 1..Len(w) : v[i] = w[i]
      /\ v[Len(w) + 1] = EventFrame(e)
      /\ Len(w) \in Nat
  OBVIOUS
<1>2. EventFrame(e).kind = "event" /\ EventFrame(e).line = e.line /\ e.line \in Nat
  BY DEF EventFrame, Event
<1> HIDE DEF v
<1>3. ASSUME NEW j \in 0..Len(w), NEW i, Covered(l, shown, w, j, i)
      PROVE  Covered(l, shown, v, j, i)
  BY <1>1, <1>3 DEF Covered, Carried
<1>4. ASSUME NEW j \in 1..Len(v), v[j].kind = "event"
      PROVE  CoveredBelow(l, shown, v, j - 1, v[j].line)
  <2>1. CASE j \in 1..Len(w)
    <3>1. v[j] = w[j]
      BY <1>1, <2>1
    <3>2. CoveredBelow(l, shown, w, j - 1, w[j].line)
      BY <1>4, <2>1, <3>1 DEF InOrder
    <3>3. j - 1 \in 0..Len(w)
      BY <1>1, <2>1
    <3> QED BY <1>3, <3>1, <3>2, <3>3 DEF CoveredBelow
  <2>2. CASE j = Len(w) + 1
    <3>1. j - 1 = Len(w) /\ Len(w) \in 0..Len(w) /\ v[j].line = e.line
      BY <1>1, <1>2, <2>2
    <3> QED BY <1>3, <3>1 DEF CoveredBelow
  <2> QED BY <1>1, <2>1, <2>2
<1>5. ASSUME NEW i \in 1..e.line, l[i] = "text"
      PROVE  Covered(l, shown, v, Len(w) + 1, i)
  <2>1. CASE i = e.line
    <3>1. Len(w) + 1 \in 1..Len(w) + 1 /\ v[Len(w) + 1].kind = "event" /\ v[Len(w) + 1].line = i
      BY <1>1, <1>2, <2>1
    <3> QED BY <3>1 DEF Covered, Carried
  <2>2. CASE i # e.line
    <3>1. i \in 1..e.line - 1
      BY <1>2, <2>2
    <3>2. Covered(l, shown, w, Len(w), i)
      BY <1>5, <3>1 DEF CoveredBelow
    <3>3. \A j \in 1..Len(w) : j \in 1..Len(w) + 1
      BY <1>1
    <3> QED BY <1>1, <3>2, <3>3 DEF Covered, Carried
  <2> QED BY <2>1, <2>2
<1>6. InOrder(l, shown, v)
  BY <1>4 DEF InOrder
<1>7. CoveredBelow(l, shown, v, Len(w) + 1, e.line + 1)
  <2>1. (e.line + 1) - 1 = e.line
    BY <1>2
  <2> QED BY <1>5, <2>1 DEF CoveredBelow
<1> QED BY <1>1, <1>6, <1>7 DEF v

(* The first frame is read, and shown. *)
LEMMA ShownFlows ==
  ASSUME NEW l, NEW shown, NEW w \in Seq(Frame), w # <<>>, Head(w).kind = "event",
         Head(w).id = Num(l, Head(w).line), InOrder(l, shown, w),
         NEW m, m = shown \cup {[id |-> Head(w).id, line |-> Head(w).line]}
  PROVE  /\ CoveredBelow(l, shown, w, 0, Head(w).line)
         /\ InOrder(l, m, Tail(w))
         /\ \A n : CoveredBelow(l, shown, w, Len(w), n)
                     => CoveredBelow(l, m, Tail(w), Len(Tail(w)), n)
<1> DEFINE v == Tail(w)
<1>1. /\ Len(v) = Len(w) - 1 /\ Len(w) \in Nat /\ Len(w) >= 1
      /\ \A i \in 1..Len(v) : v[i] = w[i + 1]
      /\ Head(w) = w[1]
  OBVIOUS
<1> HIDE DEF v
<1>2. ASSUME NEW k \in 1..Len(w), NEW i, Covered(l, shown, w, k, i)
      PROVE  Covered(l, m, v, k - 1, i)
  <2>1. CASE Seen(l, shown, i)
    BY <2>1 DEF Seen, Covered
  <2>2. CASE Carried(w, k, i)
    <3>1. PICK j \in 1..k : w[j].kind = "event" /\ w[j].line = i
      BY <2>2 DEF Carried
    <3>2. CASE j = 1
      <4>1. i = Head(w).line
        BY <1>1, <3>1, <3>2
      <4> QED BY <4>1 DEF Seen, Covered
    <3>3. CASE j # 1
      <4>1. j - 1 \in 1..k - 1 /\ j - 1 \in 1..Len(v) /\ (j - 1) + 1 = j
        BY <1>1, <3>3
      <4>2. v[j - 1] = w[j]
        BY <1>1, <4>1
      <4> QED BY <3>1, <4>1, <4>2 DEF Covered, Carried
    <3> QED BY <3>2, <3>3
  <2> QED BY <1>2, <2>1, <2>2 DEF Covered
<1>3. CoveredBelow(l, shown, w, 0, Head(w).line)
  <2>1. 1 \in 1..Len(w) /\ 1 - 1 = 0
    BY <1>1
  <2> QED BY <1>1, <2>1 DEF InOrder
<1>4. ASSUME NEW j \in 1..Len(v), v[j].kind = "event"
      PROVE  CoveredBelow(l, m, v, j - 1, v[j].line)
  <2>1. j + 1 \in 1..Len(w) /\ v[j] = w[j + 1] /\ (j + 1) - 1 = j /\ j \in 1..Len(w)
    BY <1>1
  <2>2. CoveredBelow(l, shown, w, j, w[j + 1].line)
    BY <1>4, <2>1 DEF InOrder
  <2> QED BY <1>2, <2>1, <2>2 DEF CoveredBelow
<1>5. ASSUME NEW n, CoveredBelow(l, shown, w, Len(w), n)
      PROVE  CoveredBelow(l, m, v, Len(v), n)
  <2>1. Len(w) \in 1..Len(w) /\ Len(w) - 1 = Len(v)
    BY <1>1
  <2> QED BY <1>2, <1>5, <2>1 DEF CoveredBelow
<1>6. InOrder(l, m, v)
  BY <1>4 DEF InOrder
<1> QED BY <1>3, <1>5, <1>6 DEF v

(* The log grows. *)
LEMMA GrowthFlows ==
  ASSUME NEW l \in Seq(Lines), NEW k \in Lines, NEW m, m = Append(l, k), NEW shown
  PROVE  /\ \A i \in 1..Len(l) : Seen(l, shown, i) => Seen(m, shown, i)
         /\ \A n \in Nat : SeenTo(l, shown, n) => SeenTo(m, shown, n)
         /\ \A w, j, n : n \in Nat /\ n <= Len(l) + 1 /\ CoveredBelow(l, shown, w, j, n)
                            => CoveredBelow(m, shown, w, j, n)
<1>1. /\ Len(m) = Len(l) + 1 /\ Len(l) \in Nat
      /\ \A i \in 1..Len(l) : m[i] = l[i]
  OBVIOUS
<1>2. ASSUME NEW n \in 0..Len(l) PROVE Num(m, n) = Num(l, n)
  <2>1. TextLines(m, n) = TextLines(l, n)
    BY <1>1 DEF TextLines
  <2> QED BY <2>1 DEF Num
<1>3. ASSUME NEW i \in 1..Len(l) PROVE Seen(m, shown, i) <=> Seen(l, shown, i)
  <2>1. Num(m, i) = Num(l, i)
    BY <1>2
  <2> QED BY <2>1 DEF Seen
<1>4. ASSUME NEW n \in Nat, SeenTo(l, shown, n) PROVE SeenTo(m, shown, n)
  <2>1. n <= Num(l, Len(l)) /\ Num(l, Len(l)) = Num(m, Len(l))
    BY <1>1, <1>2, <1>4 DEF SeenTo
  <2>5. /\ Len(l) \in Nat /\ Len(m) \in Nat
        /\ Len(l) <= Len(m) /\ Len(l) < Len(m)
    BY <1>1
  <2>6. /\ \A i, j \in Nat : i <= j => Num(m, i) <= Num(m, j)
        /\ \A i, j \in Nat : i < j /\ m[j] = "text" => Num(m, i) < Num(m, j)
        /\ \A i \in Nat : Num(m, i) \in Nat
    BY NumFacts
  <2>2. /\ Num(m, Len(l)) <= Num(m, Len(m))
        /\ m[Len(m)] = "text" => Num(m, Len(l)) < Num(m, Len(m))
        /\ Num(m, Len(l)) \in Nat /\ Num(m, Len(m)) \in Nat
    BY <2>5, <2>6
  <2>3. ASSUME NEW i \in 1..Len(m), m[i] = "text", Num(m, i) <= n
        PROVE  Seen(m, shown, i)
    <3>1. i # Len(m)
      BY <2>1, <2>2, <2>3
    <3>2. i \in 1..Len(l) /\ Num(m, i) = Num(l, i) /\ l[i] = "text"
      BY <1>1, <1>2, <2>3, <3>1
    <3> QED BY <1>3, <1>4, <2>3, <3>2 DEF SeenTo
  <2>4. n <= Num(m, Len(m))
    BY <2>1, <2>2
  <2> QED BY <2>3, <2>4 DEF SeenTo
<1>5. ASSUME NEW w, NEW j, NEW n \in Nat, n <= Len(l) + 1, CoveredBelow(l, shown, w, j, n)
      PROVE  CoveredBelow(m, shown, w, j, n)
  <2>1. \A i \in 1..n - 1 : i \in 1..Len(l)
    BY <1>1, <1>5
  <2> QED BY <1>1, <1>3, <1>5, <2>1 DEF CoveredBelow, Covered
<1> QED BY <1>3, <1>4, <1>5

(* A line that has just been read is sent, or the page has been shown it. *)
LEMMA LineFlows ==
  ASSUME NEW l \in Seq(Lines), NEW shown, NEW w \in Seq(Frame), NEW e \in Event, NEW n \in Nat,
         e.id = Num(l, e.line), e.line \in 1..Len(l), l[e.line] = "text", SeenTo(l, shown, n),
         InOrder(l, shown, w), CoveredBelow(l, shown, w, Len(w), e.line),
         NEW v, v = w \o (IF e.id > n THEN <<EventFrame(e)>> ELSE <<>>)
  PROVE  InOrder(l, shown, v) /\ CoveredBelow(l, shown, v, Len(v), e.line + 1)
<1>1. CASE e.id > n
  <2>1. v = w \o <<EventFrame(e)>>
    BY <1>1
  <2> QED BY <2>1, EventFlows
<1>2. CASE ~(e.id > n)
  <2>1. v = w
    BY <1>2
  <2>2. e.id \in Nat /\ e.line \in Nat
    BY DEF Event
  <2>3. Seen(l, shown, e.line)
    BY <1>2, <2>2 DEF SeenTo
  <2>4. \A i \in 1..(e.line + 1) - 1 : i = e.line \/ i \in 1..e.line - 1
    BY <2>2
  <2>5. CoveredBelow(l, shown, w, Len(w), e.line + 1)
    BY <2>3, <2>4 DEF CoveredBelow, Covered
  <2> QED BY <2>1, <2>5
<1> QED BY <1>1, <1>2

(* Blank lines need not be covered. *)
LEMMA BlankFlows ==
  ASSUME NEW shown, NEW w, NEW k, NEW p \in Nat, NEW q \in Nat,
         CoveredBelow(log, shown, w, k, p + 1), BlankBetween(p, q)
  PROVE  CoveredBelow(log, shown, w, k, q)
<1>1. ASSUME NEW i \in 1..q - 1, log[i] = "text" PROVE i \in 1..(p + 1) - 1
  BY <1>1 DEF BlankBetween
<1> QED BY <1>1 DEF CoveredBelow

-----------------------------------------------------------------------------
(* The steps of the server, seen from the page. *)

(* A step that touches at most connection c. *)
LEMMA SeenLocal ==
  ASSUME ShownInv, PInv', UNCHANGED <<log, page>>, NEW c \in Conns, NEW r, NEW w,
         conn' = [conn EXCEPT ![c] = r],
         wire' = [wire EXCEPT ![c] = w],
         Flow(log, page.shown, conn[c], wire[c]) => Flow(log, page.shown, r, w)
  PROVE  ShownInv'
<1>1. AllGood(page.shown)'
  BY DEF ShownInv, AllGood, Good, Number
<1>2. ASSUME NEW b \in page.conn PROVE Flow(log', page'.shown, conn'[b], wire'[b])
  BY <1>2 DEF ShownInv, PInv, SInv, TypeOK, Page
<1> QED BY <1>1, <1>2 DEF ShownInv

(* A connection that goes on without reading. *)
LEMMA SameFlow ==
  ASSUME NEW l, NEW shown, NEW q, NEW r, NEW w, Flow(l, shown, q, w),
         r.live = q.live, r.offset = q.offset, Passed(r) = Passed(q)
  PROVE  Flow(l, shown, r, w)
BY DEF Flow

(* A connection that nobody listens to any more. *)
LEMMA LastFlow ==
  ASSUME NEW l, NEW shown, NEW q, NEW r, NEW w \in Seq(Frame), Flow(l, shown, q, w), ~r.live
  PROVE  /\ Flow(l, shown, r, w)
         /\ w \o <<>> = w
         /\ \A k \in {"done", "error"} : Flow(l, shown, r, w \o <<Notice(k)>>)
BY NoticeFlows DEF Flow

LEMMA SeenTakeLine ==
  ASSUME ShownInv, PInv', UNCHANGED page, NEW c \in Conns, NEW line \in 1..Len(log), TakeLine(c, line)
  PROVE  ShownInv'
<1> DEFINE e == [id |-> conn[c].event_id + 1, line |-> line]
           r == Numbered(c, e)
           f == [r EXCEPT !.pc = "flush", !.batch = r.pending, !.pending = {}]
<1>0. /\ conn[c].pc = "read"
      /\ conn[c].pos < line
      /\ log[line] = "text"
      /\ BlankBetween(conn[c].pos, line)
      /\ UNCHANGED log
      /\ (\/ Step(c, r) /\ Send(c, Output(c, e))
          \/ Step(c, f) /\ UNCHANGED wire)
  BY DEF TakeLine
<1>1. SInv
  BY DEF ShownInv, PInv
<1>2. Number(line) = conn[c].event_id + 1
  BY <1>0, <1>1, Before, NextNumber DEF ReaderOK
<1>3. e \in Event /\ e.line = line /\ e.id = Num(log, line)
  BY <1>1, <1>2, Before DEF Event, Num, Number
<1>4. /\ conn[c] \in Conn /\ conn[c].pos \in Nat /\ conn[c].offset \in Nat /\ conn[c].live \in BOOLEAN
      /\ log \in Seq(Lines) /\ wire[c] \in Seq(Frame)
      /\ wire = [wire EXCEPT ![c] = wire[c]]
  BY <1>1, Before DEF Conn
<1>5. /\ r.pc = "read" /\ r.pos = line /\ r.live = conn[c].live /\ r.offset = conn[c].offset
      /\ r \in Conn
  BY <1>0, <1>3, <1>4 DEF Numbered, Conn, Event
<1>6. f.pc = "flush" /\ f.pos = line /\ f.live = conn[c].live /\ f.offset = conn[c].offset
  BY <1>5 DEF Conn, ConnPC
<1>7. Output(c, e) = IF conn[c].live /\ e.id > conn[c].offset THEN <<EventFrame(e)>> ELSE <<>>
  BY DEF Output
<1> HIDE DEF r, f, e
<1>8. ASSUME Flow(log, page.shown, conn[c], wire[c]), conn[c].live
      PROVE  CoveredBelow(log, page.shown, wire[c], Len(wire[c]), line)
  <2>1. CoveredBelow(log, page.shown, wire[c], Len(wire[c]), conn[c].pos + 1)
    BY <1>0, <1>8 DEF Flow, Passed
  <2> QED BY <1>0, <1>4, <2>1, BlankFlows
<1>9. CASE Step(c, r) /\ Send(c, Output(c, e))
  <2> DEFINE v == wire[c] \o Output(c, e)
  <2>1. conn' = [conn EXCEPT ![c] = r] /\ wire' = [wire EXCEPT ![c] = v]
    BY <1>9 DEF Step, Send
  <2>2. ASSUME Flow(log, page.shown, conn[c], wire[c]) PROVE Flow(log, page.shown, r, v)
    <3>1. CASE conn[c].live
      <4>1. /\ CoveredBelow(log, page.shown, wire[c], Len(wire[c]), line)
            /\ InOrder(log, page.shown, wire[c])
            /\ SeenTo(log, page.shown, conn[c].offset)
        BY <1>8, <2>2, <3>1 DEF Flow
      <4>2. v = wire[c] \o (IF e.id > conn[c].offset THEN <<EventFrame(e)>> ELSE <<>>)
        BY <1>7, <3>1
      <4>3. Passed(r) = e.line + 1
        BY <1>3, <1>5 DEF Passed
      <4>4. /\ log \in Seq(Lines) /\ wire[c] \in Seq(Frame) /\ conn[c].offset \in Nat
            /\ e \in Event /\ e.id = Num(log, e.line) /\ e.line \in 1..Len(log)
            /\ log[e.line] = "text"
            /\ CoveredBelow(log, page.shown, wire[c], Len(wire[c]), e.line)
        BY <1>0, <1>3, <1>4, <4>1
      <4> HIDE DEF v
      <4>5. InOrder(log, page.shown, v) /\ CoveredBelow(log, page.shown, v, Len(v), e.line + 1)
        BY <4>1, <4>2, <4>4, LineFlows
      <4> QED BY <1>5, <4>1, <4>3, <4>5 DEF Flow
    <3>2. CASE ~conn[c].live
      <4>1. v = wire[c] \o <<>>
        BY <1>7, <3>2
      <4>2. Flow(log, page.shown, r, wire[c]) /\ wire[c] \o <<>> = wire[c]
        BY <1>4, <1>5, <2>2, <3>2, LastFlow
      <4> QED BY <4>1, <4>2
    <3> QED BY <3>1, <3>2
  <2> HIDE DEF v
  <2> QED BY <1>0, <2>1, <2>2, SeenLocal
<1>10. CASE Step(c, f) /\ UNCHANGED wire
  <2>1. conn' = [conn EXCEPT ![c] = f] /\ wire' = [wire EXCEPT ![c] = wire[c]]
    BY <1>4, <1>10 DEF Step
  <2>2. Passed(f) = line
    BY <1>6 DEF Passed
  <2>3. ASSUME Flow(log, page.shown, conn[c], wire[c]) PROVE Flow(log, page.shown, f, wire[c])
    BY <1>6, <1>8, <2>2, <2>3 DEF Flow
  <2> QED BY <1>0, <2>1, <2>3, SeenLocal
<1> QED BY <1>0, <1>9, <1>10

LEMMA SeenFlush ==
  ASSUME ShownInv, PInv', UNCHANGED page, NEW c \in Conns, Flush(c)
  PROVE  ShownInv'
<1> DEFINE r == [conn[c] EXCEPT !.pc = "read", !.batch = {}]
           e == [id |-> conn[c].event_id, line |-> conn[c].pos]
<1>0. /\ UNCHANGED log
      /\ conn' = [conn EXCEPT ![c] = r]
      /\ (\/ conn[c].pc = "flush" /\ Send(c, Output(c, e))
          \/ conn[c].pc = "pause" /\ UNCHANGED wire)
  BY DEF Flush, Step
<1>1. SInv
  BY DEF ShownInv, PInv
<1>2. /\ conn[c] \in Conn /\ conn[c].pos \in Nat /\ conn[c].event_id \in Nat
      /\ conn[c].offset \in Nat /\ conn[c].live \in BOOLEAN
      /\ log \in Seq(Lines) /\ wire[c] \in Seq(Frame)
      /\ wire = [wire EXCEPT ![c] = wire[c]]
      /\ ReaderOK(conn[c], Ids(stored) \cup dropped)
  BY <1>1, Before DEF Conn
<1>3. /\ r.pc = "read" /\ r.pos = conn[c].pos /\ r.live = conn[c].live
      /\ r.offset = conn[c].offset
  BY <1>2 DEF Conn, ConnPC
<1>4. Passed(r) = conn[c].pos + 1
  BY <1>3 DEF Passed
<1>5. Output(c, e) = IF conn[c].live /\ e.id > conn[c].offset THEN <<EventFrame(e)>> ELSE <<>>
  BY DEF Output
<1>6. e \in Event /\ e.line = conn[c].pos /\ e.id = Num(log, conn[c].pos)
  BY <1>2 DEF Event, Num, Number, ReaderOK
<1> HIDE DEF r, e
<1>7. CASE conn[c].pc = "pause" /\ UNCHANGED wire
  <2>1. wire' = [wire EXCEPT ![c] = wire[c]] /\ Passed(conn[c]) = conn[c].pos + 1
    BY <1>2, <1>7 DEF Passed
  <2> QED BY <1>0, <1>3, <1>4, <2>1, SameFlow, SeenLocal
<1>8. CASE conn[c].pc = "flush" /\ Send(c, Output(c, e))
  <2> DEFINE v == wire[c] \o Output(c, e)
  <2>1. wire' = [wire EXCEPT ![c] = v]
    BY <1>8 DEF Send
  <2>2. ASSUME Flow(log, page.shown, conn[c], wire[c]) PROVE Flow(log, page.shown, r, v)
    <3>1. CASE conn[c].live
      <4>1. /\ CoveredBelow(log, page.shown, wire[c], Len(wire[c]), conn[c].pos)
            /\ InOrder(log, page.shown, wire[c])
            /\ SeenTo(log, page.shown, conn[c].offset)
        BY <1>8, <2>2, <3>1 DEF Flow, Passed
      <4>2. v = wire[c] \o (IF e.id > conn[c].offset THEN <<EventFrame(e)>> ELSE <<>>)
        BY <1>5, <3>1
      <4>3. conn[c].pos \in 1..Len(log) /\ log[conn[c].pos] = "text"
        BY <1>2, <1>8 DEF ReaderOK
      <4>4. /\ log \in Seq(Lines) /\ wire[c] \in Seq(Frame) /\ conn[c].offset \in Nat
            /\ e \in Event /\ e.id = Num(log, e.line) /\ e.line \in 1..Len(log)
            /\ log[e.line] = "text"
            /\ CoveredBelow(log, page.shown, wire[c], Len(wire[c]), e.line)
        BY <1>2, <1>6, <4>1, <4>3
      <4> HIDE DEF v
      <4>5. InOrder(log, page.shown, v) /\ CoveredBelow(log, page.shown, v, Len(v), e.line + 1)
        BY <4>1, <4>2, <4>4, LineFlows
      <4> QED BY <1>3, <1>4, <1>6, <4>1, <4>5 DEF Flow
    <3>2. CASE ~conn[c].live
      <4>1. v = wire[c] \o <<>>
        BY <1>5, <3>2
      <4>2. Flow(log, page.shown, r, wire[c]) /\ wire[c] \o <<>> = wire[c]
        BY <1>2, <1>3, <2>2, <3>2, LastFlow
      <4> QED BY <4>1, <4>2
    <3> QED BY <3>1, <3>2
  <2> HIDE DEF v
  <2> QED BY <1>0, <2>1, <2>2, SeenLocal
<1> QED BY <1>0, <1>7, <1>8

(* The pauses of a connection, and the end of its log. *)
LEMMA SeenPause ==
  ASSUME ShownInv, PInv', UNCHANGED page, NEW c \in Conns,
         Keepalive(c) \/ LogEnds(c) \/ LogCut(c) \/ LastFlush(c)
  PROVE  ShownInv'
<1>1. SInv
  BY DEF ShownInv, PInv
<1>2. conn[c] \in Conn /\ wire = [wire EXCEPT ![c] = wire[c]]
  BY <1>1, Before
<1>3. PICK r : /\ conn' = [conn EXCEPT ![c] = r]
               /\ r.pos = conn[c].pos /\ r.live = conn[c].live /\ r.offset = conn[c].offset
               /\ r.pc # "flush" /\ conn[c].pc # "flush"
  <2>1. CASE Keepalive(c)
    <3> DEFINE r == [conn[c] EXCEPT !.pc = "pause", !.batch = conn[c].pending, !.pending = {}]
    <3>1. /\ r.pos = conn[c].pos /\ r.live = conn[c].live /\ r.offset = conn[c].offset
          /\ r.pc = "pause"
      BY <1>2 DEF Conn, ConnPC
    <3>2. conn' = [conn EXCEPT ![c] = r] /\ conn[c].pc = "read"
      BY <2>1 DEF Keepalive, Step
    <3> HIDE DEF r
    <3> QED BY <3>1, <3>2
  <2>2. CASE LogEnds(c)
    <3> DEFINE r == [conn[c] EXCEPT !.pc = "last"]
    <3>1. /\ r.pos = conn[c].pos /\ r.live = conn[c].live /\ r.offset = conn[c].offset
          /\ r.pc = "last"
      BY <1>2 DEF Conn, ConnPC
    <3>2. conn' = [conn EXCEPT ![c] = r] /\ conn[c].pc = "read"
      BY <2>2 DEF LogEnds, Step
    <3> HIDE DEF r
    <3> QED BY <3>1, <3>2
  <2>4. CASE LogCut(c)
    <3> DEFINE r == [conn[c] EXCEPT !.pc = "last", !.cut = TRUE]
    <3>1. /\ r.pos = conn[c].pos /\ r.live = conn[c].live /\ r.offset = conn[c].offset
          /\ r.pc = "last"
      BY <1>2 DEF Conn, ConnPC
    <3>2. conn' = [conn EXCEPT ![c] = r] /\ conn[c].pc = "read"
      BY <2>4 DEF LogCut, Step
    <3> HIDE DEF r
    <3> QED BY <3>1, <3>2
  <2>3. CASE LastFlush(c)
    <3> DEFINE r == [conn[c] EXCEPT !.pc = "final", !.pending = {}]
    <3>1. /\ r.pos = conn[c].pos /\ r.live = conn[c].live /\ r.offset = conn[c].offset
          /\ r.pc = "final"
      BY <1>2 DEF Conn, ConnPC
    <3>2. conn' = [conn EXCEPT ![c] = r] /\ conn[c].pc = "last"
      BY <2>3 DEF LastFlush, Step
    <3> HIDE DEF r
    <3> QED BY <3>1, <3>2
  <2> QED BY <2>1, <2>2, <2>3, <2>4
<1>4. UNCHANGED <<log, wire>>
  BY DEF Keepalive, LogEnds, LogCut, LastFlush
<1>5. Passed(r) = Passed(conn[c])
  BY <1>3 DEF Passed
<1>6. wire' = [wire EXCEPT ![c] = wire[c]]
  BY <1>2, <1>4
<1> QED BY <1>3, <1>4, <1>5, <1>6, SameFlow, SeenLocal

(* A connection that ends, or goes on for nobody. *)
LEMMA SeenEnd ==
  ASSUME ShownInv, PInv', UNCHANGED <<log, page>>, NEW c \in Conns, NEW r, ~r.live,
         conn' = [conn EXCEPT ![c] = r],
         \/ UNCHANGED wire
         \/ \E w \in {wire[c] \o <<>>, wire[c] \o <<Notice("done")>>, wire[c] \o <<Notice("error")>>} :
              wire' = [wire EXCEPT ![c] = w]
  PROVE  ShownInv'
<1>1. /\ wire[c] \in Seq(Frame) /\ wire = [wire EXCEPT ![c] = wire[c]]
  BY Before DEF ShownInv, PInv
<1>2. PICK w \in {wire[c], wire[c] \o <<>>, wire[c] \o <<Notice("done")>>, wire[c] \o <<Notice("error")>>} :
              wire' = [wire EXCEPT ![c] = w]
  BY <1>1
<1>3. ASSUME Flow(log, page.shown, conn[c], wire[c]) PROVE Flow(log, page.shown, r, w)
  <2>1. /\ Flow(log, page.shown, r, wire[c])
        /\ wire[c] \o <<>> = wire[c]
        /\ Flow(log, page.shown, r, wire[c] \o <<Notice("done")>>)
        /\ Flow(log, page.shown, r, wire[c] \o <<Notice("error")>>)
    BY <1>1, <1>3, LastFlow
  <2> QED BY <1>2, <2>1
<1> QED BY <1>2, <1>3, SeenLocal

LEMMA SeenFinal ==
  ASSUME ShownInv, PInv', UNCHANGED page, NEW c \in Conns,
         OpenLog(c) \/ FinalRead(c) \/ FinalRemove(c) \/ FinalFails(c) \/ FinalWrite(c)
           \/ StreamBreaks(c)
  PROVE  ShownInv'
<1>1. SInv
  BY DEF ShownInv, PInv
<1>2. ~Idle.live /\ ~Reader(FALSE, 0).live
  BY DEF Idle, Reader
<1>3. UNCHANGED log
  BY DEF OpenLog, FinalRead, FinalRemove, FinalFails, FinalWrite, StreamBreaks
<1>4. CASE conn' = [conn EXCEPT ![c] = Idle] /\ Send(c, IF conn[c].live THEN <<Notice("done")>> ELSE <<>>)
  <2>1. \E w \in {wire[c] \o <<>>, wire[c] \o <<Notice("done")>>, wire[c] \o <<Notice("error")>>} :
          wire' = [wire EXCEPT ![c] = w]
    BY <1>4 DEF Send
  <2> QED BY <1>2, <1>3, <1>4, <2>1, SeenEnd
<1>5. ASSUME NEW pc \in {"read", "judge", "write"}, conn[c].pc # "flush",
             conn' = [conn EXCEPT ![c] = [conn[c] EXCEPT !.pc = pc]], UNCHANGED wire
      PROVE  ShownInv'
  <2> DEFINE r == [conn[c] EXCEPT !.pc = pc]
  <2>1. conn[c] \in Conn /\ wire = [wire EXCEPT ![c] = wire[c]]
    BY <1>1, Before
  <2>2. /\ r.pos = conn[c].pos /\ r.live = conn[c].live /\ r.offset = conn[c].offset
        /\ r.pc # "flush"
    BY <2>1 DEF Conn, ConnPC
  <2>3. conn' = [conn EXCEPT ![c] = r] /\ wire' = [wire EXCEPT ![c] = wire[c]]
    BY <1>5, <2>1
  <2> HIDE DEF r
  <2>4. Passed(r) = Passed(conn[c])
    BY <1>5, <2>2 DEF Passed
  <2> QED BY <1>3, <2>2, <2>3, <2>4, SameFlow, SeenLocal
<1>6. CASE Raises(c)
  <2>1. \/ /\ conn' = [conn EXCEPT ![c] = Reader(FALSE, 0)]
           /\ wire' = [wire EXCEPT ![c] = wire[c] \o <<Notice("error")>>]
        \/ conn' = [conn EXCEPT ![c] = Idle] /\ UNCHANGED wire
    BY <1>6 DEF Raises, Leave, Step, Send
  <2> QED BY <1>2, <1>3, <2>1, SeenEnd
<1>7. CASE OpenLog(c) \/ StreamBreaks(c)
  BY <1>5, <1>6, <1>7 DEF OpenLog, StreamBreaks, Step
<1>8. CASE FinalRead(c) \/ FinalRemove(c)
  BY <1>4, <1>5, <1>8 DEF FinalRead, FinalRemove, Step
<1>9. CASE FinalFails(c) \/ FinalWrite(c)
  BY <1>4, <1>9 DEF FinalFails, FinalWrite, Step
<1> QED BY <1>7, <1>8, <1>9

(* The log grows. *)
LEMMA SeenGrowth ==
  ASSUME ShownInv, PInv', NEW k \in Lines, log' = Append(log, k), UNCHANGED <<conn, wire, page>>
  PROVE  ShownInv'
<1> DEFINE sh == page.shown
<1>0. SInv /\ log \in Seq(Lines) /\ page \in Page
  BY DEF ShownInv, PInv, SInv, TypeOK
<1>1. /\ \A i \in 1..Len(log) : Seen(log, sh, i) => Seen(log', sh, i)
      /\ \A n \in Nat : SeenTo(log, sh, n) => SeenTo(log', sh, n)
      /\ \A w, j, n : n \in Nat /\ n <= Len(log) + 1 /\ CoveredBelow(log, sh, w, j, n)
                         => CoveredBelow(log', sh, w, j, n)
  BY <1>0, GrowthFlows
<1>2. AllGood(page.shown)'
  BY <1>0, GoodStays DEF ShownInv, AllGood
<1>3. Len(log) \in Nat /\ \A i \in 1..Len(log) : log'[i] = log[i]
  BY <1>0
<1>4. NoHoles(log', sh)
  <2>1. ASSUME NEW e \in sh, NEW i \in 1..e.line, log'[i] = "text" PROVE Seen(log', sh, i)
    <3>1. e.line \in 1..Len(log)
      BY DEF ShownInv, AllGood, Good
    <3>2. i \in 1..Len(log)
      BY <1>3, <3>1
    <3> QED BY <1>1, <1>3, <2>1, <3>2 DEF ShownInv, NoHoles
  <2> QED BY <2>1 DEF NoHoles
<1>5. SeenTo(log', sh, page.offset) /\ SeenTo(log', sh, page.url) /\ SeenTo(log', sh, page.last)
  BY <1>0, <1>1 DEF ShownInv, Page
<1>6. ASSUME NEW c \in page.conn PROVE Flow(log', sh, conn[c], wire[c])
  <2>1. /\ c \in Conns /\ Flow(log, sh, conn[c], wire[c])
    BY <1>0, <1>6 DEF ShownInv, Page
  <2>2. /\ wire[c] \in Seq(Frame) /\ FramesGood(wire[c])
        /\ conn[c].pos \in Nat /\ conn[c].offset \in Nat /\ conn[c].pos <= Len(log)
    BY <1>0, <2>1, Before DEF Conn, ReaderOK
  <2>3. InOrder(log', sh, wire[c])
    <3>1. ASSUME NEW j \in 1..Len(wire[c]), wire[c][j].kind = "event"
          PROVE  CoveredBelow(log', sh, wire[c], j - 1, wire[c][j].line)
      <4>1. CoveredBelow(log, sh, wire[c], j - 1, wire[c][j].line)
        BY <2>1, <3>1 DEF Flow, InOrder
      <4>2. Good([id |-> wire[c][j].id, line |-> wire[c][j].line])
        BY <2>2, <3>1 DEF FramesGood
      <4>3. wire[c][j].line \in Nat /\ wire[c][j].line <= Len(log) + 1
        BY <1>3, <4>2 DEF Good
      <4> QED BY <1>1, <4>1, <4>3
    <3> QED BY <3>1 DEF InOrder
  <2>4. Passed(conn[c]) \in Nat /\ Passed(conn[c]) <= Len(log) + 1
    BY <1>3, <2>2 DEF Passed
  <2> QED BY <1>1, <2>1, <2>2, <2>3, <2>4 DEF Flow
<1> QED BY <1>2, <1>4, <1>5, <1>6 DEF ShownInv

-----------------------------------------------------------------------------
(* The steps of the page. *)

(* A step that shows nothing, opens no connection and invents no offset. *)
LEMMA SeenQuiet ==
  ASSUME ShownInv, PInv', UNCHANGED log, page'.shown = page.shown,
         page'.offset = page.offset,
         page'.url \in {page.url, page.offset, 0}, page'.last \in {page.last, 0},
         page'.conn = {} \/ (page'.conn = page.conn /\ UNCHANGED <<conn, wire>>)
  PROVE  ShownInv'
<1>1. AllGood(page.shown)'
  BY DEF ShownInv, AllGood, Good, Number
<1>2. SeenTo(log, page.shown, 0)
  BY SeenToZero DEF ShownInv, PInv, SInv, TypeOK
<1>3. SeenTo(log', page'.shown, page'.url) /\ SeenTo(log', page'.shown, page'.last)
  BY <1>2 DEF ShownInv
<1>4. SeenTo(log', page'.shown, page'.offset) /\ NoHoles(log', page'.shown)
  BY DEF ShownInv
<1>5. ASSUME NEW c \in page'.conn PROVE Flow(log', page'.shown, conn'[c], wire'[c])
  BY <1>5 DEF ShownInv
<1> QED BY <1>1, <1>3, <1>4, <1>5 DEF ShownInv

LEMMA SeenPage ==
  ASSUME ShownInv, PInv',
         Mount \/ Refused \/ Poll \/ CrashSeen \/ LeavePage \/ \E c \in Conns : NetworkBreaks(c)
  PROVE  ShownInv'
<1>1. page \in Page
  BY DEF ShownInv, PInv
<1>2. UNCHANGED log
  BY DEF Mount, Refused, Poll, CrashSeen, LeavePage, NetworkBreaks, RequestFails, Crash, Hangup, svars
<1>3. CASE page' = OpenSource(page) /\ UNCHANGED svars
  <2>1. /\ page'.shown = page.shown /\ page'.offset = page.offset /\ page'.url = page.offset
        /\ page'.last = 0 /\ page'.conn = page.conn
    BY <1>1, <1>3 DEF OpenSource, Page
  <2> QED BY <1>2, <1>3, <2>1, SeenQuiet DEF svars
<1>4. ASSUME NEW pc, page' = CloseSource(page, pc) \/ page' = [CloseSource(page, pc) EXCEPT !.tries = page.tries + 1]
      PROVE  ShownInv'
  <2>1. /\ page'.shown = page.shown /\ page'.offset = page.offset /\ page'.url = 0
        /\ page'.last = 0 /\ page'.conn = {}
    BY <1>1, <1>4 DEF CloseSource, Page
  <2> QED BY <1>2, <2>1, SeenQuiet
<1>5. CASE page' = LoseSource(page)
  <2>1. /\ page'.shown = page.shown /\ page'.offset = page.offset /\ page'.url = page.url
        /\ page'.last = page.last /\ page'.conn = {}
    BY <1>1, <1>5 DEF LoseSource, Page
  <2> QED BY <1>2, <2>1, SeenQuiet
<1>6. CASE page' = [page EXCEPT !.pc = "settled"] /\ UNCHANGED svars
  <2>1. /\ page'.shown = page.shown /\ page'.offset = page.offset /\ page'.url = page.url
        /\ page'.last = page.last /\ page'.conn = page.conn
    BY <1>1, <1>6 DEF Page
  <2> QED BY <1>2, <1>6, <2>1, SeenQuiet DEF svars
<1>7. CASE CrashSeen
  <2>1. CASE page.pc = "reading"
    BY <1>5, <1>7, <2>1 DEF CrashSeen, Turn
  <2>2. CASE page.pc # "reading"
    <3>1. page' = page /\ conn' = [c \in Conns |-> Idle] /\ wire' = [c \in Conns |-> <<>>]
      BY <1>7, <2>2 DEF CrashSeen, Turn, Crash
    <3>2. ASSUME NEW c \in page.conn PROVE Flow(log', page'.shown, conn'[c], wire'[c])
      <4>1. conn'[c] = Idle /\ wire'[c] = <<>>
        BY <1>1, <3>1, <3>2 DEF Page
      <4> QED BY <4>1 DEF Flow, InOrder, Idle
    <3>3. AllGood(page.shown)'
      BY <1>2, <3>1 DEF ShownInv, AllGood, Good, Number
    <3> QED BY <1>2, <3>1, <3>2, <3>3 DEF ShownInv
  <2> QED BY <2>1, <2>2
<1>8. CASE Refused
  <2>1. page' = [CloseSource(page, IF page.tries < MaxReconnects THEN "polling" ELSE "settled")
                   EXCEPT !.tries = page.tries + 1]
    BY <1>1, <1>8 DEF Refused, Turn, CloseSource, Page
  <2>2. CASE page.tries < MaxReconnects
    <3>1. page' = [CloseSource(page, "polling") EXCEPT !.tries = page.tries + 1]
      BY <2>1, <2>2
    <3> QED BY <1>4, <3>1
  <2>3. CASE ~(page.tries < MaxReconnects)
    <3>1. page' = [CloseSource(page, "settled") EXCEPT !.tries = page.tries + 1]
      BY <2>1, <2>3
    <3> QED BY <1>4, <3>1
  <2> QED BY <2>2, <2>3
<1> QED BY <1>3, <1>4, <1>5, <1>6, <1>7, <1>8 DEF Mount, Poll, Act, LeavePage, NetworkBreaks, Turn

LEMMA SeenAccepted ==
  ASSUME ShownInv, PInv', NEW c \in Conns, Accepted(c)
  PROVE  ShownInv'
<1>1. page \in Page /\ SInv
  BY DEF ShownInv, PInv
<1>2. /\ page' = [page EXCEPT !.pc = "reading", !.conn = {c}, !.tries = 0]
      /\ conn' = [conn EXCEPT ![c] = Reader(TRUE, ResumeOffset)]
      /\ UNCHANGED <<log, wire>> /\ wire[c] = <<>>
  BY DEF Accepted, Connect, Turn, Step
<1>3. /\ page'.shown = page.shown /\ page'.offset = page.offset /\ page'.url = page.url
      /\ page'.last = page.last /\ page'.conn = {c}
  BY <1>1, <1>2 DEF Page
<1> DEFINE r == Reader(TRUE, ResumeOffset)
<1>4. conn'[c] = r
  BY <1>1, <1>2 DEF SInv, TypeOK
<1>5. r.live /\ r.offset = ResumeOffset /\ r.pos = 0 /\ r.pc = "open"
  BY DEF Reader, Idle
<1>6. SeenTo(log, page.shown, ResumeOffset)
  BY DEF ShownInv, ResumeOffset
<1> HIDE DEF r
<1>7. Flow(log', page'.shown, conn'[c], wire'[c])
  <2>1. Passed(r) = 1
    BY <1>5 DEF Passed
  <2>2. InOrder(log, page.shown, <<>>) /\ CoveredBelow(log, page.shown, <<>>, Len(<<>>), 1)
    BY DEF InOrder, CoveredBelow
  <2>3. Flow(log, page.shown, r, <<>>)
    BY <1>5, <1>6, <2>1, <2>2 DEF Flow
  <2> QED BY <1>2, <1>3, <1>4, <2>3
<1>8. AllGood(page.shown)'
  BY <1>2, <1>3 DEF ShownInv, AllGood, Good, Number
<1> QED BY <1>2, <1>3, <1>7, <1>8 DEF ShownInv

(* The frame that is read names a line of the log by its number, and all     *)
(* lines before it have been shown.                                          *)
LEMMA FirstFrame ==
  ASSUME ShownInv, NEW c \in Conns, page.conn = {c}, wire[c] # <<>>, Head(wire[c]).kind = "event"
  PROVE  LET f == Head(wire[c]) IN
         /\ Good([id |-> f.id, line |-> f.line])
         /\ f.id = Num(log, f.line) /\ f.line \in 1..Len(log) /\ log[f.line] = "text" /\ f.line \in Nat
         /\ Flow(log, page.shown, conn[c], wire[c])
         /\ \A i \in 1..f.line - 1 : log[i] = "text" => Seen(log, page.shown, i)
<1> DEFINE f == Head(wire[c])
           x == [id |-> f.id, line |-> f.line]
<1>1. /\ wire[c] \in Seq(Frame) /\ FramesGood(wire[c])
      /\ Flow(log, page.shown, conn[c], wire[c])
  BY Before DEF ShownInv, PInv
<1>2. Good(x)
  <2> DEFINE w == wire[c]
  <2>1. w \in Seq(Frame) /\ w # <<>>
    BY <1>1
  <2> HIDE DEF w
  <2>2. 1 \in 1..Len(w) /\ Head(w) = w[1]
    BY <2>1
  <2>3. 1 \in 1..Len(wire[c]) /\ f = wire[c][1]
    BY <2>2 DEF w
  <2> QED BY <1>1, <2>3 DEF FramesGood
<1>3. /\ f.id = Num(log, f.line) /\ f.line \in 1..Len(log) /\ log[f.line] = "text" /\ f.line \in Nat
  BY <1>2 DEF Good, Num, Number
<1>4. InOrder(log, page.shown, wire[c])
  BY <1>1 DEF Flow
<1>5. CoveredBelow(log, page.shown, wire[c], 0, f.line)
  BY <1>1, <1>3, <1>4, ShownFlows
<1> HIDE DEF f
<1>6. \A i \in 1..f.line - 1 : log[i] = "text" => Seen(log, page.shown, i)
  BY <1>5 DEF CoveredBelow, Covered, Carried
<1> QED BY <1>1, <1>2, <1>3, <1>6 DEF f

LEMMA SeenRead ==
  ASSUME ShownInv, PInv', NEW c \in Conns, ReadFrame(c)
  PROVE  ShownInv'
<1> DEFINE f == Head(wire[c])
           x == [id |-> f.id, line |-> f.line]
           sh == page.shown
           m == sh \cup {x}
<1>1. page \in Page /\ SInv /\ wire[c] \in Seq(Frame) /\ FramesGood(wire[c]) /\ log \in Seq(Lines)
  BY Before DEF ShownInv, PInv
<1>2. /\ page.conn = {c} /\ wire[c] # <<>>
      /\ wire' = [wire EXCEPT ![c] = Tail(wire[c])]
      /\ UNCHANGED <<log, conn>>
  BY DEF ReadFrame, Receive
<1>3. CASE page' = CloseSource(page, "settled")
  <2>1. /\ page'.shown = page.shown /\ page'.offset = page.offset /\ page'.url = 0
        /\ page'.last = 0 /\ page'.conn = {}
    BY <1>1, <1>3 DEF CloseSource, Page
  <2> QED BY <1>2, <2>1, SeenQuiet
<1>4. CASE f.kind = "event" /\ page' = [page EXCEPT !.last = f.id, !.offset = f.id, !.shown = m]
  <2>1. Good(x)
    BY <1>2, <1>4, FirstFrame
  <2>2. /\ f.id = Num(log, f.line) /\ f.line \in 1..Len(log) /\ log[f.line] = "text" /\ f.line \in Nat
    BY <2>1 DEF Good, Num, Number
  <2>3. Flow(log, sh, conn[c], wire[c])
    BY <1>2, <1>4, FirstFrame
  <2>4. InOrder(log, sh, wire[c])
    BY <2>3 DEF Flow
  <2>5. /\ CoveredBelow(log, sh, wire[c], 0, f.line)
        /\ InOrder(log, m, Tail(wire[c]))
        /\ \A n : CoveredBelow(log, sh, wire[c], Len(wire[c]), n)
                    => CoveredBelow(log, m, Tail(wire[c]), Len(Tail(wire[c])), n)
    BY <1>1, <1>2, <1>4, <2>2, <2>4, ShownFlows
  <2>6. /\ page'.shown = m /\ page'.offset = f.id /\ page'.url = page.url
        /\ page'.last = f.id /\ page'.conn = {c}
    BY <1>1, <1>2, <1>4 DEF Page
  <2> HIDE DEF f, m
  <2>7. /\ \A i : Seen(log, sh, i) => Seen(log, m, i)
        /\ Seen(log, m, f.line)
    BY <2>2 DEF Seen, m
  <2>8. ASSUME NEW i \in 1..f.line, log[i] = "text" PROVE Seen(log, m, i)
    <3>1. CASE i = f.line
      BY <2>7, <3>1
    <3>2. CASE i # f.line
      <4>1. i \in 1..f.line - 1
        BY <2>2, <3>2
      <4> QED BY <2>5, <2>7, <2>8, <4>1 DEF CoveredBelow, Covered, Carried
    <3> QED BY <3>1, <3>2
  <2>9. SeenTo(log, m, f.id)
    <3>1. /\ \A i, j \in Nat : i <= j => Num(log, i) <= Num(log, j)
          /\ \A i, j \in Nat : i < j /\ log[j] = "text" => Num(log, i) < Num(log, j)
          /\ \A i \in Nat : Num(log, i) \in Nat
      BY NumFacts
    <3>5. \A i \in Nat : Num(log, i) \in Nat
      BY NumFacts
    <3>4. Len(log) \in Nat /\ f.line <= Len(log)
      BY <1>1, <2>2
    <3>2. f.id <= Num(log, Len(log))
      BY <2>2, <3>1, <3>4
    <3>3. ASSUME NEW i \in 1..Len(log), log[i] = "text", Num(log, i) <= f.id PROVE Seen(log, m, i)
      <4>1. ~(f.line < i)
        <5>3. i \in Nat
          BY <3>4
        <5>1. i \in Nat /\ Num(log, i) \in Nat /\ Num(log, f.line) \in Nat
          BY <2>2, <3>5, <5>3
        <5>2. ~(Num(log, f.line) < Num(log, i))
          BY <2>2, <3>3, <5>1
        <5> QED BY <2>2, <3>1, <3>3, <5>1, <5>2
      <4>2. i \in 1..f.line
        BY <2>2, <4>1
      <4> QED BY <2>8, <3>3, <4>2
    <3> QED BY <3>2, <3>3 DEF SeenTo
  <2>10. \A n : SeenTo(log, sh, n) => SeenTo(log, m, n)
    BY <2>7 DEF SeenTo
  <2>11. NoHoles(log, m)
    <3>1. ASSUME NEW e \in m, NEW i \in 1..e.line, log[i] = "text" PROVE Seen(log, m, i)
      <4>1. CASE e \in sh
        BY <2>7, <3>1, <4>1 DEF ShownInv, NoHoles
      <4>2. CASE e = x
        BY <2>8, <3>1, <4>2
      <4> QED BY <3>1, <4>1, <4>2 DEF m
    <3> QED BY <3>1 DEF NoHoles
  <2>12. AllGood(m)
    BY <2>1 DEF ShownInv, AllGood, m
  <2>13. AllGood(page.shown)'
    BY <1>2, <2>6, <2>12 DEF AllGood, Good, Number
  <2>14. SeenTo(log, m, page.url)
    BY <2>10 DEF ShownInv
  <2>15. Flow(log, m, conn[c], Tail(wire[c]))
    BY <2>3, <2>5, <2>10 DEF Flow
  <2>16. wire'[c] = Tail(wire[c])
    BY <1>1, <1>2 DEF SInv, TypeOK
  <2> QED BY <1>2, <2>6, <2>9, <2>11, <2>13, <2>14, <2>15, <2>16 DEF ShownInv
<1> QED BY <1>3, <1>4 DEF ReadFrame, Turn

LEMMA ShownInit == Init => ShownInv
<1> SUFFICES ASSUME Init PROVE ShownInv
  OBVIOUS
<1>1. PInv
  BY PageInit
<1>2. /\ page.shown = {} /\ page.offset = 0 /\ page.url = 0 /\ page.last = 0 /\ page.conn = {}
  BY DEF Init, Blank
<1>3. SeenTo(log, page.shown, 0)
  BY <1>1, SeenToZero DEF PInv, SInv, TypeOK
<1> QED BY <1>1, <1>2, <1>3 DEF ShownInv, AllGood, NoHoles

LEMMA ShownNext ==
  ASSUME ShownInv, [Next]_vars
  PROVE  ShownInv'
<1>0. PInv'
  BY PageNext DEF ShownInv
<1>1. CASE UNCHANGED <<log, conn, wire, page>>
  <2>1. /\ page'.shown = page.shown /\ page'.offset = page.offset /\ page'.url = page.url
        /\ page'.last = page.last /\ page'.conn = page.conn
    BY <1>1
  <2> QED BY <1>0, <1>1, <2>1, SeenQuiet
<1>2. ASSUME NEW k \in Lines, WriteLine(k), UNCHANGED page PROVE ShownInv'
  BY <1>0, <1>2, SeenGrowth DEF WriteLine
<1>3. CASE ContainerExits /\ UNCHANGED page
  <2>1. CASE UNCHANGED log
    BY <1>1, <1>3, <2>1 DEF ContainerExits
  <2>2. CASE log' = Append(log, "text")
    <3>1. "text" \in Lines
      BY DEF Lines
    <3> QED BY <1>0, <1>3, <2>2, <3>1, SeenGrowth DEF ContainerExits
  <2> QED BY <1>3, <2>1, <2>2 DEF ContainerExits
<1>4. CASE (RemovedElsewhere \/ RowCommitted \/ EndElsewhere) /\ UNCHANGED page
  BY <1>1, <1>4 DEF RemovedElsewhere, RowCommitted, EndElsewhere
<1>5. ASSUME NEW c \in Conns, Work(c), UNCHANGED page PROVE ShownInv'
  BY <1>0, <1>5, SeenTakeLine, SeenPause, SeenFlush, SeenFinal DEF Work
<1>6. ASSUME NEW c \in Conns, LogCut(c) \/ StreamBreaks(c) \/ FinalFails(c), UNCHANGED page
      PROVE  ShownInv'
  BY <1>0, <1>6, SeenPause, SeenFinal
<1>7. ASSUME NEW events \in loose, LooseFlush(events), UNCHANGED page PROVE ShownInv'
  BY <1>1, <1>7 DEF LooseFlush
<1>8. CASE PageStep
  BY <1>0, <1>8, SeenPage, SeenAccepted, SeenRead DEF PageStep
<1>9. CASE CrashSeen \/ LeavePage \/ \E c \in Conns : NetworkBreaks(c)
  BY <1>0, <1>9, SeenPage
<1>10. CASE UNCHANGED vars
  BY <1>1, <1>10 DEF vars, svars
<1> QED BY <1>2, <1>3, <1>4, <1>5, <1>6, <1>7, <1>8, <1>9, <1>10 DEF Next, Server, Container

LEMMA ShownInvariance == Spec => []ShownInv
<1>1. ShownInv /\ [Next]_vars => ShownInv'
  BY ShownNext
<1> QED BY <1>1, ShownInit, PTL DEF Spec

(* The page never shows a line before one that precedes it, however often    *)
(* its network, its stream or the server breaks, and wherever it resumes:    *)
(* the offset it names stands for lines it has been shown, since numbers are *)
(* facts of the log, and each connection sends the others in their order     *)
(* (_resume_offset, stream_events).                                          *)
THEOREM PageMissesNothing == Spec => []NothingSkipped
<1>1. ShownInv => NothingSkipped
  BY DEF ShownInv, NoHoles, NothingSkipped, Seen, Num, Number
<1> QED BY <1>1, ShownInvariance, PTL

-----------------------------------------------------------------------------
(* The page is a feed                                                        *)

ShownLines == {e.line : e \in page.shown}

(* What one more event adds. *)
LEMMA LineAdded ==
  ASSUME NEW S, NEW x
  PROVE  {e.line : e \in S \cup {x}} = {e.line : e \in S} \cup {x.line}
OBVIOUS

LEMMA LineThere ==
  ASSUME NEW n, NEW i, NEW x, x = [id |-> n, line |-> i], x \in page.shown
  PROVE  i \in ShownLines
<1>1. x.line = i
  OBVIOUS
<1>2. x.line \in {e.line : e \in page.shown}
  OBVIOUS
<1> QED BY <1>1, <1>2 DEF ShownLines

(* A frame shows the first line that has not been shown, or nothing new.     *)
LEMMA FeedRead ==
  ASSUME ShownInv, NEW c \in Conns, ReadFrame(c)
  PROVE  UNCHANGED <<log, ShownLines>> \/ \E i \in 1..Len(log) : Transcript!Show(i)
<1> DEFINE f == Head(wire[c])
           x == [id |-> f.id, line |-> f.line]
<1>1. page \in Page /\ page.conn = {c} /\ wire[c] # <<>> /\ UNCHANGED log
  BY DEF ReadFrame, Receive, ShownInv, PInv
<1>2. CASE page' = CloseSource(page, "settled")
  <2>1. page'.shown = page.shown
    BY <1>1, <1>2 DEF CloseSource, Page
  <2> QED BY <1>1, <2>1 DEF ShownLines
<1>3. CASE /\ f.kind = "event"
           /\ page' = [page EXCEPT !.last = f.id, !.offset = f.id, !.shown = page.shown \cup {x}]
  <2>1. page'.shown = page.shown \cup {x}
    BY <1>1, <1>3 DEF Page
  <2>2. f.line \in 1..Len(log) /\ log[f.line] = "text"
    BY <1>1, <1>3, FirstFrame
  <2>3. \A i \in 1..f.line - 1 : log[i] = "text" => Seen(log, page.shown, i)
    BY <1>1, <1>3, FirstFrame
  <2> HIDE DEF f
  <2>4. ShownLines' = ShownLines \cup {f.line}
    <3>1. x.line = f.line
      OBVIOUS
    <3> HIDE DEF x
    <3>2. {e.line : e \in page.shown \cup {x}} = {e.line : e \in page.shown} \cup {x.line}
      BY LineAdded
    <3> QED BY <2>1, <3>1, <3>2 DEF ShownLines
  <2>5. \A i \in 1..f.line - 1 : log[i] = "text" => i \in ShownLines
    BY <2>3, LineThere DEF Seen
  <2> HIDE DEF x
  <2>6. CASE f.line \in ShownLines
    BY <1>1, <2>4, <2>6
  <2>7. CASE f.line \notin ShownLines
    <3> DEFINE n == f.line
               S == {e.line : e \in page.shown}
    <3>1. n \in 1..Len(log) /\ log[n] = "text" /\ n \notin S
      BY <2>2, <2>7 DEF ShownLines
    <3>2. \A j \in 1..n - 1 : ~(log[j] = "text" /\ j \notin S)
      BY <2>5 DEF ShownLines
    <3>3. {e.line : e \in page'.shown} = S \cup {n}
      BY <2>4 DEF ShownLines
    <3> HIDE DEF n
    <3> QED BY <1>1, <3>1, <3>2, <3>3 DEF Transcript!Show, Transcript!Awaited
  <2> QED BY <2>6, <2>7
<1> QED BY <1>2, <1>3 DEF ReadFrame, Turn

(* Nothing else changes what the page shows. *)
LEMMA FeedPage ==
  ASSUME ShownInv,
         Mount \/ Refused \/ Poll \/ CrashSeen \/ LeavePage
           \/ \E c \in Conns : NetworkBreaks(c) \/ Accepted(c)
  PROVE  UNCHANGED <<log, ShownLines>>
<1>1. page \in Page
  BY DEF ShownInv, PInv
<1>2. UNCHANGED log
  BY DEF Mount, Refused, Poll, CrashSeen, LeavePage, NetworkBreaks, Accepted, Connect, RequestFails,
         Crash, Hangup, svars
<1>3. page'.shown = page.shown
  <2>1. ASSUME NEW pc PROVE /\ CloseSource(page, pc).shown = page.shown
                            /\ [CloseSource(page, pc) EXCEPT !.tries = @ + 1].shown = page.shown
    BY <1>1 DEF CloseSource, Page
  <2>2. OpenSource(page).shown = page.shown /\ LoseSource(page).shown = page.shown
    BY <1>1 DEF OpenSource, LoseSource, Page
  <2>3. CASE Refused
    BY <2>1, <2>3 DEF Refused, Turn
  <2>4. CASE Mount \/ Poll
    BY <1>1, <2>1, <2>2, <2>4 DEF Mount, Poll, Act, Turn, Page
  <2>5. CASE CrashSeen \/ LeavePage \/ \E c \in Conns : NetworkBreaks(c)
    BY <2>1, <2>2, <2>5 DEF CrashSeen, LeavePage, NetworkBreaks, Turn
  <2>6. ASSUME NEW c \in Conns, Accepted(c) PROVE page'.shown = page.shown
    BY <1>1, <2>6 DEF Accepted, Turn, Page
  <2> QED BY <2>3, <2>4, <2>5, <2>6
<1> QED BY <1>2, <1>3 DEF ShownLines

LEMMA FeedStep ==
  ASSUME ShownInv, [Next]_vars
  PROVE  [Transcript!FeedNext]_<<log, ShownLines>>
<1>1. ASSUME NEW k \in Lines, log' = Append(log, k), UNCHANGED page
      PROVE  Transcript!FeedNext
  <2>1. UNCHANGED ShownLines
    BY <1>1 DEF ShownLines
  <2>2. Transcript!Write(k)
    BY <1>1, <2>1 DEF Transcript!Write, ShownLines
  <2> QED BY <2>2 DEF Transcript!FeedNext, Lines
<1>2. CASE UNCHANGED <<log, page>>
  BY <1>2 DEF ShownLines
<1>3. ASSUME NEW k \in Lines, WriteLine(k), UNCHANGED page PROVE Transcript!FeedNext
  BY <1>1, <1>3 DEF WriteLine
<1>4. CASE ContainerExits /\ UNCHANGED page
  <2>1. "text" \in Lines
    BY DEF Lines
  <2> QED BY <1>1, <1>2, <1>4, <2>1 DEF ContainerExits
<1>5. CASE (RemovedElsewhere \/ RowCommitted \/ EndElsewhere) /\ UNCHANGED page
  BY <1>2, <1>5 DEF RemovedElsewhere, RowCommitted, EndElsewhere
<1>6. ASSUME NEW c \in Conns, Work(c) \/ LogCut(c) \/ StreamBreaks(c) \/ FinalFails(c),
             UNCHANGED page
      PROVE  UNCHANGED <<log, page>>
  BY <1>6 DEF Work, TakeLine, OpenLog, Keepalive, Flush, LogEnds, LastFlush, FinalRead,
              FinalRemove, FinalWrite, LogCut, StreamBreaks, FinalFails
<1>7. ASSUME NEW events \in loose, LooseFlush(events), UNCHANGED page
      PROVE  UNCHANGED <<log, page>>
  BY <1>7 DEF LooseFlush
<1>8. ASSUME NEW c \in Conns, ReadFrame(c) PROVE [Transcript!FeedNext]_<<log, ShownLines>>
  BY <1>8, FeedRead DEF Transcript!FeedNext
<1>9. CASE Mount \/ Refused \/ Poll \/ CrashSeen \/ LeavePage
             \/ \E c \in Conns : NetworkBreaks(c) \/ Accepted(c)
  BY <1>9, FeedPage
<1>10. CASE UNCHANGED vars
  BY <1>2, <1>10 DEF vars, svars
<1> QED
  BY <1>2, <1>3, <1>4, <1>5, <1>6, <1>7, <1>8, <1>9, <1>10 DEF Next, Server, Container, PageStep

(* The page implements Feed, for any log, number of connections and faults:  *)
(* each step of page, stream and server shows the first line that has not    *)
(* been shown, appends a line, or is a stutter.                              *)
THEOREM PageIsFeed == Spec => KeepsFeed
<1>1. Init => Transcript!FeedInit
  <2> SUFFICES ASSUME Init PROVE Transcript!FeedInit
    OBVIOUS
  <2>1. log = <<>> /\ page.shown = {}
    BY DEF Init, StreamInit, Blank
  <2> QED BY <2>1 DEF Transcript!FeedInit
<1>2. ShownInv /\ [Next]_vars => [Transcript!FeedNext]_<<log, {e.line : e \in page.shown}>>
  BY FeedStep DEF ShownLines
<1> QED BY <1>1, <1>2, ShownInvariance, PTL DEF Spec, KeepsFeed, Transcript!FeedSpec

=============================================================================
