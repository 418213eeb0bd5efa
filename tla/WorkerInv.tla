------------------------------ MODULE WorkerInv -----------------------------
(***************************************************************************)
(* The inductive strengthening behind the safety invariants of Worker.      *)
(***************************************************************************)
EXTENDS Worker

\* Every event some run or the table itself still knows.
Known == outbox \cup UNION {run[r].events : r \in Run}

\* Two staged writes of one fixture are the same write of the same run, two
\* staged events never share an id, and a run stages a fixture of its batch once.
LocksExclusive ==
  /\ \A r, q \in Run : \A w \in run[r].tx, v \in run[q].tx :
       /\ w.match = v.match => r = q /\ w = v
       /\ w.event = v.event /\ w.event # 0 => w.match = v.match
  /\ \A r \in Run : \A w \in run[r].tx :
       run[r].pc = "sync" /\ run[r].batch[w.match].gate = None

\* A daily run has one fixture per transaction, and no other run inserts events.
OneEventEach ==
  \A r \in Run : \A w, v \in run[r].tx :
    /\ r \in Daily => w = v
    /\ w.event # 0 => r \in Daily

\* An id is taken once, and the events of a fixture are committed in id order
\* because its row lock is held from the insert to the commit.
IdsOrdered ==
  /\ \A m \in Match : seen[m].change <= change[m] /\ change[m] < nextEvent
  /\ \A e \in Known : e.id <= change[e.match]
  /\ \A e, f \in Known : e.id = f.id => e.match = f.match
  /\ \A r \in Run : \A w \in run[r].tx : w.event # 0 =>
       /\ change[w.match] < w.event /\ w.event < nextEvent
       /\ \A e \in Known : e.id # w.event

\* What a run has published of its events is in the queue or was read since.
DrainCovered ==
  \A r \in Run :
    /\ run[r].unsent \subseteq run[r].events
    /\ \A e \in run[r].events \ run[r].unsent :
         e.id <= seen[e.match].change \/ Queued(e.match)

\* Rows exist before anything refers to them, as rabbit_event's foreign key wants.
RowsExist ==
  /\ \A e \in Known : db[e.match].gate # None
  /\ \A r \in Run : \A w \in run[r].tx : w.row.gate # None

\* A write with an event alters the gated columns.  A write without one leaves
\* them or comes from the backfill, whose fixtures are finished.
SilentWrites ==
  /\ \A r \in Historic, m \in Match : run[r].batch[m].gate \in Finished \cup {None}
  /\ \A r \in Run : \A w \in run[r].tx :
       /\ w.event = 0 => w.row.gate = db[w.match].gate \/ w.row.gate \in Finished
       /\ w.event # 0 => w.row.gate # db[w.match].gate
  /\ \A m \in Match : db[m].gate \in Upcoming /\ seen[m].change = change[m]
       => seen[m].gate = db[m].gate

\* So has what is queued: the foreign key of rabbit_event.match_id, once more.
QueuedExist == \A i \in 1..Len(queue) : db[queue[i]].gate # None

\* What was handed to a job has a row, and rows are never deleted.
DeliveredExist == \A m \in Match : seen[m].gate # None => db[m].gate # None

\* A daily run fetches upcoming fixtures only, so what it announces is one.
AnnouncedUpcoming ==
  /\ \A r \in Daily, m \in Match : run[r].batch[m].gate \in Upcoming \cup {None}
  /\ \A r \in Run : \A w \in run[r].tx : w.event # 0 => w.row.gate \in Upcoming

\* The inductive invariant of Worker, its type invariant apart.
Bookkeeping ==
  /\ LocksExclusive
  /\ OneEventEach
  /\ IdsOrdered
  /\ DrainCovered
  /\ RowsExist
  /\ SilentWrites
  /\ NoLostChange
  /\ QueuedExist
  /\ DeliveredExist
  /\ AnnouncedUpcoming

IInv == TypeOK /\ Bookkeeping
=============================================================================
