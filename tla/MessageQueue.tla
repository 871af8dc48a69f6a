---------------------------- MODULE MessageQueue ----------------------------
(***************************************************************************)
(* The message queue of one session: src/queue_manager.py.                 *)
(*                                                                         *)
(* QueueManager keeps the items of a session in memory and appends one     *)
(* line per change to queue.jsonl; load_queue replays that file when the   *)
(* server starts.  `mem` is the list in memory.  load_queue is a fold over *)
(* the lines of the file followed by a filter, so the file is represented  *)
(* by what the fold has reached at its last line: the items rebuilt so far *)
(* in `file`, the newest history marker in `cleared`; and by how that last *)
(* line ends.                                                              *)
(*                                                                         *)
(* An item is identified by the order of its creation.  That order stands  *)
(* for queue_id, for created_at (a clock that advances between two items)  *)
(* and for the place in the Python list, which decides between two equal   *)
(* positions because the sort is stable.                                   *)
(***************************************************************************)
EXTENDS Integers, FiniteSets

CONSTANTS MaxItems,         \* bound: items ever created
          MaxPending,       \* queue_config["max_queue_size"] of the session
          DefaultMaxPending,\* default of enqueue's max_queue_size argument
          MaxFaulty         \* bound: no write fails once so many items are
                            \* lost or moved

ASSUME MaxItemsAssumption == MaxItems \in Nat
ASSUME MaxFaultyAssumption == MaxFaulty \in Nat
ASSUME MaxPendingAssumption == MaxPending \in Nat /\ DefaultMaxPending \in Nat

VARIABLES mem,     \* _queues[session_id]: item -> status and position
          file,    \* the items rebuilt by replaying queue.jsonl to its end
          cleared, \* newest item named by a history_cleared line, or 0
          torn,    \* how the file ends: "no", with a complete line; "line",
                   \* with a part of one; "char", with a part of one that
                   \* ends inside a character; "dead", the replay stops at
                   \* bytes that are no text and never gets to the end
          created, \* number of items created so far
          lost,    \* history: items with a change that is not in the file
          moved    \* history: items requeue put in front, or that a restart
                   \* brought back because a change of theirs was lost
diskVars == <<file, cleared, torn>>
queueVars == <<mem, diskVars, created, lost, moved>>

Terminal == {"sent", "failed", "cancelled"}
Status == {"pending"} \union Terminal
Positions == -MaxItems .. MaxItems
Item == [status : Status, position : Positions]

\* A list of items: a function from the items it holds.
IsList(q) == q \in [DOMAIN q -> Item]

Pending(q) == {i \in DOMAIN q : q[i].status = "pending"}
Ended(q) == {i \in DOMAIN q : q[i].status \in Terminal}

Before(q, i, j) ==
  \/ q[i].position < q[j].position
  \/ q[i].position = q[j].position /\ i < j

\* The item i is the one peek_next returns.
IsNext(q, i) == i \in Pending(q) /\ \A j \in Pending(q) \ {i} : Before(q, i, j)

\* Faulty: a new item goes below the lowest position instead of above the
\* highest; a requeued one takes the lowest position instead of the one below.
BackIsFront(q, p) ==
  IF Pending(q) = {} THEN p = 0
  ELSE /\ \A i \in Pending(q) : p < q[i].position
       /\ \E i \in Pending(q) : q[i].position = p + 1
FrontTaken(q, p) ==
  IF Pending(q) = {} THEN p = -1
  ELSE /\ \A i \in Pending(q) : p <= q[i].position
       /\ \E i \in Pending(q) : q[i].position = p

\* One more than the highest pending position, one less than the lowest.
IsBack(q, p) ==
  IF Pending(q) = {} THEN p = 0
  ELSE /\ \A i \in Pending(q) : q[i].position < p
       /\ \E i \in Pending(q) : q[i].position = p - 1
IsFront(q, p) ==
  IF Pending(q) = {} THEN p = -1
  ELSE /\ \A i \in Pending(q) : p < q[i].position
       /\ \E i \in Pending(q) : q[i].position = p + 1

WithStatus(q, S, s) ==
  [i \in DOMAIN q |-> IF i \in S THEN [q[i] EXCEPT !.status = s] ELSE q[i]]
WithItem(q, i, p) ==
  [j \in DOMAIN q \union {i} |->
     IF j = i THEN [status |-> "pending", position |-> p] ELSE q[j]]
Keep(q, S) == [i \in DOMAIN q \intersect S |-> q[i]]

EmptyList == [i \in {} |-> [status |-> "pending", position |-> 0]]

-----------------------------------------------------------------------------
(* The file.  A line written after a torn one ends up on the same line:    *)
(* the replay skips both.  If that line is torn inside a character, what   *)
(* is written after it makes bytes that are no UTF-8.  The replay is given *)
(* up where it meets them, and as it decodes the file in blocks, the lines *)
(* in front of them in the same block are not read either.                 *)

Tears == {"no", "line", "char"}

\* What the replay may have rebuilt at an earlier line of the file: items come
\* in the order of their creation, and each was pending first.
Earlier ==
  {[i \in DOMAIN file \intersect 1 .. n |->
      IF i \in early THEN [file[i] EXCEPT !.status = "pending"] ELSE file[i]] :
    n \in 0 .. created, early \in SUBSET DOMAIN file}

\* The items with a change that a replay which ends in `items` and `newest`
\* has not read.
Unread(items, newest) ==
  {i \in DOMAIN file : i \notin DOMAIN items \/ items[i] # file[i]}
    \union {i \in 1 .. cleared : newest < cleared}

\* Lines about the items S are written where the replay does not get to.
AppendUnread(S) ==
  /\ torn' = "dead"
  /\ IF torn = "dead" THEN UNCHANGED <<file, cleared>> /\ lost' = lost \union S
     ELSE \E items \in Earlier, newest \in 0 .. cleared :
            /\ file' = items /\ cleared' = newest
            /\ lost' = lost \union S \union Unread(items, newest)

\* A line about the items S is written, and perhaps a part of another, of which
\* nothing is read.  The replay with it ends in the items `items` and the marker
\* `newest`, the file as one of `ends` says.
Append(S, items, newest, ends) ==
  \/ torn = "no" /\ torn' \in ends
     /\ file' = items /\ cleared' = newest /\ UNCHANGED lost
  \/ torn = "line" /\ torn' \in ends
     /\ lost' = lost \union S /\ UNCHANGED <<file, cleared>>
  \/ torn \in {"char", "dead"} /\ AppendUnread(S)

\* The write raises, having written nothing or the beginning of the line.
MayFail == Cardinality(lost \union moved) < MaxFaulty

AppendFails(S) ==
  /\ MayFail
  /\ \/ torn' \in (IF torn = "no" THEN Tears ELSE {torn})
           \union (IF torn = "line" THEN {"char"} ELSE {})
        /\ lost' = lost \union S /\ UNCHANGED <<file, cleared>>
     \/ torn = "char" /\ AppendUnread(S)

Write(S, items, newest, ok) ==
  IF ok THEN Append(S, items, newest, {"no"}) ELSE AppendFails(S)

\* Faulty: the marker drops waiting items too; the marker spares the very item
\* it names.
LoadDropsWaiting(items, newest) ==
  Keep(items, {i \in DOMAIN items : ~ (newest > 0 /\ i <= newest)})
\* The end of load_queue: what is kept of the items the replay has rebuilt.
Load(items, newest) ==
  Keep(items, {i \in DOMAIN items :
                 ~ (/\ items[i].status \in Terminal
                    /\ newest > 0
                    /\ i <= newest)})
AfterRestart == Load(file, cleared)

-----------------------------------------------------------------------------
Init == /\ mem = EmptyList /\ file = EmptyList
        /\ cleared = 0 /\ torn = "no"
        /\ created = 0
        /\ lost = {} /\ moved = {}

Enqueue(ok) ==
  /\ created < MaxItems
  /\ Cardinality(Pending(mem)) < MaxPending
  /\ created' = created + 1
  /\ \E p \in Positions :
       /\ IsBack(mem, p)
       /\ mem' = WithItem(mem, created + 1, p)
       /\ Write({created + 1}, WithItem(file, created + 1, p), cleared, ok)
  /\ UNCHANGED moved

\* cancel, mark_sent, mark_failed: the change in memory, then its line.
SetStatus(i, s, ok) ==
  /\ i \in DOMAIN mem
  /\ mem' = WithStatus(mem, {i}, s)
  /\ Write({i}, WithStatus(file, {i}, s), cleared, ok)
  /\ UNCHANGED <<created, moved>>

Cancel(i, ok) == i \in Pending(mem) /\ SetStatus(i, "cancelled", ok)
MarkSent(i, ok) == SetStatus(i, "sent", ok)
MarkFailed(i, ok) == SetStatus(i, "failed", ok)

\* The copy is enqueued at the back and then moved to the front in memory.
\* The second line, which records the move, has nothing the replay reads.
\* `writes` is how many of the two lines are written.
Requeue(i, writes) ==
  /\ created < MaxItems
  /\ i \in DOMAIN mem /\ mem[i].status \in {"sent", "failed"}
  /\ Cardinality(Pending(mem)) < DefaultMaxPending
  /\ created' = created + 1
  /\ moved' = moved \union {created + 1}
  /\ writes < 2 => MayFail
  /\ \E p, f \in Positions :
       /\ IsBack(mem, p) /\ IsFront(mem, f)
       /\ mem' = WithItem(mem, created + 1, IF writes = 0 THEN p ELSE f)
       /\ IF writes = 0 THEN AppendFails({created + 1})
          ELSE Append({created + 1}, WithItem(file, created + 1, p), cleared,
                      IF writes = 1 THEN Tears ELSE {"no"})

\* clear_pending writes a line per item.  Of the items `done` whose line was
\* written, those whose line can be read back.
Readable(done) ==
  CASE torn = "no" -> {done}
    [] torn = "line" -> {done \ {i} : i \in done}
    [] OTHER -> {}

\* The lines of `done` are written, those of `rest` not, or only in part.
CancelEach(done, rest, ends) ==
  \/ \E read \in Readable(done) :
       /\ file' = WithStatus(file, read, "cancelled") /\ UNCHANGED cleared
       /\ lost' = lost \union (done \ read) \union rest
       /\ torn' \in ends
  \/ torn \in {"char", "dead"} /\ AppendUnread(done \union rest)

ClearPending ==
  /\ Pending(mem) # {}
  /\ mem' = WithStatus(mem, Pending(mem), "cancelled")
  /\ CancelEach(Pending(mem), {}, {"no"})
  /\ UNCHANGED <<created, moved>>

\* The write raises at the item `bad`: the items after it stay pending.
ClearPendingFails ==
  /\ MayFail
  /\ \E done \in SUBSET Pending(mem) : \E bad \in Pending(mem) \ done :
       /\ mem' = WithStatus(mem, done \union {bad}, "cancelled")
       /\ IF done = {} THEN AppendFails({bad})
          ELSE CancelEach(done, {bad}, Tears)
  /\ UNCHANGED <<created, moved>>

\* The marker is written before the items are dropped from memory: when its
\* write raises, nothing has changed but perhaps the last line of the file.
ClearHistory(ok) ==
  /\ Ended(mem) # {}
  /\ IF ok
     THEN /\ \E newest \in Ended(mem) :
               /\ \A i \in Ended(mem) : i <= newest
               /\ Append(Ended(mem), file,
                         IF newest > cleared THEN newest ELSE cleared, {"no"})
          /\ mem' = Keep(mem, DOMAIN mem \ Ended(mem))
     ELSE AppendFails({}) /\ UNCHANGED mem
  /\ UNCHANGED <<created, moved>>

\* coordinator.reset_session empties the file and leaves the memory alone.
Truncate ==
  /\ file' = EmptyList /\ cleared' = 0 /\ torn' = "no"
  /\ lost' = lost \union DOMAIN mem
  /\ UNCHANGED <<mem, created, moved>>

\* The server dies, perhaps between two lines of clear_pending, and replays
\* the file when it is started again.  (If those lines come after a torn
\* character, it is as if ClearPendingFails came first.)
Restart ==
  /\ \/ UNCHANGED <<file, torn>>
     \/ \E done \in SUBSET Pending(mem) : \E read \in Readable(done) :
          file' = WithStatus(file, read, "cancelled") /\ torn' = "no"
  /\ mem' = Load(file', cleared)
  /\ lost' = {}
  /\ moved' = moved \union lost
  /\ UNCHANGED <<cleared, created>>

Next ==
  \/ \E ok \in BOOLEAN :
       \/ Enqueue(ok)
       \/ ClearHistory(ok)
       \/ \E i \in 1 .. MaxItems :
            Cancel(i, ok) \/ MarkSent(i, ok) \/ MarkFailed(i, ok)
  \/ \E i \in 1 .. MaxItems, writes \in 0 .. 2 : Requeue(i, writes)
  \/ ClearPending
  \/ ClearPendingFails
  \/ Truncate
  \/ Restart

Spec == Init /\ [][Next]_queueVars

-----------------------------------------------------------------------------
\* The variables keep their shape, and no item is newer than the last created.
TypeOK ==
  /\ created \in 0 .. MaxItems
  /\ IsList(mem) /\ DOMAIN mem \subseteq 1 .. created
  /\ IsList(file) /\ DOMAIN file \subseteq 1 .. created
  /\ cleared \in 0 .. created
  /\ torn \in Tears \union {"dead"}
  /\ lost \subseteq 1 .. created /\ moved \subseteq 1 .. created

\* No message is forgotten: an item that waits to be sent, and whose lines
\* the replay gets to, waits to be sent after a restart too (load_queue).
PendingSurvivesRestart == Pending(mem) \ lost \subseteq Pending(AfterRestart)

\* No message is sent again: an item that load_queue would make pending is
\* pending in memory now, so a cancelled, sent or cleared one stays so.
NoResurrection == Pending(AfterRestart) \ lost \subseteq Pending(mem)

\* History the user has cleared (clear_history) does not come back.
HistoryStaysCleared ==
  DOMAIN AfterRestart \ (lost \union DOMAIN mem) = {}

\* Messages wait in the order they came, before and after any restart, save
\* those requeue has moved to the front (the positions enqueue hands out).
FirstComeFirstServed ==
  \A i, j \in Pending(mem) \ moved : i < j => Before(mem, i, j)

\* A new message waits behind all the others; one that requeue copies goes in
\* front of them, unless the write of the copy failed.
NewestLastOrFirst ==
  [][created' > created =>
       IF created' \in moved' \ lost' THEN IsNext(mem', created')
       ELSE \/ created' \in moved'
            \/ \A i \in Pending(mem) : Before(mem', i, created')]_queueVars

-----------------------------------------------------------------------------
\* Who is in front of whom.
Ahead == {x \in Pending(mem) \X Pending(mem) :
            x[1] # x[2] /\ Before(mem, x[1], x[2])}

Durable == INSTANCE DurableQueue
             WITH arrived <- created, waiting <- Pending(mem), ahead <- Ahead,
                  loose <- lost, jumped <- moved

\* Memory, file and replay together keep what DurableQueue promises: whatever
\* is called and whichever writes fail, what left never waits again and nobody
\* overtakes, through any number of restarts (queue_manager.py).
KeepsPromise == Durable!Spec
=============================================================================
