---------------------------- MODULE BrowserProofs ----------------------------
(***************************************************************************)
(* Proofs about what a browser is shown, EventPoll and ToolCalls, for any  *)
(* number of sessions, messages and tool uses and any length of the        *)
(* queues.                                                                 *)
(*                                                                         *)
(* EventPoll: the type invariant, and that no message is lost but where    *)
(* the model says that one is.  NothingElseLost speaks of the place the    *)
(* browser goes on from.  It is kept only because the queue holds          *)
(* consecutive messages (QueuesRun), the place does not run ahead of the   *)
(* cursor and what the queue never held is in the history that was loaded  *)
(* (NothingMissed), and an answer that is on its way brings all that its   *)
(* cursor will claim (AnswerCovers).                                       *)
(*                                                                         *)
(* ToolCalls, in the second half: a reload shows the statuses the          *)
(* coordinator has, nothing spins in a session that has ended, and what    *)
(* has ended stays ended.  The statuses are of a moment when everything is *)
(* written and read; before it they follow from what is on its way.  The   *)
(* events that are written or will be read end with the status of each     *)
(* tool (EventsSettle), the file shows that status or one its frame or its *)
(* writes will bring it to (FileFollows), and a card is one the events     *)
(* that are left can bring there (CardsFit) or, when none is left, one     *)
(* that needs no event (CardsRight, CardsEnd).                             *)
(***************************************************************************)
EXTENDS EventPoll, ToolCalls, FiniteSetTheorems, SequenceTheorems, TLAPS

-----------------------------------------------------------------------------
(* Lists of consecutive messages.                                          *)

\* The list holds the last messages up to the message p.
RunsTo(list, p) ==
  /\ list \in Seq(Nat)
  /\ \A i \in 1 .. Len(list) : list[i] = p - Len(list) + i

\* What events_since returns are messages.
LEMMA SinceTyped ==
  ASSUME NEW list \in Seq(Nat), NEW o \in Nat, 1 <= o, NEW c \in Nat
  PROVE  EventsSince(list, o, c) \in Seq(Nat)
<1> DEFINE m == IF c < o - 1 THEN 1 ELSE c - o + 2
<1>1. m \in Int /\ m >= 1 /\ Len(list) \in Int
  OBVIOUS
<1>2. \A i \in m .. Len(list) : list[i] \in Nat
  BY <1>1, ElementOfSeq
<1> HIDE DEF m
<1>3. SubSeq(list, m, Len(list)) \in Seq(Nat)
  BY <1>1, <1>2, SubSeqProperties
<1> QED
  BY <1>3 DEF EventsSince, m

\* Of a queue that holds the places o to k, whose last message is p, a cursor
\* that is still in it is answered with the messages after it and no other.
LEMMA SinceIs ==
  ASSUME NEW list, NEW p \in Nat, RunsTo(list, p), NEW o \in Nat, 1 <= o, NEW k \in Nat,
         Len(list) = k - o + 1, NEW c \in Nat, o - 1 <= c, c <= k
  PROVE  Range(EventsSince(list, o, c)) = (p - k + c + 1) .. p
<1> DEFINE m == c - o + 2
           n == Len(list)
           r == SubSeq(list, m, n)
<1>1. m \in Int /\ m >= 1 /\ n \in Int /\ n \in Nat /\ m <= n + 1
  BY DEF RunsTo
<1>2. \A i \in m .. n : list[i] \in Nat
  BY <1>1, ElementOfSeq DEF RunsTo
<1>3. EventsSince(list, o, c) = r
  BY DEF EventsSince
<1> HIDE DEF m, r, n
<1>4. /\ r \in Seq(Nat)
      /\ Len(r) = IF m <= n THEN n - m + 1 ELSE 0
      /\ \A i \in 1 .. n - m + 1 : r[i] = list[m + i - 1]
  BY <1>1, <1>2, SubSeqProperties DEF r
<1>5. Len(r) = n - m + 1
  BY <1>1, <1>4
<1>6. Range(r) = {r[i] : i \in 1 .. Len(r)}
  BY <1>4, RangeEquality
<1>7. \A i \in 1 .. n - m + 1 : r[i] = p - n + m + i - 1
  BY <1>1, <1>4 DEF RunsTo, n
<1>8. p - n + m = p - k + c + 1
  BY <1>1 DEF n, m
<1>9. n - m + 1 = k - c
  BY <1>1 DEF n, m
<1>10. \A i \in 1 .. k - c : r[i] = p - k + c + i
  BY <1>1, <1>7, <1>8, <1>9
<1>11. ASSUME NEW x \in (p - k + c + 1) .. p PROVE x \in Range(r)
  <2>1. x - (p - k + c) \in 1 .. k - c
    OBVIOUS
  <2>2. r[x - (p - k + c)] = x
    BY <2>1, <1>10
  <2> QED
    BY <2>1, <2>2, <1>5, <1>6, <1>9
<1>12. ASSUME NEW x \in Range(r) PROVE x \in (p - k + c + 1) .. p
  <2>1. PICK i \in 1 .. k - c : x = r[i]
    BY <1>5, <1>6, <1>9
  <2> QED
    BY <2>1, <1>10
<1> QED
  BY <1>3, <1>11, <1>12

\* A queue still holds consecutive messages when the next one is appended, be
\* it that the first one goes.
LEMMA AppendRuns ==
  ASSUME NEW list, NEW p \in Nat, RunsTo(list, p)
  PROVE  /\ RunsTo(Append(list, p + 1), p + 1)
         /\ Len(Append(list, p + 1)) = Len(list) + 1
         /\ list # <<>> => /\ RunsTo(Append(Tail(list), p + 1), p + 1)
                           /\ Len(Append(Tail(list), p + 1)) = Len(list)
<1>1. ASSUME NEW l, RunsTo(l, p)
      PROVE  RunsTo(Append(l, p + 1), p + 1) /\ Len(Append(l, p + 1)) = Len(l) + 1
  <2>1. /\ Append(l, p + 1) \in Seq(Nat)
        /\ Len(Append(l, p + 1)) = Len(l) + 1 /\ Len(l) \in Nat
        /\ \A i \in 1 .. Len(l) : Append(l, p + 1)[i] = l[i]
        /\ Append(l, p + 1)[Len(l) + 1] = p + 1
    BY <1>1, AppendProperties DEF RunsTo
  <2> QED
    BY <1>1, <2>1 DEF RunsTo
<1>2. ASSUME list # <<>> PROVE RunsTo(Tail(list), p) /\ Len(Tail(list)) + 1 = Len(list)
  <2>1. /\ Tail(list) \in Seq(Nat) /\ Len(Tail(list)) = Len(list) - 1 /\ Len(list) \in Nat
        /\ \A i \in 1 .. Len(Tail(list)) : Tail(list)[i] = list[i + 1]
    BY <1>2, HeadTailProperties DEF RunsTo
  <2> QED
    BY <2>1 DEF RunsTo
<1> QED
  BY <1>1, <1>2

-----------------------------------------------------------------------------(* The queues.                                                             *)

\* A queue holds the last messages that were published, in their order.
QueuesRun ==
  \A s \in Sessions :
    1 <= oldest[s] /\ cursor[s] <= published[s] /\ RunsTo(events[s], published[s])

\* Every step keeps the queues and their cursors as they should be.
LEMMA QueuesNext == TypeOK /\ QueuesRun /\ [Next]_vars =>
  /\ QueuesRun'
  /\ stored' \in [Sessions -> Nat] /\ published' \in [Sessions -> Nat]
  /\ events' \in [Sessions -> Seq(Nat)]
  /\ cursor' \in [Sessions -> Nat] /\ oldest' \in [Sessions -> Nat]
  /\ \A s \in Sessions : /\ published'[s] <= stored'[s]
                         /\ Len(events'[s]) = cursor'[s] - oldest'[s] + 1
                         /\ Len(events'[s]) <= MaxSize
<1> DEFINE Goal == 
  /\ QueuesRun'
  /\ stored' \in [Sessions -> Nat] /\ published' \in [Sessions -> Nat]
  /\ events' \in [Sessions -> Seq(Nat)]
  /\ cursor' \in [Sessions -> Nat] /\ oldest' \in [Sessions -> Nat]
  /\ \A s \in Sessions : /\ published'[s] <= stored'[s]
                         /\ Len(events'[s]) = cursor'[s] - oldest'[s] + 1
                         /\ Len(events'[s]) <= MaxSize
<1> SUFFICES ASSUME TypeOK, QueuesRun, [Next]_vars PROVE Goal
  OBVIOUS
<1>t. /\ stored \in [Sessions -> Nat] /\ published \in [Sessions -> Nat]
      /\ events \in [Sessions -> Seq(Nat)]
      /\ cursor \in [Sessions -> Nat] /\ oldest \in [Sessions -> Nat]
      /\ \A s \in Sessions : /\ published[s] <= stored[s]
                             /\ Len(events[s]) = cursor[s] - oldest[s] + 1
                             /\ Len(events[s]) <= MaxSize
  BY DEF TypeOK
<1>1. CASE UNCHANGED serverVars
  BY <1>1, <1>t DEF QueuesRun, serverVars
<1>2. ASSUME NEW s \in Sessions, Store(s) PROVE Goal
  <2>1. QueuesRun'
    BY <1>2 DEF QueuesRun, Store
  <2> QED
    BY <1>2, <2>1, <1>t DEF Store
<1>3. ASSUME NEW s \in Sessions, Publish(s) PROVE Goal
  <2> DEFINE p == published[s]
  <2>1. /\ p \in Nat /\ RunsTo(events[s], p) /\ oldest[s] \in Nat /\ cursor[s] \in Nat
        /\ Len(events[s]) = cursor[s] - oldest[s] + 1 /\ Len(events[s]) <= MaxSize
        /\ Len(events[s]) \in Nat /\ 1 <= oldest[s] /\ cursor[s] <= p
    BY <1>t DEF QueuesRun
  <2>2. /\ published' = [published EXCEPT ![s] = p + 1] /\ stored' = stored /\ p < stored[s]
        /\ AppendEvent(s, p + 1)
    BY <1>3 DEF Publish
  <2> HIDE DEF p
  <2>3. PICK l, o : /\ events' = [events EXCEPT ![s] = l] /\ RunsTo(l, p + 1) /\ Len(l) <= MaxSize
                    /\ oldest' = [oldest EXCEPT ![s] = o] /\ o \in {oldest[s], oldest[s] + 1}
                    /\ Len(l) = cursor[s] + 1 - o + 1
    <3>1. CASE Len(events[s]) = MaxSize
      <4> DEFINE l == Append(Tail(events[s]), p + 1)
      <4>1. events[s] # <<>>
        BY <3>1, <2>1, MaxSizeAssumption, EmptySeq
      <4>2. /\ events' = [events EXCEPT ![s] = l]
            /\ oldest' = [oldest EXCEPT ![s] = oldest[s] + 1]
        BY <3>1, <2>2 DEF AppendEvent
      <4>3. RunsTo(l, p + 1) /\ Len(l) = Len(events[s])
        BY <2>1, <4>1, AppendRuns
      <4> HIDE DEF l
      <4>4. Len(l) <= MaxSize /\ Len(l) = cursor[s] + 1 - (oldest[s] + 1) + 1
        BY <2>1, <4>3
      <4> QED
        BY <4>2, <4>3, <4>4
    <3>2. CASE Len(events[s]) # MaxSize
      <4> DEFINE l == Append(events[s], p + 1)
      <4>2. /\ events' = [events EXCEPT ![s] = l]
            /\ oldest' = [oldest EXCEPT ![s] = oldest[s]]
        BY <3>2, <2>2, <1>t DEF AppendEvent
      <4>3. RunsTo(l, p + 1) /\ Len(l) = Len(events[s]) + 1
        BY <2>1, AppendRuns
      <4> HIDE DEF l
      <4>4. Len(l) <= MaxSize /\ Len(l) = cursor[s] + 1 - oldest[s] + 1
        BY <2>1, <3>2, <4>3, MaxSizeAssumption
      <4> QED
        BY <4>2, <4>3, <4>4
    <3> QED
      BY <3>1, <3>2
  <2>4. cursor' = [cursor EXCEPT ![s] = cursor[s] + 1]
    BY <2>2 DEF AppendEvent
  <2>5. l \in Seq(Nat)
    BY <2>3 DEF RunsTo
  <2>6. QueuesRun'
    <3> SUFFICES ASSUME NEW q \in Sessions
                 PROVE  1 <= oldest'[q] /\ cursor'[q] <= published'[q] /\ RunsTo(events'[q], published'[q])
      BY DEF QueuesRun, RunsTo
    <3>1. CASE q = s
      <4>1. /\ events'[q] = l /\ published'[q] = p + 1 /\ oldest'[q] = o
            /\ cursor'[q] = cursor[s] + 1
        BY <2>2, <2>3, <2>4, <1>t, <3>1, SMTT(60)
      <4> QED
        BY <2>1, <2>3, <4>1
    <3>2. CASE q # s
      BY <2>2, <2>3, <2>4, <1>t, <3>2 DEF QueuesRun
    <3> QED
      BY <3>1, <3>2
  <2>7. /\ stored' \in [Sessions -> Nat] /\ published' \in [Sessions -> Nat]
        /\ cursor' \in [Sessions -> Nat] /\ oldest' \in [Sessions -> Nat]
    BY <2>1, <2>2, <2>3, <2>4, <1>t, SMTT(60)
  <2>8. events' \in [Sessions -> Seq(Nat)]
    BY <2>3, <2>5, <1>t
  <2>9. ASSUME NEW q \in Sessions
        PROVE  /\ published'[q] <= stored'[q]
               /\ Len(events'[q]) = cursor'[q] - oldest'[q] + 1
               /\ Len(events'[q]) <= MaxSize
    <3>1. CASE q = s
      BY <2>1, <2>2, <2>3, <2>4, <1>t, <3>1 DEF p
    <3>2. CASE q # s
      BY <2>1, <2>2, <2>3, <2>4, <1>t, <3>2
    <3> QED
      BY <3>1, <3>2
  <2> QED
    BY <2>6, <2>7, <2>8, <2>9
<1>4. CASE Reboot
  <2>1. Len(<<>>) = 0 /\ <<>> \in Seq(Nat) /\ \A p \in Nat : RunsTo(<<>>, p)
    BY DEF RunsTo
  <2>2. QueuesRun'
    BY <1>4, <2>1, <1>t DEF Reboot, QueuesRun
  <2> QED
    BY <1>4, <2>1, <2>2, <1>t, MaxSizeAssumption DEF Reboot
<1> QED
  BY <1>1, <1>2, <1>3, <1>4 DEF Next, vars, Select, Arrive, TimeOut, Answer, Ask, Take, Abort, Load,
     Connect, ConnectSession, Reselect, Sync, SyncDone, Revive, Reload, serverVars
-----------------------------------------------------------------------------
(* The browser.                                                            *)

Index == Nat \union {Undefined}

\* The session store, the message store, and the request of the loop: whose
\* loop it is has been loaded, and asks from the place that is kept for it.
SelectionOK ==
  /\ current \in Sessions \union {NoSession} /\ selecting \in BOOLEAN
  /\ loaded \subseteq Sessions
  /\ selecting => current \in Sessions
  /\ {healing, reviving} \subseteq loaded \union {NoSession} /\ overtaken \in BOOLEAN
StoreOK ==
  /\ seen \in [Sessions -> SUBSET Nat]
  /\ place \in [Sessions -> Index]
  /\ rest \in [Sessions -> Index]
  /\ missed \subseteq Sessions
RequestOK ==
  /\ polling \in loaded \union {NoSession}
  /\ req \in {"none", "asked", "waiting", "woken", "answered"}
  /\ since \in Nat /\ answer \in Seq(Nat) /\ next \in Nat
  /\ polling # NoSession => rest[polling] = Undefined /\ place[polling] # Undefined
  /\ req # "none" => polling # NoSession
  /\ req \in {"asked", "waiting", "woken"} => since = place[polling]
BrowserOK == SelectionOK /\ StoreOK /\ RequestOK

\* Every step keeps what the browser knows as it should be.
LEMMA BrowserNext == TypeOK /\ QueuesRun /\ BrowserOK /\ [Next]_vars => BrowserOK'
<1> SUFFICES ASSUME TypeOK, QueuesRun, BrowserOK, [Next]_vars PROVE BrowserOK'
  OBVIOUS
<1> USE NoSessionAssumption DEF healVars
<1>s. SelectionOK /\ StoreOK /\ RequestOK
  BY DEF BrowserOK
<1>t. /\ stored \in [Sessions -> Nat] /\ published \in [Sessions -> Nat]
      /\ events \in [Sessions -> Seq(Nat)]
      /\ cursor \in [Sessions -> Nat] /\ oldest \in [Sessions -> Nat]
  BY DEF TypeOK
<1>u. /\ Undefined \in Index /\ Undefined \notin Nat /\ Nat \subseteq Index
      /\ \A x \in Index : x # Undefined => x \in Nat
  BY DEF Undefined, Index
<1>e. <<>> \in Seq(Nat)
  OBVIOUS
<1>n. NoRequest => req' = "none" /\ since' \in Nat /\ answer' \in Seq(Nat) /\ next' \in Nat
  BY <1>e DEF NoRequest
<1>f. \A s \in Sessions : From(s) \in Index
  BY <1>s DEF From, StoreOK
<1>1. ASSUME UNCHANGED <<selectionVars, storeVars, requestVars, healVars, missed>> PROVE BrowserOK'
  BY <1>1, <1>s DEF BrowserOK, SelectionOK, StoreOK, RequestOK, selectionVars, storeVars, requestVars, healVars
<1>2. ASSUME NEW s \in Sessions, Store(s) PROVE BrowserOK'
  BY <1>1, <1>2 DEF Store
<1>3. ASSUME NEW s \in Sessions, Publish(s) PROVE BrowserOK'
  <2>1. StoreOK' /\ SelectionOK'
    BY <1>3, <1>s DEF Publish, StoreOK, SelectionOK, selectionVars, storeVars
  <2>2. RequestOK'
    BY <1>3, <1>s DEF Publish, Wakes, RequestOK, storeVars
  <2> QED
    BY <2>1, <2>2 DEF BrowserOK
<1>4. ASSUME NEW s \in Sessions, Select(s) PROVE BrowserOK'
  BY <1>4, <1>s DEF Select, BrowserOK, SelectionOK, StoreOK, RequestOK, storeVars, requestVars, healVars
<1>5. CASE Arrive \/ TimeOut
  BY <1>5, <1>s DEF Arrive, TimeOut, BrowserOK, SelectionOK, StoreOK, RequestOK, storeVars, selectionVars
<1>6. CASE Answer
  <2>1. polling \in Sessions /\ since \in Nat
    BY <1>6, <1>s DEF Answer, RequestOK, SelectionOK
  <2>2. answer' \in Seq(Nat)
    BY <1>6, <1>t, <2>1, SinceTyped DEF Answer, QueuesRun
  <2>3. next' \in Nat
    BY <1>6, <1>t, <2>1 DEF Answer
  <2>4. SelectionOK' /\ StoreOK'
    BY <1>6, <1>s DEF Answer, SelectionOK, StoreOK, storeVars, selectionVars
  <2>5. RequestOK'
    BY <1>6, <1>s, <2>2, <2>3 DEF Answer, RequestOK, storeVars
  <2> QED
    BY <2>4, <2>5 DEF BrowserOK
<1>7. CASE Reboot
  BY <1>7, <1>s, <1>n DEF Reboot, BrowserOK, SelectionOK, StoreOK, RequestOK, storeVars, selectionVars
<1>8. CASE Ask
  <2>1. polling \in Sessions /\ place[polling] \in Nat
    BY <1>8, <1>s, <1>u DEF Ask, RequestOK, SelectionOK, StoreOK
  <2> QED
    BY <1>8, <1>s, <2>1 DEF Ask, BrowserOK, SelectionOK, StoreOK, RequestOK, storeVars, selectionVars
<1>9. CASE Take
  <2>1. polling \in Sessions
    BY <1>9, <1>s DEF Take, RequestOK, SelectionOK
  <2>2. Range(answer) \subseteq Nat
    BY <1>s, RangeOfSeq DEF RequestOK
  <2>3. StoreOK'
    BY <1>9, <1>s, <1>u, <2>1, <2>2, SMTT(60) DEF Take, StoreOK, RequestOK
  <2>4. SelectionOK'
    BY <1>9, <1>s DEF Take, SelectionOK, selectionVars
  <2>5. place'[polling] # Undefined /\ rest' = rest /\ polling' = polling
    BY <1>9, <1>s, <1>u, <2>1 DEF Take, StoreOK, RequestOK
  <2>6. RequestOK'
    BY <1>9, <1>s, <1>n, <2>5 DEF Take, RequestOK
  <2> QED
    BY <2>3, <2>4, <2>6 DEF BrowserOK
<1>10. CASE Abort
  BY <1>10, <1>s, <1>n DEF Abort, BrowserOK, SelectionOK, StoreOK, RequestOK, storeVars, selectionVars
<1>11. CASE Load
  <2>1. current \in Sessions /\ current # polling
    BY <1>11, <1>s DEF Load, SelectionOK, RequestOK
  <2>2. StoreOK'
    BY <1>11, <1>s, <1>t, <1>u, <2>1 DEF Load, StoreOK
  <2>3. SelectionOK'
    BY <1>11, <1>s, <2>1 DEF Load, SelectionOK, selectionVars
  <2>4. RequestOK'
    BY <1>11, <1>s, <2>1 DEF Load, RequestOK, StoreOK, SelectionOK, requestVars
  <2> QED
    BY <2>2, <2>3, <2>4 DEF BrowserOK
<1>c. ASSUME NEW s \in loaded, ConnectSession(s) PROVE StoreOK' /\ RequestOK'
  <2>1. s \in Sessions /\ loaded' = loaded
    BY <1>c, <1>s DEF ConnectSession, SelectionOK
  <2>2. PICK p \in Nat : place' = [place EXCEPT ![s] = p] /\ missed' \in {missed, missed \union {s}}
    BY <1>c, <1>t, <1>u, <1>f, <2>1 DEF ConnectSession
  <2>3. rest' = [rest EXCEPT ![s] = Undefined] /\ polling' = s /\ NoRequest
    BY <1>c DEF ConnectSession, ConnectsTo
  <2>4. StoreOK'
    BY <1>c, <1>s, <1>u, <2>1, <2>2, <2>3 DEF ConnectSession, StoreOK
  <2>5. RequestOK'
    BY <1>s, <1>n, <1>u, <2>1, <2>2, <2>3 DEF RequestOK, StoreOK
  <2> QED
    BY <2>4, <2>5
<1>12. CASE Connect
  <2>1. SelectionOK'
    BY <1>12, <1>s DEF Connect, ConnectSession, SelectionOK
  <2>2. StoreOK' /\ RequestOK'
    BY <1>12, <1>c DEF Connect
  <2> QED
    BY <2>1, <2>2 DEF BrowserOK
<1>13. CASE Reselect
  <2>1. StoreOK'
    BY <1>13, <1>s, <1>u DEF Reselect, StoreOK
  <2>2. SelectionOK' /\ RequestOK'
    BY <1>13, <1>s, <1>n DEF Reselect, SelectionOK, RequestOK
  <2> QED
    BY <2>1, <2>2 DEF BrowserOK
<1>14. CASE Sync
  <2>1. polling \in loaded /\ polling \in Sessions
    BY <1>14, <1>s DEF Sync, RequestOK, SelectionOK
  <2>2. seen' \in [Sessions -> SUBSET Nat]
    BY <1>14, <1>s, <1>t, <2>1 DEF Sync, StoreOK
  <2>3. StoreOK'
    BY <1>14, <1>s, <2>2 DEF Sync, StoreOK
  <2> QED
    BY <1>14, <1>s, <2>1, <2>3 DEF Sync, BrowserOK, SelectionOK, RequestOK, selectionVars, requestVars
<1>15. CASE SyncDone
  <2>1. healing \in Sessions /\ healing \in loaded
    BY <1>15, <1>s DEF SyncDone, SelectionOK
  <2>2. PICK p \in Nat : place' = [place EXCEPT ![healing] = p] /\ missed' \in {missed, missed \union {healing}}
    BY <1>15, <1>t, <2>1 DEF SyncDone
  <2>3. SelectionOK'
    BY <1>15, <1>s DEF SyncDone, SelectionOK, selectionVars
  <2>4. CASE polling = healing
    <3>1. UNCHANGED <<rest, loaded, seen>> /\ polling' = NoSession /\ NoRequest
      BY <1>15, <2>4 DEF SyncDone
    <3>2. StoreOK'
      BY <1>s, <1>u, <2>1, <2>2, <3>1 DEF StoreOK
    <3>3. RequestOK'
      BY <1>s, <1>n, <3>1 DEF RequestOK
    <3> QED
      BY <2>3, <3>2, <3>3 DEF BrowserOK
  <2>5. CASE polling # healing
    <3>1. UNCHANGED <<requestVars, rest, loaded, seen>>
      BY <1>15, <2>5 DEF SyncDone
    <3>2. StoreOK'
      BY <1>s, <1>u, <2>1, <2>2, <3>1 DEF StoreOK
    <3>3. RequestOK'
      BY <1>s, <2>1, <2>2, <2>5, <3>1 DEF RequestOK, StoreOK, requestVars
    <3> QED
      BY <2>3, <3>2, <3>3 DEF BrowserOK
  <2> QED
    BY <2>4, <2>5
<1>18. CASE Revive
  <2>1. reviving \in loaded /\ SelectionOK'
    BY <1>18, <1>s DEF Revive, ConnectSession, SelectionOK
  <2> QED
    BY <1>18, <1>c, <2>1 DEF Revive, BrowserOK
<1>16. CASE Reload
  <2>1. StoreOK'
    BY <1>16, <1>u DEF Reload, StoreOK
  <2> QED
    BY <1>16, <1>n, <2>1 DEF Reload, BrowserOK, SelectionOK, RequestOK
<1>17. CASE UNCHANGED vars
  BY <1>1, <1>17 DEF vars
<1> QED
  BY <1>2, <1>3, <1>4, <1>5, <1>6, <1>7, <1>8, <1>9, <1>10, <1>11, <1>12, <1>13, <1>14, <1>15,
     <1>16, <1>17, <1>18 DEF Next
-----------------------------------------------------------------------------
(* No message is lost.                                                     *)

\* The last message up to the place c of the queue.
Upto(s, c) == published[s] - cursor[s] + c

\* The messages the queue never held have been seen, the place of the browser
\* is not ahead of the queue, and what is before it has been seen.
NothingMissed(s) ==
  /\ 1 .. (published[s] - cursor[s]) \subseteq seen[s]
  /\ From(s) <= cursor[s]
  /\ Complete(s)

\* What has been seen and what is on its way are all the messages up to the
\* cursor the browser is about to take over.
AnswerCovers ==
  req = "answered" /\ polling \notin missed =>
    /\ place[polling] <= next /\ oldest[polling] - 1 <= next /\ next <= cursor[polling]
    /\ 1 .. Upto(polling, next) \subseteq seen[polling] \union Range(answer)

\* The inductive invariant.
IInv == TypeOK /\ QueuesRun /\ BrowserOK /\ AnswerCovers /\ \A s \in loaded \ missed : NothingMissed(s)

\* A session whose queue and place stay the same, and of which no less is seen.
LEMMA StaysComplete ==
  ASSUME NEW s, NothingMissed(s),
         published'[s] = published[s], cursor'[s] = cursor[s], oldest'[s] = oldest[s], events'[s] = events[s],
         seen[s] \subseteq seen'[s], From(s)' = From(s)
  PROVE  NothingMissed(s)'
BY DEF NothingMissed, Complete, After

\* No step loses a message of a session that is not noted as having missed one.
LEMMA CompleteNext == IInv /\ [Next]_vars => \A s \in loaded' \ missed' : NothingMissed(s)'
<1> SUFFICES ASSUME IInv, [Next]_vars, NEW s \in loaded', s \notin missed'
             PROVE  NothingMissed(s)'
  OBVIOUS
<1> USE NoSessionAssumption
<1>s. SelectionOK /\ StoreOK /\ RequestOK /\ QueuesRun /\ AnswerCovers
  BY DEF IInv, BrowserOK
<1>t. /\ stored \in [Sessions -> Nat] /\ published \in [Sessions -> Nat]
      /\ events \in [Sessions -> Seq(Nat)]
      /\ cursor \in [Sessions -> Nat] /\ oldest \in [Sessions -> Nat]
      /\ \A q \in Sessions : /\ published[q] <= stored[q]
                             /\ Len(events[q]) = cursor[q] - oldest[q] + 1
  BY DEF IInv, TypeOK
<1>u. /\ Undefined = -1 /\ Undefined \notin Nat
      /\ \A x \in Index : x # Undefined => x \in Nat
      /\ \A q \in Sessions : From(q) \in Index /\ rest[q] \in Index /\ place[q] \in Index
  BY <1>s DEF Undefined, Index, From, StoreOK
<1>k. ASSUME s \in loaded, s \notin missed PROVE NothingMissed(s) /\ s \in Sessions
  BY <1>k, <1>s DEF IInv, SelectionOK
\* The messages after a place that is still in the queue.
<1>a. ASSUME NEW q \in Sessions, NEW c \in Nat, oldest[q] - 1 <= c, c <= cursor[q]
      PROVE  Range(EventsSince(events[q], oldest[q], c)) = (Upto(q, c) + 1) .. published[q]
  <2>1. /\ published[q] \in Nat /\ cursor[q] \in Nat /\ oldest[q] \in Nat /\ 1 <= oldest[q]
        /\ RunsTo(events[q], published[q]) /\ Len(events[q]) = cursor[q] - oldest[q] + 1
    BY <1>s, <1>t DEF QueuesRun
  <2>2. Range(EventsSince(events[q], oldest[q], c)) = (published[q] - cursor[q] + c + 1) .. published[q]
    <3> DEFINE list == events[q]
               p == published[q]
               k == cursor[q]
               o == oldest[q]
    <3>1. /\ p \in Nat /\ k \in Nat /\ o \in Nat /\ 1 <= o /\ RunsTo(list, p)
          /\ Len(list) = k - o + 1 /\ o - 1 <= c /\ c <= k
      BY <1>a, <2>1
    <3> HIDE DEF list, p, k, o
    <3>2. Range(EventsSince(list, o, c)) = (p - k + c + 1) .. p
      BY <3>1, SinceIs
    <3> QED
      BY <3>2 DEF list, p, k, o
  <2> QED
    BY <2>2 DEF Upto
<1>1. ASSUME UNCHANGED <<serverVars, storeVars>>, missed \subseteq missed', s \in loaded PROVE NothingMissed(s)'
  BY <1>1, <1>k, StaysComplete DEF serverVars, storeVars, From
<1>2. ASSUME NEW q \in Sessions, Store(q) PROVE NothingMissed(s)'
  BY <1>2, <1>k, StaysComplete DEF Store, storeVars, From
<1>3. ASSUME NEW q \in Sessions, Publish(q) PROVE NothingMissed(s)'
  <2>1. /\ s \in loaded /\ s \notin missed /\ NothingMissed(s) /\ s \in Sessions
        /\ UNCHANGED <<seen, place, rest, loaded>> /\ From(s)' = From(s)
    BY <1>3, <1>k DEF Publish, storeVars, From
  <2>2. CASE s # q
    BY <1>3, <1>t, <2>1, <2>2, StaysComplete DEF Publish, AppendEvent
  <2>3. CASE s = q
    <3> DEFINE p == published[s]
    <3>1. /\ published'[s] = p + 1 /\ cursor'[s] = cursor[s] + 1 /\ oldest[s] <= oldest'[s]
          /\ p \in Nat /\ cursor[s] \in Nat /\ oldest'[s] \in Nat /\ oldest[s] \in Nat
          /\ cursor[s] <= p
      BY <1>3, <1>t, <1>s, <2>1, <2>3, SMTT(60) DEF Publish, AppendEvent, QueuesRun
    <3>2. /\ 1 .. (p - cursor[s]) \subseteq seen[s] /\ From(s) <= cursor[s]
      BY <2>1 DEF NothingMissed
    <3>3. From(s) <= cursor'[s]
      BY <3>1, <3>2, <1>u, <2>1
    <3>4. ASSUME From(s) # Undefined
          PROVE  1 .. (p + 1) \subseteq seen[s] \union Range(EventsSince(events'[s], oldest'[s], From(s)))
      <4> DEFINE c == From(s)
      <4>1. c \in Nat /\ oldest'[s] - 1 <= c
        BY <1>3, <2>1, <2>3, <3>1, <3>4, <1>u DEF Publish
      <4>2. oldest[s] - 1 <= c /\ c <= cursor[s]
        BY <3>1, <3>2, <4>1
      <4>3. 1 .. p \subseteq seen[s] \union ((Upto(s, c) + 1) .. p)
        BY <2>1, <3>4, <4>1, <4>2, <1>a DEF NothingMissed, Complete, After
      <4>4. QueuesRun' /\ Len(events'[s]) = cursor'[s] - oldest'[s] + 1
        BY <2>1, QueuesNext DEF IInv
      <4>5. 1 <= oldest'[s] /\ RunsTo(events'[s], p + 1)
        BY <4>4, <2>1, <3>1 DEF QueuesRun
      <4> HIDE DEF c
      <4>6. Range(EventsSince(events'[s], oldest'[s], c))
              = ((p + 1) - (cursor[s] + 1) + c + 1) .. (p + 1)
        <5> DEFINE list == events'[s]
                   n == p + 1
                   k == cursor[s] + 1
                   o == oldest'[s]
        <5>1. /\ n \in Nat /\ k \in Nat /\ o \in Nat /\ 1 <= o /\ RunsTo(list, n)
              /\ Len(list) = k - o + 1 /\ o - 1 <= c /\ c <= k /\ c \in Nat
          BY <3>1, <4>1, <4>2, <4>4, <4>5, SMTT(60)
        <5> HIDE DEF list, n, k, o
        <5>2. Range(EventsSince(list, o, c)) = (n - k + c + 1) .. n
          BY <5>1, SinceIs
        <5> QED
          BY <5>2 DEF list, n, k, o
      <4>7. (p + 1) - (cursor[s] + 1) + c + 1 = Upto(s, c) + 1 /\ Upto(s, c) \in Int /\ Upto(s, c) <= p
        BY <3>1, <4>1, <4>2 DEF Upto
      <4>8. 1 .. (p + 1) \subseteq seen[s] \union ((Upto(s, c) + 1) .. (p + 1))
        BY <4>3, <4>7, <3>1
      <4> QED
        BY <4>6, <4>7, <4>8 DEF c
    <3>5. (p + 1) - (cursor[s] + 1) = p - cursor[s]
      BY <3>1
    <3> HIDE DEF p
    <3> QED
      BY <2>1, <3>1, <3>2, <3>3, <3>4, <3>5 DEF NothingMissed, Complete, After
  <2> QED
    BY <2>2, <2>3
<1>4. CASE Take
  <2>1. /\ s \in loaded /\ s \notin missed /\ NothingMissed(s) /\ s \in Sessions
        /\ polling \in Sessions /\ rest[polling] = Undefined /\ next \in Nat /\ UNCHANGED serverVars
    BY <1>4, <1>k, <1>s DEF Take, RequestOK, SelectionOK
  <2>2. CASE s # polling
    BY <1>4, <1>s, <2>1, <2>2, StaysComplete DEF Take, From, StoreOK, serverVars
  <2>3. CASE s = polling
    <3>1. From(s)' = next
      BY <1>4, <1>s, <2>1, <2>3 DEF Take, From, StoreOK
    <3>2. /\ oldest[s] - 1 <= next /\ next <= cursor[s]
          /\ 1 .. Upto(s, next) \subseteq seen[s] \union Range(answer)
      BY <1>4, <1>s, <2>1, <2>3 DEF Take, AnswerCovers
    <3>3. seen[s] \union Range(answer) \subseteq seen'[s]
      <4>1. CASE current = polling
        BY <1>4, <1>s, <2>1, <2>3, <4>1 DEF Take, StoreOK
      <4>2. CASE current # polling
        <5>1. answer = <<>> /\ seen' = seen
          BY <1>4, <2>3, <4>2 DEF Take
        <5>2. Range(answer) = {}
          BY <5>1 DEF Range
        <5> QED
          BY <5>1, <5>2
      <4> QED
        BY <4>1, <4>2
    <3>4. Range(EventsSince(events[s], oldest[s], next)) = (Upto(s, next) + 1) .. published[s]
      BY <1>a, <2>1, <3>2
    <3>5. Upto(s, next) \in Int /\ published[s] \in Nat
      BY <1>t, <2>1 DEF Upto
    <3>6. 1 .. published[s] \subseteq seen'[s] \union Range(EventsSince(events[s], oldest[s], next))
      BY <3>2, <3>3, <3>4, <3>5
    <3>7. 1 .. (published[s] - cursor[s]) \subseteq seen'[s]
      BY <2>1, <3>3 DEF NothingMissed
    <3> QED
      BY <2>1, <3>1, <3>2, <3>6, <3>7 DEF NothingMissed, Complete, After, serverVars
  <2> QED
    BY <2>2, <2>3
<1>5. CASE Load
  <2>1. UNCHANGED serverVars /\ current \in Sessions /\ current \notin loaded /\ missed' = missed
    BY <1>5, <1>s DEF Load, SelectionOK
  <2>2. CASE s # current
    BY <1>5, <1>k, <1>s, <2>1, <2>2, StaysComplete DEF Load, From, StoreOK, serverVars
  <2>3. CASE s = current
    <3>1. From(s)' = cursor[s] /\ seen'[s] = 1 .. stored[s]
      BY <1>5, <1>s, <1>t, <1>u, <2>1, <2>3 DEF Load, From, StoreOK
    <3>2. 1 .. published[s] \subseteq seen'[s] /\ 1 .. (published[s] - cursor[s]) \subseteq seen'[s]
      BY <1>t, <2>1, <2>3, <3>1
    <3> QED
      BY <1>t, <2>1, <2>3, <3>1, <3>2 DEF NothingMissed, Complete, serverVars
  <2> QED
    BY <2>2, <2>3
<1>6. ASSUME NEW q \in loaded, ConnectSession(q) PROVE NothingMissed(s)'
  <2>1. /\ UNCHANGED serverVars /\ q \in Sessions /\ s \in loaded /\ s \notin missed
        /\ NothingMissed(s) /\ s \in Sessions /\ seen' = seen
        /\ rest' = [rest EXCEPT ![q] = Undefined]
    BY <1>6, <1>s, <1>k DEF ConnectSession, ConnectsTo, SelectionOK
  <2>2. CASE s # q
    <3>1. From(s)' = From(s)
      BY <1>6, <1>s, <2>1, <2>2 DEF ConnectSession, From, StoreOK
    <3> QED
      BY <2>1, <3>1, StaysComplete DEF serverVars
  <2>3. CASE s = q /\ From(s) # Undefined
    <3>1. From(s)' = From(s)
      BY <1>6, <1>s, <2>1, <2>3 DEF ConnectSession, From, StoreOK
    <3> QED
      BY <2>1, <3>1, StaysComplete DEF serverVars
  <2>4. CASE s = q /\ From(s) = Undefined
    <3>1. place'[s] = cursor[s] /\ rest'[s] = Undefined /\ 1 .. published[s] \subseteq seen[s]
      BY <1>6, <1>s, <2>1, <2>4 DEF ConnectSession, StoreOK
    <3>2. From(s)' = cursor[s]
      BY <3>1 DEF From
    <3> QED
      BY <1>t, <2>1, <3>1, <3>2 DEF NothingMissed, Complete, serverVars
  <2> QED
    BY <2>2, <2>3, <2>4
<1>7. CASE Reselect
  <2>1. /\ UNCHANGED serverVars /\ current \in Sessions /\ s \in loaded /\ s \notin missed
        /\ NothingMissed(s) /\ s \in Sessions /\ seen' = seen /\ rest' = rest
        /\ place' = [place EXCEPT ![current] = Undefined]
    BY <1>7, <1>s, <1>k DEF Reselect, SelectionOK
  <2>2. CASE From(s)' = From(s)
    BY <2>1, <2>2, StaysComplete DEF serverVars
  <2>3. CASE From(s)' # From(s)
    <3>1. From(s)' = Undefined
      BY <1>s, <2>1, <2>3 DEF From, StoreOK
    <3>2. Undefined <= cursor[s]
      BY <1>t, <1>u, <2>1
    <3> QED
      BY <2>1, <3>1, <3>2 DEF NothingMissed, Complete, serverVars
  <2> QED
    BY <2>2, <2>3
<1>8. CASE Sync
  <2>1. seen[s] \subseteq seen'[s]
    BY <1>8, <1>s DEF Sync, StoreOK, SelectionOK
  <2> QED
    BY <1>8, <1>k, <2>1, StaysComplete DEF Sync, serverVars, From
<1>9. CASE SyncDone
  <2>1. /\ UNCHANGED serverVars /\ healing \in Sessions /\ s \in loaded /\ s \notin missed
        /\ NothingMissed(s) /\ s \in Sessions /\ seen' = seen
    BY <1>9, <1>s, <1>k DEF SyncDone, SelectionOK
  <2>2. PICK c \in {0, cursor[healing]} :
          /\ place' = [place EXCEPT ![healing] = c]
          /\ missed' = IF \/ c = 0 /\ oldest[healing] = 1
                          \/ 1 .. published[healing] \subseteq seen[healing]
                       THEN missed ELSE missed \union {healing}
    BY <1>9 DEF SyncDone
  <2>3. rest' = rest
    BY <1>9 DEF SyncDone
  <2>4. CASE From(s)' = From(s)
    BY <2>1, <2>4, StaysComplete DEF serverVars
  <2>5. CASE From(s)' # From(s)
    <3>1. s = healing /\ From(s)' = c
      BY <1>s, <2>1, <2>2, <2>3, <2>5 DEF From, StoreOK
    <3>2. (c = 0 /\ oldest[s] = 1) \/ 1 .. published[s] \subseteq seen[s]
      BY <2>1, <2>2, <3>1
    <3>3. c \in Nat /\ c <= cursor[s] /\ published[s] \in Nat /\ cursor[s] \in Nat
      BY <1>t, <2>1, <2>2, <3>1
    <3>4. 1 .. (published[s] - cursor[s]) \subseteq seen[s]
      BY <2>1 DEF NothingMissed
    <3>5. 1 .. published[s] \subseteq seen[s] \union Range(EventsSince(events[s], oldest[s], c))
      <4>1. CASE c = 0 /\ oldest[s] = 1
        <5>1. Range(EventsSince(events[s], oldest[s], c)) = (Upto(s, c) + 1) .. published[s]
          BY <1>a, <2>1, <3>3, <4>1
        <5>2. Upto(s, c) = published[s] - cursor[s]
          BY <3>3, <4>1 DEF Upto
        <5> QED
          BY <3>3, <3>4, <5>1, <5>2
      <4> QED
        BY <3>2, <4>1
    <3> QED
      BY <2>1, <3>1, <3>3, <3>4, <3>5 DEF NothingMissed, Complete, After, serverVars
  <2> QED
    BY <2>4, <2>5
<1>10. CASE Connect \/ Revive
  <2>1. \E q \in loaded : ConnectSession(q)
    BY <1>10, <1>s DEF Connect, Revive, SelectionOK
  <2> QED
    BY <1>6, <2>1
<1> QED
  BY <1>1, <1>2, <1>3, <1>4, <1>5, <1>7, <1>8, <1>9, <1>10
  DEF Next, vars, Select, Arrive, TimeOut, Answer, Reboot, Ask, Abort, Reload, storeVars

\* No step takes anything from the answer, or lets the browser get ahead of it.
LEMMA AnswerNext == IInv /\ [Next]_vars => AnswerCovers'
<1> SUFFICES ASSUME IInv, [Next]_vars PROVE AnswerCovers'
  OBVIOUS
<1> USE NoSessionAssumption
<1>s. SelectionOK /\ StoreOK /\ RequestOK /\ QueuesRun /\ AnswerCovers
  BY DEF IInv, BrowserOK
<1>t. /\ stored \in [Sessions -> Nat] /\ published \in [Sessions -> Nat]
      /\ events \in [Sessions -> Seq(Nat)]
      /\ cursor \in [Sessions -> Nat] /\ oldest \in [Sessions -> Nat]
      /\ \A q \in Sessions : /\ published[q] <= stored[q]
                             /\ Len(events[q]) = cursor[q] - oldest[q] + 1
  BY DEF IInv, TypeOK
<1>r. req' # "answered" => AnswerCovers'
  BY DEF AnswerCovers
<1>1. ASSUME UNCHANGED <<published, cursor, oldest, requestVars, place>>, missed \subseteq missed',
             req = "answered" => seen[polling] \subseteq seen'[polling]
      PROVE  AnswerCovers'
  BY <1>1, <1>s DEF AnswerCovers, Upto, requestVars
<1>2. ASSUME NEW q \in Sessions, Publish(q) PROVE AnswerCovers'
  <2>1. SUFFICES ASSUME req' = "answered", polling \notin missed'
                 PROVE  AnswerCovers'
    BY <1>2, <1>r DEF AnswerCovers, Publish
  <2>2. /\ req = "answered" /\ polling \in Sessions /\ polling \in loaded /\ polling \notin missed
        /\ UNCHANGED <<place, polling, answer, next, seen, rest>>
        /\ rest[polling] = Undefined /\ place[polling] # Undefined /\ place[polling] \in Nat
        /\ next \in Nat
    BY <1>2, <1>s, <2>1 DEF Publish, Wakes, RequestOK, SelectionOK, StoreOK, storeVars, Index
  <2>3. /\ place[polling] <= next /\ oldest[polling] - 1 <= next /\ next <= cursor[polling]
        /\ 1 .. Upto(polling, next) \subseteq seen[polling] \union Range(answer)
    BY <1>s, <2>2 DEF AnswerCovers
  <2>4. CASE polling # q
    BY <1>2, <1>t, <2>2, <2>3, <2>4 DEF Publish, AppendEvent, AnswerCovers, Upto
  <2>5. CASE polling = q
    <3>1. /\ published'[q] = published[q] + 1 /\ cursor'[q] = cursor[q] + 1
          /\ published[q] \in Nat /\ cursor[q] \in Nat /\ oldest[q] \in Nat
      BY <1>2, <1>t DEF Publish, AppendEvent
    <3>2. oldest'[q] - 1 <= place[q] /\ oldest'[q] \in Nat
      <4>1. oldest'[q] \in Nat
        BY <1>2, <1>t, <2>2, <2>5, SMTT(60) DEF Publish, AppendEvent
      <4>2. From(q) = place[q] /\ q \in loaded /\ q \notin missed'
        BY <2>1, <2>2, <2>5 DEF From
      <4>3. ~ (From(q) < oldest'[q] - 1)
        BY <1>2, <2>2, <2>5, <4>2 DEF Publish
      <4> QED
        BY <2>2, <2>5, <4>1, <4>2, <4>3
    <3>3. oldest'[q] - 1 <= next /\ next <= cursor'[q]
      BY <2>2, <2>3, <2>5, <3>1, <3>2
    <3>4. Upto(q, next)' = Upto(q, next)
      BY <2>2, <3>1 DEF Upto
    <3> QED
      BY <2>2, <2>3, <2>5, <3>3, <3>4 DEF AnswerCovers
  <2> QED
    BY <2>4, <2>5
<1>3. CASE Answer
  <2>1. SUFFICES ASSUME polling \notin missed PROVE AnswerCovers'
    BY <1>3 DEF AnswerCovers, Answer
  <2>2. /\ polling \in loaded /\ polling \in Sessions /\ since = place[polling] /\ since \in Nat
        /\ rest[polling] = Undefined /\ UNCHANGED <<serverVars, storeVars, polling, missed>>
        /\ answer' = EventsSince(events[polling], oldest[polling], since) /\ next' = cursor[polling]
    BY <1>3, <1>s DEF Answer, RequestOK, SelectionOK
  <2>3. NothingMissed(polling) /\ From(polling) = since
    BY <2>1, <2>2 DEF IInv, From
  <2>4. /\ since <= cursor[polling] /\ since # Undefined
        /\ 1 .. published[polling] \subseteq seen[polling] \union Range(answer')
    BY <2>2, <2>3 DEF NothingMissed, Complete, After, Undefined
  <2>5. /\ cursor[polling] \in Nat /\ oldest[polling] \in Nat /\ published[polling] \in Nat
        /\ oldest[polling] - 1 <= cursor[polling]
    <3>1. Len(events[polling]) \in Nat /\ Len(events[polling]) = cursor[polling] - oldest[polling] + 1
      BY <1>t, <2>2
    <3> QED
      BY <1>t, <2>2, <3>1
  <2>6. published[polling] - cursor[polling] + cursor[polling] = published[polling]
    BY <2>5
  <2> QED
    BY <2>2, <2>4, <2>5, <2>6 DEF AnswerCovers, Upto, serverVars, storeVars
<1>4. CASE Load
  <2>1. req # "none" => polling # current
    BY <1>4, <1>s DEF Load, RequestOK, SelectionOK
  <2> QED
    BY <1>1, <1>4, <1>s, <2>1 DEF Load, serverVars, requestVars, StoreOK, RequestOK, SelectionOK
<1>5. CASE Sync
  <2>1. polling \in Sessions /\ seen[polling] \subseteq seen'[polling]
    BY <1>5, <1>s DEF Sync, RequestOK, SelectionOK, StoreOK
  <2> QED
    BY <1>1, <1>5, <2>1 DEF Sync, serverVars
<1>6. CASE SyncDone
  <2>1. CASE polling = healing
    BY <1>6, <1>r, <2>1 DEF SyncDone, NoRequest
  <2>2. CASE polling # healing
    <3>1. PICK c \in {0, cursor[healing]} : place' = [place EXCEPT ![healing] = c]
      BY <1>6 DEF SyncDone
    <3>2. /\ UNCHANGED <<published, cursor, oldest, requestVars, seen>> /\ missed \subseteq missed'
      BY <1>6, <2>2 DEF SyncDone, serverVars
    <3>3. req = "answered" => place'[polling] = place[polling]
      BY <1>s, <2>2, <3>1 DEF StoreOK, RequestOK, SelectionOK
    <3> QED
      BY <1>s, <3>2, <3>3 DEF AnswerCovers, Upto, requestVars
  <2> QED
    BY <2>1, <2>2
<1>7. ASSUME NEW q \in Sessions, Store(q) \/ Select(q) PROVE AnswerCovers'
  BY <1>1, <1>7 DEF Store, Select, serverVars, storeVars
<1>8. CASE Arrive \/ TimeOut \/ Ask \/ Take \/ Abort
  BY <1>8, <1>r DEF Arrive, TimeOut, Ask, Take, Abort, NoRequest
<1>9. CASE Reboot \/ Connect \/ Reselect \/ Revive \/ Reload
  BY <1>9, <1>r DEF Reboot, Connect, Revive, ConnectSession, ConnectsTo, Reselect, Reload, NoRequest
<1>10. CASE UNCHANGED vars
  BY <1>1, <1>10 DEF vars, serverVars, storeVars
<1> QED
  BY <1>2, <1>3, <1>4, <1>5, <1>6, <1>7, <1>8, <1>9, <1>10 DEF Next

\* The type invariant follows from its parts.
LEMMA TypesAgree ==
  ASSUME BrowserOK,
         stored \in [Sessions -> Nat], published \in [Sessions -> Nat],
         events \in [Sessions -> Seq(Nat)],
         cursor \in [Sessions -> Nat], oldest \in [Sessions -> Nat],
         \A s \in Sessions : /\ published[s] <= stored[s]
                             /\ Len(events[s]) = cursor[s] - oldest[s] + 1
                             /\ Len(events[s]) <= MaxSize
  PROVE  TypeOK
BY DEF TypeOK, BrowserOK, SelectionOK, StoreOK, RequestOK, Index

\* The strengthening holds at the start,
LEMMA InitIInv == Init => IInv
<1> SUFFICES ASSUME Init PROVE IInv
  OBVIOUS
<1>0. <<>> \in Seq(Nat) /\ Len(<<>>) = 0 /\ RunsTo(<<>>, 0)
  BY DEF RunsTo
<1>1. QueuesRun /\ AnswerCovers /\ \A s \in loaded \ missed : NothingMissed(s)
  BY <1>0 DEF Init, QueuesRun, AnswerCovers
<1>2. BrowserOK
  BY <1>0, NoSessionAssumption DEF Init, BrowserOK, SelectionOK, StoreOK, RequestOK, Index, Undefined
<1>3. TypeOK
  BY <1>0, <1>2, TypesAgree, MaxSizeAssumption DEF Init
<1> QED
  BY <1>1, <1>2, <1>3 DEF IInv

\* every step keeps it,
LEMMA StepIInv == IInv /\ [Next]_vars => IInv'
<1> SUFFICES ASSUME IInv, [Next]_vars PROVE IInv'
  OBVIOUS
<1>1. QueuesRun' /\ BrowserOK'
  BY QueuesNext, BrowserNext DEF IInv
<1>2. TypeOK'
  <2>1. /\ stored' \in [Sessions -> Nat] /\ published' \in [Sessions -> Nat]
        /\ events' \in [Sessions -> Seq(Nat)]
        /\ cursor' \in [Sessions -> Nat] /\ oldest' \in [Sessions -> Nat]
        /\ \A s \in Sessions : /\ published'[s] <= stored'[s]
                               /\ Len(events'[s]) = cursor'[s] - oldest'[s] + 1
                               /\ Len(events'[s]) <= MaxSize
    BY QueuesNext DEF IInv
  <2> QED
    BY <1>1, <2>1 DEF TypeOK, BrowserOK, SelectionOK, StoreOK, RequestOK, Index
<1>3. AnswerCovers' /\ \A s \in loaded' \ missed' : NothingMissed(s)'
  BY AnswerNext, CompleteNext
<1> QED
  BY <1>1, <1>2, <1>3 DEF IInv

\* and so it is an invariant.
LEMMA Inductive == Spec => []IInv
<1> QED
  BY InitIInv, StepIInv, PTL DEF Spec

\* The variables keep their shape, and a queue holds what its cursors say, never
\* more than MAX_SIZE events.
THEOREM TypeCorrect == Spec => []TypeOK
<1>1. IInv => TypeOK
  BY DEF IInv
<1> QED
  BY <1>1, Inductive, PTL

\* Of a session the browser shows, every published message has been seen or is
\* ahead of its cursor: selecting another session in the middle of a request,
\* aborting one, restarting a session and the stall detector lose nothing but
\* what the model notes as missed.
THEOREM NothingIsLost == Spec => []NothingElseLost
<1>1. IInv => NothingElseLost
  BY DEF IInv, NothingElseLost, NothingMissed
<1> QED
  BY <1>1, Inductive, PTL

-----------------------------------------------------------------------------
(* Tool calls: the statuses and the events that tell of them.              *)

Ends == {"completed", "failed"}
Cut == {"denied", "interrupted"}
ToolEvents == Seq(Tools \X (Running \cup Terminal))

LEMMA StatusKinds ==
  /\ "none" \notin Running /\ "none" \notin Terminal /\ Running \cap Terminal = {}
  /\ Terminal = Ends \cup Cut /\ Ends \cap Cut = {}
  /\ Statuses = {"none"} \cup Running \cup Terminal
  /\ "pending" \in Running /\ "interrupted" \in Terminal
BY DEF Running, Terminal, Ends, Cut, Statuses

\* What handleToolCall makes of a card.
LEMMA UpdatedIs ==
  ASSUME NEW v \in Statuses, NEW w \in Statuses
  PROVE  /\ Updated(v, w) \in {v, w}
         /\ v \notin Terminal => Updated(v, w) = w
         /\ w \in Terminal => Updated(v, w) = w
         /\ w \in Running /\ v \in Terminal => Updated(v, w) = v
         /\ Updated(v, w) \in Statuses
BY DEF Updated, Running, Terminal, Statuses

LEMMA NamedAppend ==
  ASSUME NEW q \in ToolEvents, NEW e \in ToolEvents
  PROVE  Named(q \o e) = Named(q) \cup Named(e)
<1>1. /\ DOMAIN (q \o e) = 1 .. Len(q) + Len(e) /\ DOMAIN q = 1 .. Len(q)
      /\ DOMAIN e = 1 .. Len(e) /\ Len(q) \in Nat /\ Len(e) \in Nat
  BY DEF ToolEvents
<1>2. /\ \A i \in 1 .. Len(q) : (q \o e)[i] = q[i]
      /\ \A i \in 1 .. Len(e) : (q \o e)[Len(q) + i] = e[i]
  BY DEF ToolEvents
<1>3. \A i \in 1 .. Len(q) + Len(e) :
        i \in 1 .. Len(q) \/ (i - Len(q) \in 1 .. Len(e) /\ i = Len(q) + (i - Len(q)))
  BY <1>1
<1>4. \A i \in 1 .. Len(e) : Len(q) + i \in 1 .. Len(q) + Len(e)
  BY <1>1
<1>5. 1 .. Len(q) \subseteq 1 .. Len(q) + Len(e)
  BY <1>1
<1>6. ASSUME NEW x \in Named(q \o e) PROVE x \in Named(q) \cup Named(e)
  <2>1. PICK i \in 1 .. Len(q) + Len(e) : x = (q \o e)[i][1]
    BY <1>6, <1>1 DEF Named
  <2>2. CASE i \in 1 .. Len(q)
    BY <2>1, <2>2, <1>1, <1>2 DEF Named
  <2>3. CASE i - Len(q) \in 1 .. Len(e) /\ i = Len(q) + (i - Len(q))
    <3>1. (q \o e)[i] = e[i - Len(q)]
      BY <2>3, <1>2
    <3> QED
      BY <3>1, <2>1, <2>3, <1>1 DEF Named
  <2> QED
    BY <1>3, <2>2, <2>3
<1>7. ASSUME NEW x \in Named(q) PROVE x \in Named(q \o e)
  BY <1>7, <1>1, <1>2, <1>5 DEF Named
<1>8. ASSUME NEW x \in Named(e) PROVE x \in Named(q \o e)
  <2>1. PICK i \in 1 .. Len(e) : x = e[i][1]
    BY <1>8, <1>1 DEF Named
  <2> QED
    BY <2>1, <1>1, <1>2, <1>4 DEF Named
<1> QED
  BY <1>6, <1>7, <1>8

LEMMA NamedTail ==
  ASSUME NEW q \in ToolEvents, q # <<>>
  PROVE  /\ Named(q) = {Head(q)[1]} \cup Named(Tail(q))
         /\ Tail(q) \in ToolEvents /\ Head(q) \in Tools \X (Running \cup Terminal)
<1>1. /\ DOMAIN q = 1 .. Len(q) /\ Len(q) \in Nat /\ Len(q) >= 1
      /\ DOMAIN Tail(q) = 1 .. Len(q) - 1 /\ Head(q) = q[1]
      /\ Tail(q) \in ToolEvents /\ q[1] \in Tools \X (Running \cup Terminal)
  BY DEF ToolEvents
<1>2. \A i \in 1 .. Len(q) - 1 : Tail(q)[i] = q[i + 1]
  BY DEF ToolEvents
<1>3. ASSUME NEW x \in Named(q) PROVE x = Head(q)[1] \/ x \in Named(Tail(q))
  <2>1. PICK i \in 1 .. Len(q) : x = q[i][1]
    BY <1>3, <1>1 DEF Named
  <2>2. i = 1 \/ (i - 1 \in 1 .. Len(q) - 1 /\ (i - 1) + 1 = i)
    BY <1>1
  <2>3. CASE i - 1 \in 1 .. Len(q) - 1 /\ (i - 1) + 1 = i
    <3>1. Tail(q)[i - 1] = q[i]
      BY <1>2, <2>3
    <3> QED
      BY <3>1, <2>1, <2>3, <1>1 DEF Named
  <2> QED
    BY <2>1, <2>2, <2>3, <1>1
<1>4. ASSUME NEW x \in Named(Tail(q)) PROVE x \in Named(q)
  <2>1. PICK i \in 1 .. Len(q) - 1 : x = Tail(q)[i][1]
    BY <1>4, <1>1 DEF Named
  <2>2. i + 1 \in 1 .. Len(q)
    BY <1>1
  <2> QED
    BY <2>1, <2>2, <1>1, <1>2 DEF Named
<1>5. Head(q)[1] \in Named(q)
  <2>1. 1 \in 1 .. Len(q)
    BY <1>1
  <2> QED
    BY <2>1, <1>1 DEF Named
<1> QED
  BY <1>1, <1>3, <1>4, <1>5

LEMMA NamedTools ==
  ASSUME NEW q \in ToolEvents
  PROVE  Named(q) \subseteq Tools
<1>1. \A i \in DOMAIN q : q[i] \in Tools \X (Running \cup Terminal)
  BY DEF ToolEvents
<1> QED
  BY <1>1 DEF Named

LEMMA NamedSub ==
  ASSUME NEW q \in ToolEvents, NEW n \in Int, n <= Len(q)
  PROVE  Named(SubSeq(q, 1, n)) \subseteq Named(q)
<1>1. DOMAIN q = 1 .. Len(q) /\ Len(q) \in Nat
  BY DEF ToolEvents
<1>2. /\ DOMAIN SubSeq(q, 1, n) = 1 .. n
      /\ \A i \in 1 .. n : SubSeq(q, 1, n)[i] = q[i] /\ i \in DOMAIN q
  <2>1. CASE n >= 1
    BY <1>1, <2>1 DEF ToolEvents
  <2>2. CASE n < 1
    <3>1. SubSeq(q, 1, n) = <<>>
      BY <2>2, SubSeqEmpty
    <3>2. 1 .. n = {}
      BY <2>2
    <3> QED
      BY <3>1, <3>2
  <2> QED
    BY <2>1, <2>2
<1> QED
  BY <1>2 DEF Named

LEMMA NamedNone == Named(<<>>) = {}
BY DEF Named

\* Each event of the tool tells its status, or one that has been passed and a
\* later event tells it.
Settles(q, t, s) ==
  \A i \in DOMAIN q : q[i][1] = t =>
     \/ q[i][2] = s
     \/ q[i][2] \in Running /\ \E j \in DOMAIN q : j > i /\ q[j] = <<t, s>>

LEMMA SettlesNone == \A t, s : Settles(<<>>, t, s)
BY DEF Settles

\* A tool that was never told of.
LEMMA UntoldUnnamed ==
  ASSUME NEW q \in ToolEvents, NEW t, Settles(q, t, "none")
  PROVE  t \notin Named(q)
<1>1. \A i \in DOMAIN q : q[i] \in Tools \X (Running \cup Terminal)
  BY DEF ToolEvents
<1>2. \A i \in DOMAIN q : q[i][2] # "none"
  BY <1>1, StatusKinds
<1>3. ASSUME NEW i \in DOMAIN q, q[i][1] = t PROVE FALSE
  <2>1. PICK j \in DOMAIN q : q[j] = <<t, "none">>
    BY <1>3, <1>2 DEF Settles
  <2> QED
    BY <2>1, <1>2
<1> QED
  BY <1>3 DEF Named

\* The tool changes once more, and its last event tells so.
LEMMA SettlesChange ==
  ASSUME NEW q \in ToolEvents, NEW e \in ToolEvents, NEW t, NEW s, NEW w,
         Settles(q, t, s), s \notin Terminal,
         \A i \in DOMAIN e : e[i][1] = t => e[i][2] = w,
         NEW k \in DOMAIN e, e[k] = <<t, w>>
  PROVE  Settles(q \o e, t, w)
<1>1. /\ DOMAIN (q \o e) = 1 .. Len(q) + Len(e) /\ DOMAIN q = 1 .. Len(q)
      /\ DOMAIN e = 1 .. Len(e) /\ Len(q) \in Nat /\ Len(e) \in Nat
  BY DEF ToolEvents
<1>2. /\ \A i \in 1 .. Len(q) : (q \o e)[i] = q[i]
      /\ \A i \in 1 .. Len(e) : (q \o e)[Len(q) + i] = e[i]
      /\ \A i \in 1 .. Len(q) : q[i] \in Tools \X (Running \cup Terminal)
  BY DEF ToolEvents
<1>3. Len(q) + k \in 1 .. Len(q) + Len(e) /\ (q \o e)[Len(q) + k] = <<t, w>>
  BY <1>1, <1>2
<1>4. ASSUME NEW i \in 1 .. Len(q), q[i][1] = t PROVE q[i][2] \in Running
  BY <1>4, <1>1, <1>2 DEF Settles
<1>5. ASSUME NEW i \in DOMAIN (q \o e), (q \o e)[i][1] = t
      PROVE  \/ (q \o e)[i][2] = w
             \/ /\ (q \o e)[i][2] \in Running
                /\ \E j \in DOMAIN (q \o e) : j > i /\ (q \o e)[j] = <<t, w>>
  <2>1. i \in 1 .. Len(q) \/ (i - Len(q) \in 1 .. Len(e) /\ i = Len(q) + (i - Len(q)))
    BY <1>1
  <2>2. CASE i \in 1 .. Len(q)
    <3>1. Len(q) + k > i
      BY <2>2, <1>1
    <3> QED
      BY <3>1, <2>2, <1>1, <1>2, <1>3, <1>4, <1>5
  <2>3. CASE i - Len(q) \in 1 .. Len(e) /\ i = Len(q) + (i - Len(q))
    <3>1. (q \o e)[i] = e[i - Len(q)]
      BY <2>3, <1>2
    <3> QED
      BY <3>1, <2>3, <1>1, <1>5
  <2> QED
    BY <2>1, <2>2, <2>3
<1> QED
  BY <1>5 DEF Settles

\* Others change.
LEMMA SettlesOthers ==
  ASSUME NEW q \in ToolEvents, NEW e \in ToolEvents, NEW t, NEW s, Settles(q, t, s),
         \A i \in DOMAIN e : e[i][1] # t
  PROVE  Settles(q \o e, t, s)
<1>1. /\ DOMAIN (q \o e) = 1 .. Len(q) + Len(e) /\ DOMAIN q = 1 .. Len(q)
      /\ DOMAIN e = 1 .. Len(e) /\ Len(q) \in Nat /\ Len(e) \in Nat
  BY DEF ToolEvents
<1>2. /\ \A i \in 1 .. Len(q) : (q \o e)[i] = q[i]
      /\ \A i \in 1 .. Len(e) : (q \o e)[Len(q) + i] = e[i]
  BY DEF ToolEvents
<1>3. 1 .. Len(q) \subseteq 1 .. Len(q) + Len(e)
  BY <1>1
<1>5. ASSUME NEW i \in DOMAIN (q \o e), (q \o e)[i][1] = t
      PROVE  \/ (q \o e)[i][2] = s
             \/ /\ (q \o e)[i][2] \in Running
                /\ \E j \in DOMAIN (q \o e) : j > i /\ (q \o e)[j] = <<t, s>>
  <2>1. i \in 1 .. Len(q) \/ (i - Len(q) \in 1 .. Len(e) /\ i = Len(q) + (i - Len(q)))
    BY <1>1
  <2>2. CASE i \in 1 .. Len(q)
    <3>1. (q \o e)[i] = q[i] /\ q[i][1] = t
      BY <2>2, <1>2, <1>5
    <3>2. CASE q[i][2] = s
      BY <3>1, <3>2
    <3>3. ASSUME q[i][2] \in Running, NEW j \in DOMAIN q, j > i, q[j] = <<t, s>>
          PROVE  (q \o e)[j] = <<t, s>> /\ j \in DOMAIN (q \o e)
      BY <3>3, <1>1, <1>2, <1>3
    <3> QED
      BY <3>1, <3>2, <3>3, <2>2, <1>1 DEF Settles
  <2>3. CASE i - Len(q) \in 1 .. Len(e) /\ i = Len(q) + (i - Len(q))
    <3>1. (q \o e)[i] = e[i - Len(q)]
      BY <2>3, <1>2
    <3> QED
      BY <3>1, <2>3, <1>1, <1>5
  <2> QED
    BY <2>1, <2>2, <2>3
<1> QED
  BY <1>5 DEF Settles

\* The first event is taken.
LEMMA SettlesTail ==
  ASSUME NEW q \in ToolEvents, q # <<>>, NEW t, NEW s, Settles(q, t, s)
  PROVE  /\ Settles(Tail(q), t, s)
         /\ Head(q)[1] = t =>
              \/ Head(q)[2] = s
              \/ Head(q)[2] \in Running /\ t \in Named(Tail(q))
<1>1. /\ DOMAIN q = 1 .. Len(q) /\ Len(q) \in Nat /\ Len(q) >= 1
      /\ DOMAIN Tail(q) = 1 .. Len(q) - 1 /\ Head(q) = q[1]
  BY DEF ToolEvents
<1>2. \A i \in 1 .. Len(q) - 1 : Tail(q)[i] = q[i + 1]
  BY DEF ToolEvents
<1>3. ASSUME NEW j \in 1 .. Len(q), j > 1, q[j] = <<t, s>>
      PROVE  j - 1 \in DOMAIN Tail(q) /\ Tail(q)[j - 1] = <<t, s>>
  <2>1. j - 1 \in 1 .. Len(q) - 1 /\ (j - 1) + 1 = j
    BY <1>3, <1>1
  <2> QED
    BY <2>1, <1>1, <1>2, <1>3
<1>4. ASSUME NEW i \in DOMAIN Tail(q), Tail(q)[i][1] = t
      PROVE  \/ Tail(q)[i][2] = s
             \/ /\ Tail(q)[i][2] \in Running
                /\ \E j \in DOMAIN Tail(q) : j > i /\ Tail(q)[j] = <<t, s>>
  <2>1. i + 1 \in 1 .. Len(q) /\ Tail(q)[i] = q[i + 1] /\ i \in Int
    BY <1>1, <1>2
  <2>2. ASSUME NEW j \in 1 .. Len(q), j > i + 1, q[j] = <<t, s>>
        PROVE  j - 1 \in DOMAIN Tail(q) /\ Tail(q)[j - 1] = <<t, s>> /\ j - 1 > i
    BY <2>1, <2>2, <1>1, <1>3
  <2> QED
    BY <2>1, <2>2, <1>1, <1>4 DEF Settles
<1>5. ASSUME Head(q)[1] = t
      PROVE  Head(q)[2] = s \/ (Head(q)[2] \in Running /\ t \in Named(Tail(q)))
  <2>1. 1 \in 1 .. Len(q)
    BY <1>1
  <2>2. CASE q[1][2] \in Running /\ \E j \in DOMAIN q : j > 1 /\ q[j] = <<t, s>>
    <3>1. PICK j \in DOMAIN q : j > 1 /\ q[j] = <<t, s>>
      BY <2>2
    <3>2. j - 1 \in DOMAIN Tail(q) /\ Tail(q)[j - 1] = <<t, s>>
      BY <3>1, <1>1, <1>3
    <3> QED
      BY <3>2, <2>2, <1>1 DEF Named
  <2> QED
    BY <2>1, <2>2, <1>1, <1>5 DEF Settles
<1> QED
  BY <1>4, <1>5 DEF Settles

\* Counted from the end, two lists have the same events as far as both go.
Agree(q, r) ==
  \A i \in Nat : i < Len(q) /\ i < Len(r) => q[Len(q) - i] = r[Len(r) - i]

LEMMA AgreeNone == \A q : Agree(<<>>, q) /\ Agree(q, <<>>)
BY DEF Agree

LEMMA AgreeSelf == \A q : Agree(q, q)
BY DEF Agree

LEMMA AgreeAppend ==
  ASSUME NEW q \in ToolEvents, NEW r \in ToolEvents, NEW e \in ToolEvents, Agree(q, r)
  PROVE  Agree(q \o e, r \o e)
<1>1. /\ Len(q \o e) = Len(q) + Len(e) /\ Len(r \o e) = Len(r) + Len(e)
      /\ Len(q) \in Nat /\ Len(r) \in Nat /\ Len(e) \in Nat
  BY DEF ToolEvents
<1>2. /\ \A i \in 1 .. Len(q) : (q \o e)[i] = q[i]
      /\ \A i \in 1 .. Len(r) : (r \o e)[i] = r[i]
      /\ \A i \in 1 .. Len(e) : (q \o e)[Len(q) + i] = e[i]
      /\ \A i \in 1 .. Len(e) : (r \o e)[Len(r) + i] = e[i]
  BY DEF ToolEvents
<1>3. ASSUME NEW i \in Nat, i < Len(q) + Len(e), i < Len(r) + Len(e)
      PROVE  (q \o e)[Len(q) + Len(e) - i] = (r \o e)[Len(r) + Len(e) - i]
  <2>1. CASE i < Len(e)
    <3>1. /\ Len(e) - i \in 1 .. Len(e)
          /\ Len(q) + Len(e) - i = Len(q) + (Len(e) - i)
          /\ Len(r) + Len(e) - i = Len(r) + (Len(e) - i)
      BY <2>1, <1>1, <1>3
    <3> QED
      BY <3>1, <1>2
  <2>2. CASE i >= Len(e)
    <3>1. /\ i - Len(e) \in Nat /\ i - Len(e) < Len(q) /\ i - Len(e) < Len(r)
          /\ Len(q) + Len(e) - i = Len(q) - (i - Len(e))
          /\ Len(r) + Len(e) - i = Len(r) - (i - Len(e))
          /\ Len(q) - (i - Len(e)) \in 1 .. Len(q)
          /\ Len(r) - (i - Len(e)) \in 1 .. Len(r)
      BY <2>2, <1>1, <1>3
    <3>2. q[Len(q) - (i - Len(e))] = r[Len(r) - (i - Len(e))]
      BY <3>1 DEF Agree
    <3> QED
      BY <3>1, <3>2, <1>2
  <2> QED
    BY <2>1, <2>2, <1>1, <1>3
<1> QED
  BY <1>1, <1>3 DEF Agree

LEMMA AgreeTail ==
  ASSUME NEW q \in ToolEvents, NEW r \in ToolEvents, Agree(q, r), q # <<>>
  PROVE  Agree(Tail(q), r)
<1>1. Len(q) \in Nat /\ Len(q) >= 1 /\ Len(Tail(q)) = Len(q) - 1
  BY DEF ToolEvents
<1>2. \A i \in 1 .. Len(q) - 1 : Tail(q)[i] = q[i + 1]
  BY DEF ToolEvents
<1>3. ASSUME NEW i \in Nat, i < Len(q) - 1, i < Len(r)
      PROVE  Tail(q)[Len(q) - 1 - i] = r[Len(r) - i]
  <2>1. /\ Len(q) - 1 - i \in 1 .. Len(q) - 1 /\ (Len(q) - 1 - i) + 1 = Len(q) - i
        /\ i < Len(q)
    BY <1>1, <1>3
  <2>2. Tail(q)[Len(q) - 1 - i] = q[Len(q) - i]
    BY <2>1, <1>2
  <2> QED
    BY <2>1, <2>2, <1>3 DEF Agree
<1> QED
  BY <1>1, <1>3 DEF Agree

\* What is named in one and not in the other is before where that begins.
LEMMA AgreeNames ==
  ASSUME NEW q \in ToolEvents, NEW r \in ToolEvents, Agree(q, r)
  PROVE  Named(q) \subseteq Named(r) \cup Named(SubSeq(q, 1, Len(q) - Len(r)))
<1> DEFINE n == Len(q) - Len(r)
<1>1. /\ DOMAIN q = 1 .. Len(q) /\ Len(q) \in Nat /\ Len(r) \in Nat /\ n \in Int
      /\ DOMAIN r = 1 .. Len(r) /\ n <= Len(q)
  BY DEF ToolEvents
<1> HIDE DEF n
<1>2. ASSUME NEW k \in 1 .. Len(q), k <= n
      PROVE  q[k][1] \in Named(SubSeq(q, 1, n))
  <2>1. /\ Len(SubSeq(q, 1, n)) = n
        /\ \A i \in 1 .. n : SubSeq(q, 1, n)[i] = q[i]
        /\ SubSeq(q, 1, n) \in Seq(Tools \X (Running \cup Terminal))
    BY <1>1, <1>2 DEF ToolEvents
  <2>2. DOMAIN SubSeq(q, 1, n) = 1 .. n /\ k \in 1 .. n
    BY <2>1, <1>1, <1>2
  <2> QED
    BY <2>1, <2>2 DEF Named
<1>3. ASSUME NEW k \in 1 .. Len(q), k > n
      PROVE  q[k][1] \in Named(r)
  <2>1. /\ Len(q) - k \in Nat /\ Len(q) - k < Len(q) /\ Len(q) - k < Len(r)
        /\ Len(q) - (Len(q) - k) = k /\ Len(r) - (Len(q) - k) \in 1 .. Len(r)
    BY <1>1, <1>3 DEF n
  <2>2. q[k] = r[Len(r) - (Len(q) - k)]
    BY <2>1 DEF Agree
  <2> QED
    BY <2>1, <2>2, <1>1 DEF Named
<1>4. \A k \in 1 .. Len(q) : k <= n \/ k > n
  BY <1>1
<1> QED
  BY <1>1, <1>2, <1>3, <1>4 DEF Named, n

-----------------------------------------------------------------------------
(* The inductive invariant of the tool calls.                              *)

Frames ==
  {NoFrame} \cup {UseFrame(t) : t \in Tools} \cup {ResultFrame(t, s) : t \in Tools, s \in Ends}

ToolTypes ==
  /\ session \in {"active", "starting", "terminated", "error"} /\ ending \in BOOLEAN
  /\ agent \in [Tools -> {"no", "used", "over"}] /\ reader \in Frames
  /\ live \in [Tools -> Statuses] /\ shown \in [Tools -> Statuses]
  /\ writes \in ToolEvents /\ open \subseteq Tools
PageTypes ==
  /\ view \in {"away", "loading", "here", "stalled"} /\ reload \in {"no", "due", "asked"}
  /\ page \in [Tools -> Statuses] /\ again \in [Tools -> Statuses]
  /\ cards \in [Tools -> Statuses]
  /\ news \in BOOLEAN /\ kept \in BOOLEAN
  /\ unread \in ToolEvents /\ resent \in ToolEvents
GhostTypes == late \subseteq Tools /\ stale \subseteq Tools /\ skipped \subseteq Tools
FewUsed == IsFiniteSet({t \in Tools : agent[t] # "no"})

\* Whoever takes the events in order ends with the status of each tool.
EventsSettle ==
  \A t \in Tools :
    /\ Settles(writes, t, live[t])
    /\ Settles(unread, t, live[t])
    /\ Settles(resent, t, live[t])

PageOK ==
  /\ view = "away" => unread = <<>> /\ reload = "no" /\ ~ news /\ ~ kept
  /\ ~ kept /\ reload # "asked" => resent = <<>>
  /\ Agree(unread, resent)

\* The browser hears of an error once.
OnceOK ==
  /\ "crash" \notin had => ~ news /\ reload = "no"
  /\ news => reload = "no"

\* What a frame that is stored and not published says of its tool.
FrameOK ==
  /\ reader # NoFrame => session = "active"
  /\ \A t \in Tools :
       /\ reader = UseFrame(t) => agent[t] # "no" /\ live[t] = "none"
       /\ \A s \in Ends : reader = ResultFrame(t, s) => agent[t] = "over"

\* While nobody uses them, only named tools are tracked, and the history has
\* ended those that were left behind when the session is active again.
SessionOK ==
  /\ ending => session = "active"
  /\ ending => Active \subseteq late
  /\ session # "active" => Active \subseteq late \cup stale
  /\ session = "active" => stale \cap open = {}

Unused ==
  \A t \in Tools : agent[t] = "no" =>
    /\ live[t] = "none" /\ shown[t] = "none" /\ t \notin open
    /\ cards[t] = "none" /\ page[t] = "none" /\ again[t] = "none"
    /\ t \notin late \cup stale \cup skipped

LeftOver == \A t \in stale : live[t] # "none"

FileOK ==
  \A t \in Tools :
    /\ agent[t] # "no" => shown[t] # "none"
    /\ agent[t] # "no" /\ t \notin open => shown[t] \in Terminal
    /\ live[t] \in Terminal /\ t \notin Named(writes) => shown[t] \in Terminal

Brings(t) == \E s \in Ends : reader = ResultFrame(t, s)

\* What the file shows of a tool, and what it will.
FileFollows(t) ==
  /\ live[t] = "none" /\ agent[t] # "no" =>
       reader = UseFrame(t) /\ shown[t] = "pending" /\ t \in open
  /\ live[t] \in Running /\ Brings(t) => reader = ResultFrame(t, shown[t]) /\ t \notin open
  /\ live[t] \in Running /\ ~ Brings(t) =>
       /\ t \in open /\ shown[t] \in Running
       /\ t \notin Named(writes) => shown[t] = live[t]
  /\ live[t] \in Ends => shown[t] = live[t] /\ t \notin open
  /\ live[t] \in Cut /\ t \in open => shown[t] \in Running \cup Cut

FilesFollow == \A t \in Tools \ (late \cup stale) : FileFollows(t)

\* A card that events can still bring to the status of its tool.
Fits(v, t) ==
  /\ live[t] = "none" => v = "none" \/ (v = "pending" /\ reader = UseFrame(t))
  /\ live[t] \in Running /\ v \in Terminal => reader = ResultFrame(t, v)

CardsFit ==
  \A t \in Tools \ (late \cup stale) :
    Fits(cards[t], t) /\ Fits(page[t], t) /\ Fits(again[t], t)

\* A card that no event will change.
Right(v, t) ==
  \/ v = live[t]
  \/ reader = UseFrame(t) /\ v = "pending"
  \/ reader = ResultFrame(t, v) /\ live[t] \in Running
  \/ live[t] \in Cut /\ v \in Cut
  \/ /\ live[t] \in Cut /\ v = shown[t] /\ v \in Terminal
     /\ t \notin open /\ t \notin Named(writes)

\* The cards the page will have when what was asked for has come.
Loads == view = "loading"
AsksAgain == reload = "asked"
Shows == view \in {"here", "stalled"} /\ reload = "no"

CardsRight ==
  \A t \in Tools \ (late \cup stale \cup skipped) : t \notin Named(unread) =>
    /\ Loads => Right(page[t], t)
    /\ AsksAgain => Right(again[t], t)
    /\ Shows => Right(cards[t], t)

CardsEnd ==
  \A t \in Tools \ skipped : t \notin Named(unread) /\ live[t] \in Terminal =>
    /\ Loads => page[t] \in Terminal
    /\ AsksAgain => again[t] \in Terminal
    /\ Shows => cards[t] \in Terminal

\* After an error every card is cleared, loaded from a history that has ended,
\* or will be.
ErrorSeen ==
  session = "error" =>
    \A t \in Tools : agent[t] # "no" =>
      \/ view = "away" \/ news \/ reload = "due"
      \/ reload = "asked" /\ again[t] \in Terminal
      \/ reload = "no" /\ cards[t] \in Terminal
      \/ reload = "no" /\ view = "loading" /\ page[t] \in Terminal

Typed == ToolTypes /\ PageTypes /\ GhostTypes /\ FewUsed
ToolsOK == FrameOK /\ SessionOK /\ Unused /\ LeftOver /\ FileOK /\ FilesFollow
PagesOK == EventsSettle /\ PageOK /\ CardsFit /\ CardsRight /\ CardsEnd /\ ErrorSeen
ToolIInv == Typed /\ OnceOK /\ ToolsOK /\ PagesOK

-----------------------------------------------------------------------------
(* The tools of D change and events tell of it.                            *)

Tells(D, e) ==
  /\ e \in ToolEvents
  /\ \A i \in DOMAIN e : e[i][1] \in D /\ e[i][2] = live'[e[i][1]]
  /\ \A t \in D : \E k \in DOMAIN e : e[k] = <<t, live'[t]>>
  /\ Announce(e)

Changes(D) ==
  /\ D \subseteq Tools
  /\ live' \in [Tools -> Statuses]
  /\ \A t \in Tools \ D : live'[t] = live[t]
  /\ \A t \in D : live[t] \notin Terminal /\ live'[t] \in Running \cup Terminal
  /\ \E e : Tells(D, e)

\* What follows for the file and the browser.
Follow(D) ==
  /\ \A t \in Tools \ D : live'[t] = live[t]
  /\ \A t \in D : live[t] \notin Terminal /\ live'[t] \in Running \cup Terminal
  /\ live' \in [Tools -> Statuses]
  /\ writes' \in ToolEvents /\ unread' \in ToolEvents /\ resent' \in ToolEvents
  /\ EventsSettle'
  /\ view = "away" => unread' = <<>>
  /\ ~ kept /\ reload # "asked" => resent' = <<>>
  /\ Agree(unread', resent')
  /\ kept' = kept
  /\ Named(writes') = Named(writes) \cup D
  /\ view # "away" => Named(unread') = Named(unread) \cup D

LEMMA ChangesFollow ==
  ASSUME Typed, EventsSettle, PageOK, NEW D, Changes(D)
  PROVE  Follow(D)
<1>1. PICK e : Tells(D, e)
  BY DEF Changes
<1>2. e \in ToolEvents /\ writes \in ToolEvents /\ unread \in ToolEvents /\ resent \in ToolEvents
  BY <1>1 DEF Tells, Typed, ToolTypes, PageTypes
<1>3. /\ writes' = writes \o e
      /\ unread' = IF view = "away" THEN unread ELSE unread \o e
      /\ resent' = IF kept \/ reload = "asked" THEN resent \o e ELSE resent
      /\ kept' = kept
  BY <1>1 DEF Tells, Announce, Told
<1>4. \A q \in ToolEvents : q \o e \in ToolEvents
  BY <1>2 DEF ToolEvents
<1>5. writes' \in ToolEvents /\ unread' \in ToolEvents /\ resent' \in ToolEvents
  BY <1>2, <1>3, <1>4
<1>6. Named(e) = D
  <2>1. ASSUME NEW t \in D PROVE t \in Named(e)
    <3>1. PICK k \in DOMAIN e : e[k] = <<t, live'[t]>>
      BY <1>1 DEF Tells
    <3> QED
      BY <3>1 DEF Named
  <2> QED
    BY <1>1, <2>1 DEF Tells, Named
<1>7. ASSUME NEW t \in Tools, NEW q \in ToolEvents, Settles(q, t, live[t])
      PROVE  Settles(q \o e, t, live'[t])
  <2>1. CASE t \in D
    <3>1. PICK k \in DOMAIN e : e[k] = <<t, live'[t]>>
      BY <1>1, <2>1 DEF Tells
    <3>2. \A i \in DOMAIN e : e[i][1] = t => e[i][2] = live'[t]
      BY <1>1 DEF Tells
    <3>3. live[t] \notin Terminal
      BY <2>1 DEF Changes
    <3> QED
      BY <1>2, <1>7, <3>1, <3>2, <3>3, SettlesChange
  <2>2. CASE t \notin D
    <3>1. \A i \in DOMAIN e : e[i][1] # t
      BY <1>1, <2>2 DEF Tells
    <3>2. live'[t] = live[t]
      BY <2>2 DEF Changes
    <3> QED
      BY <1>2, <1>7, <3>1, <3>2, SettlesOthers
  <2> QED
    BY <2>1, <2>2
<1>8. view = "away" => unread = <<>>
  BY DEF PageOK
<1>9. ~ kept /\ reload # "asked" => resent = <<>>
  BY DEF PageOK
<1>10. EventsSettle'
  <2> SUFFICES ASSUME NEW t \in Tools
               PROVE  /\ Settles(writes', t, live'[t])
                      /\ Settles(unread', t, live'[t])
                      /\ Settles(resent', t, live'[t])
    BY DEF EventsSettle
  <2>1. Settles(writes, t, live[t]) /\ Settles(unread, t, live[t]) /\ Settles(resent, t, live[t])
    BY DEF EventsSettle
  <2>2. Settles(writes', t, live'[t])
    BY <1>2, <1>3, <1>7, <2>1
  <2>3. Settles(unread', t, live'[t])
    BY <1>2, <1>3, <1>7, <1>8, <2>1, SettlesNone
  <2>4. Settles(resent', t, live'[t])
    BY <1>2, <1>3, <1>7, <1>9, <2>1, SettlesNone
  <2> QED
    BY <2>2, <2>3, <2>4
<1>11. Agree(unread', resent')
  <2>1. Agree(unread, resent)
    BY DEF PageOK
  <2>2. Agree(unread \o e, resent \o e)
    BY <2>1, <1>2, AgreeAppend
  <2> QED
    BY <2>2, <1>3, <1>8, <1>9, AgreeNone
<1>12. /\ Named(writes') = Named(writes) \cup D
       /\ view # "away" => Named(unread') = Named(unread) \cup D
  BY <1>2, <1>3, <1>6, NamedAppend
<1> QED
  BY <1>3, <1>5, <1>8, <1>9, <1>10, <1>11, <1>12 DEF Changes, Follow

\* One tool changes.
LEMMA OneChanges ==
  ASSUME Typed, NEW t \in Tools, NEW s \in Running \cup Terminal, live[t] \notin Terminal,
         live' = [live EXCEPT ![t] = s], Announce(<< <<t, s>> >>)
  PROVE  Changes({t}) /\ live'[t] = s
<1> DEFINE e == << <<t, s>> >>
<1>1. /\ e \in ToolEvents /\ DOMAIN e = {1} /\ e[1] = <<t, s>>
  BY DEF ToolEvents
<1>2. /\ live' \in [Tools -> Statuses] /\ live'[t] = s
      /\ \A u \in Tools \ {t} : live'[u] = live[u]
  BY StatusKinds DEF Typed, ToolTypes
<1>3. Tells({t}, e)
  BY <1>1, <1>2 DEF Tells
<1> HIDE DEF e
<1> QED
  BY <1>2, <1>3 DEF Changes

\* No tool does.
LEMMA NoneChanges ==
  ASSUME Typed, UNCHANGED <<live, writes, unread, cursorVars>>
  PROVE  Changes({})
<1>1. /\ <<>> \in ToolEvents /\ DOMAIN <<>> = {}
  BY DEF ToolEvents
<1>2. Announce(<<>>)
  <2>1. writes \in ToolEvents /\ unread \in ToolEvents /\ resent \in ToolEvents
    BY DEF Typed, ToolTypes, PageTypes
  <2>2. writes \o <<>> = writes /\ unread \o <<>> = unread /\ resent \o <<>> = resent
    BY <2>1, ConcatEmptySeq DEF ToolEvents
  <2> QED
    BY <2>2 DEF Announce, Told, cursorVars
<1>3. Tells({}, <<>>)
  BY <1>1, <1>2 DEF Tells
<1> QED
  BY <1>3 DEF Changes, Typed, ToolTypes

\* Every tool in use is marked.
LEMMA MarkChanges ==
  ASSUME Typed, Unused, MarkInterrupted
  PROVE  Changes(Active) /\ \A t \in Active : live'[t] = "interrupted"
<1>1. PICK order \in SetToSeqs(Active) :
        Announce([i \in DOMAIN order |-> <<order[i], "interrupted">>])
  BY DEF MarkInterrupted
<1> DEFINE n == Cardinality(Active)
           e == [i \in DOMAIN order |-> <<order[i], "interrupted">>]
<1>2. Active \subseteq {t \in Tools : agent[t] # "no"}
  BY StatusKinds DEF Active, Unused
<1>3. IsFiniteSet(Active)
  BY <1>2, FS_Subset DEF Typed, FewUsed
<1>4. n \in Nat
  BY <1>3, FS_CardinalityType
<1>5. /\ order \in [1 .. n -> Active]
      /\ \A i, j \in 1 .. n : i # j => order[i] # order[j]
  BY <1>1 DEF SetToSeqs
<1>6. order \in Injection(1 .. n, Active)
  BY <1>5 DEF Injection, IsInjective
<1>7. Cardinality(1 .. n) = n
  BY <1>4, FS_Interval
<1>8. order \in Surjection(1 .. n, Active)
  BY <1>3, <1>6, <1>7, FS_Injection
<1>9. \A t \in Active : \E k \in 1 .. n : order[k] = t
  BY <1>8 DEF Surjection
<1>10. /\ DOMAIN e = 1 .. n /\ DOMAIN order = 1 .. n
       /\ \A i \in 1 .. n : e[i] = <<order[i], "interrupted">>
  BY <1>5
<1>11. /\ \A t \in Tools : live'[t] = IF t \in Active THEN "interrupted" ELSE live[t]
       /\ live' = [t \in Tools |-> IF t \in Active THEN "interrupted" ELSE live[t]]
       /\ Active \subseteq Tools
  BY DEF MarkInterrupted, Active
<1>12. live' \in [Tools -> Statuses]
  BY <1>11, StatusKinds DEF Typed, ToolTypes
<1>13. \A t \in Active : live[t] \notin Terminal /\ live'[t] = "interrupted"
  BY <1>11, StatusKinds DEF Active
<1>14. Announce(e)
  BY <1>1
<1> HIDE DEF e, n
<1>15. e \in ToolEvents
  <2>1. ASSUME NEW i \in 1 .. n PROVE e[i] \in Tools \X (Running \cup Terminal)
    <3>1. order[i] \in Tools
      BY <1>5, <1>11
    <3>2. e[i] = <<order[i], "interrupted">>
      BY <1>10
    <3> QED
      BY <3>1, <3>2, StatusKinds
  <2>2. e = [i \in 1 .. n |-> e[i]]
    BY <1>5 DEF e
  <2> QED
    BY <1>4, <2>1, <2>2, IsASeq DEF ToolEvents
<1>16. Tells(Active, e)
  <2>1. \A i \in DOMAIN e : e[i][1] \in Active /\ e[i][2] = live'[e[i][1]]
    BY <1>5, <1>10, <1>13
  <2>2. ASSUME NEW t \in Active PROVE \E k \in DOMAIN e : e[k] = <<t, live'[t]>>
    BY <1>9, <1>10, <1>13
  <2> QED
    BY <2>1, <2>2, <1>14, <1>15 DEF Tells
<1> QED
  BY <1>11, <1>12, <1>13, <1>16, StatusKinds DEF Changes

LEMMA FrameKinds ==
  /\ \A t, u : UseFrame(t) = UseFrame(u) => t = u
  /\ \A t, u, s : UseFrame(t) # ResultFrame(u, s)
  /\ \A t, u, s, w : ResultFrame(t, s) = ResultFrame(u, w) => t = u /\ s = w
  /\ \A t : UseFrame(t) # NoFrame /\ UseFrame(t)[1] = "use" /\ UseFrame(t)[2] = t
  /\ \A t, s : /\ ResultFrame(t, s) # NoFrame /\ ResultFrame(t, s)[1] = "result"
               /\ ResultFrame(t, s)[2] = t /\ ResultFrame(t, s)[3] = s
  /\ NoFrame[1] = "none"
<1>1. \A t, u : UseFrame(t) = UseFrame(u) => t = u
  BY DEF UseFrame
<1>2. \A t, u, s : UseFrame(t) # ResultFrame(u, s)
  BY DEF UseFrame, ResultFrame
<1>3. \A t, u, s, w : ResultFrame(t, s) = ResultFrame(u, w) => t = u /\ s = w
  BY DEF ResultFrame
<1>4. \A t : UseFrame(t) # NoFrame /\ UseFrame(t)[1] = "use" /\ UseFrame(t)[2] = t
  BY DEF UseFrame, NoFrame
<1>5. \A t, s : /\ ResultFrame(t, s) # NoFrame /\ ResultFrame(t, s)[1] = "result"
                /\ ResultFrame(t, s)[2] = t /\ ResultFrame(t, s)[3] = s
  BY DEF ResultFrame, NoFrame
<1>6. NoFrame[1] = "none"
  BY DEF NoFrame
<1> QED
  BY <1>1, <1>2, <1>3, <1>4, <1>5, <1>6

LEMMA FrameCases ==
  ASSUME Typed
  PROVE  /\ reader = NoFrame \/ (\E t \in Tools : reader = UseFrame(t))
              \/ (\E t \in Tools, s \in Ends : reader = ResultFrame(t, s))
         /\ reader[1] = "use" => \E t \in Tools : reader = UseFrame(t)
         /\ reader[1] = "result" => \E t \in Tools, s \in Ends : reader = ResultFrame(t, s)
BY FrameKinds DEF Typed, ToolTypes, Frames

-----------------------------------------------------------------------------
(* What each step of the coordinator does to the tool calls.               *)

pageVars == <<view, page, reload, again, cards, skipped>>
queueVars == <<writes, unread, kept, resent>>
\* A frame of the tool is still the one that was stored last.
FrameStays(t) == reader = UseFrame(t) \/ Brings(t) => reader' = reader

\* The tools of D change, the page is told, and no card is touched.
Serves(D) ==
  /\ \A t \in Tools \ D : live'[t] = live[t]
  /\ \A t \in D : live[t] \notin Terminal /\ live'[t] \in Running \cup Terminal
  /\ view # "away" => Named(unread') = Named(unread) \cup D
  /\ UNCHANGED pageVars
  /\ late \subseteq late' /\ stale \subseteq stale'
  /\ \A t \in Tools \ (late' \cup stale') :
       /\ live[t] \notin Terminal /\ (t \notin D \/ (live[t] \in Running /\ live'[t] \in Running))
            => FrameStays(t)
       /\ live[t] \in Cut /\ shown[t] \in Terminal /\ t \notin open /\ t \notin Named(writes)
            => shown'[t] = shown[t] /\ t \notin open' /\ t \notin Named(writes')

LEMMA ServedFit ==
  ASSUME Typed, CardsFit, NEW D, Serves(D)
  PROVE  CardsFit'
<1> SUFFICES ASSUME NEW t \in Tools \ (late' \cup stale')
             PROVE  Fits(cards[t], t)' /\ Fits(page[t], t)' /\ Fits(again[t], t)'
  BY DEF CardsFit
<1>1. t \in Tools \ (late \cup stale)
  BY DEF Serves
<1>2. ASSUME NEW v, Fits(v, t) PROVE (live'[t] = "none" => v = "none" \/ (v = "pending" /\ reader' = UseFrame(t)))
                            /\ (live'[t] \in Running /\ v \in Terminal => reader' = ResultFrame(t, v))
  <2>1. CASE t \notin D
    <3>1. live'[t] = live[t] /\ (live[t] \notin Terminal => FrameStays(t))
      BY <2>1, <1>1 DEF Serves
    <3>3. reader = ResultFrame(t, v) => Brings(t)
      BY FrameKinds DEF Brings, Typed, ToolTypes, Frames
    <3> QED
      BY <1>2, <3>1, <3>3, StatusKinds DEF Fits, FrameStays
  <2>2. CASE t \in D
    <3>1. live[t] \notin Terminal /\ live'[t] \in Running \cup Terminal
      BY <2>2 DEF Serves
    <3>2. live[t] \in Running /\ live'[t] \in Running => FrameStays(t)
      BY <3>1 DEF Serves
    <3>3. reader = ResultFrame(t, v) => Brings(t)
      BY FrameKinds DEF Brings, Typed, ToolTypes, Frames
    <3>4. live[t] \in Running \/ live[t] = "none"
      BY <3>1, <1>1, StatusKinds DEF Typed, ToolTypes
    <3> QED
      BY <1>2, <3>1, <3>2, <3>3, <3>4, StatusKinds DEF Fits, FrameStays
  <2> QED
    BY <2>1, <2>2
<1>3. Fits(cards[t], t) /\ Fits(page[t], t) /\ Fits(again[t], t)
  BY <1>1 DEF CardsFit
<1>4. cards'[t] = cards[t] /\ page'[t] = page[t] /\ again'[t] = again[t]
  BY DEF Serves, pageVars
<1> QED
  BY <1>2, <1>3, <1>4 DEF Fits

LEMMA ServedRight ==
  ASSUME Typed, CardsRight, PageOK, FrameOK, NEW D, Serves(D)
  PROVE  CardsRight'
<1> SUFFICES ASSUME NEW t \in Tools \ (late' \cup stale' \cup skipped'), t \notin Named(unread')
             PROVE  /\ Loads' => Right(page[t], t)'
                    /\ AsksAgain' => Right(again[t], t)'
                    /\ Shows' => Right(cards[t], t)'
  BY DEF CardsRight
<1>1. t \in Tools \ (late \cup stale \cup skipped) /\ t \in Tools \ (late' \cup stale')
  BY DEF Serves, pageVars
<1>2. cards'[t] = cards[t] /\ page'[t] = page[t] /\ again'[t] = again[t]
      /\ Loads' = Loads /\ AsksAgain' = AsksAgain /\ Shows' = Shows
  BY DEF Serves, pageVars, Loads, AsksAgain, Shows
<1>3. Loads \/ AsksAgain \/ Shows => view # "away"
  BY DEF Loads, AsksAgain, Shows, PageOK
<1> SUFFICES ASSUME Loads \/ AsksAgain \/ Shows
             PROVE  /\ Loads => Right(page[t], t)'
                    /\ AsksAgain => Right(again[t], t)'
                    /\ Shows => Right(cards[t], t)'
  BY <1>2
<1>4. t \notin Named(unread) /\ t \notin D
  BY <1>3 DEF Serves
<1>5. live'[t] = live[t] /\ (live[t] \notin Terminal => FrameStays(t))
  BY <1>1, <1>4 DEF Serves
<1>6. live[t] \in Cut /\ shown[t] \in Terminal /\ t \notin open /\ t \notin Named(writes)
        => shown'[t] = shown[t] /\ t \notin open' /\ t \notin Named(writes')
  BY <1>1 DEF Serves
<1>7. reader = UseFrame(t) => live[t] = "none"
  BY DEF FrameOK
<1>8. ASSUME NEW v, Right(v, t)
      PROVE  \/ v = live'[t]
             \/ reader' = UseFrame(t) /\ v = "pending"
             \/ reader' = ResultFrame(t, v) /\ live'[t] \in Running
             \/ live'[t] \in Cut /\ v \in Cut
             \/ /\ live'[t] \in Cut /\ v = shown'[t] /\ v \in Terminal
                /\ t \notin open' /\ t \notin Named(writes')
  <2>1. reader = ResultFrame(t, v) => Brings(t)
    BY FrameKinds DEF Brings, Typed, ToolTypes, Frames
  <2> QED
    BY <1>5, <1>6, <1>7, <1>8, <2>1, StatusKinds DEF Right, FrameStays
<1> QED
  BY <1>1, <1>2, <1>4, <1>8 DEF Right, CardsRight

LEMMA ServedEnd ==
  ASSUME Typed, CardsEnd, PageOK, NEW D, Serves(D)
  PROVE  CardsEnd'
<1> SUFFICES ASSUME NEW t \in Tools \ skipped', t \notin Named(unread'), live'[t] \in Terminal
             PROVE  /\ Loads' => page'[t] \in Terminal
                    /\ AsksAgain' => again'[t] \in Terminal
                    /\ Shows' => cards'[t] \in Terminal
  BY DEF CardsEnd
<1>1. t \in Tools \ skipped
  BY DEF Serves, pageVars
<1>2. cards'[t] = cards[t] /\ page'[t] = page[t] /\ again'[t] = again[t]
      /\ Loads' = Loads /\ AsksAgain' = AsksAgain /\ Shows' = Shows
  BY DEF Serves, pageVars, Loads, AsksAgain, Shows
<1>3. Loads \/ AsksAgain \/ Shows => view # "away"
  BY DEF Loads, AsksAgain, Shows, PageOK
<1>4. Loads \/ AsksAgain \/ Shows => t \notin Named(unread) /\ t \notin D
  BY <1>3 DEF Serves
<1>5. t \notin D => live'[t] = live[t]
  BY DEF Serves
<1> QED
  BY <1>1, <1>2, <1>4, <1>5 DEF CardsEnd

ToolKept == ToolsOK' /\ PagesOK'

LEMMA PagesKept ==
  ASSUME Typed, PagesOK, FrameOK, NEW D, Serves(D), EventsSettle', PageOK', ErrorSeen'
  PROVE  PagesOK'
BY ServedFit, ServedRight, ServedEnd DEF PagesOK

\* Tools change and the session goes on.
LEMMA ToldKept ==
  ASSUME Typed, PagesOK, FrameOK, NEW D, Follow(D), Serves(D),
         UNCHANGED <<session, agent, news>>
  PROVE  PagesOK'
<1>1. EventsSettle'
  BY DEF Follow
<1>2. PageOK'
  BY DEF PagesOK, PageOK, Follow, Serves, pageVars
<1>3. ErrorSeen'
  BY DEF PagesOK, ErrorSeen, Serves, pageVars
<1> QED
  BY <1>1, <1>2, <1>3, PagesKept

\* The tools that change, and what more is late, have been used.
LEMMA ToldUsed ==
  ASSUME Typed, Unused, LeftOver, NEW D, Follow(D),
         UNCHANGED <<agent, page, again, cards, stale, skipped>>,
         \A t \in D : agent[t] # "no",
         \A t \in late' : t \in late \/ agent[t] # "no",
         \A t \in Tools : agent[t] = "no" => shown'[t] = shown[t] /\ (t \in open' => t \in open)
  PROVE  Unused' /\ LeftOver'
<1>1. Unused'
  <2> SUFFICES ASSUME NEW t \in Tools, agent[t] = "no"
               PROVE  /\ live'[t] = "none" /\ shown'[t] = "none" /\ t \notin open'
                      /\ cards[t] = "none" /\ page[t] = "none" /\ again[t] = "none"
                      /\ t \notin late' \cup stale \cup skipped
    BY DEF Unused
  <2>1. live'[t] = live[t]
    BY DEF Follow
  <2> QED
    BY <2>1 DEF Unused
<1>2. LeftOver'
  <2> SUFFICES ASSUME NEW t \in stale PROVE live'[t] # "none"
    BY DEF LeftOver
  <2>1. t \in Tools
    BY DEF Typed, GhostTypes
  <2> QED
    BY <2>1, StatusKinds DEF LeftOver, Follow
<1> QED
  BY <1>1, <1>2

\* The file is as it was, and will have what has changed.
LEMMA ToldFile ==
  ASSUME Typed, FileOK, NEW D, Follow(D), UNCHANGED <<agent, shown, open>>
  PROVE  FileOK'
<1> SUFFICES ASSUME NEW t \in Tools, live'[t] \in Terminal, t \notin Named(writes')
             PROVE  shown[t] \in Terminal
  BY DEF FileOK
<1> QED
  BY DEF FileOK, Follow

LEMMA AskedKeeps ==
  ASSUME ToolIInv, NEW t \in Tools, NEW s \in {"awaiting", "running", "denied"},
         session = "active", live[t] \in {"pending", "awaiting"}, agent[t] = "used",
         live' = [live EXCEPT ![t] = s], Announce(<< <<t, s>> >>),
         UNCHANGED <<session, ending, agent, reader, shown, open, view, page, reload,
                     again, news, cards, ghosts>>
  PROVE  ToolKept
<1>1. s \in Running \cup Terminal /\ live[t] \in Running /\ live[t] \notin Terminal /\ s \notin Ends
  BY StatusKinds DEF Running, Terminal, Ends
<1>2. Changes({t}) /\ live'[t] = s
  BY <1>1, OneChanges DEF ToolIInv
<1>3. Follow({t})
  BY <1>2, ChangesFollow DEF ToolIInv, PagesOK
<1>4. Serves({t})
  <2>1. \A u \in Tools : FrameStays(u)
    BY DEF FrameStays
  <2>2. ASSUME NEW u \in Tools, live[u] \in Cut, u \notin Named(writes)
        PROVE u \notin Named(writes')
    <3>1. u # t
      BY <2>2, <1>1, StatusKinds
    <3> QED
      BY <3>1, <2>2, <1>3 DEF Follow
  <2> QED
    BY <1>3, <2>1, <2>2 DEF Serves, Follow, ghosts, pageVars
<1>5. PagesOK'
  BY <1>3, <1>4, ToldKept DEF ToolIInv, ToolsOK
<1>6. FrameOK'
  <2>1. ~ (reader = UseFrame(t))
    BY <1>1, StatusKinds DEF ToolIInv, ToolsOK, FrameOK
  <2>2. \A u \in Tools \ {t} : live'[u] = live[u]
    BY <1>3 DEF Follow
  <2> QED
    BY <2>1, <2>2 DEF ToolIInv, ToolsOK, FrameOK
<1>7. SessionOK'
  <2>1. \A u \in Tools : live'[u] \in Running => live[u] \in Running
    BY <1>1, <1>3 DEF Follow
  <2>2. Active' \subseteq Active
    BY <2>1 DEF Active
  <2> QED
    BY <2>2 DEF ToolIInv, ToolsOK, SessionOK, ghosts
<1>8. Unused' /\ LeftOver'
  BY <1>3, ToldUsed DEF ToolIInv, ToolsOK, ghosts
<1>9. FileOK'
  BY <1>3, ToldFile DEF ToolIInv, ToolsOK
<1>10. FilesFollow'
  <2> SUFFICES ASSUME NEW u \in Tools \ (late \cup stale) PROVE FileFollows(u)'
    BY DEF FilesFollow, ghosts
  <2>1. FileFollows(u)
    BY DEF ToolIInv, ToolsOK, FilesFollow
  <2>2. Brings(u)' = Brings(u)
    BY DEF Brings
  <2>3. CASE u = t
    <3>1. ~ Brings(t)
      BY DEF Brings, ToolIInv, ToolsOK, FrameOK
    <3>2. t \in open /\ shown[t] \in Running
      BY <2>1, <2>3, <1>1, <3>1 DEF FileFollows
    <3>3. t \in Named(writes')
      BY <1>3 DEF Follow
    <3> QED
      BY <1>1, <1>2, <2>2, <2>3, <3>1, <3>2, <3>3, StatusKinds DEF FileFollows
  <2>4. CASE u # t
    <3>1. live'[u] = live[u] /\ (u \in Named(writes') <=> u \in Named(writes))
      BY <1>3, <2>4 DEF Follow
    <3> QED
      BY <2>1, <2>2, <3>1 DEF FileFollows
  <2> QED
    BY <2>3, <2>4
<1> QED
  BY <1>5, <1>6, <1>7, <1>8, <1>9, <1>10 DEF ToolKept, ToolsOK

LEMMA PublishUseKeeps ==
  ASSUME ToolIInv, PublishUse
  PROVE  ToolKept
<1>1. PICK t \in Tools : reader = UseFrame(t)
  BY FrameCases DEF PublishUse, ToolIInv
<1>2. reader[2] = t
  BY <1>1, FrameKinds
<1>3. live[t] = "none" /\ agent[t] # "no" /\ session = "active"
  BY <1>1, FrameKinds DEF ToolIInv, ToolsOK, FrameOK
<1>4. Changes({t}) /\ live'[t] = "pending"
  <2>1. live' = [live EXCEPT ![t] = "pending"] /\ Announce(<< <<t, "pending">> >>)
    BY <1>2, <1>3 DEF PublishUse, CreateToolCall
  <2>2. "pending" \in Running \cup Terminal /\ live[t] \notin Terminal
    BY <1>3, StatusKinds
  <2>3. Typed
    BY DEF ToolIInv
  <2> QED
    BY <2>1, <2>2, <2>3, OneChanges
<1>5. Follow({t})
  BY <1>4, ChangesFollow DEF ToolIInv, PagesOK
<1>6. /\ late' = IF ending THEN late \cup {t} ELSE late
      /\ reader' = NoFrame
      /\ UNCHANGED <<session, ending, agent, shown, open, view, page, reload, again, news,
                     cards, stale, skipped>>
  BY <1>2 DEF PublishUse
<1>7. \A u : ~ Brings(u)
  BY <1>1, FrameKinds DEF Brings
<1>8. \A u : ~ Brings(u)'
  BY <1>6, FrameKinds DEF Brings
<1>9. Serves({t})
  <2>1. \A u \in Tools \ {t} : FrameStays(u)
    BY <1>1, <1>7, FrameKinds DEF FrameStays
  <2>2. ASSUME NEW u \in Tools, live[u] \in Cut, u \notin Named(writes)
        PROVE u \notin Named(writes')
    <3>1. u # t
      BY <2>2, <1>3, StatusKinds
    <3> QED
      BY <3>1, <2>2, <1>5 DEF Follow
  <2>3. live[t] \notin Running
    BY <1>3, StatusKinds
  <2> QED
    BY <1>5, <1>6, <2>1, <2>2, <2>3 DEF Serves, Follow, pageVars
<1>10. PagesOK'
  BY <1>5, <1>6, <1>9, ToldKept DEF ToolIInv, ToolsOK
<1>11. FrameOK'
  BY <1>6, FrameKinds DEF FrameOK
<1>12. SessionOK'
  <2>1. \A u \in Tools : live'[u] \in Running => u \in Active \cup {t}
    BY <1>5 DEF Follow, Active
  <2>2. Active' \subseteq Active \cup {t}
    BY <2>1 DEF Active
  <2> QED
    BY <1>3, <1>6, <2>2 DEF ToolIInv, ToolsOK, SessionOK
<1>13. Unused' /\ LeftOver'
  BY <1>3, <1>5, <1>6, ToldUsed DEF ToolIInv, ToolsOK
<1>14. FileOK'
  BY <1>5, <1>6, ToldFile DEF ToolIInv, ToolsOK
<1>15. FilesFollow'
  <2> SUFFICES ASSUME NEW u \in Tools \ (late' \cup stale') PROVE FileFollows(u)'
    BY DEF FilesFollow
  <2>1. FileFollows(u)
    BY <1>6 DEF ToolIInv, ToolsOK, FilesFollow
  <2>3. CASE u = t
    <3>1. t \in open /\ shown[t] = "pending"
      BY <2>1, <2>3, <1>3 DEF FileFollows
    <3>2. t \in Named(writes')
      BY <1>5 DEF Follow
    <3> QED
      BY <1>4, <1>6, <1>8, <2>3, <3>1, <3>2, StatusKinds DEF FileFollows
  <2>4. CASE u # t
    <3>1. live'[u] = live[u] /\ (u \in Named(writes') <=> u \in Named(writes))
      BY <1>5, <2>4 DEF Follow
    <3>2. ~ (reader = UseFrame(u))
      BY <1>1, <2>4, FrameKinds
    <3> QED
      BY <2>1, <1>6, <1>7, <1>8, <3>1, <3>2 DEF FileFollows
  <2> QED
    BY <2>3, <2>4
<1> QED
  BY <1>10, <1>11, <1>12, <1>13, <1>14, <1>15 DEF ToolKept, ToolsOK

LEMMA PublishResultKeeps ==
  ASSUME ToolIInv, PublishResult
  PROVE  ToolKept
<1>1. PICK t \in Tools, s \in Ends : reader = ResultFrame(t, s)
  BY FrameCases DEF PublishResult, ToolIInv
<1>2. reader[2] = t /\ reader[3] = s
  BY <1>1, FrameKinds
<1>3. agent[t] = "over" /\ session = "active"
  BY <1>1, FrameKinds DEF ToolIInv, ToolsOK, FrameOK
<1>4. UNCHANGED <<session, ending, agent, shown, open, view, page, reload, again,
                  news, cards, ghosts>> /\ reader' = NoFrame
  BY DEF PublishResult
<1>5. PICK D : /\ Changes(D)
               /\ \/ D = {t} /\ live[t] \in Running /\ live'[t] = s
                  \/ D = {} /\ live[t] \notin Running
  <2>1. CASE t \in Active
    <3>1. live[t] \in Running /\ live[t] \notin Terminal /\ s \in Running \cup Terminal
      BY <2>1, StatusKinds DEF Active
    <3>2. live' = [live EXCEPT ![t] = s] /\ Announce(<< <<t, s>> >>)
      BY <1>2, <2>1 DEF PublishResult, UpdateResult
    <3>3. Changes({t}) /\ live'[t] = s
      BY <3>1, <3>2, OneChanges DEF ToolIInv
    <3> QED
      BY <3>1, <3>3
  <2>2. CASE t \notin Active
    <3>1. live[t] \notin Running
      BY <2>2 DEF Active
    <3>2. Changes({})
      BY <1>2, <2>2, NoneChanges DEF PublishResult, UpdateResult, ToolIInv
    <3> QED
      BY <3>1, <3>2
  <2> QED
    BY <2>1, <2>2
<1>6. Follow(D)
  BY <1>5, ChangesFollow DEF ToolIInv, PagesOK
<1>7. \A u : u # t => ~ Brings(u)
  BY <1>1, FrameKinds DEF Brings
<1>8. \A u : ~ Brings(u)'
  BY <1>4, FrameKinds DEF Brings
<1>9. Brings(t) /\ \A u : ~ (reader = UseFrame(u))
  BY <1>1, FrameKinds DEF Brings
<1>10. t \notin late \cup stale => live[t] # "none"
  BY <1>3, <1>9 DEF ToolIInv, ToolsOK, FilesFollow, FileFollows
<1>11. Serves(D)
  <2>1. ASSUME NEW u \in Tools \ (late \cup stale), live[u] \notin Terminal,
               u \notin D \/ (live[u] \in Running /\ live'[u] \in Running)
        PROVE  FrameStays(u)
    <3>1. CASE u # t
      BY <1>7, <1>9, <3>1 DEF FrameStays
    <3>2. CASE u = t
      <4>1. live[t] \in Running
        BY <3>2, <2>1, <1>10, StatusKinds DEF ToolIInv, Typed, ToolTypes
      <4>2. D = {t} /\ live'[t] \notin Running
        BY <4>1, <1>5, StatusKinds
      <4> QED
        BY <4>2, <2>1, <3>2
    <3> QED
      BY <3>1, <3>2
  <2>2. ASSUME NEW u \in Tools, live[u] \in Cut, u \notin Named(writes)
        PROVE u \notin Named(writes')
    <3>1. u \notin D
      BY <2>2, <1>5, StatusKinds
    <3> QED
      BY <3>1, <2>2, <1>6 DEF Follow
  <2> QED
    BY <1>4, <1>6, <2>1, <2>2 DEF Serves, Follow, pageVars, ghosts
<1>12. PagesOK'
  BY <1>4, <1>6, <1>11, ToldKept DEF ToolIInv, ToolsOK
<1>13. FrameOK'
  BY <1>4, FrameKinds DEF FrameOK
<1>14. SessionOK'
  <2>1. \A u \in Tools : live'[u] \in Running => live[u] \in Running
    BY <1>5, <1>6, StatusKinds DEF Follow
  <2>2. Active' \subseteq Active
    BY <2>1 DEF Active
  <2> QED
    BY <1>4, <2>2 DEF ToolIInv, ToolsOK, SessionOK, ghosts
<1>15. Unused' /\ LeftOver'
  BY <1>3, <1>4, <1>5, <1>6, ToldUsed DEF ToolIInv, ToolsOK, ghosts
<1>16. FileOK'
  BY <1>4, <1>6, ToldFile DEF ToolIInv, ToolsOK
<1>17. FilesFollow'
  <2> SUFFICES ASSUME NEW u \in Tools \ (late \cup stale) PROVE FileFollows(u)'
    BY <1>4 DEF FilesFollow, ghosts
  <2>1. FileFollows(u)
    BY DEF ToolIInv, ToolsOK, FilesFollow
  <2>3. CASE u = t /\ D = {t}
    <3>1. reader = ResultFrame(t, shown[t]) /\ t \notin open
      BY <1>5, <1>9, <2>1, <2>3 DEF FileFollows
    <3>2. shown[t] = s
      BY <1>1, <3>1 DEF ResultFrame
    <3>3. live'[t] = s
      BY <1>5, <2>3
    <3> QED
      BY <1>4, <2>3, <3>1, <3>2, <3>3, StatusKinds DEF FileFollows
  <2>4. CASE u = t /\ D = {}
    <3>1. live'[t] = live[t] /\ live[t] # "none" /\ live[t] \notin Running
      BY <1>5, <1>6, <1>10, <2>4 DEF Follow
    <3> QED
      BY <2>1, <1>4, <2>4, <3>1 DEF FileFollows
  <2>5. CASE u # t
    <3>1. live'[u] = live[u] /\ (u \in Named(writes') <=> u \in Named(writes))
      BY <1>5, <1>6, <2>5 DEF Follow
    <3> QED
      BY <2>1, <1>4, <1>7, <1>8, <1>9, <2>5, <3>1 DEF FileFollows
  <2> QED
    BY <1>5, <2>3, <2>4, <2>5
<1> QED
  BY <1>12, <1>13, <1>14, <1>15, <1>16, <1>17 DEF ToolKept, ToolsOK

LEMMA OvertakenIs ==
  ASSUME Typed
  PROVE  \A u : u \in Overtaken <=> u \in Tools /\ reader = UseFrame(u)
BY FrameCases, FrameKinds DEF Overtaken, Typed, ToolTypes, Frames

\* What a break in the history does: what is left open is interrupted.
Broken(u) ==
  /\ u \notin open => shown'[u] = shown[u] /\ u \notin open'
  /\ shown'[u] = shown[u] \/ shown'[u] = "interrupted"
  /\ u \in open /\ u \notin open' => shown'[u] = "interrupted"
  /\ u \in open' => u \in open /\ shown'[u] = shown[u]

LEMMA BreakIs ==
  ASSUME Typed, FoldBreak \/ UNCHANGED <<shown, open>>
  PROVE  \A u \in Tools : Broken(u)
<1> SUFFICES ASSUME NEW u \in Tools PROVE Broken(u)
  OBVIOUS
<1>1. shown[u] \in Statuses /\ "interrupted" \in Statuses /\ "interrupted" \in Terminal
  BY StatusKinds DEF Typed, ToolTypes
<1>2. Updated(shown[u], "interrupted") = "interrupted"
  BY <1>1, UpdatedIs
<1> QED
  BY <1>2 DEF FoldBreak, Broken

\* An interrupt or a termination marks the tools in use.
LEMMA MarkedKeeps ==
  ASSUME ToolIInv, MarkInterrupted, session = "active", late' = late \cup Overtaken,
         UNCHANGED <<session, agent, reader, view, page, reload, again, news, cards, stale,
                     skipped>>,
         FoldBreak \/ UNCHANGED <<shown, open>>
  PROVE  ToolKept
<1>1. Changes(Active) /\ \A t \in Active : live'[t] = "interrupted"
  BY MarkChanges DEF ToolIInv, ToolsOK
<1>2. Follow(Active)
  BY <1>1, ChangesFollow DEF ToolIInv, PagesOK
<1>3. \A u \in Tools : u \notin Active <=> live[u] \notin Running
  BY DEF Active
<1>4. \A u : u \in Overtaken <=> u \in Tools /\ reader = UseFrame(u)
  BY OvertakenIs DEF ToolIInv
<1>5. \A u \in Tools : Broken(u)
  BY BreakIs DEF ToolIInv
<1>6. Serves(Active)
  <2>1. \A u : FrameStays(u)
    BY DEF FrameStays
  <2>2. ASSUME NEW u \in Tools, live[u] \in Cut, u \notin Named(writes)
        PROVE u \notin Named(writes')
    <3>1. u \notin Active
      BY <2>2, <1>3, StatusKinds
    <3> QED
      BY <3>1, <2>2, <1>2 DEF Follow
  <2> QED
    BY <1>2, <1>5, <2>1, <2>2 DEF Serves, Follow, pageVars, Broken
<1>7. PagesOK'
  BY <1>2, <1>6, ToldKept DEF ToolIInv, ToolsOK
<1>8. FrameOK'
  <2>1. \A u \in Tools : reader = UseFrame(u) => live'[u] = live[u]
    BY <1>2, <1>3, StatusKinds DEF Follow, ToolIInv, ToolsOK, FrameOK
  <2> QED
    BY <2>1 DEF ToolIInv, ToolsOK, FrameOK
<1>9. \A u \in Tools : live'[u] \notin Running
  BY <1>1, <1>2, <1>3, StatusKinds DEF Follow
<1>10. SessionOK'
  <2>1. open' = {} \/ open' = open
    BY DEF FoldBreak
  <2> QED
    BY <1>9, <2>1 DEF ToolIInv, ToolsOK, SessionOK, Active
<1>11. Unused' /\ LeftOver'
  <2>1. \A t \in Active : agent[t] # "no"
    BY <1>3, StatusKinds DEF ToolIInv, ToolsOK, Unused, Active
  <2>2. \A t \in late' : t \in late \/ agent[t] # "no"
    BY <1>4 DEF ToolIInv, ToolsOK, FrameOK
  <2>3. \A t \in Tools : agent[t] = "no" => shown'[t] = shown[t] /\ (t \in open' => t \in open)
    BY <1>5 DEF ToolIInv, ToolsOK, Unused, Broken
  <2> QED
    BY <1>2, <2>1, <2>2, <2>3, ToldUsed DEF ToolIInv, ToolsOK
<1>12. FileOK'
  <2> SUFFICES ASSUME NEW t \in Tools
               PROVE  /\ agent[t] # "no" => shown'[t] # "none"
                      /\ agent[t] # "no" /\ t \notin open' => shown'[t] \in Terminal
                      /\ live'[t] \in Terminal /\ t \notin Named(writes') => shown'[t] \in Terminal
    BY DEF FileOK
  <2>1. t \notin Named(writes') => live'[t] = live[t] /\ t \notin Named(writes)
    BY <1>2 DEF Follow
  <2> QED
    BY <1>5, <2>1, StatusKinds DEF ToolIInv, ToolsOK, FileOK, Broken
<1>13. FilesFollow'
  <2> SUFFICES ASSUME NEW u \in Tools \ (late' \cup stale') PROVE FileFollows(u)'
    BY DEF FilesFollow
  <2>1. FileFollows(u)
    BY DEF ToolIInv, ToolsOK, FilesFollow
  <2>2. ~ (reader = UseFrame(u))
    BY <1>4
  <2>3. CASE u \in Active
    <3>1. live'[u] = "interrupted" /\ live[u] \in Running
      BY <1>1, <1>3, <2>3
    <3>2. u \in open => shown[u] \in Running
      BY <2>1, <3>1 DEF FileFollows
    <3>3. "interrupted" \notin Running \cup Ends \cup {"none"}
      BY StatusKinds DEF Ends
    <3>4. u \in open' => shown'[u] \in Running
      BY <3>2, <1>5 DEF Broken
    <3> QED
      BY <3>1, <3>3, <3>4 DEF FileFollows
  <2>4. CASE u \notin Active
    <3>1. live'[u] = live[u] /\ live[u] \notin Running
      BY <1>2, <1>3, <2>4 DEF Follow
    <3> QED
      BY <2>1, <2>2, <3>1, <1>5 DEF FileFollows, Broken
  <2> QED
    BY <2>3, <2>4
<1> QED
  BY <1>7, <1>8, <1>10, <1>11, <1>12, <1>13 DEF ToolKept, ToolsOK

-----------------------------------------------------------------------------
(* Steps that change no tool call.                                         *)

LEMMA QuietKept ==
  ASSUME Typed, PagesOK, FrameOK, Serves({}), UNCHANGED <<live, queueVars, news>>,
         session' = "error" => session = "error" /\ agent' = agent
  PROVE  PagesOK'
<1>1. EventsSettle'
  BY DEF PagesOK, EventsSettle, queueVars
<1>2. PageOK'
  BY DEF PagesOK, PageOK, Serves, pageVars, queueVars
<1>3. ErrorSeen'
  BY DEF PagesOK, ErrorSeen, Serves, pageVars
<1> QED
  BY <1>1, <1>2, <1>3, PagesKept

LEMMA StoreUseKeeps ==
  ASSUME ToolIInv, NEW t \in Tools, StoreUse(t)
  PROVE  ToolKept
<1>1. /\ session = "active" /\ agent[t] = "no" /\ reader = NoFrame /\ reader' = UseFrame(t)
      /\ agent' = [agent EXCEPT ![t] = "used"]
      /\ shown' = [shown EXCEPT ![t] = Updated(@, "pending")] /\ open' = open \cup {t}
      /\ UNCHANGED <<session, ending, live, writes, browserVars, ghosts>>
  BY DEF StoreUse, ReaderFree, FoldUse
<1>2. live[t] = "none" /\ shown[t] = "none" /\ t \notin open
  BY <1>1 DEF ToolIInv, ToolsOK, Unused
<1>3. Updated("none", "pending") = "pending"
  BY StatusKinds DEF Updated
<1>4. /\ agent'[t] = "used" /\ shown'[t] = "pending" /\ t \in open'
      /\ \A u \in Tools \ {t} : /\ agent'[u] = agent[u] /\ shown'[u] = shown[u]
                                /\ u \in open' <=> u \in open
  BY <1>1, <1>2, <1>3 DEF ToolIInv, Typed, ToolTypes
<1>5. \A u : ~ Brings(u) /\ ~ Brings(u)' /\ ~ (reader = UseFrame(u))
  BY <1>1, FrameKinds DEF Brings
<1>6. \A u : reader' = UseFrame(u) => u = t
  BY <1>1, FrameKinds
<1>7. Serves({})
  BY <1>1, <1>2, <1>4, <1>5, StatusKinds
     DEF Serves, pageVars, browserVars, cursorVars, ghosts, FrameStays
<1>8. PagesOK'
  BY <1>1, <1>7, QuietKept
     DEF ToolIInv, ToolsOK, queueVars, browserVars, cursorVars
<1>9. FrameOK'
  <2>1. \A u, s : reader' # ResultFrame(u, s)
    BY <1>1, FrameKinds
  <2> QED
    BY <1>1, <1>2, <1>4, <1>6, <2>1 DEF FrameOK
<1>10. SessionOK'
  <2>1. t \notin stale
    BY <1>1 DEF ToolIInv, ToolsOK, Unused
  <2> QED
    BY <1>1, <2>1 DEF ToolIInv, ToolsOK, SessionOK, Active, ghosts
<1>11. Unused' /\ LeftOver'
  BY <1>1, <1>4 DEF ToolIInv, ToolsOK, Unused, LeftOver, browserVars, ghosts
<1>12. FileOK'
  BY <1>1, <1>2, <1>4, StatusKinds DEF ToolIInv, ToolsOK, FileOK
<1>13. FilesFollow'
  <2> SUFFICES ASSUME NEW u \in Tools \ (late \cup stale) PROVE FileFollows(u)'
    BY <1>1 DEF FilesFollow, ghosts
  <2>1. FileFollows(u)
    BY DEF ToolIInv, ToolsOK, FilesFollow
  <2>2. CASE u = t
    BY <1>1, <1>2, <1>4, <2>2, StatusKinds DEF FileFollows, Ends, Cut
  <2>3. CASE u # t
    BY <1>1, <1>4, <1>5, <2>1, <2>3 DEF FileFollows
  <2> QED
    BY <2>2, <2>3
<1> QED
  BY <1>8, <1>9, <1>10, <1>11, <1>12, <1>13 DEF ToolKept, ToolsOK

LEMMA StoreResultKeeps ==
  ASSUME ToolIInv, NEW t \in Tools, NEW s \in Ends, StoreResult(t, s)
  PROVE  ToolKept
<1>1. /\ session = "active" /\ agent[t] = "used" /\ reader = NoFrame
      /\ reader' = ResultFrame(t, s)
      /\ agent' = [agent EXCEPT ![t] = "over"]
      /\ shown' = IF t \in open THEN [shown EXCEPT ![t] = Updated(@, s)] ELSE shown
      /\ open' = open \ {t}
      /\ UNCHANGED <<session, ending, live, writes, browserVars, ghosts>>
  BY DEF StoreResult, ReaderFree, FoldResult
<1>2. s \in Terminal /\ s # "none" /\ s \in Statuses
  BY StatusKinds
<1>3. Updated(shown[t], s) = s
  BY <1>2, UpdatedIs DEF ToolIInv, Typed, ToolTypes
<1>4. /\ agent'[t] = "over" /\ t \notin open'
      /\ shown'[t] = IF t \in open THEN s ELSE shown[t]
      /\ \A u \in Tools \ {t} : /\ agent'[u] = agent[u] /\ shown'[u] = shown[u]
                                /\ u \in open' <=> u \in open
  BY <1>1, <1>3 DEF ToolIInv, Typed, ToolTypes
<1>5. \A u : ~ Brings(u) /\ ~ (reader = UseFrame(u)) /\ ~ (reader' = UseFrame(u))
  BY <1>1, FrameKinds DEF Brings
<1>6. \A u, w : reader' = ResultFrame(u, w) => u = t
  BY <1>1 DEF ResultFrame
<1>7. Serves({})
  BY <1>1, <1>4, <1>5, StatusKinds
     DEF Serves, pageVars, browserVars, cursorVars, ghosts, FrameStays
<1>8. PagesOK'
  BY <1>1, <1>7, QuietKept
     DEF ToolIInv, ToolsOK, queueVars, browserVars, cursorVars
<1>9. FrameOK'
  BY <1>1, <1>4, <1>5, <1>6 DEF FrameOK
<1>10. SessionOK'
  BY <1>1 DEF ToolIInv, ToolsOK, SessionOK, Active, ghosts
<1>11. Unused' /\ LeftOver'
  BY <1>1, <1>4 DEF ToolIInv, ToolsOK, Unused, LeftOver, browserVars, ghosts
<1>12. FileOK'
  BY <1>1, <1>2, <1>4 DEF ToolIInv, ToolsOK, FileOK
<1>13. FilesFollow'
  <2> SUFFICES ASSUME NEW u \in Tools \ (late \cup stale) PROVE FileFollows(u)'
    BY <1>1 DEF FilesFollow, ghosts
  <2>1. FileFollows(u)
    BY DEF ToolIInv, ToolsOK, FilesFollow
  <2>2. CASE u = t
    <3>1. live[t] # "none"
      BY <2>1, <2>2, <1>1, <1>5 DEF FileFollows
    <3>2. live[t] \in Running => t \in open
      BY <2>1, <2>2, <1>5 DEF FileFollows
    <3>3. live[t] \in Running => reader' = ResultFrame(t, shown'[t]) /\ Brings(t)'
      BY <3>2, <1>1, <1>4 DEF Brings
    <3> QED
      BY <1>1, <1>4, <2>1, <2>2, <3>1, <3>3, StatusKinds DEF FileFollows
  <2>3. CASE u # t
    <3>1. ~ Brings(u)'
      BY <1>6, <2>3 DEF Brings
    <3> QED
      BY <1>1, <1>4, <1>5, <2>1, <2>3, <3>1 DEF FileFollows
  <2> QED
    BY <2>2, <2>3
<1> QED
  BY <1>8, <1>9, <1>10, <1>11, <1>12, <1>13 DEF ToolKept, ToolsOK

LEMMA WriteKeeps ==
  ASSUME ToolIInv, Write
  PROVE  ToolKept
<1>1. PICK t : t = Head(writes)[1]
  OBVIOUS
<1>2. PICK x : x = Head(writes)[2]
  OBVIOUS
<1>3. /\ writes # <<>> /\ writes' = Tail(writes)
      /\ shown' = [shown EXCEPT ![t] = Updated(@, x)]
      /\ UNCHANGED <<session, ending, agent, reader, live, open, browserVars, ghosts>>
  BY <1>1, <1>2 DEF Write, FoldUpdate
<1>4. /\ writes \in ToolEvents
      /\ Named(writes) = {t} \cup Named(writes')
      /\ t \in Tools /\ x \in Running \cup Terminal
  BY <1>1, <1>2, <1>3, NamedTail DEF ToolIInv, Typed, ToolTypes
<1>5. shown[t] \in Statuses /\ x \in Statuses
  BY <1>4, StatusKinds DEF ToolIInv, Typed, ToolTypes
<1>6. /\ shown'[t] = Updated(shown[t], x)
      /\ \A u \in Tools \ {t} : shown'[u] = shown[u] /\ (u \in Named(writes') <=> u \in Named(writes))
  BY <1>3, <1>4 DEF ToolIInv, Typed, ToolTypes
<1>7. /\ shown'[t] \in {shown[t], x}
      /\ shown[t] \notin Terminal => shown'[t] = x
      /\ x \in Terminal => shown'[t] = x
      /\ x \in Running /\ shown[t] \in Terminal => shown'[t] = shown[t]
  BY <1>5, <1>6, UpdatedIs
<1>8. \A u \in Tools : Settles(writes, u, live[u])
  BY DEF ToolIInv, PagesOK, EventsSettle
<1>9. \A u \in Tools : Settles(writes', u, live[u])
  BY <1>3, <1>4, <1>8, SettlesTail
<1>10. x = live[t] \/ (x \in Running /\ t \in Named(writes'))
  BY <1>1, <1>2, <1>3, <1>4, <1>8, SettlesTail
<1>11. Serves({})
  BY <1>3, <1>4, <1>6 DEF Serves, pageVars, browserVars, cursorVars, ghosts, FrameStays
<1>12. PagesOK'
  <2>1. EventsSettle'
    BY <1>3, <1>9 DEF EventsSettle, browserVars, cursorVars, ToolIInv, PagesOK
  <2>2. PageOK' /\ ErrorSeen'
    BY <1>3 DEF ToolIInv, PagesOK, PageOK, ErrorSeen, browserVars, cursorVars
  <2> QED
    BY <2>1, <2>2, <1>11, PagesKept DEF ToolIInv, ToolsOK
<1>13. FrameOK' /\ SessionOK'
  BY <1>3 DEF ToolIInv, ToolsOK, FrameOK, SessionOK, Active, ghosts
<1>14. live[t] # "none"
  BY <1>4, <1>8, UntoldUnnamed
<1>15. Unused' /\ LeftOver'
  <2>1. agent[t] # "no"
    BY <1>4, <1>14 DEF ToolIInv, ToolsOK, Unused
  <2> QED
    BY <1>3, <1>6, <2>1 DEF ToolIInv, ToolsOK, Unused, LeftOver, browserVars, ghosts
<1>16. FileOK'
  <2> SUFFICES ASSUME NEW u \in Tools
               PROVE  /\ agent[u] # "no" => shown'[u] # "none"
                      /\ agent[u] # "no" /\ u \notin open => shown'[u] \in Terminal
                      /\ live[u] \in Terminal /\ u \notin Named(writes') => shown'[u] \in Terminal
    BY <1>3 DEF FileOK
  <2>1. FileOK
    BY DEF ToolIInv, ToolsOK
  <2>2. CASE u = t
    BY <2>1, <2>2, <1>4, <1>7, <1>10, StatusKinds DEF FileOK
  <2>3. CASE u # t
    BY <2>1, <2>3, <1>6 DEF FileOK
  <2> QED
    BY <2>2, <2>3
<1>17. FilesFollow'
  <2> SUFFICES ASSUME NEW u \in Tools \ (late \cup stale) PROVE FileFollows(u)'
    BY <1>3 DEF FilesFollow, ghosts
  <2>1. FileFollows(u) /\ Brings(u)' = Brings(u)
    BY <1>3 DEF ToolIInv, ToolsOK, FilesFollow, Brings
  <2>2. CASE u = t
    <3>1. CASE live[t] \in Running /\ Brings(t)
      <4>1. reader = ResultFrame(t, shown[t]) /\ t \notin open /\ x \in Running
        BY <2>1, <2>2, <3>1, <1>10 DEF FileFollows
      <4>2. shown[t] \in Ends
        BY <3>1, <4>1 DEF Brings, ResultFrame
      <4>3. shown'[t] = shown[t]
        BY <4>1, <4>2, <1>7, StatusKinds
      <4> QED
        BY <1>3, <2>1, <2>2, <3>1, <4>1, <4>3, StatusKinds DEF FileFollows
    <3>2. CASE live[t] \in Running /\ ~ Brings(t)
      <4>1. t \in open /\ shown[t] \in Running /\ x \in Running
        BY <2>1, <2>2, <3>2, <1>10 DEF FileFollows
      <4>2. shown'[t] = x
        BY <4>1, <1>7, StatusKinds
      <4> QED
        BY <1>3, <1>10, <2>1, <2>2, <3>2, <4>1, <4>2, StatusKinds DEF FileFollows
    <3>3. CASE live[t] \in Ends
      <4>1. shown[t] = live[t] /\ t \notin open
        BY <2>1, <2>2, <3>3 DEF FileFollows
      <4>2. shown'[t] = live[t]
        BY <3>3, <4>1, <1>7, <1>10, StatusKinds
      <4> QED
        BY <1>3, <2>2, <3>3, <4>1, <4>2, StatusKinds DEF FileFollows
    <3>4. CASE live[t] \in Cut
      <4>1. t \in open => shown[t] \in Running \cup Cut
        BY <2>1, <2>2, <3>4 DEF FileFollows
      <4>2. t \in open => shown'[t] \in Running \cup Cut
        BY <3>4, <4>1, <1>7, <1>10
      <4> QED
        BY <1>3, <2>2, <3>4, <4>2, StatusKinds DEF FileFollows
    <3> QED
      BY <1>4, <1>14, <3>1, <3>2, <3>3, <3>4, StatusKinds DEF ToolIInv, Typed, ToolTypes
  <2>3. CASE u # t
    BY <1>3, <1>6, <2>1, <2>3 DEF FileFollows
  <2> QED
    BY <2>2, <2>3
<1> QED
  BY <1>12, <1>13, <1>15, <1>16, <1>17 DEF ToolKept, ToolsOK

\* A frame the parser reads no tool from is told to nobody: its tool is late.
LEMMA PublishTextKeeps ==
  ASSUME ToolIInv, PublishText
  PROVE  ToolKept
<1>1. PICK t \in Tools : reader = UseFrame(t)
  BY FrameCases DEF PublishText, ToolIInv
<1>2. reader[2] = t
  BY <1>1, FrameKinds
<1>3. /\ reader' = NoFrame /\ late' = late \cup {t}
      /\ UNCHANGED <<session, ending, agent, live, writes, shown, open, browserVars, stale,
                     skipped>>
  BY <1>2 DEF PublishText
<1>4. live[t] = "none" /\ agent[t] # "no"
  BY <1>1, FrameKinds DEF ToolIInv, ToolsOK, FrameOK
<1>5. \A u : ~ Brings(u) /\ ~ Brings(u)'
  BY <1>1, <1>3, FrameKinds DEF Brings
<1>6. Serves({})
  <2>1. \A u \in Tools \ {t} : FrameStays(u)
    BY <1>1, <1>5, FrameKinds DEF FrameStays
  <2> QED
    BY <1>3, <2>1 DEF Serves, pageVars, browserVars, cursorVars
<1>7. PagesOK'
  BY <1>3, <1>6, QuietKept DEF ToolIInv, ToolsOK, queueVars, browserVars, cursorVars
<1>8. FrameOK'
  BY <1>3, FrameKinds DEF FrameOK
<1>9. SessionOK'
  BY <1>3 DEF ToolIInv, ToolsOK, SessionOK, Active
<1>10. Unused' /\ LeftOver'
  BY <1>3, <1>4 DEF ToolIInv, ToolsOK, Unused, LeftOver, browserVars
<1>11. FileOK'
  BY <1>3 DEF ToolIInv, ToolsOK, FileOK
<1>12. FilesFollow'
  <2> SUFFICES ASSUME NEW u \in Tools \ (late' \cup stale') PROVE FileFollows(u)'
    BY DEF FilesFollow
  <2>1. FileFollows(u)
    BY <1>3 DEF ToolIInv, ToolsOK, FilesFollow
  <2>2. ~ (reader = UseFrame(u))
    BY <1>1, <1>3, FrameKinds
  <2> QED
    BY <1>3, <1>5, <2>1, <2>2 DEF FileFollows
<1> QED
  BY <1>7, <1>8, <1>9, <1>10, <1>11, <1>12 DEF ToolKept, ToolsOK

LEMMA CancelReaderKeeps ==
  ASSUME ToolIInv, CancelReader
  PROVE  ToolKept
<1>1. /\ ending /\ reader' = NoFrame /\ late' = late \cup Overtaken
      /\ UNCHANGED <<session, ending, agent, live, writes, shown, open, browserVars, stale,
                     skipped>>
  BY DEF CancelReader
<1>2. \A u : u \in Overtaken <=> u \in Tools /\ reader = UseFrame(u)
  BY OvertakenIs DEF ToolIInv
<1>3. Active \subseteq late
  BY <1>1 DEF ToolIInv, ToolsOK, SessionOK
<1>4. \A u : ~ Brings(u)'
  BY <1>1, FrameKinds DEF Brings
<1>5. ASSUME NEW u \in Tools \ (late' \cup stale)
      PROVE  /\ live[u] \notin Running /\ ~ (reader = UseFrame(u))
             /\ live[u] = "none" => agent[u] = "no"
  <2>1. live[u] \notin Running /\ ~ (reader = UseFrame(u))
    BY <1>1, <1>2, <1>3 DEF Active
  <2> QED
    BY <1>1, <2>1 DEF ToolIInv, ToolsOK, FilesFollow, FileFollows
<1>6. Serves({})
  <2>1. ASSUME NEW u \in Tools \ (late' \cup stale), live[u] \notin Terminal
        PROVE  FrameStays(u)
    <3>1. agent[u] = "no"
      BY <1>5, <2>1, StatusKinds DEF ToolIInv, Typed, ToolTypes
    <3>2. ~ Brings(u)
      BY <3>1 DEF Brings, ToolIInv, ToolsOK, FrameOK
    <3> QED
      BY <1>5, <3>2 DEF FrameStays
  <2> QED
    BY <1>1, <2>1 DEF Serves, pageVars, browserVars, cursorVars
<1>7. PagesOK'
  BY <1>1, <1>6, QuietKept DEF ToolIInv, ToolsOK, queueVars, browserVars, cursorVars
<1>8. FrameOK'
  BY <1>1, FrameKinds DEF FrameOK
<1>9. SessionOK'
  BY <1>1 DEF ToolIInv, ToolsOK, SessionOK, Active
<1>10. Unused' /\ LeftOver'
  <2>1. \A u \in Overtaken : agent[u] # "no"
    BY <1>2 DEF ToolIInv, ToolsOK, FrameOK
  <2> QED
    BY <1>1, <2>1 DEF ToolIInv, ToolsOK, Unused, LeftOver, browserVars
<1>11. FileOK'
  BY <1>1 DEF ToolIInv, ToolsOK, FileOK
<1>12. FilesFollow'
  <2> SUFFICES ASSUME NEW u \in Tools \ (late' \cup stale') PROVE FileFollows(u)'
    BY DEF FilesFollow
  <2>1. FileFollows(u)
    BY <1>1 DEF ToolIInv, ToolsOK, FilesFollow
  <2> QED
    BY <1>1, <1>5, <2>1 DEF FileFollows
<1> QED
  BY <1>7, <1>8, <1>9, <1>10, <1>11, <1>12 DEF ToolKept, ToolsOK

LEMMA TerminatedKeeps ==
  ASSUME ToolIInv, Terminated
  PROVE  ToolKept
<1>1. /\ ending /\ reader = NoFrame /\ ending' = FALSE /\ session' = "terminated"
      /\ agent' = NobodyUses
      /\ UNCHANGED <<reader, live, writes, shown, open, had, browserVars, ghosts>>
  BY DEF Terminated
<1>2. \A u \in Tools : agent'[u] = "no" <=> agent[u] = "no"
  BY <1>1 DEF NobodyUses
<1>3. Active \subseteq late
  BY <1>1 DEF ToolIInv, ToolsOK, SessionOK
<1>4. Serves({})
  BY <1>1 DEF Serves, pageVars, browserVars, cursorVars, ghosts, FrameStays
<1>5. PagesOK'
  BY <1>1, <1>4, QuietKept DEF ToolIInv, ToolsOK, queueVars, browserVars, cursorVars
<1>6. FrameOK'
  BY <1>1, FrameKinds DEF FrameOK
<1>7. SessionOK'
  BY <1>1, <1>3 DEF SessionOK, Active, ghosts
<1>8. Unused' /\ LeftOver'
  BY <1>1, <1>2 DEF ToolIInv, ToolsOK, Unused, LeftOver, browserVars, ghosts
<1>9. FileOK'
  BY <1>1, <1>2 DEF ToolIInv, ToolsOK, FileOK
<1>10. FilesFollow'
  <2> SUFFICES ASSUME NEW u \in Tools \ (late \cup stale) PROVE FileFollows(u)'
    BY <1>1 DEF FilesFollow, ghosts
  <2>1. FileFollows(u) /\ Brings(u)' = Brings(u)
    BY <1>1 DEF ToolIInv, ToolsOK, FilesFollow, Brings
  <2> QED
    BY <1>1, <1>2, <2>1 DEF FileFollows
<1> QED
  BY <1>5, <1>6, <1>7, <1>8, <1>9, <1>10 DEF ToolKept, ToolsOK

LEMMA RestartKeeps ==
  ASSUME ToolIInv, Restart
  PROVE  ToolKept
<1>1. /\ session = "active" /\ ~ ending /\ session' = "terminated" /\ reader' = NoFrame
      /\ agent' = NobodyUses /\ late' = late \cup Overtaken /\ stale' = stale \cup Active
      /\ UNCHANGED <<ending, live, writes, shown, open, browserVars, skipped>>
  BY DEF Restart
<1>2. \A u : u \in Overtaken <=> u \in Tools /\ reader = UseFrame(u)
  BY OvertakenIs DEF ToolIInv
<1>3. \A u \in Tools : agent'[u] = "no" <=> agent[u] = "no"
  BY <1>1 DEF NobodyUses
<1>4. \A u : ~ Brings(u)'
  BY <1>1, FrameKinds DEF Brings
<1>5. ASSUME NEW u \in Tools \ (late' \cup stale')
      PROVE  /\ live[u] \notin Running /\ ~ (reader = UseFrame(u))
             /\ live[u] = "none" => agent[u] = "no"
  <2>1. live[u] \notin Running /\ ~ (reader = UseFrame(u))
    BY <1>1, <1>2 DEF Active
  <2> QED
    BY <1>1, <2>1 DEF ToolIInv, ToolsOK, FilesFollow, FileFollows
<1>6. Serves({})
  <2>1. ASSUME NEW u \in Tools \ (late' \cup stale'), live[u] \notin Terminal
        PROVE  FrameStays(u)
    <3>1. agent[u] = "no"
      BY <1>5, <2>1, StatusKinds DEF ToolIInv, Typed, ToolTypes
    <3>2. ~ Brings(u)
      BY <3>1 DEF Brings, ToolIInv, ToolsOK, FrameOK
    <3> QED
      BY <1>5, <3>2 DEF FrameStays
  <2> QED
    BY <1>1, <2>1 DEF Serves, pageVars, browserVars, cursorVars
<1>7. PagesOK'
  <2>1. EventsSettle' /\ PageOK'
    BY <1>1 DEF ToolIInv, PagesOK, EventsSettle, PageOK, browserVars, cursorVars
  <2>2. ErrorSeen'
    BY <1>1 DEF ErrorSeen
  <2> QED
    BY <1>6, <2>1, <2>2, PagesKept DEF ToolIInv, ToolsOK
<1>8. FrameOK' /\ SessionOK'
  BY <1>1, FrameKinds DEF FrameOK, SessionOK, Active
<1>9. Unused' /\ LeftOver'
  <2>1. \A u \in Overtaken : agent[u] # "no"
    BY <1>2 DEF ToolIInv, ToolsOK, FrameOK
  <2>2. \A u \in Active : u \in Tools /\ live[u] # "none"
    BY StatusKinds DEF Active
  <2> QED
    BY <1>1, <1>3, <2>1, <2>2 DEF ToolIInv, ToolsOK, Unused, LeftOver, browserVars
<1>10. FileOK'
  BY <1>1, <1>3 DEF ToolIInv, ToolsOK, FileOK
<1>11. FilesFollow'
  <2> SUFFICES ASSUME NEW u \in Tools \ (late' \cup stale') PROVE FileFollows(u)'
    BY DEF FilesFollow
  <2>1. FileFollows(u)
    BY <1>1 DEF ToolIInv, ToolsOK, FilesFollow
  <2> QED
    BY <1>1, <1>3, <1>5, <2>1 DEF FileFollows
<1> QED
  BY <1>7, <1>8, <1>9, <1>10, <1>11 DEF ToolKept, ToolsOK

LEMMA CrashKeeps ==
  ASSUME ToolIInv, Crash
  PROVE  ToolKept
<1>1. /\ session = "active" /\ ~ ending /\ reader = NoFrame /\ session' = "error"
      /\ news' = (view # "away") /\ agent' = NobodyUses /\ stale' = stale \cup Active
      /\ UNCHANGED <<ending, reader, live, writes, shown, open, view, page, reload, again,
                     unread, cards, cursorVars, late, skipped>>
  BY DEF Crash
<1>2. \A u \in Tools : agent'[u] = "no" <=> agent[u] = "no"
  BY <1>1 DEF NobodyUses
<1>3. Serves({})
  BY <1>1 DEF Serves, pageVars, FrameStays
<1>4. PagesOK'
  <2>1. EventsSettle'
    BY <1>1 DEF ToolIInv, PagesOK, EventsSettle, cursorVars
  <2>2. PageOK'
    BY <1>1 DEF ToolIInv, PagesOK, PageOK, cursorVars
  <2>3. ErrorSeen'
    BY <1>1 DEF ErrorSeen
  <2> QED
    BY <1>3, <2>1, <2>2, <2>3, PagesKept DEF ToolIInv, ToolsOK
<1>5. FrameOK'
  BY <1>1, FrameKinds DEF FrameOK
<1>6. SessionOK'
  BY <1>1 DEF SessionOK, Active
<1>7. Unused' /\ LeftOver'
  <2>1. \A u \in Active : u \in Tools /\ live[u] # "none"
    BY StatusKinds DEF Active
  <2> QED
    BY <1>1, <1>2, <2>1 DEF ToolIInv, ToolsOK, Unused, LeftOver
<1>8. FileOK'
  BY <1>1, <1>2 DEF ToolIInv, ToolsOK, FileOK
<1>9. FilesFollow'
  <2> SUFFICES ASSUME NEW u \in Tools \ (late \cup stale') PROVE FileFollows(u)'
    BY <1>1 DEF FilesFollow
  <2>1. FileFollows(u) /\ Brings(u)' = Brings(u)
    BY <1>1 DEF ToolIInv, ToolsOK, FilesFollow, Brings
  <2> QED
    BY <1>1, <1>2, <2>1 DEF FileFollows
<1> QED
  BY <1>4, <1>5, <1>6, <1>7, <1>8, <1>9 DEF ToolKept, ToolsOK

LEMMA StartKeeps ==
  ASSUME ToolIInv, Start
  PROVE  ToolKept
<1>1. /\ session \in {"terminated", "error"} /\ session' = "starting"
      /\ UNCHANGED <<ending, agent, reader, live, writes, shown, open, browserVars, ghosts>>
  BY DEF Start
<1>2. Serves({})
  BY <1>1 DEF Serves, pageVars, browserVars, cursorVars, ghosts, FrameStays
<1>3. PagesOK'
  BY <1>1, <1>2, QuietKept DEF ToolIInv, ToolsOK, queueVars, browserVars, cursorVars
<1>4. FrameOK'
  BY <1>1 DEF ToolIInv, ToolsOK, FrameOK
<1>5. SessionOK'
  BY <1>1 DEF ToolIInv, ToolsOK, SessionOK, Active, ghosts
<1>6. Unused' /\ LeftOver' /\ FileOK'
  BY <1>1 DEF ToolIInv, ToolsOK, Unused, LeftOver, FileOK, browserVars, ghosts
<1>7. FilesFollow'
  BY <1>1 DEF ToolIInv, ToolsOK, FilesFollow, FileFollows, Brings, ghosts
<1> QED
  BY <1>3, <1>4, <1>5, <1>6, <1>7 DEF ToolKept, ToolsOK

LEMMA StartFailsKeeps ==
  ASSUME ToolIInv, StartFails
  PROVE  ToolKept
<1>1. /\ session = "starting" /\ session' = "error" /\ news' = (view # "away")
      /\ UNCHANGED <<ending, agent, reader, live, writes, shown, open, view, page, reload,
                     again, unread, cards, cursorVars, ghosts>>
  BY DEF StartFails
<1>2. Serves({})
  BY <1>1 DEF Serves, pageVars, ghosts, FrameStays
<1>3. PagesOK'
  <2>1. EventsSettle' /\ PageOK'
    BY <1>1 DEF ToolIInv, PagesOK, EventsSettle, PageOK, cursorVars
  <2>2. ErrorSeen'
    BY <1>1 DEF ErrorSeen
  <2> QED
    BY <1>2, <2>1, <2>2, PagesKept DEF ToolIInv, ToolsOK
<1>4. FrameOK' /\ SessionOK'
  BY <1>1 DEF ToolIInv, ToolsOK, FrameOK, SessionOK, Active, ghosts
<1>5. Unused' /\ LeftOver' /\ FileOK'
  BY <1>1 DEF ToolIInv, ToolsOK, Unused, LeftOver, FileOK, ghosts
<1>6. FilesFollow'
  BY <1>1 DEF ToolIInv, ToolsOK, FilesFollow, FileFollows, Brings, ghosts
<1> QED
  BY <1>3, <1>4, <1>5, <1>6 DEF ToolKept, ToolsOK

LEMMA LaunchKeeps ==
  ASSUME ToolIInv, Launch
  PROVE  ToolKept
<1>1. /\ session = "starting" /\ session' = "active"
      /\ UNCHANGED <<ending, agent, reader, live, writes, browserVars, ghosts>>
  BY DEF Launch
<1>2. \A u \in Tools : Broken(u)
  BY BreakIs DEF Launch, ToolIInv
<1>3. reader = NoFrame /\ Active \subseteq late \cup stale /\ ending = FALSE
  BY <1>1 DEF ToolIInv, ToolsOK, FrameOK, SessionOK, Typed, ToolTypes
<1>4. Serves({})
  BY <1>1, <1>2 DEF Serves, pageVars, browserVars, cursorVars, ghosts, FrameStays, Broken
<1>5. PagesOK'
  BY <1>1, <1>4, QuietKept DEF ToolIInv, ToolsOK, queueVars, browserVars, cursorVars
<1>6. FrameOK'
  BY <1>1, <1>3, FrameKinds DEF FrameOK
<1>7. SessionOK'
  <2>1. open' = {}
    BY DEF Launch, FoldBreak
  <2> QED
    BY <1>1, <1>3, <2>1 DEF SessionOK
<1>8. Unused' /\ LeftOver'
  BY <1>1, <1>2 DEF ToolIInv, ToolsOK, Unused, LeftOver, browserVars, ghosts, Broken
<1>9. FileOK'
  <2> SUFFICES ASSUME NEW t \in Tools
               PROVE  /\ agent[t] # "no" => shown'[t] # "none"
                      /\ agent[t] # "no" /\ t \notin open' => shown'[t] \in Terminal
                      /\ live[t] \in Terminal /\ t \notin Named(writes) => shown'[t] \in Terminal
    BY <1>1 DEF FileOK
  <2> QED
    BY <1>2, StatusKinds DEF ToolIInv, ToolsOK, FileOK, Broken
<1>10. FilesFollow'
  <2> SUFFICES ASSUME NEW u \in Tools \ (late \cup stale) PROVE FileFollows(u)'
    BY <1>1 DEF FilesFollow, ghosts
  <2>1. FileFollows(u)
    BY DEF ToolIInv, ToolsOK, FilesFollow
  <2>2. live[u] \notin Running /\ ~ (reader = UseFrame(u))
    BY <1>3, FrameKinds DEF Active
  <2> QED
    BY <1>1, <1>2, <2>1, <2>2 DEF FileFollows, Broken
<1> QED
  BY <1>5, <1>6, <1>7, <1>8, <1>9, <1>10 DEF ToolKept, ToolsOK

-----------------------------------------------------------------------------
(* The steps of the browser.                                               *)

LEMMA BrowserKept ==
  ASSUME ToolsOK, UNCHANGED <<coordVars, late, stale>>, Unused'
  PROVE  ToolsOK'
<1>1. UNCHANGED <<session, ending, agent, reader, live, writes, shown, open, late, stale>>
  BY DEF coordVars
<1>2. FrameOK' /\ SessionOK' /\ LeftOver' /\ FileOK'
  BY <1>1 DEF ToolsOK, FrameOK, SessionOK, LeftOver, FileOK, Active
<1>3. FilesFollow'
  BY <1>1 DEF ToolsOK, FilesFollow, FileFollows, Brings
<1> QED
  BY <1>2, <1>3 DEF ToolsOK

\* What a page that asks now is shown.
LEMMA HistoryIs ==
  ASSUME Typed, Unused, FileOK, NEW t \in Tools
  PROVE  /\ HistoryView[t] \in Statuses
         /\ agent[t] = "no" => HistoryView[t] = "none"
         /\ session \in {"active", "starting"} => HistoryView[t] = shown[t]
         /\ t \notin open => HistoryView[t] = shown[t]
         /\ t \in open => HistoryView[t] \in {shown[t], "interrupted"}
         /\ session \notin {"active", "starting"} /\ agent[t] # "no"
              => HistoryView[t] \in Terminal
<1>1. shown[t] \in Statuses /\ "interrupted" \in Statuses /\ "interrupted" \in Terminal
  BY StatusKinds DEF Typed, ToolTypes
<1>2. Updated(shown[t], "interrupted") = "interrupted"
  BY <1>1, UpdatedIs
<1>3. HistoryView[t] = IF t \in open /\ session \notin {"active", "starting"}
                       THEN "interrupted" ELSE shown[t]
  BY <1>2 DEF HistoryView
<1>4. agent[t] = "no" => shown[t] = "none" /\ t \notin open
  BY DEF Unused
<1>5. agent[t] # "no" /\ t \notin open => shown[t] \in Terminal
  BY DEF FileOK
<1> QED
  BY <1>1, <1>3, <1>4, <1>5

LEMMA HistoryFits ==
  ASSUME Typed, ToolsOK, NEW t \in Tools \ (late \cup stale)
  PROVE  /\ Fits(HistoryView[t], t)
         /\ t \notin Named(writes) => Right(HistoryView[t], t)
<1> DEFINE v == HistoryView[t]
<1>1. /\ agent[t] = "no" => v = "none"
      /\ session \in {"active", "starting"} => v = shown[t]
      /\ t \notin open => v = shown[t]
      /\ t \in open => v \in {shown[t], "interrupted"}
  BY HistoryIs DEF ToolsOK
<1> HIDE DEF v
<1>2. FileFollows(t)
  BY DEF ToolsOK, FilesFollow
<1>3. live[t] \in Running => session = "active"
  BY DEF ToolsOK, SessionOK, Active
<1>4. reader # NoFrame => session = "active"
  BY DEF ToolsOK, FrameOK
<1>5. CASE agent[t] = "no"
  <2>1. live[t] = "none" /\ v = "none"
    BY <1>1, <1>5 DEF ToolsOK, Unused
  <2> QED
    BY <2>1, StatusKinds DEF Fits, Right, v
<1>6. CASE agent[t] # "no" /\ live[t] = "none"
  <2>1. reader = UseFrame(t) /\ shown[t] = "pending"
    BY <1>2, <1>6 DEF FileFollows
  <2>2. v = "pending"
    BY <1>1, <1>4, <2>1, FrameKinds
  <2> QED
    BY <1>6, <2>1, <2>2, StatusKinds DEF Fits, Right, v
<1>7. CASE live[t] \in Running /\ Brings(t)
  <2>1. v = shown[t] /\ reader = ResultFrame(t, v)
    BY <1>1, <1>2, <1>3, <1>7 DEF FileFollows
  <2> QED
    BY <1>7, <2>1, StatusKinds DEF Fits, Right, v
<1>8. CASE live[t] \in Running /\ ~ Brings(t)
  <2>1. v = shown[t] /\ shown[t] \in Running /\ (t \notin Named(writes) => shown[t] = live[t])
    BY <1>1, <1>2, <1>3, <1>8 DEF FileFollows
  <2> QED
    BY <1>8, <2>1, StatusKinds DEF Fits, Right, v
<1>9. CASE live[t] \in Ends
  <2>1. v = live[t]
    BY <1>1, <1>2, <1>9 DEF FileFollows
  <2> QED
    BY <1>9, <2>1, StatusKinds DEF Fits, Right, v
<1>10. CASE live[t] \in Cut
  <2>1. live[t] \in Terminal
    BY <1>10, StatusKinds
  <2>2. Fits(v, t)
    BY <2>1, StatusKinds DEF Fits
  <2>3. ASSUME t \notin Named(writes) PROVE Right(v, t)
    <3>1. shown[t] \in Terminal
      BY <2>1, <2>3 DEF ToolsOK, FileOK
    <3>2. CASE t \notin open
      BY <3>1, <3>2, <1>1, <1>10, <2>3 DEF Right
    <3>3. CASE t \in open
      <4>1. shown[t] \in Cut
        BY <3>1, <3>3, <1>2, <1>10, StatusKinds DEF FileFollows
      <4>2. v \in Cut
        BY <4>1, <3>3, <1>1 DEF Cut
      <4> QED
        BY <4>2, <1>10 DEF Right
    <3> QED
      BY <3>2, <3>3
  <2> QED
    BY <2>2, <2>3 DEF v
<1> QED
  BY <1>5, <1>6, <1>7, <1>8, <1>9, <1>10, StatusKinds DEF Typed, ToolTypes

LEMMA HistoryEnds ==
  ASSUME Typed, ToolsOK, NEW t \in Tools, live[t] \in Terminal, t \notin Named(writes)
  PROVE  HistoryView[t] \in Terminal
<1>1. shown[t] \in Terminal
  BY DEF ToolsOK, FileOK
<1> QED
  BY <1>1, HistoryIs, StatusKinds DEF ToolsOK

\* A load brings the page up to what it was given.
Merge(v, w) == IF w = "none" THEN v ELSE Updated(v, w)

LEMMA MergedIs ==
  ASSUME NEW v \in Statuses, NEW w \in Statuses
  PROVE  /\ Merge(v, w) \in Statuses
         /\ Merge(v, w) \in {v, w}
         /\ w \in Terminal => Merge(v, w) = w
         /\ v \in Terminal => Merge(v, w) \in Terminal
         /\ v \notin Terminal /\ w # "none" => Merge(v, w) = w
         /\ v \in Terminal /\ w \in Running => Merge(v, w) = v
         /\ w = "none" => Merge(v, w) = v
BY UpdatedIs, StatusKinds DEF Merge

LEMMA MergedFits ==
  ASSUME NEW t, NEW v \in Statuses, NEW w \in Statuses, Fits(v, t), Fits(w, t)
  PROVE  Fits(Merge(v, w), t)
<1> DEFINE m == Merge(v, w)
<1>1. m \in {v, w}
  BY MergedIs
<1> HIDE DEF m
<1>2. Fits(m, t)
  BY <1>1
<1> QED
  BY <1>2 DEF m

LEMMA MergedRight ==
  ASSUME Typed, FrameOK, NEW t \in Tools, NEW v \in Statuses, NEW w \in Statuses,
         Fits(v, t), Right(w, t)
  PROVE  Right(Merge(v, w), t)
<1> DEFINE m == Merge(v, w)
<1>1. m \in {v, w} /\ (m = v \/ w # "none") /\ (v \notin Terminal => m = w \/ w = "none")
      /\ (w \in Terminal => m = w)
  BY MergedIs
<1> HIDE DEF m
<1>2. CASE m = w
  BY <1>2 DEF m
<1>3. CASE m = v /\ w = "none"
  <2>1. live[t] = "none"
    BY <1>3, StatusKinds DEF Right, ResultFrame, Typed, ToolTypes, Frames, UseFrame, NoFrame, Ends, Cut
  <2>2. v = "none" \/ (v = "pending" /\ reader = UseFrame(t))
    BY <2>1 DEF Fits
  <2> QED
    BY <1>3, <2>1, <2>2 DEF Right, m
<1>4. CASE m = v /\ m # w /\ w # "none"
  <2>1. v \in Terminal /\ w \in Running
    BY <1>1, <1>4, StatusKinds
  <2>2. reader = UseFrame(t) => live[t] = "none"
    BY DEF FrameOK
  <2>3. w \notin Ends
    BY <2>1, StatusKinds
  <2>4. reader # ResultFrame(t, w)
    BY <2>3 DEF Typed, ToolTypes, Frames, ResultFrame, UseFrame, NoFrame
  <2>5. live[t] \in Running
    BY <2>1, <2>2, <2>4, StatusKinds DEF Right, Fits
  <2>6. reader = ResultFrame(t, v)
    BY <2>1, <2>5 DEF Fits
  <2> QED
    BY <1>4, <2>5, <2>6 DEF Right, m
<1> QED
  BY <1>1, <1>2, <1>3, <1>4

LEMMA CardsMerged ==
  ASSUME Typed, NEW t \in Tools
  PROVE  /\ Merged(cards, page)[t] = Merge(cards[t], page[t])
         /\ Merged(cards, again)[t] = Merge(cards[t], again[t])
         /\ cards[t] \in Statuses /\ page[t] \in Statuses /\ again[t] \in Statuses
BY DEF Merged, Merge, Typed, PageTypes

LEMMA FitsNone == \A t : Fits("none", t)
BY StatusKinds DEF Fits

LEMMA UnusedUnnamed ==
  ASSUME Typed, Unused, EventsSettle, NEW t \in Tools, agent[t] = "no"
  PROVE  t \notin Named(writes) /\ t \notin Named(unread)
<1>1. live[t] = "none" /\ writes \in ToolEvents /\ unread \in ToolEvents
  BY DEF Unused, Typed, ToolTypes, PageTypes
<1> QED
  BY <1>1, UntoldUnnamed DEF EventsSettle

LEMMA VisitKeeps ==
  ASSUME ToolIInv, Visit
  PROVE  ToolKept
<1>1. /\ view = "away" /\ view' = "loading" /\ page' = HistoryView /\ unread' = <<>>
      /\ skipped' = skipped \cup Named(writes)
      /\ UNCHANGED <<coordVars, reload, again, news, cards, cursorVars, late, stale>>
  BY DEF Visit
<1>2. /\ UNCHANGED <<session, ending, agent, reader, live, writes, shown, open>>
      /\ kept' = kept /\ resent' = resent
  BY <1>1 DEF coordVars, cursorVars
<1>3. Typed /\ ToolsOK /\ PagesOK
  BY DEF ToolIInv
<1>4. reload = "no" /\ ~ news /\ ~ kept
  BY <1>1, <1>3 DEF PagesOK, PageOK
<1>5. Unused'
  <2> SUFFICES ASSUME NEW t \in Tools, agent[t] = "no"
               PROVE  page'[t] = "none" /\ t \notin skipped'
    BY <1>1, <1>2, <1>3 DEF ToolsOK, Unused
  <2>1. HistoryView[t] = "none"
    BY <1>3, HistoryIs DEF ToolsOK
  <2>2. t \notin Named(writes)
    BY <1>3, UnusedUnnamed DEF ToolsOK, PagesOK
  <2> QED
    BY <1>1, <1>3, <2>1, <2>2 DEF ToolsOK, Unused
<1>6. ToolsOK'
  BY <1>1, <1>3, <1>5, BrowserKept
<1>7. EventsSettle'
  BY <1>1, <1>2, <1>3, SettlesNone DEF PagesOK, EventsSettle
<1>8. PageOK'
  BY <1>1, <1>2, <1>3, AgreeNone DEF PagesOK, PageOK
<1>9. CardsFit'
  <2> SUFFICES ASSUME NEW t \in Tools \ (late \cup stale)
               PROVE  Fits(cards[t], t)' /\ Fits(page[t], t)' /\ Fits(again[t], t)'
    BY <1>1 DEF CardsFit
  <2>1. Fits(HistoryView[t], t)
    BY <1>3, HistoryFits
  <2> QED
    BY <1>1, <1>2, <1>3, <2>1 DEF PagesOK, CardsFit, Fits
<1>10. CardsRight'
  <2> SUFFICES ASSUME NEW t \in Tools \ (late \cup stale \cup skipped')
               PROVE  Right(page[t], t)'
    BY <1>1, <1>4 DEF CardsRight, Loads, AsksAgain, Shows
  <2>1. Right(HistoryView[t], t)
    BY <1>1, <1>3, HistoryFits
  <2> QED
    BY <1>1, <1>2, <2>1 DEF Right
<1>11. CardsEnd'
  <2> SUFFICES ASSUME NEW t \in Tools \ skipped', live[t] \in Terminal
               PROVE  page'[t] \in Terminal
    BY <1>1, <1>2, <1>4 DEF CardsEnd, Loads, AsksAgain, Shows
  <2> QED
    BY <1>1, <1>3, HistoryEnds
<1>12. ErrorSeen'
  <2> SUFFICES ASSUME session = "error", NEW t \in Tools, agent[t] # "no"
               PROVE  page'[t] \in Terminal
    BY <1>1, <1>2, <1>4 DEF ErrorSeen
  <2> QED
    BY <1>1, <1>3, HistoryIs DEF ToolsOK
<1> QED
  BY <1>6, <1>7, <1>8, <1>9, <1>10, <1>11, <1>12 DEF ToolKept, PagesOK

LEMMA LoadedKeeps ==
  ASSUME ToolIInv, Loaded
  PROVE  ToolKept
<1>1. /\ view = "loading" /\ view' = "here" /\ cards' = Merged(cards, page)
      /\ page' = NoCards /\ kept' = FALSE
      /\ resent' = IF reload = "asked" THEN resent ELSE <<>>
      /\ UNCHANGED <<coordVars, reload, again, news, unread, ghosts>>
  BY DEF Loaded, CursorTaken
<1>2. /\ UNCHANGED <<session, ending, agent, reader, live, writes, shown, open, late,
                     stale, skipped>>
  BY <1>1 DEF coordVars, ghosts
<1>3. Typed /\ ToolsOK /\ PagesOK
  BY DEF ToolIInv
<1>4. \A t \in Tools : /\ cards'[t] = Merge(cards[t], page[t]) /\ page'[t] = "none"
                       /\ cards[t] \in Statuses /\ page[t] \in Statuses
  BY <1>1, <1>3, CardsMerged DEF NoCards
<1>5. Unused'
  <2> SUFFICES ASSUME NEW t \in Tools, agent[t] = "no" PROVE cards'[t] = "none"
    BY <1>1, <1>2, <1>3, <1>4 DEF ToolsOK, Unused
  <2>1. cards[t] = "none" /\ page[t] = "none"
    BY <1>3 DEF ToolsOK, Unused
  <2> QED
    BY <1>4, <2>1 DEF Merge
<1>6. ToolsOK'
  BY <1>1, <1>2, <1>3, <1>5, BrowserKept
<1>7. EventsSettle'
  BY <1>1, <1>2, <1>3, SettlesNone DEF PagesOK, EventsSettle
<1>8. PageOK'
  BY <1>1, <1>2, <1>3, AgreeNone DEF PagesOK, PageOK
<1>9. CardsFit'
  <2> SUFFICES ASSUME NEW t \in Tools \ (late \cup stale)
               PROVE  Fits(cards[t], t)' /\ Fits(page[t], t)' /\ Fits(again[t], t)'
    BY <1>2 DEF CardsFit
  <2>1. Fits(cards[t], t) /\ Fits(page[t], t) /\ Fits(again[t], t)
    BY <1>3 DEF PagesOK, CardsFit
  <2>2. Fits(Merge(cards[t], page[t]), t) /\ Fits("none", t)
    BY <1>4, <2>1, MergedFits, FitsNone
  <2> QED
    BY <1>1, <1>2, <1>4, <2>1, <2>2 DEF Fits
<1>10. CardsRight'
  <2> SUFFICES ASSUME NEW t \in Tools \ (late \cup stale \cup skipped), t \notin Named(unread)
               PROVE  /\ AsksAgain => Right(again[t], t)'
                      /\ reload = "no" => Right(cards[t], t)'
    BY <1>1, <1>2 DEF CardsRight, Loads, AsksAgain, Shows
  <2>1. Right(page[t], t) /\ (AsksAgain => Right(again[t], t))
    BY <1>1, <1>3 DEF PagesOK, CardsRight, Loads
  <2>2. Fits(cards[t], t)
    BY <1>3 DEF PagesOK, CardsFit
  <2>3. Right(Merge(cards[t], page[t]), t)
    BY <1>3, <1>4, <2>1, <2>2, MergedRight DEF ToolsOK
  <2> QED
    BY <1>1, <1>2, <1>4, <2>1, <2>3 DEF Right
<1>11. CardsEnd'
  <2> SUFFICES ASSUME NEW t \in Tools \ skipped, t \notin Named(unread), live[t] \in Terminal
               PROVE  /\ AsksAgain => again[t] \in Terminal
                      /\ reload = "no" => cards'[t] \in Terminal
    BY <1>1, <1>2 DEF CardsEnd, Loads, AsksAgain, Shows
  <2>1. page[t] \in Terminal /\ (AsksAgain => again[t] \in Terminal)
    BY <1>1, <1>3 DEF PagesOK, CardsEnd, Loads
  <2> QED
    BY <1>4, <2>1, MergedIs
<1>12. ErrorSeen'
  <2> SUFFICES ASSUME session = "error", NEW t \in Tools, agent[t] # "no"
               PROVE  \/ news \/ reload = "due"
                      \/ reload = "asked" /\ again[t] \in Terminal
                      \/ reload = "no" /\ cards'[t] \in Terminal
    BY <1>1, <1>2 DEF ErrorSeen
  <2> QED
    BY <1>1, <1>3, <1>4, MergedIs DEF PagesOK, ErrorSeen
<1> QED
  BY <1>6, <1>7, <1>8, <1>9, <1>10, <1>11, <1>12 DEF ToolKept, PagesOK

LEMMA LoadedAgainKeeps ==
  ASSUME ToolIInv, LoadedAgain
  PROVE  ToolKept
<1>1. /\ reload = "asked" /\ reload' = "no" /\ cards' = Merged(cards, again)
      /\ again' = NoCards /\ kept' = TRUE
      /\ UNCHANGED <<coordVars, view, page, news, unread, resent, ghosts>>
  BY DEF LoadedAgain
<1>2. /\ UNCHANGED <<session, ending, agent, reader, live, writes, shown, open, late,
                     stale, skipped>>
  BY <1>1 DEF coordVars, ghosts
<1>3. Typed /\ ToolsOK /\ PagesOK
  BY DEF ToolIInv
<1>4. \A t \in Tools : /\ cards'[t] = Merge(cards[t], again[t]) /\ again'[t] = "none"
                       /\ cards[t] \in Statuses /\ again[t] \in Statuses
  BY <1>1, <1>3, CardsMerged DEF NoCards
<1>5. Unused'
  <2> SUFFICES ASSUME NEW t \in Tools, agent[t] = "no" PROVE cards'[t] = "none"
    BY <1>1, <1>2, <1>3, <1>4 DEF ToolsOK, Unused
  <2>1. cards[t] = "none" /\ again[t] = "none"
    BY <1>3 DEF ToolsOK, Unused
  <2> QED
    BY <1>4, <2>1 DEF Merge
<1>6. ToolsOK'
  BY <1>1, <1>2, <1>3, <1>5, BrowserKept
<1>7. EventsSettle'
  BY <1>1, <1>2, <1>3 DEF PagesOK, EventsSettle
<1>8. PageOK'
  BY <1>1, <1>2, <1>3 DEF PagesOK, PageOK
<1>9. CardsFit'
  <2> SUFFICES ASSUME NEW t \in Tools \ (late \cup stale)
               PROVE  Fits(cards[t], t)' /\ Fits(page[t], t)' /\ Fits(again[t], t)'
    BY <1>2 DEF CardsFit
  <2>1. Fits(cards[t], t) /\ Fits(page[t], t) /\ Fits(again[t], t)
    BY <1>3 DEF PagesOK, CardsFit
  <2>2. Fits(Merge(cards[t], again[t]), t) /\ Fits("none", t)
    BY <1>4, <2>1, MergedFits, FitsNone
  <2> QED
    BY <1>1, <1>2, <1>4, <2>1, <2>2 DEF Fits
<1>10. CardsRight'
  <2> SUFFICES ASSUME NEW t \in Tools \ (late \cup stale \cup skipped), t \notin Named(unread)
               PROVE  (Loads => Right(page[t], t)') /\ Right(cards[t], t)'
    BY <1>1, <1>2 DEF CardsRight, Loads, AsksAgain
  <2>1. Right(again[t], t) /\ (Loads => Right(page[t], t))
    BY <1>1, <1>3 DEF PagesOK, CardsRight, AsksAgain
  <2>2. Fits(cards[t], t)
    BY <1>3 DEF PagesOK, CardsFit
  <2>3. Right(Merge(cards[t], again[t]), t)
    BY <1>3, <1>4, <2>1, <2>2, MergedRight DEF ToolsOK
  <2> QED
    BY <1>1, <1>2, <1>4, <2>1, <2>3 DEF Right
<1>11. CardsEnd'
  <2> SUFFICES ASSUME NEW t \in Tools \ skipped, t \notin Named(unread), live[t] \in Terminal
               PROVE  (Loads => page[t] \in Terminal) /\ cards'[t] \in Terminal
    BY <1>1, <1>2 DEF CardsEnd, Loads, AsksAgain
  <2>1. again[t] \in Terminal /\ (Loads => page[t] \in Terminal)
    BY <1>1, <1>3 DEF PagesOK, CardsEnd, AsksAgain
  <2> QED
    BY <1>4, <2>1, MergedIs
<1>12. ErrorSeen'
  <2> SUFFICES ASSUME session = "error", NEW t \in Tools, agent[t] # "no"
               PROVE  view = "away" \/ news \/ cards'[t] \in Terminal
    BY <1>1, <1>2 DEF ErrorSeen
  <2> QED
    BY <1>1, <1>3, <1>4, MergedIs DEF PagesOK, ErrorSeen
<1> QED
  BY <1>6, <1>7, <1>8, <1>9, <1>10, <1>11, <1>12 DEF ToolKept, PagesOK

LEMMA ReadKeeps ==
  ASSUME ToolIInv, Read
  PROVE  ToolKept
<1>1. PICK t : t = Head(unread)[1]
  OBVIOUS
<1>2. PICK x : x = Head(unread)[2]
  OBVIOUS
<1>3. /\ view = "here" /\ unread # <<>> /\ unread' = Tail(unread)
      /\ cards' = [cards EXCEPT ![t] = Updated(@, x)]
      /\ skipped' = IF reload = "asked" THEN skipped \cup {t} ELSE skipped
      /\ UNCHANGED <<coordVars, view, page, reload, again, news, cursorVars, late, stale>>
  BY <1>1, <1>2 DEF Read
<1>4. /\ UNCHANGED <<session, ending, agent, reader, live, writes, shown, open>>
      /\ kept' = kept /\ resent' = resent
  BY <1>3 DEF coordVars, cursorVars
<1>5. Typed /\ ToolsOK /\ PagesOK
  BY DEF ToolIInv
<1>6. /\ unread \in ToolEvents /\ resent \in ToolEvents
      /\ Named(unread) = {t} \cup Named(unread')
      /\ t \in Tools /\ x \in Running \cup Terminal
  BY <1>1, <1>2, <1>3, <1>5, NamedTail DEF Typed, ToolTypes, PageTypes
<1>7. cards[t] \in Statuses /\ x \in Statuses
  BY <1>5, <1>6, StatusKinds DEF Typed, PageTypes
<1>8. /\ cards'[t] = Updated(cards[t], x)
      /\ \A u \in Tools \ {t} : cards'[u] = cards[u] /\ (u \in Named(unread') <=> u \in Named(unread))
  BY <1>3, <1>5, <1>6 DEF Typed, PageTypes
<1>9. /\ cards'[t] \in {cards[t], x}
      /\ cards[t] \notin Terminal => cards'[t] = x
      /\ x \in Terminal => cards'[t] = x
      /\ x \in Running /\ cards[t] \in Terminal => cards'[t] = cards[t]
  BY <1>7, <1>8, UpdatedIs
<1>10. \A u \in Tools : Settles(unread, u, live[u])
  BY <1>5 DEF PagesOK, EventsSettle
<1>11. \A u \in Tools : Settles(unread', u, live[u])
  BY <1>3, <1>6, <1>10, SettlesTail
<1>12. x = live[t] \/ (x \in Running /\ t \in Named(unread'))
  BY <1>1, <1>2, <1>3, <1>6, <1>10, SettlesTail
<1>13. live[t] # "none"
  BY <1>6, <1>10, UntoldUnnamed
<1>14. Unused'
  <2>1. agent[t] # "no"
    BY <1>5, <1>6, <1>13 DEF ToolsOK, Unused
  <2> QED
    BY <1>3, <1>4, <1>5, <1>8, <2>1 DEF ToolsOK, Unused
<1>15. ToolsOK'
  BY <1>3, <1>5, <1>14, BrowserKept
<1>16. EventsSettle'
  BY <1>4, <1>5, <1>11 DEF PagesOK, EventsSettle
<1>17. PageOK'
  <2>1. Agree(unread', resent)
    BY <1>3, <1>5, <1>6, AgreeTail DEF PagesOK, PageOK
  <2> QED
    BY <1>3, <1>4, <1>5, <2>1 DEF PagesOK, PageOK
<1>18. CardsFit'
  <2> SUFFICES ASSUME NEW u \in Tools \ (late \cup stale)
               PROVE  Fits(cards[u], u)' /\ Fits(page[u], u)' /\ Fits(again[u], u)'
    BY <1>3 DEF CardsFit
  <2>1. Fits(cards[u], u) /\ Fits(page[u], u) /\ Fits(again[u], u)
    BY <1>5 DEF PagesOK, CardsFit
  <2>2. Fits(cards'[u], u)
    <3>1. CASE u = t
      <4>1. live[t] \in Running => x \in Running
        BY <1>12
      <4>2. live[t] \in Running /\ cards'[t] \in Terminal => cards'[t] = cards[t]
        BY <4>1, <1>9, StatusKinds
      <4> QED
        BY <2>1, <3>1, <4>2, <1>13 DEF Fits
    <3>2. CASE u # t
      BY <1>8, <2>1, <3>2
    <3> QED
      BY <3>1, <3>2
  <2> QED
    BY <1>3, <1>4, <2>1, <2>2 DEF Fits
<1>19. CardsRight'
  <2> SUFFICES ASSUME NEW u \in Tools \ (late \cup stale \cup skipped'), u \notin Named(unread')
               PROVE  /\ AsksAgain => Right(again[u], u)'
                      /\ reload = "no" => Right(cards[u], u)'
    BY <1>3 DEF CardsRight, Loads, AsksAgain, Shows
  <2>1. CASE u = t
    <3>1. ~ AsksAgain
      BY <1>3, <2>1 DEF AsksAgain
    <3>2. x = live[t]
      BY <1>12, <2>1
    <3>3. Right(cards'[t], t)
      <4>1. CASE cards'[t] = x
        BY <3>2, <4>1 DEF Right
      <4>2. CASE cards'[t] # x
        <5>1. cards'[t] = cards[t] /\ cards[t] \in Terminal /\ live[t] \in Running
          BY <4>2, <1>6, <1>9, <3>2
        <5>2. Fits(cards[t], t)
          BY <1>5, <2>1, <1>3 DEF PagesOK, CardsFit
        <5> QED
          BY <5>1, <5>2 DEF Fits, Right
      <4> QED
        BY <4>1, <4>2
    <3> QED
      BY <1>3, <1>4, <2>1, <3>1, <3>3 DEF Right
  <2>2. CASE u # t
    <3>1. u \notin skipped /\ u \notin Named(unread) /\ cards'[u] = cards[u]
      BY <1>3, <1>8, <2>2
    <3>2. /\ AsksAgain => Right(again[u], u)
          /\ reload = "no" => Right(cards[u], u)
      BY <1>3, <1>5, <3>1 DEF PagesOK, CardsRight, Shows
    <3> QED
      BY <1>3, <1>4, <3>1, <3>2 DEF Right
  <2> QED
    BY <2>1, <2>2
<1>20. CardsEnd'
  <2> SUFFICES ASSUME NEW u \in Tools \ skipped', u \notin Named(unread'), live[u] \in Terminal
               PROVE  /\ AsksAgain => again[u] \in Terminal
                      /\ reload = "no" => cards'[u] \in Terminal
    BY <1>3, <1>4 DEF CardsEnd, Loads, AsksAgain, Shows
  <2>1. CASE u = t
    BY <1>3, <1>9, <1>12, <2>1 DEF AsksAgain
  <2>2. CASE u # t
    BY <1>3, <1>5, <1>8, <2>2 DEF PagesOK, CardsEnd, Shows
  <2> QED
    BY <2>1, <2>2
<1>21. ErrorSeen'
  <2>1. \A u \in Tools : cards[u] \in Terminal => cards'[u] \in Terminal
    BY <1>6, <1>8, <1>9
  <2> QED
    BY <1>3, <1>4, <1>5, <2>1 DEF PagesOK, ErrorSeen
<1> QED
  BY <1>15, <1>16, <1>17, <1>18, <1>19, <1>20, <1>21 DEF ToolKept, PagesOK

LEMMA HearErrorKeeps ==
  ASSUME ToolIInv, HearError
  PROVE  ToolKept
<1>1. /\ news /\ ~ news' /\ cards' = Cleared /\ reload' = "due"
      /\ UNCHANGED <<coordVars, view, page, again, unread, cursorVars, ghosts>>
  BY DEF HearError
<1>2. /\ UNCHANGED <<session, ending, agent, reader, live, writes, shown, open, late,
                     stale, skipped>>
      /\ kept' = kept /\ resent' = resent
  BY <1>1 DEF coordVars, ghosts, cursorVars
<1>3. Typed /\ ToolsOK /\ PagesOK
  BY DEF ToolIInv
<1>4. view # "away" /\ reload = "no"
  BY <1>1, <1>3 DEF PagesOK, PageOK, ToolIInv, OnceOK
<1>5. \A t \in Tools : cards'[t] = "none"
  BY <1>1 DEF Cleared
<1>6. Unused'
  BY <1>1, <1>2, <1>3, <1>5 DEF ToolsOK, Unused
<1>7. ToolsOK'
  BY <1>1, <1>2, <1>3, <1>6, BrowserKept
<1>8. EventsSettle' /\ PageOK'
  BY <1>1, <1>2, <1>3, <1>4 DEF PagesOK, EventsSettle, PageOK
<1>9. CardsFit'
  <2> SUFFICES ASSUME NEW t \in Tools \ (late \cup stale)
               PROVE  Fits(cards[t], t)' /\ Fits(page[t], t)' /\ Fits(again[t], t)'
    BY <1>2 DEF CardsFit
  <2> QED
    BY <1>1, <1>2, <1>3, <1>5, FitsNone, StatusKinds DEF PagesOK, CardsFit, Fits
<1>10. CardsRight'
  <2> SUFFICES ASSUME NEW t \in Tools \ (late \cup stale \cup skipped), t \notin Named(unread), Loads
               PROVE  Right(page[t], t)'
    BY <1>1, <1>2 DEF CardsRight, Loads, AsksAgain, Shows
  <2>1. Right(page[t], t)
    BY <1>3 DEF PagesOK, CardsRight
  <2> QED
    BY <1>1, <1>2, <2>1 DEF Right
<1>11. CardsEnd'
  BY <1>1, <1>2, <1>3 DEF PagesOK, CardsEnd, Loads, AsksAgain, Shows
<1>12. ErrorSeen'
  BY <1>1 DEF ErrorSeen
<1> QED
  BY <1>7, <1>8, <1>9, <1>10, <1>11, <1>12 DEF ToolKept, PagesOK

LEMMA AskAgainKeeps ==
  ASSUME ToolIInv, AskAgain
  PROVE  ToolKept
<1>1. /\ reload = "due" /\ reload' = "asked" /\ again' = HistoryView /\ resent' = <<>>
      /\ skipped' = skipped \cup Named(writes)
      /\ UNCHANGED <<coordVars, view, page, news, unread, kept, cards, late, stale>>
  BY DEF AskAgain
<1>2. UNCHANGED <<session, ending, agent, reader, live, writes, shown, open>>
  BY <1>1 DEF coordVars
<1>3. Typed /\ ToolsOK /\ PagesOK
  BY DEF ToolIInv
<1>5. Unused'
  <2> SUFFICES ASSUME NEW t \in Tools, agent[t] = "no"
               PROVE  again'[t] = "none" /\ t \notin skipped'
    BY <1>1, <1>2, <1>3 DEF ToolsOK, Unused
  <2>1. HistoryView[t] = "none"
    BY <1>3, HistoryIs DEF ToolsOK
  <2>2. t \notin Named(writes)
    BY <1>3, UnusedUnnamed DEF ToolsOK, PagesOK
  <2> QED
    BY <1>1, <1>3, <2>1, <2>2 DEF ToolsOK, Unused
<1>6. ToolsOK'
  BY <1>1, <1>3, <1>5, BrowserKept
<1>7. EventsSettle'
  BY <1>1, <1>2, <1>3, SettlesNone DEF PagesOK, EventsSettle
<1>8. PageOK'
  BY <1>1, <1>2, <1>3, AgreeNone DEF PagesOK, PageOK
<1>9. CardsFit'
  <2> SUFFICES ASSUME NEW t \in Tools \ (late \cup stale)
               PROVE  Fits(cards[t], t)' /\ Fits(page[t], t)' /\ Fits(again[t], t)'
    BY <1>1 DEF CardsFit
  <2>1. Fits(HistoryView[t], t)
    BY <1>3, HistoryFits
  <2> QED
    BY <1>1, <1>2, <1>3, <2>1 DEF PagesOK, CardsFit, Fits
<1>10. CardsRight'
  <2> SUFFICES ASSUME NEW t \in Tools \ (late \cup stale \cup skipped'), t \notin Named(unread)
               PROVE  (Loads => Right(page[t], t)') /\ Right(again[t], t)'
    BY <1>1 DEF CardsRight, Loads, AsksAgain, Shows
  <2>1. Right(HistoryView[t], t)
    BY <1>1, <1>3, HistoryFits
  <2>2. Loads => Right(page[t], t)
    BY <1>1, <1>3 DEF PagesOK, CardsRight
  <2> QED
    BY <1>1, <1>2, <2>1, <2>2 DEF Right
<1>11. CardsEnd'
  <2> SUFFICES ASSUME NEW t \in Tools \ skipped', t \notin Named(unread), live[t] \in Terminal
               PROVE  (Loads => page[t] \in Terminal) /\ again'[t] \in Terminal
    BY <1>1, <1>2 DEF CardsEnd, Loads, AsksAgain, Shows
  <2>1. Loads => page[t] \in Terminal
    BY <1>1, <1>3 DEF PagesOK, CardsEnd
  <2> QED
    BY <1>1, <1>3, <2>1, HistoryEnds
<1>12. ErrorSeen'
  <2> SUFFICES ASSUME session = "error", NEW t \in Tools, agent[t] # "no"
               PROVE  again'[t] \in Terminal
    BY <1>1, <1>2 DEF ErrorSeen
  <2> QED
    BY <1>1, <1>3, HistoryIs DEF ToolsOK
<1> QED
  BY <1>6, <1>7, <1>8, <1>9, <1>10, <1>11, <1>12 DEF ToolKept, PagesOK

LEMMA StallKeeps ==
  ASSUME ToolIInv, Stall
  PROVE  ToolKept
<1>1. /\ view = "here" /\ view' = "stalled"
      /\ UNCHANGED <<coordVars, page, reload, again, news, unread, cards, cursorVars, ghosts>>
  BY DEF Stall
<1>2. /\ UNCHANGED <<session, ending, agent, reader, live, writes, shown, open, late,
                     stale, skipped>>
      /\ kept' = kept /\ resent' = resent
  BY <1>1 DEF coordVars, ghosts, cursorVars
<1>3. Typed /\ ToolsOK /\ PagesOK
  BY DEF ToolIInv
<1>4. ToolsOK'
  BY <1>1, <1>2, <1>3, BrowserKept DEF ToolsOK, Unused
<1>5. EventsSettle' /\ PageOK' /\ ErrorSeen'
  BY <1>1, <1>2, <1>3 DEF PagesOK, EventsSettle, PageOK, ErrorSeen
<1>6. CardsFit'
  BY <1>1, <1>2, <1>3 DEF PagesOK, CardsFit, Fits
<1>7. CardsRight'
  <2> SUFFICES ASSUME NEW t \in Tools \ (late \cup stale \cup skipped), t \notin Named(unread)
               PROVE  (AsksAgain => Right(again[t], t)') /\ (reload = "no" => Right(cards[t], t)')
    BY <1>1, <1>2 DEF CardsRight, Loads, AsksAgain, Shows
  <2>1. (AsksAgain => Right(again[t], t)) /\ (reload = "no" => Right(cards[t], t))
    BY <1>1, <1>3 DEF PagesOK, CardsRight, Shows
  <2> QED
    BY <1>1, <1>2, <2>1 DEF Right
<1>8. CardsEnd'
  BY <1>1, <1>2, <1>3 DEF PagesOK, CardsEnd, Loads, AsksAgain, Shows
<1> QED
  BY <1>4, <1>5, <1>6, <1>7, <1>8 DEF ToolKept, PagesOK

LEMMA HealKeeps ==
  ASSUME ToolIInv, Heal
  PROVE  ToolKept
<1>1. /\ view = "stalled" /\ view' = "here" /\ unread' = IF kept THEN resent ELSE <<>>
      /\ skipped' = skipped \cup Named(SubSeq(unread, 1, Len(unread) - Len(unread')))
      /\ kept' = FALSE /\ resent' = IF reload = "asked" THEN resent ELSE <<>>
      /\ UNCHANGED <<coordVars, page, reload, again, news, cards, late, stale>>
  BY DEF Heal, CursorTaken
<1>2. UNCHANGED <<session, ending, agent, reader, live, writes, shown, open>>
  BY <1>1 DEF coordVars
<1>3. Typed /\ ToolsOK /\ PagesOK
  BY DEF ToolIInv
<1>4. unread \in ToolEvents /\ resent \in ToolEvents /\ <<>> \in ToolEvents
  BY <1>3 DEF Typed, PageTypes, ToolEvents
<1>5. unread' \in ToolEvents /\ Agree(unread, unread')
  BY <1>1, <1>3, <1>4, AgreeNone DEF PagesOK, PageOK
<1>6. Named(unread) \subseteq Named(unread') \cup skipped'
  BY <1>1, <1>4, <1>5, AgreeNames
<1>7. skipped \subseteq skipped' /\ skipped' \subseteq skipped \cup Named(unread)
  <2>1. Len(unread) - Len(unread') \in Int /\ Len(unread) - Len(unread') <= Len(unread)
    BY <1>4, <1>5 DEF ToolEvents
  <2> QED
    BY <1>1, <1>4, <2>1, NamedSub
<1>8. Unused'
  <2>1. \A t \in Tools : agent[t] = "no" => t \notin skipped'
    BY <1>3, <1>7, UnusedUnnamed DEF ToolsOK, PagesOK, Unused
  <2> QED
    BY <1>1, <1>2, <1>3, <2>1 DEF ToolsOK, Unused
<1>9. ToolsOK'
  BY <1>1, <1>3, <1>8, BrowserKept
<1>10. EventsSettle'
  BY <1>1, <1>2, <1>3, SettlesNone DEF PagesOK, EventsSettle
<1>11. PageOK'
  BY <1>1, <1>2, <1>3, AgreeNone, AgreeSelf DEF PagesOK, PageOK
<1>12. CardsFit'
  BY <1>1, <1>2, <1>3 DEF PagesOK, CardsFit, Fits
<1>13. CardsRight'
  <2> SUFFICES ASSUME NEW t \in Tools \ (late \cup stale \cup skipped'), t \notin Named(unread')
               PROVE  (AsksAgain => Right(again[t], t)') /\ (reload = "no" => Right(cards[t], t)')
    BY <1>1, <1>2 DEF CardsRight, Loads, AsksAgain, Shows
  <2>1. t \notin skipped /\ t \notin Named(unread)
    BY <1>6, <1>7
  <2>2. (AsksAgain => Right(again[t], t)) /\ (reload = "no" => Right(cards[t], t))
    BY <1>1, <1>3, <2>1 DEF PagesOK, CardsRight, Shows
  <2> QED
    BY <1>1, <1>2, <2>2 DEF Right
<1>14. CardsEnd'
  <2> SUFFICES ASSUME NEW t \in Tools \ skipped', t \notin Named(unread'), live[t] \in Terminal
               PROVE  (AsksAgain => again[t] \in Terminal) /\ (reload = "no" => cards[t] \in Terminal)
    BY <1>1, <1>2 DEF CardsEnd, Loads, AsksAgain, Shows
  <2>1. t \notin skipped /\ t \notin Named(unread)
    BY <1>6, <1>7
  <2> QED
    BY <1>1, <1>3, <2>1 DEF PagesOK, CardsEnd, Shows
<1>15. ErrorSeen'
  BY <1>1, <1>2, <1>3 DEF PagesOK, ErrorSeen
<1> QED
  BY <1>9, <1>10, <1>11, <1>12, <1>13, <1>14, <1>15 DEF ToolKept, PagesOK

-----------------------------------------------------------------------------
(* Types.                                                                  *)

\* A step that tells of changes keeps the types of what it writes.
LEMMA ToldTyped ==
  ASSUME Typed, NEW D, Follow(D), UNCHANGED <<agent, view, page, reload, again, news, cards>>,
         session' \in {"active", "starting", "terminated", "error"}, ending' \in BOOLEAN,
         reader' \in Frames, shown' \in [Tools -> Statuses], open' \subseteq Tools,
         late' \subseteq Tools, UNCHANGED <<stale, skipped>>
  PROVE  Typed'
<1>1. ToolTypes'
  BY DEF Typed, ToolTypes, Follow
<1>2. PageTypes'
  BY DEF Typed, PageTypes, Follow
<1>3. GhostTypes' /\ FewUsed'
  BY DEF Typed, GhostTypes, FewUsed
<1> QED
  BY <1>1, <1>2, <1>3 DEF Typed

LEMMA BreakTyped ==
  ASSUME Typed, FoldBreak \/ UNCHANGED <<shown, open>>
  PROVE  shown' \in [Tools -> Statuses] /\ open' \subseteq Tools
<1>1. CASE FoldBreak
  <2>1. \A t \in Tools : shown'[t] \in Statuses
    BY BreakIs, StatusKinds DEF Broken, Typed, ToolTypes
  <2> QED
    BY <1>1, <2>1 DEF FoldBreak
<1>2. CASE UNCHANGED <<shown, open>>
  BY <1>2 DEF Typed, ToolTypes
<1> QED
  BY <1>1, <1>2

LEMMA NoFrameTyped == NoFrame \in Frames
BY DEF Frames

LEMMA TypedTells ==
  ASSUME ToolIInv,
         \/ \E t \in Tools : AskUser(t) \/ \E s \in {"running", "denied"} : Decide(t, s)
         \/ PublishUse \/ PublishResult \/ Interrupt \/ Terminate
  PROVE  Typed'
<1>0. Typed /\ EventsSettle /\ PageOK /\ FrameOK /\ Unused
  BY DEF ToolIInv, PagesOK, ToolsOK
<1>1. /\ session \in {"active", "starting", "terminated", "error"} /\ ending \in BOOLEAN
      /\ reader \in Frames /\ shown \in [Tools -> Statuses] /\ open \subseteq Tools
      /\ late \subseteq Tools /\ NoFrame \in Frames
  BY <1>0, NoFrameTyped DEF Typed, ToolTypes, GhostTypes
<1>2. ASSUME NEW t \in Tools, NEW s \in {"awaiting", "running", "denied"},
             live[t] \in {"pending", "awaiting"},
             live' = [live EXCEPT ![t] = s], Announce(<< <<t, s>> >>),
             UNCHANGED <<session, ending, agent, reader, shown, open, view, page, reload,
                     again, news, cards, ghosts>>
      PROVE  Typed'
  <2>1. s \in Running \cup Terminal /\ live[t] \notin Terminal
    BY <1>2 DEF Running, Terminal
  <2>2. Follow({t})
    BY <1>0, <1>2, <2>1, OneChanges, ChangesFollow
  <2> QED
    BY <1>0, <1>1, <1>2, <2>2, ToldTyped DEF ghosts
<1>3. ASSUME NEW t \in Tools, AskUser(t) PROVE Typed'
  BY <1>2, <1>3 DEF AskUser
<1>4. ASSUME NEW t \in Tools, NEW s \in {"running", "denied"}, Decide(t, s) PROVE Typed'
  BY <1>2, <1>4 DEF Decide
<1>5. CASE PublishUse
  <2>1. PICK t \in Tools : reader = UseFrame(t)
    BY <1>0, <1>5, FrameCases DEF PublishUse
  <2>2. reader[2] = t /\ live[t] = "none"
    BY <1>0, <2>1, FrameKinds DEF FrameOK
  <2>3. Follow({t})
    <3>1. live' = [live EXCEPT ![t] = "pending"] /\ Announce(<< <<t, "pending">> >>)
      BY <1>5, <2>2 DEF PublishUse, CreateToolCall
    <3>2. "pending" \in Running \cup Terminal /\ live[t] \notin Terminal
      BY <2>2, StatusKinds
    <3>3. Changes({t})
      BY <1>0, <2>1, <3>1, <3>2, OneChanges
    <3> QED
      BY <1>0, <3>3, ChangesFollow
  <2>4. late' \subseteq Tools
    BY <1>1, <1>5, <2>2 DEF PublishUse
  <2> QED
    BY <1>0, <1>1, <1>5, <2>3, <2>4, ToldTyped DEF PublishUse
<1>6. CASE PublishResult
  <2>1. PICK t \in Tools, s \in Ends : reader = ResultFrame(t, s)
    BY <1>0, <1>6, FrameCases DEF PublishResult
  <2>2. reader[2] = t /\ reader[3] = s
    BY <2>1, FrameKinds
  <2>3. PICK D : Follow(D)
    <3>1. CASE t \in Active
      <4>1. live[t] \notin Terminal /\ s \in Running \cup Terminal
        BY <3>1, StatusKinds DEF Active
      <4>2. live' = [live EXCEPT ![t] = s] /\ Announce(<< <<t, s>> >>)
        BY <1>6, <2>2, <3>1 DEF PublishResult, UpdateResult
      <4> QED
        BY <1>0, <4>1, <4>2, OneChanges, ChangesFollow
    <3>2. CASE t \notin Active
      BY <1>0, <1>6, <2>2, <3>2, NoneChanges, ChangesFollow DEF PublishResult, UpdateResult
    <3> QED
      BY <3>1, <3>2
  <2> QED
    BY <1>0, <1>1, <1>6, <2>3, ToldTyped DEF PublishResult, ghosts
<1>7. CASE Interrupt \/ Terminate
  <2>1. Follow(Active)
    BY <1>0, <1>7, MarkChanges, ChangesFollow DEF Interrupt, Terminate
  <2>2. shown' \in [Tools -> Statuses] /\ open' \subseteq Tools
    BY <1>0, <1>7, BreakTyped DEF Interrupt, Terminate
  <2>3. late' \subseteq Tools
    BY <1>0, <1>1, <1>7, OvertakenIs DEF Interrupt, Terminate
  <2> QED
    BY <1>0, <1>1, <1>7, <2>1, <2>2, <2>3, ToldTyped DEF Interrupt, Terminate
<1> QED
  BY <1>3, <1>4, <1>5, <1>6, <1>7

LEMMA TypedServer ==
  ASSUME ToolIInv,
         \/ \E t \in Tools : StoreUse(t) \/ \E s \in Ends : StoreResult(t, s)
         \/ PublishText \/ Write \/ CancelReader \/ Terminated \/ Restart \/ Crash
         \/ Start \/ StartFails \/ Launch
  PROVE  Typed'
<1>0. Typed /\ ToolTypes /\ PageTypes /\ GhostTypes /\ FewUsed
  BY DEF ToolIInv, Typed
<1>1. ASSUME NEW t \in Tools, StoreUse(t) PROVE Typed'
  <2>1. reader' \in Frames /\ agent' \in [Tools -> {"no", "used", "over"}]
    BY <1>0, <1>1 DEF StoreUse, Frames, ToolTypes
  <2>2. Updated(shown[t], "pending") \in Statuses
    BY <1>0, UpdatedIs, StatusKinds DEF ToolTypes
  <2>3. shown' \in [Tools -> Statuses] /\ open' \subseteq Tools
    BY <1>0, <1>1, <2>2 DEF StoreUse, FoldUse, ToolTypes
  <2>4. FewUsed'
    <3>1. {u \in Tools : agent'[u] # "no"} = {u \in Tools : agent[u] # "no"} \cup {t}
      BY <1>0, <1>1 DEF StoreUse, ToolTypes
    <3> QED
      BY <1>0, <3>1, FS_AddElement DEF FewUsed
  <2> QED
    BY <1>0, <1>1, <2>1, <2>3, <2>4
       DEF StoreUse, Typed, ToolTypes, PageTypes, GhostTypes, browserVars, cursorVars, ghosts
<1>2. ASSUME NEW t \in Tools, NEW s \in Ends, StoreResult(t, s) PROVE Typed'
  <2>1. reader' \in Frames /\ agent' \in [Tools -> {"no", "used", "over"}]
    BY <1>0, <1>2 DEF StoreResult, Frames, ToolTypes
  <2>2. Updated(shown[t], s) \in Statuses
    BY <1>0, UpdatedIs, StatusKinds DEF ToolTypes
  <2>3. shown' \in [Tools -> Statuses] /\ open' \subseteq Tools
    BY <1>0, <1>2, <2>2 DEF StoreResult, FoldResult, ToolTypes
  <2>4. FewUsed'
    <3>1. {u \in Tools : agent'[u] # "no"} = {u \in Tools : agent[u] # "no"}
      BY <1>0, <1>2 DEF StoreResult, ToolTypes
    <3> QED
      BY <1>0, <3>1 DEF FewUsed
  <2> QED
    BY <1>0, <1>2, <2>1, <2>3, <2>4
       DEF StoreResult, Typed, ToolTypes, PageTypes, GhostTypes, browserVars, cursorVars, ghosts
<1>3. CASE Write
  <2>1. PICK t : t = Head(writes)[1]
    OBVIOUS
  <2>2. PICK x : x = Head(writes)[2]
    OBVIOUS
  <2>3. /\ writes' \in ToolEvents /\ t \in Tools /\ x \in Statuses
        /\ shown' = [shown EXCEPT ![t] = Updated(@, x)]
    BY <1>0, <1>3, <2>1, <2>2, NamedTail, StatusKinds DEF Write, FoldUpdate, ToolTypes
  <2>4. Updated(shown[t], x) \in Statuses
    BY <1>0, <2>3, UpdatedIs DEF ToolTypes
  <2>5. shown' \in [Tools -> Statuses]
    BY <1>0, <2>3, <2>4 DEF ToolTypes
  <2> QED
    BY <1>0, <1>3, <2>3, <2>5
       DEF Write, Typed, ToolTypes, PageTypes, GhostTypes, FewUsed, browserVars, cursorVars, ghosts
<1>a. CASE PublishText
  <2>1. PICK t \in Tools : reader = UseFrame(t)
    BY <1>0, <1>a, FrameCases DEF PublishText
  <2>2. reader[2] = t
    BY <2>1, FrameKinds
  <2> QED
    BY <1>0, <1>a, <2>2, NoFrameTyped
       DEF PublishText, Typed, ToolTypes, PageTypes, GhostTypes, FewUsed, browserVars, cursorVars
<1>4. CASE CancelReader
  BY <1>0, <1>4, OvertakenIs, NoFrameTyped
     DEF CancelReader, Typed, ToolTypes, PageTypes, GhostTypes, FewUsed, browserVars, cursorVars
<1>5. CASE Terminated \/ Restart \/ Crash
  <2>1. agent' \in [Tools -> {"no", "used", "over"}]
    BY <1>0, <1>5 DEF Terminated, Restart, Crash, NobodyUses, ToolTypes
  <2>2. FewUsed'
    <3>1. \A u \in Tools : agent'[u] # "no" <=> agent[u] # "no"
      BY <1>5 DEF Terminated, Restart, Crash, NobodyUses
    <3>2. {u \in Tools : agent'[u] # "no"} = {u \in Tools : agent[u] # "no"}
      BY <3>1
    <3> QED
      BY <1>0, <3>2 DEF FewUsed
  <2>3. ToolTypes'
    BY <1>0, <1>5, <2>1, NoFrameTyped DEF Terminated, Restart, Crash, ToolTypes
  <2>4. PageTypes' /\ GhostTypes'
    BY <1>0, <1>5, OvertakenIs
       DEF Terminated, Restart, Crash, PageTypes, GhostTypes, Active, browserVars, cursorVars,
           ghosts
  <2> QED
    BY <2>2, <2>3, <2>4 DEF Typed
<1>6. CASE Start \/ StartFails
  BY <1>0, <1>6
     DEF Start, StartFails, Typed, ToolTypes, PageTypes, GhostTypes, FewUsed, browserVars, cursorVars, ghosts
<1>7. CASE Launch
  <2>1. shown' \in [Tools -> Statuses] /\ open' \subseteq Tools
    BY <1>0, <1>7, BreakTyped DEF Launch
  <2> QED
    BY <1>0, <1>7, <2>1
       DEF Launch, Typed, ToolTypes, PageTypes, GhostTypes, FewUsed, browserVars, cursorVars, ghosts
<1> QED
  BY <1>1, <1>a, <1>2, <1>3, <1>4, <1>5, <1>6, <1>7

\* What the browser has and reads keeps its shape.
LEMMA TypedBrowser ==
  ASSUME ToolIInv,
         Visit \/ Loaded \/ Read \/ HearError \/ AskAgain \/ LoadedAgain \/ Stall \/ Heal
  PROVE  Typed'
<1>0. Typed /\ ToolTypes /\ PageTypes /\ GhostTypes /\ FewUsed /\ Unused /\ FileOK
  BY DEF ToolIInv, Typed, ToolsOK
<1>1. UNCHANGED <<coordVars, late, stale>>
  BY DEF Visit, Loaded, Read, HearError, AskAgain, LoadedAgain, Stall, Heal, ghosts
<1>2. ToolTypes' /\ FewUsed'
  BY <1>0, <1>1 DEF ToolTypes, FewUsed, coordVars
<1>3. HistoryView \in [Tools -> Statuses] /\ NoCards \in [Tools -> Statuses]
      /\ Cleared \in [Tools -> Statuses]
  <2>1. \A t \in Tools : HistoryView[t] \in Statuses
    BY <1>0, HistoryIs
  <2> QED
    BY <2>1, StatusKinds DEF HistoryView, NoCards, Cleared
<1>4. Merged(cards, page) \in [Tools -> Statuses] /\ Merged(cards, again) \in [Tools -> Statuses]
  <2>1. \A t \in Tools : Merged(cards, page)[t] \in Statuses /\ Merged(cards, again)[t] \in Statuses
    BY <1>0, CardsMerged, MergedIs
  <2> QED
    BY <2>1 DEF Merged
<1>5. Named(writes) \subseteq Tools /\ Named(unread) \subseteq Tools
      /\ unread \in ToolEvents /\ resent \in ToolEvents
  BY <1>0, NamedTools DEF ToolTypes, PageTypes
<1>6. <<>> \in ToolEvents
  BY DEF ToolEvents
<1>7. CASE Visit
  BY <1>0, <1>1, <1>2, <1>3, <1>5, <1>6, <1>7
     DEF Visit, Typed, PageTypes, GhostTypes, cursorVars
<1>8. CASE Loaded
  BY <1>0, <1>1, <1>2, <1>3, <1>4, <1>5, <1>6, <1>8
     DEF Loaded, CursorTaken, Typed, PageTypes, GhostTypes, ghosts
<1>9. CASE Read
  <2>1. PICK t : t = Head(unread)[1]
    OBVIOUS
  <2>2. PICK x : x = Head(unread)[2]
    OBVIOUS
  <2>3. /\ unread' \in ToolEvents /\ t \in Tools /\ x \in Statuses
        /\ cards' = [cards EXCEPT ![t] = Updated(@, x)]
        /\ skipped' \subseteq skipped \cup {t}
    BY <1>5, <1>9, <2>1, <2>2, NamedTail, StatusKinds DEF Read
  <2>4. Updated(cards[t], x) \in Statuses
    BY <1>0, <2>3, UpdatedIs DEF PageTypes
  <2>5. cards' \in [Tools -> Statuses]
    BY <1>0, <2>3, <2>4 DEF PageTypes
  <2> QED
    BY <1>0, <1>1, <1>2, <1>9, <2>3, <2>5 DEF Read, Typed, PageTypes, GhostTypes, cursorVars
<1>10. CASE HearError
  BY <1>0, <1>1, <1>2, <1>3, <1>10 DEF HearError, Typed, PageTypes, GhostTypes, cursorVars, ghosts
<1>11. CASE AskAgain
  BY <1>0, <1>1, <1>2, <1>3, <1>5, <1>6, <1>11 DEF AskAgain, Typed, PageTypes, GhostTypes
<1>12. CASE LoadedAgain
  BY <1>0, <1>1, <1>2, <1>3, <1>4, <1>12 DEF LoadedAgain, Typed, PageTypes, GhostTypes, ghosts
<1>13. CASE Stall
  BY <1>0, <1>1, <1>2, <1>13 DEF Stall, Typed, PageTypes, GhostTypes, cursorVars, ghosts
<1>14. CASE Heal
  <2>1. unread' \in ToolEvents /\ resent' \in ToolEvents
    BY <1>5, <1>6, <1>14 DEF Heal, CursorTaken
  <2>2. Len(unread) - Len(unread') \in Int /\ Len(unread) - Len(unread') <= Len(unread)
    BY <1>5, <2>1 DEF ToolEvents
  <2>3. Named(SubSeq(unread, 1, Len(unread) - Len(unread'))) \subseteq Tools
    BY <1>5, <2>2, NamedSub
  <2> QED
    BY <1>0, <1>1, <1>2, <1>14, <2>1, <2>3
       DEF Heal, CursorTaken, Typed, PageTypes, GhostTypes
<1> QED
  BY <1>7, <1>8, <1>9, <1>10, <1>11, <1>12, <1>13, <1>14

-----------------------------------------------------------------------------
(* The theorems.                                                           *)

LEMMA OnceNext ==
  ASSUME ToolIInv, ToolNext
  PROVE  OnceOK'
<1>1. OnceOK
  BY DEF ToolIInv
<1>2. CASE Crash \/ StartFails
  <2>1. "crash" \notin had /\ had' = had \cup {"crash"} /\ reload' = reload
    BY <1>2 DEF Crash, StartFails, Spend
  <2> QED
    BY <1>1, <2>1 DEF OnceOK
<1>3. CASE Interrupt \/ Terminate \/ Restart \/ Stall
  <2>1. had \subseteq had' /\ news' = news /\ reload' = reload
    BY <1>3 DEF Interrupt, Terminate, Restart, Stall, Spend, browserVars
  <2> QED
    BY <1>1, <2>1 DEF OnceOK
<1>4. CASE HearError \/ AskAgain \/ LoadedAgain
  <2>1. had' = had
    BY <1>4 DEF HearError, AskAgain, LoadedAgain
  <2>2. \/ news /\ ~ news'
        \/ reload # "no" /\ news' = news
    BY <1>4 DEF HearError, AskAgain, LoadedAgain
  <2>3. news = TRUE \/ news = FALSE
    BY DEF ToolIInv, Typed, PageTypes
  <2> QED
    BY <1>1, <2>1, <2>2, <2>3 DEF OnceOK
<1>5. CASE Visit \/ Loaded \/ Read \/ Heal
  <2>1. had' = had /\ news' = news /\ reload' = reload
    BY <1>5 DEF Visit, Loaded, Read, Heal
  <2> QED
    BY <1>1, <2>1 DEF OnceOK
<1>6. CASE \/ \E t \in Tools :
                \/ StoreUse(t) \/ AskUser(t)
                \/ \E s \in {"completed", "failed"} : StoreResult(t, s)
                \/ \E s \in {"running", "denied"} : Decide(t, s)
           \/ PublishUse \/ PublishText \/ PublishResult \/ Write
           \/ CancelReader \/ Terminated \/ Start \/ Launch
  <2>1. had' = had /\ news' = news /\ reload' = reload
    BY <1>6 DEF StoreUse, AskUser, StoreResult, Decide, PublishUse, PublishText,
                PublishResult, Write, CancelReader, Terminated, Start, Launch, browserVars
  <2> QED
    BY <1>1, <2>1 DEF OnceOK
<1> QED
  BY <1>2, <1>3, <1>4, <1>5, <1>6 DEF ToolNext

LEMMA ToolsTyped ==
  ASSUME ToolIInv, ToolNext
  PROVE  Typed'
BY TypedTells, TypedServer, TypedBrowser DEF ToolNext, Ends

LEMMA ToolsKept ==
  ASSUME ToolIInv, ToolNext
  PROVE  ToolKept
<1>1. ASSUME NEW t \in Tools, AskUser(t) PROVE ToolKept
  BY <1>1, AskedKeeps DEF AskUser
<1>2. ASSUME NEW t \in Tools, NEW s \in {"running", "denied"}, Decide(t, s) PROVE ToolKept
  BY <1>2, AskedKeeps DEF Decide
<1>3. CASE Interrupt
  BY <1>3, MarkedKeeps DEF Interrupt
<1>4. CASE Terminate
  BY <1>4, MarkedKeeps DEF Terminate
<1>5. ASSUME NEW t \in Tools, StoreUse(t) PROVE ToolKept
  BY <1>5, StoreUseKeeps
<1>6. ASSUME NEW t \in Tools, NEW s \in {"completed", "failed"}, StoreResult(t, s) PROVE ToolKept
  BY <1>6, StoreResultKeeps DEF Ends
<1>7. CASE PublishUse \/ PublishText \/ PublishResult \/ Write
  BY <1>7, PublishUseKeeps, PublishTextKeeps, PublishResultKeeps, WriteKeeps
<1>8. CASE \/ CancelReader \/ Terminated \/ Restart \/ Crash
           \/ Start \/ StartFails \/ Launch
  BY <1>8, CancelReaderKeeps, TerminatedKeeps, RestartKeeps, CrashKeeps, StartKeeps,
     StartFailsKeeps, LaunchKeeps
<1>9. CASE Visit \/ Loaded \/ Read \/ HearError
  BY <1>9, VisitKeeps, LoadedKeeps, ReadKeeps, HearErrorKeeps
<1>10. CASE AskAgain \/ LoadedAgain \/ Stall \/ Heal
  BY <1>10, AskAgainKeeps, LoadedAgainKeeps, StallKeeps, HealKeeps
<1> QED
  BY <1>1, <1>2, <1>3, <1>4, <1>5, <1>6, <1>7, <1>8, <1>9, <1>10 DEF ToolNext

LEMMA ToolsBegin == ToolInit => ToolIInv
<1> SUFFICES ASSUME ToolInit PROVE ToolIInv
  OBVIOUS
<1>1. /\ session = "active" /\ ending = FALSE /\ reader = NoFrame
      /\ writes = <<>> /\ unread = <<>> /\ resent = <<>> /\ open = {} /\ had = {}
      /\ view = "away" /\ reload = "no" /\ news = FALSE /\ kept = FALSE
      /\ late = {} /\ stale = {} /\ skipped = {}
      /\ agent = [t \in Tools |-> "no"]
      /\ live = NoCards /\ shown = NoCards /\ page = NoCards /\ again = NoCards /\ cards = NoCards
  BY DEF ToolInit
<1>2. /\ NoCards \in [Tools -> Statuses] /\ <<>> \in ToolEvents
      /\ \A t \in Tools : NoCards[t] = "none" /\ agent[t] = "no"
  BY <1>1, StatusKinds DEF NoCards, ToolEvents
<1>3. Typed
  <2>1. FewUsed
    <3>1. {t \in Tools : agent[t] # "no"} = {}
      BY <1>2
    <3> QED
      BY <3>1, FS_EmptySet DEF FewUsed
  <2>2. ToolTypes
    BY <1>1, <1>2, NoFrameTyped DEF ToolTypes
  <2>3. PageTypes /\ GhostTypes
    BY <1>1, <1>2 DEF PageTypes, GhostTypes
  <2> QED
    BY <2>1, <2>2, <2>3 DEF Typed
<1>4. OnceOK
  BY <1>1 DEF OnceOK
<1>5. ToolsOK
  BY <1>1, <1>2, FrameKinds, StatusKinds
     DEF ToolsOK, FrameOK, SessionOK, Unused, LeftOver, FileOK, FilesFollow, FileFollows,
         Active, Ends, Cut
<1>6. EventsSettle
  BY <1>1, SettlesNone DEF EventsSettle
<1>7. PageOK /\ ErrorSeen
  BY <1>1, AgreeNone DEF PageOK, ErrorSeen
<1>8. CardsFit
  BY <1>1, <1>2, FitsNone DEF CardsFit
<1>9. CardsRight /\ CardsEnd
  BY <1>1 DEF CardsRight, CardsEnd, Loads, AsksAgain, Shows
<1> QED
  BY <1>3, <1>4, <1>5, <1>6, <1>7, <1>8, <1>9 DEF ToolIInv, PagesOK

LEMMA ToolsStutter == ToolIInv /\ UNCHANGED toolVars => ToolIInv'
<1> SUFFICES ASSUME ToolIInv, UNCHANGED toolVars PROVE ToolIInv'
  OBVIOUS
<1>1. UNCHANGED <<session, ending, agent, reader, live, writes, shown, open, had, view, page,
                  reload, again, news, unread, kept, resent, cards, late, stale, skipped>>
  BY DEF toolVars, coordVars, browserVars, cursorVars, ghosts
<1>2. Typed' /\ OnceOK'
  BY <1>1 DEF ToolIInv, Typed, ToolTypes, PageTypes, GhostTypes, FewUsed, OnceOK
<1>3. ToolsOK'
  BY <1>1, BrowserKept DEF ToolIInv, ToolsOK, Unused, coordVars
<1>4. EventsSettle' /\ PageOK' /\ ErrorSeen'
  BY <1>1 DEF ToolIInv, PagesOK, EventsSettle, PageOK, ErrorSeen
<1>5. CardsFit' /\ CardsEnd'
  BY <1>1 DEF ToolIInv, PagesOK, CardsFit, Fits, CardsEnd, Loads, AsksAgain, Shows
<1>6. CardsRight'
  BY <1>1 DEF ToolIInv, PagesOK, CardsRight, Right, Loads, AsksAgain, Shows
<1> QED
  BY <1>2, <1>3, <1>4, <1>5, <1>6 DEF ToolIInv, PagesOK

LEMMA ToolsAlways == ToolSpec => []ToolIInv
<1>1. ToolIInv /\ [ToolNext]_toolVars => ToolIInv'
  BY ToolsTyped, OnceNext, ToolsKept, ToolsStutter DEF ToolIInv, ToolKept
<1> QED
  BY <1>1, ToolsBegin, PTL DEF ToolSpec

\* The state keeps its types; the tools in use are finitely many.
THEOREM ToolsTypeCorrect == ToolSpec => []Typed
BY ToolsAlways, PTL DEF ToolIInv

LEMMA RestAgrees == ToolIInv => ReloadAgrees
<1>a. ASSUME ToolIInv, AtRest, session = "active", NEW t \in stale
      PROVE  HistoryView[t] \in Terminal
  <2>1. /\ t \in Tools /\ t \notin open /\ agent[t] # "no"
        /\ Typed /\ shown[t] \in Terminal
    BY <1>a DEF ToolIInv, ToolsOK, SessionOK, Unused, FileOK, Typed, GhostTypes
  <2> QED
    BY <1>a, <2>1 DEF HistoryView
<1> SUFFICES ASSUME ToolIInv, AtRest, session = "active",
                    NEW t \in Tools \ (late \cup stale \cup skipped)
             PROVE  \/ cards[t] = HistoryView[t]
                    \/ cards[t] \in Cut /\ HistoryView[t] \in Terminal
  BY <1>a DEF ReloadAgrees, Cut
<1>0. Typed /\ ToolsOK /\ PagesOK
  BY DEF ToolIInv
<1>1. /\ reader = NoFrame /\ writes = <<>> /\ unread = <<>>
      /\ view = "here" /\ reload = "no"
  BY DEF AtRest
<1>2. t \notin Named(writes) /\ t \notin Named(unread)
  BY <1>1, NamedNone
<1>3. HistoryView[t] = shown[t]
  BY <1>0, HistoryIs DEF ToolsOK
<1>4. Right(cards[t], t)
  BY <1>0, <1>1, <1>2 DEF PagesOK, CardsRight, Shows
<1>5. ~ Brings(t) /\ ~ (reader = UseFrame(t)) /\ \A v : reader # ResultFrame(t, v)
  BY <1>1, FrameKinds DEF Brings
<1>6. FileFollows(t)
  BY <1>0 DEF ToolsOK, FilesFollow
<1>7. CASE live[t] = "none"
  <2>1. agent[t] = "no"
    BY <1>5, <1>6, <1>7 DEF FileFollows
  <2> QED
    BY <1>0, <1>3, <2>1 DEF ToolsOK, Unused
<1>8. CASE live[t] \in Running
  <2>1. shown[t] = live[t]
    BY <1>2, <1>5, <1>6, <1>8 DEF FileFollows
  <2>2. cards[t] = live[t]
    BY <1>4, <1>5, <1>8, StatusKinds DEF Right
  <2> QED
    BY <1>3, <2>1, <2>2
<1>9. CASE live[t] \in Ends
  <2>1. shown[t] = live[t]
    BY <1>6, <1>9 DEF FileFollows
  <2>2. cards[t] = live[t]
    BY <1>4, <1>5, <1>9, StatusKinds DEF Right
  <2> QED
    BY <1>3, <2>1, <2>2
<1>10. CASE live[t] \in Cut
  <2>1. shown[t] \in Terminal
    BY <1>0, <1>2, <1>10, StatusKinds DEF ToolsOK, FileOK
  <2> QED
    BY <1>3, <1>4, <1>5, <1>10, <2>1 DEF Right
<1> QED
  BY <1>0, <1>7, <1>8, <1>9, <1>10, StatusKinds DEF Typed, ToolTypes

LEMMA RestEnds == ToolIInv => NoSpinner
<1> SUFFICES ASSUME ToolIInv, AtRest, session \in {"terminated", "error"},
                    NEW t \in Tools \ (late \cup skipped),
                    session = "terminated" => t \notin stale
             PROVE  cards[t] \notin Running
  BY DEF NoSpinner
<1>0. Typed /\ ToolsOK /\ PagesOK
  BY DEF ToolIInv
<1>1. /\ reader = NoFrame /\ unread = <<>> /\ ~ news /\ view = "here" /\ reload = "no"
  BY DEF AtRest
<1>2. t \notin Named(unread)
  BY <1>1, NamedNone
<1>3. CASE agent[t] = "no"
  BY <1>0, <1>3, StatusKinds DEF ToolsOK, Unused
<1>4. CASE session = "error" /\ agent[t] # "no"
  <2>1. cards[t] \in Terminal
    BY <1>0, <1>1, <1>4 DEF PagesOK, ErrorSeen
  <2> QED
    BY <2>1, StatusKinds
<1>5. CASE session = "terminated" /\ agent[t] # "no"
  <2>1. live[t] \notin Running
    BY <1>0, <1>5 DEF ToolsOK, SessionOK, Active
  <2>2. live[t] # "none"
    <3>1. CASE t \in stale
      BY <1>0, <3>1 DEF ToolsOK, LeftOver
    <3>2. CASE t \notin stale
      <4>1. FileFollows(t)
        BY <1>0, <3>2 DEF ToolsOK, FilesFollow
      <4> QED
        BY <4>1, <1>1, <1>5, FrameKinds DEF FileFollows
    <3> QED
      BY <3>1, <3>2
  <2>3. live[t] \in Terminal
    BY <1>0, <2>1, <2>2, StatusKinds DEF Typed, ToolTypes
  <2>4. cards[t] \in Terminal
    BY <1>0, <1>1, <1>2, <2>3 DEF PagesOK, CardsEnd, Shows
  <2> QED
    BY <2>4, StatusKinds
<1> QED
  BY <1>3, <1>4, <1>5

\* ReloadAgrees: pressing reload changes no card but those the property names
\* (get_session_messages, mark_session_tools_interrupted, handleToolCall).
THEOREM HistoryAgrees == ToolSpec => []ReloadAgrees
BY ToolsAlways, RestAgrees, PTL

\* NoSpinner: when a session has ended or failed no card shows a tool as waiting
\* or running (terminate_session, the error callback, loadMessages).
THEOREM NothingSpins == ToolSpec => []NoSpinner
BY ToolsAlways, RestEnds, PTL

\* What a tool call has come to it keeps, in the coordinator ...
LEMMA LiveEnds ==
  ASSUME ToolIInv, ToolNext, NEW t \in Tools, live[t] \in Terminal
  PROVE  live'[t] = live[t]
<1>0. Typed /\ EventsSettle /\ PageOK /\ FrameOK /\ Unused
  BY DEF ToolIInv, PagesOK, ToolsOK
<1>1. \A D : Changes(D) => t \notin D /\ live'[t] = live[t]
  BY DEF Changes
<1>2. ASSUME NEW u \in Tools, NEW s \in {"awaiting", "running", "denied"},
             live[u] \in {"pending", "awaiting"}, live' = [live EXCEPT ![u] = s]
      PROVE  live'[t] = live[t]
  BY <1>0, <1>2, StatusKinds DEF Typed, ToolTypes, Terminal
<1>3. ASSUME NEW u \in Tools, AskUser(u) PROVE live'[t] = live[t]
  BY <1>2, <1>3 DEF AskUser
<1>4. ASSUME NEW u \in Tools, NEW s \in {"running", "denied"}, Decide(u, s)
      PROVE  live'[t] = live[t]
  BY <1>2, <1>4 DEF Decide
<1>5. CASE PublishUse
  <2>1. PICK u \in Tools : reader = UseFrame(u)
    BY <1>0, <1>5, FrameCases DEF PublishUse
  <2>2. reader[2] = u /\ live[u] = "none"
    BY <1>0, <2>1, FrameKinds DEF FrameOK
  <2>3. u # t
    BY <2>2, StatusKinds
  <2> QED
    BY <1>0, <1>5, <2>2, <2>3 DEF PublishUse, CreateToolCall, Typed, ToolTypes
<1>6. CASE PublishResult
  <2>1. reader[2] \in Active => reader[2] # t
    BY StatusKinds DEF Active
  <2> QED
    BY <1>0, <1>6, <2>1 DEF PublishResult, UpdateResult, Typed, ToolTypes
<1>7. CASE Interrupt \/ Terminate
  BY <1>0, <1>1, <1>7, MarkChanges DEF Interrupt, Terminate
<1>8. CASE \/ \E u \in Tools :
                StoreUse(u) \/ \E s \in {"completed", "failed"} : StoreResult(u, s)
           \/ PublishText \/ Write \/ CancelReader \/ Terminated \/ Restart \/ Crash
           \/ Start \/ StartFails \/ Launch
  BY <1>8 DEF StoreUse, StoreResult, PublishText, Write, CancelReader, Terminated, Restart, Crash, Start,
              StartFails, Launch
<1>9. CASE Visit \/ Loaded \/ Read \/ HearError \/ AskAgain \/ LoadedAgain \/ Stall \/ Heal
  BY <1>9 DEF Visit, Loaded, Read, HearError, AskAgain, LoadedAgain, Stall, Heal, coordVars
<1> QED
  BY <1>3, <1>4, <1>5, <1>6, <1>7, <1>8, <1>9 DEF ToolNext

\* ... and on the page.
LEMMA CardEnds ==
  ASSUME ToolIInv, ToolNext, NEW t \in Tools, cards[t] \in Terminal
  PROVE  cards'[t] \notin Running
<1>0. Typed /\ PageTypes
  BY DEF ToolIInv, Typed
<1>1. CASE cards' = cards
  BY <1>1, StatusKinds
<1>2. CASE Loaded \/ LoadedAgain
  <2>1. cards'[t] \in Terminal
    BY <1>0, <1>2, CardsMerged, MergedIs DEF Loaded, LoadedAgain
  <2> QED
    BY <2>1, StatusKinds
<1>3. CASE HearError
  BY <1>3, StatusKinds DEF HearError, Cleared
<1>4. CASE Read
  <2>1. PICK u : u = Head(unread)[1]
    OBVIOUS
  <2>2. PICK x : x = Head(unread)[2]
    OBVIOUS
  <2>3. /\ u \in Tools /\ x \in Running \cup Terminal
        /\ cards' = [cards EXCEPT ![u] = Updated(@, x)]
    BY <1>0, <1>4, <2>1, <2>2, NamedTail DEF Read, PageTypes
  <2>4. Updated(cards[t], x) \in Terminal
    <3>1. cards[t] \in Statuses /\ x \in Statuses
      <4>1. cards \in [Tools -> Statuses]
        BY <1>0 DEF PageTypes
      <4> QED
        BY <4>1, <2>3, StatusKinds
    <3>2. CASE x \in Terminal
      <4>1. Updated(cards[t], x) = x
        BY <3>1, <3>2, UpdatedIs
      <4> QED
        BY <3>2, <4>1
    <3>3. CASE x \in Running
      <4>1. Updated(cards[t], x) = cards[t]
        BY <3>1, <3>3, UpdatedIs
      <4> QED
        BY <4>1
    <3> QED
      BY <2>3, <3>2, <3>3
  <2>5. cards'[t] \in Terminal
    BY <1>0, <2>3, <2>4 DEF PageTypes
  <2> QED
    BY <2>5, StatusKinds
<1>5. CASE ~ (Loaded \/ LoadedAgain \/ HearError \/ Read)
  <2>1. cards' = cards
    BY <1>5 DEF ToolNext, StoreUse, AskUser, StoreResult, Decide, PublishUse, PublishText, PublishResult,
                Write, Interrupt, Terminate, CancelReader, Terminated, Restart, Crash,
                Start, StartFails, Launch, Visit, AskAgain, Stall, Heal, browserVars
  <2> QED
    BY <2>1, <1>1
<1> QED
  BY <1>2, <1>3, <1>4, <1>5

\* EndedStaysEnded: a tool call that has ended is taken back by nobody
\* (update_tool_call_*, mark_session_tools_interrupted, handleToolCall).
THEOREM EndsAreFinal == ToolSpec => EndedStaysEnded
<1>1. ToolIInv /\ [ToolNext]_toolVars =>
        [\A t \in Tools :
            /\ live[t] \in Terminal => live'[t] = live[t]
            /\ cards[t] \in Terminal => cards'[t] \notin Running]_toolVars
  BY LiveEnds, CardEnds
<1> QED
  BY <1>1, ToolsAlways, PTL DEF ToolSpec, EndedStaysEnded
=============================================================================
