--------------------------- MODULE QueueDelivery ---------------------------
(***************************************************************************)
(* The queue processor (src/queue_processor.py), which takes messages from *)
(* the MessageQueue of a session and sends them to the client that         *)
(* SessionLifecycle starts and stops, and the coordinator's operations on  *)
(* the queue.                                                              *)
(*                                                                         *)
(* A processor is an asyncio task.  It calls start_session and             *)
(* reset_session like anybody else, so it is one of the callers of         *)
(* SessionLifecycle; `slot` is the task the processor has for the session. *)
(* A task that is cancelled notices at its next wait, and one that waits   *)
(* for a client's conversation to end passes the cancellation on to it,    *)
(* where it may get lost.                                                  *)
(***************************************************************************)
EXTENDS SessionLifecycle, Integers

CONSTANTS MaxItems, MaxPending, DefaultMaxPending, MaxFaulty,
          Resets,    \* the items enqueued with reset_session
          MaxDisturbed, \* bound: messages made before the users and the
                        \* server let the session and pause be
          NoTask

ASSUME NoTaskAssumption == NoTask \notin Tasks
ASSUME QueueAssumption ==
  /\ MaxItems \in Nat /\ MaxFaulty \in Nat
  /\ MaxPending \in Nat /\ DefaultMaxPending \in Nat

VARIABLES mem, file, cleared, torn, created, lost, moved,
          queuePaused, \* SessionInfo.queue_paused
          scripts,     \* has_inflight_scripts: a scheduled script runs for it
          slot,        \* QueueProcessor._tasks[session_id]
          pc,          \* per task: where its loop is, "off" when it is done
          item,        \* per task: the item it has peeked at, or 0
          cancelling,  \* the tasks that are to find out they are cancelled
          taken,       \* history: item -> how often a client accepted it
          halted,      \* history: the last processor failed or was stopped
          crowded      \* history: a task began when another was not done

Q == INSTANCE MessageQueue

messageVars == <<mem, file, cleared, torn, created, lost, moved>>
sessionQueue == <<queuePaused, scripts>>
taskVars == <<slot, pc, item, cancelling>>
historyVars == <<taken, halted, crowded>>
deliveryVars == <<lifeVars, messageVars, sessionQueue, taskVars, historyVars>>

NoItem == 0
Items == 1 .. MaxItems
Running == {t \in Tasks : pc[t] # "off"}
AsBefore == UNCHANGED <<messageVars, sessionQueue, historyVars>>

-----------------------------------------------------------------------------
(* The task of a processor begins and ends.                                *)

\* ensure_running
EnsureRunning ==
  IF slot # NoTask /\ pc[slot] # "off"
  THEN /\ halted' = FALSE
       /\ UNCHANGED <<slot, pc, crowded>>
  ELSE /\ \E t \in Tasks : /\ pc[t] = "off"
                           /\ slot' = t
                           /\ pc' = [pc EXCEPT ![t] = "new"]
       /\ halted' = FALSE
       /\ crowded' = (crowded \/ Running # {})

Idle == UNCHANGED <<slot, pc, halted, crowded>>

\* stop
Stop ==
  /\ slot' = NoTask
  /\ cancelling' = cancelling \union ({slot} \intersect Running)
  /\ halted' = TRUE
  /\ UNCHANGED <<pc, item, taken, crowded>>

\* The finally of the loop: it forgets the task in the slot, whichever it is.
Exit(t, fails) ==
  /\ slot' = NoTask
  /\ pc' = [pc EXCEPT ![t] = "off"]
  /\ item' = [item EXCEPT ![t] = NoItem]
  /\ halted' = (halted \/ fails)
  /\ UNCHANGED <<taken, crowded>>

GoesTo(t, place) ==
  /\ pc' = [pc EXCEPT ![t] = place]
  /\ UNCHANGED <<slot, item, historyVars>>

Fails(t) ==
  /\ IF item[t] \in DOMAIN mem THEN Q!MarkFailed(item[t], TRUE)
     ELSE UNCHANGED messageVars
  /\ Exit(t, TRUE)

-----------------------------------------------------------------------------
(* _process_loop                                                           *)

At(t, place) == pc[t] \in place /\ t \notin cancelling

PeekNothing(t) ==
  /\ At(t, {"new", "top"})
  /\ Q!Pending(mem) = {}
  /\ Exit(t, FALSE)
  /\ UNCHANGED <<lifeVars, messageVars, sessionQueue, cancelling>>

\* The task sleeps for a second and looks again.
PeekPaused(t) ==
  /\ At(t, {"new"})
  /\ Q!Pending(mem) # {} /\ queuePaused
  /\ GoesTo(t, "top")
  /\ UNCHANGED <<lifeVars, messageVars, sessionQueue, cancelling>>

PeekError(t) ==
  /\ At(t, {"new", "top"})
  /\ Q!Pending(mem) # {} /\ ~ queuePaused /\ st = "error"
  /\ Exit(t, TRUE)
  /\ UNCHANGED <<lifeVars, messageVars, sessionQueue, cancelling>>

PeekNext(t) ==
  /\ At(t, {"new", "top"})
  /\ ~ queuePaused /\ st # "error"
  /\ \E i \in Items : Q!IsNext(mem, i) /\ item' = [item EXCEPT ![t] = i]
  /\ IF st \in AutoStart
     THEN Start(t) /\ pc' = [pc EXCEPT ![t] = "starting"]
     ELSE UNCHANGED lifeVars /\ pc' = [pc EXCEPT ![t] = "active"]
  /\ UNCHANGED <<messageVars, sessionQueue, slot, cancelling, historyVars>>

\* The call of start_session or reset_session has returned.
TakesResult(t) ==
  /\ at' = [at EXCEPT ![t] = "idle"]
  /\ UNCHANGED <<sessionVars, clientVars, kind, on, disturbed>>

Called(t) ==
  /\ At(t, {"starting", "resetting"}) /\ at[t] \in Results
  /\ TakesResult(t)
  /\ CASE at[t] = "yes" ->
            /\ GoesTo(t, IF pc[t] = "starting" THEN "active" ELSE "again")
            /\ UNCHANGED messageVars
       [] at[t] = "no" -> Fails(t)
       [] at[t] = "raised" -> Exit(t, TRUE) /\ UNCHANGED messageVars
  /\ UNCHANGED <<sessionQueue, cancelling>>

\* With no client to disconnect, the queue's file is emptied at once.
ResetSession(c) ==
  /\ Reset(c)
  /\ IF reg = NoClient THEN Q!Truncate ELSE UNCHANGED messageVars

\* _wait_for_active sees the session active: the first time it may have to be
\* reset, the second time it has been.
BecameActive(t) ==
  /\ st = "active"
  /\ \/ /\ At(t, {"active"}) /\ item[t] \in Resets
        /\ ResetSession(t)
        /\ GoesTo(t, "resetting")
     \/ /\ At(t, {"again"}) \/ (At(t, {"active"}) /\ item[t] \notin Resets)
        /\ GoesTo(t, "wait")
        /\ UNCHANGED <<lifeVars, messageVars>>
  /\ UNCHANGED <<sessionQueue, cancelling>>

\* It sees an error, or has waited long enough.
NotActive(t) ==
  /\ At(t, {"active", "again"}) /\ st # "active"
  /\ IF pc[t] = "active" THEN Fails(t) ELSE Exit(t, TRUE) /\ UNCHANGED messageVars
  /\ UNCHANGED <<lifeVars, sessionQueue, cancelling>>

WaitedPaused(t) ==
  /\ At(t, {"wait"}) /\ queuePaused
  /\ GoesTo(t, "top")
  /\ UNCHANGED <<lifeVars, messageVars, sessionQueue, cancelling>>

\* send_message and, at once, mark_sent or mark_failed.
SendRefused(t) ==
  /\ At(t, {"wait"}) /\ ~ queuePaused
  /\ IF reg = NoClient THEN UNCHANGED lifeVars ELSE ~ Accepts /\ Send(item[t])
  /\ Fails(t)
  /\ UNCHANGED <<sessionQueue, cancelling>>

\* Faulty: the item is not marked at once.
SendAcceptedUnmarked(t) ==
  /\ At(t, {"wait"}) /\ ~ queuePaused
  /\ Accepts /\ ~ Locked /\ processing' = TRUE
  /\ taken' = [taken EXCEPT ![item[t]] = @ + 1]
  /\ pc' = [pc EXCEPT ![t] = "idle"]
  /\ UNCHANGED <<st, reg, clientVars, callVars, disturbed, messageVars,
                 sessionQueue, slot, item, cancelling, halted, crowded>>
SendAccepted(t) ==
  /\ At(t, {"wait"}) /\ ~ queuePaused
  /\ Accepts /\ ~ Locked /\ processing' = TRUE
  /\ taken' = [taken EXCEPT ![item[t]] = @ + 1]
  /\ IF item[t] \in DOMAIN mem THEN Q!MarkSent(item[t], TRUE)
     ELSE UNCHANGED messageVars
  /\ pc' = [pc EXCEPT ![t] = "idle"]
  /\ UNCHANGED <<st, reg, clientVars, callVars, disturbed, sessionQueue, slot,
                 item, cancelling, halted, crowded>>

\* _wait_for_idle
BecameIdle(t) ==
  /\ At(t, {"idle"}) /\ st # "error" /\ ~ processing /\ ~ scripts
  /\ pc' = [pc EXCEPT ![t] = "top"]
  /\ item' = [item EXCEPT ![t] = NoItem]
  /\ UNCHANGED <<lifeVars, messageVars, sessionQueue, slot, cancelling,
                 historyVars>>

\* Faulty: a session in error is waited for like one that is busy.
ErrorUnseen(t) ==
  At(t, {"idle"}) /\ st = "error" /\ UNCHANGED deliveryVars

ErrorWhileBusy(t) ==
  /\ At(t, {"idle"}) /\ st = "error"
  /\ Fails(t)
  /\ UNCHANGED <<lifeVars, sessionQueue, cancelling>>

-----------------------------------------------------------------------------
(* The cancellation reaches the task.                                      *)

\* It has not begun: it never enters the loop, nor the finally.
CancelledNew(t) ==
  /\ t \in cancelling /\ pc[t] = "new"
  /\ cancelling' = cancelling \ {t}
  /\ pc' = [pc EXCEPT ![t] = "off"]
  /\ UNCHANGED <<lifeVars, messageVars, sessionQueue, slot, item, historyVars>>

\* It leaves the call it is in half done, and its loop.
Cancelled(t) ==
  /\ t \in cancelling /\ pc[t] # "new"
  /\ cancelling' = cancelling \ {t}
  /\ IF at[t] = "idle" THEN UNCHANGED lifeVars
     ELSE /\ Waits(t, "none", "idle", NoClient)
          /\ UNCHANGED <<sessionVars, clientVars, disturbed>>
  /\ Exit(t, FALSE)
  /\ UNCHANGED <<messageVars, sessionQueue>>

\* It goes to the conversation the task waits for, which ends without raising:
\* the task goes on as if nothing had happened.
CancelLost(t) ==
  /\ t \in cancelling /\ at[t] \in {"disconnect", "undo"}
  /\ conv[on[t]] # "ended"
  /\ cancelling' = cancelling \ {t}
  /\ UNCHANGED <<lifeVars, messageVars, sessionQueue, slot, pc, item, historyVars>>

-----------------------------------------------------------------------------
(* The coordinator's operations on the queue.                              *)

EnqueueMessage ==
  /\ Q!Enqueue(TRUE)
  /\ IF queuePaused THEN Idle ELSE EnsureRunning
  /\ UNCHANGED <<lifeVars, sessionQueue, item, cancelling, taken>>

RequeueItem(i) ==
  /\ Q!Requeue(i, 2)
  /\ IF queuePaused THEN Idle ELSE EnsureRunning
  /\ UNCHANGED <<lifeVars, sessionQueue, item, cancelling, taken>>

CancelQueueItem(i) ==
  /\ Q!Cancel(i, TRUE)
  /\ UNCHANGED <<lifeVars, sessionQueue, taskVars, historyVars>>

ClearQueue ==
  /\ Q!ClearPending \/ Q!ClearHistory(TRUE)
  /\ UNCHANGED <<lifeVars, sessionQueue, taskVars, historyVars>>

PauseQueue ==
  /\ created <= MaxDisturbed
  /\ ~ queuePaused /\ queuePaused' = TRUE /\ UNCHANGED scripts
  /\ UNCHANGED <<lifeVars, messageVars, taskVars, historyVars>>

\* Faulty: the processor is not started again.
ResumeQueueOnly ==
  /\ queuePaused /\ queuePaused' = FALSE /\ UNCHANGED scripts
  /\ UNCHANGED <<lifeVars, messageVars, taskVars, historyVars>>

ResumeQueue ==
  /\ queuePaused /\ queuePaused' = FALSE /\ UNCHANGED scripts
  /\ IF Q!Pending(mem) # {} THEN EnsureRunning ELSE Idle
  /\ UNCHANGED <<lifeVars, messageVars, item, cancelling, taken>>

\* A schedule runs a script for the session, which ends by its time limit.
ScriptStarts ==
  /\ created <= MaxDisturbed
  /\ ~ scripts /\ scripts' = TRUE
  /\ UNCHANGED <<lifeVars, messageVars, queuePaused, taskVars, historyVars>>

ScriptEnds ==
  /\ scripts /\ scripts' = FALSE
  /\ UNCHANGED <<lifeVars, messageVars, queuePaused, taskVars, historyVars>>

UserQueues ==
  \/ EnqueueMessage
  \/ \E i \in Items : RequeueItem(i) \/ CancelQueueItem(i)
  \/ ClearQueue \/ PauseQueue \/ ResumeQueue

-----------------------------------------------------------------------------
(* The coordinator's operations on the session.                            *)

UserStart(u) ==
  /\ created <= MaxDisturbed /\ Start(u)
  /\ UNCHANGED taskVars /\ AsBefore

\* By a user; or by a minion, whose tool leaves a monitor that restarts it as soon
\* as it is idle, in whatever state its session is by then.  That it is told to
\* continue is a message like any other.
UserRestart(u) ==
  /\ created <= MaxDisturbed /\ Restart(u)
  /\ UNCHANGED taskVars /\ AsBefore

\* The processor is stopped before anything else.
UserTerminate(u) ==
  /\ created <= MaxDisturbed /\ Terminate(u)
  /\ Stop
  /\ UNCHANGED <<messageVars, sessionQueue>>

UserReset(u) ==
  /\ created <= MaxDisturbed /\ ResetSession(u)
  /\ Stop
  /\ UNCHANGED sessionQueue

\* Of the steps that follow, one empties the queue's file.
CallGoesOn(c) ==
  /\ c \notin cancelling
  /\ UNCHANGED <<taskVars, sessionQueue, historyVars>>
  /\ \/ ResetSettled(c) /\ Q!Truncate
     \/ /\ \/ \E k \in Clients : Launch(c, k)
           \/ StartupFails(c) \/ PrepareFails(c) \/ Undone(c)
           \/ StopDone(c) \/ CloseDone(c)
           \/ Disconnected(c) \/ SettleFails(c) \/ RestartSettled(c)
        /\ UNCHANGED messageVars

\* The steps of a client that the processor can see.
ClientGoesOn(k) ==
  /\ \/ Enter(k) \/ ConversationFails(k) \/ ReaderFoundDead(k) \/ Exits(k)
     \/ Respond(k)
  /\ UNCHANGED taskVars /\ AsBefore

\* _initialize_queues, once the sessions are loaded.
ServerReboot ==
  /\ created <= MaxDisturbed
  /\ Reboot
  /\ Q!Restart
  /\ cancelling' = {} /\ item' = All(Tasks, NoItem)
  /\ IF Q!Pending(mem') = {} \/ queuePaused
     THEN slot' = NoTask /\ pc' = All(Tasks, "off")
     ELSE \E t \in Tasks : /\ slot' = t
                           /\ pc' = [All(Tasks, "off") EXCEPT ![t] = "new"]
  /\ halted' = FALSE /\ scripts' = FALSE
  /\ UNCHANGED <<queuePaused, taken, crowded>>

-----------------------------------------------------------------------------
DeliveryInit ==
  /\ Init /\ Q!Init
  /\ queuePaused = FALSE /\ scripts = FALSE
  /\ slot = NoTask /\ pc = All(Tasks, "off") /\ item = All(Tasks, NoItem)
  /\ cancelling = {}
  /\ taken = All(Items, 0) /\ halted = FALSE /\ crowded = FALSE

LoopStep(t) ==
  \/ PeekNothing(t) \/ PeekPaused(t) \/ PeekError(t) \/ PeekNext(t)
  \/ Called(t)
  \/ BecameActive(t) \/ NotActive(t)
  \/ WaitedPaused(t) \/ SendRefused(t) \/ SendAccepted(t)
  \/ BecameIdle(t) \/ ErrorWhileBusy(t)
  \/ CancelledNew(t) \/ Cancelled(t) \/ CancelLost(t)

DeliveryNext ==
  \/ \E t \in Tasks : LoopStep(t)
  \/ \E c \in Callers : CallGoesOn(c)
  \/ \E k \in Clients : ClientGoesOn(k)
  \/ \E u \in Users : \/ UserStart(u) \/ UserRestart(u)
                      \/ UserTerminate(u) \/ UserReset(u)
  \/ UserQueues
  \/ ScriptStarts \/ ScriptEnds
  \/ ServerReboot

DeliverySpec == DeliveryInit /\ [][DeliveryNext]_deliveryVars

\* The event loop runs every task whose sleep is over, a turn of the session
\* ends, and the session stays idle long enough for the processor to notice.
TurnEnds(k) == Respond(k) /\ ~ processing' /\ UNCHANGED taskVars /\ AsBefore
DeliveryFairness ==
  /\ \A t \in Tasks : SF_deliveryVars(LoopStep(t))
  /\ \A c \in Callers : SF_deliveryVars(CallGoesOn(c))
  /\ \A k \in Clients :
       /\ WF_deliveryVars(/\ Enter(k) \/ ConversationFails(k)
                          /\ UNCHANGED taskVars /\ AsBefore)
       /\ WF_deliveryVars(Exits(k) /\ UNCHANGED taskVars /\ AsBefore)
       /\ SF_deliveryVars(TurnEnds(k))
  /\ WF_deliveryVars(ScriptEnds)
  /\ <>[][~ ServerReboot]_deliveryVars

FairDeliverySpec == DeliverySpec /\ DeliveryFairness

-----------------------------------------------------------------------------
\* The variables of the processor keep their shape; a task that handles an
\* item has one, and only tasks that run are cancelled.
Handling == {"starting", "active", "resetting", "again", "wait", "idle"}
DeliveryTypeOK ==
  /\ slot \in Tasks \union {NoTask}
  /\ pc \in [Tasks -> {"off", "new", "top"} \union Handling]
  /\ item \in [Tasks -> {NoItem} \union Items]
  /\ \A t \in Tasks : pc[t] \in Handling => item[t] \in 1 .. created
  /\ cancelling \subseteq Running
  /\ taken \in [Items -> Nat]
  /\ {queuePaused, scripts, halted, crowded} \subseteq BOOLEAN

\* A message is given to a client at most once, whatever else is done to the
\* session, as long as no two tasks run at once.
AtMostOnce == ~ crowded => \A i \in Items : taken[i] <= 1

\* No message is left behind: while one waits in a queue that is not paused, a
\* task runs, or the last one was stopped or gave up.
NoneLeftBehind ==
  Q!Pending(mem) # {} /\ ~ queuePaused /\ ~ halted => Running # {}

\* A message that waits is dealt with in the end, unless the queue is paused or
\* its processor gave up or was stopped.
Progress ==
  \A i \in Items :
    i \in Q!Pending(mem) ~> \/ i \notin Q!Pending(mem)
                            \/ queuePaused \/ halted
=============================================================================
