--------------------------- MODULE SessionProofs ---------------------------
(***************************************************************************)
(* Proofs about a session (SessionLifecycle), the queue that is served to  *)
(* it (QueueDelivery) and the comms that are sent to it (Communications),  *)
(* for any number of callers, clients, tasks, items, messages and comms.   *)
(*                                                                         *)
(* The session by itself: the strengthening, SessionIInv, says where a     *)
(* session that nobody has disturbed is: at most one caller is busy, its   *)
(* place determines what the session and its client look like (Phase), and *)
(* without one the session is Quiet.                                       *)
(*                                                                         *)
(* The queue, whatever is done to the session meanwhile: the system uses   *)
(* it only as MessageQueue allows (QueueStep), so what is proved of that   *)
(* module holds here.  That nothing is given to a client twice needs more  *)
(* than the queue promises: the file makes no item wait that does not wait *)
(* in memory (FileFollows), what was accepted waits no more (TakenIsGone), *)
(* and what a lone task has picked up was not accepted before (OneTask).   *)
(* That no message is left behind needs that the task in the slot is not   *)
(* one that is being cancelled (SlotOK).                                   *)
(*                                                                         *)
(* The comms: that none is given up while its minion is there needs that   *)
(* the event of a client that answers is set (ReadyOK), and that a start   *)
(* which did not succeed has left no session that is active (NotThere).    *)
(***************************************************************************)
EXTENDS QueueDelivery, Communications, TLAPS

-----------------------------------------------------------------------------
(* The type invariant, part by part.                                       *)

SessionOK == st \in States /\ processing \in BOOLEAN /\ reg \in Clients \union {NoClient}
ClientsOK ==
  /\ info \in [Clients -> {"starting", "running", "over"}]
  /\ conv \in [Clients -> {"entering", "looping", "dying", "ended"}]
  /\ shut \in [Clients -> BOOLEAN]
  /\ inbox \in [Clients -> Seq(Messages)]
  /\ asking \subseteq Clients
\* The places where a caller waits for a client.
Tied == {"undo", "stop", "disconnect"}
CallsOK ==
  /\ at \in [Callers -> Places]
  /\ kind \in [Callers -> Kinds]
  /\ on \in [Callers -> Clients \union {NoClient}]
  /\ \A c \in Callers : /\ at[c] \in Tied <=> on[c] # NoClient
                        /\ at[c] \in Resting <=> kind[c] = "none"

\* The type invariant is the conjunction of its parts.
LEMMA TypeParts == TypeOK <=> SessionOK /\ ClientsOK /\ CallsOK /\ disturbed \in BOOLEAN
BY DEF TypeOK, SessionOK, ClientsOK, CallsOK, Tied

\* A caller that begins to wait keeps the calls well-formed.
LEMMA WaitsTyped ==
  ASSUME CallsOK, NEW c \in Callers, NEW call \in Kinds \ {"none"},
         NEW place \in Places \ Resting, NEW k \in Clients \union {NoClient},
         place \in Tied <=> k # NoClient, Waits(c, call, place, k)
  PROVE  CallsOK'
BY DEF CallsOK, Waits

\* So does one that returns.
LEMMA ReturnsTyped ==
  ASSUME CallsOK, NEW c \in Callers, NEW result \in Results, Returns(c, result)
  PROVE  CallsOK'
<1> DEFINE place == IF c \in Tasks THEN result ELSE "idle"
<1>1. place \in Resting /\ place \in Places /\ place \notin Tied
  BY DEF Resting, Results, Tied, Places
<1>2. "none" \in Kinds
  BY DEF Kinds
<1>3. Waits(c, "none", place, NoClient)
  BY DEF Returns
<1> HIDE DEF place
<1> QED
  BY <1>1, <1>2, <1>3 DEF Waits, CallsOK

\* So does a step that no caller takes.
LEMMA CallsStay == CallsOK /\ UNCHANGED callVars => CallsOK'
BY DEF CallsOK, callVars

\* What start_session does first keeps the types.
LEMMA TryStartTyped ==
  ASSUME TypeOK, NEW c \in Callers, NEW call \in Kinds \ {"none"}, NEW s \in States,
         NEW k \in Clients \union {NoClient}, TryStart(c, call, s, k)
  PROVE  SessionOK' /\ CallsOK' /\ disturbed' \in BOOLEAN
<1>1. CallsOK
  BY TypeParts
<1>2. Returns(c, "no") \/ Returns(c, "yes") \/ Waits(c, call, "prepare", NoClient)
  BY DEF TryStart
<1>3. CallsOK'
  BY <1>1, <1>2, WaitsTyped, ReturnsTyped DEF Results, Places, Tied, Resting
<1>4. SessionOK'
  BY DEF TryStart, SessionOK, TypeOK, States
<1> QED
  BY <1>3, <1>4 DEF TryStart, Disturbs, TypeOK

\* What terminate_session does last keeps the types.
LEMMA CloseTyped ==
  ASSUME TypeOK, NEW c \in Callers, Close(c)
  PROVE  CallsOK' /\ st' \in States
<1>1. CallsOK
  BY TypeParts
<1>2. Returns(c, "yes") \/ Waits(c, "terminate", "closing", NoClient)
  BY DEF Close
<1>3. CallsOK'
  BY <1>1, <1>2, WaitsTyped, ReturnsTyped DEF Results, Places, Tied, Resting, Kinds
<1> QED
  BY <1>3 DEF Close, TypeOK, States

\* The types hold at the start.
LEMMA TypeInit == Init => TypeOK
<1> SUFFICES ASSUME Init PROVE TypeOK
  OBVIOUS
<1>1. <<>> \in Seq(Messages)
  OBVIOUS
<1> QED
  BY <1>1 DEF Init, TypeOK, All, Places, Resting, Results, Kinds, States

\* Every step keeps the types.
LEMMA TypeNext == TypeOK /\ [Next]_lifeVars => TypeOK'
<1> SUFFICES ASSUME TypeOK, [Next]_lifeVars PROVE TypeOK'
  OBVIOUS
<1>a. SessionOK /\ ClientsOK /\ CallsOK /\ disturbed \in BOOLEAN
  BY TypeParts
<1>b. (SessionOK /\ ClientsOK /\ CallsOK /\ disturbed \in BOOLEAN)' => TypeOK'
  BY DEF TypeOK, SessionOK, ClientsOK, CallsOK, Tied
<1>s. UNCHANGED clientVars => ClientsOK'
  BY <1>a DEF ClientsOK, clientVars
<1>k. \A call \in {"start", "terminate", "restart", "reset"} : call \in Kinds \ {"none"}
  BY DEF Kinds
<1>l. \A c \in Callers : at[c] \notin Resting => kind[c] \in Kinds \ {"none"}
  BY <1>a DEF CallsOK
<1>r. reg # NoClient => reg \in Clients
  BY <1>a DEF SessionOK
<1>1. ASSUME NEW c \in Callers, Start(c) PROVE TypeOK'
  BY <1>1, <1>a, <1>b, <1>s, <1>k, TryStartTyped DEF Start, SessionOK
<1>2. ASSUME NEW c \in Callers, Terminate(c) PROVE TypeOK'
  <2>1. CallsOK' /\ st' \in States
    <3>1. CASE reg = NoClient
      BY <1>2, <3>1, CloseTyped DEF Terminate
    <3>2. CASE reg # NoClient
      BY <1>2, <3>2, <1>a, <1>k, <1>r, WaitsTyped DEF Terminate, Places, Resting, Results, Tied, SessionOK
    <3> QED
      BY <3>1, <3>2
  <2> QED
    BY <1>2, <2>1, <1>a, <1>b DEF Terminate, SessionOK, ClientsOK, Disturbs
<1>3. ASSUME NEW c \in Callers, NEW call \in {"restart", "reset"}, Disconnect(c, call) PROVE TypeOK'
  <2>1. CallsOK'
    BY <1>3, <1>a, <1>k, <1>r, WaitsTyped DEF Disconnect, Places, Resting, Results, Tied, SessionOK
  <2> QED
    BY <1>3, <2>1, <1>a, <1>b DEF Disconnect, SessionOK, ClientsOK, Disturbs, sessionVars
<1>c. ASSUME NEW c \in Callers, NEW s \in States, NEW call \in {"restart", "reset"},
             TryStart(c, call, s, NoClient), ClientsOK'
      PROVE  TypeOK'
  BY <1>c, <1>a, <1>b, <1>k, TryStartTyped
<1>d. st \in States /\ "terminated" \in States
  BY <1>a DEF SessionOK, States
<1>4. ASSUME NEW c \in Callers, Restart(c) PROVE TypeOK'
  BY <1>4, <1>3, <1>c, <1>d, <1>s DEF Restart
<1>5. ASSUME NEW c \in Callers, Reset(c) PROVE TypeOK'
  BY <1>5, <1>3, <1>c, <1>d, <1>s DEF Reset, ClearAndStart
<1>e. UNCHANGED <<conv, shut, inbox, asking>> /\ info' \in [Clients -> {"starting", "running", "over"}]
      => ClientsOK'
  BY <1>a DEF ClientsOK
<1>f. ASSUME NEW k, LetsGo(k) PROVE ClientsOK'
  BY <1>f, <1>e, <1>a DEF LetsGo, ClientsOK
<1>6. ASSUME NEW c \in Callers, RestartSettled(c) \/ ResetSettled(c) PROVE TypeOK'
  BY <1>6, <1>c, <1>d, <1>f DEF RestartSettled, ResetSettled, ClearAndStart
<1>7. ASSUME NEW c \in Callers, NEW k \in Clients, Launch(c, k) PROVE TypeOK'
  BY <1>7, <1>a, <1>b, ReturnsTyped DEF Launch, SessionOK, ClientsOK, Results
<1>8. ASSUME NEW c \in Callers, StartupFails(c) PROVE TypeOK'
  BY <1>8, <1>a, <1>b, <1>s, ReturnsTyped DEF StartupFails, SessionOK, Results, States
<1>9. ASSUME NEW c \in Callers, PrepareFails(c) PROVE TypeOK'
  <2>1. CallsOK'
    <3>1. kind[c] \in Kinds \ {"none"}
      BY <1>9, <1>l DEF PrepareFails, Resting, Results
    <3>2. "undo" \in Places \ Resting /\ "undo" \in Tied
      BY DEF Places, Resting, Results, Tied
    <3> QED
      BY <1>9, <3>1, <3>2, <1>a, <1>r, WaitsTyped, ReturnsTyped DEF PrepareFails, Results, SessionOK
  <2>2. SessionOK'
    BY <1>9, <1>a DEF PrepareFails, SessionOK, States
  <2> QED
    BY <1>9, <2>1, <2>2, <1>a, <1>b DEF PrepareFails, ClientsOK
<1>10. ASSUME NEW c \in Callers, Undone(c) PROVE TypeOK'
  BY <1>10, <1>a, <1>b, <1>s, ReturnsTyped DEF Undone, SessionOK, Results
<1>11. ASSUME NEW c \in Callers, StopDone(c) PROVE TypeOK'
  <2>1. CallsOK' /\ st' \in States
    BY <1>11, <1>a, CloseTyped, ReturnsTyped DEF StopDone, SessionOK, Results
  <2> QED
    BY <1>11, <2>1, <1>a, <1>b, <1>s DEF StopDone, SessionOK
<1>12. ASSUME NEW c \in Callers, CloseDone(c) PROVE TypeOK'
  BY <1>12, <1>a, <1>b, <1>d, <1>s, ReturnsTyped DEF CloseDone, SessionOK, Results
<1>13. ASSUME NEW c \in Callers, Disconnected(c) PROVE TypeOK'
  <2>1. kind[c] \in Kinds \ {"none"}
    BY <1>13, <1>l DEF Disconnected, Resting, Results
  <2>2. "settle" \in Places \ Resting /\ "settle" \notin Tied
    BY DEF Places, Resting, Results, Tied
  <2> QED
    BY <1>13, <2>1, <2>2, <1>a, <1>b, <1>d, <1>s, WaitsTyped DEF Disconnected, SessionOK
<1>14. ASSUME NEW c \in Callers, SettleFails(c) PROVE TypeOK'
  BY <1>14, <1>a, <1>b, <1>s, ReturnsTyped DEF SettleFails, SessionOK, sessionVars, Results
<1>g. UNCHANGED callVars => CallsOK'
  BY <1>a, CallsStay
<1>h. ASSUME ReportsFailure(reg) \/ \E k \in Clients : ReportsFailure(k)
      PROVE  SessionOK' /\ disturbed' \in BOOLEAN
  BY <1>h, <1>a DEF ReportsFailure, SessionOK, Disturbs, States
<1>m. ASSUME NEW k \in Clients, Ends(k)
      PROVE  /\ conv' \in [Clients -> {"entering", "looping", "dying", "ended"}]
             /\ shut' \in [Clients -> BOOLEAN]
             /\ inbox' \in [Clients -> Seq(Messages)]
             /\ asking' \subseteq Clients
  <2>1. <<>> \in Seq(Messages)
    OBVIOUS
  <2> QED
    BY <1>m, <2>1, <1>a DEF Ends, NoMoreAsking, ClientsOK
<1>i. ASSUME NEW k \in Clients, ClientStep(k) PROVE TypeOK'
  <2>1. ClientsOK'
    <3>1. CASE Enter(k)
      BY <3>1, <1>a DEF Enter, ClientsOK
    <3>2. CASE ConversationFails(k) \/ ReaderFoundDead(k)
      BY <3>2, <1>a, <1>m DEF ConversationFails, ReaderFoundDead, ClientsOK
    <3>3. CASE ReaderFails(k)
      BY <3>3, <1>a DEF ReaderFails, ClientsOK
    <3>4. CASE Exits(k)
      BY <3>4, <1>a, <1>m DEF Exits, ClientsOK
    <3>5. CASE Deliver(k)
      <4>1. inbox[k] \in Seq(Messages) /\ inbox[k] # <<>>
        BY <3>5, <1>a DEF Deliver, ClientsOK
      <4>2. Tail(inbox[k]) \in Seq(Messages)
        BY <4>1
      <4>3. info' = info
        BY <3>5 DEF Deliver
      <4>4. CASE shut[k]
        BY <3>5, <4>3, <4>4, <1>a, <1>m DEF Deliver, ClientsOK
      <4>5. CASE ~ shut[k]
        BY <3>5, <4>2, <4>3, <4>5, <1>a DEF Deliver, ClientsOK
      <4> QED
        BY <4>4, <4>5
    <3>6. CASE Respond(k)
      BY <3>6, <1>s DEF Respond
    <3>7. CASE Ask(k) \/ Answer(k)
      BY <3>7, <1>a DEF Ask, Answer, NoMoreAsking, ClientsOK
    <3> QED
      BY <1>i, <3>1, <3>2, <3>3, <3>4, <3>5, <3>6, <3>7 DEF ClientStep
  <2>2. CallsOK'
    BY <1>i, <1>g DEF ClientStep, Enter, ConversationFails, ReaderFails, ReaderFoundDead,
       Exits, Deliver, Respond, Ask, Answer
  <2>3. SessionOK' /\ disturbed' \in BOOLEAN
    BY <1>i, <1>a, <1>h DEF ClientStep, SessionOK, Enter, ConversationFails, ReaderFails, ReaderFoundDead,
       Exits, Deliver, Respond, Ask, Answer, sessionVars, States, Locked
  <2> QED
    BY <2>1, <2>2, <2>3, <1>b
<1>15. ASSUME NEW m \in Messages, Send(m) PROVE TypeOK'
  <2>1. inbox' \in [Clients -> Seq(Messages)]
    <3>1. CASE Accepts
      <4>1. reg \in Clients
        BY <1>15, <1>r DEF Send
      <4>2. inbox[reg] \in Seq(Messages)
        BY <4>1, <1>a DEF ClientsOK
      <4>3. Append(inbox[reg], m) \in Seq(Messages)
        BY <4>2
      <4>4. inbox' = [inbox EXCEPT ![reg] = Append(inbox[reg], m)]
        BY <1>15, <3>1 DEF Send
      <4> QED
        BY <4>1, <4>3, <4>4, <1>a DEF ClientsOK
    <3> QED
      BY <1>15, <3>1, <1>a DEF Send, ClientsOK
  <2>2. processing' \in BOOLEAN
    BY <1>15 DEF Send, Accepts
  <2> QED
    BY <1>15, <2>1, <2>2, <1>a, <1>b, <1>g DEF Send, SessionOK, ClientsOK
<1>16. CASE Interrupt
  BY <1>16, <1>a, <1>b, <1>g, <1>s DEF Interrupt, SessionOK
<1>17. CASE Reboot
  <2>1. SessionOK' /\ disturbed' \in BOOLEAN
    BY <1>17, <1>a DEF Reboot, SessionOK, States
  <2>2. ClientsOK'
    <3>1. <<>> \in Seq(Messages)
      OBVIOUS
    <3> QED
      BY <1>17, <3>1 DEF Reboot, All, ClientsOK
  <2>3. CallsOK'
    BY <1>17 DEF Reboot, All, CallsOK, Places, Resting, Results, Tied, Kinds
  <2> QED
    BY <2>1, <2>2, <2>3, <1>b
<1>18. CASE UNCHANGED lifeVars
  BY <1>18, <1>a, <1>b, <1>g, <1>s DEF lifeVars, sessionVars, SessionOK
<1> QED
  BY <1>1, <1>2, <1>4, <1>5, <1>6, <1>7, <1>8, <1>9, <1>10, <1>11, <1>12, <1>13,
     <1>14, <1>i, <1>15, <1>16, <1>17, <1>18 DEF Next, Continues
-----------------------------------------------------------------------------
(* The strengthening.                                                      *)

\* A client that has not been told to stop is alive and says so; the one the
\* session has is never one whose reader has died.
ClientsOwn ==
  /\ \A k \in Clients :
       /\ conv[k] = "entering" => info[k] = "starting" \/ shut[k]
       /\ conv[k] = "looping" => info[k] = "running" \/ shut[k]
       /\ conv[k] = "ended" => shut[k]
  /\ reg # NoClient => conv[reg] # "dying"

Runs == {"starting", "active", "paused"}
\* The client has failed, and the session has been told.
Lost == reg = NoClient /\ st = "error" /\ ~ processing
\* The session still has the client that the caller waits for.
Holds(c) == reg = on[c] /\ st \in Runs
\* The session and its client by the place of the caller.
Phase(c) ==
  \/ at[c] = "prepare" /\ reg = NoClient /\ st = "starting"
  \/ at[c] = "stop" /\ shut[on[c]] /\ info[on[c]] = "over" /\ ~ processing /\ (Holds(c) \/ Lost)
  \/ at[c] = "closing" /\ reg = NoClient /\ st = "terminating" /\ ~ processing
  \/ at[c] = "disconnect" /\ shut[on[c]] /\ (Holds(c) \/ Lost)
  \/ at[c] = "settle" /\ reg # NoClient /\ conv[reg] = "ended" /\ st = "terminated"
  \/ at[c] = "settle" /\ reg = NoClient /\ st \in Down /\ ~ processing
\* The session when nobody is busy.
Quiet ==
  \/ reg = NoClient /\ st \in Down \union {"terminating"} /\ ~ processing
  \/ reg # NoClient /\ ~ shut[reg] /\ st \in Runs /\ (st = "starting" <=> conv[reg] = "entering")
OneAtATime == \A c, d \in Busy : c = d
\* A client the session does not have has ended, or its reader has died.
LooseEnd == \A k \in Clients : k # reg => conv[k] \in {"dying", "ended"}
Undisturbed == OneAtATime /\ LooseEnd /\ (\A c \in Busy : Phase(c)) /\ (Busy = {} => Quiet)
SessionIInv == TypeOK /\ ClientsOwn /\ (~ disturbed => Undisturbed)

\* When the only busy caller moves, either it is still the only one or none is.
LEMMA Alone ==
  ASSUME at \in [Callers -> Places], NEW c \in Callers, Busy \subseteq {c},
         NEW p, at' = [at EXCEPT ![c] = p]
  PROVE  Busy' = IF p \in Resting THEN {} ELSE {c}
BY DEF Busy

\* It is enough to look at the caller that moves ...
LEMMA OneMoves ==
  ASSUME at \in [Callers -> Places], NEW c \in Callers, Busy \subseteq {c},
         NEW call, NEW p, NEW k, Waits(c, call, p, k), LooseEnd',
         p \in Resting => Quiet', p \notin Resting => Phase(c)'
  PROVE  Undisturbed'
BY Alone DEF Undisturbed, OneAtATime, Waits

\* ... and at the quiet session that is left when it returns.
LEMMA OneReturns ==
  ASSUME at \in [Callers -> Places], NEW c \in Callers, Busy \subseteq {c},
         NEW r \in Results, Returns(c, r), LooseEnd', Quiet'
  PROVE  Undisturbed'
<1>1. (IF c \in Tasks THEN r ELSE "idle") \in Resting
  BY DEF Resting
<1> QED
  BY <1>1, OneMoves DEF Returns

\* A step of a client keeps the phase of the caller that is busy.
LEMMA NoneMoves ==
  ASSUME Undisturbed, UNCHANGED callVars, LooseEnd',
         \A c \in Busy : Phase(c) => Phase(c)', Quiet => Quiet'
  PROVE  Undisturbed'
<1>1. Busy' = Busy
  BY DEF Busy, callVars
<1> QED
  BY <1>1 DEF Undisturbed, OneAtATime

\* Every step keeps what is true of the clients by themselves.
LEMMA ClientsOwnNext == TypeOK /\ ClientsOwn /\ [Next]_lifeVars => ClientsOwn'
<1> SUFFICES ASSUME TypeOK, ClientsOwn, [Next]_lifeVars PROVE ClientsOwn'
  OBVIOUS
<1> USE NoClientAssumption DEF TypeOK, ClientsOwn
<1>a. ASSUME UNCHANGED clientVars, reg' \in {NoClient, reg} PROVE ClientsOwn'
  BY <1>a DEF clientVars
<1>b. ASSUME reg # NoClient, LetsGo(reg), reg' = NoClient PROVE ClientsOwn'
  BY <1>b DEF LetsGo
<1>c. ASSUME NEW k \in Clients, Ends(k), \A j \in Clients : j # k => info'[j] = info[j], reg' \in {NoClient, reg}
      PROVE ClientsOwn'
  BY <1>c DEF Ends
<1>1. ASSUME NEW c \in Callers, Start(c) PROVE ClientsOwn'
  BY <1>1, <1>a DEF Start, TryStart
<1>2. ASSUME NEW c \in Callers, Terminate(c) PROVE ClientsOwn'
  BY <1>2, <1>a, ZenonT(60) DEF Terminate, clientVars
<1>3. ASSUME NEW c \in Callers, NEW call, Disconnect(c, call) PROVE ClientsOwn'
  BY <1>3 DEF Disconnect, sessionVars
<1>4. ASSUME NEW c \in Callers, Restart(c) PROVE ClientsOwn'
  BY <1>4, <1>3, <1>a DEF Restart, TryStart
<1>5. ASSUME NEW c \in Callers, Reset(c) PROVE ClientsOwn'
  BY <1>5, <1>3, <1>a DEF Reset, ClearAndStart, TryStart
<1>6. ASSUME NEW c \in Callers, RestartSettled(c) \/ ResetSettled(c) PROVE ClientsOwn'
  BY <1>6, <1>b DEF RestartSettled, ResetSettled, ClearAndStart, TryStart
<1>7. ASSUME NEW c \in Callers, NEW k \in Clients, Launch(c, k) PROVE ClientsOwn'
  BY <1>7 DEF Launch, Fresh
<1>8. ASSUME NEW c \in Callers, PrepareFails(c) PROVE ClientsOwn'
  BY <1>8, <1>a, ZenonT(60) DEF PrepareFails, clientVars
<1>9. ASSUME NEW c \in Callers,
             \/ StartupFails(c) \/ Undone(c) \/ StopDone(c) \/ CloseDone(c)
             \/ Disconnected(c) \/ SettleFails(c)
      PROVE ClientsOwn'
  BY <1>9, <1>a DEF StartupFails, Undone, StopDone, CloseDone, Disconnected, SettleFails, sessionVars
<1>10. ASSUME NEW k \in Clients, Enter(k) PROVE ClientsOwn'
  BY <1>10 DEF Enter
<1>11. ASSUME NEW k \in Clients, ConversationFails(k) \/ ReaderFoundDead(k) PROVE ClientsOwn'
  BY <1>11, <1>c DEF ConversationFails, ReaderFoundDead, ReportsFailure
<1>12. ASSUME NEW k \in Clients, ReaderFails(k) PROVE ClientsOwn'
  BY <1>12 DEF ReaderFails, ReportsFailure
<1>13. ASSUME NEW k \in Clients, Exits(k) PROVE ClientsOwn'
  BY <1>13, <1>c DEF Exits, sessionVars
<1>14. ASSUME NEW k \in Clients, Deliver(k) PROVE ClientsOwn'
  BY <1>14, <1>c DEF Deliver
<1>15. ASSUME NEW k \in Clients, Respond(k) \/ Ask(k) \/ Answer(k) PROVE ClientsOwn'
  BY <1>15 DEF Respond, Ask, Answer, clientVars
<1>16. ASSUME NEW m \in Messages, Send(m) PROVE ClientsOwn'
  BY <1>16 DEF Send
<1>17. CASE Interrupt
  BY <1>17, <1>a DEF Interrupt
<1>18. CASE Reboot
  BY <1>18 DEF Reboot, All
<1>19. CASE UNCHANGED lifeVars
  BY <1>19, <1>a DEF lifeVars, sessionVars
<1> QED
  BY <1>1, <1>2, <1>4, <1>5, <1>6, <1>7, <1>8, <1>9, <1>10, <1>11, <1>12, <1>13,
     <1>14, <1>15, <1>16, <1>17, <1>18, <1>19 DEF Next, Continues, ClientStep
\* What start_session does first, when nobody else is busy.
LEMMA TryStartUndisturbed ==
  ASSUME at \in [Callers -> Places], NEW c \in Callers, Busy \subseteq {c}, ~ disturbed', LooseEnd',
         NEW call, NEW s, NEW k, TryStart(c, call, s, k),
         s \in Startable => k = NoClient, s \notin Startable => Quiet'
  PROVE  Undisturbed'
<1>1. CASE s \notin Startable
  BY <1>1, OneReturns DEF TryStart, Results
<1>2. CASE s \in Startable
  <2>1. Waits(c, call, "prepare", NoClient) /\ reg' = NoClient /\ st' = "starting"
    BY <1>2 DEF TryStart
  <2>2. Phase(c)'
    BY <2>1 DEF Phase, Waits
  <2> QED
    BY <2>1, <2>2, OneMoves DEF Resting, Results
<1> QED
  BY <1>1, <1>2

\* A step that leaves the session undisturbed keeps it where it should be.
LEMMA UndisturbedNext == SessionIInv /\ [Next]_lifeVars /\ ~ disturbed' => Undisturbed'
<1> SUFFICES ASSUME SessionIInv, [Next]_lifeVars, ~ disturbed' PROVE Undisturbed'
  OBVIOUS
<1>a. TypeOK /\ ClientsOwn
  BY DEF SessionIInv
<1>b. at \in [Callers -> Places]
  BY <1>a DEF TypeOK
<1>u. ASSUME ~ disturbed PROVE Undisturbed /\ LooseEnd
  BY <1>u DEF SessionIInv, Undisturbed
<1>c. ASSUME ~ disturbed, NEW c \in Callers, at[c] \notin Resting
      PROVE  Busy \subseteq {c} /\ Phase(c)
  BY <1>u, <1>c DEF Busy, Undisturbed, OneAtATime
<1>d. ASSUME NEW cond, Disturbs(cond) PROVE ~ disturbed /\ ~ cond
  BY <1>d DEF Disturbs
<1>q. ASSUME ~ disturbed, NEW c, Busy \subseteq {c}, at[c] \in Resting PROVE Quiet
  BY <1>u, <1>q DEF Busy, Undisturbed
<1>5. ASSUME NEW c \in Callers, NEW k \in Clients, Launch(c, k) PROVE Undisturbed'
  <2>1. ~ disturbed /\ at[c] \notin Resting
    BY <1>5 DEF Launch, Resting, Results
  <2>2. Busy \subseteq {c} /\ reg = NoClient /\ st = "starting"
    BY <2>1, <1>5, <1>c DEF Launch, Phase
  <2>3. LooseEnd'
    BY <1>5, <2>1, <2>2, <1>a, <1>u, NoClientAssumption DEF Launch, Fresh, LooseEnd, TypeOK
  <2>4. Quiet'
    BY <1>5, <2>2, <1>a, NoClientAssumption DEF Launch, Quiet, TypeOK, Runs
  <2> QED
    BY <1>5, <1>b, <2>2, <2>3, <2>4, OneReturns DEF Launch, Results
<1>6. ASSUME NEW c \in Callers, StartupFails(c) PROVE Undisturbed'
  <2>1. ~ disturbed /\ at[c] \notin Resting
    BY <1>6 DEF StartupFails, Resting, Results
  <2>2. Busy \subseteq {c} /\ reg = NoClient
    BY <2>1, <1>6, <1>c DEF StartupFails, Phase
  <2>3. LooseEnd'
    BY <1>6, <2>1, <2>2, <1>u DEF StartupFails, LooseEnd, clientVars
  <2>4. Quiet'
    BY <1>6, <2>2 DEF StartupFails, Quiet, Down
  <2> QED
    BY <1>6, <1>b, <2>2, <2>3, <2>4, OneReturns DEF StartupFails, Results
<1>7. ASSUME NEW c \in Callers, PrepareFails(c) PROVE Undisturbed'
  <2>1. ~ disturbed /\ at[c] \notin Resting
    BY <1>7 DEF PrepareFails, Resting, Results
  <2>2. Busy \subseteq {c} /\ reg = NoClient
    BY <2>1, <1>7, <1>c DEF PrepareFails, Phase
  <2>3. LooseEnd'
    BY <1>7, <2>1, <2>2, <1>u DEF PrepareFails, LooseEnd
  <2>4. Quiet'
    BY <1>7, <2>2 DEF PrepareFails, Quiet, Down
  <2> QED
    BY <1>7, <1>b, <2>2, <2>3, <2>4, OneReturns DEF PrepareFails, Results
<1>8. ASSUME NEW c \in Callers, Undone(c) PROVE Undisturbed'
  BY <1>8, <1>c DEF Undone, Phase, Resting, Results
<1>9. ASSUME NEW c \in Callers, StopDone(c) PROVE Undisturbed'
  <2>1. ~ disturbed /\ at[c] \notin Resting
    BY <1>9 DEF StopDone, Resting, Results
  <2>2. Busy \subseteq {c} /\ ~ processing /\ (Holds(c) \/ Lost)
    BY <2>1, <1>9, <1>c DEF StopDone, Phase
  <2>3. LooseEnd'
    BY <1>9, <2>1, <2>2, <1>u DEF StopDone, LooseEnd, clientVars, Holds, Lost
  <2>4. CASE reg = NoClient
    <3>1. Quiet'
      BY <1>9, <2>2, <2>4, <1>a, NoClientAssumption DEF StopDone, Quiet, Down, Lost, Holds, TypeOK
    <3> QED
      BY <1>9, <1>b, <2>2, <2>3, <2>4, <3>1, OneReturns DEF StopDone, Results
  <2>5. CASE reg # NoClient
    <3>1. st # "terminated"
      BY <2>2, <2>5 DEF Holds, Lost, Runs
    <3>2. Waits(c, "terminate", "closing", NoClient) /\ st' = "terminating" /\ reg' = NoClient /\ ~ processing'
      BY <1>9, <2>2, <2>5, <3>1 DEF StopDone, Close
    <3>3. Phase(c)'
      BY <3>2, <1>b DEF Phase, Waits
    <3> QED
      BY <1>b, <2>2, <2>3, <3>2, <3>3, OneMoves DEF Resting, Results
  <2> QED
    BY <2>4, <2>5
<1>10. ASSUME NEW c \in Callers, CloseDone(c) PROVE Undisturbed'
  <2>1. ~ disturbed /\ at[c] \notin Resting
    BY <1>10 DEF CloseDone, Resting, Results
  <2>2. Busy \subseteq {c} /\ ~ processing /\ reg = NoClient
    BY <2>1, <1>10, <1>c DEF CloseDone, Phase
  <2>3. LooseEnd'
    BY <1>10, <2>1, <2>2, <1>u DEF CloseDone, LooseEnd, clientVars
  <2>4. Quiet'
    BY <1>10, <2>2 DEF CloseDone, Quiet, Down
  <2> QED
    BY <1>10, <1>b, <2>2, <2>3, <2>4, OneReturns DEF CloseDone, Results
<1>11. ASSUME NEW c \in Callers, Disconnected(c) PROVE Undisturbed'
  <2>1. ~ disturbed /\ at[c] \notin Resting
    BY <1>11 DEF Disconnected, Resting, Results
  <2>2. Busy \subseteq {c} /\ (Holds(c) \/ Lost)
    BY <2>1, <1>11, <1>c DEF Disconnected, Phase
  <2>3. LooseEnd'
    BY <1>11, <2>1, <2>2, <1>u DEF Disconnected, LooseEnd, clientVars
  <2>4. Phase(c)'
    BY <1>11, <1>a, <2>2 DEF Disconnected, Phase, Waits, Holds, Lost, Down, clientVars, TypeOK
  <2> QED
    BY <1>11, <1>b, <2>2, <2>3, <2>4, OneMoves DEF Disconnected, Resting, Results
<1>12. ASSUME NEW c \in Callers, SettleFails(c) PROVE Undisturbed'
  <2>1. ~ disturbed /\ at[c] \notin Resting
    BY <1>12 DEF SettleFails, Resting, Results
  <2>2. Busy \subseteq {c} /\ st \in Down /\ ~ processing
    BY <2>1, <1>12, <1>c DEF SettleFails, Phase
  <2>3. LooseEnd'
    BY <1>12, <2>1, <2>2, <1>u DEF SettleFails, LooseEnd, clientVars, sessionVars
  <2>4. Quiet'
    BY <1>12, <2>2 DEF SettleFails, Quiet, Down, sessionVars
  <2> QED
    BY <1>12, <1>b, <2>2, <2>3, <2>4, OneReturns DEF SettleFails, Results
<1>0. ASSUME NEW c \in Callers, Begins(c), ~ disturbed, Busy \ {c} = {}
      PROVE  Busy = {} /\ Quiet /\ LooseEnd /\ Busy \subseteq {c}
  BY <1>0, <1>u DEF Begins, Busy, Resting, Undisturbed
<1>1. ASSUME NEW c \in Callers, Start(c) PROVE Undisturbed'
  <2>1. /\ ~ disturbed /\ Busy \ {c} = {}
        /\ ~ (st \in Startable /\ reg # NoClient /\ info[reg] = "running")
    BY <1>1, <1>d DEF Start, TryStart
  <2>2. Quiet /\ LooseEnd /\ Busy \subseteq {c}
    BY <1>1, <2>1, <1>0 DEF Start
  <2>3. TryStart(c, "start", st, reg) /\ reg' = reg /\ UNCHANGED clientVars
    BY <1>1 DEF Start, TryStart
  <2>4. LooseEnd'
    BY <2>2, <2>3 DEF LooseEnd, clientVars
  <2>5. ASSUME st \in Startable PROVE reg = NoClient
    <3> SUFFICES ASSUME reg # NoClient PROVE FALSE
      OBVIOUS
    <3>1. ~ shut[reg] /\ st = "paused" /\ conv[reg] # "entering"
      BY <2>2, <2>5 DEF Quiet, Startable, Runs
    <3>2. conv[reg] = "looping" /\ info[reg] = "running"
      BY <3>1, <1>a DEF ClientsOwn, TypeOK
    <3> QED
      BY <2>1, <2>5, <3>2
  <2>6. ASSUME st \notin Startable PROVE Quiet'
    BY <2>2, <2>3, <2>6 DEF TryStart, Quiet, clientVars
  <2> QED
    BY <1>b, <2>2, <2>3, <2>4, <2>5, <2>6, TryStartUndisturbed
<1>2. ASSUME NEW c \in Callers, Terminate(c) PROVE Undisturbed'
  <2>1. ~ disturbed /\ Busy = {}
    BY <1>2, <1>d DEF Terminate
  <2>2. Quiet /\ LooseEnd /\ Busy \subseteq {c}
    BY <1>2, <2>1, <1>0 DEF Terminate
  <2>3. LooseEnd'
    BY <1>2, <2>2 DEF Terminate, LooseEnd
  <2>4. CASE reg = NoClient
    <3>1. Close(c) /\ reg' = NoClient /\ ~ processing'
      BY <1>2, <2>4 DEF Terminate
    <3>2. CASE st = "terminated"
      BY <1>b, <2>2, <2>3, <3>1, <3>2, OneReturns DEF Close, Quiet, Down, Results
    <3>3. CASE st # "terminated"
      <4>1. Phase(c)'
        BY <3>1, <3>3, <1>b DEF Close, Phase, Waits
      <4> QED
        BY <1>b, <2>2, <2>3, <3>1, <3>3, <4>1, OneMoves DEF Close, Resting, Results
    <3> QED
      BY <3>2, <3>3
  <2>5. CASE reg # NoClient
    <3>1. Waits(c, "terminate", "stop", reg)
      BY <1>2, <2>5 DEF Terminate
    <3>2. Phase(c)'
      BY <1>2, <2>2, <2>5, <3>1, <1>a, <1>b DEF Terminate, Phase, Waits, Holds, Quiet, TypeOK
    <3> QED
      BY <1>b, <2>2, <2>3, <3>1, <3>2, OneMoves DEF Resting, Results
  <2> QED
    BY <2>4, <2>5
<1>3. ASSUME NEW c \in Callers, NEW call, Begins(c), Disconnect(c, call) PROVE Undisturbed'
  <2>1. ~ disturbed /\ Busy = {}
    BY <1>3, <1>d DEF Disconnect
  <2>2. Quiet /\ LooseEnd /\ Busy \subseteq {c}
    BY <1>3, <2>1, <1>0
  <2>3. LooseEnd'
    BY <1>3, <2>2 DEF Disconnect, LooseEnd, sessionVars
  <2>4. Phase(c)'
    BY <1>3, <2>2, <1>a, <1>b DEF Disconnect, Phase, Waits, Holds, Quiet, TypeOK, sessionVars
  <2> QED
    BY <1>3, <1>b, <2>2, <2>3, <2>4, OneMoves DEF Disconnect, Resting, Results
<1>e. ASSUME NEW c \in Callers, NEW call, NEW s, TryStart(c, call, s, NoClient) PROVE ~ disturbed /\ Busy \ {c} = {} /\ reg' = NoClient
  BY <1>e, <1>d DEF TryStart
<1>4. ASSUME NEW c \in Callers, Restart(c) PROVE Undisturbed'
  <2>1. CASE reg = NoClient
    <3>1. TryStart(c, "restart", "terminated", NoClient) /\ UNCHANGED clientVars
      BY <1>4, <2>1 DEF Restart, Disconnect
    <3>2. LooseEnd /\ Busy \subseteq {c} /\ reg' = NoClient
      BY <1>4, <3>1, <1>0, <1>e DEF Restart
    <3>3. LooseEnd'
      BY <2>1, <3>1, <3>2 DEF LooseEnd, clientVars
    <3> QED
      BY <1>b, <3>1, <3>2, <3>3, TryStartUndisturbed DEF Startable
  <2> QED
    BY <1>4, <1>3, <2>1 DEF Restart
<1>27. ASSUME NEW c \in Callers, Reset(c) PROVE Undisturbed'
  <2>1. CASE reg = NoClient
    <3> DEFINE s == IF st = "error" THEN "terminated" ELSE st
    <3>1. TryStart(c, "reset", s, NoClient) /\ UNCHANGED clientVars
      BY <1>27, <2>1 DEF Reset, Disconnect, ClearAndStart
    <3>2. Quiet /\ LooseEnd /\ Busy \subseteq {c} /\ reg' = NoClient
      BY <1>27, <3>1, <1>0, <1>e DEF Reset
    <3>3. LooseEnd'
      BY <2>1, <3>1, <3>2 DEF LooseEnd, clientVars
    <3>4. ASSUME s \notin Startable PROVE Quiet'
      BY <2>1, <3>1, <3>2, <3>4 DEF TryStart, Quiet, Down, Startable
    <3> HIDE DEF s
    <3> QED
      BY <1>b, <3>1, <3>2, <3>3, <3>4, TryStartUndisturbed
  <2> QED
    BY <1>27, <1>3, <2>1 DEF Reset
<1>13. ASSUME NEW c \in Callers, RestartSettled(c) \/ ResetSettled(c) PROVE Undisturbed'
  <2>1. at[c] = "settle" /\ reg # NoClient /\ LetsGo(reg)
    BY <1>13 DEF RestartSettled, ResetSettled
  <2>2. PICK call : TryStart(c, call, st, NoClient) \/ TryStart(c, call, IF st = "error" THEN "terminated" ELSE st, NoClient)
    BY <1>13 DEF RestartSettled, ResetSettled, ClearAndStart
  <2>3. ~ disturbed /\ Busy \subseteq {c} /\ reg' = NoClient
    BY <2>2, <1>e
  <2>4. st = "terminated" /\ conv[reg] = "ended"
    BY <2>1, <2>3, <1>c DEF Phase, Resting, Results
  <2>5. TryStart(c, call, "terminated", NoClient)
    BY <2>2, <2>4
  <2>6. LooseEnd'
    BY <2>1, <2>3, <2>4, <1>u DEF LooseEnd, LetsGo
  <2> QED
    BY <1>b, <2>3, <2>5, <2>6, TryStartUndisturbed DEF Startable
<1>14. ASSUME NEW k \in Clients, Enter(k) PROVE Undisturbed'
  <2>1. Undisturbed /\ UNCHANGED callVars
    BY <1>14, <1>u DEF Enter
  <2>2. k = reg
    BY <1>14, <2>1 DEF Enter, Undisturbed, LooseEnd
  <2>3. LooseEnd'
    BY <1>14, <2>1, <2>2, <1>a DEF Enter, Undisturbed, LooseEnd, TypeOK
  <2>4. ASSUME NEW c \in Busy, Phase(c) PROVE Phase(c)'
    BY <1>14, <2>1, <2>2, <2>4, <1>a, NoClientAssumption DEF Enter, Phase, Holds, Lost, Runs, TypeOK, callVars
  <2>5. ASSUME Quiet PROVE Quiet'
    BY <1>14, <2>2, <2>5, <1>a, NoClientAssumption DEF Enter, Quiet, Runs, TypeOK
  <2> QED
    BY <2>1, <2>3, <2>4, <2>5, NoneMoves
<1>15. ASSUME NEW k \in Clients, ReportsFailure(k), UNCHANGED callVars,
             conv'[k] \in {"dying", "ended"}, \A j \in Clients : j # k => conv'[j] = conv[j],
             \A j \in Clients : j # k => info'[j] = info[j] /\ shut'[j] = shut[j],
             shut[k] => shut'[k], info'[k] = "over"
      PROVE Undisturbed'
  <2>1. ~ disturbed /\ reg \in {NoClient, k} /\ \A c \in Callers : at[c] # "prepare"
    BY <1>15, <1>d DEF ReportsFailure
  <2>2. Undisturbed /\ reg' = NoClient /\ st' = "error" /\ ~ processing'
    BY <1>15, <2>1, <1>u DEF ReportsFailure
  <2>3. LooseEnd'
    BY <1>15, <2>1, <2>2 DEF LooseEnd, Undisturbed
  <2>4. ASSUME NEW c \in Busy, Phase(c) PROVE Phase(c)'
    <3>1. at[c] # "closing" /\ at[c] # "prepare" /\ c \in Callers
      BY <1>15, <2>1 DEF ReportsFailure, Locked, Busy
    <3>2. Lost' /\ at' = at /\ on' = on
      BY <1>15, <2>2 DEF Lost, callVars
    <3>3. CASE at[c] \in {"stop", "disconnect"}
      <4>1. on[c] \in Clients
        BY <3>1, <3>3, <1>a DEF TypeOK
      <4>2. shut'[on[c]] /\ (at[c] = "stop" => info'[on[c]] = "over")
        BY <1>15, <2>4, <3>3, <4>1 DEF Phase
      <4> QED
        BY <2>2, <3>2, <3>3, <4>2 DEF Phase
    <3>4. CASE at[c] = "settle"
      BY <2>2, <3>2, <3>4 DEF Phase, Down
    <3> QED
      BY <2>4, <3>1, <3>3, <3>4 DEF Phase
  <2>5. Quiet'
    BY <2>2 DEF Quiet, Down
  <2> QED
    BY <1>15, <2>2, <2>3, <2>4, <2>5, NoneMoves
<1>16. ASSUME NEW k \in Clients, ConversationFails(k) \/ ReaderFails(k) \/ ReaderFoundDead(k) PROVE Undisturbed'
  <2>1. CASE ConversationFails(k) \/ ReaderFoundDead(k)
    BY <2>1, <1>15, <1>a DEF ConversationFails, ReaderFoundDead, Ends, TypeOK
  <2>2. CASE ReaderFails(k)
    BY <2>2, <1>15, <1>a DEF ReaderFails, TypeOK
  <2> QED
    BY <1>16, <2>1, <2>2
<1>17. ASSUME NEW k \in Clients, Ends(k), shut[k], conv[k] # "ended", UNCHANGED <<sessionVars, info, callVars, disturbed>>
       PROVE  Undisturbed'
  <2>1. Undisturbed
    BY <1>17, <1>u
  <2>2. LooseEnd'
    BY <1>17, <2>1 DEF Ends, sessionVars, Undisturbed, LooseEnd
  <2>3. ASSUME NEW c \in Busy, Phase(c) PROVE Phase(c)'
    BY <1>17, <2>3, <1>a DEF Ends, sessionVars, callVars, Phase, Holds, Lost, TypeOK
  <2>4. ASSUME Quiet PROVE Quiet'
    BY <1>17, <2>4, <1>a DEF Ends, sessionVars, Quiet, TypeOK
  <2> QED
    BY <1>17, <2>1, <2>2, <2>3, <2>4, NoneMoves
<1>18. ASSUME NEW k \in Clients, Exits(k) PROVE Undisturbed'
  BY <1>18, <1>17 DEF Exits
<1>19. ASSUME NEW k \in Clients, Deliver(k) PROVE Undisturbed'
  <2>1. Undisturbed /\ k = reg /\ UNCHANGED <<st, reg, info, callVars>>
    BY <1>19, <1>u DEF Deliver, LooseEnd
  <2>2. \A j \in Clients : j # k => conv'[j] = conv[j] /\ shut'[j] = shut[j]
    BY <1>19, <1>a DEF Deliver, Ends, TypeOK
  <2>3. /\ shut[k] => shut'[k] /\ conv'[k] = "ended"
        /\ ~ shut[k] => shut' = shut /\ conv' = conv
    BY <1>19, <1>a DEF Deliver, Ends, TypeOK
  <2>4. ~ processing => ~ processing'
    BY <1>19 DEF Deliver
  <2>5. LooseEnd'
    BY <2>1, <2>2 DEF Undisturbed, LooseEnd
  <2>6. ASSUME NEW c \in Busy, Phase(c) PROVE Phase(c)'
    <3>1. at' = at /\ on' = on /\ c \in Callers
      BY <2>1 DEF callVars, Busy
    <3>2. CASE at[c] \in {"stop", "disconnect"}
      <4>1. on[c] \in Clients
        BY <3>1, <3>2, <1>a DEF TypeOK
      <4>2. shut[on[c]] /\ shut'[on[c]]
        BY <2>2, <2>3, <2>6, <3>2, <4>1 DEF Phase
      <4> QED
        BY <2>1, <2>4, <2>6, <3>1, <3>2, <4>2 DEF Phase, Holds, Lost
    <3>3. CASE at[c] \notin {"stop", "disconnect"}
      BY <1>19, <2>1, <2>4, <2>6, <3>1, <3>3 DEF Phase, Deliver
    <3> QED
      BY <3>2, <3>3
  <2>7. ASSUME Quiet PROVE Quiet'
    BY <2>1, <2>3, <2>4, <2>7, NoClientAssumption DEF Quiet
  <2> QED
    BY <2>1, <2>5, <2>6, <2>7, NoneMoves
<1>20. ASSUME NEW k \in Clients, Respond(k) PROVE Undisturbed'
  <2>1. Undisturbed /\ k = reg /\ ~ shut[k] /\ UNCHANGED <<st, reg, clientVars, callVars>>
    BY <1>20, <1>u DEF Respond, LooseEnd
  <2>2. LooseEnd'
    BY <2>1 DEF Undisturbed, LooseEnd, clientVars
  <2>3. ASSUME NEW c \in Busy, Phase(c) PROVE Phase(c)'
    BY <1>20, <2>1, <2>3, NoClientAssumption DEF Respond, clientVars, callVars, Phase, Holds, Lost
  <2>4. ASSUME Quiet PROVE Quiet'
    BY <2>1, <2>4, NoClientAssumption DEF Quiet, clientVars
  <2> QED
    BY <2>1, <2>2, <2>3, <2>4, NoneMoves
<1>21. ASSUME NEW k \in Clients, Ask(k) \/ Answer(k) PROVE Undisturbed'
  <2>1. /\ Undisturbed /\ UNCHANGED <<processing, reg, info, conv, shut, callVars>>
        /\ \/ st' = st
           \/ st \in {"active", "paused"} /\ st' \in {"active", "paused"}
    BY <1>21, <1>u DEF Ask, Answer
  <2>2. LooseEnd'
    BY <2>1 DEF Undisturbed, LooseEnd
  <2>3. ASSUME NEW c \in Busy, Phase(c) PROVE Phase(c)'
    BY <2>1, <2>3 DEF callVars, Phase, Holds, Lost, Runs, Down
  <2>4. ASSUME Quiet PROVE Quiet'
    BY <2>1, <2>4 DEF Quiet, Runs, Down
  <2> QED
    BY <2>1, <2>2, <2>3, <2>4, NoneMoves
<1>22. ASSUME UNCHANGED <<st, reg, info, conv, shut, callVars, disturbed>>,
              processing' => processing \/ (reg # NoClient /\ info[reg] = "running")
       PROVE Undisturbed'
  <2>1. Undisturbed
    BY <1>22, <1>u
  <2>2. LooseEnd'
    BY <1>22, <2>1 DEF Undisturbed, LooseEnd
  <2>3. ASSUME NEW c \in Busy, Phase(c) PROVE Phase(c)'
    BY <1>22, <2>3 DEF callVars, Phase, Holds, Lost
  <2>4. ASSUME Quiet PROVE Quiet'
    BY <1>22, <2>4 DEF Quiet
  <2> QED
    BY <1>22, <2>1, <2>2, <2>3, <2>4, NoneMoves
<1>23. ASSUME NEW m \in Messages, Send(m) PROVE Undisturbed'
  BY <1>23, <1>22 DEF Send, Accepts
<1>24. CASE Interrupt
  BY <1>24, <1>22 DEF Interrupt, clientVars
<1>25. CASE Reboot
  <2>1. Busy' = {}
    BY <1>25 DEF Reboot, Busy, All, Resting
  <2>2. Quiet'
    BY <1>25, <1>a DEF Reboot, Quiet, TypeOK, States, Down
  <2>3. LooseEnd'
    BY <1>25 DEF Reboot, All, LooseEnd
  <2> QED
    BY <2>1, <2>2, <2>3 DEF Undisturbed, OneAtATime
<1>26. CASE UNCHANGED lifeVars
  BY <1>26, <1>22 DEF lifeVars, sessionVars, clientVars
<1> QED
  BY <1>1, <1>2, <1>4, <1>5, <1>27, <1>6, <1>7, <1>8, <1>9, <1>10, <1>11, <1>12, <1>13,
     <1>14, <1>16, <1>18, <1>19, <1>20, <1>21, <1>23, <1>24, <1>25, <1>26
  DEF Next, Continues, ClientStep

\* The strengthening holds at the start.
LEMMA SessionInit == Init => SessionIInv
<1> SUFFICES ASSUME Init PROVE SessionIInv
  OBVIOUS
<1>1. TypeOK
  BY TypeInit
<1>2. Busy = {}
  BY DEF Init, Busy, All, Resting
<1> QED
  BY <1>1, <1>2 DEF Init, SessionIInv, ClientsOwn, Undisturbed, OneAtATime, LooseEnd, Quiet, All, Down

\* The strengthening is an invariant.
LEMMA Inductive == Spec => []SessionIInv
<1>1. SessionIInv /\ [Next]_lifeVars => SessionIInv'
  BY TypeNext, ClientsOwnNext, UndisturbedNext DEF SessionIInv
<1> QED
  BY <1>1, SessionInit, PTL DEF Spec

\* The variables of a session and of its clients keep their shape.
THEOREM TypeCorrect == Spec => []TypeOK
<1>1. SessionIInv => TypeOK
  BY DEF SessionIInv
<1> QED
  BY <1>1, Inductive, PTL

\* No client that runs is out of the session's reach: start, restart, reset,
\* terminate and the error callback, however they follow each other.
THEOREM NothingLeaks == Spec => []NoClientLeaks
<1>1. SessionIInv => NoClientLeaks
  BY DEF SessionIInv, Undisturbed, LooseEnd, NoClientLeaks, Live
<1> QED
  BY <1>1, Inductive, PTL

\* A session that shows as active or paused has a client that runs, or one that
\* has been told to stop.
THEOREM ActiveAnswers == Spec => []ActiveHasClient
<1>1. SessionIInv => ActiveHasClient
  <2> SUFFICES ASSUME SessionIInv, ~ disturbed, st \in {"active", "paused"}
               PROVE  reg # NoClient /\ (shut[reg] \/ (Live(reg) /\ info[reg] = "running"))
    BY DEF ActiveHasClient
  <2>1. TypeOK /\ ClientsOwn /\ Undisturbed
    BY DEF SessionIInv
  <2>2. CASE Busy = {}
    <3>1. reg # NoClient /\ ~ shut[reg] /\ conv[reg] # "entering"
      BY <2>1, <2>2 DEF Undisturbed, Quiet, Down
    <3> QED
      BY <2>1, <3>1 DEF TypeOK, ClientsOwn, Live
  <2>3. ASSUME NEW c \in Busy PROVE reg # NoClient /\ shut[reg]
    BY <2>1, <2>3 DEF Undisturbed, Phase, Holds, Lost, Down, Busy, TypeOK
  <2> QED
    BY <2>2, <2>3
<1> QED
  BY <1>1, Inductive, PTL

\* With no operation under way, a stopped session has no client and processes
\* nothing, and a starting one has a client that starts.
THEOREM RestIsRest == Spec => []AtRest
<1>1. SessionIInv => AtRest
  BY DEF SessionIInv, Undisturbed, Quiet, AtRest, Down, Runs
<1> QED
  BY <1>1, Inductive, PTL

-----------------------------------------------------------------------------
(* The queue and the session.                                              *)

\* The file has no line that cannot be read, and no item waits in it that does
\* not wait in memory.
FileFollows == torn = "no" /\ Q!Pending(file) \subseteq Q!Pending(mem)

\* What a client has accepted waits no more.
TakenIsGone ==
  \A i \in Items : taken[i] > 0 => i <= created /\ i \notin Q!Pending(mem)

\* While no two tasks run, what one is about to send has not been sent.
Sending == Handling \ {"idle"}
OneTask ==
  ~ crowded =>
    /\ \A t, u \in Running : t = u
    /\ \A t \in Tasks : pc[t] \in Sending => taken[item[t]] = 0

\* The task in the slot is not one that is cancelled; as long as a message
\* waits for it, a task runs that is not.
SlotOK == slot \notin cancelling
Attended ==
  (Q!Pending(mem) # {} /\ ~ queuePaused /\ ~ halted) => Running \ cancelling # {}

\* The module whose theorems are used; its operators are those of Q.
QP == INSTANCE MessageQueueProofs

\* What is said of the tasks, and all of it.
TasksOK == DeliveryTypeOK /\ TakenIsGone /\ OneTask /\ AtMostOnce /\ SlotOK /\ Attended
IInv == QP!IInv /\ FileFollows /\ TasksOK

-----------------------------------------------------------------------------
(* What a step does to the messages.                                       *)

\* The operations of the queue that the processor and the coordinator use:
\* their writes do not fail.
QueueStep ==
  \/ Q!Enqueue(TRUE) \/ Q!ClearHistory(TRUE) \/ Q!ClearPending
  \/ Q!Truncate \/ Q!Restart
  \/ \E i \in Items : \/ Q!Requeue(i, 2) \/ Q!Cancel(i, TRUE)
                      \/ Q!MarkSent(i, TRUE) \/ Q!MarkFailed(i, TRUE)
  \/ UNCHANGED messageVars

\* Every step of the system is one of them for the queue (queue_processor.py
\* and session_coordinator.py change it through QueueManager alone).
LEMMA StepOfQueue ==
  ASSUME Q!TypeOK, [DeliveryNext]_deliveryVars
  PROVE  QueueStep
<1>0. DOMAIN mem \subseteq Items /\ \A i \in Items : i \in 1 .. MaxItems
  BY QueueAssumption DEF Q!TypeOK, Items
<1>f. ASSUME NEW t, Fails(t) PROVE QueueStep
  BY <1>f, <1>0 DEF Fails, QueueStep
<1>1. ASSUME NEW t \in Tasks, LoopStep(t) PROVE QueueStep
  <2>1. CASE Called(t)
    BY <2>1, <1>f DEF Called, Results, QueueStep
  <2>2. CASE BecameActive(t)
    BY <2>2 DEF BecameActive, ResetSession, QueueStep
  <2>3. CASE NotActive(t)
    BY <2>3, <1>f DEF NotActive, QueueStep
  <2>4. CASE SendRefused(t) \/ ErrorWhileBusy(t)
    BY <2>4, <1>f DEF SendRefused, ErrorWhileBusy
  <2>5. CASE SendAccepted(t)
    BY <2>5, <1>0 DEF SendAccepted, QueueStep
  <2>6. CASE \/ PeekNothing(t) \/ PeekPaused(t) \/ PeekError(t) \/ PeekNext(t)
             \/ WaitedPaused(t) \/ BecameIdle(t) \/ CancelledNew(t)
             \/ Cancelled(t) \/ CancelLost(t)
    BY <2>6 DEF PeekNothing, PeekPaused, PeekError, PeekNext, WaitedPaused, BecameIdle,
                CancelledNew, Cancelled, CancelLost, QueueStep
  <2> QED
    BY <1>1, <2>1, <2>2, <2>3, <2>4, <2>5, <2>6 DEF LoopStep
<1>2. ASSUME NEW c, CallGoesOn(c) PROVE QueueStep
  BY <1>2 DEF CallGoesOn, QueueStep
<1>3. ASSUME NEW k, ClientGoesOn(k) PROVE QueueStep
  BY <1>3 DEF ClientGoesOn, AsBefore, QueueStep
<1>4. ASSUME NEW u, UserStart(u) \/ UserRestart(u) \/ UserTerminate(u) \/ UserReset(u)
      PROVE  QueueStep
  BY <1>4 DEF UserStart, UserRestart, UserTerminate, UserReset, ResetSession, AsBefore, QueueStep
<1>5. ASSUME NEW i \in Items, RequeueItem(i) \/ CancelQueueItem(i) PROVE QueueStep
  BY <1>5 DEF RequeueItem, CancelQueueItem, QueueStep
<1>6. CASE \/ EnqueueMessage \/ ClearQueue \/ PauseQueue \/ ResumeQueue
           \/ ScriptStarts \/ ScriptEnds \/ ServerReboot
  BY <1>6 DEF EnqueueMessage, ClearQueue, PauseQueue, ResumeQueue, ScriptStarts, ScriptEnds,
              ServerReboot, QueueStep
<1>7. CASE UNCHANGED deliveryVars
  BY <1>7 DEF deliveryVars, QueueStep
<1> QED
  BY <1>1, <1>2, <1>3, <1>4, <1>5, <1>6, <1>7 DEF DeliveryNext, UserQueues

\* Such a step is one of MessageQueue.
LEMMA QueueStepIsNext == QueueStep => [Q!Next]_Q!queueVars
<1>1. ASSUME NEW i \in Items,
             Q!Requeue(i, 2) \/ Q!Cancel(i, TRUE) \/ Q!MarkSent(i, TRUE) \/ Q!MarkFailed(i, TRUE)
      PROVE  Q!Next
  <2>1. i \in 1 .. MaxItems /\ 2 \in 0 .. 2 /\ TRUE \in BOOLEAN
    BY DEF Items
  <2> QED
    BY <1>1, <2>1 DEF Q!Next
<1>2. CASE \/ Q!Enqueue(TRUE) \/ Q!ClearHistory(TRUE) \/ Q!ClearPending
           \/ Q!Truncate \/ Q!Restart
  BY <1>2 DEF Q!Next
<1>3. CASE UNCHANGED messageVars
  BY <1>3 DEF messageVars, Q!queueVars, Q!diskVars
<1> QED
  BY <1>1, <1>2, <1>3 DEF QueueStep

\* The lists and the helpers of the two instances are the same.
LEMMA SameLists ==
  /\ Q!Terminal = QP!Terminal /\ Q!Status = QP!Status /\ Q!Positions = QP!Positions
  /\ Q!EmptyList = QP!EmptyList /\ Q!Item = QP!Item
  /\ \A q : Q!Pending(q) = QP!Pending(q) /\ Q!Ended(q) = QP!Ended(q)
  /\ \A q : Q!IsList(q) <=> QP!IsList(q)
  /\ \A q, S : Q!Keep(q, S) = QP!Keep(q, S)
  /\ \A q, p : Q!IsBack(q, p) <=> QP!IsBack(q, p)
  /\ \A q, p : Q!IsFront(q, p) <=> QP!IsFront(q, p)
  /\ \A q, S, s : Q!WithStatus(q, S, s) = QP!WithStatus(q, S, s)
  /\ \A q, i, p : Q!WithItem(q, i, p) = QP!WithItem(q, i, p)
  /\ \A d : Q!Readable(d) = QP!Readable(d)
  /\ \A q, n : Q!Load(q, n) = QP!Load(q, n)
<1>1. Q!Terminal = QP!Terminal /\ Q!Status = QP!Status /\ Q!Positions = QP!Positions
  BY DEF Q!Terminal, QP!Terminal, Q!Status, QP!Status, Q!Positions, QP!Positions
<1>2. Q!Item = QP!Item /\ Q!EmptyList = QP!EmptyList
  BY <1>1 DEF Q!Item, QP!Item, Q!EmptyList, QP!EmptyList
<1>3. /\ \A q : Q!Pending(q) = QP!Pending(q) /\ Q!Ended(q) = QP!Ended(q)
      /\ \A q : Q!IsList(q) <=> QP!IsList(q)
      /\ \A q, S : Q!Keep(q, S) = QP!Keep(q, S)
  BY <1>1, <1>2 DEF Q!Pending, QP!Pending, Q!Ended, QP!Ended, Q!IsList, QP!IsList, Q!Keep, QP!Keep
<1>4. /\ \A q, p : Q!IsBack(q, p) <=> QP!IsBack(q, p)
      /\ \A q, p : Q!IsFront(q, p) <=> QP!IsFront(q, p)
  BY <1>3 DEF Q!IsBack, QP!IsBack, Q!IsFront, QP!IsFront
<1>5. /\ \A q, S, s : Q!WithStatus(q, S, s) = QP!WithStatus(q, S, s)
      /\ \A q, i, p : Q!WithItem(q, i, p) = QP!WithItem(q, i, p)
      /\ \A d : Q!Readable(d) = QP!Readable(d)
      /\ \A q, n : Q!Load(q, n) = QP!Load(q, n)
  BY <1>1, <1>3 DEF Q!WithStatus, QP!WithStatus, Q!WithItem, QP!WithItem, Q!Readable, QP!Readable,
                    Q!Load, QP!Load
<1> QED
  BY <1>1, <1>2, <1>3, <1>4, <1>5

\* So is the size of a set,
LEMMA SameCardinality == \A S : Q!Cardinality(S) = QP!Cardinality(S)
BY DEF Q!Cardinality, QP!Cardinality

\* So are the writes to the file,
LEMMA SameWrites ==
  /\ Q!Tears = QP!Tears
  /\ \A S, items, newest, ends : Q!Append(S, items, newest, ends) <=> QP!Append(S, items, newest, ends)
  /\ \A S : Q!AppendFails(S) <=> QP!AppendFails(S)
  /\ \A S, items, newest, ok : Q!Write(S, items, newest, ok) <=> QP!Write(S, items, newest, ok)
  /\ \A done, rest, ends : Q!CancelEach(done, rest, ends) <=> QP!CancelEach(done, rest, ends)
<1>1. Q!MayFail <=> QP!MayFail
  BY SameCardinality DEF Q!MayFail, QP!MayFail
<1>2. Q!Tears = QP!Tears /\ Q!Earlier = QP!Earlier
  BY DEF Q!Tears, QP!Tears, Q!Earlier, QP!Earlier
<1>3. \A items, newest : Q!Unread(items, newest) = QP!Unread(items, newest)
  BY DEF Q!Unread, QP!Unread
<1>4. \A S : Q!AppendUnread(S) <=> QP!AppendUnread(S)
  BY <1>2, <1>3 DEF Q!AppendUnread, QP!AppendUnread
<1>5. \A S, items, newest, ends : Q!Append(S, items, newest, ends) <=> QP!Append(S, items, newest, ends)
  BY <1>4 DEF Q!Append, QP!Append
<1>6. \A S : Q!AppendFails(S) <=> QP!AppendFails(S)
  BY <1>1, <1>2, <1>4 DEF Q!AppendFails, QP!AppendFails
<1>7. \A S, items, newest, ok : Q!Write(S, items, newest, ok) <=> QP!Write(S, items, newest, ok)
  BY <1>5, <1>6 DEF Q!Write, QP!Write
<1>8. \A done, rest, ends : Q!CancelEach(done, rest, ends) <=> QP!CancelEach(done, rest, ends)
  BY <1>4, SameLists DEF Q!CancelEach, QP!CancelEach
<1> QED
  BY <1>2, <1>5, <1>6, <1>7, <1>8

\* the operations,
LEMMA SameActions ==
  /\ \A ok : Q!Enqueue(ok) <=> QP!Enqueue(ok)
  /\ \A ok : Q!ClearHistory(ok) <=> QP!ClearHistory(ok)
  /\ \A i, s, ok : Q!SetStatus(i, s, ok) <=> QP!SetStatus(i, s, ok)
  /\ \A i, w : Q!Requeue(i, w) <=> QP!Requeue(i, w)
  /\ Q!ClearPending <=> QP!ClearPending
  /\ Q!ClearPendingFails <=> QP!ClearPendingFails
  /\ Q!Truncate <=> QP!Truncate
  /\ Q!Restart <=> QP!Restart
<1>1. \A ok : Q!Enqueue(ok) <=> QP!Enqueue(ok)
  BY SameLists, SameWrites, SameCardinality DEF Q!Enqueue, QP!Enqueue
<1>2. \A ok : Q!ClearHistory(ok) <=> QP!ClearHistory(ok)
  BY SameLists, SameWrites DEF Q!ClearHistory, QP!ClearHistory
<1>3. \A i, s, ok : Q!SetStatus(i, s, ok) <=> QP!SetStatus(i, s, ok)
  BY SameLists, SameWrites DEF Q!SetStatus, QP!SetStatus
<1>4. \A i, w : Q!Requeue(i, w) <=> QP!Requeue(i, w)
  BY SameLists, SameWrites, SameCardinality DEF Q!Requeue, QP!Requeue, Q!MayFail, QP!MayFail
<1>5. Q!ClearPending <=> QP!ClearPending
  BY SameLists, SameWrites DEF Q!ClearPending, QP!ClearPending
<1>6. Q!ClearPendingFails <=> QP!ClearPendingFails
  BY SameLists, SameWrites, SameCardinality DEF Q!ClearPendingFails, QP!ClearPendingFails, Q!MayFail, QP!MayFail
<1>7. Q!Truncate <=> QP!Truncate
  BY SameLists DEF Q!Truncate, QP!Truncate
<1>8. Q!Restart <=> QP!Restart
  BY SameLists DEF Q!Restart, QP!Restart
<1> QED
  BY <1>1, <1>2, <1>3, <1>4, <1>5, <1>6, <1>7, <1>8

\* the type invariant after a step,
LEMMA SameTypeNext == Q!TypeOK' <=> QP!TypeOK'
<1>1. Q!TypeOK <=> QP!TypeOK
  BY SameLists, SameWrites DEF Q!TypeOK, QP!TypeOK
<1> QED
  BY <1>1, PTL

\* and the initial states, the steps and the type invariant.
LEMMA SameSpec ==
  /\ Q!Init <=> QP!Init
  /\ [Q!Next]_Q!queueVars => [QP!Next]_QP!queueVars
  /\ Q!TypeOK <=> QP!TypeOK
<1>1. UNCHANGED Q!queueVars <=> UNCHANGED QP!queueVars
  BY DEF Q!queueVars, QP!queueVars, Q!diskVars, QP!diskVars
<1>2. Q!Init <=> QP!Init
  BY SameLists DEF Q!Init, QP!Init
<1>3. ASSUME Q!Next PROVE QP!Next
  <2>1. \A i, ok : /\ Q!Cancel(i, ok) <=> QP!Cancel(i, ok)
                   /\ Q!MarkSent(i, ok) <=> QP!MarkSent(i, ok)
                   /\ Q!MarkFailed(i, ok) <=> QP!MarkFailed(i, ok)
    BY SameLists, SameActions
    DEF Q!Cancel, QP!Cancel, Q!MarkSent, QP!MarkSent, Q!MarkFailed, QP!MarkFailed
  <2> QED
    BY <1>3, <2>1, SameActions DEF Q!Next, QP!Next
<1>4. Q!TypeOK <=> QP!TypeOK
  BY SameLists, SameWrites DEF Q!TypeOK, QP!TypeOK
<1> QED
  BY <1>1, <1>2, <1>3, <1>4

-----------------------------------------------------------------------------
(* What waits.                                                             *)

\* Every item that waits after the step waited before it or is new.
NoneReturns == /\ created \in Nat /\ created' \in Nat /\ created <= created'
               /\ \A i \in Q!Pending(mem') : i \in Q!Pending(mem) \/ i > created

\* Setting a status, in memory and file alike.
LEMMA StatusFollows ==
  ASSUME NEW S, NEW s \in Q!Terminal, FileFollows,
         mem' = Q!WithStatus(mem, S, s), file' = Q!WithStatus(file, S, s), torn' = "no",
         created' = created, created \in Nat
  PROVE  FileFollows' /\ NoneReturns /\ Q!Pending(mem') = Q!Pending(mem) \ S
<1>1. /\ DOMAIN mem' = DOMAIN mem /\ DOMAIN file' = DOMAIN file
      /\ \A i \in DOMAIN mem : i \notin S => mem'[i] = mem[i]
      /\ \A i \in DOMAIN file : i \notin S => file'[i] = file[i]
  BY DEF Q!WithStatus
<1>2. s # "pending"
  BY DEF Q!Terminal
<1>3. ASSUME NEW i \in S PROVE i \notin Q!Pending(mem') /\ i \notin Q!Pending(file')
  BY <1>2, <1>3 DEF Q!WithStatus, Q!Pending
<1>4. Q!Pending(mem') = Q!Pending(mem) \ S
  BY <1>1, <1>3 DEF Q!Pending
<1>5. Q!Pending(file') = Q!Pending(file) \ S
  BY <1>1, <1>3 DEF Q!Pending
<1> QED
  BY <1>4, <1>5 DEF FileFollows, NoneReturns

\* No operation brings back what left, and the file follows.
LEMMA QueueFollows ==
  ASSUME Q!TypeOK, FileFollows, QueueStep
  PROVE  FileFollows' /\ NoneReturns
<1>0. created \in Nat /\ DOMAIN mem \subseteq 1 .. created /\ DOMAIN file \subseteq 1 .. created
  BY QueueAssumption DEF Q!TypeOK
<1>1. CASE Q!Enqueue(TRUE)
  <2> DEFINE new == created + 1
  <2>1. PICK p : mem' = Q!WithItem(mem, new, p) /\ file' = Q!WithItem(file, new, p)
    BY <1>1 DEF Q!Enqueue, Q!Write, Q!Append, FileFollows
  <2>2. Q!Pending(mem') = Q!Pending(mem) \union {new} /\ Q!Pending(file') = Q!Pending(file) \union {new}
    BY <1>0, <2>1 DEF Q!WithItem, Q!Pending
  <2>3. created' = new /\ torn' = "no"
    BY <1>1 DEF Q!Enqueue, Q!Write, Q!Append, FileFollows
  <2> QED
    BY <1>0, <2>2, <2>3 DEF FileFollows, NoneReturns
<1>2. ASSUME NEW i, Q!Requeue(i, 2) PROVE FileFollows' /\ NoneReturns
  <2> DEFINE new == created + 1
  <2>1. PICK p, f : mem' = Q!WithItem(mem, new, f) /\ file' = Q!WithItem(file, new, p)
    BY <1>2 DEF Q!Requeue, Q!Append, FileFollows
  <2>2. Q!Pending(mem') = Q!Pending(mem) \union {new} /\ Q!Pending(file') = Q!Pending(file) \union {new}
    BY <1>0, <2>1 DEF Q!WithItem, Q!Pending
  <2>3. created' = new /\ torn' = "no"
    BY <1>2 DEF Q!Requeue, Q!Append, FileFollows
  <2> QED
    BY <1>0, <2>2, <2>3 DEF FileFollows, NoneReturns
<1>3. ASSUME NEW i, Q!Cancel(i, TRUE) \/ Q!MarkSent(i, TRUE) \/ Q!MarkFailed(i, TRUE)
      PROVE  FileFollows' /\ NoneReturns
  <2>1. PICK s \in Q!Terminal : Q!SetStatus(i, s, TRUE)
    BY <1>3 DEF Q!Cancel, Q!MarkSent, Q!MarkFailed, Q!Terminal
  <2>2. /\ mem' = Q!WithStatus(mem, {i}, s) /\ file' = Q!WithStatus(file, {i}, s)
        /\ torn' = "no" /\ created' = created
    BY <2>1 DEF Q!SetStatus, Q!Write, Q!Append, FileFollows
  <2> QED
    BY <1>0, <2>2, StatusFollows
<1>4. CASE Q!ClearPending
  <2> DEFINE S == Q!Pending(mem)
  <2>1. /\ mem' = Q!WithStatus(mem, S, "cancelled") /\ file' = Q!WithStatus(file, S, "cancelled")
        /\ torn' = "no" /\ created' = created
    BY <1>4 DEF Q!ClearPending, Q!CancelEach, Q!Readable, FileFollows
  <2>2. "cancelled" \in Q!Terminal
    BY DEF Q!Terminal
  <2> HIDE DEF S
  <2> QED
    BY <1>0, <2>1, <2>2, StatusFollows
<1>5. CASE Q!ClearHistory(TRUE)
  <2>1. /\ mem' = Q!Keep(mem, DOMAIN mem \ Q!Ended(mem)) /\ file' = file
        /\ torn' = "no" /\ created' = created
    BY <1>5 DEF Q!ClearHistory, Q!Append, FileFollows
  <2>2. Q!Pending(mem') = Q!Pending(mem)
    BY <2>1 DEF Q!Keep, Q!Ended, Q!Pending, Q!Terminal
  <2> QED
    BY <1>0, <2>1, <2>2 DEF FileFollows, NoneReturns
<1>6. CASE Q!Truncate
  <2>1. file' = Q!EmptyList /\ mem' = mem /\ torn' = "no" /\ created' = created
    BY <1>6 DEF Q!Truncate
  <2>2. Q!Pending(file') = {}
    BY <2>1 DEF Q!EmptyList, Q!Pending
  <2> QED
    BY <1>0, <2>1, <2>2 DEF FileFollows, NoneReturns
<1>7. CASE Q!Restart
  <2>1. CASE UNCHANGED <<file, torn>>
    <3>1. mem' = Q!Load(file, cleared) /\ created' = created /\ torn' = "no"
      BY <1>7, <2>1 DEF Q!Restart, FileFollows
    <3>2. Q!Pending(mem') = Q!Pending(file)
      BY <3>1 DEF Q!Load, Q!Keep, Q!Pending, Q!Terminal
    <3> QED
      BY <1>0, <2>1, <3>1, <3>2 DEF FileFollows, NoneReturns
  <2>2. ASSUME NEW done \in SUBSET Q!Pending(mem), file' = Q!WithStatus(file, done, "cancelled"),
               torn' = "no"
        PROVE  FileFollows' /\ NoneReturns
    <3>1. Q!Pending(file') \subseteq Q!Pending(file)
      BY <2>2 DEF Q!WithStatus, Q!Pending
    <3>2. mem' = Q!Load(file', cleared) /\ created' = created
      BY <1>7 DEF Q!Restart
    <3>3. Q!Pending(mem') = Q!Pending(file')
      BY <3>2 DEF Q!Load, Q!Keep, Q!Pending, Q!Terminal
    <3> QED
      BY <1>0, <2>2, <3>1, <3>2, <3>3 DEF FileFollows, NoneReturns
  <2>3. torn = "no"
    BY DEF FileFollows
  <2>4. Q!Readable(Q!Pending(mem)) = {Q!Pending(mem)} /\ \A done : Q!Readable(done) = {done}
    BY <2>3 DEF Q!Readable
  <2>5. CASE \E done \in SUBSET Q!Pending(mem) : \E read \in Q!Readable(done) :
               file' = Q!WithStatus(file, read, "cancelled") /\ torn' = "no"
    BY <2>2, <2>4, <2>5
  <2> QED
    BY <1>7, <2>1, <2>5 DEF Q!Restart
<1>8. CASE UNCHANGED messageVars
  BY <1>0, <1>8 DEF messageVars, FileFollows, NoneReturns, Q!Pending
<1> QED
  BY <1>1, <1>2, <1>3, <1>4, <1>5, <1>6, <1>7, <1>8 DEF QueueStep

-----------------------------------------------------------------------------
(* What a step does to the tasks.                                          *)

\* A step leaves has_inflight_scripts alone, or sets it.
LEMMA ScriptsKeep ==
  ASSUME scripts \in BOOLEAN, [DeliveryNext]_deliveryVars
  PROVE  scripts' \in BOOLEAN
<1>1. ASSUME NEW t \in Tasks, LoopStep(t) PROVE scripts' = scripts
  BY <1>1 DEF LoopStep, PeekNothing, PeekPaused, PeekError, PeekNext, Called, BecameActive, NotActive,
              WaitedPaused, SendRefused, SendAccepted, BecameIdle, ErrorWhileBusy, CancelledNew,
              Cancelled, CancelLost, sessionQueue
<1>2. ASSUME NEW c, CallGoesOn(c) \/ ClientGoesOn(c) PROVE scripts' = scripts
  BY <1>2 DEF CallGoesOn, ClientGoesOn, AsBefore, sessionQueue
<1>3. ASSUME NEW u, UserStart(u) \/ UserRestart(u) \/ UserTerminate(u) \/ UserReset(u)
      PROVE  scripts' = scripts
  BY <1>3 DEF UserStart, UserRestart, UserTerminate, UserReset, AsBefore, sessionQueue
<1>4. ASSUME UserQueues PROVE scripts' = scripts
  BY <1>4 DEF UserQueues, EnqueueMessage, RequeueItem, CancelQueueItem, ClearQueue, PauseQueue,
              ResumeQueue, sessionQueue
<1>5. ASSUME ScriptStarts \/ ScriptEnds \/ ServerReboot PROVE scripts' \in BOOLEAN
  BY <1>5 DEF ScriptStarts, ScriptEnds, ServerReboot
<1>6. ASSUME UNCHANGED deliveryVars PROVE scripts' = scripts
  BY <1>6 DEF deliveryVars, sessionQueue
<1> QED
  BY <1>1, <1>2, <1>3, <1>4, <1>5, <1>6 DEF DeliveryNext

\* Nothing new waits after a step that creates no item.
LEMMA NothingNew ==
  ASSUME Q!TypeOK', NoneReturns, created' = created
  PROVE  Q!Pending(mem') \subseteq Q!Pending(mem)
<1>1. Q!Pending(mem') \subseteq 1 .. created'
  BY DEF Q!TypeOK, Q!Pending
<1> QED
  BY <1>1 DEF NoneReturns

\* What clients have accepted stays gone in a step that gives them nothing.
LEMMA TakenStays ==
  ASSUME DeliveryTypeOK, TakenIsGone, NoneReturns, taken' = taken
  PROVE  TakenIsGone'
<1> SUFFICES ASSUME NEW i \in Items, taken[i] > 0
             PROVE  i <= created' /\ i \notin Q!Pending(mem')
  BY DEF TakenIsGone
<1>1. i <= created /\ i \notin Q!Pending(mem) /\ i \in Int
  BY QueueAssumption DEF TakenIsGone, Items
<1> QED
  BY <1>1 DEF NoneReturns

\* A step that leaves the tasks alone, or forgets to cancel one.
LEMMA TasksStay ==
  ASSUME TasksOK, Q!TypeOK', NoneReturns, scripts' \in BOOLEAN, created' = created,
         UNCHANGED <<slot, pc, item, historyVars>>, cancelling' \subseteq cancelling,
         queuePaused' \in {queuePaused, TRUE}
  PROVE  TasksOK'
<1> USE DEF historyVars
<1>1. DeliveryTypeOK'
  BY DEF TasksOK, DeliveryTypeOK, Running
<1>2. TakenIsGone'
  BY TakenStays DEF TasksOK
<1>3. OneTask' /\ AtMostOnce' /\ SlotOK'
  BY DEF TasksOK, OneTask, AtMostOnce, SlotOK, Running
<1>4. Attended'
  BY NothingNew DEF TasksOK, Attended, Running, DeliveryTypeOK
<1> QED
  BY <1>1, <1>2, <1>3, <1>4 DEF TasksOK

\* The processor is stopped.
LEMMA StopKeeps ==
  ASSUME TasksOK, Q!TypeOK', NoneReturns, scripts' \in BOOLEAN, created' = created, Stop, queuePaused' = queuePaused
  PROVE  TasksOK'
<1> USE DEF Stop
<1>1. DeliveryTypeOK'
  BY DEF TasksOK, DeliveryTypeOK, Running
<1>2. TakenIsGone'
  BY TakenStays DEF TasksOK
<1>3. OneTask' /\ AtMostOnce'
  BY DEF TasksOK, OneTask, AtMostOnce, Running
<1>4. cancelling' \subseteq Tasks
  BY DEF TasksOK, DeliveryTypeOK, Running
<1>5. SlotOK' /\ Attended'
  BY <1>4, NoTaskAssumption DEF SlotOK, Attended
<1> QED
  BY <1>1, <1>2, <1>3, <1>5 DEF TasksOK

\* The processor is started, unless it runs.
LEMMA EnsureKeeps ==
  ASSUME TasksOK, NoneReturns, scripts' \in BOOLEAN, EnsureRunning, UNCHANGED <<item, cancelling, taken>>,
         queuePaused' \in BOOLEAN
  PROVE  TasksOK'
<1>t. /\ slot \in Tasks \union {NoTask} /\ pc \in [Tasks -> {"off", "new", "top"} \union Handling]
      /\ cancelling \subseteq Running /\ slot \notin cancelling
  BY DEF TasksOK, DeliveryTypeOK, SlotOK
<1>2. TakenIsGone'
  BY TakenStays DEF TasksOK
<1>3. AtMostOnce'
  BY DEF TasksOK, AtMostOnce, EnsureRunning
<1>c. \A x : x \in 1 .. created => x \in 1 .. created'
  BY DEF NoneReturns
<1>u. /\ item \in [Tasks -> {NoItem} \union Items]
      /\ \A t \in Tasks : pc[t] \in Handling => item[t] \in 1 .. created'
      /\ taken \in [Items -> Nat] /\ crowded \in BOOLEAN
  BY <1>c DEF TasksOK, DeliveryTypeOK
<1>4. CASE slot # NoTask /\ pc[slot] # "off"
  <2>1. UNCHANGED <<slot, pc, crowded>> /\ halted' = FALSE
    BY <1>4 DEF EnsureRunning
  <2>2. DeliveryTypeOK'
    BY <2>1, <1>t, <1>u DEF DeliveryTypeOK, Running
  <2>3. OneTask' /\ SlotOK'
    BY <2>1 DEF TasksOK, OneTask, SlotOK, Running
  <2>4. slot \in Running' \ cancelling'
    BY <2>1, <1>4, <1>t DEF Running
  <2> QED
    BY <1>2, <1>3, <2>2, <2>3, <2>4 DEF TasksOK, Attended
<1>5. CASE ~ (slot # NoTask /\ pc[slot] # "off")
  <2>1. PICK t \in Tasks : pc[t] = "off" /\ slot' = t /\ pc' = [pc EXCEPT ![t] = "new"]
    BY <1>5 DEF EnsureRunning
  <2>2. halted' = FALSE /\ crowded' = (crowded \/ Running # {})
    BY <1>5 DEF EnsureRunning
  <2>3. pc'[t] = "new" /\ \A u \in Tasks \ {t} : pc'[u] = pc[u]
    BY <2>1, <1>t
  <2>4. "new" \notin Handling /\ "off" \notin Handling
    BY DEF Handling
  <2>5. t \notin cancelling /\ Running' = Running \union {t}
    BY <2>1, <2>3, <1>t DEF Running
  <2>6. DeliveryTypeOK'
    <3>1. pc' \in [Tasks -> {"off", "new", "top"} \union Handling]
      BY <1>t, <2>1
    <3>2. \A u \in Tasks : pc'[u] \in Handling => item'[u] \in 1 .. created'
      BY <1>u, <2>3, <2>4
    <3>3. slot' \in Tasks /\ cancelling' \subseteq Running'
      BY <1>t, <2>1, <2>5
    <3> QED
      BY <1>u, <2>2, <3>1, <3>2, <3>3 DEF DeliveryTypeOK
  <2>7. OneTask'
    BY <2>2, <2>3, <2>4, <2>5 DEF TasksOK, OneTask, Sending
  <2> QED
    BY <1>2, <1>3, <2>1, <2>5, <2>6, <2>7 DEF TasksOK, SlotOK, Attended
<1> QED
  BY <1>4, <1>5

\* A task goes on with the item i at `place`.
LEMMA GoingOnKeeps ==
  ASSUME TasksOK, Q!TypeOK', NoneReturns, scripts' \in BOOLEAN, created' = created,
         NEW t \in Tasks, pc[t] # "off", NEW place \in {"top"} \union Handling,
         NEW i \in {NoItem} \union Items, place \in Handling => i \in 1 .. created,
         place \in Sending => crowded \/ taken[i] = 0,
         pc' = [pc EXCEPT ![t] = place], item' = [item EXCEPT ![t] = i],
         UNCHANGED <<slot, cancelling, historyVars, queuePaused>>
  PROVE  TasksOK'
<1> USE DEF historyVars
<1>t. /\ pc \in [Tasks -> {"off", "new", "top"} \union Handling]
      /\ item \in [Tasks -> {NoItem} \union Items]
  BY DEF TasksOK, DeliveryTypeOK
<1>1. /\ pc'[t] = place /\ item'[t] = i
      /\ \A u \in Tasks \ {t} : pc'[u] = pc[u] /\ item'[u] = item[u]
  BY <1>t
<1>2. Running' = Running
  BY <1>1 DEF Running, Handling
<1>3. DeliveryTypeOK'
  BY <1>1, <1>2 DEF TasksOK, DeliveryTypeOK
<1>4. TakenIsGone'
  BY TakenStays DEF TasksOK
<1>5. OneTask'
  BY <1>1, <1>2 DEF TasksOK, OneTask
<1>6. AtMostOnce' /\ SlotOK'
  BY DEF TasksOK, AtMostOnce, SlotOK
<1>7. Attended'
  BY <1>2, NothingNew DEF TasksOK, Attended
<1> QED
  BY <1>3, <1>4, <1>5, <1>6, <1>7 DEF TasksOK

\* A task ends: it was cancelled, or nothing waits any more, or it gave up.
LEMMA EndingKeeps ==
  ASSUME TasksOK, Q!TypeOK', NoneReturns, scripts' \in BOOLEAN, created' = created,
         NEW t \in Tasks, pc' = [pc EXCEPT ![t] = "off"],
         NEW i \in {NoItem} \union Items, item' = [item EXCEPT ![t] = i],
         slot' \in {slot, NoTask}, cancelling' = cancelling \ {t},
         halted' \in BOOLEAN, halted => halted',
         t \in cancelling \/ halted' \/ Q!Pending(mem') = {},
         UNCHANGED <<taken, crowded, queuePaused>>
  PROVE  TasksOK'
<1>t. /\ pc \in [Tasks -> {"off", "new", "top"} \union Handling]
      /\ item \in [Tasks -> {NoItem} \union Items]
      /\ cancelling \subseteq Tasks
  BY DEF TasksOK, DeliveryTypeOK, Running
<1>0. "off" \notin Handling /\ "off" \notin Sending
  BY DEF Handling, Sending
<1>1. /\ pc'[t] = "off" /\ item'[t] = i
      /\ \A u \in Tasks \ {t} : pc'[u] = pc[u] /\ item'[u] = item[u]
  BY <1>t
<1>2. Running' = Running \ {t}
  BY <1>1 DEF Running
<1>3. DeliveryTypeOK'
  BY <1>0, <1>1, <1>2 DEF TasksOK, DeliveryTypeOK
<1>4. TakenIsGone'
  BY TakenStays DEF TasksOK
<1>5. OneTask'
  BY <1>0, <1>1, <1>2 DEF TasksOK, OneTask
<1>6. AtMostOnce' /\ SlotOK'
  BY <1>t, NoTaskAssumption DEF TasksOK, AtMostOnce, SlotOK
<1>7. Attended'
  BY <1>2, NothingNew DEF TasksOK, Attended
<1> QED
  BY <1>3, <1>4, <1>5, <1>6, <1>7 DEF TasksOK

\* A client accepts an item: it is marked as sent in the same step.
LEMMA SendKeeps ==
  ASSUME TasksOK, Q!TypeOK, NoneReturns, scripts' \in BOOLEAN, FileFollows, NEW t \in Tasks, SendAccepted(t)
  PROVE  TasksOK'
<1> DEFINE i == item[t]
<1>t. /\ pc \in [Tasks -> {"off", "new", "top"} \union Handling]
      /\ item \in [Tasks -> {NoItem} \union Items]
      /\ taken \in [Items -> Nat]
      /\ created \in Nat
  BY DEF TasksOK, DeliveryTypeOK, NoneReturns
<1>0. pc[t] = "wait" /\ pc[t] \in Sending /\ "idle" \in Handling /\ "idle" \notin Sending
  BY DEF SendAccepted, At, Sending, Handling
<1>i. i \in 1 .. created /\ i \in Items
  BY <1>0, <1>t DEF TasksOK, DeliveryTypeOK, Sending, NoItem
<1>1. /\ pc' = [pc EXCEPT ![t] = "idle"] /\ taken' = [taken EXCEPT ![i] = @ + 1]
      /\ UNCHANGED <<slot, item, cancelling, queuePaused, halted, crowded>>
  BY DEF SendAccepted, sessionQueue
<1>2. created' = created /\ i \notin Q!Pending(mem') /\ Q!Pending(mem') \subseteq Q!Pending(mem)
  <2>1. CASE i \in DOMAIN mem
    <3>1. Q!SetStatus(i, "sent", TRUE)
      BY <2>1 DEF SendAccepted, Q!MarkSent
    <3>2. /\ mem' = Q!WithStatus(mem, {i}, "sent") /\ file' = Q!WithStatus(file, {i}, "sent")
          /\ torn' = "no" /\ created' = created
      BY <3>1 DEF Q!SetStatus, Q!Write, Q!Append, FileFollows
    <3>3. "sent" \in Q!Terminal
      BY DEF Q!Terminal
    <3> HIDE DEF i
    <3> QED
      BY <1>t, <3>2, <3>3, StatusFollows
  <2>2. CASE i \notin DOMAIN mem
    BY <2>2 DEF SendAccepted, messageVars, Q!Pending
  <2> QED
    BY <2>1, <2>2
<1>3. /\ pc'[t] = "idle" /\ \A u \in Tasks \ {t} : pc'[u] = pc[u]
      /\ taken'[i] = taken[i] + 1 /\ \A j \in Items \ {i} : taken'[j] = taken[j]
  BY <1>t, <1>1, <1>i
<1>4. Running' = Running /\ t \in Running
  BY <1>0, <1>3 DEF Running
<1> HIDE DEF i
<1>5. DeliveryTypeOK'
  <2>1. /\ pc' \in [Tasks -> {"off", "new", "top"} \union Handling] /\ taken' \in [Items -> Nat]
        /\ {queuePaused', scripts', halted', crowded'} \subseteq BOOLEAN
    BY <1>0, <1>1, <1>t, <1>i DEF TasksOK, DeliveryTypeOK
  <2>2. \A u \in Tasks : pc'[u] \in Handling => item'[u] \in 1 .. created'
    BY <1>0, <1>1, <1>2, <1>3 DEF TasksOK, DeliveryTypeOK, Sending
  <2>3. /\ slot' \in Tasks \union {NoTask} /\ cancelling' \subseteq Running'
        /\ item' \in [Tasks -> {NoItem} \union Items]
    BY <1>1, <1>4 DEF TasksOK, DeliveryTypeOK
  <2> QED
    BY <2>1, <2>2, <2>3 DEF DeliveryTypeOK
<1>6. TakenIsGone'
  <2> SUFFICES ASSUME NEW j \in Items, taken'[j] > 0
               PROVE  j <= created' /\ j \notin Q!Pending(mem')
    BY DEF TakenIsGone
  <2>1. CASE j = i
    BY <1>2, <1>i, <1>t, <2>1
  <2>2. CASE j # i
    BY <1>2, <1>3, <2>2 DEF TasksOK, TakenIsGone
  <2> QED
    BY <2>1, <2>2
<1>7. OneTask'
  <2>1. ASSUME ~ crowded', NEW u \in Tasks, pc'[u] \in Sending PROVE FALSE
    <3>1. u # t /\ u \in Running
      BY <1>0, <1>3, <2>1 DEF Running, Sending, Handling
    <3> QED
      BY <1>1, <1>4, <2>1, <3>1 DEF TasksOK, OneTask
  <2>2. ~ crowded' => \A u, v \in Running' : u = v
    BY <1>1, <1>4 DEF TasksOK, OneTask
  <2> QED
    BY <2>1, <2>2 DEF OneTask
<1>8. AtMostOnce'
  <2>1. ~ crowded => taken[i] = 0
    BY <1>0 DEF TasksOK, OneTask, i
  <2> QED
    BY <1>1, <1>3, <2>1 DEF TasksOK, AtMostOnce
<1>9. SlotOK' /\ Attended'
  BY <1>1, <1>2, <1>4 DEF TasksOK, SlotOK, Attended
<1> QED
  BY <1>5, <1>6, <1>7, <1>8, <1>9 DEF TasksOK

\* A task gives up, and fails the item that it has.
LEMMA FailsKeeps ==
  ASSUME TasksOK, Q!TypeOK', NoneReturns, scripts' \in BOOLEAN, NEW t \in Tasks, t \notin cancelling,
         Exit(t, TRUE), created' = created, UNCHANGED <<cancelling, queuePaused>>
  PROVE  TasksOK'
<1>1. NoItem \in {NoItem} \union Items /\ cancelling' = cancelling \ {t}
  OBVIOUS
<1>2. /\ halted' = TRUE /\ slot' = NoTask /\ pc' = [pc EXCEPT ![t] = "off"]
      /\ item' = [item EXCEPT ![t] = NoItem] /\ UNCHANGED <<taken, crowded>>
  BY DEF Exit
<1> QED
  BY <1>1, <1>2, EndingKeeps

\* The loop of a task (_process_loop) keeps what is said of the tasks.
LEMMA LoopKeeps ==
  ASSUME TasksOK, Q!TypeOK, Q!TypeOK', NoneReturns, scripts' \in BOOLEAN, FileFollows,
         NEW t \in Tasks, LoopStep(t)
  PROVE  TasksOK'
<1>t. /\ item \in [Tasks -> {NoItem} \union Items] /\ pc \in [Tasks -> {"off", "new", "top"} \union Handling]
      /\ item[t] \in {NoItem} \union Items
      /\ item = [item EXCEPT ![t] = item[t]]
      /\ pc[t] \in Handling => item[t] \in 1 .. created
      /\ pc[t] \in Sending => crowded \/ taken[item[t]] = 0
  BY DEF TasksOK, DeliveryTypeOK, OneTask
<1>h. /\ "top" \notin Handling /\ "off" \notin Handling /\ NoItem \in {NoItem} \union Items
      /\ Sending = {"starting", "active", "resetting", "again", "wait"}
      /\ Handling = Sending \union {"idle"}
  BY DEF Handling, Sending
<1>p. created \in Nat /\ Q!Pending(mem) \subseteq 1 .. created /\ 1 .. created \subseteq Items
  <2>1. created \in 0 .. MaxItems
    BY DEF Q!TypeOK
  <2> QED
    BY <2>1, QueueAssumption DEF Q!TypeOK, Q!Pending, Items
<1>f. ASSUME Fails(t), t \notin cancelling, UNCHANGED <<cancelling, queuePaused>> PROVE TasksOK'
  <2>1. created' = created /\ Exit(t, TRUE)
    BY <1>f DEF Fails, messageVars, Q!MarkFailed, Q!SetStatus
  <2> QED
    BY <1>f, <2>1, FailsKeeps
<1>g. ASSUME NEW place \in {"top"} \union Handling, GoesTo(t, place), pc[t] # "off",
             place \in Handling => pc[t] \in Handling, place \in Sending => pc[t] \in Sending,
             UNCHANGED <<cancelling, queuePaused>>, created' = created
      PROVE  TasksOK'
  <2>1. pc' = [pc EXCEPT ![t] = place] /\ item' = [item EXCEPT ![t] = item[t]]
        /\ UNCHANGED <<slot, historyVars>>
    BY <1>g, <1>t DEF GoesTo
  <2> QED
    BY <1>g, <1>t, <2>1, GoingOnKeeps
<1>1. CASE PeekNothing(t)
  <2>1. /\ Exit(t, FALSE) /\ t \notin cancelling /\ Q!Pending(mem) = {}
        /\ UNCHANGED <<messageVars, queuePaused, cancelling>>
    BY <1>1 DEF PeekNothing, At, sessionQueue
  <2>2. /\ slot' = NoTask /\ pc' = [pc EXCEPT ![t] = "off"]
        /\ item' = [item EXCEPT ![t] = NoItem] /\ UNCHANGED <<taken, crowded>>
        /\ halted' = halted /\ halted \in BOOLEAN
    BY <2>1 DEF Exit, TasksOK, DeliveryTypeOK
  <2>3. created' = created /\ Q!Pending(mem') = {} /\ cancelling' = cancelling \ {t}
    BY <2>1 DEF messageVars, Q!Pending
  <2> QED
    BY <1>h, <2>1, <2>2, <2>3, EndingKeeps
<1>2. CASE PeekPaused(t) \/ WaitedPaused(t)
  <2>1. /\ GoesTo(t, "top") /\ pc[t] # "off" /\ created' = created
        /\ UNCHANGED <<cancelling, queuePaused>>
    BY <1>2 DEF PeekPaused, WaitedPaused, At, messageVars, sessionQueue
  <2> QED
    BY <1>g, <1>h, <2>1
<1>3. CASE PeekError(t)
  <2>1. /\ Exit(t, TRUE) /\ t \notin cancelling /\ created' = created
        /\ UNCHANGED <<cancelling, queuePaused>>
    BY <1>3 DEF PeekError, At, messageVars, sessionQueue
  <2> QED
    BY <2>1, FailsKeeps
<1>4. CASE PeekNext(t)
  <2>1. PICK i \in Items : Q!IsNext(mem, i) /\ item' = [item EXCEPT ![t] = i]
    BY <1>4 DEF PeekNext
  <2>2. PICK place \in {"starting", "active"} : pc' = [pc EXCEPT ![t] = place]
    BY <1>4 DEF PeekNext
  <2>3. /\ UNCHANGED <<slot, cancelling, historyVars, queuePaused>> /\ created' = created
        /\ pc[t] # "off"
    BY <1>4 DEF PeekNext, At, messageVars, sessionQueue
  <2>4. i \in Q!Pending(mem) /\ i \in 1 .. created
    BY <2>1, <1>p DEF Q!IsNext
  <2>5. taken[i] = 0
    <3>1. taken[i] \in Nat /\ ~ taken[i] > 0
      BY <2>1, <2>4 DEF TasksOK, DeliveryTypeOK, TakenIsGone
    <3> QED
      BY <3>1
  <2> QED
    BY <1>h, <2>1, <2>2, <2>3, <2>4, <2>5, GoingOnKeeps
<1>5. CASE Called(t)
  <2>1. t \notin cancelling /\ pc[t] \in {"starting", "resetting"} /\ UNCHANGED <<queuePaused, cancelling>>
        /\ at[t] \in Results
    BY <1>5 DEF Called, At, sessionQueue
  <2>2. CASE at[t] = "yes"
    <3>1. GoesTo(t, IF pc[t] = "starting" THEN "active" ELSE "again") /\ created' = created
      BY <1>5, <2>2 DEF Called, messageVars
    <3> QED
      BY <1>g, <1>h, <2>1, <3>1
  <2>3. CASE at[t] = "no"
    BY <1>5, <1>f, <2>1, <2>3 DEF Called
  <2>4. CASE at[t] = "raised"
    <3>1. Exit(t, TRUE) /\ created' = created
      BY <1>5, <2>4 DEF Called, messageVars
    <3> QED
      BY <2>1, <3>1, FailsKeeps
  <2> QED
    BY <2>1, <2>2, <2>3, <2>4 DEF Results
<1>6. CASE BecameActive(t)
  <2>1. /\ UNCHANGED <<queuePaused, cancelling>> /\ pc[t] \in {"active", "again"}
        /\ created' = created
    BY <1>6 DEF BecameActive, At, ResetSession, messageVars, Q!Truncate, sessionQueue
  <2>2. GoesTo(t, "resetting") \/ GoesTo(t, "wait")
    BY <1>6 DEF BecameActive
  <2> QED
    BY <1>g, <1>h, <2>1, <2>2
<1>7. CASE NotActive(t)
  <2>1. t \notin cancelling /\ UNCHANGED <<queuePaused, cancelling>>
    BY <1>7 DEF NotActive, At, sessionQueue
  <2>2. CASE pc[t] = "active"
    BY <1>7, <1>f, <2>1, <2>2 DEF NotActive
  <2>3. CASE pc[t] # "active"
    <3>1. Exit(t, TRUE) /\ created' = created
      BY <1>7, <2>3 DEF NotActive, messageVars
    <3> QED
      BY <2>1, <3>1, FailsKeeps
  <2> QED
    BY <2>2, <2>3
<1>8. CASE SendRefused(t) \/ ErrorWhileBusy(t)
  BY <1>8, <1>f DEF SendRefused, ErrorWhileBusy, At, sessionQueue
<1>9. CASE SendAccepted(t)
  BY <1>9, SendKeeps
<1>10. CASE BecameIdle(t)
  <2>1. /\ pc' = [pc EXCEPT ![t] = "top"] /\ item' = [item EXCEPT ![t] = NoItem]
        /\ UNCHANGED <<queuePaused, slot, cancelling, historyVars>> /\ created' = created
        /\ pc[t] # "off"
    BY <1>10 DEF BecameIdle, At, messageVars, sessionQueue
  <2> QED
    BY <1>h, <2>1, GoingOnKeeps
<1>11. CASE CancelledNew(t)
  <2>1. /\ t \in cancelling /\ cancelling' = cancelling \ {t} /\ pc' = [pc EXCEPT ![t] = "off"]
        /\ item' = [item EXCEPT ![t] = item[t]] /\ created' = created
        /\ UNCHANGED <<slot, queuePaused, historyVars>>
    BY <1>11, <1>t DEF CancelledNew, messageVars, sessionQueue
  <2>2. halted' = halted /\ halted' \in BOOLEAN /\ UNCHANGED <<taken, crowded>>
    BY <2>1 DEF historyVars, TasksOK, DeliveryTypeOK
  <2> QED
    BY <1>t, <2>1, <2>2, EndingKeeps
<1>12. CASE Cancelled(t)
  <2>1. /\ t \in cancelling /\ cancelling' = cancelling \ {t} /\ Exit(t, FALSE)
        /\ created' = created /\ queuePaused' = queuePaused
    BY <1>12 DEF Cancelled, messageVars, sessionQueue
  <2>2. /\ slot' = NoTask /\ pc' = [pc EXCEPT ![t] = "off"]
        /\ item' = [item EXCEPT ![t] = NoItem] /\ UNCHANGED <<taken, crowded>>
        /\ halted' = halted /\ halted' \in BOOLEAN
    BY <2>1 DEF Exit, TasksOK, DeliveryTypeOK
  <2> QED
    BY <1>h, <2>1, <2>2, EndingKeeps
<1>13. CASE CancelLost(t)
  <2>1. /\ cancelling' = cancelling \ {t} /\ created' = created
        /\ UNCHANGED <<queuePaused, slot, pc, item, historyVars>>
    BY <1>13 DEF CancelLost, messageVars, sessionQueue
  <2> QED
    BY <2>1, TasksStay
<1> QED
  BY <1>1, <1>2, <1>3, <1>4, <1>5, <1>6, <1>7, <1>8, <1>9, <1>10, <1>11, <1>12, <1>13 DEF LoopStep

\* The processor is not started: the queue is paused, or nothing waits.
LEMMA IdleKeeps ==
  ASSUME TasksOK, NoneReturns, scripts' \in BOOLEAN, Idle, UNCHANGED <<item, cancelling, taken>>,
         queuePaused' \in BOOLEAN, queuePaused' \/ Q!Pending(mem') = {}
  PROVE  TasksOK'
<1>c. \A x : x \in 1 .. created => x \in 1 .. created'
  BY DEF NoneReturns
<1>1. DeliveryTypeOK'
  BY <1>c DEF Idle, TasksOK, DeliveryTypeOK, Running
<1>2. TakenIsGone'
  BY TakenStays DEF TasksOK
<1>3. OneTask' /\ AtMostOnce' /\ SlotOK' /\ Attended'
  BY DEF Idle, TasksOK, OneTask, AtMostOnce, SlotOK, Attended, Running
<1> QED
  BY <1>1, <1>2, <1>3 DEF TasksOK

\* The server dies and is started again: no task is left but a new one.
LEMMA RebootKeeps ==
  ASSUME TasksOK, Q!TypeOK', NoneReturns, scripts' \in BOOLEAN, ServerReboot
  PROVE  TasksOK'
<1>t. /\ item' = [u \in Tasks |-> NoItem] /\ cancelling' = {} /\ halted' = FALSE
      /\ UNCHANGED <<queuePaused, taken, crowded>> /\ NoItem \in {NoItem} \union Items
  BY DEF ServerReboot, All
<1>0. "new" \notin Handling /\ "off" \notin Handling /\ Sending \subseteq Handling
  BY DEF Handling, Sending
<1>1. \/ /\ slot' = NoTask /\ pc' = [u \in Tasks |-> "off"]
         /\ Q!Pending(mem') = {} \/ queuePaused
      \/ \E t \in Tasks : slot' = t /\ pc' = [[u \in Tasks |-> "off"] EXCEPT ![t] = "new"]
  BY DEF ServerReboot, All
<1>2. TakenIsGone'
  BY <1>t, TakenStays DEF TasksOK
<1>3. CASE /\ slot' = NoTask /\ pc' = [u \in Tasks |-> "off"]
           /\ Q!Pending(mem') = {} \/ queuePaused
  <2>1. DeliveryTypeOK'
    BY <1>t, <1>0, <1>3 DEF TasksOK, DeliveryTypeOK, Running
  <2>2. OneTask' /\ AtMostOnce' /\ SlotOK' /\ Attended'
    BY <1>t, <1>0, <1>3 DEF TasksOK, OneTask, AtMostOnce, SlotOK, Attended, Running
  <2> QED
    BY <1>2, <2>1, <2>2 DEF TasksOK
<1>4. ASSUME NEW t \in Tasks, slot' = t, pc' = [[u \in Tasks |-> "off"] EXCEPT ![t] = "new"]
      PROVE  TasksOK'
  <2>1. pc'[t] = "new" /\ \A u \in Tasks \ {t} : pc'[u] = "off"
    BY <1>4
  <2>2. Running' = {t}
    BY <2>1 DEF Running
  <2>3. DeliveryTypeOK'
    <3>1. pc' \in [Tasks -> {"off", "new", "top"} \union Handling]
      BY <1>4
    <3>2. \A u \in Tasks : pc'[u] \notin Handling
      BY <1>0, <2>1
    <3> QED
      BY <1>t, <1>4, <3>1, <3>2 DEF TasksOK, DeliveryTypeOK
  <2>4. OneTask'
    BY <1>0, <2>1, <2>2 DEF OneTask
  <2>5. AtMostOnce' /\ SlotOK' /\ Attended'
    BY <1>t, <2>2 DEF TasksOK, AtMostOnce, SlotOK, Attended
  <2> QED
    BY <1>2, <2>3, <2>4, <2>5 DEF TasksOK
<1> QED
  BY <1>1, <1>3, <1>4

\* The invariant holds at the start,
LEMMA InitIInv == DeliveryInit => IInv
<1> SUFFICES ASSUME DeliveryInit PROVE IInv
  OBVIOUS
<1>1. Q!Init /\ mem = Q!EmptyList /\ file = Q!EmptyList /\ created = 0 /\ torn = "no"
  BY DEF DeliveryInit, Q!Init
<1>2. QP!IInv
  BY <1>1, SameSpec, QP!InitIInv, QueueAssumption
<1>3. Q!Pending(mem) = {} /\ Q!Pending(file) = {}
  BY <1>1 DEF Q!EmptyList, Q!Pending
<1>4. /\ slot = NoTask /\ pc = [t \in Tasks |-> "off"] /\ item = [t \in Tasks |-> NoItem]
      /\ cancelling = {} /\ taken = [i \in Items |-> 0]
      /\ queuePaused = FALSE /\ scripts = FALSE /\ halted = FALSE /\ crowded = FALSE
  BY DEF DeliveryInit, All
<1>5. FileFollows /\ TakenIsGone /\ OneTask /\ AtMostOnce /\ SlotOK /\ Attended
  BY <1>1, <1>3, <1>4 DEF FileFollows, TakenIsGone, OneTask, AtMostOnce, SlotOK, Attended, Running,
                          Sending, Handling
<1>6. DeliveryTypeOK
  BY <1>4 DEF DeliveryTypeOK, Handling
<1> QED
  BY <1>2, <1>5, <1>6 DEF IInv, TasksOK

\* and every step keeps it.
LEMMA NextIInv == IInv /\ [DeliveryNext]_deliveryVars => IInv'
<1> SUFFICES ASSUME IInv, [DeliveryNext]_deliveryVars PROVE IInv'
  OBVIOUS
<1>1. QP!TypeOK /\ Q!TypeOK
  BY SameSpec DEF IInv, QP!IInv
<1>2. QueueStep
  BY <1>1, StepOfQueue
<1>3. [QP!Next]_QP!queueVars
  BY <1>2, QueueStepIsNext, SameSpec
<1>4. QP!IInv'
  BY <1>3, QP!NextIInv, QueueAssumption DEF IInv
<1>5. Q!TypeOK'
  <2>1. QP!TypeOK'
    BY <1>4 DEF QP!IInv
  <2> QED
    BY <2>1, SameTypeNext
<1>6. FileFollows' /\ NoneReturns /\ scripts' \in BOOLEAN
  <2>1. scripts \in BOOLEAN
    BY DEF IInv, TasksOK, DeliveryTypeOK
  <2> QED
    BY <1>1, <1>2, <2>1, QueueFollows, ScriptsKeep DEF IInv
<1>t. TasksOK /\ halted \in BOOLEAN /\ queuePaused \in BOOLEAN
  BY DEF IInv, TasksOK, DeliveryTypeOK
<1>7. ASSUME NEW t \in Tasks, LoopStep(t) PROVE TasksOK'
  BY <1>1, <1>5, <1>6, <1>7, LoopKeeps DEF IInv
<1>s. ASSUME UNCHANGED <<taskVars, historyVars>>, queuePaused' \in {queuePaused, TRUE}, created' = created
      PROVE  TasksOK'
  <2>1. UNCHANGED <<slot, pc, item, historyVars>> /\ cancelling' \subseteq cancelling
    BY <1>s DEF taskVars
  <2> QED
    BY <1>5, <1>6, <1>s, <1>t, <2>1, TasksStay
<1>8. ASSUME NEW c, CallGoesOn(c) PROVE TasksOK'
  BY <1>8, <1>s DEF CallGoesOn, Q!Truncate, messageVars, taskVars, sessionQueue
<1>9. ASSUME NEW k, ClientGoesOn(k) PROVE TasksOK'
  BY <1>9, <1>s DEF ClientGoesOn, AsBefore, messageVars, sessionQueue
<1>10. ASSUME NEW u, UserStart(u) \/ UserRestart(u) PROVE TasksOK'
  BY <1>10, <1>s DEF UserStart, UserRestart, AsBefore, messageVars, sessionQueue
<1>11. ASSUME NEW u, UserTerminate(u) \/ UserReset(u) PROVE TasksOK'
  <2>1. Stop /\ created' = created /\ queuePaused' = queuePaused
    BY <1>11 DEF UserTerminate, UserReset, ResetSession, Q!Truncate, messageVars, sessionQueue
  <2> QED
    BY <1>5, <1>6, <1>t, <2>1, StopKeeps
<1>i. ASSUME Idle, UNCHANGED <<queuePaused, item, cancelling, taken>>,
             queuePaused \/ Q!Pending(mem') = {}
      PROVE  TasksOK'
  BY <1>6, <1>t, <1>i, IdleKeeps
<1>12. ASSUME EnqueueMessage \/ \E i \in Items : RequeueItem(i) PROVE TasksOK'
  <2>1. UNCHANGED <<queuePaused, item, cancelling, taken>>
    BY <1>12 DEF EnqueueMessage, RequeueItem, sessionQueue
  <2>2. CASE queuePaused
    BY <1>12, <1>i, <2>1, <2>2 DEF EnqueueMessage, RequeueItem
  <2>3. CASE ~ queuePaused
    <3>1. EnsureRunning
      BY <1>12, <2>3 DEF EnqueueMessage, RequeueItem
    <3>2. queuePaused' \in BOOLEAN
      BY <2>1, <1>t
    <3> QED
      BY <1>6, <1>t, <2>1, <3>1, <3>2, EnsureKeeps
  <2> QED
    BY <2>2, <2>3
<1>13. ASSUME NEW i \in Items, CancelQueueItem(i) PROVE TasksOK'
  BY <1>13, <1>s DEF CancelQueueItem, Q!Cancel, Q!SetStatus, sessionQueue
<1>14. ASSUME ClearQueue \/ PauseQueue \/ ScriptStarts \/ ScriptEnds PROVE TasksOK'
  BY <1>14, <1>s DEF ClearQueue, PauseQueue, ScriptStarts, ScriptEnds, Q!ClearPending, Q!ClearHistory, messageVars, sessionQueue
<1>15. ASSUME ResumeQueue PROVE TasksOK'
  <2>1. queuePaused /\ queuePaused' = FALSE /\ UNCHANGED <<messageVars, item, cancelling, taken>>
    BY <1>15 DEF ResumeQueue
  <2>2. CASE Q!Pending(mem) # {}
    <3>1. EnsureRunning
      BY <1>15, <2>2 DEF ResumeQueue
    <3> QED
      BY <1>6, <1>t, <2>1, <3>1, EnsureKeeps
  <2>3. CASE Q!Pending(mem) = {}
    <3>1. Idle /\ Q!Pending(mem') = {}
      BY <1>15, <2>1, <2>3 DEF ResumeQueue, messageVars, Q!Pending
    <3> QED
      BY <1>6, <1>t, <2>1, <3>1, IdleKeeps
  <2> QED
    BY <2>2, <2>3
<1>16. ASSUME ServerReboot PROVE TasksOK'
  BY <1>5, <1>6, <1>16, <1>t, RebootKeeps
<1>17. ASSUME UNCHANGED deliveryVars PROVE TasksOK'
  BY <1>17, <1>s DEF deliveryVars, messageVars, sessionQueue
<1>18. TasksOK'
  BY <1>7, <1>8, <1>9, <1>10, <1>11, <1>12, <1>13, <1>14, <1>15, <1>16, <1>17 DEF DeliveryNext, UserQueues
<1> QED
  BY <1>4, <1>6, <1>18 DEF IInv

\* So it always holds.
LEMMA AlwaysIInv == DeliverySpec => []IInv
BY InitIInv, NextIInv, PTL DEF DeliverySpec

-----------------------------------------------------------------------------
\* The variables of the processor keep their shape, and a task that handles an
\* item has one (QueueProcessor._tasks, _process_loop).
THEOREM TasksCorrect == DeliverySpec => []DeliveryTypeOK
<1>1. IInv => DeliveryTypeOK
  BY DEF IInv, TasksOK
<1> QED
  BY <1>1, AlwaysIInv, PTL

\* AtMostOnce: a message is given to a client at most once, whatever is done to
\* the session or the queue and however often the server dies, as long as no
\* two tasks run at once (_process_loop, mark_sent).
THEOREM TakenOnce == DeliverySpec => []AtMostOnce
<1>1. IInv => AtMostOnce
  BY DEF IInv, TasksOK
<1> QED
  BY <1>1, AlwaysIInv, PTL

\* NoneLeftBehind: while a message waits in a queue that is not paused, a task
\* runs, or the last one was stopped or gave up (ensure_running, stop).
THEOREM NobodyForgets == DeliverySpec => []NoneLeftBehind
<1>1. IInv => NoneLeftBehind
  BY DEF IInv, TasksOK, Attended, NoneLeftBehind
<1> QED
  BY <1>1, AlwaysIInv, PTL

\* The processor, the coordinator and the restart of the server use the queue
\* as MessageQueue describes it (queue_processor.py, session_coordinator.py).
THEOREM QueueAsPromised == DeliverySpec => Q!Spec
<1>1. DeliveryInit => Q!Init
  BY DEF DeliveryInit
<1>2. IInv /\ [DeliveryNext]_deliveryVars => [Q!Next]_Q!queueVars
  <2> SUFFICES ASSUME IInv, [DeliveryNext]_deliveryVars PROVE [Q!Next]_Q!queueVars
    OBVIOUS
  <2>1. Q!TypeOK
    BY SameSpec DEF IInv, QP!IInv
  <2> QED
    BY <2>1, StepOfQueue, QueueStepIsNext
<1> QED
  BY <1>1, <1>2, AlwaysIInv, PTL DEF DeliverySpec, Q!Spec

\* So a message that waits, and none of whose lines was lost, waits after a
\* restart, and messages wait in the order they came, whatever the processor
\* and the coordinator do.
THEOREM QueueIsKept == DeliverySpec => [](Q!PendingSurvivesRestart /\ Q!FirstComeFirstServed)
<1>1. DeliveryInit => QP!Init
  BY SameSpec DEF DeliveryInit
<1>2. IInv /\ [DeliveryNext]_deliveryVars => [QP!Next]_QP!queueVars
  <2> SUFFICES ASSUME IInv, [DeliveryNext]_deliveryVars PROVE [QP!Next]_QP!queueVars
    OBVIOUS
  <2>1. Q!TypeOK
    BY SameSpec DEF IInv, QP!IInv
  <2> QED
    BY <2>1, StepOfQueue, QueueStepIsNext, SameSpec
<1>3. QP!Spec => []QP!PendingSurvivesRestart
  BY QP!NothingForgotten, QueueAssumption
<1>4. QP!Spec => []QP!FirstComeFirstServed
  BY QP!ArrivalOrderKept, QueueAssumption
<1>5. QP!PendingSurvivesRestart => Q!PendingSurvivesRestart
  BY SameLists DEF QP!PendingSurvivesRestart, Q!PendingSurvivesRestart, QP!AfterRestart, Q!AfterRestart
<1>6. QP!FirstComeFirstServed => Q!FirstComeFirstServed
  BY SameLists DEF QP!FirstComeFirstServed, Q!FirstComeFirstServed, QP!Before, Q!Before
<1> QED
  BY <1>1, <1>2, <1>3, <1>4, <1>5, <1>6, AlwaysIInv, PTL DEF DeliverySpec, QP!Spec
-----------------------------------------------------------------------------
(* Comms to the session.                                                   *)

\* The variables of the comms keep their shape.
CommShape ==
  /\ step \in [Comms -> Steps]
  /\ mail \in [Comms -> Letters]
  /\ awaits \in [Comms -> Clients \union {NoClient}]

\* Only an urgent comm interrupts.
HasPriority == \A t \in Comms : step[t] = "interrupting" => mail[t].prio # "none"

\* The timeline tells of an error only when a comm of it was refused.
ErrorsSaid ==
  \A t \in Comms : <<t, "error">> \in timeline =>
    step[t] = "refused" /\ <<t, "comm">> \in timeline

\* The event of a client that answers is set.
ReadyOK == \A k \in Clients : info[k] = "running" => k \in ready

\* A comm only starts the session; when the start has not succeeded, the session
\* is not there for it.
StartsOnly == \A t \in Comms : at[t] \in Resting \union {"prepare", "undo"}
NotThere == \A t \in Comms : at[t] \in {"no", "raised"} => ~ (st = "active" /\ Accepts)

CommOK == CommShape /\ HasPriority /\ ErrorsSaid
\* The strengthening.
CommIInv == TypeOK /\ CommOK /\ ReadyOK /\ StartsOnly /\ NotThere

\* What comes of a comm: it is not refused when there is a client to take it.
Tells(t, p) ==
  /\ \E s \in Steps, k \in Clients \union {NoClient} :
       /\ BecomesWith(t, s, k)
       /\ s = "refused" => ~ Accepts
       /\ s = "interrupting" => p # "none"
  /\ UNCHANGED <<st, reg, disturbed>> /\ processing' \in BOOLEAN

LEMMA SendsTells ==
  ASSUME TypeOK, NEW t, NEW p, Sends(t) \/ Proceeds(t, p) \/ AwaitsReady(t, p)
  PROVE  Tells(t, p)
<1>a. reg \in Clients \union {NoClient} /\ processing \in BOOLEAN /\ Accepts \in BOOLEAN
  BY DEF TypeOK, Accepts
<1>b. {"delivered", "halted", "refused", "interrupting", "waiting"} \subseteq Steps
  BY DEF Steps, Done
<1>1. ASSUME Sends(t) PROVE Tells(t, p)
  <2>1. CASE reg = NoClient
    BY <1>1, <1>a, <1>b, <2>1 DEF Sends, Refuses, Becomes, Tells, sessionVars, Accepts
  <2>2. CASE reg # NoClient
    BY <1>1, <1>a, <1>b, <2>2 DEF Sends, Becomes, Tells
  <2> QED
    BY <2>1, <2>2
<1>2. ASSUME Proceeds(t, p) PROVE Tells(t, p)
  <2>1. CASE Sends(t)
    BY <1>1, <2>1
  <2>2. CASE /\ (p # "none" /\ Becomes(t, "interrupting")) \/ Becomes(t, "halted")
             /\ UNCHANGED <<sessionVars, disturbed>>
    BY <1>a, <1>b, <2>2 DEF Becomes, Tells, sessionVars
  <2> QED
    BY <1>2, <2>1, <2>2 DEF Proceeds
<1>3. ASSUME AwaitsReady(t, p) PROVE Tells(t, p)
  <2>1. CASE reg = NoClient
    BY <1>3, <1>a, <1>b, <2>1 DEF AwaitsReady, Refuses, Becomes, Tells, sessionVars, Accepts
  <2>2. CASE reg # NoClient /\ info[reg] # "running"
    BY <1>3, <1>a, <1>b, <2>2 DEF AwaitsReady, Tells, sessionVars
  <2> QED
    BY <1>2, <1>3, <2>1, <2>2 DEF AwaitsReady
<1> QED
  BY <1>1, <1>2, <1>3

\* A comm that has not been answered becomes what it may become.
LEMMA BecomesOK ==
  ASSUME CommOK, NEW t \in Comms, step[t] \notin Done, mail' \in [Comms -> Letters],
         \A u \in Comms \ {t} : mail'[u] = mail[u],
         NEW s \in Steps, NEW k \in Clients \union {NoClient}, BecomesWith(t, s, k),
         s = "interrupting" => mail'[t].prio # "none"
  PROVE  CommOK'
<1>1. step' \in [Comms -> Steps] /\ step'[t] = s /\ \A u \in Comms \ {t} : step'[u] = step[u]
  BY DEF BecomesWith, CommOK, CommShape
<1>2. CommShape'
  BY <1>1 DEF BecomesWith, CommOK, CommShape
<1>3. HasPriority'
  BY <1>1 DEF CommOK, HasPriority
<1>4. ASSUME NEW u \in Comms, <<u, "error">> \in timeline'
      PROVE  step'[u] = "refused" /\ <<u, "comm">> \in timeline'
  <2>1. timeline \subseteq timeline' /\ <<t, "comm">> \in timeline'
    BY DEF BecomesWith, Writes
  <2>2. CASE <<u, "error">> \in timeline
    <3>1. u # t
      BY <2>2 DEF CommOK, ErrorsSaid, Done
    <3> QED
      BY <1>1, <2>1, <2>2, <3>1 DEF CommOK, ErrorsSaid
  <2>3. CASE <<u, "error">> \notin timeline
    BY <1>1, <1>4, <2>1, <2>3 DEF BecomesWith, Writes, ErrorComm
  <2> QED
    BY <2>2, <2>3
<1> QED
  BY <1>2, <1>3, <1>4 DEF CommOK, ErrorsSaid

\* A comm is under way as long as nothing has come of it.
LEMMA CommStays ==
  CommOK /\ NoComm /\ awaits' \in [Comms -> Clients \union {NoClient}] => CommOK'
BY DEF CommOK, NoComm, sentVars, CommShape, HasPriority, ErrorsSaid

\* A step that is none of the session's, save for who has been told to go on.
LEMMA SessionRests ==
  ASSUME CommIInv, UNCHANGED <<st, reg, clientVars, kind, on, disturbed, ready>>,
         processing' \in BOOLEAN,
         at' = at \/ \E t \in Comms : at[t] \in Results /\ at' = [at EXCEPT ![t] = "idle"]
  PROVE  TypeOK' /\ ReadyOK' /\ StartsOnly' /\ NotThere'
<1> USE CallersAssumption DEF Comms
<1>1. TypeOK
  BY DEF CommIInv
<1>2. at \in [Callers -> Places] /\ at' \in [Callers -> Places]
  BY <1>1 DEF TypeOK, Places, Resting
<1>3. \A c \in Callers : at'[c] = at[c] \/ (at[c] \in Results /\ at'[c] = "idle")
  BY <1>2
<1>4. TypeOK'
  <2>1. \A c \in Callers : /\ at'[c] \in {"undo", "stop", "disconnect"} <=> on[c] # NoClient
                           /\ at'[c] \in Resting <=> kind[c] = "none"
    BY <1>1, <1>3 DEF TypeOK, Resting, Results
  <2> QED
    BY <1>1, <1>2, <2>1 DEF TypeOK, clientVars
<1>5. ReadyOK'
  BY DEF CommIInv, ReadyOK, clientVars
<1>6. StartsOnly'
  BY <1>3 DEF CommIInv, StartsOnly, Resting
<1>7. NotThere'
  BY <1>3 DEF CommIInv, NotThere, Accepts, clientVars
<1> QED
  BY <1>4, <1>5, <1>6, <1>7

\* The operations of the coordinator and the steps of a client: what they do to
\* those who wait for a start to return.
Bystands(t) == at'[t] = at[t]
ResultOK(t) == at'[t] \in {"no", "raised"} => ~ (st = "active" /\ Accepts)'

\* A step of the session at which nobody's start returns, save one that has found
\* the session so, and only a client that gets ready says that it is.
LEMMA SessionSteps ==
  ASSUME CommIInv, [Next]_lifeVars, ~ Returned,
         \A k \in Clients : info'[k] = "running" => k \in ready',
         \A t \in Comms : Bystands(t) \/ (at'[t] \in Resting \union {"prepare", "undo"} /\ ResultOK(t))
  PROVE  TypeOK' /\ ReadyOK' /\ StartsOnly' /\ NotThere'
<1>1. TypeOK'
  BY TypeNext DEF CommIInv
<1>2. ReadyOK'
  BY DEF ReadyOK
<1>3. StartsOnly'
  BY DEF CommIInv, StartsOnly, Bystands
<1>4. NotThere'
  BY DEF NotThere, Bystands, ResultOK, Returned, Results, Accepts
<1> QED
  BY <1>1, <1>2, <1>3, <1>4

\* A caller that waits or returns leaves the others where they are.
LEMMA OthersStand ==
  ASSUME TypeOK, NEW c \in Callers, NEW call, NEW p, NEW k, Waits(c, call, p, k)
  PROVE  at'[c] = p /\ \A t \in Callers \ {c} : Bystands(t)
BY DEF TypeOK, Waits, Bystands

\* Where an operation may be after a step of its own.
Goes(c) == \E call, p, k : Waits(c, call, p, k)

LEMMA ReturnsGoes ==
  ASSUME NEW c, NEW r, Returns(c, r)
  PROVE  Goes(c)
BY DEF Returns, Goes

LEMMA TryStartGoes ==
  ASSUME NEW c, NEW call, NEW s, NEW k, TryStart(c, call, s, k)
  PROVE  Goes(c)
BY ReturnsGoes DEF TryStart, Goes

LEMMA CloseGoes ==
  ASSUME NEW c, Close(c)
  PROVE  Goes(c)
BY ReturnsGoes DEF Close, Goes

\* What a user does to the session is no step of a comm, and makes no client
\* ready.
LEMMA UserGoes ==
  ASSUME CommIInv, NEW u \in Users, Start(u) \/ Restart(u) \/ Reset(u) \/ Terminate(u), ~ Returned,
         UNCHANGED ready
  PROVE  TypeOK' /\ ReadyOK' /\ StartsOnly' /\ NotThere'
<1>0. TypeOK /\ u \in Callers /\ u \notin Comms /\ Comms \subseteq Callers
  BY CallersAssumption DEF CommIInv, Users, Comms
<1>1. Goes(u)
  <2>1. CASE Start(u)
    BY <2>1, TryStartGoes DEF Start
  <2>2. CASE Restart(u)
    BY <2>2, TryStartGoes DEF Restart, Disconnect, Goes
  <2>3. CASE Reset(u)
    BY <2>3, TryStartGoes DEF Reset, Disconnect, ClearAndStart, Goes
  <2>4. CASE Terminate(u)
    BY <2>4, CloseGoes DEF Terminate, Goes
  <2> QED
    BY <2>1, <2>2, <2>3, <2>4
<1>2. \A t \in Comms : Bystands(t)
  BY <1>0, <1>1, OthersStand DEF Goes
<1>3. \A k \in Clients : info'[k] = "running" => info[k] = "running"
  BY <1>0 DEF TypeOK, Start, Restart, Reset, Terminate, Disconnect, clientVars
<1>4. [Next]_lifeVars
  BY <1>0 DEF Next
<1> QED
  BY <1>2, <1>3, <1>4, SessionSteps DEF CommIInv, ReadyOK

\* An operation that goes on: a comm's is a start.
LEMMA OperationGoes ==
  ASSUME CommIInv, NEW c \in Callers, OperationGoesOn(c), ~ Returned
  PROVE  TypeOK' /\ ReadyOK' /\ StartsOnly' /\ NotThere'
<1>0. TypeOK /\ Comms \subseteq Callers
  BY CallersAssumption DEF CommIInv, Comms
<1>1. [Next]_lifeVars
  BY DEF OperationGoesOn, StartsClient, Next, Continues
<1>2. Goes(c)
  <2>1. CASE \E k \in Clients : StartsClient(c, k)
    BY <2>1, ReturnsGoes DEF StartsClient, Launch
  <2>2. CASE StartupFails(c) \/ PrepareFails(c) \/ Undone(c)
    BY <2>2, ReturnsGoes DEF StartupFails, PrepareFails, Undone, Goes
  <2>3. CASE StopDone(c) \/ CloseDone(c)
    BY <2>3, ReturnsGoes, CloseGoes DEF StopDone, CloseDone
  <2>4. CASE Disconnected(c) \/ SettleFails(c)
    BY <2>4, ReturnsGoes DEF Disconnected, SettleFails, Goes
  <2>5. CASE RestartSettled(c) \/ ResetSettled(c)
    BY <2>5, TryStartGoes DEF RestartSettled, ResetSettled, ClearAndStart
  <2> QED
    BY <2>1, <2>2, <2>3, <2>4, <2>5 DEF OperationGoesOn
<1>3. \A t \in Comms \ {c} : Bystands(t)
  BY <1>0, <1>2, OthersStand DEF Goes
<1>4. ASSUME NEW k \in Clients, info'[k] = "running" PROVE k \in ready'
  <2>1. CASE \E j \in Clients : StartsClient(c, j)
    BY <2>1, <1>0, <1>4 DEF StartsClient, Launch, TypeOK, CommIInv, ReadyOK
  <2>2. CASE ready' = ready /\ info[k] = "running"
    BY <2>2 DEF CommIInv, ReadyOK
  <2>3. CASE ready' = ready /\ info[k] # "running"
    BY <2>3, <1>0, <1>4 DEF OperationGoesOn, StartsClient, Launch, StartupFails, PrepareFails, Undone,
       StopDone, CloseDone, Disconnected, SettleFails, RestartSettled, ResetSettled, LetsGo, clientVars, TypeOK
  <2> QED
    BY <2>1, <2>2, <2>3 DEF OperationGoesOn, Same
<1>5. ASSUME c \in Comms PROVE at'[c] \in Resting \union {"prepare", "undo"} /\ ResultOK(c)
  <2>0. at[c] \in Resting \union {"prepare", "undo"} /\ c \in Tasks
    BY <1>5 DEF CommIInv, StartsOnly, Comms
  <2>1. CASE \E k \in Clients : StartsClient(c, k)
    <3>1. Waits(c, "none", "yes", NoClient)
      BY <2>0, <2>1 DEF StartsClient, Launch, Returns
    <3>2. at'[c] = "yes"
      BY <1>0, <3>1, OthersStand
    <3> QED
      BY <3>2 DEF ResultOK, Resting, Results
  <2>2. CASE StartupFails(c)
    <3>1. at'[c] = "no" /\ st' = "error"
      BY <1>0, <2>0, <2>2, OthersStand DEF StartupFails, Returns
    <3> QED
      BY <3>1 DEF ResultOK, Resting, Results
  <2>3. CASE PrepareFails(c)
    <3>1. at'[c] \in {"no", "undo"} /\ st' = "error"
      BY <1>0, <2>0, <2>3, OthersStand DEF PrepareFails, Returns
    <3> QED
      BY <3>1 DEF ResultOK, Resting, Results
  <2>4. CASE Undone(c)
    <3>1. at'[c] \in {"no", "raised"} /\ reg' = NoClient
      BY <1>0, <2>0, <2>4, OthersStand DEF Undone, Returns
    <3> QED
      BY <3>1 DEF ResultOK, Resting, Results, Accepts
  <2> QED
    BY <2>0, <2>1, <2>2, <2>3, <2>4 DEF OperationGoesOn, StopDone, CloseDone, Disconnected, SettleFails,
       RestartSettled, ResetSettled, Resting, Results
<1> QED
  BY <1>1, <1>3, <1>4, <1>5, SessionSteps

\* A client that gets ready, fails or works.
LEMMA ClientGoes ==
  ASSUME CommIInv, NEW k \in Clients, GetsReady(k) \/ ClientMoves(k), ~ Returned
  PROVE  TypeOK' /\ ReadyOK' /\ StartsOnly' /\ NotThere'
<1>0. TypeOK
  BY DEF CommIInv
<1>1. ClientStep(k) /\ UNCHANGED callVars
  BY DEF GetsReady, ClientMoves, ClientStep, Enter, ConversationFails, ReaderFails, ReaderFoundDead,
     Exits, Respond, Ask, Answer
<1>2. \A t \in Comms : Bystands(t)
  BY <1>1 DEF callVars, Bystands
<1>3. ASSUME NEW j \in Clients, info'[j] = "running" PROVE j \in ready'
  <2>1. CASE GetsReady(k)
    BY <2>1, <1>0, <1>3 DEF GetsReady, Enter, ConversationFails, TypeOK, CommIInv, ReadyOK
  <2>2. CASE ClientMoves(k)
    BY <2>2, <1>0, <1>3 DEF ClientMoves, Same, ReaderFails, ReaderFoundDead, Exits, Respond, Ask, Answer,
       clientVars, TypeOK, CommIInv, ReadyOK
  <2> QED
    BY <2>1, <2>2
<1>4. [Next]_lifeVars
  BY <1>1 DEF Next
<1> QED
  BY <1>2, <1>3, <1>4, SessionSteps

\* A comm that sets out is a letter, whatever becomes of its files.
LEMMA SetsOut ==
  ASSUME CommIInv, NEW t \in Comms, NEW x \in Letters, NEW kept \in SUBSET Nat, Delivers(t, x, kept)
  PROVE  /\ mail' \in [Comms -> Letters] /\ mail'[t].prio = x.prio
         /\ \A u \in Comms \ {t} : mail'[u] = mail[u]
<1> DEFINE y == [x EXCEPT !.kept = kept]
<1>1. y \in Letters /\ y.prio = x.prio
  BY DEF Letters
<1>2. mail \in [Comms -> Letters] /\ mail' = [mail EXCEPT ![t] = y]
  BY DEF Delivers, CommIInv, CommOK, CommShape
<1> HIDE DEF y
<1> QED
  BY <1>1, <1>2

\* The letter of a comm that may be.
LEMMA MailIsLetter ==
  ASSUME NEW t \in Comms, NEW x \in Mails[t]
  PROVE  x \in Letters /\ DOMAIN x.files \subseteq Nat
<1>1. x \in Letters
  BY MailsAssumption DEF Sound
<1>2. PICK S : x.files \in Seq(S)
  BY <1>1 DEF Letters
<1> QED
  BY <1>1, <1>2

\* What route_comm does before it waits.
LEMMA RouteKeeps ==
  ASSUME CommIInv, ~ Returned, NEW t \in Comms, NEW x \in Letters, NEW kept \in SUBSET Nat, Route(t, x, kept)
  PROVE  CommIInv'
<1>0. TypeOK /\ CommOK /\ t \in Callers /\ t \in Tasks /\ Comms \subseteq Callers
  BY CallersAssumption DEF CommIInv, Comms
<1>1. mail' \in [Comms -> Letters] /\ mail'[t].prio = x.prio /\ \A u \in Comms \ {t} : mail'[u] = mail[u]
  BY SetsOut DEF Route
<1>2. step[t] = "new" /\ step[t] \notin Done
  BY DEF Route, Done
<1>3. UNCHANGED <<clientVars, ready>>
  BY DEF Route
<1>4. CASE /\ x.to = "user" /\ Becomes(t, "delivered")
           /\ UNCHANGED <<sessionVars, callVars, disturbed>>
  <2>1. CommOK'
    BY <1>0, <1>1, <1>2, <1>4, BecomesOK DEF Becomes, Steps, Done
  <2>2. TypeOK' /\ ReadyOK' /\ StartsOnly' /\ NotThere'
    BY <1>0, <1>3, <1>4, SessionRests DEF sessionVars, callVars, TypeOK
  <2> QED
    BY <2>1, <2>2 DEF CommIInv
<1>5. CASE (AwaitsReady(t, x.prio) \/ Proceeds(t, x.prio)) /\ UNCHANGED callVars
  <2>1. Tells(t, x.prio)
    BY <1>0, <1>5, SendsTells
  <2>2. CommOK'
    BY <1>0, <1>1, <1>2, <2>1, BecomesOK DEF Tells
  <2>3. TypeOK' /\ ReadyOK' /\ StartsOnly' /\ NotThere'
    BY <1>3, <1>5, <2>1, SessionRests DEF Tells, callVars
  <2> QED
    BY <2>2, <2>3 DEF CommIInv
<1>6. CASE st \notin {"starting", "active"} /\ Start(t) /\ Becomes(t, "starting")
  <2>1. CommOK'
    BY <1>0, <1>1, <1>2, <1>6, BecomesOK DEF Becomes, Steps, Done
  <2>2. [Next]_lifeVars
    BY <1>0, <1>6 DEF Next
  <2>3. \A k \in Clients : info'[k] = "running" => k \in ready'
    BY <1>3 DEF clientVars, CommIInv, ReadyOK
  <2>4. TryStart(t, "start", st, reg)
    BY <1>6 DEF Start
  <2>5. \A u \in Comms \ {t} : Bystands(u)
    BY <1>0, <2>4, TryStartGoes, OthersStand DEF Goes
  <2>6. at'[t] \in Resting \union {"prepare", "undo"} /\ ResultOK(t)
    <3>1. CASE st \notin Startable
      <4>1. at'[t] = "no" /\ st' = st
        BY <1>0, <2>4, <3>1, OthersStand DEF TryStart, Returns
      <4> QED
        BY <1>6, <4>1 DEF ResultOK, Resting, Results
    <3>2. CASE st \in Startable
      <4>1. at'[t] \in {"yes", "prepare"}
        BY <1>0, <2>4, <3>2, OthersStand DEF TryStart, Returns
      <4> QED
        BY <4>1 DEF ResultOK, Resting, Results
    <3> QED
      BY <3>1, <3>2
  <2>7. TypeOK' /\ ReadyOK' /\ StartsOnly' /\ NotThere'
    BY <2>2, <2>3, <2>5, <2>6, SessionSteps
  <2> QED
    BY <2>1, <2>7 DEF CommIInv
<1> QED
  BY <1>4, <1>5, <1>6 DEF Route

\* How a comm goes on that has set out.
LEMMA CommGoes ==
  ASSUME CommIInv, NEW t \in Comms, CommGoesOn(t)
  PROVE  CommIInv'
<1>0. TypeOK /\ CommOK
  BY DEF CommIInv
<1>1. mail' = mail /\ mail' \in [Comms -> Letters]
  BY <1>0 DEF CommGoesOn, StartReturned, Wakes, TimesOut, Interrupted, NoFiles, CommOK, CommShape
<1>2. step[t] \notin Done /\ UNCHANGED <<clientVars, kind, on, ready>>
  BY DEF CommGoesOn, StartReturned, Wakes, TimesOut, Interrupted, Done, callVars
<1>3. \/ Tells(t, mail[t].prio)
      \/ Refuses(t)
      \/ /\ \E s \in {"halted", "delivered", "refused"} : Becomes(t, s)
         /\ UNCHANGED <<st, reg, disturbed>> /\ processing' \in BOOLEAN
  <2>1. CASE StartReturned(t) \/ Wakes(t)
    BY <1>0, <2>1, SendsTells DEF StartReturned, Wakes
  <2>2. CASE TimesOut(t)
    BY <2>2 DEF TimesOut
  <2>3. CASE Interrupted(t)
    BY <2>3 DEF Interrupted, Accepts
  <2> QED
    BY <2>1, <2>2, <2>3 DEF CommGoesOn
<1>4. /\ \E s \in Steps, k \in Clients \union {NoClient} :
           BecomesWith(t, s, k) /\ (s = "interrupting" => mail[t].prio # "none")
      /\ UNCHANGED <<st, reg, disturbed>> /\ processing' \in BOOLEAN
  BY <1>0, <1>3 DEF Tells, Refuses, Becomes, Steps, Done, sessionVars, TypeOK
<1>5. CommOK'
  BY <1>0, <1>1, <1>2, <1>4, BecomesOK
<1>6. at' = at \/ \E u \in Comms : at[u] \in Results /\ at' = [at EXCEPT ![u] = "idle"]
  BY DEF CommGoesOn, StartReturned, Wakes, TimesOut, Interrupted, callVars
<1>7. TypeOK' /\ ReadyOK' /\ StartsOnly' /\ NotThere'
  BY <1>2, <1>4, <1>6, SessionRests
<1> QED
  BY <1>5, <1>7 DEF CommIInv

\* The server goes down.
LEMMA LegionRebootKeeps == CommIInv /\ LegionReboot => CommIInv'
<1> SUFFICES ASSUME CommIInv, LegionReboot PROVE CommIInv'
  OBVIOUS
<1>1. TypeOK'
  BY TypeNext DEF LegionReboot, CommIInv, Next
<1>2. CommShape'
  BY DEF LegionReboot, CommIInv, CommOK, CommShape, Steps, Done, All
<1>3. HasPriority' /\ ErrorsSaid'
  BY DEF LegionReboot, CommIInv, CommOK, CommShape, HasPriority, ErrorsSaid, Done
<1>4. \A c \in Callers : at'[c] = "idle"
  BY DEF LegionReboot, Reboot, All
<1>5. ReadyOK' /\ StartsOnly' /\ NotThere'
  BY <1>4, CallersAssumption DEF LegionReboot, Reboot, All, ReadyOK, StartsOnly, NotThere, Comms, Resting
<1> QED
  BY <1>1, <1>2, <1>3, <1>5 DEF CommIInv, CommOK

\* The strengthening is kept.
LEMMA CommNextKeeps == CommIInv /\ [CommNext]_commVars => CommIInv'
<1> SUFFICES ASSUME CommIInv, [CommNext]_commVars PROVE CommIInv'
  OBVIOUS
<1>0. TypeOK /\ CommOK
  BY DEF CommIInv
<1>1. ASSUME NEW t \in Comms, NEW x \in Mails[t], UserSends(t, x), ~ Returned PROVE CommIInv'
  <2>1. x \in Letters /\ {} \in SUBSET Nat
    BY MailIsLetter
  <2> QED
    BY <1>1, <2>1, RouteKeeps DEF UserSends
<1>2. ASSUME NEW t \in Comms, NEW x \in Mails[t], NEW kept \in SUBSET DOMAIN x.files,
             MinionSends(t, x, kept), ~ Returned
      PROVE  CommIInv'
  <2>1. x \in Letters /\ kept \in SUBSET Nat
    BY MailIsLetter
  <2> QED
    BY <1>2, <2>1, RouteKeeps DEF MinionSends
<1>3. ASSUME NEW t \in Comms, NEW x \in Mails[t], NEW n, Reject(t, x, n) PROVE CommIInv'
  <2>1. x \in Letters
    BY MailIsLetter
  <2>2. CommOK'
    BY <1>0, <1>3, <2>1 DEF Reject, CommOK, CommShape, HasPriority, ErrorsSaid, Steps, Done
  <2>3. TypeOK' /\ ReadyOK' /\ StartsOnly' /\ NotThere'
    BY <1>0, <1>3, SessionRests DEF Reject, lifeVars, sessionVars, callVars, TypeOK
  <2> QED
    BY <2>2, <2>3 DEF CommIInv
<1>4. ASSUME NEW t \in Comms, CommGoesOn(t) PROVE CommIInv'
  BY <1>4, CommGoes
<1>5. ASSUME NEW c \in Callers, OperationGoesOn(c), ~ Returned PROVE CommIInv'
  <2>1. awaits' \in [Comms -> Clients \union {NoClient}] /\ step' = step /\ UNCHANGED sentVars
    BY <1>0, <1>5 DEF OperationGoesOn, StartsClient, Same, NoComm, CommOK, CommShape
  <2>2. CommOK'
    BY <1>0, <2>1 DEF CommOK, CommShape, HasPriority, ErrorsSaid, sentVars
  <2> QED
    BY <1>5, <2>2, OperationGoes DEF CommIInv
<1>n. ASSUME NoComm PROVE CommOK'
  BY <1>0, <1>n, CommStays DEF NoComm, CommOK, CommShape
<1>6. ASSUME NEW k \in Clients, GetsReady(k) \/ ClientMoves(k), ~ Returned PROVE CommIInv'
  BY <1>6, <1>n, ClientGoes DEF GetsReady, ClientMoves, Same, CommIInv
<1>7. ASSUME NEW u \in Users, ~ Returned,
             SomebodyStarts(u) \/ SomebodyRestarts(u) \/ SomebodyResets(u) \/ EmergencyHalt(u)
      PROVE  CommIInv'
  BY <1>7, <1>n, UserGoes DEF SomebodyStarts, SomebodyRestarts, SomebodyResets, EmergencyHalt, UserCalls, CommIInv
<1>8. CASE ResumeAll
  <2>1. TypeOK' /\ ReadyOK' /\ StartsOnly' /\ NotThere'
    BY <1>8, SessionRests DEF ResumeAll, UserCalls, Accepts, callVars
  <2> QED
    BY <1>8, <2>1, <1>n DEF ResumeAll, UserCalls, CommIInv
<1>9. CASE LegionReboot
  BY <1>9, LegionRebootKeeps
<1>10. CASE UNCHANGED commVars
  <2>1. TypeOK' /\ ReadyOK' /\ StartsOnly' /\ NotThere'
    BY <1>0, <1>10, SessionRests DEF commVars, lifeVars, sessionVars, callVars, TypeOK
  <2>2. NoComm
    BY <1>10 DEF commVars, NoComm
  <2> QED
    BY <2>1, <2>2, <1>n DEF CommIInv
<1> QED
  BY <1>1, <1>2, <1>3, <1>4, <1>5, <1>6, <1>7, <1>8, <1>9, <1>10 DEF CommNext, CommGoesOn

\* It holds at the start.
LEMMA CommStarts == CommInit => CommIInv
<1> SUFFICES ASSUME CommInit PROVE CommIInv
  OBVIOUS
<1>1. TypeOK
  BY TypeInit DEF CommInit
<1>2. NoMail \in Letters
  <2>1. <<>> \in Seq([name : STRING, text : STRING])
    OBVIOUS
  <2> QED
    BY <2>1 DEF NoMail, Letters, Priorities
<1>3. CommShape
  BY <1>2 DEF CommInit, CommShape, All, Steps
<1>4. HasPriority /\ ErrorsSaid
  BY DEF CommInit, HasPriority, ErrorsSaid, All
<1>5. \A c \in Callers : at[c] = "idle"
  BY DEF CommInit, Init, All
<1>6. ReadyOK /\ StartsOnly /\ NotThere
  BY <1>5, CallersAssumption DEF CommInit, Init, All, ReadyOK, StartsOnly, NotThere, Comms, Resting
<1> QED
  BY <1>1, <1>3, <1>4, <1>6 DEF CommIInv, CommOK

LEMMA AlwaysCommIInv == CommSpec => []CommIInv
BY CommStarts, CommNextKeeps, PTL DEF CommSpec

\* A comm that sets out or goes on is refused only when its minion is not there to
\* take it, or when the client it waits for is another one.
LEMMA RefusedRightly ==
  ASSUME CommIInv, NEW t \in Comms, st = "active", Accepts, step[t] # "refused", step'[t] = "refused",
         CommGoesOn(t) \/ \E x \in Letters, kept \in SUBSET Nat : Route(t, x, kept)
  PROVE  step[t] = "waiting" /\ awaits[t] # reg
<1>0. TypeOK /\ step \in [Comms -> Steps]
  BY DEF CommIInv, CommOK, CommShape
<1>t. ASSUME NEW s, NEW k, BecomesWith(t, s, k) PROVE step'[t] = s
  BY <1>0, <1>t DEF BecomesWith
<1>a. ASSUME NEW p, Sends(t) \/ Proceeds(t, p) \/ AwaitsReady(t, p) PROVE FALSE
  BY <1>0, <1>a, <1>t, SendsTells DEF Tells
<1>1. CASE StartReturned(t)
  <2>1. at[t] = "yes"
    BY <1>1 DEF StartReturned, Results, CommIInv, NotThere
  <2> QED
    BY <1>1, <2>1, <1>a DEF StartReturned
<1>2. CASE Wakes(t)
  BY <1>2, <1>a DEF Wakes
<1>3. CASE TimesOut(t)
  <2>1. reg \in Clients /\ reg \in ready
    BY <1>0 DEF Accepts, CommIInv, ReadyOK, TypeOK
  <2> QED
    BY <1>3, <2>1 DEF TimesOut
<1>4. CASE Interrupted(t)
  <2>1. mail[t].prio \in {"halt", "pivot"}
    BY <1>4 DEF Interrupted, CommIInv, CommOK, CommShape, HasPriority, Letters, Priorities
  <2>2. Becomes(t, "halted") \/ Becomes(t, "delivered")
    BY <1>4, <2>1 DEF Interrupted
  <2> QED
    BY <2>2, <1>t DEF Becomes
<1>5. CASE \E x \in Letters, kept \in SUBSET Nat : Route(t, x, kept)
  <2>1. PICK x \in Letters, kept \in SUBSET Nat : Route(t, x, kept)
    BY <1>5
  <2>2. Becomes(t, "delivered") \/ AwaitsReady(t, x.prio) \/ Proceeds(t, x.prio) \/ Becomes(t, "starting")
    BY <2>1 DEF Route
  <2> QED
    BY <2>2, <1>a, <1>t DEF Becomes
<1> QED
  BY <1>1, <1>2, <1>3, <1>4, <1>5 DEF CommGoesOn

\* Nobody else refuses a comm, and nothing is taken from the timeline.
LEMMA RefusedByItself ==
  ASSUME CommIInv, CommNext, NEW t \in Comms
  PROVE  /\ \/ step'[t] \in {step[t], "lost", "rejected"}
            \/ CommGoesOn(t)
            \/ \E x \in Letters, kept \in SUBSET Nat : Route(t, x, kept)
         /\ timeline \subseteq timeline'
<1>0. step \in [Comms -> Steps]
  BY DEF CommIInv, CommOK, CommShape
<1>b. ASSUME NEW u \in Comms, NEW s, NEW k, BecomesWith(u, s, k)
      PROVE  timeline \subseteq timeline' /\ (u # t => step'[t] = step[t])
  BY <1>0, <1>b DEF BecomesWith, Writes
<1>a. ASSUME NEW u \in Comms, NEW p, Sends(u) \/ Proceeds(u, p) \/ AwaitsReady(u, p)
      PROVE  timeline \subseteq timeline' /\ (u # t => step'[t] = step[t])
  BY <1>a, <1>b, SendsTells DEF Tells, CommIInv
<1>1. ASSUME NEW u \in Comms, NEW x \in Letters, NEW kept \in SUBSET Nat, Route(u, x, kept)
      PROVE  timeline \subseteq timeline' /\ (u # t => step'[t] = step[t])
  BY <1>1, <1>a, <1>b DEF Route, Becomes
<1>2. ASSUME NEW u \in Comms, NEW x \in Mails[u],
             UserSends(u, x) \/ \E kept \in SUBSET DOMAIN x.files : MinionSends(u, x, kept)
      PROVE  \E y \in Letters, kept \in SUBSET Nat : Route(u, y, kept)
  <2>1. x \in Letters /\ DOMAIN x.files \subseteq Nat
    BY MailIsLetter
  <2> QED
    BY <1>2, <2>1 DEF UserSends, MinionSends
<1>3. ASSUME NEW u \in Comms, CommGoesOn(u)
      PROVE  timeline \subseteq timeline' /\ (u # t => step'[t] = step[t])
  BY <1>3, <1>a, <1>b DEF CommGoesOn, StartReturned, Wakes, TimesOut, Interrupted, Refuses, Becomes
<1>4. ASSUME NEW u \in Comms, NEW x, NEW n, Reject(u, x, n)
      PROVE  step'[t] \in {step[t], "rejected"} /\ timeline' = timeline
  BY <1>0, <1>4 DEF Reject
<1>5. ASSUME \/ \E c \in Callers : OperationGoesOn(c)
             \/ \E k \in Clients : GetsReady(k) \/ ClientMoves(k)
             \/ \E u \in Users : \/ SomebodyStarts(u) \/ SomebodyRestarts(u)
                                 \/ SomebodyResets(u) \/ EmergencyHalt(u)
             \/ ResumeAll
      PROVE  step' = step /\ timeline' = timeline
  BY <1>5 DEF OperationGoesOn, StartsClient, GetsReady, ClientMoves, SomebodyStarts, SomebodyRestarts,
     SomebodyResets, EmergencyHalt, ResumeAll, UserCalls, Same, NoComm, sentVars
<1>6. ASSUME LegionReboot PROVE step'[t] \in {step[t], "lost"} /\ timeline' = timeline
  BY <1>6 DEF LegionReboot
<1> QED
  BY <1>1, <1>2, <1>3, <1>4, <1>5, <1>6 DEF CommNext, CommGoesOn

\* ReachesActive: a comm is not given up while its minion is there to take it,
\* however operations overlap, and one whose sender was told of an error is not
\* delivered after all (route_comm, _send_to_minion).
THEOREM CommsReach == CommSpec => ReachesActive
<1>1. CommIInv /\ CommIInv' /\ [CommNext]_commVars =>
        [\A t \in Comms :
           /\ /\ step[t] # "refused" /\ step'[t] = "refused"
              /\ st = "active" /\ Accepts
              => step[t] = "waiting" /\ awaits[t] # reg
           /\ <<t, "error">> \in timeline =>
                step'[t] = "refused" /\ <<t, "comm">> \in timeline]_commVars
  <2> SUFFICES ASSUME CommIInv, CommIInv', CommNext, NEW t \in Comms
               PROVE  /\ /\ step[t] # "refused" /\ step'[t] = "refused"
                         /\ st = "active" /\ Accepts
                         => step[t] = "waiting" /\ awaits[t] # reg
                      /\ <<t, "error">> \in timeline =>
                           step'[t] = "refused" /\ <<t, "comm">> \in timeline
    OBVIOUS
  <2>1. ASSUME step[t] # "refused", step'[t] = "refused", st = "active", Accepts
        PROVE  step[t] = "waiting" /\ awaits[t] # reg
    BY <2>1, RefusedByItself, RefusedRightly
  <2>2. ASSUME <<t, "error">> \in timeline
        PROVE  step'[t] = "refused" /\ <<t, "comm">> \in timeline
    BY <2>2, RefusedByItself DEF CommIInv, CommOK, ErrorsSaid
  <2> QED
    BY <2>1, <2>2
<1> QED
  BY <1>1, AlwaysCommIInv, PTL DEF CommSpec, ReachesActive
============================================================================
