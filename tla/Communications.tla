--------------------------- MODULE Communications ---------------------------
(***************************************************************************)
(* Comms to one minion (src/legion/comm_router.py): a message from a user  *)
(* or another minion, with files, that is written to the timeline, starts  *)
(* the session of the minion when it has to, waits for its client with a   *)
(* limit, and interrupts it if it is urgent.                               *)
(* The session is that of SessionLifecycle, which users start, restart,    *)
(* reset and halt in the meantime; a comm that starts it is one of the     *)
(* callers.                                                                *)
(*                                                                         *)
(* What a comm says is not modelled; neither is that the error comm for a  *)
(* comm that is refused goes on from the timeline to the sender's session. *)
(***************************************************************************)
EXTENDS SessionLifecycle, SequencesExt

CONSTANTS MaxCalls, \* bound: the operations users call in all
          Mails     \* bound: per comm, what it may be

Comms == Tasks
Priorities == {"none", "halt", "pivot"}

Letters ==
  [from : {"user", "minion"}, to : {"user", "minion"}, prio : Priorities,
   files : Seq([name : STRING, text : STRING]), kept : SUBSET Nat]

\* A minion sends with its tool; what the user sends has no priority or files.
\* The other party is the minion of SessionLifecycle, or the user.
Sound(x) ==
  /\ x \in Letters /\ x.kept = {}
  /\ x.from = "user" => x.prio = "none" /\ x.files = <<>>
NoMail == [from |-> "user", to |-> "user", prio |-> "none", files |-> <<>>, kept |-> {}]

ASSUME MaxCallsAssumption == MaxCalls \in Nat
ASSUME MailsAssumption == \A t \in Comms : \A x \in Mails[t] : Sound(x)

VARIABLES step,     \* per comm: how far it is
          mail,     \* per comm: what it is, with the files that are kept for it
          awaits,   \* per comm: the client whose _ready_event it waits for
          ready,    \* the clients whose _ready_event is set
          calls,    \* the operations that users have called
          timeline, \* the comms in timeline.jsonl, and the errors about them
          gallery,  \* the files in resources.jsonl, of the sender and of the minion
          readable  \* _uploaded_file_paths: files the minion reads without asking
sentVars == <<mail, timeline, gallery, readable>>
commVars == <<lifeVars, step, awaits, ready, calls, sentVars>>

Done == {"delivered", "halted", "refused", "lost", "rejected"}
Steps == {"new", "starting", "waiting", "interrupting"} \union Done

\* A comm goes on as soon as its call of start_session returns.
Returned == \E t \in Comms : at[t] \in Results

\* A minion whose comm is refused is told so by an error comm.
ErrorComm(t) == IF mail'[t].from = "minion" THEN {<<t, "error">>} ELSE {}
Writes(t, s) ==
  timeline' = timeline \union {<<t, "comm">>} \union (IF s = "refused" THEN ErrorComm(t) ELSE {})

BecomesWith(t, s, k) ==
  /\ step' = [step EXCEPT ![t] = s]
  /\ awaits' = [awaits EXCEPT ![t] = k]
  /\ Writes(t, s)
Becomes(t, s) == BecomesWith(t, s, NoClient)

Refuses(t) == Becomes(t, "refused") /\ UNCHANGED <<sessionVars, disturbed>>

-----------------------------------------------------------------------------
(* _send_to_minion                                                         *)

\* send_message of the coordinator, which waits for the session's lock.
Sends(t) ==
  IF reg = NoClient
  THEN Refuses(t)
  ELSE /\ ~ Locked
       /\ processing' = Accepts
       /\ Becomes(t, IF Accepts THEN "delivered" ELSE "refused")
       /\ UNCHANGED <<st, reg, disturbed>>

\* The client is ready, or so it seems: the minion is interrupted first if the
\* comm asks for it and the minion can be.  One that halts is not delivered.
Proceeds(t, p) ==
  IF p = "none" THEN Sends(t)
  ELSE IF reg # NoClient /\ (st = "active" \/ processing)
  THEN Becomes(t, "interrupting") /\ UNCHANGED <<sessionVars, disturbed>>
  ELSE IF p = "halt"
  THEN Becomes(t, "halted") /\ UNCHANGED <<sessionVars, disturbed>>
  ELSE Sends(t)

\* wait_for_session_ready
AwaitsReady(t, p) ==
  IF reg = NoClient THEN Refuses(t)
  ELSE IF info[reg] = "running" THEN Proceeds(t, p)
  ELSE BecomesWith(t, "waiting", reg) /\ UNCHANGED <<sessionVars, disturbed>>

\* What the tool of the sender reads goes into the sender's gallery at once.
Registered(t, files) ==
  {[of |-> "sender", comm |-> t, name |-> f.name, text |-> f.text] : f \in ToSet(files)}

\* A comm that does not set out: to somebody who is not there or not in sight,
\* or with a file that is not fit, when those before it have been read.
Reject(t, x, n) ==
  /\ step[t] = "new" /\ x.from = "minion" /\ n \in 0 .. Len(x.files)
  /\ step' = [step EXCEPT ![t] = "rejected"]
  /\ mail' = [mail EXCEPT ![t] = x]
  /\ gallery' = gallery \union Registered(t, SubSeq(x.files, 1, n))
  /\ UNCHANGED <<lifeVars, awaits, ready, calls, timeline, readable>>

\* The tool keeps what it has read by name: the last file of a name is
\* delivered for each of them.
Text(files, name) == files[Max({i \in DOMAIN files : files[i].name = name})].text

RegisterUploaded(t, kept) == readable' = readable \union ({t} \X kept)

\* _deliver_attachments, which may fail for any of them.
Delivers(t, x, kept) ==
  /\ mail' = [mail EXCEPT ![t] = [x EXCEPT !.kept = kept]]
  /\ gallery' = gallery \union Registered(t, x.files) \union
       {[of |-> "minion", comm |-> t, name |-> x.files[i].name,
         text |-> Text(x.files, x.files[i].name)] : i \in kept}
  /\ RegisterUploaded(t, kept)

\* route_comm: its files are delivered and it is written to the timeline; then
\* what _send_to_minion does before it first waits.
Route(t, x, kept) ==
  /\ step[t] = "new"
  /\ Delivers(t, x, kept)
  /\ IF x.to = "user"
     THEN kept = {} /\ Becomes(t, "delivered") /\ UNCHANGED <<sessionVars, callVars, disturbed>>
     ELSE CASE st = "starting" -> AwaitsReady(t, x.prio) /\ UNCHANGED callVars
            [] st = "active" -> Proceeds(t, x.prio) /\ UNCHANGED callVars
            [] OTHER -> Start(t) /\ Becomes(t, "starting")
  /\ UNCHANGED <<clientVars, ready, calls>>

UserSends(t, x) == x.from = "user" /\ Route(t, x, {})
MinionSends(t, x, kept) == x.from = "minion" /\ Route(t, x, kept)

NoFiles == UNCHANGED <<mail, gallery, readable>>

StartReturned(t) ==
  /\ step[t] = "starting" /\ at[t] \in Results
  /\ NoFiles
  /\ IF at[t] = "yes" THEN AwaitsReady(t, mail[t].prio) ELSE Refuses(t)
  /\ at' = [at EXCEPT ![t] = "idle"]
  /\ UNCHANGED <<clientVars, kind, on, ready, calls>>

Wakes(t) ==
  /\ step[t] = "waiting" /\ awaits[t] \in ready
  /\ NoFiles
  /\ Proceeds(t, mail[t].prio)
  /\ UNCHANGED <<clientVars, callVars, ready, calls>>

\* Faulty: it waits again.
TimesOutAgain(t) ==
  /\ step[t] = "waiting" /\ awaits[t] \notin ready
  /\ UNCHANGED commVars

\* Sixty seconds, or thirty for the minion it has started itself.
TimesOut(t) ==
  /\ step[t] = "waiting" /\ awaits[t] \notin ready
  /\ NoFiles
  /\ Refuses(t)
  /\ UNCHANGED <<clientVars, callVars, ready, calls>>

\* The client has answered the interrupt, or the interrupt has failed.
Interrupted(t) ==
  /\ step[t] = "interrupting" /\ ~ Locked
  /\ NoFiles
  /\ LET p == mail[t].prio IN
     /\ processing' = (p = "pivot" /\ Accepts)
     /\ Becomes(t, CASE p = "halt" -> "halted"
                     [] p = "pivot" /\ Accepts -> "delivered"
                     [] OTHER -> "refused")
  /\ UNCHANGED <<st, reg, clientVars, callVars, disturbed, ready, calls>>

-----------------------------------------------------------------------------
(* The session goes on.                                                    *)

NoComm == UNCHANGED <<step, awaits, sentVars>>
Same == NoComm /\ UNCHANGED <<ready, calls>>

\* The start of a client clears its event.  The object of a client that was
\* cancelled before it was ready may be another one: nobody is woken by it.
StartsClient(c, k) ==
  /\ Launch(c, k)
  /\ \A t \in Comms : awaits[t] = k => k \notin ready
  /\ ready' = ready \ {k}
  /\ awaits' = [t \in Comms |-> IF awaits[t] = k THEN NoClient ELSE awaits[t]]
  /\ UNCHANGED <<step, sentVars, calls>>

OperationGoesOn(c) ==
  \/ \E k \in Clients : StartsClient(c, k)
  \/ /\ \/ StartupFails(c) \/ PrepareFails(c) \/ Undone(c)
        \/ StopDone(c) \/ CloseDone(c) \/ Disconnected(c)
        \/ SettleFails(c) \/ RestartSettled(c) \/ ResetSettled(c)
     /\ Same

\* Faulty: only a failure sets the event.
GetsReadyUnsaid(k) ==
  \/ Enter(k) /\ Same
  \/ ConversationFails(k) /\ ready' = ready \union {k} /\ NoComm /\ UNCHANGED calls

\* The event is set when the client is ready and when its task fails, but not
\* when it is cancelled.
GetsReady(k) ==
  /\ Enter(k) \/ ConversationFails(k)
  /\ ready' = ready \union {k}
  /\ NoComm /\ UNCHANGED calls

ClientMoves(k) ==
  /\ \/ ReaderFails(k) \/ ReaderFoundDead(k) \/ Exits(k)
     \/ Respond(k) \/ Ask(k) \/ Answer(k)
  /\ Same

UserCalls ==
  /\ calls < MaxCalls /\ calls' = calls + 1
  /\ NoComm /\ UNCHANGED ready

SomebodyStarts(u) == UserCalls /\ Start(u)
SomebodyRestarts(u) == UserCalls /\ Restart(u)
SomebodyResets(u) == UserCalls /\ Reset(u)

\* emergency_halt_all, for this session.
EmergencyHalt(u) == UserCalls /\ st # "terminated" /\ Terminate(u)

\* resume_all tells the session to continue.
ResumeAll ==
  /\ UserCalls
  /\ st = "active" /\ reg # NoClient /\ ~ Locked
  /\ processing' = Accepts
  /\ UNCHANGED <<st, reg, clientVars, callVars, disturbed>>

\* Comms that are under way are gone with the server, and so is what may be read.
LegionReboot ==
  /\ Reboot
  /\ step' = [t \in Comms |-> IF step[t] \in Done \union {"new"} THEN step[t]
                              ELSE "lost"]
  /\ awaits' = All(Comms, NoClient)
  /\ ready' = {} /\ readable' = {}
  /\ UNCHANGED <<mail, timeline, gallery, calls>>

-----------------------------------------------------------------------------
CommInit ==
  /\ Init
  /\ step = All(Comms, "new") /\ mail = All(Comms, NoMail)
  /\ awaits = All(Comms, NoClient) /\ ready = {} /\ calls = 0
  /\ timeline = {} /\ gallery = {} /\ readable = {}

CommGoesOn(t) == StartReturned(t) \/ Wakes(t) \/ TimesOut(t) \/ Interrupted(t)

CommNext ==
  \/ \E t \in Comms : StartReturned(t)
  \/ /\ ~ Returned
     /\ \/ \E t \in Comms : \E x \in Mails[t] :
             \/ UserSends(t, x)
             \/ \E kept \in SUBSET DOMAIN x.files : MinionSends(t, x, kept)
             \/ \E n \in 0 .. Len(x.files) : Reject(t, x, n)
        \/ \E t \in Comms : Wakes(t) \/ TimesOut(t) \/ Interrupted(t)
        \/ \E c \in Callers : OperationGoesOn(c)
        \/ \E k \in Clients : GetsReady(k) \/ ClientMoves(k)
        \/ \E u \in Users : \/ SomebodyStarts(u) \/ SomebodyRestarts(u)
                            \/ SomebodyResets(u) \/ EmergencyHalt(u)
        \/ ResumeAll
        \/ LegionReboot

\* As in SessionLifecycle; and time limits pass, clients answer or fail to
\* answer an interrupt, and a comm that waits for the session's lock gets it.
CommFairness ==
  /\ \A t \in Comms : SF_commVars(CommGoesOn(t))
  /\ \A c \in Callers : SF_commVars(~ Returned /\ OperationGoesOn(c))
  /\ \A k \in Clients : WF_commVars(~ Returned /\ (GetsReady(k) \/ (Exits(k) /\ Same)))

CommSpec == CommInit /\ [][CommNext]_commVars /\ CommFairness

-----------------------------------------------------------------------------
\* A comm is not given up while its minion is there to take it, whoever else
\* starts, asks or interrupts the minion, however operations on the session
\* overlap and however late its client gets ready (route_comm): it is refused
\* only when the client it waits for has been replaced.  A minion that has read
\* in the timeline that its comm failed may send it again: it is not delivered
\* after all.
ReachesActive ==
  [][\A t \in Comms :
       /\ /\ step[t] # "refused" /\ step'[t] = "refused"
          /\ st = "active" /\ Accepts
          => step[t] = "waiting" /\ awaits[t] # reg
       /\ <<t, "error">> \in timeline =>
            step'[t] = "refused" /\ <<t, "comm">> \in timeline]_commVars

\* Every comm is answered: nobody who sends one waits for ever, whatever becomes
\* of the session and of its clients while the comm waits for them.
RoutesEnd ==
  \A t \in Comms : step[t] \in Steps \ (Done \union {"new"}) ~> step[t] \in Done
=============================================================================
