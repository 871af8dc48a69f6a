------------------------------ MODULE Scheduler ------------------------------
(***************************************************************************)
(* The schedules of src/legion/scheduler_service.py: the tick that fires   *)
(* what is due, the fires that are under way, run_now, the operations of   *)
(* the user (src/routers/schedules.py) and of the minions                  *)
(* (src/legion/mcp/legion_mcp_tools.py), the file that survives a crash of *)
(* the server, and the agents of ephemeral schedules with the monitors     *)
(* that watch them.                                                        *)
(*                                                                         *)
(* A fire waits while a session starts, while a script runs and, since a   *)
(* rotation of the history may have the lock, while it records what it has *)
(* done; everything else happens without a wait.  Time is abstract: a time *)
(* that has come stays due until the schedule is given another.            *)
(***************************************************************************)
EXTENDS Naturals, FiniteSets

CONSTANTS Schedules,
          Monitors,   \* monitors that may be there at once
          None,
          Unlimited,  \* a repeat_count of None
          Repeats,    \* the repeat_counts that a schedule may be given
          MaxRetries, \* max_retries
          MaxFires,   \* bound: fires are counted up to here
          Mixes,      \* bound: the kinds of the schedules that are there together
          Handled,    \* bound: the mixes that are handled, whose agents are asked
                      \* and stopped, and that see the server crash
          Raising     \* bound: the mixes in which fires raise exceptions

ASSUME RepeatsAssumption == Repeats \subseteq (1 .. MaxFires) \union {Unlimited}
ASSUME BoundsAssumption == MaxFires \in Nat /\ MaxRetries \in Nat
ASSUME NoneAssumption == None \notin Schedules

Kinds == {"prompt", "ephemeral", "script"}
ASSUME MixesAssumption == Mixes \subseteq [Schedules -> Kinds \union {None}]

\* The tick may come to a script again that it fires still: run_now, whose own
\* run of the script ends first, takes it off the set of those under way.
\* Bound: no third time, and run_now has a schedule once at a time.
Triggers == {"cron", "again", "manual"}
OfTick == {"cron", "again"}

VARIABLES kind,      \* schedule_type and session_config: fixed; None: never created
          sch,       \* the Schedule objects
          known,     \* _schedules
          born,      \* history: the schedules that have been created
          file,      \* the records in schedules.json
          saved,     \* the schedules in schedules.json
          todo,      \* the schedules that the tick under way has yet to look at
          at,        \* per schedule and trigger: where its fire is
          before,    \* per schedule: saved_next_run of run_now
          inflight,  \* _inflight_scripts_by_session
          agent,     \* per ephemeral schedule: the state of its session
          busy,      \* per ephemeral schedule: whether its agent has work
          watch,     \* per monitor: its schedule
          mon,       \* per monitor: where it is
          handed,    \* history: prompts and scripts handed over
          taken,     \* history: the schedules whose time has been taken by a fire
          raced,     \* history, see Races
          broken     \* whether the last tick was ended by an exception
fileVars == <<file, saved>>
fireVars == <<at, before, inflight>>
agentVars == <<agent, busy>>
monVars == <<watch, mon>>
histVars == <<handed, taken, raced>>
tickVars == <<todo, broken>>
schedVars == <<kind, sch, known, born, fileVars, tickVars, fireVars, agentVars, monVars, histVars>>

Up(n) == IF n < MaxFires THEN n + 1 ELSE n
Manual(s) == at[s]["manual"] # "idle"

\* The counts and times are promised as long as nothing else happens to a
\* schedule while run_now has it.
Races(s, cond) == raced' = IF cond THEN raced \union {s} ELSE raced

\* _persist_schedules, with the schedules that are known by now.
Persist ==
  /\ file' = [s \in Schedules |-> IF s \in known' THEN sch'[s] ELSE file[s]]
  /\ saved' = known'

-----------------------------------------------------------------------------
(* What a fire does to its schedule.                                       *)

Counted(r) == [r EXCEPT !.count = Up(@)]
\* get_next_run
Recomputed(r) == IF r.status = "active" THEN [r EXCEPT !.next = "later"] ELSE r
\* Faulty: the time of a fire that succeeds is left as it is.
FireSucceedsSame(r) == [r EXCEPT !.fails = 0]
FireSucceeds(r) == Recomputed([r EXCEPT !.fails = 0])
FailedOnce(r) == [r EXCEPT !.fails = IF @ > MaxRetries THEN @ ELSE @ + 1]
Suspended(r) == [r EXCEPT !.status = "paused", !.next = "none"]
\* _handle_retry: also a schedule that has been paused is given a time.
FireFails(r) ==
  LET f == FailedOnce(r)
  IN  IF f.fails <= MaxRetries THEN [f EXCEPT !.next = "later"] ELSE Suspended(f)
\* A script that fails waits for its next time.
ScriptFails(r) ==
  LET f == FailedOnce(r)
  IN  IF f.fails <= MaxRetries THEN Recomputed(f) ELSE Suspended(f)

GoTo(s, g, place) == at' = [at EXCEPT ![s][g] = place]

-----------------------------------------------------------------------------
(* _fire_schedule and _fire_script_schedule, up to their first wait.       *)

FirePrompt(s, g) ==
  /\ kind[s] = "prompt" /\ UNCHANGED known
  /\ GoTo(s, g, "recording")
  /\ \/ /\ sch' = [sch EXCEPT ![s] = FireSucceeds(Counted(@))]
        /\ handed' = [handed EXCEPT ![s] = Up(@)]
     \/ sch' = [sch EXCEPT ![s] = FireFails(Counted(@))] /\ UNCHANGED handed
  /\ Persist
  /\ UNCHANGED <<inflight, agentVars>>

\* A session that is paused, for a permission, is not among those left alone.
Running(s) == agent[s] \in {"starting", "active"}

FireEphemeral(s, g) ==
  /\ kind[s] = "ephemeral" /\ ~ Running(s) /\ UNCHANGED known
  /\ GoTo(s, g, "starting")
  /\ sch' = [sch EXCEPT ![s] = Counted(@)] /\ Persist
  /\ agent' = IF agent[s] = "down" THEN [agent EXCEPT ![s] = "starting"] ELSE agent
  /\ UNCHANGED <<inflight, busy, handed>>

\* Faulty: the count is written with what has become of the script.
FireScriptUncounted(s, g) ==
  /\ kind[s] = "script" /\ UNCHANGED known
  /\ GoTo(s, g, "running")
  /\ sch' = [sch EXCEPT ![s] = Counted(@)]
  /\ UNCHANGED fileVars
  /\ inflight' = inflight \union {s}
  /\ handed' = [handed EXCEPT ![s] = Up(@)]
  /\ UNCHANGED agentVars

FireScript(s, g) ==
  /\ kind[s] = "script" /\ UNCHANGED known
  /\ GoTo(s, g, "running")
  /\ sch' = [sch EXCEPT ![s] = Counted(@)] /\ Persist
  /\ inflight' = inflight \union {s}
  /\ handed' = [handed EXCEPT ![s] = Up(@)]
  /\ UNCHANGED agentVars

Fire(s, g) == FirePrompt(s, g) \/ FireEphemeral(s, g) \/ FireScript(s, g)

-----------------------------------------------------------------------------
(* The tick.                                                               *)

Due(s) == sch[s].status = "active" /\ sch[s].next = "due"
\* The tick waits for a fire that is not a script's.
TickWaits == \E s \in Schedules, g \in OfTick : kind[s] # "script" /\ at[s][g] # "idle"
Looks(s) == s \in todo /\ ~ TickWaits /\ todo' = todo \ {s} /\ UNCHANGED broken

TickStarts ==
  /\ todo = {} /\ ~ TickWaits /\ todo' = known /\ broken' = FALSE
  /\ UNCHANGED <<kind, sch, known, born, fileVars, fireVars, agentVars, monVars, histVars>>

TickPasses(s) ==
  /\ Looks(s) /\ ~ Due(s)
  /\ UNCHANGED <<kind, sch, known, born, fileVars, fireVars, agentVars, monVars, histVars>>

\* Faulty: a time that is skipped stays due.
TickSkipsKept(s) ==
  /\ Looks(s) /\ Due(s)
  /\ (kind[s] = "script" /\ s \in inflight) \/ (kind[s] = "ephemeral" /\ Running(s))
  /\ Races(s, Manual(s))
  /\ UNCHANGED <<kind, sch, known, born, fileVars, fireVars, agentVars, monVars, handed, taken>>

\* The run before is still under way: its time is skipped.
TickSkips(s) ==
  /\ Looks(s) /\ Due(s)
  /\ sch' = [sch EXCEPT ![s] = Recomputed(@)]
  /\ \/ kind[s] = "script" /\ s \in inflight /\ UNCHANGED <<known, fileVars>>
     \/ kind[s] = "ephemeral" /\ Running(s) /\ UNCHANGED known /\ Persist
  /\ Races(s, Manual(s))
  /\ UNCHANGED <<kind, born, fireVars, agentVars, monVars, handed, taken>>

\* A schedule that was deleted after the tick had begun is fired as well.
TickFires(s) ==
  /\ Looks(s) /\ Due(s) /\ s \notin inflight
  /\ \E g \in OfTick : at[s][g] = "idle" /\ Fire(s, g)
  /\ taken' = taken \union {s}
  /\ Races(s, Manual(s))
  /\ UNCHANGED <<kind, born, before, monVars>>

\* An exception in a fire that it waits for ends the tick: those that it has not
\* come to by then have to wait for the next one.
Breaks == todo' = {} /\ broken' = TRUE

\* The fire gets no further than its agent, or than its count.
TickBreaks(s) ==
  /\ kind \in Raising
  /\ s \in todo /\ ~ TickWaits /\ Due(s) /\ kind[s] # "script" /\ Breaks
  /\ sch' = sch \/ sch' = [sch EXCEPT ![s] = Counted(@)]
  /\ UNCHANGED <<kind, known, born, fileVars, fireVars, agentVars, monVars, histVars>>

\* The time of a schedule comes; to a tick under way it is still to come.
TimePasses(s) ==
  /\ todo = {} /\ ~ TickWaits /\ sch[s].next = "later"
  /\ sch' = [sch EXCEPT ![s].next = "due"]
  /\ taken' = taken \ {s}
  /\ UNCHANGED <<kind, known, born, fileVars, tickVars, fireVars, agentVars, monVars, handed, raced>>

-----------------------------------------------------------------------------
(* The rest of a fire.                                                     *)

\* A new task; which one makes no difference.
FreeMonitors == {m \in Monitors : watch[m] = None}
NewMonitor == CHOOSE m \in FreeMonitors : TRUE

\* The session has been asked to start; whether it does or not, the prompt goes
\* to its queue, and a monitor is set on it.
StartReturns(s, g) ==
  /\ at[s][g] = "starting"
  /\ GoTo(s, g, "recording")
  /\ \/ /\ sch' = [sch EXCEPT ![s] = FireSucceeds(@)]
        /\ handed' = [handed EXCEPT ![s] = Up(@)]
        /\ busy' = [busy EXCEPT ![s] = TRUE]
        /\ FreeMonitors # {}
        /\ watch' = [watch EXCEPT ![NewMonitor] = s] /\ mon' = [mon EXCEPT ![NewMonitor] = "watching"]
     \/ sch' = [sch EXCEPT ![s] = FireFails(@)] /\ UNCHANGED <<handed, busy, monVars>>
  /\ UNCHANGED known /\ Persist
  /\ UNCHANGED <<kind, born, tickVars, before, inflight, agent, taken, raced>>

\* Whether its output goes to the queue makes no difference to the schedule.
ScriptReturns(s, g) ==
  /\ at[s][g] = "running"
  /\ GoTo(s, g, "recording")
  /\ sch' = [sch EXCEPT ![s] = FireSucceeds(@)] \/ sch' = [sch EXCEPT ![s] = ScriptFails(@)]
  /\ UNCHANGED known /\ Persist
  /\ UNCHANGED <<kind, born, tickVars, before, inflight, agentVars, monVars, histVars>>

UsedUp(s) == sch[s].repeat # Unlimited /\ sch[s].count >= sch[s].repeat

Forgets(s, g) == before' = IF g = "manual" THEN [before EXCEPT ![s] = "none"] ELSE before

\* Faulty: what is used up is not taken from the file.
RecordedUnsaved(s, g) ==
  /\ at[s][g] = "recording"
  /\ GoTo(s, g, "idle")
  /\ known' = IF UsedUp(s) THEN known \ {s} ELSE known
  /\ sch' = IF g = "manual" /\ kind[s] # "script"
            THEN [sch EXCEPT ![s].next = before[s]] ELSE sch
  /\ inflight' = inflight \ {s}
  /\ Forgets(s, g)
  /\ UNCHANGED <<kind, born, fileVars, tickVars, agentVars, monVars, histVars>>

\* The end of a fire: a schedule that is used up is deleted, and run_now gives
\* back the time that it found.
Recorded(s, g) ==
  /\ at[s][g] = "recording"
  /\ GoTo(s, g, "idle")
  /\ known' = IF UsedUp(s) THEN known \ {s} ELSE known
  /\ sch' = IF g = "manual" /\ kind[s] # "script"
            THEN [sch EXCEPT ![s].next = before[s]] ELSE sch
  /\ Persist
  /\ inflight' = inflight \ {s}
  /\ Forgets(s, g)
  /\ UNCHANGED <<kind, born, tickVars, agentVars, monVars, histVars>>

\* An exception while the fire is recorded: what is used up stays, and run_now
\* gives no time back.
RecordBreaks(s, g) ==
  /\ kind \in Raising
  /\ at[s][g] = "recording"
  /\ GoTo(s, g, "idle")
  /\ inflight' = inflight \ {s}
  /\ Forgets(s, g)
  /\ IF kind[s] # "script" /\ g \in OfTick THEN Breaks ELSE UNCHANGED tickVars
  /\ UNCHANGED <<kind, sch, known, born, fileVars, agentVars, monVars, histVars>>

-----------------------------------------------------------------------------
(* The operations of the user and of the minions.                          *)

\* create_schedule
Creates(s, n) ==
  /\ kind[s] # None /\ s \notin born /\ born' = born \union {s}
  /\ sch' = [sch EXCEPT ![s] = [status |-> "active", next |-> "later", fails |-> 0,
                               count |-> 0, repeat |-> n]]
  /\ known' = known \union {s} /\ Persist
  /\ UNCHANGED <<kind, tickVars, fireVars, agentVars, monVars, histVars>>

CreateByUser(s) == \E n \in Repeats : Creates(s, n)

\* A minion makes schedules for itself, without an agent of their own or an end.
OfMinion(s) == kind[s] # "ephemeral"
CreateByMinion(s) == OfMinion(s) /\ Creates(s, Unlimited)

RunNow(s) ==
  /\ s \in known /\ ~ Manual(s)
  /\ Fire(s, "manual")
  /\ before' = [before EXCEPT ![s] = sch[s].next]
  /\ Races(s, \E g \in OfTick : at[s][g] # "idle")
  /\ UNCHANGED <<kind, born, tickVars, monVars, taken>>

Edits(s, r) ==
  /\ s \in known
  /\ sch' = [sch EXCEPT ![s] = r]
  /\ Races(s, Manual(s))
  /\ UNCHANGED <<kind, born, tickVars, fireVars, agentVars, monVars, handed, taken>>

PauseSchedule(s) ==
  /\ sch[s].status = "active"
  /\ Edits(s, [sch[s] EXCEPT !.status = "paused"])
  /\ UNCHANGED known /\ Persist

ResumeSchedule(s) ==
  /\ sch[s].status = "paused"
  /\ Edits(s, Recomputed([sch[s] EXCEPT !.status = "active", !.fails = 0]))
  /\ UNCHANGED known /\ Persist

\* Whatever is changed is saved; with a new cron expression, as far as it is
\* active, it is given a new time.
Updated(s) == {sch[s], Recomputed(sch[s])}
UpdateSchedule(s) ==
  /\ \E r \in Updated(s) : Edits(s, r)
  /\ UNCHANGED known /\ Persist

\* With a new repeat_count it may be used up.
UpdateRepeats(s) ==
  /\ \E r \in Updated(s), n \in Repeats :
       /\ Edits(s, [r EXCEPT !.repeat = n])
       /\ known' = IF n # Unlimited /\ sch[s].count >= n THEN known \ {s} ELSE known
  /\ Persist

\* One schedule, by the user or by its minion, or those of a minion.
DeleteSchedules(deleted) ==
  /\ deleted # {} /\ known' = known \ deleted
  /\ UNCHANGED sch /\ Persist
  /\ UNCHANGED <<kind, born, tickVars, fireVars, agentVars, monVars, histVars>>

\* The endpoints of the user, and the tools, which let a minion have its own.
ByUser(s) ==
  \/ PauseSchedule(s)
  \/ ResumeSchedule(s)
  \/ UpdateSchedule(s)
  \/ UpdateRepeats(s)
  \/ RunNow(s)
ByMinion(s) ==
  /\ OfMinion(s)
  /\ \/ PauseSchedule(s)
     \/ ResumeSchedule(s)
     \/ UpdateSchedule(s)

-----------------------------------------------------------------------------
(* The agents of ephemeral schedules, as far as the scheduler sees them.   *)

Agents(s) ==
  /\ kind[s] = "ephemeral"
  /\ UNCHANGED <<kind, sch, known, born, fileVars, tickVars, fireVars, monVars, histVars>>

AgentStarts(s) ==
  /\ agent[s] = "starting" \/ (agent[s] = "down" /\ busy[s])
  /\ agent' = [agent EXCEPT ![s] = "active"] /\ UNCHANGED busy /\ Agents(s)
AgentAsks(s) ==
  /\ agent[s] = "active" /\ busy[s]
  /\ agent' = [agent EXCEPT ![s] = "paused"] /\ UNCHANGED busy /\ Agents(s)
AgentAnswered(s) ==
  /\ agent[s] = "paused"
  /\ agent' = [agent EXCEPT ![s] = "active"] /\ UNCHANGED busy /\ Agents(s)
AgentFinishes(s) ==
  /\ agent[s] = "active" /\ busy[s]
  /\ busy' = [busy EXCEPT ![s] = FALSE] /\ UNCHANGED agent /\ Agents(s)
\* An error, or the user terminates the session.
AgentStops(s) ==
  /\ agent[s] # "down"
  /\ agent' = [agent EXCEPT ![s] = "down"] /\ busy' = [busy EXCEPT ![s] = FALSE]
  /\ Agents(s)

-----------------------------------------------------------------------------
(* _monitor_ephemeral_session.                                             *)

Watching(m) ==
  /\ watch[m] # None
  /\ UNCHANGED <<kind, sch, known, born, fileVars, tickVars, fireVars, histVars>>

\* A schedule that is gone and a session that has stopped end it as well.
Finished(m) ==
  \/ watch[m] \notin known \/ agent[watch[m]] = "down"
  \/ ~ busy[watch[m]] /\ mon[m] = "idleOnce"

\* Faulty: a monitor ends with its schedule.
MonitorPollsGone(m) ==
  /\ Watching(m) /\ mon[m] \in {"watching", "idleOnce"}
  /\ IF watch[m] \notin known
     THEN watch' = [watch EXCEPT ![m] = None] /\ mon' = [mon EXCEPT ![m] = "none"]
     ELSE /\ mon' = [mon EXCEPT ![m] = IF Finished(m) THEN "archiving"
                                       ELSE IF busy[watch[m]] THEN "watching" ELSE "idleOnce"]
          /\ UNCHANGED watch
  /\ UNCHANGED agentVars

MonitorPolls(m) ==
  /\ Watching(m) /\ mon[m] \in {"watching", "idleOnce"}
  /\ mon' = [mon EXCEPT ![m] = IF Finished(m) THEN "archiving"
                               ELSE IF busy[watch[m]] THEN "watching" ELSE "idleOnce"]
  /\ UNCHANGED <<watch, agentVars>>

\* archive_and_clear_session
MonitorArchives(m) ==
  /\ Watching(m) /\ mon[m] = "archiving"
  /\ agent' = [agent EXCEPT ![watch[m]] = "down"]
  /\ busy' = [busy EXCEPT ![watch[m]] = FALSE]
  /\ watch' = [watch EXCEPT ![m] = None] /\ mon' = [mon EXCEPT ![m] = "none"]

-----------------------------------------------------------------------------
\* The server goes down and comes up: load_all_schedules.
Crash ==
  /\ known' = saved
  /\ sch' = [s \in Schedules |-> IF s \in saved THEN Recomputed(file[s]) ELSE sch[s]]
  /\ todo' = {} /\ broken' = FALSE
  /\ at' = [s \in Schedules |-> [g \in Triggers |-> "idle"]]
  /\ inflight' = {}
  /\ agent' = [s \in Schedules |-> "down"] /\ busy' = [s \in Schedules |-> FALSE]
  /\ watch' = [m \in Monitors |-> None] /\ mon' = [m \in Monitors |-> "none"]
  /\ before' = [s \in Schedules |-> "none"] /\ raced' = {}
  /\ UNCHANGED <<kind, born, fileVars, handed, taken>>

Init ==
  /\ kind \in Mixes
  /\ sch = [s \in Schedules |-> [status |-> "paused", next |-> "none", fails |-> 0,
                                count |-> 0, repeat |-> Unlimited]]
  /\ known = {} /\ saved = {} /\ born = {} /\ file = sch
  /\ todo = {}
  /\ at = [s \in Schedules |-> [g \in Triggers |-> "idle"]]
  /\ before = [s \in Schedules |-> "none"]
  /\ inflight = {}
  /\ agent = [s \in Schedules |-> "down"] /\ busy = [s \in Schedules |-> FALSE]
  /\ watch = [m \in Monitors |-> None] /\ mon = [m \in Monitors |-> "none"]
  /\ handed = [s \in Schedules |-> 0] /\ taken = {} /\ raced = {} /\ broken = FALSE

FireGoesOn(s, g) ==
  StartReturns(s, g) \/ ScriptReturns(s, g) \/ Recorded(s, g) \/ RecordBreaks(s, g)
Tick(s) == TickPasses(s) \/ TickSkips(s) \/ TickFires(s) \/ TickBreaks(s)
Monitor(m) == MonitorPolls(m) \/ MonitorArchives(m)

Next ==
  \/ TickStarts
  \/ \E s \in Schedules :
       \/ TimePasses(s)
       \/ Tick(s)
       \/ \E g \in Triggers : FireGoesOn(s, g)
       \/ CreateByUser(s)
       \/ CreateByMinion(s)
       \/ AgentStarts(s)
       \/ AgentFinishes(s)
  \/ \E m \in Monitors : Monitor(m)
  \/ /\ kind \in Handled
     /\ \/ \E s \in Schedules : ByUser(s) \/ ByMinion(s)
        \/ \E deleted \in SUBSET known : DeleteSchedules(deleted)
        \/ \E s \in Schedules : AgentAsks(s) \/ AgentAnswered(s) \/ AgentStops(s)
        \/ Crash

\* The loop of the tick and the monitors go on, sessions start or fail within
\* limits, scripts have a timeout, and a rotation of the history ends.
Fairness ==
  /\ WF_schedVars(TickStarts \/ \E s \in Schedules : Tick(s))
  /\ \A s \in Schedules, g \in Triggers : WF_schedVars(FireGoesOn(s, g))
  /\ \A m \in Monitors : WF_schedVars(Monitor(m))

Spec == Init /\ [][Next]_schedVars /\ Fairness

-----------------------------------------------------------------------------
(* Properties.                                                             *)

\* The variables keep their shape.
Times == {"due", "later", "none"}
Records == [status : {"active", "paused"}, next : Times, fails : Nat,
            count : 0 .. MaxFires, repeat : Repeats \union {Unlimited}]
Places == {"idle", "starting", "running", "recording"}
TypeOK ==
  /\ kind \in [Schedules -> Kinds \union {None}]
  /\ sch \in [Schedules -> Records] /\ file \in [Schedules -> Records]
  /\ known \subseteq Schedules /\ born \subseteq Schedules /\ saved \subseteq Schedules
  /\ todo \subseteq Schedules
  /\ at \in [Schedules -> [Triggers -> Places]]
  /\ before \in [Schedules -> Times] /\ inflight \subseteq Schedules
  /\ agent \in [Schedules -> {"down", "starting", "active", "paused"}]
  /\ busy \in [Schedules -> BOOLEAN]
  /\ watch \in [Monitors -> Schedules \union {None}]
  /\ mon \in [Monitors -> {"none", "watching", "idleOnce", "archiving"}]
  /\ handed \in [Schedules -> 0 .. MaxFires]
  /\ taken \subseteq Schedules /\ raced \subseteq Schedules /\ broken \in BOOLEAN

\* Whatever is handed over has been counted in the file before, so that a crash
\* at any time never lets a schedule fire more often than it has counted
\* (issue #1538).
FiresAreCounted == \A s \in saved : handed[s] <= file[s].count

\* A schedule that is deleted never comes back: not by a fire that is still
\* under way and writes what it knows, and not by a restart.
DeletedStaysDeleted == [][known' \intersect born \subseteq known]_schedVars

\* A time of a schedule is taken by one fire of the tick: by how often the tick
\* comes round, a script that takes long, retries, edits and a restart it is
\* never fired twice for it, unless run_now has put the time back in between.
CronFires(s) == \E g \in OfTick : at[s][g] = "idle" /\ at[s][g]' # "idle"
OncePerTime == [][\A s \in Schedules : CronFires(s) /\ s \notin raced => s \notin taken]_schedVars

\* What is due is fired or skipped, however many other schedules the tick fires
\* and waits for before, unless it is paused or deleted, or the ticks are ended by
\* exceptions again and again.
DueIsServed ==
  \A s \in Schedules : []<>(s \notin known \/ ~ Due(s) \/ broken)

\* An agent whose work is done does not stay up: each run has a monitor that
\* outlives the schedule, until it has archived it or there is work again.
FinishedIsArchived ==
  \A s \in Schedules : ((\E m \in Monitors : watch[m] = s) /\ ~ busy[s]) ~> (agent[s] = "down" \/ busy[s])
=============================================================================
