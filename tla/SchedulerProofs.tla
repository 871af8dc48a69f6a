-------------------------- MODULE SchedulerProofs --------------------------
(***************************************************************************)
(* Proofs about Scheduler, for any number of schedules, monitors, retries  *)
(* and fires: no fire is uncounted, no schedule that is deleted comes back *)
(* and no time is fired twice.                                             *)
(*                                                                         *)
(* What is handed over does not stay within the count by itself: a fire of *)
(* an agent counts, and hands over when its session has started, so that   *)
(* one of the tick and one of run_now may both be between the two, and an  *)
(* exception may leave the file behind the count in memory (CountOK).      *)
(* That a time is not fired twice needs to know where its time has gone:   *)
(* it is not due any more when the fire records, unless run_now gives back *)
(* one that it has found, and what it has found was not due (TakenOK); and *)
(* that a schedule fires once at a time unless run_now and the tick have   *)
(* met (AloneOK).                                                          *)
(***************************************************************************)
EXTENDS Scheduler, TLAPS

-----------------------------------------------------------------------------
(* What is done to the record of a schedule.                               *)

\* The schedule is due.
Ready(r) == r.status = "active" /\ r.next = "due"

\* The count goes up as far as the bound.
LEMMA UpTyped == \A n \in 0 .. MaxFires : Up(n) \in 0 .. MaxFires /\ Up(n) >= n
BY BoundsAssumption DEF Up

\* A fire is counted and changes neither status nor time.
LEMMA CountedIs ==
  ASSUME NEW r \in Records
  PROVE  /\ Counted(r) \in Records /\ Counted(r).count = Up(r.count)
         /\ Counted(r).status = r.status /\ Counted(r).next = r.next
<1>1. Up(r.count) \in 0 .. MaxFires
  BY UpTyped DEF Records
<1> QED
  BY <1>1 DEF Counted, Records

\* A record with a new time, repeat count or status is a record.
LEMMA EditedIs ==
  ASSUME NEW r \in Records
  PROVE  /\ \A n \in Times : [r EXCEPT !.next = n] \in Records
         /\ \A n \in Repeats : [r EXCEPT !.repeat = n] \in Records
         /\ [r EXCEPT !.status = "paused"] \in Records
         /\ [r EXCEPT !.status = "active", !.fails = 0] \in Records
BY DEF Records

\* With a new time it is not due,
LEMMA RecomputedIs ==
  ASSUME NEW r \in Records
  PROVE  /\ Recomputed(r) \in Records /\ Recomputed(r).count = r.count
         /\ Recomputed(r).status = r.status /\ ~ Ready(Recomputed(r))
BY DEF Recomputed, Records, Times, Ready

\* nor when its retries are used up.
LEMMA SuspendedIs ==
  ASSUME NEW r \in Records
  PROVE  /\ Suspended(r) \in Records /\ Suspended(r).count = r.count
         /\ Suspended(r).status = "paused" /\ ~ Ready(Suspended(r))
BY DEF Suspended, Records, Times, Ready

\* A failure changes neither count, status nor time.
LEMMA FailedOnceIs ==
  ASSUME NEW r \in Records
  PROVE  /\ FailedOnce(r) \in Records /\ FailedOnce(r).count = r.count
         /\ FailedOnce(r).status = r.status /\ FailedOnce(r).next = r.next
BY BoundsAssumption DEF FailedOnce, Records

\* However a fire ends, its schedule is counted as before and not due.
LEMMA EndsIs ==
  ASSUME NEW r \in Records, NEW q \in {FireSucceeds(r), FireFails(r), ScriptFails(r)}
  PROVE  q \in Records /\ q.count = r.count /\ ~ Ready(q) /\ (q.status = "active" => r.status = "active")
<1> DEFINE f == FailedOnce(r)
<1>1. f \in Records /\ f.count = r.count /\ f.status = r.status
  BY FailedOnceIs
<1> HIDE DEF f
<1>2. CASE q = FireSucceeds(r)
  <2>1. /\ [r EXCEPT !.fails = 0] \in Records /\ [r EXCEPT !.fails = 0].count = r.count
        /\ [r EXCEPT !.fails = 0].status = r.status
    BY DEF Records
  <2> QED
    BY <1>2, <2>1, RecomputedIs DEF FireSucceeds
<1>3. /\ [f EXCEPT !.next = "later"] \in Records /\ [f EXCEPT !.next = "later"].count = r.count
      /\ [f EXCEPT !.next = "later"].status = r.status /\ ~ Ready([f EXCEPT !.next = "later"])
  BY <1>1 DEF Records, Times, Ready
<1>4. CASE q = FireFails(r)
  <2>1. q = [f EXCEPT !.next = "later"] \/ q = Suspended(f)
    BY <1>4 DEF FireFails, f
  <2> QED
    BY <1>1, <1>3, <2>1, SuspendedIs
<1>5. CASE q = ScriptFails(r)
  <2>1. q = Recomputed(f) \/ q = Suspended(f)
    BY <1>5 DEF ScriptFails, f
  <2> QED
    BY <1>1, <2>1, SuspendedIs, RecomputedIs
<1> QED
  BY <1>2, <1>4, <1>5

-----------------------------------------------------------------------------
(* The types.                                                              *)

\* What is saved are records.
LEMMA PersistTyped ==
  ASSUME Persist, sch' \in [Schedules -> Records], file \in [Schedules -> Records]
  PROVE  file' \in [Schedules -> Records]
BY DEF Persist

\* One fire goes on, and no other.
LEMMA GoToTyped ==
  ASSUME TypeOK, NEW s \in Schedules, NEW g \in Triggers, NEW place \in Places, GoTo(s, g, place)
  PROVE  /\ at' \in [Schedules -> [Triggers -> Places]] /\ at'[s][g] = place
         /\ \A h \in Triggers : h # g => at'[s][h] = at[s][h]
         /\ \A z \in Schedules : z # s => at'[z] = at[z]
BY DEF GoTo, TypeOK

\* What begins to fire is counted and saved, and what has already handed over
\* or failed is not due.
LEMMA FireDoes ==
  ASSUME TypeOK, NEW s \in Schedules, NEW g \in Triggers, Fire(s, g)
  PROVE  /\ known' = known /\ Persist
         /\ inflight' \subseteq Schedules /\ busy' = busy
         /\ inflight \subseteq inflight' /\ (kind[s] = "script" => s \in inflight')
         /\ agent' \in [Schedules -> {"down", "starting", "active", "paused"}]
         /\ \E r \in Records, place \in Places \ {"idle"} :
              /\ sch' = [sch EXCEPT ![s] = r] /\ GoTo(s, g, place)
              /\ r.count = Up(sch[s].count) /\ (r.status = "active" => sch[s].status = "active")
              /\ (Ready(r) => Ready(sch[s])) /\ (place = "recording" => ~ Ready(r))
              /\ handed' = handed \/ (place # "starting" /\ handed' = [handed EXCEPT ![s] = Up(@)])
<1> DEFINE c == Counted(sch[s])
<1>c. /\ c \in Records /\ c.count = Up(sch[s].count) /\ c.status = sch[s].status
      /\ Ready(c) => Ready(sch[s])
  BY CountedIs DEF TypeOK, Ready
<1>t. /\ inflight \subseteq Schedules /\ agent \in [Schedules -> {"down", "starting", "active", "paused"}]
      /\ sch \in [Schedules -> Records]
  BY DEF TypeOK
<1>p. {"starting", "running", "recording"} \subseteq Places \ {"idle"}
  BY DEF Places
<1>1. CASE FirePrompt(s, g)
  <2>1. PICK r \in {FireSucceeds(c), FireFails(c)} : sch' = [sch EXCEPT ![s] = r] /\ handed' \in {handed, [handed EXCEPT ![s] = Up(@)]}
    BY <1>1, <1>t DEF FirePrompt
  <2>2. r \in Records /\ r.count = c.count /\ ~ Ready(r) /\ (r.status = "active" => c.status = "active")
    BY <1>c, EndsIs
  <2> HIDE DEF c
  <2> QED
    BY <1>1, <1>c, <1>t, <1>p, <2>1, <2>2 DEF FirePrompt, agentVars
<1>2. CASE FireEphemeral(s, g)
  <2>1. sch' = [sch EXCEPT ![s] = c] /\ GoTo(s, g, "starting") /\ handed' = handed
    BY <1>2 DEF FireEphemeral
  <2> HIDE DEF c
  <2> QED
    BY <1>2, <1>c, <1>t, <1>p, <2>1 DEF FireEphemeral
<1>3. CASE FireScript(s, g)
  <2>1. sch' = [sch EXCEPT ![s] = c] /\ GoTo(s, g, "running") /\ handed' = [handed EXCEPT ![s] = Up(@)]
    BY <1>3 DEF FireScript
  <2> HIDE DEF c
  <2> QED
    BY <1>3, <1>c, <1>t, <1>p, <2>1 DEF FireScript, agentVars
<1> QED
  BY <1>1, <1>2, <1>3 DEF Fire

\* Every step keeps the types.
LEMMA TypeNext == TypeOK /\ [Next]_schedVars => TypeOK'
<1> SUFFICES ASSUME TypeOK, [Next]_schedVars PROVE TypeOK'
  OBVIOUS
<1>t. /\ kind \in [Schedules -> Kinds \union {None}]
      /\ sch \in [Schedules -> Records] /\ file \in [Schedules -> Records]
      /\ known \subseteq Schedules /\ born \subseteq Schedules /\ saved \subseteq Schedules
      /\ todo \subseteq Schedules
      /\ at \in [Schedules -> [Triggers -> Places]]
      /\ before \in [Schedules -> Times] /\ inflight \subseteq Schedules
      /\ agent \in [Schedules -> {"down", "starting", "active", "paused"}]
      /\ busy \in [Schedules -> BOOLEAN]
      /\ watch \in [Monitors -> Schedules \union {None}]
      /\ mon \in [Monitors -> {"none", "watching", "idleOnce", "archiving"}]
      /\ handed \in [Schedules -> 0 .. MaxFires]
      /\ taken \subseteq Schedules /\ raced \subseteq Schedules /\ broken \in BOOLEAN
  BY DEF TypeOK, tickVars
<1>g. "manual" \in Triggers /\ OfTick \subseteq Triggers
  BY DEF Triggers, OfTick
<1>p. ASSUME Persist, sch' \in [Schedules -> Records], known' \subseteq Schedules
      PROVE  file' \in [Schedules -> Records] /\ saved' \subseteq Schedules
  BY <1>t, <1>p, PersistTyped DEF Persist
<1>f. ASSUME NEW s \in Schedules, NEW g \in Triggers, Fire(s, g)
      PROVE  /\ known' = known
             /\ sch' \in [Schedules -> Records] /\ file' \in [Schedules -> Records] /\ saved' \subseteq Schedules
             /\ at' \in [Schedules -> [Triggers -> Places]] /\ inflight' \subseteq Schedules
             /\ agent' \in [Schedules -> {"down", "starting", "active", "paused"}]
             /\ busy' = busy /\ handed' \in [Schedules -> 0 .. MaxFires]
  <2>1. PICK r \in Records, place \in Places \ {"idle"} :
          /\ sch' = [sch EXCEPT ![s] = r] /\ GoTo(s, g, place)
          /\ handed' = handed \/ (place # "starting" /\ handed' = [handed EXCEPT ![s] = Up(@)])
    BY <1>f, FireDoes
  <2>2. sch' \in [Schedules -> Records] /\ at' \in [Schedules -> [Triggers -> Places]]
    BY <1>t, <2>1, GoToTyped
  <2>3. Up(handed[s]) \in 0 .. MaxFires
    BY <1>t, UpTyped
  <2>4. handed' \in [Schedules -> 0 .. MaxFires]
    BY <1>t, <2>1, <2>3
  <2>5. /\ known' = known /\ Persist /\ inflight' \subseteq Schedules /\ busy' = busy
        /\ agent' \in [Schedules -> {"down", "starting", "active", "paused"}]
    BY <1>f, FireDoes
  <2> QED
    BY <1>t, <1>p, <2>2, <2>4, <2>5
<1>e. ASSUME NEW s \in Schedules, NEW r \in Records, Edits(s, r), Persist, known' \subseteq known
      PROVE  TypeOK'
  <2>1. /\ sch' = [sch EXCEPT ![s] = r] /\ raced' \subseteq Schedules
        /\ UNCHANGED <<kind, born, tickVars, fireVars, agentVars, monVars, handed, taken>>
    BY <1>e, <1>t DEF Edits, Races
  <2>2. sch' \in [Schedules -> Records]
    BY <1>t, <2>1
  <2>3. file' \in [Schedules -> Records] /\ saved' \subseteq Schedules
    BY <1>e, <1>p, <1>t, <2>2
  <2> QED
    BY <1>e, <1>t, <2>1, <2>2, <2>3 DEF TypeOK, tickVars, fireVars, agentVars, monVars
<1>d. ASSUME NEW deleted \in SUBSET Schedules, DeleteSchedules(deleted) PROVE TypeOK'
  <2>1. /\ known' = known \ deleted /\ sch' = sch /\ Persist
        /\ UNCHANGED <<kind, born, tickVars, fireVars, agentVars, monVars, histVars>>
    BY <1>d DEF DeleteSchedules
  <2>2. file' \in [Schedules -> Records] /\ saved' \subseteq Schedules
    BY <1>p, <1>t, <2>1
  <2> QED
    BY <1>t, <2>1, <2>2 DEF TypeOK, tickVars, fireVars, agentVars, monVars, histVars
<1>1. CASE TickStarts
  BY <1>1, <1>t DEF TypeOK, tickVars, TickStarts, fileVars, fireVars, agentVars, monVars, histVars
<1>2. ASSUME NEW s \in Schedules, TimePasses(s) PROVE TypeOK'
  <2>1. [sch[s] EXCEPT !.next = "due"] \in Records
    BY <1>t, EditedIs DEF Times
  <2>2. sch' \in [Schedules -> Records]
    BY <1>2, <1>t, <2>1 DEF TimePasses
  <2> QED
    BY <1>2, <1>t, <2>2 DEF TypeOK, tickVars, TimePasses, fileVars, fireVars, agentVars, monVars
<1>3. ASSUME NEW s \in Schedules, TickPasses(s) PROVE TypeOK'
  BY <1>3, <1>t DEF TypeOK, tickVars, TickPasses, Looks, fileVars, fireVars, agentVars, monVars, histVars
<1>4. ASSUME NEW s \in Schedules, TickSkips(s) PROVE TypeOK'
  <2>1. sch' = [sch EXCEPT ![s] = Recomputed(@)] /\ known' = known /\ todo' \subseteq todo /\ broken' = broken
        /\ (Persist \/ UNCHANGED fileVars)
    BY <1>4 DEF TickSkips, Looks
  <2>2. sch' \in [Schedules -> Records]
    BY <1>t, <2>1, RecomputedIs
  <2>3. file' \in [Schedules -> Records] /\ saved' \subseteq Schedules
    BY <1>t, <1>p, <2>1, <2>2 DEF fileVars
  <2>4. raced' \subseteq Schedules
    BY <1>4, <1>t DEF TickSkips, Races
  <2> QED
    BY <1>4, <1>t, <2>1, <2>2, <2>3, <2>4 DEF TypeOK, tickVars, TickSkips, fireVars, agentVars, monVars
<1>5. ASSUME NEW s \in Schedules, TickFires(s) PROVE TypeOK'
  <2>1. PICK g \in OfTick : Fire(s, g)
    BY <1>5 DEF TickFires
  <2>3. /\ taken' = taken \union {s} /\ todo' \subseteq todo
        /\ UNCHANGED <<kind, born, before, monVars, broken>>
    BY <1>5 DEF TickFires, Looks
  <2>2. raced' \subseteq Schedules
    BY <1>5, <1>t DEF TickFires, Races
  <2> QED
    BY <1>t, <1>g, <1>f, <2>1, <2>2, <2>3 DEF TypeOK, tickVars, monVars
<1>6. ASSUME NEW s \in Schedules, NEW g \in Triggers, StartReturns(s, g) PROVE TypeOK'
  <2>1. /\ GoTo(s, g, "recording") /\ known' = known /\ Persist
        /\ \E r \in {FireSucceeds(sch[s]), FireFails(sch[s])} : sch' = [sch EXCEPT ![s] = r]
        /\ UNCHANGED <<kind, born, tickVars, before, inflight, agent, taken, raced>>
    BY <1>6, <1>t DEF StartReturns
  <2>2. sch' \in [Schedules -> Records]
    BY <1>t, <2>1, EndsIs
  <2>3. at' \in [Schedules -> [Triggers -> Places]]
    BY <2>1, GoToTyped DEF Places
  <2>4. file' \in [Schedules -> Records] /\ saved' \subseteq Schedules
    BY <1>t, <1>p, <2>1, <2>2
  <2>5. /\ handed' \in [Schedules -> 0 .. MaxFires] /\ busy' \in [Schedules -> BOOLEAN]
        /\ watch' \in [Monitors -> Schedules \union {None}]
        /\ mon' \in [Monitors -> {"none", "watching", "idleOnce", "archiving"}]
    <3>1. Up(handed[s]) \in 0 .. MaxFires
      BY <1>t, UpTyped
    <3> QED
      <4>1. CASE UNCHANGED <<handed, busy, monVars>>
        BY <4>1, <1>t DEF monVars
      <4>2. ASSUME watch' = [watch EXCEPT ![NewMonitor] = s], mon' = [mon EXCEPT ![NewMonitor] = "watching"],
                   handed' = [handed EXCEPT ![s] = Up(@)], busy' = [busy EXCEPT ![s] = TRUE]
            PROVE  /\ handed' \in [Schedules -> 0 .. MaxFires] /\ busy' \in [Schedules -> BOOLEAN]
                   /\ watch' \in [Monitors -> Schedules \union {None}]
                   /\ mon' \in [Monitors -> {"none", "watching", "idleOnce", "archiving"}]
        BY <4>2, <1>t, <3>1
      <4> QED
        BY <1>6, <4>1, <4>2 DEF StartReturns
  <2> QED
    BY <1>t, <2>1, <2>2, <2>3, <2>4, <2>5 DEF TypeOK, tickVars
<1>7. ASSUME NEW s \in Schedules, NEW g \in Triggers, ScriptReturns(s, g) PROVE TypeOK'
  <2>1. /\ GoTo(s, g, "recording") /\ known' = known /\ Persist
        /\ \E r \in {FireSucceeds(sch[s]), ScriptFails(sch[s])} : sch' = [sch EXCEPT ![s] = r]
        /\ UNCHANGED <<kind, born, tickVars, before, inflight, agentVars, monVars, histVars>>
    BY <1>7, <1>t DEF ScriptReturns
  <2>2. sch' \in [Schedules -> Records]
    BY <1>t, <2>1, EndsIs
  <2>3. at' \in [Schedules -> [Triggers -> Places]]
    BY <2>1, GoToTyped DEF Places
  <2>4. file' \in [Schedules -> Records] /\ saved' \subseteq Schedules
    BY <1>t, <1>p, <2>1, <2>2
  <2> QED
    BY <1>t, <2>1, <2>2, <2>3, <2>4 DEF TypeOK, tickVars, agentVars, monVars, histVars
<1>8. ASSUME NEW s \in Schedules, NEW g \in Triggers, Recorded(s, g) PROVE TypeOK'
  <2>1. /\ GoTo(s, g, "idle") /\ known' \subseteq known /\ Persist
        /\ sch' \in {sch, [sch EXCEPT ![s].next = before[s]]}
        /\ inflight' \subseteq inflight
        /\ before' \in {before, [before EXCEPT ![s] = "none"]}
        /\ UNCHANGED <<kind, born, tickVars, agentVars, monVars, histVars>>
    BY <1>8 DEF Recorded, Forgets
  <2>2. sch' \in [Schedules -> Records]
    <3>1. [sch[s] EXCEPT !.next = before[s]] \in Records
      BY <1>t, EditedIs
    <3> QED
      BY <1>t, <2>1, <3>1, ZenonT(60)
  <2>3. at' \in [Schedules -> [Triggers -> Places]]
    BY <2>1, GoToTyped DEF Places
  <2>4. file' \in [Schedules -> Records] /\ saved' \subseteq Schedules
    BY <1>t, <1>p, <2>1, <2>2
  <2>5. before' \in [Schedules -> Times]
    BY <1>t, <2>1 DEF Times
  <2> QED
    BY <1>t, <2>1, <2>2, <2>3, <2>4, <2>5 DEF TypeOK, tickVars, agentVars, monVars, histVars
<1>21. ASSUME NEW s \in Schedules, NEW g \in Triggers, RecordBreaks(s, g) PROVE TypeOK'
  <2>1. /\ GoTo(s, g, "idle") /\ inflight' \subseteq inflight
        /\ before' \in {before, [before EXCEPT ![s] = "none"]}
        /\ todo' \subseteq todo /\ broken' \in BOOLEAN
        /\ UNCHANGED <<kind, sch, known, born, fileVars, agentVars, monVars, histVars>>
    BY <1>21, <1>t DEF RecordBreaks, Forgets, Breaks, tickVars
  <2>2. at' \in [Schedules -> [Triggers -> Places]]
    BY <2>1, GoToTyped DEF Places
  <2>3. before' \in [Schedules -> Times]
    BY <1>t, <2>1 DEF Times
  <2> QED
    BY <1>t, <2>1, <2>2, <2>3 DEF TypeOK, fileVars, agentVars, monVars, histVars
<1>22. ASSUME NEW s \in Schedules, TickBreaks(s) PROVE TypeOK'
  <2>1. /\ sch' = sch \/ sch' = [sch EXCEPT ![s] = Counted(@)]
        /\ todo' \subseteq todo /\ broken' \in BOOLEAN
        /\ UNCHANGED <<kind, known, born, fileVars, fireVars, agentVars, monVars, histVars>>
    BY <1>22 DEF TickBreaks, Breaks
  <2>2. sch' \in [Schedules -> Records]
    BY <1>t, <2>1, CountedIs
  <2> QED
    BY <1>t, <2>1, <2>2 DEF TypeOK, fileVars, fireVars, agentVars, monVars, histVars
<1>9. ASSUME NEW s \in Schedules, NEW n \in Repeats \union {Unlimited}, Creates(s, n) PROVE TypeOK'
  <2> DEFINE r == [status |-> "active", next |-> "later", fails |-> 0, count |-> 0, repeat |-> n]
  <2>1. r \in Records
    BY BoundsAssumption DEF Records, Times
  <2> HIDE DEF r
  <2>2. /\ sch' = [sch EXCEPT ![s] = r] /\ born' = born \union {s} /\ known' = known \union {s} /\ Persist
        /\ UNCHANGED <<kind, tickVars, fireVars, agentVars, monVars, histVars>>
    BY <1>9 DEF Creates, r
  <2>3. sch' \in [Schedules -> Records]
    BY <1>t, <2>1, <2>2
  <2>4. file' \in [Schedules -> Records] /\ saved' \subseteq Schedules
    BY <1>t, <1>p, <2>2, <2>3
  <2> QED
    BY <1>t, <2>2, <2>3, <2>4 DEF TypeOK, tickVars, fireVars, agentVars, monVars, histVars
<1>10. ASSUME NEW s \in Schedules, CreateByUser(s) \/ CreateByMinion(s) PROVE TypeOK'
  BY <1>9, <1>10 DEF CreateByUser, CreateByMinion
<1>11. ASSUME NEW s \in Schedules, RunNow(s) PROVE TypeOK'
  <2>1. Fire(s, "manual") /\ before' = [before EXCEPT ![s] = sch[s].next]
        /\ UNCHANGED <<kind, born, tickVars, monVars, taken>>
    BY <1>11 DEF RunNow
  <2>2. raced' \subseteq Schedules
    BY <1>11, <1>t DEF RunNow, Races
  <2>3. before' \in [Schedules -> Times]
    BY <1>t, <2>1 DEF Records
  <2> QED
    BY <1>t, <1>g, <1>f, <2>1, <2>2, <2>3 DEF TypeOK, tickVars, monVars
<1>12. ASSUME NEW s \in Schedules, PauseSchedule(s) PROVE TypeOK'
  <2>1. [sch[s] EXCEPT !.status = "paused"] \in Records
    BY <1>t, EditedIs
  <2> QED
    BY <1>12, <1>e, <2>1 DEF PauseSchedule
<1>13. ASSUME NEW s \in Schedules, ResumeSchedule(s) PROVE TypeOK'
  <2>1. [sch[s] EXCEPT !.status = "active", !.fails = 0] \in Records
    BY <1>t, EditedIs
  <2> QED
    BY <1>13, <1>e, <2>1, RecomputedIs DEF ResumeSchedule
<1>u. ASSUME NEW s \in Schedules, NEW r \in Updated(s) PROVE r \in Records
  BY <1>t, <1>u, RecomputedIs DEF Updated
<1>14. ASSUME NEW s \in Schedules, UpdateSchedule(s) PROVE TypeOK'
  BY <1>14, <1>e, <1>u DEF UpdateSchedule
<1>15. ASSUME NEW s \in Schedules, UpdateRepeats(s) PROVE TypeOK'
  <2>1. PICK r \in Updated(s), n \in Repeats : Edits(s, [r EXCEPT !.repeat = n]) /\ known' \subseteq known
    BY <1>15 DEF UpdateRepeats
  <2>2. [r EXCEPT !.repeat = n] \in Records
    BY <1>u, EditedIs
  <2> QED
    BY <1>15, <1>e, <2>1, <2>2 DEF UpdateRepeats
<1>16. ASSUME NEW s \in Schedules, ByUser(s) \/ ByMinion(s) PROVE TypeOK'
  BY <1>d, <1>11, <1>12, <1>13, <1>14, <1>15, <1>16 DEF ByUser, ByMinion
<1>17. ASSUME NEW s \in Schedules,
              AgentStarts(s) \/ AgentAsks(s) \/ AgentAnswered(s) \/ AgentFinishes(s) \/ AgentStops(s)
       PROVE  TypeOK'
  <2>1. UNCHANGED <<kind, sch, known, born, fileVars, tickVars, fireVars, monVars, histVars>>
    BY <1>17 DEF AgentStarts, AgentAsks, AgentAnswered, AgentFinishes, AgentStops, Agents
  <2>2. /\ agent' \in [Schedules -> {"down", "starting", "active", "paused"}]
        /\ busy' \in [Schedules -> BOOLEAN]
    BY <1>17, <1>t DEF AgentStarts, AgentAsks, AgentAnswered, AgentFinishes, AgentStops
  <2> QED
    BY <1>t, <2>1, <2>2 DEF TypeOK, tickVars, fileVars, fireVars, monVars, histVars
<1>18. ASSUME NEW m \in Monitors, Monitor(m) PROVE TypeOK'
  <2>1. UNCHANGED <<kind, sch, known, born, fileVars, tickVars, fireVars, histVars>>
    BY <1>18 DEF Monitor, MonitorPolls, MonitorArchives, Watching
  <2>2. /\ agent' \in [Schedules -> {"down", "starting", "active", "paused"}]
        /\ busy' \in [Schedules -> BOOLEAN]
        /\ watch' \in [Monitors -> Schedules \union {None}]
        /\ mon' \in [Monitors -> {"none", "watching", "idleOnce", "archiving"}]
    <3>1. CASE MonitorPolls(m)
      BY <1>t, <3>1 DEF MonitorPolls, agentVars
    <3>2. CASE MonitorArchives(m)
      BY <1>t, <3>2 DEF MonitorArchives
    <3> QED
      BY <1>18, <3>1, <3>2 DEF Monitor
  <2> QED
    BY <1>t, <2>1, <2>2 DEF TypeOK, tickVars, fileVars, fireVars, histVars
<1>19. CASE Crash
  <2>1. sch' \in [Schedules -> Records]
    <3>1. \A s \in Schedules : Recomputed(file[s]) \in Records
      BY <1>t, RecomputedIs
    <3> QED
      BY <1>19, <1>t, <3>1 DEF Crash
  <2>2. /\ at' \in [Schedules -> [Triggers -> Places]] /\ before' \in [Schedules -> Times]
        /\ agent' \in [Schedules -> {"down", "starting", "active", "paused"}]
        /\ busy' \in [Schedules -> BOOLEAN]
        /\ watch' \in [Monitors -> Schedules \union {None}]
        /\ mon' \in [Monitors -> {"none", "watching", "idleOnce", "archiving"}]
    <3>1. /\ "idle" \in Places /\ "none" \in Times
          /\ \A m \in Monitors : None \in Schedules \union {None}
      BY DEF Places, Times
    <3>2. [m \in Monitors |-> None] \in [Monitors -> Schedules \union {None}]
      BY <3>1
    <3> QED
      BY <1>19, <3>1, <3>2 DEF Crash
  <2> QED
    BY <1>19, <1>t, <2>1, <2>2 DEF TypeOK, tickVars, Crash, fileVars
<1>20. CASE UNCHANGED schedVars
  BY <1>20, <1>t DEF TypeOK, tickVars, schedVars, fileVars, fireVars, agentVars, monVars, histVars
<1> QED
  BY <1>d, <1>1, <1>2, <1>3, <1>4, <1>5, <1>6, <1>7, <1>8, <1>10, <1>16, <1>17, <1>18, <1>19, <1>20, <1>21, <1>22, <1>t
  DEF Next, Tick, FireGoesOn

-----------------------------------------------------------------------------
(* The invariant.                                                          *)

\* The fire of an agent that has been counted and is yet to be handed over.
One(s, g) == IF at[s][g] = "starting" THEN 1 ELSE 0

Between(s) == One(s, "cron") + One(s, "again") + One(s, "manual")

\* The file has the schedules that are known.
FileOK == saved = known

\* Who has not been created has done nothing.
BornOK(s) ==
  /\ s \in known \union todo => s \in born
  /\ s \notin born => handed[s] = 0 /\ s \notin taken /\ \A g \in Triggers : at[s][g] = "idle"

\* What is handed over or about to be has been counted in the file.
CountOK(s) ==
  s \in known => /\ file[s].count <= sch[s].count
                 /\ file[s].count = MaxFires \/ handed[s] + Between(s) <= file[s].count

\* A time that is taken is over when its fire records, and run_now does not bring
\* it back.
Single(s) == s \in (known \union todo) \intersect taken /\ s \notin raced
TakenOK(s) ==
  Single(s) => /\ (\A g \in OfTick : at[s][g] \in {"idle", "recording"}) => ~ Ready(sch[s])
               /\ Manual(s) => ~ (before[s] = "due" /\ sch[s].status = "active")

\* A schedule fires once at a time, and a script that does is among those in flight.
AloneOK(s) ==
  s \notin raced =>
    /\ \A g, h \in Triggers : at[s][g] # "idle" /\ at[s][h] # "idle" => g = h
    /\ kind[s] = "script" => \A g \in Triggers : at[s][g] # "idle" => s \in inflight

\* What holds of one schedule.
Sound(s) == BornOK(s) /\ CountOK(s) /\ TakenOK(s) /\ AloneOK(s)

\* The inductive invariant.
IInv == TypeOK /\ FileOK /\ \A s \in Schedules : Sound(s)

\* The counts are numbers within the bound.
LEMMA Counts ==
  ASSUME TypeOK, NEW s \in Schedules
  PROVE  /\ sch[s].count \in 0 .. MaxFires /\ file[s].count \in 0 .. MaxFires
         /\ handed[s] \in 0 .. MaxFires /\ MaxFires \in Nat
         /\ \A g \in Triggers : One(s, g) \in {0, 1}
         /\ {"cron", "again", "manual"} = Triggers /\ OfTick \subseteq Triggers
BY BoundsAssumption DEF TypeOK, Records, One, Triggers, OfTick

\* Whatever is saved, the file has it then.
LEMMA PersistKeepsFile ==
  ASSUME Persist, known' \subseteq Schedules
  PROVE  FileOK' /\ \A s \in known' : file'[s] = sch'[s]
BY DEF Persist, FileOK

\* A step of another schedule leaves this one sound;
LEMMA StaysSound ==
  ASSUME TypeOK, NEW z \in Schedules, Sound(z), kind' = kind,
         sch'[z] = sch[z], at'[z] = at[z], before'[z] = before[z], handed'[z] = handed[z],
         z \in known' => file'[z] \in {file[z], sch[z]},
         z \in known' => z \in known, z \in todo' => z \in known \union todo,
         z \in taken' => z \in taken, z \in raced => z \in raced', z \in born => z \in born',
         z \in inflight => z \in inflight'
  PROVE  Sound(z)'
<1>1. BornOK(z)'
  BY DEF Sound, BornOK
<1>2. CountOK(z)'
  <2>1. Between(z)' = Between(z) /\ Between(z) \in Nat
    BY Counts DEF Between, One
  <2> QED
    BY <2>1, Counts DEF Sound, CountOK
<1>3. TakenOK(z)'
  BY DEF Sound, TakenOK, Single, Manual
<1>4. AloneOK(z)'
  BY DEF Sound, AloneOK
<1> QED
  BY <1>1, <1>2, <1>3, <1>4 DEF Sound

\* so does a fire that begins,
LEMMA FireKeeps ==
  ASSUME IInv, NEW s \in Schedules, NEW g \in Triggers, Fire(s, g), at[s][g] = "idle",
         s \in known \union todo, todo' \subseteq todo, UNCHANGED <<kind, born>>, raced \subseteq raced',
         s \notin raced' => \A h \in Triggers : at[s][h] = "idle",
         \/ g \in OfTick /\ before' = before /\ taken' = taken \union {s}
         \/ g = "manual" /\ taken' = taken /\ before' = [before EXCEPT ![s] = sch[s].next]
  PROVE  FileOK' /\ \A z \in Schedules : Sound(z)'
<1>t. /\ sch \in [Schedules -> Records] /\ at \in [Schedules -> [Triggers -> Places]]
      /\ before \in [Schedules -> Times] /\ handed \in [Schedules -> 0 .. MaxFires]
      /\ known \subseteq Schedules /\ TypeOK
  BY DEF IInv, TypeOK
<1>1. PICK r \in Records, place \in Places \ {"idle"} :
        /\ sch' = [sch EXCEPT ![s] = r] /\ GoTo(s, g, place)
        /\ r.count = Up(sch[s].count) /\ (r.status = "active" => sch[s].status = "active")
        /\ (Ready(r) => Ready(sch[s])) /\ (place = "recording" => ~ Ready(r))
        /\ handed' = handed \/ (place # "starting" /\ handed' = [handed EXCEPT ![s] = Up(@)])
  BY <1>t, FireDoes
<1>2. /\ known' = known /\ Persist /\ inflight \subseteq inflight'
      /\ kind[s] = "script" => s \in inflight'
  BY <1>t, FireDoes
<1>3. FileOK' /\ \A z \in known' : file'[z] = sch'[z]
  BY <1>2, <1>t, PersistKeepsFile
<1>4. /\ at'[s][g] = place /\ \A h \in Triggers : h # g => at'[s][h] = at[s][h]
      /\ \A z \in Schedules : z # s => at'[z] = at[z]
  BY <1>t, <1>1, GoToTyped
<1>5. ASSUME NEW z \in Schedules, z # s PROVE Sound(z)'
  <2>1. Sound(z)
    BY DEF IInv
  <2>2. sch'[z] = sch[z] /\ before'[z] = before[z] /\ handed'[z] = handed[z] /\ at'[z] = at[z]
    BY <1>1, <1>4, <1>5, <1>t
  <2>3. z \in taken' => z \in taken
    BY <1>5
  <2> QED
    BY <1>t, <1>2, <1>3, <2>1, <2>2, <2>3, StaysSound
<1>6. Sound(s)
  BY DEF IInv
<1>7. BornOK(s)'
  BY <1>6 DEF Sound, BornOK
<1>8. CountOK(s)'
  <2>1. \A h \in Triggers : at'[s][h] = IF h = g THEN place ELSE at[s][h]
    BY <1>4
  <2>2. Between(s)' = Between(s) + (IF place = "starting" THEN 1 ELSE 0)
    <3>1. g = "cron" \/ g = "again" \/ g = "manual"
      BY Counts, <1>t
    <3>2. One(s, g) = 0 /\ One(s, g)' = IF place = "starting" THEN 1 ELSE 0
      BY <2>1 DEF One
    <3>3. \A h \in Triggers : h # g => One(s, h)' = One(s, h)
      BY <2>1 DEF One
    <3> QED
      BY <1>t, <3>1, <3>2, <3>3, Counts DEF Between
  <2>3. handed'[s] + (IF place = "starting" THEN 1 ELSE 0) <= handed[s] + 1
    <3>1. handed[s] \in Nat /\ Up(handed[s]) <= handed[s] + 1
      BY <1>t, BoundsAssumption DEF Up
    <3>2. CASE handed' = handed
      BY <3>1, <3>2
    <3>3. CASE place # "starting" /\ handed' = [handed EXCEPT ![s] = Up(@)]
      <4>1. handed'[s] = Up(handed[s])
        BY <3>3, <1>t
      <4>2. Up(handed[s]) \in Nat
        BY <3>1, BoundsAssumption DEF Up
      <4> QED
        BY <3>1, <3>3, <4>1, <4>2
    <3> QED
      BY <1>1, <3>2, <3>3
  <2>4. sch'[s].count = Up(sch[s].count) /\ sch[s].count \in 0 .. MaxFires
    BY <1>1, <1>t DEF Records
  <2>5. sch'[s].count = MaxFires \/ (sch[s].count # MaxFires /\ sch'[s].count = sch[s].count + 1)
    BY <2>4, BoundsAssumption DEF Up
  <2>6. handed'[s] \in Nat /\ handed[s] \in Nat
    BY <1>t, <1>1, UpTyped
  <2>7. Between(s) \in Nat /\ file[s].count \in 0 .. MaxFires
    BY <1>t, Counts DEF Between
  <2>8. s \in known => file'[s] = sch'[s]
    BY <1>2, <1>3
  <2>9. CASE s \in known /\ sch[s].count # MaxFires
    <3>1. file[s].count <= sch[s].count /\ handed[s] + Between(s) <= file[s].count
      BY <1>6, <2>4, <2>7, <2>9 DEF Sound, CountOK
    <3>2. file'[s].count = sch[s].count + 1 /\ sch'[s].count = sch[s].count + 1
      BY <2>5, <2>8, <2>9, <2>4, BoundsAssumption DEF Up
    <3>3. handed'[s] + Between(s)' <= handed[s] + 1 + Between(s)
      BY <2>2, <2>3, <2>6, <2>7
    <3>4. sch[s].count \in Nat /\ Between(s)' \in Nat
      BY <2>2, <2>4, <2>7, BoundsAssumption
    <3> QED
      BY <2>6, <2>7, <3>1, <3>2, <3>3, <3>4 DEF CountOK
  <2>10. CASE s \in known /\ sch[s].count = MaxFires
    <3>1. file'[s].count = MaxFires /\ sch'[s].count = MaxFires
      BY <2>4, <2>8, <2>10 DEF Up
    <3> QED
      BY <3>1, BoundsAssumption DEF CountOK
  <2> QED
    BY <1>2, <2>9, <2>10 DEF CountOK
<1>9. TakenOK(s)'
  <2> SUFFICES ASSUME Single(s)'
               PROVE  /\ (\A h \in OfTick : at'[s][h] \in {"idle", "recording"}) => ~ Ready(sch'[s])
                      /\ Manual(s)' => ~ (before'[s] = "due" /\ sch'[s].status = "active")
    BY DEF TakenOK, Ready
  <2>0. sch'[s] = r /\ "manual" \in Triggers /\ OfTick \subseteq Triggers /\ "manual" \notin OfTick
    BY <1>1, <1>t DEF Triggers, OfTick
  <2>1. \A h \in Triggers : at[s][h] = "idle"
    BY DEF Single
  <2>2. CASE g \in OfTick
    BY <2>0, <2>1, <2>2, <1>1, <1>4 DEF Manual
  <2>3. CASE g = "manual"
    <3>1. s \in taken /\ s \notin raced
      BY <2>0, <2>3 DEF Single
    <3>2. ~ Ready(sch[s])
      BY <1>6, <2>0, <2>1, <3>1 DEF Sound, TakenOK, Single
    <3>3. before'[s] = sch[s].next
      BY <1>t, <2>0, <2>3
    <3> QED
      BY <1>1, <2>0, <3>2, <3>3 DEF Ready
  <2> QED
    BY <2>2, <2>3
<1>10. AloneOK(s)'
  BY <1>2, <1>4 DEF AloneOK
<1> QED
  BY <1>3, <1>5, <1>6, <1>7, <1>8, <1>9, <1>10 DEF Sound

\* one that has handed over or failed,
LEMMA EndKeeps ==
  ASSUME IInv, NEW s \in Schedules, NEW g \in Triggers, NEW q \in Records,
         at[s][g] \in {"starting", "running"}, GoTo(s, g, "recording"), Persist, known' = known,
         sch' = [sch EXCEPT ![s] = q], q.count = sch[s].count, ~ Ready(q),
         q.status = "active" => sch[s].status = "active",
         handed' = handed \/ (at[s][g] = "starting" /\ handed' = [handed EXCEPT ![s] = Up(@)]),
         UNCHANGED <<kind, born, todo, before, inflight, taken, raced>>
  PROVE  FileOK' /\ \A z \in Schedules : Sound(z)'
<1>t. /\ sch \in [Schedules -> Records] /\ at \in [Schedules -> [Triggers -> Places]]
      /\ handed \in [Schedules -> 0 .. MaxFires] /\ known \subseteq Schedules /\ TypeOK
      /\ "recording" \in Places
  BY DEF IInv, TypeOK, Places
<1>1. FileOK' /\ \A z \in known' : file'[z] = sch'[z]
  BY <1>t, PersistKeepsFile
<1>2. /\ at'[s][g] = "recording" /\ \A h \in Triggers : h # g => at'[s][h] = at[s][h]
      /\ \A z \in Schedules : z # s => at'[z] = at[z]
  BY <1>t, GoToTyped
<1>3. ASSUME NEW z \in Schedules, z # s PROVE Sound(z)'
  <2>1. Sound(z) /\ sch'[z] = sch[z] /\ handed'[z] = handed[z] /\ at'[z] = at[z]
    BY <1>2, <1>3, <1>t DEF IInv
  <2> QED
    BY <1>t, <1>1, <2>1, StaysSound
<1>4. Sound(s) /\ sch'[s] = q
  BY <1>t DEF IInv
<1>5. BornOK(s)'
  BY <1>4 DEF Sound, BornOK
<1>6. CountOK(s)'
  <2>1. Between(s)' = Between(s) - One(s, g) /\ Between(s) - One(s, g) \in Nat
    <3>1. g = "cron" \/ g = "again" \/ g = "manual"
      BY Counts, <1>t
    <3>2. One(s, g)' = 0 /\ \A h \in Triggers : h # g => One(s, h)' = One(s, h)
      BY <1>2 DEF One
    <3>3. {"cron", "again", "manual"} = Triggers /\ \A h \in Triggers : One(s, h) \in {0, 1}
      BY <1>t, Counts
    <3>4. CASE g = "cron"
      BY <3>2, <3>3, <3>4 DEF Between
    <3>5. CASE g = "again"
      BY <3>2, <3>3, <3>5 DEF Between
    <3>6. CASE g = "manual"
      BY <3>2, <3>3, <3>6 DEF Between
    <3> QED
      BY <3>1, <3>4, <3>5, <3>6
  <2>2. handed'[s] <= handed[s] + One(s, g)
    <3>1. handed[s] \in Nat /\ Up(handed[s]) <= handed[s] + 1
      BY <1>t, BoundsAssumption DEF Up
    <3>2. CASE handed' = handed
      BY <3>1, <3>2 DEF One
    <3>3. CASE at[s][g] = "starting" /\ handed' = [handed EXCEPT ![s] = Up(@)]
      <4>1. handed'[s] = Up(handed[s])
        BY <3>3, <1>t
      <4> QED
        BY <3>1, <3>3, <4>1 DEF One
    <3> QED
      BY <3>2, <3>3
  <2>3. handed'[s] \in Nat /\ handed[s] \in Nat /\ sch[s].count \in Nat
    BY <1>t, UpTyped, BoundsAssumption DEF Records
  <2>4. /\ Between(s) \in Nat /\ One(s, g) \in {0, 1} /\ Between(s) - One(s, g) \in Nat
        /\ file[s].count \in 0 .. MaxFires /\ sch[s].count \in 0 .. MaxFires /\ MaxFires \in Nat
    BY <1>t, <2>1, Counts DEF Between
  <2>5. s \in known => file'[s] = sch'[s]
    BY <1>1
  <2> QED
    BY <1>4, <2>1, <2>2, <2>3, <2>4, <2>5 DEF Sound, CountOK
<1>7. TakenOK(s)'
  BY <1>2, <1>4, <1>t DEF Sound, TakenOK, Single, Manual, Triggers
<1>8. AloneOK(s)'
  BY <1>2, <1>4 DEF Sound, AloneOK
<1> QED
  BY <1>1, <1>3, <1>4, <1>5, <1>6, <1>7, <1>8 DEF Sound

\* and a change of the user that does not make it due.
LEMMA EditKeeps ==
  ASSUME IInv, NEW s \in Schedules, NEW r \in Records, Edits(s, r), Persist, known' \subseteq known,
         r.count = sch[s].count, Ready(r) => Ready(sch[s])
  PROVE  FileOK' /\ \A z \in Schedules : Sound(z)'
<1>t. sch \in [Schedules -> Records] /\ known \subseteq Schedules
  BY DEF IInv, TypeOK
<1>1. FileOK' /\ \A z \in known' : file'[z] = sch'[z]
  BY <1>t, PersistKeepsFile
<1>2. /\ sch' = [sch EXCEPT ![s] = r] /\ (Manual(s) => s \in raced') /\ raced \subseteq raced'
      /\ UNCHANGED <<kind, born, todo, at, before, inflight, handed, taken>>
  BY DEF Edits, Races, fireVars, tickVars
<1>3. ASSUME NEW z \in Schedules, z # s PROVE Sound(z)'
  <2>1. Sound(z) /\ sch'[z] = sch[z] /\ TypeOK
    BY <1>2, <1>3, <1>t DEF IInv
  <2> QED
    BY <1>1, <1>2, <2>1, StaysSound
<1>4. Sound(s) /\ sch'[s] = r
  BY <1>2, <1>t DEF IInv
<1>5. BornOK(s)'
  BY <1>2, <1>4 DEF Sound, BornOK
<1>6. CountOK(s)'
  <2>1. Between(s)' = Between(s) /\ Between(s) \in Nat /\ TypeOK
    BY <1>2, Counts DEF Between, One, IInv
  <2> QED
    BY <1>1, <1>2, <1>4, <2>1, Counts DEF Sound, CountOK
<1>7. TakenOK(s)'
  BY <1>2, <1>4 DEF Sound, TakenOK, Single, Manual
<1>8. AloneOK(s)'
  BY <1>2, <1>4 DEF Sound, AloneOK
<1> QED
  BY <1>1, <1>3, <1>4, <1>5, <1>6, <1>7, <1>8 DEF Sound

\* Every step keeps the file and every schedule sound.
LEMMA KeepsNext == IInv /\ [Next]_schedVars => FileOK' /\ \A s \in Schedules : Sound(s)'
<1> SUFFICES ASSUME IInv, [Next]_schedVars PROVE FileOK' /\ \A z \in Schedules : Sound(z)'
  OBVIOUS
<1> DEFINE Goal == FileOK' /\ \A z \in Schedules : Sound(z)'
<1>t. /\ sch \in [Schedules -> Records] /\ at \in [Schedules -> [Triggers -> Places]]
      /\ before \in [Schedules -> Times] /\ known \subseteq Schedules /\ TypeOK
  BY DEF IInv, TypeOK
<1>i. FileOK /\ \A z \in Schedules : Sound(z)
  BY DEF IInv
<1>g. {"cron", "again", "manual"} = Triggers /\ OfTick = {"cron", "again"}
  BY DEF Triggers, OfTick
<1>b. ASSUME NEW z \in Schedules
      PROVE  /\ Between(z) \in Nat /\ handed[z] \in Nat /\ MaxFires \in Nat
             /\ sch[z].count \in 0 .. MaxFires /\ file[z].count \in 0 .. MaxFires
  <2>1. /\ {"cron", "again", "manual"} = Triggers /\ \A g \in Triggers : One(z, g) \in {0, 1}
        /\ sch[z].count \in 0 .. MaxFires /\ file[z].count \in 0 .. MaxFires
        /\ handed[z] \in 0 .. MaxFires /\ MaxFires \in Nat
    BY <1>t, Counts
  <2>2. Between(z) \in Nat
    BY <2>1 DEF Between
  <2> QED
    BY <2>1, <2>2
<1>q. ASSUME known' \subseteq known, todo' \subseteq known \union todo, FileOK',
             UNCHANGED <<kind, sch, born, at, before, inflight, handed, taken, raced>>,
             \A z \in known' : file'[z] \in {file[z], sch[z]}
      PROVE  Goal
  BY <1>i, <1>q, <1>t, StaysSound
<1>f. ASSUME UNCHANGED <<known, fileVars>>
      PROVE  FileOK' /\ \A z \in known' : file'[z] \in {file[z], sch[z]}
  BY <1>i, <1>f DEF FileOK, fileVars
<1>d. ASSUME NEW deleted \in SUBSET Schedules, DeleteSchedules(deleted) PROVE Goal
  <2>1. /\ known' \subseteq known /\ Persist
        /\ UNCHANGED <<kind, sch, born, todo, at, before, inflight, handed, taken, raced>>
    BY <1>d DEF DeleteSchedules, fireVars, histVars, tickVars
  <2>2. FileOK' /\ \A z \in known' : file'[z] = sch'[z]
    BY <1>t, <2>1, PersistKeepsFile
  <2> QED
    BY <1>q, <2>1, <2>2
<1>1. CASE TickStarts
  BY <1>1, <1>q, <1>f DEF TickStarts, fireVars, histVars, tickVars
<1>2. ASSUME NEW s \in Schedules, TimePasses(s) PROVE Goal
  <2>1. /\ sch' = [sch EXCEPT ![s].next = "due"] /\ taken' = taken \ {s}
        /\ UNCHANGED <<kind, known, born, fileVars, todo, at, before, inflight, handed, raced>>
    BY <1>2 DEF TimePasses, fireVars, tickVars
  <2>2. sch'[s] = [sch[s] EXCEPT !.next = "due"] /\ sch'[s].count = sch[s].count
    BY <1>t, <2>1 DEF Records
  <2>3. ASSUME NEW z \in Schedules, z # s PROVE Sound(z)' /\ sch'[z] = sch[z]
    BY <1>i, <1>t, <1>f, <2>1, <2>3, StaysSound
  <2>4. FileOK'
    BY <1>f, <2>1
  <2>5. Sound(s)'
    BY <1>i, <2>1, <2>2 DEF Sound, BornOK, CountOK, Between, One, TakenOK, Single, AloneOK, fileVars
  <2> QED
    BY <2>3, <2>4, <2>5
<1>3. ASSUME NEW s \in Schedules, TickPasses(s) PROVE Goal
  BY <1>3, <1>q, <1>f DEF TickPasses, Looks, fireVars, histVars
<1>4. ASSUME NEW s \in Schedules, TickSkips(s) PROVE Goal
  <2>1. /\ sch' = [sch EXCEPT ![s] = Recomputed(@)] /\ known' = known /\ todo' \subseteq todo
        /\ (Persist \/ UNCHANGED fileVars) /\ raced \subseteq raced'
        /\ UNCHANGED <<kind, born, at, before, inflight, handed, taken>> /\ (Manual(s) => s \in raced')
    BY <1>4 DEF TickSkips, Looks, Races, fireVars
  <2>2. /\ sch'[s] = Recomputed(sch[s]) /\ sch'[s].count = sch[s].count /\ ~ Ready(sch'[s])
        /\ sch'[s].status = sch[s].status
    BY <1>t, <2>1, RecomputedIs
  <2>3. FileOK' /\ \A z \in known' : file'[z] \in {file[z], sch'[z]}
    BY <1>f, <2>1, <1>t, PersistKeepsFile DEF fileVars
  <2>4. ASSUME NEW z \in Schedules, z # s PROVE Sound(z)'
    <3>1. sch'[z] = sch[z]
      BY <1>t, <2>1, <2>4
    <3> QED
      BY <1>i, <1>t, <2>1, <2>3, <2>4, <3>1, StaysSound
  <2>5. BornOK(s)' /\ TakenOK(s)' /\ AloneOK(s)'
    BY <1>i, <2>1, <2>2 DEF Sound, BornOK, TakenOK, Single, Manual, AloneOK
  <2>6. CountOK(s)'
    <3>1. Between(s)' = Between(s)
      BY <2>1 DEF Between, One
    <3>2. s \in known => file'[s].count \in {file[s].count, sch[s].count}
      BY <2>1, <2>2, <2>3
    <3> QED
      BY <1>i, <1>b, <2>1, <2>2, <3>1, <3>2 DEF Sound, CountOK
  <2> QED
    BY <2>3, <2>4, <2>5, <2>6 DEF Sound
<1>5. ASSUME NEW s \in Schedules, TickFires(s) PROVE Goal
  <2>1. PICK g \in OfTick : at[s][g] = "idle" /\ Fire(s, g)
    BY <1>5 DEF TickFires
  <2>2. /\ taken' = taken \union {s} /\ s \in todo /\ todo' \subseteq todo /\ UNCHANGED <<kind, born, before>>
        /\ ~ TickWaits /\ s \notin inflight
        /\ raced \subseteq raced' /\ (Manual(s) => s \in raced')
    BY <1>5 DEF TickFires, Looks, Races
  <2>3. ASSUME s \notin raced', NEW h \in Triggers PROVE at[s][h] = "idle"
    <3>1. at[s]["manual"] = "idle" /\ AloneOK(s) /\ s \notin raced
      BY <1>i, <2>2, <2>3 DEF Manual, Sound
    <3>2. CASE kind[s] = "script"
      BY <2>2, <3>1, <3>2 DEF AloneOK
    <3>3. CASE kind[s] # "script"
      BY <1>g, <2>2, <3>1, <3>3 DEF TickWaits
    <3> QED
      BY <3>2, <3>3
  <2> QED
    BY <1>g, <2>1, <2>2, <2>3, FireKeeps
<1>6. ASSUME NEW s \in Schedules, NEW g \in Triggers, StartReturns(s, g) PROVE Goal
  <2>1. PICK q \in {FireSucceeds(sch[s]), FireFails(sch[s])} :
          /\ sch' = [sch EXCEPT ![s] = q]
          /\ handed' = handed \/ handed' = [handed EXCEPT ![s] = Up(@)]
    BY <1>6, <1>t DEF StartReturns
  <2>2. q \in Records /\ q.count = sch[s].count /\ ~ Ready(q) /\ (q.status = "active" => sch[s].status = "active")
    BY <1>t, EndsIs
  <2>3. /\ at[s][g] = "starting" /\ GoTo(s, g, "recording") /\ known' = known /\ Persist
        /\ UNCHANGED <<kind, born, todo, before, inflight, taken, raced>>
    BY <1>6 DEF StartReturns, tickVars
  <2> QED
    BY <2>1, <2>2, <2>3, EndKeeps
<1>7. ASSUME NEW s \in Schedules, NEW g \in Triggers, ScriptReturns(s, g) PROVE Goal
  <2>1. PICK q \in {FireSucceeds(sch[s]), ScriptFails(sch[s])} : sch' = [sch EXCEPT ![s] = q]
    BY <1>7, <1>t DEF ScriptReturns
  <2>2. q \in Records /\ q.count = sch[s].count /\ ~ Ready(q) /\ (q.status = "active" => sch[s].status = "active")
    BY <1>t, EndsIs
  <2>3. /\ at[s][g] = "running" /\ GoTo(s, g, "recording") /\ known' = known /\ Persist
        /\ handed' = handed /\ UNCHANGED <<kind, born, todo, before, inflight, taken, raced>>
    BY <1>7 DEF ScriptReturns, histVars, tickVars
  <2> QED
    BY <2>1, <2>2, <2>3, EndKeeps
<1>e. ASSUME NEW s \in Schedules, NEW g \in Triggers, at[s][g] = "recording", GoTo(s, g, "idle"),
             sch' = sch \/ (g = "manual" /\ sch' = [sch EXCEPT ![s].next = before[s]]),
             Forgets(s, g), inflight' = inflight \ {s},
             known' \subseteq known, todo' \subseteq todo, FileOK',
             \A z \in known' : file'[z] \in {file[z], sch'[z]},
             UNCHANGED <<kind, born, handed, taken, raced>>
      PROVE  Goal
  <2>1. /\ before' \in {before, [before EXCEPT ![s] = "none"]}
        /\ g # "manual" => before' = before
    BY <1>e DEF Forgets
  <2>3. "idle" \in Places
    BY DEF Places
  <2>4. /\ at'[s][g] = "idle" /\ \A h \in Triggers : h # g => at'[s][h] = at[s][h]
        /\ \A z \in Schedules : z # s => at'[z] = at[z]
    BY <1>e, <1>t, <2>3, GoToTyped
  <2>5. ASSUME NEW z \in Schedules, z # s PROVE Sound(z)'
    <3>1. sch'[z] = sch[z] /\ before'[z] = before[z] /\ at'[z] = at[z]
      BY <1>e, <1>t, <2>1, <2>4, <2>5
    <3> QED
      BY <1>e, <1>i, <1>t, <2>5, <3>1, StaysSound
  <2>6. Sound(s)
    BY <1>i
  <2>7. sch'[s].count = sch[s].count /\ sch'[s].status = sch[s].status
    BY <1>e, <1>t DEF Records
  <2>8. BornOK(s)'
    BY <1>e, <2>4, <2>6 DEF Sound, BornOK
  <2>9. CountOK(s)'
    <3>1. Between(s)' = Between(s)
      BY <1>e, <2>4, <1>g DEF Between, One
    <3>2. s \in known' => file'[s].count \in {file[s].count, sch[s].count}
      BY <1>e, <2>7
    <3> QED
      BY <1>e, <1>b, <2>6, <2>7, <3>1, <3>2 DEF Sound, CountOK
  <2>10. TakenOK(s)'
    <3>1. CASE g # "manual"
      <4>1. sch' = sch /\ before' = before
        BY <1>e, <2>1, <3>1
      <4> QED
        BY <1>e, <1>g, <2>4, <2>6, <3>1, <4>1 DEF Sound, TakenOK, Single, Manual
    <3>2. CASE g = "manual"
      <4>1. Manual(s) /\ ~ Manual(s)' /\ \A h \in OfTick : at'[s][h] = at[s][h]
        BY <1>e, <1>g, <2>4, <3>2 DEF Manual
      <4>2. sch' = sch \/ (sch'[s].next = before[s] /\ sch'[s].status = sch[s].status)
        BY <1>e, <1>t DEF Records
      <4> QED
        BY <1>e, <2>6, <4>1, <4>2 DEF Sound, TakenOK, Single, Ready
    <3> QED
      BY <3>1, <3>2
  <2>11. AloneOK(s)'
    BY <1>e, <2>4, <2>6 DEF Sound, AloneOK
  <2> QED
    BY <1>e, <2>5, <2>8, <2>9, <2>10, <2>11 DEF Sound
<1>8. ASSUME NEW s \in Schedules, NEW g \in Triggers, Recorded(s, g) PROVE Goal
  <2>1. /\ GoTo(s, g, "idle") /\ known' \subseteq known /\ Persist /\ at[s][g] = "recording"
        /\ sch' = sch \/ (g = "manual" /\ sch' = [sch EXCEPT ![s].next = before[s]])
        /\ Forgets(s, g) /\ inflight' = inflight \ {s}
        /\ UNCHANGED <<kind, born, todo, handed, taken, raced>>
    BY <1>8 DEF Recorded, histVars, tickVars
  <2>2. FileOK' /\ \A z \in known' : file'[z] = sch'[z]
    BY <1>t, <2>1, PersistKeepsFile
  <2> QED
    BY <1>e, <2>1, <2>2
<1>21. ASSUME NEW s \in Schedules, NEW g \in Triggers, RecordBreaks(s, g) PROVE Goal
  <2>1. /\ GoTo(s, g, "idle") /\ known' = known /\ at[s][g] = "recording" /\ sch' = sch
        /\ Forgets(s, g) /\ inflight' = inflight \ {s} /\ todo' \subseteq todo
        /\ UNCHANGED <<kind, fileVars, born, handed, taken, raced>>
    BY <1>21 DEF RecordBreaks, Breaks, histVars, tickVars
  <2>2. FileOK' /\ \A z \in known' : file'[z] \in {file[z], sch'[z]}
    BY <1>f, <2>1
  <2> QED
    BY <1>e, <2>1, <2>2
<1>22. ASSUME NEW s \in Schedules, TickBreaks(s) PROVE Goal
  <2>1. /\ sch' = sch \/ sch' = [sch EXCEPT ![s] = Counted(@)]
        /\ todo' = {} /\ UNCHANGED <<kind, known, born, fileVars, at, before, inflight, handed, taken, raced>>
    BY <1>22 DEF TickBreaks, Breaks, fireVars, histVars
  <2>2. FileOK' /\ \A z \in known' : file'[z] = file[z]
    BY <1>f, <2>1 DEF fileVars
  <2>3. ASSUME NEW z \in Schedules, z # s PROVE Sound(z)'
    <3>1. sch'[z] = sch[z]
      BY <1>t, <2>1, <2>3
    <3> QED
      BY <1>i, <1>t, <2>1, <2>2, <2>3, <3>1, StaysSound
  <2>4. /\ sch'[s].count \in 0 .. MaxFires /\ sch'[s].count >= sch[s].count
        /\ sch'[s].status = sch[s].status /\ sch'[s].next = sch[s].next
    <3>1. sch'[s] = sch[s] \/ sch'[s] = Counted(sch[s])
      BY <1>t, <2>1
    <3> QED
      BY <1>t, <1>b, <3>1, CountedIs, UpTyped
  <2>5. CountOK(s)'
    <3>1. Between(s)' = Between(s)
      BY <2>1 DEF Between, One
    <3> QED
      BY <1>i, <1>b, <2>1, <2>2, <2>4, <3>1 DEF Sound, CountOK
  <2>6. BornOK(s)' /\ TakenOK(s)' /\ AloneOK(s)'
    BY <1>i, <2>1, <2>4 DEF Sound, BornOK, TakenOK, Single, Manual, Ready, AloneOK
  <2> QED
    BY <2>2, <2>3, <2>5, <2>6 DEF Sound
<1>9. ASSUME NEW s \in Schedules, NEW n \in Repeats \union {Unlimited}, Creates(s, n) PROVE Goal
  <2> DEFINE r == [status |-> "active", next |-> "later", fails |-> 0, count |-> 0, repeat |-> n]
  <2>1. r.count = 0 /\ ~ Ready(r)
    BY DEF Ready
  <2> HIDE DEF r
  <2>2. /\ s \notin born /\ sch' = [sch EXCEPT ![s] = r] /\ born' = born \union {s}
        /\ known' = known \union {s} /\ Persist
        /\ UNCHANGED <<kind, todo, at, before, inflight, handed, taken, raced>>
    BY <1>9 DEF Creates, r, fireVars, histVars, tickVars
  <2>3. FileOK' /\ \A z \in known' : file'[z] = sch'[z]
    BY <1>t, <2>2, PersistKeepsFile
  <2>4. ASSUME NEW z \in Schedules, z # s PROVE Sound(z)'
    <3>1. sch'[z] = sch[z]
      BY <1>t, <2>2, <2>4
    <3> QED
      BY <1>i, <1>t, <2>2, <2>3, <2>4, <3>1, StaysSound
  <2>5. sch'[s] = r /\ Sound(s)
    BY <1>i, <1>t, <2>2
  <2>6. handed[s] = 0 /\ s \notin taken /\ \A g \in Triggers : at[s][g] = "idle"
    BY <2>2, <2>5 DEF Sound, BornOK
  <2>7. CountOK(s)'
    <3>1. Between(s)' = 0
      BY <1>g, <2>2, <2>6 DEF Between, One
    <3> QED
      BY <2>1, <2>2, <2>3, <2>5, <2>6, <3>1 DEF CountOK
  <2>8. BornOK(s)' /\ TakenOK(s)' /\ AloneOK(s)'
    BY <2>1, <2>2, <2>5, <2>6 DEF Sound, BornOK, TakenOK, Single, AloneOK
  <2> QED
    BY <2>3, <2>4, <2>7, <2>8 DEF Sound
<1>10. ASSUME NEW s \in Schedules, CreateByUser(s) \/ CreateByMinion(s) PROVE Goal
  BY <1>9, <1>10 DEF CreateByUser, CreateByMinion
<1>11. ASSUME NEW s \in Schedules, RunNow(s) PROVE Goal
  <2>1. /\ Fire(s, "manual") /\ before' = [before EXCEPT ![s] = sch[s].next] /\ s \in known
        /\ at[s]["manual"] = "idle" /\ UNCHANGED <<kind, born, todo, taken>>
        /\ raced \subseteq raced' /\ (s \notin raced' => \A g \in OfTick : at[s][g] = "idle")
    BY <1>11 DEF RunNow, Manual, Races, tickVars
  <2> QED
    BY <1>g, <2>1, FireKeeps
<1>12. ASSUME NEW s \in Schedules, PauseSchedule(s) PROVE Goal
  <2> DEFINE r == [sch[s] EXCEPT !.status = "paused"]
  <2>1. r \in Records /\ r.count = sch[s].count /\ ~ Ready(r)
    BY <1>t, EditedIs, ZenonT(60) DEF Records, Ready
  <2>2. Edits(s, r) /\ known' = known /\ Persist
    BY <1>12 DEF PauseSchedule
  <2> HIDE DEF r
  <2> QED
    BY <2>1, <2>2, EditKeeps
<1>13. ASSUME NEW s \in Schedules, ResumeSchedule(s) PROVE Goal
  <2> DEFINE q == [sch[s] EXCEPT !.status = "active", !.fails = 0]
  <2>0. sch[s] \in Records
    BY <1>t
  <2>1. q \in Records /\ q.count = sch[s].count
    BY <2>0, EditedIs DEF Records
  <2>2. Edits(s, Recomputed(q)) /\ known' = known /\ Persist
    BY <1>13 DEF ResumeSchedule
  <2> HIDE DEF q
  <2> QED
    BY <2>1, <2>2, RecomputedIs, EditKeeps
<1>u. ASSUME NEW s \in Schedules, NEW r \in Updated(s)
      PROVE  r \in Records /\ r.count = sch[s].count /\ (Ready(r) => Ready(sch[s]))
  BY <1>t, <1>u, RecomputedIs DEF Updated
<1>14. ASSUME NEW s \in Schedules, UpdateSchedule(s) PROVE Goal
  <2>1. PICK r \in Updated(s) : Edits(s, r) /\ known' = known /\ Persist
    BY <1>14 DEF UpdateSchedule
  <2> QED
    BY <1>u, <2>1, EditKeeps
<1>15. ASSUME NEW s \in Schedules, UpdateRepeats(s) PROVE Goal
  <2>1. PICK r \in Updated(s), n \in Repeats :
          Edits(s, [r EXCEPT !.repeat = n]) /\ known' \subseteq known /\ Persist
    BY <1>15 DEF UpdateRepeats
  <2> DEFINE q == [r EXCEPT !.repeat = n]
  <2>2. r \in Records /\ r.count = sch[s].count /\ (Ready(r) => Ready(sch[s]))
    BY <1>u
  <2>3. q \in Records /\ q.count = r.count /\ (Ready(q) => Ready(r))
    BY <2>2, EditedIs DEF Ready, Records
  <2> HIDE DEF q
  <2>4. Edits(s, q)
    BY <2>1 DEF q
  <2> QED
    BY <2>1, <2>2, <2>3, <2>4, EditKeeps
<1>16. ASSUME NEW s \in Schedules, ByUser(s) \/ ByMinion(s) PROVE Goal
  BY <1>d, <1>11, <1>12, <1>13, <1>14, <1>15, <1>16 DEF ByUser, ByMinion
<1>17. ASSUME NEW s \in Schedules,
              AgentStarts(s) \/ AgentAsks(s) \/ AgentAnswered(s) \/ AgentFinishes(s) \/ AgentStops(s)
       PROVE  Goal
  <2>1. UNCHANGED <<kind, sch, known, born, fileVars, tickVars, fireVars, monVars, histVars>>
    BY <1>17 DEF AgentStarts, AgentAsks, AgentAnswered, AgentFinishes, AgentStops, Agents
  <2> QED
    BY <1>q, <1>f, <2>1 DEF fireVars, histVars, tickVars
<1>18. ASSUME NEW m \in Monitors, Monitor(m) PROVE Goal
  <2>1. UNCHANGED <<kind, sch, known, born, fileVars, tickVars, fireVars, histVars>>
    BY <1>18 DEF Monitor, MonitorPolls, MonitorArchives, Watching
  <2> QED
    BY <1>q, <1>f, <2>1 DEF fireVars, histVars, tickVars
<1>19. CASE Crash
  <2>1. /\ known' = saved /\ saved = known /\ todo' = {} /\ UNCHANGED <<kind, born, fileVars, handed, taken>>
        /\ \A z \in Schedules, g \in Triggers : at'[z][g] = "idle"
    BY <1>19, <1>i DEF Crash, FileOK
  <2>2. ASSUME NEW z \in Schedules, z \in known' PROVE sch'[z].count = file[z].count /\ ~ Ready(sch'[z])
    <3>1. file[z] \in Records
      BY <1>t DEF TypeOK
    <3> QED
      BY <1>19, <2>1, <2>2, <3>1, RecomputedIs DEF Crash
  <2>3. FileOK'
    BY <2>1 DEF FileOK, fileVars
  <2>4. ASSUME NEW z \in Schedules PROVE Sound(z)'
    <3>1. BornOK(z)'
      BY <1>i, <2>1 DEF Sound, BornOK
    <3>2. CountOK(z)'
      <4>1. Between(z)' = 0 /\ handed'[z] = handed[z] /\ file'[z] = file[z]
        BY <2>1, <1>g DEF Between, One, fileVars
      <4>2. z \in known => file[z].count = MaxFires \/ handed[z] + Between(z) <= file[z].count
        BY <1>i DEF Sound, CountOK
      <4> QED
        BY <1>b, <2>1, <2>2, <4>1, <4>2 DEF CountOK
    <3>3. TakenOK(z)' /\ AloneOK(z)'
      BY <2>1, <2>2, <1>g DEF TakenOK, Single, Manual, AloneOK
    <3> QED
      BY <3>1, <3>2, <3>3 DEF Sound
  <2> QED
    BY <2>3, <2>4
<1>20. CASE UNCHANGED schedVars
  BY <1>20, <1>q, <1>f DEF schedVars, fireVars, histVars, tickVars
<1> QED
  BY <1>d, <1>1, <1>2, <1>3, <1>4, <1>5, <1>6, <1>7, <1>8, <1>10, <1>16, <1>17, <1>18, <1>19, <1>20, <1>21, <1>22, <1>t
  DEF Next, Tick, FireGoesOn

-----------------------------------------------------------------------------
(* The theorems.                                                           *)

\* The invariant holds at the start,
LEMMA InitSound == Init => IInv
<1> SUFFICES ASSUME Init PROVE IInv
  OBVIOUS
<1>1. TypeOK
  <2>1. [status |-> "paused", next |-> "none", fails |-> 0, count |-> 0, repeat |-> Unlimited] \in Records
    BY BoundsAssumption DEF Records, Times
  <2>2. "idle" \in Places /\ "none" \in Times /\ 0 \in 0 .. MaxFires
    BY BoundsAssumption DEF Places, Times
  <2>3. None \in Schedules \union {None}
    OBVIOUS
  <2>4. watch \in [Monitors -> Schedules \union {None}]
    BY <2>3 DEF Init
  <2> QED
    BY <2>1, <2>2, <2>4, MixesAssumption DEF Init, TypeOK
<1>2. FileOK
  BY DEF Init, FileOK
<1>3. ASSUME NEW s \in Schedules PROVE Sound(s)
  <2>1. /\ \A g \in Triggers : at[s][g] = "idle"
        /\ handed[s] = 0 /\ s \notin known \union todo /\ s \notin taken
    BY DEF Init
  <2> QED
    BY <2>1 DEF Sound, BornOK, CountOK, TakenOK, Single, AloneOK
<1> QED
  BY <1>1, <1>2, <1>3 DEF IInv

\* every step keeps it,
LEMMA StepSound == IInv /\ [Next]_schedVars => IInv'
BY TypeNext, KeepsNext DEF IInv

\* so it always holds.
LEMMA AlwaysSound == Spec => []IInv
BY InitSound, StepSound, PTL DEF Spec

\* The variables keep their shape.
THEOREM TypeCorrect == Spec => []TypeOK
<1>1. IInv => TypeOK
  BY DEF IInv
<1> QED
  BY <1>1, AlwaysSound, PTL

\* FiresAreCounted: what is handed over has been counted in the file before
\* (issue #1538), by _fire_permanent_schedule, _fire_ephemeral_schedule and
\* _fire_script_schedule, whatever else fires or crashes meanwhile.
THEOREM FiresCounted == Spec => []FiresAreCounted
<1>1. IInv => FiresAreCounted
  <2> SUFFICES ASSUME IInv, NEW s \in saved PROVE handed[s] <= file[s].count
    BY DEF FiresAreCounted
  <2>1. s \in Schedules /\ s \in known
    BY DEF IInv, TypeOK, FileOK
  <2>2. handed[s] \in 0 .. MaxFires /\ file[s].count \in 0 .. MaxFires /\ Between(s) \in Nat
    BY <2>1, Counts DEF IInv, Between
  <2>3. CountOK(s)
    BY <2>1 DEF IInv, Sound
  <2> QED
    BY <2>1, <2>2, <2>3, BoundsAssumption DEF CountOK
<1> QED
  BY <1>1, AlwaysSound, PTL

\* DeletedStaysDeleted: no fire that is under way and no restart brings back what
\* delete_schedule has removed.
THEOREM DeletedForGood == Spec => DeletedStaysDeleted
<1>1. IInv /\ [Next]_schedVars => [known' \intersect born \subseteq known]_schedVars
  <2> SUFFICES ASSUME IInv, Next PROVE known' \intersect born \subseteq known
    BY DEF schedVars
  <2>1. saved = known
    BY DEF IInv, FileOK
  <2>f. ASSUME NEW s \in Schedules, NEW g \in Triggers, Fire(s, g) PROVE known' = known
    BY <2>f, FireDoes DEF IInv
  <2>g. "manual" \in Triggers /\ OfTick \subseteq Triggers
    BY DEF Triggers, OfTick
  <2>2. ASSUME NEW s \in Schedules, Tick(s) PROVE known' = known
    BY <2>2, <2>f, <2>g DEF Tick, TickPasses, TickSkips, TickFires, TickBreaks
  <2>3. ASSUME NEW s \in Schedules, NEW g \in Triggers, FireGoesOn(s, g) PROVE known' \subseteq known
    BY <2>3 DEF FireGoesOn, StartReturns, ScriptReturns, Recorded, RecordBreaks
  <2>4. ASSUME NEW s \in Schedules, ByUser(s) \/ ByMinion(s) PROVE known' \subseteq known
    <3>1. CASE RunNow(s)
      BY <3>1, <2>f, <2>g DEF RunNow
    <3>2. CASE UpdateRepeats(s)
      BY <3>2 DEF UpdateRepeats
    <3>3. CASE PauseSchedule(s) \/ ResumeSchedule(s) \/ UpdateSchedule(s)
      BY <3>3 DEF PauseSchedule, ResumeSchedule, UpdateSchedule
    <3> QED
      BY <2>4, <3>1, <3>2, <3>3 DEF ByUser, ByMinion
  <2>5. ASSUME NEW s \in Schedules, CreateByUser(s) \/ CreateByMinion(s)
        PROVE  known' \intersect born \subseteq known
    BY <2>5 DEF CreateByUser, CreateByMinion, Creates
  <2>6. ASSUME NEW s \in Schedules,
               TimePasses(s) \/ AgentStarts(s) \/ AgentAsks(s) \/ AgentAnswered(s)
                 \/ AgentFinishes(s) \/ AgentStops(s)
        PROVE  known' = known
    BY <2>6 DEF TimePasses, AgentStarts, AgentAsks, AgentAnswered, AgentFinishes, AgentStops, Agents
  <2>7. ASSUME NEW deleted \in SUBSET known, DeleteSchedules(deleted) PROVE known' \subseteq known
    BY <2>7 DEF DeleteSchedules
  <2>8. ASSUME NEW m \in Monitors, Monitor(m) PROVE known' = known
    BY <2>8 DEF Monitor, MonitorPolls, MonitorArchives, Watching
  <2>9. TickStarts \/ Crash => known' = known
    BY <2>1 DEF TickStarts, Crash
  <2> QED
    BY <2>2, <2>3, <2>4, <2>5, <2>6, <2>7, <2>8, <2>9 DEF Next
<1> QED
  BY <1>1, AlwaysSound, PTL DEF Spec, DeletedStaysDeleted

\* A fire that goes on is not one that begins.
LEMMA GoesOn ==
  ASSUME TypeOK, NEW s \in Schedules, NEW g \in Triggers, NEW place, GoTo(s, g, place),
         at[s][g] # "idle" \/ place = "idle" \/ g \notin OfTick, NEW z \in Schedules
  PROVE  ~ CronFires(z)
<1>1. at \in [Schedules -> [Triggers -> Places]] /\ OfTick \subseteq Triggers
  BY DEF TypeOK, Triggers, OfTick
<1>2. \A h \in OfTick : at'[z][h] = at[z][h] \/ (z = s /\ g = h /\ at'[z][h] = place)
  BY <1>1 DEF GoTo
<1> QED
  BY <1>2 DEF CronFires

\* OncePerTime: the tick fires a time once, however long the fire takes and
\* whatever is done to the schedule, unless run_now puts the time back.
THEOREM FiredOnce == Spec => OncePerTime
<1> DEFINE Once == \A s \in Schedules : CronFires(s) /\ s \notin raced => s \notin taken
<1>1. IInv /\ [Next]_schedVars => [Once]_schedVars
  <2> SUFFICES ASSUME IInv, Next, NEW z \in Schedules, CronFires(z), z \notin raced PROVE z \notin taken
    BY DEF schedVars
  <2>t. /\ TypeOK /\ at \in [Schedules -> [Triggers -> Places]]
        /\ "manual" \in Triggers /\ "manual" \notin OfTick /\ OfTick \subseteq Triggers
    BY DEF IInv, TypeOK, Triggers, OfTick
  <2>0. PICK h \in OfTick : at[z][h] = "idle" /\ at'[z][h] # "idle"
    BY DEF CronFires
  <2>1. at' # at
    BY <2>0
  <2>f. ASSUME NEW s \in Schedules, NEW g \in Triggers, Fire(s, g), z # s \/ g = "manual" PROVE FALSE
    <3>1. PICK place : GoTo(s, g, place)
      BY <2>f DEF Fire, FirePrompt, FireEphemeral, FireScript
    <3> QED
      BY <2>0, <2>t, <2>f, <3>1 DEF GoTo
  <2>2. ASSUME NEW s \in Schedules, TickFires(s) PROVE z \notin taken
    <3>1. z = s
      BY <2>2, <2>f, <2>t DEF TickFires
    <3>2. s \in todo /\ Ready(sch[s]) /\ ~ TickWaits /\ s \notin inflight
      BY <2>2 DEF TickFires, Looks, Due, Ready
    <3>3. TakenOK(z) /\ AloneOK(z)
      BY DEF IInv, Sound
    <3>4. \A g \in OfTick : at[z][g] = "idle"
      BY <2>t, <3>1, <3>2, <3>3 DEF AloneOK, TickWaits
    <3> QED
      BY <3>1, <3>2, <3>3, <3>4 DEF TakenOK, Single
  <2>3. ASSUME NEW s \in Schedules, NEW g \in Triggers, FireGoesOn(s, g) PROVE FALSE
    BY <2>3, <2>t, GoesOn DEF FireGoesOn, StartReturns, ScriptReturns, Recorded, RecordBreaks
  <2>4. ASSUME NEW s \in Schedules, RunNow(s) PROVE FALSE
    BY <2>4, <2>f, <2>t DEF RunNow
  <2>5. ASSUME NEW s \in Schedules, NEW r, Edits(s, r) PROVE at' = at
    BY <2>5 DEF Edits, fireVars
  <2>6. ASSUME NEW s \in Schedules,
               PauseSchedule(s) \/ ResumeSchedule(s) \/ UpdateSchedule(s) \/ UpdateRepeats(s)
        PROVE  at' = at
    BY <2>5, <2>6 DEF PauseSchedule, ResumeSchedule, UpdateSchedule, UpdateRepeats
  <2>7. ASSUME NEW deleted, DeleteSchedules(deleted) PROVE at' = at
    BY <2>7 DEF DeleteSchedules, fireVars
  <2>8. ASSUME NEW s \in Schedules, ByUser(s) \/ ByMinion(s) PROVE FALSE
    BY <2>1, <2>4, <2>6, <2>8 DEF ByUser, ByMinion
  <2>9. ASSUME NEW s \in Schedules, TickPasses(s) \/ TickSkips(s) \/ TickBreaks(s) \/ CreateByUser(s) \/ CreateByMinion(s)
        PROVE  FALSE
    BY <2>1, <2>9 DEF TickPasses, TickSkips, TickBreaks, CreateByUser, CreateByMinion, Creates, fireVars
  <2>10. ASSUME NEW s \in Schedules,
                TimePasses(s) \/ AgentStarts(s) \/ AgentAsks(s) \/ AgentAnswered(s)
                  \/ AgentFinishes(s) \/ AgentStops(s)
         PROVE  FALSE
    BY <2>1, <2>10 DEF TimePasses, AgentStarts, AgentAsks, AgentAnswered, AgentFinishes, AgentStops, Agents, fireVars
  <2>11. ASSUME NEW m \in Monitors, Monitor(m) PROVE FALSE
    BY <2>1, <2>11 DEF Monitor, MonitorPolls, MonitorArchives, Watching, fireVars
  <2>12. ~ TickStarts
    BY <2>1 DEF TickStarts, fireVars
  <2>13. ~ Crash
    BY <2>0, <2>t DEF Crash
  <2> QED
    BY <2>2, <2>3, <2>7, <2>1, <2>8, <2>9, <2>10, <2>11, <2>12, <2>13 DEF Next, Tick
<1> QED
  BY <1>1, AlwaysSound, PTL DEF Spec, OncePerTime
=============================================================================
