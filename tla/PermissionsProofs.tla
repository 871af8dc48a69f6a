-------------------------- MODULE PermissionsProofs --------------------------
(***************************************************************************)
(* Proofs about Permissions, for any number of sessions and of tool calls, *)
(* however they look alike: the type invariant, when a session is paused,  *)
(* which status an answer leads to, and that no session drops the requests *)
(* of another one.                                                         *)
(*                                                                         *)
(* PausedWhileAsked counts on the set of open requests, which the code     *)
(* empties, cleans and fills in five places: SessionsOK says what the set  *)
(* and the state of the session have to do with each other, RequestsOK     *)
(* that a request without an answer is in the set, in every place where a  *)
(* callback can be.                                                        *)
(***************************************************************************)
EXTENDS Permissions, SequenceTheorems, TLAPS

-----------------------------------------------------------------------------
(* The active tool calls.                                                  *)

\* The active tool calls of a session are its own.
ActiveOK == \A s \in Sessions : active[s] \in Seq(Of(s))

\* A list from which something is removed.
LEMMA RemoveTyped ==
  ASSUME NEW S, NEW list \in Seq(S), NEW i \in 1 .. Len(list)
  PROVE  RemoveAt(list, i) \in Seq(S)
<1> DEFINE n == Len(list)
<1>1. n \in Nat /\ i \in Int /\ 1 <= i /\ i <= n
  OBVIOUS
<1>2. \A j \in 1 .. n : list[j] \in S
  BY ElementOfSeq
<1>3. \A j \in 1 .. i - 1 : list[j] \in S
  BY <1>1, <1>2
<1>4. \A j \in i + 1 .. n : list[j] \in S
  BY <1>1, <1>2
<1> HIDE DEF n
<1>5. SubSeq(list, 1, i - 1) \in Seq(S)
  <2> DEFINE b == i - 1
  <2>1. b \in Int /\ 1 \in Int /\ \A j \in 1 .. b : list[j] \in S
    BY <1>1, <1>3
  <2> HIDE DEF b
  <2>2. SubSeq(list, 1, b) \in Seq(S)
    BY <2>1, SubSeqProperties
  <2> QED
    BY <2>2 DEF b
<1>6. SubSeq(list, i + 1, n) \in Seq(S)
  <2> DEFINE a == i + 1
  <2>1. a \in Int /\ n \in Int /\ \A j \in a .. n : list[j] \in S
    BY <1>1, <1>4
  <2> HIDE DEF a
  <2>2. SubSeq(list, a, n) \in Seq(S)
    BY <2>1, SubSeqProperties
  <2> QED
    BY <2>2 DEF a
<1> QED
  BY <1>5, <1>6, ConcatProperties DEF RemoveAt, n

\* Taking a tool call off leaves the others to their sessions.
LEMMA WithoutTyped ==
  ASSUME ActiveOK, active \in [Sessions -> Seq(Tools)], NEW t \in Tools
  PROVE  /\ Without(t) \in [Sessions -> Seq(Tools)]
         /\ \A s \in Sessions : Without(t)[s] \in Seq(Of(s))
<1> USE HomeAssumption
<1> DEFINE list == active[Home[t]]
           at == CHOOSE i \in DOMAIN list : list[i] = t
<1>1. CASE ~ IsActive(t)
  <2>1. Without(t) = active
    BY <1>1 DEF Without
  <2> QED
    BY <2>1 DEF ActiveOK
<1>2. CASE IsActive(t)
  <2>1. list \in Seq(Tools) /\ list \in Seq(Of(Home[t])) /\ Home[t] \in Sessions
    BY DEF ActiveOK
  <2>2. at \in 1 .. Len(list)
    <3>1. \E i \in 1 .. Len(list) : list[i] = t
      BY <1>2 DEF IsActive, Contains
    <3>2. DOMAIN list = 1 .. Len(list)
      BY <2>1, LenProperties
    <3> QED
      BY <3>1, <3>2
  <2>3. Without(t) = [active EXCEPT ![Home[t]] = RemoveAt(list, at)]
    BY <1>2 DEF Without
  <2> HIDE DEF list, at
  <2>4. RemoveAt(list, at) \in Seq(Tools) /\ RemoveAt(list, at) \in Seq(Of(Home[t]))
    BY <2>1, <2>2, RemoveTyped
  <2> QED
    BY <2>1, <2>3, <2>4 DEF ActiveOK
<1> QED
  BY <1>1, <1>2

\* A call that is found by its signature is of the session and looks the same.
LEMMA FoundIs ==
  ASSUME ActiveOK, NEW t \in Tools, Found(t) # None
  PROVE  Found(t) \in Of(Home[t]) /\ Sig[Found(t)] = Sig[t]
<1> USE HomeAssumption
<1> DEFINE list == active[Home[t]]
           same == {i \in DOMAIN list : Sig[list[i]] = Sig[t] /\ call[list[i]] \in Askable}
           newest == {i \in same : \A j \in same : j <= i}
           at == CHOOSE i \in newest : TRUE
<1>1. newest # {} /\ Found(t) = list[at]
  BY DEF Found
<1>2. at \in newest
  BY <1>1
<1>3. at \in DOMAIN list /\ Sig[list[at]] = Sig[t]
  BY <1>2
<1>4. list \in Seq(Of(Home[t]))
  BY DEF ActiveOK
<1> HIDE DEF list, at
<1>5. list[at] \in Of(Home[t])
  BY <1>3, <1>4, ElementOfSeq
<1> QED
  BY <1>1, <1>3, <1>5

\* So is the one a callback shows its prompt at, unless there is none.
LEMMA ChosenIs ==
  ASSUME ActiveOK, NEW t \in Tools
  PROVE  \/ ByIdOrSig(t) = None
         \/ ByIdOrSig(t) \in Of(Home[t]) /\ Sig[ByIdOrSig(t)] = Sig[t]
BY FoundIs DEF ByIdOrSig, Of

\* Of a tool call no other looks like, no other one is chosen.
LEMMA ChosenAlone ==
  ASSUME ActiveOK, NEW t \in Tools, NEW k \in Tools, Alone(k), ByIdOrSig(t) = k
  PROVE  t = k
BY ChosenIs, NoneAssumption DEF Alone, Of

-----------------------------------------------------------------------------
(* The types.                                                              *)

States == {"active", "paused", "starting", "error", "terminated"}
Stages == {"up", "ending", "down"}
Hows == {"none", "user", "minion", "restart", "reset"}
Statuses == {"none", "pending", "awaiting", "running", "denied",
             "completed", "failed", "interrupted"}
Places == {"unused", "used", "waiting", "done", "over"} \union Looking
Verdicts == {"none", "allow", "unasked"} \union Denials

SessionTypes ==
  /\ st \in [Sessions -> States] /\ stage \in [Sessions -> Stages]
  /\ how \in [Sessions -> Hows] /\ stopping \subseteq Sessions
  /\ orphans \subseteq Tools /\ haunted \subseteq Sessions
CallTypes ==
  /\ stream \in [Sessions -> Seq({"use", "result"} \X Tools)]
  /\ call \in [Tools -> Statuses]
  /\ active \in [Sessions -> Seq(Tools)]
  /\ emitted \subseteq Tools
RequestTypes ==
  /\ place \in [Tools -> Places] /\ heard \subseteq Tools
  /\ target \in [Tools -> Tools \union {None}]
  /\ verdict \in [Tools -> Verdicts]
  /\ open \in [Sessions -> SUBSET Tools] /\ pending \subseteq Tools
  /\ prompt \in [Tools -> Tools \union {None}]
\* The type invariant, part by part.
LEMMA TypeParts == TypeOK <=> SessionTypes /\ CallTypes /\ RequestTypes
BY DEF TypeOK, SessionTypes, CallTypes, RequestTypes, States, Stages, Hows, Statuses, Places, Verdicts

\* The prompt is shown, its message is waited for, or the callback looks on.
LEMMA AskAtTyped ==
  ASSUME TypeOK, NEW t \in Tools, NEW k \in Tools \union {None}, AskAt(t, k)
  PROVE  /\ st' \in [Sessions -> States] /\ call' \in [Tools -> Statuses]
         /\ prompt' \in [Tools -> Tools \union {None}] /\ target' \in [Tools -> Tools \union {None}]
         /\ open' \in [Sessions -> SUBSET Tools] /\ pending' \subseteq Tools
         /\ place' \in [Tools -> Places]
<1>t. SessionTypes /\ CallTypes /\ RequestTypes /\ Home[t] \in Sessions
  BY TypeParts, HomeAssumption
<1>1. st' \in [Sessions -> States]
  BY <1>t DEF AskAt, SessionTypes, States
<1>2. call' \in [Tools -> Statuses] /\ prompt' \in [Tools -> Tools \union {None}]
  BY <1>t DEF AskAt, CallTypes, RequestTypes, Statuses
<1>3. /\ target' \in [Tools -> Tools \union {None}]
      /\ open' \in [Sessions -> SUBSET Tools] /\ pending' \subseteq Tools
  BY <1>t DEF AskAt, RequestTypes
<1>4. place' \in [Tools -> Places]
  BY <1>t DEF AskAt, RequestTypes, Places
<1> QED
  BY <1>1, <1>2, <1>3, <1>4

\* Showing keeps the types,
LEMMA ShowTyped ==
  ASSUME TypeOK, NEW t \in Tools, NEW k \in Tools \union {None}, Show(t, k), heard' \subseteq Tools
  PROVE  TypeOK'
<1>t. SessionTypes /\ CallTypes /\ RequestTypes
  BY TypeParts
<1>1. CASE k \in emitted
  <2>1. AskAt(t, k)
    BY <1>1 DEF Show
  <2> QED
    BY <1>t, <2>1, AskAtTyped DEF Show, clientVars, failVars, TypeOK, SessionTypes, CallTypes, RequestTypes,
       States, Stages, Hows, Statuses, Places, Verdicts
<1>2. CASE k \notin emitted
  <2>1. /\ target' \in [Tools -> Tools \union {None}] /\ place' \in [Tools -> Places]
    BY <1>2, <1>t DEF Show, RequestTypes, Places, Looking
  <2> QED
    BY <1>2, <1>t, <2>1 DEF Show, clientVars, failVars, TypeOK, SessionTypes, CallTypes, RequestTypes,
       States, Stages, Hows, Statuses, Places, Verdicts
<1> QED
  BY <1>1, <1>2

\* and so does looking on,
LEMMA LooksOnTyped ==
  ASSUME TypeOK, NEW t \in Tools, NEW where \in Looking, LooksOn(t, where), heard' \subseteq Tools
  PROVE  TypeOK'
BY DEF TypeOK, LooksOn, Looking, sessionVars, clientVars, failVars, callVars

\* a decision,
LEMMA DecideTyped ==
  ASSUME TypeOK, NEW R, NEW v \in {"allow"} \union Denials, Decide(R, v)
  PROVE  verdict' \in [Tools -> Verdicts]
BY DEF TypeOK, Decide, Verdicts, Denials

\* and the interruption of the tool calls.
LEMMA InterruptToolsTyped ==
  ASSUME TypeOK, NEW s \in Sessions, InterruptTools(s)
  PROVE  call' \in [Tools -> Statuses] /\ active' \in [Sessions -> Seq(Tools)]
<1>1. <<>> \in Seq(Tools)
  OBVIOUS
<1> QED
  BY <1>1 DEF TypeOK, InterruptTools, Statuses

\* Every step keeps the types.
LEMMA TypeNext == TypeOK /\ ActiveOK /\ [Next]_permVars => TypeOK'
<1> SUFFICES ASSUME TypeOK, ActiveOK, [Next]_permVars PROVE TypeOK'
  OBVIOUS
<1>t. SessionTypes /\ CallTypes /\ RequestTypes
  BY TypeParts
<1>h. \A t \in Tools : Home[t] \in Sessions
  BY HomeAssumption
<1>s. SessionTypes' /\ CallTypes' /\ RequestTypes' => TypeOK'
  BY DEF TypeOK, SessionTypes, CallTypes, RequestTypes, States, Stages, Hows, Statuses, Places, Verdicts
<1>a. UNCHANGED sessionVars => SessionTypes'
  BY <1>t DEF SessionTypes, sessionVars, clientVars, failVars
<1>c. UNCHANGED callVars => CallTypes'
  BY <1>t DEF CallTypes, callVars
<1>r. UNCHANGED requestVars => RequestTypes'
  BY <1>t DEF RequestTypes, requestVars
<1>1. ASSUME NEW t \in Tools, Uses(t) \/ Reports(t) PROVE TypeOK'
  <2>1. stream' \in [Sessions -> Seq({"use", "result"} \X Tools)]
    <3>1. stream[Home[t]] \in Seq({"use", "result"} \X Tools)
      BY <1>t, <1>h DEF CallTypes
    <3>2. \A w \in {"use", "result"} : Append(stream[Home[t]], <<w, t>>) \in Seq({"use", "result"} \X Tools)
      BY <3>1, AppendProperties
    <3> QED
      BY <1>1, <1>t, <3>2 DEF Uses, Reports, CallTypes
  <2>2. place' \in [Tools -> Places]
    BY <1>1, <1>t DEF Uses, Reports, RequestTypes, Places
  <2> QED
    BY <1>1, <1>s, <1>a, <1>t, <2>1, <2>2 DEF Uses, Reports, CallTypes, RequestTypes
<1>2. ASSUME NEW t \in Tools, HandleUse(t) \/ HandleResult(t) PROVE TypeOK'
  <2>1. stream' \in [Sessions -> Seq({"use", "result"} \X Tools)]
    <3>1. stream[Home[t]] \in Seq({"use", "result"} \X Tools) /\ stream[Home[t]] # <<>>
      BY <1>2, <1>t, <1>h DEF CallTypes, HandleUse, HandleResult, Comes
    <3>2. Tail(stream[Home[t]]) \in Seq({"use", "result"} \X Tools)
      BY <3>1, HeadTailProperties
    <3> QED
      BY <1>2, <1>t, <3>2 DEF HandleUse, HandleResult, Consume, CallTypes
  <2>2. call' \in [Tools -> Statuses]
    BY <1>2, <1>t DEF HandleUse, HandleResult, CallTypes, Statuses
  <2>3. active' \in [Sessions -> Seq(Tools)] /\ emitted' \subseteq Tools
    <3>1. active[Home[t]] \in Seq(Tools)
      BY <1>t, <1>h DEF CallTypes
    <3>2. Append(active[Home[t]], t) \in Seq(Tools)
      BY <3>1, AppendProperties
    <3>3. Without(t) \in [Sessions -> Seq(Tools)]
      BY <1>t, WithoutTyped DEF CallTypes
    <3> QED
      BY <1>2, <1>t, <3>2, <3>3 DEF HandleUse, HandleResult, CallTypes
  <2>4. RequestTypes'
    BY <1>2, <1>t DEF HandleUse, HandleResult, RequestTypes, Of, requestVars
  <2> QED
    BY <1>2, <1>s, <1>a, <2>1, <2>2, <2>3, <2>4 DEF HandleUse, HandleResult, CallTypes
<1>3. ASSUME NEW t \in Tools, Ask(t) \/ EndOfIdWait(t) \/ SignatureHeard(t) PROVE TypeOK'
  <2>1. heard' \subseteq Tools
    BY <1>3, <1>t DEF Ask, EndOfIdWait, SignatureHeard, RequestTypes
  <2>2. ByIdOrSig(t) \in Tools \union {None} /\ Found(t) \in Tools \union {None}
    BY ChosenIs, FoundIs DEF Of
  <2>3. (\E k \in Tools \union {None} : Show(t, k)) \/ (\E w \in Looking : LooksOn(t, w))
    BY <1>3, <2>2 DEF Ask, EndOfIdWait, SignatureHeard, Looking
  <2> QED
    BY <2>1, <2>3, ShowTyped, LooksOnTyped
<1>4. ASSUME NEW t \in Tools, SignatureTimeout(t) PROVE TypeOK'
  BY <1>4, <1>t, <1>s, <1>a, <1>c DEF SignatureTimeout, RequestTypes, Places, Verdicts
<1>5. ASSUME NEW t \in Tools, EndOfBarrier(t) PROVE TypeOK'
  <2>1. target[t] \in Tools \union {None} /\ AskAt(t, target[t])
    BY <1>5, <1>t DEF EndOfBarrier, RequestTypes
  <2> QED
    BY <1>5, <1>t, <1>s, <2>1, AskAtTyped DEF EndOfBarrier, clientVars, failVars, SessionTypes, CallTypes, RequestTypes
<1>6. ASSUME NEW t \in Tools, Answered(t) PROVE TypeOK'
  <2>1. SessionTypes'
    BY <1>6, <1>t DEF Answered, Resume, clientVars, failVars, SessionTypes, States
  <2>2. call' \in [Tools -> Statuses]
    BY <1>6, <1>t DEF Answered, Respond, CallTypes, Statuses
  <2>3. active' \in [Sessions -> Seq(Tools)]
    <3>1. ByIdOrSig(t) \in Tools \union {None}
      BY ChosenIs DEF Of
    <3>2. \A k \in Tools : Without(k) \in [Sessions -> Seq(Tools)]
      BY <1>t, WithoutTyped DEF CallTypes
    <3> QED
      BY <1>6, <1>t, <3>1, <3>2 DEF Answered, Respond, CallTypes
  <2>4. RequestTypes'
    BY <1>6, <1>t, <1>h DEF Answered, RequestTypes, Places
  <2> QED
    BY <1>6, <1>t, <1>s, <2>1, <2>2, <2>3, <2>4 DEF Answered, CallTypes
<1>7. ASSUME NEW t \in Tools, NEW v \in {"allow", "deny"}, Answer(t, v) PROVE TypeOK'
  <2>1. verdict' \in [Tools -> Verdicts]
    BY <1>7, DecideTyped DEF Answer, Denials
  <2> QED
    BY <1>7, <1>t, <1>s, <1>a, <1>c, <2>1 DEF Answer, RequestTypes
<1>8. ASSUME NEW s \in Sessions, Interrupt(s) PROVE TypeOK'
  <2>1. SessionTypes' /\ CallTypes'
    BY <1>8, <1>t, <1>c DEF Interrupt, failVars, SessionTypes
  <2>2. verdict' \in [Tools -> Verdicts]
    BY <1>8, <1>t, DecideTyped DEF Interrupt, RequestTypes, Denials
  <2>3. RequestTypes'
    BY <1>8, <1>t, <2>2 DEF Interrupt, RequestTypes
  <2> QED
    BY <1>s, <2>1, <2>3
<1>9. ASSUME NEW s \in Sessions, InterruptSucceeds(s) \/ InterruptFails(s) PROVE TypeOK'
  <2>1. SessionTypes'
    BY <1>9, <1>t DEF InterruptSucceeds, InterruptFails, failVars, SessionTypes
  <2>2. CallTypes'
    BY <1>9, <1>t, <1>c, InterruptToolsTyped DEF InterruptSucceeds, InterruptFails, CallTypes
  <2> QED
    BY <1>9, <1>s, <1>r, <2>1, <2>2 DEF InterruptSucceeds, InterruptFails
<1>10. ASSUME NEW s \in Sessions, TerminateByUser(s) PROVE TypeOK'
  <2>1. SessionTypes'
    BY <1>10, <1>t, EndingsAssumption DEF TerminateByUser, Ends, failVars, SessionTypes, Stages, Hows
  <2>2. CallTypes'
    BY <1>10, <1>t, InterruptToolsTyped DEF TerminateByUser, CallTypes
  <2>3. verdict' \in [Tools -> Verdicts]
    BY <1>10, DecideTyped DEF TerminateByUser, Cleanup, Denials
  <2>4. RequestTypes'
    BY <1>10, <1>t, <2>3 DEF TerminateByUser, Cleanup, RequestTypes
  <2> QED
    BY <1>s, <2>1, <2>2, <2>4
<1>11. ASSUME NEW s \in Sessions, TerminateByMinion(s) PROVE TypeOK'
  <2>1. SessionTypes'
    BY <1>11, <1>t, EndingsAssumption DEF TerminateByMinion, Ends, failVars, SessionTypes, Stages, Hows
  <2>2. CallTypes'
    BY <1>11, <1>t, InterruptToolsTyped DEF TerminateByMinion, CallTypes
  <2> QED
    BY <1>11, <1>s, <1>r, <2>1, <2>2 DEF TerminateByMinion
<1>12. ASSUME NEW s \in Sessions, EndForRestart(s) PROVE TypeOK'
  <2>1. SessionTypes'
    BY <1>12, <1>t DEF EndForRestart, Ends, failVars, SessionTypes, Stages, Hows
  <2> QED
    BY <1>12, <1>s, <1>c, <1>r, <2>1 DEF EndForRestart
<1>13. ASSUME NEW s \in Sessions, ClientEnds(s) PROVE TypeOK'
  <2>1. SessionTypes'
    BY <1>13, <1>t DEF ClientEnds, failVars, SessionTypes, Stages, States
  <2>2. <<>> \in Seq({"use", "result"} \X Tools)
    OBVIOUS
  <2>3. CallTypes'
    BY <1>13, <1>t, <2>2 DEF ClientEnds, CallTypes
  <2>4. place' \in [Tools -> Places]
    BY <1>13, <1>t DEF ClientEnds, RequestTypes, Places
  <2>5. open' \in [Sessions -> SUBSET Tools]
    BY <1>13, <1>t DEF ClientEnds, CancelledClosed, RequestTypes
  <2>6. RequestTypes'
    BY <1>13, <1>t, <2>4, <2>5 DEF ClientEnds, RequestTypes
  <2> QED
    BY <1>s, <2>1, <2>3, <2>6
<1>14. ASSUME NEW s \in Sessions, Start(s) PROVE TypeOK'
  <2>1. SessionTypes'
    BY <1>14, <1>t DEF Start, SessionTypes, Stages, States, Hows
  <2>2. CallTypes'
    BY <1>14, <1>t DEF Start, CallTypes
  <2> QED
    BY <1>14, <1>s, <1>r, <2>1, <2>2 DEF Start
<1>15. ASSUME NEW s \in Sessions, ClientFails(s) PROVE TypeOK'
  <2>1. SessionTypes'
    BY <1>15, <1>t DEF ClientFails, Of, SessionTypes, Stages, States
  <2>2. <<>> \in Seq({"use", "result"} \X Tools)
    OBVIOUS
  <2>3. CallTypes'
    BY <1>15, <1>t, <2>2 DEF ClientFails, CallTypes
  <2>4. place' \in [Tools -> Places]
    BY <1>15, <1>t DEF ClientFails, RequestTypes, Places
  <2>5. RequestTypes'
    BY <1>15, <1>t, <2>4 DEF ClientFails, RequestTypes
  <2> QED
    BY <1>s, <2>1, <2>3, <2>5
<1>16. ASSUME NEW t \in Tools, OrphanEnds(t) PROVE TypeOK'
  <2>1. SessionTypes'
    BY <1>16, <1>t DEF OrphanEnds, Resume, SessionTypes, States
  <2>2. RequestTypes'
    BY <1>16, <1>t, <1>h DEF OrphanEnds, RequestTypes, Places
  <2> QED
    BY <1>16, <1>s, <1>c, <2>1, <2>2 DEF OrphanEnds
<1>17. ASSUME NEW s \in Sessions, TerminateFailed(s) PROVE TypeOK'
  <2>1. SessionTypes'
    BY <1>17, <1>t DEF TerminateFailed, clientVars, failVars, SessionTypes, States
  <2>2. CallTypes'
    BY <1>17, <1>t, InterruptToolsTyped DEF TerminateFailed, CallTypes
  <2>3. verdict' \in [Tools -> Verdicts]
    BY <1>17, DecideTyped DEF TerminateFailed, Cleanup, Denials
  <2>4. RequestTypes'
    BY <1>17, <1>t, <2>3 DEF TerminateFailed, Cleanup, RequestTypes
  <2> QED
    BY <1>s, <2>1, <2>2, <2>4
<1>18. ASSUME NEW s \in Sessions, StartOver(s) PROVE TypeOK'
  <2>1. SessionTypes'
    BY <1>18, <1>t DEF StartOver, clientVars, failVars, SessionTypes, States
  <2> QED
    BY <1>18, <1>s, <1>c, <1>r, <2>1 DEF StartOver
<1>19. CASE UNCHANGED permVars
  BY <1>19, <1>s, <1>a, <1>c, <1>r DEF permVars
<1> QED
  BY <1>1, <1>2, <1>3, <1>4, <1>5, <1>6, <1>7, <1>8, <1>9, <1>10, <1>11, <1>12, <1>13, <1>14, <1>15,
     <1>16, <1>17, <1>18, <1>19 DEF Next, Callback
-----------------------------------------------------------------------------
\* Every step leaves the active tool calls to their sessions.
LEMMA ActiveNext == TypeOK /\ ActiveOK /\ [Next]_permVars => ActiveOK'
<1> SUFFICES ASSUME TypeOK, ActiveOK, [Next]_permVars PROVE ActiveOK'
  OBVIOUS
<1>t. active \in [Sessions -> Seq(Tools)] /\ \A t \in Tools : Home[t] \in Sessions
  BY HomeAssumption DEF TypeOK
<1>e. \A s \in Sessions : <<>> \in Seq(Of(s))
  OBVIOUS
<1>u. active' = active => ActiveOK'
  BY DEF ActiveOK
<1>w. \A t \in Tools : active' = Without(t) => ActiveOK'
  BY <1>t, WithoutTyped DEF ActiveOK
<1>i. \A s \in Sessions : InterruptTools(s) => ActiveOK'
  BY <1>t, <1>e DEF InterruptTools, ActiveOK
<1>1. ASSUME NEW t \in Tools, HandleUse(t) PROVE ActiveOK'
  <2>1. active[Home[t]] \in Seq(Of(Home[t])) /\ t \in Of(Home[t])
    BY <1>t DEF ActiveOK, Of
  <2>2. Append(active[Home[t]], t) \in Seq(Of(Home[t]))
    BY <2>1, AppendProperties
  <2> QED
    BY <1>1, <1>t, <2>2 DEF HandleUse, ActiveOK
<1>2. ASSUME NEW t \in Tools, HandleResult(t) PROVE ActiveOK'
  BY <1>2, <1>w DEF HandleResult
<1>3. ASSUME NEW t \in Tools, Answered(t) PROVE ActiveOK'
  BY <1>3, <1>u, <1>w, ChosenIs DEF Answered, Respond, Of
<1>4. ASSUME NEW t \in Tools, \/ Uses(t) \/ Reports(t) \/ Ask(t) \/ EndOfIdWait(t) \/ SignatureHeard(t)
                              \/ SignatureTimeout(t) \/ EndOfBarrier(t)
                              \/ \E v \in {"allow", "deny"} : Answer(t, v)
      PROVE  ActiveOK'
  BY <1>4, <1>u DEF Uses, Reports, Ask, EndOfIdWait, SignatureHeard, SignatureTimeout, EndOfBarrier,
     Answer, Show, LooksOn, callVars
<1>5. ASSUME NEW s \in Sessions, \/ InterruptSucceeds(s) \/ TerminateByUser(s)
                                 \/ TerminateByMinion(s) \/ TerminateFailed(s)
      PROVE  ActiveOK'
  BY <1>5, <1>i DEF InterruptSucceeds, TerminateByUser, TerminateByMinion, TerminateFailed
<1>6. ASSUME NEW s \in Sessions, \/ Interrupt(s) \/ InterruptFails(s) \/ EndForRestart(s)
                                 \/ ClientEnds(s) \/ ClientFails(s) \/ Start(s) \/ StartOver(s)
      PROVE  ActiveOK'
  BY <1>6, <1>u DEF Interrupt, InterruptFails, EndForRestart, ClientEnds, ClientFails, Start, StartOver,
     callVars
<1>7. ASSUME NEW t \in Tools, OrphanEnds(t) PROVE ActiveOK'
  BY <1>7, <1>u DEF OrphanEnds, callVars
<1>8. CASE UNCHANGED permVars
  BY <1>8, <1>u DEF permVars, callVars
<1> QED
  BY <1>1, <1>2, <1>3, <1>4, <1>5, <1>6, <1>7, <1>8 DEF Next, Callback

-----------------------------------------------------------------------------
(* The sessions and the requests.                                          *)

\* What is open waits.  It pauses a session that has a client, unless that was
\* started over it or is haunted; without a client, only callbacks of a failed
\* one have something open.  A paused session has something that waits.
SessionOK(s) ==
  /\ stage[s] = "down" => st[s] \in {"terminated", "error"} /\ open[s] \subseteq orphans
  /\ stage[s] # "down" => st[s] \in {"active", "paused", "starting"}
  /\ open[s] \subseteq {t \in Of(s) : place[t] = "waiting"}
  /\ stage[s] # "down" /\ open[s] # {} => st[s] \in {"paused", "starting"} \/ s \in haunted
  /\ st[s] = "paused" => \E t \in Of(s) : place[t] = "waiting"
SessionsOK == \A s \in Sessions : SessionOK(s)
\* A callback that asks has a client, or its client has failed; a request that
\* waits for the user is open and can be answered; there is no verdict before
\* one is given.
RequestOK(t) ==
  /\ Asking(t) => stage[Home[t]] # "down" \/ t \in orphans
  /\ Undecided(t) => t \in open[Home[t]] /\ t \in pending
  /\ place[t] \in {"unused", "used"} \union Looking => verdict[t] = "none"
  /\ verdict[t] = "unasked" => place[t] \in {"done", "over"}
RequestsOK == \A t \in Tools : RequestOK(t)

\* A session none of whose requests, nor anything else, has changed.
LEMMA SessionStays ==
  ASSUME NEW s \in Sessions, SessionOK(s), st'[s] = st[s], stage'[s] = stage[s], open'[s] = open[s],
         \A t \in Of(s) : place'[t] = place[t], s \in haunted => s \in haunted',
         open[s] \subseteq orphans => open[s] \subseteq orphans'
  PROVE  SessionOK(s)'
BY DEF SessionOK, Of

\* A request that is where it was, open or not as before.
LEMMA RequestStays ==
  ASSUME NEW t \in Tools, RequestOK(t), place'[t] = place[t], verdict'[t] = verdict[t],
         stage[Home[t]] # "down" \/ t \in orphans => stage'[Home[t]] # "down" \/ t \in orphans',
         t \in open[Home[t]] => t \in open'[Home[t]], t \in pending => t \in pending'
  PROVE  RequestOK(t)'
BY DEF RequestOK, Asking, Undecided

\* A request that is opened pauses its session.
LEMMA AskAtKeeps ==
  ASSUME TypeOK, SessionsOK, RequestsOK, NEW t \in Tools, NEW k, AskAt(t, k),
         place[t] = "used" \/ place[t] \in Looking, stage[Home[t]] # "down" \/ t \in orphans,
         UNCHANGED <<stage, orphans, haunted, verdict>>
  PROVE  SessionsOK' /\ RequestsOK'
<1>t. /\ place \in [Tools -> Places] /\ open \in [Sessions -> SUBSET Tools] /\ st \in [Sessions -> States]
      /\ \A q \in Tools : Home[q] \in Sessions
  BY HomeAssumption DEF TypeOK, Places, States
<1>1. place' = [place EXCEPT ![t] = "waiting"] /\ open' = [open EXCEPT ![Home[t]] = @ \union {t}]
      /\ pending' = pending \union {t}
  BY DEF AskAt
<1>2. st' = IF open[Home[t]] = {} /\ st[Home[t]] = "active" THEN [st EXCEPT ![Home[t]] = "paused"] ELSE st
  BY DEF AskAt
<1>3. ASSUME NEW s \in Sessions PROVE SessionOK(s)'
  <2>0. SessionOK(s)
    BY DEF SessionsOK
  <2>1. CASE s = Home[t]
    <3>1. t \in Of(s) /\ place'[t] = "waiting"
      BY <1>1, <1>t, <2>1 DEF Of
    <3>2. st'[s] = IF open[s] = {} /\ st[s] = "active" THEN "paused" ELSE st[s]
      BY <1>2, <1>t, <2>1
    <3>3. open'[s] = open[s] \union {t} /\ open[s] \subseteq {q \in Of(s) : place[q] = "waiting"}
      BY <1>1, <1>t, <2>0, <2>1 DEF SessionOK
    <3>4. \A q \in Of(s) : place[q] = "waiting" => place'[q] = "waiting"
      BY <1>1, <1>t DEF Of
    <3>5. stage[s] = "down" => st'[s] \in {"terminated", "error"} /\ open'[s] \subseteq orphans
      BY <2>0, <2>1, <3>2, <3>3 DEF SessionOK
    <3>6. stage[s] # "down" => /\ st'[s] \in {"active", "paused", "starting"}
                               /\ st'[s] \in {"paused", "starting"} \/ s \in haunted
      BY <2>0, <3>2 DEF SessionOK
    <3>7. st'[s] = "paused" => \E q \in Of(s) : place'[q] = "waiting"
      BY <3>1
    <3> QED
      BY <3>3, <3>1, <3>4, <3>5, <3>6, <3>7 DEF SessionOK, Of
  <2>2. CASE s # Home[t]
    <3>1. st'[s] = st[s] /\ open'[s] = open[s] /\ \A q \in Of(s) : place'[q] = place[q]
      BY <1>1, <1>2, <1>t, <2>2 DEF Of
    <3> QED
      BY <2>0, <3>1, SessionStays
  <2> QED
    BY <2>1, <2>2
<1>4. ASSUME NEW q \in Tools PROVE RequestOK(q)'
  <2>0. RequestOK(q)
    BY DEF RequestsOK
  <2>1. CASE q = t
    BY <1>1, <1>t, <2>0, <2>1 DEF RequestOK, Looking
  <2>2. CASE q # t
    <3>1. place'[q] = place[q] /\ (q \in pending => q \in pending') /\ open[Home[q]] \subseteq open'[Home[q]]
      BY <1>1, <1>t, <2>2
    <3> QED
      BY <2>0, <3>1, RequestStays
  <2> QED
    BY <2>1, <2>2
<1> QED
  BY <1>3, <1>4 DEF SessionsOK, RequestsOK

\* A callback that does not wait for the user moves on.
LEMMA MovesKeeps ==
  ASSUME TypeOK, SessionsOK, RequestsOK, NEW t \in Tools, NEW where \in Places \ {"waiting"},
         place' = [place EXCEPT ![t] = where], place[t] # "waiting",
         UNCHANGED <<st, stage, orphans, haunted, open, pending>>,
         where \in Looking => stage[Home[t]] # "down" \/ t \in orphans,
         \A q \in Tools : q # t => verdict'[q] = verdict[q],
         where \in {"unused", "used"} \union Looking => verdict'[t] = "none",
         verdict'[t] = "unasked" => where \in {"done", "over"}
  PROVE  SessionsOK' /\ RequestsOK'
<1>t. place \in [Tools -> Places]
  BY DEF TypeOK, Places
<1>1. SessionsOK'
  <2>1. \A q \in Tools : place'[q] = "waiting" <=> place[q] = "waiting"
    BY <1>t
  <2> QED
    BY <2>1 DEF SessionsOK, SessionOK, Of
<1>2. ASSUME NEW q \in Tools PROVE RequestOK(q)'
  <2>1. RequestOK(q)
    BY DEF RequestsOK
  <2>2. CASE q = t
    BY <1>t, <2>1, <2>2 DEF RequestOK, Asking, Undecided
  <2>3. CASE q # t
    BY <1>t, <2>1, <2>3, RequestStays
  <2> QED
    BY <2>2, <2>3
<1> QED
  BY <1>1, <1>2 DEF RequestsOK

\* The sessions, when only requests are decided or tool calls change.
LEMMA SessionsStay == SessionsOK /\ UNCHANGED <<st, stage, orphans, haunted, open, place>> => SessionsOK'
BY DEF SessionsOK, SessionOK

\* Every step keeps the sessions and the requests as they should be.
LEMMA SessionsNext == TypeOK /\ SessionsOK /\ RequestsOK /\ [Next]_permVars => SessionsOK' /\ RequestsOK'
<1> SUFFICES ASSUME TypeOK, SessionsOK, RequestsOK, [Next]_permVars PROVE SessionsOK' /\ RequestsOK'
  OBVIOUS
<1>t. /\ place \in [Tools -> Places] /\ open \in [Sessions -> SUBSET Tools]
      /\ st \in [Sessions -> States] /\ stage \in [Sessions -> Stages]
      /\ verdict \in [Tools -> Verdicts] /\ pending \subseteq Tools /\ orphans \subseteq Tools
      /\ \A q \in Tools : Home[q] \in Sessions
  BY HomeAssumption DEF TypeOK, Places, States, Stages, Verdicts
<1>o. (\A s \in Sessions : SessionOK(s)) /\ (\A t \in Tools : RequestOK(t))
  BY DEF SessionsOK, RequestsOK
<1>u. UNCHANGED <<st, stage, orphans, haunted, open, place, verdict, pending>> => SessionsOK' /\ RequestsOK'
  BY SessionsStay DEF RequestsOK, RequestOK, Asking, Undecided
<1>1. ASSUME NEW t \in Tools, Uses(t) \/ Reports(t) PROVE SessionsOK' /\ RequestsOK'
  <2>1. PICK where \in {"used", "over"} : place' = [place EXCEPT ![t] = where]
                                          /\ (where = "used" => place[t] = "unused")
    BY <1>1 DEF Uses, Reports
  <2>2. /\ place[t] # "waiting" /\ UNCHANGED <<st, stage, orphans, haunted, open, pending, verdict>>
        /\ where \in Places \ {"waiting"} /\ where \notin Looking
    BY <1>1, <2>1 DEF Uses, Reports, sessionVars, clientVars, failVars, Places, Looking
  <2>3. where = "used" => verdict'[t] = "none"
    BY <1>t, <1>o, <2>1, <2>2 DEF RequestOK
  <2> QED
    BY <2>1, <2>2, <2>3, MovesKeeps
<1>2. ASSUME NEW t \in Tools, HandleUse(t) \/ HandleResult(t) PROVE SessionsOK' /\ RequestsOK'
  BY <1>2, <1>u DEF HandleUse, HandleResult, sessionVars, clientVars, failVars, requestVars
<1>3. ASSUME NEW t \in Tools, Ask(t) \/ EndOfIdWait(t) \/ SignatureHeard(t) PROVE SessionsOK' /\ RequestsOK'
  <2>1. /\ place[t] \in {"used", "byId", "bySig"} /\ (stage[Home[t]] # "down" \/ t \in orphans)
        /\ place[t] = "used" \/ place[t] \in Looking
        /\ verdict[t] = "none"
    BY <1>3, <1>t, <1>o DEF Ask, EndOfIdWait, SignatureHeard, RequestOK, Asking, Looking
  <2>2. \/ \E k : Show(t, k)
        \/ \E w \in Looking : LooksOn(t, w)
    BY <1>3 DEF Ask, EndOfIdWait, SignatureHeard, Looking
  <2>3. ASSUME NEW k, Show(t, k) PROVE SessionsOK' /\ RequestsOK'
    <3>1. CASE k \in emitted
      BY <2>1, <2>3, <3>1, AskAtKeeps DEF Show, clientVars, failVars
    <3>2. CASE k \notin emitted
      <4>1. /\ place' = [place EXCEPT ![t] = "barrier"] /\ UNCHANGED <<st, stage, orphans, haunted, open, pending, verdict>>
            /\ "barrier" \in Places \ {"waiting"}
        BY <2>3, <3>2 DEF Show, clientVars, failVars, Places, Looking
      <4> QED
        BY <2>1, <4>1, MovesKeeps
    <3> QED
      BY <3>1, <3>2
  <2>4. ASSUME NEW w \in Looking, LooksOn(t, w) PROVE SessionsOK' /\ RequestsOK'
    <3>1. /\ place' = [place EXCEPT ![t] = w] /\ UNCHANGED <<st, stage, orphans, haunted, open, pending, verdict>>
          /\ w \in Places \ {"waiting"}
      BY <2>4 DEF LooksOn, Places, Looking, sessionVars, clientVars, failVars
    <3> QED
      BY <2>1, <2>4, <3>1, MovesKeeps
  <2> QED
    BY <2>2, <2>3, <2>4
<1>4. ASSUME NEW t \in Tools, SignatureTimeout(t) PROVE SessionsOK' /\ RequestsOK'
  <2>1. /\ place' = [place EXCEPT ![t] = "done"] /\ place[t] # "waiting"
        /\ "done" \in Places \ {"waiting"} /\ "done" \notin Looking
        /\ UNCHANGED <<st, stage, orphans, haunted, open, pending>> /\ verdict' = [verdict EXCEPT ![t] = "unasked"]
    BY <1>4 DEF SignatureTimeout, sessionVars, clientVars, failVars, Places, Looking
  <2> QED
    BY <1>t, <2>1, MovesKeeps
<1>5. ASSUME NEW t \in Tools, EndOfBarrier(t) PROVE SessionsOK' /\ RequestsOK'
  <2>1. place[t] \in Looking /\ (stage[Home[t]] # "down" \/ t \in orphans)
    BY <1>5, <1>o DEF EndOfBarrier, RequestOK, Asking, Looking
  <2> QED
    BY <1>5, <2>1, AskAtKeeps DEF EndOfBarrier, clientVars, failVars
<1>6. ASSUME NEW t \in Tools, NEW where \in {"done", "over"}, NEW left \in SUBSET Tools,
             place' = [place EXCEPT ![t] = where], left = open[Home[t]] \ {t},
             open' = [open EXCEPT ![Home[t]] = left],
             st' = IF place[t] = "waiting" /\ left = {} /\ st[Home[t]] = "paused"
                   THEN [st EXCEPT ![Home[t]] = "active"] ELSE st,
             orphans' = orphans \/ orphans' = orphans \ {t},
             UNCHANGED <<stage, haunted, verdict, pending>>
      PROVE  SessionsOK' /\ RequestsOK'
  <2> DEFINE h == Home[t]
  <2>1. ASSUME NEW s \in Sessions PROVE SessionOK(s)'
    <3>0. SessionOK(s)
      BY <1>o
    <3>1. CASE s = h
      <4>1. open'[s] = open[s] \ {t} /\ open[s] \subseteq {q \in Of(s) : place[q] = "waiting"}
        BY <1>6, <1>t, <3>0, <3>1 DEF SessionOK
      <4>2. \A q \in Tools \ {t} : place'[q] = place[q]
        BY <1>6, <1>t
      <4>3. open'[s] \subseteq {q \in Of(s) : place'[q] = "waiting"}
        BY <4>1, <4>2 DEF Of
      <4>4. st'[s] = IF place[t] = "waiting" /\ open[s] \ {t} = {} /\ st[s] = "paused" THEN "active" ELSE st[s]
        BY <1>6, <1>t, <3>1
      <4>5. st'[s] = "paused" => \E q \in Of(s) : place'[q] = "waiting"
        <5> SUFFICES ASSUME st'[s] = "paused" PROVE \E q \in Of(s) : place'[q] = "waiting"
          OBVIOUS
        <5>1. CASE place[t] = "waiting"
          BY <4>1, <4>3, <4>4, <5>1
        <5>2. CASE place[t] # "waiting"
          <6>1. PICK q \in Of(s) : place[q] = "waiting"
            BY <3>0, <4>4 DEF SessionOK
          <6> QED
            BY <4>2, <5>2, <6>1 DEF Of
        <5> QED
          BY <5>1, <5>2
      <4>6. /\ stage[s] = "down" => st'[s] \in {"terminated", "error"} /\ open'[s] \subseteq orphans'
            /\ stage[s] # "down" => st'[s] \in {"active", "paused", "starting"}
        BY <1>6, <3>0, <4>1, <4>4 DEF SessionOK
      <4>7. stage[s] # "down" /\ open'[s] # {} => st'[s] \in {"paused", "starting"} \/ s \in haunted
        BY <3>0, <4>1, <4>4 DEF SessionOK
      <4> QED
        BY <1>6, <4>3, <4>5, <4>6, <4>7 DEF SessionOK, Of
    <3>2. CASE s # h
      <4>1. st'[s] = st[s] /\ open'[s] = open[s] /\ \A q \in Of(s) : q # t /\ place'[q] = place[q]
        BY <1>6, <1>t, <3>2 DEF Of
      <4>2. open[s] \subseteq Of(s)
        BY <3>0 DEF SessionOK
      <4> QED
        BY <1>6, <3>0, <4>1, <4>2, SessionStays
    <3> QED
      BY <3>1, <3>2
  <2>2. ASSUME NEW q \in Tools PROVE RequestOK(q)'
    <3>0. RequestOK(q)
      BY <1>o
    <3>1. CASE q = t
      BY <1>6, <1>t, <3>0, <3>1 DEF RequestOK, Asking, Undecided, Looking
    <3>2. CASE q # t
      <4>1. place'[q] = place[q] /\ (q \in open[Home[q]] => q \in open'[Home[q]])
        BY <1>6, <1>t, <3>2
      <4> QED
        BY <1>6, <3>0, <3>2, <4>1, RequestStays
    <3> QED
      BY <3>1, <3>2
  <2> QED
    BY <2>1, <2>2 DEF SessionsOK, RequestsOK
<1>7. ASSUME NEW t \in Tools, Answered(t) PROVE SessionsOK' /\ RequestsOK'
  <2>1. /\ place[t] = "waiting" /\ place' = [place EXCEPT ![t] = "done"]
        /\ open' = [open EXCEPT ![Home[t]] = open[Home[t]] \ {t}]
        /\ st' = IF open[Home[t]] \ {t} = {} /\ st[Home[t]] = "paused"
                 THEN [st EXCEPT ![Home[t]] = "active"] ELSE st
        /\ UNCHANGED <<stage, orphans, haunted, verdict, pending>>
    BY <1>7 DEF Answered, Resume, clientVars, failVars
  <2>2. open[Home[t]] \ {t} \in SUBSET Tools
    BY <1>t
  <2> QED
    BY <1>6, <2>1, <2>2
<1>8. ASSUME NEW t \in Tools, OrphanEnds(t) PROVE SessionsOK' /\ RequestsOK'
  <2>1. /\ place' = [place EXCEPT ![t] = "over"] /\ orphans' = orphans \ {t}
        /\ open' = [open EXCEPT ![Home[t]] = open[Home[t]] \ {t}]
        /\ st' = IF place[t] = "waiting" /\ open[Home[t]] \ {t} = {} /\ st[Home[t]] = "paused"
                 THEN [st EXCEPT ![Home[t]] = "active"] ELSE st
        /\ UNCHANGED <<stage, haunted, verdict, pending>>
    BY <1>8 DEF OrphanEnds, Resume
  <2>2. open[Home[t]] \ {t} \in SUBSET Tools
    BY <1>t
  <2> QED
    BY <1>6, <2>1, <2>2
<1>9. ASSUME NEW t \in Tools, NEW v \in {"allow", "deny"}, Answer(t, v) PROVE SessionsOK' /\ RequestsOK'
  <2>1. /\ UNCHANGED <<st, stage, orphans, haunted, open, place>> /\ pending' = pending \ {t} /\ Decide({t}, v)
    BY <1>9 DEF Answer, sessionVars, clientVars, failVars
  <2>2. RequestsOK'
    BY <1>t, <1>o, <2>1 DEF Decide, RequestsOK, RequestOK, Asking, Undecided, Looking
  <2> QED
    BY <2>1, <2>2, SessionsStay
<1>10. ASSUME NEW s \in Sessions, Interrupt(s) PROVE SessionsOK' /\ RequestsOK'
  <2>1. UNCHANGED <<st, stage, orphans, haunted, place>>
    BY <1>10 DEF Interrupt, failVars
  <2>2. CASE st[s] = "paused"
    <3>1. /\ Decide(pending, "deny") /\ pending' = {t \in pending : ~ Undecided(t)}
          /\ open' = [q \in Sessions |-> {}]
      BY <1>10, <2>2 DEF Interrupt
    <3>2. SessionsOK'
      BY <1>o, <2>1, <3>1 DEF SessionsOK, SessionOK
    <3>3. RequestsOK'
      BY <1>t, <1>o, <2>1, <3>1 DEF RequestsOK, RequestOK, Decide, Asking, Undecided, Looking
    <3> QED
      BY <3>2, <3>3
  <2>3. CASE st[s] # "paused"
    BY <1>10, <1>u, <2>1, <2>3 DEF Interrupt
  <2> QED
    BY <2>2, <2>3
<1>11. ASSUME NEW s \in Sessions, InterruptSucceeds(s) \/ InterruptFails(s) PROVE SessionsOK' /\ RequestsOK'
  BY <1>11, <1>u DEF InterruptSucceeds, InterruptFails, failVars, requestVars
<1>12. ASSUME NEW s \in Sessions, Cleanup(s), UNCHANGED <<place, orphans, haunted>>,
              \A q \in Sessions : q # s => st'[q] = st[q] /\ stage'[q] = stage[q],
              stage[s] = "down" <=> stage'[s] = "down",
              st'[s] = st[s] \/ (stage[s] = "down" /\ st'[s] = "terminated")
       PROVE  SessionsOK' /\ RequestsOK'
  <2>1. /\ open' = [open EXCEPT ![s] = {}] /\ Decide(open[s], "dropped") /\ pending' = pending \ open[s]
    BY <1>12 DEF Cleanup
  <2>2. ASSUME NEW q \in Sessions PROVE SessionOK(q)'
    <3>1. CASE q = s
      BY <1>12, <1>t, <1>o, <2>1, <3>1 DEF SessionOK
    <3>2. CASE q # s
      BY <1>12, <1>t, <1>o, <2>1, <3>2, SessionStays
    <3> QED
      BY <3>1, <3>2
  <2>3. ASSUME NEW q \in Tools PROVE RequestOK(q)'
    <3>1. stage[Home[q]] # "down" => stage'[Home[q]] # "down"
      BY <1>12, <1>t
    <3>2. verdict'[q] = IF q \in open[s] /\ Undecided(q) THEN "dropped" ELSE verdict[q]
      BY <2>1 DEF Decide
    <3>3. ASSUME Undecided(q)' PROVE q \in open'[Home[q]] /\ q \in pending'
      <4>1. Undecided(q) /\ q \notin open[s]
        BY <1>12, <3>2, <3>3 DEF Undecided
      <4>2. q \in open[Home[q]] /\ q \in pending
        BY <1>o, <4>1 DEF RequestOK
      <4> QED
        BY <1>t, <2>1, <4>1, <4>2
    <3> QED
      BY <1>12, <1>o, <3>1, <3>2, <3>3 DEF RequestOK, Asking, Undecided, Looking
  <2> QED
    BY <2>2, <2>3 DEF SessionsOK, RequestsOK
<1>13. ASSUME NEW s \in Sessions, TerminateByUser(s) PROVE SessionsOK' /\ RequestsOK'
  <2>1. /\ stage[s] = "up" /\ stage' = [stage EXCEPT ![s] = "ending"] /\ Cleanup(s)
        /\ UNCHANGED <<st, place, orphans, haunted>>
    BY <1>13 DEF TerminateByUser, Ends, failVars
  <2> QED
    BY <1>12, <1>t, <2>1
<1>14. ASSUME NEW s \in Sessions, TerminateFailed(s) PROVE SessionsOK' /\ RequestsOK'
  <2>1. /\ st[s] = "error" /\ st' = [st EXCEPT ![s] = "terminated"] /\ Cleanup(s)
        /\ UNCHANGED <<stage, place, orphans, haunted>>
    BY <1>14 DEF TerminateFailed, clientVars, failVars
  <2>2. stage[s] = "down"
    BY <1>o, <2>1 DEF SessionOK
  <2> QED
    BY <1>12, <1>t, <2>1, <2>2
<1>15. ASSUME NEW s \in Sessions, TerminateByMinion(s) \/ EndForRestart(s) PROVE SessionsOK' /\ RequestsOK'
  <2>1. stage[s] = "up" /\ stage' = [stage EXCEPT ![s] = "ending"]
        /\ UNCHANGED <<st, orphans, haunted, requestVars>>
    BY <1>15 DEF TerminateByMinion, EndForRestart, Ends, failVars
  <2>2. \A q \in Sessions : stage'[q] = "down" <=> stage[q] = "down"
    BY <1>t, <2>1 DEF Stages
  <2> QED
    BY <1>t, <1>o, <2>1, <2>2
    DEF SessionsOK, SessionOK, RequestsOK, RequestOK, Asking, Undecided, requestVars
<1>16. ASSUME NEW s \in Sessions, NEW fell \in {"terminated", "error"},
              stage' = [stage EXCEPT ![s] = "down"], st' = [st EXCEPT ![s] = fell],
              UNCHANGED <<haunted, verdict, pending>>, orphans \subseteq orphans',
              \A q \in Tools : Home[q] # s => place'[q] = place[q],
              \A q \in Of(s) \cap orphans' : place'[q] = place[q],
              \A q \in Of(s) \ orphans' : place'[q] \in {"unused", "over"} /\
                                         (place'[q] = "unused" => place[q] = "unused"),
              open' = [open EXCEPT ![s] = @ \cap orphans']
       PROVE  SessionsOK' /\ RequestsOK'
  <2>1. ASSUME NEW q \in Sessions PROVE SessionOK(q)'
    <3>0. SessionOK(q)
      BY <1>o
    <3>1. CASE q = s
      <4>1. /\ stage'[q] = "down" /\ st'[q] = fell /\ open'[q] = open[q] \cap orphans'
        BY <1>16, <1>t, <3>1
      <4>2. open'[q] \subseteq {t \in Of(q) : place'[t] = "waiting"}
        BY <1>16, <3>0, <3>1, <4>1 DEF SessionOK
      <4> QED
        BY <4>1, <4>2 DEF SessionOK, Of
    <3>2. CASE q # s
      <4>1. st'[q] = st[q] /\ stage'[q] = stage[q] /\ open'[q] = open[q]
            /\ \A t \in Of(q) : place'[t] = place[t]
        BY <1>16, <1>t, <3>2 DEF Of
      <4> QED
        BY <1>16, <3>0, <4>1, SessionStays
    <3> QED
      BY <3>1, <3>2
  <2>2. ASSUME NEW q \in Tools PROVE RequestOK(q)'
    <3>0. RequestOK(q)
      BY <1>o
    <3>1. CASE q \in Of(s) \ orphans'
      BY <1>16, <3>0, <3>1 DEF RequestOK, Asking, Undecided, Looking
    <3>2. CASE q \in Of(s) \cap orphans'
      <4>1. place'[q] = place[q] /\ (q \in open[Home[q]] => q \in open'[Home[q]])
        BY <1>16, <1>t, <3>2 DEF Of
      <4> QED
        BY <1>16, <3>0, <3>2, <4>1, RequestStays
    <3>3. CASE q \notin Of(s)
      <4>1. place'[q] = place[q] /\ Home[q] # s /\ open'[Home[q]] = open[Home[q]]
            /\ stage'[Home[q]] = stage[Home[q]]
        BY <1>16, <1>t, <3>3 DEF Of
      <4> QED
        BY <1>16, <3>0, <4>1, RequestStays
    <3> QED
      BY <3>1, <3>2, <3>3
  <2> QED
    BY <2>1, <2>2 DEF SessionsOK, RequestsOK
<1>17. ASSUME NEW s \in Sessions, ClientEnds(s) PROVE SessionsOK' /\ RequestsOK'
  <2>1. /\ stage' = [stage EXCEPT ![s] = "down"] /\ st' = [st EXCEPT ![s] = "terminated"]
        /\ UNCHANGED <<orphans, haunted, verdict, pending>>
    BY <1>17 DEF ClientEnds, failVars
  <2>2. \A q \in Tools : place'[q] = IF q \in Of(s) \ orphans /\ (Asking(q) \/ place[q] \in {"used", "done"})
                                    THEN "over" ELSE place[q]
    BY <1>17 DEF ClientEnds, Served
  <2>3. \A q \in Of(s) \ orphans : place'[q] \in {"unused", "over"} /\
                                   (place'[q] = "unused" => place[q] = "unused")
    BY <1>t, <2>2 DEF Asking, Places, Looking, Of
  <2>4. open' = [open EXCEPT ![s] = @ \cap orphans]
    <3>1. open[s] \subseteq Of(s)
      BY <1>o DEF SessionOK
    <3>2. open[s] \ Served(s) = open[s] \cap orphans
      BY <3>1 DEF Served
    <3> QED
      BY <1>17, <3>2 DEF ClientEnds, CancelledClosed
  <2> QED
    BY <1>16, <2>1, <2>2, <2>3, <2>4 DEF Of
<1>18. ASSUME NEW s \in Sessions, ClientFails(s) PROVE SessionsOK' /\ RequestsOK'
  <2>1. /\ stage' = [stage EXCEPT ![s] = "down"] /\ st' = [st EXCEPT ![s] = "error"]
        /\ orphans' = orphans \union {t \in Of(s) : Asking(t)}
        /\ UNCHANGED <<haunted, verdict, open, pending>>
    BY <1>18 DEF ClientFails
  <2>2. \A q \in Tools : place'[q] = IF q \in Of(s) \ orphans /\ place[q] \in {"used", "done"}
                                    THEN "over" ELSE place[q]
    BY <1>18 DEF ClientFails, Served
  <2>3. \A q \in Of(s) \ orphans' : place'[q] \in {"unused", "over"} /\
                                    (place'[q] = "unused" => place[q] = "unused")
    <3> SUFFICES ASSUME NEW q \in Of(s), q \notin orphans'
                 PROVE  place'[q] \in {"unused", "over"} /\ (place'[q] = "unused" => place[q] = "unused")
      OBVIOUS
    <3>1. q \in Tools /\ ~ Asking(q) /\ q \notin orphans
      BY <2>1 DEF Of
    <3>2. place[q] \in {"unused", "used", "done", "over"}
      BY <1>t, <3>1 DEF Asking, Places
    <3>3. place'[q] = IF place[q] \in {"used", "done"} THEN "over" ELSE place[q]
      BY <2>2, <3>1
    <3> QED
      BY <3>2, <3>3
  <2>4. \A q \in Of(s) \cap orphans' : place'[q] = place[q]
    BY <2>1, <2>2 DEF Asking, Looking, Of
  <2>5. open' = [open EXCEPT ![s] = @ \cap orphans']
    <3>1. open[s] \subseteq {t \in Of(s) : place[t] = "waiting"}
      BY <1>o DEF SessionOK
    <3>2. open[s] \cap orphans' = open[s]
      BY <2>1, <3>1 DEF Asking
    <3>3. open = [open EXCEPT ![s] = open[s]]
      BY <1>t
    <3> QED
      BY <2>1, <3>2, <3>3
  <2> QED
    BY <1>16, <2>1, <2>2, <2>3, <2>4, <2>5 DEF Of
<1>19. ASSUME NEW s \in Sessions, Start(s) PROVE SessionsOK' /\ RequestsOK'
  <2>1. /\ stage[s] = "down" /\ stage' = [stage EXCEPT ![s] = "up"] /\ st' = [st EXCEPT ![s] = "active"]
        /\ haunted' = IF open[s] = {} THEN haunted \ {s} ELSE haunted \union {s}
        /\ UNCHANGED <<orphans, requestVars>>
    BY <1>19 DEF Start
  <2>2. ASSUME NEW q \in Sessions PROVE SessionOK(q)'
    <3>1. CASE q = s
      <4>1. stage'[q] = "up" /\ st'[q] = "active" /\ (open[q] # {} => q \in haunted')
        BY <1>t, <2>1, <3>1
      <4> QED
        BY <1>o, <2>1, <4>1 DEF SessionOK, requestVars
    <3>2. CASE q # s
      BY <1>t, <1>o, <2>1, <3>2, SessionStays DEF requestVars
    <3> QED
      BY <3>1, <3>2
  <2>3. ASSUME NEW q \in Tools PROVE RequestOK(q)'
    BY <1>t, <1>o, <2>1, RequestStays DEF requestVars
  <2> QED
    BY <2>2, <2>3 DEF SessionsOK, RequestsOK
<1>20. ASSUME NEW s \in Sessions, StartOver(s) PROVE SessionsOK' /\ RequestsOK'
  <2>1. /\ stage[s] = "up" /\ st[s] = "paused" /\ st' = [st EXCEPT ![s] = "starting"]
        /\ UNCHANGED <<stage, orphans, haunted, requestVars>>
    BY <1>20 DEF StartOver, clientVars, failVars
  <2>2. ASSUME NEW q \in Sessions PROVE SessionOK(q)'
    <3>1. CASE q = s
      BY <1>t, <1>o, <2>1, <3>1 DEF SessionOK, requestVars
    <3>2. CASE q # s
      BY <1>t, <1>o, <2>1, <3>2, SessionStays DEF requestVars
    <3> QED
      BY <3>1, <3>2
  <2>3. RequestsOK'
    BY <2>1 DEF RequestsOK, RequestOK, Asking, Undecided, requestVars
  <2> QED
    BY <2>2, <2>3 DEF SessionsOK
<1>21. CASE UNCHANGED permVars
  BY <1>21, <1>u DEF permVars, sessionVars, clientVars, failVars, requestVars
<1> QED
  BY <1>1, <1>2, <1>3, <1>4, <1>5, <1>7, <1>8, <1>9, <1>10, <1>11, <1>13, <1>14, <1>15, <1>17, <1>18,
     <1>19, <1>20, <1>21 DEF Next, Callback
-----------------------------------------------------------------------------
(* The status of a tool call.                                              *)

\* A verdict is never changed.
LEMMA VerdictStays == TypeOK /\ RequestsOK /\ [Next]_permVars =>
  \A t \in Tools : verdict[t] # "none" => verdict'[t] = verdict[t]
<1> SUFFICES ASSUME TypeOK, RequestsOK, [Next]_permVars, NEW t \in Tools, verdict[t] # "none"
             PROVE  verdict'[t] = verdict[t]
  OBVIOUS
<1>1. ASSUME NEW R, NEW v, Decide(R, v) PROVE verdict'[t] = verdict[t]
  BY <1>1 DEF Decide, Undecided
<1>2. ASSUME NEW q \in Tools, SignatureTimeout(q) PROVE verdict'[t] = verdict[t]
  <2>1. verdict \in [Tools -> Verdicts] /\ verdict[q] = "none" /\ verdict' = [verdict EXCEPT ![q] = "unasked"]
    BY <1>2 DEF TypeOK, Verdicts, SignatureTimeout, RequestsOK, RequestOK, Looking
  <2> QED
    BY <2>1
<1>3. ASSUME NEW s \in Sessions, Interrupt(s) \/ TerminateByUser(s) \/ TerminateFailed(s) PROVE verdict'[t] = verdict[t]
  BY <1>1, <1>3 DEF Interrupt, TerminateByUser, TerminateFailed, Cleanup
<1>4. ASSUME NEW q \in Tools, NEW v, Answer(q, v) PROVE verdict'[t] = verdict[t]
  BY <1>1, <1>4 DEF Answer
<1> QED
  BY <1>2, <1>3, <1>4 DEF Next, Callback, permVars, requestVars, Uses, Reports, HandleUse, HandleResult,
     Ask, EndOfIdWait, SignatureHeard, EndOfBarrier, Answered, Show, LooksOn, InterruptSucceeds,
     InterruptFails, TerminateByMinion, EndForRestart, ClientEnds, ClientFails, OrphanEnds, Start, StartOver

\* Every step keeps the status of a tool call to the answer of its own request.
LEMMA StatusNext == TypeOK /\ ActiveOK /\ RequestsOK /\ StatusFollowsAnswer /\ [Next]_permVars
                    => StatusFollowsAnswer'
<1> SUFFICES ASSUME TypeOK, ActiveOK, RequestsOK, StatusFollowsAnswer, [Next]_permVars,
                    NEW t \in Tools, Alone(t)
             PROVE  /\ call'[t] = "running" => verdict'[t] = "allow"
                    /\ call'[t] = "denied" => verdict'[t] \in Denials
  BY DEF StatusFollowsAnswer, Alone
<1> DEFINE Goal == /\ call'[t] = "running" => verdict'[t] = "allow"
                   /\ call'[t] = "denied" => verdict'[t] \in Denials
<1>t. call \in [Tools -> Statuses] /\ verdict \in [Tools -> Verdicts]
  BY DEF TypeOK, Statuses, Verdicts
<1>s. ASSUME call'[t] = call[t] \/ call'[t] \notin {"running", "denied"} PROVE Goal
  <2>1. /\ call[t] = "running" => verdict[t] = "allow"
        /\ call[t] = "denied" => verdict[t] \in Denials
    BY DEF StatusFollowsAnswer
  <2>2. verdict[t] # "none" => verdict'[t] = verdict[t]
    BY VerdictStays
  <2> QED
    BY <1>s, <2>1, <2>2 DEF Denials
<1>1. ASSUME NEW q \in Tools, HandleUse(q) \/ HandleResult(q) PROVE Goal
  BY <1>1, <1>s, <1>t DEF HandleUse, HandleResult
<1>2. ASSUME NEW k, call' = IF IsActive(k) THEN [call EXCEPT ![k] = "awaiting"] ELSE call PROVE Goal
  BY <1>2, <1>s, <1>t
<1>3. ASSUME NEW q \in Tools, Ask(q) \/ EndOfIdWait(q) \/ SignatureHeard(q) \/ EndOfBarrier(q) PROVE Goal
  BY <1>2, <1>3, <1>s DEF Ask, EndOfIdWait, SignatureHeard, EndOfBarrier, Show, LooksOn, AskAt, callVars
<1>4. ASSUME NEW s \in Sessions, InterruptTools(s) PROVE Goal
  BY <1>4, <1>s DEF InterruptTools
<1>5. ASSUME NEW q \in Tools, Answered(q) PROVE Goal
  <2> DEFINE k == ByIdOrSig(q)
  <2>1. /\ place[q] = "waiting" /\ verdict[q] # "none" /\ verdict' = verdict
        /\ k = None => call' = call
        /\ k # None => call' = [call EXCEPT ![k] = IF verdict[q] = "allow" THEN "running" ELSE "denied"]
    BY <1>5 DEF Answered, Respond
  <2>2. CASE k # t
    <3>1. call'[t] = call[t]
      BY <1>t, <2>1, <2>2
    <3> QED
      BY <1>s, <3>1
  <2>3. CASE k = t
    <3>1. q = t
      BY <2>3, ChosenAlone
    <3>2. verdict[t] \in {"allow"} \union Denials
      BY <1>t, <2>1, <3>1 DEF RequestsOK, RequestOK, Verdicts
    <3>3. call'[t] = IF verdict[t] = "allow" THEN "running" ELSE "denied"
      BY <1>t, <2>1, <2>3, <3>1, NoneAssumption
    <3> QED
      BY <2>1, <3>2, <3>3
  <2> QED
    BY <2>2, <2>3
<1>6. ASSUME call' = call PROVE Goal
  BY <1>6, <1>s
<1> QED
  BY <1>1, <1>3, <1>4, <1>5, <1>6 DEF Next, Callback, permVars, callVars, Uses, Reports, SignatureTimeout,
     Answer, Interrupt, InterruptSucceeds, InterruptFails, TerminateByUser, TerminateByMinion, TerminateFailed,
     EndForRestart, ClientEnds, ClientFails, OrphanEnds, Start, StartOver
-----------------------------------------------------------------------------
(* The results.                                                            *)

\* The inductive invariant,
IInv == TypeOK /\ ActiveOK /\ SessionsOK /\ RequestsOK /\ StatusFollowsAnswer

\* which holds at the start
LEMMA InitIInv == Init => IInv
<1> SUFFICES ASSUME Init PROVE IInv
  OBVIOUS
<1>e. \A S : <<>> \in Seq(S)
  OBVIOUS
<1>0. PICK used \in Together :
       /\ place = [t \in Tools |-> IF t \in used THEN "unused" ELSE "over"]
       /\ st = [s \in Sessions |-> IF s \in {Home[t] : t \in used} THEN "active" ELSE "terminated"]
       /\ stage = [s \in Sessions |-> IF s \in {Home[t] : t \in used} THEN "up" ELSE "down"]
  BY DEF Init
<1>1. TypeOK
  BY <1>e, <1>0 DEF Init, TypeOK
<1>2. ActiveOK
  BY <1>e DEF Init, ActiveOK
<1>3. SessionsOK /\ RequestsOK
  BY <1>0 DEF Init, SessionsOK, SessionOK, RequestsOK, RequestOK, Asking, Undecided, Looking
<1>4. StatusFollowsAnswer
  BY DEF Init, StatusFollowsAnswer
<1> QED
  BY <1>1, <1>2, <1>3, <1>4 DEF IInv

\* and which every step keeps.
LEMMA Inductive == Spec => []IInv
<1>1. IInv /\ [Next]_permVars => IInv'
  BY TypeNext, ActiveNext, SessionsNext, StatusNext DEF IInv
<1> QED
  BY <1>1, InitIInv, PTL DEF Spec

\* The variables keep their shape.
THEOREM TypeCorrect == Spec => []TypeOK
<1>1. IInv => TypeOK
  BY DEF IInv
<1> QED
  BY <1>1, Inductive, PTL

\* A session with a client is paused as long as a request of that client has no
\* answer, unless it was started over the request or while one of a failed
\* client was open, and it is paused only while a callback of it waits: the
\* interrupt that denies the requests of every session, the ways to end a client
\* and its failure included.
THEOREM PauseMeansAsked == Spec => []PausedWhileAsked
<1>1. IInv => PausedWhileAsked
  <2> SUFFICES ASSUME IInv, NEW s \in Sessions
               PROVE  /\ st[s] = "paused" => \E t \in Of(s) : place[t] = "waiting"
                      /\ (\E t \in Served(s) : Undecided(t))
                           => st[s] \in {"paused", "starting"} \/ s \in haunted
    BY DEF PausedWhileAsked
  <2>1. SessionOK(s) /\ \A t \in Tools : RequestOK(t)
    BY DEF IInv, SessionsOK, RequestsOK
  <2>2. ASSUME NEW t \in Served(s), Undecided(t) PROVE st[s] \in {"paused", "starting"} \/ s \in haunted
    <3>1. t \in Tools /\ Home[t] = s /\ t \notin orphans
      BY DEF Served, Of
    <3>2. t \in open[s] /\ stage[s] # "down"
      BY <2>1, <2>2, <3>1 DEF RequestOK, Asking, Undecided
    <3> QED
      BY <2>1, <3>2 DEF SessionOK
  <2> QED
    BY <2>1, <2>2 DEF SessionOK
<1> QED
  BY <1>1, Inductive, PTL

\* A tool call that no other one of its session looks like runs only if its own
\* request was allowed, and is denied only if that was denied.
THEOREM AnswerDecides == Spec => []StatusFollowsAnswer
<1>1. IInv => StatusFollowsAnswer
  BY DEF IInv
<1> QED
  BY <1>1, Inductive, PTL

\* Ending one session drops no request of another.
THEOREM OthersAreKept == Spec => OnlyOwnDropped
<1> DEFINE A == \A t \in Tools : verdict'[t] = "dropped" /\ verdict[t] # "dropped"
                                  => Terminating(Home[t])
<1>1. IInv /\ [Next]_permVars => A
  <2> SUFFICES ASSUME TypeOK, SessionsOK, [Next]_permVars, NEW t \in Tools,
                      verdict'[t] = "dropped", verdict[t] # "dropped"
               PROVE  Terminating(Home[t])
    BY DEF IInv
  <2>t. /\ stage \in [Sessions -> Stages] /\ st \in [Sessions -> States] /\ verdict \in [Tools -> Verdicts] /\ Home[t] \in Sessions
    BY HomeAssumption DEF TypeOK, Stages, States, Verdicts
  <2>1. ASSUME NEW s \in Sessions, TerminateByUser(s) \/ TerminateFailed(s) PROVE Terminating(Home[t])
    <3>1. t \in open[s]
      BY <2>1 DEF TerminateByUser, TerminateFailed, Cleanup, Decide
    <3>2. Home[t] = s
      BY <3>1 DEF SessionsOK, SessionOK, Of
    <3> QED
      BY <2>1, <2>t, <3>2 DEF TerminateByUser, TerminateFailed, Ends, Terminating
  <2>2. ASSUME NEW R, NEW v \in {"allow", "deny"}, Decide(R, v) PROVE FALSE
    BY <2>2 DEF Decide
  <2>3. ASSUME NEW q \in Tools, SignatureTimeout(q) PROVE FALSE
    BY <2>3, <2>t DEF SignatureTimeout
  <2>4. ASSUME NEW s \in Sessions, Interrupt(s) PROVE FALSE
    BY <2>2, <2>4 DEF Interrupt
  <2>5. ASSUME NEW q \in Tools, NEW v \in {"allow", "deny"}, Answer(q, v) PROVE FALSE
    BY <2>2, <2>5 DEF Answer
  <2>6. verdict' # verdict
    OBVIOUS
  <2> QED
    BY <2>1, <2>3, <2>4, <2>5, <2>6 DEF Next, Callback, permVars, requestVars, Uses, Reports, HandleUse,
       HandleResult, Ask, EndOfIdWait, SignatureHeard, EndOfBarrier, Answered, Show, LooksOn,
       InterruptSucceeds, InterruptFails, TerminateByMinion, EndForRestart, ClientEnds, ClientFails, OrphanEnds, Start, StartOver
<1>2. [][Next]_permVars /\ []IInv => [][A]_permVars
  <2>1. IInv /\ [Next]_permVars => [A]_permVars
    BY <1>1
  <2> QED
    BY <2>1, PTL
<1> QED
  BY <1>2, Inductive, PTL DEF Spec, OnlyOwnDropped
=============================================================================
