------------------------------ MODULE McpProofs ------------------------------
(***************************************************************************)
(* Proofs about the MCP servers: their shared connections and the refresh  *)
(* of their tokens, SharedConnections and Secrets.                         *)
(*                                                                         *)
(* SharedConnections, for any number of sessions, calls, connections and   *)
(* owners: whose client a connection has, that references count the        *)
(* sessions that use it, and when its token is refreshed.  The reference   *)
(* count alone is not inductive.  A session waits for the lock or the      *)
(* owner without a reference (Waiting), or its own would be counted twice  *)
(* when it attaches; and who closes the connection in the table closes one *)
(* that nobody uses and that drains (ClosersOK), or the end of the close   *)
(* would take the references of its users with it.                         *)
(*                                                                         *)
(* Secrets and the tokens of OAuthTokens, in the second half, for any      *)
(* number of flows, tokens and requests: when the tokens of a server are   *)
(* erased, that the vault follows the provider, and that who gives up says *)
(* so.  A token that the provider has replaced is known only to the caller *)
(* that was answered.  That the vault follows is inductive when that       *)
(* caller has a token it did not send (FollowsOK): one that has been given *)
(* its own token back leaves the vault as it is.  An answer is about the   *)
(* stored token as long as that is the one that was sent (ServerOK).       *)
(***************************************************************************)
EXTENDS SharedConnections, Secrets, FiniteSetTheorems, TLAPS

-----------------------------------------------------------------------------
(* The types.                                                              *)

States == Quiet \union Working

\* The parts of the type invariant: the connections, the owners, the locks, the
\* processes and the rest.
ConnTypes ==
  /\ conn \in Conns \union {None}
  /\ refs \in [Conns -> Int] /\ draining \in [Conns -> BOOLEAN]
  /\ cur \in [Conns -> Owners \union {None}] /\ sess \in [Conns -> Owners \union {None}]
OwnerTypes ==
  /\ phase \in [Owners -> {"opening", "open", "gone"}]
  /\ ready \subseteq Owners /\ told \subseteq Owners /\ of \in [Owners -> Conns]
LockTypes == openLock \in Procs \union {None} /\ recLock \in [Conns -> Procs \union {None}]
ProcTypes ==
  /\ at \in [Procs -> States]
  /\ on \in [Procs -> Conns \union {None}] /\ own \in [Procs -> Owners \union {None}]
  /\ \A p \in Procs : /\ at[p] \in Working => on[p] # None
                      /\ at[p] \in {"opening", "closing"} => own[p] # None
RestTypes ==
  /\ cfg \in {"enabled", "disabled", "deleted"} /\ count \in Nat
  /\ holds \in [Sessions -> Conns \union {None}]
  /\ ending \in {"none", "disabled", "deleted"} /\ mixed \in BOOLEAN /\ kept \in Nat
\* The change that waits for a connection to close knows how it ends.
EndingOK == at[Config] = "closing" => ending # "none"

\* The type invariant, part by part.
LEMMA TypeParts == TypeOK <=> ConnTypes /\ OwnerTypes /\ LockTypes /\ ProcTypes /\ RestTypes
BY DEF TypeOK, ConnTypes, OwnerTypes, LockTypes, ProcTypes, RestTypes, States

\* A process that goes on keeps the types,
LEMMA GoesTyped ==
  ASSUME ProcTypes, NEW p \in Procs, NEW place \in States, NEW k \in Conns \union {None},
         NEW o \in Owners \union {None}, Goes(p, place, k, o),
         place \in Working => k # None, place \in {"opening", "closing"} => o # None
  PROVE  ProcTypes'
BY DEF ProcTypes, Goes

\* or goes where it waits for nobody,
LEMMA AtTyped ==
  ASSUME ProcTypes, NEW p \in Procs, NEW place \in Quiet, At(p, place), UNCHANGED <<on, own>>
  PROVE  ProcTypes'
BY DEF ProcTypes, At, States, Quiet, Working

\* or gives back its part in the refresh of the token.
LEMMA RefreshTyped ==
  ASSUME ProcTypes, NEW s \in Sessions, NEW place \in States, ReleaseRefresh(s, place), count \in Nat,
         NEW k \in Conns \union {None}, NEW o \in Owners \union {None},
         on' = [on EXCEPT ![s] = k], own' = [own EXCEPT ![s] = o],
         place \in Working => k # None, place \in {"opening", "closing"} => o # None
  PROVE  ProcTypes' /\ count' \in Nat
<1>1. s \in Procs /\ Refresher \in Procs /\ s # Refresher
  BY ProcsAssumption DEF Procs
<1>2. at' = [at EXCEPT ![s] = place, ![Refresher] = IF count <= 1 THEN "none" ELSE @]
  BY DEF ReleaseRefresh
<1>3. \A p \in Procs : at'[p] = IF p = s THEN place ELSE IF p = Refresher /\ count <= 1 THEN "none" ELSE at[p]
  BY <1>1, <1>2 DEF ProcTypes
<1>4. "none" \in States /\ "none" \notin Working
  BY DEF States, Quiet, Working
<1>5. at' \in [Procs -> States]
  BY <1>1, <1>2, <1>4 DEF ProcTypes
<1>6. on' \in [Procs -> Conns \union {None}] /\ own' \in [Procs -> Owners \union {None}]
  BY <1>1 DEF ProcTypes
<1>7. \A p \in Procs : /\ at'[p] \in Working => on'[p] # None
                       /\ at'[p] \in {"opening", "closing"} => own'[p] # None
  BY <1>1, <1>3, <1>4 DEF ProcTypes
<1>8. count' \in Nat
  BY DEF ReleaseRefresh
<1> QED
  BY <1>5, <1>6, <1>7, <1>8 DEF ProcTypes

\* So does a connection that is taken from the table,
LEMMA PoppedTyped == ConnTypes /\ Popped => /\ conn' \in Conns \union {None}
                                            /\ refs' \in [Conns -> Int] /\ draining' \in [Conns -> BOOLEAN]
<1> SUFFICES ASSUME ConnTypes, Popped
             PROVE  conn' \in Conns \union {None} /\ refs' \in [Conns -> Int] /\ draining' \in [Conns -> BOOLEAN]
  OBVIOUS
<1>1. CASE conn = None
  BY <1>1 DEF ConnTypes, Popped
<1>2. CASE conn # None
  <2>1. /\ conn' = None /\ refs' = [refs EXCEPT ![conn] = 0] /\ draining' = [draining EXCEPT ![conn] = FALSE]
    BY <1>2 DEF Popped
  <2>2. refs' \in [Conns -> Int]
    <3>1. refs \in [Conns -> Int] /\ 0 \in Int
      BY DEF ConnTypes
    <3> QED
      BY <2>1, <3>1, Zenon
  <2>3. draining' \in [Conns -> BOOLEAN]
    BY <2>1 DEF ConnTypes
  <2> QED
    BY <2>1, <2>2, <2>3
<1> QED
  BY <1>1, <1>2

\* an owner that ends,
LEMMA EndsTyped ==
  ASSUME ConnTypes, OwnerTypes, NEW o \in Owners, OwnerEnds(o)
  PROVE  ConnTypes' /\ OwnerTypes'
<1>1. OwnerTypes'
  BY DEF OwnerEnds, OwnerTypes
<1>2. ConnTypes'
  BY NoneAssumption DEF OwnerEnds, ForgetOwner, ConnTypes
<1> QED
  BY <1>1, <1>2

\* one that begins to open,
LEMMA OpensTyped ==
  ASSUME OwnerTypes, ProcTypes, NEW p \in Procs, NEW k \in Conns, NEW o \in Owners, Opens(p, k, o)
  PROVE  OwnerTypes' /\ ProcTypes' /\ cur' = [cur EXCEPT ![k] = o]
<1>1. OwnerTypes'
  BY DEF Opens, OwnerTypes
<1>2. "opening" \in States /\ k # None /\ o # None
  BY NoneAssumption DEF States, Working
<1>3. ProcTypes'
  BY <1>2, GoesTyped DEF Opens
<1> QED
  BY <1>1, <1>3 DEF Opens

\* and a process that gets its connection.
LEMMA GetsTyped ==
  ASSUME TypeOK, NEW p \in Sessions \union Calls, NEW k \in Conns, Gets(p, k)
  PROVE  ProcTypes' /\ refs' \in [Conns -> Int] /\ holds' \in [Sessions -> Conns \union {None}]
         /\ mixed' \in BOOLEAN
<1>t. ConnTypes /\ ProcTypes /\ RestTypes
  BY TypeParts
<1>1. p \in Procs /\ "attached" \in States /\ "ready" \in States /\ "attached" \notin Working
      /\ "attached" \notin {"opening", "closing"} /\ "ready" \notin {"opening", "closing"} /\ k # None
  BY NoneAssumption DEF Procs, States, Quiet, Working
<1>2. ProcTypes'
  <2>1. Goes(p, "attached", None, None) \/ Goes(p, "ready", k, None)
    BY DEF Gets
  <2> QED
    BY <1>t, <1>1, <2>1, GoesTyped
<1>3. refs' \in [Conns -> Int]
  <2>1. refs' = refs \/ refs' = [refs EXCEPT ![k] = @ + 1]
    BY DEF Gets
  <2> QED
    BY <1>t, <2>1 DEF ConnTypes
<1>4. holds' \in [Sessions -> Conns \union {None}]
  BY <1>t DEF Gets, RestTypes
<1>5. mixed' \in BOOLEAN
  BY <1>t DEF Gets, Mixes, ConnTypes, RestTypes
<1> QED
  BY <1>2, <1>3, <1>4, <1>5

\* A session that forgets its reference keeps the types.
LEMMA ForgetsTyped ==
  ASSUME RestTypes, NEW s \in Sessions, Forgets(s)
  PROVE  holds' \in [Sessions -> Conns \union {None}] /\ kept' \in Nat
BY DEF RestTypes, Forgets

\* Every step keeps the types.
LEMMA TypeNext == TypeOK /\ EndingOK /\ [Next]_sharedVars => TypeOK'
<1> SUFFICES ASSUME TypeOK, EndingOK, [Next]_sharedVars PROVE TypeOK'
  OBVIOUS
<1> USE NoneAssumption
<1>t. ConnTypes /\ OwnerTypes /\ LockTypes /\ ProcTypes /\ RestTypes
  BY TypeParts
<1>g. ConnTypes' /\ OwnerTypes' /\ LockTypes' /\ ProcTypes' /\ RestTypes' => TypeOK'
  BY DEF TypeOK, ConnTypes, OwnerTypes, LockTypes, ProcTypes, RestTypes, States
<1>c. UNCHANGED connVars => ConnTypes'
  BY <1>t DEF ConnTypes, connVars
<1>o. UNCHANGED ownerVars => OwnerTypes'
  BY <1>t DEF OwnerTypes, ownerVars
<1>l. UNCHANGED lockVars => LockTypes'
  BY <1>t DEF LockTypes, lockVars
<1>p. UNCHANGED procVars => ProcTypes'
  BY <1>t DEF ProcTypes, procVars
<1>r. UNCHANGED <<cfg, count, holds, kept, ending, mixed>> => RestTypes'
  BY <1>t DEF RestTypes
<1>q. /\ \A s \in Sessions : s \in Procs /\ s # Refresher
      /\ \A c \in Calls : c \in Procs
      /\ Config \in Procs /\ Refresher \in Procs
  BY ProcsAssumption DEF Procs
<1>1. ASSUME NEW o \in Owners, OwnerOpens(o) PROVE TypeOK'
  <2>1. OwnerTypes'
    BY <1>1, <1>t DEF OwnerOpens, OwnerTypes
  <2>2. ConnTypes'
    BY <1>1, <1>t DEF OwnerOpens, ConnTypes
  <2> QED
    BY <1>1, <1>g, <1>l, <1>p, <1>r, <2>1, <2>2 DEF OwnerOpens
<1>2. ASSUME NEW o \in Owners, OwnerEnds(o) PROVE TypeOK'
  BY <1>2, <1>t, <1>g, <1>l, <1>p, <1>r, EndsTyped DEF OwnerEnds
<1>3. ASSUME NEW p \in Sessions \union Calls, FindsOpen(p) PROVE TypeOK'
  <2>1. conn \in Conns
    BY <1>3, <1>t DEF FindsOpen, ConnTypes
  <2>2. ProcTypes' /\ refs' \in [Conns -> Int] /\ holds' \in [Sessions -> Conns \union {None}] /\ mixed' \in BOOLEAN
    BY <1>3, <2>1, GetsTyped DEF FindsOpen
  <2>3. LockTypes'
    BY <1>3, <1>t DEF FindsOpen, Gets, LockTypes
  <2> QED
    BY <1>3, <1>t, <1>g, <1>o, <2>2, <2>3 DEF FindsOpen, ConnTypes, RestTypes
<1>4. ASSUME NEW p \in Sessions \union Calls, FindsClosed(p) PROVE TypeOK'
  <2>1. p \in Procs /\ conn \in Conns
    BY <1>4, <1>t, <1>q DEF FindsClosed, ConnTypes
  <2>2. PICK o \in Owners : Opens(p, conn, o)
    BY <1>4 DEF FindsClosed
  <2>3. OwnerTypes' /\ ProcTypes' /\ cur' = [cur EXCEPT ![conn] = o]
    BY <1>t, <2>1, <2>2, OpensTyped
  <2>4. LockTypes' /\ ConnTypes'
    BY <1>4, <1>t, <2>1, <2>3 DEF FindsClosed, LockTypes, ConnTypes
  <2> QED
    BY <1>4, <1>g, <1>r, <2>3, <2>4 DEF FindsClosed
<1>5. ASSUME NEW p \in Sessions \union Calls, FindsNone(p) PROVE TypeOK'
  <2>1. p \in Procs
    BY <1>q
  <2>2. PICK k \in Conns, o \in Owners :
          /\ conn' = k /\ refs' = [refs EXCEPT ![k] = 0] /\ draining' = [draining EXCEPT ![k] = FALSE]
          /\ sess' = [sess EXCEPT ![k] = None] /\ Opens(p, k, o)
    BY <1>5 DEF FindsNone
  <2>3. OwnerTypes' /\ ProcTypes' /\ cur' = [cur EXCEPT ![k] = o]
    BY <1>t, <2>1, <2>2, OpensTyped
  <2>4. LockTypes' /\ ConnTypes'
    BY <1>5, <1>t, <2>1, <2>2, <2>3 DEF FindsNone, LockTypes, ConnTypes
  <2>5. RestTypes'
    BY <1>5, <1>t DEF FindsNone, RestTypes
  <2> QED
    BY <1>g, <2>3, <2>4, <2>5
<1>6. ASSUME NEW p \in Sessions \union Calls, OpenSucceeds(p) PROVE TypeOK'
  <2>1. on[p] \in Conns
    BY <1>6, <1>t, <1>q DEF OpenSucceeds, ProcTypes, Working
  <2>2. ProcTypes' /\ refs' \in [Conns -> Int] /\ holds' \in [Sessions -> Conns \union {None}] /\ mixed' \in BOOLEAN
    BY <1>6, <2>1, GetsTyped DEF OpenSucceeds
  <2>3. LockTypes' /\ OwnerTypes'
    BY <1>6, <1>t DEF OpenSucceeds, Gets, LockTypes, OwnerTypes
  <2> QED
    BY <1>6, <1>t, <1>g, <2>2, <2>3 DEF OpenSucceeds, ConnTypes, RestTypes
<1>7. ASSUME NEW p \in Sessions \union Calls, OpenFails(p) PROVE TypeOK'
  <2>1. p \in Procs /\ Rest(p) \in States /\ Rest(p) \notin Working
    BY <1>q DEF Rest, States, Quiet, Working
  <2>2. ProcTypes'
    BY <1>7, <1>t, <2>1, GoesTyped DEF OpenFails, Working
  <2>3. LockTypes'
    BY <1>7, <1>t DEF OpenFails, LockTypes
  <2> QED
    BY <1>7, <1>g, <1>c, <1>o, <1>r, <2>2, <2>3 DEF OpenFails
<1>8. ASSUME NEW s \in Sessions, Start(s) \/ RestartSession(s) PROVE TypeOK'
  <2>1. BeginStart(s)
    BY <1>8 DEF Start, RestartSession
  <2>2. ProcTypes'
    <3>1. \E place \in Quiet : At(s, place)
      BY <2>1 DEF BeginStart, Quiet
    <3> QED
      BY <1>t, <1>q, <2>1, <3>1, AtTyped DEF BeginStart
  <2>3. RestTypes'
    BY <1>t, <2>1, ForgetsTyped DEF BeginStart, RestTypes
  <2> QED
    BY <1>g, <1>c, <1>o, <1>l, <2>1, <2>2, <2>3 DEF BeginStart
<1>9. ASSUME NEW s \in Sessions, StartSucceeds(s) PROVE TypeOK'
  <2>1. RestTypes'
    BY <1>9, <1>t DEF StartSucceeds, RestTypes
  <2>2. ProcTypes'
    <3>1. CASE cfg = "enabled"
      <4>1. at' = [at EXCEPT ![s] = "up", ![Refresher] = IF @ = "none" THEN "asleep" ELSE @]
            /\ UNCHANGED <<on, own>>
        BY <1>9, <3>1 DEF StartSucceeds
      <4>2. at' \in [Procs -> States]
        BY <1>t, <1>q, <4>1 DEF ProcTypes, States, Quiet
      <4>3. \A p \in Procs : at'[p] \in {at[p], "up", "asleep"}
        BY <1>t, <1>q, <4>1 DEF ProcTypes
      <4> QED
        BY <1>t, <4>1, <4>2, <4>3 DEF ProcTypes, Working
    <3>2. CASE cfg # "enabled"
      <4>1. At(s, "up") /\ "up" \in Quiet
        BY <1>9, <3>2 DEF StartSucceeds, Quiet
      <4> QED
        BY <1>9, <1>t, <1>q, <4>1, AtTyped DEF StartSucceeds
    <3> QED
      BY <3>1, <3>2
  <2> QED
    BY <1>9, <1>g, <1>c, <1>o, <1>l, <2>1, <2>2 DEF StartSucceeds
<1>10. ASSUME NEW s \in Sessions, StartFails(s) PROVE TypeOK'
  <2>1. At(s, "down") /\ "down" \in Quiet
    BY <1>10 DEF StartFails, Quiet
  <2>2. ProcTypes'
    BY <1>10, <1>t, <1>q, <2>1, AtTyped DEF StartFails
  <2>3. RestTypes'
    BY <1>10, <1>t DEF StartFails, RestTypes
  <2> QED
    BY <1>10, <1>g, <1>c, <1>o, <1>l, <2>2, <2>3 DEF StartFails
<1>11. ASSUME NEW s \in Sessions, Terminate(s) PROVE TypeOK'
  <2>1. /\ holds' \in [Sessions -> Conns \union {None}] /\ mixed' \in BOOLEAN /\ kept' \in Nat
    BY <1>11, <1>t, ForgetsTyped DEF Terminate, RestTypes, MayBegin, Mixes
  <2>2. CASE ~ (cfg = "enabled" /\ s \notin Linked)
    <3>1. At(s, "down") /\ "down" \in Quiet
      BY <1>11, <2>2 DEF Terminate, Quiet
    <3>2. ProcTypes'
      BY <1>11, <1>t, <1>q, <2>2, <3>1, AtTyped DEF Terminate
    <3> QED
      BY <1>11, <1>t, <1>g, <1>l, <2>1, <2>2, <3>2 DEF Terminate, ConnTypes, OwnerTypes, RestTypes
  <2>3. CASE cfg = "enabled" /\ s \notin Linked
    <3> DEFINE Closing == conn # None /\ Left <= 0 /\ draining[conn] /\ cur[conn] # None
    <3>0. Release(s) /\ UNCHANGED <<cfg, cur, sess, phase, ready, of, lockVars, ending>> /\ count \in Nat
      BY <1>11, <1>t, <2>3 DEF Terminate, RestTypes
    <3>l. conn # None => Left \in Int
      BY <1>t DEF Left, ConnTypes
    <3>1. CASE Closing
      <4>1. /\ refs' = [refs EXCEPT ![conn] = Left] /\ told' = told \union {cur[conn]}
            /\ ReleaseRefresh(s, "closing") /\ on' = [on EXCEPT ![s] = conn] /\ own' = [own EXCEPT ![s] = cur[conn]]
            /\ UNCHANGED <<conn, draining>>
        BY <3>0, <3>1 DEF Release
      <4>2. conn \in Conns /\ cur[conn] \in Owners /\ "closing" \in States
        BY <1>t, <3>1 DEF ConnTypes, States, Working
      <4>3. ProcTypes' /\ count' \in Nat
        BY <1>t, <3>0, <4>1, <4>2, RefreshTyped
      <4>4. ConnTypes' /\ OwnerTypes'
        BY <1>t, <3>0, <3>1, <3>l, <4>1, <4>2 DEF ConnTypes, OwnerTypes
      <4> QED
        BY <1>t, <1>g, <1>l, <2>1, <3>0, <4>3, <4>4 DEF RestTypes
    <3>2. CASE ~ Closing
      <4>1. /\ \/ Popped
               \/ refs' = (IF conn = None THEN refs ELSE [refs EXCEPT ![conn] = Left]) /\ UNCHANGED <<conn, draining>>
            /\ ReleaseRefresh(s, "down") /\ UNCHANGED <<told, on, own>>
        BY <3>0, <3>2 DEF Release
      <4>2. on' = [on EXCEPT ![s] = on[s]] /\ own' = [own EXCEPT ![s] = own[s]]
            /\ on[s] \in Conns \union {None} /\ own[s] \in Owners \union {None}
            /\ "down" \in States /\ "down" \notin Working
        BY <1>t, <1>q, <4>1 DEF ProcTypes, States, Quiet, Working
      <4>3. ProcTypes' /\ count' \in Nat
        BY <1>t, <3>0, <4>1, <4>2, RefreshTyped DEF Working
      <4>4. /\ conn' \in Conns \union {None} /\ refs' \in [Conns -> Int] /\ draining' \in [Conns -> BOOLEAN]
        BY <1>t, <3>l, <4>1, PoppedTyped DEF ConnTypes
      <4>5. ConnTypes' /\ OwnerTypes'
        BY <1>t, <3>0, <4>1, <4>4 DEF ConnTypes, OwnerTypes
      <4> QED
        BY <1>t, <1>g, <1>l, <2>1, <3>0, <4>3, <4>5 DEF RestTypes
    <3> QED
      BY <3>1, <3>2
  <2> QED
    BY <2>2, <2>3
<1>12. ASSUME NEW s \in Sessions, ClosedBySession(s) PROVE TypeOK'
  <2>1. ConnTypes'
    BY <1>12, <1>t, PoppedTyped DEF ClosedBySession, ConnTypes
  <2>2. "down" \in States /\ "down" \notin Working /\ "down" \notin {"opening", "closing"}
    BY DEF States, Quiet, Working
  <2>3. ProcTypes'
    BY <1>12, <1>t, <1>q, <2>2, GoesTyped DEF ClosedBySession
  <2>4. RestTypes'
    BY <1>12, <1>t DEF ClosedBySession, RestTypes, Mixes
  <2> QED
    BY <1>12, <1>g, <1>o, <1>l, <2>1, <2>3, <2>4 DEF ClosedBySession
<1>13. ASSUME NEW end \in {"disabled", "deleted"}, Drain(end) PROVE TypeOK'
  <2>0. UNCHANGED <<cur, sess, phase, ready, of, lockVars, count, holds, kept, mixed>>
    BY <1>13 DEF Drain
  <2>1. CASE conn # None /\ refs[conn] <= 0 /\ cur[conn] # None
    <3>1. /\ draining' = [draining EXCEPT ![conn] = TRUE] /\ Closes(Config, conn) /\ ending' = end
          /\ UNCHANGED <<cfg, conn, refs>>
      BY <1>13, <2>1 DEF Drain
    <3>2. conn \in Conns /\ cur[conn] \in Owners /\ "closing" \in States
      BY <1>t, <2>1 DEF ConnTypes, States, Working
    <3>3. ProcTypes'
      BY <1>t, <1>q, <3>1, <3>2, GoesTyped DEF Closes
    <3>4. ConnTypes' /\ OwnerTypes'
      BY <1>t, <2>0, <3>1, <3>2 DEF ConnTypes, OwnerTypes, Closes
    <3> QED
      BY <1>t, <1>g, <1>l, <2>0, <3>1, <3>3, <3>4 DEF RestTypes
  <2>2. CASE ~ (conn # None /\ refs[conn] <= 0 /\ cur[conn] # None)
    <3>1. /\ \/ Popped
             \/ /\ draining' = IF conn = None THEN draining ELSE [draining EXCEPT ![conn] = TRUE]
                /\ UNCHANGED <<conn, refs>>
          /\ cfg' = end /\ UNCHANGED <<told, procVars, ending>>
      BY <1>13, <2>2 DEF Drain
    <3>2. /\ conn' \in Conns \union {None} /\ refs' \in [Conns -> Int] /\ draining' \in [Conns -> BOOLEAN]
      BY <1>t, <3>1, PoppedTyped DEF ConnTypes
    <3> QED
      BY <1>t, <1>g, <1>l, <1>p, <2>0, <3>1, <3>2 DEF ConnTypes, OwnerTypes, RestTypes
  <2> QED
    BY <2>1, <2>2
<1>14. CASE ClosedByConfig
  <2>1. ConnTypes'
    BY <1>14, <1>t, PoppedTyped DEF ClosedByConfig, ConnTypes
  <2>2. "idle" \in States /\ "idle" \notin Working /\ "idle" \notin {"opening", "closing"}
    BY DEF States, Quiet, Working
  <2>3. ProcTypes'
    BY <1>14, <1>t, <1>q, <2>2, GoesTyped DEF ClosedByConfig
  <2>4. RestTypes'
    BY <1>14, <1>t DEF ClosedByConfig, RestTypes, Mixes, EndingOK
  <2> QED
    BY <1>14, <1>g, <1>o, <1>l, <2>1, <2>3, <2>4 DEF ClosedByConfig
<1>15. CASE Enable
  BY <1>15, <1>t, <1>g, <1>c, <1>o, <1>l, <1>p DEF Enable, RestTypes
<1>16. ASSUME NEW c \in Calls, CallTool(c) PROVE TypeOK'
  <2>1. (Goes(c, "ready", conn, None) /\ conn # None) \/ Goes(c, "lock", None, None)
    BY <1>16 DEF CallTool
  <2>2. {"ready", "lock"} \subseteq States /\ "lock" \notin Working /\ conn \in Conns \union {None}
    BY <1>t DEF States, Quiet, Working, ConnTypes
  <2>3. ProcTypes'
    BY <1>t, <1>q, <2>1, <2>2, GoesTyped
  <2> QED
    BY <1>16, <1>g, <1>c, <1>o, <1>l, <1>r, <2>3 DEF CallTool
<1>17. ASSUME NEW c \in Calls, CallForwarded(c) PROVE TypeOK'
  <2>1. on[c] \in Conns /\ sess[on[c]] \in Owners \union {None}
    BY <1>17, <1>t, <1>q DEF CallForwarded, ProcTypes, ConnTypes, Working
  <2>2. Goes(c, "idle", None, None) \/ Goes(c, "calling", on[c], sess[on[c]])
    BY <1>17 DEF CallForwarded
  <2>3. {"idle", "calling"} \subseteq States /\ "idle" \notin Working
    BY DEF States, Quiet, Working
  <2>4. ProcTypes'
    BY <1>t, <1>q, <2>1, <2>2, <2>3, GoesTyped
  <2>5. LockTypes'
    BY <1>17, <1>t, <1>q DEF CallForwarded, LockTypes
  <2> QED
    BY <1>17, <1>g, <1>c, <1>o, <1>r, <2>4, <2>5 DEF CallForwarded
<1>18. ASSUME NEW c \in Calls, CallFindsClosed(c) PROVE TypeOK'
  <2>1. on[c] \in Conns /\ cur[on[c]] \in Owners
    BY <1>18, <1>t, <1>q DEF CallFindsClosed, ProcTypes, ConnTypes, Working
  <2>2. "closing" \in States
    BY DEF States, Working
  <2>3. ProcTypes'
    BY <1>18, <1>t, <1>q, <2>1, <2>2, GoesTyped DEF CallFindsClosed, Closes
  <2>4. OwnerTypes'
    BY <1>18, <1>t, <2>1 DEF CallFindsClosed, Closes, OwnerTypes
  <2> QED
    BY <1>18, <1>g, <1>c, <1>l, <1>r, <2>3, <2>4 DEF CallFindsClosed
<1>19. ASSUME NEW c \in Calls, CallEnds(c) \/ CallDisconnected(c) PROVE TypeOK'
  <2>1. "idle" \in States /\ "idle" \notin Working /\ "idle" \notin {"opening", "closing"}
    BY DEF States, Quiet, Working
  <2>2. ProcTypes'
    BY <1>19, <1>t, <1>q, <2>1, GoesTyped DEF CallEnds, CallDisconnected
  <2>3. LockTypes'
    BY <1>19, <1>t DEF CallEnds, CallDisconnected, Unlocked, LockTypes
  <2>4. ConnTypes'
    BY <1>19, <1>t, <1>c DEF CallEnds, CallDisconnected, ConnTypes
  <2> QED
    BY <1>19, <1>g, <1>o, <1>r, <2>2, <2>3, <2>4 DEF CallEnds, CallDisconnected
<1>20. CASE TokenNotRefreshed
  <2>1. At(Refresher, "ended") /\ "ended" \in Quiet
    BY <1>20 DEF TokenNotRefreshed, Quiet
  <2>2. ProcTypes'
    BY <1>20, <1>t, <1>q, <2>1, AtTyped DEF TokenNotRefreshed
  <2> QED
    BY <1>20, <1>g, <1>c, <1>o, <1>l, <1>r, <2>2 DEF TokenNotRefreshed
<1>21. CASE UNCHANGED sharedVars
  BY <1>21, <1>g, <1>c, <1>o, <1>l, <1>p, <1>r DEF sharedVars
<1> QED
  BY <1>1, <1>2, <1>3, <1>4, <1>5, <1>6, <1>7, <1>8, <1>9, <1>10, <1>11, <1>12, <1>13, <1>14,
     <1>15, <1>16, <1>17, <1>18, <1>19, <1>20, <1>21
  DEF Next, Owner, OwnerFails, OwnerCloses, OwnerCancelled, Gettings, Opening, Calling
-----------------------------------------------------------------------------
(* Whose client a connection has.                                          *)

\* Every step leaves a connection the client of its own open owner, or none.
LEMMA ClientNext == TypeOK /\ ClientIsOpen /\ [Next]_sharedVars => ClientIsOpen'
<1> SUFFICES ASSUME TypeOK, ClientIsOpen, [Next]_sharedVars PROVE ClientIsOpen'
  OBVIOUS
<1> USE NoneAssumption
<1>t. /\ cur \in [Conns -> Owners \union {None}] /\ sess \in [Conns -> Owners \union {None}]
      /\ phase \in [Owners -> {"opening", "open", "gone"}] /\ of \in [Owners -> Conns]
      /\ conn \in Conns \union {None}
  BY DEF TypeOK
<1>0. ASSUME UNCHANGED <<cur, sess, phase, of>> PROVE ClientIsOpen'
  BY <1>0 DEF ClientIsOpen
<1>1. ASSUME NEW o \in Owners, OwnerOpens(o) PROVE ClientIsOpen'
  BY <1>1, <1>t DEF OwnerOpens, ClientIsOpen
<1>2. ASSUME NEW o \in Owners, OwnerEnds(o) PROVE ClientIsOpen'
  <2>1. of[o] \in Conns /\ phase' = [phase EXCEPT ![o] = "gone"] /\ of' = of
    BY <1>2, <1>t DEF OwnerEnds
  <2> SUFFICES ASSUME NEW k \in Conns, sess'[k] # None
               PROVE  phase'[sess'[k]] = "open" /\ of[sess'[k]] = k /\ cur'[k] = sess'[k]
    BY <2>1 DEF ClientIsOpen
  <2>2. sess'[k] = sess[k] /\ cur'[k] = cur[k] /\ (k = of[o] => cur[k] # o)
    BY <1>2, <1>t, <2>1 DEF OwnerEnds, ForgetOwner
  <2>3. sess[k] # o
    BY <2>1, <2>2 DEF ClientIsOpen
  <2> QED
    BY <1>t, <2>1, <2>2, <2>3 DEF ClientIsOpen
<1>3. ASSUME NEW p, NEW k \in Conns, NEW o \in Owners, Opens(p, k, o),
             sess' \in {sess, [sess EXCEPT ![k] = None]}, sess'[k] = None
      PROVE  ClientIsOpen'
  <2>1. /\ FreshOwner(o) /\ phase' = [phase EXCEPT ![o] = "opening"] /\ of' = [of EXCEPT ![o] = k]
        /\ cur' = [cur EXCEPT ![k] = o]
    BY <1>3 DEF Opens
  <2> SUFFICES ASSUME NEW q \in Conns, sess'[q] # None
               PROVE  phase'[sess'[q]] = "open" /\ of'[sess'[q]] = q /\ cur'[q] = sess'[q]
    BY DEF ClientIsOpen
  <2>2. q # k /\ sess'[q] = sess[q]
    BY <1>3, <1>t
  <2>3. sess[q] # o
    BY <2>1, <2>2 DEF FreshOwner, ClientIsOpen
  <2> QED
    BY <1>t, <2>1, <2>2, <2>3 DEF ClientIsOpen
<1>4. ASSUME NEW p, FindsClosed(p) PROVE ClientIsOpen'
  <2>1. PICK o \in Owners : Opens(p, conn, o)
    BY <1>4 DEF FindsClosed
  <2> QED
    BY <1>3, <1>4, <1>t, <2>1 DEF FindsClosed
<1>5. ASSUME NEW p, FindsNone(p) PROVE ClientIsOpen'
  <2>1. PICK k \in Conns, o \in Owners : sess' = [sess EXCEPT ![k] = None] /\ Opens(p, k, o)
    BY <1>5 DEF FindsNone
  <2>2. sess'[k] = None
    BY <1>t, <2>1
  <2> QED
    BY <1>3, <2>1, <2>2
<1>6. ASSUME NEW c, CallDisconnected(c) PROVE ClientIsOpen'
  BY <1>6, <1>t DEF CallDisconnected, ClientIsOpen, ownerVars
<1>7. ASSUME NEW p, FindsOpen(p) \/ OpenSucceeds(p) \/ OpenFails(p) PROVE ClientIsOpen'
  BY <1>0, <1>7 DEF FindsOpen, OpenSucceeds, OpenFails, connVars, ownerVars
<1>8. ASSUME NEW s, Start(s) \/ RestartSession(s) \/ StartSucceeds(s) \/ StartFails(s) \/ Terminate(s)
                    \/ ClosedBySession(s)
      PROVE  ClientIsOpen'
  BY <1>0, <1>8 DEF Start, RestartSession, BeginStart, StartSucceeds, StartFails, Terminate,
     ClosedBySession, connVars, ownerVars
<1>9. ASSUME NEW end, Drain(end) \/ ClosedByConfig \/ Enable PROVE ClientIsOpen'
  BY <1>0, <1>9 DEF Drain, ClosedByConfig, Enable, connVars, ownerVars
<1>10. ASSUME NEW c, CallTool(c) \/ CallForwarded(c) \/ CallFindsClosed(c) \/ CallEnds(c) PROVE ClientIsOpen'
  BY <1>0, <1>10 DEF CallTool, CallForwarded, CallFindsClosed, CallEnds, connVars, ownerVars
<1>11. CASE TokenNotRefreshed \/ UNCHANGED sharedVars
  BY <1>0, <1>11 DEF TokenNotRefreshed, sharedVars, connVars, ownerVars
<1> QED
  BY <1>1, <1>2, <1>4, <1>5, <1>6, <1>7, <1>8, <1>9, <1>10, <1>11
  DEF Next, Owner, OwnerFails, OwnerCloses, OwnerCancelled, Gettings, Opening, Calling

-----------------------------------------------------------------------------
(* When the token is refreshed.                                            *)

\* Every step that takes the last reference cancels the task, and only it.
LEMMA RefresherNext == TypeOK /\ RefreshedWhileUsed /\ [Next]_sharedVars => RefreshedWhileUsed'
<1> SUFFICES ASSUME TypeOK, RefreshedWhileUsed, [Next]_sharedVars PROVE RefreshedWhileUsed'
  OBVIOUS
<1>t. at \in [Procs -> Quiet \union Working] /\ count \in Nat
  BY DEF TypeOK
<1>c. Config # Refresher
  BY DEF Config, Refresher
<1>q. /\ \A p \in Sessions \union Calls \union {Config} : p # Refresher
      /\ Refresher \in Procs
  BY <1>c, ProcsAssumption DEF Procs
<1>0. ASSUME count' = count, at'[Refresher] = at[Refresher] PROVE RefreshedWhileUsed'
  BY <1>0 DEF RefreshedWhileUsed
<1>1. ASSUME NEW p \in Sessions \union Calls \union {Config}, NEW place, NEW k, NEW o,
             Goes(p, place, k, o), count' = count
      PROVE  RefreshedWhileUsed'
  BY <1>0, <1>1, <1>t, <1>q DEF Goes
<1>2. ASSUME NEW p \in Sessions, NEW place, At(p, place), count' = count PROVE RefreshedWhileUsed'
  BY <1>0, <1>2, <1>t, <1>q DEF At
<1>3. ASSUME NEW s \in Sessions, NEW place, ReleaseRefresh(s, place) PROVE RefreshedWhileUsed'
  <2>1. at'[Refresher] = IF count <= 1 THEN "none" ELSE at[Refresher]
    BY <1>3, <1>t, <1>q DEF ReleaseRefresh
  <2>2. count' = IF count <= 1 THEN 0 ELSE count - 1
    BY <1>3 DEF ReleaseRefresh
  <2> QED
    BY <1>t, <2>1, <2>2 DEF RefreshedWhileUsed
<1>4. ASSUME NEW s \in Sessions, StartSucceeds(s) PROVE RefreshedWhileUsed'
  <2>1. CASE cfg = "enabled"
    <3>1. count' = count + 1
          /\ at' = [at EXCEPT ![s] = "up", ![Refresher] = IF @ = "none" THEN "asleep" ELSE @]
      BY <1>4, <2>1 DEF StartSucceeds
    <3>2. at'[Refresher] # "none"
      BY <1>t, <1>q, <3>1
    <3> QED
      BY <1>t, <3>1, <3>2 DEF RefreshedWhileUsed
  <2>2. CASE cfg # "enabled"
    BY <1>2, <1>4, <2>2 DEF StartSucceeds
  <2> QED
    BY <2>1, <2>2
<1>5. ASSUME NEW s \in Sessions, Terminate(s) PROVE RefreshedWhileUsed'
  <2>1. CASE cfg = "enabled" /\ s \notin Linked
    BY <1>3, <1>5, <2>1 DEF Terminate, Release
  <2>2. CASE ~ (cfg = "enabled" /\ s \notin Linked)
    BY <1>2, <1>5, <2>2 DEF Terminate
  <2> QED
    BY <2>1, <2>2
<1>6. ASSUME NEW o, Owner(o) PROVE RefreshedWhileUsed'
  BY <1>0, <1>6 DEF Owner, OwnerOpens, OwnerFails, OwnerCloses, OwnerCancelled, OwnerEnds, procVars
<1>7. ASSUME NEW p \in Sessions \union Calls, Gettings(p) \/ Opening(p) PROVE RefreshedWhileUsed'
  BY <1>1, <1>7 DEF Gettings, Opening, FindsOpen, FindsClosed, FindsNone, OpenSucceeds, OpenFails, Gets, Opens
<1>8. ASSUME NEW s \in Sessions, Start(s) \/ RestartSession(s) \/ StartFails(s) \/ ClosedBySession(s)
      PROVE  RefreshedWhileUsed'
  BY <1>1, <1>2, <1>8 DEF Start, RestartSession, StartFails, BeginStart, ClosedBySession
<1>9. ASSUME NEW end, Drain(end) \/ ClosedByConfig \/ Enable PROVE RefreshedWhileUsed'
  BY <1>0, <1>1, <1>9 DEF Drain, Closes, ClosedByConfig, Enable, procVars
<1>10. ASSUME NEW c \in Calls, CallTool(c) \/ CallForwarded(c) \/ CallFindsClosed(c) \/ CallEnds(c) \/ CallDisconnected(c)
       PROVE  RefreshedWhileUsed'
  BY <1>1, <1>10 DEF CallTool, CallForwarded, CallFindsClosed, Closes, CallEnds, CallDisconnected
<1>11. CASE TokenNotRefreshed
  BY <1>11, <1>t, <1>q DEF TokenNotRefreshed, At, RefreshedWhileUsed
<1>12. CASE UNCHANGED sharedVars
  BY <1>0, <1>12 DEF sharedVars, procVars
<1> QED
  BY <1>4, <1>5, <1>6, <1>7, <1>8, <1>9, <1>10, <1>11, <1>12 DEF Next, Calling

\* Who begins to close says how the change ends.
LEMMA EndingNext == TypeOK /\ EndingOK /\ [Next]_sharedVars => EndingOK'
<1> SUFFICES ASSUME TypeOK, EndingOK, [Next]_sharedVars PROVE EndingOK'
  OBVIOUS
<1>t. at \in [Procs -> Quiet \union Working]
  BY DEF TypeOK
<1>q. /\ \A p \in Sessions \union Calls \union {Refresher} : p # Config
      /\ Config \in Procs
  BY ProcsAssumption DEF Procs, Config, Refresher
<1>0. ASSUME ending' = ending, at'[Config] = at[Config] PROVE EndingOK'
  BY <1>0 DEF EndingOK
<1>1. ASSUME NEW p \in Sessions \union Calls, NEW place, NEW k, NEW o, Goes(p, place, k, o), ending' = ending
      PROVE  EndingOK'
  BY <1>0, <1>1, <1>t, <1>q DEF Goes
<1>2. ASSUME NEW p \in Sessions \union {Refresher}, NEW place, At(p, place), ending' = ending PROVE EndingOK'
  BY <1>0, <1>2, <1>t, <1>q DEF At
<1>3. ASSUME NEW s \in Sessions, NEW place, ReleaseRefresh(s, place), ending' = ending PROVE EndingOK'
  BY <1>0, <1>3, <1>t, <1>q DEF ReleaseRefresh
<1>4. ASSUME NEW s \in Sessions, StartSucceeds(s) PROVE EndingOK'
  <2>1. CASE cfg = "enabled"
    BY <1>0, <1>4, <1>t, <1>q, <2>1 DEF StartSucceeds
  <2>2. CASE cfg # "enabled"
    BY <1>2, <1>4, <2>2 DEF StartSucceeds
  <2> QED
    BY <2>1, <2>2
<1>5. ASSUME NEW s \in Sessions, Terminate(s) PROVE EndingOK'
  BY <1>2, <1>3, <1>5 DEF Terminate, Release
<1>6. ASSUME NEW o, Owner(o) PROVE EndingOK'
  BY <1>0, <1>6 DEF Owner, OwnerOpens, OwnerFails, OwnerCloses, OwnerCancelled, OwnerEnds, procVars
<1>7. ASSUME NEW p \in Sessions \union Calls, Gettings(p) \/ Opening(p) PROVE EndingOK'
  BY <1>1, <1>7 DEF Gettings, Opening, FindsOpen, FindsClosed, FindsNone, OpenSucceeds, OpenFails, Gets, Opens
<1>8. ASSUME NEW s \in Sessions, Start(s) \/ RestartSession(s) \/ StartFails(s) \/ ClosedBySession(s)
      PROVE  EndingOK'
  BY <1>1, <1>2, <1>8 DEF Start, RestartSession, StartFails, BeginStart, ClosedBySession
<1>9. ASSUME NEW end \in {"disabled", "deleted"}, Drain(end) PROVE EndingOK'
  <2>1. at'[Config] = "closing" => ending' = end
    BY <1>9, <1>t, <1>q DEF Drain, Closes, Goes, procVars
  <2> QED
    BY <2>1 DEF EndingOK
<1>10. CASE ClosedByConfig \/ Enable
  BY <1>10, <1>t, <1>q DEF ClosedByConfig, Enable, Goes, EndingOK, procVars
<1>11. ASSUME NEW c \in Calls, CallTool(c) \/ CallForwarded(c) \/ CallFindsClosed(c) \/ CallEnds(c) \/ CallDisconnected(c)
       PROVE  EndingOK'
  BY <1>1, <1>11 DEF CallTool, CallForwarded, CallFindsClosed, Closes, CallEnds, CallDisconnected
<1>12. CASE TokenNotRefreshed \/ UNCHANGED sharedVars
  BY <1>0, <1>2, <1>12 DEF TokenNotRefreshed, sharedVars, procVars
<1> QED
  BY <1>4, <1>5, <1>6, <1>7, <1>8, <1>9, <1>10, <1>11, <1>12 DEF Next, Calling
-----------------------------------------------------------------------------
(* The references.                                                         *)

\* The sessions that have a reference.
Users == {s \in Sessions : Using(s)}
\* Who waits for a connection has none yet.
Waiting == \A s \in Sessions : at[s] \in {"lock", "opening"} => holds[s] = None
\* Who tells an owner to close and then empties the table.  What they close, as
\* long as it is still in the table, is drained and unused.
Closers == Sessions \union {Config}
ClosersOK ==
  ~ mixed => \A p \in Closers : at[p] = "closing" /\ conn # None /\ on[p] = conn
                                  => draining[conn] /\ Users = {}
\* That the references count the sessions, made inductive.
CountsOK == IsFiniteSet(Users) /\ Waiting /\ ClosersOK /\ RefsCountSessions

\* As long as nothing upset the counts, users and references agree.
LEMMA UsersCounted ==
  ASSUME ~ mixed, RefsCountSessions
  PROVE  /\ \A s \in Users : holds[s] = conn /\ conn # None
         /\ conn = None => Users = {}
         /\ conn # None => refs[conn] = Cardinality(Users) + kept
BY DEF RefsCountSessions, Users, Using

\* Without a reference nobody uses it.
LEMMA NoUsers == ASSUME IsFiniteSet(Users) PROVE Cardinality(Users) <= 0 => Users = {}
BY FS_CardinalityType, FS_EmptySet

\* A step that leaves the references alone, and lets nobody begin to wait or to
\* close, keeps the counts;
LEMMA CountsStay ==
  ASSUME CountsOK, UNCHANGED <<conn, refs, draining, holds, kept>>, mixed => mixed',
         \A s \in Sessions : at'[s] \in {"lock", "opening"} => at[s] \in {"lock", "opening"},
         \A p \in Closers : at'[p] = "closing" => at[p] = "closing" /\ on'[p] = on[p]
  PROVE  CountsOK'
<1>1. Users' = Users
  BY DEF Users, Using
<1>2. Waiting' /\ ClosersOK' /\ RefsCountSessions'
  BY <1>1 DEF CountsOK, Waiting, ClosersOK, RefsCountSessions, Using, Users
<1> QED
  BY <1>1, <1>2 DEF CountsOK

\* so does a process that only goes on;
LEMMA MovesStay ==
  ASSUME CountsOK, TypeOK, UNCHANGED <<conn, refs, draining, holds, kept>>, mixed => mixed',
         NEW p \in Procs, NEW place, NEW k, NEW o, Goes(p, place, k, o),
         p \in Sessions => (place \in {"lock", "opening"} => at[p] \in {"lock", "opening"}),
         p \in Closers => place # "closing"
  PROVE  CountsOK'
<1>1. at \in [Procs -> Quiet \union Working] /\ on \in [Procs -> Conns \union {None}] /\ Sessions \subseteq Procs
      /\ Closers \subseteq Procs
  BY DEF TypeOK, Procs, Closers
<1>2. /\ \A q \in Procs : at'[q] = IF q = p THEN place ELSE at[q]
      /\ \A q \in Procs : q # p => on'[q] = on[q]
  BY <1>1 DEF Goes
<1>3. \A s \in Sessions : at'[s] \in {"lock", "opening"} => at[s] \in {"lock", "opening"}
  BY <1>1, <1>2
<1>4. \A q \in Closers : at'[q] = "closing" => at[q] = "closing" /\ on'[q] = on[q]
  BY <1>1, <1>2
<1> QED
  BY <1>3, <1>4, CountsStay

\* one that gets its connection is counted if it is a session;
LEMMA GetsCounts ==
  ASSUME TypeOK, CountsOK, NEW p \in Sessions \union Calls, NEW k \in Conns, Gets(p, k),
         at[p] \in {"lock", "opening"}, UNCHANGED <<conn, draining, kept>>
  PROVE  CountsOK'
<1>t. /\ at \in [Procs -> Quiet \union Working] /\ on \in [Procs -> Conns \union {None}]
      /\ refs \in [Conns -> Int] /\ draining \in [Conns -> BOOLEAN]
      /\ holds \in [Sessions -> Conns \union {None}] /\ mixed \in BOOLEAN
      /\ Sessions \subseteq Procs /\ Closers \subseteq Procs /\ kept \in Nat
  BY DEF TypeOK, Procs, Closers
<1>q. \A c \in Calls : c \notin Closers
  BY ProcsAssumption DEF Closers
<1>1. CASE p \notin Sessions
  <2>1. p \in Calls /\ p \notin Closers /\ p \in Procs
    BY <1>1, <1>q DEF Procs
  <2>2. Goes(p, "ready", k, None) /\ UNCHANGED <<refs, holds, mixed>>
    BY <1>1 DEF Gets
  <2> QED
    BY <1>1, <2>1, <2>2, MovesStay
<1>2. CASE p \in Sessions
  <2>1. /\ refs' = [refs EXCEPT ![k] = @ + 1] /\ holds' = [holds EXCEPT ![p] = k]
        /\ Goes(p, "attached", None, None) /\ mixed' = (mixed \/ draining[k] \/ conn # k)
    BY <1>2 DEF Gets, Mixes
  <2>2. holds[p] = None /\ p \notin Users /\ k # None
    BY <1>2, NoneAssumption DEF CountsOK, Waiting, Users, Using
  <2>3. Users' = Users \union {p}
    BY <1>2, <1>t, <2>1, <2>2 DEF Users, Using
  <2>4. IsFiniteSet(Users') /\ Cardinality(Users') = Cardinality(Users) + 1 /\ Cardinality(Users) \in Nat
    BY <2>2, <2>3, FS_AddElement, FS_CardinalityType DEF CountsOK
  <2>5. /\ \A s \in Sessions : at'[s] \in {"lock", "opening"} => s # p /\ at[s] \in {"lock", "opening"}
        /\ \A q \in Closers : at'[q] = "closing" => at[q] = "closing" /\ on'[q] = on[q]
    BY <1>2, <1>t, <2>1 DEF Goes
  <2>6. Waiting'
    BY <1>t, <2>1, <2>5 DEF CountsOK, Waiting
  <2>7. ASSUME ~ mixed' PROVE ~ mixed /\ k = conn /\ ~ draining[conn]
    BY <2>1, <2>7
  <2>8. ClosersOK'
    BY <2>5, <2>7 DEF CountsOK, ClosersOK
  <2>9. RefsCountSessions'
    <3> SUFFICES ASSUME ~ mixed'
                 PROVE  /\ \A s \in Sessions : holds'[s] # None => holds'[s] = conn
                        /\ conn # None => refs'[conn] = Cardinality(Users') + kept
      BY DEF RefsCountSessions, Using, Users
    <3>1. /\ \A s \in Sessions : Using(s) => holds[s] = conn
          /\ refs[conn] = Cardinality(Users) + kept
      BY <2>2, <2>7 DEF CountsOK, RefsCountSessions, Users
    <3>2. \A s \in Sessions : holds'[s] # None => holds'[s] = conn
      BY <1>t, <2>1, <2>7, <3>1 DEF Using
    <3>3. refs'[conn] = refs[conn] + 1
      BY <1>t, <2>1, <2>7
    <3> QED
      BY <1>t, <2>4, <3>1, <3>2, <3>3
  <2> QED
    BY <2>4, <2>6, <2>8, <2>9 DEF CountsOK
<1> QED
  BY <1>1, <1>2

\* a session that gives its reference back is no user any more;
LEMMA LetsGo ==
  ASSUME CountsOK, TypeOK, NEW s \in Sessions, holds' = [holds EXCEPT ![s] = None]
  PROVE  /\ Users' = Users \ {s} /\ IsFiniteSet(Users')
         /\ Cardinality(Users') = IF s \in Users THEN Cardinality(Users) - 1 ELSE Cardinality(Users)
         /\ s \notin Users => holds' = holds
<1>1. holds \in [Sessions -> Conns \union {None}]
  BY DEF TypeOK
<1>2. Users' = Users \ {s}
  BY <1>1 DEF Users, Using
<1>3. s \notin Users => holds' = holds
  BY <1>1 DEF Users, Using
<1> QED
  BY <1>2, <1>3, FS_RemoveElement DEF CountsOK

\* one that forgets it leaves the reference behind;
LEMMA ForgetsCounts ==
  ASSUME TypeOK, CountsOK, NEW s \in Sessions, Forgets(s), UNCHANGED <<conn, refs, draining, on, mixed>>,
         \A q \in Sessions \ {s} : at'[q] \in {"lock", "opening"} => at[q] \in {"lock", "opening"},
         \A q \in Closers : at'[q] = "closing" => at[q] = "closing"
  PROVE  CountsOK'
<1>t. holds \in [Sessions -> Conns \union {None}] /\ kept \in Nat
  BY DEF TypeOK
<1>h. holds' = [holds EXCEPT ![s] = None] /\ kept' = IF s \in Users THEN kept + 1 ELSE kept
  BY DEF Forgets, Users
<1>u. /\ Users' = Users \ {s} /\ IsFiniteSet(Users')
      /\ Cardinality(Users') = IF s \in Users THEN Cardinality(Users) - 1 ELSE Cardinality(Users)
      /\ Cardinality(Users) \in Nat
  BY <1>h, LetsGo, FS_CardinalityType DEF CountsOK
<1>1. Waiting'
  <2> SUFFICES ASSUME NEW q \in Sessions, at'[q] \in {"lock", "opening"} PROVE holds'[q] = None
    BY DEF Waiting
  <2>1. CASE q = s
    BY <1>t, <1>h, <2>1
  <2>2. CASE q # s
    BY <1>t, <1>h, <2>2 DEF CountsOK, Waiting
  <2> QED
    BY <2>1, <2>2
<1>2. ClosersOK'
  BY <1>u DEF CountsOK, ClosersOK
<1>3. RefsCountSessions'
  <2> SUFFICES ASSUME ~ mixed
               PROVE  /\ \A q \in Sessions : holds'[q] # None => holds'[q] = conn
                      /\ conn # None => refs[conn] = Cardinality(Users') + kept'
    BY DEF RefsCountSessions, Users, Using
  <2>1. /\ \A q \in Sessions : holds[q] # None => holds[q] = conn
        /\ conn # None => refs[conn] = Cardinality(Users) + kept
    BY DEF CountsOK, RefsCountSessions, Users, Using
  <2>2. \A q \in Sessions : holds'[q] # None => holds'[q] = conn
    BY <1>t, <1>h, <2>1
  <2>3. Cardinality(Users') + kept' = Cardinality(Users) + kept
    BY <1>t, <1>h, <1>u
  <2> QED
    BY <2>1, <2>2, <2>3
<1> QED
  BY <1>u, <1>1, <1>2, <1>3 DEF CountsOK

\* and the termination of a session, which may close the connection, counts it out.
LEMMA TerminateCounts ==
  ASSUME TypeOK, CountsOK, NEW s \in Sessions, Terminate(s)
  PROVE  CountsOK'
<1>t. /\ at \in [Procs -> Quiet \union Working] /\ on \in [Procs -> Conns \union {None}]
      /\ refs \in [Conns -> Int] /\ draining \in [Conns -> BOOLEAN] /\ conn \in Conns \union {None}
      /\ mixed \in BOOLEAN /\ Sessions \subseteq Procs /\ Closers \subseteq Procs
      /\ holds \in [Sessions -> Conns \union {None}] /\ kept \in Nat
  BY DEF TypeOK, Procs, Closers
<1>q. Refresher \notin Closers /\ s \in Procs /\ Refresher \in Procs /\ s # Refresher
  <2>1. Config # Refresher
    BY DEF Config, Refresher
  <2> QED
    BY <2>1, ProcsAssumption DEF Closers, Procs
<1>h. holds' = [holds EXCEPT ![s] = None]
  BY DEF Terminate, Forgets
<1>u. /\ Users' = Users \ {s} /\ IsFiniteSet(Users')
      /\ Cardinality(Users') = IF s \in Users THEN Cardinality(Users) - 1 ELSE Cardinality(Users)
      /\ s \notin Users => holds' = holds
  BY <1>h, LetsGo
<1>a. \A place : \A q \in Procs : ReleaseRefresh(s, place) \/ At(s, place) =>
         at'[q] = IF q = s THEN place ELSE IF q = Refresher THEN at'[q] ELSE at[q]
  BY <1>t, <1>q DEF ReleaseRefresh, At
<1>p. ASSUME NEW place \in {"down", "closing"}, ReleaseRefresh(s, place) \/ At(s, place)
      PROVE  /\ \A q \in Sessions : at'[q] \in {"lock", "opening"} => q # s /\ at[q] \in {"lock", "opening"}
             /\ \A q \in Closers : at'[q] = "closing" => (q = s /\ place = "closing") \/ (q # s /\ at[q] = "closing")
  <2>1. \A q \in Closers : at'[q] = IF q = s THEN place ELSE at[q]
    BY <1>a, <1>p, <1>q, <1>t
  <2> QED
    BY <2>1 DEF Closers
<1>w. ASSUME NEW place \in {"down", "closing"}, ReleaseRefresh(s, place) \/ At(s, place) PROVE Waiting'
  BY <1>h, <1>p, <1>t, <1>w DEF CountsOK, Waiting
<1>1. CASE ~ (cfg = "enabled" /\ s \notin Linked)
  <2>1. Forgets(s) /\ At(s, "down") /\ UNCHANGED <<conn, refs, draining, on, mixed>>
    BY <1>1 DEF Terminate
  <2>2. /\ \A q \in Sessions \ {s} : at'[q] \in {"lock", "opening"} => at[q] \in {"lock", "opening"}
        /\ \A q \in Closers : at'[q] = "closing" => at[q] = "closing"
    BY <1>p, <2>1
  <2> QED
    BY <2>1, <2>2, ForgetsCounts
<1>2. CASE cfg = "enabled" /\ s \notin Linked
  <2>k. kept' = kept
    BY <1>2 DEF Terminate
  <2>n. ASSUME ~ mixed' PROVE ~ mixed /\ s \in Users
    BY <1>2, <1>t, <2>n DEF Terminate, MayBegin, Mixes, Users
  <2> DEFINE Closing == conn # None /\ Left <= 0 /\ draining[conn] /\ cur[conn] # None
  <2>0. Release(s)
    BY <1>2 DEF Terminate
  <2>m. ASSUME ~ mixed'
        PROVE  /\ ~ mixed /\ conn \in Conns /\ Left = Cardinality(Users') + kept
               /\ Cardinality(Users') \in Nat /\ \A q \in Users' : holds'[q] = conn
    <3>1. ~ mixed /\ s \in Users
      BY <2>m, <2>n
    <3>2. conn \in Conns /\ refs[conn] = Cardinality(Users) + kept /\ \A q \in Users : holds[q] = conn
      BY <1>t, <3>1, UsersCounted DEF CountsOK
    <3>3. Left = refs[conn] - 1
      BY <3>2, NoneAssumption DEF Left
    <3>4. Cardinality(Users') \in Nat /\ Cardinality(Users) \in Nat
      BY <1>u, FS_CardinalityType DEF CountsOK
    <3>5. \A q \in Users' : holds'[q] = conn
      BY <1>h, <1>t, <1>u, <3>2 DEF Users
    <3> QED
      BY <1>t, <1>u, <3>1, <3>2, <3>3, <3>4, <3>5
  <2>r. (~ mixed' /\ conn' = conn /\ refs'[conn] = Left) => RefsCountSessions'
    BY <2>k, <2>m DEF RefsCountSessions, Users, Using
  <2>1. CASE Closing
    <3>1. /\ refs' = [refs EXCEPT ![conn] = Left] /\ ReleaseRefresh(s, "closing")
          /\ UNCHANGED <<conn, draining>> /\ on' = [on EXCEPT ![s] = conn]
      BY <2>0, <2>1 DEF Release
    <3>2. Waiting' /\ \A q \in Closers : q # s => (at'[q] = "closing" => at[q] = "closing" /\ on'[q] = on[q])
      BY <1>p, <1>q, <1>t, <1>w, <3>1
    <3>3. ASSUME ~ mixed' PROVE Users' = {} /\ refs'[conn] = Left
      <4>1. Cardinality(Users') <= 0
        BY <1>t, <2>1, <2>m, <3>3
      <4>2. Users' = {}
        BY <1>u, <4>1, FS_CardinalityType, FS_EmptySet
      <4> QED
        BY <1>t, <2>m, <3>1, <3>3, <4>2
    <3>4. ClosersOK'
      BY <2>1, <3>1, <3>3 DEF ClosersOK
    <3>5. RefsCountSessions'
      <4>1. CASE mixed'
        BY <4>1 DEF RefsCountSessions
      <4> QED
        BY <2>r, <3>1, <3>3, <4>1
    <3> QED
      BY <1>u, <3>2, <3>4, <3>5 DEF CountsOK
  <2>2. CASE ~ Closing
    <3>1. /\ ReleaseRefresh(s, "down") /\ on' = on
          /\ \/ conn # None /\ Left <= 0 /\ draining[conn] /\ Popped
             \/ /\ refs' = IF conn = None THEN refs ELSE [refs EXCEPT ![conn] = Left]
                /\ UNCHANGED <<conn, draining>>
      BY <2>0, <2>2 DEF Release
    <3>2. Waiting' /\ \A q \in Closers : at'[q] = "closing" => at[q] = "closing" /\ on'[q] = on[q]
      BY <1>p, <1>w, <3>1
    <3>3. CASE conn # None /\ Left <= 0 /\ draining[conn] /\ Popped
      <4>1. conn' = None
        BY <3>3 DEF Popped
      <4>2. ASSUME ~ mixed' PROVE Users' = {}
        <5>1. Cardinality(Users') <= 0
          BY <1>t, <2>m, <3>3, <4>2
        <5> QED
          BY <1>u, <5>1, FS_CardinalityType, FS_EmptySet
      <4>3. ClosersOK' /\ RefsCountSessions'
        BY <4>1, <4>2 DEF ClosersOK, RefsCountSessions, Users, Using
      <4> QED
        BY <1>u, <3>2, <4>3 DEF CountsOK
    <3>4. CASE refs' = (IF conn = None THEN refs ELSE [refs EXCEPT ![conn] = Left]) /\ UNCHANGED <<conn, draining>>
      <4>1. RefsCountSessions'
        <5>1. CASE mixed'
          BY <5>1 DEF RefsCountSessions
        <5>2. CASE ~ mixed'
          <6>1. conn \in Conns /\ conn # None
            BY <2>m, <5>2, NoneAssumption
          <6>2. refs'[conn] = Left
            BY <1>t, <3>4, <6>1
          <6> QED
            BY <2>r, <3>4, <5>2, <6>2
        <5> QED
          BY <5>1, <5>2
      <4>2. ClosersOK'
        BY <1>u, <2>n, <3>2, <3>4 DEF CountsOK, ClosersOK
      <4> QED
        BY <1>u, <3>2, <4>1, <4>2 DEF CountsOK
    <3> QED
      BY <3>1, <3>3, <3>4
  <2> QED
    BY <2>1, <2>2
<1> QED
  BY <1>1, <1>2

\* A connection without users is taken from the table.
LEMMA PoppedCounts ==
  ASSUME TypeOK, CountsOK, Popped, ~ mixed' => ~ mixed /\ (conn # None => Users = {}),
         holds' = holds,
         \A s \in Sessions : at'[s] \in {"lock", "opening"} => at[s] \in {"lock", "opening"}
  PROVE  CountsOK'
<1>1. conn' = None /\ Users' = Users
  BY DEF Popped, Users, Using
<1>2. Waiting'
  BY DEF CountsOK, Waiting
<1>3. ClosersOK'
  BY <1>1 DEF ClosersOK
<1>4. ASSUME ~ mixed' PROVE Users = {}
  BY <1>4, UsersCounted DEF CountsOK
<1>5. RefsCountSessions'
  BY <1>1, <1>4 DEF RefsCountSessions, Users, Using
<1> QED
  BY <1>1, <1>2, <1>3, <1>5 DEF CountsOK

\* Every step keeps the counts.
LEMMA CountsNext == TypeOK /\ CountsOK /\ [Next]_sharedVars => CountsOK'
<1> SUFFICES ASSUME TypeOK, CountsOK, [Next]_sharedVars PROVE CountsOK'
  OBVIOUS
<1> USE NoneAssumption
<1>t. /\ at \in [Procs -> Quiet \union Working] /\ on \in [Procs -> Conns \union {None}]
      /\ refs \in [Conns -> Int] /\ draining \in [Conns -> BOOLEAN] /\ conn \in Conns \union {None}
      /\ mixed \in BOOLEAN /\ Sessions \subseteq Procs /\ Closers \subseteq Procs /\ Config \in Closers
      /\ holds \in [Sessions -> Conns \union {None}] /\ kept \in Nat
      /\ \A p \in Procs : at[p] \in Working => on[p] \in Conns
  BY DEF TypeOK, Procs, Closers
<1>c. Config # Refresher
  BY DEF Config, Refresher
<1>q. /\ \A s \in Sessions : s \in Procs /\ s # Refresher /\ s # Config
      /\ \A c \in Calls : c \in Procs /\ c \notin Closers /\ c \notin Sessions
      /\ Refresher \in Procs /\ Refresher \notin Closers /\ Refresher \notin Sessions
      /\ Config \in Procs /\ Config \notin Sessions
  BY <1>c, ProcsAssumption DEF Procs, Closers
<1>0. ASSUME UNCHANGED <<conn, refs, draining, holds, kept, mixed, procVars>> PROVE CountsOK'
  BY <1>0, CountsStay DEF procVars
<1>1. ASSUME NEW o \in Owners, OwnerOpens(o) \/ OwnerEnds(o) PROVE CountsOK'
  BY <1>0, <1>1 DEF OwnerOpens, OwnerEnds
<1>2. ASSUME NEW p \in Sessions \union Calls, FindsOpen(p) PROVE CountsOK'
  <2>1. conn \in Conns /\ Gets(p, conn) /\ at[p] \in {"lock", "opening"} /\ UNCHANGED <<conn, draining, kept>>
    BY <1>2, <1>t DEF FindsOpen
  <2> QED
    BY <2>1, GetsCounts
<1>3. ASSUME NEW p \in Sessions \union Calls, OpenSucceeds(p) PROVE CountsOK'
  <2>1. on[p] \in Conns /\ Gets(p, on[p]) /\ at[p] \in {"lock", "opening"} /\ UNCHANGED <<conn, draining, kept>>
    BY <1>3, <1>t, <1>q DEF OpenSucceeds, Working
  <2> QED
    BY <2>1, GetsCounts
<1>4. ASSUME NEW p \in Sessions \union Calls, FindsClosed(p) PROVE CountsOK'
  <2>1. PICK o \in Owners : Goes(p, "opening", conn, o)
    BY <1>4 DEF FindsClosed, Opens
  <2> QED
    BY <1>4, <1>q, <2>1, MovesStay DEF FindsClosed
<1>5. ASSUME NEW p \in Sessions \union Calls, FindsNone(p) PROVE CountsOK'
  <2>1. PICK k \in Conns, o \in Owners :
          /\ FreshConn(k) /\ conn' = k /\ refs' = [refs EXCEPT ![k] = 0]
          /\ draining' = [draining EXCEPT ![k] = FALSE] /\ Goes(p, "opening", k, o)
    BY <1>5 DEF FindsNone, Opens
  <2>2. conn = None /\ holds' = holds /\ mixed' = mixed /\ at[p] = "lock" /\ p \in Procs /\ kept' = 0
    BY <1>5, <1>q DEF FindsNone
  <2>3. Users' = Users /\ (~ mixed => Users = {})
    BY <2>2, UsersCounted DEF Users, Using, CountsOK
  <2>4. \A q \in Procs : at'[q] = IF q = p THEN "opening" ELSE at[q]
    BY <1>t, <2>1, <2>2 DEF Goes
  <2>5. Waiting'
    BY <1>t, <2>2, <2>4 DEF CountsOK, Waiting
  <2>6. \A q \in Closers : at'[q] = "closing" => on'[q] # conn'
    <3>1. \A q \in Procs : on[q] # k
      BY <2>1 DEF FreshConn
    <3>2. \A q \in Procs : q # p => on'[q] = on[q]
      BY <1>t, <2>1 DEF Goes
    <3> QED
      BY <1>t, <2>1, <2>4, <3>1, <3>2
  <2>7. ClosersOK'
    BY <2>6 DEF ClosersOK
  <2>8. RefsCountSessions'
    <3> SUFFICES ASSUME ~ mixed
                 PROVE  (\A s \in Sessions : Using(s)' => holds'[s] = conn') /\ refs'[conn'] = Cardinality(Users') + kept'
      BY <2>2 DEF RefsCountSessions, Users
    <3>1. Users' = {} /\ Cardinality({}) = 0
      BY <2>3, FS_EmptySet
    <3>2. refs'[k] = 0 /\ Cardinality(Users') + kept' = 0
      BY <1>t, <2>1, <2>2, <3>1
    <3>3. \A s \in Sessions : Using(s)' => holds'[s] = conn'
      BY <3>1 DEF Users
    <3> QED
      BY <2>1, <3>2, <3>3
  <2> QED
    BY <2>3, <2>5, <2>7, <2>8 DEF CountsOK
<1>6. ASSUME NEW p \in Sessions \union Calls, OpenFails(p) PROVE CountsOK'
  <2>1. Goes(p, Rest(p), None, None) /\ p \in Procs /\ UNCHANGED <<conn, refs, draining, holds, kept, mixed>>
    BY <1>6, <1>q DEF OpenFails, connVars
  <2>2. Rest(p) \notin {"lock", "opening", "closing"}
    BY DEF Rest
  <2> QED
    BY <2>1, <2>2, MovesStay
<1>7. ASSUME NEW s \in Sessions, Start(s) \/ RestartSession(s) PROVE CountsOK'
  <2>1. /\ Forgets(s) /\ UNCHANGED <<conn, refs, draining, on, mixed>>
        /\ \E place \in {"attached", "down", "lock"} : At(s, place)
    BY <1>7 DEF Start, RestartSession, BeginStart, connVars
  <2>2. /\ \A q \in Sessions \ {s} : at'[q] = at[q]
        /\ \A q \in Closers : at'[q] = "closing" => at[q] = "closing"
    BY <1>t, <2>1 DEF At
  <2> QED
    BY <2>1, <2>2, ForgetsCounts
<1>8. ASSUME NEW s \in Sessions, StartSucceeds(s) \/ StartFails(s) PROVE CountsOK'
  <2>1. /\ UNCHANGED <<conn, refs, draining, holds, kept, on>> /\ (mixed => mixed')
        /\ \/ \E place \in {"up", "down"} : At(s, place)
           \/ at' = [at EXCEPT ![s] = "up", ![Refresher] = IF @ = "none" THEN "asleep" ELSE @]
    BY <1>8 DEF StartSucceeds, StartFails, connVars
  <2>2. \A q \in Procs \ {Refresher} : at'[q] = at[q] \/ at'[q] \in {"up", "down"}
    BY <1>t, <1>q, <2>1 DEF At
  <2>3. /\ \A q \in Sessions : at'[q] \in {"lock", "opening"} => at[q] \in {"lock", "opening"}
        /\ \A p \in Closers : at'[p] = "closing" => at[p] = "closing" /\ on'[p] = on[p]
    BY <1>t, <1>q, <2>1, <2>2
  <2> QED
    BY <2>1, <2>3, CountsStay
<1>9. ASSUME NEW s \in Sessions, Terminate(s) PROVE CountsOK'
  BY <1>9, TerminateCounts
<1>10. ASSUME NEW s \in Sessions, ClosedBySession(s) PROVE CountsOK'
  <2>1. /\ at[s] = "closing" /\ Popped /\ holds' = holds /\ Goes(s, "down", None, None)
        /\ mixed' = (mixed \/ conn \notin {on[s], None})
    BY <1>10 DEF ClosedBySession, Mixes
  <2>2. ASSUME ~ mixed' PROVE ~ mixed /\ (conn # None => Users = {})
    BY <2>1, <2>2 DEF CountsOK, ClosersOK, Closers
  <2>3. \A q \in Sessions : at'[q] \in {"lock", "opening"} => at[q] \in {"lock", "opening"}
    BY <1>t, <2>1 DEF Goes
  <2> QED
    BY <2>1, <2>2, <2>3, PoppedCounts
<1>11. CASE ClosedByConfig
  <2>1. /\ at[Config] = "closing" /\ Popped /\ holds' = holds /\ Goes(Config, "idle", None, None)
        /\ mixed' = (mixed \/ conn \notin {on[Config], None})
    BY <1>11 DEF ClosedByConfig, Mixes
  <2>2. ASSUME ~ mixed' PROVE ~ mixed /\ (conn # None => Users = {})
    BY <1>t, <2>1, <2>2 DEF CountsOK, ClosersOK
  <2>3. \A q \in Sessions : at'[q] \in {"lock", "opening"} => at[q] \in {"lock", "opening"}
    BY <1>t, <1>q, <2>1 DEF Goes
  <2> QED
    BY <2>1, <2>2, <2>3, PoppedCounts
<1>12. ASSUME NEW end \in {"disabled", "deleted"}, Drain(end) PROVE CountsOK'
  <2>0. holds' = holds /\ kept' = kept /\ mixed' = mixed /\ Users' = Users
    BY <1>12 DEF Drain, Users, Using
  <2>u. conn # None /\ refs[conn] <= 0 => (~ mixed => Users = {})
    <3> SUFFICES ASSUME conn # None, refs[conn] <= 0, ~ mixed PROVE Users = {}
      OBVIOUS
    <3>1. refs[conn] = Cardinality(Users) + kept /\ IsFiniteSet(Users)
      BY UsersCounted DEF CountsOK
    <3>2. Cardinality(Users) \in Nat
      BY <3>1, FS_CardinalityType
    <3>3. Cardinality(Users) <= 0
      BY <1>t, <3>1, <3>2
    <3> QED
      BY <3>1, <3>3, NoUsers
  <2>1. CASE conn # None /\ refs[conn] <= 0 /\ cur[conn] # None
    <3>1. /\ draining' = [draining EXCEPT ![conn] = TRUE] /\ Goes(Config, "closing", conn, cur[conn])
          /\ UNCHANGED <<conn, refs>>
      BY <1>12, <2>1 DEF Drain, Closes
    <3>2. draining'[conn] = TRUE
      BY <1>t, <2>1, <3>1
    <3>3. ClosersOK'
      BY <2>0, <2>1, <2>u, <3>1, <3>2 DEF ClosersOK
    <3>4. Waiting'
      BY <1>t, <1>q, <2>0, <3>1 DEF CountsOK, Waiting, Goes
    <3>5. RefsCountSessions'
      BY <2>0, <3>1 DEF CountsOK, RefsCountSessions, Users, Using
    <3> QED
      BY <2>0, <3>3, <3>4, <3>5 DEF CountsOK
  <2>2. CASE ~ (conn # None /\ refs[conn] <= 0 /\ cur[conn] # None)
    <3>1. /\ \/ conn # None /\ refs[conn] <= 0 /\ Popped
             \/ /\ draining' = IF conn = None THEN draining ELSE [draining EXCEPT ![conn] = TRUE]
                /\ UNCHANGED <<conn, refs>>
          /\ UNCHANGED procVars
      BY <1>12, <2>2 DEF Drain
    <3>2. CASE conn # None /\ refs[conn] <= 0 /\ Popped
      BY <2>0, <2>u, <3>1, <3>2, PoppedCounts DEF procVars
    <3>3. CASE draining' = (IF conn = None THEN draining ELSE [draining EXCEPT ![conn] = TRUE]) /\ UNCHANGED <<conn, refs>>
      <4>1. conn # None => draining'[conn]
        BY <1>t, <3>3
      <4>2. ClosersOK'
        BY <2>0, <3>1, <3>3, <4>1 DEF CountsOK, ClosersOK, procVars
      <4>3. Waiting'
        BY <2>0, <3>1 DEF CountsOK, Waiting, procVars
      <4>4. RefsCountSessions'
        BY <2>0, <3>3 DEF CountsOK, RefsCountSessions, Users, Using
      <4> QED
        BY <2>0, <4>2, <4>3, <4>4 DEF CountsOK
    <3> QED
      BY <3>1, <3>2, <3>3
  <2> QED
    BY <2>1, <2>2
<1>13. CASE Enable
  BY <1>0, <1>13 DEF Enable, connVars
<1>14. ASSUME NEW c \in Calls, CallTool(c) \/ CallForwarded(c) \/ CallFindsClosed(c) \/ CallEnds(c) \/ CallDisconnected(c)
       PROVE  CountsOK'
  <2>1. \E place, k, o : Goes(c, place, k, o)
    BY <1>14 DEF CallTool, CallForwarded, CallFindsClosed, Closes, CallEnds, CallDisconnected
  <2>2. UNCHANGED <<conn, refs, draining, holds, kept, mixed>>
    BY <1>14 DEF CallTool, CallForwarded, CallFindsClosed, Closes, CallEnds, CallDisconnected, connVars
  <2> QED
    BY <1>q, <2>1, <2>2, MovesStay
<1>15. CASE TokenNotRefreshed
  <2>1. at' = [at EXCEPT ![Refresher] = "ended"] /\ UNCHANGED <<conn, refs, draining, holds, kept, mixed, on>>
    BY <1>15 DEF TokenNotRefreshed, At, connVars
  <2>2. \A q \in Procs \ {Refresher} : at'[q] = at[q]
    BY <1>t, <2>1
  <2> QED
    BY <1>t, <1>q, <2>1, <2>2, CountsStay
<1>16. CASE UNCHANGED sharedVars
  BY <1>0, <1>16 DEF sharedVars, connVars
<1> QED
  BY <1>1, <1>2, <1>3, <1>4, <1>5, <1>6, <1>7, <1>8, <1>9, <1>10, <1>11, <1>12, <1>13, <1>14, <1>15, <1>16
  DEF Next, Owner, OwnerFails, OwnerCloses, OwnerCancelled, Gettings, Opening, Calling
-----------------------------------------------------------------------------
(* The inductive invariant.                                                *)

IInv == TypeOK /\ EndingOK /\ ClientIsOpen /\ RefreshedWhileUsed /\ CountsOK

\* It holds at first,
LEMMA InitIInv == Init => IInv
<1> SUFFICES ASSUME Init PROVE IInv
  OBVIOUS
<1> USE NoneAssumption
<1>c. Config # Refresher
  BY DEF Config, Refresher
<1>q. /\ Refresher \in Procs /\ Refresher \notin Sessions /\ Config \in Procs /\ Config \notin Sessions
      /\ Sessions \subseteq Procs
  BY ProcsAssumption DEF Procs
<1>a. \A p \in Procs : at[p] = IF p \in Sessions THEN "down" ELSE IF p = Refresher THEN "none" ELSE "idle"
  BY DEF Init
<1>1. TypeOK
  <2>1. of \in [Owners -> Conns]
    BY ConnsAssumption DEF Init
  <2>2. at \in [Procs -> Quiet \union Working]
    BY DEF Init, Quiet
  <2>3. \A p \in Procs : at[p] \notin Working /\ at[p] \notin {"opening", "closing"}
    BY <1>a DEF Working
  <2> QED
    <3>1. /\ refs \in [Conns -> Int] /\ draining \in [Conns -> BOOLEAN]
          /\ cur \in [Conns -> Owners \union {None}] /\ sess \in [Conns -> Owners \union {None}]
          /\ phase \in [Owners -> {"opening", "open", "gone"}]
          /\ recLock \in [Conns -> Procs \union {None}] /\ holds \in [Sessions -> Conns \union {None}]
          /\ on \in [Procs -> Conns \union {None}] /\ own \in [Procs -> Owners \union {None}]
      BY DEF Init
    <3>2. /\ cfg \in {"enabled", "disabled", "deleted"} /\ conn \in Conns \union {None}
          /\ ready \subseteq Owners /\ told \subseteq Owners /\ openLock \in Procs \union {None}
          /\ count \in Nat /\ ending \in {"none", "disabled", "deleted"} /\ mixed \in BOOLEAN /\ kept \in Nat
      BY DEF Init
    <3> QED
      BY <2>1, <2>2, <2>3, <3>1, <3>2 DEF TypeOK
<1>2. EndingOK
  BY <1>a, <1>q DEF EndingOK
<1>3. ClientIsOpen
  BY DEF Init, ClientIsOpen
<1>4. RefreshedWhileUsed
  BY <1>a, <1>q DEF Init, RefreshedWhileUsed
<1>5. Users = {} /\ IsFiniteSet(Users)
  BY FS_EmptySet DEF Init, Users, Using
<1>6. Waiting /\ ClosersOK /\ RefsCountSessions
  BY <1>a, <1>q DEF Init, Waiting, ClosersOK, RefsCountSessions, Using
<1> QED
  BY <1>1, <1>2, <1>3, <1>4, <1>5, <1>6 DEF IInv, CountsOK

\* and every step keeps it.
LEMMA Inductive == Spec => []IInv
<1>1. IInv /\ [Next]_sharedVars => IInv'
  BY TypeNext, EndingNext, ClientNext, RefresherNext, CountsNext DEF IInv
<1> QED
  BY <1>1, InitIInv, PTL DEF Spec

\* The variables keep their shape, and who works on a connection has one.
THEOREM TypeCorrect == Spec => []TypeOK
<1>1. IInv => TypeOK
  BY DEF IInv
<1> QED
  BY <1>1, Inductive, PTL

\* ClientIsOpen: whatever owner ends, is cancelled or opens late (the generations
\* of issue #1505), a connection has the client of its own open owner or none.
THEOREM ClientsAreOpen == Spec => []ClientIsOpen
<1>1. IInv => ClientIsOpen
  BY DEF IInv
<1> QED
  BY <1>1, Inductive, PTL

\* RefsCountSessions: as long as no session gives back what it does not have and
\* none attaches to what drains, a connection has a reference for every session
\* that uses it and for every one that forgot its own, as one does that is
\* restarted or has the server from its template alone: a call never counts
\* (get_or_open, release).
THEOREM RefsAreSessions == Spec => []RefsCountSessions
<1>1. IInv => RefsCountSessions
  BY DEF IInv, CountsOK
<1> QED
  BY <1>1, Inductive, PTL

\* RefreshedWhileUsed: the task of ensure_refresh is in the table exactly while
\* there are references to the token.
THEOREM RefreshIsCounted == Spec => []RefreshedWhileUsed
<1>1. IInv => RefreshedWhileUsed
  BY DEF IInv
<1> QED
  BY <1>1, Inductive, PTL

-----------------------------------------------------------------------------
(* Secrets: the invariant.                                                 *)

\* The parts of the type invariant: the tokens and the vault.
Sendable == Tokens \union {NoToken, Code}
Receivable == Tokens \union {NoToken, Bare, Rejected}
TokenTypes ==
  /\ live \subseteq Tokens /\ sent \in [Callers -> Sendable] /\ ans \in [Callers -> Receivable]
  /\ stored \in Tokens \union {NoToken, Bare} /\ pending \subseteq Flows /\ changes \in Nat
  /\ client \in BOOLEAN /\ overlaps \in BOOLEAN
Metadata == [spec : BOOLEAN, exp : {"fresh", "due", "never"}, status : Statuses]
Sidecars == [at : {"down", "ready", "posting", "patching"},
             tok : Tokens \union {NoToken}, status : Statuses]
Places == {"off", "early", "asleep", "resting", "posting", "retrying"}
VaultTypes ==
  /\ primary \in Metadata \union {Absent} /\ vaulted \in Tokens \union {NoToken}
  /\ task \in Places /\ lock \in {"none", "loop", "manual"} /\ manual \in {"off", "posting"}
  /\ proxy \in Sidecars
  /\ sibling \in BOOLEAN /\ tells \in BOOLEAN /\ excused \in BOOLEAN /\ healed \in BOOLEAN


\* Who has asked nothing has no answer.
QuietOK == \A c \in Callers : Free(c) => ans[c] = NoToken
\* What the server asks about is what is stored, unless it was disconnected or
\* an authorisation came.
ServerOK == ~ Free(Server) /\ ~ overlaps => stored \in {sent[Server], NoToken}
\* Without a secret the task asks nothing.
LoopOK == ~ Here => Free("loop")
\* A proxy writes what it was given.
ProxyOK == proxy.at = "patching" => Granted("proxy")
\* The caller brings another token than it sent.
Renews(c) == Granted(c) /\ ans[c] # sent[c]
\* VaultKeepsUp, made inductive.
FollowsOK ==
  sibling /\ vaulted # NoToken /\ vaulted \notin live
    => excused \/ \E c \in Others : Renews(c)
\* The inductive invariant.
SecretsIInv ==
  SecretsTypeOK /\ QuietOK /\ ServerOK /\ LoopOK /\ ProxyOK /\ FollowsOK /\ GaveUpIsShown

\* The type invariant, part by part.
LEMMA SecretsTypeParts == SecretsTypeOK <=> TokenTypes /\ VaultTypes
BY DEF SecretsTypeOK, TokenTypes, VaultTypes, Sendable, Receivable, Metadata, Sidecars, Places

\* No other value is a token.
LEMMA Values ==
  /\ NoToken \notin Tokens /\ Bare \notin Tokens /\ Rejected \notin Tokens /\ Code \notin Tokens
  /\ NoToken # Bare /\ NoToken # Rejected /\ NoToken # Code /\ Bare # Rejected
BY ConstantsAssumption DEF Tokens, NoToken, Bare, Rejected, Code

\* Flows, the server and the others are callers, and not each other.
LEMMA Who ==
  /\ Server \in Callers /\ Server \notin Others /\ Others \subseteq Callers /\ Flows \subseteq Callers
  /\ Server \notin Flows /\ \A f \in Flows : f \notin Others
  /\ "loop" \in Others /\ "manual" \in Others /\ "proxy" \in Others
BY FlowsAssumption DEF Server, Others, Callers

\* Who is done neither asks nor has an answer,
LEMMA DoneDoes ==
  ASSUME TokenTypes, NEW cs, Done(cs)
  PROVE  /\ \A c \in Callers : /\ c \in cs => sent'[c] = NoToken /\ ans'[c] = NoToken
                               /\ c \notin cs => sent'[c] = sent[c] /\ ans'[c] = ans[c]
         /\ sent' \in [Callers -> Sendable] /\ ans' \in [Callers -> Receivable]
BY DEF Done, TokenTypes, Sendable, Receivable

\* who asks has had none,
LEMMA AsksDoes ==
  ASSUME TokenTypes, NEW c \in Callers, NEW t \in Sendable, Asks(c, t)
  PROVE  /\ Free(c) /\ ans' = ans /\ sent'[c] = t /\ sent' \in [Callers -> Sendable]
         /\ \A d \in Callers : d # c => sent'[d] = sent[d]
BY DEF Asks, TokenTypes

\* and an answer is one caller's.
LEMMA AnswersDoes ==
  ASSUME TokenTypes, NEW c \in Callers, NEW t \in Receivable, Answers(c, t)
  PROVE  /\ sent' = sent /\ ans'[c] = t /\ ans' \in [Callers -> Receivable]
         /\ \A d \in Callers : d # c => ans'[d] = ans[d]
BY DEF Answers, TokenTypes

\* A new token is nobody's.
LEMMA FreshIs ==
  ASSUME NEW copies, NEW t, Fresh(copies, t)
  PROVE  /\ t \in Tokens /\ t # stored /\ t \notin copies
         /\ \A c \in Callers : t # sent[c] /\ t # ans[c]
BY DEF Fresh, Held

-----------------------------------------------------------------------------
(* Steps of the provider, the flows and the server.                        *)

\* Those who refresh a copy wait for their answers and keep them.
OthersStay == \A d \in Others : sent'[d] = sent[d] /\ (ans[d] # NoToken => ans'[d] = ans[d])
\* The vault's token ends for one of them, or for none of their answers.
EndsFor ==
  vaulted \in live \ live' => (\A d \in Others : ans'[d] = ans[d]) \/ \E d \in Others : Renews(d)'
\* What holds of the tokens.
TokensOK == TokenTypes /\ QuietOK /\ ServerOK

\* Who is done with a flow or the refresh of the server keeps it,
LEMMA DoneKeeps ==
  ASSUME TokensOK, NEW c \in Flows \union {Server}, Done({c}), live' = live,
         c # Server => /\ overlaps' \in BOOLEAN /\ (overlaps \/ (stored' # stored /\ ~ Free(Server)) => overlaps'),
         overlaps' \in BOOLEAN, stored' \in Tokens \union {NoToken, Bare},
         client' \in BOOLEAN, pending' \subseteq Flows, changes' \in Nat
  PROVE  TokensOK' /\ OthersStay /\ EndsFor
<1>t. TokenTypes
  BY DEF TokensOK
<1>1. c \in Callers /\ c \notin Others
  BY Who
<1>2. /\ sent'[c] = NoToken /\ ans'[c] = NoToken
      /\ \A d \in Callers : d # c => sent'[d] = sent[d] /\ ans'[d] = ans[d]
      /\ sent' \in [Callers -> Sendable] /\ ans' \in [Callers -> Receivable]
  BY <1>t, <1>1, DoneDoes
<1>3. TokenTypes'
  BY <1>t, <1>2 DEF TokenTypes
<1>4. QuietOK'
  BY <1>2 DEF TokensOK, QuietOK, Free
<1>5. ServerOK'
  BY <1>2, Who DEF TokensOK, ServerOK, Free
<1>6. OthersStay /\ EndsFor
  BY <1>1, <1>2, Who DEF OthersStay, EndsFor
<1> QED
  BY <1>3, <1>4, <1>5, <1>6 DEF TokensOK

\* so does an answer,
LEMMA AnswersKeeps ==
  ASSUME TokensOK, NEW c \in Callers, NEW t \in Receivable, Waits(c), Answers(c, t),
         live' \subseteq Tokens, stored \in live' => stored \in live,
         c \in Others => live' = live \/ (t \in Tokens /\ t # sent[c]),
         UNCHANGED <<stored, client, pending, overlaps, changes>>
  PROVE  TokensOK' /\ OthersStay /\ EndsFor
<1>t. TokenTypes
  BY DEF TokensOK
<1>1. /\ sent' = sent /\ ans'[c] = t /\ ans' \in [Callers -> Receivable]
      /\ \A d \in Callers : d # c => ans'[d] = ans[d]
  BY <1>t, AnswersDoes
<1>2. TokenTypes'
  BY <1>t, <1>1 DEF TokenTypes
<1>3. QuietOK'
  BY <1>1 DEF TokensOK, QuietOK, Free, Waits
<1>4. ServerOK'
  BY <1>1, Who DEF TokensOK, ServerOK, Free
<1>5. OthersStay
  BY <1>1, Who DEF OthersStay, Waits
<1>6. EndsFor
  <2>1. CASE c \in Others /\ t \in Tokens /\ t # sent[c]
    <3>1. Renews(c)'
      BY <1>1, <2>1, Who DEF Renews, Granted
    <3> QED
      BY <2>1, <3>1 DEF EndsFor
  <2>2. CASE c \notin Others \/ live' = live
    BY <1>1, <2>2, Who DEF EndsFor
  <2> QED
    BY <2>1, <2>2
<1> QED
  BY <1>2, <1>3, <1>4, <1>5, <1>6 DEF TokensOK

\* and every step of the tokens.
LEMMA TokenStepKeeps ==
  ASSUME TokensOK, TokenStep
  PROVE  TokensOK' /\ OthersStay /\ EndsFor
<1> DEFINE Goal == TokensOK' /\ OthersStay /\ EndsFor
<1>t. TokenTypes
  BY DEF TokensOK
<1>s. {NoToken, Code} \subseteq Sendable /\ Tokens \subseteq Sendable
  BY DEF Sendable
<1>r. {NoToken, Bare, Rejected} \subseteq Receivable /\ Tokens \subseteq Receivable
  BY DEF Receivable
<1>1. ASSUME NEW f \in Flows, StartFlow(f) PROVE Goal
  <2>1. /\ pending' \subseteq Flows /\ client' \in BOOLEAN /\ changes' \in Nat
        /\ UNCHANGED <<live, sent, ans, stored, overlaps>>
    BY <1>1, <1>t, ConstantsAssumption DEF StartFlow, Changes, TokenTypes
  <2>2. TokenTypes'
    BY <1>t, <2>1 DEF TokenTypes
  <2>3. QuietOK' /\ ServerOK'
    BY <2>1 DEF TokensOK, QuietOK, ServerOK, Free
  <2> QED
    BY <2>1, <2>2, <2>3 DEF TokensOK, OthersStay, EndsFor
<1>2. ASSUME NEW f \in Flows, CompleteFlow(f), changes' = changes PROVE Goal
  <2>1. Asks(f, Code) /\ pending' \subseteq Flows /\ UNCHANGED <<live, stored, client, overlaps>>
    BY <1>2, <1>t DEF CompleteFlow, TokenTypes
  <2>2. f \in Callers /\ f # Server /\ f \notin Others
    BY Who
  <2>3. /\ Free(f) /\ ans' = ans /\ sent'[f] = Code /\ sent' \in [Callers -> Sendable]
        /\ \A d \in Callers : d # f => sent'[d] = sent[d]
    BY <1>t, <1>s, <2>1, <2>2, AsksDoes
  <2>4. TokenTypes'
    BY <1>2, <1>t, <2>1, <2>3 DEF TokenTypes
  <2>5. QuietOK' /\ ServerOK'
    BY <2>1, <2>2, <2>3, Who, Values DEF TokensOK, QuietOK, ServerOK, Free
  <2> QED
    BY <2>1, <2>2, <2>3, <2>4, <2>5, Who DEF TokensOK, OthersStay, EndsFor
<1>3. ASSUME NEW f \in Flows, ProviderGrants(f, Copies), changes' = changes PROVE Goal
  <2>1. /\ Waits(f) /\ UNCHANGED <<stored, client, pending, overlaps>> /\ f \in Callers /\ f \notin Others
        /\ f # Server
    BY <1>3, Who DEF ProviderGrants
  <2>2. PICK old \in {live \intersect Held(Copies), {}} :
          \/ \E t \in Tokens : Fresh(Copies, t) /\ Answers(f, t) /\ live' = old \union {t}
          \/ Answers(f, Bare) /\ live' = old
    BY <1>3 DEF ProviderGrants
  <2>3. old \subseteq live /\ live \subseteq Tokens
    BY <1>t, <2>2 DEF TokenTypes
  <2>4. ASSUME NEW t \in Tokens, Fresh(Copies, t), Answers(f, t), live' = old \union {t} PROVE Goal
    <3>1. t # stored
      BY <2>4, FreshIs
    <3>2. live' \subseteq Tokens /\ (stored \in live' => stored \in live)
      BY <2>3, <2>4, <3>1
    <3> QED
      BY <1>3, <1>r, <2>1, <2>4, <3>2, AnswersKeeps
  <2>5. CASE Answers(f, Bare) /\ live' = old
    BY <1>3, <1>r, <2>1, <2>3, <2>5, AnswersKeeps
  <2> QED
    BY <2>2, <2>4, <2>5
<1>4. ASSUME NEW f \in Flows, FlowCompletes(f), changes' = changes PROVE Goal
  <2>1. /\ Done({f}) /\ live' = live /\ overlaps' = (overlaps \/ ~ Free(Server))
        /\ stored' \in Tokens \union {NoToken, Bare} /\ UNCHANGED <<client, pending>>
    BY <1>4 DEF FlowCompletes, SetTokens
  <2> QED
    BY <1>4, <1>t, <2>1, DoneKeeps DEF TokenTypes
<1>5. ASSUME NEW f \in Flows, FlowFails(f), changes' = changes PROVE Goal
  <2>1. Done({f}) /\ UNCHANGED <<live, stored, client, pending, overlaps>>
    BY <1>5 DEF FlowFails
  <2> QED
    BY <1>5, <1>t, <2>1, DoneKeeps DEF TokenTypes
<1>6. ASSUME Disconnect, changes' = changes PROVE Goal
  <2>1. stored' = NoToken /\ client' = FALSE /\ UNCHANGED <<live, sent, ans, pending, overlaps>>
    BY <1>6 DEF Disconnect, Clear
  <2>2. TokenTypes'
    BY <1>6, <1>t, <2>1 DEF TokenTypes
  <2>3. QuietOK'
    BY <2>1 DEF TokensOK, QuietOK, Free
  <2>4. ServerOK'
    BY <1>t, <2>1, Values DEF TokensOK, ServerOK, Free, TokenTypes
  <2> QED
    BY <2>1, <2>2, <2>3, <2>4 DEF TokensOK, OthersStay, EndsFor
<1>7. ASSUME RefreshToken, changes' = changes PROVE Goal
  <2>1. stored \in Tokens /\ Asks(Server, stored) /\ UNCHANGED <<live, stored, client, pending, overlaps>>
    BY <1>7 DEF RefreshToken
  <2>3. /\ Free(Server) /\ ans' = ans /\ sent'[Server] = stored /\ sent' \in [Callers -> Sendable]
        /\ \A d \in Callers : d # Server => sent'[d] = sent[d]
    BY <1>t, <1>s, <2>1, Who, AsksDoes
  <2>4. TokenTypes'
    BY <1>7, <1>t, <2>1, <2>3 DEF TokenTypes
  <2>5. QuietOK'
    BY <2>1, <2>3, Values DEF TokensOK, QuietOK, Free
  <2>6. ans[Server] = NoToken
    BY <2>3, Who DEF TokensOK, QuietOK
  <2>7. ServerOK'
    BY <2>1, <2>3, <2>6, Values DEF ServerOK
  <2> QED
    BY <2>1, <2>3, <2>4, <2>5, <2>7, Who DEF TokensOK, OthersStay, EndsFor
<1>8. ASSUME ProviderRejects, changes' = changes PROVE Goal
  <2>1. /\ Waits(Server) /\ Answers(Server, Rejected)
        /\ UNCHANGED <<live, stored, client, pending, overlaps>>
    BY <1>8 DEF ProviderRejects
  <2>2. live \subseteq Tokens
    BY <1>t DEF TokenTypes
  <2> QED
    BY <1>8, <1>r, <2>1, <2>2, Who, AnswersKeeps
<1>9. ASSUME RefreshSucceeds \/ RefreshRejected \/ RefreshFails, changes' = changes PROVE Goal
  <2>1. /\ Done({Server}) /\ overlaps' = FALSE /\ live' = live /\ pending' = pending
        /\ client' \in BOOLEAN /\ stored' \in Tokens \union {NoToken, Bare}
    BY <1>9, <1>t DEF RefreshSucceeds, RefreshRejected, RefreshFails, SetTokens, Clear, Granted, TokenTypes
  <2> QED
    BY <1>9, <1>t, <2>1, DoneKeeps DEF TokenTypes
<1>10. ASSUME NEW c \in Others \union {Server}, ProviderRotates(c, Copies), changes' = changes PROVE Goal
  <2>1. PICK t \in Tokens :
          /\ Fresh(Copies, t) /\ Answers(c, t)
          /\ live' = ((live \intersect Held(Copies)) \ {sent[c]}) \union {t}
    BY <1>10 DEF ProviderRotates
  <2>2. Waits(c) /\ UNCHANGED <<stored, client, pending, overlaps>> /\ c \in Callers
    BY <1>10, Who DEF ProviderRotates
  <2>3. t # stored /\ t # sent[c]
    BY <2>1, <2>2, FreshIs
  <2>4. live' \subseteq Tokens /\ (stored \in live' => stored \in live)
    BY <1>t, <2>1, <2>3 DEF TokenTypes
  <2> QED
    BY <1>10, <1>r, <2>1, <2>2, <2>3, <2>4, Values, AnswersKeeps
<1>11. ASSUME NEW c \in Others \union {Server}, ProviderKeeps(c), changes' = changes PROVE Goal
  <2>1. /\ Waits(c) /\ sent[c] \in live /\ Answers(c, sent[c]) /\ c \in Callers
        /\ UNCHANGED <<live, stored, client, pending, overlaps>>
    BY <1>11, Who DEF ProviderKeeps
  <2>2. live \subseteq Tokens /\ sent[c] \in Tokens /\ sent[c] # Rejected
    BY <1>t, <2>1, Values DEF TokenTypes
  <2> QED
    BY <1>11, <1>r, <2>1, <2>2, AnswersKeeps
<1> QED
  BY <1>1, <1>2, <1>3, <1>4, <1>5, <1>6, <1>7, <1>8, <1>9, <1>10, <1>11 DEF TokenStep, TokenNext

-----------------------------------------------------------------------------
(* Steps of the vault, its task, the user and the proxy.                   *)

\* The tokens are kept when some are done,
LEMMA OthersDone ==
  ASSUME TokensOK, NEW cs \in SUBSET Callers, Done(cs), Server \in cs \/ TokensKept,
         live' = live, stored' = stored, client' = client, overlaps' \in BOOLEAN,
         pending' \subseteq pending, changes' \in Nat
  PROVE  /\ TokensOK'
         /\ \A c \in Callers : /\ c \in cs => Free(c)' /\ ~ Granted(c)'
                               /\ c \notin cs => sent'[c] = sent[c] /\ ans'[c] = ans[c]
<1>t. TokenTypes
  BY DEF TokensOK
<1>1. /\ \A c \in Callers : /\ c \in cs => sent'[c] = NoToken /\ ans'[c] = NoToken
                            /\ c \notin cs => sent'[c] = sent[c] /\ ans'[c] = ans[c]
      /\ sent' \in [Callers -> Sendable] /\ ans' \in [Callers -> Receivable]
  BY <1>t, DoneDoes
<1>2. TokenTypes'
  BY <1>t, <1>1 DEF TokenTypes
<1>3. QuietOK'
  BY <1>1 DEF TokensOK, QuietOK, Free
<1>4. ServerOK'
  BY <1>1, Who DEF TokensOK, ServerOK, Free, TokensKept
<1> QED
  BY <1>1, <1>2, <1>3, <1>4, Values DEF TokensOK, Free, Granted

\* when one of them asks,
LEMMA OthersAsk ==
  ASSUME TokensOK, NEW c \in Others, NEW t \in Tokens \union {NoToken}, Asks(c, t), TokensKept,
         changes' = changes
  PROVE  /\ TokensOK' /\ Free(c) /\ ans[c] = NoToken /\ ans' = ans
         /\ \A d \in Callers : d # c => sent'[d] = sent[d]
<1>t. TokenTypes /\ c \in Callers /\ t \in Sendable
  BY Who DEF TokensOK, Sendable
<1>1. /\ Free(c) /\ ans' = ans /\ sent'[c] = t /\ sent' \in [Callers -> Sendable]
      /\ \A d \in Callers : d # c => sent'[d] = sent[d]
  BY <1>t, AsksDoes
<1>2. TokenTypes'
  BY <1>t, <1>1 DEF TokenTypes, TokensKept
<1>3. QuietOK'
  BY <1>1 DEF TokensOK, QuietOK, Free
<1>4. ServerOK'
  BY <1>1, Who DEF TokensOK, ServerOK, Free, TokensKept
<1> QED
  BY <1>t, <1>1, <1>2, <1>3, <1>4 DEF TokensOK, QuietOK

\* and when nobody does.
LEMMA SameTokens ==
  ASSUME TokensOK, UNCHANGED tokenVars, changes' = changes
  PROVE  TokensOK'
<1>1. TokenTypes'
  BY DEF TokensOK, TokenTypes, tokenVars
<1>2. QuietOK' /\ ServerOK'
  BY DEF TokensOK, QuietOK, ServerOK, Free, tokenVars
<1> QED
  BY <1>1, <1>2 DEF TokensOK

\* The vault follows still when those whose tokens are lost are excused,
LEMMA FollowsStays ==
  ASSUME FollowsOK, live' = live, vaulted' = vaulted, sibling' = sibling, excused => excused',
         NEW cs \in SUBSET Callers,
         vaulted \notin live /\ (\E c \in cs : Granted(c)) => excused',
         \A c \in Callers : c \notin cs => ans'[c] = ans[c] /\ (Granted(c) => sent'[c] = sent[c])
  PROVE  FollowsOK'
<1> SUFFICES ASSUME sibling, vaulted # NoToken, vaulted \notin live, ~ excused'
             PROVE  \E c \in Others : Renews(c)'
  BY DEF FollowsOK
<1>1. PICK c \in Others : Renews(c)
  BY DEF FollowsOK
<1>2. c \in Callers /\ c \notin cs
  BY <1>1, Who DEF Renews
<1> QED
  BY <1>1, <1>2 DEF Renews, Granted

\* or a new token is written.
LEMMA RotatedFollows ==
  ASSUME FollowsOK, NEW c \in Others, Granted(c), Rotated(c), live' = live, sibling' = sibling,
         \A d \in Callers : d # c => ans'[d] = ans[d] /\ sent'[d] = sent[d]
  PROVE  FollowsOK'
<1>1. CASE ans[c] # sent[c]
  BY <1>1 DEF Rotated, FollowsOK
<1>2. CASE ans[c] = sent[c]
  <2>1. vaulted' = vaulted /\ excused' = excused
    BY <1>2 DEF Rotated
  <2>2. ASSUME NEW d \in Others, Renews(d) PROVE Renews(d)'
    BY <1>2, <2>2, Who DEF Renews, Granted
  <2> QED
    BY <2>1, <2>2 DEF FollowsOK
<1> QED
  BY <1>1, <1>2

\* What holds of the vault.
VaultOK == VaultTypes /\ LoopOK /\ ProxyOK /\ FollowsOK /\ GaveUpIsShown

\* The task begins anew, and nothing waits for it.
LEMMA Begins ==
  ASSUME TokensOK, VaultOK, NEW p, Schedule(p), TokensKept, changes' \in Nat, proxy' = proxy
  PROVE  /\ TokensOK' /\ LoopOK' /\ ProxyOK' /\ GaveUpIsShown'
         /\ task' \in Places /\ lock' \in {"none", "loop", "manual"} /\ healed' \in BOOLEAN
         /\ \A c \in Callers : c # "loop" => sent'[c] = sent[c] /\ ans'[c] = ans[c]
<1>1. /\ TokensOK'
      /\ \A c \in Callers : /\ c = "loop" => Free(c)' /\ ~ Granted(c)'
                            /\ c # "loop" => sent'[c] = sent[c] /\ ans'[c] = ans[c]
  <2>1. Done({"loop"}) /\ {"loop"} \in SUBSET Callers
    BY Who DEF Schedule
  <2>2. /\ live' = live /\ stored' = stored /\ client' = client /\ overlaps' \in BOOLEAN
        /\ pending' \subseteq pending
    BY DEF TokensKept, TokensOK, TokenTypes
  <2> QED
    BY <2>1, <2>2, OthersDone
<1>2. task' \in {"early", "asleep"} /\ healed' = FALSE /\ lock' \in {lock, "none"}
  BY DEF Schedule, Scheduled, Frees
<1>3. LoopOK'
  BY <1>1, Who DEF LoopOK
<1>4. ProxyOK'
  BY <1>1, Who DEF VaultOK, ProxyOK, Granted
<1> QED
  BY <1>1, <1>2, <1>3, <1>4 DEF GaveUpIsShown, VaultOK, VaultTypes, Places

\* Every step of the vault keeps all of it,
LEMMA VaultKeeps ==
  ASSUME TokensOK, VaultOK, VaultNext
  PROVE  TokensOK' /\ VaultOK'
<1> DEFINE Goal == TokensOK' /\ VaultOK'
<1>t. TokenTypes /\ VaultTypes
  BY DEF TokensOK, VaultOK
<1>n. changes \in Nat /\ (Changes => changes' \in Nat)
  BY <1>t DEF Changes, TokenTypes
<1>l. live \subseteq Tokens /\ NoToken \notin Tokens /\ Bare \notin Tokens
  BY <1>t, Values DEF TokenTypes
<1>m. /\ Absent.spec = FALSE /\ Absent \notin Metadata
      /\ [spec |-> FALSE, exp |-> "never", status |-> "fine"] \in Metadata
      /\ [spec |-> TRUE, exp |-> Expiry, status |-> "fine"] \in Metadata
      /\ \A p \in Metadata : p # Absent
  BY DEF Absent, Metadata, Statuses, Expiry
<1>w. /\ {"loop", "manual", "proxy"} \subseteq Callers /\ "loop" # "proxy" /\ "manual" # "proxy" /\ "loop" # "manual"
      /\ {"loop"} \in SUBSET Callers /\ {"manual"} \in SUBSET Callers /\ {"proxy"} \in SUBSET Callers
      /\ {"loop", "manual", "proxy"} \subseteq Others
  BY Who
<1>k. ASSUME TokensKept PROVE /\ live' = live /\ stored' = stored /\ client' = client /\ pending' \subseteq pending
                              /\ overlaps' \in BOOLEAN
  BY <1>k, <1>t DEF TokensKept, TokenTypes
<1>f. ~ Here => ~ Granted("loop")
  BY <1>l, <1>w DEF VaultOK, LoopOK, TokensOK, QuietOK, Granted
\* The task begins anew.
<1>b. ASSUME NEW p, Schedule(p), TokensKept, Changes, UNCHANGED <<tells, proxy, manual>>,
             primary' \in Metadata, vaulted' \in Tokens \union {NoToken},
             sibling' \in BOOLEAN, excused' \in BOOLEAN, FollowsOK'
      PROVE  Goal
  <2>1. /\ TokensOK' /\ LoopOK' /\ ProxyOK' /\ GaveUpIsShown'
        /\ task' \in Places /\ lock' \in {"none", "loop", "manual"} /\ healed' \in BOOLEAN
    BY <1>b, <1>n, Begins
  <2>2. VaultTypes'
    BY <1>b, <1>t, <2>1 DEF VaultTypes
  <2> QED
    BY <1>b, <2>1, <2>2 DEF VaultOK
<1>c. ASSUME NEW p, Schedule(p), TokensKept, Changes, proxy' = proxy, vaulted' = vaulted, sibling' = sibling,
             \/ excused' = excused /\ ~ Here
             \/ Loses({"loop"})
      PROVE  FollowsOK' /\ excused' \in BOOLEAN
  <2>1. \A c \in Callers : c # "loop" => sent'[c] = sent[c] /\ ans'[c] = ans[c]
    BY <1>c, <1>n, Begins
  <2>2. (excused => excused') /\ excused' \in BOOLEAN
        /\ (vaulted \notin live /\ (\E c \in {"loop"} : Granted(c)) => excused')
    BY <1>c, <1>f, <1>t DEF Loses, VaultTypes
  <2>3. live' = live
    BY <1>c, <1>k
  <2> QED
    BY <1>c, <1>w, <2>1, <2>2, <2>3, FollowsStays DEF VaultOK
<1>1. CASE Import
  <2>1. CASE /\ stored \in Tokens /\ CreatesSibling(stored) /\ excused' = (stored \notin live)
             /\ Creates([spec |-> TRUE, exp |-> Expiry, status |-> "fine"])
    <3>1. Schedule(primary') /\ TokensKept /\ Changes /\ UNCHANGED <<tells, proxy, manual>>
      BY <1>1 DEF Import
    <3>2. /\ vaulted' = stored /\ sibling' = TRUE /\ excused' \in BOOLEAN
          /\ primary' = [spec |-> TRUE, exp |-> Expiry, status |-> "fine"]
      BY <2>1 DEF Creates, CreatesSibling
    <3>3. FollowsOK'
      BY <1>k, <2>1, <3>1, <3>2 DEF FollowsOK
    <3> QED
      BY <1>b, <1>m, <2>1, <3>1, <3>2, <3>3
  <2>2. CASE /\ Creates([spec |-> FALSE, exp |-> "never", status |-> "fine"])
             /\ UNCHANGED <<sibling, vaulted, excused>>
    <3>1. Schedule(primary') /\ TokensKept /\ Changes /\ UNCHANGED <<tells, proxy, manual>>
      BY <1>1 DEF Import
    <3>2. ~ Here /\ primary' = [spec |-> FALSE, exp |-> "never", status |-> "fine"]
      BY <2>2 DEF Creates
    <3>3. FollowsOK' /\ excused' \in BOOLEAN
      BY <1>c, <2>2, <3>1, <3>2
    <3> QED
      BY <1>b, <1>m, <1>t, <2>2, <3>1, <3>2, <3>3 DEF VaultTypes
  <2> QED
    BY <1>1, <2>1, <2>2 DEF Import
<1>2. CASE CreateSecret
  <2>1. /\ Schedule(primary') /\ TokensKept /\ Changes
        /\ UNCHANGED <<sibling, vaulted, tells, manual, proxy, excused>>
        /\ ~ Here /\ primary' = [spec |-> TRUE, exp |-> Expiry, status |-> "fine"]
    BY <1>2 DEF CreateSecret, Creates
  <2>2. FollowsOK' /\ excused' \in BOOLEAN
    BY <1>c, <2>1
  <2> QED
    BY <1>b, <1>m, <1>t, <2>1, <2>2 DEF VaultTypes
<1>3. CASE Reconnect
  <2>1. /\ Schedule(primary') /\ TokensKept /\ Changes /\ UNCHANGED <<sibling, tells, manual, proxy>>
    BY <1>3 DEF Reconnect
  <2>2. primary' \in Metadata
    BY <1>3, <1>m, <1>t DEF Reconnect, VaultTypes, Here
  <2>3. CASE stored \in Tokens /\ sibling
    <3>1. vaulted' = stored /\ excused' = (stored \notin live) /\ excused' \in BOOLEAN
      BY <1>3, <2>3 DEF Reconnect
    <3>2. FollowsOK'
      BY <1>k, <2>1, <2>3, <3>1 DEF FollowsOK
    <3> QED
      BY <1>b, <1>t, <2>1, <2>2, <2>3, <3>1, <3>2 DEF VaultTypes
  <2>4. CASE ~ (stored \in Tokens /\ sibling)
    <3>1. vaulted' = vaulted /\ Loses({"loop"})
      BY <1>3, <2>4 DEF Reconnect
    <3>2. FollowsOK' /\ excused' \in BOOLEAN
      BY <1>c, <2>1, <3>1
    <3> QED
      BY <1>b, <1>t, <2>1, <2>2, <3>1, <3>2 DEF VaultTypes
  <2> QED
    BY <2>3, <2>4
<1>4. CASE UpdateSecret
  <2>1. /\ Schedule(primary) /\ TokensKept /\ Changes /\ Loses({"loop"}) /\ primary.spec
        /\ UNCHANGED <<primary, sibling, vaulted, tells, manual, proxy>>
    BY <1>4 DEF UpdateSecret
  <2>2. FollowsOK' /\ excused' \in BOOLEAN
    BY <1>c, <2>1
  <2>3. primary' \in Metadata
    BY <1>m, <1>t, <2>1 DEF VaultTypes
  <2> QED
    BY <1>b, <1>t, <2>1, <2>2, <2>3 DEF VaultTypes
<1>5. CASE DeleteSecret
  <2>1. /\ primary' = Absent /\ task' = "off" /\ lock' = "none" /\ healed' = FALSE
        /\ Done({"loop"}) /\ Loses({"loop"}) /\ TokensKept /\ Changes
        /\ UNCHANGED <<sibling, vaulted, tells, manual, proxy>>
    BY <1>5 DEF DeleteSecret
  <2>2. /\ TokensOK'
        /\ \A c \in Callers : /\ c \in {"loop"} => Free(c)' /\ ~ Granted(c)'
                              /\ c \notin {"loop"} => sent'[c] = sent[c] /\ ans'[c] = ans[c]
    BY <1>k, <1>n, <1>w, <2>1, OthersDone
  <2>3. /\ excused => excused' /\ excused' \in BOOLEAN
        /\ vaulted \notin live /\ (\E c \in {"loop"} : Granted(c)) => excused'
    BY <1>t, <2>1 DEF Loses, VaultTypes
  <2>4. FollowsOK'
    BY <1>k, <1>w, <2>1, <2>2, <2>3, FollowsStays DEF VaultOK
  <2>5. VaultTypes'
    BY <1>t, <2>1, <2>3 DEF VaultTypes, Places, Loses
  <2>6. LoopOK' /\ ProxyOK' /\ GaveUpIsShown'
    BY <1>m, <1>w, <2>1, <2>2 DEF VaultOK, LoopOK, ProxyOK, GaveUpIsShown, Granted
  <2> QED
    BY <2>2, <2>4, <2>5, <2>6 DEF VaultOK
<1>6. CASE DeleteSibling
  <2>1. /\ sibling' = FALSE /\ vaulted' = NoToken /\ excused' = FALSE /\ TokensKept /\ Changes
        /\ UNCHANGED <<sent, ans, primary, tells, task, lock, manual, proxy, healed>>
    BY <1>6 DEF DeleteSibling
  <2>2. TokensOK'
    BY <1>n, <2>1 DEF TokensOK, TokenTypes, QuietOK, ServerOK, Free, TokensKept
  <2>3. VaultTypes'
    BY <1>t, <2>1 DEF VaultTypes
  <2>4. LoopOK' /\ ProxyOK' /\ GaveUpIsShown' /\ FollowsOK'
    BY <2>1 DEF VaultOK, LoopOK, ProxyOK, GaveUpIsShown, FollowsOK, Here, Free, Granted
  <2> QED
    BY <2>2, <2>3, <2>4 DEF VaultOK
\* A step that leaves the requests alone, or asks.
<1>q. ASSUME TokensKept, UNCHANGED <<sibling, vaulted, excused>>, VaultTypes', GaveUpIsShown',
             Here' = Here, proxy'.at = "patching" => proxy.at = "patching",
             changes' = changes,
             \/ UNCHANGED <<sent, ans>>
             \/ \E c \in Others, t \in Tokens \union {NoToken} : Asks(c, t) /\ (c = "loop" => Here)
      PROVE  Goal
  <2>1. CASE UNCHANGED <<sent, ans>>
    <3>1. TokensOK'
      BY <1>q, <2>1, SameTokens DEF tokenVars, TokensKept
    <3>2. LoopOK' /\ ProxyOK' /\ FollowsOK'
      BY <1>q, <1>k, <2>1 DEF VaultOK, LoopOK, ProxyOK, FollowsOK, Free, Granted, Renews
    <3> QED
      BY <1>q, <3>1, <3>2 DEF VaultOK
  <2>2. ASSUME NEW c \in Others, NEW t \in Tokens \union {NoToken}, Asks(c, t), c = "loop" => Here PROVE Goal
    <3>1. /\ TokensOK' /\ Free(c) /\ ans[c] = NoToken /\ ans' = ans
          /\ \A d \in Callers : d # c => sent'[d] = sent[d]
      BY <1>q, <2>2, OthersAsk
    <3>2. LoopOK' /\ ProxyOK'
      BY <1>q, <1>w, <2>2, <3>1 DEF VaultOK, LoopOK, ProxyOK, Free, Granted
    <3>3. FollowsOK'
      BY <1>q, <1>k, <1>l, <3>1, Who DEF VaultOK, FollowsOK, Granted, Renews
    <3> QED
      BY <1>q, <3>1, <3>2, <3>3 DEF VaultOK
  <2> QED
    BY <1>q, <2>1, <2>2
<1>7. CASE ExpiryNears
  <2>1. /\ primary' = [primary EXCEPT !.exp = "due"] /\ primary.exp = "fresh" /\ UNCHANGED tokenVars
        /\ UNCHANGED <<sibling, vaulted, tells, task, lock, manual, proxy, changes, excused, healed>>
    BY <1>7 DEF ExpiryNears
  <2>2. primary \in Metadata
    BY <1>t, <2>1 DEF VaultTypes, Absent
  <2>3. primary' \in Metadata /\ primary'.spec = primary.spec /\ primary'.status = primary.status
    BY <2>1, <2>2 DEF Metadata
  <2>4. VaultTypes' /\ Here' = Here /\ GaveUpIsShown'
    BY <1>m, <1>t, <2>1, <2>2, <2>3 DEF VaultTypes, Here, VaultOK, GaveUpIsShown
  <2> QED
    BY <1>q, <2>1, <2>4 DEF tokenVars, TokensKept
<1>8. CASE LoopPosts
  <2>1. /\ Asks("loop", vaulted) /\ TokensKept /\ task' \in {"retrying", "posting"} /\ lock' = "loop"
        /\ UNCHANGED <<primary, sibling, vaulted, tells, manual, proxy, changes, excused, healed>>
        /\ primary.spec
    BY <1>8 DEF LoopPosts, CanRefresh
  <2>2. VaultTypes' /\ Here' = Here /\ Here /\ GaveUpIsShown'
    BY <1>m, <1>t, <2>1 DEF VaultTypes, Here, GaveUpIsShown, Places
  <2> QED
    BY <1>q, <1>t, <1>w, <2>1, <2>2 DEF VaultTypes
<1>g. ASSUME NEW first \in BOOLEAN, TryFails(first), first => task' # "off", healed' = healed
      PROVE  /\ primary' \in Metadata \union {Absent} /\ task' \in Places /\ Here' = Here /\ GaveUpIsShown'
  <2>1. CASE first
    BY <1>g, <1>t, <2>1 DEF TryFails, VaultTypes, Places, Here, GaveUpIsShown
  <2>2. CASE ~ first
    <3>1. task' = "off" /\ primary' = GiveUp(primary)
      BY <1>g, <2>2 DEF TryFails
    <3>2. CASE primary.spec
      <4>1. primary \in Metadata /\ primary' = [primary EXCEPT !.status = "failed"]
        BY <1>m, <1>t, <3>1, <3>2 DEF GiveUp, VaultTypes
      <4>2. primary' \in Metadata /\ primary'.status = "failed"
        BY <4>1 DEF Metadata, Statuses
      <4> QED
        BY <1>m, <3>1, <4>1, <4>2 DEF Here, GaveUpIsShown, Places
    <3>3. CASE ~ primary.spec
      BY <1>t, <3>1, <3>3 DEF GiveUp, VaultTypes, Here, GaveUpIsShown, Places
    <3> QED
      BY <3>2, <3>3
  <2> QED
    BY <2>1, <2>2
<1>9. CASE LoopCannot
  <2>1. /\ TryFails(task # "resting") /\ UNCHANGED tokenVars
        /\ UNCHANGED <<sibling, vaulted, tells, lock, manual, proxy, changes, excused, healed>>
    BY <1>9 DEF LoopCannot
  <2>2. /\ primary' \in Metadata \union {Absent} /\ task' \in Places /\ Here' = Here /\ GaveUpIsShown'
    BY <1>g, <2>1 DEF TryFails
  <2>3. VaultTypes'
    BY <1>t, <2>1, <2>2 DEF VaultTypes
  <2> QED
    BY <1>q, <2>1, <2>2, <2>3 DEF tokenVars, TokensKept
\* One of the others is done without a new token in the vault.
<1>d. ASSUME NEW c \in {"loop", "manual", "proxy"}, Done({c}), Loses({c}), TokensKept, changes' = changes,
             UNCHANGED <<sibling, vaulted, tells>>,
             primary' \in Metadata \union {Absent}, task' \in Places, lock' \in {lock, "none"},
             manual' \in {"off", "posting"}, proxy' \in Sidecars, healed' \in BOOLEAN,
             Here' = Here, proxy'.at = "patching" => proxy.at = "patching" /\ c # "proxy", GaveUpIsShown'
      PROVE  Goal
  <2>1. /\ TokensOK'
        /\ \A d \in Callers : /\ d \in {c} => Free(d)' /\ ~ Granted(d)'
                              /\ d \notin {c} => sent'[d] = sent[d] /\ ans'[d] = ans[d]
    BY <1>d, <1>k, <1>n, <1>w, OthersDone
  <2>2. /\ excused => excused' /\ excused' \in BOOLEAN
        /\ vaulted \notin live /\ (\E d \in {c} : Granted(d)) => excused'
    BY <1>d, <1>t DEF Loses, VaultTypes
  <2>3. FollowsOK'
    BY <1>d, <1>k, <1>w, <2>1, <2>2, FollowsStays DEF VaultOK
  <2>4. VaultTypes'
    BY <1>d, <1>t, <2>2 DEF VaultTypes, Loses
  <2>5. LoopOK' /\ ProxyOK'
    BY <1>d, <1>w, <2>1 DEF VaultOK, LoopOK, ProxyOK, Granted, Free
  <2> QED
    BY <1>d, <2>1, <2>3, <2>4, <2>5 DEF VaultOK
\* One of the others is done and has brought a token.
<1>r. ASSUME NEW c \in {"loop", "manual", "proxy"}, Granted(c), Rotated(c), Done({c}), TokensKept, changes' = changes,
             UNCHANGED <<sibling, tells>>,
             primary' \in Metadata \union {Absent}, task' \in Places, lock' \in {lock, "none"},
             manual' \in {"off", "posting"}, proxy' \in Sidecars, healed' \in BOOLEAN,
             Here' = Here, proxy'.at = "patching" => proxy.at = "patching" /\ c # "proxy", GaveUpIsShown'
      PROVE  Goal
  <2>1. /\ TokensOK'
        /\ \A d \in Callers : /\ d \in {c} => Free(d)' /\ ~ Granted(d)'
                              /\ d \notin {c} => sent'[d] = sent[d] /\ ans'[d] = ans[d]
    BY <1>r, <1>k, <1>n, <1>w, OthersDone
  <2>2. vaulted' \in Tokens \union {NoToken} /\ excused' \in BOOLEAN
    BY <1>r, <1>t DEF Rotated, Granted, VaultTypes
  <2>3. FollowsOK'
    BY <1>r, <1>k, <1>w, <2>1, RotatedFollows DEF VaultOK
  <2>4. VaultTypes'
    BY <1>r, <1>t, <2>2 DEF VaultTypes
  <2>5. LoopOK' /\ ProxyOK'
    BY <1>r, <1>w, <2>1 DEF VaultOK, LoopOK, ProxyOK, Granted, Free
  <2> QED
    BY <1>r, <2>1, <2>3, <2>4, <2>5 DEF VaultOK
<1>e. Recorded => /\ primary' \in Metadata \union {Absent} /\ Here' = Here
                  /\ primary'.spec => Here
  <2>1. [spec |-> TRUE, status |-> "fine", exp |-> IF tells THEN "fresh" ELSE primary.exp] \in Metadata \/ ~ Here
    BY <1>t DEF VaultTypes, Here, Metadata, Statuses
  <2> QED
    BY <1>m, <1>t, <2>1 DEF Recorded, VaultTypes, Here
<1>10. CASE LoopSucceeds
  <2>1. /\ Granted("loop") /\ Rotated("loop") /\ Recorded /\ task' = "asleep" /\ Frees("loop") /\ Done({"loop"})
        /\ TokensKept /\ UNCHANGED <<sibling, tells, manual, proxy, changes, healed>>
    BY <1>10 DEF LoopSucceeds
  <2>2. lock' \in {lock, "none"} /\ task' \in Places /\ GaveUpIsShown' /\ proxy' \in Sidecars
        /\ manual' \in {"off", "posting"} /\ healed' \in BOOLEAN
    BY <1>t, <2>1 DEF Frees, Places, GaveUpIsShown, VaultTypes
  <2> QED
    BY <1>e, <1>r, <2>1, <2>2
<1>11. CASE LoopFails
  <2>1. /\ TryFails(task = "posting") /\ Frees("loop") /\ Done({"loop"}) /\ Loses({"loop"})
        /\ TokensKept /\ UNCHANGED <<sibling, vaulted, tells, manual, proxy, changes, healed>>
    BY <1>11 DEF LoopFails
  <2>2. /\ primary' \in Metadata \union {Absent} /\ task' \in Places /\ Here' = Here /\ GaveUpIsShown'
    BY <1>g, <2>1 DEF TryFails
  <2>3. lock' \in {lock, "none"} /\ proxy' \in Sidecars /\ manual' \in {"off", "posting"} /\ healed' \in BOOLEAN
    BY <1>t, <2>1 DEF Frees, VaultTypes
  <2> QED
    BY <1>d, <2>1, <2>2, <2>3
<1>12. CASE ManualPosts
  <2>1. /\ Asks("manual", vaulted) /\ TokensKept /\ manual' = "posting" /\ lock' = "manual"
        /\ UNCHANGED <<primary, sibling, vaulted, tells, task, proxy, changes, excused, healed>>
    BY <1>12 DEF ManualPosts
  <2>2. VaultTypes' /\ Here' = Here /\ GaveUpIsShown'
    BY <1>t, <2>1 DEF VaultTypes, Here, VaultOK, GaveUpIsShown
  <2> QED
    BY <1>q, <1>t, <1>w, <2>1, <2>2 DEF VaultTypes
<1>h. Renewed /\ Heals => task' \in Places /\ healed' \in BOOLEAN /\ (task' = "off" => healed')
  BY <1>t DEF Renewed, Heals, VaultTypes, Places
<1>13. CASE ManualSucceeds
  <2>1. /\ Granted("manual") /\ Rotated("manual") /\ Recorded /\ Renewed /\ Heals /\ manual' = "off"
        /\ Frees("manual") /\ Done({"manual"}) /\ TokensKept /\ UNCHANGED <<sibling, tells, proxy, changes>>
    BY <1>13 DEF ManualSucceeds
  <2>2. lock' \in {lock, "none"} /\ GaveUpIsShown' /\ proxy' \in Sidecars
    BY <1>h, <1>t, <2>1 DEF Frees, GaveUpIsShown, VaultTypes
  <2> QED
    BY <1>e, <1>h, <1>r, <2>1, <2>2
<1>14. CASE ManualFails
  <2>1. /\ manual' = "off" /\ Frees("manual") /\ Done({"manual"}) /\ Loses({"manual"}) /\ TokensKept
        /\ UNCHANGED <<primary, sibling, vaulted, tells, task, proxy, changes, healed>>
    BY <1>14 DEF ManualFails
  <2>2. /\ lock' \in {lock, "none"} /\ GaveUpIsShown' /\ Here' = Here /\ proxy' \in Sidecars
        /\ primary' \in Metadata \union {Absent} /\ task' \in Places /\ healed' \in BOOLEAN
    BY <1>t, <2>1 DEF Frees, GaveUpIsShown, VaultTypes, VaultOK, Here
  <2> QED
    BY <1>d, <2>1, <2>2
<1>15. CASE ProxyStarts
  <2>1. /\ proxy' = [at |-> "ready", tok |-> vaulted, status |-> primary.status] /\ ProxyOnly
        /\ primary.spec /\ UNCHANGED <<sent, ans, primary, vaulted, task, excused, healed>>
    BY <1>15 DEF ProxyStarts
  <2>2. primary \in Metadata
    BY <1>m, <1>t, <2>1 DEF VaultTypes
  <2>3. proxy' \in Sidecars /\ proxy'.at = "ready"
    BY <1>t, <2>1, <2>2 DEF VaultTypes, Sidecars, Metadata
  <2>4. VaultTypes' /\ Here' = Here /\ GaveUpIsShown'
    BY <1>t, <2>1, <2>3 DEF VaultTypes, Here, VaultOK, GaveUpIsShown, ProxyOnly
  <2> QED
    BY <1>q, <2>1, <2>3, <2>4 DEF ProxyOnly
<1>p. proxy \in Sidecars /\ proxy.tok \in Tokens \union {NoToken}
      /\ [proxy EXCEPT !.at = "posting"] \in Sidecars /\ [proxy EXCEPT !.at = "posting"].at = "posting"
      /\ [proxy EXCEPT !.at = "ready"] \in Sidecars /\ [proxy EXCEPT !.at = "ready"].at = "ready"
      /\ [proxy EXCEPT !.at = "patching"] \in Sidecars
  BY <1>t DEF VaultTypes, Sidecars
<1>16. CASE ProxyPosts
  <2>1. /\ proxy' = [proxy EXCEPT !.at = "posting"] /\ Asks("proxy", proxy.tok) /\ ProxyOnly
        /\ UNCHANGED <<primary, vaulted, task, excused, healed>>
    BY <1>16 DEF ProxyPosts
  <2>2. VaultTypes' /\ Here' = Here /\ GaveUpIsShown'
    BY <1>p, <1>t, <2>1 DEF VaultTypes, Here, VaultOK, GaveUpIsShown, ProxyOnly
  <2> QED
    BY <1>p, <1>q, <1>w, <2>1, <2>2 DEF ProxyOnly
<1>17. CASE ProxyFails
  <2>1. /\ proxy' = [proxy EXCEPT !.at = "ready"] /\ Done({"proxy"}) /\ Loses({"proxy"}) /\ ProxyOnly
        /\ UNCHANGED <<primary, vaulted, task, healed>>
    BY <1>17 DEF ProxyFails
  <2>2. /\ lock' \in {lock, "none"} /\ GaveUpIsShown' /\ Here' = Here /\ manual' \in {"off", "posting"}
        /\ primary' \in Metadata \union {Absent} /\ task' \in Places /\ healed' \in BOOLEAN
    BY <1>t, <2>1 DEF ProxyOnly, GaveUpIsShown, VaultTypes, VaultOK, Here
  <2> QED
    BY <1>d, <1>p, <2>1, <2>2 DEF ProxyOnly
<1>18. CASE ProxyPatches
  <2>1. /\ Granted("proxy") /\ proxy' = [proxy EXCEPT !.at = "patching"] /\ ProxyOnly
        /\ UNCHANGED <<sent, ans, vaulted, excused>>
        /\ \/ /\ Here /\ Renewed /\ Heals
              /\ primary' = [spec |-> TRUE, exp |-> "fresh", status |-> proxy.status]
           \/ UNCHANGED <<primary, task, healed>>
    BY <1>18 DEF ProxyPatches
  <2>2. [spec |-> TRUE, exp |-> "fresh", status |-> proxy.status] \in Metadata
    BY <1>p DEF Metadata, Sidecars
  <2>3. /\ Here' = Here /\ primary' \in Metadata \union {Absent} /\ task' \in Places /\ healed' \in BOOLEAN
        /\ GaveUpIsShown'
    <3>1. CASE UNCHANGED <<primary, task, healed>>
      BY <1>t, <3>1 DEF Here, VaultTypes, VaultOK, GaveUpIsShown
    <3>2. ASSUME Here, Renewed, Heals, primary' = [spec |-> TRUE, exp |-> "fresh", status |-> proxy.status]
          PROVE  /\ Here' = Here /\ primary' \in Metadata \union {Absent} /\ task' \in Places /\ healed' \in BOOLEAN
                 /\ GaveUpIsShown'
      BY <1>h, <1>m, <2>2, <3>2 DEF Here, GaveUpIsShown
    <3> QED
      BY <2>1, <3>1, <3>2
  <2>4. VaultTypes'
    BY <1>p, <1>t, <2>1, <2>3 DEF VaultTypes, ProxyOnly
  <2>5. TokensOK'
    BY <2>1, SameTokens DEF ProxyOnly, tokenVars, TokensKept
  <2>6. LoopOK' /\ ProxyOK' /\ FollowsOK'
    BY <1>k, <2>1, <2>3 DEF ProxyOnly, VaultOK, LoopOK, ProxyOK, FollowsOK, Free, Granted, Renews
  <2> QED
    BY <2>3, <2>4, <2>5, <2>6 DEF VaultOK
<1>19. CASE ProxyPatchesSibling
  <2>1. /\ proxy.at = "patching" /\ proxy' = [proxy EXCEPT !.at = "ready", !.tok = ans["proxy"]]
        /\ Done({"proxy"}) /\ ProxyOnly /\ UNCHANGED <<primary, task, healed>>
        /\ (Rotated("proxy") \/ (Loses({"proxy"}) /\ vaulted' = vaulted))
    BY <1>19 DEF ProxyPatchesSibling
  <2>2. Granted("proxy") /\ ans["proxy"] \in Tokens
    BY <2>1 DEF VaultOK, ProxyOK, Granted
  <2>3. proxy' \in Sidecars /\ proxy'.at = "ready"
    BY <1>p, <2>1, <2>2 DEF Sidecars
  <2>4. /\ lock' \in {lock, "none"} /\ GaveUpIsShown' /\ Here' = Here /\ manual' \in {"off", "posting"}
        /\ primary' \in Metadata \union {Absent} /\ task' \in Places /\ healed' \in BOOLEAN
        /\ TokensKept /\ changes' = changes /\ UNCHANGED <<sibling, tells>>
    BY <1>t, <2>1 DEF ProxyOnly, GaveUpIsShown, VaultTypes, VaultOK, Here
  <2> QED
    BY <1>d, <1>r, <2>1, <2>2, <2>3, <2>4
<1>20. CASE ProxyStops
  <2>1. /\ proxy' = NoProxy /\ Done({"proxy"}) /\ Loses({"proxy"}) /\ ProxyOnly
        /\ UNCHANGED <<primary, vaulted, task, healed>>
    BY <1>20 DEF ProxyStops
  <2>2. NoProxy \in Sidecars /\ NoProxy.at = "down"
    BY DEF NoProxy, Sidecars, Statuses
  <2>4. /\ lock' \in {lock, "none"} /\ GaveUpIsShown' /\ Here' = Here /\ manual' \in {"off", "posting"}
        /\ primary' \in Metadata \union {Absent} /\ task' \in Places /\ healed' \in BOOLEAN
        /\ TokensKept /\ changes' = changes /\ UNCHANGED <<sibling, tells>>
    BY <1>t, <2>1 DEF ProxyOnly, GaveUpIsShown, VaultTypes, VaultOK, Here
  <2> QED
    BY <1>d, <2>1, <2>2, <2>4
<1> QED
  BY <1>1, <1>2, <1>3, <1>4, <1>5, <1>6, <1>7, <1>8, <1>9, <1>10, <1>11, <1>12, <1>13, <1>14, <1>15,
     <1>16, <1>17, <1>18, <1>19, <1>20 DEF VaultNext

\* and so does a restart.
LEMMA RestartKeeps ==
  ASSUME TokensOK, VaultOK, ServerRestarts
  PROVE  TokensOK' /\ VaultOK'
<1>t. TokenTypes /\ VaultTypes
  BY DEF TokensOK, VaultOK
<1>1. /\ task' = (IF primary.spec THEN Scheduled(primary) ELSE "off") /\ lock' = "none" /\ manual' = "off"
      /\ healed' = FALSE /\ pending' = {} /\ Done(Callers \ {"proxy"}) /\ Loses({"loop", "manual"})
      /\ overlaps' = FALSE /\ Changes
      /\ UNCHANGED <<live, stored, client, primary, sibling, vaulted, tells, proxy>>
  BY DEF ServerRestarts
<1>2. changes' \in Nat
  BY <1>t, <1>1 DEF Changes, TokenTypes
<1>3. /\ TokensOK'
      /\ \A c \in Callers : /\ c \in Callers \ {"proxy"} => Free(c)' /\ ~ Granted(c)'
                            /\ c \notin Callers \ {"proxy"} => sent'[c] = sent[c] /\ ans'[c] = ans[c]
  <2>1. Server \in Callers \ {"proxy"}
    BY Who
  <2> QED
    BY <1>1, <1>2, <2>1, OthersDone
<1>4. VaultTypes'
  BY <1>t, <1>1 DEF VaultTypes, Places, Loses, Scheduled
<1>5. LoopOK' /\ ProxyOK' /\ GaveUpIsShown'
  BY <1>1, <1>3, Who DEF VaultOK, LoopOK, ProxyOK, GaveUpIsShown, Granted, Scheduled
<1>6. FollowsOK'
  <2> SUFFICES ASSUME sibling, vaulted # NoToken, vaulted \notin live, ~ excused'
               PROVE  Renews("proxy")' /\ "proxy" \in Others
    BY <1>1 DEF FollowsOK
  <2>1. PICK c \in Others : Renews(c)
    BY <1>1 DEF VaultOK, FollowsOK, Loses
  <2>2. c = "proxy"
    BY <1>1, <2>1 DEF Loses, Renews, Others
  <2> QED
    BY <1>3, <2>1, <2>2, Who DEF Renews, Granted
<1> QED
  BY <1>3, <1>4, <1>5, <1>6 DEF VaultOK

-----------------------------------------------------------------------------
(* The theorems.                                                           *)

\* The invariant in two parts.
LEMMA Parts == SecretsIInv <=> TokensOK /\ VaultOK
BY SecretsTypeParts DEF SecretsIInv, TokensOK, VaultOK

\* It holds at the start,
LEMMA SecretsInitIInv == SecretsInit => SecretsIInv
<1> SUFFICES ASSUME SecretsInit PROVE TokensOK /\ VaultOK
  BY Parts
<1>1. TokenTypes
  BY DEF SecretsInit, TokenInit, TokenTypes, Sendable, Receivable
<1>2. VaultTypes
  BY DEF SecretsInit, VaultTypes, Places, NoProxy, Sidecars, Statuses
<1>3. \A c \in Callers : sent[c] = NoToken /\ ans[c] = NoToken
  BY DEF SecretsInit, TokenInit
<1>4. QuietOK /\ ServerOK /\ LoopOK
  BY <1>3, Who DEF QuietOK, ServerOK, LoopOK, Free
<1>5. ProxyOK /\ FollowsOK /\ GaveUpIsShown
  BY DEF SecretsInit, ProxyOK, FollowsOK, GaveUpIsShown, NoProxy, Absent
<1> QED
  BY <1>1, <1>2, <1>4, <1>5 DEF TokensOK, VaultOK

\* every step keeps it,
LEMMA NextIInv == SecretsIInv /\ [SecretsNext]_vars => SecretsIInv'
<1>p. SecretsIInv' <=> TokensOK' /\ VaultOK'
  <2>1. SecretsTypeOK' <=> TokenTypes' /\ VaultTypes'
    BY DEF SecretsTypeOK, TokenTypes, VaultTypes, Sendable, Receivable, Metadata, Sidecars, Places
  <2> QED
    BY <2>1 DEF SecretsIInv, TokensOK, VaultOK
<1> SUFFICES ASSUME TokensOK, VaultOK, [SecretsNext]_vars PROVE TokensOK' /\ VaultOK'
  BY <1>p, Parts
<1>1. CASE TokenStep
  <2>1. TokensOK' /\ OthersStay /\ EndsFor
    BY <1>1, TokenStepKeeps
  <2>2. /\ UNCHANGED <<primary, sibling, vaulted, tells, task, lock, manual, proxy, healed>>
        /\ excused' = (excused \/ (vaulted \in live \ live' /\ \A c \in Others : ans'[c] = ans[c]))
    BY <1>1 DEF TokenStep
  <2>3. VaultTypes'
    BY <2>2 DEF VaultOK, VaultTypes
  <2>4. LoopOK' /\ GaveUpIsShown'
    BY <2>1, <2>2, Who DEF VaultOK, LoopOK, GaveUpIsShown, OthersStay, Free, Here
  <2>5. ProxyOK'
    BY <2>1, <2>2, Who, Values DEF VaultOK, ProxyOK, OthersStay, Granted
  <2>6. FollowsOK'
    <3> SUFFICES ASSUME sibling, vaulted # NoToken, vaulted \notin live', ~ excused'
                 PROVE  \E c \in Others : Renews(c)'
      BY <2>2 DEF FollowsOK
    <3>1. CASE vaulted \in live
      BY <2>1, <2>2, <3>1 DEF EndsFor
    <3>2. CASE vaulted \notin live
      <4>1. PICK c \in Others : Renews(c)
        BY <2>2, <3>2 DEF VaultOK, FollowsOK
      <4>2. ans[c] # NoToken
        BY <4>1, Values DEF Renews, Granted
      <4> QED
        BY <2>1, <4>1, <4>2 DEF OthersStay, Renews, Granted
    <3> QED
      BY <3>1, <3>2
  <2> QED
    BY <2>1, <2>3, <2>4, <2>5, <2>6 DEF VaultOK
<1>2. CASE UNCHANGED vars
  <2>1. TokensOK'
    BY <1>2, SameTokens DEF vars
  <2>2. UNCHANGED <<live, sent, ans>> /\ UNCHANGED secretVars
    BY <1>2 DEF vars, tokenVars
  <2>3. VaultTypes'
    BY <2>2 DEF VaultOK, VaultTypes, secretVars
  <2>4. LoopOK' /\ ProxyOK' /\ FollowsOK' /\ GaveUpIsShown'
    BY <2>2 DEF VaultOK, LoopOK, ProxyOK, FollowsOK, GaveUpIsShown, Renews, Granted, Free, Here, secretVars
  <2> QED
    BY <2>1, <2>3, <2>4 DEF VaultOK
<1> QED
  BY <1>1, <1>2, VaultKeeps, RestartKeeps DEF SecretsNext

\* so it always holds.
LEMMA AlwaysIInv == SecretsFairSpec => []SecretsIInv
BY SecretsInitIInv, NextIInv, PTL DEF SecretsFairSpec, SecretsSpec

\* The variables keep their shape.
THEOREM SecretsTypeCorrect == SecretsFairSpec => []SecretsTypeOK
<1>1. SecretsIInv => SecretsTypeOK
  BY DEF SecretsIInv
<1> QED
  BY <1>1, AlwaysIInv, PTL

\* VaultKeepsUp: whoever of the task, the user and the proxy is given a new refresh
\* token, it is written or on its way to the vault (_do_refresh, refresh_secret
\* and the addon's write-back), unless nobody could have written it.
THEOREM VaultFollows == SecretsFairSpec => []VaultKeepsUp
<1>1. SecretsIInv => VaultKeepsUp
  BY DEF SecretsIInv, FollowsOK, VaultKeepsUp, Renews
<1> QED
  BY <1>1, AlwaysIInv, PTL

\* GaveUpIsShown: a secret whose background task has ended says that its refresh
\* failed, unless it was refreshed since.
THEOREM FailureIsShown == SecretsFairSpec => []GaveUpIsShown
<1>1. SecretsIInv => GaveUpIsShown
  BY DEF SecretsIInv
<1> QED
  BY <1>1, AlwaysIInv, PTL

\* ErasedOnlyRefused: a refresh (refresh_token) erases the tokens of the server
\* only on an answer other than 200 to a refresh of those very tokens, or if an
\* authorisation has brought them meanwhile.
THEOREM TokensAreKept == SecretsFairSpec => ErasedOnlyRefused
<1> DEFINE RefusedTokens == ans[Server] = Rejected /\ (sent[Server] = stored \/ overlaps)
           Kept == (stored # NoToken /\ stored' = NoToken) => (Disconnect \/ RefusedTokens)
<1>1. SecretsIInv /\ [SecretsNext]_vars => [Kept]_vars
  <2> SUFFICES ASSUME SecretsIInv, SecretsNext, stored # NoToken, stored' = NoToken PROVE Disconnect \/ RefusedTokens
    BY DEF vars
  <2>1. stored # NoToken
    OBVIOUS
  <2>2. ~ VaultNext /\ ~ ServerRestarts
    BY <2>1 DEF VaultNext, ServerRestarts, Import, CreateSecret, Reconnect, UpdateSecret, DeleteSecret, DeleteSibling,
       ExpiryNears, LoopPosts, LoopSucceeds, LoopCannot, LoopFails, ManualPosts, ManualSucceeds, ManualFails,
       ProxyStarts, ProxyPosts, ProxyFails, ProxyPatches, ProxyPatchesSibling, ProxyStops, ProxyOnly, TokensKept, tokenVars
  <2>3. TokenStep
    BY <2>2 DEF SecretsNext
  <2>4. ASSUME NEW f \in Flows, StartFlow(f) \/ CompleteFlow(f) \/ ProviderGrants(f, Copies) \/ FlowFails(f)
        PROVE  stored' = stored
    BY <2>4 DEF StartFlow, CompleteFlow, ProviderGrants, FlowFails
  <2>5. ASSUME NEW f \in Flows, FlowCompletes(f) PROVE stored' # NoToken
    BY <2>5, Values DEF FlowCompletes, SetTokens
  <2>6. ASSUME NEW c, ProviderRotates(c, Copies) \/ ProviderKeeps(c) PROVE stored' = stored
    BY <2>6 DEF ProviderRotates, ProviderKeeps
  <2>7. RefreshToken \/ ProviderRejects \/ RefreshFails => stored' = stored
    BY DEF RefreshToken, ProviderRejects, RefreshFails
  <2>8. RefreshSucceeds => stored' # NoToken
    BY Values DEF RefreshSucceeds, SetTokens, Granted
  <2>9. ASSUME RefreshRejected PROVE RefusedTokens
    <3>1. ans[Server] = Rejected /\ ~ Free(Server)
      BY <2>9, Who, Values DEF RefreshRejected, SecretsIInv, QuietOK
    <3> QED
      BY <2>1, <3>1 DEF SecretsIInv, ServerOK
  <2> QED
    BY <2>1, <2>3, <2>4, <2>5, <2>6, <2>7, <2>8, <2>9 DEF TokenStep, TokenNext
<1> QED
  BY <1>1, AlwaysIInv, PTL DEF SecretsFairSpec, SecretsSpec, ErasedOnlyRefused
=============================================================================
