------------------------------ MODULE Hierarchy ------------------------------
(***************************************************************************)
(* The tree of minions of a legion: src/legion/overseer_controller.py with *)
(* the deletion of sessions in src/session_coordinator.py and the records  *)
(* of src/session_manager.py.                                              *)
(*                                                                         *)
(* An operation runs until it waits: for a client to end, for a pause of   *)
(* the code, or for a lock that another one holds.  The variable turn says *)
(* which operation is in the middle of such a stretch, during which no     *)
(* other one moves.  Operations call one another; stack holds the calls of *)
(* each, with what they have read before.                                  *)
(***************************************************************************)
EXTENDS Naturals, Sequences, FiniteSets, SequencesExt

CONSTANTS Sessions,    \* each created once
          Procs,       \* operations that may be under way at once
          Allowed,     \* bound: per process, the operations it may run
          MaxMinions,  \* max_concurrent_minions
          MaxCrossed,  \* bound: operations begun while others are under way
          None,
          Tree         \* _reparent_lock, among the locks of the sessions

Operations == {"spawn", "reparent", "dispose", "delete", "terminate"}
ASSUME AllowedAssumption == Allowed \in [Procs -> SUBSET Operations]
ASSUME MaxMinionsAssumption == MaxMinions \in Nat
ASSUME MaxCrossedAssumption == MaxCrossed \in Nat \ {0}
ASSUME NoneAssumption == None \notin Sessions \union Procs \union {Tree} /\ Tree \notin Sessions

VARIABLES born,       \* the sessions that have been created
          exists,     \* _active_sessions
          listed,     \* session_ids of the project
          parent,     \* per session: parent_overseer_id
          children,   \* per session: child_minion_ids
          level,      \* per session: overseer_level
          overseer,   \* the sessions with is_overseer
          registered, \* the sessions in capability_registry
          up,         \* _active_sdks
          lock,       \* per session, and of the tree: who holds it
          turn,       \* the process that runs
          stack,      \* per process: its calls, the innermost last
          crossed,    \* history: the operations that have overlapped
          failed      \* history: the sessions whose deletion did not succeed
treeVars == <<exists, listed, parent, children, level, overseer, registered>>
procVars == <<lock, turn, stack>>
hierVars == <<born, treeVars, up, procVars, crossed, failed>>

Idle(p) == stack[p] = <<>>
Top(p) == Last(stack[p])

\* A call: what it does, to which session, under which parent, where it is,
\* the lock it needs next, and what it has read.
Call(op, s, par, pc) ==
  [op |-> op, s |-> s, par |-> par, pc |-> pc, on |-> None,
   kids |-> {}, todo |-> {}, hard |-> FALSE, found |-> TRUE, ok |-> TRUE]

\* Whom one comes to from s, step by step, where next has the steps from each:
\* no set without t has the steps from s and the steps from its members.
Reach(next, s) ==
  {t \in Sessions : \A D \in SUBSET (Sessions \ {t}) :
     next[s] \subseteq D => \E d \in D : ~ next[d] \subseteq D}

\* _get_all_descendants, which goes down the lists of children.
Kids == [s \in Sessions |-> IF s \in exists THEN children[s] \intersect exists ELSE {}]
Descendants(s) == Reach(Kids, s)

\* Bound: nothing is begun or goes on once minions are below themselves, where
\* the code goes round until Python's recursion limit ends it.
Circular == \E s \in exists : s \in Descendants(s)

\* Who is below a minion, and the minion itself: those its tools may give a
\* child, dispose of or move.
Subtree(s) == Descendants(s) \union {s}

Overseers == [s \in Sessions |-> IF s \in exists THEN {parent[s]} \ {None} ELSE {}]
Ancestors(s) == Reach(Overseers, s)

\* get_visible_minions: whom a minion sees, by the parents' and the children's
\* lists, where a list may have one that is gone.
Visible(s) ==
  IF s \notin exists THEN {}
  ELSE {s} \union Ancestors(s) \union (UNION {children[d] : d \in Subtree(s)})
           \union (IF parent[s] \in exists THEN children[parent[s]] ELSE {})

\* validate_comm_target, for a minion; the user may write to anyone.
MayWrite(s, t) == t \in Visible(s)

\* list_minions, and search_capability, for the capability that all of them have.
Listed(s) == Visible(s) \intersect exists
Matching == registered
Found(s) == {t \in Matching : t \in Visible(s) /\ t \in exists}

\* assemble_minion_hierarchy shows a session under its parent, and at the root
\* when that is gone.
ShownUnder(s) == {c \in exists : parent[c] = s}
ShownAtRoot == {c \in exists : parent[c] \notin exists}

Alone(p) == \A q \in Procs \ {p} : Idle(q)

\* The shape of the tree is promised of operations that do not overlap and that
\* the server outlives: crossed counts those that do.  Bound: once they have,
\* nothing is begun when they have ended.
Begins(p, f) ==
  /\ turn = None /\ Idle(p) /\ f.op \in Allowed[p] /\ ~ Circular
  /\ IF Alone(p) THEN crossed = 0 ELSE crossed < MaxCrossed
  /\ crossed' = IF Alone(p) THEN 0 ELSE crossed + 1
  /\ stack' = [stack EXCEPT ![p] = <<f>>] /\ turn' = p

\* p is in its innermost call at pc, has the lock it needs for the moment, and
\* either runs or comes out of a wait.  asyncio hands a lock to those who wait
\* for it first.
Awaited(p) == \E q \in Procs \ {p} : ~ Idle(q) /\ Top(q).on = Top(p).on
Free(p) ==
  Top(p).on # None => lock[Top(p).on] = None /\ (turn = p => ~ Awaited(p))
At(p, op, pc) ==
  /\ turn \in {None, p} /\ ~ Idle(p)
  /\ Top(p).op = op /\ Top(p).pc = pc /\ Free(p) /\ ~ Circular

Goes(p, f) == stack' = [stack EXCEPT ![p] = Append(Front(@), f)]
Continues(p, f) == Goes(p, f) /\ turn' = p
Waits(p, f) == Goes(p, f) /\ turn' = None
\* The call f goes on at its pc when the call g has returned.
Calls(p, f, g) ==
  /\ stack' = [stack EXCEPT ![p] = Append(Append(Front(@), f), g)] /\ turn' = p
Returns(p, ok) ==
  LET out == Front(stack[p]) IN
  IF out = <<>> THEN stack' = [stack EXCEPT ![p] = <<>>] /\ turn' = None
  ELSE /\ stack' = [stack EXCEPT ![p] = Append(Front(out), [Last(out) EXCEPT !.ok = ok])]
       /\ turn' = p
\* An exception that none of the calls catches.
Raises(p) == stack' = [stack EXCEPT ![p] = <<>>] /\ turn' = None

\* A lock that is not free is waited for.
WaitForLock(p) ==
  /\ turn = p /\ ~ Free(p) /\ turn' = None
  /\ UNCHANGED <<born, treeVars, up, lock, stack, crossed, failed>>

\* update_session, which does nothing when the session is gone.
SetChildren(s, kids) == children' = IF s \in exists THEN [children EXCEPT ![s] = kids] ELSE children
SetOverseer(s) == overseer' = IF s \in exists THEN overseer \union {s} ELSE overseer
ResetOverseer(s) == overseer' = overseer \ {s}

\* The capability registry, in which every session has one entry:
\* register_capability, unregister_minion_capabilities and
\* rebuild_capability_registry.
Register(s) == registered' = registered \union ({s} \intersect exists)
Unregister(s) == registered' = registered \ {s}
Rebuild == registered' = exists

-----------------------------------------------------------------------------
(* Creation: create_minion_for_user and spawn_minion.                      *)

HasRoom == Cardinality(exists) < MaxMinions

Add(s, par, l) ==
  /\ s \notin born /\ born' = born \union {s}
  /\ exists' = exists \union {s} /\ listed' = listed \union {s}
  /\ parent' = [parent EXCEPT ![s] = par]
  /\ level' = [level EXCEPT ![s] = l]

CreateMinion(s) ==
  /\ turn = None /\ HasRoom
  /\ Add(s, None, 0)
  /\ registered' = registered \union {s}
  /\ UNCHANGED <<children, overseer, up, procVars, crossed, failed>>

\* Where the parent is updated next: first its flag, then its list.
MarkOrLink(f) ==
  IF f.par \in overseer
  THEN [f EXCEPT !.pc = "link", !.on = f.par, !.kids = children[f.par] \union {f.s}]
  ELSE [f EXCEPT !.pc = "mark", !.on = f.par]

SpawnMinion(p, par, s) ==
  /\ par \in exists /\ HasRoom
  /\ Add(s, par, level[par] + 1)
  /\ Begins(p, MarkOrLink(Call("spawn", s, par, "mark")))
  /\ UNCHANGED <<children, overseer, registered, up, lock, failed>>

\* The tool: the parent is the minion that calls it, or one below it.
SpawnByMinion(p, by, par, s) ==
  /\ by \in up \intersect exists /\ par \in Subtree(by)
  /\ SpawnMinion(p, par, s)

SpawnMarks(p) ==
  LET f == Top(p) IN
  /\ At(p, "spawn", "mark")
  /\ SetOverseer(f.par)
  /\ Continues(p, [f EXCEPT !.pc = "link", !.kids = children[f.par] \union {f.s}])
  /\ UNCHANGED <<born, exists, listed, parent, children, level, registered, up, lock, crossed, failed>>

\* The list of the parent is written, the capability registered and the minion
\* started, unless it is gone by then.
SpawnLinks(p) ==
  LET f == Top(p) IN
  /\ At(p, "spawn", "link")
  /\ SetChildren(f.par, f.kids)
  /\ Register(f.s)
  /\ up' = up \union ({f.s} \intersect exists)
  /\ Returns(p, TRUE)
  /\ UNCHANGED <<born, exists, listed, parent, level, overseer, lock, crossed, failed>>

StartSession(s) ==
  /\ turn = None /\ s \in listed \intersect exists /\ up' = up \union {s}
  /\ UNCHANGED <<born, treeVars, procVars, crossed, failed>>

\* The tool of a minion, which may be one that is being deleted and has been
\* taken from the registry: its entry stays then until the server restarts.
UpdateExpertise(s) ==
  /\ turn = None /\ s \in up \intersect exists
  /\ Register(s)
  /\ IF s \in registered THEN UNCHANGED crossed
     ELSE crossed < MaxCrossed /\ crossed' = crossed + 1
  /\ UNCHANGED <<born, exists, listed, parent, children, level, overseer, up, procVars, failed>>

-----------------------------------------------------------------------------
(* terminate_session, and the part of delete_session that does the same     *)
(* and is called "close" here.                                             *)

EndCall(op, s) ==
  IF s \in up THEN Call(op, s, None, "client")
  ELSE [Call(op, s, None, "lock") EXCEPT !.on = s]
AtEnd(p, pc) == At(p, "terminate", pc) \/ At(p, "close", pc)

Terminate(p, s) ==
  /\ s \in exists
  /\ Begins(p, EndCall("terminate", s))
  /\ UNCHANGED <<born, treeVars, up, lock, failed>>

ClientAsked(p) ==
  /\ AtEnd(p, "client")
  /\ Waits(p, [Top(p) EXCEPT !.pc = "ending"])
  /\ UNCHANGED <<born, treeVars, up, lock, crossed, failed>>

\* A client that another operation has removed in the meantime raises; a
\* deletion pauses when it has ended its client.
ClientEnded(p) ==
  LET f == Top(p) IN
  /\ AtEnd(p, "ending")
  /\ up' = up \ {f.s}
  /\ IF f.s \notin up THEN Returns(p, FALSE)
     ELSE LET next == [f EXCEPT !.pc = "lock", !.on = f.s]
          IN  IF f.op = "close" THEN Waits(p, next) ELSE Continues(p, next)
  /\ UNCHANGED <<born, treeVars, lock, crossed, failed>>

\* SessionManager.terminate_session sleeps with the lock, unless the session is
\* terminated already.
SessionCloses(p) ==
  LET f == Top(p) IN
  /\ AtEnd(p, "lock") /\ f.s \in exists
  /\ lock' = [lock EXCEPT ![f.s] = p]
  /\ Waits(p, [f EXCEPT !.pc = "closing", !.on = None])
  /\ UNCHANGED <<born, treeVars, up, crossed, failed>>

SessionIsClosed(p) ==
  /\ AtEnd(p, "lock") /\ Returns(p, TRUE)
  /\ UNCHANGED <<born, treeVars, up, lock, crossed, failed>>

SessionClosed(p) ==
  /\ AtEnd(p, "closing")
  /\ lock' = [lock EXCEPT ![Top(p).s] = None]
  /\ Returns(p, TRUE)
  /\ UNCHANGED <<born, treeVars, up, crossed, failed>>

-----------------------------------------------------------------------------
(* delete_session.                                                         *)

\* Faulty: its children are left alone.
DeleteAlone(s) ==
  [Call("delete", s, None, "cascade") EXCEPT !.found = s \in exists]

DeleteCall(s) ==
  [Call("delete", s, None, "cascade")
     EXCEPT !.todo = IF s \in exists THEN children[s] ELSE {}, !.found = s \in exists]

Delete(p, s) ==
  /\ s \in exists
  /\ Begins(p, DeleteCall(s))
  /\ UNCHANGED <<born, treeVars, up, lock, failed>>

\* The children it has read are deleted one after another, whatever comes of it.
DeleteChild(p) ==
  LET f == Top(p) IN
  /\ At(p, "delete", "cascade")
  /\ \E c \in f.todo : Calls(p, [f EXCEPT !.todo = @ \ {c}], DeleteCall(c))
  /\ UNCHANGED <<born, treeVars, up, lock, crossed, failed>>

\* It is taken from the project, from its parent and from the registry, and its
\* client ended.
DeleteUnlinks(p) ==
  LET f == Top(p) IN
  /\ At(p, "delete", "cascade") /\ f.todo = {}
  /\ listed' = listed \ {f.s}
  /\ IF f.s \in listed THEN Unregister(f.s) ELSE UNCHANGED registered
  /\ IF f.found
     THEN /\ children' = [s \in Sessions |-> IF s \in exists /\ s = parent[f.s]
                                             THEN children[s] \ {f.s} ELSE children[s]]
          /\ Calls(p, [f EXCEPT !.pc = "closed"], EndCall("close", f.s))
     ELSE /\ Continues(p, [f EXCEPT !.pc = "closed"]) /\ UNCHANGED children
  /\ UNCHANGED <<born, exists, parent, level, overseer, up, lock, crossed, failed>>

\* The session is archived and its files are closed, with pauses in between;
\* not when an exception has ended the deletion.
DeletePauses(p) ==
  LET f == Top(p) IN
  /\ At(p, "delete", "closed")
  /\ IF f.ok
     THEN Waits(p, [f EXCEPT !.pc = "erase", !.on = f.s]) /\ UNCHANGED failed
     ELSE Returns(p, FALSE) /\ failed' = failed \union {f.s}
  /\ UNCHANGED <<born, treeVars, up, lock, crossed>>

\* Faulty: a session that has been started again in the pauses is spared, and
\* the caller told that it is gone.
ErasesUnlessUp(p) ==
  LET f == Top(p) IN
  /\ At(p, "delete", "erase")
  /\ exists' = exists \ ({f.s} \ up)
  /\ Returns(p, TRUE)
  /\ UNCHANGED <<born, listed, parent, children, level, overseer, registered,
                 up, lock, crossed, failed>>

DeleteErases(p) ==
  LET f == Top(p) IN
  /\ At(p, "delete", "erase")
  /\ exists' = exists \ {f.s}
  /\ Returns(p, f.s \in exists)
  /\ UNCHANGED <<born, listed, parent, children, level, overseer, registered,
                 up, lock, crossed, failed>>

-----------------------------------------------------------------------------
(* dispose_minion.                                                         *)

DisposeCall(par, s, hard) ==
  [Call("dispose", s, par, "children") EXCEPT !.todo = children[s], !.hard = hard]

\* By the parent itself or by an ancestor of it.
Dispose(p, by, par, s, hard) ==
  /\ by \in up \intersect exists /\ par \in Subtree(by)
  /\ s \in children[par] \intersect exists
  /\ Begins(p, DisposeCall(par, s, hard))
  /\ UNCHANGED <<born, treeVars, up, lock, failed>>

\* A child it has read that is not there any more is passed over; one that is
\* somebody else's by now ends the whole disposal.
DisposeChild(p) ==
  LET f == Top(p) IN
  /\ At(p, "dispose", "children")
  /\ \E c \in f.todo :
       LET rest == [f EXCEPT !.todo = @ \ {c}] IN
       IF c \notin exists THEN Continues(p, rest)
       ELSE IF f.s \in exists /\ c \in children[f.s] THEN Calls(p, rest, DisposeCall(f.s, c, f.hard))
       ELSE Raises(p)
  /\ UNCHANGED <<born, treeVars, up, lock, crossed, failed>>

DisposeEnds(p) ==
  LET f == Top(p) IN
  /\ At(p, "dispose", "children") /\ f.todo = {}
  /\ Calls(p, [f EXCEPT !.pc = "ended"], EndCall("terminate", f.s))
  /\ UNCHANGED <<born, treeVars, up, lock, crossed, failed>>

\* Without delete the minion keeps its place, and its entry in the registry,
\* which is looked for by an id among pairs.
DisposeKeeps(p) ==
  /\ At(p, "dispose", "ended") /\ ~ Top(p).hard
  /\ Returns(p, TRUE)
  /\ UNCHANGED <<born, treeVars, up, lock, crossed, failed>>

DisposeUnlinks(p) ==
  LET f == Top(p)
      kids == children[f.par] \ {f.s} IN
  /\ At(p, "dispose", "ended") /\ f.hard
  /\ Continues(p, IF f.s \in children[f.par]
                  THEN [f EXCEPT !.pc = "unlink", !.on = f.par, !.kids = kids]
                  ELSE IF kids = {} THEN [f EXCEPT !.pc = "unmark", !.on = f.par]
                  ELSE [f EXCEPT !.pc = "remove"])
  /\ UNCHANGED <<born, treeVars, up, lock, crossed, failed>>

DisposeWrites(p) ==
  LET f == Top(p) IN
  /\ At(p, "dispose", "unlink")
  /\ SetChildren(f.par, f.kids)
  /\ Continues(p, IF f.kids = {} THEN [f EXCEPT !.pc = "unmark"]
                  ELSE [f EXCEPT !.pc = "remove", !.on = None])
  /\ UNCHANGED <<born, exists, listed, parent, level, overseer, registered, up, lock, crossed, failed>>

DisposeUnmarks(p) ==
  LET f == Top(p) IN
  /\ At(p, "dispose", "unmark")
  /\ ResetOverseer(f.par)
  /\ Continues(p, [f EXCEPT !.pc = "remove", !.on = None])
  /\ UNCHANGED <<born, exists, listed, parent, children, level, registered, up, lock, crossed, failed>>

DisposeDeletes(p) ==
  LET f == Top(p) IN
  /\ At(p, "dispose", "remove")
  /\ Calls(p, [f EXCEPT !.pc = "over"], DeleteCall(f.s))
  /\ UNCHANGED <<born, treeVars, up, lock, crossed, failed>>

DisposeReturns(p) ==
  /\ At(p, "dispose", "over") /\ Returns(p, TRUE)
  /\ UNCHANGED <<born, treeVars, up, lock, crossed, failed>>

-----------------------------------------------------------------------------
(* reparent_minion.                                                        *)

\* What is checked before the lock is taken.
Reparent(p, s, par) ==
  /\ s \in exists /\ par \in exists \union {None} /\ par \notin {s, parent[s]}
  /\ par \notin Descendants(s)
  /\ Begins(p, [Call("reparent", s, par, "leave")
                  EXCEPT !.on = Tree, !.kids = {parent[s]} \ {None}])
  /\ UNCHANGED <<born, treeVars, up, lock, failed>>

\* The tool: a minion moves those below it, under itself or one of them.
ReparentByMinion(p, by, s, par) ==
  /\ by \in up \intersect exists /\ s \in Descendants(by) /\ par \in Subtree(by)
  /\ Reparent(p, s, par)

\* The list of the old parent is read without its lock, and written with it.
Leaves(p) ==
  LET f == Top(p) IN
  /\ At(p, "reparent", "leave")
  /\ lock' = [lock EXCEPT ![Tree] = p]
  /\ LET old == f.kids \intersect exists
         rest == UNION {children[o] \ {f.s} : o \in old}
     IN  Continues(p,
           IF old = {} THEN [f EXCEPT !.pc = "join", !.on = None, !.kids = {}]
           ELSE LET o == CHOOSE o \in old : TRUE IN
                IF f.s \in children[o]
                THEN [f EXCEPT !.pc = "leaving", !.on = o, !.kids = rest]
                ELSE IF rest = {} THEN [f EXCEPT !.pc = "unmark", !.on = o]
                ELSE [f EXCEPT !.pc = "join", !.on = None])
  /\ UNCHANGED <<born, treeVars, up, crossed, failed>>

LeavesOld(p) ==
  LET f == Top(p) IN
  /\ At(p, "reparent", "leaving")
  /\ SetChildren(f.on, f.kids)
  /\ Continues(p, IF f.kids = {} THEN [f EXCEPT !.pc = "unmark"]
                  ELSE [f EXCEPT !.pc = "join", !.on = None])
  /\ UNCHANGED <<born, exists, listed, parent, level, overseer, registered, up, lock, crossed, failed>>

UnmarksOld(p) ==
  LET f == Top(p) IN
  /\ At(p, "reparent", "unmark")
  /\ ResetOverseer(f.on)
  /\ Continues(p, [f EXCEPT !.pc = "join", !.on = None])
  /\ UNCHANGED <<born, exists, listed, parent, children, level, registered, up, lock, crossed, failed>>

MarkOrMove(f) ==
  IF f.par \in exists \ overseer THEN [f EXCEPT !.pc = "mark", !.on = f.par]
  ELSE [f EXCEPT !.pc = "move", !.on = f.s]

JoinsNew(p) ==
  LET f == Top(p) IN
  /\ At(p, "reparent", "join")
  /\ Continues(p, IF f.par \in exists /\ f.s \notin children[f.par]
                  THEN [f EXCEPT !.pc = "joining", !.on = f.par, !.kids = children[f.par] \union {f.s}]
                  ELSE MarkOrMove(f))
  /\ UNCHANGED <<born, treeVars, up, lock, crossed, failed>>

WritesNew(p) ==
  LET f == Top(p) IN
  /\ At(p, "reparent", "joining")
  /\ SetChildren(f.par, f.kids)
  /\ Continues(p, MarkOrMove(f))
  /\ UNCHANGED <<born, exists, listed, parent, level, overseer, registered, up, lock, crossed, failed>>

MarksNew(p) ==
  LET f == Top(p) IN
  /\ At(p, "reparent", "mark")
  /\ SetOverseer(f.par)
  /\ Continues(p, [f EXCEPT !.pc = "move", !.on = f.s])
  /\ UNCHANGED <<born, exists, listed, parent, children, level, registered, up, lock, crossed, failed>>

LevelUnder(par) == IF par = None THEN 0 ELSE IF par \in exists THEN level[par] + 1 ELSE 1
Moves(p) ==
  LET f == Top(p) IN
  /\ At(p, "reparent", "move")
  /\ parent' = IF f.s \in exists THEN [parent EXCEPT ![f.s] = f.par] ELSE parent
  /\ Continues(p, [f EXCEPT !.pc = "level", !.on = f.s, !.kids = children[f.s],
                            !.todo = {<<f.s, LevelUnder(f.par)>>}])
  /\ UNCHANGED <<born, exists, listed, children, level, overseer, registered, up, lock, crossed, failed>>

\* Faulty: the lock of the tree is not given back when the session is gone.
RelevelsIfThere(p) ==
  LET f == Top(p) IN
  /\ At(p, "reparent", "level")
  /\ \E l \in {x[2] : x \in {x \in f.todo : x[1] = f.on}} :
       LET rest == (f.todo \ {<<f.on, l>>}) \union {<<c, l + 1>> : c \in f.kids \intersect exists} IN
       /\ level' = IF f.on \in exists THEN [level EXCEPT ![f.on] = l] ELSE level
       /\ IF rest = {}
          THEN lock' = [lock EXCEPT ![Tree] = IF f.s \in exists THEN None ELSE @] /\ Returns(p, TRUE)
          ELSE /\ \E x \in rest : Continues(p, [f EXCEPT !.todo = rest, !.on = x[1],
                                                         !.kids = children[x[1]]])
               /\ UNCHANGED lock
  /\ UNCHANGED <<born, exists, listed, parent, children, overseer, registered, up, crossed, failed>>

\* _recompute_levels, one session after the other.
Relevels(p) ==
  LET f == Top(p) IN
  /\ At(p, "reparent", "level")
  /\ \E l \in {x[2] : x \in {x \in f.todo : x[1] = f.on}} :
       LET rest == (f.todo \ {<<f.on, l>>}) \union {<<c, l + 1>> : c \in f.kids \intersect exists} IN
       /\ level' = IF f.on \in exists THEN [level EXCEPT ![f.on] = l] ELSE level
       /\ IF rest = {}
          THEN lock' = [lock EXCEPT ![Tree] = None] /\ Returns(p, TRUE)
          ELSE /\ \E x \in rest : Continues(p, [f EXCEPT !.todo = rest, !.on = x[1],
                                                         !.kids = children[x[1]]])
               /\ UNCHANGED lock
  /\ UNCHANGED <<born, exists, listed, parent, children, overseer, registered, up, crossed, failed>>

-----------------------------------------------------------------------------
\* The server goes down and comes up: the records are read, what is not there
\* any more is taken from the project and from the overseers' lists, and the
\* registry is built from the records.
Reboot ==
  /\ turn = None
  /\ listed' = listed \intersect exists
  /\ children' = [s \in Sessions |-> IF s \in overseer THEN children[s] \intersect exists ELSE children[s]]
  /\ Rebuild
  /\ up' = {}
  /\ lock' = [x \in Sessions \union {Tree} |-> None]
  /\ stack' = [p \in Procs |-> <<>>]
  /\ crossed' = IF \A p \in Procs : Idle(p) THEN crossed ELSE MaxCrossed
  /\ failed' = failed \union (exists \ listed)
  /\ UNCHANGED <<born, exists, parent, level, overseer, turn>>

Init ==
  /\ born = {} /\ exists = {} /\ listed = {}
  /\ parent = [s \in Sessions |-> None]
  /\ children = [s \in Sessions |-> {}]
  /\ level = [s \in Sessions |-> 0]
  /\ overseer = {} /\ registered = {} /\ up = {}
  /\ lock = [x \in Sessions \union {Tree} |-> None]
  /\ turn = None
  /\ stack = [p \in Procs |-> <<>>]
  /\ crossed = 0 /\ failed = {}

Ending(p) ==
  \/ ClientAsked(p)
  \/ ClientEnded(p)
  \/ SessionCloses(p)
  \/ SessionIsClosed(p)
  \/ SessionClosed(p)
Deleting(p) == DeleteChild(p) \/ DeleteUnlinks(p) \/ DeletePauses(p) \/ DeleteErases(p)
Disposing(p) ==
  \/ DisposeChild(p)
  \/ DisposeEnds(p)
  \/ DisposeKeeps(p)
  \/ DisposeUnlinks(p)
  \/ DisposeWrites(p)
  \/ DisposeUnmarks(p)
  \/ DisposeDeletes(p)
  \/ DisposeReturns(p)
Reparenting(p) ==
  \/ Leaves(p)
  \/ LeavesOld(p)
  \/ UnmarksOld(p)
  \/ JoinsNew(p)
  \/ WritesNew(p)
  \/ MarksNew(p)
  \/ Moves(p)
  \/ Relevels(p)
GoesOn(p) ==
  \/ WaitForLock(p)
  \/ SpawnMarks(p)
  \/ SpawnLinks(p)
  \/ Ending(p)
  \/ Deleting(p)
  \/ Disposing(p)
  \/ Reparenting(p)

Next ==
  \/ \E s \in Sessions : CreateMinion(s) \/ StartSession(s) \/ UpdateExpertise(s)
  \/ \E p \in Procs, s \in Sessions :
       \/ \E by, par \in Sessions : SpawnByMinion(p, by, par, s)
       \/ \E by, par \in Sessions, hard \in BOOLEAN : Dispose(p, by, par, s, hard)
       \/ \E par \in Sessions \union {None} : Reparent(p, s, par)
       \/ \E by, par \in Sessions : ReparentByMinion(p, by, s, par)
       \/ Delete(p, s)
       \/ Terminate(p, s)
  \/ \E p \in Procs : GoesOn(p)
  \/ Reboot

Spec == Init /\ [][Next]_hierVars

-----------------------------------------------------------------------------
(* Properties.                                                             *)

\* The records keep their shape, and so do the calls: a deletion or a disposal
\* has sessions to do, a new numbering of levels has sessions with their levels,
\* and what spawns or disposes knows the parent.
Places ==
  {"mark", "link", "client", "ending", "lock", "closing", "cascade", "closed",
   "erase", "children", "ended", "unlink", "unmark", "remove", "over", "leave",
   "leaving", "join", "joining", "move", "level"}
Todo(op) == IF op = "reparent" THEN Sessions \X Nat ELSE Sessions
Frames ==
  {f \in [op : Operations \union {"close"}, s : Sessions, par : Sessions \union {None},
          pc : Places, on : Sessions \union {None, Tree}, kids : SUBSET Sessions,
          todo : SUBSET (Sessions \union (Sessions \X Nat)),
          hard : BOOLEAN, found : BOOLEAN, ok : BOOLEAN] :
     f.todo \subseteq Todo(f.op) /\ (f.op \in {"spawn", "dispose"} => f.par # None)}
TypeOK ==
  /\ exists \subseteq born /\ listed \subseteq born /\ born \subseteq Sessions
  /\ parent \in [Sessions -> Sessions \union {None}]
  /\ children \in [Sessions -> SUBSET Sessions]
  /\ level \in [Sessions -> Nat]
  /\ overseer \subseteq Sessions /\ registered \subseteq Sessions /\ up \subseteq Sessions
  /\ lock \in [Sessions \union {Tree} -> Procs \union {None}]
  /\ turn \in Procs \union {None}
  /\ stack \in [Procs -> Seq(Frames)]
  /\ crossed \in 0 .. MaxCrossed /\ failed \subseteq Sessions

\* As long as operations do not overlap, they leave a tree: parents and children
\* know one another, so that the page shows each minion under the one that lists
\* it; levels count from the root; who has children is an overseer; project and
\* registry have those that are there.  Whom a minion sees it finds by searching
\* and may write to, and that one may answer.
TreeIsSound ==
  crossed = 0 /\ (\A p \in Procs : Idle(p)) =>
    /\ listed = exists /\ registered = exists
    /\ \A s \in exists :
         /\ children[s] = ShownUnder(s) /\ (s \in ShownAtRoot => parent[s] = None)
         /\ children[s] # {} => s \in overseer
         /\ level[s] = IF parent[s] = None THEN 0 ELSE level[parent[s]] + 1
         /\ Listed(s) = Visible(s) /\ Found(s) = Visible(s)
         /\ \A t \in exists : MayWrite(s, t) => MayWrite(t, s)

\* A session that the project has lost is being deleted, or whoever deletes it
\* has been told that it did not succeed: no deletion stops half way unseen,
\* however it overlaps with others, with disposals and with terminations.
NoneHalfDeleted ==
  turn = None => \A s \in exists \ listed :
    s \in failed \/ \E p \in Procs : \E i \in DOMAIN stack[p] :
                       stack[p][i].op = "delete" /\ stack[p][i].s = s

\* Operations hold the lock of the tree, and the lock of a session across a
\* wait, while others wait for them: they never all wait for one another, and a
\* lock is held by somebody who is at work.
NobodyStuck ==
  turn = None /\ ~ Circular =>
    /\ (\E p \in Procs : ~ Idle(p)) => \E p \in Procs : ~ Idle(p) /\ Free(p)
    /\ \A x \in DOMAIN lock : lock[x] # None => ~ Idle(lock[x])

=============================================================================
