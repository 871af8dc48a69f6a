--------------------------- MODULE HierarchyProofs ---------------------------
(***************************************************************************)
(* Proofs about Hierarchy, for any number of sessions, of operations and   *)
(* of overlaps: the type invariant, that no deletion stops half way        *)
(* unseen, that the operations never wait in a circle, and that those that *)
(* do not overlap leave a tree (TreeIsSound).                              *)
(*                                                                         *)
(* A deletion is dropped from a stack when it returns, and could be when   *)
(* an exception empties the stack; only disposals raise, and they are      *)
(* called by disposals alone (StacksOK).  Who holds a lock is at the place *)
(* where it does (LocksOK): the lock of a session is held by one that      *)
(* waits for no lock, the lock of the tree by one that waits at most for   *)
(* the lock of a session.                                                  *)
(*                                                                         *)
(* An operation that runs alone is a recursion over the tree.  Solo says   *)
(* of every state in the middle of one: the calls are nested and go down   *)
(* the levels (Chain), and the records are a tree but for what the calls   *)
(* have done (TreeBut): taken out (LostAt, LooseAt), linked (Spawning) or  *)
(* not yet numbered (Moving).  Who is below whom is told by sets that are  *)
(* closed under the steps (Reach), so that nothing needs induction over    *)
(* the depth of a tree.                                                    *)
(***************************************************************************)
EXTENDS Hierarchy, TLAPS

-----------------------------------------------------------------------------
(* The parts of the invariant.                                             *)

\* A call in the stack q deletes the session s.
Deletes(q, s) == \E i \in DOMAIN q : q[i].op = "delete" /\ q[i].s = s
DeletedNow(s) == \E p \in Procs : Deletes(stack[p], s)
HalfOK == \A s \in exists \ listed : s \in failed \/ DeletedNow(s)

\* A disposal is called by nobody but disposals.
OnlyDisposals(q) ==
  \A i, j \in DOMAIN q : i < j /\ q[j].op = "dispose" => q[i].op = "dispose"
StacksOK == \A p \in Procs : OnlyDisposals(stack[p])

\* Who holds a lock is at the place where it does.
Holds(x, f) ==
  IF x = Tree THEN f.op = "reparent" /\ f.on # Tree
  ELSE f.op \in {"terminate", "close"} /\ f.pc = "closing" /\ f.on = None /\ f.s = x
LocksOK ==
  \A x \in Sessions \union {Tree} :
    lock[x] # None => ~ Idle(lock[x]) /\ Holds(x, Top(lock[x]))

-----------------------------------------------------------------------------
(* Calls and stacks.                                                       *)

Ons == Sessions \union {None, Tree}

\* The call g is f, gone on.
Same(g, f) == g \in Frames /\ g.op = f.op /\ g.s = f.s

\* A call that goes on stays one.
LEMMA AtPc ==
  \A f \in Frames, pc \in Places :
    Same([f EXCEPT !.pc = pc], f) /\ [f EXCEPT !.pc = pc].on = f.on
BY DEF Frames, Same
LEMMA AtPcOn ==
  \A f \in Frames, pc \in Places, on \in Ons :
    Same([f EXCEPT !.pc = pc, !.on = on], f) /\ [f EXCEPT !.pc = pc, !.on = on].on = on
BY ZenonT(60) DEF Frames, Same, Ons
LEMMA AtPcKids ==
  \A f \in Frames, pc \in Places, kids \in SUBSET Sessions :
    Same([f EXCEPT !.pc = pc, !.kids = kids], f)
BY ZenonT(60) DEF Frames, Same
Edited(f, pc, on, kids) == [f EXCEPT !.pc = pc, !.on = on, !.kids = kids]
LEMMA AtPcOnKids ==
  ASSUME NEW f \in Frames, NEW pc \in Places, NEW on \in Ons, NEW kids \in SUBSET Sessions
  PROVE  /\ Same(Edited(f, pc, on, kids), f)
         /\ Edited(f, pc, on, kids).on = on
BY DEF Edited, Frames, Same, Ons
LEMMA WithTodo ==
  \A f \in Frames : \A todo \in SUBSET Todo(f.op) : Same([f EXCEPT !.todo = todo], f)
BY DEF Frames, Same, Todo
Refilled(f, pc, on, kids, todo) == [f EXCEPT !.pc = pc, !.on = on, !.kids = kids, !.todo = todo]
LEMMA AtPcWithTodo ==
  ASSUME NEW f \in Frames, NEW pc \in Places, NEW on \in Ons, NEW kids \in SUBSET Sessions,
         NEW todo \in SUBSET Todo(f.op)
  PROVE  /\ Same(Refilled(f, pc, on, kids, todo), f)
         /\ Refilled(f, pc, on, kids, todo).on = on
BY DEF Refilled, Frames, Same, Ons, Todo
Onward(f, on, kids, todo) == [f EXCEPT !.todo = todo, !.on = on, !.kids = kids]
LEMMA OnWithTodo ==
  ASSUME NEW f \in Frames, NEW on \in Ons, NEW kids \in SUBSET Sessions, NEW todo \in SUBSET Todo(f.op)
  PROVE  /\ Same(Onward(f, on, kids, todo), f)
         /\ Onward(f, on, kids, todo).on = on
BY DEF Onward, Frames, Same, Ons, Todo

\* A call that begins is one.
LEMMA CallIsFrame ==
  ASSUME NEW op \in Operations \union {"close"}, NEW s \in Sessions,
         NEW par \in Sessions \union {None}, NEW pc \in Places,
         op \in {"spawn", "dispose"} => par # None
  PROVE  LET f == Call(op, s, par, pc) IN f \in Frames /\ f.op = op /\ f.s = s
BY DEF Frames, Call, Todo

\* The calls that operations begin with, and the one they make.
LEMMA EndCallIsFrame ==
  ASSUME NEW op \in {"terminate", "close"}, NEW s \in Sessions
  PROVE  EndCall(op, s) \in Frames /\ EndCall(op, s).op = op
<1>1. op \in Operations \union {"close"} /\ "client" \in Places /\ "lock" \in Places
      /\ None \in Sessions \union {None} /\ s \in Ons /\ op \notin {"spawn", "dispose"}
  BY DEF Operations, Places, Ons
<1>2. Call(op, s, None, "lock") \in Frames /\ Call(op, s, None, "lock").op = op
  BY <1>1, CallIsFrame
<1>3. Call(op, s, None, "client") \in Frames /\ Call(op, s, None, "client").op = op
  BY <1>1 DEF Call, Frames, Todo
<1>4. [Call(op, s, None, "lock") EXCEPT !.on = s] \in Frames
  BY <1>1, <1>2 DEF Frames, Ons
<1>5. [Call(op, s, None, "lock") EXCEPT !.on = s].op = op
  BY DEF Call
<1> QED
  BY <1>3, <1>4, <1>5 DEF EndCall

LEMMA DeleteCallIsFrame ==
  ASSUME TypeOK, NEW s \in Sessions
  PROVE  DeleteCall(s) \in Frames /\ DeleteCall(s).op = "delete" /\ DeleteCall(s).s = s
<1>1. (IF s \in exists THEN children[s] ELSE {}) \in SUBSET Sessions
  BY DEF TypeOK
<1> DEFINE f == Call("delete", s, None, "cascade")
<1>2. "delete" \in Operations \union {"close"} /\ "cascade" \in Places /\ None \in Sessions \union {None}
  BY DEF Operations, Places
<1>3. f \in Frames /\ f.op = "delete" /\ f.s = s
  BY <1>2, CallIsFrame
<1>4. Todo("delete") = Sessions
  BY DEF Todo
<1> HIDE DEF f
<1>5. ASSUME NEW todo \in SUBSET Sessions, NEW found \in BOOLEAN
      PROVE  LET g == [f EXCEPT !.todo = todo, !.found = found]
             IN  g \in Frames /\ g.op = "delete" /\ g.s = s
  BY <1>3, <1>4, ZenonT(60) DEF Frames
<1>6. (s \in exists) \in BOOLEAN
  OBVIOUS
<1> QED
  BY <1>1, <1>5, <1>6 DEF DeleteCall, f

LEMMA DisposeCallIsFrame ==
  ASSUME TypeOK, NEW s \in Sessions, NEW par \in Sessions, NEW hard \in BOOLEAN
  PROVE  DisposeCall(par, s, hard) \in Frames /\ DisposeCall(par, s, hard).op = "dispose"
<1>1. children[s] \in SUBSET Sessions
  BY DEF TypeOK
<1> QED
  BY <1>1, NoneAssumption, ZenonT(60) DEF DisposeCall, Call, Frames, Todo, Operations, Places

\* A stack of calls.
Stacks == Seq(Frames)

LEMMA StackDomain == \A q \in Stacks : DOMAIN q = 1 .. Len(q)
BY DEF Stacks

\* What is below the innermost call, and the call itself.
LEMMA StackParts ==
  ASSUME NEW q \in Stacks, q # <<>>
  PROVE  /\ Len(q) \in Nat /\ Len(q) >= 1 /\ Last(q) = q[Len(q)] /\ Last(q) \in Frames
         /\ Front(q) \in Stacks /\ Len(Front(q)) = Len(q) - 1
         /\ \A i \in 1 .. Len(q) - 1 : Front(q)[i] = q[i]
         /\ DOMAIN q = 1 .. Len(q)
<1>1. Len(q) \in Nat /\ Len(q) >= 1 /\ DOMAIN q = 1 .. Len(q)
  BY DEF Stacks
<1>2. q[Len(q)] \in Frames
  BY <1>1 DEF Stacks
<1>3. /\ Front(q) \in Stacks /\ Len(Front(q)) = Len(q) - 1
      /\ \A i \in 1 .. Len(q) - 1 : Front(q)[i] = q[i]
  BY <1>1 DEF Stacks, Front
<1> QED
  BY <1>1, <1>2, <1>3 DEF Last

\* The stack r is q with the calls g, of which there are n, in place of the
\* innermost m ones.
Rewrites(r, q, m, n, f) ==
  /\ r \in Stacks /\ r # <<>> /\ Len(r) = Len(q) - m + n /\ Len(r) \in Nat
  /\ Last(r) = f /\ r[Len(r)] = f
  /\ \A i \in 1 .. Len(q) - m : r[i] = q[i]

\* A call is added.
LEMMA AppendStack ==
  ASSUME NEW q \in Stacks, NEW f \in Frames
  PROVE  Rewrites(Append(q, f), q, 0, 1, f)
<1>1. PICK r : r = Append(q, f)
  OBVIOUS
<1>2. Len(q) \in Nat
  BY DEF Stacks
<1>3. r \in Stacks /\ Len(r) = Len(q) + 1 /\ r[Len(r)] = f
  BY <1>1 DEF Stacks
<1>4. \A i \in 1 .. Len(q) : r[i] = q[i]
  BY <1>1 DEF Stacks
<1>5. r # <<>> /\ Len(r) \in Nat
  BY <1>2, <1>3
<1>6. Last(r) = f
  BY <1>3, <1>5, StackParts
<1>7. Len(q) - 0 = Len(q) /\ Len(r) = Len(q) - 0 + 1
  BY <1>2, <1>3
<1> QED
  BY <1>1, <1>3, <1>4, <1>5, <1>6, <1>7 DEF Rewrites

\* The innermost call goes on.
LEMMA GoesStack ==
  ASSUME NEW q \in Stacks, q # <<>>, NEW f \in Frames
  PROVE  Rewrites(Append(Front(q), f), q, 1, 1, f)
<1>1. PICK w : w = Front(q)
  OBVIOUS
<1>2. /\ w \in Stacks /\ Len(w) = Len(q) - 1 /\ Len(q) \in Nat /\ Len(q) >= 1
      /\ \A i \in 1 .. Len(q) - 1 : w[i] = q[i]
  BY <1>1, StackParts
<1>3. PICK r : r = Append(w, f)
  OBVIOUS
<1>4. Rewrites(r, w, 0, 1, f)
  BY <1>2, <1>3, AppendStack
<1>5. Len(w) - 0 = Len(q) - 1 /\ Len(w) - 0 + 1 = Len(q) - 1 + 1
  BY <1>2
<1>6. \A i \in 1 .. Len(q) - 1 : r[i] = q[i]
  BY <1>2, <1>4, <1>5 DEF Rewrites
<1>7. Rewrites(r, q, 1, 1, f)
  BY <1>4, <1>5, <1>6 DEF Rewrites
<1> QED
  BY <1>1, <1>3, <1>7

\* It calls another one.
LEMMA CallsStack ==
  ASSUME NEW q \in Stacks, q # <<>>, NEW f \in Frames, NEW g \in Frames
  PROVE  LET r == Append(Append(Front(q), f), g) IN Rewrites(r, q, 1, 2, g) /\ r[Len(q)] = f
<1>1. PICK w : w = Append(Front(q), f)
  OBVIOUS
<1>2. Rewrites(w, q, 1, 1, f)
  BY <1>1, GoesStack
<1>3. PICK r : r = Append(w, g)
  OBVIOUS
<1>4. Len(q) \in Nat /\ Len(q) >= 1
  BY StackParts
<1>5. Rewrites(r, w, 0, 1, g) /\ w \in Stacks
  BY <1>2, <1>3, AppendStack DEF Rewrites
<1>6. Len(w) = Len(q) /\ w[Len(q)] = f
  BY <1>2, <1>4 DEF Rewrites
<1>7. r[Len(q)] = f /\ Len(r) = Len(q) - 1 + 2
  BY <1>4, <1>5, <1>6 DEF Rewrites
<1>8. \A i \in 1 .. Len(q) - 1 : r[i] = q[i]
  <2>1. \A i \in 1 .. Len(q) - 1 : w[i] = q[i] /\ i \in 1 .. Len(w) - 0
    BY <1>2, <1>4, <1>6 DEF Rewrites
  <2> QED
    BY <1>5, <2>1 DEF Rewrites
<1>9. Rewrites(r, q, 1, 2, g)
  BY <1>5, <1>7, <1>8 DEF Rewrites
<1> QED
  BY <1>1, <1>3, <1>7, <1>9

\* It returns to the call that made it.
LEMMA ReturnsStack ==
  ASSUME NEW q \in Stacks, q # <<>>, NEW ok \in BOOLEAN, Front(q) # <<>>
  PROVE  \E f : /\ Rewrites(Append(Front(Front(q)), [Last(Front(q)) EXCEPT !.ok = ok]), q, 2, 1, f)
                /\ Same(f, q[Len(q) - 1]) /\ f.on = q[Len(q) - 1].on
<1>1. PICK w : w = Front(q)
  OBVIOUS
<1>2. /\ w \in Stacks /\ Len(w) = Len(q) - 1 /\ Len(q) \in Nat /\ w # <<>>
      /\ \A i \in 1 .. Len(q) - 1 : w[i] = q[i]
  BY <1>1, StackParts
<1>3. Len(w) \in Nat /\ Len(w) >= 1 /\ Last(w) = w[Len(w)] /\ Last(w) \in Frames
  BY <1>2, StackParts
<1>4. PICK f : f = [Last(w) EXCEPT !.ok = ok]
  OBVIOUS
<1>5. f \in Frames /\ Same(f, Last(w)) /\ f.on = Last(w).on
  BY <1>3, <1>4 DEF Same, Frames, Todo
<1>6. PICK r : r = Append(Front(w), f)
  OBVIOUS
<1>7. Rewrites(r, w, 1, 1, f)
  BY <1>2, <1>5, <1>6, GoesStack
<1>8. Last(w) = q[Len(q) - 1]
  BY <1>2, <1>3
<1>9. Len(w) - 1 = Len(q) - 2 /\ Len(w) - 1 + 1 = Len(q) - 2 + 1
  BY <1>2
<1>10. \A i \in 1 .. Len(q) - 2 : r[i] = q[i]
  <2>1. \A i \in 1 .. Len(q) - 2 : w[i] = q[i] /\ i \in 1 .. Len(w) - 1
    BY <1>2
  <2> QED
    BY <1>7, <2>1 DEF Rewrites
<1>11. Rewrites(r, q, 2, 1, f)
  BY <1>7, <1>9, <1>10 DEF Rewrites
<1> QED
  BY <1>1, <1>4, <1>5, <1>6, <1>8, <1>11

-----------------------------------------------------------------------------
(* What a step does to the stack of a process.                             *)

StackType == stack \in [Procs -> Stacks]
Kept == \A s : DeletedNow(s) => DeletedNow(s)'

\* The stack of p alone becomes r, whose innermost call is f; no deletion is
\* dropped from it.
Rewritten(p, r, f) ==
  /\ StackType' /\ StacksOK' /\ Kept
  /\ stack' = [stack EXCEPT ![p] = r] /\ stack'[p] = r
  /\ r # <<>> => Last(r) = f

LEMMA LastOrBefore == \A n \in Nat : \A i \in 1 .. n : i = n \/ i \in 1 .. n - 1
OBVIOUS

\* What is innermost is a call.
LEMMA TopIsCall ==
  ASSUME StackType, NEW p \in Procs, ~ Idle(p)
  PROVE  /\ stack[p] \in Stacks /\ stack[p] # <<>> /\ Top(p) \in Frames
         /\ Len(stack[p]) \in Nat /\ Len(stack[p]) >= 1
         /\ Top(p) = stack[p][Len(stack[p])]
         /\ DOMAIN stack[p] = 1 .. Len(stack[p])
BY StackParts DEF StackType, Idle, Top

\* A stack that keeps the deletions and the order of calls.
LEMMA StackChange ==
  ASSUME StackType, StacksOK, NEW p \in Procs, NEW r \in Stacks, NEW f,
         stack' = [stack EXCEPT ![p] = r], r # <<>> => Last(r) = f,
         OnlyDisposals(r), \A s : Deletes(stack[p], s) => Deletes(r, s)
  PROVE  Rewritten(p, r, f)
<1>1. stack' \in [Procs -> Stacks] /\ stack'[p] = r /\ \A x \in Procs \ {p} : stack'[x] = stack[x]
  BY DEF StackType
<1>2. StacksOK'
  <2> SUFFICES ASSUME NEW x \in Procs PROVE OnlyDisposals(stack'[x])
    BY DEF StacksOK, OnlyDisposals
  <2> QED
    BY <1>1 DEF StacksOK, OnlyDisposals
<1>3. Kept
  <2> SUFFICES ASSUME NEW s, NEW x \in Procs, Deletes(stack[x], s) PROVE \E y \in Procs : Deletes(stack'[y], s)
    BY DEF Kept, DeletedNow, Deletes
  <2> QED
    BY <1>1
<1> QED
  BY <1>1, <1>2, <1>3 DEF Rewritten, StackType

\* The innermost call goes on.
LEMMA Going ==
  ASSUME StackType, StacksOK, NEW p \in Procs, ~ Idle(p), NEW f, Same(f, Top(p)), Goes(p, f)
  PROVE  \E r \in Stacks : r # <<>> /\ Rewritten(p, r, f)
<1>1. PICK q : q = stack[p]
  OBVIOUS
<1>2. /\ q \in Stacks /\ q # <<>> /\ Top(p) = q[Len(q)] /\ Len(q) \in Nat /\ Len(q) >= 1
      /\ DOMAIN q = 1 .. Len(q) /\ OnlyDisposals(q)
  BY <1>1, TopIsCall DEF StacksOK
<1>3. PICK r : r = Append(Front(q), f)
  OBVIOUS
<1>4. f \in Frames /\ f.op = Top(p).op /\ f.s = Top(p).s
  BY DEF Same
<1>5. Rewrites(r, q, 1, 1, f)
  BY <1>2, <1>3, <1>4, GoesStack
<1>6. /\ r \in Stacks /\ r # <<>> /\ Last(r) = f /\ Len(r) = Len(q) /\ DOMAIN r = 1 .. Len(q)
      /\ r[Len(q)] = f /\ \A i \in 1 .. Len(q) - 1 : r[i] = q[i]
  <2>1. r \in Stacks /\ r # <<>> /\ Last(r) = f /\ Len(r) = Len(q)
    BY <1>2, <1>5 DEF Rewrites
  <2>2. DOMAIN r = 1 .. Len(q) /\ r[Len(q)] = f
    BY <1>5, <2>1, StackParts DEF Rewrites
  <2> QED
    BY <1>5, <2>1, <2>2 DEF Rewrites
<1>7. \A i \in 1 .. Len(q) : r[i].op = q[i].op /\ r[i].s = q[i].s
  <2>1. \A i \in 1 .. Len(q) : i = Len(q) \/ i \in 1 .. Len(q) - 1
    BY <1>2, LastOrBefore
  <2> QED
    BY <1>2, <1>4, <1>6, <2>1
<1>8. OnlyDisposals(r)
  BY <1>2, <1>6, <1>7 DEF OnlyDisposals
<1>9. \A s : Deletes(q, s) => Deletes(r, s)
  BY <1>2, <1>6, <1>7 DEF Deletes
<1>10. stack' = [stack EXCEPT ![p] = r]
  BY <1>1, <1>3 DEF Goes, StackType
<1> QED
  BY <1>1, <1>6, <1>8, <1>9, <1>10, StackChange

\* The innermost call makes another one: disposals are called by disposals.
LEMMA Calling ==
  ASSUME StackType, StacksOK, NEW p \in Procs, ~ Idle(p), NEW f, Same(f, Top(p)),
         NEW g \in Frames, g.op = "dispose" => Top(p).op = "dispose", Calls(p, f, g)
  PROVE  \E r \in Stacks :
           /\ r # <<>> /\ Rewritten(p, r, g)
           /\ \A s : f.op = "delete" /\ f.s = s => Deletes(r, s)
<1>1. PICK q : q = stack[p]
  OBVIOUS
<1>2. /\ q \in Stacks /\ q # <<>> /\ Top(p) = q[Len(q)] /\ Len(q) \in Nat /\ Len(q) >= 1
      /\ DOMAIN q = 1 .. Len(q) /\ OnlyDisposals(q)
  BY <1>1, TopIsCall DEF StacksOK
<1>3. PICK r : r = Append(Append(Front(q), f), g)
  OBVIOUS
<1>4. f \in Frames /\ f.op = Top(p).op /\ f.s = Top(p).s
  BY DEF Same
<1>5. Rewrites(r, q, 1, 2, g) /\ r[Len(q)] = f
  BY <1>2, <1>3, <1>4, CallsStack
<1>6. /\ r \in Stacks /\ r # <<>> /\ Last(r) = g /\ Len(r) = Len(q) + 1 /\ DOMAIN r = 1 .. Len(q) + 1
      /\ r[Len(q) + 1] = g /\ \A i \in 1 .. Len(q) - 1 : r[i] = q[i]
  <2>1. r \in Stacks /\ r # <<>> /\ Last(r) = g /\ Len(r) = Len(q) + 1
    BY <1>2, <1>5 DEF Rewrites
  <2>2. DOMAIN r = 1 .. Len(q) + 1 /\ r[Len(q) + 1] = g
    BY <1>5, <2>1, StackParts DEF Rewrites
  <2> QED
    BY <1>5, <2>1, <2>2 DEF Rewrites
<1>7. \A i \in 1 .. Len(q) : r[i].op = q[i].op /\ r[i].s = q[i].s
  <2>1. \A i \in 1 .. Len(q) : i = Len(q) \/ i \in 1 .. Len(q) - 1
    BY <1>2, LastOrBefore
  <2> QED
    BY <1>2, <1>4, <1>5, <1>6, <2>1
<1>8. OnlyDisposals(r)
  <2> SUFFICES ASSUME NEW i \in DOMAIN r, NEW j \in DOMAIN r, i < j, r[j].op = "dispose"
               PROVE  r[i].op = "dispose"
    BY DEF OnlyDisposals
  <2>1. i \in 1 .. Len(q) /\ (j \in 1 .. Len(q) \/ j = Len(q) + 1)
    BY <1>2, <1>6
  <2>2. CASE j \in 1 .. Len(q)
    BY <1>2, <1>7, <2>1, <2>2 DEF OnlyDisposals
  <2>3. CASE j = Len(q) + 1
    <3>1. q[Len(q)].op = "dispose" /\ Len(q) \in DOMAIN q
      BY <1>2, <1>6, <2>3
    <3>2. q[i].op = "dispose"
      <4>1. i = Len(q) \/ i < Len(q)
        BY <1>2, <2>1
      <4> QED
        BY <1>2, <2>1, <3>1, <4>1 DEF OnlyDisposals
    <3> QED
      BY <1>7, <2>1, <3>2
  <2> QED
    BY <2>1, <2>2, <2>3
<1>9. \A s : Deletes(q, s) => Deletes(r, s)
  <2>1. 1 .. Len(q) \subseteq DOMAIN r
    BY <1>2, <1>6
  <2> QED
    BY <1>2, <1>7, <2>1 DEF Deletes
<1>10. stack' = [stack EXCEPT ![p] = r]
  BY <1>1, <1>3 DEF Calls, StackType
<1>11. Rewritten(p, r, g)
  BY <1>1, <1>6, <1>8, <1>9, <1>10, StackChange
<1>12. \A s : f.op = "delete" /\ f.s = s => Deletes(r, s)
  BY <1>2, <1>5, <1>6 DEF Deletes
<1> QED
  BY <1>6, <1>11, <1>12

\* The innermost call returns.
LEMMA Returning ==
  ASSUME StackType, StacksOK, NEW p \in Procs, ~ Idle(p), NEW ok \in BOOLEAN, Returns(p, ok)
  PROVE  /\ StackType' /\ StacksOK'
         /\ \A s : DeletedNow(s) => DeletedNow(s)' \/ (Top(p).op = "delete" /\ Top(p).s = s)
         /\ \E r \in Stacks : stack' = [stack EXCEPT ![p] = r] /\ stack'[p] = r
<1>1. PICK q : q = stack[p]
  OBVIOUS
<1>2. /\ q \in Stacks /\ q # <<>> /\ Top(p) = q[Len(q)] /\ Len(q) \in Nat /\ Len(q) >= 1
      /\ DOMAIN q = 1 .. Len(q) /\ OnlyDisposals(q)
  BY <1>1, TopIsCall DEF StacksOK
<1>3. PICK r : r = IF Front(q) = <<>> THEN <<>>
                   ELSE Append(Front(Front(q)), [Last(Front(q)) EXCEPT !.ok = ok])
  OBVIOUS
<1>4. stack' = [stack EXCEPT ![p] = r]
  BY <1>1, <1>3 DEF Returns, StackType
<1>5. /\ r \in Stacks /\ DOMAIN r = 1 .. Len(q) - 1
      /\ \A i \in 1 .. Len(q) - 1 : r[i].op = q[i].op /\ r[i].s = q[i].s
  <2>1. CASE Front(q) = <<>>
    <3>1. Len(q) - 1 = 0 /\ r = <<>>
      BY <1>2, <1>3, <2>1, StackParts
    <3>2. r \in Stacks /\ Len(r) = 0
      BY <3>1 DEF Stacks
    <3>3. DOMAIN r = 1 .. Len(q) - 1
      BY <3>1, <3>2, StackDomain
    <3>4. \A n : n = 0 => \A i \in 1 .. n : FALSE
      OBVIOUS
    <3>5. \A i \in 1 .. Len(q) - 1 : FALSE
      BY <3>1, <3>4
    <3> QED
      BY <3>2, <3>3, <3>5
  <2>2. CASE Front(q) # <<>>
    <3>1. PICK f : Rewrites(r, q, 2, 1, f) /\ Same(f, q[Len(q) - 1])
      BY <1>2, <1>3, <2>2, ReturnsStack
    <3>2. r \in Stacks /\ Len(r) = Len(q) - 1 /\ r[Len(q) - 1] = f /\ r # <<>>
      BY <1>2, <3>1 DEF Rewrites
    <3>3. DOMAIN r = 1 .. Len(q) - 1
      BY <3>2, StackParts
    <3>4. Len(q) - 1 \in Nat /\ (Len(q) - 1) - 1 = Len(q) - 2
      BY <1>2
    <3>5. \A i \in 1 .. Len(q) - 1 : i = Len(q) - 1 \/ i \in 1 .. Len(q) - 2
      BY <3>4, LastOrBefore
    <3> QED
      BY <3>1, <3>2, <3>3, <3>5 DEF Rewrites, Same
  <2> QED
    BY <2>1, <2>2
<1>6. 1 .. Len(q) - 1 \subseteq DOMAIN q
  BY <1>2
<1>7. OnlyDisposals(r)
  BY <1>2, <1>5, <1>6 DEF OnlyDisposals
<1>8. \A x \in Procs \ {p} : stack'[x] = stack[x]
  BY <1>4 DEF StackType
<1>9. stack' \in [Procs -> Stacks] /\ stack'[p] = r
  BY <1>4, <1>5 DEF StackType
<1>10. StacksOK'
  <2> SUFFICES ASSUME NEW x \in Procs PROVE OnlyDisposals(stack'[x])
    BY DEF StacksOK, OnlyDisposals
  <2> QED
    BY <1>7, <1>8, <1>9 DEF StacksOK, OnlyDisposals
<1>11. ASSUME NEW s, Deletes(q, s) PROVE Deletes(r, s) \/ (Top(p).op = "delete" /\ Top(p).s = s)
  <2>1. PICK i \in 1 .. Len(q) : q[i].op = "delete" /\ q[i].s = s
    BY <1>2, <1>11 DEF Deletes
  <2>2. i = Len(q) \/ i \in 1 .. Len(q) - 1
    BY <1>2, LastOrBefore
  <2> QED
    BY <1>2, <1>5, <2>1, <2>2 DEF Deletes
<1>12. ASSUME NEW s, DeletedNow(s) PROVE DeletedNow(s)' \/ (Top(p).op = "delete" /\ Top(p).s = s)
  <2>1. PICK x \in Procs : Deletes(stack[x], s)
    BY <1>12 DEF DeletedNow
  <2>2. CASE x = p
    <3>1. Deletes(r, s) => DeletedNow(s)'
      BY <1>9 DEF DeletedNow, Deletes
    <3> QED
      BY <1>1, <1>11, <2>1, <2>2, <3>1
  <2>3. CASE x # p
    BY <1>8, <2>1, <2>3 DEF DeletedNow, Deletes
  <2> QED
    BY <2>2, <2>3
<1> QED
  BY <1>4, <1>5, <1>9, <1>10, <1>12 DEF StackType

\* An exception ends a disposal and the disposals that called it.
LEMMA Raising ==
  ASSUME StackType, StacksOK, NEW p \in Procs, ~ Idle(p), Top(p).op = "dispose", Raises(p)
  PROVE  StackType' /\ StacksOK' /\ Kept
<1>1. PICK q : q = stack[p]
  OBVIOUS
<1>2. /\ q \in Stacks /\ Top(p) = q[Len(q)] /\ Len(q) \in Nat /\ Len(q) >= 1
      /\ DOMAIN q = 1 .. Len(q) /\ OnlyDisposals(q)
  BY <1>1, TopIsCall DEF StacksOK
<1>3. ASSUME NEW i \in DOMAIN q PROVE q[i].op = "dispose"
  <2>1. Len(q) \in DOMAIN q /\ (i = Len(q) \/ i < Len(q))
    BY <1>2, <1>3
  <2> QED
    BY <1>2, <1>3, <2>1 DEF OnlyDisposals
<1>4. \A s : ~ Deletes(q, s)
  BY <1>3 DEF Deletes
<1>5. <<>> \in Stacks /\ OnlyDisposals(<<>>)
  BY DEF Stacks, OnlyDisposals
<1>6. Rewritten(p, <<>>, Top(p))
  BY <1>1, <1>4, <1>5, StackChange DEF Raises
<1> QED
  BY <1>6 DEF Rewritten

\* An operation begins.
LEMMA Beginning ==
  ASSUME StackType, StacksOK, NEW p \in Procs, Idle(p), NEW f \in Frames,
         stack' = [stack EXCEPT ![p] = <<f>>]
  PROVE  Rewritten(p, <<f>>, f) /\ <<f>> \in Stacks /\ Last(<<f>>) = f
<1>1. <<f>> \in Stacks /\ <<f>> # <<>> /\ Len(<<f>>) = 1 /\ DOMAIN <<f>> = {1}
  BY DEF Stacks
<1>2. Last(<<f>>) = f
  BY <1>1 DEF Last
<1>3. OnlyDisposals(<<f>>)
  BY <1>1 DEF OnlyDisposals
<1>4. \A s : ~ Deletes(stack[p], s)
  BY DEF Idle, Deletes
<1> QED
  BY <1>1, <1>2, <1>3, <1>4, StackChange

-----------------------------------------------------------------------------
(* The invariant, and the kinds of steps that keep it.                     *)

IInv == TypeOK /\ HalfOK /\ StacksOK /\ LocksOK

RecordsOK ==
  /\ exists \subseteq born /\ listed \subseteq born /\ born \subseteq Sessions
  /\ parent \in [Sessions -> Sessions \union {None}]
  /\ children \in [Sessions -> SUBSET Sessions]
  /\ level \in [Sessions -> Nat]
  /\ overseer \subseteq Sessions /\ registered \subseteq Sessions /\ up \subseteq Sessions
  /\ failed \subseteq Sessions
Locks == Sessions \union {Tree}
ProcsOK ==
  /\ lock \in [Locks -> Procs \union {None}]
  /\ turn \in Procs \union {None} /\ crossed \in 0 .. MaxCrossed

\* The parts of the invariant, in this state and in the next one.
LEMMA Parts ==
  /\ IInv <=> RecordsOK /\ ProcsOK /\ StackType /\ HalfOK /\ StacksOK /\ LocksOK
  /\ IInv' <=> RecordsOK' /\ ProcsOK' /\ StackType' /\ HalfOK' /\ StacksOK' /\ LocksOK'
<1>1. TypeOK <=> RecordsOK /\ ProcsOK /\ StackType
  BY DEF TypeOK, RecordsOK, ProcsOK, StackType, Locks, Stacks
<1>2. TypeOK' <=> RecordsOK' /\ ProcsOK' /\ StackType'
  BY DEF TypeOK, RecordsOK, ProcsOK, StackType, Locks, Stacks
<1> QED
  BY <1>1, <1>2 DEF IInv

\* Every deletion that was under way is, and no other session is lost.
LEMMA HalfKept ==
  ASSUME HalfOK, failed \subseteq failed',
         \A s \in exists' \ listed' :
           s \in failed' \/ DeletedNow(s)' \/ (s \in exists \ listed /\ (DeletedNow(s) => DeletedNow(s)'))
  PROVE  HalfOK'
BY DEF HalfOK

\* A process gives locks back or keeps them, or takes one for its next call f.
LockStep(p, holding, f) ==
  /\ lock' \in [Locks -> Procs \union {None}]
  /\ \A x \in Locks :
       \/ lock'[x] = None
       \/ lock'[x] = lock[x] /\ lock[x] # p
       \/ lock'[x] = p /\ holding /\ Holds(x, f)

LEMMA LocksKept ==
  ASSUME StackType, LocksOK, NEW p \in Procs, NEW r \in Stacks, NEW f,
         stack' = [stack EXCEPT ![p] = r], LockStep(p, r # <<>>, f), r # <<>> => Last(r) = f
  PROVE  LocksOK'
<1> SUFFICES ASSUME NEW x \in Locks, lock'[x] # None
             PROVE  stack'[lock'[x]] # <<>> /\ Holds(x, Last(stack'[lock'[x]]))
  BY DEF LocksOK, Locks, Idle, Top, Holds
<1>1. stack'[p] = r /\ \A q \in Procs \ {p} : stack'[q] = stack[q]
  BY DEF StackType
<1>2. CASE lock'[x] = lock[x] /\ lock[x] # p
  <2>1. lock[x] \in Procs
    BY <1>2 DEF LockStep
  <2>2. stack'[lock'[x]] = stack[lock[x]]
    BY <1>1, <1>2, <2>1
  <2>3. stack[lock[x]] # <<>> /\ Holds(x, Last(stack[lock[x]]))
    BY <1>2 DEF LocksOK, Locks, Idle, Top
  <2> QED
    BY <2>2, <2>3
<1>3. CASE lock'[x] = p /\ r # <<>> /\ Holds(x, f)
  BY <1>1, <1>3
<1> QED
  BY <1>2, <1>3 DEF LockStep

\* Who is not at the place for it holds no lock.
LEMMA HoldsNothing ==
  ASSUME LocksOK, NEW p \in Procs,
         Idle(p) \/ (Top(p).op # "reparent" /\ Top(p).pc # "closing")
  PROVE  \A x \in Locks : lock[x] # p
<1>1. p # None
  BY NoneAssumption
<1> QED
  BY <1>1 DEF LocksOK, Locks, Holds

\* Locks are left alone by a call that holds none, and by a move in the tree
\* that does not wait for its lock again.
LEMMA LocksLeft ==
  ASSUME LocksOK, ProcsOK, NEW p \in Procs, NEW h \in BOOLEAN, NEW f, lock' = lock,
         \/ Idle(p) \/ (Top(p).op # "reparent" /\ Top(p).pc # "closing")
         \/ h /\ f.op = "reparent" /\ f.on # Tree /\ Top(p).op = "reparent"
  PROVE  LockStep(p, h, f)
<1>1. lock' \in [Locks -> Procs \union {None}]
  BY DEF ProcsOK
<1>2. CASE Idle(p) \/ (Top(p).op # "reparent" /\ Top(p).pc # "closing")
  BY <1>1, <1>2, HoldsNothing DEF LockStep
<1>3. CASE h /\ f.op = "reparent" /\ f.on # Tree /\ Top(p).op = "reparent"
  <2> SUFFICES ASSUME NEW x \in Locks, lock[x] = p PROVE Holds(x, f)
    BY <1>1, <1>3 DEF LockStep
  <2>1. p # None
    BY NoneAssumption
  <2>2. Holds(x, Top(p))
    BY <2>1 DEF LocksOK, Locks
  <2>3. x = Tree
    BY <2>2, <1>3 DEF Holds
  <2> QED
    BY <1>3, <2>3 DEF Holds
<1> QED
  BY <1>2, <1>3

\* The parts of a step that a call of p goes on with.
Rest ==
  /\ RecordsOK' /\ turn' \in Procs \union {None} /\ crossed' \in 0 .. MaxCrossed
  /\ failed \subseteq failed'

\* The innermost call of p goes on as f.
LEMMA Continuing ==
  ASSUME IInv, NEW p \in Procs, ~ Idle(p), NEW f, Same(f, Top(p)), Goes(p, f), Rest,
         LockStep(p, TRUE, f),
         \A s \in (exists' \ listed') \ (exists \ listed) : f.op = "delete" /\ f.s = s
  PROVE  IInv'
<1>1. StackType /\ StacksOK /\ LocksOK /\ HalfOK
  BY Parts
<1>2. PICK r \in Stacks : r # <<>> /\ Rewritten(p, r, f)
  BY <1>1, Going
<1>3. LocksOK'
  BY <1>1, <1>2, LocksKept DEF Rewritten
<1>4. HalfOK'
  <2>1. ASSUME f.op = "delete" PROVE DeletedNow(f.s)'
    <3>1. stack'[p] = r /\ Len(r) \in DOMAIN r /\ r[Len(r)] = f
      BY <1>2, StackParts DEF Rewritten
    <3> QED
      BY <2>1, <3>1 DEF DeletedNow, Deletes
  <2> QED
    BY <1>1, <1>2, <2>1, HalfKept DEF Rewritten, Kept, Rest
<1> QED
  BY <1>2, <1>3, <1>4, Parts DEF Rest, ProcsOK, LockStep, Rewritten

\* The innermost call of p calls g.
LEMMA CallingOut ==
  ASSUME IInv, NEW p \in Procs, ~ Idle(p), NEW f, Same(f, Top(p)), NEW g \in Frames,
         g.op = "dispose" => Top(p).op = "dispose", Calls(p, f, g), Rest, lock' = lock,
         Top(p).op # "reparent", Top(p).pc # "closing",
         \A s \in (exists' \ listed') \ (exists \ listed) : f.op = "delete" /\ f.s = s
  PROVE  IInv'
<1>1. StackType /\ StacksOK /\ LocksOK /\ HalfOK /\ ProcsOK
  BY Parts
<1>2. PICK r \in Stacks : r # <<>> /\ Rewritten(p, r, g) /\ \A s : f.op = "delete" /\ f.s = s => Deletes(r, s)
  BY <1>1, Calling
<1>3. LockStep(p, TRUE, g)
  BY <1>1, LocksLeft
<1>4. LocksOK'
  BY <1>1, <1>2, <1>3, LocksKept DEF Rewritten
<1>5. HalfOK'
  <2>1. ASSUME f.op = "delete" PROVE DeletedNow(f.s)'
    <3>1. stack'[p] = r /\ Deletes(r, f.s)
      BY <1>2, <2>1 DEF Rewritten
    <3> QED
      BY <3>1 DEF DeletedNow, Deletes
  <2> QED
    BY <1>1, <1>2, <2>1, HalfKept DEF Rewritten, Kept, Rest
<1> QED
  BY <1>2, <1>3, <1>4, <1>5, Parts DEF Rest, ProcsOK, LockStep, Rewritten

\* The innermost call of p returns, with the deletion of its session over or
\* known to have failed.
LEMMA ReturningFrom ==
  ASSUME IInv, NEW p \in Procs, ~ Idle(p), NEW ok \in BOOLEAN, Returns(p, ok), Rest,
         LockStep(p, FALSE, Top(p)), exists' \ listed' \subseteq exists \ listed,
         Top(p).op = "delete" => Top(p).s \in failed' \/ Top(p).s \notin exists'
  PROVE  IInv'
<1>1. StackType /\ StacksOK /\ LocksOK /\ HalfOK
  BY Parts
<1>2. /\ StackType' /\ StacksOK'
      /\ \A s : DeletedNow(s) => DeletedNow(s)' \/ (Top(p).op = "delete" /\ Top(p).s = s)
  BY <1>1, Returning
<1>3. PICK r \in Stacks : stack' = [stack EXCEPT ![p] = r] /\ stack'[p] = r
  BY <1>1, Returning
<1>4. LockStep(p, r # <<>>, Last(r))
  BY DEF LockStep
<1>5. LocksOK'
  BY <1>1, <1>3, <1>4, LocksKept
<1>6. HalfOK'
  BY <1>1, <1>2, HalfKept DEF Rest
<1> QED
  BY <1>2, <1>4, <1>5, <1>6, Parts DEF Rest, ProcsOK, LockStep

\* An operation begins with the call f.
LEMMA Starting ==
  ASSUME IInv, NEW p \in Procs, NEW f \in Frames, Begins(p, f), RecordsOK', lock' = lock,
         failed' = failed, exists' \ listed' \subseteq exists \ listed
  PROVE  IInv'
<1>1. StackType /\ StacksOK /\ LocksOK /\ HalfOK /\ ProcsOK
  BY Parts
<1>2. Idle(p) /\ stack' = [stack EXCEPT ![p] = <<f>>] /\ turn' = p
  BY DEF Begins
<1>3. crossed' \in 0 .. MaxCrossed
  BY <1>1, MaxCrossedAssumption DEF Begins, ProcsOK
<1>4. Rewritten(p, <<f>>, f) /\ <<f>> \in Stacks /\ Last(<<f>>) = f
  BY <1>1, <1>2, Beginning
<1>5. LockStep(p, <<f>> # <<>>, f)
  BY <1>1, <1>2, LocksLeft
<1>6. LocksOK'
  BY <1>1, <1>2, <1>4, <1>5, LocksKept
<1>7. HalfOK'
  BY <1>1, <1>4, HalfKept DEF Rewritten, Kept
<1> QED
  BY <1>2, <1>3, <1>4, <1>5, <1>6, <1>7, Parts DEF ProcsOK, LockStep, Rewritten

-----------------------------------------------------------------------------
(* The operations keep the invariant.                                      *)

\* A call that moves is one of a process at work.
LEMMA AtTop ==
  ASSUME IInv, NEW p \in Procs, NEW op, NEW pc, At(p, op, pc)
  PROVE  ~ Idle(p) /\ Top(p) \in Frames /\ Top(p).op = op /\ Top(p).pc = pc
BY Parts, TopIsCall DEF At

\* Nothing but calls changes.
LEMMA RecordsKept ==
  ASSUME IInv, UNCHANGED <<born, treeVars, up>>, failed' = failed
  PROVE  RecordsOK' /\ exists' = exists /\ listed' = listed
BY Parts DEF RecordsOK, treeVars

\* Nothing but calls, and the time of it, changes.
LEMMA RestKept ==
  ASSUME IInv, NEW p \in Procs, UNCHANGED <<born, treeVars, up, crossed, failed>>,
         turn' \in {p, None}
  PROVE  Rest /\ exists' \ listed' = exists \ listed
BY RecordsKept, Parts DEF Rest, ProcsOK

\* The parts of a call.
LEMMA FrameParts ==
  ASSUME NEW f \in Frames
  PROVE  /\ f.s \in Sessions /\ f.par \in Sessions \union {None} /\ f.on \in Ons
         /\ f.kids \in SUBSET Sessions /\ f.todo \in SUBSET Todo(f.op) /\ f.hard \in BOOLEAN
         /\ f.op \in {"spawn", "dispose"} => f.par \in Sessions
BY DEF Frames, Ons

LEMMA MarkOrLinkIsFrame ==
  ASSUME IInv, NEW f \in Frames, f.par \in Sessions
  PROVE  MarkOrLink(f) \in Frames
<1>1. "link" \in Places /\ "mark" \in Places /\ f.par \in Ons
      /\ children[f.par] \union {f.s} \in SUBSET Sessions
  BY FrameParts, Parts DEF Places, Ons, RecordsOK
<1>2. /\ [f EXCEPT !.pc = "link", !.on = f.par, !.kids = children[f.par] \union {f.s}] \in Frames
      /\ [f EXCEPT !.pc = "mark", !.on = f.par] \in Frames
  BY <1>1, AtPcOn, AtPcOnKids DEF Same, Edited
<1> QED
  BY <1>2 DEF MarkOrLink

LEMMA SpawnMinionOK ==
  ASSUME IInv, NEW p \in Procs, NEW par \in Sessions, NEW s \in Sessions, SpawnMinion(p, par, s)
  PROVE  IInv'
<1>1. PICK f : f = MarkOrLink(Call("spawn", s, par, "mark"))
  OBVIOUS
<1>2. f \in Frames
  <2>1. "spawn" \in Operations \union {"close"} /\ "mark" \in Places /\ par # None
    BY NoneAssumption DEF Operations, Places
  <2>2. Call("spawn", s, par, "mark") \in Frames
    BY <2>1, CallIsFrame
  <2>3. Call("spawn", s, par, "mark").par = par
    BY DEF Call
  <2> QED
    BY <1>1, <2>2, <2>3, MarkOrLinkIsFrame
<1>3. RecordsOK'
  BY Parts DEF RecordsOK, SpawnMinion, Add
<1>4. exists' \ listed' \subseteq exists \ listed
  BY DEF SpawnMinion, Add
<1>5. Begins(p, f) /\ lock' = lock /\ failed' = failed
  BY <1>1 DEF SpawnMinion
<1> QED
  BY <1>2, <1>3, <1>4, <1>5, Starting

LEMMA SpawnMarksOK ==
  ASSUME IInv, NEW p \in Procs, SpawnMarks(p)
  PROVE  IInv'
<1>1. ~ Idle(p) /\ Top(p) \in Frames /\ Top(p).op = "spawn" /\ Top(p).pc = "mark"
  BY AtTop DEF SpawnMarks
<1>2. PICK f : f = [Top(p) EXCEPT !.pc = "link", !.kids = children[Top(p).par] \union {Top(p).s}]
  OBVIOUS
<1>3. Same(f, Top(p))
  <2>1. "link" \in Places /\ children[Top(p).par] \union {Top(p).s} \in SUBSET Sessions
    BY <1>1, FrameParts, Parts DEF Places, RecordsOK
  <2> QED
    BY <1>1, <1>2, <2>1, AtPcKids
<1>4. Goes(p, f) /\ turn' = p /\ lock' = lock
  BY <1>2 DEF SpawnMarks, Continues
<1>5. Rest /\ exists' \ listed' = exists \ listed
  <2>1. overseer' \subseteq Sessions
    BY Parts DEF SpawnMarks, SetOverseer, RecordsOK
  <2> QED
    BY <2>1, <1>4, Parts DEF SpawnMarks, Rest, RecordsOK, ProcsOK
<1>6. LockStep(p, TRUE, f)
  BY <1>1, <1>4, LocksLeft, Parts
<1> QED
  BY <1>1, <1>3, <1>4, <1>5, <1>6, Continuing

LEMMA SpawnLinksOK ==
  ASSUME IInv, NEW p \in Procs, SpawnLinks(p)
  PROVE  IInv'
<1>1. ~ Idle(p) /\ Top(p) \in Frames /\ Top(p).op = "spawn" /\ Top(p).pc = "link"
  BY AtTop DEF SpawnLinks
<1>2. Returns(p, TRUE) /\ lock' = lock
  BY DEF SpawnLinks
<1>3. turn' \in Procs \union {None}
  BY <1>2 DEF Returns
<1>4. children' \in [Sessions -> SUBSET Sessions]
  <2>1. Top(p).kids \in SUBSET Sessions /\ Top(p).par \in Sessions
    BY <1>1, FrameParts
  <2> QED
    BY <2>1, Parts DEF SpawnLinks, SetChildren, RecordsOK
<1>5. Rest /\ exists' \ listed' = exists \ listed
  BY <1>1, <1>3, <1>4, FrameParts, Parts DEF SpawnLinks, Register, Rest, RecordsOK, ProcsOK
<1>6. LockStep(p, FALSE, Top(p))
  BY <1>1, <1>2, LocksLeft, Parts
<1> QED
  BY <1>1, <1>2, <1>5, <1>6, ReturningFrom

\* A step that nobody's calls take part in.
LEMMA ApartOK ==
  ASSUME IInv, RecordsOK', UNCHANGED <<procVars, failed>>, crossed' \in 0 .. MaxCrossed,
         exists' \ listed' \subseteq exists \ listed
  PROVE  IInv'
<1>1. ProcsOK' /\ StackType' /\ StacksOK'
  BY Parts DEF ProcsOK, StackType, StacksOK, procVars
<1>2. LocksOK'
  BY Parts DEF LocksOK, procVars, Idle, Top
<1>3. HalfOK'
  BY Parts DEF HalfOK, DeletedNow, procVars
<1> QED
  BY <1>1, <1>2, <1>3, Parts

LEMMA CreateMinionOK ==
  ASSUME IInv, NEW s \in Sessions, CreateMinion(s)
  PROVE  IInv'
<1>1. RecordsOK'
  BY Parts DEF RecordsOK, CreateMinion, Add
<1>2. exists' \ listed' \subseteq exists \ listed
  BY DEF CreateMinion, Add
<1> QED
  BY <1>1, <1>2, ApartOK, Parts DEF CreateMinion, ProcsOK

LEMMA StartSessionOK ==
  ASSUME IInv, NEW s \in Sessions, StartSession(s)
  PROVE  IInv'
<1>1. RecordsOK' /\ exists' = exists /\ listed' = listed
  BY Parts DEF RecordsOK, StartSession, treeVars
<1> QED
  BY <1>1, ApartOK, Parts DEF StartSession, ProcsOK

LEMMA UpdateExpertiseOK ==
  ASSUME IInv, NEW s \in Sessions, UpdateExpertise(s)
  PROVE  IInv'
<1>1. RecordsOK' /\ exists' = exists /\ listed' = listed
  BY Parts DEF RecordsOK, UpdateExpertise, Register
<1>2. crossed' \in 0 .. MaxCrossed
  BY MaxCrossedAssumption, Parts DEF UpdateExpertise, ProcsOK
<1> QED
  BY <1>1, <1>2, ApartOK DEF UpdateExpertise

LEMMA WaitForLockOK ==
  ASSUME IInv, NEW p \in Procs, WaitForLock(p)
  PROVE  IInv'
<1>1. RecordsOK' /\ exists' = exists /\ listed' = listed
  BY RecordsKept DEF WaitForLock
<1>2. ProcsOK' /\ StackType' /\ StacksOK'
  BY Parts DEF ProcsOK, StackType, StacksOK, WaitForLock
<1>3. LocksOK'
  BY Parts DEF LocksOK, WaitForLock, Idle, Top
<1>4. HalfOK'
  BY <1>1, Parts DEF HalfOK, DeletedNow, WaitForLock
<1> QED
  BY <1>1, <1>2, <1>3, <1>4, Parts

\* The other operations begin with a call each.
LEMMA BeginningsOK ==
  ASSUME IInv, NEW p \in Procs, NEW s \in Sessions
  PROVE  /\ Terminate(p, s) => IInv'
         /\ Delete(p, s) => IInv'
         /\ \A by, par \in Sessions, hard \in BOOLEAN : Dispose(p, by, par, s, hard) => IInv'
         /\ \A par \in Sessions \union {None} : Reparent(p, s, par) => IInv'
<1>t. TypeOK
  BY DEF IInv
<1>1. ASSUME NEW f \in Frames, Begins(p, f), UNCHANGED <<born, treeVars, up, lock, failed>>
      PROVE  IInv'
  BY <1>1, Starting, RecordsKept
<1>2. ASSUME Terminate(p, s) PROVE IInv'
  BY <1>1, <1>2, EndCallIsFrame DEF Terminate
<1>3. ASSUME Delete(p, s) PROVE IInv'
  BY <1>1, <1>3, <1>t, DeleteCallIsFrame DEF Delete
<1>4. ASSUME NEW by \in Sessions, NEW par \in Sessions, NEW hard \in BOOLEAN,
             Dispose(p, by, par, s, hard)
      PROVE  IInv'
  BY <1>1, <1>4, <1>t, DisposeCallIsFrame DEF Dispose
<1>5. ASSUME NEW par \in Sessions \union {None}, Reparent(p, s, par) PROVE IInv'
  <2>1. PICK f : f = Call("reparent", s, par, "leave")
    OBVIOUS
  <2>2. f \in Frames
    BY <2>1, CallIsFrame DEF Operations, Places
  <2>3. {parent[s]} \ {None} \in SUBSET Sessions
    BY <1>t DEF TypeOK
  <2>4. [f EXCEPT !.on = Tree, !.kids = {parent[s]} \ {None}] \in Frames
    BY <2>2, <2>3 DEF Frames
  <2> QED
    BY <1>1, <1>5, <2>1, <2>4 DEF Reparent
<1> QED
  BY <1>2, <1>3, <1>4, <1>5

\* Ending a session: the call and where it is.
LEMMA AtEndTop ==
  ASSUME IInv, NEW p \in Procs, NEW pc, AtEnd(p, pc)
  PROVE  /\ ~ Idle(p) /\ Top(p) \in Frames /\ Top(p).op \in {"terminate", "close"}
         /\ Top(p).pc = pc /\ Top(p).s \in Sessions
BY AtTop, FrameParts DEF AtEnd

LEMMA ClientAskedOK ==
  ASSUME IInv, NEW p \in Procs, ClientAsked(p)
  PROVE  IInv'
<1>1. ~ Idle(p) /\ Top(p) \in Frames /\ Top(p).op \in {"terminate", "close"} /\ Top(p).pc = "client"
  BY AtEndTop DEF ClientAsked
<1>2. PICK f : f = [Top(p) EXCEPT !.pc = "ending"]
  OBVIOUS
<1>3. Same(f, Top(p))
  BY <1>1, <1>2, AtPc DEF Places
<1>4. Goes(p, f) /\ lock' = lock
  BY <1>2 DEF ClientAsked, Waits
<1>5. Rest /\ exists' \ listed' = exists \ listed
  BY RestKept DEF ClientAsked, Waits
<1>6. LockStep(p, TRUE, f)
  BY <1>1, <1>4, LocksLeft, Parts
<1> QED
  BY <1>1, <1>3, <1>4, <1>5, <1>6, Continuing

LEMMA ClientEndedOK ==
  ASSUME IInv, NEW p \in Procs, ClientEnded(p)
  PROVE  IInv'
<1>1. /\ ~ Idle(p) /\ Top(p) \in Frames /\ Top(p).op \in {"terminate", "close"}
      /\ Top(p).pc = "ending" /\ Top(p).s \in Sessions
  BY AtEndTop DEF ClientEnded
<1>2. PICK f : f = [Top(p) EXCEPT !.pc = "lock", !.on = Top(p).s]
  OBVIOUS
<1>3. Same(f, Top(p))
  BY <1>1, <1>2, AtPcOn, ZenonT(60) DEF Places, Ons
<1>4. RecordsOK' /\ exists' \ listed' = exists \ listed /\ failed' = failed
  BY Parts DEF RecordsOK, ClientEnded, treeVars
<1>5. turn' \in Procs \union {None}
  BY DEF ClientEnded, Waits, Continues, Returns
<1>6. Rest /\ lock' = lock
  BY <1>4, <1>5, Parts DEF Rest, ProcsOK, ClientEnded
<1>7. LockStep(p, TRUE, f) /\ LockStep(p, FALSE, Top(p))
  BY <1>1, <1>6, LocksLeft, Parts
<1>8. CASE Top(p).s \notin up
  <2>1. Returns(p, FALSE)
    BY <1>8 DEF ClientEnded
  <2> QED
    BY <2>1, <1>1, <1>4, <1>6, <1>7, ReturningFrom
<1>9. CASE Top(p).s \in up
  <2>1. Goes(p, f)
    BY <1>2, <1>9 DEF ClientEnded, Waits, Continues
  <2> QED
    BY <2>1, <1>1, <1>3, <1>4, <1>6, <1>7, Continuing
<1> QED
  BY <1>8, <1>9

LEMMA SessionClosesOK ==
  ASSUME IInv, NEW p \in Procs, SessionCloses(p)
  PROVE  IInv'
<1>1. /\ ~ Idle(p) /\ Top(p) \in Frames /\ Top(p).op \in {"terminate", "close"}
      /\ Top(p).pc = "lock" /\ Top(p).s \in Sessions
  BY AtEndTop DEF SessionCloses
<1>2. PICK f : f = [Top(p) EXCEPT !.pc = "closing", !.on = None]
  OBVIOUS
<1>3. Same(f, Top(p)) /\ f.on = None
  BY <1>1, <1>2, AtPcOn, ZenonT(60) DEF Places, Ons
<1>4. Goes(p, f) /\ lock' = [lock EXCEPT ![Top(p).s] = p]
  BY <1>2 DEF SessionCloses, Waits
<1>5. Rest /\ exists' \ listed' = exists \ listed
  BY RestKept DEF SessionCloses, Waits
<1>6. f.pc = "closing"
  BY <1>1, <1>2 DEF Frames
<1>7. Holds(Top(p).s, f)
  BY <1>1, <1>3, <1>6, NoneAssumption DEF Holds, Same
<1>8. \A x \in Locks : lock[x] # p
  BY <1>1, HoldsNothing, Parts
<1>9. LockStep(p, TRUE, f)
  BY <1>1, <1>4, <1>7, <1>8, Parts DEF LockStep, ProcsOK, Locks
<1> QED
  BY <1>1, <1>3, <1>4, <1>5, <1>9, Continuing

LEMMA SessionIsClosedOK ==
  ASSUME IInv, NEW p \in Procs, SessionIsClosed(p)
  PROVE  IInv'
<1>1. ~ Idle(p) /\ Top(p) \in Frames /\ Top(p).op \in {"terminate", "close"} /\ Top(p).pc = "lock"
  BY AtEndTop DEF SessionIsClosed
<1>2. Returns(p, TRUE) /\ lock' = lock
  BY DEF SessionIsClosed
<1>3. Rest /\ exists' \ listed' = exists \ listed
  BY <1>2, RestKept DEF SessionIsClosed, Returns
<1>4. LockStep(p, FALSE, Top(p))
  BY <1>1, <1>2, LocksLeft, Parts
<1> QED
  BY <1>1, <1>2, <1>3, <1>4, ReturningFrom

LEMMA SessionClosedOK ==
  ASSUME IInv, NEW p \in Procs, SessionClosed(p)
  PROVE  IInv'
<1>1. /\ ~ Idle(p) /\ Top(p) \in Frames /\ Top(p).op \in {"terminate", "close"}
      /\ Top(p).pc = "closing" /\ Top(p).s \in Sessions
  BY AtEndTop DEF SessionClosed
<1>2. Returns(p, TRUE) /\ lock' = [lock EXCEPT ![Top(p).s] = None]
  BY DEF SessionClosed
<1>3. Rest /\ exists' \ listed' = exists \ listed
  BY <1>2, RestKept DEF SessionClosed, Returns
<1>4. \A x \in Locks : lock[x] = p => x = Top(p).s
  <2>1. p # None
    BY NoneAssumption
  <2> QED
    BY <1>1, <2>1, Parts DEF LocksOK, Locks, Holds
<1>5. LockStep(p, FALSE, Top(p))
  BY <1>1, <1>2, <1>4, Parts DEF LockStep, ProcsOK, Locks
<1> QED
  BY <1>1, <1>2, <1>3, <1>5, ReturningFrom

-----------------------------------------------------------------------------

LEMMA DeleteTop ==
  ASSUME IInv, NEW p \in Procs, NEW pc, At(p, "delete", pc), pc # "closing"
  PROVE  /\ ~ Idle(p) /\ Top(p) \in Frames /\ Top(p).op = "delete" /\ Top(p).pc # "closing"
         /\ Top(p).s \in Sessions /\ Top(p).todo \in SUBSET Sessions
BY AtTop, FrameParts DEF Todo

LEMMA DeleteChildOK ==
  ASSUME IInv, NEW p \in Procs, DeleteChild(p)
  PROVE  IInv'
<1>1. /\ ~ Idle(p) /\ Top(p) \in Frames /\ Top(p).op = "delete" /\ Top(p).pc # "closing"
      /\ Top(p).todo \in SUBSET Sessions
  BY DeleteTop DEF DeleteChild
<1>2. PICK c \in Top(p).todo : Calls(p, [Top(p) EXCEPT !.todo = @ \ {c}], DeleteCall(c))
  BY DEF DeleteChild
<1>3. PICK f : f = [Top(p) EXCEPT !.todo = Top(p).todo \ {c}]
  OBVIOUS
<1>4. Same(f, Top(p))
  <2>1. Top(p).todo \ {c} \in SUBSET Todo(Top(p).op)
    BY <1>1 DEF Todo
  <2> QED
    BY <1>1, <1>3, <2>1, WithTodo
<1>5. Calls(p, f, DeleteCall(c))
  BY <1>2, <1>3
<1>6. DeleteCall(c) \in Frames /\ DeleteCall(c).op # "dispose"
  BY <1>1, <1>2, DeleteCallIsFrame DEF IInv
<1>7. Rest /\ exists' \ listed' = exists \ listed /\ lock' = lock
  BY <1>2, RestKept DEF DeleteChild, Calls
<1> QED
  BY <1>1, <1>4, <1>5, <1>6, <1>7, CallingOut

LEMMA DeleteUnlinksOK ==
  ASSUME IInv, NEW p \in Procs, DeleteUnlinks(p)
  PROVE  IInv'
<1>1. /\ ~ Idle(p) /\ Top(p) \in Frames /\ Top(p).op = "delete" /\ Top(p).pc # "closing"
      /\ Top(p).s \in Sessions
  BY DeleteTop DEF DeleteUnlinks
<1>2. PICK f : f = [Top(p) EXCEPT !.pc = "closed"]
  OBVIOUS
<1>3. Same(f, Top(p)) /\ f.op = "delete" /\ f.s = Top(p).s
  BY <1>1, <1>2, AtPc DEF Places, Same
<1>4. listed' = listed \ {f.s} /\ exists' = exists /\ failed' = failed /\ lock' = lock
  BY <1>3 DEF DeleteUnlinks, Unregister
<1>5. children' \in [Sessions -> SUBSET Sessions]
  BY Parts DEF DeleteUnlinks, Unregister, RecordsOK
<1>6. turn' \in Procs \union {None}
  BY DEF DeleteUnlinks, Calls, Continues
<1>7. registered' \subseteq Sessions
  BY Parts DEF DeleteUnlinks, Unregister, RecordsOK
<1>8. Rest
  BY <1>4, <1>5, <1>6, <1>7, Parts DEF DeleteUnlinks, Unregister, Rest, RecordsOK, ProcsOK
<1>9. \A s \in (exists' \ listed') \ (exists \ listed) : f.op = "delete" /\ f.s = s
  BY <1>3, <1>4
<1>10. CASE Top(p).found
  <2>1. Calls(p, f, EndCall("close", f.s))
    BY <1>2, <1>3, <1>10 DEF DeleteUnlinks
  <2>2. EndCall("close", f.s) \in Frames /\ EndCall("close", f.s).op # "dispose"
    BY <1>1, <1>3, EndCallIsFrame
  <2> QED
    BY <1>1, <1>3, <1>4, <1>8, <1>9, <2>1, <2>2, CallingOut
<1>11. CASE ~ Top(p).found
  <2>1. Goes(p, f)
    BY <1>2, <1>11 DEF DeleteUnlinks, Continues
  <2>2. LockStep(p, TRUE, f)
    BY <1>1, <1>4, LocksLeft, Parts
  <2> QED
    BY <1>1, <1>3, <1>8, <1>9, <2>1, <2>2, Continuing
<1> QED
  BY <1>10, <1>11

LEMMA DeletePausesOK ==
  ASSUME IInv, NEW p \in Procs, DeletePauses(p)
  PROVE  IInv'
<1>1. /\ ~ Idle(p) /\ Top(p) \in Frames /\ Top(p).op = "delete" /\ Top(p).pc # "closing"
      /\ Top(p).s \in Sessions
  BY DeleteTop DEF DeletePauses
<1>2. /\ exists' = exists /\ listed' = listed /\ lock' = lock
      /\ failed' \in {failed, failed \union {Top(p).s}} /\ turn' \in Procs \union {None}
  BY DEF DeletePauses, treeVars, Waits, Returns
<1>3. Rest
  BY <1>1, <1>2, Parts DEF DeletePauses, Rest, RecordsOK, ProcsOK, treeVars
<1>4. CASE Top(p).ok
  <2>1. PICK f : f = [Top(p) EXCEPT !.pc = "erase", !.on = Top(p).s]
    OBVIOUS
  <2>2. Same(f, Top(p))
    BY <1>1, <2>1, AtPcOn DEF Places, Ons
  <2>3. Goes(p, f)
    BY <1>4, <2>1 DEF DeletePauses, Waits
  <2>4. LockStep(p, TRUE, f)
    BY <1>1, <1>2, LocksLeft, Parts
  <2> QED
    BY <1>1, <1>2, <1>3, <2>2, <2>3, <2>4, Continuing
<1>5. CASE ~ Top(p).ok
  <2>1. Returns(p, FALSE) /\ Top(p).s \in failed'
    BY <1>5 DEF DeletePauses
  <2>2. LockStep(p, FALSE, Top(p))
    BY <1>1, <1>2, LocksLeft, Parts
  <2> QED
    BY <1>1, <1>2, <1>3, <2>1, <2>2, ReturningFrom
<1> QED
  BY <1>4, <1>5

LEMMA DeleteErasesOK ==
  ASSUME IInv, NEW p \in Procs, DeleteErases(p)
  PROVE  IInv'
<1>1. ~ Idle(p) /\ Top(p) \in Frames /\ Top(p).op = "delete" /\ Top(p).pc # "closing"
  BY DeleteTop DEF DeleteErases
<1>2. PICK ok : ok = (Top(p).s \in exists)
  OBVIOUS
<1>r. ok \in BOOLEAN /\ Returns(p, ok)
  BY <1>2 DEF DeleteErases
<1>3. /\ exists' = exists \ {Top(p).s} /\ listed' = listed /\ lock' = lock /\ failed' = failed
      /\ turn' \in Procs \union {None}
  BY <1>r DEF DeleteErases, Returns
<1>4. Rest
  BY <1>3, Parts DEF DeleteErases, Rest, RecordsOK, ProcsOK
<1>5. LockStep(p, FALSE, Top(p))
  BY <1>1, <1>3, LocksLeft, Parts
<1> QED
  BY <1>1, <1>r, <1>3, <1>4, <1>5, ReturningFrom

-----------------------------------------------------------------------------

LEMMA DisposeTop ==
  ASSUME IInv, NEW p \in Procs, NEW pc, At(p, "dispose", pc), pc # "closing"
  PROVE  /\ ~ Idle(p) /\ Top(p) \in Frames /\ Top(p).op = "dispose" /\ Top(p).pc # "closing"
         /\ Top(p).s \in Sessions /\ Top(p).par \in Sessions /\ Top(p).todo \in SUBSET Sessions
         /\ Top(p).kids \in SUBSET Sessions /\ Top(p).hard \in BOOLEAN
BY AtTop, FrameParts DEF Todo

\* A disposal goes on as f.
LEMMA DisposeGoes ==
  ASSUME IInv, NEW p \in Procs, NEW pc, At(p, "dispose", pc), pc # "closing",
         NEW f, Same(f, Top(p)), Goes(p, f), Rest, lock' = lock,
         exists' = exists, listed' = listed
  PROVE  IInv'
<1>1. ~ Idle(p) /\ Top(p).op = "dispose" /\ Top(p).pc # "closing"
  BY DisposeTop
<1>2. LockStep(p, TRUE, f)
  BY <1>1, LocksLeft, Parts
<1> QED
  BY <1>1, <1>2, Continuing

LEMMA DisposeChildOK ==
  ASSUME IInv, NEW p \in Procs, DisposeChild(p)
  PROVE  IInv'
<1>1. /\ ~ Idle(p) /\ Top(p) \in Frames /\ Top(p).op = "dispose" /\ Top(p).pc # "closing"
      /\ Top(p).s \in Sessions /\ Top(p).todo \in SUBSET Sessions /\ Top(p).hard \in BOOLEAN
  BY DisposeTop DEF DisposeChild
<1>2. PICK c \in Top(p).todo :
        LET rest == [Top(p) EXCEPT !.todo = @ \ {c}] IN
        IF c \notin exists THEN Continues(p, rest)
        ELSE IF Top(p).s \in exists /\ c \in children[Top(p).s]
             THEN Calls(p, rest, DisposeCall(Top(p).s, c, Top(p).hard))
        ELSE Raises(p)
  BY DEF DisposeChild
<1>3. PICK f : f = [Top(p) EXCEPT !.todo = Top(p).todo \ {c}]
  OBVIOUS
<1>4. Same(f, Top(p))
  <2>1. Top(p).todo \ {c} \in SUBSET Todo(Top(p).op)
    BY <1>1 DEF Todo
  <2> QED
    BY <1>1, <1>3, <2>1, WithTodo
<1>5. \/ Continues(p, f)
      \/ Calls(p, f, DisposeCall(Top(p).s, c, Top(p).hard))
      \/ Raises(p)
  BY <1>2, <1>3
<1>6. UNCHANGED <<born, treeVars, up, lock, crossed, failed>> /\ turn' \in {p, None}
  BY <1>5 DEF DisposeChild, Continues, Calls, Raises
<1>7. Rest /\ exists' = exists /\ listed' = listed /\ lock' = lock
  BY <1>6, RestKept, RecordsKept
<1>8. CASE Continues(p, f)
  BY <1>4, <1>7, <1>8, DisposeGoes DEF DisposeChild, Continues
<1>9. CASE Calls(p, f, DisposeCall(Top(p).s, c, Top(p).hard))
  <2>1. DisposeCall(Top(p).s, c, Top(p).hard) \in Frames
    BY <1>1, <1>2, DisposeCallIsFrame DEF IInv
  <2> QED
    BY <1>1, <1>4, <1>7, <1>9, <2>1, CallingOut
<1>10. CASE Raises(p)
  <2>1. StackType' /\ StacksOK' /\ Kept
    BY <1>1, <1>10, Raising, Parts
  <2>2. HalfOK'
    BY <1>7, <2>1, HalfKept, Parts DEF Kept, Rest
  <2>3. LockStep(p, FALSE, Top(p))
    BY <1>1, <1>7, LocksLeft, Parts
  <2>4. LockStep(p, <<>> # <<>>, Top(p)) /\ <<>> \in Stacks
    BY <2>3 DEF LockStep, Stacks
  <2>5. LocksOK'
    BY <1>10, <2>4, LocksKept, Parts DEF Raises
  <2> QED
    BY <1>7, <2>1, <2>2, <2>3, <2>5, Parts DEF Rest, ProcsOK, LockStep
<1> QED
  BY <1>5, <1>8, <1>9, <1>10

LEMMA DisposeEndsOK ==
  ASSUME IInv, NEW p \in Procs, DisposeEnds(p)
  PROVE  IInv'
<1>1. /\ ~ Idle(p) /\ Top(p) \in Frames /\ Top(p).op = "dispose" /\ Top(p).pc # "closing"
      /\ Top(p).s \in Sessions
  BY DisposeTop DEF DisposeEnds
<1>2. PICK f : f = [Top(p) EXCEPT !.pc = "ended"]
  OBVIOUS
<1>3. Same(f, Top(p))
  BY <1>1, <1>2, AtPc DEF Places
<1>4. Calls(p, f, EndCall("terminate", Top(p).s))
  BY <1>2 DEF DisposeEnds
<1>5. EndCall("terminate", Top(p).s) \in Frames /\ EndCall("terminate", Top(p).s).op # "dispose"
  BY <1>1, EndCallIsFrame
<1>6. Rest /\ exists' \ listed' = exists \ listed /\ lock' = lock
  BY RestKept DEF DisposeEnds, Calls
<1> QED
  BY <1>1, <1>3, <1>4, <1>5, <1>6, CallingOut

LEMMA DisposeDeletesOK ==
  ASSUME IInv, NEW p \in Procs, DisposeDeletes(p)
  PROVE  IInv'
<1>1. /\ ~ Idle(p) /\ Top(p) \in Frames /\ Top(p).op = "dispose" /\ Top(p).pc # "closing"
      /\ Top(p).s \in Sessions
  BY DisposeTop DEF DisposeDeletes
<1>2. PICK f : f = [Top(p) EXCEPT !.pc = "over"]
  OBVIOUS
<1>3. Same(f, Top(p))
  BY <1>1, <1>2, AtPc DEF Places
<1>4. Calls(p, f, DeleteCall(Top(p).s))
  BY <1>2 DEF DisposeDeletes
<1>5. DeleteCall(Top(p).s) \in Frames /\ DeleteCall(Top(p).s).op # "dispose"
  BY <1>1, DeleteCallIsFrame DEF IInv
<1>6. Rest /\ exists' \ listed' = exists \ listed /\ lock' = lock
  BY RestKept DEF DisposeDeletes, Calls
<1> QED
  BY <1>1, <1>3, <1>4, <1>5, <1>6, CallingOut

\* A disposal returns, with the minion kept or deleted.
LEMMA DisposeOverOK ==
  ASSUME IInv, NEW p \in Procs, DisposeKeeps(p) \/ DisposeReturns(p)
  PROVE  IInv'
<1>1. ~ Idle(p) /\ Top(p).op = "dispose" /\ Top(p).pc # "closing"
  BY DisposeTop DEF DisposeKeeps, DisposeReturns
<1>2. Returns(p, TRUE) /\ lock' = lock
  BY DEF DisposeKeeps, DisposeReturns
<1>3. Rest /\ exists' \ listed' = exists \ listed
  BY <1>2, RestKept DEF DisposeKeeps, DisposeReturns, Returns
<1>4. LockStep(p, FALSE, Top(p))
  BY <1>1, <1>2, LocksLeft, Parts
<1> QED
  BY <1>1, <1>2, <1>3, <1>4, ReturningFrom

LEMMA DisposeUnlinksOK ==
  ASSUME IInv, NEW p \in Procs, DisposeUnlinks(p)
  PROVE  IInv'
<1>1. Top(p) \in Frames /\ Top(p).par \in Sessions
  BY DisposeTop DEF DisposeUnlinks
<1>2. PICK kids : kids = children[Top(p).par] \ {Top(p).s}
  OBVIOUS
<1>3. kids \in SUBSET Sessions /\ Top(p).par \in Ons /\ {"unlink", "unmark", "remove"} \subseteq Places
  BY <1>1, <1>2, Parts DEF RecordsOK, Places, Ons
<1>4. PICK f : f = IF Top(p).s \in children[Top(p).par]
                   THEN [Top(p) EXCEPT !.pc = "unlink", !.on = Top(p).par, !.kids = kids]
                   ELSE IF kids = {} THEN [Top(p) EXCEPT !.pc = "unmark", !.on = Top(p).par]
                   ELSE [Top(p) EXCEPT !.pc = "remove"]
  OBVIOUS
<1>5. Same(f, Top(p))
  <2>1. Same([Top(p) EXCEPT !.pc = "unlink", !.on = Top(p).par, !.kids = kids], Top(p))
    BY <1>1, <1>3, AtPcOnKids DEF Edited
  <2>2. Same([Top(p) EXCEPT !.pc = "unmark", !.on = Top(p).par], Top(p))
    BY <1>1, <1>3, AtPcOn
  <2>3. Same([Top(p) EXCEPT !.pc = "remove"], Top(p))
    BY <1>1, <1>3, AtPc
  <2> QED
    BY <1>4, <2>1, <2>2, <2>3
<1>6. Continues(p, f)
  BY <1>2, <1>4 DEF DisposeUnlinks
<1>7. Rest /\ exists' = exists /\ listed' = listed /\ lock' = lock
  BY <1>6, RestKept, RecordsKept DEF DisposeUnlinks, Continues
<1> QED
  BY <1>5, <1>6, <1>7, DisposeGoes DEF DisposeUnlinks, Continues

LEMMA DisposeWritesOK ==
  ASSUME IInv, NEW p \in Procs, DisposeWrites(p)
  PROVE  IInv'
<1>1. Top(p) \in Frames /\ Top(p).kids \in SUBSET Sessions
  BY DisposeTop DEF DisposeWrites
<1>2. PICK f : f = IF Top(p).kids = {} THEN [Top(p) EXCEPT !.pc = "unmark"]
                   ELSE [Top(p) EXCEPT !.pc = "remove", !.on = None]
  OBVIOUS
<1>3. Same(f, Top(p))
  <2>1. {"unmark", "remove"} \subseteq Places /\ None \in Ons
    BY DEF Places, Ons
  <2>2. Same([Top(p) EXCEPT !.pc = "unmark"], Top(p))
    BY <1>1, <2>1, AtPc
  <2>3. Same([Top(p) EXCEPT !.pc = "remove", !.on = None], Top(p))
    BY <1>1, <2>1, AtPcOn
  <2> QED
    BY <1>2, <2>2, <2>3
<1>4. Continues(p, f)
  BY <1>2 DEF DisposeWrites
<1>5. exists' = exists /\ listed' = listed /\ lock' = lock /\ failed' = failed
  BY DEF DisposeWrites
<1>6. children' \in [Sessions -> SUBSET Sessions]
  BY <1>1, Parts DEF DisposeWrites, SetChildren, RecordsOK
<1>7. Rest
  BY <1>4, <1>6, Parts DEF DisposeWrites, Rest, RecordsOK, ProcsOK, Continues
<1> QED
  BY <1>3, <1>4, <1>5, <1>7, DisposeGoes DEF DisposeWrites, Continues

LEMMA DisposeUnmarksOK ==
  ASSUME IInv, NEW p \in Procs, DisposeUnmarks(p)
  PROVE  IInv'
<1>1. Top(p) \in Frames
  BY DisposeTop DEF DisposeUnmarks
<1>2. PICK f : f = [Top(p) EXCEPT !.pc = "remove", !.on = None]
  OBVIOUS
<1>3. Same(f, Top(p))
  BY <1>1, <1>2, AtPcOn DEF Places, Ons
<1>4. Continues(p, f)
  BY <1>2 DEF DisposeUnmarks
<1>5. exists' = exists /\ listed' = listed /\ lock' = lock
  BY DEF DisposeUnmarks
<1>6. Rest
  BY <1>4, Parts DEF DisposeUnmarks, ResetOverseer, Rest, RecordsOK, ProcsOK, Continues
<1> QED
  BY <1>3, <1>4, <1>5, <1>6, DisposeGoes DEF DisposeUnmarks, Continues

-----------------------------------------------------------------------------

LEMMA ReparentTop ==
  ASSUME IInv, NEW p \in Procs, NEW pc, At(p, "reparent", pc)
  PROVE  /\ ~ Idle(p) /\ Top(p) \in Frames /\ Top(p).op = "reparent" /\ Top(p).pc = pc
         /\ Top(p).s \in Sessions /\ Top(p).par \in Sessions \union {None}
         /\ Top(p).kids \in SUBSET Sessions /\ Top(p).todo \in SUBSET (Sessions \X Nat)
         /\ Top(p).on \in Ons
BY AtTop, FrameParts DEF Todo

\* A move goes on as f, with the lock of the tree, and does not ask for it again.
LEMMA ReparentGoes ==
  ASSUME IInv, NEW p \in Procs, NEW pc, At(p, "reparent", pc),
         NEW f, Same(f, Top(p)), f.on # Tree \/ f.on = Top(p).on, Goes(p, f), Rest, lock' = lock,
         exists' = exists, listed' = listed
  PROVE  IInv'
<1>1. ~ Idle(p) /\ Top(p).op = "reparent" /\ f.op = "reparent"
  BY ReparentTop DEF Same
<1>2. CASE f.on # Tree
  <2>1. LockStep(p, TRUE, f)
    BY <1>1, <1>2, LocksLeft, Parts
  <2> QED
    BY <1>1, <2>1, Continuing
<1>3. CASE f.on = Tree /\ Top(p).on = Tree
  <2>1. p # None
    BY NoneAssumption
  <2>2. \A x \in Locks : lock[x] # p
    BY <1>1, <1>3, <2>1, Parts DEF LocksOK, Locks, Holds
  <2>3. LockStep(p, TRUE, f)
    BY <2>2, Parts DEF LockStep, ProcsOK
  <2> QED
    BY <1>1, <2>3, Continuing
<1> QED
  BY <1>2, <1>3

\* Sessions are no lock of the tree, and nor is having none to wait for.
LEMMA NotTree == \A x \in Sessions \union {None} : x \in Ons /\ x # Tree
BY NoneAssumption DEF Ons

LEMMA LeavesOK ==
  ASSUME IInv, NEW p \in Procs, Leaves(p)
  PROVE  IInv'
<1>1. /\ ~ Idle(p) /\ Top(p) \in Frames /\ Top(p).op = "reparent"
      /\ Top(p).s \in Sessions /\ Top(p).kids \in SUBSET Sessions
  BY ReparentTop DEF Leaves
<1>2. PICK old : old = Top(p).kids \intersect exists
  OBVIOUS
<1>3. PICK rest : rest = UNION {children[o] \ {Top(p).s} : o \in old}
  OBVIOUS
<1>4. PICK o : o = CHOOSE x \in old : TRUE
  OBVIOUS
<1>5. old # {} => o \in old
  BY <1>4, Zenon
<1>6. rest \in SUBSET Sessions
  <2>1. \A x \in old : children[x] \in SUBSET Sessions
    BY <1>1, <1>2, Parts DEF RecordsOK
  <2> QED
    BY <1>3, <2>1
<1>7. PICK f : f = IF old = {} THEN [Top(p) EXCEPT !.pc = "join", !.on = None, !.kids = {}]
                   ELSE IF Top(p).s \in children[o]
                   THEN [Top(p) EXCEPT !.pc = "leaving", !.on = o, !.kids = rest]
                   ELSE IF rest = {} THEN [Top(p) EXCEPT !.pc = "unmark", !.on = o]
                   ELSE [Top(p) EXCEPT !.pc = "join", !.on = None]
  OBVIOUS
<1>8. Same(f, Top(p)) /\ f.on # Tree
  <2>1. {"join", "leaving", "unmark"} \subseteq Places /\ {} \in SUBSET Sessions
    BY DEF Places
  <2>2. None \in Ons /\ None # Tree
    BY NotTree
  <2>3. CASE old = {}
    <3>1. f = Edited(Top(p), "join", None, {})
      BY <1>7, <2>3 DEF Edited
    <3> QED
      BY <1>1, <2>1, <2>2, <3>1, AtPcOnKids
  <2>4. CASE old # {}
    <3>1. o \in Ons /\ o # Tree
      BY <1>1, <1>2, <1>5, <2>4, NotTree
    <3>2. LET g == Edited(Top(p), "leaving", o, rest) IN Same(g, Top(p)) /\ g.on # Tree
      BY <1>1, <1>6, <2>1, <3>1, AtPcOnKids
    <3>3. LET g == [Top(p) EXCEPT !.pc = "unmark", !.on = o] IN Same(g, Top(p)) /\ g.on # Tree
      BY <1>1, <2>1, <3>1, AtPcOn
    <3>4. LET g == [Top(p) EXCEPT !.pc = "join", !.on = None] IN Same(g, Top(p)) /\ g.on # Tree
      BY <1>1, <2>1, <2>2, AtPcOn, ZenonT(60)
    <3> QED
      BY <1>7, <2>4, <3>2, <3>3, <3>4 DEF Edited
  <2> QED
    BY <2>3, <2>4
<1>9. Continues(p, f)
  BY <1>2, <1>3, <1>4, <1>7 DEF Leaves
<1>10. Rest /\ exists' \ listed' = exists \ listed
  BY <1>9, RestKept DEF Leaves, Continues
<1>11. LockStep(p, TRUE, f)
  <2>1. lock' = [lock EXCEPT ![Tree] = p] /\ Tree \in Locks
    BY DEF Leaves, Locks
  <2>2. f.op = "reparent"
    BY <1>1, <1>8 DEF Same
  <2>3. \A x \in Locks \ {Tree} : lock[x] # p
    <3>1. p # None
      BY NoneAssumption
    <3> QED
      BY <1>1, <3>1, Parts DEF LocksOK, Locks, Holds
  <2>4. lock' \in [Locks -> Procs \union {None}] /\ lock'[Tree] = p
        /\ \A x \in Locks \ {Tree} : lock'[x] = lock[x]
    BY <2>1, Parts DEF ProcsOK
  <2> QED
    BY <1>8, <2>2, <2>3, <2>4 DEF LockStep, Holds
<1> QED
  BY <1>1, <1>8, <1>9, <1>10, <1>11, Continuing DEF Continues

LEMMA LeavesOldOK ==
  ASSUME IInv, NEW p \in Procs, LeavesOld(p)
  PROVE  IInv'
<1>1. Top(p) \in Frames /\ Top(p).kids \in SUBSET Sessions
  BY ReparentTop DEF LeavesOld
<1>2. PICK f : f = IF Top(p).kids = {} THEN [Top(p) EXCEPT !.pc = "unmark"]
                   ELSE [Top(p) EXCEPT !.pc = "join", !.on = None]
  OBVIOUS
<1>3. Same(f, Top(p)) /\ (f.on # Tree \/ f.on = Top(p).on)
  <2>1. {"unmark", "join"} \subseteq Places /\ None \in Ons /\ None # Tree
    BY NotTree DEF Places
  <2>2. LET g == [Top(p) EXCEPT !.pc = "unmark"] IN Same(g, Top(p)) /\ g.on = Top(p).on
    BY <1>1, <2>1, AtPc
  <2>3. LET g == [Top(p) EXCEPT !.pc = "join", !.on = None] IN Same(g, Top(p)) /\ g.on # Tree
    BY <1>1, <2>1, AtPcOn, ZenonT(60)
  <2> QED
    BY <1>2, <2>2, <2>3
<1>4. Continues(p, f)
  BY <1>2 DEF LeavesOld
<1>5. exists' = exists /\ listed' = listed /\ lock' = lock
  BY DEF LeavesOld
<1>6. children' \in [Sessions -> SUBSET Sessions]
  BY <1>1, Parts DEF LeavesOld, SetChildren, RecordsOK
<1>7. Rest
  BY <1>4, <1>6, Parts DEF LeavesOld, Rest, RecordsOK, ProcsOK, Continues
<1> QED
  BY <1>3, <1>4, <1>5, <1>7, ReparentGoes DEF LeavesOld, Continues

LEMMA UnmarksOldOK ==
  ASSUME IInv, NEW p \in Procs, UnmarksOld(p)
  PROVE  IInv'
<1>1. Top(p) \in Frames
  BY ReparentTop DEF UnmarksOld
<1>2. PICK f : f = [Top(p) EXCEPT !.pc = "join", !.on = None]
  OBVIOUS
<1>3. Same(f, Top(p)) /\ f.on # Tree
  BY <1>1, <1>2, AtPcOn, NotTree, ZenonT(60) DEF Places
<1>4. Continues(p, f)
  BY <1>2 DEF UnmarksOld
<1>5. exists' = exists /\ listed' = listed /\ lock' = lock
  BY DEF UnmarksOld
<1>6. Rest
  BY <1>4, Parts DEF UnmarksOld, ResetOverseer, Rest, RecordsOK, ProcsOK, Continues
<1> QED
  BY <1>3, <1>4, <1>5, <1>6, ReparentGoes DEF UnmarksOld, Continues

LEMMA MarkOrMoveSame ==
  ASSUME IInv, NEW f \in Frames
  PROVE  Same(MarkOrMove(f), f) /\ MarkOrMove(f).on # Tree
<1>1. {"mark", "move"} \subseteq Places /\ f.s \in Ons /\ f.s # Tree
  BY FrameParts, NotTree DEF Places
<1>2. f.par \in Ons /\ f.par # Tree
  BY FrameParts, NotTree
<1>3. LET g == [f EXCEPT !.pc = "mark", !.on = f.par] IN Same(g, f) /\ g.on # Tree
  BY <1>1, <1>2, AtPcOn, ZenonT(60)
<1>4. LET g == [f EXCEPT !.pc = "move", !.on = f.s] IN Same(g, f) /\ g.on # Tree
  BY <1>1, AtPcOn, ZenonT(60)
<1> QED
  BY <1>3, <1>4 DEF MarkOrMove

LEMMA JoinsNewOK ==
  ASSUME IInv, NEW p \in Procs, JoinsNew(p)
  PROVE  IInv'
<1>1. Top(p) \in Frames /\ Top(p).s \in Sessions /\ Top(p).par \in Sessions \union {None}
  BY ReparentTop DEF JoinsNew
<1>2. PICK kids : kids = children[Top(p).par] \union {Top(p).s}
  OBVIOUS
<1>3. PICK f : f = IF Top(p).par \in exists /\ Top(p).s \notin children[Top(p).par]
                   THEN [Top(p) EXCEPT !.pc = "joining", !.on = Top(p).par, !.kids = kids]
                   ELSE MarkOrMove(Top(p))
  OBVIOUS
<1>4. Same(f, Top(p)) /\ f.on # Tree
  <2>1. CASE Top(p).par \in exists
    <3>1. kids \in SUBSET Sessions /\ "joining" \in Places
      BY <1>1, <1>2, <2>1, Parts DEF RecordsOK, Places
    <3>2. LET g == Edited(Top(p), "joining", Top(p).par, kids)
          IN  Same(g, Top(p)) /\ g.on # Tree
      BY <1>1, <3>1, NotTree, AtPcOnKids
    <3> QED
      BY <1>1, <1>3, <3>2, MarkOrMoveSame DEF Edited
  <2>2. CASE Top(p).par \notin exists
    BY <1>1, <1>3, <2>2, MarkOrMoveSame
  <2> QED
    BY <2>1, <2>2
<1>5. Continues(p, f)
  BY <1>2, <1>3 DEF JoinsNew
<1>6. Rest /\ exists' = exists /\ listed' = listed /\ lock' = lock
  BY <1>5, RestKept, RecordsKept DEF JoinsNew, Continues
<1> QED
  BY <1>4, <1>5, <1>6, ReparentGoes DEF JoinsNew, Continues

LEMMA WritesNewOK ==
  ASSUME IInv, NEW p \in Procs, WritesNew(p)
  PROVE  IInv'
<1>1. Top(p) \in Frames /\ Top(p).kids \in SUBSET Sessions
  BY ReparentTop DEF WritesNew
<1>2. Same(MarkOrMove(Top(p)), Top(p)) /\ MarkOrMove(Top(p)).on # Tree
  BY <1>1, MarkOrMoveSame
<1>3. Continues(p, MarkOrMove(Top(p))) /\ exists' = exists /\ listed' = listed /\ lock' = lock
  BY DEF WritesNew
<1>4. children' \in [Sessions -> SUBSET Sessions]
  BY <1>1, Parts DEF WritesNew, SetChildren, RecordsOK
<1>5. Rest
  BY <1>3, <1>4, Parts DEF WritesNew, Rest, RecordsOK, ProcsOK, Continues
<1> QED
  BY <1>2, <1>3, <1>5, ReparentGoes DEF WritesNew, Continues

LEMMA MarksNewOK ==
  ASSUME IInv, NEW p \in Procs, MarksNew(p)
  PROVE  IInv'
<1>1. Top(p) \in Frames /\ Top(p).s \in Sessions
  BY ReparentTop DEF MarksNew
<1>2. PICK f : f = [Top(p) EXCEPT !.pc = "move", !.on = Top(p).s]
  OBVIOUS
<1>3. Same(f, Top(p)) /\ f.on # Tree
  BY <1>1, <1>2, AtPcOn, NotTree, ZenonT(60) DEF Places
<1>4. Continues(p, f) /\ exists' = exists /\ listed' = listed /\ lock' = lock
  BY <1>2 DEF MarksNew
<1>5. overseer' \subseteq Sessions
  BY Parts DEF MarksNew, SetOverseer, RecordsOK
<1>6. Rest
  BY <1>4, <1>5, Parts DEF MarksNew, Rest, RecordsOK, ProcsOK, Continues
<1> QED
  BY <1>3, <1>4, <1>6, ReparentGoes DEF MarksNew, Continues

LEMMA MovesOK ==
  ASSUME IInv, NEW p \in Procs, Moves(p)
  PROVE  IInv'
<1>1. /\ Top(p) \in Frames /\ Top(p).s \in Sessions /\ Top(p).par \in Sessions \union {None}
      /\ Top(p).op = "reparent"
  BY ReparentTop DEF Moves
<1>2. PICK l : l = LevelUnder(Top(p).par)
  OBVIOUS
<1>3. PICK f : f = [Top(p) EXCEPT !.pc = "level", !.on = Top(p).s, !.kids = children[Top(p).s],
                                  !.todo = {<<Top(p).s, l>>}]
  OBVIOUS
<1>4. l \in Nat
  BY <1>1, <1>2, Parts DEF LevelUnder, RecordsOK
<1>5. Same(f, Top(p)) /\ f.on # Tree
  <2>1. {<<Top(p).s, l>>} \in SUBSET Todo(Top(p).op)
    BY <1>1, <1>4 DEF Todo
  <2>2. "level" \in Places /\ children[Top(p).s] \in SUBSET Sessions /\ Top(p).s \in Ons /\ Top(p).s # Tree
    BY <1>1, NotTree, Parts DEF Places, RecordsOK
  <2>3. f = Refilled(Top(p), "level", Top(p).s, children[Top(p).s], {<<Top(p).s, l>>})
    BY <1>3 DEF Refilled
  <2> QED
    BY <1>1, <2>1, <2>2, <2>3, AtPcWithTodo
<1>6. Continues(p, f) /\ exists' = exists /\ listed' = listed /\ lock' = lock
  BY <1>2, <1>3 DEF Moves
<1>7. parent' \in [Sessions -> Sessions \union {None}]
  BY <1>1, Parts DEF Moves, RecordsOK
<1>8. Rest
  BY <1>6, <1>7, Parts DEF Moves, Rest, RecordsOK, ProcsOK, Continues
<1> QED
  BY <1>5, <1>6, <1>8, ReparentGoes DEF Moves, Continues

LEMMA RelevelsOK ==
  ASSUME IInv, NEW p \in Procs, Relevels(p)
  PROVE  IInv'
<1>1. /\ ~ Idle(p) /\ Top(p) \in Frames /\ Top(p).op = "reparent"
      /\ Top(p).kids \in SUBSET Sessions /\ Top(p).todo \in SUBSET (Sessions \X Nat)
  BY ReparentTop DEF Relevels
<1>2. PICK l \in {x[2] : x \in {x \in Top(p).todo : x[1] = Top(p).on}} :
        LET rest == (Top(p).todo \ {<<Top(p).on, l>>})
                      \union {<<c, l + 1>> : c \in Top(p).kids \intersect exists} IN
        /\ level' = IF Top(p).on \in exists THEN [level EXCEPT ![Top(p).on] = l] ELSE level
        /\ IF rest = {}
           THEN lock' = [lock EXCEPT ![Tree] = None] /\ Returns(p, TRUE)
           ELSE /\ \E x \in rest : Continues(p, [Top(p) EXCEPT !.todo = rest, !.on = x[1],
                                                               !.kids = children[x[1]]])
                /\ UNCHANGED lock
  BY DEF Relevels
<1>3. PICK rest : rest = (Top(p).todo \ {<<Top(p).on, l>>})
                           \union {<<c, l + 1>> : c \in Top(p).kids \intersect exists}
  OBVIOUS
<1>4. l \in Nat
  BY <1>1, <1>2
<1>5. rest \in SUBSET (Sessions \X Nat)
  BY <1>1, <1>3, <1>4
<1>6. level' \in [Sessions -> Nat]
  BY <1>2, <1>4, Parts DEF RecordsOK
<1>7. turn' \in Procs \union {None}
  BY <1>2 DEF Returns, Continues
<1>8. Rest /\ exists' = exists /\ listed' = listed
  BY <1>6, <1>7, Parts DEF Relevels, Rest, RecordsOK, ProcsOK
<1>9. CASE rest = {}
  <2>1. lock' = [lock EXCEPT ![Tree] = None] /\ Returns(p, TRUE)
    BY <1>2, <1>3, <1>9
  <2>2. \A x \in Locks \ {Tree} : lock[x] # p
    <3>1. p # None
      BY NoneAssumption
    <3> QED
      BY <1>1, <3>1, Parts DEF LocksOK, Locks, Holds
  <2>3. lock' \in [Locks -> Procs \union {None}] /\ lock'[Tree] = None
        /\ \A x \in Locks \ {Tree} : lock'[x] = lock[x]
    BY <2>1, Parts DEF ProcsOK, Locks
  <2>4. LockStep(p, FALSE, Top(p))
    BY <2>2, <2>3 DEF LockStep
  <2> QED
    BY <1>1, <1>8, <2>1, <2>4, ReturningFrom
<1>10. CASE rest # {}
  <2>1. PICK x \in rest : Continues(p, [Top(p) EXCEPT !.todo = rest, !.on = x[1], !.kids = children[x[1]]])
    BY <1>2, <1>3, <1>10
  <2>2. lock' = lock
    BY <1>2, <1>3, <1>10
  <2>3. PICK f : f = [Top(p) EXCEPT !.todo = rest, !.on = x[1], !.kids = children[x[1]]]
    OBVIOUS
  <2>4. x[1] \in Sessions /\ rest \in SUBSET Todo(Top(p).op)
    BY <1>1, <1>5 DEF Todo
  <2>5. children[x[1]] \in SUBSET Sessions /\ x[1] \in Ons /\ x[1] # Tree
    BY <2>4, NotTree, Parts DEF RecordsOK
  <2>6. f = Onward(Top(p), x[1], children[x[1]], rest)
    BY <2>3 DEF Onward
  <2>7. Same(f, Top(p)) /\ f.on # Tree
    BY <1>1, <2>4, <2>5, <2>6, OnWithTodo
  <2> QED
    BY <1>8, <2>1, <2>2, <2>3, <2>7, ReparentGoes DEF Relevels, Continues
<1> QED
  BY <1>9, <1>10

-----------------------------------------------------------------------------
(* The theorems.                                                           *)

LEMMA RebootOK ==
  ASSUME IInv, Reboot
  PROVE  IInv'
<1>1. RecordsOK'
  <2>1. children' \in [Sessions -> SUBSET Sessions]
    BY Parts DEF Reboot, RecordsOK
  <2> QED
    BY <2>1, Parts DEF Reboot, Rebuild, RecordsOK
<1>2. lock' = [x \in Locks |-> None] /\ stack' = [p \in Procs |-> <<>>]
  BY DEF Reboot, Locks
<1>3. ProcsOK'
  BY <1>2, MaxCrossedAssumption, Parts DEF Reboot, ProcsOK
<1>4. <<>> \in Stacks /\ OnlyDisposals(<<>>)
  BY DEF Stacks, OnlyDisposals
<1>5. StackType'
  BY <1>2, <1>4 DEF StackType
<1>6. StacksOK'
  <2> SUFFICES ASSUME NEW p \in Procs PROVE OnlyDisposals(stack'[p])
    BY DEF StacksOK, OnlyDisposals
  <2> QED
    BY <1>2, <1>4
<1>7. LocksOK'
  BY <1>2 DEF LocksOK, Locks
<1>8. HalfOK'
  BY DEF HalfOK, Reboot
<1> QED
  BY <1>1, <1>3, <1>5, <1>6, <1>7, <1>8, Parts

LEMMA InitIInv == Init => IInv
<1> SUFFICES ASSUME Init PROVE IInv
  OBVIOUS
<1>1. RecordsOK
  BY DEF Init, RecordsOK
<1>2. lock = [x \in Locks |-> None] /\ stack = [p \in Procs |-> <<>>]
  BY DEF Init, Locks
<1>3. ProcsOK
  BY <1>2, MaxCrossedAssumption DEF Init, ProcsOK
<1>4. <<>> \in Stacks /\ OnlyDisposals(<<>>)
  BY DEF Stacks, OnlyDisposals
<1>5. StackType /\ StacksOK
  BY <1>2, <1>4 DEF StackType, StacksOK
<1>6. LocksOK
  BY <1>2 DEF LocksOK, Locks
<1>7. HalfOK
  BY DEF HalfOK, Init
<1> QED
  BY <1>1, <1>3, <1>5, <1>6, <1>7, Parts

LEMMA GoesOnOK ==
  ASSUME IInv, NEW p \in Procs, GoesOn(p)
  PROVE  IInv'
<1>1. CASE WaitForLock(p)
  BY <1>1, WaitForLockOK
<1>2. CASE SpawnMarks(p) \/ SpawnLinks(p)
  BY <1>2, SpawnMarksOK, SpawnLinksOK
<1>3. CASE Ending(p)
  BY <1>3, ClientAskedOK, ClientEndedOK, SessionClosesOK, SessionIsClosedOK, SessionClosedOK
     DEF Ending
<1>4. CASE Deleting(p)
  BY <1>4, DeleteChildOK, DeleteUnlinksOK, DeletePausesOK, DeleteErasesOK DEF Deleting
<1>5. CASE Disposing(p)
  BY <1>5, DisposeChildOK, DisposeEndsOK, DisposeOverOK, DisposeUnlinksOK, DisposeWritesOK,
     DisposeUnmarksOK, DisposeDeletesOK DEF Disposing
<1>6. CASE Reparenting(p)
  BY <1>6, LeavesOK, LeavesOldOK, UnmarksOldOK, JoinsNewOK, WritesNewOK, MarksNewOK, MovesOK,
     RelevelsOK DEF Reparenting
<1> QED
  BY <1>1, <1>2, <1>3, <1>4, <1>5, <1>6 DEF GoesOn

LEMMA NextIInv == IInv /\ [Next]_hierVars => IInv'
<1> SUFFICES ASSUME IInv, [Next]_hierVars PROVE IInv'
  OBVIOUS
<1>1. ASSUME NEW s \in Sessions, CreateMinion(s) \/ StartSession(s) \/ UpdateExpertise(s)
      PROVE  IInv'
  BY <1>1, CreateMinionOK, StartSessionOK, UpdateExpertiseOK
<1>2. ASSUME NEW p \in Procs, NEW s \in Sessions, NEW by \in Sessions, NEW par \in Sessions,
             SpawnByMinion(p, by, par, s)
      PROVE  IInv'
  BY <1>2, SpawnMinionOK DEF SpawnByMinion
<1>3. ASSUME NEW p \in Procs, NEW s \in Sessions,
             \/ \E by, par \in Sessions, hard \in BOOLEAN : Dispose(p, by, par, s, hard)
             \/ \E par \in Sessions \union {None} : Reparent(p, s, par)
             \/ \E by, par \in Sessions : ReparentByMinion(p, by, s, par)
             \/ Delete(p, s)
             \/ Terminate(p, s)
      PROVE  IInv'
  BY <1>3, BeginningsOK DEF ReparentByMinion
<1>4. ASSUME NEW p \in Procs, GoesOn(p) PROVE IInv'
  BY <1>4, GoesOnOK
<1>5. CASE Reboot
  BY <1>5, RebootOK
<1>6. CASE UNCHANGED hierVars
  <2>1. RecordsOK' /\ exists' = exists /\ listed' = listed
    BY <1>6, RecordsKept DEF hierVars
  <2> QED
    BY <1>6, <2>1, ApartOK, Parts DEF hierVars, ProcsOK
<1> QED
  BY <1>1, <1>2, <1>3, <1>4, <1>5, <1>6 DEF Next

\* The inductive invariant, which the properties follow from.
THEOREM AlwaysIInv == Spec => []IInv
BY InitIInv, NextIInv, PTL DEF Spec

\* The records and the calls of the operations keep their shape.
THEOREM TypeCorrect == Spec => []TypeOK
<1>1. IInv => TypeOK
  BY DEF IInv
<1> QED
  BY <1>1, AlwaysIInv, PTL

\* A session that the project has lost is being deleted by somebody, or its
\* deletion has been reported as failed (delete_session), for any number of
\* sessions and of operations that overlap in any way.
THEOREM DeletionsAreSeen == Spec => []NoneHalfDeleted
<1>1. IInv => NoneHalfDeleted
  BY DEF IInv, HalfOK, NoneHalfDeleted, DeletedNow, Deletes
<1> QED
  BY <1>1, AlwaysIInv, PTL

\* Who waits for a lock waits for somebody who waits for nothing, or for one who
\* waits for such a one.
LEMMA WaitsAreShort == IInv => NobodyStuck
<1> SUFFICES ASSUME IInv, turn = None
             PROVE  /\ (\E p \in Procs : ~ Idle(p)) => \E p \in Procs : ~ Idle(p) /\ Free(p)
                    /\ \A x \in DOMAIN lock : lock[x] # None => ~ Idle(lock[x])
  BY DEF NobodyStuck
<1>1. DOMAIN lock = Locks /\ LocksOK /\ \A x \in Locks : lock[x] \in Procs \union {None}
  BY Parts DEF ProcsOK
<1>2. \A p \in Procs : turn # p
  BY NoneAssumption
<1>3. ASSUME NEW p \in Procs, ~ Idle(p), ~ Free(p)
      PROVE  /\ Top(p).on \in Locks
             /\ lock[Top(p).on] \in Procs /\ ~ Idle(lock[Top(p).on])
             /\ Holds(Top(p).on, Top(lock[Top(p).on]))
  <2>1. Top(p).on # None /\ lock[Top(p).on] # None
    BY <1>2, <1>3 DEF Free
  <2>2. Top(p).on \in Ons
    BY <1>3, FrameParts, TopIsCall, Parts
  <2>3. Top(p).on \in Locks
    BY <2>1, <2>2 DEF Ons, Locks
  <2> QED
    BY <1>1, <2>1, <2>3 DEF LocksOK, Locks
<1>4. ASSUME NEW p \in Procs, ~ Idle(p), ~ Free(p), Top(p).on # Tree
      PROVE  \E q \in Procs : ~ Idle(q) /\ Free(q)
  <2>1. PICK q \in Procs : q = lock[Top(p).on] /\ ~ Idle(q) /\ Holds(Top(p).on, Top(q))
    BY <1>3, <1>4
  <2>2. Top(q).on = None
    BY <1>4, <2>1 DEF Holds
  <2> QED
    BY <2>1, <2>2 DEF Free
<1>5. ASSUME NEW p \in Procs, ~ Idle(p) PROVE \E q \in Procs : ~ Idle(q) /\ Free(q)
  <2>1. CASE Free(p)
    BY <1>5, <2>1
  <2>2. CASE ~ Free(p) /\ Top(p).on # Tree
    BY <1>4, <1>5, <2>2
  <2>3. CASE ~ Free(p) /\ Top(p).on = Tree
    <3>1. PICK q \in Procs : ~ Idle(q) /\ Holds(Tree, Top(q))
      BY <1>3, <1>5, <2>3
    <3>2. Top(q).on # Tree
      BY <3>1 DEF Holds
    <3> QED
      BY <1>4, <3>1, <3>2
  <2> QED
    BY <2>1, <2>2, <2>3
<1>6. \A x \in DOMAIN lock : lock[x] # None => ~ Idle(lock[x])
  BY <1>1 DEF LocksOK, Locks
<1> QED
  BY <1>5, <1>6

\* No operations wait for one another in a circle, and no lock is held by one
\* that is over (_reparent_lock, the lock of a session's deletion and of its end).
THEOREM NoCircleOfWaits == Spec => []NobodyStuck
BY WaitsAreShort, AlwaysIInv, PTL

-----------------------------------------------------------------------------
(* Whom one comes to.                                                      *)

Steps == [Sessions -> SUBSET Sessions]

\* A set that one does not leave holds whom one comes to.
LEMMA ReachLeast ==
  ASSUME NEW f \in Steps, NEW s \in Sessions, NEW D \in SUBSET Sessions,
         f[s] \subseteq D, \A d \in D : f[d] \subseteq D
  PROVE  Reach(f, s) \subseteq D
<1> SUFFICES ASSUME NEW t \in Sessions, t \in Reach(f, s), t \notin D PROVE FALSE
  BY DEF Reach
<1>1. D \in SUBSET (Sessions \ {t})
  OBVIOUS
<1> QED
  BY <1>1 DEF Reach

\* A step, and a step more.
LEMMA ReachFirst ==
  ASSUME NEW f \in Steps, NEW s \in Sessions
  PROVE  f[s] \subseteq Reach(f, s)
BY DEF Reach, Steps
LEMMA ReachOn ==
  ASSUME NEW f \in Steps, NEW s \in Sessions, NEW u \in Reach(f, s)
  PROVE  f[u] \subseteq Reach(f, s)
<1>1. u \in Sessions
  BY DEF Reach
<1> SUFFICES ASSUME NEW t \in f[u], NEW D \in SUBSET (Sessions \ {t}), f[s] \subseteq D,
                    \A d \in D : f[d] \subseteq D
             PROVE  FALSE
  BY <1>1 DEF Reach, Steps
<1>2. CASE u \in D
  BY <1>2
<1>3. CASE u \notin D
  <2>1. D \in SUBSET (Sessions \ {u})
    BY <1>3
  <2> QED
    BY <2>1 DEF Reach
<1> QED
  BY <1>2, <1>3
LEMMA ReachStep ==
  ASSUME NEW f \in Steps, NEW s \in Sessions, NEW u \in f[s]
  PROVE  Reach(f, u) \subseteq Reach(f, s)
<1>1. u \in Sessions /\ Reach(f, s) \in SUBSET Sessions
  BY DEF Steps, Reach
<1>2. u \in Reach(f, s)
  BY ReachFirst
<1>3. f[u] \subseteq Reach(f, s) /\ \A d \in Reach(f, s) : f[d] \subseteq Reach(f, s)
  BY <1>2, ReachOn
<1> QED
  BY <1>1, <1>3, ReachLeast

\* The last step of the way.
LEMMA ReachLast ==
  ASSUME NEW f \in Steps, NEW s \in Sessions, NEW t \in Reach(f, s)
  PROVE  \E u \in Reach(f, s) \union {s} : t \in f[u]
<1> SUFFICES ASSUME \A u \in Reach(f, s) \union {s} : t \notin f[u] PROVE FALSE
  OBVIOUS
<1> DEFINE D == Reach(f, s) \ {t}
<1>1. t \in Sessions /\ D \in SUBSET (Sessions \ {t})
  BY DEF Reach
<1>2. f[s] \subseteq D
  BY ReachFirst
<1>3. \A d \in D : f[d] \subseteq D
  BY ReachOn
<1> QED
  BY <1>1, <1>2, <1>3 DEF Reach

\* The way back.
LEMMA ReachBack ==
  ASSUME NEW f \in Steps, NEW g \in Steps, \A x, y \in Sessions : y \in f[x] => x \in g[y],
         NEW s \in Sessions, NEW t \in Reach(f, s)
  PROVE  s \in Reach(g, t)
<1> DEFINE D == {y \in Sessions : s \in Reach(g, y)}
<1>1. f[s] \subseteq D
  <2> SUFFICES ASSUME NEW y \in f[s] PROVE y \in D
    OBVIOUS
  <2>1. y \in Sessions /\ s \in g[y]
    BY DEF Steps
  <2> QED
    BY <2>1, ReachFirst
<1>2. ASSUME NEW d \in D PROVE f[d] \subseteq D
  <2> SUFFICES ASSUME NEW y \in f[d] PROVE y \in D
    OBVIOUS
  <2>1. y \in Sessions /\ d \in g[y]
    BY DEF Steps
  <2> QED
    BY <2>1, ReachStep
<1>3. Reach(f, s) \subseteq D
  <2> HIDE DEF D
  <2>1. D \in SUBSET Sessions
    BY DEF D
  <2> QED
    BY <1>1, <1>2, <2>1, ReachLeast
<1> QED
  BY <1>3

-----------------------------------------------------------------------------
(* The tree.                                                               *)

\* The records are a tree, but for the sessions lost, that project and registry
\* do not have any more, those fresh, that the registry does not have yet, those
\* loose, that their parent does not list, and those late to get their level;
\* extra has a parent and a child that it lists besides, and odd a parent that
\* is no overseer.
Lists(lost, fresh) == listed = exists \ lost /\ registered = exists \ (lost \union fresh)
Links(loose, extra) ==
  \A s \in exists :
    /\ parent[s] \in exists \union {None}
    /\ \A c \in Sessions :
         c \in children[s] <=> (c \in exists \ loose /\ parent[c] = s) \/ <<s, c>> \in extra
Leads(odd) == \A s \in exists : children[s] # {} => s \in overseer \union odd
Levels(late) == \A s \in exists \ late : level[s] = LevelUnder(parent[s])
Unborn == \A s \in Sessions \ born : children[s] = {}
TreeBut(lost, fresh, loose, extra, odd, late) ==
  Lists(lost, fresh) /\ Links(loose, extra) /\ Leads(odd) /\ Levels(late) /\ Unborn

\* In a tree, sessions that see one another are sessions of the project.
LEMMA TreeSeen ==
  ASSUME TypeOK, TreeBut({}, {}, {}, {}, {}, {}), NEW s \in exists
  PROVE  /\ Visible(s) \subseteq exists
         /\ \A t \in exists : MayWrite(s, t) => MayWrite(t, s)
<1>1. Kids \in Steps /\ Overseers \in Steps /\ exists \subseteq Sessions
  BY DEF TypeOK, Kids, Overseers, Steps
<1>2. /\ \A x \in exists : Kids[x] = children[x] /\ children[x] \subseteq exists
      /\ \A x \in exists : parent[x] \in exists \union {None}
      /\ \A x \in exists, y \in Sessions : y \in children[x] <=> y \in exists /\ parent[y] = x
      /\ \A x \in Sessions \ exists : Kids[x] = {} /\ Overseers[x] = {}
      /\ \A x \in exists : Overseers[x] = {parent[x]} \ {None}
  <2>1. /\ \A x \in exists : parent[x] \in exists \union {None}
        /\ \A x \in exists, y \in Sessions : y \in children[x] <=> y \in exists /\ parent[y] = x
    BY DEF TreeBut, Links
  <2>2. ASSUME NEW x \in exists PROVE Kids[x] = children[x] /\ children[x] \subseteq exists
    <3>1. children[x] \subseteq Sessions
      BY <1>1 DEF TypeOK
    <3>2. children[x] \subseteq exists
      BY <2>1, <3>1
    <3>3. Kids[x] = children[x] \intersect exists
      BY <1>1 DEF Kids
    <3> QED
      BY <3>2, <3>3
  <2>3. \A x \in Sessions \ exists : Kids[x] = {} /\ Overseers[x] = {}
    BY DEF Kids, Overseers
  <2>4. ASSUME NEW x \in exists PROVE Overseers[x] = {parent[x]} \ {None}
    BY <1>1, <2>1 DEF Overseers
  <2> QED
    BY <2>1, <2>2, <2>3, <2>4
<1>3. \A x, y \in Sessions : y \in Kids[x] <=> x \in Overseers[y]
  BY <1>1, <1>2, NoneAssumption
<1>4. ASSUME NEW x \in exists PROVE Descendants(x) \subseteq exists /\ Ancestors(x) \subseteq exists
  <2>1. \A d \in exists : Kids[d] \subseteq exists /\ Overseers[d] \subseteq exists
    BY <1>2
  <2> QED
    BY <1>1, <2>1, ReachLeast DEF Descendants, Ancestors
<1>5. ASSUME NEW x \in exists, NEW y \in exists
      PROVE  y \in Descendants(x) <=> x \in Ancestors(y)
  BY <1>1, <1>3, ReachBack DEF Descendants, Ancestors
<1>6. ASSUME NEW x \in exists
      PROVE  UNION {children[d] : d \in Subtree(x)} = Descendants(x)
  <2>1. \A d \in Subtree(x) : children[d] = Kids[d]
    BY <1>2, <1>4 DEF Subtree
  <2>2. UNION {children[d] : d \in Subtree(x)} \subseteq Descendants(x)
    BY <1>1, <2>1, ReachFirst, ReachOn DEF Subtree, Descendants
  <2>3. ASSUME NEW t \in Descendants(x) PROVE t \in UNION {children[d] : d \in Subtree(x)}
    <3>1. PICK u \in Subtree(x) : t \in Kids[u]
      BY <1>1, ReachLast DEF Subtree, Descendants
    <3> QED
      BY <2>1, <3>1
  <2> QED
    BY <2>2, <2>3
<1>7. ASSUME NEW x \in exists
      PROVE  Visible(x) = {x} \union Ancestors(x) \union Descendants(x)
                          \union (IF parent[x] \in exists THEN children[parent[x]] ELSE {})
  BY <1>6 DEF Visible
<1>8. ASSUME NEW x \in exists PROVE Visible(x) \subseteq exists
  BY <1>2, <1>4, <1>7
<1>9. ASSUME NEW t \in exists, t \in Visible(s) PROVE s \in Visible(t)
  BY <1>1, <1>2, <1>5, <1>7, <1>9
<1> QED
  BY <1>8, <1>9 DEF MayWrite

LEMMA TreeIsTree ==
  ASSUME TypeOK, TreeBut({}, {}, {}, {}, {}, {})
  PROVE  TreeIsSound
<1>1. listed = exists /\ registered = exists
  BY DEF TreeBut, Lists
<1>2. ASSUME NEW s \in exists
      PROVE  /\ children[s] = ShownUnder(s) /\ (s \in ShownAtRoot => parent[s] = None)
             /\ children[s] # {} => s \in overseer
             /\ level[s] = IF parent[s] = None THEN 0 ELSE level[parent[s]] + 1
  <2>1. s \in Sessions /\ exists \subseteq Sessions /\ children[s] \subseteq Sessions
    BY DEF TypeOK
  <2>2. children[s] = ShownUnder(s) /\ (s \in ShownAtRoot => parent[s] = None)
    BY <2>1 DEF TreeBut, Links, ShownUnder, ShownAtRoot
  <2>3. children[s] # {} => s \in overseer
    BY DEF TreeBut, Leads
  <2>4. level[s] = IF parent[s] = None THEN 0 ELSE level[parent[s]] + 1
    BY DEF TreeBut, Levels, Links, LevelUnder
  <2> QED
    BY <2>2, <2>3, <2>4
<1>3. ASSUME NEW s \in exists PROVE Listed(s) = Visible(s) /\ Found(s) = Visible(s)
  BY <1>1, TreeSeen DEF Listed, Found, Matching
<1> QED
  BY <1>1, <1>2, <1>3, TreeSeen DEF TreeIsSound

\* What a removal calls from where it is, now and later.
Callee(pc) ==
  IF pc = "children" THEN "dispose" ELSE IF pc = "ended" THEN "terminate"
  ELSE IF pc \in {"over", "cascade"} THEN "delete" ELSE "close"
Outer(pc) ==
  IF pc = "children" THEN {"dispose", "terminate", "delete", "close"}
  ELSE IF pc = "ended" THEN {"terminate"}
  ELSE IF pc \in {"over", "cascade"} THEN {"delete", "close"}
  ELSE IF pc = "closed" THEN {"close"} ELSE {}
PlacesOf(op) ==
  IF op = "dispose" THEN {"children", "ended", "unlink", "unmark", "remove", "over"}
  ELSE IF op = "delete" THEN {"cascade", "closed", "erase"}
  ELSE {"client", "ending", "lock", "closing"}
Removals == {"dispose", "delete", "terminate", "close"}

\* Calls call what is called from where they are, for sessions further and
\* further down.
Nests(q) == \A i, j \in DOMAIN q : i < j => q[j].op \in Outer(q[i].pc)
Adjoins(q) == \A i \in 1 .. Len(q) - 1 : q[i + 1].op = Callee(q[i].pc)
Sinks(x, f) == level[f.s] <= level[x] /\ (f.pc # "over" => level[f.s] < level[x])
Descends(q) == \A i, j \in DOMAIN q : i < j /\ q[j].op \in {"dispose", "delete"} => Sinks(q[j].s, q[i])

\* A call and the session of the one that it has made.
CallOK(f, x) ==
  /\ f.op \in Removals /\ f.pc \in PlacesOf(f.op) /\ f.s \in born
  /\ f.pc \in {"client", "ending"} => f.s \in up
  /\ f.op = "delete" => f.found /\ f.s \in exists
  /\ f.pc = "cascade" => f.todo = children[f.s] \ {x}
  /\ f.pc \in {"closed", "erase"} => children[f.s] = {}
  /\ f.pc = "closed" /\ x = None => f.ok
  /\ f.op = "dispose" /\ f.pc # "over" => f.s \in exists /\ parent[f.s] = f.par
  /\ f.pc = "unlink" => f.kids = children[f.par] \ {f.s}
  /\ f.pc = "unmark" => children[f.par] = {}
  /\ f.pc = "over" => IF x = None THEN f.s \notin exists ELSE x = f.s
After(q, i) == IF i = Len(q) THEN None ELSE q[i + 1].s

\* The sessions that the calls in q, up to the one at n, have taken from the
\* project, and those they have taken from their parents' lists.
Out(q, pcs, n) == {s \in Sessions : \E i \in 1 .. n : q[i].pc \in pcs /\ q[i].s = s}
LostAt == {"closed", "erase"}
LooseAt == LostAt \union {"unmark", "remove", "over"}

Chain(q) ==
  /\ Nests(q) /\ Adjoins(q) /\ Descends(q)
  /\ \A i \in DOMAIN q : CallOK(q[i], After(q, i))
Removing(q) ==
  /\ Chain(q)
  /\ TreeBut(Out(q, LostAt, Len(q)), {}, Out(q, LooseAt, Len(q)), {}, {}, {})

Spawning(f) ==
  /\ f.op = "spawn" /\ TreeBut({}, {f.s}, {f.s}, {}, {}, {})
  /\ f.s \in exists /\ f.par \in exists /\ parent[f.s] = f.par
  /\ f.pc = "link" => f.kids = children[f.par] \union {f.s} /\ f.par \in overseer

\* par is not below s
Apart(D, f) == f.s \in D /\ f.par \notin D /\ \A d \in D \intersect exists : children[d] \subseteq D
Late(f) == IF f.pc = "level" THEN {x[1] : x \in f.todo} ELSE {}
Numbers(D, V, f) ==
  /\ V \subseteq D \intersect exists /\ Late(f) \subseteq D \intersect exists
  /\ f.on \in Late(f) /\ f.kids = children[f.on] /\ Late(f) \intersect V = {}
  /\ \A c \in Late(f) \union V : c = f.s \/ parent[c] \in V
  /\ \A x \in f.todo : x[2] = LevelUnder(parent[x[1]])
Off(f) == f.pc \in {"unmark", "join", "joining", "mark", "move"}
Moving(f) ==
  /\ f.op = "reparent"
  /\ TreeBut({}, {}, IF Off(f) THEN {f.s} ELSE {},
             IF f.pc \in {"mark", "move"} THEN {<<f.par, f.s>>} ELSE {},
             IF f.pc = "mark" THEN {f.par} ELSE {}, Late(f))
  /\ f.s \in exists /\ f.par \in exists \union {None}
  /\ \E D \in SUBSET Sessions :
       /\ Apart(D, f)
       /\ f.pc = "level" => parent[f.s] = f.par /\ \E V \in SUBSET Sessions : Numbers(D, V, f)
  /\ f.pc = "leave" => f.kids = {parent[f.s]} \ {None}
  /\ f.pc = "leaving" => f.on = parent[f.s] /\ f.on \in exists /\ f.kids = children[f.on] \ {f.s}
  /\ f.pc = "unmark" => f.on \in exists /\ children[f.on] = {}
  /\ f.pc = "joining" => f.par \in exists /\ f.kids = children[f.par] \union {f.s}
  /\ f.pc = "move" /\ f.par \in exists => f.par \in overseer

Sound(q) ==
  Removing(q) \/ (Len(q) = 1 /\ (Spawning(q[1]) \/ Moving(q[1])))
Solo ==
  crossed = 0 =>
    /\ (\A p \in Procs : Idle(p)) => Removing(<<>>)
    /\ \A p \in Procs : ~ Idle(p) => Alone(p) /\ \E q \in {stack[p]} : Sound(q)

-----------------------------------------------------------------------------
(* Steps that leave parts alone.                                           *)

LEMMA TreeKept ==
  ASSUME UNCHANGED <<born, treeVars>>,
         NEW CONSTANT A, NEW CONSTANT B, NEW CONSTANT C, NEW CONSTANT E, NEW CONSTANT O, NEW CONSTANT L,
         TreeBut(A, B, C, E, O, L)
  PROVE  TreeBut(A, B, C, E, O, L)'
BY DEF treeVars, TreeBut, Lists, Links, Leads, Levels, LevelUnder, Unborn

LEMMA CallKept ==
  ASSUME NEW CONSTANT f, NEW CONSTANT x, CallOK(f, x),
         exists' = exists, parent' = parent, children' = children,
         born \subseteq born', f.pc \in {"client", "ending"} => f.s \in up'
  PROVE  CallOK(f, x)'
BY DEF CallOK

\* What the calls below the innermost one are.
LEMMA Inner ==
  ASSUME NEW q \in Stacks, Chain(q), NEW i \in 1 .. Len(q) - 1
  PROVE  /\ q[i].op \in {"dispose", "delete"}
         /\ q[Len(q)].op = "dispose" => q[i].op = "dispose" /\ q[i].pc = "children"
         /\ q[Len(q)].op = "terminate" => q[i].op = "dispose" /\ q[i].pc \in {"children", "ended"}
         /\ q[Len(q)].op = "delete" => q[i].pc \in {"children", "over", "cascade"}
         /\ q[Len(q)].op = "close" => q[i].pc \in {"children", "over", "cascade", "closed"}
         /\ q[i].op \in Removals /\ q[i].pc \in PlacesOf(q[i].op)
         /\ q[Len(q)].op \in Outer(q[i].pc)
         /\ After(q, i) = q[i + 1].s /\ i + 1 \in 1 .. Len(q)
         /\ CallOK(q[i], q[i + 1].s)
<1>1. /\ Len(q) \in Nat /\ i \in DOMAIN q /\ Len(q) \in DOMAIN q /\ i < Len(q)
      /\ i + 1 \in 1 .. Len(q) /\ i # Len(q)
  BY StackDomain DEF Stacks
<1>2. q[Len(q)].op \in Outer(q[i].pc)
  BY <1>1 DEF Chain, Nests
<1>3. CallOK(q[i], After(q, i)) /\ After(q, i) = q[i + 1].s
  BY <1>1 DEF Chain, After
<1>4. q[i].op \in Removals /\ q[i].pc \in PlacesOf(q[i].op)
  BY <1>3 DEF CallOK
<1> QED
  BY <1>1, <1>2, <1>3, <1>4 DEF Outer, PlacesOf, Removals

\* The innermost call.
LEMMA Innermost ==
  ASSUME NEW q \in Stacks, q # <<>>, Chain(q)
  PROVE  CallOK(q[Len(q)], None)
BY StackParts DEF Chain, After

LEMMA OutTop ==
  ASSUME NEW q \in Stacks, q # <<>>, NEW pcs
  PROVE  Out(q, pcs, Len(q)) = Out(q, pcs, Len(q) - 1)
                                \union (IF q[Len(q)].pc \in pcs THEN {q[Len(q)].s} ELSE {})
<1>1. Len(q) \in Nat /\ Len(q) >= 1 /\ q[Len(q)].s \in Sessions
  BY StackParts, FrameParts
<1>2. \A i \in 1 .. Len(q) : i = Len(q) \/ i \in 1 .. Len(q) - 1
  BY <1>1
<1>3. Len(q) \in 1 .. Len(q) /\ 1 .. Len(q) - 1 \subseteq 1 .. Len(q)
  BY <1>1
<1> QED
  BY <1>1, <1>2, <1>3 DEF Out

LEMMA OutAbove ==
  ASSUME NEW q \in Stacks, q # <<>>, NEW pcs, q[Len(q)].pc \notin pcs
  PROVE  Out(q, pcs, Len(q)) = Out(q, pcs, Len(q) - 1)
<1>1. Out(q, pcs, Len(q)) = Out(q, pcs, Len(q) - 1)
                            \union (IF q[Len(q)].pc \in pcs THEN {q[Len(q)].s} ELSE {})
  BY OutTop
<1> QED
  BY <1>1

\* Places in a sequence.
LEMMA Between ==
  \A n \in Nat : \A i \in 1 .. n - 1 :
    /\ i \in 1 .. n /\ i + 1 \in 1 .. n /\ n \in 1 .. n /\ i < i + 1 /\ i < n
    /\ i + 1 # n => i + 1 < n /\ i + 1 \in 1 .. n - 1
OBVIOUS

LEMMA OutSame ==
  ASSUME NEW q, NEW r, NEW n, NEW pcs,
         \A i \in 1 .. n : r[i].pc = q[i].pc /\ r[i].s = q[i].s
  PROVE  Out(r, pcs, n) = Out(q, pcs, n)
BY DEF Out

\* What has been taken out by the calls below the innermost one.
LEMMA InnerOut ==
  ASSUME NEW q \in Stacks, q # <<>>, Chain(q)
  PROVE  /\ q[Len(q)].op \in {"dispose", "terminate"} => Out(q, LooseAt, Len(q) - 1) = {}
         /\ q[Len(q)].op \in {"dispose", "terminate", "delete"} => Out(q, LostAt, Len(q) - 1) = {}
<1>1. q[Len(q)].op \in {"dispose", "terminate"} => Out(q, LooseAt, Len(q) - 1) = {}
  BY Inner DEF Out, LooseAt, LostAt
<1>2. q[Len(q)].op \in {"dispose", "terminate", "delete"} => Out(q, LostAt, Len(q) - 1) = {}
  BY Inner DEF Out, LooseAt, LostAt
<1> QED
  BY <1>1, <1>2

-----------------------------------------------------------------------------
(* What a step does to the calls of a removal.                             *)

LEMMA NoCalls == <<>> \in Stacks /\ Len(<<>>) = 0
BY DEF Stacks

\* What the calls in q have taken out, with f in place of the innermost one.
OutBy(q, f, pcs) == Out(q, pcs, Len(q) - 1) \union (IF f.pc \in pcs THEN {f.s} ELSE {})

\* The first n calls of q, each inside the next, agree with the records.
CallsOK(q, n) == \A i \in 1 .. n : CallOK(q[i], q[i + 1].s)

\* The innermost call goes on.
LEMMA ChainGoes ==
  ASSUME NEW CONSTANT q \in Stacks, q # <<>>, NEW CONSTANT f \in Frames, NEW CONSTANT r,
         Rewrites(r, q, 1, 1, f), f.op = q[Len(q)].op, f.s = q[Len(q)].s,
         Chain(q), level' = level, CallOK(f, None)',
         CallsOK(q, Len(q) - 1)'
  PROVE  /\ Chain(r)'
         /\ \A pcs : Out(r, pcs, Len(r)) = OutBy(q, f, pcs)
<1>1. Len(q) \in Nat /\ Len(q) >= 1 /\ DOMAIN q = 1 .. Len(q)
  BY StackParts
<1>2. /\ r \in Stacks /\ r # <<>> /\ Len(r) = Len(q) /\ r[Len(q)] = f
      /\ \A i \in 1 .. Len(q) - 1 : r[i] = q[i]
  BY <1>1 DEF Rewrites
<1>3. DOMAIN r = 1 .. Len(q)
  BY <1>2, StackParts
<1>4. \A i \in 1 .. Len(q) : r[i].op = q[i].op /\ r[i].s = q[i].s
  BY <1>1, <1>2, LastOrBefore
<1>5. \A i, j \in 1 .. Len(q) : i < j => i \in 1 .. Len(q) - 1
  BY <1>1
<1>6. Nests(r)
  BY <1>1, <1>2, <1>3, <1>4, <1>5 DEF Chain, Nests
<1>7. Adjoins(r)
  <2>1. \A i \in 1 .. Len(q) - 1 : i + 1 \in 1 .. Len(q)
    BY <1>1
  <2> QED
    BY <1>2, <1>4, <2>1 DEF Chain, Adjoins
<1>8. Descends(r)'
  BY <1>1, <1>2, <1>3, <1>4, <1>5 DEF Chain, Descends, Sinks
<1>n. \A n \in Nat : \A i \in 1 .. n - 1 : i # n /\ i + 1 \in 1 .. n
  OBVIOUS
<1>9. ASSUME NEW i \in 1 .. Len(q) PROVE CallOK(r[i], After(r, i))'
  <2>1. CASE i = Len(q)
    BY <1>2, <2>1 DEF After
  <2>2. CASE i \in 1 .. Len(q) - 1
    <3>1. i # Len(q) /\ i + 1 \in 1 .. Len(q)
      BY <1>1, <1>n, <2>2
    <3>2. r[i] = q[i] /\ After(r, i) = q[i + 1].s
      BY <1>2, <1>4, <2>2, <3>1 DEF After
    <3>3. CallOK(q[i], q[i + 1].s)'
      BY <2>2 DEF CallsOK
    <3> QED
      BY <3>2, <3>3
  <2> QED
    BY <1>1, <2>1, <2>2, LastOrBefore
<1>10. Chain(r)'
  BY <1>3, <1>6, <1>7, <1>8, <1>9 DEF Chain
<1>11. ASSUME NEW pcs
       PROVE  Out(r, pcs, Len(r)) = Out(q, pcs, Len(q) - 1) \union (IF f.pc \in pcs THEN {f.s} ELSE {})
  <2>1. Out(r, pcs, Len(q) - 1) = Out(q, pcs, Len(q) - 1)
    BY <1>2, OutSame
  <2> QED
    BY <1>2, <2>1, OutTop
<1> QED
  BY <1>10, <1>11 DEF OutBy

\* It calls another one, that its place and what its callers wait for allow.
MayCall(f, g) ==
  /\ f.op \in {"dispose", "delete"} /\ g.op = Callee(f.pc) /\ g.op \in Outer(f.pc)
  /\ f.op = "dispose" \/ g.op \notin {"dispose", "terminate"}
  /\ g.op \in {"dispose", "delete"} => Sinks(g.s, f)
LEMMA ChainCalls ==
  ASSUME NEW CONSTANT q \in Stacks, q # <<>>, NEW CONSTANT f \in Frames, NEW CONSTANT g \in Frames,
         NEW CONSTANT r,
         Rewrites(r, q, 1, 2, g), r[Len(q)] = f, f.op = q[Len(q)].op, f.s = q[Len(q)].s,
         TypeOK, Chain(q), level' = level, CallOK(f, g.s)', CallOK(g, None)',
         CallsOK(q, Len(q) - 1)',
         MayCall(f, g)
  PROVE  /\ Chain(r)'
         /\ \A pcs : g.pc \notin pcs => Out(r, pcs, Len(r)) = OutBy(q, f, pcs)
<1> DEFINE n == Len(q)
<1>1. n \in Nat /\ n >= 1 /\ DOMAIN q = 1 .. n
  BY StackParts
<1>2. /\ r \in Stacks /\ r # <<>> /\ Len(r) = n + 1 /\ r[n + 1] = g /\ r[n] = f
      /\ \A i \in 1 .. n - 1 : r[i] = q[i]
  BY <1>1 DEF Rewrites
<1>3. DOMAIN r = 1 .. n + 1
  BY <1>2, StackParts
<1>4. \A i \in 1 .. n : r[i].op = q[i].op /\ r[i].s = q[i].s
  BY <1>1, <1>2, LastOrBefore
<1>k. \A i \in 1 .. n - 1 : CallOK(q[i], q[i + 1].s)'
  BY DEF CallsOK
<1>q. /\ \A i \in 1 .. n - 1 : q[i] \in Frames
      /\ \A i \in 1 .. n - 1 : /\ q[n].op = "dispose" => q[i].pc = "children"
                               /\ q[n].op = "delete" => q[i].pc \in {"children", "over", "cascade"}
      /\ \A i \in 1 .. n - 1 : q[i + 1].op = Callee(q[i].pc)
      /\ f.op = q[n].op /\ f.s = q[n].s
  <2>1. \A i \in 1 .. n - 1 : q[i] \in Frames
    <3>1. \A i \in 1 .. n - 1 : i \in 1 .. n
      BY <1>1
    <3> QED
      BY <3>1 DEF Stacks
  <2> QED
    BY <2>1, Inner DEF Chain, Adjoins
<1> HIDE DEF n
<1>5. ASSUME NEW i \in 1 .. n + 1, NEW j \in 1 .. n + 1, i < j
      PROVE  \/ i \in 1 .. n - 1 /\ j \in 1 .. n
             \/ i \in 1 .. n - 1 /\ j = n + 1
             \/ i = n /\ j = n + 1
  <2>1. i \in Int /\ j \in Int /\ 1 <= i /\ i <= n /\ j <= n + 1 /\ 1 <= j
    BY <1>1, <1>5
  <2>2. i \in 1 .. n /\ (i = n \/ i \in 1 .. n - 1) /\ (j = n + 1 \/ j \in 1 .. n)
    BY <1>1, <2>1
  <2>3. i = n => j = n + 1
    BY <1>1, <1>5, <2>1
  <2> QED
    BY <2>2, <2>3
<1>i. \A i \in 1 .. n - 1 : i \in 1 .. n /\ i < n /\ n \in 1 .. n
  BY <1>1
<1>o. ASSUME NEW i \in 1 .. n - 1
      PROVE  g.op \in Outer(q[i].pc) /\ (g.op \in {"dispose", "delete"} => Sinks(g.s, q[i]))
  <2>1. /\ q[n].op = "dispose" => q[i].pc = "children"
        /\ q[n].op = "delete" => q[i].pc \in {"children", "over", "cascade"}
    BY <1>q
  <2>2. g.op \in Outer(q[i].pc)
    <3>1. g.op \in {"dispose", "terminate", "delete", "close"}
      BY DEF Outer, MayCall
    <3>2. f.op = "dispose" => Outer(q[i].pc) = {"dispose", "terminate", "delete", "close"}
      BY <1>q, <2>1 DEF Outer
    <3>3. f.op = "delete" => {"delete", "close"} \subseteq Outer(q[i].pc)
      BY <1>q, <2>1 DEF Outer
    <3> QED
      BY <3>1, <3>2, <3>3 DEF MayCall
  <2>3. Sinks(q[n].s, q[i])
    <3>1. q[n].op \in {"dispose", "delete"}
      BY <1>q DEF MayCall
    <3> QED
      BY <1>1, <1>i, <3>1 DEF Chain, Descends
  <2>4. level[q[i].s] \in Nat /\ level[g.s] \in Nat /\ level[f.s] \in Nat
    <3>1. q[i] \in Frames
      BY <1>q
    <3> QED
      BY <3>1, FrameParts DEF TypeOK
  <2>5. g.op \in {"dispose", "delete"} => Sinks(g.s, q[i])
    BY <1>q, <2>3, <2>4 DEF Sinks, MayCall
  <2> QED
    BY <2>2, <2>5
<1>6. Nests(r)
  <2> SUFFICES ASSUME NEW i \in 1 .. n + 1, NEW j \in 1 .. n + 1, i < j PROVE r[j].op \in Outer(r[i].pc)
    BY <1>3 DEF Nests
  <2>1. CASE i \in 1 .. n - 1 /\ j \in 1 .. n
    BY <1>1, <1>2, <1>4, <1>i, <2>1 DEF Chain, Nests
  <2>2. CASE i \in 1 .. n - 1 /\ j = n + 1
    BY <1>2, <1>o, <2>2
  <2>3. CASE i = n /\ j = n + 1
    BY <1>2, <2>3 DEF MayCall
  <2> QED
    BY <1>5, <2>1, <2>2, <2>3
<1>7. Adjoins(r)
  <2> SUFFICES ASSUME NEW i \in 1 .. n PROVE r[i + 1].op = Callee(r[i].pc)
    BY <1>1, <1>2 DEF Adjoins
  <2>1. CASE i = n
    BY <1>2, <2>1 DEF MayCall
  <2>2. CASE i \in 1 .. n - 1
    <3>1. i + 1 \in 1 .. n
      BY <1>1, <2>2
    <3> QED
      BY <1>2, <1>4, <1>q, <2>2, <3>1
  <2> QED
    BY <1>1, <2>1, <2>2, LastOrBefore
<1>8. Descends(r)'
  <2> SUFFICES ASSUME NEW i \in 1 .. n + 1, NEW j \in 1 .. n + 1, i < j, r[j].op \in {"dispose", "delete"}
               PROVE  Sinks(r[j].s, r[i])
    BY <1>3 DEF Descends, Sinks
  <2>1. CASE i \in 1 .. n - 1 /\ j \in 1 .. n
    <3>1. r[i] = q[i] /\ r[j].s = q[j].s /\ q[j].op \in {"dispose", "delete"} /\ i \in DOMAIN q /\ j \in DOMAIN q
      BY <1>1, <1>2, <1>4, <1>i, <2>1
    <3> QED
      BY <3>1 DEF Chain, Descends
  <2>2. CASE i \in 1 .. n - 1 /\ j = n + 1
    BY <1>2, <1>o, <2>2
  <2>3. CASE i = n /\ j = n + 1
    BY <1>2, <2>3 DEF MayCall
  <2> QED
    BY <1>5, <2>1, <2>2, <2>3
<1>9. ASSUME NEW CONSTANT i \in 1 .. n + 1 PROVE CallOK(r[i], After(r, i))'
  <2>0. Len(r) = n + 1 /\ i \in Int
    BY <1>1, <1>2
  <2>1. CASE i = n + 1
    BY <1>2, <2>1 DEF After
  <2>2. CASE i = n
    BY <1>1, <1>2, <2>0, <2>2 DEF After
  <2>3. CASE i \in 1 .. n - 1
    <3>1. i # n + 1 /\ i + 1 \in 1 .. n
      BY <1>1, <2>3
    <3>2. r[i] = q[i] /\ After(r, i) = q[i + 1].s
      BY <1>2, <1>4, <2>3, <3>1 DEF After
    <3>3. CallOK(q[i], q[i + 1].s)'
      BY <1>k, <2>3
    <3> QED
      BY <3>2, <3>3
  <2> QED
    BY <1>1, <2>1, <2>2, <2>3
<1>10. Chain(r)'
  BY <1>3, <1>6, <1>7, <1>8, <1>9 DEF Chain
<1>11. ASSUME NEW pcs
       PROVE  Out(r, pcs, Len(r)) = Out(q, pcs, n - 1) \union (IF f.pc \in pcs THEN {f.s} ELSE {})
                                          \union (IF g.pc \in pcs THEN {g.s} ELSE {})
  <2>1. Out(r, pcs, n - 1) = Out(q, pcs, n - 1)
    BY <1>2, OutSame
  <2>2. Out(r, pcs, n) = Out(r, pcs, n - 1) \union (IF f.pc \in pcs THEN {f.s} ELSE {})
    <3>1. f.s \in Sessions
      BY FrameParts
    <3>2. \A i \in 1 .. n : i = n \/ i \in 1 .. n - 1
      BY <1>1
    <3>3. n \in 1 .. n /\ 1 .. n - 1 \subseteq 1 .. n
      BY <1>1
    <3> QED
      BY <1>2, <3>1, <3>2, <3>3 DEF Out
  <2>3. Len(r) - 1 = n /\ r[Len(r)] = g
    BY <1>1, <1>2
  <2>4. Out(r, pcs, Len(r)) = Out(r, pcs, Len(r) - 1)
                              \union (IF r[Len(r)].pc \in pcs THEN {r[Len(r)].s} ELSE {})
    BY <1>2, OutTop
  <2> QED
    BY <2>1, <2>2, <2>3, <2>4
<1>12. \A pcs : g.pc \notin pcs => Out(r, pcs, Len(r)) = OutBy(q, f, pcs)
  BY <1>11 DEF OutBy, n
<1> QED
  BY <1>10, <1>12

\* It returns, and tells the call that made it how it went.
Answered(q, ok) == IF Front(q) = <<>> THEN <<>>
                   ELSE Append(Front(Front(q)), [Last(Front(q)) EXCEPT !.ok = ok])
CallerOK(q, ok) == Len(q) > 1 => CallOK([q[Len(q) - 1] EXCEPT !.ok = ok], None)
LEMMA ChainReturns ==
  ASSUME NEW CONSTANT q \in Stacks, q # <<>>, NEW CONSTANT r, NEW CONSTANT ok \in BOOLEAN,
         r = Answered(q, ok),
         Chain(q), level' = level,
         CallsOK(q, Len(q) - 2)',
         CallerOK(q, ok)'
  PROVE  /\ Chain(r)' /\ r \in Stacks /\ Len(r) = Len(q) - 1
         /\ \A pcs : Out(r, pcs, Len(r)) = Out(q, pcs, Len(q) - 1)
<1> DEFINE n == Len(q) - 1
<1>1. Len(q) \in Nat /\ n \in Nat /\ DOMAIN q = 1 .. Len(q) /\ Len(q) = n + 1
  BY StackParts
<1>2. /\ r \in Stacks /\ DOMAIN r = 1 .. n /\ Len(r) = n
      /\ \A i \in 1 .. n - 1 : r[i] = q[i]
      /\ n # 0 => r[n] = [q[n] EXCEPT !.ok = ok] /\ q[n] \in Frames
  <2>1. CASE Front(q) = <<>>
    <3>1. n = 0 /\ r = <<>>
      <4>1. Len(Front(q)) = n
        BY StackParts
      <4> QED
        BY <2>1, <4>1 DEF Answered
    <3>2. r \in Stacks /\ Len(r) = 0 /\ DOMAIN r = 1 .. n
      <4>1. r \in Stacks /\ Len(r) = 0
        BY <3>1, NoCalls
      <4> QED
        BY <3>1, <4>1, StackDomain
    <3>3. \A i \in 1 .. n - 1 : FALSE
      <4>1. \A i \in 1 .. 0 - 1 : FALSE
        OBVIOUS
      <4> QED
        BY <3>1, <4>1
    <3> QED
      BY <3>1, <3>2, <3>3
  <2>2. CASE Front(q) # <<>>
    <3>1. PICK w : w = Front(q)
      OBVIOUS
    <3>2. w \in Stacks /\ w # <<>> /\ Len(w) = n /\ \A i \in 1 .. n : w[i] = q[i]
      BY <2>2, <3>1, StackParts
    <3>3. n >= 1 /\ Last(w) = q[n] /\ q[n] \in Frames
      <4>1. Len(w) >= 1 /\ Last(w) = w[Len(w)] /\ Last(w) \in Frames
        BY <3>2, StackParts
      <4> QED
        BY <3>2, <4>1
    <3>4. PICK f : f = [q[n] EXCEPT !.ok = ok]
      OBVIOUS
    <3>5. f \in Frames
      BY <3>3, <3>4 DEF Frames
    <3>6. r = Append(Front(w), f)
      BY <2>2, <3>1, <3>3, <3>4 DEF Answered
    <3>7. Rewrites(r, w, 1, 1, f)
      BY <3>2, <3>5, <3>6, GoesStack
    <3>8. r \in Stacks /\ Len(r) = n /\ r[n] = f /\ \A i \in 1 .. n - 1 : r[i] = w[i]
      BY <3>2, <3>7, <1>1 DEF Rewrites
    <3>9. \A i \in 1 .. n - 1 : r[i] = q[i]
      <4>1. \A i \in 1 .. n - 1 : i \in 1 .. n
        BY <1>1
      <4> QED
        BY <3>2, <3>8, <4>1
    <3>10. DOMAIN r = 1 .. n
      BY <3>8, StackDomain
    <3> QED
      BY <3>3, <3>4, <3>8, <3>9, <3>10
  <2> QED
    BY <2>1, <2>2
<1> HIDE DEF n
<1>3. ASSUME n # 0
      PROVE  r[n].op = q[n].op /\ r[n].pc = q[n].pc /\ r[n].s = q[n].s
  BY <1>2, <1>3 DEF Frames
<1>4. \A i \in 1 .. n : n # 0 /\ (i = n \/ i \in 1 .. n - 1)
  BY <1>1
<1>5. \A i \in 1 .. n : r[i].op = q[i].op /\ r[i].pc = q[i].pc /\ r[i].s = q[i].s
  BY <1>2, <1>3, <1>4
<1>6. 1 .. n \subseteq DOMAIN q
  BY <1>1
<1>7. Nests(r)
  BY <1>2, <1>5, <1>6 DEF Chain, Nests
<1>8. Adjoins(r)
  <2>1. \A i \in 1 .. n - 1 : i \in 1 .. n /\ i + 1 \in 1 .. n /\ i \in 1 .. Len(q) - 1
    BY <1>1
  <2> QED
    BY <1>2, <1>5, <2>1 DEF Chain, Adjoins
<1>9. Descends(r)'
  <2> SUFFICES ASSUME NEW i \in 1 .. n, NEW j \in 1 .. n, i < j, r[j].op \in {"dispose", "delete"}
               PROVE  Sinks(r[j].s, r[i])
    BY <1>2 DEF Descends, Sinks
  <2>1. i \in DOMAIN q /\ j \in DOMAIN q /\ q[j].op \in {"dispose", "delete"}
    BY <1>5, <1>6
  <2>2. Sinks(q[j].s, q[i])
    BY <2>1 DEF Chain, Descends
  <2> QED
    BY <1>5, <2>2 DEF Sinks
<1>10. ASSUME NEW CONSTANT i \in 1 .. n PROVE CallOK(r[i], After(r, i))'
  <2>1. CASE i = n
    <3>1. n # 0 /\ Len(q) > 1 /\ Len(q) - 1 = n
      BY <1>1, <1>4, <2>1
    <3>2. CallOK([q[n] EXCEPT !.ok = ok], None)'
      BY <3>1 DEF CallerOK
    <3>3. r[i] = [q[n] EXCEPT !.ok = ok] /\ After(r, i) = None
      BY <1>2, <2>1, <3>1 DEF After
    <3> QED
      BY <3>2, <3>3
  <2>2. CASE i \in 1 .. n - 1
    <3>1. i # n /\ i + 1 \in 1 .. n /\ i \in 1 .. Len(q) - 2
      BY <1>1, <2>2
    <3>2. r[i] = q[i] /\ After(r, i) = q[i + 1].s
      BY <1>2, <1>5, <2>2, <3>1 DEF After
    <3>3. CallOK(q[i], q[i + 1].s)'
      BY <3>1 DEF CallsOK
    <3> QED
      BY <3>2, <3>3
  <2> QED
    BY <1>4, <2>1, <2>2
<1>11. Chain(r)'
  <2>1. \A i \in DOMAIN r : CallOK(r[i], After(r, i))'
    BY <1>2, <1>10
  <2> QED
    BY <1>7, <1>8, <1>9, <2>1 DEF Chain
<1>12. ASSUME NEW pcs PROVE Out(r, pcs, Len(r)) = Out(q, pcs, n)
  <2>1. Out(r, pcs, n) = Out(q, pcs, n)
    BY <1>5 DEF Out
  <2> QED
    BY <1>2, <2>1
<1> QED
  BY <1>2, <1>11, <1>12 DEF n

-----------------------------------------------------------------------------
(* The operation at work.                                                  *)

\* Its stack alone changes, into a sound one.
LEMMA SoloBy ==
  ASSUME StackType, NEW CONSTANT p \in Procs, NEW CONSTANT r, stack' = [stack EXCEPT ![p] = r],
         crossed' = 0 => Alone(p) /\ Sound(r)'
  PROVE  Solo'
<1> SUFFICES ASSUME crossed' = 0
             PROVE  /\ (\A x \in Procs : Idle(x)') => Removing(<<>>)'
                    /\ \A x \in Procs : ~ Idle(x)' => Alone(x)' /\ \E q \in {stack'[x]} : Sound(q)'
  BY DEF Solo
<1>1. stack'[p] = r /\ \A x \in Procs \ {p} : stack'[x] = <<>>
  BY DEF StackType, Alone, Idle
<1>2. ASSUME \A x \in Procs : Idle(x)' PROVE Removing(<<>>)'
  <2>1. r = <<>>
    BY <1>1, <1>2 DEF Idle
  <2>2. Sound(<<>>)'
    BY <2>1
  <2> QED
    BY <2>2, NoCalls DEF Sound
<1>3. ASSUME NEW x \in Procs, ~ Idle(x)' PROVE Alone(x)' /\ \E q \in {stack'[x]} : Sound(q)'
  <2>1. x = p
    BY <1>1, <1>3 DEF Idle
  <2>2. Alone(p)'
    BY <1>1 DEF Alone, Idle
  <2> QED
    BY <1>1, <2>1, <2>2
<1> QED
  BY <1>2, <1>3

\* Nobody is at work.
LEMMA SoloIdle ==
  ASSUME IInv, Solo, crossed = 0, NEW p \in Procs, Alone(p), Idle(p)
  PROVE  Chain(<<>>) /\ TreeBut({}, {}, {}, {}, {}, {})
<1>1. Removing(<<>>)
  BY DEF Solo, Alone
<1>2. \A pcs : Out(<<>>, pcs, Len(<<>>)) = {}
  <2>1. \A i \in 1 .. 0 : FALSE
    OBVIOUS
  <2> QED
    BY <2>1, NoCalls DEF Out
<1> QED
  BY <1>1, <1>2 DEF Removing

\* One operation is at work.
LEMMA SoloTop ==
  ASSUME IInv, Solo, crossed = 0, NEW p \in Procs, ~ Idle(p)
  PROVE  /\ Alone(p)
         /\ \E q \in Stacks :
              /\ q = stack[p] /\ q # <<>> /\ Sound(q) /\ Top(p) = q[Len(q)]
              /\ Top(p).op \in Removals => Removing(q)
              /\ Top(p).op = "spawn" => Len(q) = 1 /\ q[1] = Top(p) /\ Spawning(q[1])
              /\ Top(p).op = "reparent" => Len(q) = 1 /\ q[1] = Top(p) /\ Moving(q[1])
<1>1. PICK q : q = stack[p] /\ Sound(q) /\ Alone(p)
  BY DEF Solo
<1>2. q \in Stacks /\ q # <<>> /\ Top(p) = q[Len(q)]
  BY <1>1, TopIsCall, Parts
<1>3. Removing(q) => Top(p).op \in Removals
  BY <1>2, Innermost DEF Removing, CallOK
<1>4. Spawning(q[1]) => q[1].op = "spawn"
  BY DEF Spawning
<1>5. Moving(q[1]) => q[1].op = "reparent"
  BY DEF Moving
<1>6. "spawn" \notin Removals /\ "reparent" \notin Removals
  BY DEF Removals
<1> QED
  BY <1>1, <1>2, <1>3, <1>4, <1>5, <1>6 DEF Sound

-----------------------------------------------------------------------------
(* Removals go on.                                                         *)

LEMMA InnerKept ==
  ASSUME NEW CONSTANT q \in Stacks, Chain(q), born \subseteq born',
         exists' = exists, parent' = parent, children' = children
  PROVE  CallsOK(q, Len(q) - 1)'
<1> SUFFICES ASSUME NEW CONSTANT i \in 1 .. Len(q) - 1 PROVE CallOK(q[i], q[i + 1].s)'
  BY DEF CallsOK
<1>1. CallOK(q[i], q[i + 1].s) /\ q[i].pc \in PlacesOf(q[i].op) /\ q[i].op \in {"dispose", "delete"}
  BY Inner
<1>2. q[i].pc \notin {"client", "ending"}
  BY <1>1 DEF PlacesOf
<1> QED
  BY <1>1, <1>2, CallKept

TreeFor(lost, loose) == TreeBut(lost, {}, loose, {}, {}, {})

LEMMA RemovalGoes ==
  ASSUME IInv, NEW CONSTANT p \in Procs, Alone(p),
         NEW CONSTANT q \in Stacks, q = stack[p], q # <<>>, Removing(q),
         NEW CONSTANT f, Same(f, Top(p)), Goes(p, f), level' = level, CallOK(f, None)',
         CallsOK(q, Len(q) - 1)',
         NEW CONSTANT A, NEW CONSTANT B, A = OutBy(q, f, LostAt), B = OutBy(q, f, LooseAt),
         TreeFor(A, B)'
  PROVE  Solo'
<1>1. StackType /\ f \in Frames /\ Top(p) = q[Len(q)]
  BY Parts, TopIsCall DEF Same, Idle
<1>2. PICK r : r = Append(Front(q), f)
  OBVIOUS
<1>3. Rewrites(r, q, 1, 1, f)
  BY <1>1, <1>2, GoesStack
<1>4. f.op = q[Len(q)].op /\ f.s = q[Len(q)].s /\ Chain(q)
  BY <1>1 DEF Same, Removing
<1>5. Chain(r)' /\ \A pcs : Out(r, pcs, Len(r)) = OutBy(q, f, pcs)
  BY <1>1, <1>3, <1>4, ChainGoes
<1>6. Removing(r)'
  BY <1>5 DEF Removing, TreeFor
<1>7. stack' = [stack EXCEPT ![p] = r]
  BY <1>1, <1>2 DEF Goes, StackType
<1> QED
  BY <1>1, <1>6, <1>7, SoloBy DEF Sound

LEMMA RemovalCalls ==
  ASSUME IInv, NEW CONSTANT p \in Procs, Alone(p),
         NEW CONSTANT q \in Stacks, q = stack[p], q # <<>>, Removing(q),
         NEW CONSTANT f, Same(f, Top(p)), NEW CONSTANT g \in Frames, Calls(p, f, g),
         level' = level, CallOK(f, g.s)', CallOK(g, None)',
         CallsOK(q, Len(q) - 1)',
         MayCall(f, g),
         g.pc \notin LooseAt,
         NEW CONSTANT A, NEW CONSTANT B, A = OutBy(q, f, LostAt), B = OutBy(q, f, LooseAt),
         TreeFor(A, B)'
  PROVE  Solo'
<1>1. StackType /\ f \in Frames /\ Top(p) = q[Len(q)] /\ TypeOK
  BY Parts, TopIsCall DEF Same, Idle, IInv
<1>2. PICK r : r = Append(Append(Front(q), f), g)
  OBVIOUS
<1>3. Rewrites(r, q, 1, 2, g) /\ r[Len(q)] = f
  BY <1>1, <1>2, CallsStack
<1>4. f.op = q[Len(q)].op /\ f.s = q[Len(q)].s /\ Chain(q)
  BY <1>1 DEF Same, Removing
<1>5. Chain(r)' /\ \A pcs : g.pc \notin pcs => Out(r, pcs, Len(r)) = OutBy(q, f, pcs)
  BY <1>1, <1>3, <1>4, ChainCalls
<1>6. Out(r, LostAt, Len(r)) = A /\ Out(r, LooseAt, Len(r)) = B
  <2>1. g.pc \notin LostAt
    BY DEF LooseAt
  <2> QED
    BY <1>5, <2>1
<1>7. Removing(r)'
  BY <1>5, <1>6 DEF Removing, TreeFor
<1>8. stack' = [stack EXCEPT ![p] = r]
  BY <1>1, <1>2 DEF Calls, StackType
<1> QED
  BY <1>1, <1>7, <1>8, SoloBy DEF Sound

LEMMA RemovalReturns ==
  ASSUME IInv, NEW CONSTANT p \in Procs, Alone(p),
         NEW CONSTANT q \in Stacks, q = stack[p], q # <<>>, Removing(q),
         NEW CONSTANT ok \in BOOLEAN, Returns(p, ok), level' = level,
         CallsOK(q, Len(q) - 2)',
         CallerOK(q, ok)',
         NEW CONSTANT A, NEW CONSTANT B,
         A = Out(q, LostAt, Len(q) - 1), B = Out(q, LooseAt, Len(q) - 1), TreeFor(A, B)'
  PROVE  Solo'
<1>1. StackType /\ Chain(q)
  BY Parts DEF Removing
<1>2. PICK r : r = Answered(q, ok)
  OBVIOUS
<1>3. /\ Chain(r)' /\ r \in Stacks
      /\ \A pcs : Out(r, pcs, Len(r)) = Out(q, pcs, Len(q) - 1)
  BY <1>1, <1>2, ChainReturns
<1>4. Removing(r)'
  BY <1>3 DEF Removing, TreeFor
<1>5. stack' = [stack EXCEPT ![p] = r]
  BY <1>2 DEF Returns, Answered
<1> QED
  BY <1>1, <1>4, <1>5, SoloBy DEF Sound

\* With the records as they are, the innermost call goes on,
LEMMA RemovalMoves ==
  ASSUME IInv, Solo, crossed = 0, NEW CONSTANT p \in Procs, ~ Idle(p), Top(p).op \in Removals,
         NEW CONSTANT f, Same(f, Top(p)), Goes(p, f), UNCHANGED <<born, treeVars>>,
         CallOK(f, None)',
         f.pc \in LostAt <=> Top(p).pc \in LostAt, f.pc \in LooseAt <=> Top(p).pc \in LooseAt
  PROVE  Solo'
<1>1. Alone(p)
  BY SoloTop
<1>2. PICK q : q \in Stacks /\ q = stack[p] /\ q # <<>> /\ Top(p) = q[Len(q)] /\ Removing(q)
  BY SoloTop
<1>3. Chain(q) /\ f.s = q[Len(q)].s
  BY <1>2 DEF Removing, Same
<1>4. CallsOK(q, Len(q) - 1)'
  BY <1>2, <1>3, InnerKept DEF treeVars
<1>5. PICK A, B : A = OutBy(q, f, LostAt) /\ B = OutBy(q, f, LooseAt)
  OBVIOUS
<1>6. A = Out(q, LostAt, Len(q)) /\ B = Out(q, LooseAt, Len(q))
  BY <1>2, <1>3, <1>5, OutTop DEF OutBy
<1>7. TreeFor(A, B)'
  BY <1>2, <1>6, TreeKept DEF Removing, TreeFor
<1>8. level' = level
  BY DEF treeVars
<1> QED
  BY <1>1, <1>2, <1>4, <1>5, <1>7, <1>8, RemovalGoes

\* it makes another one,
LEMMA RemovalAsks ==
  ASSUME IInv, Solo, crossed = 0, NEW CONSTANT p \in Procs, ~ Idle(p), Top(p).op \in Removals,
         NEW CONSTANT f, Same(f, Top(p)), NEW CONSTANT g \in Frames, Calls(p, f, g),
         UNCHANGED <<born, treeVars>>,
         CallOK(f, g.s)', CallOK(g, None)', MayCall(f, g), g.pc \notin LooseAt,
         f.pc \in LostAt <=> Top(p).pc \in LostAt, f.pc \in LooseAt <=> Top(p).pc \in LooseAt
  PROVE  Solo'
<1>1. Alone(p)
  BY SoloTop
<1>2. PICK q : q \in Stacks /\ q = stack[p] /\ q # <<>> /\ Top(p) = q[Len(q)] /\ Removing(q)
  BY SoloTop
<1>3. Chain(q) /\ f.s = q[Len(q)].s
  BY <1>2 DEF Removing, Same
<1>4. CallsOK(q, Len(q) - 1)'
  BY <1>2, <1>3, InnerKept DEF treeVars
<1>5. PICK A, B : A = OutBy(q, f, LostAt) /\ B = OutBy(q, f, LooseAt)
  OBVIOUS
<1>6. A = Out(q, LostAt, Len(q)) /\ B = Out(q, LooseAt, Len(q))
  BY <1>2, <1>3, <1>5, OutTop DEF OutBy
<1>7. TreeFor(A, B)'
  BY <1>2, <1>6, TreeKept DEF Removing, TreeFor
<1>8. level' = level
  BY DEF treeVars
<1> QED
  BY <1>1, <1>2, <1>4, <1>5, <1>7, <1>8, RemovalCalls

\* and it returns.
LEMMA RemovalAnswers ==
  ASSUME IInv, Solo, crossed = 0, NEW CONSTANT p \in Procs, ~ Idle(p), Top(p).op \in Removals,
         NEW CONSTANT ok \in BOOLEAN, Returns(p, ok), UNCHANGED <<born, treeVars>>,
         Top(p).pc \notin LooseAt,
         \A q \in Stacks : q = stack[p] /\ Removing(q) /\ Len(q) > 1 =>
           CallOK([q[Len(q) - 1] EXCEPT !.ok = ok], None)'
  PROVE  Solo'
<1>1. Alone(p)
  BY SoloTop
<1>2. PICK q : q \in Stacks /\ q = stack[p] /\ q # <<>> /\ Top(p) = q[Len(q)] /\ Removing(q)
  BY SoloTop
<1>3. Chain(q)
  BY <1>2 DEF Removing
<1>4. CallsOK(q, Len(q) - 2)'
  <2>1. CallsOK(q, Len(q) - 1)'
    BY <1>2, <1>3, InnerKept DEF treeVars
  <2>2. Len(q) \in Nat
    BY <1>2, StackParts
  <2>3. \A i \in 1 .. Len(q) - 2 : i \in 1 .. Len(q) - 1
    BY <2>2
  <2> QED
    BY <2>1, <2>3 DEF CallsOK
<1>5. PICK A, B : A = Out(q, LostAt, Len(q) - 1) /\ B = Out(q, LooseAt, Len(q) - 1)
  OBVIOUS
<1>6. A = Out(q, LostAt, Len(q)) /\ B = Out(q, LooseAt, Len(q))
  <2>1. q[Len(q)].pc \notin LostAt /\ q[Len(q)].pc \notin LooseAt
    BY <1>2 DEF LooseAt
  <2> QED
    BY <1>2, <1>5, <2>1, OutAbove
<1>7. TreeFor(A, B)'
  BY <1>2, <1>6, TreeKept DEF Removing, TreeFor
<1>8. level' = level
  BY DEF treeVars
<1>9. CallerOK(q, ok)'
  BY <1>2 DEF CallerOK
<1> QED
  BY <1>1, <1>2, <1>4, <1>5, <1>7, <1>8, <1>9, RemovalReturns

-----------------------------------------------------------------------------
(* The ends of sessions.                                                   *)

LEMMA EndIsOK ==
  ASSUME NEW CONSTANT f, NEW CONSTANT x, f.op \in {"terminate", "close"}, f.pc \in PlacesOf(f.op),
         f.s \in born', f.pc \in {"client", "ending"} => f.s \in up'
  PROVE  CallOK(f, x)' /\ f.pc \notin LooseAt
BY DEF CallOK, Removals, PlacesOf, LooseAt, LostAt

\* Whose turn it is.
LEMMA SoloOnly ==
  ASSUME Solo, crossed' = crossed \/ crossed' # 0, crossed = 0 => Solo'
  PROVE  Solo'
BY DEF Solo

\* What is known of the innermost call of a removal.
LEMMA RemovalTop ==
  ASSUME IInv, Solo, crossed = 0, NEW p \in Procs, ~ Idle(p), Top(p).op \in Removals
  PROVE  CallOK(Top(p), None) /\ Top(p) \in Frames /\ Top(p).s \in Sessions
<1>1. PICK q : q \in Stacks /\ q # <<>> /\ Top(p) = q[Len(q)] /\ Removing(q)
  BY SoloTop
<1>2. CallOK(Top(p), None)
  BY <1>1, Innermost DEF Removing
<1> QED
  BY <1>2, TopIsCall, Parts, FrameParts

LEMMA ClientAskedSolo ==
  ASSUME IInv, Solo, NEW CONSTANT p \in Procs, ClientAsked(p)
  PROVE  Solo'
<1> SUFFICES ASSUME crossed = 0 PROVE Solo'
  BY SoloOnly DEF ClientAsked
<1>1. ~ Idle(p) /\ Top(p) \in Frames /\ Top(p).op \in {"terminate", "close"} /\ Top(p).pc = "client"
  BY AtEndTop DEF ClientAsked
<1>2. PICK f : f = [Top(p) EXCEPT !.pc = "ending"]
  OBVIOUS
<1>3. Same(f, Top(p)) /\ f.pc = "ending"
  BY <1>1, <1>2, AtPc DEF Places, Frames
<1>4. Goes(p, f) /\ UNCHANGED <<born, treeVars>> /\ up' = up
  BY <1>2 DEF ClientAsked, Waits
<1>5. Top(p).op \in Removals
  BY <1>1 DEF Removals
<1>6. f.s \in born /\ f.s \in up /\ f.op \in {"terminate", "close"}
  BY <1>1, <1>3, <1>5, RemovalTop DEF CallOK, Same
<1>7. CallOK(f, None)' /\ f.pc \notin LooseAt /\ Top(p).pc \notin LooseAt
  <2>1. f.pc \in PlacesOf(f.op)
    BY <1>3, <1>6 DEF PlacesOf
  <2>2. f.s \in born' /\ f.s \in up'
    BY <1>4, <1>6
  <2> QED
    BY <1>1, <1>6, <2>1, <2>2, EndIsOK DEF LooseAt, LostAt
<1> QED
  BY <1>1, <1>3, <1>4, <1>5, <1>7, RemovalMoves DEF LooseAt

LEMMA ClientEndedSolo ==
  ASSUME IInv, Solo, NEW CONSTANT p \in Procs, ClientEnded(p)
  PROVE  Solo'
<1> SUFFICES ASSUME crossed = 0 PROVE Solo'
  BY SoloOnly DEF ClientEnded
<1>1. ~ Idle(p) /\ Top(p) \in Frames /\ Top(p).op \in {"terminate", "close"} /\ Top(p).pc = "ending"
  BY AtEndTop DEF ClientEnded
<1>2. PICK f : f = [Top(p) EXCEPT !.pc = "lock", !.on = Top(p).s]
  OBVIOUS
<1>3. Same(f, Top(p)) /\ f.pc = "lock"
  BY <1>1, <1>2, AtPcOn, FrameParts DEF Places, Frames, Ons
<1>5. Top(p).op \in Removals
  BY <1>1 DEF Removals
<1>6. f.s \in born /\ Top(p).s \in up /\ f.op \in {"terminate", "close"}
  BY <1>1, <1>3, <1>5, RemovalTop DEF CallOK, Same
<1>4. Goes(p, f) /\ UNCHANGED <<born, treeVars>>
  BY <1>2, <1>6 DEF ClientEnded, Waits, Continues
<1>7. CallOK(f, None)' /\ f.pc \notin LooseAt /\ Top(p).pc \notin LooseAt
  <2>1. f.pc \in PlacesOf(f.op)
    BY <1>3, <1>6 DEF PlacesOf
  <2>2. f.s \in born'
    BY <1>4, <1>6
  <2> QED
    BY <1>1, <1>3, <1>6, <2>1, <2>2, EndIsOK DEF LooseAt, LostAt
<1> QED
  BY <1>1, <1>3, <1>4, <1>5, <1>7, RemovalMoves DEF LooseAt

LEMMA SessionClosesSolo ==
  ASSUME IInv, Solo, NEW CONSTANT p \in Procs, SessionCloses(p)
  PROVE  Solo'
<1> SUFFICES ASSUME crossed = 0 PROVE Solo'
  BY SoloOnly DEF SessionCloses
<1>1. ~ Idle(p) /\ Top(p) \in Frames /\ Top(p).op \in {"terminate", "close"} /\ Top(p).pc = "lock"
  BY AtEndTop DEF SessionCloses
<1>2. PICK f : f = [Top(p) EXCEPT !.pc = "closing", !.on = None]
  OBVIOUS
<1>3. Same(f, Top(p)) /\ f.pc = "closing"
  BY <1>1, <1>2, AtPcOn DEF Places, Frames, Ons
<1>5. Top(p).op \in Removals
  BY <1>1 DEF Removals
<1>6. f.s \in born /\ f.op \in {"terminate", "close"}
  BY <1>1, <1>3, <1>5, RemovalTop DEF CallOK, Same
<1>4. Goes(p, f) /\ UNCHANGED <<born, treeVars>>
  BY <1>2 DEF SessionCloses, Waits
<1>7. CallOK(f, None)' /\ f.pc \notin LooseAt /\ Top(p).pc \notin LooseAt
  <2>1. f.pc \in PlacesOf(f.op)
    BY <1>3, <1>6 DEF PlacesOf
  <2>2. f.s \in born'
    BY <1>4, <1>6
  <2> QED
    BY <1>1, <1>3, <1>6, <2>1, <2>2, EndIsOK DEF LooseAt, LostAt
<1> QED
  BY <1>1, <1>3, <1>4, <1>5, <1>7, RemovalMoves DEF LooseAt

\* The session is closed.
LEMMA EndReturnsSolo ==
  ASSUME IInv, Solo, crossed = 0, NEW CONSTANT p \in Procs, ~ Idle(p),
         Top(p).op \in {"terminate", "close"}, Returns(p, TRUE), UNCHANGED <<born, treeVars>>
  PROVE  Solo'
<1>1. Top(p).op \in Removals
  BY DEF Removals
<1>2. Top(p).pc \notin LooseAt
  BY <1>1, RemovalTop DEF CallOK, PlacesOf, LooseAt, LostAt
<1>3. ASSUME NEW CONSTANT q \in Stacks, q = stack[p], Removing(q), Len(q) > 1
      PROVE  CallOK([q[Len(q) - 1] EXCEPT !.ok = TRUE], None)'
  <2>1. PICK e : e = q[Len(q) - 1]
    OBVIOUS
  <2>2. Chain(q) /\ Len(q) \in Nat /\ Len(q) - 1 \in 1 .. Len(q) - 1 /\ Len(q) - 1 \in 1 .. Len(q)
        /\ (Len(q) - 1) + 1 = Len(q) /\ Top(p) = q[Len(q)] /\ e \in Frames
    <3>1. Len(q) \in Nat
      BY DEF Stacks
    <3>2. Len(q) - 1 \in 1 .. Len(q) - 1 /\ Len(q) - 1 \in 1 .. Len(q) /\ (Len(q) - 1) + 1 = Len(q)
      BY <1>3, <3>1
    <3>3. Top(p) = q[Len(q)] /\ q[Len(q) - 1] \in Frames
      BY <1>3, <3>2, TopIsCall, Parts DEF Stacks
    <3> QED
      BY <1>3, <2>1, <3>1, <3>2, <3>3 DEF Removing
  <2>3. e.pc \in {"ended", "closed"}
    <3>1. q[Len(q)].op = Callee(e.pc)
      BY <2>1, <2>2 DEF Chain, Adjoins
    <3>2. e.pc \in {"children", "ended", "over", "cascade", "closed"}
      BY <2>1, <2>2, Inner
    <3> QED
      BY <2>2, <3>1, <3>2 DEF Callee
  <2>4. CallOK(e, q[Len(q)].s)
    BY <2>1, <2>2, Inner
  <2>5. PICK f : f = [e EXCEPT !.ok = TRUE]
    OBVIOUS
  <2>6. /\ f.op = e.op /\ f.s = e.s /\ f.par = e.par /\ f.pc = e.pc /\ f.kids = e.kids
        /\ f.todo = e.todo /\ f.found = e.found /\ f.ok = TRUE
    BY <2>2, <2>5 DEF Frames
  <2>7. CallOK(f, None)'
    BY <2>3, <2>4, <2>6 DEF CallOK, treeVars
  <2> QED
    BY <2>1, <2>5, <2>7
<1> QED
  BY <1>1, <1>2, <1>3, RemovalAnswers

LEMMA SessionIsClosedSolo ==
  ASSUME IInv, Solo, NEW CONSTANT p \in Procs, SessionIsClosed(p) \/ SessionClosed(p)
  PROVE  Solo'
<1> SUFFICES ASSUME crossed = 0 PROVE Solo'
  BY SoloOnly DEF SessionIsClosed, SessionClosed
<1>1. ~ Idle(p) /\ Top(p).op \in {"terminate", "close"}
  BY AtEndTop DEF SessionIsClosed, SessionClosed
<1>2. Returns(p, TRUE) /\ UNCHANGED <<born, treeVars>>
  BY DEF SessionIsClosed, SessionClosed
<1> QED
  BY <1>1, <1>2, EndReturnsSolo

-----------------------------------------------------------------------------
(* Deletions.                                                              *)

LEMMA KidOf ==
  ASSUME TypeOK, NEW A, NEW B, TreeFor(A, B), NEW s \in exists, NEW c \in children[s]
  PROVE  /\ c \in exists /\ c \notin B /\ parent[c] = s
         /\ level[c] = level[s] + 1 /\ level[c] \in Nat /\ level[s] \in Nat
<1>1. exists \subseteq Sessions /\ c \in Sessions /\ s \in Sessions /\ s # None
  BY NoneAssumption DEF TypeOK
<1>2. c \in exists /\ c \notin B /\ parent[c] = s
  BY <1>1 DEF TreeFor, TreeBut, Links
<1>3. level[c] = level[s] + 1
  BY <1>1, <1>2 DEF TreeFor, TreeBut, Levels, LevelUnder
<1> QED
  BY <1>1, <1>2, <1>3 DEF TypeOK

\* A session that is there, but in no list, is one that has been taken out.
LEMMA NoKidOf ==
  ASSUME TypeOK, NEW A, NEW B, TreeFor(A, B), NEW s \in exists, NEW c \in exists,
         parent[c] = s, c \notin children[s]
  PROVE  c \in B /\ level[c] = level[s] + 1 /\ level[c] \in Nat /\ level[s] \in Nat
<1>1. exists \subseteq Sessions /\ s # None
  BY NoneAssumption DEF TypeOK
<1>2. c \in B
  BY <1>1 DEF TreeFor, TreeBut, Links
<1>3. level[c] = level[s] + 1
  BY <1>1 DEF TreeFor, TreeBut, Levels, LevelUnder
<1> QED
  BY <1>1, <1>2, <1>3 DEF TypeOK

\* The call that deletes a session which is there.
LEMMA DeleteCallOK ==
  ASSUME TypeOK, NEW CONSTANT s, s \in exists, NEW CONSTANT g, g = DeleteCall(s)
  PROVE  /\ g \in Frames /\ CallOK(g, None) /\ g.op = "delete" /\ g.s = s
         /\ g.pc = "cascade" /\ g.todo = children[s] /\ g.found
<1>1. s \in Sessions /\ s \in born
  BY DEF TypeOK
<1>2. g \in Frames /\ g.op = "delete" /\ g.s = s
  BY <1>1, DeleteCallIsFrame
<1>3. g.pc = "cascade" /\ g.todo = children[s] /\ g.found
  BY DEF DeleteCall, Call
<1>4. children[s] = children[s] \ {None}
  BY <1>1, NoneAssumption DEF TypeOK
<1> QED
  BY <1>1, <1>2, <1>3, <1>4 DEF CallOK, Removals, PlacesOf

\* The call that disposes of a minion which is there.
LEMMA DisposeCallOK ==
  ASSUME TypeOK, NEW CONSTANT s, s \in exists, NEW CONSTANT par \in Sessions, parent[s] = par,
         NEW CONSTANT hard \in BOOLEAN, NEW CONSTANT g, g = DisposeCall(par, s, hard)
  PROVE  /\ g \in Frames /\ CallOK(g, None) /\ g.op = "dispose" /\ g.s = s /\ g.pc = "children"
<1>1. s \in Sessions /\ s \in born
  BY DEF TypeOK
<1>2. g \in Frames /\ g.op = "dispose"
  BY <1>1, DisposeCallIsFrame
<1>3. g.pc = "children" /\ g.s = s /\ g.par = par
  BY DEF DisposeCall, Call
<1> QED
  BY <1>1, <1>2, <1>3 DEF CallOK, Removals, PlacesOf

\* The call that ends a session.
LEMMA EndCallOK ==
  ASSUME TypeOK, NEW CONSTANT s \in Sessions, s \in born, NEW CONSTANT op \in {"terminate", "close"},
         NEW CONSTANT g, g = EndCall(op, s), born' = born, up' = up
  PROVE  /\ g \in Frames /\ CallOK(g, None) /\ CallOK(g, None)' /\ g.op = op /\ g.s = s
         /\ g.pc \notin LooseAt
<1>1. g \in Frames /\ g.op = op
  BY EndCallIsFrame
<1>2. g.s = s /\ (g.pc = "lock" \/ (g.pc = "client" /\ s \in up))
  BY DEF EndCall, Call
<1>3. g.pc \in PlacesOf(g.op)
  BY <1>1, <1>2 DEF PlacesOf
<1>4. CallOK(g, None)' /\ g.pc \notin LooseAt
  BY <1>1, <1>2, <1>3, EndIsOK
<1>5. CallOK(g, None)
  BY <1>1, <1>2, <1>3 DEF CallOK, Removals
<1> QED
  BY <1>1, <1>2, <1>4, <1>5

LEMMA SameRecords ==
  ASSUME UNCHANGED <<born, treeVars>>, up' = up, NEW CONSTANT f, NEW CONSTANT x, CallOK(f, x)
  PROVE  CallOK(f, x)'
BY CallKept DEF treeVars, CallOK

LEMMA DeleteChildSolo ==
  ASSUME IInv, Solo, NEW CONSTANT p \in Procs, DeleteChild(p)
  PROVE  Solo'
<1> SUFFICES ASSUME crossed = 0 PROVE Solo'
  BY SoloOnly DEF DeleteChild
<1>t. TypeOK
  BY DEF IInv
<1>1. ~ Idle(p) /\ Top(p) \in Frames /\ Top(p).op = "delete" /\ Top(p).pc = "cascade"
  BY AtTop DEF DeleteChild
<1>2. PICK e : e = Top(p)
  OBVIOUS
<1>3. PICK c \in e.todo : Calls(p, [e EXCEPT !.todo = @ \ {c}], DeleteCall(c))
  BY <1>2 DEF DeleteChild
<1>4. UNCHANGED <<born, treeVars>> /\ up' = up
  BY DEF DeleteChild
<1>5. Top(p).op \in Removals
  BY <1>1 DEF Removals
<1>6. CallOK(e, None) /\ e \in Frames /\ e.s \in Sessions
  BY <1>1, <1>2, <1>5, RemovalTop
<1>7. e.s \in exists /\ e.todo = children[e.s] \ {None} /\ children[e.s] \subseteq Sessions
  BY <1>1, <1>2, <1>6, <1>t DEF CallOK, TypeOK
<1>8. c \in children[e.s] /\ e.todo = children[e.s]
  BY <1>7, NoneAssumption
<1>9. PICK f : f = [e EXCEPT !.todo = @ \ {c}]
  OBVIOUS
<1>10. Same(f, Top(p)) /\ f.pc = "cascade" /\ f.found = e.found /\ f.todo = children[e.s] \ {c}
  <2>1. e.todo \ {c} \in SUBSET Todo(e.op)
    BY <1>6 DEF Frames
  <2>2. f = [e EXCEPT !.todo = e.todo \ {c}]
    BY <1>6, <1>9 DEF Frames
  <2>3. Same(f, e)
    BY <1>6, <2>1, <2>2, WithTodo
  <2>4. f.pc = "cascade" /\ f.found = e.found /\ f.todo = e.todo \ {c}
    BY <1>1, <1>2, <1>6, <2>2 DEF Frames
  <2> QED
    BY <1>2, <1>8, <2>3, <2>4
<1>11. PICK g : g = DeleteCall(c)
  OBVIOUS
<1>12. PICK A, B : TreeFor(A, B)
  BY <1>1, <1>5, SoloTop DEF Removing, TreeFor
<1>13. c \in exists /\ level[c] = level[e.s] + 1 /\ level[e.s] \in Nat
  BY <1>7, <1>8, <1>12, <1>t, KidOf
<1>14. g \in Frames /\ CallOK(g, None) /\ g.op = "delete" /\ g.s = c /\ g.pc = "cascade"
  BY <1>11, <1>13, <1>t, DeleteCallOK
<1>15. f.op = "delete" /\ f.s = e.s
  BY <1>1, <1>2, <1>10 DEF Same
<1>16. CallOK(f, c)
  BY <1>6, <1>10, <1>15, <1>1, <1>2 DEF CallOK
<1>17. CallOK(f, g.s)' /\ CallOK(g, None)'
  BY <1>4, <1>14, <1>16, SameRecords
<1>18. MayCall(f, g)
  BY <1>10, <1>13, <1>14, <1>15 DEF MayCall, Callee, Outer, Sinks
<1>19. g.pc \notin LooseAt /\ (f.pc \in LostAt <=> Top(p).pc \in LostAt) /\ (f.pc \in LooseAt <=> Top(p).pc \in LooseAt)
  BY <1>1, <1>10, <1>14 DEF LooseAt, LostAt
<1> QED
  BY <1>1, <1>3, <1>4, <1>5, <1>9, <1>10, <1>11, <1>14, <1>17, <1>18, <1>19, RemovalAsks

LEMMA DeletePausesSolo ==
  ASSUME IInv, Solo, NEW CONSTANT p \in Procs, DeletePauses(p)
  PROVE  Solo'
<1> SUFFICES ASSUME crossed = 0 PROVE Solo'
  BY SoloOnly DEF DeletePauses
<1>1. ~ Idle(p) /\ Top(p) \in Frames /\ Top(p).op = "delete" /\ Top(p).pc = "closed"
  BY AtTop DEF DeletePauses
<1>2. PICK f : f = [Top(p) EXCEPT !.pc = "erase", !.on = Top(p).s]
  OBVIOUS
<1>3. /\ Same(f, Top(p)) /\ f.pc = "erase" /\ f.found = Top(p).found
      /\ f.op = "delete" /\ f.s = Top(p).s
  <2>1. "erase" \in Places /\ Top(p).s \in Ons
    BY <1>1, FrameParts DEF Places, Ons
  <2>2. Same(f, Top(p))
    BY <1>1, <1>2, <2>1, AtPcOn
  <2>3. f.pc = "erase" /\ f.found = Top(p).found
    BY <1>1, <1>2 DEF Frames
  <2> QED
    BY <1>1, <2>2, <2>3 DEF Same
<1>4. Top(p).op \in Removals
  BY <1>1 DEF Removals
<1>5. CallOK(Top(p), None)
  BY <1>1, <1>4, RemovalTop
<1>6. Goes(p, f) /\ UNCHANGED <<born, treeVars>> /\ up' = up
  BY <1>1, <1>2, <1>5 DEF DeletePauses, Waits, CallOK
<1>7. CallOK(f, None)
  BY <1>1, <1>3, <1>5 DEF CallOK, PlacesOf
<1>8. CallOK(f, None)'
  BY <1>6, <1>7, SameRecords
<1> QED
  BY <1>1, <1>3, <1>4, <1>6, <1>8, RemovalMoves DEF LooseAt, LostAt

LEMMA DeleteUnlinksSolo ==
  ASSUME IInv, Solo, NEW CONSTANT p \in Procs, DeleteUnlinks(p)
  PROVE  Solo'
<1> SUFFICES ASSUME crossed = 0 PROVE Solo'
  BY SoloOnly DEF DeleteUnlinks
<1>t. TypeOK
  BY DEF IInv
<1>1. ~ Idle(p) /\ Top(p) \in Frames /\ Top(p).op = "delete" /\ Top(p).pc = "cascade"
  BY AtTop DEF DeleteUnlinks
<1>2. PICK e : e = Top(p)
  OBVIOUS
<1>3. Top(p).op \in Removals
  BY <1>1 DEF Removals
<1>4. CallOK(e, None) /\ e \in Frames /\ e.s \in Sessions
  BY <1>1, <1>2, <1>3, RemovalTop
<1>5. e.s \in exists /\ e.s \in born /\ e.found /\ e.todo = {} /\ children[e.s] = {}
  <2>1. e.s \in exists /\ e.s \in born /\ e.found /\ e.todo = children[e.s] \ {None}
    BY <1>1, <1>2, <1>4 DEF CallOK
  <2>2. e.todo = {} /\ None \notin children[e.s]
    BY <1>2, <1>4, <1>t, NoneAssumption DEF DeleteUnlinks, TypeOK
  <2> QED
    BY <2>1, <2>2
<1>6. PICK q : /\ q \in Stacks /\ q = stack[p] /\ q # <<>> /\ Top(p) = q[Len(q)]
               /\ Removing(q) /\ Alone(p)
  BY <1>1, <1>3, SoloTop
<1>7. Chain(q) /\ e = q[Len(q)]
  BY <1>2, <1>6 DEF Removing
<1>8. PICK C : C = Out(q, LooseAt, Len(q))
  OBVIOUS
<1>9. TreeFor({}, C) /\ C = Out(q, LooseAt, Len(q) - 1)
  <2>1. Out(q, LostAt, Len(q)) = {}
    <3>1. Out(q, LostAt, Len(q) - 1) = {}
      BY <1>1, <1>2, <1>6, <1>7, InnerOut
    <3>2. q[Len(q)].pc \notin LostAt
      BY <1>1, <1>2, <1>7 DEF LostAt
    <3> QED
      BY <1>6, <3>1, <3>2, OutAbove
  <2>2. C = Out(q, LooseAt, Len(q) - 1)
    <3>1. q[Len(q)].pc \notin LooseAt
      BY <1>1, <1>2, <1>7 DEF LooseAt, LostAt
    <3> QED
      BY <1>6, <1>8, <3>1, OutAbove
  <2> QED
    BY <1>6, <1>8, <2>1, <2>2 DEF Removing, TreeFor
<1>10. PICK f : f = [e EXCEPT !.pc = "closed"]
  OBVIOUS
<1>11. /\ Same(f, Top(p)) /\ f.pc = "closed" /\ f.op = "delete" /\ f.s = e.s /\ f.found
  <2>1. Same(f, e)
    BY <1>4, <1>10, AtPc DEF Places
  <2> QED
    BY <1>1, <1>2, <1>4, <1>5, <1>10, <2>1 DEF Same, Frames
<1>12. PICK g : g = EndCall("close", e.s)
  OBVIOUS
<1>13. listed' = listed \ {e.s} /\ exists' = exists /\ parent' = parent /\ level' = level
       /\ overseer' = overseer /\ born' = born /\ up' = up /\ Calls(p, f, g)
       /\ children' = [s \in Sessions |-> IF s \in exists /\ s = parent[e.s]
                                           THEN children[s] \ {e.s} ELSE children[s]]
  BY <1>2, <1>5, <1>10, <1>12, Zenon DEF DeleteUnlinks
<1>14. registered' = registered \ {e.s}
  BY <1>2, <1>5, <1>9 DEF DeleteUnlinks, Unregister, TreeFor, TreeBut, Lists
<1>15. PICK A, B : A = {e.s} /\ B = C \union {e.s}
  OBVIOUS
<1>16. A = OutBy(q, f, LostAt) /\ B = OutBy(q, f, LooseAt)
  <2>1. Out(q, LostAt, Len(q) - 1) = {}
    BY <1>1, <1>2, <1>6, <1>7, InnerOut
  <2> QED
    BY <1>9, <1>11, <1>15, <2>1 DEF OutBy, LostAt, LooseAt
<1>k. \A s \in Sessions : /\ children'[s] \subseteq children[s]
                          /\ children'[s] = IF s \in exists /\ s = parent[e.s]
                                            THEN children[s] \ {e.s} ELSE children[s]
  BY <1>13
<1>e. exists \subseteq Sessions
  BY <1>t DEF TypeOK
<1>17. TreeFor(A, B)'
  <2>1. Lists(A, {})'
    BY <1>5, <1>9, <1>13, <1>14, <1>15 DEF TreeFor, TreeBut, Lists
  <2>2. Links(B, {})'
    <3> SUFFICES ASSUME NEW s \in exists
                 PROVE  /\ parent[s] \in exists \union {None}
                        /\ \A c \in Sessions : c \in children'[s] <=> c \in exists \ B /\ parent[c] = s
      BY <1>13 DEF Links
    <3>1. /\ parent[s] \in exists \union {None}
          /\ \A c \in Sessions : c \in children[s] <=> c \in exists \ C /\ parent[c] = s
      BY <1>9 DEF TreeFor, TreeBut, Links
    <3> QED
      BY <3>1, <1>k, <1>e, <1>15
  <2>3. Leads({})'
    BY <1>9, <1>13, <1>k, <1>e DEF TreeFor, TreeBut, Leads
  <2>4. Levels({})'
    BY <1>9, <1>13 DEF TreeFor, TreeBut, Levels, LevelUnder
  <2>5. Unborn'
    BY <1>9, <1>13, <1>k DEF TreeFor, TreeBut, Unborn
  <2> QED
    BY <2>1, <2>2, <2>3, <2>4, <2>5 DEF TreeFor, TreeBut
<1>18. g \in Frames /\ CallOK(g, None)' /\ g.op = "close" /\ g.s = e.s /\ g.pc \notin LooseAt
  BY <1>4, <1>5, <1>12, <1>13, <1>t, EndCallOK
<1>19. CallOK(f, g.s)'
  <2>1. children'[e.s] = {} /\ e.s # None
    BY <1>4, <1>5, <1>k, NoneAssumption
  <2> QED
    BY <1>5, <1>11, <1>13, <1>18, <2>1 DEF CallOK, Removals, PlacesOf
<1>20. CallsOK(q, Len(q) - 1)'
  <2> SUFFICES ASSUME NEW CONSTANT i \in 1 .. Len(q) - 1 PROVE CallOK(q[i], q[i + 1].s)'
    BY DEF CallsOK
  <2>1. /\ CallOK(q[i], q[i + 1].s) /\ q[i].pc \in {"children", "over", "cascade"}
        /\ i + 1 \in 1 .. Len(q) /\ q[i].op \in {"dispose", "delete"} /\ q[i].pc \in PlacesOf(q[i].op)
    BY <1>1, <1>2, <1>6, <1>7, Inner
  <2>2. CASE q[i].pc # "cascade"
    BY <1>13, <2>1, <2>2 DEF CallOK
  <2>3. CASE q[i].pc = "cascade"
    <3>1. q[i].s \in exists
      BY <2>1, <2>3 DEF CallOK, PlacesOf
    <3>2. CASE q[i].s # parent[e.s]
      <4>1. children'[q[i].s] = children[q[i].s]
        BY <1>e, <1>k, <3>1, <3>2
      <4> QED
        BY <1>13, <2>1, <2>3, <4>1 DEF CallOK
    <3>3. CASE q[i].s = parent[e.s] /\ q[i + 1].s = e.s
      <4>1. children'[q[i].s] = children[q[i].s] \ {e.s}
        BY <1>e, <1>k, <3>1, <3>3
      <4>2. children'[q[i].s] \ {q[i + 1].s} = children[q[i].s] \ {q[i + 1].s}
        BY <3>3, <4>1
      <4> QED
        BY <1>13, <2>1, <2>3, <4>2 DEF CallOK
    <3>4. CASE q[i].s = parent[e.s] /\ q[i + 1].s # e.s
      <4>1. level[e.s] = level[q[i].s] + 1
        <5>1. e.s \in exists \ {} /\ parent[e.s] \in Sessions /\ parent[e.s] # None
          BY <1>5, <1>e, <3>1, <3>4, NoneAssumption
        <5> QED
          BY <1>9, <3>1, <3>4, <5>1 DEF TreeFor, TreeBut, Levels, LevelUnder
      <4>2. i + 1 # Len(q)
        BY <1>7, <3>4
      <4>3. /\ Len(q) \in Nat /\ DOMAIN q = 1 .. Len(q) /\ i \in DOMAIN q /\ i + 1 \in DOMAIN q
            /\ Len(q) \in DOMAIN q /\ i < i + 1 /\ i + 1 < Len(q) /\ i + 1 \in 1 .. Len(q) - 1
        <5>1. Len(q) \in Nat /\ DOMAIN q = 1 .. Len(q)
          BY <1>6, StackParts
        <5> QED
          BY <5>1, <4>2, Between
      <4>4. q[i + 1].op = "delete"
        BY <1>7, <2>3, <4>3 DEF Chain, Adjoins, Callee
      <4>5. q[i + 1].pc # "over"
        <5>1. q[i + 1].pc \in PlacesOf(q[i + 1].op)
          BY <1>6, <1>7, <4>3, Inner
        <5> QED
          BY <4>4, <5>1 DEF PlacesOf
      <4>6. Sinks(q[i + 1].s, q[i]) /\ Sinks(e.s, q[i + 1])
        <5>1. q[Len(q)].op = "delete"
          BY <1>1, <1>2, <1>7
        <5> QED
          BY <1>7, <4>3, <4>4, <5>1 DEF Chain, Descends
      <4>7. level[q[i].s] < level[q[i + 1].s] /\ level[q[i + 1].s] < level[e.s]
        BY <2>3, <4>5, <4>6 DEF Sinks
      <4>8. level[q[i].s] \in Nat /\ level[q[i + 1].s] \in Nat
        <5>1. q[i] \in Frames /\ q[i + 1] \in Frames
          BY <1>6, <4>3 DEF Stacks
        <5> QED
          BY <1>t, <5>1, FrameParts DEF TypeOK
      <4> QED
        BY <4>1, <4>7, <4>8
    <3> QED
      BY <3>2, <3>3, <3>4
  <2> QED
    BY <2>2, <2>3
<1>21. MayCall(f, g)
  BY <1>11, <1>18 DEF MayCall, Callee, Outer
<1> QED
  BY <1>6, <1>11, <1>13, <1>15, <1>16, <1>17, <1>18, <1>19, <1>20, <1>21, RemovalCalls

\* Calls further out are for sessions further up.
LEMMA Above ==
  ASSUME TypeOK, NEW q \in Stacks, q # <<>>, Chain(q), q[Len(q)].op \in {"dispose", "delete"},
         NEW i \in 1 .. Len(q) - 1
  PROVE  /\ Sinks(q[Len(q)].s, q[i]) /\ level[q[i].s] \in Nat /\ level[q[Len(q)].s] \in Nat
         /\ q[i].pc # "over" => q[i].s # q[Len(q)].s
<1>1. Len(q) \in Nat /\ DOMAIN q = 1 .. Len(q)
  BY StackParts
<1>2. i \in DOMAIN q /\ Len(q) \in DOMAIN q /\ i < Len(q)
  BY <1>1, Between
<1>3. Sinks(q[Len(q)].s, q[i])
  BY <1>2 DEF Chain, Descends
<1>4. q[i] \in Frames /\ q[Len(q)] \in Frames
  BY <1>1, <1>2 DEF Stacks
<1>5. level[q[i].s] \in Nat /\ level[q[Len(q)].s] \in Nat
  BY <1>4, FrameParts DEF TypeOK
<1> QED
  BY <1>3, <1>5 DEF Sinks

LEMMA DeleteErasesSolo ==
  ASSUME IInv, Solo, NEW CONSTANT p \in Procs, DeleteErases(p)
  PROVE  Solo'
<1> SUFFICES ASSUME crossed = 0 PROVE Solo'
  BY SoloOnly DEF DeleteErases
<1>t. TypeOK /\ exists \subseteq Sessions
  BY DEF IInv, TypeOK
<1>1. ~ Idle(p) /\ Top(p) \in Frames /\ Top(p).op = "delete" /\ Top(p).pc = "erase"
  BY AtTop DEF DeleteErases
<1>2. PICK e : e = Top(p)
  OBVIOUS
<1>3. Top(p).op \in Removals
  BY <1>1 DEF Removals
<1>4. CallOK(e, None) /\ e \in Frames /\ e.s \in Sessions
  BY <1>1, <1>2, <1>3, RemovalTop
<1>5. e.s \in exists /\ children[e.s] = {}
  BY <1>1, <1>2, <1>4 DEF CallOK
<1>6. PICK q : /\ q \in Stacks /\ q = stack[p] /\ q # <<>> /\ Top(p) = q[Len(q)]
               /\ Removing(q) /\ Alone(p)
  BY <1>1, <1>3, SoloTop
<1>7. Chain(q) /\ e = q[Len(q)] /\ q[Len(q)].op = "delete"
  BY <1>1, <1>2, <1>6 DEF Removing
<1>8. PICK B : B = Out(q, LooseAt, Len(q) - 1)
  OBVIOUS
<1>9. TreeFor({e.s}, B \union {e.s})
  <2>1. Out(q, LostAt, Len(q)) = {e.s}
    <3>1. Out(q, LostAt, Len(q) - 1) = {}
      BY <1>6, <1>7, InnerOut
    <3> QED
      BY <1>1, <1>2, <1>6, <1>7, <3>1, OutTop DEF LostAt
  <2>2. Out(q, LooseAt, Len(q)) = B \union {e.s}
    <3>1. q[Len(q)].pc \in LooseAt
      BY <1>1, <1>2, <1>7 DEF LooseAt, LostAt
    <3> QED
      BY <1>6, <1>7, <1>8, <3>1, OutTop
  <2> QED
    BY <1>6, <2>1, <2>2 DEF Removing, TreeFor
<1>10. /\ exists' = exists \ {e.s} /\ listed' = listed /\ parent' = parent /\ children' = children
       /\ level' = level /\ overseer' = overseer /\ registered' = registered /\ born' = born
       /\ up' = up /\ Returns(p, TRUE)
  BY <1>2, <1>5, Zenon DEF DeleteErases
<1>11. PICK A : A = {}
  OBVIOUS
<1>12. A = Out(q, LostAt, Len(q) - 1)
  BY <1>6, <1>7, <1>11, InnerOut
<1>13. ASSUME NEW i \in 1 .. Len(q) - 1
       PROVE  /\ CallOK(q[i], q[i + 1].s) /\ q[i].pc \in {"children", "over", "cascade"}
              /\ q[i].op \in {"dispose", "delete"} /\ q[i].pc \in PlacesOf(q[i].op)
              /\ q[i].pc # "over" => q[i].s # e.s
              /\ Sinks(e.s, q[i]) /\ level[q[i].s] \in Nat /\ level[e.s] \in Nat
              /\ q[i + 1].s \in Sessions
  <2>1. q[i + 1] \in Frames
    <3>1. Len(q) \in Nat
      BY <1>6, StackParts
    <3>2. i + 1 \in 1 .. Len(q)
      BY <3>1, Between
    <3> QED
      BY <1>6, <3>2 DEF Stacks
  <2> QED
    BY <1>6, <1>7, <1>t, <2>1, Inner, Above, FrameParts
<1>14. ASSUME NEW c \in exists, parent[c] = e.s, c # e.s PROVE FALSE
  <2>1. c \in B /\ level[c] = level[e.s] + 1
    BY <1>5, <1>9, <1>14, <1>t, NoKidOf
  <2>2. PICK i \in 1 .. Len(q) - 1 : q[i].s = c /\ q[i].pc \in LooseAt
    BY <1>8, <2>1 DEF Out
  <2>3. level[c] <= level[e.s] /\ level[e.s] \in Nat
    BY <1>13, <2>2 DEF Sinks
  <2> QED
    BY <2>1, <2>3
<1>15. TreeFor(A, B)'
  <2>1. Lists(A, {})'
    BY <1>9, <1>10, <1>11 DEF TreeFor, TreeBut, Lists
  <2>2. Links(B, {})'
    <3> SUFFICES ASSUME NEW s \in exists \ {e.s}
                 PROVE  /\ parent[s] \in (exists \ {e.s}) \union {None}
                        /\ \A c \in Sessions : c \in children[s] <=> c \in (exists \ {e.s}) \ B /\ parent[c] = s
      BY <1>10 DEF Links
    <3>1. /\ parent[s] \in exists \union {None}
          /\ \A c \in Sessions : c \in children[s] <=> c \in exists \ (B \union {e.s}) /\ parent[c] = s
      BY <1>9 DEF TreeFor, TreeBut, Links
    <3>2. parent[s] # e.s
      BY <1>14
    <3> QED
      BY <3>1, <3>2
  <2>3. Leads({})'
    BY <1>9, <1>10 DEF TreeFor, TreeBut, Leads
  <2>4. Levels({})'
    <3> SUFFICES ASSUME NEW s \in exists \ {e.s} PROVE level[s] = LevelUnder(parent[s])'
      BY <1>10 DEF Levels, LevelUnder
    <3>1. parent[s] # e.s
      BY <1>14
    <3>2. level[s] = LevelUnder(parent[s])
      BY <1>9 DEF TreeFor, TreeBut, Levels
    <3> QED
      BY <1>10, <3>1, <3>2 DEF LevelUnder
  <2>5. Unborn'
    BY <1>9, <1>10 DEF TreeFor, TreeBut, Unborn
  <2> QED
    BY <2>1, <2>2, <2>3, <2>4, <2>5 DEF TreeFor, TreeBut
<1>16. CallsOK(q, Len(q) - 2)'
  <2> SUFFICES ASSUME NEW CONSTANT i \in 1 .. Len(q) - 2 PROVE CallOK(q[i], q[i + 1].s)'
    BY DEF CallsOK
  <2>1. i \in 1 .. Len(q) - 1
    <3>1. Len(q) \in Nat
      BY <1>6, StackParts
    <3> QED
      BY <3>1
  <2>2. q[i + 1].s # None
    BY <1>13, <2>1, NoneAssumption
  <2> QED
    BY <1>10, <1>13, <2>1, <2>2 DEF CallOK, PlacesOf
<1>17. CallerOK(q, TRUE)'
  <2> SUFFICES ASSUME Len(q) > 1 PROVE CallOK([q[Len(q) - 1] EXCEPT !.ok = TRUE], None)'
    BY DEF CallerOK
  <2>1. /\ Len(q) \in Nat /\ Len(q) - 1 \in 1 .. Len(q) - 1 /\ (Len(q) - 1) + 1 = Len(q)
        /\ Len(q) - 1 \in 1 .. Len(q)
    <3>1. Len(q) \in Nat
      BY <1>6, StackParts
    <3> QED
      BY <3>1
  <2>2. PICK h : h = q[Len(q) - 1]
    OBVIOUS
  <2>3. /\ CallOK(h, e.s) /\ h.pc \in {"children", "over", "cascade"} /\ h.op \in {"dispose", "delete"}
        /\ h.pc \in PlacesOf(h.op) /\ (h.pc # "over" => h.s # e.s) /\ h \in Frames
    <3>1. PICK i \in 1 .. Len(q) - 1 : i = Len(q) - 1
      BY <2>1
    <3>2. i \in 1 .. Len(q) /\ i + 1 = Len(q) /\ h = q[i]
      BY <2>1, <2>2, <3>1
    <3>3. h \in Frames
      BY <1>6, <3>2 DEF Stacks
    <3>4. q[i + 1].s = e.s
      BY <1>7, <3>2
    <3> QED
      BY <1>13, <3>2, <3>3, <3>4
  <2>4. q[Len(q)].op = Callee(h.pc)
    BY <1>7, <2>1, <2>2 DEF Chain, Adjoins
  <2>5. h.pc \in {"over", "cascade"}
    BY <1>7, <2>3, <2>4 DEF Callee
  <2>6. PICK f : f = [h EXCEPT !.ok = TRUE]
    OBVIOUS
  <2>7. /\ f.op = h.op /\ f.s = h.s /\ f.par = h.par /\ f.pc = h.pc /\ f.kids = h.kids
        /\ f.todo = h.todo /\ f.found = h.found
    BY <2>3, <2>6 DEF Frames
  <2>8. h.pc = "cascade" => h.todo = children[h.s] \ {None}
    <3> SUFFICES ASSUME h.pc = "cascade" PROVE h.todo = children[h.s] \ {None}
      OBVIOUS
    <3>1. h.op = "delete" /\ h.s \in exists /\ h.todo = children[h.s] \ {e.s}
      BY <2>3 DEF CallOK, PlacesOf
    <3>2. e.s \notin children[h.s]
      BY <1>9, <1>t, <3>1, KidOf
    <3>3. children[h.s] \subseteq Sessions
      BY <1>t, <3>1 DEF TypeOK
    <3> QED
      BY <3>1, <3>2, <3>3, NoneAssumption
  <2>9. h.pc = "over" => h.s = e.s
    BY <2>3, <1>4, NoneAssumption DEF CallOK
  <2>10. CallOK(f, None)'
    <3>1. h.op = "delete" => h.pc = "cascade"
      BY <2>3, <2>5 DEF PlacesOf
    <3>2. h.op = "dispose" => h.pc = "over"
      BY <2>3, <2>5 DEF PlacesOf
    <3> QED
      BY <1>10, <2>3, <2>5, <2>7, <2>8, <2>9, <3>1, <3>2 DEF CallOK
  <2> QED
    BY <2>2, <2>6, <2>10
<1> QED
  BY <1>6, <1>8, <1>10, <1>12, <1>15, <1>16, <1>17, RemovalReturns

-----------------------------------------------------------------------------
(* Disposals.                                                              *)

\* What is known of a disposal: the call, the records and the stack.
DisposalCall(p, pc) ==
  /\ ~ Idle(p) /\ Top(p) \in Frames /\ Top(p).op = "dispose" /\ Top(p).pc = pc
  /\ Top(p).op \in Removals /\ CallOK(Top(p), None) /\ Top(p).s \in born
  /\ Top(p).s \in Sessions /\ Top(p).par \in Sessions /\ Top(p).hard \in BOOLEAN
  /\ pc # "over" => Top(p).s \in exists /\ parent[Top(p).s] = Top(p).par
DisposalTree(p, pc) ==
  /\ pc \notin LooseAt => TreeFor({}, {})
  /\ pc \in LooseAt => TreeFor({}, {Top(p).s})
DisposalIn(p, q) ==
  /\ q = stack[p] /\ q # <<>> /\ Top(p) = q[Len(q)]
  /\ Removing(q) /\ Chain(q) /\ Alone(p)
  /\ Out(q, LostAt, Len(q) - 1) = {} /\ Out(q, LooseAt, Len(q) - 1) = {}
LEMMA DisposalTop ==
  ASSUME IInv, Solo, crossed = 0, NEW CONSTANT p \in Procs, NEW pc, At(p, "dispose", pc)
  PROVE  /\ DisposalCall(p, pc) /\ DisposalTree(p, pc)
         /\ \E q \in Stacks : DisposalIn(p, q)
<1>1. ~ Idle(p) /\ Top(p) \in Frames /\ Top(p).op = "dispose" /\ Top(p).pc = pc
  BY AtTop
<1>2. Top(p).op \in Removals
  BY <1>1 DEF Removals
<1>3. CallOK(Top(p), None)
  BY <1>1, <1>2, RemovalTop
<1>4. /\ Top(p).s \in Sessions /\ Top(p).par \in Sessions /\ Top(p).hard \in BOOLEAN
  BY <1>1, FrameParts
<1>5. PICK q \in Stacks : q = stack[p] /\ q # <<>> /\ Top(p) = q[Len(q)] /\ Removing(q) /\ Alone(p)
  BY <1>1, <1>2, SoloTop
<1>6. Chain(q) /\ q[Len(q)].op = "dispose" /\ q[Len(q)].pc = pc
  BY <1>1, <1>5 DEF Removing
<1>7. Out(q, LostAt, Len(q) - 1) = {} /\ Out(q, LooseAt, Len(q) - 1) = {}
  BY <1>5, <1>6, InnerOut
<1>8. pc \notin LostAt
  BY <1>1, <1>3 DEF CallOK, PlacesOf, LostAt
<1>9. Out(q, LostAt, Len(q)) = {}
  BY <1>5, <1>6, <1>7, <1>8, OutAbove
<1>10. pc \notin LooseAt => TreeFor({}, {})
  <2> SUFFICES ASSUME pc \notin LooseAt PROVE TreeFor({}, {})
    OBVIOUS
  <2>1. Out(q, LooseAt, Len(q)) = {}
    BY <1>5, <1>6, <1>7, OutAbove
  <2> QED
    BY <1>5, <1>9, <2>1 DEF Removing, TreeFor
<1>11. pc \in LooseAt => TreeFor({}, {Top(p).s})
  <2> SUFFICES ASSUME pc \in LooseAt PROVE TreeFor({}, {Top(p).s})
    OBVIOUS
  <2>1. Out(q, LooseAt, Len(q)) = {} \union {q[Len(q)].s}
    BY <1>5, <1>6, <1>7, OutTop
  <2>2. Out(q, LooseAt, Len(q)) = {Top(p).s}
    BY <1>5, <2>1
  <2> QED
    BY <1>5, <1>9, <2>2 DEF Removing, TreeFor
<1>12. Top(p).s \in born /\ (pc # "over" => Top(p).s \in exists /\ parent[Top(p).s] = Top(p).par)
  BY <1>1, <1>3 DEF CallOK
<1>13. DisposalCall(p, pc)
  BY <1>1, <1>2, <1>3, <1>4, <1>12 DEF DisposalCall
<1>14. DisposalTree(p, pc)
  BY <1>10, <1>11 DEF DisposalTree
<1>15. DisposalIn(p, q)
  BY <1>5, <1>6, <1>7 DEF DisposalIn
<1> QED
  BY <1>13, <1>14, <1>15

\* A disposal is called by one that works through the children.
LEMMA DisposalInner ==
  ASSUME NEW CONSTANT q \in Stacks, q # <<>>, Chain(q), q[Len(q)].op = "dispose",
         exists' = exists, parent' = parent, born' = born
  PROVE  \A i \in 1 .. Len(q) - 1 : /\ CallOK(q[i], q[i + 1].s)'
                                    /\ \A ok \in BOOLEAN : CallOK([q[i] EXCEPT !.ok = ok], None)'
<1> SUFFICES ASSUME NEW CONSTANT i \in 1 .. Len(q) - 1, NEW CONSTANT ok \in BOOLEAN
             PROVE  CallOK(q[i], q[i + 1].s)' /\ CallOK([q[i] EXCEPT !.ok = ok], None)'
  OBVIOUS
<1>1. CallOK(q[i], q[i + 1].s) /\ q[i].op = "dispose" /\ q[i].pc = "children"
  BY Inner
<1>2. q[i] \in Frames
  <2>1. Len(q) \in Nat
    BY StackParts
  <2>2. i \in 1 .. Len(q)
    BY <2>1, Between
  <2> QED
    BY <2>2 DEF Stacks
<1>3. PICK f : f = [q[i] EXCEPT !.ok = ok]
  OBVIOUS
<1>4. f.op = q[i].op /\ f.pc = q[i].pc /\ f.s = q[i].s /\ f.par = q[i].par
  BY <1>2, <1>3 DEF Frames
<1>5. CallOK(f, None)'
  BY <1>1, <1>4 DEF CallOK
<1>6. CallOK(q[i], q[i + 1].s)'
  BY <1>1 DEF CallOK
<1> QED
  BY <1>3, <1>5, <1>6

\* The last but one call of a stack.
LEMMA LastButOne ==
  ASSUME NEW q \in Stacks, Len(q) > 1
  PROVE  Len(q) - 1 \in 1 .. Len(q) - 1 /\ (Len(q) - 1) + 1 = Len(q)
<1>1. Len(q) \in Nat
  BY DEF Stacks
<1> QED
  BY <1>1

\* The part of a disposal that goes on or ends without an effect.
LEMMA DisposalMoves ==
  ASSUME IInv, Solo, crossed = 0, NEW CONSTANT p \in Procs, NEW pc, At(p, "dispose", pc),
         NEW CONSTANT f, Same(f, Top(p)), Goes(p, f), f.par = Top(p).par,
         pc # "over", f.pc # "over", f.pc \in PlacesOf("dispose"), born' = born,
         exists' = exists, parent' = parent, level' = level, listed' = listed, registered' = registered,
         f.pc = "unlink" => f.kids = children'[f.par] \ {f.s},
         f.pc = "unmark" => children'[f.par] = {},
         f.pc \notin LooseAt => TreeFor({}, {})',
         f.pc \in LooseAt => TreeFor({}, {f.s})'
  PROVE  Solo'
<1>1. /\ ~ Idle(p) /\ Top(p).op = "dispose" /\ Top(p).op \in Removals /\ CallOK(Top(p), None)
      /\ Top(p).s \in exists /\ parent[Top(p).s] = Top(p).par /\ Top(p).s \in born
  BY DisposalTop DEF DisposalCall
<1>2. PICK q \in Stacks : /\ q = stack[p] /\ q # <<>> /\ Top(p) = q[Len(q)]
                          /\ Removing(q) /\ Chain(q) /\ Alone(p)
                          /\ Out(q, LostAt, Len(q) - 1) = {} /\ Out(q, LooseAt, Len(q) - 1) = {}
  BY DisposalTop DEF DisposalIn
<1>3. f.op = "dispose" /\ f.s = Top(p).s
  BY <1>1 DEF Same
<1>4. CallOK(f, None)'
  BY <1>1, <1>3 DEF CallOK, PlacesOf, Removals
<1>5. CallsOK(q, Len(q) - 1)'
  BY <1>1, <1>2, DisposalInner DEF CallsOK
<1>6. PICK A, B : A = {} /\ B = IF f.pc \in LooseAt THEN {f.s} ELSE {}
  OBVIOUS
<1>7. A = OutBy(q, f, LostAt) /\ B = OutBy(q, f, LooseAt)
  <2>1. f.pc \notin LostAt
    BY DEF PlacesOf, LostAt
  <2> QED
    BY <1>2, <1>6, <2>1 DEF OutBy
<1>8. TreeFor(A, B)'
  BY <1>6
<1> QED
  BY <1>2, <1>4, <1>5, <1>7, <1>8, RemovalGoes

\* Nothing changes but the calls.
LEMMA TreeForKept ==
  ASSUME UNCHANGED <<born, treeVars>>, NEW CONSTANT A, NEW CONSTANT B, TreeFor(A, B)
  PROVE  TreeFor(A, B)'
BY TreeKept DEF TreeFor

LEMMA DisposeChildSolo ==
  ASSUME IInv, Solo, NEW CONSTANT p \in Procs, DisposeChild(p)
  PROVE  Solo'
<1> SUFFICES ASSUME crossed = 0 PROVE Solo'
  BY SoloOnly DEF DisposeChild
<1>t. TypeOK
  BY DEF IInv
<1>0. At(p, "dispose", "children")
  BY DEF DisposeChild
<1>1. /\ ~ Idle(p) /\ Top(p) \in Frames /\ Top(p).op = "dispose" /\ Top(p).pc = "children"
      /\ Top(p).op \in Removals /\ CallOK(Top(p), None)
      /\ Top(p).s \in Sessions /\ Top(p).hard \in BOOLEAN /\ Top(p).s \in exists
  BY <1>0, DisposalTop DEF DisposalCall
<1>2. TreeFor({}, {})
  <2>1. "children" \notin LooseAt
    BY DEF LooseAt, LostAt
  <2>2. DisposalTree(p, "children")
    BY <1>0, DisposalTop
  <2> QED
    BY <2>1, <2>2 DEF DisposalTree
<1>3. PICK e : e = Top(p)
  OBVIOUS
<1>4. PICK c \in e.todo :
        IF c \notin exists THEN Continues(p, [e EXCEPT !.todo = @ \ {c}])
        ELSE IF e.s \in exists /\ c \in children[e.s]
             THEN Calls(p, [e EXCEPT !.todo = @ \ {c}], DisposeCall(e.s, c, e.hard))
             ELSE Raises(p)
  BY <1>3, Zenon DEF DisposeChild
<1>5. UNCHANGED <<born, treeVars>> /\ up' = up
  BY DEF DisposeChild
<1>6. PICK f : f = [e EXCEPT !.todo = @ \ {c}]
  OBVIOUS
<1>7. Same(f, Top(p)) /\ f.pc = "children" /\ f.par = e.par /\ f.op = "dispose" /\ f.s = e.s
  <2>1. f = [e EXCEPT !.todo = e.todo \ {c}] /\ e.todo \ {c} \in SUBSET Todo(e.op)
    BY <1>1, <1>3, <1>6 DEF Frames
  <2>2. Same(f, e)
    BY <1>1, <1>3, <2>1, WithTodo
  <2>3. f.pc = "children" /\ f.par = e.par
    BY <1>1, <1>3, <2>1 DEF Frames
  <2> QED
    BY <1>1, <1>3, <2>2, <2>3 DEF Same
<1>8. CallOK(f, None) /\ \A x : CallOK(f, x)
  BY <1>1, <1>3, <1>7 DEF CallOK
<1>9. CASE c \notin exists
  <2>1. Goes(p, f)
    BY <1>4, <1>6, <1>9 DEF Continues
  <2>2. CallOK(f, None)'
    BY <1>5, <1>8, SameRecords
  <2> QED
    BY <1>1, <1>5, <1>7, <2>1, <2>2, RemovalMoves
<1>10. CASE c \in exists /\ c \in children[e.s]
  <2>1. PICK g : g = DisposeCall(e.s, c, e.hard)
    OBVIOUS
  <2>2. Calls(p, f, g)
    BY <1>1, <1>3, <1>4, <1>6, <1>10, <2>1
  <2>3. parent[c] = e.s /\ level[c] = level[e.s] + 1 /\ level[e.s] \in Nat
    BY <1>1, <1>2, <1>3, <1>10, <1>t, KidOf
  <2>4. g \in Frames /\ CallOK(g, None) /\ g.op = "dispose" /\ g.s = c /\ g.pc = "children"
    BY <1>1, <1>3, <1>10, <1>t, <2>1, <2>3, DisposeCallOK
  <2>5. MayCall(f, g)
    BY <1>7, <2>3, <2>4 DEF MayCall, Callee, Outer, Sinks
  <2>6. CallOK(f, g.s)' /\ CallOK(g, None)'
    BY <1>5, <1>8, <2>4, SameRecords
  <2>7. g.pc \notin LooseAt
    BY <2>4 DEF LooseAt, LostAt
  <2> QED
    BY <1>1, <1>5, <1>7, <2>2, <2>4, <2>5, <2>6, <2>7, RemovalAsks
<1>11. CASE c \in exists /\ c \notin children[e.s]
  <2>1. stack' = [stack EXCEPT ![p] = <<>>]
    BY <1>4, <1>11 DEF Raises
  <2>2. Alone(p)
    BY <1>1, SoloTop
  <2>3. Chain(<<>>)' /\ Out(<<>>, LostAt, Len(<<>>)) = {} /\ Out(<<>>, LooseAt, Len(<<>>)) = {}
    <3>1. \A i \in 1 .. 0 : FALSE
      OBVIOUS
    <3>2. DOMAIN <<>> = 1 .. 0 /\ \A i \in 1 .. 0 - 1 : FALSE
      OBVIOUS
    <3> QED
      BY <3>1, <3>2, NoCalls DEF Chain, Nests, Adjoins, Descends, Out
  <2>4. TreeFor({}, {})'
    BY <1>2, <1>5, TreeForKept
  <2>5. Removing(<<>>)'
    BY <2>3, <2>4 DEF Removing, TreeFor
  <2>6. StackType
    BY Parts
  <2> QED
    BY <2>1, <2>2, <2>5, <2>6, SoloBy DEF Sound
<1> QED
  BY <1>9, <1>10, <1>11

LEMMA DisposeEndsSolo ==
  ASSUME IInv, Solo, NEW CONSTANT p \in Procs, DisposeEnds(p)
  PROVE  Solo'
<1> SUFFICES ASSUME crossed = 0 PROVE Solo'
  BY SoloOnly DEF DisposeEnds
<1>t. TypeOK
  BY DEF IInv
<1>0. At(p, "dispose", "children")
  BY DEF DisposeEnds
<1>1. /\ ~ Idle(p) /\ Top(p) \in Frames /\ Top(p).op = "dispose" /\ Top(p).pc = "children"
      /\ Top(p).op \in Removals /\ CallOK(Top(p), None) /\ Top(p).s \in Sessions /\ Top(p).s \in born
  BY <1>0, DisposalTop DEF DisposalCall
<1>2. PICK e : e = Top(p)
  OBVIOUS
<1>3. PICK f : f = [e EXCEPT !.pc = "ended"]
  OBVIOUS
<1>4. /\ Same(f, Top(p)) /\ f.pc = "ended" /\ f.par = e.par /\ f.op = "dispose" /\ f.s = e.s
  <2>1. Same(f, e)
    BY <1>1, <1>2, <1>3, AtPc DEF Places
  <2> QED
    BY <1>1, <1>2, <1>3, <2>1 DEF Same, Frames
<1>5. PICK g : g = EndCall("terminate", e.s)
  OBVIOUS
<1>6. Calls(p, f, g) /\ UNCHANGED <<born, treeVars>> /\ up' = up /\ born' = born
  BY <1>2, <1>3, <1>5 DEF DisposeEnds
<1>7. g \in Frames /\ CallOK(g, None)' /\ g.op = "terminate" /\ g.s = e.s /\ g.pc \notin LooseAt
  BY <1>1, <1>2, <1>5, <1>6, <1>t, EndCallOK
<1>8. CallOK(f, g.s)
  BY <1>1, <1>2, <1>4 DEF CallOK, PlacesOf
<1>9. CallOK(f, g.s)'
  BY <1>6, <1>8, SameRecords
<1>10. MayCall(f, g)
  BY <1>4, <1>7 DEF MayCall, Callee, Outer
<1> QED
  BY <1>1, <1>4, <1>6, <1>7, <1>9, <1>10, RemovalAsks DEF LooseAt, LostAt

LEMMA DisposeKeepsSolo ==
  ASSUME IInv, Solo, NEW CONSTANT p \in Procs, DisposeKeeps(p)
  PROVE  Solo'
<1> SUFFICES ASSUME crossed = 0 PROVE Solo'
  BY SoloOnly DEF DisposeKeeps
<1>0. At(p, "dispose", "ended")
  BY DEF DisposeKeeps
<1>1. ~ Idle(p) /\ Top(p).op \in Removals /\ Top(p).pc \notin LooseAt /\ Top(p).op = "dispose"
  BY <1>0, DisposalTop DEF DisposalCall, LooseAt, LostAt
<1>2. Returns(p, TRUE) /\ UNCHANGED <<born, treeVars>> /\ born' = born /\ exists' = exists /\ parent' = parent
  BY DEF DisposeKeeps, treeVars
<1>3. ASSUME NEW CONSTANT q \in Stacks, q = stack[p], Removing(q), Len(q) > 1
      PROVE  CallOK([q[Len(q) - 1] EXCEPT !.ok = TRUE], None)'
  <2>1. q # <<>> /\ q[Len(q)].op = "dispose" /\ Chain(q)
    BY <1>1, <1>3, TopIsCall, Parts DEF Removing
  <2>2. Len(q) - 1 \in 1 .. Len(q) - 1
    BY <1>3, LastButOne
  <2> QED
    BY <1>2, <2>1, <2>2, DisposalInner
<1> QED
  BY <1>1, <1>2, <1>3, RemovalAnswers

\* A tree in which s is in no list may do without s in the list of its parent.
LEMMA LoosenTree ==
  ASSUME NEW s, TreeFor({}, {}), \A x \in exists : s \notin children[x]
  PROVE  TreeFor({}, {s})
BY DEF TreeFor, TreeBut, Links

LEMMA DisposeUnlinksSolo ==
  ASSUME IInv, Solo, NEW CONSTANT p \in Procs, DisposeUnlinks(p)
  PROVE  Solo'
<1> SUFFICES ASSUME crossed = 0 PROVE Solo'
  BY SoloOnly DEF DisposeUnlinks
<1>t. TypeOK
  BY DEF IInv
<1>0. At(p, "dispose", "ended")
  BY DEF DisposeUnlinks
<1>1. /\ Top(p) \in Frames /\ Top(p).op = "dispose" /\ Top(p).pc = "ended"
      /\ Top(p).s \in Sessions /\ Top(p).par \in Sessions
      /\ Top(p).s \in exists /\ parent[Top(p).s] = Top(p).par
  BY <1>0, DisposalTop DEF DisposalCall
<1>2. TreeFor({}, {})
  <2>1. "ended" \notin LooseAt
    BY DEF LooseAt, LostAt
  <2>2. DisposalTree(p, "ended")
    BY <1>0, DisposalTop
  <2> QED
    BY <2>1, <2>2 DEF DisposalTree
<1>3. PICK e : e = Top(p)
  OBVIOUS
<1>4. PICK kids : kids = children[e.par] \ {e.s}
  OBVIOUS
<1>5. kids \in SUBSET Sessions /\ e.par \in Ons
  BY <1>1, <1>3, <1>4, <1>t DEF TypeOK, Ons
<1>6. UNCHANGED <<born, treeVars>>
  BY DEF DisposeUnlinks
<1>7. /\ born' = born /\ exists' = exists /\ parent' = parent /\ level' = level /\ listed' = listed
      /\ registered' = registered /\ children' = children
  BY <1>6 DEF treeVars
<1>8. ASSUME e.s \notin children[e.par] PROVE TreeFor({}, {e.s})'
  <2>1. \A x \in exists : e.s \notin children[x]
    BY <1>1, <1>2, <1>3, <1>8 DEF TreeFor, TreeBut, Links
  <2> QED
    BY <1>2, <1>6, <2>1, LoosenTree, TreeForKept
<1>9. CASE e.s \in children[e.par]
  <2>1. PICK f : f = [e EXCEPT !.pc = "unlink", !.on = e.par, !.kids = kids]
    OBVIOUS
  <2>2. Goes(p, f)
    BY <1>3, <1>4, <1>9, <2>1 DEF DisposeUnlinks, Continues
  <2>3. Same(f, Top(p))
    <3>1. "unlink" \in Places
      BY DEF Places
    <3>2. f = Edited(e, "unlink", e.par, kids)
      BY <2>1 DEF Edited
    <3> QED
      BY <1>1, <1>3, <1>5, <3>1, <3>2, AtPcOnKids
  <2>4. f.pc = "unlink" /\ f.par = e.par /\ f.kids = kids /\ f.s = e.s
    BY <1>1, <1>3, <2>1 DEF Frames
  <2>5. f.pc \notin LooseAt /\ f.pc \in PlacesOf("dispose") /\ f.pc # "over"
    BY <2>4 DEF LooseAt, LostAt, PlacesOf
  <2>6. TreeFor({}, {})'
    BY <1>2, <1>6, TreeForKept
  <2>7. f.par = Top(p).par /\ f.kids = children'[f.par] \ {f.s} /\ f.pc # "unmark"
    BY <1>3, <1>4, <1>7, <2>4
  <2>8. /\ f.pc = "unlink" => f.kids = children'[f.par] \ {f.s}
        /\ f.pc = "unmark" => children'[f.par] = {}
        /\ f.pc \notin LooseAt => TreeFor({}, {})'
        /\ f.pc \in LooseAt => TreeFor({}, {f.s})'
        /\ "ended" # "over"
    BY <2>5, <2>6, <2>7
  <2> QED
    BY <1>0, <1>7, <2>2, <2>3, <2>5, <2>7, <2>8, DisposalMoves
<1>10. CASE e.s \notin children[e.par] /\ kids = {}
  <2>1. PICK f : f = [e EXCEPT !.pc = "unmark", !.on = e.par]
    OBVIOUS
  <2>2. Goes(p, f)
    BY <1>3, <1>4, <1>10, <2>1 DEF DisposeUnlinks, Continues
  <2>3. Same(f, Top(p))
    BY <1>1, <1>3, <1>5, <2>1, AtPcOn DEF Places
  <2>4. f.pc = "unmark" /\ f.par = e.par /\ f.s = e.s
    BY <1>1, <1>3, <2>1 DEF Frames
  <2>5. f.pc \in LooseAt /\ f.pc \in PlacesOf("dispose") /\ f.pc # "over"
    BY <2>4 DEF LooseAt, PlacesOf
  <2>6. TreeFor({}, {f.s})'
    BY <1>8, <1>10, <2>4
  <2>7. f.par = Top(p).par /\ children'[f.par] = {} /\ f.pc # "unlink"
    BY <1>3, <1>4, <1>7, <1>10, <2>4
  <2> QED
    BY <1>0, <1>7, <2>2, <2>3, <2>5, <2>6, <2>7, DisposalMoves
<1>11. CASE e.s \notin children[e.par] /\ kids # {}
  <2>1. PICK f : f = [e EXCEPT !.pc = "remove"]
    OBVIOUS
  <2>2. Goes(p, f)
    BY <1>3, <1>4, <1>11, <2>1 DEF DisposeUnlinks, Continues
  <2>3. Same(f, Top(p))
    BY <1>1, <1>3, <2>1, AtPc DEF Places
  <2>4. f.pc = "remove" /\ f.par = e.par /\ f.s = e.s
    BY <1>1, <1>3, <2>1 DEF Frames
  <2>5. f.pc \in LooseAt /\ f.pc \in PlacesOf("dispose") /\ f.pc # "over" /\ f.pc # "unlink" /\ f.pc # "unmark"
    BY <2>4 DEF LooseAt, PlacesOf
  <2>6. TreeFor({}, {f.s})'
    BY <1>8, <1>11, <2>4
  <2> QED
    BY <1>0, <1>3, <1>7, <2>2, <2>3, <2>4, <2>5, <2>6, DisposalMoves
<1> QED
  BY <1>9, <1>10, <1>11

LEMMA DisposeWritesSolo ==
  ASSUME IInv, Solo, NEW CONSTANT p \in Procs, DisposeWrites(p)
  PROVE  Solo'
<1> SUFFICES ASSUME crossed = 0 PROVE Solo'
  BY SoloOnly DEF DisposeWrites
<1>t. TypeOK /\ exists \subseteq Sessions
  BY DEF IInv, TypeOK
<1>0. At(p, "dispose", "unlink")
  BY DEF DisposeWrites
<1>1. /\ Top(p) \in Frames /\ Top(p).op = "dispose" /\ Top(p).pc = "unlink"
      /\ Top(p).s \in Sessions /\ Top(p).par \in Sessions
      /\ Top(p).s \in exists /\ parent[Top(p).s] = Top(p).par /\ CallOK(Top(p), None)
  BY <1>0, DisposalTop DEF DisposalCall
<1>2. TreeFor({}, {})
  <2>1. "unlink" \notin LooseAt
    BY DEF LooseAt, LostAt
  <2>2. DisposalTree(p, "unlink")
    BY <1>0, DisposalTop
  <2> QED
    BY <2>1, <2>2 DEF DisposalTree
<1>3. PICK e : e = Top(p)
  OBVIOUS
<1>4. e.kids = children[e.par] \ {e.s} /\ e.par \in exists
  <2>1. e.kids = children[e.par] \ {e.s}
    BY <1>1, <1>3 DEF CallOK
  <2>2. e.par \in exists \union {None}
    BY <1>1, <1>2, <1>3 DEF TreeFor, TreeBut, Links
  <2> QED
    BY <1>1, <1>3, <2>1, <2>2, NoneAssumption
<1>5. /\ born' = born /\ exists' = exists /\ parent' = parent /\ level' = level /\ listed' = listed
      /\ registered' = registered /\ overseer' = overseer
      /\ children' = [children EXCEPT ![e.par] = e.kids]
  BY <1>3, <1>4 DEF DisposeWrites, SetChildren
<1>6. \A x \in Sessions : children'[x] = IF x = e.par THEN children[x] \ {e.s} ELSE children[x]
  BY <1>4, <1>5, <1>t DEF TypeOK
<1>7. TreeFor({}, {e.s})'
  <2>1. Lists({}, {})'
    BY <1>2, <1>5 DEF TreeFor, TreeBut, Lists
  <2>2. Links({e.s}, {})'
    <3> SUFFICES ASSUME NEW x \in exists
                 PROVE  /\ parent[x] \in exists \union {None}
                        /\ \A c \in Sessions : c \in children'[x] <=> c \in exists \ {e.s} /\ parent[c] = x
      BY <1>5 DEF Links
    <3>1. /\ parent[x] \in exists \union {None}
          /\ \A c \in Sessions : c \in children[x] <=> c \in exists /\ parent[c] = x
      BY <1>2 DEF TreeFor, TreeBut, Links
    <3> QED
      BY <1>1, <1>3, <1>6, <1>t, <3>1
  <2>3. Leads({})'
    BY <1>2, <1>5, <1>6, <1>t DEF TreeFor, TreeBut, Leads
  <2>4. Levels({})'
    BY <1>2, <1>5 DEF TreeFor, TreeBut, Levels, LevelUnder
  <2>5. Unborn'
    BY <1>2, <1>5, <1>6 DEF TreeFor, TreeBut, Unborn
  <2> QED
    BY <2>1, <2>2, <2>3, <2>4, <2>5 DEF TreeFor, TreeBut
<1>8. CASE e.kids = {}
  <2>1. PICK f : f = [e EXCEPT !.pc = "unmark"]
    OBVIOUS
  <2>2. Goes(p, f)
    BY <1>3, <1>8, <2>1 DEF DisposeWrites, Continues
  <2>3. Same(f, Top(p))
    BY <1>1, <1>3, <2>1, AtPc DEF Places
  <2>4. f.pc = "unmark" /\ f.par = e.par /\ f.s = e.s
    BY <1>1, <1>3, <2>1 DEF Frames
  <2>5. f.pc \in LooseAt /\ f.pc \in PlacesOf("dispose") /\ f.pc # "over" /\ f.pc # "unlink"
    BY <2>4 DEF LooseAt, PlacesOf
  <2>6. TreeFor({}, {f.s})' /\ f.par = Top(p).par /\ children'[f.par] = {}
    BY <1>1, <1>3, <1>4, <1>6, <1>7, <1>8, <2>4
  <2> QED
    BY <1>0, <1>5, <2>2, <2>3, <2>5, <2>6, DisposalMoves
<1>9. CASE e.kids # {}
  <2>1. PICK f : f = [e EXCEPT !.pc = "remove", !.on = None]
    OBVIOUS
  <2>2. Goes(p, f)
    BY <1>3, <1>9, <2>1 DEF DisposeWrites, Continues
  <2>3. Same(f, Top(p))
    BY <1>1, <1>3, <2>1, AtPcOn DEF Places, Ons
  <2>4. f.pc = "remove" /\ f.par = e.par /\ f.s = e.s
    BY <1>1, <1>3, <2>1 DEF Frames
  <2>5. f.pc \in LooseAt /\ f.pc \in PlacesOf("dispose") /\ f.pc # "over" /\ f.pc # "unlink" /\ f.pc # "unmark"
    BY <2>4 DEF LooseAt, PlacesOf
  <2>6. TreeFor({}, {f.s})' /\ f.par = Top(p).par
    BY <1>3, <1>7, <2>4
  <2> QED
    BY <1>0, <1>5, <2>2, <2>3, <2>5, <2>6, DisposalMoves
<1> QED
  BY <1>8, <1>9

LEMMA DisposeUnmarksSolo ==
  ASSUME IInv, Solo, NEW CONSTANT p \in Procs, DisposeUnmarks(p)
  PROVE  Solo'
<1> SUFFICES ASSUME crossed = 0 PROVE Solo'
  BY SoloOnly DEF DisposeUnmarks
<1>t. TypeOK /\ exists \subseteq Sessions
  BY DEF IInv, TypeOK
<1>0. At(p, "dispose", "unmark")
  BY DEF DisposeUnmarks
<1>1. Top(p) \in Frames /\ Top(p).op = "dispose" /\ Top(p).pc = "unmark" /\ CallOK(Top(p), None)
  BY <1>0, DisposalTop DEF DisposalCall
<1>3. PICK e : e = Top(p)
  OBVIOUS
<1>2. TreeFor({}, {e.s})
  <2>1. "unmark" \in LooseAt
    BY DEF LooseAt
  <2>2. DisposalTree(p, "unmark")
    BY <1>0, DisposalTop
  <2> QED
    BY <1>3, <2>1, <2>2 DEF DisposalTree
<1>4. children[e.par] = {}
  BY <1>1, <1>3 DEF CallOK
<1>5. /\ born' = born /\ exists' = exists /\ parent' = parent /\ level' = level /\ listed' = listed
      /\ registered' = registered /\ children' = children /\ overseer' = overseer \ {e.par}
  BY <1>3 DEF DisposeUnmarks, ResetOverseer
<1>6. TreeFor({}, {e.s})'
  <2>1. Lists({}, {})' /\ Links({e.s}, {})' /\ Unborn'
    BY <1>2, <1>5 DEF TreeFor, TreeBut, Lists, Links, Unborn
  <2>2. Leads({})'
    BY <1>2, <1>4, <1>5 DEF TreeFor, TreeBut, Leads
  <2>3. Levels({})'
    BY <1>2, <1>5 DEF TreeFor, TreeBut, Levels, LevelUnder
  <2> QED
    BY <2>1, <2>2, <2>3 DEF TreeFor, TreeBut
<1>7. PICK f : f = [e EXCEPT !.pc = "remove", !.on = None]
  OBVIOUS
<1>8. Goes(p, f)
  BY <1>3, <1>7 DEF DisposeUnmarks, Continues
<1>9. Same(f, Top(p))
  BY <1>1, <1>3, <1>7, AtPcOn DEF Places, Ons
<1>10. f.pc = "remove" /\ f.par = e.par /\ f.s = e.s
  BY <1>1, <1>3, <1>7 DEF Frames
<1>11. f.pc \in LooseAt /\ f.pc \in PlacesOf("dispose") /\ f.pc # "over" /\ f.pc # "unlink" /\ f.pc # "unmark"
  BY <1>10 DEF LooseAt, PlacesOf
<1>12. TreeFor({}, {f.s})' /\ f.par = Top(p).par
  BY <1>3, <1>6, <1>10
<1> QED
  BY <1>0, <1>5, <1>8, <1>9, <1>11, <1>12, DisposalMoves

LEMMA DisposeDeletesSolo ==
  ASSUME IInv, Solo, NEW CONSTANT p \in Procs, DisposeDeletes(p)
  PROVE  Solo'
<1> SUFFICES ASSUME crossed = 0 PROVE Solo'
  BY SoloOnly DEF DisposeDeletes
<1>t. TypeOK
  BY DEF IInv
<1>0. At(p, "dispose", "remove")
  BY DEF DisposeDeletes
<1>1. /\ ~ Idle(p) /\ Top(p) \in Frames /\ Top(p).op = "dispose" /\ Top(p).pc = "remove"
      /\ Top(p).op \in Removals /\ CallOK(Top(p), None)
      /\ Top(p).s \in Sessions /\ Top(p).s \in born /\ Top(p).s \in exists
  BY <1>0, DisposalTop DEF DisposalCall
<1>2. PICK e : e = Top(p)
  OBVIOUS
<1>3. PICK f : f = [e EXCEPT !.pc = "over"]
  OBVIOUS
<1>4. /\ Same(f, Top(p)) /\ f.pc = "over" /\ f.par = e.par /\ f.op = "dispose" /\ f.s = e.s
  <2>1. Same(f, e)
    BY <1>1, <1>2, <1>3, AtPc DEF Places
  <2> QED
    BY <1>1, <1>2, <1>3, <2>1 DEF Same, Frames
<1>5. PICK g : g = DeleteCall(e.s)
  OBVIOUS
<1>6. Calls(p, f, g) /\ UNCHANGED <<born, treeVars>> /\ up' = up
  BY <1>2, <1>3, <1>5 DEF DisposeDeletes
<1>7. g \in Frames /\ CallOK(g, None) /\ g.op = "delete" /\ g.s = e.s /\ g.pc = "cascade"
  BY <1>1, <1>2, <1>5, <1>t, DeleteCallOK
<1>8. CallOK(f, g.s)
  BY <1>1, <1>2, <1>4, <1>7, NoneAssumption DEF CallOK, PlacesOf
<1>9. CallOK(f, g.s)' /\ CallOK(g, None)'
  BY <1>6, <1>7, <1>8, SameRecords
<1>10. MayCall(f, g)
  <2>1. level[e.s] \in Nat
    BY <1>1, <1>2, <1>t DEF TypeOK
  <2> QED
    BY <1>4, <1>7, <2>1 DEF MayCall, Callee, Outer, Sinks
<1>11. g.pc \notin LooseAt /\ f.pc \in LooseAt /\ Top(p).pc \in LooseAt /\ f.pc \notin LostAt /\ Top(p).pc \notin LostAt
  BY <1>1, <1>4, <1>7 DEF LooseAt, LostAt
<1> QED
  BY <1>1, <1>4, <1>6, <1>7, <1>9, <1>10, <1>11, RemovalAsks

LEMMA DisposeReturnsSolo ==
  ASSUME IInv, Solo, NEW CONSTANT p \in Procs, DisposeReturns(p)
  PROVE  Solo'
<1> SUFFICES ASSUME crossed = 0 PROVE Solo'
  BY SoloOnly DEF DisposeReturns
<1>t. TypeOK
  BY DEF IInv
<1>0. At(p, "dispose", "over")
  BY DEF DisposeReturns
<1>1. Top(p).op = "dispose" /\ Top(p).pc = "over" /\ CallOK(Top(p), None)
  BY <1>0, DisposalTop DEF DisposalCall
<1>2. PICK q \in Stacks : DisposalIn(p, q)
  BY <1>0, DisposalTop
<1>3. /\ q = stack[p] /\ q # <<>> /\ Top(p) = q[Len(q)] /\ Removing(q) /\ Chain(q) /\ Alone(p)
      /\ Out(q, LostAt, Len(q) - 1) = {} /\ Out(q, LooseAt, Len(q) - 1) = {}
  BY <1>2 DEF DisposalIn
<1>4. Returns(p, TRUE) /\ UNCHANGED <<born, treeVars>> /\ born' = born /\ exists' = exists
      /\ parent' = parent /\ level' = level
  BY DEF DisposeReturns, treeVars
<1>5. PICK s : s = Top(p).s
  OBVIOUS
<1>6. TreeFor({}, {s}) /\ s \notin exists
  <2>1. "over" \in LooseAt
    BY DEF LooseAt
  <2>2. DisposalTree(p, "over")
    BY <1>0, DisposalTop
  <2> QED
    BY <1>1, <1>5, <2>1, <2>2 DEF DisposalTree, CallOK
<1>7. TreeFor({}, {})
  BY <1>6 DEF TreeFor, TreeBut, Links
<1>8. TreeFor({}, {})'
  BY <1>4, <1>7, TreeForKept
<1>9. \A i \in 1 .. Len(q) - 1 : /\ CallOK(q[i], q[i + 1].s)'
                                 /\ \A ok \in BOOLEAN : CallOK([q[i] EXCEPT !.ok = ok], None)'
  BY <1>1, <1>3, <1>4, DisposalInner
<1>10. CallsOK(q, Len(q) - 2)'
  <2>1. Len(q) \in Nat
    BY <1>3, StackParts
  <2>2. \A i \in 1 .. Len(q) - 2 : i \in 1 .. Len(q) - 1
    BY <2>1
  <2> QED
    BY <1>9, <2>2 DEF CallsOK
<1>11. CallerOK(q, TRUE)'
  BY <1>9, LastButOne DEF CallerOK
<1>12. PICK A : A = {}
  OBVIOUS
<1> QED
  BY <1>3, <1>4, <1>8, <1>10, <1>11, <1>12, RemovalReturns

-----------------------------------------------------------------------------
(* Steps beside the operation at work.                                     *)

LEMMA SoloKept ==
  ASSUME IInv, Solo, stack' = stack, crossed' = crossed \/ crossed' # 0,
         \A q \in Stacks : Sound(q) => Sound(q)'
  PROVE  Solo'
<1> SUFFICES ASSUME crossed = 0
             PROVE  /\ (\A x \in Procs : Idle(x)) => Removing(<<>>)'
                    /\ \A x \in Procs : ~ Idle(x) => Alone(x) /\ \E q \in {stack[x]} : Sound(q)'
  BY DEF Solo, Idle, Alone
<1>1. ASSUME \A x \in Procs : Idle(x) PROVE Removing(<<>>)'
  <2>1. Removing(<<>>)
    BY <1>1 DEF Solo
  <2>2. Sound(<<>>)'
    BY <2>1, NoCalls DEF Sound
  <2> QED
    BY <2>2, NoCalls DEF Sound
<1>2. ASSUME NEW x \in Procs, ~ Idle(x) PROVE Alone(x) /\ \E q \in {stack[x]} : Sound(q)'
  <2>1. Alone(x) /\ \E q \in {stack[x]} : Sound(q)
    BY <1>2 DEF Solo
  <2>2. stack[x] \in Stacks
    BY Parts DEF StackType
  <2> QED
    BY <2>1, <2>2
<1> QED
  BY <1>1, <1>2

LEMMA StillSound ==
  ASSUME UNCHANGED <<born, treeVars>>, up \subseteq up', NEW CONSTANT q \in Stacks, Sound(q)
  PROVE  Sound(q)'
<1>1. /\ born' = born /\ exists' = exists /\ listed' = listed /\ parent' = parent
      /\ children' = children /\ level' = level /\ overseer' = overseer /\ registered' = registered
  BY DEF treeVars
<1>2. ASSUME Removing(q) PROVE Removing(q)'
  <2>1. \A f, x : CallOK(f, x) => CallOK(f, x)'
    BY <1>1 DEF CallOK
  <2>2. Chain(q)'
    BY <1>1, <1>2, <2>1 DEF Removing, Chain, Descends, Sinks
  <2> QED
    BY <1>2, <2>2, TreeKept DEF Removing
<1>3. PICK f : f = q[1]
  OBVIOUS
<1>4. ASSUME Spawning(f) PROVE Spawning(f)'
  <2>1. TreeBut({}, {f.s}, {f.s}, {}, {}, {})'
    BY <1>4, TreeKept DEF Spawning
  <2> QED
    BY <1>1, <1>4, <2>1 DEF Spawning
<1>5. ASSUME Moving(f) PROVE Moving(f)'
  <2>1. PICK C, E, O, L : /\ C = IF Off(f) THEN {f.s} ELSE {}
                          /\ E = IF f.pc \in {"mark", "move"} THEN {<<f.par, f.s>>} ELSE {}
                          /\ O = IF f.pc = "mark" THEN {f.par} ELSE {}
                          /\ L = Late(f)
    OBVIOUS
  <2>2. TreeBut({}, {}, C, E, O, L)'
    BY <1>5, <2>1, TreeKept DEF Moving
  <2>3. \A D, V : (Apart(D, f) => Apart(D, f)') /\ (Numbers(D, V, f) => Numbers(D, V, f)')
    BY <1>1 DEF Apart, Numbers, LevelUnder
  <2>4. \E D \in SUBSET Sessions :
          /\ Apart(D, f)'
          /\ f.pc = "level" => parent'[f.s] = f.par /\ \E V \in SUBSET Sessions : Numbers(D, V, f)'
    BY <1>1, <1>5, <2>3 DEF Moving
  <2> QED
    BY <1>1, <1>5, <2>1, <2>2, <2>4 DEF Moving
<1> QED
  BY <1>2, <1>3, <1>4, <1>5 DEF Sound

LEMMA StartSessionSolo ==
  ASSUME IInv, Solo, NEW s \in Sessions, StartSession(s)
  PROVE  Solo'
<1>1. stack' = stack /\ crossed' = crossed /\ UNCHANGED <<born, treeVars>> /\ up \subseteq up'
  BY DEF StartSession, procVars
<1> QED
  BY <1>1, StillSound, SoloKept

LEMMA UpdateExpertiseSolo ==
  ASSUME IInv, Solo, NEW s \in Sessions, UpdateExpertise(s)
  PROVE  Solo'
<1>1. CASE s \in registered
  <2>1. registered' = registered
    BY <1>1 DEF UpdateExpertise, Register
  <2>2. stack' = stack /\ crossed' = crossed /\ UNCHANGED <<born, treeVars>> /\ up' = up
    BY <1>1, <2>1 DEF UpdateExpertise, procVars, treeVars
  <2> QED
    BY <2>2, StillSound, SoloKept
<1>2. CASE s \notin registered
  <2>1. crossed' # 0
    BY <1>2, Parts DEF UpdateExpertise, ProcsOK
  <2> QED
    BY <2>1 DEF Solo
<1> QED
  BY <1>1, <1>2

LEMMA WaitForLockSolo ==
  ASSUME IInv, Solo, NEW p \in Procs, WaitForLock(p)
  PROVE  Solo'
<1>1. stack' = stack /\ crossed' = crossed /\ UNCHANGED <<born, treeVars>> /\ up' = up
  BY DEF WaitForLock
<1> QED
  BY <1>1, StillSound, SoloKept

\* A session is created beside the tree.
Appears(s) ==
  /\ s \in Sessions \ born /\ born' = born \union {s} /\ exists' = exists \union {s}
  /\ listed' = listed \union {s} /\ registered' = registered \union {s}
  /\ \A x \in Sessions : parent'[x] = IF x = s THEN None ELSE parent[x]
  /\ \A x \in Sessions : level'[x] = IF x = s THEN 0 ELSE level[x]
  /\ children' = children /\ overseer' = overseer /\ up' = up

LEMMA AppearsBeside ==
  ASSUME TypeOK, NEW CONSTANT s, Appears(s)
  PROVE  /\ s \in Sessions /\ s \notin exists /\ s # None
         /\ \A x \in exists : x \in Sessions /\ x # s /\ parent'[x] = parent[x] /\ level'[x] = level[x]
         /\ \A x \in exists \union {None} : LevelUnder(x)' = LevelUnder(x)
<1>1. s \in Sessions /\ s \notin exists /\ s # None
  BY NoneAssumption DEF TypeOK, Appears
<1>2. \A x \in exists : x \in Sessions /\ x # s /\ parent'[x] = parent[x] /\ level'[x] = level[x]
  BY <1>1 DEF TypeOK, Appears
<1>3. ASSUME NEW x \in exists \union {None} PROVE LevelUnder(x)' = LevelUnder(x)
  BY <1>1, <1>2, NoneAssumption DEF LevelUnder, Appears
<1> QED
  BY <1>1, <1>2, <1>3

LEMMA AppearsInTree ==
  ASSUME TypeOK, NEW CONSTANT s, Appears(s),
         NEW CONSTANT A, NEW CONSTANT B, NEW CONSTANT C, NEW CONSTANT E, NEW CONSTANT O, NEW CONSTANT L,
         TreeBut(A, B, C, E, O, L), s \notin A, s \notin B,
         \A x : <<s, x>> \notin E /\ <<x, s>> \notin E
  PROVE  TreeBut(A, B, C, E, O, L)'
<1>1. /\ s \in Sessions /\ s \notin exists /\ s # None
      /\ \A x \in exists : x \in Sessions /\ x # s /\ parent'[x] = parent[x] /\ level'[x] = level[x]
      /\ \A x \in exists \union {None} : LevelUnder(x)' = LevelUnder(x)
  BY AppearsBeside
<1>2. Lists(A, B)'
  BY <1>1 DEF TreeBut, Lists, Appears
<1>3. children[s] = {} /\ Unborn'
  BY DEF TreeBut, Unborn, Appears
<1>4. Links(C, E)'
  <2> SUFFICES ASSUME NEW x \in exists \union {s}
               PROVE  /\ parent'[x] \in exists \union {s, None}
                      /\ \A c \in Sessions :
                           c \in children[x] <=> (c \in (exists \union {s}) \ C /\ parent'[c] = x) \/ <<x, c>> \in E
    BY DEF Links, Appears
  <2>0. \A y \in exists : parent[y] \in exists \union {None}
    BY DEF TreeBut, Links
  <2>s. parent'[s] = None
    BY <1>1 DEF Appears
  <2>1. CASE x = s
    BY <1>1, <1>3, <2>0, <2>1, <2>s
  <2>2. CASE x \in exists
    <3>1. \A c \in Sessions : c \in children[x] <=> (c \in exists \ C /\ parent[c] = x) \/ <<x, c>> \in E
      BY <2>2 DEF TreeBut, Links
    <3>2. x # None
      BY <1>1, <2>2, NoneAssumption
    <3> QED
      BY <1>1, <2>0, <2>2, <2>s, <3>1, <3>2
  <2> QED
    BY <2>1, <2>2
<1>5. Leads(O)'
  BY <1>1, <1>3 DEF TreeBut, Leads, Appears
<1>6. Levels(L)'
  <2> SUFFICES ASSUME NEW x \in (exists \union {s}) \ L PROVE (level[x] = LevelUnder(parent[x]))'
    BY DEF Levels, Appears
  <2>1. CASE x = s
    BY <1>1, <2>1 DEF Appears, LevelUnder
  <2>2. CASE x \in exists
    <3>1. level[x] = LevelUnder(parent[x]) /\ parent[x] \in exists \union {None}
      BY <2>2 DEF TreeBut, Levels, Links
    <3>2. PICK y : y = parent[x]
      OBVIOUS
    <3>3. LevelUnder(y)' = LevelUnder(y)
      BY <1>1, <3>1, <3>2
    <3>4. parent'[x] = y /\ level'[x] = level[x]
      BY <1>1, <2>2, <3>2
    <3> QED
      BY <3>1, <3>2, <3>3, <3>4 DEF LevelUnder
  <2> QED
    BY <2>1, <2>2
<1> QED
  BY <1>2, <1>3, <1>4, <1>5, <1>6 DEF TreeBut

LEMMA AppearsSound ==
  ASSUME TypeOK, NEW CONSTANT s, Appears(s), NEW CONSTANT q \in Stacks, Sound(q)
  PROVE  Sound(q)'
<1>1. /\ s \in Sessions /\ s \notin exists /\ s # None
      /\ \A x \in exists : x \in Sessions /\ x # s /\ parent'[x] = parent[x] /\ level'[x] = level[x]
      /\ \A x \in exists \union {None} : LevelUnder(x)' = LevelUnder(x)
  BY AppearsBeside
<1>2. ASSUME Removing(q) PROVE Removing(q)'
  <2>1. ASSUME NEW f, NEW x, CallOK(f, x) PROVE CallOK(f, x)' /\ f.s # s /\ f.s \in born
    <3>1. f.s \in born /\ f.s # s /\ f.s \in Sessions
      BY <2>1 DEF CallOK, Appears, TypeOK
    <3>2. f.s \in exists' <=> f.s \in exists
      BY <3>1 DEF Appears
    <3>3. parent'[f.s] = parent[f.s] /\ f.s \in born'
      BY <3>1 DEF Appears
    <3> QED
      BY <2>1, <3>1, <3>2, <3>3 DEF CallOK, Appears
  <2>2. \A i \in DOMAIN q : q[i].s # s /\ q[i].s \in Sessions
    BY <1>2, <2>1 DEF Removing, Chain, TypeOK
  <2>3. \A i \in DOMAIN q : level'[q[i].s] = level[q[i].s]
    BY <2>2 DEF Appears
  <2>4. Chain(q)'
    <3>1. Descends(q)'
      BY <1>2, <2>3 DEF Removing, Chain, Descends, Sinks
    <3>2. \A i \in DOMAIN q : CallOK(q[i], After(q, i))'
      BY <1>2, <2>1 DEF Removing, Chain
    <3> QED
      BY <1>2, <3>1, <3>2 DEF Removing, Chain
  <2>5. PICK A, C : A = Out(q, LostAt, Len(q)) /\ C = Out(q, LooseAt, Len(q))
    OBVIOUS
  <2>6. s \notin A
    BY <2>2, <2>5, StackDomain DEF Out
  <2>7. TreeBut(A, {}, C, {}, {}, {})'
    BY <1>2, <2>5, <2>6, AppearsInTree DEF Removing
  <2> QED
    BY <2>4, <2>5, <2>7 DEF Removing
<1>3. PICK f : f = q[1]
  OBVIOUS
<1>4. ASSUME Spawning(f) PROVE Spawning(f)'
  <2>1. TreeBut({}, {f.s}, {f.s}, {}, {}, {})'
    BY <1>1, <1>4, AppearsInTree DEF Spawning
  <2>2. parent'[f.s] = f.par
    BY <1>1, <1>4 DEF Spawning
  <2> QED
    BY <1>4, <2>1, <2>2 DEF Spawning, Appears
<1>5. ASSUME Moving(f) PROVE Moving(f)'
  <2>1. PICK C, E, O, L : /\ C = IF Off(f) THEN {f.s} ELSE {}
                          /\ E = IF f.pc \in {"mark", "move"} THEN {<<f.par, f.s>>} ELSE {}
                          /\ O = IF f.pc = "mark" THEN {f.par} ELSE {}
                          /\ L = Late(f)
    OBVIOUS
  <2>0. f.s \in exists /\ f.par \in exists \union {None} /\ \A x \in exists : parent[x] \in exists \union {None}
    BY <1>5 DEF Moving, TreeBut, Links
  <2>2. TreeBut({}, {}, C, E, O, L)'
    <3>1. \A x : <<s, x>> \notin E /\ <<x, s>> \notin E
      BY <1>1, <2>0, <2>1
    <3>2. TreeBut({}, {}, C, E, O, L)
      BY <1>5, <2>1 DEF Moving
    <3> QED
      BY <3>1, <3>2, AppearsInTree
  <2>3. ASSUME NEW D, Apart(D, f) PROVE Apart(D, f)'
    <3>1. children[s] = {}
      BY <1>5 DEF Moving, TreeBut, Unborn, Appears
    <3> QED
      BY <2>3, <3>1 DEF Apart, Appears
  <2>4. ASSUME NEW D, NEW V, Numbers(D, V, f) PROVE Numbers(D, V, f)'
    <3>1. V \subseteq exists /\ Late(f) \subseteq exists
      BY <2>4 DEF Numbers
    <3>2. \A c \in Late(f) \union V : parent'[c] = parent[c]
      BY <1>1, <3>1
    <3>3. ASSUME NEW x \in f.todo, f.pc = "level" PROVE x[2] = LevelUnder(parent[x[1]])'
      <4>1. x[1] \in Late(f)
        BY <3>3 DEF Late
      <4>2. PICK y : y = parent[x[1]]
        OBVIOUS
      <4>3. y \in exists \union {None} /\ parent'[x[1]] = y
        BY <1>1, <2>0, <3>1, <3>2, <4>1, <4>2
      <4>4. LevelUnder(y)' = LevelUnder(y) /\ x[2] = LevelUnder(y)
        BY <1>1, <2>4, <4>2, <4>3 DEF Numbers
      <4> QED
        BY <4>3, <4>4 DEF LevelUnder
    <3>4. f.pc = "level"
      BY <2>4 DEF Numbers, Late
    <3>5. \A x \in f.todo : x[2] = LevelUnder(parent[x[1]])'
      BY <3>3, <3>4
    <3> QED
      BY <2>4, <3>1, <3>2, <3>5 DEF Numbers, Appears
  <2>5. \E D \in SUBSET Sessions :
          /\ Apart(D, f)'
          /\ f.pc = "level" => parent'[f.s] = f.par /\ \E V \in SUBSET Sessions : Numbers(D, V, f)'
    BY <1>1, <1>5, <2>0, <2>3, <2>4 DEF Moving
  <2>6. parent'[f.s] = parent[f.s] /\ (f.par \in exists' <=> f.par \in exists)
    BY <1>1, <2>0, NoneAssumption DEF Appears
  <2>7. /\ f.s \in exists' /\ f.par \in exists' \union {None}
        /\ f.pc = "leave" => f.kids = {parent'[f.s]} \ {None}
        /\ f.pc = "leaving" => f.on = parent'[f.s] /\ f.on \in exists' /\ f.kids = children'[f.on] \ {f.s}
        /\ f.pc = "unmark" => f.on \in exists' /\ children'[f.on] = {}
        /\ f.pc = "joining" => f.par \in exists' /\ f.kids = children'[f.par] \union {f.s}
        /\ f.pc = "move" /\ f.par \in exists' => f.par \in overseer'
    BY <1>5, <2>0, <2>6 DEF Moving, Appears
  <2> QED
    BY <1>5, <2>1, <2>2, <2>5, <2>7 DEF Moving
<1> QED
  BY <1>2, <1>3, <1>4, <1>5 DEF Sound

LEMMA CreateMinionSolo ==
  ASSUME IInv, Solo, NEW CONSTANT s \in Sessions, CreateMinion(s)
  PROVE  Solo'
<1>t. TypeOK
  BY DEF IInv
<1>1. stack' = stack /\ crossed' = crossed
  BY DEF CreateMinion, procVars
<1>2. Appears(s)
  BY <1>t DEF CreateMinion, Add, Appears, TypeOK
<1> QED
  BY <1>1, <1>2, <1>t, AppearsSound, SoloKept

-----------------------------------------------------------------------------
(* Operations that begin, and those that make one call only.               *)

LEMMA NothingToDo ==
  /\ TreeFor({}, {}) => Removing(<<>>)
  /\ TreeFor({}, {})' => Removing(<<>>)'
<1>1. \A i \in 1 .. 0 : FALSE
  OBVIOUS
<1>2. DOMAIN <<>> = 1 .. 0 /\ 1 .. Len(<<>>) = 1 .. 0 /\ 1 .. Len(<<>>) - 1 = 1 .. 0 - 1
  BY NoCalls, StackDomain
<1>3. \A i \in 1 .. 0 - 1 : FALSE
  OBVIOUS
<1>4. Chain(<<>>) /\ Chain(<<>>)'
  BY <1>1, <1>2, <1>3 DEF Chain, Nests, Adjoins, Descends
<1>5. \A pcs : Out(<<>>, pcs, Len(<<>>)) = {}
  BY <1>1, <1>2 DEF Out
<1> QED
  BY <1>4, <1>5 DEF Removing, TreeFor

LEMMA FirstCall ==
  ASSUME NEW CONSTANT f \in Frames, CallOK(f, None)', f.pc \notin LooseAt, TreeFor({}, {})'
  PROVE  Removing(<<f>>)'
<1>1. PICK q : q = <<f>>
  OBVIOUS
<1>2. DOMAIN q = 1 .. 1 /\ Len(q) = 1 /\ q[1] = f
  BY <1>1
<1>3. \A i \in 1 .. 1 : i = 1
  OBVIOUS
<1>4. \A i \in 1 .. 1 - 1 : FALSE
  OBVIOUS
<1>5. Nests(q) /\ Adjoins(q) /\ Descends(q)'
  BY <1>2, <1>3, <1>4 DEF Nests, Adjoins, Descends
<1>6. Chain(q)'
  BY <1>2, <1>3, <1>5 DEF Chain, After
<1>7. Out(q, LostAt, 1) = {} /\ Out(q, LooseAt, 1) = {}
  BY <1>2, <1>3 DEF Out, LooseAt
<1> QED
  BY <1>1, <1>2, <1>6, <1>7 DEF Removing, TreeFor

\* An operation that begins alone finds a tree.
LEMMA SoloBegins ==
  ASSUME IInv, Solo, NEW CONSTANT p \in Procs, NEW CONSTANT f \in Frames, Begins(p, f),
         crossed = 0 /\ Alone(p) /\ TreeFor({}, {}) => Sound(<<f>>)'
  PROVE  Solo'
<1>1. Idle(p) /\ stack' = [stack EXCEPT ![p] = <<f>>]
  BY DEF Begins
<1>2. ASSUME crossed' = 0 PROVE crossed = 0 /\ Alone(p)
  <2>1. crossed \in Nat
    BY Parts DEF ProcsOK
  <2> QED
    BY <1>2, <2>1 DEF Begins
<1>3. ASSUME crossed' = 0 PROVE Alone(p) /\ Sound(<<f>>)'
  BY <1>1, <1>2, <1>3, SoloIdle DEF TreeFor
<1>4. PICK r : r = <<f>>
  OBVIOUS
<1>5. stack' = [stack EXCEPT ![p] = r] /\ (crossed' = 0 => Alone(p) /\ Sound(r)')
  BY <1>1, <1>3, <1>4
<1> QED
  BY <1>5, SoloBy, Parts

LEMMA RemovalBegins ==
  ASSUME IInv, Solo, NEW CONSTANT p \in Procs, NEW CONSTANT f \in Frames, Begins(p, f),
         UNCHANGED <<born, treeVars>>, up' = up,
         crossed = 0 /\ TreeFor({}, {}) => CallOK(f, None) /\ f.pc \notin LooseAt
  PROVE  Solo'
<1>1. ASSUME crossed = 0, TreeFor({}, {}) PROVE Sound(<<f>>)'
  <2>1. CallOK(f, None)' /\ f.pc \notin LooseAt
    BY <1>1, SameRecords
  <2>2. TreeFor({}, {})'
    BY <1>1, TreeForKept
  <2>3. Removing(<<f>>)'
    BY <2>1, <2>2, FirstCall
  <2> QED
    BY <2>3 DEF Sound
<1> QED
  BY <1>1, SoloBegins

LEMMA TerminateSolo ==
  ASSUME IInv, Solo, NEW CONSTANT p \in Procs, NEW CONSTANT s \in Sessions, Terminate(p, s)
  PROVE  Solo'
<1>1. PICK f : f = EndCall("terminate", s)
  OBVIOUS
<1>2. s \in born /\ TypeOK /\ Begins(p, f) /\ UNCHANGED <<born, treeVars>> /\ up' = up /\ born' = born
  BY <1>1 DEF IInv, TypeOK, Terminate
<1>3. f \in Frames /\ CallOK(f, None) /\ f.pc \notin LooseAt
  BY <1>1, <1>2, EndCallOK
<1> QED
  BY <1>2, <1>3, RemovalBegins

LEMMA DeleteSolo ==
  ASSUME IInv, Solo, NEW CONSTANT p \in Procs, NEW CONSTANT s \in Sessions, Delete(p, s)
  PROVE  Solo'
<1>1. PICK f : f = DeleteCall(s)
  OBVIOUS
<1>2. s \in exists /\ TypeOK /\ Begins(p, f) /\ UNCHANGED <<born, treeVars>> /\ up' = up
  BY <1>1 DEF IInv, Delete
<1>3. f \in Frames /\ CallOK(f, None) /\ f.pc = "cascade"
  BY <1>1, <1>2, DeleteCallOK
<1> QED
  BY <1>2, <1>3, RemovalBegins DEF LooseAt, LostAt

LEMMA DescendantsAreThere ==
  ASSUME TypeOK, NEW s \in exists
  PROVE  Subtree(s) \subseteq exists
<1>1. Kids \in Steps /\ s \in Sessions /\ exists \in SUBSET Sessions
  BY DEF TypeOK, Kids, Steps
<1>2. \A d \in exists : Kids[d] \subseteq exists
  BY <1>1 DEF Kids
<1> QED
  BY <1>1, <1>2, ReachLeast DEF Subtree, Descendants

LEMMA DisposeSolo ==
  ASSUME IInv, Solo, NEW CONSTANT p \in Procs, NEW by \in Sessions, NEW CONSTANT par \in Sessions,
         NEW CONSTANT s \in Sessions, NEW CONSTANT hard \in BOOLEAN, Dispose(p, by, par, s, hard)
  PROVE  Solo'
<1>1. PICK f : f = DisposeCall(par, s, hard)
  OBVIOUS
<1>t. TypeOK
  BY DEF IInv
<1>2. s \in exists /\ s \in children[par] /\ Begins(p, f) /\ UNCHANGED <<born, treeVars>> /\ up' = up
  BY <1>1 DEF Dispose
<1>3. par \in exists
  BY <1>t, DescendantsAreThere DEF Dispose
<1>4. f \in Frames
  BY <1>1, <1>t, DisposeCallIsFrame
<1>5. ASSUME TreeFor({}, {}) PROVE CallOK(f, None) /\ f.pc \notin LooseAt
  <2>1. parent[s] = par
    BY <1>2, <1>3, <1>5, <1>t, KidOf
  <2>2. CallOK(f, None) /\ f.pc = "children"
    BY <1>1, <1>2, <1>t, <2>1, DisposeCallOK
  <2> QED
    BY <2>2 DEF LooseAt, LostAt
<1> QED
  BY <1>2, <1>4, <1>5, RemovalBegins

-----------------------------------------------------------------------------
(* Operations that consist of one call.                                    *)

LEMMA SingleGoes ==
  ASSUME IInv, NEW CONSTANT p \in Procs, Alone(p), ~ Idle(p), Len(stack[p]) = 1,
         NEW CONSTANT f \in Frames, Goes(p, f), Spawning(f)' \/ Moving(f)'
  PROVE  Solo'
<1>1. PICK q : q = stack[p]
  OBVIOUS
<1>2. q \in Stacks /\ q # <<>> /\ Len(q) = 1
  BY <1>1, TopIsCall, Parts
<1>3. PICK r : r = Append(Front(q), f)
  OBVIOUS
<1>4. Rewrites(r, q, 1, 1, f)
  BY <1>2, <1>3, GoesStack
<1>5. Len(r) = 1 /\ r[1] = f
  BY <1>2, <1>4 DEF Rewrites
<1>6. stack' = [stack EXCEPT ![p] = r]
  BY <1>1, <1>3, Parts DEF Goes, StackType
<1>7. Sound(r)'
  BY <1>5 DEF Sound
<1> QED
  BY <1>6, <1>7, SoloBy, Parts

LEMMA SingleReturns ==
  ASSUME IInv, NEW CONSTANT p \in Procs, Alone(p), ~ Idle(p), Len(stack[p]) = 1,
         NEW ok, Returns(p, ok), TreeFor({}, {})'
  PROVE  Solo'
<1>1. PICK q : q = stack[p]
  OBVIOUS
<1>2. q \in Stacks /\ q # <<>> /\ Len(q) = 1
  BY <1>1, TopIsCall, Parts
<1>3. Front(q) \in Stacks /\ Len(Front(q)) = 0
  BY <1>2, StackParts
<1>4. Front(stack[p]) = <<>>
  BY <1>1, <1>3 DEF Stacks
<1>5. PICK r : r = <<>>
  OBVIOUS
<1>6. stack' = [stack EXCEPT ![p] = r]
  BY <1>4, <1>5 DEF Returns
<1>7. Sound(r)'
  BY <1>5, NothingToDo DEF Sound
<1> QED
  BY <1>6, <1>7, SoloBy, Parts

-----------------------------------------------------------------------------
(* Spawning.                                                               *)

LEMMA SpawnInTree ==
  ASSUME TypeOK, TreeFor({}, {}), NEW CONSTANT par \in Sessions, par \in exists,
         NEW CONSTANT s \in Sessions, Add(s, par, level[par] + 1),
         children' = children, overseer' = overseer, registered' = registered
  PROVE  TreeBut({}, {s}, {s}, {}, {}, {})' /\ s \in exists' /\ par \in exists' /\ parent'[s] = par
<1>1. s \notin born /\ s \notin exists /\ par # s /\ par # None /\ s # None
  BY NoneAssumption DEF TypeOK, Add
<1>2. /\ exists' = exists \union {s} /\ listed' = listed \union {s} /\ born' = born \union {s}
      /\ parent'[s] = par /\ level'[s] = level[par] + 1
      /\ \A x \in exists : x \in Sessions /\ x # s /\ x # None /\ parent'[x] = parent[x] /\ level'[x] = level[x]
  BY <1>1, NoneAssumption DEF TypeOK, Add
<1>3. listed = exists /\ registered = exists /\ children[s] = {}
      /\ \A x \in exists : parent[x] \in exists \union {None}
  BY <1>1 DEF TreeFor, TreeBut, Lists, Links, Unborn
<1>4. Lists({}, {s})'
  BY <1>1, <1>2, <1>3 DEF Lists
<1>5. Links({s}, {})'
  <2> SUFFICES ASSUME NEW x \in exists \union {s}
               PROVE  /\ parent'[x] \in exists \union {s, None}
                      /\ \A c \in Sessions :
                           c \in children[x] <=> c \in (exists \union {s}) \ {s} /\ parent'[c] = x
    BY <1>2 DEF Links
  <2>1. CASE x = s
    BY <1>1, <1>2, <1>3, <2>1
  <2>2. CASE x \in exists
    <3>1. \A c \in Sessions : c \in children[x] <=> (c \in exists /\ parent[c] = x)
      BY <2>2 DEF TreeFor, TreeBut, Links
    <3> QED
      BY <1>1, <1>2, <1>3, <2>2, <3>1
  <2> QED
    BY <2>1, <2>2
<1>6. Leads({})'
  BY <1>2, <1>3 DEF TreeFor, TreeBut, Leads
<1>7. Levels({})'
  <2> SUFFICES ASSUME NEW x \in exists \union {s} PROVE (level[x] = LevelUnder(parent[x]))'
    BY <1>2 DEF Levels
  <2>1. ASSUME NEW y \in exists \union {None} PROVE LevelUnder(y)' = LevelUnder(y)
    BY <1>1, <1>2, <2>1 DEF LevelUnder
  <2>2. CASE x = s
    <3>1. level'[s] = LevelUnder(par)
      BY <1>1, <1>2 DEF LevelUnder
    <3>2. LevelUnder(par)' = level'[s]
      BY <2>1, <3>1
    <3> QED
      BY <1>2, <2>2, <3>2 DEF LevelUnder
  <2>3. CASE x \in exists
    <3>1. PICK y : y = parent[x]
      OBVIOUS
    <3>2. level[x] = LevelUnder(y) /\ y \in exists \union {None}
      BY <1>3, <2>3, <3>1 DEF TreeFor, TreeBut, Levels
    <3>3. parent'[x] = y /\ level'[x] = LevelUnder(y)'
      BY <1>2, <2>1, <2>3, <3>1, <3>2
    <3> QED
      BY <3>3 DEF LevelUnder
  <2> QED
    BY <2>2, <2>3
<1>8. Unborn'
  BY <1>2 DEF TreeFor, TreeBut, Unborn
<1> QED
  BY <1>2, <1>4, <1>5, <1>6, <1>7, <1>8 DEF TreeBut

LEMMA SpawnMinionSolo ==
  ASSUME IInv, Solo, NEW CONSTANT p \in Procs, NEW CONSTANT par \in Sessions,
         NEW CONSTANT s \in Sessions, SpawnMinion(p, par, s)
  PROVE  Solo'
<1>t. TypeOK
  BY DEF IInv
<1>1. PICK e : e = Call("spawn", s, par, "mark")
  OBVIOUS
<1>2. e \in Frames /\ e.op = "spawn" /\ e.s = s /\ e.par = par
  <2>1. "spawn" \in Operations \union {"close"} /\ "mark" \in Places /\ par # None
    BY NoneAssumption DEF Operations, Places
  <2>2. Call("spawn", s, par, "mark") \in Frames
    BY <2>1, CallIsFrame
  <2> QED
    BY <1>1, <2>2 DEF Call
<1>3. PICK kids : kids = children[par] \union {s}
  OBVIOUS
<1>4. PICK f : f = IF par \in overseer THEN Edited(e, "link", par, kids)
                   ELSE [e EXCEPT !.pc = "mark", !.on = par]
  OBVIOUS
<1>5. f = MarkOrLink(e)
  BY <1>2, <1>3, <1>4 DEF MarkOrLink, Edited
<1>6. f \in Frames
  BY <1>2, <1>5, MarkOrLinkIsFrame
<1>7. /\ f.op = "spawn" /\ f.s = s /\ f.par = par
      /\ f.pc = "link" => f.kids = kids /\ par \in overseer
  BY <1>2, <1>4 DEF Frames, Edited
<1>8. /\ par \in exists /\ Add(s, par, level[par] + 1) /\ Begins(p, f)
      /\ children' = children /\ overseer' = overseer /\ registered' = registered
  BY <1>1, <1>5 DEF SpawnMinion
<1>9. ASSUME TreeFor({}, {}) PROVE Sound(<<f>>)'
  <2>1. TreeBut({}, {s}, {s}, {}, {}, {})' /\ s \in exists' /\ par \in exists' /\ parent'[s] = par
    BY <1>8, <1>9, <1>t, SpawnInTree
  <2>2. Spawning(f)'
    BY <1>3, <1>7, <1>8, <2>1 DEF Spawning
  <2>3. Len(<<f>>) = 1 /\ <<f>>[1] = f
    OBVIOUS
  <2> QED
    BY <2>2, <2>3 DEF Sound
<1> QED
  BY <1>6, <1>8, <1>9, SoloBegins

LEMMA SpawnTop ==
  ASSUME IInv, Solo, crossed = 0, NEW p \in Procs, NEW pc, At(p, "spawn", pc)
  PROVE  /\ ~ Idle(p) /\ Alone(p) /\ Len(stack[p]) = 1 /\ Spawning(Top(p))
         /\ Top(p) \in Frames /\ Top(p).pc = pc /\ Top(p).op = "spawn"
         /\ Top(p).s \in Sessions /\ Top(p).par \in Sessions
<1>1. ~ Idle(p) /\ Top(p) \in Frames /\ Top(p).op = "spawn" /\ Top(p).pc = pc
  BY AtTop
<1>2. PICK q : q = stack[p] /\ Len(q) = 1 /\ q[1] = Top(p) /\ Spawning(q[1])
  BY <1>1, SoloTop
<1>3. Alone(p)
  BY <1>1, SoloTop
<1> QED
  BY <1>1, <1>2, <1>3, FrameParts

LEMMA SpawnMarksSolo ==
  ASSUME IInv, Solo, NEW CONSTANT p \in Procs, SpawnMarks(p)
  PROVE  Solo'
<1> SUFFICES ASSUME crossed = 0 PROVE Solo'
  BY SoloOnly DEF SpawnMarks
<1>t. TypeOK
  BY DEF IInv
<1>1. PICK e : e = Top(p)
  OBVIOUS
<1>2. /\ ~ Idle(p) /\ Alone(p) /\ Len(stack[p]) = 1 /\ Spawning(e) /\ e \in Frames
      /\ e.op = "spawn" /\ e.s \in Sessions /\ e.par \in Sessions
  BY <1>1, SpawnTop DEF SpawnMarks
<1>3. PICK kids : kids = children[e.par] \union {e.s}
  OBVIOUS
<1>4. PICK f : f = [e EXCEPT !.pc = "link", !.kids = kids]
  OBVIOUS
<1>5. Goes(p, f)
  BY <1>1, <1>3, <1>4 DEF SpawnMarks, Continues
<1>6. f \in Frames
  <2>1. kids \in SUBSET Sessions /\ "link" \in Places
    BY <1>2, <1>3, <1>t DEF TypeOK, Places
  <2> QED
    BY <1>2, <1>4, <2>1, AtPcKids DEF Same
<1>7. f.op = "spawn" /\ f.s = e.s /\ f.par = e.par /\ f.kids = kids
  BY <1>2, <1>4 DEF Frames
<1>8. /\ born' = born /\ exists' = exists /\ listed' = listed /\ parent' = parent /\ children' = children
      /\ level' = level /\ registered' = registered /\ overseer' = overseer \union {e.par}
  BY <1>1, <1>2 DEF SpawnMarks, SetOverseer, Spawning
<1>9. TreeBut({}, {e.s}, {e.s}, {}, {}, {})'
  <2>1. TreeBut({}, {e.s}, {e.s}, {}, {}, {})
    BY <1>2 DEF Spawning
  <2> QED
    BY <1>8, <2>1 DEF TreeBut, Lists, Links, Leads, Levels, LevelUnder, Unborn
<1>10. Spawning(f)'
  BY <1>2, <1>3, <1>7, <1>8, <1>9 DEF Spawning
<1> QED
  BY <1>2, <1>5, <1>6, <1>10, SingleGoes

LEMMA SpawnLinksSolo ==
  ASSUME IInv, Solo, NEW CONSTANT p \in Procs, SpawnLinks(p)
  PROVE  Solo'
<1> SUFFICES ASSUME crossed = 0 PROVE Solo'
  BY SoloOnly DEF SpawnLinks
<1>t. TypeOK
  BY DEF IInv
<1>1. PICK e : e = Top(p)
  OBVIOUS
<1>2. /\ ~ Idle(p) /\ Alone(p) /\ Len(stack[p]) = 1 /\ Spawning(e) /\ e \in Frames /\ e.pc = "link"
      /\ e.op = "spawn" /\ e.s \in Sessions /\ e.par \in Sessions
  BY <1>1, SpawnTop DEF SpawnLinks
<1>3. /\ TreeBut({}, {e.s}, {e.s}, {}, {}, {}) /\ e.s \in exists /\ e.par \in exists
      /\ parent[e.s] = e.par /\ e.kids = children[e.par] \union {e.s} /\ e.par \in overseer
  BY <1>2 DEF Spawning
<1>4. /\ born' = born /\ exists' = exists /\ listed' = listed /\ parent' = parent
      /\ level' = level /\ registered' = registered \union {e.s} /\ overseer' = overseer
      /\ children' = [children EXCEPT ![e.par] = children[e.par] \union {e.s}]
  BY <1>1, <1>3 DEF SpawnLinks, Register, SetChildren
<1>5. \A x \in Sessions : children'[x] = IF x = e.par THEN children[x] \union {e.s} ELSE children[x]
  BY <1>4, <1>t DEF TypeOK
<1>6. exists \subseteq born /\ exists \subseteq Sessions
  BY <1>t DEF TypeOK
<1>7. Lists({}, {})'
  BY <1>3, <1>4 DEF TreeBut, Lists
<1>8. Links({}, {})'
  BY <1>3, <1>4, <1>5, <1>6 DEF TreeBut, Links
<1>9. Leads({})'
  BY <1>3, <1>4, <1>5, <1>6 DEF TreeBut, Leads
<1>10. Levels({})'
  BY <1>3, <1>4 DEF TreeBut, Levels, LevelUnder
<1>11. Unborn'
  BY <1>3, <1>4, <1>5, <1>6 DEF TreeBut, Unborn
<1>12. TreeFor({}, {})'
  BY <1>7, <1>8, <1>9, <1>10, <1>11 DEF TreeFor, TreeBut
<1>13. Returns(p, TRUE)
  BY DEF SpawnLinks
<1> QED
  BY <1>2, <1>12, <1>13, SingleReturns

-----------------------------------------------------------------------------
(* Moving.                                                                 *)

MoveTree(f) ==
  TreeBut({}, {}, IF Off(f) THEN {f.s} ELSE {},
          IF f.pc \in {"mark", "move"} THEN {<<f.par, f.s>>} ELSE {},
          IF f.pc = "mark" THEN {f.par} ELSE {}, {})
MoveCall(f) ==
  /\ f.pc = "leave" => f.kids = {parent[f.s]} \ {None}
  /\ f.pc = "leaving" => f.on = parent[f.s] /\ f.on \in exists /\ f.kids = children[f.on] \ {f.s}
  /\ f.pc = "unmark" => f.on \in exists /\ children[f.on] = {}
  /\ f.pc = "joining" => f.par \in exists /\ f.kids = children[f.par] \union {f.s}
  /\ f.pc = "move" /\ f.par \in exists => f.par \in overseer

\* A move begins.
LEMMA SubtreeIsApart ==
  ASSUME TypeOK, TreeFor({}, {}), NEW s \in exists
  PROVE  /\ Subtree(s) \in SUBSET Sessions
         /\ \A d \in Subtree(s) \intersect exists : children[d] \subseteq Subtree(s)
<1>1. Kids \in Steps /\ s \in Sessions /\ exists \subseteq Sessions
  BY DEF TypeOK, Kids, Steps
<1>2. \A d \in exists : children[d] = Kids[d]
  <2>1. ASSUME NEW d \in exists PROVE children[d] = Kids[d]
    <3>1. children[d] \subseteq exists
      <4>1. children[d] \subseteq Sessions
        BY <1>1 DEF TypeOK
      <4> QED
        BY <4>1 DEF TreeFor, TreeBut, Links
    <3>2. Kids[d] = children[d] \intersect exists
      BY <1>1 DEF Kids
    <3> QED
      BY <3>1, <3>2
  <2> QED
    BY <2>1
<1>3. ASSUME NEW d \in Subtree(s) \intersect exists PROVE children[d] \subseteq Subtree(s)
  <2>1. CASE d = s
    BY <1>1, <1>2, <2>1, ReachFirst DEF Subtree, Descendants
  <2>2. CASE d \in Descendants(s)
    BY <1>1, <1>2, <1>3, <2>2, ReachOn DEF Subtree, Descendants
  <2> QED
    BY <2>1, <2>2 DEF Subtree
<1>4. Subtree(s) \in SUBSET Sessions
  BY <1>1 DEF Subtree, Descendants, Reach
<1> QED
  BY <1>3, <1>4

LEMMA ReparentSolo ==
  ASSUME IInv, Solo, NEW CONSTANT p \in Procs, NEW CONSTANT s \in Sessions,
         NEW CONSTANT par \in Sessions \union {None}, Reparent(p, s, par)
  PROVE  Solo'
<1>t. TypeOK
  BY DEF IInv
<1>1. PICK e : e = Call("reparent", s, par, "leave")
  OBVIOUS
<1>2. PICK kids : kids = {parent[s]} \ {None}
  OBVIOUS
<1>3. PICK f : f = [e EXCEPT !.on = Tree, !.kids = kids]
  OBVIOUS
<1>4. e \in Frames /\ e.op = "reparent" /\ e.s = s /\ e.par = par /\ e.pc = "leave"
  <2>1. e \in Frames
    BY <1>1, CallIsFrame DEF Operations, Places
  <2> QED
    BY <1>1, <2>1 DEF Call
<1>5. kids \in SUBSET Sessions
  BY <1>2, <1>t DEF TypeOK
<1>6. f \in Frames /\ f.op = "reparent" /\ f.s = s /\ f.par = par /\ f.pc = "leave" /\ f.kids = kids
  BY <1>3, <1>4, <1>5 DEF Frames
<1>7. /\ Begins(p, f) /\ s \in exists /\ par \in exists \union {None} /\ par \notin Subtree(s)
      /\ UNCHANGED <<born, treeVars>>
  BY <1>1, <1>2, <1>3 DEF Reparent, Subtree
<1>8. exists' = exists /\ parent' = parent /\ children' = children
  BY <1>7 DEF treeVars
<1>9. ASSUME TreeFor({}, {}) PROVE Sound(<<f>>)'
  <2>1. TreeFor({}, {})'
    BY <1>7, <1>9, TreeForKept
  <2>2. ~ Off(f) /\ Late(f) = {} /\ f.pc \notin {"mark", "move"}
    BY <1>6 DEF Off, Late
  <2>3. TreeBut({}, {}, IF Off(f) THEN {f.s} ELSE {},
             IF f.pc \in {"mark", "move"} THEN {<<f.par, f.s>>} ELSE {},
             IF f.pc = "mark" THEN {f.par} ELSE {}, Late(f))'
    BY <2>1, <2>2 DEF TreeFor
  <2>4. PICK D \in SUBSET Sessions : D = Subtree(s)
    BY <1>7, <1>9, <1>t, SubtreeIsApart
  <2>5. Apart(D, f)'
    <3>1. \A d \in D \intersect exists : children[d] \subseteq D
      BY <1>7, <1>9, <1>t, <2>4, SubtreeIsApart
    <3> QED
      BY <1>6, <1>7, <1>8, <2>4, <3>1 DEF Apart, Subtree
  <2>6. Moving(f)'
    BY <1>2, <1>6, <1>7, <1>8, <2>3, <2>5 DEF Moving
  <2>7. Len(<<f>>) = 1 /\ <<f>>[1] = f
    OBVIOUS
  <2> QED
    BY <2>6, <2>7 DEF Sound
<1> QED
  BY <1>6, <1>7, <1>9, SoloBegins

\* What is known of a move.
LEMMA MoveTop ==
  ASSUME IInv, Solo, crossed = 0, NEW p \in Procs, NEW pc, At(p, "reparent", pc)
  PROVE  /\ ~ Idle(p) /\ Alone(p) /\ Len(stack[p]) = 1 /\ Moving(Top(p))
         /\ Top(p) \in Frames /\ Top(p).pc = pc /\ Top(p).op = "reparent"
         /\ Top(p).s \in exists /\ Top(p).s \in Sessions /\ Top(p).s # None
         /\ Top(p).par \in exists \union {None}
         /\ exists \subseteq Sessions /\ exists \subseteq born /\ None \notin exists
         /\ pc # "level" => MoveTree(Top(p)) /\ MoveCall(Top(p))
<1>1. ~ Idle(p) /\ Top(p) \in Frames /\ Top(p).op = "reparent" /\ Top(p).pc = pc
  BY AtTop
<1>2. PICK q : q = stack[p] /\ Len(q) = 1 /\ q[1] = Top(p) /\ Moving(q[1])
  BY <1>1, SoloTop
<1>3. Alone(p)
  BY <1>1, SoloTop
<1>4. exists \subseteq Sessions /\ exists \subseteq born /\ None \notin exists
  BY NoneAssumption DEF IInv, TypeOK
<1>5. Top(p).s \in exists /\ Top(p).par \in exists \union {None} /\ MoveCall(Top(p))
  BY <1>2 DEF Moving, MoveCall
<1>6. pc # "level" => MoveTree(Top(p))
  BY <1>1, <1>2 DEF Moving, MoveTree, Late
<1> QED
  BY <1>1, <1>2, <1>3, <1>4, <1>5, <1>6

\* It goes on, before the levels.
LEMMA MoveGoes ==
  ASSUME IInv, Solo, crossed = 0, NEW CONSTANT p \in Procs, NEW pc, At(p, "reparent", pc), pc # "level",
         NEW CONSTANT f, Same(f, Top(p)), f.par = Top(p).par, f.pc # "level", Goes(p, f),
         exists' = exists, \A x \in exists : x # f.par => children'[x] \subseteq children[x],
         MoveTree(f)', MoveCall(f)'
  PROVE  Solo'
<1>1. PICK e : e = Top(p)
  OBVIOUS
<1>2. /\ ~ Idle(p) /\ Alone(p) /\ Len(stack[p]) = 1 /\ Moving(e) /\ e \in Frames
      /\ e.op = "reparent" /\ e.s \in exists /\ e.par \in exists \union {None}
  BY <1>1, MoveTop
<1>3. f \in Frames /\ f.op = "reparent" /\ f.s = e.s /\ f.par = e.par
  BY <1>1, <1>2 DEF Same
<1>4. PICK D \in SUBSET Sessions : Apart(D, e)
  BY <1>2 DEF Moving
<1>5. Apart(D, f)'
  BY <1>3, <1>4 DEF Apart
<1>6. Late(f) = {}
  BY DEF Late
<1>7. Moving(f)'
  BY <1>2, <1>3, <1>5, <1>6 DEF Moving, MoveTree, MoveCall
<1> QED
  BY <1>2, <1>3, <1>7, SingleGoes

LEMMA LeavesSolo ==
  ASSUME IInv, Solo, NEW CONSTANT p \in Procs, Leaves(p)
  PROVE  Solo'
<1> SUFFICES ASSUME crossed = 0 PROVE Solo'
  BY SoloOnly DEF Leaves
<1>0. At(p, "reparent", "leave")
  BY DEF Leaves
<1>1. PICK e : e = Top(p)
  OBVIOUS
<1>2. /\ e \in Frames /\ e.pc = "leave" /\ e.s \in exists /\ e.s \in Sessions /\ e.s # None
      /\ exists \subseteq Sessions /\ None \notin exists
      /\ MoveTree(e) /\ e.kids = {parent[e.s]} \ {None}
  BY <1>0, <1>1, MoveTop DEF MoveCall
<1>3. TreeFor({}, {})
  BY <1>2 DEF MoveTree, Off, TreeFor
<1>4. parent[e.s] \in exists \union {None}
  BY <1>2, <1>3 DEF TreeFor, TreeBut, Links
<1>5. UNCHANGED <<born, treeVars>>
  BY DEF Leaves
<1>6. /\ born' = born /\ exists' = exists /\ listed' = listed /\ parent' = parent /\ children' = children
      /\ level' = level /\ registered' = registered /\ overseer' = overseer
  BY <1>5 DEF treeVars
<1>7. CASE parent[e.s] = None
  <2>1. PICK f : f = Edited(e, "join", None, {})
    OBVIOUS
  <2>2. e.kids \intersect exists = {}
    BY <1>2, <1>7
  <2>3. Goes(p, f)
    BY <1>1, <2>1, <2>2 DEF Leaves, Continues, Edited
  <2>4. Same(f, e)
    <3>1. "join" \in Places /\ None \in Ons /\ {} \in SUBSET Sessions
      BY DEF Places, Ons
    <3> QED
      BY <1>2, <2>1, <3>1, AtPcOnKids
  <2>5. f.pc = "join" /\ f.par = e.par /\ f.s = e.s
    BY <1>2, <2>1 DEF Edited, Frames
  <2>6. \A x \in exists : e.s \notin children[x]
    BY <1>2, <1>3, <1>7 DEF TreeFor, TreeBut, Links
  <2>7. TreeFor({}, {f.s})'
    BY <1>3, <1>5, <2>5, <2>6, LoosenTree, TreeForKept
  <2>8. MoveTree(f)' /\ MoveCall(f)'
    BY <2>5, <2>7 DEF MoveTree, MoveCall, TreeFor, Off
  <2> QED
    BY <1>0, <1>1, <1>6, <2>3, <2>4, <2>5, <2>8, MoveGoes
<1>8. CASE parent[e.s] # None
  <2>1. PICK o : o = parent[e.s]
    OBVIOUS
  <2>2. o \in exists /\ o \in Sessions /\ e.s \in children[o] /\ children[o] \in SUBSET Sessions
    <3>1. o \in exists /\ o \in Sessions /\ e.s \in children[o]
      BY <1>2, <1>3, <1>4, <1>8, <2>1 DEF TreeFor, TreeBut, Links
    <3> QED
      BY <3>1 DEF IInv, TypeOK
  <2>3. PICK kids : kids = children[o] \ {e.s}
    OBVIOUS
  <2>4. PICK f : f = Edited(e, "leaving", o, kids)
    OBVIOUS
  <2>5. e.kids \intersect exists = {o} /\ {o} # {}
    BY <1>2, <2>1, <2>2
  <2>6. (CHOOSE x \in {o} : TRUE) = o
    BY Zenon
  <2>7. UNION {children[x] \ {e.s} : x \in {o}} = kids
    BY <2>3
  <2>8. Goes(p, f)
    BY <1>1, <2>2, <2>4, <2>5, <2>6, <2>7 DEF Leaves, Continues, Edited
  <2>9. Same(f, e)
    <3>1. "leaving" \in Places /\ o \in Ons /\ kids \in SUBSET Sessions
      BY <2>2, <2>3 DEF Places, Ons
    <3> QED
      BY <1>2, <2>4, <3>1, AtPcOnKids
  <2>10. f.pc = "leaving" /\ f.par = e.par /\ f.s = e.s /\ f.on = o /\ f.kids = kids
    BY <1>2, <2>4 DEF Edited, Frames
  <2>11. TreeFor({}, {})'
    BY <1>3, <1>5, TreeForKept
  <2>12. MoveTree(f)'
    BY <2>10, <2>11 DEF MoveTree, TreeFor, Off
  <2>13. MoveCall(f)'
    BY <1>6, <2>1, <2>2, <2>3, <2>10 DEF MoveCall
  <2> QED
    BY <1>0, <1>1, <1>6, <2>8, <2>9, <2>10, <2>12, <2>13, MoveGoes
<1> QED
  BY <1>7, <1>8

LEMMA LeavesOldSolo ==
  ASSUME IInv, Solo, NEW CONSTANT p \in Procs, LeavesOld(p)
  PROVE  Solo'
<1> SUFFICES ASSUME crossed = 0 PROVE Solo'
  BY SoloOnly DEF LeavesOld
<1>t. TypeOK
  BY DEF IInv
<1>0. At(p, "reparent", "leaving")
  BY DEF LeavesOld
<1>1. PICK e : e = Top(p)
  OBVIOUS
<1>2. /\ e \in Frames /\ e.pc = "leaving" /\ e.s \in exists /\ e.s \in Sessions
      /\ exists \subseteq Sessions /\ exists \subseteq born
      /\ MoveTree(e) /\ e.on = parent[e.s] /\ e.on \in exists /\ e.kids = children[e.on] \ {e.s}
  BY <1>0, <1>1, MoveTop DEF MoveCall
<1>3. TreeBut({}, {}, {}, {}, {}, {})
  BY <1>2 DEF MoveTree, Off
<1>4. /\ born' = born /\ exists' = exists /\ listed' = listed /\ parent' = parent
      /\ level' = level /\ registered' = registered /\ overseer' = overseer
      /\ children' = [children EXCEPT ![e.on] = e.kids]
  BY <1>1, <1>2 DEF LeavesOld, SetChildren
<1>5. \A x \in Sessions : children'[x] = IF x = e.on THEN children[x] \ {e.s} ELSE children[x]
  BY <1>2, <1>4, <1>t DEF TypeOK
<1>6. TreeBut({}, {}, {e.s}, {}, {}, {})'
  <2>1. Lists({}, {})' /\ Levels({})'
    BY <1>3, <1>4 DEF TreeBut, Lists, Levels, LevelUnder
  <2>2. Links({e.s}, {})'
    BY <1>2, <1>3, <1>4, <1>5 DEF TreeBut, Links
  <2>3. Leads({})'
    BY <1>2, <1>3, <1>4, <1>5 DEF TreeBut, Leads
  <2>4. Unborn'
    BY <1>2, <1>3, <1>4, <1>5 DEF TreeBut, Unborn
  <2> QED
    BY <2>1, <2>2, <2>3, <2>4 DEF TreeBut
<1>7. \A x \in exists : children'[x] \subseteq children[x]
  BY <1>2, <1>5
<1>8. PICK f : f = IF e.kids = {} THEN [e EXCEPT !.pc = "unmark"]
                   ELSE [e EXCEPT !.pc = "join", !.on = None]
  OBVIOUS
<1>9. Goes(p, f)
  BY <1>1, <1>8 DEF LeavesOld, Continues
<1>10. Same(f, e)
  <2>1. "unmark" \in Places /\ "join" \in Places /\ None \in Ons
    BY DEF Places, Ons
  <2>2. Same([e EXCEPT !.pc = "unmark"], e)
    BY <1>2, <2>1, AtPc
  <2>3. Same([e EXCEPT !.pc = "join", !.on = None], e)
    BY <1>2, <2>1, AtPcOn
  <2> QED
    BY <1>8, <2>2, <2>3
<1>11. /\ f.pc \in {"unmark", "join"} /\ f.par = e.par /\ f.s = e.s
       /\ f.pc = "unmark" => f.on = e.on /\ e.kids = {}
  BY <1>2, <1>8 DEF Frames
<1>12. MoveTree(f)'
  BY <1>6, <1>11 DEF MoveTree, Off
<1>13. MoveCall(f)'
  BY <1>2, <1>4, <1>5, <1>11 DEF MoveCall
<1> QED
  BY <1>0, <1>1, <1>4, <1>7, <1>9, <1>10, <1>11, <1>12, <1>13, MoveGoes

LEMMA UnmarksOldSolo ==
  ASSUME IInv, Solo, NEW CONSTANT p \in Procs, UnmarksOld(p)
  PROVE  Solo'
<1> SUFFICES ASSUME crossed = 0 PROVE Solo'
  BY SoloOnly DEF UnmarksOld
<1>0. At(p, "reparent", "unmark")
  BY DEF UnmarksOld
<1>1. PICK e : e = Top(p)
  OBVIOUS
<1>2. /\ e \in Frames /\ e.pc = "unmark" /\ MoveTree(e) /\ e.on \in exists /\ children[e.on] = {}
  BY <1>0, <1>1, MoveTop DEF MoveCall
<1>3. TreeBut({}, {}, {e.s}, {}, {}, {})
  BY <1>2 DEF MoveTree, Off
<1>4. /\ born' = born /\ exists' = exists /\ listed' = listed /\ parent' = parent /\ children' = children
      /\ level' = level /\ registered' = registered /\ overseer' = overseer \ {e.on}
  BY <1>1 DEF UnmarksOld, ResetOverseer
<1>5. TreeBut({}, {}, {e.s}, {}, {}, {})'
  <2>1. Lists({}, {})' /\ Levels({})' /\ Links({e.s}, {})' /\ Unborn'
    BY <1>3, <1>4 DEF TreeBut, Lists, Levels, LevelUnder, Links, Unborn
  <2>2. Leads({})'
    BY <1>2, <1>3, <1>4 DEF TreeBut, Leads
  <2> QED
    BY <2>1, <2>2 DEF TreeBut
<1>6. PICK f : f = [e EXCEPT !.pc = "join", !.on = None]
  OBVIOUS
<1>7. Goes(p, f)
  BY <1>1, <1>6 DEF UnmarksOld, Continues
<1>8. Same(f, e)
  <2>1. "join" \in Places /\ None \in Ons
    BY DEF Places, Ons
  <2> QED
    BY <1>2, <1>6, <2>1, AtPcOn
<1>9. f.pc = "join" /\ f.par = e.par /\ f.s = e.s
  BY <1>2, <1>6 DEF Frames
<1>10. MoveTree(f)' /\ MoveCall(f)'
  BY <1>5, <1>9 DEF MoveTree, Off, MoveCall
<1> QED
  BY <1>0, <1>1, <1>4, <1>7, <1>8, <1>9, <1>10, MoveGoes

\* Where a move goes when the new parent has the session, or is none.
LEMMA MarkOrMoveIs ==
  ASSUME IInv, NEW e \in Frames, NEW f, f = MarkOrMove(e)
  PROVE  /\ Same(f, e) /\ f.par = e.par /\ f.s = e.s
         /\ f.pc = IF e.par \in exists \ overseer THEN "mark" ELSE "move"
<1>1. Same(f, e)
  BY MarkOrMoveSame
<1>2. CASE e.par \in exists \ overseer
  <2>1. f = [e EXCEPT !.pc = "mark", !.on = e.par]
    BY <1>2 DEF MarkOrMove
  <2> QED
    BY <1>1, <1>2, <2>1 DEF Frames
<1>3. CASE ~ (e.par \in exists \ overseer)
  <2>1. f = [e EXCEPT !.pc = "move", !.on = e.s]
    BY <1>3 DEF MarkOrMove
  <2> QED
    BY <1>1, <1>3, <2>1 DEF Frames
<1> QED
  BY <1>2, <1>3

LEMMA JoinsNewSolo ==
  ASSUME IInv, Solo, NEW CONSTANT p \in Procs, JoinsNew(p)
  PROVE  Solo'
<1> SUFFICES ASSUME crossed = 0 PROVE Solo'
  BY SoloOnly DEF JoinsNew
<1>t. TypeOK
  BY DEF IInv
<1>0. At(p, "reparent", "join")
  BY DEF JoinsNew
<1>1. PICK e : e = Top(p)
  OBVIOUS
<1>2. /\ e \in Frames /\ e.pc = "join" /\ MoveTree(e) /\ e.s \in Sessions
      /\ exists \subseteq Sessions /\ None \notin exists /\ e.par \in exists \union {None}
  BY <1>0, <1>1, MoveTop
<1>3. TreeBut({}, {}, {e.s}, {}, {}, {})
  BY <1>2 DEF MoveTree, Off
<1>4. UNCHANGED <<born, treeVars>>
  BY DEF JoinsNew
<1>5. exists' = exists /\ children' = children /\ overseer' = overseer
  BY <1>4 DEF treeVars
<1>6. TreeBut({}, {}, {e.s}, {}, {}, {})'
  BY <1>3, <1>4, TreeKept
<1>7. \A x \in exists : e.s \notin children[x]
  BY <1>2, <1>3 DEF TreeBut, Links
<1>8. CASE e.par \in exists
  <2>1. PICK kids : kids = children[e.par] \union {e.s}
    OBVIOUS
  <2>2. PICK f : f = Edited(e, "joining", e.par, kids)
    OBVIOUS
  <2>3. Goes(p, f)
    BY <1>1, <1>7, <1>8, <2>1, <2>2 DEF JoinsNew, Continues, Edited
  <2>4. Same(f, e)
    <3>1. children[e.par] \in SUBSET Sessions
      BY <1>2, <1>8, <1>t DEF TypeOK
    <3>2. "joining" \in Places /\ e.par \in Ons /\ kids \in SUBSET Sessions
      BY <1>2, <1>8, <2>1, <3>1 DEF Places, Ons
    <3> QED
      BY <1>2, <2>2, <3>2, AtPcOnKids
  <2>5. f.pc = "joining" /\ f.par = e.par /\ f.s = e.s /\ f.kids = kids
    BY <1>2, <2>2 DEF Edited, Frames
  <2>6. MoveTree(f)'
    BY <1>6, <2>5 DEF MoveTree, Off
  <2>7. MoveCall(f)'
    BY <1>5, <1>8, <2>1, <2>5 DEF MoveCall
  <2> QED
    BY <1>0, <1>1, <1>5, <2>3, <2>4, <2>5, <2>6, <2>7, MoveGoes
<1>9. CASE e.par = None
  <2>1. PICK f : f = MarkOrMove(e)
    OBVIOUS
  <2>2. Goes(p, f)
    BY <1>1, <1>2, <1>9, <2>1 DEF JoinsNew, Continues
  <2>3. Same(f, e) /\ f.pc = "move" /\ f.par = e.par /\ f.s = e.s
    BY <1>2, <1>9, <2>1, MarkOrMoveIs
  <2>4. TreeBut({}, {}, {e.s}, {<<None, e.s>>}, {}, {})'
    BY <1>2, <1>5, <1>6 DEF TreeBut, Links
  <2>5. MoveTree(f)'
    BY <1>9, <2>3, <2>4 DEF MoveTree, Off
  <2>6. MoveCall(f)'
    BY <1>2, <1>5, <1>9, <2>3 DEF MoveCall
  <2> QED
    BY <1>0, <1>1, <1>5, <2>2, <2>3, <2>5, <2>6, MoveGoes
<1> QED
  BY <1>2, <1>8, <1>9

LEMMA WritesNewSolo ==
  ASSUME IInv, Solo, NEW CONSTANT p \in Procs, WritesNew(p)
  PROVE  Solo'
<1> SUFFICES ASSUME crossed = 0 PROVE Solo'
  BY SoloOnly DEF WritesNew
<1>t. TypeOK
  BY DEF IInv
<1>0. At(p, "reparent", "joining")
  BY DEF WritesNew
<1>1. PICK e : e = Top(p)
  OBVIOUS
<1>2. /\ e \in Frames /\ e.pc = "joining" /\ MoveTree(e) /\ e.s \in Sessions
      /\ exists \subseteq Sessions /\ exists \subseteq born
      /\ e.par \in exists /\ e.kids = children[e.par] \union {e.s}
  BY <1>0, <1>1, MoveTop DEF MoveCall
<1>3. TreeBut({}, {}, {e.s}, {}, {}, {})
  BY <1>2 DEF MoveTree, Off
<1>4. /\ born' = born /\ exists' = exists /\ listed' = listed /\ parent' = parent
      /\ level' = level /\ registered' = registered /\ overseer' = overseer
      /\ children' = [children EXCEPT ![e.par] = e.kids]
  BY <1>1, <1>2 DEF WritesNew, SetChildren
<1>5. \A x \in Sessions : children'[x] = IF x = e.par THEN children[x] \union {e.s} ELSE children[x]
  BY <1>2, <1>4, <1>t DEF TypeOK
<1>6. PICK f : f = MarkOrMove(e)
  OBVIOUS
<1>7. Goes(p, f)
  BY <1>1, <1>6 DEF WritesNew, Continues
<1>8. /\ Same(f, e) /\ f.par = e.par /\ f.s = e.s
      /\ f.pc = IF e.par \in overseer THEN "move" ELSE "mark"
  BY <1>2, <1>6, MarkOrMoveIs
<1>9. PICK O : O = IF f.pc = "mark" THEN {e.par} ELSE {}
  OBVIOUS
<1>10. TreeBut({}, {}, {e.s}, {<<e.par, e.s>>}, O, {})'
  <2>1. Lists({}, {})' /\ Levels({})'
    BY <1>3, <1>4 DEF TreeBut, Lists, Levels, LevelUnder
  <2>2. Links({e.s}, {<<e.par, e.s>>})'
    BY <1>2, <1>3, <1>4, <1>5 DEF TreeBut, Links
  <2>3. Leads(O)'
    BY <1>2, <1>3, <1>4, <1>5, <1>8, <1>9 DEF TreeBut, Leads
  <2>4. Unborn'
    BY <1>2, <1>3, <1>4, <1>5 DEF TreeBut, Unborn
  <2> QED
    BY <2>1, <2>2, <2>3, <2>4 DEF TreeBut
<1>11. MoveTree(f)'
  BY <1>8, <1>9, <1>10 DEF MoveTree, Off
<1>12. MoveCall(f)'
  BY <1>4, <1>8 DEF MoveCall
<1>13. \A x \in exists : x # f.par => children'[x] \subseteq children[x]
  BY <1>2, <1>5, <1>8
<1> QED
  BY <1>0, <1>1, <1>4, <1>7, <1>8, <1>11, <1>12, <1>13, MoveGoes

LEMMA MarksNewSolo ==
  ASSUME IInv, Solo, NEW CONSTANT p \in Procs, MarksNew(p)
  PROVE  Solo'
<1> SUFFICES ASSUME crossed = 0 PROVE Solo'
  BY SoloOnly DEF MarksNew
<1>0. At(p, "reparent", "mark")
  BY DEF MarksNew
<1>1. PICK e : e = Top(p)
  OBVIOUS
<1>2. /\ e \in Frames /\ e.pc = "mark" /\ MoveTree(e) /\ e.s \in Sessions
      /\ None \notin exists /\ e.par \in exists \union {None}
  BY <1>0, <1>1, MoveTop
<1>3. TreeBut({}, {}, {e.s}, {<<e.par, e.s>>}, {e.par}, {})
  BY <1>2 DEF MoveTree, Off
<1>4. /\ born' = born /\ exists' = exists /\ listed' = listed /\ parent' = parent /\ children' = children
      /\ level' = level /\ registered' = registered
      /\ overseer' = IF e.par \in exists THEN overseer \union {e.par} ELSE overseer
  BY <1>1 DEF MarksNew, SetOverseer
<1>5. TreeBut({}, {}, {e.s}, {<<e.par, e.s>>}, {}, {})'
  <2>1. Lists({}, {})' /\ Levels({})' /\ Links({e.s}, {<<e.par, e.s>>})' /\ Unborn'
    BY <1>3, <1>4 DEF TreeBut, Lists, Levels, LevelUnder, Links, Unborn
  <2>2. Leads({})'
    BY <1>2, <1>3, <1>4 DEF TreeBut, Leads
  <2> QED
    BY <2>1, <2>2 DEF TreeBut
<1>6. PICK f : f = [e EXCEPT !.pc = "move", !.on = e.s]
  OBVIOUS
<1>7. Goes(p, f)
  BY <1>1, <1>6 DEF MarksNew, Continues
<1>8. Same(f, e)
  <2>1. "move" \in Places /\ e.s \in Ons
    BY <1>2 DEF Places, Ons
  <2> QED
    BY <1>2, <1>6, <2>1, AtPcOn
<1>9. f.pc = "move" /\ f.par = e.par /\ f.s = e.s
  BY <1>2, <1>6 DEF Frames
<1>10. MoveTree(f)'
  BY <1>5, <1>9 DEF MoveTree, Off
<1>11. MoveCall(f)'
  BY <1>4, <1>9 DEF MoveCall
<1> QED
  BY <1>0, <1>1, <1>4, <1>7, <1>8, <1>9, <1>10, <1>11, MoveGoes

-----------------------------------------------------------------------------
(* The levels after a move.                                                *)

\* A move goes on, or begins, to number the levels.
LEMMA LevelsGo ==
  ASSUME IInv, Solo, crossed = 0, NEW CONSTANT p \in Procs, NEW pc, At(p, "reparent", pc),
         NEW CONSTANT f, Same(f, Top(p)), f.par = Top(p).par, f.pc = "level", Goes(p, f),
         exists' = exists, children' = children, parent'[f.s] = f.par,
         TreeBut({}, {}, {}, {}, {}, Late(f))',
         NEW CONSTANT D \in SUBSET Sessions, NEW CONSTANT V \in SUBSET Sessions,
         Apart(D, Top(p)), Numbers(D, V, f)'
  PROVE  Solo'
<1>1. PICK e : e = Top(p)
  OBVIOUS
<1>2. /\ ~ Idle(p) /\ Alone(p) /\ Len(stack[p]) = 1 /\ e \in Frames
      /\ e.op = "reparent" /\ e.s \in exists /\ e.par \in exists \union {None}
  BY <1>1, MoveTop
<1>3. f \in Frames /\ f.op = "reparent" /\ f.s = e.s /\ f.par = e.par
  BY <1>1, <1>2 DEF Same
<1>4. Apart(D, f)'
  BY <1>1, <1>3 DEF Apart
<1>5. ~ Off(f) /\ f.pc \notin {"mark", "move"}
  BY DEF Off
<1>6. Moving(f)'
  BY <1>2, <1>3, <1>4, <1>5 DEF Moving
<1> QED
  BY <1>2, <1>3, <1>6, SingleGoes

LEMMA MovesSolo ==
  ASSUME IInv, Solo, NEW CONSTANT p \in Procs, Moves(p)
  PROVE  Solo'
<1> SUFFICES ASSUME crossed = 0 PROVE Solo'
  BY SoloOnly DEF Moves
<1>t. TypeOK
  BY DEF IInv
<1>0. At(p, "reparent", "move")
  BY DEF Moves
<1>1. PICK e : e = Top(p)
  OBVIOUS
<1>2. /\ e \in Frames /\ e.pc = "move" /\ MoveTree(e) /\ e.s \in Sessions /\ e.s \in exists /\ Moving(e)
      /\ e.op = "reparent"
      /\ exists \subseteq Sessions /\ None \notin exists /\ e.par \in exists \union {None}
  BY <1>0, <1>1, MoveTop
<1>3. TreeBut({}, {}, {e.s}, {<<e.par, e.s>>}, {}, {})
  BY <1>2 DEF MoveTree, Off
<1>4. /\ born' = born /\ exists' = exists /\ listed' = listed /\ children' = children
      /\ level' = level /\ registered' = registered /\ overseer' = overseer
      /\ parent' = [parent EXCEPT ![e.s] = e.par]
  BY <1>1, <1>2 DEF Moves
<1>5. parent'[e.s] = e.par /\ \A x \in Sessions : x # e.s => parent'[x] = parent[x]
  BY <1>2, <1>4, <1>t DEF TypeOK
<1>6. TreeBut({}, {}, {}, {}, {}, {e.s})'
  <2>1. Lists({}, {})' /\ Leads({})' /\ Unborn'
    BY <1>3, <1>4 DEF TreeBut, Lists, Leads, Unborn
  <2>2. Links({}, {})'
    <3> SUFFICES ASSUME NEW x \in exists
                 PROVE  /\ parent'[x] \in exists \union {None}
                        /\ \A c \in Sessions : c \in children[x] <=> c \in exists /\ parent'[c] = x
      BY <1>4 DEF Links
    <3>1. parent[x] \in exists \union {None}
          /\ \A c \in Sessions : c \in children[x] <=>
               (c \in exists \ {e.s} /\ parent[c] = x) \/ (x = e.par /\ c = e.s)
      BY <1>3 DEF TreeBut, Links
    <3> QED
      BY <1>2, <1>5, <3>1
  <2>3. Levels({e.s})'
    BY <1>2, <1>3, <1>4, <1>5 DEF TreeBut, Levels, LevelUnder
  <2> QED
    BY <2>1, <2>2, <2>3 DEF TreeBut
<1>7. PICK l : l = LevelUnder(e.par)
  OBVIOUS
<1>8. l \in Nat
  BY <1>2, <1>7, <1>t DEF LevelUnder, TypeOK
<1>9. PICK kids : kids = children[e.s]
  OBVIOUS
<1>10. PICK f : f = Refilled(e, "level", e.s, kids, {<<e.s, l>>})
  OBVIOUS
<1>11. Goes(p, f)
  BY <1>1, <1>7, <1>9, <1>10 DEF Moves, Continues, Refilled
<1>12. Same(f, e)
  <2>1. {<<e.s, l>>} \in SUBSET Todo(e.op)
    BY <1>2, <1>8 DEF Todo
  <2>2. "level" \in Places /\ e.s \in Ons /\ kids \in SUBSET Sessions
    BY <1>2, <1>9, <1>t DEF Places, Ons, TypeOK
  <2> QED
    BY <1>2, <1>10, <2>1, <2>2, AtPcWithTodo
<1>13. /\ f.pc = "level" /\ f.par = e.par /\ f.s = e.s /\ f.on = e.s /\ f.kids = kids
       /\ f.todo = {<<e.s, l>>}
  BY <1>2, <1>10 DEF Refilled, Frames
<1>14. Late(f) = {e.s}
  BY <1>13 DEF Late
<1>15. PICK D \in SUBSET Sessions : Apart(D, e)
  BY <1>2 DEF Moving
<1>16. PICK V \in SUBSET Sessions : V = {}
  OBVIOUS
<1>17. Numbers(D, V, f)'
  <2>1. e.s \in D \intersect exists
    BY <1>2, <1>15 DEF Apart
  <2>2. LevelUnder(e.par)' = l
    BY <1>4, <1>7 DEF LevelUnder
  <2>3. LevelUnder(parent[e.s])' = l
    BY <1>5, <2>2 DEF LevelUnder
  <2>4. \A x \in f.todo : x[1] = e.s /\ x[2] = l
    BY <1>13
  <2>5. \A x \in f.todo : x[2] = LevelUnder(parent[x[1]])'
    BY <2>3, <2>4
  <2> QED
    BY <1>4, <1>9, <1>13, <1>14, <1>16, <2>1, <2>5 DEF Numbers
<1>18. TreeBut({}, {}, {}, {}, {}, Late(f))'
  BY <1>6, <1>14
<1>19. parent'[f.s] = f.par
  BY <1>5, <1>13
<1> QED
  BY <1>0, <1>1, <1>4, <1>11, <1>12, <1>13, <1>15, <1>17, <1>18, <1>19, LevelsGo

\* A session gets its level: those below it are next, and nothing above it, or
\* that has its level already, is among them.
Numbered(e, l, rest) ==
  /\ rest = (e.todo \ {<<e.on, l>>}) \union {<<c, l + 1>> : c \in e.kids \intersect exists}
  /\ level' = [level EXCEPT ![e.on] = l]
LateThen(e) == (Late(e) \ {e.on}) \union children[e.on]

LEMMA LevelFacts ==
  ASSUME TypeOK, NEW CONSTANT e \in Frames, e.op = "reparent", e.pc = "level", Moving(e),
         NEW CONSTANT D \in SUBSET Sessions, NEW CONSTANT V \in SUBSET Sessions,
         Apart(D, e), Numbers(D, V, e)
  PROVE  /\ e.on \in exists /\ e.on \in Sessions /\ e.on \in D /\ e.on \notin V /\ e.on # None
         /\ parent[e.on] # e.on /\ e.par # e.on /\ parent[e.s] = e.par
         /\ children[e.on] \subseteq exists /\ children[e.on] \subseteq D
         /\ \A c \in exists : c \in children[e.on] <=> parent[c] = e.on
         /\ children[e.on] \intersect (Late(e) \union V) = {}
         /\ e.kids = children[e.on]
         /\ \A x \in exists : parent[x] \in exists \union {None}
<1>1. /\ e.on \in exists /\ e.on \in Sessions /\ e.on \in D /\ e.on \notin V /\ e.on # None
      /\ e.kids = children[e.on] /\ exists \subseteq Sessions
  BY NoneAssumption DEF Numbers, TypeOK
<1>2. TreeBut({}, {}, {}, {}, {}, Late(e)) /\ parent[e.s] = e.par
  BY DEF Moving, Off
<1>3. \A x \in exists : parent[x] \in exists \union {None}
  BY <1>2 DEF TreeBut, Links
<1>4. \A c \in Sessions : c \in children[e.on] <=> c \in exists /\ parent[c] = e.on
  BY <1>1, <1>2 DEF TreeBut, Links
<1>5. children[e.on] \subseteq Sessions
  BY <1>1 DEF TypeOK
<1>6. children[e.on] \subseteq exists /\ \A c \in exists : c \in children[e.on] <=> parent[c] = e.on
  BY <1>1, <1>4, <1>5
<1>7. e.par \notin D /\ children[e.on] \subseteq D
  BY <1>1 DEF Apart
<1>8. ASSUME NEW c \in children[e.on], c \in Late(e) \union V PROVE FALSE
  <2>1. c = e.s \/ parent[c] \in V
    BY <1>8 DEF Numbers
  <2>2. parent[c] = e.on
    BY <1>6, <1>8
  <2> QED
    BY <1>1, <1>2, <1>7, <2>1, <2>2
<1>9. parent[e.on] # e.on
  <2>1. e.on = e.s \/ parent[e.on] \in V
    BY DEF Numbers
  <2> QED
    BY <1>1, <1>2, <1>7, <2>1
<1> QED
  BY <1>1, <1>2, <1>3, <1>6, <1>7, <1>8, <1>9

LEMMA LevelRest ==
  ASSUME TypeOK, NEW CONSTANT e \in Frames, e.op = "reparent", e.pc = "level", Moving(e),
         NEW CONSTANT D \in SUBSET Sessions, NEW CONSTANT V \in SUBSET Sessions,
         Apart(D, e), Numbers(D, V, e),
         NEW CONSTANT l, NEW CONSTANT rest, <<e.on, l>> \in e.todo, Numbered(e, l, rest)
  PROVE  /\ rest \in SUBSET (Sessions \X Nat) /\ l \in Nat /\ l = LevelUnder(parent[e.on])
         /\ {x[1] : x \in rest} = LateThen(e)
         /\ \A x \in rest : (x \in e.todo /\ x[1] \in Late(e) \ {e.on})
                            \/ (x[1] \in children[e.on] /\ x[2] = l + 1)
<1>1. e.todo \in SUBSET (Sessions \X Nat) /\ e.on \in Sessions
  BY FrameParts, LevelFacts DEF Todo
<1>2. \A x \in e.todo : x = <<x[1], x[2]>> /\ x[2] = LevelUnder(parent[x[1]]) /\ x[2] \in Nat /\ x[1] \in Late(e)
  BY <1>1 DEF Numbers, Late
<1>3. l \in Nat /\ l = LevelUnder(parent[e.on])
  <2>1. PICK x \in e.todo : x = <<e.on, l>>
    OBVIOUS
  <2>2. x[1] = e.on /\ x[2] = l
    BY <2>1
  <2> QED
    BY <1>2, <2>2
<1>4. e.kids \intersect exists = children[e.on] /\ children[e.on] \subseteq Sessions
  <2>1. e.kids = children[e.on] /\ children[e.on] \subseteq exists
    BY LevelFacts
  <2> QED
    BY <2>1 DEF TypeOK
<1>5. rest = (e.todo \ {<<e.on, l>>}) \union {<<c, l + 1>> : c \in children[e.on]}
  BY <1>4 DEF Numbered
<1>6. \A x \in e.todo : x[1] = e.on => x = <<e.on, l>>
  BY <1>2, <1>3
<1>7. \A x \in rest : (x \in e.todo /\ x[1] \in Late(e) \ {e.on})
                      \/ (\E c \in children[e.on] : x = <<c, l + 1>>)
  <2>1. ASSUME NEW x \in e.todo \ {<<e.on, l>>} PROVE x[1] \in Late(e) \ {e.on}
    BY <1>2, <1>6
  <2> QED
    BY <1>5, <2>1
<1>8. \A x \in rest : (x \in e.todo /\ x[1] \in Late(e) \ {e.on})
                      \/ (x[1] \in children[e.on] /\ x[2] = l + 1)
  BY <1>7
<1>9. rest \in SUBSET (Sessions \X Nat)
  BY <1>1, <1>3, <1>4, <1>5
<1>10. ASSUME NEW c \in LateThen(e) PROVE \E x \in rest : x[1] = c
  <2>1. CASE c \in children[e.on]
    <3>1. <<c, l + 1>> \in rest /\ <<c, l + 1>>[1] = c
      BY <1>5, <2>1
    <3> QED
      BY <3>1
  <2>2. CASE c \in Late(e) \ {e.on}
    <3>1. PICK x \in e.todo : x[1] = c
      BY <2>2 DEF Late
    <3>2. x # <<e.on, l>>
      BY <2>2, <3>1
    <3> QED
      BY <1>5, <3>1, <3>2
  <2> QED
    BY <1>10, <2>1, <2>2 DEF LateThen
<1>11. {x[1] : x \in rest} \subseteq LateThen(e)
  BY <1>8 DEF LateThen
<1>12. LateThen(e) \subseteq {x[1] : x \in rest}
  BY <1>10
<1> QED
  BY <1>3, <1>8, <1>9, <1>11, <1>12

LEMMA LevelTree ==
  ASSUME TypeOK, NEW CONSTANT e \in Frames, e.op = "reparent", e.pc = "level", Moving(e),
         NEW CONSTANT D \in SUBSET Sessions, NEW CONSTANT V \in SUBSET Sessions,
         Apart(D, e), Numbers(D, V, e),
         NEW CONSTANT l, NEW CONSTANT rest, <<e.on, l>> \in e.todo, Numbered(e, l, rest),
         born' = born, exists' = exists, listed' = listed, parent' = parent,
         children' = children, overseer' = overseer, registered' = registered
  PROVE  /\ TreeBut({}, {}, {}, {}, {}, LateThen(e))'
         /\ level'[e.on] = l
         /\ \A y \in exists \union {None} : y # e.on => LevelUnder(y)' = LevelUnder(y)
<1>1. /\ e.on \in exists /\ e.on \in Sessions /\ e.on # None /\ parent[e.on] # e.on
      /\ \A c \in exists : c \in children[e.on] <=> parent[c] = e.on
      /\ \A x \in exists : parent[x] \in exists \union {None}
  BY LevelFacts
<1>2. TreeBut({}, {}, {}, {}, {}, Late(e))
  BY DEF Moving, Off
<1>3. l = LevelUnder(parent[e.on])
  BY LevelRest
<1>4. level'[e.on] = l /\ \A x \in exists : x # e.on => level'[x] = level[x]
  BY <1>1 DEF Numbered, TypeOK
<1>5. ASSUME NEW y \in exists \union {None}, y # e.on PROVE LevelUnder(y)' = LevelUnder(y)
  BY <1>4, <1>5 DEF LevelUnder
<1>6. ASSUME NEW x \in exists \ LateThen(e) PROVE level'[x] = LevelUnder(parent[x])'
  <2>1. PICK y : y = parent[x]
    OBVIOUS
  <2>2. y \in exists \union {None} /\ y # e.on
    BY <1>1, <1>6, <2>1 DEF LateThen
  <2>3. LevelUnder(y)' = LevelUnder(y)
    BY <1>5, <2>2
  <2>4. level'[x] = LevelUnder(y)
    BY <1>2, <1>3, <1>4, <1>6, <2>1 DEF TreeBut, Levels, LateThen
  <2>5. parent'[x] = y
    BY <2>1
  <2> QED
    BY <2>3, <2>4, <2>5 DEF LevelUnder
<1>7. Levels(LateThen(e))'
  BY <1>6 DEF Levels, LateThen
<1>8. Lists({}, {})' /\ Links({}, {})' /\ Leads({})' /\ Unborn'
  BY <1>2 DEF TreeBut, Lists, Links, Leads, Unborn
<1> QED
  BY <1>4, <1>5, <1>7, <1>8 DEF TreeBut

\* The call of a move, gone on to the next session it numbers.
NextOn(e, f, rest) ==
  /\ f.s = e.s /\ f.pc = "level" /\ f.todo = rest
  /\ f.kids = children[f.on] /\ \E z \in rest : f.on = z[1]

LEMMA LevelNumbers ==
  ASSUME TypeOK, NEW CONSTANT e \in Frames, e.op = "reparent", e.pc = "level", Moving(e),
         NEW CONSTANT D \in SUBSET Sessions, NEW CONSTANT V \in SUBSET Sessions,
         Apart(D, e), Numbers(D, V, e),
         NEW CONSTANT l, NEW CONSTANT rest, <<e.on, l>> \in e.todo, Numbered(e, l, rest),
         born' = born, exists' = exists, listed' = listed, parent' = parent,
         children' = children, overseer' = overseer, registered' = registered,
         NEW CONSTANT f, NextOn(e, f, rest),
         NEW CONSTANT W, W = V \union {e.on}
  PROVE  Numbers(D, W, f)' /\ Late(f) = LateThen(e)
<1>1. /\ e.on \in exists /\ e.on \in Sessions /\ e.on \in D /\ e.on \notin V
      /\ e.par # e.on /\ parent[e.s] = e.par
      /\ children[e.on] \subseteq exists /\ children[e.on] \subseteq D
      /\ \A c \in exists : c \in children[e.on] <=> parent[c] = e.on
      /\ children[e.on] \intersect (Late(e) \union V) = {}
      /\ \A x \in exists : parent[x] \in exists \union {None}
  BY LevelFacts
<1>2. /\ {x[1] : x \in rest} = LateThen(e)
      /\ \A x \in rest : (x \in e.todo /\ x[1] \in Late(e) \ {e.on})
                         \/ (x[1] \in children[e.on] /\ x[2] = l + 1)
  BY LevelRest
<1>3. /\ level'[e.on] = l
      /\ \A y \in exists \union {None} : y # e.on => LevelUnder(y)' = LevelUnder(y)
  BY LevelTree
<1>4. /\ V \subseteq D \intersect exists /\ Late(e) \subseteq D \intersect exists
      /\ e.on \in Late(e) /\ Late(e) \intersect V = {}
      /\ \A c \in Late(e) \union V : c = e.s \/ parent[c] \in V
      /\ \A x \in e.todo : x[2] = LevelUnder(parent[x[1]])
  BY DEF Numbers
<1>f. /\ f.s = e.s /\ f.pc = "level" /\ f.todo = rest
      /\ f.kids = children[f.on] /\ \E z \in rest : f.on = z[1]
  BY DEF NextOn
<1>5. Late(f) = LateThen(e)
  BY <1>2, <1>f DEF Late
<1>6. f.on \in Late(f)
  BY <1>f DEF Late
<1>7. W \subseteq D \intersect exists /\ LateThen(e) \subseteq D \intersect exists
  BY <1>1, <1>4 DEF LateThen
<1>8. LateThen(e) \intersect W = {}
  BY <1>1, <1>4 DEF LateThen
<1>9. \A c \in LateThen(e) \union W : c = e.s \/ parent[c] \in W
  BY <1>1, <1>4 DEF LateThen
<1>10. ASSUME NEW CONSTANT x \in rest PROVE x[2] = LevelUnder(parent[x[1]])'
  <2>1. PICK y : y = parent[x[1]]
    OBVIOUS
  <2>2. x[1] \in exists /\ y \in exists \union {None} /\ parent'[x[1]] = y
    BY <1>1, <1>2, <1>4, <2>1
  <2>3. CASE x \in e.todo /\ x[1] \in Late(e) \ {e.on}
    <3>1. y # e.on
      BY <1>1, <1>4, <2>1, <2>3
    <3>2. LevelUnder(y)' = LevelUnder(y)
      BY <1>3, <2>2, <3>1
    <3>3. x[2] = LevelUnder(y)
      BY <1>4, <2>1, <2>3
    <3> QED
      BY <2>2, <3>2, <3>3 DEF LevelUnder
  <2>4. CASE x[1] \in children[e.on] /\ x[2] = l + 1
    <3>1. y = e.on
      BY <1>1, <2>1, <2>2, <2>4
    <3>2. LevelUnder(y)' = l + 1
      BY <1>1, <1>3, <3>1, NoneAssumption DEF LevelUnder
    <3> QED
      BY <2>2, <2>4, <3>2 DEF LevelUnder
  <2> QED
    BY <1>2, <2>3, <2>4
<1>11. \A x \in f.todo : x[2] = LevelUnder(parent[x[1]])'
  BY <1>10, <1>f
<1>12. f.kids = children'[f.on]
  BY <1>f
<1> QED
  BY <1>5, <1>6, <1>7, <1>8, <1>9, <1>11, <1>12, <1>f DEF Numbers, Late

LEMMA RelevelsSolo ==
  ASSUME IInv, Solo, NEW CONSTANT p \in Procs, Relevels(p)
  PROVE  Solo'
<1> SUFFICES ASSUME crossed = 0 PROVE Solo'
  BY SoloOnly DEF Relevels
<1>t. TypeOK
  BY DEF IInv
<1>0. At(p, "reparent", "level")
  BY DEF Relevels
<1>1. PICK e : e = Top(p)
  OBVIOUS
<1>2. /\ ~ Idle(p) /\ Alone(p) /\ Len(stack[p]) = 1
      /\ e \in Frames /\ e.pc = "level" /\ e.op = "reparent" /\ Moving(e)
  BY <1>0, <1>1, MoveTop
<1>3. PICK D \in SUBSET Sessions :
        Apart(D, e) /\ parent[e.s] = e.par /\ \E V \in SUBSET Sessions : Numbers(D, V, e)
  BY <1>2 DEF Moving
<1>4. PICK V \in SUBSET Sessions : Numbers(D, V, e)
  BY <1>3
<1>5. e.on \in exists /\ e.todo \in SUBSET (Sessions \X Nat)
  BY <1>2, <1>3, <1>4, <1>t, LevelFacts, FrameParts DEF Todo
<1>6. PICK l \in {x[2] : x \in {x \in Top(p).todo : x[1] = Top(p).on}} :
        LET rest == (Top(p).todo \ {<<Top(p).on, l>>})
                      \union {<<c, l + 1>> : c \in Top(p).kids \intersect exists} IN
        /\ level' = IF Top(p).on \in exists THEN [level EXCEPT ![Top(p).on] = l] ELSE level
        /\ IF rest = {}
           THEN lock' = [lock EXCEPT ![Tree] = None] /\ Returns(p, TRUE)
           ELSE /\ \E x \in rest : Continues(p, [Top(p) EXCEPT !.todo = rest, !.on = x[1],
                                                          !.kids = children[x[1]]])
                /\ UNCHANGED lock
  BY DEF Relevels
<1>7. PICK rest : rest = (e.todo \ {<<e.on, l>>}) \union {<<c, l + 1>> : c \in e.kids \intersect exists}
  OBVIOUS
<1>8. /\ level' = IF e.on \in exists THEN [level EXCEPT ![e.on] = l] ELSE level
      /\ rest = {} => Returns(p, TRUE)
      /\ rest # {} => \E x \in rest : Continues(p, [e EXCEPT !.todo = rest, !.on = x[1],
                                                            !.kids = children[x[1]]])
  BY <1>1, <1>7, <1>6
<1>9. <<e.on, l>> \in e.todo
  <2>1. PICK x \in e.todo : x[1] = e.on /\ x[2] = l
    BY <1>1, <1>6
  <2>2. x = <<x[1], x[2]>>
    BY <1>5
  <2> QED
    BY <2>1, <2>2
<1>10. Numbered(e, l, rest)
  BY <1>5, <1>8, <1>7 DEF Numbered
<1>11. /\ born' = born /\ exists' = exists /\ listed' = listed /\ parent' = parent
       /\ children' = children /\ overseer' = overseer /\ registered' = registered
  BY DEF Relevels
<1>12. TreeBut({}, {}, {}, {}, {}, LateThen(e))'
  BY <1>2, <1>3, <1>4, <1>9, <1>10, <1>11, <1>t, LevelTree
<1>13. {x[1] : x \in rest} = LateThen(e) /\ rest \in SUBSET (Sessions \X Nat)
  BY <1>2, <1>3, <1>4, <1>9, <1>10, <1>t, LevelRest
<1>14. CASE rest = {}
  <2>1. LateThen(e) = {}
    BY <1>13, <1>14
  <2>2. TreeFor({}, {})'
    <3>1. PICK L : L = LateThen(e)
      OBVIOUS
    <3>2. TreeBut({}, {}, {}, {}, {}, L)'
      BY <1>11, <1>12, <3>1 DEF LateThen
    <3> QED
      BY <2>1, <3>1, <3>2 DEF TreeFor
  <2>3. Returns(p, TRUE)
    BY <1>8, <1>14
  <2> QED
    BY <1>2, <2>2, <2>3, SingleReturns
<1>15. CASE rest # {}
  <2>1. PICK x \in rest : Continues(p, [e EXCEPT !.todo = rest, !.on = x[1], !.kids = children[x[1]]])
    BY <1>8, <1>15
  <2>2. PICK kids : kids = children[x[1]]
    OBVIOUS
  <2>3. PICK f : f = Onward(e, x[1], kids, rest)
    OBVIOUS
  <2>4. Goes(p, f)
    BY <2>1, <2>2, <2>3 DEF Continues, Onward
  <2>5. Same(f, e)
    <3>1. x[1] \in Sessions /\ x[1] \in Ons /\ rest \in SUBSET Todo(e.op)
      BY <1>2, <1>13 DEF Todo, Ons
    <3>2. kids \in SUBSET Sessions
      BY <1>t, <2>2, <3>1 DEF TypeOK
    <3> QED
      BY <1>2, <2>3, <3>1, <3>2, OnWithTodo
  <2>6. /\ f.pc = "level" /\ f.par = e.par /\ f.s = e.s /\ f.on = x[1] /\ f.kids = kids
        /\ f.todo = rest
    BY <1>2, <2>3 DEF Onward, Frames
  <2>7. PICK W : W = V \union {e.on}
    OBVIOUS
  <2>n. NextOn(e, f, rest)
    BY <2>2, <2>6 DEF NextOn
  <2>8. Numbers(D, W, f)' /\ Late(f) = LateThen(e)
    BY <1>2, <1>3, <1>4, <1>9, <1>10, <1>11, <1>t, <2>n, <2>7, LevelNumbers
  <2>9. W \in SUBSET Sessions
    BY <1>5, <1>t, <2>7 DEF TypeOK
  <2>10. TreeBut({}, {}, {}, {}, {}, Late(f))'
    <3>1. PICK L : L = LateThen(e)
      OBVIOUS
    <3>2. TreeBut({}, {}, {}, {}, {}, L)'
      BY <1>11, <1>12, <3>1 DEF LateThen
    <3> QED
      BY <2>8, <3>1, <3>2
  <2>11. parent'[f.s] = f.par
    BY <1>3, <1>11, <2>6
  <2> QED
    BY <1>0, <1>1, <1>3, <1>11, <2>4, <2>5, <2>6, <2>8, <2>9, <2>10, <2>11, LevelsGo
<1> QED
  BY <1>14, <1>15

-----------------------------------------------------------------------------
(* The tree is sound.                                                      *)

LEMMA InitSolo == Init => Solo
<1> SUFFICES ASSUME Init PROVE Solo
  OBVIOUS
<1>1. /\ born = {} /\ exists = {} /\ listed = {} /\ registered = {}
      /\ children = [s \in Sessions |-> {}]
  BY DEF Init
<1>2. TreeFor({}, {})
  BY <1>1 DEF TreeFor, TreeBut, Lists, Links, Leads, Levels, Unborn
<1>3. Removing(<<>>)
  BY <1>2, NothingToDo
<1>4. \A p \in Procs : Idle(p)
  BY DEF Init, Idle
<1> QED
  BY <1>3, <1>4 DEF Solo

LEMMA RebootSolo ==
  ASSUME IInv, Solo, Reboot
  PROVE  Solo'
<1>t. TypeOK
  BY DEF IInv
<1>1. \A p \in Procs : stack'[p] = <<>>
  BY DEF Reboot
<1>2. ASSUME crossed' = 0 PROVE Removing(<<>>)'
  <2>1. crossed = 0 /\ \A p \in Procs : Idle(p)
    BY <1>2, MaxCrossedAssumption DEF Reboot
  <2>2. Removing(<<>>)
    BY <2>1 DEF Solo
  <2>3. TreeFor({}, {})
    <3>1. \A i \in 1 .. 0 : FALSE
      OBVIOUS
    <3>2. \A pcs : Out(<<>>, pcs, Len(<<>>)) = {}
      BY <3>1, NoCalls DEF Out
    <3> QED
      BY <2>2, <3>2 DEF Removing, TreeFor
  <2>4. /\ born' = born /\ exists' = exists /\ parent' = parent /\ level' = level /\ overseer' = overseer
        /\ listed' = listed \intersect exists /\ registered' = exists
    BY DEF Reboot, Rebuild
  <2>5. \A x \in Sessions : children'[x] \subseteq children[x]
    BY DEF Reboot
  <2>6. ASSUME NEW x \in exists PROVE children'[x] = children[x]
    <3>1. x \in Sessions /\ children[x] \subseteq Sessions
      BY <1>t DEF TypeOK
    <3>2. children[x] \subseteq exists
      BY <2>3, <3>1 DEF TreeFor, TreeBut, Links
    <3> QED
      BY <3>1, <3>2 DEF Reboot
  <2>7. Lists({}, {})' /\ Links({}, {})'
    BY <2>3, <2>4, <2>6 DEF TreeFor, TreeBut, Lists, Links
  <2>8. Leads({})' /\ Levels({})'
    BY <2>3, <2>4, <2>6 DEF TreeFor, TreeBut, Leads, Levels, LevelUnder
  <2>9. Unborn'
    BY <2>3, <2>4, <2>5 DEF TreeFor, TreeBut, Unborn
  <2>10. TreeFor({}, {})'
    BY <2>7, <2>8, <2>9 DEF TreeFor, TreeBut
  <2> QED
    BY <2>10, NothingToDo
<1> QED
  BY <1>1, <1>2 DEF Solo, Idle

LEMMA GoesOnSolo ==
  ASSUME IInv, Solo, NEW CONSTANT p \in Procs, GoesOn(p)
  PROVE  Solo'
<1>1. CASE WaitForLock(p)
  BY <1>1, WaitForLockSolo
<1>2. CASE SpawnMarks(p) \/ SpawnLinks(p)
  BY <1>2, SpawnMarksSolo, SpawnLinksSolo
<1>3. CASE Ending(p)
  BY <1>3, ClientAskedSolo, ClientEndedSolo, SessionClosesSolo, SessionIsClosedSolo DEF Ending
<1>4. CASE Deleting(p)
  BY <1>4, DeleteChildSolo, DeleteUnlinksSolo, DeletePausesSolo, DeleteErasesSolo DEF Deleting
<1>5. CASE Disposing(p)
  BY <1>5, DisposeChildSolo, DisposeEndsSolo, DisposeKeepsSolo, DisposeUnlinksSolo,
     DisposeWritesSolo, DisposeUnmarksSolo, DisposeDeletesSolo, DisposeReturnsSolo DEF Disposing
<1>6. CASE Reparenting(p)
  BY <1>6, LeavesSolo, LeavesOldSolo, UnmarksOldSolo, JoinsNewSolo, WritesNewSolo, MarksNewSolo,
     MovesSolo, RelevelsSolo DEF Reparenting
<1> QED
  BY <1>1, <1>2, <1>3, <1>4, <1>5, <1>6 DEF GoesOn

LEMMA NextSolo == IInv /\ Solo /\ [Next]_hierVars => Solo'
<1> SUFFICES ASSUME IInv, Solo, [Next]_hierVars PROVE Solo'
  OBVIOUS
<1>1. ASSUME NEW CONSTANT s \in Sessions, CreateMinion(s) \/ StartSession(s) \/ UpdateExpertise(s)
      PROVE  Solo'
  BY <1>1, CreateMinionSolo, StartSessionSolo, UpdateExpertiseSolo
<1>2. ASSUME NEW CONSTANT p \in Procs, NEW CONSTANT s \in Sessions
      PROVE  /\ \A by, par \in Sessions : SpawnByMinion(p, by, par, s) => Solo'
             /\ \A by, par \in Sessions, hard \in BOOLEAN : Dispose(p, by, par, s, hard) => Solo'
             /\ \A par \in Sessions \union {None} : Reparent(p, s, par) => Solo'
             /\ \A by, par \in Sessions : ReparentByMinion(p, by, s, par) => Solo'
             /\ Delete(p, s) => Solo'
             /\ Terminate(p, s) => Solo'
  <2>1. ASSUME NEW CONSTANT by \in Sessions, NEW CONSTANT par \in Sessions, SpawnByMinion(p, by, par, s)
        PROVE  Solo'
    BY <2>1, SpawnMinionSolo DEF SpawnByMinion
  <2>2. ASSUME NEW CONSTANT by \in Sessions, NEW CONSTANT par \in Sessions,
               NEW CONSTANT hard \in BOOLEAN, Dispose(p, by, par, s, hard)
        PROVE  Solo'
    BY <2>2, DisposeSolo
  <2>3. ASSUME NEW CONSTANT par \in Sessions \union {None}, Reparent(p, s, par) PROVE Solo'
    BY <2>3, ReparentSolo
  <2>4. ASSUME NEW CONSTANT by \in Sessions, NEW CONSTANT par \in Sessions, ReparentByMinion(p, by, s, par)
        PROVE  Solo'
    BY <2>3, <2>4 DEF ReparentByMinion
  <2> QED
    BY <2>1, <2>2, <2>3, <2>4, DeleteSolo, TerminateSolo
<1>3. ASSUME NEW CONSTANT p \in Procs, GoesOn(p) PROVE Solo'
  BY <1>3, GoesOnSolo
<1>4. CASE Reboot
  BY <1>4, RebootSolo
<1>5. CASE UNCHANGED hierVars
  <2>1. stack' = stack /\ crossed' = crossed /\ UNCHANGED <<born, treeVars>> /\ up' = up
    BY <1>5 DEF hierVars, procVars
  <2> QED
    BY <2>1, StillSound, SoloKept
<1> QED
  BY <1>1, <1>2, <1>3, <1>4, <1>5 DEF Next

\* Whatever operation runs alone, the records are a tree but for what its calls
\* have done so far, and each of its calls is at a place where the rest of them
\* makes it a tree again.
THEOREM TreeSolo == Spec => []Solo
BY InitSolo, NextSolo, AlwaysIInv, PTL DEF Spec

LEMMA SoloIsTree ==
  ASSUME IInv, Solo
  PROVE  TreeIsSound
<1>1. CASE crossed = 0 /\ \A p \in Procs : Idle(p)
  <2>1. Removing(<<>>)
    BY <1>1 DEF Solo
  <2>2. TreeBut({}, {}, {}, {}, {}, {})
    <3>1. \A i \in 1 .. 0 : FALSE
      OBVIOUS
    <3>2. \A pcs : Out(<<>>, pcs, Len(<<>>)) = {}
      BY <3>1, NoCalls DEF Out
    <3> QED
      BY <2>1, <3>2 DEF Removing
  <2> QED
    BY <2>2, TreeIsTree DEF IInv
<1>2. CASE ~ (crossed = 0 /\ \A p \in Procs : Idle(p))
  BY <1>2 DEF TreeIsSound
<1> QED
  BY <1>1, <1>2

\* When no operations have overlapped, parents and children know one another,
\* levels count from the root, parents are overseers, the project and the
\* registry have the sessions that are there, and who sees a minion is seen by it
\* (overseer_controller, delete_session), for any number of sessions.
THEOREM TreeStays == Spec => []TreeIsSound
<1>1. IInv /\ Solo => TreeIsSound
  BY SoloIsTree
<1> QED
  BY <1>1, TreeSolo, AlwaysIInv, PTL

==============================================================================
