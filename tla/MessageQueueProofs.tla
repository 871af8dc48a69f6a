------------------------- MODULE MessageQueueProofs -------------------------
(***************************************************************************)
(* Proofs about MessageQueue, for every number of items, every limit on    *)
(* the pending ones and every number of failed writes: its invariants, and *)
(* that it implements DurableQueue.                                        *)
(***************************************************************************)
EXTENDS MessageQueue, TLAPS

\* The list r is q with the status s for the items S.
Relabels(r, q, S, s) ==
  /\ IsList(r)
  /\ DOMAIN r = DOMAIN q
  /\ \A i \in DOMAIN q : /\ r[i].position = q[i].position
                         /\ r[i].status = IF i \in S THEN s ELSE q[i].status

\* The list r is q with a pending item i at the position p.
Adds(r, q, i, p) ==
  /\ IsList(r)
  /\ DOMAIN r = DOMAIN q \union {i}
  /\ r[i].status = "pending" /\ r[i].position = p
  /\ \A j \in DOMAIN q \ {i} : r[j] = q[j]

\* Setting the status of some items keeps the list and the positions.
LEMMA WithStatusRelabels ==
  ASSUME NEW q, IsList(q), NEW S, NEW s \in Status
  PROVE  Relabels(WithStatus(q, S, s), q, S, s)
BY DEF Relabels, WithStatus, IsList, Item

\* Adding an item keeps the list, and what it says of the other items.
LEMMA WithItemAdds ==
  ASSUME NEW q, IsList(q), NEW i, NEW p \in Positions
  PROVE  Adds(WithItem(q, i, p), q, i, p)
BY DEF Adds, WithItem, IsList, Item, Status

\* The list r is what q says of the items S.
Restricts(r, q, S) ==
  /\ IsList(r)
  /\ DOMAIN r = DOMAIN q \intersect S
  /\ \A i \in DOMAIN r : r[i] = q[i]

\* What is kept of a list is a list of the same items.
LEMMA KeepRestricts ==
  ASSUME NEW q, IsList(q), NEW S
  PROVE  Restricts(Keep(q, S), q, S)
BY DEF Restricts, Keep, IsList

\* What load_queue returns holds every item that has not been cleared.
LEMMA LoadIsList ==
  ASSUME NEW items, IsList(items), NEW newest
  PROVE  LET r == Load(items, newest) IN
         /\ IsList(r)
         /\ DOMAIN r \subseteq DOMAIN items
         /\ \A i \in DOMAIN r : r[i] = items[i]
         /\ \A i \in DOMAIN items \ DOMAIN r :
              items[i].status \in Terminal /\ i <= newest
         /\ \A i \in DOMAIN r : ~ (/\ items[i].status \in Terminal
                                  /\ newest > 0
                                  /\ i <= newest)
<1> DEFINE kept == {i \in DOMAIN items :
                      ~ (/\ items[i].status \in Terminal
                         /\ newest > 0
                         /\ i <= newest)}
<1>1. Load(items, newest) = Keep(items, kept)
  BY DEF Load
<1> HIDE DEF kept
<1>2. Restricts(Load(items, newest), items, kept)
  BY <1>1, KeepRestricts
<1>3. \A i \in DOMAIN items \ kept : items[i].status \in Terminal /\ i <= newest
  BY DEF kept
<1>4. \A i \in kept : ~ (/\ items[i].status \in Terminal
                         /\ newest > 0
                         /\ i <= newest)
  BY DEF kept
<1> QED
  BY <1>2, <1>3, <1>4 DEF Restricts

-----------------------------------------------------------------------------
(* The strengthening.  Memory and file agree on every item both hold, save *)
(* those of `lost`; what only the file holds was cleared; and the order of *)
(* arrival is the order of the positions, in memory and in the file.       *)

Agree == \A i \in DOMAIN mem \ lost :
           i \in DOMAIN file /\ file[i].status = mem[i].status

OnlyOnDisk == \A i \in DOMAIN file \ (DOMAIN mem \union lost) :
                file[i].status \in Terminal /\ i <= cleared

InOrder == \A i, j \in Pending(mem) \ moved :
             i < j => mem[i].position < mem[j].position

SamePosition == \A i \in Pending(mem) \ (lost \union moved) :
                  file[i].position = mem[i].position

IInv == TypeOK /\ Agree /\ OnlyOnDisk /\ InOrder /\ SamePosition

\* The strengthening holds at the start.
LEMMA InitIInv == Init => IInv
<1> SUFFICES ASSUME Init PROVE IInv
  OBVIOUS
<1>1. IsList(EmptyList) /\ DOMAIN EmptyList = {}
  BY DEF EmptyList, IsList
<1>2. TypeOK
  <2>1. 0 \in 0 .. MaxItems /\ 0 \in 0 .. 0
    BY MaxItemsAssumption
  <2> QED
    BY <1>1, <2>1 DEF Init, TypeOK, Tears
<1>3. Agree /\ OnlyOnDisk
  BY <1>1 DEF Init, Agree, OnlyOnDisk
<1>4. Pending(mem) = {}
  BY <1>1 DEF Init, Pending
<1>5. InOrder /\ SamePosition
  BY <1>4 DEF InOrder, SamePosition
<1> QED
  BY <1>2, <1>3, <1>5 DEF IInv

-----------------------------------------------------------------------------
(* What a write does to the file.                                          *)

\* For the items S the file has the status s now, as far as it is read: what
\* the replay does not read, or no longer, is lost.
Records(S, s) ==
  /\ IsList(file') /\ DOMAIN file' \subseteq DOMAIN file
  /\ cleared' \in 0 .. cleared /\ torn' \in Tears \union {"dead"}
  /\ lost \subseteq lost' /\ lost' \subseteq 1 .. created'
  /\ \A i \in DOMAIN file \ lost' :
       /\ i \in DOMAIN file' /\ file'[i].position = file[i].position
       /\ file'[i].status = IF i \in S THEN s ELSE file[i].status
       /\ i <= cleared => i <= cleared'

\* A new item can be created, and the old ones stay.
LEMMA CreatedIs ==
  ASSUME IInv, created' \in {created, created + 1}
  PROVE  /\ created \in Nat /\ cleared \in 0 .. created
         /\ 1 .. created \subseteq 1 .. created'
         /\ DOMAIN file \subseteq 1 .. created /\ lost \subseteq 1 .. created'
BY MaxItemsAssumption DEF IInv, TypeOK

\* Earlier in the file there were the same items, or fewer.
LEMMA EarlierIs ==
  ASSUME IInv, NEW items \in Earlier
  PROVE  IsList(items) /\ DOMAIN items \subseteq DOMAIN file
<1>1. PICK n \in 0 .. created, early \in SUBSET DOMAIN file :
        items = [i \in DOMAIN file \intersect 1 .. n |->
                   IF i \in early THEN [file[i] EXCEPT !.status = "pending"]
                   ELSE file[i]]
  BY DEF Earlier
<1>2. IsList(file)
  BY DEF IInv, TypeOK
<1> QED
  BY <1>1, <1>2 DEF IsList, Item, Status

\* What is written where the replay does not get to is lost, and what it no
\* longer gets to.
LEMMA UnreadRecords ==
  ASSUME IInv, created' \in {created, created + 1},
         NEW S \in SUBSET (1 .. created'), AppendUnread(S), NEW s
  PROVE  Records(S, s) /\ S \subseteq lost'
<1>1. S \subseteq lost' /\ torn' = "dead" /\ lost \subseteq lost'
  BY DEF AppendUnread
<1>2. CASE torn = "dead"
  <2>1. file' = file /\ cleared' = cleared /\ lost' = lost \union S
    BY <1>2 DEF AppendUnread
  <2>2. IsList(file) /\ cleared \in 0 .. cleared
    BY CreatedIs DEF IInv, TypeOK
  <2>3. lost' \subseteq 1 .. created'
    BY <2>1, CreatedIs
  <2> QED
    BY <1>1, <2>1, <2>2, <2>3 DEF Records
<1>3. CASE torn # "dead"
  <2>1. PICK items \in Earlier, newest \in 0 .. cleared :
          /\ file' = items /\ cleared' = newest
          /\ lost' = lost \union S \union Unread(items, newest)
    BY <1>3 DEF AppendUnread
  <2>2. IsList(file') /\ DOMAIN file' \subseteq DOMAIN file
    BY <2>1, EarlierIs
  <2>3. Unread(items, newest) \subseteq 1 .. created'
    BY CreatedIs DEF Unread
  <2>4. lost' \subseteq 1 .. created'
    BY <2>1, <2>3, CreatedIs
  <2>5. ASSUME NEW i \in DOMAIN file \ lost'
        PROVE  i \in DOMAIN file' /\ file'[i] = file[i] /\ (i <= cleared => i <= cleared')
    <3>1. i \in DOMAIN items /\ items[i] = file[i]
      BY <2>1, <2>5 DEF Unread
    <3>2. i \in 1 .. created /\ cleared \in 0 .. created /\ created \in Nat
      BY CreatedIs
    <3>3. i <= cleared => ~ newest < cleared
      BY <2>1, <2>5, <3>2 DEF Unread
    <3> QED
      BY <2>1, <3>1, <3>2, <3>3
  <2> QED
    BY <1>1, <2>1, <2>2, <2>4, <2>5 DEF Records
<1> QED
  BY <1>2, <1>3

\* A line that is not read leaves what is in the file.
LEMMA LostRecords ==
  ASSUME IInv, created' \in {created, created + 1}, NEW S \in SUBSET (1 .. created'),
         UNCHANGED <<file, cleared>>, lost' = lost \union S,
         torn' \in Tears \union {"dead"}, NEW s
  PROVE  Records(S, s) /\ S \subseteq lost'
<1>1. IsList(file) /\ cleared \in 0 .. cleared
  BY CreatedIs DEF IInv, TypeOK
<1>2. lost' \subseteq 1 .. created'
  BY CreatedIs
<1> QED
  BY <1>1, <1>2 DEF Records

\* A line whose write raises is lost.
LEMMA FailsRecords ==
  ASSUME IInv, created' \in {created, created + 1},
         NEW S \in SUBSET (1 .. created'), AppendFails(S), NEW s
  PROVE  Records(S, s) /\ S \subseteq lost'
<1>1. CASE AppendUnread(S)
  BY <1>1, UnreadRecords
<1>2. CASE ~ AppendUnread(S)
  <2>1. torn \in Tears \union {"dead"}
    BY DEF IInv, TypeOK
  <2>2. /\ torn' \in Tears \union {"dead"} /\ lost' = lost \union S
        /\ UNCHANGED <<file, cleared>>
    BY <1>2, <2>1 DEF AppendFails, Tears
  <2> QED
    BY <2>2, LostRecords
<1> QED
  BY <1>1, <1>2

\* A line that is written can be read, or it is lost.
LEMMA AppendIs ==
  ASSUME IInv, created' \in {created, created + 1},
         NEW S \in SUBSET (1 .. created'), NEW items, NEW newest,
         NEW ends \in SUBSET Tears, Append(S, items, newest, ends), NEW s
  PROVE  /\ torn' \in Tears \union {"dead"}
         /\ \/ file' = items /\ cleared' = newest /\ lost' = lost
            \/ Records(S, s) /\ S \subseteq lost'
<1>1. CASE torn = "no"
  BY <1>1 DEF Append
<1>2. CASE torn = "line"
  BY <1>2, LostRecords DEF Append
<1>3. CASE torn \in {"char", "dead"}
  <2>1. AppendUnread(S)
    BY <1>3 DEF Append
  <2> QED
    BY <2>1, UnreadRecords DEF Records
<1> QED
  BY <1>1, <1>2, <1>3 DEF IInv, TypeOK, Tears

\* The same of a line of which some writes raise.
LEMMA WriteIs ==
  ASSUME IInv, created' \in {created, created + 1},
         NEW S \in SUBSET (1 .. created'), NEW items, NEW newest,
         NEW ok, Write(S, items, newest, ok), NEW s
  PROVE  /\ torn' \in Tears \union {"dead"}
         /\ \/ file' = items /\ cleared' = newest /\ lost' = lost
            \/ Records(S, s) /\ S \subseteq lost'
<1>1. CASE ok
  <2>1. Append(S, items, newest, {"no"}) /\ {"no"} \in SUBSET Tears
    BY <1>1 DEF Write, Tears
  <2> QED
    BY <2>1, AppendIs
<1>2. CASE ~ ok
  BY <1>2, FailsRecords DEF Write, Records
<1> QED
  BY <1>1, <1>2

-----------------------------------------------------------------------------
(* The actions.                                                            *)

\* A new item at p, in memory and in the file or else lost, keeps what memory
\* and file say of each other.
LEMMA AddedIInv ==
  ASSUME IInv, created' = created + 1, created < MaxItems, NEW at \in Positions,
         NEW p \in Positions, NEW s, mem' = WithItem(mem, created + 1, at),
         torn' \in Tears \union {"dead"},
         \/ file' = WithItem(file, created + 1, p) /\ cleared' = cleared /\ lost' = lost
         \/ Records({created + 1}, s) /\ created + 1 \in lost',
         moved \subseteq moved', moved' \subseteq moved \union {created + 1}
  PROVE  /\ TypeOK' /\ Agree' /\ OnlyOnDisk' /\ Adds(mem', mem, created + 1, at)
         /\ created + 1 \notin DOMAIN mem
         /\ Pending(mem') = Pending(mem) \union {created + 1}
         /\ \A j \in Pending(mem') \ (lost' \union moved' \union {created + 1}) :
              file'[j].position = mem'[j].position
         /\ created + 1 \in lost' \/ file'[created + 1].position = p
<1> DEFINE new == created + 1
<1>1. /\ created \in Nat /\ new \in 1 .. created' /\ new \in 1 .. MaxItems
      /\ 1 .. created \subseteq 1 .. created' /\ 0 .. created \subseteq 0 .. created'
  BY MaxItemsAssumption DEF IInv, TypeOK
<1>2. Adds(mem', mem, new, at)
  BY WithItemAdds DEF IInv, TypeOK
<1>3. Adds(WithItem(file, new, p), file, new, p)
  BY WithItemAdds DEF IInv, TypeOK
<1>4. new \notin DOMAIN mem /\ new \notin DOMAIN file
  BY <1>1 DEF IInv, TypeOK
<1>5. Pending(mem') = Pending(mem) \union {new}
  BY <1>2, <1>4 DEF Adds, Pending
<1>6. /\ IsList(mem') /\ DOMAIN mem' \subseteq 1 .. created'
      /\ moved' \subseteq 1 .. created' /\ created' \in 0 .. MaxItems
  BY <1>1, <1>2 DEF Adds, IInv, TypeOK
<1>7. CASE file' = WithItem(file, new, p) /\ cleared' = cleared /\ lost' = lost
  <2>1. IsList(file') /\ DOMAIN file' \subseteq 1 .. created'
    BY <1>1, <1>3, <1>7 DEF Adds, IInv, TypeOK
  <2>2. cleared' \in 0 .. created' /\ lost' \subseteq 1 .. created'
    BY <1>1, <1>7 DEF IInv, TypeOK
  <2>3. TypeOK'
    BY <1>6, <2>1, <2>2 DEF TypeOK
  <2>4. Agree' /\ OnlyOnDisk'
    BY <1>2, <1>3, <1>4, <1>7 DEF Adds, IInv, Agree, OnlyOnDisk
  <2>5. ASSUME NEW j \in Pending(mem') \ (lost' \union moved' \union {new})
        PROVE  file'[j].position = mem'[j].position
    <3>1. j \in Pending(mem) \ (lost \union moved) /\ mem'[j] = mem[j] /\ j # new
      BY <1>2, <1>5, <1>7, <2>5 DEF Adds, Pending
    <3>2. j \in DOMAIN file /\ file[j].position = mem[j].position
      BY <3>1 DEF IInv, SamePosition, Agree, Pending
    <3> QED
      BY <1>3, <1>7, <3>1, <3>2 DEF Adds
  <2>6. file'[new].position = p
    BY <1>3, <1>7 DEF Adds
  <2> QED
    BY <1>2, <1>4, <1>5, <2>3, <2>4, <2>5, <2>6
<1>8. CASE Records({new}, s) /\ new \in lost'
  <2>1. IsList(file') /\ DOMAIN file' \subseteq 1 .. created'
    BY <1>1, <1>8 DEF Records, IInv, TypeOK
  <2>2. cleared' \in 0 .. created' /\ lost' \subseteq 1 .. created'
    BY <1>1, <1>8 DEF Records, IInv, TypeOK
  <2>3. TypeOK'
    BY <1>6, <2>1, <2>2 DEF TypeOK
  <2>4. ASSUME NEW j \in DOMAIN mem' \ lost'
        PROVE  /\ j \in DOMAIN mem /\ mem'[j] = mem[j] /\ j \in DOMAIN file'
               /\ file'[j].status = mem[j].status
               /\ j \in DOMAIN file /\ file'[j].position = file[j].position
    <3>1. j \in DOMAIN mem \ lost /\ mem'[j] = mem[j] /\ j # new
      BY <1>2, <1>8, <2>4 DEF Adds, Records
    <3>2. j \in DOMAIN file /\ file[j].status = mem[j].status
      BY <3>1 DEF IInv, Agree
    <3> QED
      BY <1>8, <2>4, <3>1, <3>2 DEF Records
  <2>5. Agree'
    BY <2>4 DEF Agree
  <2>6. OnlyOnDisk'
    <3> SUFFICES ASSUME NEW i \in DOMAIN file' \ (DOMAIN mem' \union lost')
                 PROVE  file'[i].status \in Terminal /\ i <= cleared'
      BY DEF OnlyOnDisk
    <3>1. i \in DOMAIN file \ (DOMAIN mem \union lost) /\ i # new
      BY <1>2, <1>8 DEF Records, Adds
    <3>2. file[i].status \in Terminal /\ i <= cleared
      BY <3>1 DEF IInv, OnlyOnDisk
    <3> QED
      BY <1>8, <3>1, <3>2 DEF Records
  <2>7. ASSUME NEW j \in Pending(mem') \ (lost' \union moved' \union {new})
        PROVE  file'[j].position = mem'[j].position
    <3>1. j \in DOMAIN mem' \ lost' /\ j \in Pending(mem) \ (lost \union moved)
      BY <1>5, <1>8, <2>7 DEF Pending, Records
    <3>2. file[j].position = mem[j].position
      BY <3>1 DEF IInv, SamePosition
    <3> QED
      BY <2>4, <3>1, <3>2
  <2> QED
    BY <1>2, <1>4, <1>5, <1>8, <2>3, <2>5, <2>6, <2>7
<1> QED
  BY <1>7, <1>8

\* enqueue keeps the strengthening.
LEMMA EnqueueIInv ==
  ASSUME IInv, NEW ok \in BOOLEAN, Enqueue(ok)
  PROVE  IInv'
<1> DEFINE new == created + 1
<1>1. PICK p \in Positions :
        /\ IsBack(mem, p)
        /\ mem' = WithItem(mem, new, p)
        /\ Write({new}, WithItem(file, new, p), cleared, ok)
  BY DEF Enqueue
<1>2. created' = new /\ created < MaxItems /\ moved' = moved
  BY DEF Enqueue
<1>3. created \in Nat /\ {new} \in SUBSET (1 .. created')
  BY <1>2, MaxItemsAssumption DEF IInv, TypeOK
<1>4. /\ torn' \in Tears \union {"dead"}
      /\ \/ file' = WithItem(file, new, p) /\ cleared' = cleared /\ lost' = lost
         \/ Records({new}, "sent") /\ {new} \subseteq lost'
  BY <1>1, <1>2, <1>3, WriteIs
<1>5. /\ TypeOK' /\ Agree' /\ OnlyOnDisk' /\ Adds(mem', mem, new, p)
      /\ new \notin DOMAIN mem /\ Pending(mem') = Pending(mem) \union {new}
      /\ \A j \in Pending(mem') \ (lost' \union moved' \union {new}) :
           file'[j].position = mem'[j].position
      /\ new \in lost' \/ file'[new].position = p
  BY <1>1, <1>2, <1>4, AddedIInv
<1>6. InOrder'
  <2>1. \A i \in Pending(mem) : mem[i].position < p /\ i < new
    BY <1>1 DEF IsBack, IInv, TypeOK, Pending
  <2> QED
    BY <2>1, <1>2, <1>5 DEF Adds, IInv, InOrder, TypeOK, Pending
<1>7. SamePosition'
  BY <1>5 DEF SamePosition, Adds
<1> QED
  BY <1>5, <1>6, <1>7 DEF IInv

\* The strengthening survives a change of status of the items S in memory,
\* which the file records as far as it is read.
LEMMA RelabelIInv ==
  ASSUME IInv, NEW S \in SUBSET DOMAIN mem, NEW s \in Terminal,
         Relabels(mem', mem, S, s), Records(S, s),
         UNCHANGED <<created, moved>>
  PROVE  IInv'
<1>1. TypeOK'
  <2>1. cleared' \in 0 .. created'
    BY CreatedIs DEF Records
  <2> QED
    BY <2>1 DEF IInv, TypeOK, Relabels, Records
<1>2. Agree'
  BY DEF IInv, Agree, Relabels, Records
<1>3. OnlyOnDisk'
  BY DEF IInv, OnlyOnDisk, Relabels, Records
<1>4. Pending(mem') \subseteq Pending(mem)
  BY DEF Pending, Terminal, Relabels
<1>5. \A j \in Pending(mem') : mem'[j].position = mem[j].position
  BY DEF Pending, Relabels
<1>6. InOrder'
  BY <1>4, <1>5 DEF IInv, InOrder
<1>7. SamePosition'
  <2> SUFFICES ASSUME NEW j \in Pending(mem') \ (lost' \union moved')
               PROVE  file'[j].position = mem'[j].position
    BY DEF SamePosition
  <2>1. j \in Pending(mem) \ (lost \union moved) /\ j \notin lost'
    BY <1>4 DEF Records
  <2>2. j \in DOMAIN file /\ file[j].position = mem[j].position
    BY <2>1 DEF IInv, SamePosition, Agree, Pending
  <2> QED
    BY <1>5, <2>1, <2>2 DEF Records
<1> QED
  BY <1>1, <1>2, <1>3, <1>6, <1>7 DEF IInv

\* A list of the file in which the items `read` of S have the status s, and the
\* others of S are lost, records it.
LEMMA RelabelRecords ==
  ASSUME IInv, NEW S \in SUBSET (1 .. created), NEW read \in SUBSET S, NEW s \in Terminal,
         file' = WithStatus(file, read, s), S \ read \subseteq lost', lost \subseteq lost',
         lost' \subseteq lost \union S, torn' \in Tears, UNCHANGED <<created, cleared>>
  PROVE  Records(S, s)
<1>1. Relabels(file', file, read, s)
  BY WithStatusRelabels DEF IInv, TypeOK, Status
<1>2. lost' \subseteq 1 .. created'
  BY CreatedIs
<1>3. cleared' \in 0 .. cleared
  BY CreatedIs
<1> QED
  BY <1>1, <1>2, <1>3 DEF Records, Relabels

\* cancel, mark_sent and mark_failed record their status.
LEMMA SetStatusRecords ==
  ASSUME IInv, NEW i, NEW s \in Terminal, NEW ok \in BOOLEAN, SetStatus(i, s, ok)
  PROVE  Records({i}, s) /\ Relabels(mem', mem, {i}, s) /\ {i} \in SUBSET DOMAIN mem
         /\ UNCHANGED <<created, moved>>
<1>1. /\ {i} \in SUBSET DOMAIN mem
      /\ mem' = WithStatus(mem, {i}, s)
      /\ Write({i}, WithStatus(file, {i}, s), cleared, ok)
      /\ UNCHANGED <<created, moved>>
  BY DEF SetStatus
<1>2. Relabels(mem', mem, {i}, s)
  BY <1>1, WithStatusRelabels DEF IInv, TypeOK, Status
<1>3. {i} \in SUBSET (1 .. created) /\ {i} \in SUBSET (1 .. created')
  BY <1>1 DEF IInv, TypeOK
<1>4. CASE Records({i}, s)
  BY <1>1, <1>2, <1>4
<1>5. CASE ~ Records({i}, s)
  <2>1. file' = WithStatus(file, {i}, s) /\ cleared' = cleared /\ lost' = lost
        /\ torn' \in Tears \union {"dead"}
    BY <1>1, <1>3, <1>5, WriteIs
  <2>2. Relabels(file', file, {i}, s)
    BY <2>1, WithStatusRelabels DEF IInv, TypeOK, Status
  <2>3. cleared' \in 0 .. cleared /\ lost' \subseteq 1 .. created'
    BY <1>1, <2>1, CreatedIs
  <2>4. Records({i}, s)
    BY <2>1, <2>2, <2>3 DEF Records, Relabels
  <2> QED
    BY <1>5, <2>4
<1> QED
  BY <1>4, <1>5

\* cancel, mark_sent and mark_failed keep the strengthening.
LEMMA SetStatusIInv ==
  ASSUME IInv, NEW i, NEW s \in Terminal, NEW ok \in BOOLEAN,
         SetStatus(i, s, ok)
  PROVE  IInv'
BY SetStatusRecords, RelabelIInv

\* requeue keeps the strengthening, whichever of its lines is written.
LEMMA RequeueIs ==
  ASSUME IInv, NEW i, NEW writes \in 0 .. 2, Requeue(i, writes)
  PROVE  \E p, f \in Positions :
           LET new == created + 1
               at == IF writes = 0 THEN p ELSE f
           IN  /\ IsBack(mem, p) /\ IsFront(mem, f)
               /\ TypeOK' /\ Agree' /\ OnlyOnDisk' /\ Adds(mem', mem, new, at)
               /\ new \notin DOMAIN mem /\ Pending(mem') = Pending(mem) \union {new}
               /\ \A j \in Pending(mem') \ (lost' \union moved' \union {new}) :
                    file'[j].position = mem'[j].position
               /\ created' = new /\ moved' = moved \union {new}
               /\ writes = 0 => new \in lost'
<1> DEFINE new == created + 1
<1>1. PICK p \in Positions, f \in Positions :
        /\ IsBack(mem, p) /\ IsFront(mem, f)
        /\ mem' = WithItem(mem, new, IF writes = 0 THEN p ELSE f)
        /\ IF writes = 0 THEN AppendFails({new})
           ELSE Append({new}, WithItem(file, new, p), cleared,
                       IF writes = 1 THEN Tears ELSE {"no"})
  BY DEF Requeue
<1>2. created' = new /\ created < MaxItems /\ moved' = moved \union {new}
  BY DEF Requeue
<1>3. created \in Nat /\ {new} \in SUBSET (1 .. created')
  BY <1>2, MaxItemsAssumption DEF IInv, TypeOK
<1>4. /\ torn' \in Tears \union {"dead"}
      /\ \/ file' = WithItem(file, new, p) /\ cleared' = cleared /\ lost' = lost
         \/ Records({new}, "sent") /\ {new} \subseteq lost'
      /\ writes = 0 => new \in lost'
  <2>1. CASE writes = 0
    <3>1. Records({new}, "sent") /\ {new} \subseteq lost'
      BY <1>1, <1>2, <1>3, <2>1, FailsRecords
    <3> QED
      BY <3>1 DEF Records
  <2>2. CASE writes # 0
    <3> DEFINE ends == IF writes = 1 THEN Tears ELSE {"no"}
    <3>1. ends \in SUBSET Tears /\ Append({new}, WithItem(file, new, p), cleared, ends)
      BY <1>1, <2>2 DEF Tears
    <3> HIDE DEF ends
    <3> QED
      BY <1>2, <1>3, <2>2, <3>1, AppendIs
  <2> QED
    BY <2>1, <2>2
<1> DEFINE at == IF writes = 0 THEN p ELSE f
<1>5. at \in Positions /\ mem' = WithItem(mem, new, at)
  BY <1>1
<1> HIDE DEF at
<1>6. /\ TypeOK' /\ Agree' /\ OnlyOnDisk' /\ Adds(mem', mem, new, at)
      /\ new \notin DOMAIN mem /\ Pending(mem') = Pending(mem) \union {new}
      /\ \A j \in Pending(mem') \ (lost' \union moved' \union {new}) :
           file'[j].position = mem'[j].position
  BY <1>2, <1>4, <1>5, AddedIInv
<1> USE DEF at
<1> QED
  BY <1>1, <1>2, <1>4, <1>6

\* requeue keeps the strengthening.
LEMMA RequeueIInv ==
  ASSUME IInv, NEW i, NEW writes \in 0 .. 2, Requeue(i, writes)
  PROVE  IInv'
<1> DEFINE new == created + 1
<1>1. PICK at :
        /\ TypeOK' /\ Agree' /\ OnlyOnDisk' /\ Adds(mem', mem, new, at)
        /\ new \notin DOMAIN mem /\ Pending(mem') = Pending(mem) \union {new}
        /\ \A j \in Pending(mem') \ (lost' \union moved' \union {new}) :
             file'[j].position = mem'[j].position
        /\ moved' = moved \union {new}
  BY RequeueIs
<1>2. \A j \in Pending(mem') \ moved' : j \in Pending(mem) \ moved
                                        /\ mem'[j] = mem[j] /\ j # new
  BY <1>1 DEF Adds, Pending
<1>3. InOrder'
  BY <1>2 DEF IInv, InOrder
<1>4. SamePosition'
  BY <1>1 DEF SamePosition
<1> QED
  BY <1>1, <1>3, <1>4 DEF IInv

\* clear_pending records what it cancels, as far as its lines are read.
LEMMA CancelRecords ==
  ASSUME IInv, NEW done, NEW rest, done \union rest \subseteq 1 .. created,
         done \intersect rest = {}, NEW ends \in SUBSET Tears,
         CancelEach(done, rest, ends), UNCHANGED created
  PROVE  Records(done \union rest, "cancelled")
<1> DEFINE S == done \union rest
<1>1. S \in SUBSET (1 .. created) /\ S \in SUBSET (1 .. created')
  OBVIOUS
<1>2. CASE AppendUnread(S)
  BY <1>1, <1>2, UnreadRecords
<1>3. CASE ~ AppendUnread(S)
  <2>1. PICK read \in Readable(done) :
          /\ file' = WithStatus(file, read, "cancelled") /\ UNCHANGED cleared
          /\ lost' = lost \union (done \ read) \union rest
          /\ torn' \in ends
    BY <1>3 DEF CancelEach
  <2>2. read \in SUBSET done
    BY DEF Readable
  <2>3. read \in SUBSET S /\ S \ read \subseteq lost' /\ lost' \subseteq lost \union S
        /\ lost \subseteq lost' /\ torn' \in Tears /\ "cancelled" \in Terminal
    BY <2>1, <2>2 DEF Terminal
  <2> HIDE DEF S
  <2>4. Records(S, "cancelled")
    BY <1>1, <2>1, <2>3, RelabelRecords
  <2> QED
    BY <2>4 DEF S
<1> QED
  BY <1>2, <1>3

\* clear_pending keeps the strengthening.
LEMMA ClearPendingIInv == IInv /\ ClearPending => IInv'
<1> SUFFICES ASSUME IInv, ClearPending PROVE IInv'
  OBVIOUS
<1>1. /\ mem' = WithStatus(mem, Pending(mem), "cancelled")
      /\ CancelEach(Pending(mem), {}, {"no"})
      /\ UNCHANGED <<created, moved>>
  BY DEF ClearPending
<1>2. Pending(mem) \in SUBSET DOMAIN mem /\ Pending(mem) \subseteq 1 .. created
      /\ {"no"} \in SUBSET Tears
  BY DEF Pending, IInv, TypeOK, Tears
<1>3. "cancelled" \in Terminal /\ "cancelled" \in Status
  BY DEF Terminal, Status
<1>4. Relabels(mem', mem, Pending(mem), "cancelled")
  BY <1>1, <1>3, WithStatusRelabels DEF IInv, TypeOK
<1>5. Records(Pending(mem) \union {}, "cancelled")
  BY <1>1, <1>2, CancelRecords
<1>6. Records(Pending(mem), "cancelled")
  <2>1. Pending(mem) \union {} = Pending(mem)
    OBVIOUS
  <2> QED
    BY <1>5, <2>1
<1> QED
  BY <1>1, <1>2, <1>3, <1>4, <1>6, RelabelIInv

\* clear_pending keeps it when one of its writes raises.
LEMMA ClearPendingFailsIInv == IInv /\ ClearPendingFails => IInv'
<1> SUFFICES ASSUME IInv, ClearPendingFails PROVE IInv'
  OBVIOUS
<1>1. PICK done \in SUBSET Pending(mem) : \E bad \in Pending(mem) \ done :
        /\ mem' = WithStatus(mem, done \union {bad}, "cancelled")
        /\ IF done = {} THEN AppendFails({bad}) ELSE CancelEach(done, {bad}, Tears)
  BY DEF ClearPendingFails
<1>2. PICK bad \in Pending(mem) \ done :
        /\ mem' = WithStatus(mem, done \union {bad}, "cancelled")
        /\ IF done = {} THEN AppendFails({bad}) ELSE CancelEach(done, {bad}, Tears)
  BY <1>1
<1> DEFINE S == done \union {bad}
<1>3. S \in SUBSET DOMAIN mem /\ S \subseteq 1 .. created /\ done \intersect {bad} = {}
  BY DEF Pending, IInv, TypeOK
<1>4. UNCHANGED <<created, moved>>
  BY DEF ClearPendingFails
<1>5. "cancelled" \in Terminal /\ "cancelled" \in Status
  BY DEF Terminal, Status
<1>6. Relabels(mem', mem, S, "cancelled")
  BY <1>2, <1>5, WithStatusRelabels DEF IInv, TypeOK
<1>7. Records(S, "cancelled")
  <2>1. CASE done = {}
    <3>1. S = {bad} /\ {bad} \in SUBSET (1 .. created') /\ AppendFails({bad})
      BY <1>2, <1>3, <1>4, <2>1
    <3> QED
      BY <1>4, <3>1, FailsRecords
  <2>2. CASE done # {}
    BY <1>2, <1>3, <1>4, <2>2, CancelRecords
  <2> QED
    BY <2>1, <2>2
<1> HIDE DEF S
<1> QED
  BY <1>3, <1>4, <1>5, <1>6, <1>7, RelabelIInv

\* When the file only loses, and memory but for what is lost, the strengthening
\* stays.
LEMMA LosesIInv ==
  ASSUME IInv, Records({}, "sent"), IsList(mem'), DOMAIN mem' \subseteq DOMAIN mem,
         \A i \in DOMAIN mem' : mem'[i] = mem[i],
         DOMAIN mem \ DOMAIN mem' \subseteq lost', UNCHANGED <<created, moved>>
  PROVE  IInv'
<1>1. TypeOK'
  <2>1. cleared' \in 0 .. created'
    BY CreatedIs DEF Records
  <2> QED
    BY <2>1 DEF IInv, TypeOK, Records
<1>2. Agree'
  BY DEF IInv, Agree, Records
<1>3. OnlyOnDisk'
  BY DEF IInv, OnlyOnDisk, Records
<1>4. \A i \in Pending(mem') : i \in Pending(mem) /\ mem'[i] = mem[i]
  BY DEF Pending
<1>5. InOrder'
  BY <1>4 DEF IInv, InOrder
<1>6. SamePosition'
  <2> SUFFICES ASSUME NEW j \in Pending(mem') \ (lost' \union moved')
               PROVE  file'[j].position = mem'[j].position
    BY DEF SamePosition
  <2>1. j \in Pending(mem) \ (lost \union moved) /\ j \notin lost' /\ mem'[j] = mem[j]
    BY <1>4 DEF Records
  <2>2. j \in DOMAIN file /\ file[j].position = mem[j].position
    BY <2>1 DEF IInv, SamePosition, Agree, Pending
  <2> QED
    BY <2>1, <2>2 DEF Records
<1> QED
  BY <1>1, <1>2, <1>3, <1>5, <1>6 DEF IInv

\* clear_history keeps the strengthening.
LEMMA ClearHistoryIInv ==
  ASSUME IInv, NEW ok \in BOOLEAN, ClearHistory(ok)
  PROVE  IInv'
<1>0. UNCHANGED <<created, moved>>
  BY DEF ClearHistory
<1>1. CASE ~ ok
  <2>1. AppendFails({}) /\ mem' = mem /\ {} \in SUBSET (1 .. created')
    BY <1>1 DEF ClearHistory
  <2>2. Records({}, "sent")
    BY <1>0, <2>1, FailsRecords
  <2>3. IsList(mem)
    BY DEF IInv, TypeOK
  <2> QED
    BY <1>0, <2>1, <2>2, <2>3, LosesIInv
<1>2. CASE ok
  <2>1. PICK newest \in Ended(mem) :
          /\ \A i \in Ended(mem) : i <= newest
          /\ Append(Ended(mem), file, IF newest > cleared THEN newest
                                      ELSE cleared, {"no"})
    BY <1>2 DEF ClearHistory
  <2>2. mem' = Keep(mem, DOMAIN mem \ Ended(mem))
    BY <1>2 DEF ClearHistory
  <2>3. /\ IsList(mem')
        /\ DOMAIN mem' = DOMAIN mem \ Ended(mem)
        /\ \A i \in DOMAIN mem' : mem'[i] = mem[i]
    <3>1. Restricts(mem', mem, DOMAIN mem \ Ended(mem))
      BY <2>2, KeepRestricts DEF IInv, TypeOK
    <3> QED
      BY <3>1 DEF Restricts
  <2>4. /\ created \in Nat /\ cleared \in 0 .. created
        /\ newest \in 1 .. created /\ Ended(mem) \subseteq 1 .. created
        /\ Ended(mem) \in SUBSET (1 .. created') /\ {"no"} \in SUBSET Tears
    BY <1>0, MaxItemsAssumption DEF IInv, TypeOK, Ended, Tears
  <2> DEFINE marker == IF newest > cleared THEN newest ELSE cleared
  <2>5. Append(Ended(mem), file, marker, {"no"})
    BY <2>1
  <2> HIDE DEF marker
  <2>6. /\ torn' \in Tears \union {"dead"}
        /\ \/ file' = file /\ cleared' = marker /\ lost' = lost
           \/ Records(Ended(mem), "sent") /\ Ended(mem) \subseteq lost'
    BY <1>0, <2>4, <2>5, AppendIs
  <2>7. CASE Records(Ended(mem), "sent") /\ Ended(mem) \subseteq lost'
    <3>1. Records({}, "sent")
      BY <2>7 DEF Records
    <3>2. DOMAIN mem \ DOMAIN mem' \subseteq lost'
      BY <2>3, <2>7
    <3> QED
      BY <1>0, <2>3, <3>1, <3>2, LosesIInv
  <2>8. CASE file' = file /\ cleared' = marker /\ lost' = lost
    <3>1. TypeOK'
      <4>1. cleared' \in 0 .. created
        BY <2>4, <2>8 DEF marker
      <4> QED
        BY <1>0, <2>3, <2>6, <2>8, <4>1 DEF IInv, TypeOK
    <3>2. Agree'
      BY <2>3, <2>8 DEF IInv, Agree
    <3>3. OnlyOnDisk'
      <4> SUFFICES ASSUME NEW i \in DOMAIN file \ (DOMAIN mem' \union lost)
                   PROVE  file[i].status \in Terminal /\ i <= cleared'
        BY <2>8 DEF OnlyOnDisk
      <4>1. i \in 1 .. created
        BY DEF IInv, TypeOK
      <4>2. CASE i \in DOMAIN mem
        <5>1. i \in Ended(mem)
          BY <2>3, <4>2
        <5>2. i <= newest /\ file[i].status \in Terminal
          BY <2>1, <4>2, <5>1 DEF IInv, Agree, Ended
        <5>3. i <= cleared'
          BY <2>4, <2>8, <4>1, <5>2 DEF marker
        <5> QED
          BY <5>2, <5>3
      <4>3. CASE i \notin DOMAIN mem
        <5>1. file[i].status \in Terminal /\ i <= cleared
          BY <4>3 DEF IInv, OnlyOnDisk
        <5>2. i <= cleared'
          BY <2>4, <2>8, <4>1, <5>1 DEF marker
        <5> QED
          BY <5>1, <5>2
      <4> QED
        BY <4>2, <4>3
    <3>4. \A i \in Pending(mem') : i \in Pending(mem) /\ mem'[i] = mem[i]
      BY <2>3 DEF Pending
    <3>5. InOrder' /\ SamePosition'
      BY <1>0, <2>8, <3>4, ZenonT(60) DEF IInv, InOrder, SamePosition
    <3> QED
      BY <3>1, <3>2, <3>3, <3>5 DEF IInv
  <2> QED
    BY <2>6, <2>7, <2>8
<1> QED
  BY <1>1, <1>2

\* A reset that empties the file keeps the strengthening: what it leaves in
\* memory is `lost`.
LEMMA TruncateIInv == IInv /\ Truncate => IInv'
<1> SUFFICES ASSUME IInv, Truncate PROVE IInv'
  OBVIOUS
<1>1. IsList(EmptyList) /\ DOMAIN EmptyList = {}
  BY DEF EmptyList, IsList
<1>2. /\ file' = EmptyList /\ cleared' = 0 /\ torn' = "no"
      /\ lost' = lost \union DOMAIN mem
      /\ UNCHANGED <<mem, created, moved>>
  BY DEF Truncate
<1>3. TypeOK'
  <2>1. /\ IsList(mem') /\ DOMAIN mem' \subseteq 1 .. created'
        /\ IsList(file') /\ DOMAIN file' \subseteq 1 .. created'
    BY <1>1, <1>2 DEF IInv, TypeOK
  <2>2. lost' \subseteq 1 .. created' /\ moved' \subseteq 1 .. created'
    BY <1>2 DEF IInv, TypeOK
  <2>3. created \in Nat /\ created' = created /\ cleared' = 0
    BY <1>2, MaxItemsAssumption DEF IInv, TypeOK
  <2>4. cleared' \in 0 .. created'
    BY <2>3
  <2>5. torn' \in Tears \union {"dead"}
    BY <1>2 DEF Tears
  <2> QED
    BY <1>2, <2>1, <2>2, <2>4, <2>5 DEF IInv, TypeOK
<1>4. Agree' /\ OnlyOnDisk'
  BY <1>1, <1>2 DEF Agree, OnlyOnDisk
<1>5. InOrder' /\ SamePosition'
  BY <1>2 DEF IInv, InOrder, SamePosition, Pending
<1> QED
  BY <1>3, <1>4, <1>5 DEF IInv

\* What a restart finds in the file is what was there, with some items cancelled.
LEMMA RestartReads ==
  ASSUME IInv, Restart
  PROVE  \E read : Relabels(file', file, read, "cancelled")
<1>1. CASE UNCHANGED <<file, torn>>
  <2>1. Relabels(file', file, {}, "cancelled")
    BY <1>1 DEF Relabels, IInv, TypeOK
  <2> QED
    BY <2>1
<1>2. CASE ~ UNCHANGED <<file, torn>>
  <2>1. PICK read : file' = WithStatus(file, read, "cancelled")
    BY <1>2 DEF Restart
  <2>2. Relabels(file', file, read, "cancelled")
    BY <2>1, WithStatusRelabels DEF IInv, TypeOK, Status, Terminal
  <2> QED
    BY <2>2
<1> QED
  BY <1>1, <1>2

\* A restart keeps the strengthening: memory becomes what the file says.
LEMMA RestartIInv == IInv /\ Restart => IInv'
<1> SUFFICES ASSUME IInv, Restart PROVE IInv'
  OBVIOUS
<1>1. PICK read : Relabels(file', file, read, "cancelled")
  BY RestartReads
<1>2. torn' \in Tears \union {"dead"}
  BY DEF Restart, IInv, TypeOK, Tears
<1>3. /\ mem' = Load(file', cleared) /\ lost' = {}
      /\ moved' = moved \union lost /\ UNCHANGED <<cleared, created>>
  BY DEF Restart
<1>4. Relabels(file', file, read, "cancelled")
  BY <1>1
<1>5. IsList(file') /\ torn' \in Tears \union {"dead"}
  BY <1>2, <1>4 DEF Relabels
<1>6. /\ IsList(mem') /\ DOMAIN mem' \subseteq DOMAIN file'
      /\ \A i \in DOMAIN mem' : mem'[i] = file'[i]
      /\ \A i \in DOMAIN file' \ DOMAIN mem' :
           file'[i].status \in Terminal /\ i <= cleared
  BY <1>3, <1>5, LoadIsList
<1>7. TypeOK'
  BY <1>3, <1>4, <1>5, <1>6 DEF IInv, TypeOK, Relabels
<1>8. Agree' /\ OnlyOnDisk'
  BY <1>3, <1>6 DEF Agree, OnlyOnDisk
<1>9. \A i \in Pending(mem') \ moved' :
        /\ i \in Pending(mem) \ (moved \union lost)
        /\ mem'[i].position = mem[i].position
  <2> SUFFICES ASSUME NEW i \in Pending(mem') \ moved'
               PROVE  /\ i \in Pending(mem) \ (moved \union lost)
                      /\ mem'[i].position = mem[i].position
    OBVIOUS
  <2>1. i \notin moved /\ i \notin lost
    BY <1>3
  <2>2. /\ i \in DOMAIN file /\ file[i].status = "pending"
        /\ mem'[i].position = file[i].position
    BY <1>4, <1>6 DEF Pending, Relabels
  <2>3. i \in DOMAIN mem /\ mem[i].status = "pending"
    BY <2>1, <2>2 DEF IInv, OnlyOnDisk, Agree, Terminal
  <2> QED
    BY <2>1, <2>2, <2>3 DEF IInv, SamePosition, Pending
<1>10. InOrder'
  BY <1>9 DEF IInv, InOrder
<1>11. SamePosition'
  BY <1>6 DEF SamePosition, Pending
<1> QED
  BY <1>7, <1>8, <1>10, <1>11 DEF IInv

\* Every step keeps the strengthening.
LEMMA NextIInv == IInv /\ [Next]_queueVars => IInv'
<1> SUFFICES ASSUME IInv, [Next]_queueVars PROVE IInv'
  OBVIOUS
<1>1. ASSUME NEW ok \in BOOLEAN, Enqueue(ok) PROVE IInv'
  BY <1>1, EnqueueIInv
<1>2. ASSUME NEW ok \in BOOLEAN, ClearHistory(ok) PROVE IInv'
  BY <1>2, ClearHistoryIInv
<1>3. ASSUME NEW ok \in BOOLEAN, NEW i \in 1 .. MaxItems,
             Cancel(i, ok) \/ MarkSent(i, ok) \/ MarkFailed(i, ok)
      PROVE  IInv'
  BY <1>3, SetStatusIInv DEF Cancel, MarkSent, MarkFailed, Terminal
<1>4. ASSUME NEW i \in 1 .. MaxItems, NEW writes \in 0 .. 2,
             Requeue(i, writes)
      PROVE  IInv'
  BY <1>4, RequeueIInv
<1>5. CASE UNCHANGED queueVars
  BY <1>5 DEF queueVars, diskVars, IInv, TypeOK, Agree, OnlyOnDisk, InOrder,
              SamePosition, Pending
<1> QED
  BY <1>1, <1>2, <1>3, <1>4, <1>5, ClearPendingIInv, ClearPendingFailsIInv,
     TruncateIInv, RestartIInv DEF Next

\* The strengthening holds in every reachable state.
LEMMA AlwaysIInv == Spec => []IInv
BY InitIInv, NextIInv, PTL DEF Spec

-----------------------------------------------------------------------------
\* The queue in memory and the file keep their shape (QueueManager).
THEOREM TypeCorrect == Spec => []TypeOK
<1>1. IInv => TypeOK
  BY DEF IInv
<1> QED
  BY <1>1, AlwaysIInv, PTL

\* Whatever is called, in whatever order, and whichever writes fail, a waiting
\* message whose lines are in queue.jsonl survives a restart (load_queue).
THEOREM NothingForgotten == Spec => []PendingSurvivesRestart
<1>1. IInv => PendingSurvivesRestart
  <2> SUFFICES ASSUME IInv, NEW i \in Pending(mem) \ lost
               PROVE  i \in Pending(AfterRestart)
    BY DEF PendingSurvivesRestart
  <2>1. i \in DOMAIN file /\ file[i].status = "pending"
    BY DEF IInv, Agree, Pending
  <2>2. /\ \A j \in DOMAIN AfterRestart : AfterRestart[j] = file[j]
        /\ \A j \in DOMAIN file \ DOMAIN AfterRestart :
             file[j].status \in Terminal
    BY LoadIsList DEF AfterRestart, IInv, TypeOK
  <2> QED
    BY <2>1, <2>2 DEF Pending, Terminal
<1> QED
  BY <1>1, AlwaysIInv, PTL

\* No restart makes a cancelled, sent or failed message wait again, save those
\* whose last change could not be written (load_queue, cancel, mark_sent).
THEOREM NothingResurrected == Spec => []NoResurrection
<1>1. IInv => NoResurrection
  <2> SUFFICES ASSUME IInv, NEW i \in Pending(AfterRestart) \ lost
               PROVE  i \in Pending(mem)
    BY DEF NoResurrection
  <2>1. i \in DOMAIN file /\ file[i].status = "pending"
    BY LoadIsList DEF AfterRestart, IInv, TypeOK, Pending
  <2> QED
    BY <2>1 DEF IInv, OnlyOnDisk, Agree, Pending, Terminal
<1> QED
  BY <1>1, AlwaysIInv, PTL

\* History cleared by clear_history is not there again after a restart.
THEOREM ClearedForGood == Spec => []HistoryStaysCleared
<1>1. IInv => HistoryStaysCleared
  <2> SUFFICES ASSUME IInv,
                      NEW i \in DOMAIN AfterRestart \ (lost \union DOMAIN mem)
               PROVE  FALSE
    BY DEF HistoryStaysCleared
  <2>1. /\ i \in DOMAIN file
        /\ ~ (file[i].status \in Terminal /\ cleared > 0 /\ i <= cleared)
    BY LoadIsList DEF AfterRestart, IInv, TypeOK
  <2>2. file[i].status \in Terminal /\ i <= cleared
    BY <2>1 DEF IInv, OnlyOnDisk
  <2>3. i \in 1 .. created /\ cleared \in 0 .. created /\ created \in Nat
    BY <2>1, MaxItemsAssumption DEF IInv, TypeOK
  <2> QED
    BY <2>1, <2>2, <2>3
<1> QED
  BY <1>1, AlwaysIInv, PTL

\* Messages are handed out in the order they were enqueued, through any number
\* of restarts (the positions enqueue computes, the sort of load_queue).
THEOREM ArrivalOrderKept == Spec => []FirstComeFirstServed
<1>1. IInv => FirstComeFirstServed
  BY DEF IInv, InOrder, FirstComeFirstServed, Before
<1> QED
  BY <1>1, AlwaysIInv, PTL

\* A new message goes behind every waiting one, a requeued one in front.
THEOREM PlaceOfNewest == Spec => NewestLastOrFirst
<1> DEFINE Placed ==
      created' > created =>
        IF created' \in moved' \ lost' THEN IsNext(mem', created')
        ELSE \/ created' \in moved'
             \/ \A i \in Pending(mem) : Before(mem', i, created')
<1>1. ASSUME IInv, [Next]_queueVars PROVE Placed
  <2> DEFINE new == created + 1
  <2>1. ASSUME NEW ok \in BOOLEAN, Enqueue(ok) PROVE Placed
    <3>1. PICK p \in Positions : IsBack(mem, p) /\ mem' = WithItem(mem, new, p)
      BY <2>1 DEF Enqueue
    <3>2. Adds(mem', mem, new, p)
      BY <1>1, <3>1, WithItemAdds DEF IInv, TypeOK
    <3>3. created' = new /\ new \notin DOMAIN mem
      BY <1>1, <2>1 DEF Enqueue, IInv, TypeOK
    <3>4. \A i \in Pending(mem) : Before(mem', i, created')
      BY <3>1, <3>2, <3>3 DEF IsBack, Adds, Before, Pending
    <3>5. created' \notin moved'
      BY <1>1, <2>1, <3>3 DEF Enqueue, IInv, TypeOK
    <3> QED
      BY <3>4, <3>5
  <2>2. ASSUME NEW i, NEW writes \in 0 .. 2, Requeue(i, writes) PROVE Placed
    <3>1. PICK p, f \in Positions :
            /\ IsFront(mem, f)
            /\ Adds(mem', mem, new, IF writes = 0 THEN p ELSE f)
            /\ writes = 0 => new \in lost'
            /\ created' = new /\ new \notin DOMAIN mem /\ new \in moved'
      BY <1>1, <2>2, RequeueIs
    <3>2. created' = new /\ new \notin DOMAIN mem
      BY <3>1
    <3>3. created' \in moved'
      BY <3>1
    <3>4. CASE writes = 0
      BY <3>1, <3>2, <3>3, <3>4
    <3>5. CASE writes # 0
      <4>1. Adds(mem', mem, new, f)
        BY <3>1, <3>5
      <4>2. Pending(mem') = Pending(mem) \union {new}
        BY <3>2, <4>1 DEF Pending, Adds
      <4>3. IsNext(mem', new)
        BY <3>1, <3>2, <4>1, <4>2 DEF IsFront, IsNext, Adds, Before, Pending
      <4> QED
        BY <3>2, <3>3, <4>3
    <3> QED
      BY <3>4, <3>5
  <2>3. CASE created' = created
    <3>1. created \in Int
      BY <1>1 DEF IInv, TypeOK
    <3> QED
      BY <2>3, <3>1
  <2> QED
    BY <1>1, <2>1, <2>2, <2>3
    DEF Next, ClearHistory, Cancel, MarkSent, MarkFailed, SetStatus,
        ClearPending, ClearPendingFails, Truncate, Restart, queueVars
<1>2. IInv /\ [Next]_queueVars => [Placed]_queueVars
  BY <1>1
<1> QED
  BY <1>2, AlwaysIInv, PTL DEF Spec, NewestLastOrFirst

-----------------------------------------------------------------------------
(* The refinement: every step of the memory and the file is a step of      *)
(* DurableQueue, or leaves what it speaks of alone.                        *)

\* Who is ahead of whom, pair by pair.
LEMMA AheadPairs ==
  /\ Ahead \subseteq Pending(mem) \X Pending(mem)
  /\ \A i, j : <<i, j>> \in Ahead <=>
       i \in Pending(mem) /\ j \in Pending(mem) /\ i # j /\ Before(mem, i, j)
BY DEF Ahead

\* The same after a step.
LEMMA AheadPairsNext ==
  /\ Ahead' \subseteq Pending(mem') \X Pending(mem')
  /\ \A i, j : <<i, j>> \in Ahead' <=>
       i \in Pending(mem') /\ j \in Pending(mem') /\ i # j /\ Before(mem', i, j)
BY DEF Ahead

\* A message above the highest position is behind all the others.
LEMMA BackIsBehind ==
  ASSUME IInv, NEW new \in Nat, new \notin DOMAIN mem, DOMAIN mem \subseteq 0 .. new,
         NEW p \in Positions, IsBack(mem, p), Adds(mem', mem, new, p)
  PROVE  Ahead' = Ahead \union (Pending(mem) \X {new})
<1>1. Pending(mem') = Pending(mem) \union {new} /\ new \notin Pending(mem)
  BY DEF Adds, Pending
<1>2. \A i \in Pending(mem) : /\ mem'[i].position = mem[i].position
                              /\ mem[i].position < p
                              /\ mem[i].position \in Int /\ i \in Int /\ i < new
  <2> SUFFICES ASSUME NEW i \in Pending(mem)
               PROVE  /\ mem'[i].position = mem[i].position
                      /\ mem[i].position < p
                      /\ mem[i].position \in Int /\ i \in Int /\ i < new
    OBVIOUS
  <2>1. i \in DOMAIN mem /\ i # new /\ i \in 0 .. new
    BY DEF Pending
  <2>2. mem'[i] = mem[i] /\ mem[i].position \in Int
    BY <2>1 DEF Adds, IInv, TypeOK, IsList, Item, Positions
  <2>3. mem[i].position < p
    BY <1>1 DEF IsBack
  <2> QED
    BY <2>1, <2>2, <2>3
<1>3. mem'[new].position = p /\ p \in Int
  BY DEF Adds, Positions
<1>4. \A i, j \in Pending(mem) : Before(mem', i, j) <=> Before(mem, i, j)
  BY <1>2 DEF Before
<1>5. \A i \in Pending(mem) : Before(mem', i, new) /\ ~ Before(mem', new, i)
  BY <1>2, <1>3 DEF Before
<1>6. \A i, j : <<i, j>> \in Ahead' <=>
                <<i, j>> \in Ahead \/ (i \in Pending(mem) /\ j = new)
  BY <1>1, <1>4, <1>5, AheadPairs, AheadPairsNext
<1>7. Ahead' \subseteq (Pending(mem) \union {new}) \X (Pending(mem) \union {new})
  BY <1>1, AheadPairsNext
<1> QED
  BY <1>6, <1>7, AheadPairs

\* A message below the lowest position is in front of all the others.
LEMMA FrontIsAhead ==
  ASSUME IInv, NEW new \in Nat, new \notin DOMAIN mem,
         NEW p \in Positions, IsFront(mem, p), Adds(mem', mem, new, p)
  PROVE  Ahead' = Ahead \union ({new} \X Pending(mem))
<1>1. Pending(mem') = Pending(mem) \union {new} /\ new \notin Pending(mem)
  BY DEF Adds, Pending
<1>2. \A i \in Pending(mem) : /\ mem'[i].position = mem[i].position
                              /\ p < mem[i].position
                              /\ mem[i].position \in Int /\ i \in Int
  BY DEF IsFront, Adds, Pending, IInv, TypeOK, IsList, Item, Positions
<1>3. mem'[new].position = p /\ p \in Int
  BY DEF Adds, Positions
<1>4. \A i, j \in Pending(mem) : Before(mem', i, j) <=> Before(mem, i, j)
  BY <1>2 DEF Before
<1>5. \A i \in Pending(mem) : Before(mem', new, i) /\ ~ Before(mem', i, new)
  BY <1>2, <1>3 DEF Before
<1>6. \A i, j : <<i, j>> \in Ahead' <=>
                <<i, j>> \in Ahead \/ (i = new /\ j \in Pending(mem))
  BY <1>1, <1>4, <1>5, AheadPairs, AheadPairsNext, ZenonT(60)
<1>7. Ahead' \subseteq (Pending(mem) \union {new}) \X (Pending(mem) \union {new})
  BY <1>1, AheadPairsNext
<1> QED
  BY <1>6, <1>7, AheadPairs

\* When messages leave and no position changes, the others keep their order.
LEMMA OthersKeepOrder ==
  ASSUME Pending(mem') \subseteq Pending(mem),
         \A i \in Pending(mem') : mem'[i].position = mem[i].position
  PROVE  Ahead' = Ahead \intersect (Pending(mem') \X Pending(mem'))
<1>1. \A i, j \in Pending(mem') : Before(mem', i, j) <=> Before(mem, i, j)
  BY DEF Before
<1>2. \A i, j : <<i, j>> \in Ahead' <=>
                <<i, j>> \in Ahead /\ i \in Pending(mem') /\ j \in Pending(mem')
  BY <1>1, AheadPairs, AheadPairsNext
<1> QED
  BY <1>2, AheadPairsNext

-----------------------------------------------------------------------------
\* enqueue is an arrival.
LEMMA EnqueueArrives ==
  ASSUME IInv, NEW ok \in BOOLEAN, Enqueue(ok)
  PROVE  Durable!Arrive
<1> DEFINE new == created + 1
<1>1. PICK p \in Positions :
        /\ IsBack(mem, p)
        /\ mem' = WithItem(mem, new, p)
        /\ Write({new}, WithItem(file, new, p), cleared, ok)
  BY DEF Enqueue
<1>2. created \in Nat /\ created' = new /\ moved' = moved
  BY MaxItemsAssumption DEF Enqueue, IInv, TypeOK
<1>3. new \notin DOMAIN mem /\ DOMAIN mem \subseteq 0 .. new
  BY <1>2 DEF IInv, TypeOK
<1>4. Adds(mem', mem, new, p)
  BY <1>1, WithItemAdds DEF IInv, TypeOK
<1>5. Pending(mem') = Pending(mem) \union {new}
  BY <1>3, <1>4 DEF Adds, Pending
<1>6. lost \subseteq lost' /\ lost' \subseteq 1 .. new
  <2>1. {new} \in SUBSET (1 .. created') /\ lost \subseteq 1 .. new
    BY <1>2 DEF IInv, TypeOK
  <2> QED
    BY <1>1, <1>2, <2>1, WriteIs DEF Records
<1>7. Ahead' = Ahead \union (Pending(mem) \X {new})
  BY <1>1, <1>2, <1>3, <1>4, BackIsBehind
<1> QED
  BY <1>2, <1>5, <1>6, <1>7 DEF Durable!Arrive, Durable!Comes, Durable!New

\* requeue puts a message in front, or behind when its copy is not in the file.
LEMMA RequeueJumps ==
  ASSUME IInv, NEW i, NEW writes \in 0 .. 2, Requeue(i, writes)
  PROVE  Durable!Jump
<1> DEFINE new == created + 1
<1>1. PICK p \in Positions, f \in Positions :
        /\ IsBack(mem, p) /\ IsFront(mem, f) /\ TypeOK'
        /\ Adds(mem', mem, new, IF writes = 0 THEN p ELSE f)
        /\ new \notin DOMAIN mem /\ Pending(mem') = Pending(mem) \union {new}
        /\ created' = new /\ moved' = moved \union {new}
        /\ writes = 0 => new \in lost'
  BY RequeueIs
<1>2. created \in Nat /\ created' = new /\ moved' = moved \union {new}
  BY <1>1, MaxItemsAssumption DEF IInv, TypeOK
<1>3. new \notin DOMAIN mem /\ DOMAIN mem \subseteq 0 .. new
  BY <1>1, <1>2 DEF IInv, TypeOK
<1>4. Adds(mem', mem, new, IF writes = 0 THEN p ELSE f)
  BY <1>1
<1>5. Pending(mem') = Pending(mem) \union {new}
  BY <1>1
<1>6. lost \subseteq lost' /\ lost' \subseteq 1 .. new
  <2>1. lost \subseteq lost'
    BY DEF Requeue, Append, AppendFails, AppendUnread
  <2>2. lost' \subseteq 1 .. created'
    BY <1>1 DEF TypeOK
  <2> QED
    BY <1>2, <2>1, <2>2
<1>7. \/ Ahead' = Ahead \union ({new} \X Pending(mem))
      \/ Ahead' = Ahead \union (Pending(mem) \X {new}) /\ new \in lost'
  <2>1. CASE writes = 0
    <3>1. Adds(mem', mem, new, p) /\ new \in lost'
      BY <1>1, <1>4, <2>1
    <3> QED
      BY <1>1, <1>2, <1>3, <3>1, BackIsBehind
  <2>2. CASE writes # 0
    <3>1. Adds(mem', mem, new, f)
      BY <1>4, <2>2
    <3> QED
      BY <1>1, <1>2, <1>3, <3>1, FrontIsAhead
  <2> QED
    BY <2>1, <2>2
<1> QED
  BY <1>2, <1>5, <1>6, <1>7 DEF Durable!Jump, Durable!Comes, Durable!New

\* A step that takes messages out, or gets changes loose, is a departure.
LEMMA Leaves ==
  ASSUME IInv, IInv', lost \subseteq lost', UNCHANGED <<created, moved>>,
         Pending(mem') \subseteq Pending(mem),
         \A i \in Pending(mem') : mem'[i].position = mem[i].position
  PROVE  Durable!Leave
<1>1. lost' \subseteq 1 .. created
  BY DEF IInv, TypeOK
<1> QED
  BY <1>1, OthersKeepOrder DEF Durable!Leave

\* cancel, mark_sent and mark_failed take their message out.
LEMMA SetStatusLeaves ==
  ASSUME IInv, IInv', NEW i, NEW s \in Terminal, NEW ok \in BOOLEAN,
         SetStatus(i, s, ok)
  PROVE  Durable!Leave
<1>1. Relabels(mem', mem, {i}, s)
  BY SetStatusRecords
<1>2. lost \subseteq lost' /\ UNCHANGED <<created, moved>>
  BY SetStatusRecords DEF Records
<1>3. /\ Pending(mem') \subseteq Pending(mem)
      /\ \A j \in Pending(mem') : mem'[j].position = mem[j].position
  BY <1>1 DEF Relabels, Pending, Terminal
<1> QED
  BY <1>2, <1>3, Leaves

\* clear_pending takes out all of them, or some when a write raises.
LEMMA ClearPendingLeaves ==
  ASSUME IInv, IInv', ClearPending \/ ClearPendingFails
  PROVE  Durable!Leave
<1>1. PICK S : mem' = WithStatus(mem, S, "cancelled")
  BY DEF ClearPending, ClearPendingFails
<1>2. Relabels(mem', mem, S, "cancelled")
  BY <1>1, WithStatusRelabels DEF IInv, TypeOK, Status, Terminal
<1>3. lost \subseteq lost' /\ UNCHANGED <<created, moved>>
  BY DEF ClearPending, ClearPendingFails, CancelEach, AppendFails, AppendUnread
<1>4. /\ Pending(mem') \subseteq Pending(mem)
      /\ \A j \in Pending(mem') : mem'[j].position = mem[j].position
  BY <1>2 DEF Relabels, Pending
<1> QED
  BY <1>3, <1>4, Leaves

\* clear_history takes nothing out that waits.
LEMMA ClearHistoryLeaves ==
  ASSUME IInv, IInv', NEW ok \in BOOLEAN, ClearHistory(ok)
  PROVE  Durable!Leave
<1>1. lost \subseteq lost' /\ UNCHANGED <<created, moved>>
  BY DEF ClearHistory, Append, AppendFails, AppendUnread
<1>2. /\ Pending(mem') \subseteq Pending(mem)
      /\ \A j \in Pending(mem') : mem'[j] = mem[j]
  <2>1. CASE ~ ok
    BY <2>1 DEF ClearHistory
  <2>2. CASE ok
    <3>1. Restricts(mem', mem, DOMAIN mem \ Ended(mem))
      BY <2>2, KeepRestricts DEF ClearHistory, IInv, TypeOK
    <3> QED
      BY <3>1 DEF Restricts, Pending
  <2> QED
    BY <2>1, <2>2
<1> QED
  BY <1>1, <1>2, Leaves

\* A reset gets every change loose.
LEMMA TruncateLeaves ==
  ASSUME IInv, IInv', Truncate
  PROVE  Durable!Leave
<1>1. lost \subseteq lost' /\ UNCHANGED <<mem, created, moved>>
  BY DEF Truncate
<1> QED
  BY <1>1, Leaves

\* A restart recovers what is in the file.
LEMMA RestartRecovers ==
  ASSUME IInv, Restart
  PROVE  Durable!Recover
<1>1. PICK read : Relabels(file', file, read, "cancelled")
  BY RestartReads
<1>3. /\ mem' = Load(file', cleared) /\ lost' = {}
      /\ moved' = moved \union lost /\ UNCHANGED created
  BY DEF Restart
<1>4. Relabels(file', file, read, "cancelled")
  BY <1>1
<1>5. /\ DOMAIN mem' \subseteq DOMAIN file'
      /\ \A i \in DOMAIN mem' : mem'[i] = file'[i]
  BY <1>3, <1>4, LoadIsList DEF Relabels
<1>6. \A i \in Pending(mem') : /\ i \in DOMAIN file /\ file[i].status = "pending"
                               /\ mem'[i].position = file[i].position
  BY <1>4, <1>5 DEF Pending, Relabels
<1>7. Pending(mem') \subseteq Pending(mem) \union lost
  BY <1>6 DEF IInv, OnlyOnDisk, Agree, Pending, Terminal
<1> DEFINE safe == Pending(mem') \ moved'
<1>8. \A i \in safe : /\ i \in Pending(mem)
                      /\ mem'[i].position = mem[i].position
  BY <1>3, <1>6, <1>7 DEF IInv, SamePosition
<1>9. \A i, j \in safe : <<i, j>> \in Ahead' <=> <<i, j>> \in Ahead
  <2> SUFFICES ASSUME NEW i \in safe, NEW j \in safe
               PROVE  <<i, j>> \in Ahead' <=> <<i, j>> \in Ahead
    OBVIOUS
  <2>1. Before(mem', i, j) <=> Before(mem, i, j)
    BY <1>8 DEF Before
  <2>2. i \in Pending(mem') /\ j \in Pending(mem')
    OBVIOUS
  <2> HIDE DEF safe
  <2> QED
    BY <1>8, <2>1, <2>2, AheadPairs, AheadPairsNext
<1>10. Ahead' \intersect (safe \X safe) = Ahead \intersect (safe \X safe)
  BY <1>9
<1> QED
  BY <1>3, <1>7, <1>10 DEF Durable!Recover

-----------------------------------------------------------------------------
\* Through any calls, failed writes and restarts, the queue of a session keeps
\* what DurableQueue promises: what was sent or cancelled never waits again, and
\* nobody overtakes (queue_manager.py).
THEOREM QueueKeepsPromise == Spec => KeepsPromise
<1>1. Init => Durable!Init
  BY DEF Init, Durable!Init, EmptyList, Pending, Ahead
<1>2. ASSUME IInv, IInv', [Next]_queueVars
      PROVE  [Durable!Next]_Durable!durableVars
  <2> USE DEF Durable!Next
  <2>1. ASSUME NEW ok \in BOOLEAN, Enqueue(ok) PROVE Durable!Next
    BY <1>2, <2>1, EnqueueArrives
  <2>2. ASSUME NEW ok \in BOOLEAN, ClearHistory(ok) PROVE Durable!Next
    BY <1>2, <2>2, ClearHistoryLeaves
  <2>3. ASSUME NEW ok \in BOOLEAN, NEW i \in 1 .. MaxItems,
               Cancel(i, ok) \/ MarkSent(i, ok) \/ MarkFailed(i, ok)
        PROVE  Durable!Next
    BY <1>2, <2>3, SetStatusLeaves DEF Cancel, MarkSent, MarkFailed, Terminal
  <2>4. ASSUME NEW i \in 1 .. MaxItems, NEW writes \in 0 .. 2, Requeue(i, writes)
        PROVE  Durable!Next
    BY <1>2, <2>4, RequeueJumps
  <2>5. CASE ClearPending \/ ClearPendingFails
    BY <1>2, <2>5, ClearPendingLeaves
  <2>6. CASE Truncate
    BY <1>2, <2>6, TruncateLeaves
  <2>7. CASE Restart
    BY <1>2, <2>7, RestartRecovers
  <2>8. CASE UNCHANGED queueVars
    BY <2>8 DEF queueVars, Durable!durableVars, Ahead, Pending, Before
  <2> QED
    BY <1>2, <2>1, <2>2, <2>3, <2>4, <2>5, <2>6, <2>7, <2>8 DEF Next
<1> QED
  BY <1>1, <1>2, AlwaysIInv, PTL DEF Spec, KeepsPromise, Durable!Spec
=============================================================================
