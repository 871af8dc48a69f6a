--------------------------- MODULE TranscriptProofs ---------------------------
(***************************************************************************)
(* Proofs about Transcript and Messages, for any scripts of the CLI and    *)
(* any number of troubles: that a frame shows the same after a reload,     *)
(* that the registry of the agents' legs, the page and the file agree,     *)
(* that no caret is left on the page between responses, and that all of    *)
(* the file is on the page once.                                           *)
(*                                                                         *)
(* What a replay of the file gives is a fold, defined by recursion.  That  *)
(* one more frame in the file is one more step of the fold (FoldAppend) is *)
(* proved by least counterexample: a nonempty set of naturals has a least  *)
(* element (Least).                                                        *)
(*                                                                         *)
(* LegsAgree speaks of the moment when nothing is on its way.  Before it   *)
(* the registry lacks of the file at most the frame that the reader has    *)
(* stored and not published (RegistryFollows), and the page lacks of the   *)
(* registry at most what it has not read: the legs that its events lead to *)
(* (PageFollows).  The page does not begin a tool use twice while the      *)
(* registry would, so the two agree only because no agent begins twice for *)
(* one (LegsOK).                                                           *)
(*                                                                         *)
(* NoCaretLeft speaks of that moment too.  Before it a response may be     *)
(* open on the page, or be opened by an event it has not read, only if     *)
(* something that closes it is on its way: in the script, among the        *)
(* notices, on the UI channel, or in the events and last (Opened).  Only   *)
(* the bubble of the response that is buffered has a caret (Owned), and    *)
(* there is one (Alone), for which a list that is put in order anew has to *)
(* have nothing but the bubbles it was made of (ByTimeIs).                 *)
(*                                                                         *)
(* ShownOnce is proved of one item at a time (ItemOnce).  What the page    *)
(* will be told, in order, is Coming: the events it has not read, the      *)
(* frame that the reader has, and what the CLI has yet to send.  An item   *)
(* comes there once, after the pieces of its text (Good).  If it is in the *)
(* file it is on the page once, or kept aside, or on its way; while it is  *)
(* on its way the page shows it, if at all, as the text of the response    *)
(* that is open, and the frame comes before that response ends (Preview):  *)
(* so a frame that is read finds nothing of it on the page but what it     *)
(* replaces (Fits).  A step of the server can only leave things out of     *)
(* what comes, or add to it what is new (Thins, Steady).                   *)
(***************************************************************************)
EXTENDS Transcript, SequenceTheorems, FiniteSetTheorems, WellFoundedInduction, TLAPS

-----------------------------------------------------------------------------
(* The two ways of a frame: which handler parses it, and what it shows.    *)

\* parse_message takes the first handler that can.
LEMMA FirstIs ==
  ASSUME NEW f, NEW k \in 1 .. 9, CanHandle(Handlers[k], f),
         \A j \in 1 .. 9 : j < k => ~ CanHandle(Handlers[j], f)
  PROVE  SelectInSeq(Handlers, LAMBDA each : CanHandle(each, f)) = k
<1> DEFINE I == {i \in 1 .. 9 : CanHandle(Handlers[i], f)}
<1>1. Len(Handlers) = 9
  BY DEF Handlers
<1>2. Min(I) = k
  <2>1. k \in I /\ \A y \in I : k <= y
    OBVIOUS
  <2>2. \A x \in I : (\A y \in I : x <= y) => x = k
    BY <2>1
  <2> HIDE DEF I
  <2> QED
    BY <2>1, <2>2 DEF Min
<1>3. I # {}
  OBVIOUS
<1> QED
  BY <1>1, <1>2, <1>3 DEF SelectInSeq

\* The handlers, in the order they are registered.
LEMMA HandlersAre ==
  /\ Handlers[1] = "task_started" /\ Handlers[2] = "task_progress"
  /\ Handlers[3] = "task_notification" /\ Handlers[4] = "task_updated"
  /\ Handlers[5] = "system" /\ Handlers[6] = "assistant" /\ Handlers[7] = "user"
  /\ Handlers[8] = "result" /\ Handlers[9] = "unknown"
BY DEF Handlers

\* The class of the SDK's object for each kind of frame.
LEMMA ClassIs ==
  /\ \A k \in Answers : Class[k] = "AssistantMessage"
  /\ \A k \in {"results", "text_results", "command"} : Class[k] = "UserMessage"
  /\ Class["done"] = "ResultMessage"
  /\ \A k \in {"init", "mode", "retry"} : Class[k] = "SystemMessage"
  /\ \A k \in {"hook", "agent_notice"} : Class[k] = "HookEventMessage"
  /\ \A k \in TaskKinds : Class[k] = k
BY DEF Class, SentKinds, TaskKinds, Answers, TextAnswers

\* Which handler parses each kind of frame.
LEMMA ParseIs ==
  ASSUME NEW f, f.kind \in SentKinds
  PROVE  /\ f.kind = "task_started" => Parse(f) = TaskStarted(f)
         /\ f.kind = "task_progress" => Parse(f) = TaskProgress(f)
         /\ f.kind = "task_notification" => Parse(f) = TaskNotification(f)
         /\ f.kind = "task_updated" => Parse(f) = TaskUpdated(f)
         /\ f.kind \in {"init", "mode", "retry", "hook", "agent_notice"} =>
              Parse(f) = System(f)
         /\ f.kind \in Answers => Parse(f) = Assistant(f)
         /\ f.kind \in {"results", "text_results", "command"} => Parse(f) = User(f)
         /\ f.kind = "done" => Parse(f) = Result(f)
<1> DEFINE s == SelectInSeq(Handlers, LAMBDA each : CanHandle(each, f))
<1>1. f.kind \notin Made
  BY DEF SentKinds, TaskKinds, Made, Answers, TextAnswers
<1>2. \A h : CanHandle(h, f) <=>
        h = "unknown" \/ h = IF h \in TaskKinds THEN Class[f.kind] ELSE Type(f)
  BY <1>1 DEF CanHandle
<1>3. ASSUME NEW k \in 1 .. 9, Handlers[k] = IF k <= 4 THEN Class[f.kind] ELSE Type(f),
             \A j \in 1 .. 4 : j < k => Class[f.kind] # Handlers[j],
             \A j \in 5 .. 8 : j < k => Type(f) # Handlers[j]
      PROVE  s = k
  <2>1. CanHandle(Handlers[k], f)
    BY <1>2, <1>3, HandlersAre DEF TaskKinds
  <2>2. \A j \in 1 .. 9 : j < k => ~ CanHandle(Handlers[j], f)
    BY <1>2, <1>3, HandlersAre DEF TaskKinds
  <2> HIDE DEF s
  <2> QED
    BY <2>1, <2>2, FirstIs DEF s
<1>4. Parse(f) = CASE Handlers[s] = "task_started" -> TaskStarted(f)
      [] Handlers[s] = "task_progress" -> TaskProgress(f)
      [] Handlers[s] = "task_notification" -> TaskNotification(f)
      [] Handlers[s] = "task_updated" -> TaskUpdated(f)
      [] Handlers[s] = "system" -> System(f)
      [] Handlers[s] = "assistant" -> Assistant(f)
      [] Handlers[s] = "user" -> User(f)
      [] Handlers[s] = "result" -> Result(f)
      [] OTHER -> Unknown(f)
  BY DEF Parse
<1> HIDE DEF s
<1>5. CASE f.kind \in TaskKinds
  <2>1. Class[f.kind] = f.kind
    BY <1>5, ClassIs
  <2>2. f.kind = "task_started" => s = 1
    BY <1>3, <2>1, HandlersAre
  <2>3. f.kind = "task_progress" => s = 2
    BY <1>3, <2>1, HandlersAre
  <2>4. f.kind = "task_notification" => s = 3
    BY <1>3, <2>1, HandlersAre
  <2>5. f.kind = "task_updated" => s = 4
    BY <1>3, <2>1, HandlersAre
  <2> QED
    BY <1>4, <1>5, <2>2, <2>3, <2>4, <2>5, HandlersAre DEF TaskKinds, Answers, TextAnswers
<1>6. CASE f.kind \in {"init", "mode", "retry", "hook", "agent_notice"}
  <2>1. Class[f.kind] \in {"SystemMessage", "HookEventMessage"} /\ Type(f) = "system"
    BY <1>1, <1>6, ClassIs DEF Type, Made
  <2>2. s = 5
    BY <1>3, <2>1, HandlersAre
  <2> QED
    BY <1>4, <1>6, <2>2, HandlersAre DEF Answers, TextAnswers
<1>7. CASE f.kind \in Answers
  <2>1. Class[f.kind] = "AssistantMessage" /\ Type(f) = "assistant"
    BY <1>1, <1>7, ClassIs DEF Type, Made
  <2>2. s = 6
    BY <1>3, <2>1, HandlersAre
  <2> QED
    BY <1>4, <1>7, <2>2, HandlersAre DEF Answers, TextAnswers
<1>8. CASE f.kind \in {"results", "text_results", "command"}
  <2>1. Class[f.kind] = "UserMessage" /\ Type(f) = "user"
    BY <1>1, <1>8, ClassIs DEF Type, Made
  <2>2. s = 7
    BY <1>3, <2>1, HandlersAre
  <2> QED
    BY <1>4, <1>8, <2>2, HandlersAre DEF Answers, TextAnswers
<1>9. CASE f.kind = "done"
  <2>1. Class[f.kind] = "ResultMessage" /\ Type(f) = "result"
    BY <1>1, <1>9, ClassIs DEF Type, Made
  <2>2. s = 8
    BY <1>3, <2>1, HandlersAre
  <2> QED
    BY <1>4, <1>9, <2>2, HandlersAre DEF Answers, TextAnswers
<1> QED
  BY <1>5, <1>6, <1>7, <1>8, <1>9 DEF SentKinds, TaskKinds, Answers, TextAnswers

\* A placeholder shows no word.
LEMMA WordsAre ==
  /\ \A m : m.text = <<>> => Words(m) = {}
  /\ \A m : m.text = Filler => Words(m) = {}
BY DEF Words, ToSet, Filler

\* A frame whose two forms differ in their text and entries alone.
LEMMA FaceOf ==
  ASSUME NEW f, NEW t, NEW u, NEW x, NEW y, NEW i, NEW j, NEW n, NEW m,
         Live(f) = Parsed(t, u, x, i, n), Reloaded(f) = Parsed(t, u, y, j, m),
         Words(Live(f)) = Words(Reloaded(f)),
         f.kind \notin TextAnswers, n \cap BlockNames = m \cap BlockNames,
         n \ m \subseteq {"is_error", "api_error_status", "task_session_id"}
  PROVE  SameFace(f)
<1>1. /\ Live(f).type = t /\ Live(f).subtype = u /\ Live(f).names = n
      /\ Reloaded(f).type = t /\ Reloaded(f).subtype = u /\ Reloaded(f).names = m
  BY DEF Parsed
<1> QED
  BY <1>1 DEF SameFace

\* Every kind of frame shows the same on both ways.
LEMMA SameFaceKinds ==
  ASSUME NEW f, f.kind \in SentKinds \cup Made
  PROVE  SameFace(f)
<1>a. f.kind \in Made \cup TaskKinds \cup {"init", "mode", "retry", "hook",
                "agent_notice", "tool", "think", "think_tool", "results",
                "text_results", "command", "done"} =>
        f.kind \notin TextAnswers
  BY DEF TextAnswers, Made, TaskKinds
<1>1. CASE f.kind \in Made
  <2>1. Reloaded(f) = Live(f)
    BY <1>1 DEF Reloaded, StoredMade, Live
  <2> QED
    BY <1>1, <1>a, <2>1 DEF SameFace
<1>2. ASSUME f.kind \in SentKinds PROVE f.kind \notin Made /\ Live(f) = Parse(f)
  BY <1>2 DEF SentKinds, TaskKinds, Made, Live, Processed, Answers, TextAnswers
<1>3. CASE f.kind \in TaskKinds
  <2>1. f.kind \in SentKinds /\ Class[f.kind] \in TaskKinds
    BY <1>3, ClassIs DEF SentKinds
  <2>2. Reloaded(f) = StoredTask(f)
    BY <1>2, <2>1 DEF Reloaded
  <2>3. f.kind # "command"
    BY <1>3 DEF TaskKinds
  <2> QED
    BY <1>2, <1>3, <1>a, <2>1, <2>2, <2>3, ParseIs
       DEF SameFace, StoredTask, TaskStarted, TaskProgress, TaskNotification, TaskUpdated,
           Parsed, Words, TaskKinds, BlockNames
<1>4. CASE f.kind \in {"init", "mode", "retry", "hook", "agent_notice"}
  <2>1. f.kind \in SentKinds /\ Class[f.kind] \in {"SystemMessage", "HookEventMessage"}
    BY <1>4, ClassIs DEF SentKinds
  <2>2. Reloaded(f) = StoredSystem(f)
    BY <1>2, <2>1 DEF Reloaded, IsSystem, TaskKinds
  <2>3. Live(f) = System(f)
    BY <1>2, <1>4, <2>1, ParseIs
  <2>4. CASE f.kind = "init"
    <3>1. /\ Live(f) = Parsed("system", f.kind, Filler, NoId, {"init_data"})
          /\ Reloaded(f) = Parsed("system", f.kind, <<>>, NoId, {"init_data"})
      BY <1>2, <2>1, <2>2, <2>3, <2>4 DEF StoredSystem, System
    <3>2. Words(Live(f)) = {} /\ Words(Reloaded(f)) = {}
      BY <3>1, WordsAre DEF Parsed
    <3> QED
      BY <1>4, <1>a, <3>1, <3>2, FaceOf
  <2> QED
    BY <1>4, <1>a, <2>2, <2>3, <2>4 DEF SameFace, StoredSystem
<1>5. CASE f.kind \in Answers \cup {"results", "text_results", "command", "done"}
  <2>1. /\ f.kind \in SentKinds /\ ~ IsSystem(Class[f.kind])
        /\ f.kind \in Answers => Type(f) = "assistant" /\ Live(f) = Assistant(f)
        /\ f.kind \in {"results", "text_results", "command"} =>
             Type(f) = "user" /\ Live(f) = User(f)
        /\ f.kind = "done" => Type(f) = "result" /\ Live(f) = Result(f)
    <3>1. f.kind \in SentKinds /\ f.kind \notin Made
      BY <1>2, <1>5 DEF SentKinds
    <3> QED
      BY <1>2, <1>5, <3>1, ClassIs, ParseIs DEF IsSystem, TaskKinds, Type
  <2>2. Reloaded(f) = StoredOther(f)
    BY <1>2, <2>1 DEF Reloaded, IsSystem
  <2>3. CASE f.kind \in TextAnswers
    <3>1. Converted(f) = <<f.item>> /\ <<f.item>> # <<>>
      BY <2>3 DEF Converted
    <3>2. Reloaded(f) = Parsed("assistant", "none", <<f.item>>, NoId, Blocks[f.kind])
      BY <2>1, <2>2, <2>3, <3>1 DEF StoredOther, StoredText, Answers
    <3>3. Live(f) = Parsed("assistant", "none", <<f.item>>, NoId, {})
      BY <2>1, <2>3, <3>1 DEF Assistant, Answers
    <3>4. Words(Live(f)) = Words(Reloaded(f))
      BY <3>2, <3>3 DEF Words, Parsed
    <3>5. f.kind # "command"
      BY <2>3 DEF TextAnswers
    <3> QED
      BY <2>3, <3>2, <3>3, <3>4 DEF SameFace, Parsed
  <2>4. CASE f.kind \in {"tool", "think", "think_tool"}
    <3>1. Converted(f) = <<>> /\ f.kind \in Answers
      BY <2>4 DEF Converted, Made, Answers, TextAnswers
    <3>2. Reloaded(f) = Parsed("assistant", "none", <<>>, NoId, Blocks[f.kind])
      BY <2>1, <2>2, <2>4, <3>1 DEF StoredOther, StoredText
    <3>3. Live(f) = Parsed("assistant", "none", Filler, f.resp, Blocks[f.kind])
      BY <2>1, <2>4, <3>1 DEF Assistant
    <3>4. Words(Live(f)) = {} /\ Words(Reloaded(f)) = {}
      BY <3>2, <3>3, WordsAre DEF Parsed
    <3> QED
      BY <1>a, <2>4, <3>2, <3>3, <3>4, FaceOf
  <2>5. CASE f.kind = "results"
    <3>1. Converted(f) = <<>>
      BY <2>5 DEF Converted, Made, TextAnswers
    <3>2. Reloaded(f) = Parsed("user", "none", <<>>, NoId, Blocks[f.kind])
      BY <2>1, <2>2, <2>5, <3>1 DEF StoredOther, StoredText
    <3>3. Live(f) = Parsed("user", "none", Filler, NoId, Blocks[f.kind])
      BY <2>1, <2>5 DEF User
    <3>4. Words(Live(f)) = {} /\ Words(Reloaded(f)) = {}
      BY <3>2, <3>3, WordsAre DEF Parsed
    <3> QED
      BY <1>a, <2>5, <3>2, <3>3, <3>4, FaceOf
  <2>6. CASE f.kind = "text_results"
    <3>1. Converted(f) = <<f.item>>
      BY <2>6 DEF Converted
    <3>2. Reloaded(f) = Parsed("user", "none", <<f.item>>, NoId, Blocks[f.kind])
      BY <2>1, <2>2, <2>6, <3>1 DEF StoredOther, StoredText
    <3>3. Live(f) = Parsed("user", "none", <<f.item>>, NoId, Blocks[f.kind])
      BY <2>1, <2>6 DEF User
    <3> QED
      BY <1>a, <2>6, <3>2, <3>3 DEF SameFace
  <2>8. CASE f.kind = "command"
    <3>1. Reloaded(f) = Parsed("user", "none", StoredText(f), NoId, {})
      BY <2>1, <2>2, <2>8 DEF StoredOther
    <3>2. Live(f) = Parsed("user", "local_command_response", <<f.item>>, NoId,
                           {"is_local_command_response"})
      BY <2>1, <2>8 DEF User
    <3> QED
      BY <1>a, <2>8, <3>1, <3>2 DEF SameFace, Parsed, BlockNames
  <2>7. CASE f.kind = "done"
    <3>1. Reloaded(f) = Parsed("result", "success", <<>>, NoId, ResultNames)
      BY <2>1, <2>2, <2>7 DEF StoredOther
    <3>2. Live(f) = Parsed("result", "success", Filler, NoId,
                           ResultNames \cup {"is_error", "api_error_status"})
      BY <2>1, <2>7 DEF Result
    <3>3. Words(Live(f)) = {} /\ Words(Reloaded(f)) = {}
      BY <3>1, <3>2, WordsAre DEF Parsed
    <3> QED
      BY <1>a, <2>7, <3>1, <3>2, <3>3, FaceOf DEF BlockNames, ResultNames
  <2> QED
    BY <1>5, <2>3, <2>4, <2>5, <2>6, <2>7, <2>8 DEF Answers
<1> QED
  BY <1>1, <1>3, <1>4, <1>5 DEF SentKinds


-----------------------------------------------------------------------------
(* What a fold over a file computes.  The library's induction theorems take *)
(* an operator; that a set of naturals has a least element does not.        *)

\* A nonempty set of naturals has a least element.
LEMMA Least ==
  ASSUME NEW S, S \subseteq Nat, S # {}
  PROVE  \E n \in S : \A m \in S : n <= m
<1> DEFINE R == {p \in Nat \X Nat : p[1] < p[2]}
<1>1. IsWellFoundedOn(R, Nat)
  BY NatLessThanWellFounded DEF OpToRel
<1>2. \E x \in S : \A y \in S : ~ (<<y, x>> \in R)
  <2> HIDE DEF R
  <2> QED
    BY <1>1, WFMin
<1>3. PICK x \in S : \A y \in S : ~ (<<y, x>> \in R)
  BY <1>2
<1>4. \A y \in S : ~ (y < x)
  BY <1>3
<1> QED
  BY <1>4

\* The maximum that the folds of the library choose.
LEMMA Greatest ==
  ASSUME NEW n \in Nat, NEW s \in SUBSET (1 .. n), s # {}
  PROVE  Max(s) \in s /\ \A y \in s : y <= Max(s)
<1> DEFINE S == {n - x : x \in s}
<1>0. \A x \in s : x \in Int /\ n - x \in Nat
  OBVIOUS
<1>1. S \subseteq Nat /\ S # {}
  BY <1>0
<1>2. PICK m \in S : \A k \in S : m <= k
  <2> HIDE DEF S
  <2> QED
    BY <1>1, Least
<1>3. PICK x \in s : m = n - x
  OBVIOUS
<1>4. \A y \in s : y <= x
  <2> SUFFICES ASSUME NEW y \in s PROVE y <= x
    OBVIOUS
  <2>1. n - y \in S /\ m <= n - y
    BY <1>2
  <2> QED
    BY <1>0, <1>3, <2>1
<1>5. \E z \in s : \A y \in s : z >= y
  BY <1>0, <1>4
<1>6. Max(s) \in s /\ \A y \in s : Max(s) >= y
  BY <1>5 DEF Max
<1> QED
  BY <1>0, <1>6

\* The greatest index of a file and what is before it.
LEMMA TopIs ==
  ASSUME NEW k \in Nat, k # 0
  PROVE  Max(1 .. k) = k /\ (1 .. k) \ {k} = 1 .. k - 1 /\ 1 .. k # {}
<1>1. 1 .. k \in SUBSET (1 .. k) /\ k \in 1 .. k
  OBVIOUS
<1> DEFINE s == 1 .. k
<1>2. Max(s) \in s /\ \A y \in s : y <= Max(s)
  <2> HIDE DEF s
  <2>1. s \in SUBSET (1 .. k) /\ s # {}
    BY <1>1 DEF s
  <2> QED
    BY <2>1, Greatest
<1>3. Max(1 .. k) = k
  BY <1>1, <1>2
<1>4. (1 .. k) \ {k} = 1 .. k - 1
  OBVIOUS
<1> QED
  BY <1>1, <1>3, <1>4

\* The function that FoldLeft defines by recursion, for the legs.
Folds(g, frames, n) ==
  g = [s \in SUBSET (1 .. n) |->
         IF s = {} THEN <<>> ELSE ApplyFrame(g[s \ {Max(s)}], frames[Max(s)])]

\* That function exists for every file.
LEMMA FoldsExist ==
  ASSUME NEW frames
  PROVE  \A n \in Nat : \E g : Folds(g, frames, n)
<1> DEFINE S == {n \in Nat : ~ \E g : Folds(g, frames, n)}
<1> SUFFICES ASSUME S # {} PROVE FALSE
  OBVIOUS
<1>1. PICK n \in S : \A m \in S : n <= m
  <2> HIDE DEF S
  <2>1. S \subseteq Nat
    BY DEF S
  <2> QED
    BY <2>1, Least
<1>2. n \in Nat /\ ~ \E g : Folds(g, frames, n)
  OBVIOUS
<1>3. n # 0
  <2> SUFFICES ASSUME n = 0 PROVE FALSE
    OBVIOUS
  <2> DEFINE g == [s \in SUBSET (1 .. n) |-> <<>>]
  <2>1. \A s \in SUBSET (1 .. n) : s = {}
    OBVIOUS
  <2>2. Folds(g, frames, n)
    BY <2>1 DEF Folds
  <2> QED
    BY <1>2, <2>2
<1>4. n - 1 \in Nat /\ \E h : Folds(h, frames, n - 1)
  <2>1. n - 1 \in Nat /\ ~ (n <= n - 1)
    BY <1>2, <1>3
  <2> QED
    BY <1>1, <2>1
<1>5. PICK h : Folds(h, frames, n - 1)
  BY <1>4
<1> DEFINE g == [s \in SUBSET (1 .. n) |->
                   IF n \in s THEN ApplyFrame(h[s \ {n}], frames[n]) ELSE h[s]]
<1>6. \A s \in SUBSET (1 .. n - 1) :
        h[s] = IF s = {} THEN <<>> ELSE ApplyFrame(h[s \ {Max(s)}], frames[Max(s)])
  BY <1>5 DEF Folds
<1>7. \A s \in SUBSET (1 .. n) : n \notin s => s \in SUBSET (1 .. n - 1)
  BY <1>2
<1>8. ASSUME NEW s \in SUBSET (1 .. n)
      PROVE  g[s] = IF s = {} THEN <<>>
                    ELSE ApplyFrame(g[s \ {Max(s)}], frames[Max(s)])
  <2>1. CASE n \in s
    <3>1. Max(s) \in 1 .. n /\ n <= Max(s)
      BY <1>2, <2>1, Greatest
    <3>2. Max(s) = n
      BY <1>2, <3>1
    <3>3. g[s \ {n}] = h[s \ {n}]
      OBVIOUS
    <3> HIDE DEF g
    <3>4. g[s] = ApplyFrame(h[s \ {n}], frames[n])
      BY <2>1 DEF g
    <3> QED
      BY <2>1, <3>2, <3>3, <3>4
  <2>2. CASE n \notin s
    <3>1. s \in SUBSET (1 .. n - 1) /\ g[s] = h[s]
      BY <1>7, <2>2
    <3>2. \A t \in SUBSET s : g[t] = h[t]
      BY <2>2
    <3> HIDE DEF g
    <3>3. CASE s = {}
      BY <1>6, <3>1, <3>3
    <3>4. CASE s # {}
      <4>1. g[s \ {Max(s)}] = h[s \ {Max(s)}]
        BY <3>2
      <4> QED
        BY <1>6, <3>1, <3>4, <4>1
    <3> QED
      BY <3>3, <3>4
  <2> QED
    BY <2>1, <2>2
<1>9. Folds(g, frames, n)
  <2>1. g = [s \in SUBSET (1 .. n) |-> g[s]]
    OBVIOUS
  <2> HIDE DEF g
  <2> QED
    BY <1>8, <2>1 DEF Folds
<1> QED
  BY <1>2, <1>9

\* What it gives for a beginning of the file does not depend on the rest.
LEMMA FoldsSame ==
  ASSUME NEW n \in Nat, NEW m \in Nat, n <= m, NEW frames, NEW more,
         \A i \in 1 .. n : frames[i] = more[i],
         NEW g, NEW h, Folds(g, frames, n), Folds(h, more, m)
  PROVE  \A k \in 0 .. n : g[1 .. k] = h[1 .. k]
<1> DEFINE S == {k \in 0 .. n : g[1 .. k] # h[1 .. k]}
<1> SUFFICES ASSUME S # {} PROVE FALSE
  OBVIOUS
<1>1. PICK k \in S : \A j \in S : k <= j
  <2> HIDE DEF S
  <2>1. S \subseteq Nat
    BY DEF S
  <2> QED
    BY <2>1, Least
<1>2. k \in 0 .. n /\ g[1 .. k] # h[1 .. k]
  OBVIOUS
<1>3. /\ 1 .. k \in SUBSET (1 .. n) /\ 1 .. k \in SUBSET (1 .. m)
      /\ 1 .. k - 1 \in SUBSET (1 .. n)
  BY <1>2
<1>4. /\ g[1 .. k] = IF 1 .. k = {} THEN <<>>
                     ELSE ApplyFrame(g[(1 .. k) \ {Max(1 .. k)}], frames[Max(1 .. k)])
      /\ h[1 .. k] = IF 1 .. k = {} THEN <<>>
                     ELSE ApplyFrame(h[(1 .. k) \ {Max(1 .. k)}], more[Max(1 .. k)])
  BY <1>3 DEF Folds
<1>5. k # 0
  BY <1>2, <1>4
<1>6. Max(1 .. k) = k /\ (1 .. k) \ {k} = 1 .. k - 1 /\ 1 .. k # {}
  <2>1. k \in Nat
    BY <1>2
  <2> HIDE DEF S
  <2> QED
    BY <1>5, <2>1, TopIs
<1>8. g[1 .. k - 1] = h[1 .. k - 1]
  <2>1. k - 1 \in 0 .. n /\ ~ (k <= k - 1)
    BY <1>2, <1>5
  <2>2. k - 1 \notin S
    BY <1>1, <2>1
  <2> QED
    BY <2>1, <2>2
<1>9. frames[k] = more[k]
  BY <1>2, <1>5
<1> QED
  BY <1>2, <1>4, <1>6, <1>8, <1>9

\* The fold over a file is that function's value for the whole file.
LEMMA FoldIs ==
  ASSUME NEW frames, NEW n \in Nat, DOMAIN frames = 1 .. n
  PROVE  \E g : Folds(g, frames, n) /\ FoldLeft(ApplyFrame, <<>>, frames) = g[1 .. n]
<1> DEFINE it == CHOOSE g : Folds(g, frames, n)
<1>1. Folds(it, frames, n)
  BY FoldsExist
<1>2. FoldLeft(ApplyFrame, <<>>, frames) = it[1 .. n]
  BY DEF FoldLeft, MapThenFoldSet, Folds
<1> QED
  BY <1>1, <1>2

\* An empty file has no leg.
LEMMA FoldNone == FoldLeft(ApplyFrame, <<>>, <<>>) = <<>>
<1>1. DOMAIN <<>> = 1 .. 0
  OBVIOUS
<1>2. PICK g : Folds(g, <<>>, 0) /\ FoldLeft(ApplyFrame, <<>>, <<>>) = g[1 .. 0]
  BY <1>1, FoldIs
<1> QED
  BY <1>2 DEF Folds

\* One more frame in the file is one more step of the fold.
LEMMA FoldAppend ==
  ASSUME NEW S, NEW frames \in Seq(S), NEW f \in S
  PROVE  FoldLeft(ApplyFrame, <<>>, Append(frames, f))
           = ApplyFrame(FoldLeft(ApplyFrame, <<>>, frames), f)
<1> DEFINE n == Len(frames)
           more == Append(frames, f)
<1>1. n \in Nat /\ n + 1 \in Nat /\ DOMAIN frames = 1 .. n /\ DOMAIN more = 1 .. n + 1
      /\ more[n + 1] = f /\ \A i \in 1 .. n : frames[i] = more[i]
  BY AppendProperties, LenProperties
<1> HIDE DEF n, more
<1>2. PICK g : Folds(g, frames, n) /\ FoldLeft(ApplyFrame, <<>>, frames) = g[1 .. n]
  BY <1>1, FoldIs
<1>3. PICK h : Folds(h, more, n + 1) /\ FoldLeft(ApplyFrame, <<>>, more) = h[1 .. n + 1]
  BY <1>1, FoldIs
<1>4. g[1 .. n] = h[1 .. n]
  BY <1>1, <1>2, <1>3, FoldsSame
<1>5. Max(1 .. n + 1) = n + 1
  BY <1>1, TopIs
<1>6. (1 .. n + 1) \ {n + 1} = 1 .. n /\ 1 .. n + 1 # {}
  BY <1>1, TopIs
<1>7. h[1 .. n + 1] = ApplyFrame(h[1 .. n], more[n + 1])
  BY <1>3, <1>5, <1>6 DEF Folds
<1> QED
  BY <1>1, <1>2, <1>3, <1>4, <1>7 DEF more


-----------------------------------------------------------------------------
(* The inductive invariant of the file and of the legs.                    *)

OwnFrames == {Frame(k, k, NoId, "none") : k \in Made}
Frames == (UNION {ToSet(s) : s \in Scripts}) \cup OwnFrames
Legs == Seq([use : {f.use : f \in Frames}, over : BOOLEAN])

\* What the CLI may still send.
Sends(s) ==
  /\ s \in Seq(Frames)
  /\ \A i \in DOMAIN s : s[i].kind \in SentKinds \cup Pieces
  /\ \A i, j \in DOMAIN s :
       s[i].kind = "task_started" /\ s[j].kind = "task_started" /\ s[i].use = s[j].use
         => i = j

FileOK ==
  /\ file \in Seq(Frames)
  /\ \A i \in DOMAIN file : file[i].kind \in SentKinds \cup Made
  /\ reader = NoFrame \/ (reader \in Frames /\ reader.kind \in SentKinds)
  /\ notices \subseteq {f \in Frames : f.kind \in Made}

\* No leg has this tool use.
NoLeg(legs, use) == \A i \in DOMAIN legs : legs[i].use # use

LegsOK ==
  /\ registry \in [warm : BOOLEAN, legs : Legs]
  /\ view # "away" => registry.warm
  /\ Replayed \in Legs
  /\ unread \in Seq(Frames)
  /\ \A i \in DOMAIN script : script[i].kind = "task_started" => NoLeg(Replayed, script[i].use)
  /\ registry.warm /\ ~ legsBlurred /\ reader.kind = "task_started" => NoLeg(registry.legs, reader.use)

\* The registry lacks of the file at most the frame that the reader has in its
\* hands.
RegistryFollows ==
  registry.warm /\ ~ legsBlurred =>
    Replayed = IF reader.kind \in TaskKinds THEN ApplyFrame(registry.legs, reader)
               ELSE registry.legs

\* The events s bring the page from the legs a to the legs b; g are the legs
\* after each.
Passes(g, s, n) == \A i \in 1 .. n : g[i] = ApplyOnPage(g[i - 1], s[i])
Leads(a, s, b) == \E g : g[0] = a /\ g[Len(s)] = b /\ Passes(g, s, Len(s))

\* The page lacks of the registry at most what it has not read.
PageFollows ==
  view \in {"loading", "here", "stalled"} /\ ~ legsBlurred =>
    Leads(ui.legs, unread, registry.legs)

UiOK == DOMAIN ui = {"bubbles", "buffer", "last", "legs"}

LegsIInv ==
  Sends(script) /\ FileOK /\ LegsOK /\ RegistryFollows /\ UiOK /\ PageFollows

-----------------------------------------------------------------------------
(* Lemmas about the stream and the legs.                                   *)

Shrinks(s, r) ==
  Sends(r) /\ \A i \in DOMAIN r : \E j \in DOMAIN s : r[i] = s[j]

\* Nothing has been sent.
LEMMA ShrinksSelf == \A s : Sends(s) => Shrinks(s, s)
BY DEF Shrinks

\* What the CLI has still to send after some of it.
LEMMA SuffixShrinks ==
  ASSUME NEW s, Sends(s), NEW k \in 1 .. Len(s) + 1
  PROVE  Shrinks(s, SubSeq(s, k, Len(s)))
<1> DEFINE n == Len(s)
           r == SubSeq(s, k, n)
<1>1. s \in Seq(Frames) /\ n \in Nat /\ DOMAIN s = 1 .. n /\ k \in Int /\ k >= 1 /\ k <= n + 1
  BY LenProperties DEF Sends
<1>2. \A i \in k .. n : s[i] \in Frames
  BY <1>1, ElementOfSeq
<1> HIDE DEF n, r
<1>3. /\ r \in Seq(Frames) /\ Len(r) = IF k <= n THEN n - k + 1 ELSE 0
      /\ \A i \in 1 .. n - k + 1 : r[i] = s[k + i - 1]
  BY <1>1, <1>2, SubSeqProperties DEF r
<1>4. DOMAIN r = 1 .. n - k + 1
  <2>1. DOMAIN r = 1 .. Len(r)
    BY <1>3, LenProperties
  <2> QED
    BY <1>1, <1>3, <2>1
<1>5. \A i \in DOMAIN r : k + i - 1 \in DOMAIN s /\ r[i] = s[k + i - 1]
  BY <1>1, <1>3, <1>4
<1>6. \A i, j \in DOMAIN r : k + i - 1 = k + j - 1 => i = j
  BY <1>1, <1>4
<1>7. Sends(r)
  BY <1>3, <1>5, <1>6 DEF Sends
<1>8. \A i \in DOMAIN r : \E j \in DOMAIN s : r[i] = s[j]
  BY <1>5
<1> QED
  BY <1>7, <1>8 DEF Shrinks, r, n

\* The same after the first.
LEMMA TailShrinks ==
  ASSUME NEW s, Sends(s), s # <<>>
  PROVE  /\ Shrinks(s, Tail(s)) /\ 1 \in DOMAIN s /\ Head(s) = s[1]
         /\ Head(s) \in Frames /\ Head(s).kind \in SentKinds \cup Pieces
         /\ \A i \in DOMAIN Tail(s) : i + 1 \in DOMAIN s /\ Tail(s)[i] = s[i + 1] /\ i + 1 # 1
<1>1. s \in Seq(Frames) /\ Len(s) \in Nat /\ DOMAIN s = 1 .. Len(s) /\ Len(s) # 0
  BY LenProperties, EmptySeq DEF Sends
<1>2. Tail(s) = SubSeq(s, 2, Len(s))
  BY <1>1, TailIsSubSeq DEF Sends
<1>3. Shrinks(s, Tail(s))
  <2>1. 2 \in 1 .. Len(s) + 1
    BY <1>1
  <2> QED
    BY <1>2, <2>1, SuffixShrinks
<1>4. /\ Len(Tail(s)) = Len(s) - 1 /\ Tail(s) \in Seq(Frames)
      /\ \A i \in 1 .. Len(Tail(s)) : Tail(s)[i] = s[i + 1]
  BY <1>1, HeadTailProperties
<1>5. DOMAIN Tail(s) = 1 .. Len(s) - 1
  BY <1>4, LenProperties
<1>6. 1 \in DOMAIN s /\ Head(s) = s[1] /\ s[1] \in Frames
  BY <1>1, ElementOfSeq
<1> QED
  BY <1>1, <1>3, <1>4, <1>5, <1>6 DEF Sends

\* The same after the response it is in.
LEMMA AfterShrinks ==
  ASSUME Sends(script)
  PROVE  Shrinks(script, AfterResponse)
<1> DEFINE cut == {i \in DOMAIN script : script[i].kind = "start"}
           k == CHOOSE i \in cut : \A j \in cut : i <= j
<1>1. script \in Seq(Frames) /\ Len(script) \in Nat /\ DOMAIN script = 1 .. Len(script)
  BY LenProperties DEF Sends
<1>2. CASE cut = {}
  <2>1. AfterResponse = <<>>
    BY <1>2 DEF AfterResponse
  <2>2. Sends(<<>>)
    BY DEF Sends
  <2> QED
    BY <2>1, <2>2 DEF Shrinks
<1>3. CASE cut # {}
  <2>1. AfterResponse = SubSeq(script, k, Len(script))
    BY <1>3 DEF AfterResponse
  <2>2. cut \subseteq Nat /\ cut \subseteq 1 .. Len(script)
    BY <1>1
  <2> HIDE DEF cut
  <2>3. \E i \in cut : \A j \in cut : i <= j
    BY <1>3, <2>2, Least
  <2>4. k \in cut
    BY <2>3
  <2>5. \A i \in cut : i \in 1 .. Len(script) + 1
    BY <1>1, <2>2
  <2>6. k \in 1 .. Len(script) + 1
    BY <2>4, <2>5
  <2> HIDE DEF k
  <2> QED
    BY <2>1, <2>6, SuffixShrinks
<1> QED
  BY <1>2, <1>3

\* What a frame does to the legs.
LEMMA ApplyIs ==
  ASSUME NEW legs, NEW f
  PROVE  /\ f.kind = "task_started" => ApplyFrame(legs, f) = Begun(legs, f.use)
         /\ f.kind \in {"task_notification", "task_updated"} => ApplyFrame(legs, f) = Ended(legs)
         /\ f.kind \notin {"task_started", "task_notification", "task_updated"} =>
              ApplyFrame(legs, f) = legs
         /\ f.kind \notin TaskKinds => ApplyFrame(legs, f) = legs
         /\ f.kind # "task_started" \/ NoLeg(legs, f.use) => ApplyOnPage(legs, f) = ApplyFrame(legs, f)
         /\ f.kind \notin TaskKinds => ApplyOnPage(legs, f) = legs
BY DEF ApplyFrame, ApplyOnPage, NoLeg, TaskKinds

\* A frame keeps the shape of the legs, and adds no other tool use than its own.
LEMMA ApplyKeeps ==
  ASSUME NEW legs \in Legs, NEW f \in Frames
  PROVE  /\ ApplyFrame(legs, f) \in Legs
         /\ \A u : NoLeg(legs, u) /\ (f.kind = "task_started" => f.use # u)
                  => NoLeg(ApplyFrame(legs, f), u)
<1> DEFINE Leg == [use : {g.use : g \in Frames}, over : BOOLEAN]
           x == [use |-> f.use, over |-> FALSE]
<1>1. legs \in Seq(Leg) /\ x \in Leg
  BY DEF Legs
<1>2. CASE f.kind = "task_started"
  <2>1. ApplyFrame(legs, f) = Append(legs, x)
    BY <1>2, ApplyIs DEF Begun
  <2>2. /\ Append(legs, x) \in Seq(Leg) /\ Len(legs) \in Nat
        /\ DOMAIN Append(legs, x) = 1 .. Len(legs) + 1 /\ DOMAIN legs = 1 .. Len(legs)
        /\ Append(legs, x)[Len(legs) + 1] = x
        /\ \A i \in 1 .. Len(legs) : Append(legs, x)[i] = legs[i]
    BY <1>1, AppendProperties, LenProperties
  <2>3. x.use = f.use
    OBVIOUS
  <2> HIDE DEF x, Leg
  <2>4. \A i \in 1 .. Len(legs) + 1 : i \in 1 .. Len(legs) \/ i = Len(legs) + 1
    BY <2>2
  <2>5. \A u : NoLeg(legs, u) /\ f.use # u => NoLeg(Append(legs, x), u)
    BY <2>2, <2>3, <2>4 DEF NoLeg
  <2> QED
    BY <1>2, <2>1, <2>2, <2>5 DEF Legs, Leg
<1>3. CASE f.kind \in {"task_notification", "task_updated"} /\ Ended(legs) # legs
  <2> DEFINE n == Len(legs)
             e == [legs EXCEPT ![n].over = TRUE]
  <2>1. legs # <<>> /\ Ended(legs) = e /\ ApplyFrame(legs, f) = e
    BY <1>3, ApplyIs DEF Ended
  <2>2. n \in Nat /\ n # 0 /\ DOMAIN legs = 1 .. n /\ n \in DOMAIN legs
    BY <1>1, <2>1, LenProperties, EmptySeq
  <2>3. legs[n] \in Leg
    <3> HIDE DEF Leg, e, x
    <3> QED
      BY <1>1, <2>2, ElementOfSeq
  <2> HIDE DEF n
  <2>4. [legs[n] EXCEPT !.over = TRUE] \in Leg /\ [legs[n] EXCEPT !.over = TRUE].use = legs[n].use
    BY <2>3
  <2>5. e = [legs EXCEPT ![n] = [legs[n] EXCEPT !.over = TRUE]]
    OBVIOUS
  <2> HIDE DEF Leg, e
  <2>6. e \in Seq(Leg)
    BY <1>1, <2>2, <2>4, <2>5, ExceptSeq
  <2>7. DOMAIN e = DOMAIN legs /\ \A i \in DOMAIN legs : e[i].use = legs[i].use
    BY <1>1, <2>2, <2>4, <2>5
  <2>8. \A u : NoLeg(legs, u) => NoLeg(e, u)
    BY <2>7 DEF NoLeg
  <2> QED
    BY <2>1, <2>6, <2>8 DEF Legs, Leg
<1>4. CASE ApplyFrame(legs, f) = legs
  BY <1>4
<1> QED
  BY <1>2, <1>3, <1>4, ApplyIs

\* No event, no change.
LEMMA LeadsNone == \A a, b : Leads(a, <<>>, b) <=> a = b
<1>1. ASSUME NEW a PROVE Leads(a, <<>>, a)
  <2> DEFINE g == [i \in {0} |-> a]
  <2>1. g[0] = a /\ Len(<<>>) = 0 /\ 1 .. 0 = {}
    OBVIOUS
  <2> QED
    BY <2>1 DEF Leads, Passes
<1>2. \A a, b : Leads(a, <<>>, b) => a = b
  BY DEF Leads
<1> QED
  BY <1>1, <1>2

\* One more event.
LEMMA PassesOneMore ==
  ASSUME NEW n \in Nat, NEW h, NEW r, Passes(h, r, n), h[n + 1] = ApplyOnPage(h[n], r[n + 1])
  PROVE  Passes(h, r, n + 1)
<1> SUFFICES ASSUME NEW i \in 1 .. n + 1 PROVE h[i] = ApplyOnPage(h[i - 1], r[i])
  BY DEF Passes
<1>1. CASE i \in 1 .. n
  BY <1>1 DEF Passes
<1>2. CASE i = n + 1
  <2>1. i - 1 = n
    BY <1>2
  <2> QED
    BY <1>2, <2>1
<1> QED
  BY <1>1, <1>2

\* An event that comes leads on from where the others lead to.
LEMMA LeadsAppend ==
  ASSUME NEW a, NEW b, NEW s \in Seq(Frames), NEW e \in Frames, Leads(a, s, b)
  PROVE  Leads(a, s \o <<e>>, ApplyOnPage(b, e))
<1>1. PICK g : g[0] = a /\ g[Len(s)] = b /\ Passes(g, s, Len(s))
  BY DEF Leads
<1>2. PICK n, r : n = Len(s) /\ r = s \o <<e>>
  OBVIOUS
<1>3. n \in Nat /\ Len(r) = n + 1 /\ r[n + 1] = e /\ \A i \in 1 .. n : r[i] = s[i]
  BY <1>2, LenProperties, ConcatProperties
<1>4. PICK h : h = [i \in 0 .. n + 1 |-> IF i = n + 1 THEN ApplyOnPage(b, e) ELSE g[i]]
  OBVIOUS
<1>5. h[0] = a /\ h[n + 1] = ApplyOnPage(b, e) /\ \A i \in 0 .. n : h[i] = g[i]
  BY <1>1, <1>3, <1>4
<1>6. \A i \in 1 .. n : h[i] = ApplyOnPage(h[i - 1], r[i])
  <2> SUFFICES ASSUME NEW i \in 1 .. n PROVE h[i] = ApplyOnPage(h[i - 1], r[i])
    OBVIOUS
  <2>1. i \in 0 .. n /\ i - 1 \in 0 .. n
    BY <1>3
  <2>2. g[i] = ApplyOnPage(g[i - 1], s[i])
    BY <1>1, <1>2 DEF Passes
  <2> QED
    BY <1>3, <1>5, <2>1, <2>2
<1>7. h[n + 1] = ApplyOnPage(h[n], r[n + 1])
  <2>1. n \in 0 .. n /\ g[n] = b
    BY <1>1, <1>2, <1>3
  <2> QED
    BY <1>3, <1>5, <2>1
<1>8. Passes(h, r, n)
  BY <1>6 DEF Passes
<1>9. Passes(h, r, n + 1)
  BY <1>3, <1>7, <1>8, PassesOneMore
<1> QED
  BY <1>2, <1>3, <1>5, <1>9 DEF Leads

\* An event that is read is the first step of the way.
LEMMA LeadsTail ==
  ASSUME NEW a, NEW b, NEW s \in Seq(Frames), s # <<>>, Leads(a, s, b)
  PROVE  Leads(ApplyOnPage(a, Head(s)), Tail(s), b)
<1>1. PICK g : g[0] = a /\ g[Len(s)] = b /\ Passes(g, s, Len(s))
  BY DEF Leads
<1>2. PICK n, r : n = Len(s) /\ r = Tail(s)
  OBVIOUS
<1>3. /\ n \in Nat /\ n # 0 /\ Len(r) = n - 1 /\ Head(s) = s[1]
      /\ \A i \in 1 .. n - 1 : r[i] = s[i + 1]
  BY <1>2, LenProperties, EmptySeq, HeadTailProperties
<1>4. PICK h : h = [i \in 0 .. n - 1 |-> g[i + 1]]
  OBVIOUS
<1>5. \A i \in 0 .. n - 1 : h[i] = g[i + 1]
  BY <1>4
<1>6. \A i \in 1 .. n : g[i] = ApplyOnPage(g[i - 1], s[i])
  BY <1>1, <1>2 DEF Passes
<1>7. h[0] = ApplyOnPage(a, Head(s))
  <2>1. 0 \in 0 .. n - 1 /\ 0 + 1 = 1 /\ 1 \in 1 .. n /\ 1 - 1 = 0
    BY <1>3
  <2>2. g[1] = ApplyOnPage(g[0], s[1])
    BY <1>6, <2>1
  <2>3. h[0] = g[1]
    BY <1>5, <2>1
  <2> QED
    BY <1>1, <1>3, <2>2, <2>3
<1>8. h[n - 1] = b
  <2>1. n - 1 \in 0 .. n - 1 /\ n - 1 + 1 = n
    BY <1>3
  <2> QED
    BY <1>1, <1>2, <1>5, <2>1
<1>9. Passes(h, r, n - 1)
  <2> SUFFICES ASSUME NEW i \in 1 .. n - 1 PROVE h[i] = ApplyOnPage(h[i - 1], r[i])
    BY DEF Passes
  <2>1. i \in 0 .. n - 1 /\ i - 1 \in 0 .. n - 1 /\ i - 1 + 1 = i /\ i + 1 \in 1 .. n /\ i + 1 - 1 = i
    BY <1>3
  <2>2. g[i + 1] = ApplyOnPage(g[i], s[i + 1])
    BY <1>6, <2>1
  <2>3. h[i] = g[i + 1] /\ h[i - 1] = g[i]
    BY <1>5, <2>1
  <2> QED
    BY <1>3, <2>2, <2>3
<1> QED
  BY <1>2, <1>3, <1>7, <1>8, <1>9 DEF Leads


-----------------------------------------------------------------------------
(* The steps.                                                              *)

\* The server's own messages are frames, and none is about an agent.
LEMMA MadeFrames ==
  ASSUME NEW k \in Made
  PROVE  /\ Frame(k, k, NoId, "none") \in Frames
         /\ Frame(k, k, NoId, "none").kind = k /\ k \notin TaskKinds
<1>1. Frame(k, k, NoId, "none") \in OwnFrames
  BY DEF OwnFrames
<1>2. Frame(k, k, NoId, "none") \in Frames
  BY <1>1 DEF Frames
<1>3. Frame(k, k, NoId, "none").kind = k
  BY DEF Frame
<1>4. k \notin TaskKinds
  BY DEF Made, TaskKinds
<1> QED
  BY <1>2, <1>3, <1>4

\* That there is no frame in the reader's hands is no frame about an agent.
LEMMA NoFrameIs == NoFrame.kind = "none" /\ "none" \notin TaskKinds /\ "none" # "task_started"
BY DEF NoFrame, Frame, TaskKinds

\* What is told comes after what has not been read.
LEMMA ToldIs ==
  ASSUME NEW e \in Frames, Told(<<e>>), unread \in Seq(Frames)
  PROVE  /\ unread' \in Seq(Frames)
         /\ view \notin {"away", "hydrating"} => unread' = unread \o <<e>>
<1>1. <<e>> \in Seq(Frames)
  OBVIOUS
<1>2. unread \o <<e>> \in Seq(Frames)
  BY <1>1, ConcatProperties
<1> QED
  BY <1>2 DEF Told

\* A message of another task changes no leg.
LEMMA SaysIs ==
  ASSUME NEW kind \in Made, Says(kind), FileOK,
         UNCHANGED reader
  PROVE  FileOK'
<1> DEFINE f == Frame(kind, kind, NoId, "none")
<1>1. f \in Frames /\ f.kind = kind
  BY MadeFrames
<1>2. file' = Append(file, f) /\ notices' = notices \cup {f}
  BY DEF Says
<1> HIDE DEF f
<1>3. /\ file' \in Seq(Frames) /\ Len(file) \in Nat /\ DOMAIN file = 1 .. Len(file)
      /\ DOMAIN file' = 1 .. Len(file) + 1 /\ file'[Len(file) + 1] = f
      /\ \A i \in 1 .. Len(file) : file'[i] = file[i]
  BY <1>1, <1>2, AppendProperties, LenProperties DEF FileOK
<1>4. \A i \in 1 .. Len(file) + 1 : i \in 1 .. Len(file) \/ i = Len(file) + 1
  BY <1>3
<1> QED
  BY <1>1, <1>2, <1>3, <1>4 DEF FileOK

\* Nor what a replay gives.
LEMMA SaysReplays ==
  ASSUME NEW kind \in Made, Says(kind), FileOK
  PROVE  Replayed' = Replayed
<1> DEFINE f == Frame(kind, kind, NoId, "none")
<1>1. f \in Frames /\ f.kind \notin TaskKinds
  BY MadeFrames
<1>2. file' = Append(file, f)
  BY DEF Says
<1> HIDE DEF f
<1>3. FoldLeft(ApplyFrame, <<>>, Append(file, f)) = ApplyFrame(Replayed, f)
  BY <1>1, FoldAppend DEF FileOK, Replayed
<1>4. ApplyFrame(Replayed, f) = Replayed
  BY <1>1, ApplyIs
<1> QED
  BY <1>2, <1>3, <1>4 DEF Replayed

\* Nothing but notices of the file, the script and the reader changes.
LEMMA FileSame ==
  ASSUME FileOK, UNCHANGED <<file, reader>>, notices' \subseteq notices
  PROVE  FileOK'
BY DEF FileOK

\* Every step keeps the file, and what the CLI may still send.
LEMMA FileStep ==
  ASSUME Sends(script), FileOK, [Next]_vars
  PROVE  Shrinks(script, script') /\ FileOK'
<1>1. CASE Emit
  <2>1. script # <<>> /\ script' = Tail(script) /\ UNCHANGED <<file, reader, notices>>
    BY <1>1 DEF Emit
  <2> QED
    BY <2>1, TailShrinks, FileSame
<1>2. CASE Store
  <2>1. /\ script # <<>> /\ Head(script).kind \notin Pieces /\ script' = Tail(script)
        /\ file' = Append(file, Head(script)) /\ reader' = Head(script) /\ UNCHANGED notices
    BY <1>2 DEF Store
  <2>2. /\ Head(script) \in Frames /\ Head(script).kind \in SentKinds
        /\ Shrinks(script, Tail(script))
    BY <2>1, TailShrinks
  <2>3. /\ file' \in Seq(Frames) /\ Len(file) \in Nat /\ DOMAIN file = 1 .. Len(file)
        /\ DOMAIN file' = 1 .. Len(file) + 1 /\ file'[Len(file) + 1] = Head(script)
        /\ \A i \in 1 .. Len(file) : file'[i] = file[i]
    BY <2>1, <2>2, AppendProperties, LenProperties DEF FileOK
  <2>4. \A i \in 1 .. Len(file) + 1 : i \in 1 .. Len(file) \/ i = Len(file) + 1
    BY <2>3
  <2>5. \A i \in DOMAIN file' : file'[i].kind \in SentKinds \cup Made
    BY <2>2, <2>3, <2>4 DEF FileOK
  <2> QED
    BY <2>1, <2>2, <2>3, <2>5 DEF FileOK
<1>3. CASE Publish
  <2>1. UNCHANGED <<script, file, notices>> /\ reader' = NoFrame
    BY <1>3 DEF Publish
  <2> QED
    BY <2>1, ShrinksSelf DEF FileOK
<1>4. ASSUME NEW f \in notices, PublishNotice(f) PROVE Shrinks(script, script') /\ FileOK'
  <2>1. UNCHANGED <<script, file, reader>> /\ notices' \subseteq notices
    BY <1>4 DEF PublishNotice
  <2> QED
    BY <2>1, ShrinksSelf, FileSame
<1>5. CASE Send \/ Launch
  <2>1. UNCHANGED <<script, reader>> /\ (Says("said") \/ Says("client_launched"))
    BY <1>5 DEF Send, Launch
  <2>2. "said" \in Made /\ "client_launched" \in Made
    BY DEF Made
  <2> QED
    BY <2>1, <2>2, ShrinksSelf, SaysIs
<1>6. CASE Interrupt
  <2>1. UNCHANGED reader /\ Says("interrupt") /\ script' \in {script, AfterResponse}
    BY <1>6 DEF Interrupt
  <2>2. "interrupt" \in Made
    BY DEF Made
  <2> QED
    BY <2>1, <2>2, ShrinksSelf, AfterShrinks, SaysIs
<1>7. CASE Terminate
  <2>1. script' = AfterResponse /\ reader' = NoFrame /\ UNCHANGED <<file, notices>>
    BY <1>7 DEF Terminate
  <2> QED
    BY <2>1, AfterShrinks DEF FileOK
<1>8. CASE Visit \/ Ask \/ Loaded \/ Read \/ HearEnd \/ Stall \/ Sync \/ Reconnect \/ UNCHANGED vars
  <2>1. UNCHANGED <<script, file, reader, notices>>
    BY <1>8 DEF Visit, Ask, Loaded, Read, HearEnd, Stall, Sync, Reconnect, vars, serverVars
  <2> QED
    BY <2>1, ShrinksSelf, FileSame
<1> QED
  BY <1>1, <1>2, <1>3, <1>4, <1>5, <1>6, <1>7, <1>8 DEF Next

\* A step that leaves the registry, the frame in the reader's hands and what a
\* replay gives as they were.
LEMMA LegsSame ==
  ASSUME LegsOK, RegistryFollows, Shrinks(script, script'), unread' \in Seq(Frames),
         UNCHANGED <<registry, reader>>, Replayed' = Replayed,
         legsBlurred => legsBlurred', view = "away" => view' = "away"
  PROVE  LegsOK' /\ RegistryFollows'
<1>1. \A i \in DOMAIN script' : script'[i].kind = "task_started" => NoLeg(Replayed', script'[i].use)
  BY DEF LegsOK, Shrinks
<1>2. RegistryFollows'
  BY DEF RegistryFollows
<1>3. registry.warm /\ ~ legsBlurred' /\ reader.kind = "task_started" => NoLeg(registry.legs, reader.use)
  BY DEF LegsOK
<1>4. Replayed' \in Legs
  BY DEF LegsOK
<1> QED
  BY <1>1, <1>2, <1>3, <1>4 DEF LegsOK

\* What a replay gives depends on the file alone.
LEMMA ReplaySame ==
  ASSUME UNCHANGED file
  PROVE  Replayed' = Replayed
BY DEF Replayed


\* The frame in the reader's hands comes into the registry.
LEMMA FedFollows ==
  ASSUME FileOK, LegsOK, RegistryFollows, reader \in Frames
  PROVE  /\ Fed(reader) \in [warm : BOOLEAN, legs : Legs]
         /\ registry.warm => Fed(reader).warm
         /\ Fed(reader).warm /\ ~ legsBlurred => Fed(reader).legs = Replayed
         /\ registry.warm /\ ~ legsBlurred =>
              Fed(reader).legs = ApplyOnPage(registry.legs, reader)
<1>1. registry \in [warm : BOOLEAN, legs : Legs] /\ registry.legs \in Legs /\ Replayed \in Legs
  BY DEF LegsOK
<1>2. CASE reader.kind \in TaskKinds /\ registry.warm
  <2>1. Fed(reader) = [registry EXCEPT !.legs = ApplyFrame(@, reader)]
    BY <1>2 DEF Fed
  <2>2. Fed(reader) = [warm |-> TRUE, legs |-> ApplyFrame(registry.legs, reader)]
    BY <1>1, <1>2, <2>1
  <2>3. ApplyFrame(registry.legs, reader) \in Legs
    BY <1>1, ApplyKeeps
  <2>4. ~ legsBlurred => ApplyOnPage(registry.legs, reader) = ApplyFrame(registry.legs, reader)
    BY <1>2, ApplyIs DEF LegsOK
  <2>5. ~ legsBlurred => ApplyFrame(registry.legs, reader) = Replayed
    BY <1>2 DEF RegistryFollows
  <2> QED
    BY <2>2, <2>3, <2>4, <2>5
<1>3. CASE reader.kind \in TaskKinds /\ ~ registry.warm
  <2>1. Fed(reader) = [warm |-> TRUE, legs |-> Replayed]
    BY <1>3 DEF Fed, Hydrated
  <2> QED
    BY <1>1, <1>3, <2>1
<1>4. CASE reader.kind \notin TaskKinds
  <2>1. Fed(reader) = registry
    BY <1>4 DEF Fed
  <2>2. ApplyOnPage(registry.legs, reader) = registry.legs
    BY <1>4, ApplyIs
  <2>3. registry.warm /\ ~ legsBlurred => registry.legs = Replayed
    BY <1>4 DEF RegistryFollows
  <2> QED
    BY <1>1, <2>1, <2>2, <2>3
<1> QED
  BY <1>2, <1>3, <1>4

\* A frame that the reader has stored comes into what a replay gives.
LEMMA StoreReplays ==
  ASSUME FileOK, NEW f \in Frames, file' = Append(file, f)
  PROVE  Replayed' = ApplyFrame(Replayed, f)
<1>1. FoldLeft(ApplyFrame, <<>>, Append(file, f)) = ApplyFrame(Replayed, f)
  BY FoldAppend DEF FileOK, Replayed
<1> QED
  BY <1>1 DEF Replayed

\* Every step keeps the registry as the file has it.
LEMMA LegsStep ==
  ASSUME Sends(script), FileOK, LegsOK, RegistryFollows, UiOK, [Next]_vars
  PROVE  LegsOK' /\ RegistryFollows'
<1>0. Shrinks(script, script') /\ FileOK' /\ unread \in Seq(Frames)
  BY FileStep DEF LegsOK
<1>1. CASE Emit
  <2>1. /\ script # <<>> /\ Told(<<Head(script)>>)
        /\ UNCHANGED <<file, reader, registry, legsBlurred, view>>
    BY <1>1 DEF Emit, ghosts
  <2>2. Head(script) \in Frames
    BY <2>1, TailShrinks
  <2>3. unread' \in Seq(Frames)
    BY <1>0, <2>1, <2>2, ToldIs
  <2>4. Replayed' = Replayed
    BY <2>1, ReplaySame
  <2> QED
    BY <1>0, <2>1, <2>3, <2>4, LegsSame
<1>2. CASE Store
  <2>1. /\ reader = NoFrame /\ script # <<>> /\ script' = Tail(script)
        /\ Head(script).kind \notin Pieces
        /\ file' = Append(file, Head(script)) /\ reader' = Head(script)
        /\ UNCHANGED <<registry, legsBlurred, view, unread>>
    BY <1>2 DEF Store, ghosts
  <2> DEFINE f == Head(script)
  <2>2. /\ f \in Frames /\ 1 \in DOMAIN script /\ f = script[1]
        /\ \A i \in DOMAIN script' : i + 1 \in DOMAIN script /\ script'[i] = script[i + 1] /\ i + 1 # 1
    BY <2>1, TailShrinks
  <2> HIDE DEF f
  <2>3. Replayed' = ApplyFrame(Replayed, f)
    BY <2>1, <2>2, StoreReplays DEF f
  <2>4. Replayed \in Legs /\ ApplyFrame(Replayed, f) \in Legs
    BY <2>2, ApplyKeeps DEF LegsOK
  <2>5. registry.warm /\ ~ legsBlurred => registry.legs = Replayed
    BY <2>1, NoFrameIs DEF RegistryFollows
  <2>6. f.kind = "task_started" => NoLeg(Replayed, f.use)
    BY <2>2 DEF LegsOK
  <2>7. ASSUME NEW i \in DOMAIN script', script'[i].kind = "task_started"
        PROVE  NoLeg(Replayed', script'[i].use)
    <3>1. NoLeg(Replayed, script'[i].use)
      BY <2>2, <2>7 DEF LegsOK
    <3>2. f.kind = "task_started" => f.use # script'[i].use
      BY <2>2, <2>7 DEF Sends
    <3> QED
      BY <2>2, <2>3, <2>4, <3>1, <3>2, ApplyKeeps
  <2>8. registry'.warm /\ ~ legsBlurred' /\ reader'.kind = "task_started" =>
          NoLeg(registry'.legs, reader'.use)
    BY <2>1, <2>5, <2>6 DEF f
  <2>9. RegistryFollows'
    <3>1. reader' = f
      BY <2>1 DEF f
    <3>2. f.kind \notin TaskKinds => ApplyFrame(Replayed, f) = Replayed
      BY ApplyIs
    <3> QED
      BY <2>1, <2>3, <2>5, <3>1, <3>2 DEF RegistryFollows
  <2> QED
    BY <2>1, <2>3, <2>4, <2>7, <2>8, <2>9 DEF LegsOK
<1>3. CASE Publish
  <2>1. /\ reader # NoFrame /\ registry' = Fed(reader) /\ Told(<<reader>>)
        /\ reader' = NoFrame /\ UNCHANGED <<script, file, legsBlurred, view>>
    BY <1>3 DEF Publish, ghosts
  <2>2. reader \in Frames
    BY <2>1 DEF FileOK
  <2>3. unread' \in Seq(Frames)
    BY <1>0, <2>1, <2>2, ToldIs
  <2>4. Replayed' = Replayed
    BY <2>1, ReplaySame
  <2>5. /\ registry' \in [warm : BOOLEAN, legs : Legs]
        /\ registry.warm => registry'.warm
        /\ registry'.warm /\ ~ legsBlurred' => registry'.legs = Replayed'
    BY <2>1, <2>2, <2>4, FedFollows
  <2>6. RegistryFollows'
    BY <2>1, <2>5, NoFrameIs DEF RegistryFollows
  <2> QED
    BY <2>1, <2>3, <2>4, <2>5, <2>6, NoFrameIs DEF LegsOK
<1>4. ASSUME NEW f \in notices, PublishNotice(f) PROVE LegsOK' /\ RegistryFollows'
  <2>1. Told(<<f>>) /\ UNCHANGED <<file, reader, registry, legsBlurred, view>>
    BY <1>4 DEF PublishNotice, ghosts
  <2>2. f \in Frames
    BY DEF FileOK
  <2>3. unread' \in Seq(Frames)
    BY <1>0, <2>1, <2>2, ToldIs
  <2>4. Replayed' = Replayed
    BY <2>1, ReplaySame
  <2> QED
    BY <1>0, <2>1, <2>3, <2>4, LegsSame
<1>5. CASE Send \/ Launch
  <2>1. /\ UNCHANGED <<reader, registry, legsBlurred, view, unread>>
        /\ Says("said") \/ Says("client_launched")
    BY <1>5 DEF Send, Launch, ghosts
  <2>2. "said" \in Made /\ "client_launched" \in Made
    BY DEF Made
  <2>3. Replayed' = Replayed
    BY <2>1, <2>2, SaysReplays
  <2> QED
    BY <1>0, <2>1, <2>3, LegsSame
<1>6. CASE Interrupt
  <2>1. /\ UNCHANGED <<reader, registry, legsBlurred, view>> /\ Says("interrupt")
        /\ Told(<<Frame("interrupt_success", "interrupt_success", NoId, "none")>>)
    BY <1>6 DEF Interrupt, ghosts
  <2>2. "interrupt" \in Made /\ "interrupt_success" \in Made
    BY DEF Made
  <2>3. Frame("interrupt_success", "interrupt_success", NoId, "none") \in Frames
    BY <2>2, MadeFrames
  <2>4. unread' \in Seq(Frames)
    BY <1>0, <2>1, <2>3, ToldIs
  <2>5. Replayed' = Replayed
    BY <2>1, <2>2, SaysReplays
  <2> QED
    BY <1>0, <2>1, <2>4, <2>5, LegsSame
<1>7. CASE Terminate
  <2>1. /\ reader' = NoFrame /\ UNCHANGED <<file, registry, view, unread>>
        /\ legsBlurred' = (legsBlurred \/ reader.kind \in TaskKinds)
    BY <1>7 DEF Terminate
  <2>2. Replayed' = Replayed
    BY <2>1, ReplaySame
  <2>3. RegistryFollows'
    BY <2>1, <2>2, NoFrameIs DEF RegistryFollows
  <2>4. \A i \in DOMAIN script' : script'[i].kind = "task_started" => NoLeg(Replayed', script'[i].use)
    BY <1>0, <2>2 DEF LegsOK, Shrinks
  <2> QED
    BY <2>1, <2>2, <2>3, <2>4, NoFrameIs DEF LegsOK
<1>8. CASE Visit
  <2>1. /\ view' = "hydrating" /\ registry' = Hydrated /\ UNCHANGED <<script, file, reader, unread>>
        /\ legsBlurred' = (legsBlurred \/ (~ registry.warm /\ reader.kind \in TaskKinds))
    BY <1>8 DEF Visit
  <2>2. Replayed' = Replayed
    BY <2>1, ReplaySame
  <2>3. /\ registry' \in [warm : BOOLEAN, legs : Legs] /\ registry'.warm
        /\ registry' = registry \/ (~ registry.warm /\ registry'.legs = Replayed)
    BY <2>1 DEF Hydrated, LegsOK
  <2>4. RegistryFollows'
    BY <2>1, <2>2, <2>3 DEF RegistryFollows
  <2>5. ~ legsBlurred' /\ reader'.kind = "task_started" => NoLeg(registry'.legs, reader'.use)
    BY <2>1, <2>3 DEF LegsOK, TaskKinds
  <2> QED
    BY <2>1, <2>2, <2>3, <2>4, <2>5 DEF LegsOK
<1>9. CASE Ask \/ Reconnect
  <2>1. /\ UNCHANGED <<file, reader, registry>> /\ unread' = <<>> /\ view # "away"
        /\ legsBlurred => legsBlurred'
    BY <1>9 DEF Ask, Reconnect, serverVars
  <2>2. unread' \in Seq(Frames)
    BY <2>1
  <2>3. Replayed' = Replayed
    BY <2>1, ReplaySame
  <2> QED
    BY <1>0, <2>1, <2>2, <2>3, LegsSame
<1>10. CASE Read
  <2>1. /\ UNCHANGED <<file, reader, registry, view>> /\ unread # <<>> /\ unread' = Tail(unread)
        /\ UNCHANGED legsBlurred
    BY <1>10 DEF Read, serverVars, StartStream, StreamText, StopStream, Collect, Merge, Replace,
                 Push, ghosts
  <2>2. unread' \in Seq(Frames)
    BY <1>0, <2>1, HeadTailProperties, EmptySeq
  <2>3. Replayed' = Replayed
    BY <2>1, ReplaySame
  <2> QED
    BY <1>0, <2>1, <2>2, <2>3, LegsSame
<1>11. CASE Loaded \/ HearEnd \/ Stall \/ Sync \/ UNCHANGED vars
  <2>1. /\ UNCHANGED <<file, reader, registry, unread, legsBlurred>>
        /\ view = "away" => view' = "away"
    BY <1>11 DEF Loaded, HearEnd, Stall, Sync, vars, serverVars, ghosts
  <2>2. Replayed' = Replayed
    BY <2>1, ReplaySame
  <2> QED
    BY <1>0, <2>1, <2>2, LegsSame
<1> QED
  BY <1>1, <1>2, <1>3, <1>4, <1>5, <1>6, <1>7, <1>8, <1>9, <1>10, <1>11 DEF Next


\* What a step of the page leaves alone.
SameLegs(u) == DOMAIN u = {"bubbles", "buffer", "last", "legs"} /\ u.legs = ui.legs

\* The end of the streaming changes no leg.
LEMMA StoppedLegs ==
  ASSUME NEW u, DOMAIN u = {"bubbles", "buffer", "last", "legs"}
  PROVE  DOMAIN Stopped(u) = {"bubbles", "buffer", "last", "legs"} /\ Stopped(u).legs = u.legs
BY DEF Stopped

\* Nor do the frames that come into the placeholder's place.
LEMMA SplicedLegs ==
  ASSUME UiOK, NEW i
  PROVE  SameLegs(Spliced(ui, i))
<1> DEFINE got == ui.buffer.got
           bubbles == [k \in DOMAIN got |-> Bubble(got[k], Live(got[k]))]
<1>1. CASE got = <<>>
  <2>1. Spliced(ui, i) = [ui EXCEPT !.bubbles[i].streaming = FALSE, !.buffer = NoBuffer]
    BY <1>1 DEF Spliced
  <2> QED
    BY <2>1 DEF SameLegs, UiOK
<1>2. CASE got # <<>>
  <2>1. Spliced(ui, i) = [ui EXCEPT !.bubbles = SubSeq(@, 1, i - 1) \o bubbles
                                     \o SubSeq(@, i + 1, Len(@)),
                                    !.buffer = NoBuffer, !.last = Time(Last(got))]
    BY <1>2 DEF Spliced
  <2> HIDE DEF got, bubbles
  <2> QED
    BY <2>1 DEF SameLegs, UiOK
<1> QED
  BY <1>1, <1>2

\* No frame about an agent is an answer of the assistant.
LEMMA NoTaskAnswers ==
  ASSUME NEW f, IsAnswer(f)
  PROVE  f.kind \notin TaskKinds
<1> SUFFICES ASSUME f.kind \in TaskKinds PROVE Live(f).type = "system"
  BY DEF IsAnswer
<1>1. f.kind \in SentKinds
  BY DEF SentKinds
<1> QED
  BY <1>1, ParseIs DEF Live, Processed, TaskStarted, TaskProgress, TaskNotification, TaskUpdated,
                       Parsed, TaskKinds

\* What the page does with one event.
LEMMA ReadLegs ==
  ASSUME UiOK, NEW e,
         \/ StartStream(e) \/ StreamText(e) \/ StopStream(e)
         \/ e.kind \notin Pieces /\ (Collect(e) \/ Merge(e) \/ Replace(e) \/ Push(e))
  PROVE  UiOK' /\ ui'.legs = ApplyOnPage(ui.legs, e)
<1>0. SameLegs(ui) /\ (SameLegs(ui') => UiOK')
  BY DEF SameLegs, UiOK
<1>1. ASSUME SameLegs(ui'), e.kind \notin TaskKinds PROVE UiOK' /\ ui'.legs = ApplyOnPage(ui.legs, e)
  BY <1>0, <1>1, ApplyIs DEF SameLegs
<1>2. CASE StartStream(e)
  <2>1. e.kind \notin TaskKinds
    BY <1>2 DEF StartStream, TaskKinds
  <2>2. \/ ui' = ui
        \/ ui' = [ui EXCEPT !.bubbles = Append(@, Placeholder(e.resp)),
                            !.buffer = [id |-> e.resp, got |-> <<>>]]
    BY <1>2 DEF StartStream
  <2>3. SameLegs(ui')
    BY <2>2 DEF SameLegs, UiOK
  <2> QED
    BY <1>1, <2>1, <2>3
<1>3. CASE StreamText(e)
  <2>1. e.kind \notin TaskKinds
    BY <1>3 DEF StreamText, TaskKinds
  <2>2. \/ ui' = ui
        \/ ui' = [ui EXCEPT !.bubbles[PlaceholderAt].text = Append(@, e.item)]
    BY <1>3 DEF StreamText
  <2>3. SameLegs(ui')
    BY <2>2 DEF SameLegs, UiOK
  <2> QED
    BY <1>1, <2>1, <2>3
<1>4. CASE StopStream(e)
  <2>1. e.kind \notin TaskKinds
    BY <1>4 DEF StopStream, TaskKinds
  <2>2. ui' = Spliced(ui, PlaceholderAt) \/ ui' = [ui EXCEPT !.buffer = NoBuffer]
    BY <1>4 DEF StopStream
  <2>3. SameLegs(ui')
    BY <2>2, SplicedLegs DEF SameLegs, UiOK
  <2> QED
    BY <1>1, <2>1, <2>3
<1>5. CASE Collect(e)
  <2>1. e.kind \notin TaskKinds
    BY <1>5, NoTaskAnswers DEF Collect, Waits
  <2>2. ui' = [ui EXCEPT !.buffer.got = Append(@, e)]
    BY <1>5 DEF Collect
  <2>3. SameLegs(ui')
    BY <2>2 DEF SameLegs, UiOK
  <2> QED
    BY <1>1, <2>1, <2>3
<1>6. CASE Merge(e)
  <2>1. e.kind \notin TaskKinds
    BY <1>6, NoTaskAnswers DEF Merge
  <2>2. \E i, new, old : ui' = [ui EXCEPT !.bubbles[i] = new,
                                          !.last = IF old.streaming THEN @ ELSE Time(e)]
    BY <1>6 DEF Merge
  <2>3. PICK i, new, old : ui' = [ui EXCEPT !.bubbles[i] = new,
                                          !.last = IF old.streaming THEN @ ELSE Time(e)]
    BY <2>2
  <2>4. SameLegs(ui')
    BY <2>3 DEF SameLegs, UiOK
  <2> QED
    BY <1>1, <2>1, <2>4
<1>7. CASE Replace(e)
  <2>1. e.kind \notin TaskKinds
    BY <1>7, NoTaskAnswers DEF Replace
  <2>2. \E i, new : ui' = [ui EXCEPT !.bubbles[i] = new]
    BY <1>7 DEF Replace
  <2>3. PICK i, new : ui' = [ui EXCEPT !.bubbles[i] = new]
    BY <2>2
  <2>4. SameLegs(ui')
    BY <2>3 DEF SameLegs, UiOK
  <2> QED
    BY <1>1, <2>1, <2>4
<1>8. CASE Push(e)
  <2>1. Pushed(e) = [ui EXCEPT !.bubbles = Append(@, Bubble(e, Live(e))),
                               !.last = Time(e), !.legs = ApplyOnPage(@, e)]
    BY DEF Pushed
  <2>2. /\ DOMAIN Pushed(e) = {"bubbles", "buffer", "last", "legs"}
        /\ Pushed(e).legs = ApplyOnPage(ui.legs, e)
    BY <2>1 DEF UiOK
  <2>3. ui' = Pushed(e) \/ ui' = Stopped(Pushed(e))
    BY <1>8 DEF Push
  <2>4. ui'.legs = ApplyOnPage(ui.legs, e) /\ DOMAIN ui' = {"bubbles", "buffer", "last", "legs"}
    BY <2>2, <2>3, StoppedLegs
  <2> QED
    BY <2>4 DEF UiOK
<1> QED
  BY <1>2, <1>3, <1>4, <1>5, <1>6, <1>7, <1>8


\* A step that is not the page's own leaves its part of what is said true when
\* one event comes and the registry takes it in.
LEMMA PageTold ==
  ASSUME PageFollows, NEW e \in Frames, Told(<<e>>), unread \in Seq(Frames),
         UNCHANGED <<view, ui, legsBlurred>>,
         registry.warm /\ ~ legsBlurred => registry'.legs = ApplyOnPage(registry.legs, e),
         view # "away" => registry.warm
  PROVE  PageFollows'
<1> SUFFICES ASSUME view \in {"loading", "here", "stalled"}, ~ legsBlurred
             PROVE  Leads(ui.legs, unread', registry'.legs)
  BY DEF PageFollows
<1>1. Leads(ui.legs, unread, registry.legs)
  BY DEF PageFollows
<1>2. unread' = unread \o <<e>>
  BY ToldIs
<1>3. registry'.legs = ApplyOnPage(registry.legs, e)
  OBVIOUS
<1> QED
  BY <1>1, <1>2, <1>3, LeadsAppend

\* Every step keeps the page as the registry has it.
LEMMA PageStep ==
  ASSUME Sends(script), FileOK, LegsOK, RegistryFollows, UiOK, PageFollows, [Next]_vars
  PROVE  UiOK' /\ PageFollows'
<1>0. /\ unread \in Seq(Frames) /\ (view # "away" => registry.warm)
      /\ registry.legs \in Legs
  BY DEF LegsOK
<1>1. ASSUME NEW e \in Frames, e.kind \notin TaskKinds, Told(<<e>>),
             UNCHANGED <<view, ui, legsBlurred, registry>>
      PROVE  UiOK' /\ PageFollows'
  <2>1. registry'.legs = ApplyOnPage(registry.legs, e)
    BY <1>1, ApplyIs
  <2>2. PageFollows'
    BY <1>0, <1>1, <2>1, PageTold
  <2> QED
    BY <1>1, <2>2 DEF UiOK
<1>2. CASE Emit
  <2>1. /\ script # <<>> /\ Head(script).kind \in Pieces /\ Told(<<Head(script)>>)
        /\ UNCHANGED <<view, ui, legsBlurred, registry>>
    BY <1>2 DEF Emit, ghosts
  <2>2. Head(script) \in Frames /\ Head(script).kind \notin TaskKinds
    BY <2>1, TailShrinks DEF Pieces, TaskKinds
  <2> QED
    BY <1>1, <2>1, <2>2
<1>3. CASE Publish
  <2>1. /\ reader # NoFrame /\ registry' = Fed(reader) /\ Told(<<reader>>)
        /\ UNCHANGED <<view, ui, legsBlurred>>
    BY <1>3 DEF Publish, ghosts
  <2>2. reader \in Frames
    BY <2>1 DEF FileOK
  <2>3. registry.warm /\ ~ legsBlurred => registry'.legs = ApplyOnPage(registry.legs, reader)
    BY <2>1, <2>2, FedFollows
  <2>4. PageFollows'
    BY <1>0, <2>1, <2>2, <2>3, PageTold
  <2> QED
    BY <2>1, <2>4 DEF UiOK
<1>4. ASSUME NEW f \in notices, PublishNotice(f) PROVE UiOK' /\ PageFollows'
  <2>1. Told(<<f>>) /\ UNCHANGED <<view, ui, legsBlurred, registry>>
    BY <1>4 DEF PublishNotice, ghosts
  <2>2. f \in Frames /\ f.kind \notin TaskKinds
    BY DEF FileOK, Made, TaskKinds
  <2> QED
    BY <1>1, <2>1, <2>2
<1>5. CASE Interrupt
  <2>1. /\ UNCHANGED <<view, ui, legsBlurred, registry>>
        /\ Told(<<Frame("interrupt_success", "interrupt_success", NoId, "none")>>)
    BY <1>5 DEF Interrupt, ghosts
  <2>2. "interrupt_success" \in Made
    BY DEF Made
  <2>3. /\ Frame("interrupt_success", "interrupt_success", NoId, "none") \in Frames
        /\ Frame("interrupt_success", "interrupt_success", NoId, "none").kind \notin TaskKinds
    BY <2>2, MadeFrames
  <2> QED
    BY <1>1, <2>1, <2>3
<1>6. CASE Store \/ Send \/ Launch \/ Terminate \/ UNCHANGED vars
  <2>1. UNCHANGED <<view, ui, unread, registry>>
    BY <1>6 DEF Store, Send, Launch, Terminate, vars, serverVars, ghosts
  <2>2. UNCHANGED legsBlurred \/ legsBlurred' = (legsBlurred \/ reader.kind \in TaskKinds)
    BY <1>6 DEF Store, Send, Launch, Terminate, vars, ghosts
  <2> QED
    BY <2>1, <2>2 DEF UiOK, PageFollows
<1>7. CASE Visit
  <2>1. UNCHANGED ui /\ view' = "hydrating"
    BY <1>7 DEF Visit
  <2> QED
    BY <2>1 DEF UiOK, PageFollows
<1>8. CASE Ask
  <2>1. /\ ui' = [ui EXCEPT !.legs = page.legs] /\ unread' = <<>> /\ UNCHANGED registry
        /\ legsBlurred' = (legsBlurred \/ page.legs # registry.legs)
    BY <1>8 DEF Ask, serverVars
  <2>2. UiOK' /\ ui'.legs = page.legs
    BY <2>1 DEF UiOK
  <2>3. ~ legsBlurred' => Leads(ui'.legs, unread', registry'.legs)
    BY <2>1, <2>2, LeadsNone
  <2> QED
    BY <2>2, <2>3 DEF PageFollows
<1>9. CASE Loaded
  <2>1. /\ view = "loading" /\ UNCHANGED <<unread, legsBlurred, registry>>
        /\ ui' = [ui EXCEPT !.bubbles = History(page.frames),
                            !.last = IF page.frames = <<>> THEN @
                                     ELSE Time(Last(page.frames))]
    BY <1>9 DEF Loaded, serverVars
  <2>2. UiOK' /\ ui'.legs = ui.legs
    BY <2>1 DEF UiOK
  <2> QED
    BY <2>1, <2>2 DEF PageFollows
<1>10. CASE Read
  <2> DEFINE e == Head(unread)
  <2>1. /\ view = "here" /\ unread # <<>> /\ unread' = Tail(unread)
        /\ UNCHANGED <<registry, view>>
        /\ \/ StartStream(e) \/ StreamText(e) \/ StopStream(e)
           \/ e.kind \notin Pieces /\ (Collect(e) \/ Merge(e) \/ Replace(e) \/ Push(e))
    BY <1>10 DEF Read, serverVars
  <2>2. UNCHANGED legsBlurred
    BY <2>1 DEF StartStream, StreamText, StopStream, Collect, Merge, Replace, Push, ghosts
  <2> HIDE DEF e
  <2>3. UiOK' /\ ui'.legs = ApplyOnPage(ui.legs, e)
    BY <2>1, ReadLegs
  <2>4. Leads(ui.legs, unread, registry.legs) => Leads(ui'.legs, unread', registry'.legs)
    BY <1>0, <2>1, <2>3, LeadsTail DEF e
  <2> QED
    BY <2>1, <2>2, <2>3, <2>4 DEF PageFollows
<1>11. CASE HearEnd
  <2>1. ui' = Stopped(ui) /\ UNCHANGED <<view, unread, legsBlurred, registry>>
    BY <1>11 DEF HearEnd, serverVars
  <2>2. UiOK' /\ ui'.legs = ui.legs
    BY <2>1, StoppedLegs DEF UiOK
  <2> QED
    BY <2>1, <2>2 DEF PageFollows
<1>12. CASE Stall
  <2>1. view = "here" /\ UNCHANGED <<ui, unread, legsBlurred, registry>>
    BY <1>12 DEF Stall, serverVars, ghosts
  <2> QED
    BY <2>1 DEF UiOK, PageFollows
<1>13. CASE Sync
  <2>1. view' = "synced"
    BY <1>13 DEF Sync
  <2>2. \/ ui' = ui
        \/ \E all, legs : ui' = [ui EXCEPT !.bubbles = all, !.last = Last(all).at, !.legs = legs]
    BY <1>13 DEF Sync
  <2>3. UiOK'
    BY <2>2 DEF UiOK
  <2> QED
    BY <2>1, <2>3 DEF PageFollows
<1>14. CASE Reconnect
  <2>1. /\ unread' = <<>> /\ UNCHANGED <<registry, ui>>
        /\ ~ legsBlurred' => ui.legs = registry.legs
    BY <1>14 DEF Reconnect, serverVars
  <2>2. ~ legsBlurred' => Leads(ui'.legs, unread', registry'.legs)
    BY <2>1, LeadsNone
  <2> QED
    BY <2>1, <2>2 DEF UiOK, PageFollows
<1> QED
  BY <1>2, <1>3, <1>4, <1>5, <1>6, <1>7, <1>8, <1>9, <1>10, <1>11, <1>12, <1>13, <1>14 DEF Next

\* At the start nothing is said and there is no leg.
LEMMA LegsInit == Init => LegsIInv
<1> SUFFICES ASSUME Init PROVE LegsIInv
  OBVIOUS
<1>1. /\ script \in Scripts /\ file = <<>> /\ reader = NoFrame /\ notices = {}
      /\ registry = [warm |-> FALSE, legs |-> <<>>] /\ view = "away" /\ unread = <<>>
      /\ ui = NoPage
  BY DEF Init
<1>2. Sends(script)
  <2>1. script \in Seq(ToSet(script)) /\ ToSet(script) \subseteq Frames
    BY <1>1, ScriptsAssumption DEF Frames
  <2>2. script \in Seq(Frames)
    BY <2>1
  <2> QED
    BY <1>1, <2>2, ScriptsAssumption DEF Sends, Pieces
<1>3. FileOK
  BY <1>1 DEF FileOK
<1>4. Replayed = <<>>
  BY <1>1, FoldNone DEF Replayed
<1>5. <<>> \in Legs /\ \A u : NoLeg(<<>>, u)
  BY DEF Legs, NoLeg
<1>6. LegsOK
  BY <1>1, <1>4, <1>5 DEF LegsOK
<1>7. RegistryFollows /\ UiOK /\ PageFollows
  BY <1>1 DEF RegistryFollows, UiOK, NoPage, PageFollows
<1> QED
  BY <1>2, <1>3, <1>6, <1>7 DEF LegsIInv

\* Of every frame that is or will be in the file and of every leg the data are
\* as they should be, in every state.
THEOREM LegsCorrect == Spec => []LegsIInv
<1>1. LegsIInv /\ [Next]_vars => LegsIInv'
  BY FileStep, LegsStep, PageStep DEF LegsIInv, Shrinks
<1> QED
  BY <1>1, LegsInit, PTL DEF Spec

\* Every frame in the file shows the same on the page that was told of it and on
\* one that loads it, whatever the CLI sends.
THEOREM FacesAgree == Spec => []ReloadShowsTheSame
<1>1. LegsIInv => ReloadShowsTheSame
  BY SameFaceKinds DEF LegsIInv, FileOK, ReloadShowsTheSame
<1> QED
  BY <1>1, LegsCorrect, PTL

\* When nothing is on its way, the registry that was fed as the frames came has
\* the legs that a restart rebuilds from the file, and so does the page, however
\* reader, page, interrupts and stalls come between.
THEOREM LegsSafe == Spec => []LegsAgree
<1>1. LegsIInv => LegsAgree
  <2> SUFFICES ASSUME LegsIInv, AtRest, ~ legsBlurred
               PROVE  registry.legs = Replayed /\ ui.legs = Replayed
    BY DEF LegsAgree
  <2>1. reader = NoFrame /\ view = "here" /\ unread = <<>>
    BY DEF AtRest
  <2>2. registry.warm
    BY <2>1 DEF LegsIInv, LegsOK
  <2>3. registry.legs = Replayed
    BY <2>1, <2>2, NoFrameIs DEF LegsIInv, RegistryFollows
  <2>4. ui.legs = registry.legs
    BY <2>1, LeadsNone DEF LegsIInv, PageFollows
  <2> QED
    BY <2>3, <2>4
<1> QED
  BY <1>1, LegsCorrect, PTL

-----------------------------------------------------------------------------
(* Lists of bubbles.                                                       *)

Fields == {"id", "text", "parts", "streaming", "assistant", "at"}

\* A list of bubbles.
Drawn(q) == \E S : q \in Seq(S) /\ \A b \in S : DOMAIN b = Fields

\* What a list of bubbles is ...
LEMMA DrawnIs ==
  ASSUME NEW q, Drawn(q)
  PROVE  Len(q) \in Nat /\ DOMAIN q = 1 .. Len(q) /\ \A i \in 1 .. Len(q) : DOMAIN q[i] = Fields
<1>1. PICK S : q \in Seq(S) /\ \A b \in S : DOMAIN b = Fields
  BY DEF Drawn
<1> QED
  BY <1>1, LenProperties, ElementOfSeq

\* ... and what is one.
LEMMA DrawnBy ==
  ASSUME NEW q, NEW n \in Nat, q = [i \in 1 .. n |-> q[i]], \A i \in 1 .. n : DOMAIN q[i] = Fields
  PROVE  Drawn(q)
<1> DEFINE S == {q[i] : i \in 1 .. n}
<1>1. q \in [1 .. n -> S] /\ \A b \in S : DOMAIN b = Fields
  OBVIOUS
<1> HIDE DEF S
<1>2. q \in Seq(S)
  BY <1>1, SeqDef
<1> QED
  BY <1>1, <1>2 DEF Drawn

\* Every bubble of s is in q or in r.
Mixes(s, q, r) ==
  \A i \in DOMAIN s : (\E j \in DOMAIN q : s[i] = q[j]) \/ \E j \in DOMAIN r : s[i] = r[j]

\* One list after another.
LEMMA DrawnConcat ==
  ASSUME NEW q, NEW r, Drawn(q), Drawn(r)
  PROVE  /\ Drawn(q \o r) /\ DOMAIN (q \o r) = 1 .. Len(q) + Len(r)
         /\ \A i \in 1 .. Len(q) : (q \o r)[i] = q[i]
         /\ Mixes(q \o r, q, r)
<1>1. PICK S : q \in Seq(S) /\ \A b \in S : DOMAIN b = Fields
  BY DEF Drawn
<1>2. PICK T : r \in Seq(T) /\ \A b \in T : DOMAIN b = Fields
  BY DEF Drawn
<1>3. q \in Seq(S \cup T) /\ r \in Seq(S \cup T)
  BY <1>1, <1>2, SeqMonotonic
<1>4. /\ q \o r \in Seq(S \cup T) /\ Len(q \o r) = Len(q) + Len(r)
      /\ \A i \in 1 .. Len(q) + Len(r) :
           (q \o r)[i] = IF i <= Len(q) THEN q[i] ELSE r[i - Len(q)]
  BY <1>3, ConcatProperties
<1>5. DOMAIN (q \o r) = 1 .. Len(q) + Len(r)
  BY <1>4, LenProperties
<1>6. Len(q) \in Nat /\ Len(r) \in Nat /\ DOMAIN q = 1 .. Len(q) /\ DOMAIN r = 1 .. Len(r)
  BY DrawnIs
<1>7. \A b \in S \cup T : DOMAIN b = Fields
  BY <1>1, <1>2
<1>8. Drawn(q \o r)
  BY <1>4, <1>7 DEF Drawn
<1>9. \A i \in 1 .. Len(q) : (q \o r)[i] = q[i]
  BY <1>4, <1>6
<1>10. ASSUME NEW i \in 1 .. Len(q) + Len(r)
       PROVE  \/ \E j \in DOMAIN q : (q \o r)[i] = q[j]
              \/ \E j \in DOMAIN r : (q \o r)[i] = r[j]
  <2>1. CASE i <= Len(q)
    BY <1>4, <1>6, <2>1
  <2>2. CASE ~ (i <= Len(q))
    <3>1. (q \o r)[i] = r[i - Len(q)] /\ i - Len(q) \in 1 .. Len(r)
      BY <1>4, <1>6, <2>2
    <3> QED
      BY <1>6, <3>1
  <2> QED
    BY <2>1, <2>2
<1> QED
  BY <1>5, <1>8, <1>9, <1>10 DEF Mixes

\* A part of a list.
LEMMA DrawnPart ==
  ASSUME NEW q, Drawn(q), NEW m \in Int, NEW n \in Int, 1 <= m, n <= Len(q)
  PROVE  /\ Drawn(SubSeq(q, m, n))
         /\ \A i \in DOMAIN SubSeq(q, m, n) :
              \E j \in DOMAIN q : SubSeq(q, m, n)[i] = q[j] /\ m <= j /\ j <= n
<1>1. PICK S : q \in Seq(S) /\ \A b \in S : DOMAIN b = Fields
  BY DEF Drawn
<1>2. Len(q) \in Nat /\ DOMAIN q = 1 .. Len(q)
  BY DrawnIs
<1>3. \A i \in m .. n : q[i] \in S
  BY <1>1, <1>2, ElementOfSeq
<1> DEFINE r == SubSeq(q, m, n)
<1>4. /\ r \in Seq(S) /\ Len(r) = IF m <= n THEN n - m + 1 ELSE 0
      /\ \A i \in 1 .. n - m + 1 : r[i] = q[m + i - 1]
  BY <1>3, SubSeqProperties
<1> HIDE DEF r
<1>5. DOMAIN r = 1 .. Len(r)
  BY <1>4, LenProperties
<1>6. \A i \in 1 .. Len(r) : r[i] = q[m + i - 1] /\ m + i - 1 \in 1 .. Len(q) /\ m <= m + i - 1 /\ m + i - 1 <= n
  BY <1>2, <1>4
<1>7. Drawn(r)
  BY <1>1, <1>4 DEF Drawn
<1> QED
  BY <1>2, <1>5, <1>6, <1>7 DEF r

\* One bubble more at the end.
LEMMA DrawnAppend ==
  ASSUME NEW q, Drawn(q), NEW b, DOMAIN b = Fields
  PROVE  /\ Drawn(Append(q, b)) /\ DOMAIN Append(q, b) = 1 .. Len(q) + 1
         /\ Append(q, b)[Len(q) + 1] = b
         /\ \A i \in 1 .. Len(q) : Append(q, b)[i] = q[i]
<1>1. PICK S : q \in Seq(S) /\ \A c \in S : DOMAIN c = Fields
  BY DEF Drawn
<1>2. q \in Seq(S \cup {b}) /\ b \in S \cup {b} /\ \A c \in S \cup {b} : DOMAIN c = Fields
  BY <1>1, SeqMonotonic
<1>3. /\ Append(q, b) \in Seq(S \cup {b}) /\ Len(Append(q, b)) = Len(q) + 1
      /\ Append(q, b)[Len(q) + 1] = b /\ \A i \in 1 .. Len(q) : Append(q, b)[i] = q[i]
  BY <1>2, AppendProperties
<1>4. DOMAIN Append(q, b) = 1 .. Len(q) + 1
  BY <1>3, LenProperties
<1> QED
  BY <1>2, <1>3, <1>4 DEF Drawn

\* One bubble in another's place, if there is that one.
LEMMA DrawnExcept ==
  ASSUME NEW q, Drawn(q), NEW i, NEW b, DOMAIN b = Fields
  PROVE  /\ Drawn([q EXCEPT ![i] = b]) /\ DOMAIN [q EXCEPT ![i] = b] = DOMAIN q
         /\ \A j \in DOMAIN q : [q EXCEPT ![i] = b][j] = IF j = i THEN b ELSE q[j]
<1> DEFINE r == [q EXCEPT ![i] = b]
<1>1. Len(q) \in Nat /\ DOMAIN q = 1 .. Len(q) /\ \A j \in 1 .. Len(q) : DOMAIN q[j] = Fields
  BY DrawnIs
<1>2. r = [j \in 1 .. Len(q) |-> r[j]] /\ \A j \in 1 .. Len(q) : r[j] = IF j = i THEN b ELSE q[j]
  BY <1>1
<1> HIDE DEF r
<1>3. \A j \in 1 .. Len(q) : DOMAIN r[j] = Fields
  BY <1>1, <1>2
<1>4. Drawn(r)
  BY <1>1, <1>2, <1>3, DrawnBy
<1> QED
  BY <1>1, <1>2, <1>4 DEF r

\* Of these bubbles there is none that is not in q or is b.
Among(r, q, b) == \A i \in DOMAIN r : r[i] = b \/ \E j \in DOMAIN q : r[i] = q[j]

\* A list with one bubble put into it.
LEMMA InsertedIs ==
  ASSUME NEW q, Drawn(q), NEW b, DOMAIN b = Fields
  PROVE  Drawn(Inserted(q, b)) /\ Among(Inserted(q, b), q, b)
<1> DEFINE I == {i \in DOMAIN q : q[i].at <= b.at}
           k == 1 + Cardinality(I)
           r == SubSeq(q, 1, k - 1)
           t == SubSeq(q, k, Len(q))
<1>1. Len(q) \in Nat /\ DOMAIN q = 1 .. Len(q)
  BY DrawnIs
<1>2. Cardinality(I) \in Nat /\ Cardinality(I) <= Len(q)
  <2>1. IsFiniteSet(1 .. Len(q)) /\ Cardinality(1 .. Len(q)) = Len(q)
    BY <1>1, FS_Interval
  <2>2. I \in SUBSET (1 .. Len(q))
    BY <1>1
  <2> HIDE DEF I
  <2>3. IsFiniteSet(I) /\ Cardinality(I) <= Cardinality(1 .. Len(q))
    BY <2>1, <2>2, FS_Subset
  <2> QED
    BY <2>1, <2>3, FS_CardinalityType
<1>3. Inserted(q, b) = r \o <<b>> \o t
  BY DEF Inserted, InsertAt
<1> HIDE DEF I
<1>4. k \in Int /\ 1 <= k /\ k - 1 \in Int /\ k - 1 <= Len(q) /\ Len(q) \in Int
  BY <1>1, <1>2
<1> HIDE DEF k
<1>5. /\ Drawn(r) /\ Drawn(t)
      /\ \A i \in DOMAIN r : \E j \in DOMAIN q : r[i] = q[j]
      /\ \A i \in DOMAIN t : \E j \in DOMAIN q : t[i] = q[j]
  BY <1>1, <1>4, DrawnPart
<1>6. Drawn(<<b>>) /\ DOMAIN <<b>> = {1} /\ <<b>>[1] = b
  <2>1. PICK S : S = {b}
    OBVIOUS
  <2>2. <<b>> \in Seq(S) /\ \A c \in S : DOMAIN c = Fields
    BY <2>1
  <2> QED
    BY <2>2 DEF Drawn
<1> HIDE DEF r, t
<1> DEFINE s == r \o <<b>>
<1>7. Drawn(s) /\ Mixes(s, r, <<b>>)
  BY <1>5, <1>6, DrawnConcat
<1> HIDE DEF s
<1>8. Drawn(s \o t) /\ Mixes(s \o t, s, t)
  BY <1>5, <1>7, DrawnConcat
<1>9. Among(s, q, b)
  BY <1>5, <1>6, <1>7 DEF Mixes, Among
<1>10. Among(s \o t, q, b)
  BY <1>5, <1>8, <1>9 DEF Mixes, Among
<1> QED
  BY <1>3, <1>8, <1>10 DEF s

\* The function that ByTime defines by recursion.
Sorts(g, list, n) ==
  g = [k \in 0 .. n |-> IF k = 0 THEN <<>> ELSE Inserted(g[k - 1], list[k])]

\* That function exists.
LEMMA SortsExist ==
  ASSUME NEW list
  PROVE  \A n \in Nat : \E g : Sorts(g, list, n)
<1> DEFINE S == {n \in Nat : ~ \E g : Sorts(g, list, n)}
<1> SUFFICES ASSUME S # {} PROVE FALSE
  OBVIOUS
<1>1. PICK n \in S : \A m \in S : n <= m
  <2> HIDE DEF S
  <2>1. S \subseteq Nat
    BY DEF S
  <2> QED
    BY <2>1, Least
<1>2. n \in Nat /\ ~ \E g : Sorts(g, list, n)
  OBVIOUS
<1>3. n # 0
  <2> SUFFICES ASSUME n = 0 PROVE FALSE
    OBVIOUS
  <2> DEFINE g == [k \in 0 .. n |-> <<>>]
  <2>1. \A k \in 0 .. n : k = 0
    OBVIOUS
  <2>2. Sorts(g, list, n)
    BY <2>1 DEF Sorts
  <2> QED
    BY <1>2, <2>2
<1>4. n - 1 \in Nat /\ \E h : Sorts(h, list, n - 1)
  <2>1. n - 1 \in Nat /\ ~ (n <= n - 1)
    BY <1>2, <1>3
  <2> QED
    BY <1>1, <2>1
<1>5. PICK h : Sorts(h, list, n - 1)
  BY <1>4
<1> DEFINE g == [k \in 0 .. n |-> IF k = n THEN Inserted(h[n - 1], list[n]) ELSE h[k]]
<1>6. \A k \in 0 .. n - 1 : h[k] = IF k = 0 THEN <<>> ELSE Inserted(h[k - 1], list[k])
  BY <1>5 DEF Sorts
<1>7. ASSUME NEW k \in 0 .. n
      PROVE  g[k] = IF k = 0 THEN <<>> ELSE Inserted(g[k - 1], list[k])
  <2>1. CASE k = n
    <3>1. g[n - 1] = h[n - 1] /\ g[k] = Inserted(h[n - 1], list[n])
      BY <1>2, <1>4, <2>1
    <3> HIDE DEF g
    <3> QED
      BY <1>3, <2>1, <3>1
  <2>2. CASE k # n
    <3>1. k \in 0 .. n - 1 /\ g[k] = h[k] /\ (k # 0 => g[k - 1] = h[k - 1])
      BY <1>2, <2>2
    <3> HIDE DEF g
    <3> QED
      BY <1>6, <3>1
  <2> QED
    BY <2>1, <2>2
<1>8. Sorts(g, list, n)
  <2>1. g = [k \in 0 .. n |-> g[k]]
    OBVIOUS
  <2> HIDE DEF g
  <2> QED
    BY <1>7, <2>1 DEF Sorts
<1> QED
  BY <1>2, <1>8

\* Sorting a list adds no bubble.
LEMMA ByTimeIs ==
  ASSUME NEW q, Drawn(q)
  PROVE  Drawn(ByTime(q)) /\ \A i \in DOMAIN ByTime(q) : \E j \in DOMAIN q : ByTime(q)[i] = q[j]
<1> DEFINE it == CHOOSE g : Sorts(g, q, Len(q))
<1>1. Len(q) \in Nat /\ DOMAIN q = 1 .. Len(q) /\ \A i \in 1 .. Len(q) : DOMAIN q[i] = Fields
  BY DrawnIs
<1>2. Sorts(it, q, Len(q))
  BY <1>1, SortsExist
<1>3. ByTime(q) = it[Len(q)]
  BY DEF ByTime, Sorts
<1> HIDE DEF it
<1> DEFINE S == {k \in 0 .. Len(q) :
                   ~ (Drawn(it[k]) /\ \A i \in DOMAIN it[k] : \E j \in DOMAIN q : it[k][i] = q[j])}
<1>4. S = {}
  <2> SUFFICES ASSUME S # {} PROVE FALSE
    OBVIOUS
  <2>1. PICK k \in S : \A m \in S : k <= m
    <3> HIDE DEF S
    <3>1. S \subseteq Nat
      BY DEF S
    <3> QED
      BY <3>1, Least
  <2>2. k \in 0 .. Len(q)
    OBVIOUS
  <2>3. it[k] = IF k = 0 THEN <<>> ELSE Inserted(it[k - 1], q[k])
    BY <1>2, <2>2 DEF Sorts
  <2>4. k # 0
    <3> SUFFICES ASSUME k = 0 PROVE FALSE
      OBVIOUS
    <3>1. it[k] = <<>> /\ DOMAIN <<>> = {}
      BY <2>3
    <3>2. Drawn(<<>>)
      <4>1. <<>> \in Seq({}) /\ \A b \in {} : DOMAIN b = Fields
        OBVIOUS
      <4> QED
        BY <4>1 DEF Drawn
    <3> QED
      BY <3>1, <3>2
  <2>5. Drawn(it[k - 1]) /\ \A i \in DOMAIN it[k - 1] : \E j \in DOMAIN q : it[k - 1][i] = q[j]
    <3>1. k - 1 \in 0 .. Len(q) /\ ~ (k <= k - 1)
      BY <1>1, <2>2, <2>4
    <3>2. k - 1 \notin S
      BY <2>1, <3>1
    <3> QED
      BY <3>1, <3>2
  <2>6. k \in 1 .. Len(q)
    BY <1>1, <2>2, <2>4
  <2>7. PICK r : r = it[k - 1]
    OBVIOUS
  <2>8. Drawn(Inserted(r, q[k])) /\ Among(Inserted(r, q[k]), r, q[k])
    BY <1>1, <2>5, <2>6, <2>7, InsertedIs
  <2>9. it[k] = Inserted(r, q[k])
    BY <2>3, <2>4, <2>7
  <2>10. \A i \in DOMAIN it[k] : \E j \in DOMAIN q : it[k][i] = q[j]
    BY <1>1, <2>5, <2>6, <2>7, <2>8, <2>9 DEF Among
  <2> QED
    BY <2>8, <2>9, <2>10
<1>5. Len(q) \in 0 .. Len(q)
  BY <1>1
<1> QED
  BY <1>3, <1>4, <1>5

\* Nor does joining two.
LEMMA JoinedIs ==
  ASSUME NEW q, NEW r, Drawn(q), Drawn(r)
  PROVE  Drawn(Joined(q, r)) /\ Mixes(Joined(q, r), q, r)
<1> DEFINE s == q \o r
<1>1. Drawn(s) /\ Mixes(s, q, r)
  BY DrawnConcat
<1>2. Joined(q, r) = s \/ Joined(q, r) = ByTime(s)
  BY DEF Joined
<1> HIDE DEF s
<1>3. Drawn(ByTime(s)) /\ \A i \in DOMAIN ByTime(s) : \E j \in DOMAIN s : ByTime(s)[i] = s[j]
  BY <1>1, ByTimeIs
<1>4. Mixes(ByTime(s), q, r)
  BY <1>1, <1>3 DEF Mixes
<1> QED
  BY <1>1, <1>2, <1>3, <1>4

-----------------------------------------------------------------------------
(* The page while a response is being streamed.                            *)

PageFields == {"bubbles", "buffer", "last", "legs"}

\* The page has a list of bubbles and a buffer.
Shape(u) ==
  /\ DOMAIN u = PageFields /\ Drawn(u.bubbles)
  /\ DOMAIN u.buffer = {"id", "got"} /\ u.buffer.got \in Seq(Frames)
  /\ u.buffer # NoBuffer => u.buffer.id # NoId

\* Only the bubble of the response that is being buffered has a caret ...
Owned(u) ==
  \A i \in DOMAIN u.bubbles :
    u.bubbles[i].streaming => u.buffer # NoBuffer /\ u.bubbles[i].id = u.buffer.id

\* ... and it is one bubble.
Alone(u) ==
  u.buffer # NoBuffer =>
    \A i, j \in DOMAIN u.bubbles :
      u.bubbles[i].id = u.buffer.id /\ u.bubbles[j].id = u.buffer.id => i = j

\* What holds of w if it held of u.
Keeps(u, w) == Shape(w) /\ (Owned(u) => Owned(w)) /\ (Alone(u) => Alone(w))

\* The bubbles of frames have no caret.
LEMMA BubbleIs ==
  ASSUME NEW f, NEW m
  PROVE  DOMAIN Bubble(f, m) = Fields /\ ~ Bubble(f, m).streaming /\ Bubble(f, m).id = m.id
BY DEF Bubble, Fields

\* A history is a list of bubbles without a caret.
LEMMA HistoryIs ==
  ASSUME NEW frames \in Seq(Frames)
  PROVE  Drawn(History(frames)) /\ \A i \in DOMAIN History(frames) : ~ History(frames)[i].streaming
<1>1. Len(frames) \in Nat /\ DOMAIN frames = 1 .. Len(frames)
  BY LenProperties
<1> DEFINE q == History(frames)
<1>2. q = [i \in 1 .. Len(frames) |-> Bubble(frames[i], Reloaded(frames[i]))]
  BY <1>1 DEF History
<1> HIDE DEF q
<1>3. \A i \in 1 .. Len(frames) : DOMAIN q[i] = Fields /\ ~ q[i].streaming
  BY <1>2, BubbleIs
<1>4. q = [i \in 1 .. Len(frames) |-> q[i]]
  BY <1>2
<1>5. Drawn(q)
  BY <1>1, <1>3, <1>4, DrawnBy
<1> QED
  BY <1>2, <1>3, <1>5 DEF q

\* What is newer is part of the file.
LEMMA NewerIs ==
  ASSUME FileOK
  PROVE  Newer \in Seq(Frames)
<1> DEFINE I == {i \in DOMAIN file : Time(file[i]) <= ui.last}
<1>1. file \in Seq(Frames) /\ Len(file) \in Nat /\ DOMAIN file = 1 .. Len(file)
  BY LenProperties DEF FileOK
<1>2. Cardinality(I) \in Nat
  <2>1. IsFiniteSet(1 .. Len(file)) /\ I \in SUBSET (1 .. Len(file))
    BY <1>1, FS_Interval
  <2> HIDE DEF I
  <2> QED
    BY <2>1, FS_Subset, FS_CardinalityType
<1>3. Newer = SubSeq(file, 1 + Cardinality(I), Len(file))
  BY DEF Newer
<1> HIDE DEF I
<1>4. \A i \in 1 + Cardinality(I) .. Len(file) : file[i] \in Frames
  BY <1>1, <1>2, ElementOfSeq
<1> QED
  BY <1>1, <1>2, <1>3, <1>4, SubSeqProperties

\* A list with the same ids and no caret more.
LEMMA SameIds ==
  ASSUME NEW u, NEW w, Shape(u), DOMAIN w = PageFields, Drawn(w.bubbles), w.buffer = u.buffer,
         DOMAIN w.bubbles = DOMAIN u.bubbles,
         \A i \in DOMAIN u.bubbles : /\ w.bubbles[i].id = u.bubbles[i].id
                                     /\ w.bubbles[i].streaming => u.bubbles[i].streaming
  PROVE  Keeps(u, w)
BY DEF Keeps, Shape, Owned, Alone

\* A page without a buffer.
LEMMA NoMoreBuffer ==
  ASSUME NEW w, DOMAIN w = PageFields, Drawn(w.bubbles), w.buffer = NoBuffer
  PROVE  Shape(w) /\ Alone(w) /\ ((\A i \in DOMAIN w.bubbles : ~ w.bubbles[i].streaming) => Owned(w))
<1>1. DOMAIN NoBuffer = {"id", "got"} /\ NoBuffer.got \in Seq(Frames)
  BY DEF NoBuffer
<1> QED
  BY <1>1 DEF Shape, Owned, Alone

\* A bubble without a caret.
LEMMA Darkened ==
  ASSUME NEW b, DOMAIN b = Fields
  PROVE  LET c == [b EXCEPT !.streaming = FALSE]
         IN  DOMAIN c = Fields /\ ~ c.streaming /\ c.id = b.id
BY DEF Fields

\* The end of the streaming leaves no caret.
LEMMA StoppedIs ==
  ASSUME NEW u, Shape(u)
  PROVE  Keeps(u, Stopped(u)) /\ Stopped(u).buffer = NoBuffer
<1>1. CASE u.buffer = NoBuffer
  BY <1>1 DEF Stopped, Keeps
<1>2. CASE u.buffer # NoBuffer
  <2> DEFINE q == u.bubbles
             r == [i \in DOMAIN q |-> IF q[i].id = u.buffer.id
                                      THEN [q[i] EXCEPT !.streaming = FALSE] ELSE q[i]]
             w == Stopped(u)
  <2>1. w = [u EXCEPT !.buffer = NoBuffer, !.bubbles = r]
    BY <1>2 DEF Stopped
  <2>2. DOMAIN w = PageFields /\ w.buffer = NoBuffer /\ w.bubbles = r
    BY <2>1 DEF Shape, PageFields
  <2>3. Len(q) \in Nat /\ DOMAIN q = 1 .. Len(q) /\ \A i \in 1 .. Len(q) : DOMAIN q[i] = Fields
    BY DrawnIs DEF Shape
  <2>4. ASSUME NEW i \in 1 .. Len(q)
        PROVE  /\ DOMAIN r[i] = Fields
               /\ q[i].id = u.buffer.id => ~ r[i].streaming
               /\ q[i].id # u.buffer.id => r[i] = q[i]
    <3>1. r[i] = IF q[i].id = u.buffer.id THEN [q[i] EXCEPT !.streaming = FALSE] ELSE q[i]
      BY <2>3
    <3>2. DOMAIN q[i] = Fields
      BY <2>3
    <3> HIDE DEF r, q, w
    <3>3. DOMAIN [q[i] EXCEPT !.streaming = FALSE] = Fields /\ ~ [q[i] EXCEPT !.streaming = FALSE].streaming
      BY <3>2, Darkened
    <3> QED
      BY <3>1, <3>2, <3>3
  <2>5. r = [i \in 1 .. Len(q) |-> r[i]] /\ DOMAIN r = 1 .. Len(q)
    BY <2>3
  <2> HIDE DEF r, w
  <2>6. Drawn(r)
    BY <2>3, <2>4, <2>5, DrawnBy
  <2>7. Owned(u) => \A i \in DOMAIN r : ~ r[i].streaming
    BY <2>3, <2>4, <2>5 DEF Owned
  <2>8. Shape(w) /\ Alone(w) /\ (Owned(u) => Owned(w))
    BY <2>2, <2>6, <2>7, NoMoreBuffer
  <2> QED
    BY <2>2, <2>8 DEF Keeps, w
<1> QED
  BY <1>1, <1>2

\* What the server makes itself is parsed by the handler of its type.
LEMMA ParseMade ==
  ASSUME NEW f, f.kind \in Made
  PROVE  Live(f) = IF f.kind = "said" THEN User(f) ELSE System(f)
<1> DEFINE s == SelectInSeq(Handlers, LAMBDA each : CanHandle(each, f))
<1>1. Type(f) = (IF f.kind = "said" THEN "user" ELSE "system")
  BY DEF Type
<1>2. \A h : CanHandle(h, f) <=> h = "unknown" \/ h = Type(f)
  BY DEF CanHandle
<1>3. s = IF f.kind = "said" THEN 7 ELSE 5
  <2>1. PICK k : k = IF f.kind = "said" THEN 7 ELSE 5
    OBVIOUS
  <2>2. k \in 1 .. 9 /\ CanHandle(Handlers[k], f)
    BY <1>1, <1>2, <2>1, HandlersAre
  <2>3. \A j \in 1 .. 9 : j < k => ~ CanHandle(Handlers[j], f)
    BY <1>1, <1>2, <2>1, HandlersAre
  <2> HIDE DEF s
  <2> QED
    BY <2>1, <2>2, <2>3, FirstIs DEF s
<1>4. Parse(f) = CASE Handlers[s] = "task_started" -> TaskStarted(f)
      [] Handlers[s] = "task_progress" -> TaskProgress(f)
      [] Handlers[s] = "task_notification" -> TaskNotification(f)
      [] Handlers[s] = "task_updated" -> TaskUpdated(f)
      [] Handlers[s] = "system" -> System(f)
      [] Handlers[s] = "assistant" -> Assistant(f)
      [] Handlers[s] = "user" -> User(f)
      [] Handlers[s] = "result" -> Result(f)
      [] OTHER -> Unknown(f)
  BY DEF Parse
<1>5. Live(f) = Parse(f)
  BY DEF Live, Processed
<1> HIDE DEF s
<1>6. CASE f.kind = "said"
  BY <1>3, <1>4, <1>5, <1>6, HandlersAre
<1>7. CASE f.kind # "said"
  BY <1>3, <1>4, <1>5, <1>7, HandlersAre
<1> QED
  BY <1>6, <1>7

\* Only an answer of the assistant has the id of a response, and an interrupt and a
\* launch are none.
LEMMA AnswersAre ==
  ASSUME NEW f, f.kind \in SentKinds \cup Made
  PROVE  /\ ~ IsAnswer(f) => Live(f).id = NoId
         /\ f.kind \in {"interrupt", "client_launched"} =>
              ~ IsAnswer(f) /\ Live(f).subtype = f.kind
<1>1. CASE f.kind \in Made
  <2>1. Live(f) = IF f.kind = "said" THEN User(f) ELSE System(f)
    BY <1>1, ParseMade
  <2>2. /\ f.kind = "said" => User(f) = Parsed("user", "none", <<f.item>>, NoId, {})
        /\ f.kind # "said" => System(f) = Parsed("system", f.kind, <<f.item>>, NoId, {})
    <3>1. f.kind = "said" => User(f) = Parsed("user", "none", <<f.item>>, NoId, {})
      BY DEF User
    <3>2. \A k \in Made : k \notin {"agent_notice", "hook", "retry", "mode"}
      BY DEF Made
    <3>3. System(f) = Parsed("system", f.kind, <<f.item>>, NoId, {})
      BY <1>1, <3>2 DEF System
    <3> QED
      BY <3>1, <3>3
  <2>3. \A t, u, x, i, n : /\ Parsed(t, u, x, i, n).type = t /\ Parsed(t, u, x, i, n).subtype = u
                           /\ Parsed(t, u, x, i, n).id = i
    BY DEF Parsed
  <2>4. CASE f.kind = "said"
    <3>1. Live(f) = Parsed("user", "none", <<f.item>>, NoId, {})
      BY <2>1, <2>2, <2>4
    <3> QED
      BY <2>3, <2>4, <3>1
  <2>5. CASE f.kind # "said"
    <3>1. Live(f) = Parsed("system", f.kind, <<f.item>>, NoId, {})
      BY <2>1, <2>2, <2>5
    <3>2. Live(f).type = "system" /\ Live(f).subtype = f.kind /\ Live(f).id = NoId
      BY <2>3, <3>1
    <3> QED
      BY <3>2 DEF IsAnswer
  <2> QED
    BY <2>4, <2>5
<1>2. CASE f.kind \notin Made
  <2>1. f.kind \in SentKinds /\ Live(f) = Parse(f)
    BY <1>2 DEF Live, Processed
  <2>2. f.kind \notin {"interrupt", "client_launched"}
    BY <1>2 DEF Made
  <2>3. CASE f.kind \in Answers
    <3>1. Live(f) = Assistant(f)
      BY <2>1, <2>3, ParseIs
    <3>2. Live(f).type = "assistant"
      BY <3>1 DEF Assistant, Parsed
    <3> QED
      BY <2>2, <3>2 DEF IsAnswer
  <2>4. CASE f.kind \notin Answers
    <3>1. \/ Live(f) \in {TaskStarted(f), TaskProgress(f), TaskNotification(f), TaskUpdated(f)}
          \/ Live(f) \in {System(f), User(f), Result(f)}
      BY <2>1, <2>4, ParseIs DEF SentKinds, TaskKinds, Answers, TextAnswers
    <3>2. Live(f).id = NoId
      BY <3>1 DEF TaskStarted, TaskProgress, TaskNotification, TaskUpdated, System, User, Result,
                  Parsed
    <3> QED
      BY <2>2, <3>2
  <2> QED
    BY <2>3, <2>4
<1> QED
  BY <1>1, <1>2

\* A frame is a piece, or of a kind that the CLI sends or the server makes.
LEMMA FrameKinds ==
  ASSUME NEW f \in Frames
  PROVE  f.kind \in SentKinds \cup Made \cup Pieces
<1>1. CASE f \in OwnFrames
  BY <1>1 DEF OwnFrames, Frame
<1>2. ASSUME NEW s \in Scripts, f \in ToSet(s) PROVE f.kind \in SentKinds \cup Pieces
  <2>1. PICK i \in DOMAIN s : f = s[i]
    BY <1>2 DEF ToSet
  <2> QED
    BY <2>1, ScriptsAssumption DEF Pieces
<1> QED
  BY <1>1, <1>2 DEF Frames

\* What ends a response on the page.
Closes(f) == f.kind \in {"stop", "interrupt", "client_launched"}

\* What the page does with one event.
Reads(e) ==
  /\ Shape(ui')
  /\ adrift => adrift'
  /\ ~ adrift' /\ Owned(ui) /\ Alone(ui) => Owned(ui') /\ Alone(ui')
  /\ Buffering' => ~ Closes(e) /\ (e.kind = "start" \/ Buffering)

\* Where the placeholder is.
LEMMA PlaceholderIs ==
  ASSUME Shape(ui), HasPlaceholder
  PROVE  /\ PlaceholderAt \in DOMAIN ui.bubbles /\ ui.bubbles[PlaceholderAt].id = ui.buffer.id
         /\ Buffering
<1> DEFINE S == WithId(ui.buffer.id)
<1>1. S # {} /\ Buffering /\ S \subseteq DOMAIN ui.bubbles
  BY DEF HasPlaceholder, WithId
<1>2. S \subseteq Nat
  BY <1>1, DrawnIs DEF Shape
<1>3. \A i \in S : ui.bubbles[i].id = ui.buffer.id
  BY DEF WithId
<1>4. PlaceholderAt = CHOOSE i \in S : \A j \in S : i <= j
  BY DEF PlaceholderAt, First
<1> HIDE DEF S
<1>5. \E i \in S : \A j \in S : i <= j
  BY <1>1, <1>2, Least
<1>6. PlaceholderAt \in S
  BY <1>4, <1>5
<1> QED
  BY <1>1, <1>3, <1>6

\* A response starts.
LEMMA StartReads ==
  ASSUME Shape(ui), NEW e, StartStream(e)
  PROVE  Reads(e)
<1>1. e.kind = "start" /\ ~ Closes(e)
  BY DEF StartStream, Closes
<1>2. CASE e.resp \in Ids \cup {NoId}
  BY <1>1, <1>2 DEF StartStream, Reads
<1>3. CASE e.resp \notin Ids \cup {NoId}
  <2> DEFINE q == ui.bubbles
             b == Placeholder(e.resp)
  <2>1. /\ ui' = [ui EXCEPT !.bubbles = Append(@, b), !.buffer = [id |-> e.resp, got |-> <<>>]]
        /\ adrift' = (adrift \/ Buffering)
    BY <1>3 DEF StartStream
  <2>2. DOMAIN b = Fields /\ b.id = e.resp
    BY DEF Placeholder, Fields
  <2>3. /\ DOMAIN ui' = PageFields /\ ui'.bubbles = Append(q, b)
        /\ ui'.buffer = [id |-> e.resp, got |-> <<>>]
    BY <2>1 DEF Shape, PageFields
  <2>4. Drawn(q) /\ Len(q) \in Nat /\ DOMAIN q = 1 .. Len(q)
    BY DrawnIs DEF Shape
  <2> HIDE DEF b
  <2>5. /\ Drawn(Append(q, b)) /\ DOMAIN Append(q, b) = 1 .. Len(q) + 1
        /\ Append(q, b)[Len(q) + 1] = b /\ \A i \in 1 .. Len(q) : Append(q, b)[i] = q[i]
    BY <2>2, <2>4, DrawnAppend
  <2>6. /\ DOMAIN ui'.buffer = {"id", "got"} /\ ui'.buffer.got \in Seq(Frames)
        /\ ui'.buffer.id = e.resp /\ e.resp # NoId /\ ui'.buffer # NoBuffer
    BY <1>3, <2>3 DEF NoBuffer
  <2>7. Shape(ui')
    BY <2>3, <2>5, <2>6 DEF Shape
  <2>8. \A i \in 1 .. Len(q) : q[i].id # e.resp
    BY <1>3, <2>4 DEF Ids
  <2>9. \A i \in 1 .. Len(q) + 1 : i \in 1 .. Len(q) \/ i = Len(q) + 1
    BY <2>4
  <2>10. Alone(ui')
    BY <2>3, <2>5, <2>6, <2>8, <2>9 DEF Alone
  <2>11. ~ adrift' /\ Owned(ui) => Owned(ui')
    <3> SUFFICES ASSUME ~ adrift', Owned(ui) PROVE Owned(ui')
      OBVIOUS
    <3>1. \A i \in 1 .. Len(q) : ~ q[i].streaming
      BY <2>1, <2>4 DEF Owned, Buffering
    <3> QED
      BY <2>2, <2>3, <2>5, <2>6, <2>9, <3>1 DEF Owned
  <2> QED
    BY <1>1, <2>1, <2>7, <2>10, <2>11 DEF Reads
<1> QED
  BY <1>2, <1>3

\* Text comes.
LEMMA TextReads ==
  ASSUME Shape(ui), NEW e, StreamText(e)
  PROVE  Reads(e)
<1>1. e.kind = "delta" /\ ~ Closes(e) /\ adrift' = adrift
  BY DEF StreamText, Closes, ghosts
<1>2. CASE ui' = ui
  BY <1>1, <1>2 DEF Reads, Buffering
<1>3. CASE ui' # ui
  <2> DEFINE q == ui.bubbles
  <2>1. PICK p : p = PlaceholderAt
    OBVIOUS
  <2>2. PICK b : b = [q[p] EXCEPT !.text = Append(@, e.item)]
    OBVIOUS
  <2>3. ui' = [ui EXCEPT !.bubbles[p].text = Append(@, e.item)]
    BY <1>3, <2>1 DEF StreamText
  <2>4. ui' = [ui EXCEPT !.bubbles = [@ EXCEPT ![p] = b]]
    BY <2>2, <2>3
  <2>5. /\ DOMAIN ui' = PageFields /\ ui'.buffer = ui.buffer
        /\ ui'.bubbles = [q EXCEPT ![p] = b]
    BY <2>4 DEF Shape, PageFields
  <2>6. Drawn(q) /\ Len(q) \in Nat /\ DOMAIN q = 1 .. Len(q) /\ \A i \in 1 .. Len(q) : DOMAIN q[i] = Fields
    BY DrawnIs DEF Shape
  <2>7. p \in DOMAIN q
    BY <1>3, <2>1, PlaceholderIs DEF StreamText
  <2>8. DOMAIN b = Fields /\ b.id = q[p].id /\ b.streaming = q[p].streaming
    BY <2>2, <2>6, <2>7 DEF Fields
  <2>9. /\ Drawn([q EXCEPT ![p] = b]) /\ DOMAIN [q EXCEPT ![p] = b] = DOMAIN q
        /\ \A j \in DOMAIN q : [q EXCEPT ![p] = b][j] = IF j = p THEN b ELSE q[j]
    BY <2>6, <2>8, DrawnExcept
  <2>10. \A i \in DOMAIN q : /\ ui'.bubbles[i].id = q[i].id
                             /\ ui'.bubbles[i].streaming => q[i].streaming
    BY <2>5, <2>8, <2>9
  <2>11. Keeps(ui, ui')
    BY <2>5, <2>9, <2>10, SameIds
  <2> QED
    BY <1>1, <2>5, <2>11 DEF Keeps, Reads, Buffering
<1> QED
  BY <1>2, <1>3

\* The frames kept aside come into the placeholder's place.
LEMMA SplicedIs ==
  ASSUME NEW u, Shape(u), NEW i \in DOMAIN u.bubbles
  PROVE  /\ Shape(Spliced(u, i)) /\ Spliced(u, i).buffer = NoBuffer
         /\ (\A j \in DOMAIN u.bubbles : j # i => ~ u.bubbles[j].streaming) => Owned(Spliced(u, i))
<1> DEFINE q == u.bubbles
           got == u.buffer.got
           r == [k \in DOMAIN got |-> Bubble(got[k], Live(got[k]))]
           w == Spliced(u, i)
<1>1. Drawn(q) /\ Len(q) \in Nat /\ DOMAIN q = 1 .. Len(q) /\ \A j \in 1 .. Len(q) : DOMAIN q[j] = Fields
  BY DrawnIs DEF Shape
<1>2. got \in Seq(Frames) /\ Len(got) \in Nat /\ DOMAIN got = 1 .. Len(got)
  BY LenProperties DEF Shape
<1>3. CASE got = <<>>
  <2> DEFINE b == [q[i] EXCEPT !.streaming = FALSE]
  <2>1. w = [u EXCEPT !.bubbles = [@ EXCEPT ![i] = b], !.buffer = NoBuffer]
    BY <1>3 DEF Spliced
  <2>2. DOMAIN b = Fields /\ ~ b.streaming
    BY <1>1, Darkened
  <2> HIDE DEF b
  <2>3. DOMAIN w = PageFields /\ w.bubbles = [q EXCEPT ![i] = b] /\ w.buffer = NoBuffer
    BY <2>1 DEF Shape, PageFields
  <2> HIDE DEF w
  <2>4. /\ Drawn([q EXCEPT ![i] = b]) /\ DOMAIN [q EXCEPT ![i] = b] = DOMAIN q
        /\ \A j \in DOMAIN q : [q EXCEPT ![i] = b][j] = IF j = i THEN b ELSE q[j]
    BY <1>1, <2>2, DrawnExcept
  <2>5. (\A j \in DOMAIN q : j # i => ~ q[j].streaming) =>
          \A j \in DOMAIN w.bubbles : ~ w.bubbles[j].streaming
    BY <2>2, <2>3, <2>4
  <2> QED
    BY <2>3, <2>4, <2>5, NoMoreBuffer DEF w
<1>4. CASE got # <<>>
  <2> DEFINE before == SubSeq(q, 1, i - 1)
             after == SubSeq(q, i + 1, Len(q))
             list == before \o r \o after
  <2>1. w = [u EXCEPT !.bubbles = list, !.buffer = NoBuffer, !.last = Time(Last(got))]
    BY <1>4 DEF Spliced
  <2>2. DOMAIN w = PageFields /\ w.bubbles = list /\ w.buffer = NoBuffer
    BY <2>1 DEF Shape, PageFields
  <2>3. /\ i \in Int /\ 1 <= i /\ i <= Len(q) /\ 1 \in Int /\ i - 1 \in Int /\ i + 1 \in Int
        /\ i - 1 <= Len(q) /\ 1 <= i + 1 /\ Len(q) <= Len(q) /\ Len(q) \in Int
    BY <1>1
  <2> HIDE DEF w
  <2>4. /\ Drawn(before)
        /\ \A k \in DOMAIN before : \E j \in DOMAIN q : before[k] = q[j] /\ 1 <= j /\ j <= i - 1
    BY <1>1, <2>3, DrawnPart
  <2>5. /\ Drawn(after)
        /\ \A k \in DOMAIN after : \E j \in DOMAIN q : after[k] = q[j] /\ i + 1 <= j /\ j <= Len(q)
    BY <1>1, <2>3, DrawnPart
  <2>6. Drawn(r) /\ \A k \in DOMAIN r : ~ r[k].streaming
    <3>1. r = [k \in 1 .. Len(got) |-> r[k]] /\ DOMAIN r = 1 .. Len(got)
      BY <1>2
    <3>2. \A k \in 1 .. Len(got) : DOMAIN r[k] = Fields /\ ~ r[k].streaming
      BY <1>2, BubbleIs
    <3> HIDE DEF r
    <3> QED
      BY <1>2, <3>1, <3>2, DrawnBy
  <2> HIDE DEF before, after, r
  <2> DEFINE start == before \o r
  <2>7. Drawn(start) /\ Mixes(start, before, r)
    BY <2>4, <2>6, DrawnConcat
  <2> HIDE DEF start
  <2>8. Drawn(start \o after) /\ Mixes(start \o after, start, after)
    BY <2>5, <2>7, DrawnConcat
  <2>9. w.bubbles = start \o after
    BY <2>2 DEF start
  <2>10. ASSUME \A j \in DOMAIN q : j # i => ~ q[j].streaming
         PROVE  \A k \in DOMAIN w.bubbles : ~ w.bubbles[k].streaming
    <3>1. \A k \in DOMAIN before : ~ before[k].streaming
      BY <1>1, <2>3, <2>4, <2>10
    <3>2. \A k \in DOMAIN after : ~ after[k].streaming
      BY <1>1, <2>3, <2>5, <2>10
    <3>3. \A k \in DOMAIN start : ~ start[k].streaming
      BY <2>6, <2>7, <3>1 DEF Mixes
    <3> QED
      BY <2>8, <2>9, <3>2, <3>3 DEF Mixes
  <2> QED
    BY <2>2, <2>8, <2>9, <2>10, NoMoreBuffer DEF w
<1> QED
  BY <1>3, <1>4

\* A response stops.
LEMMA StopReads ==
  ASSUME Shape(ui), NEW e, StopStream(e)
  PROVE  Reads(e)
<1>1. e.kind = "stop" /\ adrift' = adrift
  BY DEF StopStream
<1>2. ASSUME NEW i, i \in DOMAIN ui.bubbles, ui.bubbles[i].id = ui.buffer.id, Owned(ui), Alone(ui)
      PROVE  \A j \in DOMAIN ui.bubbles : j # i => ~ ui.bubbles[j].streaming
  BY <1>2 DEF Owned, Alone
<1>3. CASE HasPlaceholder /\ ui.bubbles[PlaceholderAt].streaming
  <2>1. ui' = Spliced(ui, PlaceholderAt)
    BY <1>3 DEF StopStream
  <2>2. PICK i : i = PlaceholderAt
    OBVIOUS
  <2>3. i \in DOMAIN ui.bubbles /\ ui.bubbles[i].id = ui.buffer.id
    BY <1>3, <2>2, PlaceholderIs
  <2>4. /\ Shape(ui') /\ ui'.buffer = NoBuffer
        /\ (\A j \in DOMAIN ui.bubbles : j # i => ~ ui.bubbles[j].streaming) => Owned(ui')
    BY <2>1, <2>2, <2>3, SplicedIs
  <2>5. Owned(ui) /\ Alone(ui) => Owned(ui') /\ Alone(ui')
    BY <1>2, <2>3, <2>4 DEF Alone
  <2> QED
    BY <1>1, <2>4, <2>5 DEF Reads, Buffering
<1>4. CASE ~ (HasPlaceholder /\ ui.bubbles[PlaceholderAt].streaming)
  <2>1. ui' = [ui EXCEPT !.buffer = NoBuffer]
    BY <1>4 DEF StopStream
  <2>2. DOMAIN ui' = PageFields /\ ui'.bubbles = ui.bubbles /\ ui'.buffer = NoBuffer
    BY <2>1 DEF Shape, PageFields
  <2>3. Drawn(ui'.bubbles)
    BY <2>2 DEF Shape
  <2>4. ASSUME Owned(ui), Alone(ui) PROVE \A j \in DOMAIN ui.bubbles : ~ ui.bubbles[j].streaming
    <3> SUFFICES ASSUME NEW j \in DOMAIN ui.bubbles, ui.bubbles[j].streaming PROVE FALSE
      OBVIOUS
    <3>1. Buffering /\ ui.bubbles[j].id = ui.buffer.id
      BY <2>4 DEF Owned, Buffering
    <3>2. HasPlaceholder
      BY <3>1 DEF HasPlaceholder, WithId
    <3>3. PICK i : i = PlaceholderAt
      OBVIOUS
    <3>4. i \in DOMAIN ui.bubbles /\ ui.bubbles[i].id = ui.buffer.id
      BY <3>2, <3>3, PlaceholderIs
    <3>5. i = j
      BY <1>2, <2>4, <3>4
    <3> QED
      BY <1>4, <3>2, <3>3, <3>5
  <2> QED
    BY <1>1, <2>2, <2>3, <2>4, NoMoreBuffer DEF Reads, Buffering
<1> QED
  BY <1>3, <1>4

\* A frame waits for the end of the response.
LEMMA CollectReads ==
  ASSUME Shape(ui), NEW e \in Frames, e.kind \notin Pieces, Collect(e)
  PROVE  Reads(e)
<1>1. /\ IsAnswer(e) /\ Buffering /\ adrift' = adrift
      /\ ui' = [ui EXCEPT !.buffer.got = Append(@, e)]
  BY DEF Collect, Waits
<1>2. ui.buffer.got \in Seq(Frames) /\ Append(ui.buffer.got, e) \in Seq(Frames)
  BY AppendProperties DEF Shape
<1>3. /\ DOMAIN ui' = PageFields /\ ui'.bubbles = ui.bubbles
      /\ ui'.buffer = [ui.buffer EXCEPT !.got = Append(@, e)]
  BY <1>1 DEF Shape, PageFields
<1>4. /\ DOMAIN ui'.buffer = {"id", "got"} /\ ui'.buffer.id = ui.buffer.id
      /\ ui'.buffer.got = Append(ui.buffer.got, e)
  BY <1>3 DEF Shape
<1>5. ui.buffer.id # NoId /\ ui.buffer # NoBuffer
  BY <1>1 DEF Shape, Buffering
<1>6. ui'.buffer # NoBuffer
  BY <1>4, <1>5 DEF NoBuffer
<1>7. Shape(ui')
  BY <1>2, <1>3, <1>4, <1>5 DEF Shape
<1>8. (Owned(ui) => Owned(ui')) /\ (Alone(ui) => Alone(ui'))
  BY <1>3, <1>4, <1>5, <1>6 DEF Owned, Alone
<1>9. ~ Closes(e)
  <2>1. e.kind \in SentKinds \cup Made
    BY FrameKinds
  <2> QED
    BY <1>1, <2>1, AnswersAre DEF Closes, Pieces
<1> QED
  BY <1>1, <1>7, <1>8, <1>9 DEF Reads

\* A frame takes a bubble's place while nothing is being buffered.
LEMMA PutReads ==
  ASSUME Shape(ui), ~ Buffering, NEW e, NEW i, NEW b, DOMAIN b = Fields, ~ b.streaming,
         DOMAIN ui' = PageFields, ui'.buffer = ui.buffer, ui'.bubbles = [ui.bubbles EXCEPT ![i] = b],
         adrift' = adrift
  PROVE  Reads(e)
<1> DEFINE q == ui.bubbles
<1>1. Drawn(q) /\ ui'.buffer = NoBuffer
  BY DEF Shape, Buffering
<1>2. /\ Drawn([q EXCEPT ![i] = b]) /\ DOMAIN [q EXCEPT ![i] = b] = DOMAIN q
      /\ \A j \in DOMAIN q : [q EXCEPT ![i] = b][j] = IF j = i THEN b ELSE q[j]
  BY <1>1, DrawnExcept
<1>3. Owned(ui) => \A j \in DOMAIN ui'.bubbles : ~ ui'.bubbles[j].streaming
  BY <1>2 DEF Owned, Buffering
<1>4. Shape(ui') /\ Alone(ui') /\ (Owned(ui) => Owned(ui'))
  BY <1>1, <1>2, <1>3, NoMoreBuffer
<1> QED
  BY <1>1, <1>4 DEF Reads, Buffering

\* ... the bubble with its id ...
LEMMA MergeReads ==
  ASSUME Shape(ui), NEW e, Merge(e)
  PROVE  Reads(e)
<1>1. PICK m : m = Live(e)
  OBVIOUS
<1>2. PICK i : i = First(WithId(m.id))
  OBVIOUS
<1>3. PICK old : old = ui.bubbles[i]
  OBVIOUS
<1>9. PICK a : a = IF Repeats(e, old) THEN {} ELSE Bubble(e, m).parts
  OBVIOUS
<1>4. PICK b : b = [Bubble(e, m) EXCEPT !.parts = a \cup old.parts]
  OBVIOUS
<1>5. PICK t : t = IF old.streaming THEN ui.last ELSE Time(e)
  OBVIOUS
<1>6. /\ ~ Buffering /\ adrift' = adrift
      /\ ui' = [ui EXCEPT !.bubbles[i] = b, !.last = t]
  BY <1>1, <1>2, <1>3, <1>9, <1>4, <1>5 DEF Merge
<1>7. DOMAIN b = Fields /\ ~ b.streaming
  BY <1>4, BubbleIs DEF Fields
<1>8. /\ DOMAIN ui' = PageFields /\ ui'.buffer = ui.buffer
      /\ ui'.bubbles = [ui.bubbles EXCEPT ![i] = b]
  BY <1>6 DEF Shape, PageFields
<1> QED
  BY <1>6, <1>7, <1>8, PutReads

\* ... or the last with a caret.
LEMMA ReplaceReads ==
  ASSUME Shape(ui), NEW e, Replace(e)
  PROVE  Reads(e)
<1>1. PICK m : m = Live(e)
  OBVIOUS
<1>2. PICK i : i = Latest(Streaming)
  OBVIOUS
<1>3. PICK b : b = [Bubble(e, m) EXCEPT !.id = ui.bubbles[i].id]
  OBVIOUS
<1>4. /\ ~ Buffering /\ adrift' = adrift
      /\ ui' = [ui EXCEPT !.bubbles[i] = b]
  BY <1>1, <1>2, <1>3 DEF Replace
<1>5. DOMAIN b = Fields /\ ~ b.streaming
  BY <1>3, BubbleIs DEF Fields
<1>6. /\ DOMAIN ui' = PageFields /\ ui'.buffer = ui.buffer
      /\ ui'.bubbles = [ui.bubbles EXCEPT ![i] = b]
  BY <1>4 DEF Shape, PageFields
<1> QED
  BY <1>4, <1>5, <1>6, PutReads

\* A message is new.
LEMMA PushReads ==
  ASSUME Shape(ui), NEW e \in Frames, e.kind \notin Pieces, Push(e)
  PROVE  Reads(e)
<1> DEFINE q == ui.bubbles
           b == Bubble(e, Live(e))
           w == Pushed(e)
<1>1. /\ w = [ui EXCEPT !.bubbles = Append(@, b), !.last = Time(e), !.legs = ApplyOnPage(@, e)]
  BY DEF Pushed
<1>2. DOMAIN w = PageFields /\ w.buffer = ui.buffer /\ w.bubbles = Append(q, b)
  BY <1>1 DEF Shape, PageFields
<1>3. DOMAIN b = Fields /\ ~ b.streaming /\ b.id = Live(e).id
  BY BubbleIs
<1>4. Drawn(q) /\ Len(q) \in Nat /\ DOMAIN q = 1 .. Len(q)
  BY DrawnIs DEF Shape
<1> HIDE DEF b, w
<1>5. /\ Drawn(Append(q, b)) /\ DOMAIN Append(q, b) = 1 .. Len(q) + 1
      /\ Append(q, b)[Len(q) + 1] = b /\ \A i \in 1 .. Len(q) : Append(q, b)[i] = q[i]
  BY <1>3, <1>4, DrawnAppend
<1>6. \A i \in 1 .. Len(q) + 1 : i \in 1 .. Len(q) \/ i = Len(q) + 1
  BY <1>4
<1>7. e.kind \in SentKinds \cup Made
  BY FrameKinds
<1>8. ui.buffer # NoBuffer => b.id # ui.buffer.id
  <2>1. ui.buffer # NoBuffer => ~ IsAnswer(e)
    BY DEF Push, Waits, Buffering
  <2>2. ui.buffer # NoBuffer => Live(e).id = NoId
    BY <1>7, <2>1, AnswersAre
  <2> QED
    BY <1>3, <2>2 DEF Shape
<1>9. Keeps(ui, w)
  <2>1. Shape(w)
    BY <1>2, <1>5 DEF Shape
  <2>2. Owned(ui) => Owned(w)
    BY <1>2, <1>3, <1>4, <1>5, <1>6 DEF Owned
  <2>3. Alone(ui) => Alone(w)
    BY <1>2, <1>4, <1>5, <1>6, <1>8 DEF Alone
  <2> QED
    BY <2>1, <2>2, <2>3 DEF Keeps
<1>10. /\ adrift' = adrift
       /\ ui' = IF Live(e).subtype \in {"interrupt", "client_launched"} THEN Stopped(w) ELSE w
  BY DEF Push, w
<1>11. Closes(e) => Live(e).subtype \in {"interrupt", "client_launched"}
  BY <1>7, AnswersAre DEF Closes, Pieces
<1>12. Keeps(w, Stopped(w)) /\ Stopped(w).buffer = NoBuffer
  BY <1>9, StoppedIs DEF Keeps
<1>13. CASE Live(e).subtype \in {"interrupt", "client_launched"}
  <2>1. ui' = Stopped(w)
    BY <1>10, <1>13
  <2> QED
    BY <1>9, <1>10, <1>12, <2>1 DEF Reads, Keeps, Buffering
<1>14. CASE Live(e).subtype \notin {"interrupt", "client_launched"}
  <2>1. ui' = w /\ ~ Closes(e)
    BY <1>10, <1>11, <1>14
  <2> QED
    BY <1>2, <1>9, <1>10, <2>1 DEF Reads, Keeps, Buffering
<1> QED
  BY <1>13, <1>14

-----------------------------------------------------------------------------
(* That every response the page has opened will be closed.                 *)

\* Every response of the script is complete ...
Whole(s) == \A i \in DOMAIN s : s[i].kind = "start" => Completes(s, i)

\* ... and the script is in the middle of one.
Midway(s) == \E k \in DOMAIN s : s[k].kind = "stop" /\ \A j \in 1 .. k : s[j].kind # "start"

\* No response starts in these events ...
Plain(q) == \A i \in DOMAIN q : q[i].kind # "start"

\* ... or none after one of them has closed what was open.
Closed(q) ==
  \E k \in DOMAIN q : Closes(q[k]) /\ \A j \in DOMAIN q : j > k => q[j].kind # "start"

\* Something that closes a response is on its way to the page's events.
Ahead == news = "terminated" \/ (\E f \in notices : Closes(f)) \/ Midway(script)

\* A response is open on the page, or will be when the events are read, only if
\* something closes it.
Opened ==
  view \notin {"away", "hydrating"} /\ ~ adrift =>
    Ahead \/ Closed(unread) \/ (~ Buffering /\ Plain(unread))

CaretIInv ==
  /\ Whole(script) /\ Shape(ui)
  /\ DOMAIN page = {"frames", "legs"} /\ page.frames \in Seq(Frames)
  /\ view \in {"away", "hydrating", "loading"} => ui.buffer = NoBuffer
  /\ ~ adrift => Owned(ui) /\ (view # "synced" => Alone(ui))
  /\ Opened

\* One more event.
LEMMA OneMoreEvent ==
  ASSUME NEW q \in Seq(Frames), NEW e \in Frames
  PROVE  /\ Closes(e) => Closed(q \o <<e>>)
         /\ e.kind # "start" => /\ Closed(q) => Closed(q \o <<e>>)
                                /\ Plain(q) => Plain(q \o <<e>>)
<1> DEFINE r == q \o <<e>>
<1>1. Len(q) \in Nat /\ DOMAIN q = 1 .. Len(q)
  BY LenProperties
<1>2. r = Append(q, e)
  BY AppendIsConcat
<1>3. /\ DOMAIN r = 1 .. Len(q) + 1 /\ r[Len(q) + 1] = e
      /\ \A i \in 1 .. Len(q) : r[i] = q[i]
  <2>1. /\ r \in Seq(Frames) /\ Len(r) = Len(q) + 1 /\ r[Len(q) + 1] = e
        /\ \A i \in 1 .. Len(q) : r[i] = q[i]
    BY <1>2, AppendProperties
  <2> HIDE DEF r
  <2> QED
    BY <2>1, LenProperties
<1> HIDE DEF r
<1>4. \A i \in DOMAIN r : i \in DOMAIN q \/ i = Len(q) + 1
  BY <1>1, <1>3
<1>5. Len(q) + 1 \in DOMAIN r /\ ~ (\E j \in DOMAIN r : j > Len(q) + 1)
  BY <1>1, <1>3
<1>6. Closes(e) => Closed(r)
  BY <1>3, <1>5 DEF Closed
<1>7. ASSUME e.kind # "start", Closed(q) PROVE Closed(r)
  <2>1. PICK k \in DOMAIN q : Closes(q[k]) /\ \A j \in DOMAIN q : j > k => q[j].kind # "start"
    BY <1>7 DEF Closed
  <2>2. k \in DOMAIN r /\ Closes(r[k])
    BY <1>1, <1>3, <2>1
  <2>3. \A j \in DOMAIN r : j > k => r[j].kind # "start"
    BY <1>1, <1>3, <1>4, <1>7, <2>1
  <2> QED
    BY <2>2, <2>3 DEF Closed
<1>8. ASSUME e.kind # "start", Plain(q) PROVE Plain(r)
  BY <1>1, <1>3, <1>4, <1>8 DEF Plain
<1> QED
  BY <1>6, <1>7, <1>8 DEF r

\* One event less.
LEMMA OneEventLess ==
  ASSUME NEW q \in Seq(Frames), q # <<>>
  PROVE  /\ Head(q) \in Frames
         /\ Closed(q) => Closed(Tail(q)) \/ (Closes(Head(q)) /\ Plain(Tail(q)))
         /\ Plain(q) => Plain(Tail(q)) /\ Head(q).kind # "start"
<1> DEFINE r == Tail(q)
<1>1. Len(q) \in Nat /\ DOMAIN q = 1 .. Len(q) /\ Len(q) # 0
  BY LenProperties, EmptySeq
<1>2. /\ Head(q) \in Frames /\ r \in Seq(Frames) /\ Len(r) = Len(q) - 1
      /\ \A i \in 1 .. Len(r) : r[i] = q[i + 1]
  BY HeadTailProperties
<1>3. Head(q) = q[1]
  OBVIOUS
<1> HIDE DEF r
<1>4. DOMAIN r = 1 .. Len(q) - 1 /\ \A i \in 1 .. Len(q) - 1 : r[i] = q[i + 1]
  BY <1>2, LenProperties
<1>5. ASSUME Closed(q) PROVE Closed(r) \/ (Closes(Head(q)) /\ Plain(r))
  <2>1. PICK k \in DOMAIN q : Closes(q[k]) /\ \A j \in DOMAIN q : j > k => q[j].kind # "start"
    BY <1>5 DEF Closed
  <2>2. \A j \in DOMAIN r : j + 1 \in DOMAIN q /\ r[j] = q[j + 1]
    BY <1>1, <1>4
  <2>3. CASE k = 1
    <3>1. \A j \in DOMAIN r : j + 1 > 1
      BY <1>1, <1>4
    <3>2. Plain(r)
      BY <2>1, <2>2, <2>3, <3>1 DEF Plain
    <3> QED
      BY <1>3, <2>1, <2>3, <3>2
  <2>4. CASE k # 1
    <3>1. k - 1 \in DOMAIN r /\ r[k - 1] = q[k]
      BY <1>1, <1>4, <2>4
    <3>2. \A j \in DOMAIN r : j > k - 1 => j + 1 > k
      BY <1>1, <1>4
    <3>3. \A j \in DOMAIN r : j > k - 1 => r[j].kind # "start"
      BY <2>1, <2>2, <3>2
    <3> QED
      BY <2>1, <3>1, <3>3 DEF Closed
  <2> QED
    BY <2>3, <2>4
<1>6. ASSUME Plain(q) PROVE Plain(r) /\ Head(q).kind # "start"
  <2>1. \A j \in DOMAIN r : j + 1 \in DOMAIN q /\ r[j] = q[j + 1]
    BY <1>1, <1>4
  <2>2. 1 \in DOMAIN q
    BY <1>1
  <2> QED
    BY <1>3, <1>6, <2>1, <2>2 DEF Plain
<1> QED
  BY <1>2, <1>5, <1>6 DEF r

\* The end of a whole script is whole.
LEMMA EndIsWhole ==
  ASSUME NEW s, NEW r, NEW n \in Nat, NEW d \in Nat, DOMAIN s = 1 .. n, DOMAIN r = 1 .. n - d,
         \A i \in 1 .. n - d : r[i] = s[i + d], Whole(s)
  PROVE  Whole(r)
<1> SUFFICES ASSUME NEW i \in DOMAIN r, r[i].kind = "start" PROVE Completes(r, i)
  BY DEF Whole
<1>1. i + d \in DOMAIN s /\ s[i + d].kind = "start" /\ i \in Int
  OBVIOUS
<1>2. PICK k \in DOMAIN s : i + d < k /\ s[k].kind = "stop" /\ \A j \in i + d + 1 .. k : s[j].kind # "start"
  BY <1>1 DEF Whole, Completes
<1>3. k - d \in DOMAIN r /\ i < k - d /\ r[k - d] = s[k]
  BY <1>1, <1>2
<1>4. ASSUME NEW j \in i + 1 .. k - d PROVE r[j].kind # "start"
  <2>1. j \in 1 .. n - d /\ j + d \in i + d + 1 .. k
    BY <1>1, <1>2, <1>3
  <2>2. r[j] = s[j + d] /\ s[j + d].kind # "start"
    BY <1>2, <2>1
  <2> QED
    BY <2>2
<1> QED
  BY <1>2, <1>3, <1>4 DEF Completes

\* The script without its first item.
LEMMA ScriptTail ==
  ASSUME NEW s, Sends(s), s # <<>>, Whole(s)
  PROVE  /\ Whole(Tail(s))
         /\ Head(s).kind = "start" => Midway(Tail(s))
         /\ Head(s).kind \notin {"start", "stop"} /\ Midway(s) => Midway(Tail(s))
<1> DEFINE r == Tail(s)
           n == Len(s)
<1>1. n \in Nat /\ DOMAIN s = 1 .. n /\ n # 0 /\ s \in Seq(Frames)
  BY LenProperties, EmptySeq DEF Sends
<1>2. r \in Seq(Frames) /\ Len(r) = n - 1 /\ \A i \in 1 .. Len(r) : r[i] = s[i + 1]
  BY <1>1, HeadTailProperties
<1>3. Head(s) = s[1] /\ 1 \in DOMAIN s
  BY <1>1
<1> HIDE DEF r, n
<1>4. DOMAIN r = 1 .. n - 1 /\ \A i \in 1 .. n - 1 : r[i] = s[i + 1]
  BY <1>2, LenProperties
<1>5. Whole(r)
  BY <1>1, <1>4, EndIsWhole
<1>6. ASSUME NEW k \in DOMAIN s, k # 1, s[k].kind = "stop", \A j \in 2 .. k : s[j].kind # "start"
      PROVE  Midway(r)
  <2>1. k - 1 \in DOMAIN r /\ r[k - 1] = s[k]
    BY <1>1, <1>4, <1>6
  <2>2. \A j \in 1 .. k - 1 : j + 1 \in 2 .. k /\ r[j] = s[j + 1]
    BY <1>1, <1>4
  <2>3. \A j \in 1 .. k - 1 : r[j].kind # "start"
    BY <1>6, <2>2
  <2> QED
    BY <1>6, <2>1, <2>3 DEF Midway
<1>7. ASSUME Head(s).kind = "start" PROVE Midway(r)
  <2>1. PICK k \in DOMAIN s : 1 < k /\ s[k].kind = "stop" /\ \A j \in 1 + 1 .. k : s[j].kind # "start"
    BY <1>3, <1>7 DEF Whole, Completes
  <2>2. k # 1 /\ 1 + 1 = 2
    BY <2>1
  <2> QED
    BY <1>6, <2>1, <2>2
<1>8. ASSUME Head(s).kind \notin {"start", "stop"}, Midway(s) PROVE Midway(r)
  <2>1. PICK k \in DOMAIN s : s[k].kind = "stop" /\ \A j \in 1 .. k : s[j].kind # "start"
    BY <1>8 DEF Midway
  <2>2. k # 1
    BY <1>3, <1>8, <2>1
  <2>3. \A j \in 2 .. k : j \in 1 .. k
    BY <1>1
  <2> QED
    BY <1>6, <2>1, <2>2, <2>3
<1> QED
  BY <1>5, <1>7, <1>8 DEF r

\* The script without the response it is in.
LEMMA ScriptAfter ==
  ASSUME Sends(script), Whole(script)
  PROVE  Whole(AfterResponse)
<1> DEFINE cut == {i \in DOMAIN script : script[i].kind = "start"}
           k == CHOOSE i \in cut : \A j \in cut : i <= j
           n == Len(script)
<1>1. script \in Seq(Frames) /\ n \in Nat /\ DOMAIN script = 1 .. n
  BY LenProperties DEF Sends
<1>2. CASE cut = {}
  BY <1>2 DEF AfterResponse, Whole
<1>3. CASE cut # {}
  <2>1. AfterResponse = SubSeq(script, k, n)
    BY <1>3 DEF AfterResponse
  <2>2. cut \subseteq Nat /\ cut \subseteq 1 .. n
    BY <1>1
  <2> HIDE DEF cut, n
  <2>3. \E i \in cut : \A j \in cut : i <= j
    BY <1>3, <2>2, Least
  <2>4. k \in cut
    BY <2>3
  <2> HIDE DEF k
  <2>5. k \in 1 .. n
    BY <2>2, <2>4
  <2>6. \A i \in k .. n : script[i] \in Frames
    BY <1>1, <2>5, ElementOfSeq DEF n
  <2> DEFINE r == SubSeq(script, k, n)
  <2>7. /\ r \in Seq(Frames) /\ Len(r) = n - k + 1
        /\ \A i \in 1 .. n - k + 1 : r[i] = script[k + i - 1]
    BY <1>1, <2>5, <2>6, SubSeqProperties
  <2> HIDE DEF r
  <2>8. k \in Int /\ k - 1 \in Nat /\ n \in Int
    BY <1>1, <2>5
  <2>11. n - k + 1 = n - (k - 1) /\ \A i \in 1 .. n - k + 1 : k + i - 1 = i + (k - 1)
    BY <2>8
  <2>9. DOMAIN r = 1 .. n - (k - 1) /\ \A i \in 1 .. n - (k - 1) : r[i] = script[i + (k - 1)]
    BY <2>7, <2>11, LenProperties
  <2>10. Whole(r)
    BY <1>1, <2>8, <2>9, EndIsWhole
  <2> QED
    BY <2>1, <2>10 DEF r
<1> QED
  BY <1>2, <1>3

-----------------------------------------------------------------------------
(* The steps.                                                              *)

\* An event that does not start a response is told.
LEMMA ToldOpens ==
  ASSUME Opened, unread \in Seq(Frames), NEW e \in Frames, e.kind # "start", Told(<<e>>),
         UNCHANGED <<view, ui, adrift>>, Ahead => Ahead' \/ Closes(e)
  PROVE  Opened'
<1> SUFFICES ASSUME view \notin {"away", "hydrating"}, ~ adrift
             PROVE  Ahead' \/ Closed(unread') \/ (~ Buffering /\ Plain(unread'))
  BY DEF Opened, Buffering
<1>1. unread' = unread \o <<e>>
  BY ToldIs
<1>2. Ahead \/ Closed(unread) \/ (~ Buffering /\ Plain(unread))
  BY DEF Opened
<1>3. /\ Closes(e) => Closed(unread')
      /\ Closed(unread) => Closed(unread')
      /\ Plain(unread) => Plain(unread')
  BY <1>1, OneMoreEvent
<1> QED
  BY <1>2, <1>3

\* A step that leaves the page as it is.
LEMMA ServerKeeps ==
  ASSUME CaretIInv, UNCHANGED <<view, ui, page, adrift>>, Whole(script'), Opened'
  PROVE  CaretIInv'
BY DEF CaretIInv

\* Every step of the server keeps the end of what is open in sight.
LEMMA ServerCarets ==
  ASSUME LegsIInv, CaretIInv,
         Emit \/ Store \/ Publish \/ (\E f \in notices : PublishNotice(f))
         \/ Send \/ Interrupt \/ Terminate \/ Launch \/ UNCHANGED vars
  PROVE  CaretIInv'
<1>0. /\ unread \in Seq(Frames) /\ Sends(script) /\ FileOK
      /\ Whole(script) /\ Opened
  BY DEF LegsIInv, LegsOK, CaretIInv
<1>1. CASE Emit
  <2> DEFINE e == Head(script)
  <2>1. /\ script # <<>> /\ e.kind \in Pieces /\ Told(<<e>>) /\ script' = Tail(script)
        /\ UNCHANGED <<notices, news, view, page, ui, adrift>>
    BY <1>1 DEF Emit, ghosts
  <2>2. e \in Frames
    BY <1>0, <2>1, TailShrinks
  <2>3. /\ Whole(script')
        /\ e.kind = "start" => Midway(script')
        /\ e.kind \notin {"start", "stop"} /\ Midway(script) => Midway(script')
    BY <1>0, <2>1, ScriptTail
  <2> HIDE DEF e
  <2>4. CASE e.kind = "start"
    <3>1. Ahead'
      BY <2>3, <2>4 DEF Ahead
    <3>2. Opened'
      BY <3>1 DEF Opened
    <3> QED
      BY <2>1, <2>3, <3>2, ServerKeeps
  <2>5. CASE e.kind # "start"
    <3>1. Ahead => Ahead' \/ Closes(e)
      BY <2>1, <2>3, <2>5 DEF Ahead, Closes
    <3>2. Opened'
      BY <1>0, <2>1, <2>2, <2>5, <3>1, ToldOpens
    <3> QED
      BY <2>1, <2>3, <3>2, ServerKeeps
  <2> QED
    BY <2>4, <2>5
<1>2. CASE Store
  <2>1. /\ script # <<>> /\ Head(script).kind \notin Pieces /\ script' = Tail(script)
        /\ UNCHANGED <<notices, news, view, page, unread, ui, adrift>>
    BY <1>2 DEF Store, ghosts
  <2>2. Whole(script') /\ (Midway(script) => Midway(script'))
    BY <1>0, <2>1, ScriptTail DEF Pieces
  <2>3. Opened'
    BY <1>0, <2>1, <2>2 DEF Opened, Ahead, Buffering
  <2> QED
    BY <2>1, <2>2, <2>3, ServerKeeps
<1>3. CASE Publish
  <2>1. /\ reader # NoFrame /\ Told(<<reader>>)
        /\ UNCHANGED <<script, notices, news, view, page, ui, adrift>>
    BY <1>3 DEF Publish, ghosts
  <2>2. reader \in Frames /\ reader.kind # "start"
    BY <1>0, <2>1 DEF FileOK, SentKinds, TaskKinds, Answers, TextAnswers
  <2>3. Ahead => Ahead'
    BY <2>1 DEF Ahead
  <2>4. Opened'
    BY <1>0, <2>1, <2>2, <2>3, ToldOpens
  <2> QED
    BY <1>0, <2>1, <2>4, ServerKeeps
<1>4. ASSUME NEW f \in notices, PublishNotice(f) PROVE CaretIInv'
  <2>1. /\ Told(<<f>>) /\ notices' = notices \ {f}
        /\ UNCHANGED <<script, news, view, page, ui, adrift>>
    BY <1>4 DEF PublishNotice, ghosts
  <2>2. f \in Frames /\ f.kind # "start"
    BY <1>0 DEF FileOK, Made
  <2>3. Ahead => Ahead' \/ Closes(f)
    BY <2>1 DEF Ahead
  <2>4. Opened'
    BY <1>0, <2>1, <2>2, <2>3, ToldOpens
  <2> QED
    BY <1>0, <2>1, <2>4, ServerKeeps
<1>5. CASE Send
  <2>1. /\ notices \subseteq notices'
        /\ UNCHANGED <<script, news, view, page, unread, ui, adrift>>
    BY <1>5 DEF Send, Says, ghosts
  <2>2. Opened'
    BY <1>0, <2>1 DEF Opened, Ahead, Buffering
  <2> QED
    BY <1>0, <2>1, <2>2, ServerKeeps
<1>6. CASE Interrupt
  <2>1. /\ Frame("interrupt", "interrupt", NoId, "none") \in notices'
        /\ script' \in {script, AfterResponse}
        /\ UNCHANGED <<view, page, ui, adrift>>
    BY <1>6 DEF Interrupt, Says, ghosts
  <2>2. Ahead'
    BY <2>1 DEF Ahead, Closes, Frame
  <2>3. Opened'
    BY <2>2 DEF Opened
  <2>4. Whole(script')
    BY <1>0, <2>1, ScriptAfter
  <2> QED
    BY <2>1, <2>3, <2>4, ServerKeeps
<1>7. CASE Terminate
  <2>1. /\ script' = AfterResponse /\ news' = IF view = "away" THEN news ELSE "terminated"
        /\ UNCHANGED <<view, page, ui, adrift>>
    BY <1>7 DEF Terminate
  <2>2. Opened'
    BY <2>1 DEF Opened, Ahead
  <2>3. Whole(script')
    BY <1>0, <2>1, ScriptAfter
  <2> QED
    BY <2>1, <2>2, <2>3, ServerKeeps
<1>8. CASE Launch
  <2>1. /\ Frame("client_launched", "client_launched", NoId, "none") \in notices'
        /\ UNCHANGED <<script, view, page, ui, adrift>>
    BY <1>8 DEF Launch, Says, ghosts
  <2>2. Ahead'
    BY <2>1 DEF Ahead, Closes, Frame
  <2>3. Opened'
    BY <2>2 DEF Opened
  <2> QED
    BY <1>0, <2>1, <2>3, ServerKeeps
<1>9. CASE UNCHANGED vars
  <2>1. UNCHANGED <<script, notices, news, view, page, unread, ui, adrift>>
    BY <1>9 DEF vars, serverVars, ghosts
  <2>2. Opened'
    BY <1>0, <2>1 DEF Opened, Ahead, Buffering
  <2> QED
    BY <1>0, <2>1, <2>2, ServerKeeps
<1> QED
  BY <1>1, <1>2, <1>3, <1>4, <1>5, <1>6, <1>7, <1>8, <1>9

\* The page reads an event.
LEMMA ReadCarets ==
  ASSUME LegsIInv, CaretIInv, Read
  PROVE  CaretIInv'
<1> DEFINE e == Head(unread)
<1>1. /\ view = "here" /\ unread # <<>> /\ unread' = Tail(unread)
      /\ UNCHANGED <<script, notices, news, view, page>>
      /\ \/ StartStream(e) \/ StreamText(e) \/ StopStream(e)
         \/ e.kind \notin Pieces /\ (Collect(e) \/ Merge(e) \/ Replace(e) \/ Push(e))
  BY DEF Read, serverVars
<1>2. unread \in Seq(Frames)
  BY DEF LegsIInv, LegsOK
<1>3. /\ e \in Frames
      /\ Closed(unread) => Closed(unread') \/ (Closes(e) /\ Plain(unread'))
      /\ Plain(unread) => Plain(unread') /\ e.kind # "start"
  BY <1>1, <1>2, OneEventLess
<1> HIDE DEF e
<1>4. Shape(ui) /\ Whole(script) /\ Opened
      /\ DOMAIN page = {"frames", "legs"} /\ page.frames \in Seq(Frames)
      /\ (~ adrift => Owned(ui) /\ Alone(ui))
  BY <1>1 DEF CaretIInv
<1>5. Reads(e)
  BY <1>1, <1>3, <1>4, StartReads, TextReads, StopReads, CollectReads, MergeReads, ReplaceReads, PushReads
<1>6. /\ Shape(ui') /\ (~ adrift' => ~ adrift /\ Owned(ui') /\ Alone(ui'))
      /\ Buffering' => ~ Closes(e) /\ (e.kind = "start" \/ Buffering)
  BY <1>4, <1>5 DEF Reads
<1>7. ASSUME ~ adrift' PROVE Ahead' \/ Closed(unread') \/ (~ Buffering' /\ Plain(unread'))
  <2>1. Ahead \/ Closed(unread) \/ (~ Buffering /\ Plain(unread))
    BY <1>1, <1>4, <1>6, <1>7 DEF Opened
  <2>2. Ahead => Ahead'
    BY <1>1 DEF Ahead
  <2> QED
    BY <1>3, <1>6, <2>1, <2>2
<1>8. Opened'
  BY <1>7 DEF Opened
<1> QED
  BY <1>1, <1>4, <1>6, <1>8 DEF CaretIInv

\* The page is opened ...
LEMMA VisitCarets ==
  ASSUME CaretIInv, Visit
  PROVE  CaretIInv'
<1>1. /\ view = "away" /\ view' = "hydrating" /\ UNCHANGED <<script, ui, adrift>>
      /\ page' = [page EXCEPT !.legs = Hydrated.legs]
  BY DEF Visit
<1>2. DOMAIN page' = {"frames", "legs"} /\ page'.frames \in Seq(Frames)
  BY <1>1 DEF CaretIInv
<1>3. Opened'
  BY <1>1 DEF Opened
<1> QED
  BY <1>1, <1>2, <1>3 DEF CaretIInv

\* ... asks for the history ...
LEMMA AskCarets ==
  ASSUME LegsIInv, CaretIInv, Ask
  PROVE  CaretIInv'
<1>1. /\ view = "hydrating" /\ view' = "loading" /\ unread' = <<>>
      /\ ui' = [ui EXCEPT !.legs = page.legs]
      /\ page' = [frames |-> file, legs |-> <<>>] /\ UNCHANGED <<script, adrift>>
  BY DEF Ask, serverVars
<1>2. Shape(ui) /\ ui.buffer = NoBuffer /\ Whole(script) /\ (~ adrift => Owned(ui) /\ Alone(ui))
  BY <1>1 DEF CaretIInv
<1>3. DOMAIN ui' = PageFields /\ ui'.bubbles = ui.bubbles /\ ui'.buffer = ui.buffer
  BY <1>1, <1>2 DEF Shape, PageFields
<1>4. Keeps(ui, ui')
  BY <1>2, <1>3, SameIds DEF Shape
<1>5. file \in Seq(Frames)
  BY DEF LegsIInv, FileOK
<1>6. ~ Buffering' /\ Plain(unread')
  BY <1>1, <1>2, <1>3 DEF Buffering, Plain
<1>7. Opened'
  BY <1>6 DEF Opened
<1> QED
  BY <1>1, <1>2, <1>3, <1>4, <1>5, <1>7 DEF CaretIInv, Keeps

\* ... and shows it.
LEMMA LoadedCarets ==
  ASSUME CaretIInv, Loaded
  PROVE  CaretIInv'
<1> DEFINE q == History(page.frames)
<1>1. /\ view = "loading" /\ view' = "here" /\ page' = NoAnswer
      /\ UNCHANGED <<script, notices, news, unread, adrift>>
      /\ ui' = [ui EXCEPT !.bubbles = q, !.last = IF page.frames = <<>> THEN @
                                                  ELSE Time(Last(page.frames))]
  BY DEF Loaded, serverVars
<1>2. Shape(ui) /\ ui.buffer = NoBuffer /\ Whole(script) /\ Opened /\ page.frames \in Seq(Frames)
  BY <1>1 DEF CaretIInv
<1>3. Drawn(q) /\ \A i \in DOMAIN q : ~ q[i].streaming
  BY <1>2, HistoryIs
<1> HIDE DEF q
<1>4. DOMAIN ui' = PageFields /\ ui'.bubbles = q /\ ui'.buffer = NoBuffer
  BY <1>1, <1>2 DEF Shape, PageFields
<1>5. Shape(ui') /\ Owned(ui') /\ Alone(ui')
  BY <1>3, <1>4, NoMoreBuffer
<1>6. Opened'
  BY <1>1, <1>2, <1>4 DEF Opened, Ahead, Buffering
<1>7. DOMAIN page' = {"frames", "legs"} /\ page'.frames \in Seq(Frames)
  BY <1>1 DEF NoAnswer
<1> QED
  BY <1>1, <1>2, <1>4, <1>5, <1>6, <1>7 DEF CaretIInv

\* The page hears that the session has ended.
LEMMA HearCarets ==
  ASSUME CaretIInv, HearEnd
  PROVE  CaretIInv'
<1>1. /\ ui' = Stopped(ui) /\ UNCHANGED <<script, view, page, unread>>
      /\ adrift' = (adrift \/ \E i \in DOMAIN unread : unread[i].kind = "start")
  BY DEF HearEnd, serverVars
<1>2. Keeps(ui, ui') /\ ui'.buffer = NoBuffer
  BY <1>1, StoppedIs DEF CaretIInv
<1>3. Shape(ui') /\ Alone(ui') /\ (~ adrift' => Owned(ui'))
  BY <1>1, <1>2 DEF CaretIInv, Keeps, Alone
<1>4. ~ adrift' => ~ Buffering' /\ Plain(unread')
  BY <1>1, <1>2 DEF Buffering, Plain
<1>5. Opened'
  BY <1>4 DEF Opened
<1> QED
  BY <1>1, <1>2, <1>3, <1>5 DEF CaretIInv

\* The page stalls.
LEMMA StallCarets ==
  ASSUME CaretIInv, Stall
  PROVE  CaretIInv'
<1>1. /\ view = "here" /\ view' = "stalled"
      /\ UNCHANGED <<script, notices, news, page, unread, ui, adrift>>
  BY DEF Stall, serverVars, ghosts
<1>2. Opened'
  BY <1>1 DEF CaretIInv, Opened, Ahead, Buffering
<1> QED
  BY <1>1, <1>2 DEF CaretIInv

\* The page gets what is newer than what it has.
LEMMA SyncCarets ==
  ASSUME LegsIInv, CaretIInv, Sync
  PROVE  CaretIInv'
<1> DEFINE all == Joined(ui.bubbles, History(Newer))
<1>1. /\ view = "stalled" /\ view' = "synced"
      /\ UNCHANGED <<script, notices, news, page, unread, adrift>>
      /\ \/ ui' = ui
         \/ \E last, legs : ui' = [ui EXCEPT !.bubbles = all, !.last = last, !.legs = legs]
  BY DEF Sync, serverVars
<1>2. Shape(ui) /\ Whole(script) /\ Opened /\ (~ adrift => Owned(ui))
  BY <1>1 DEF CaretIInv
<1>3. Newer \in Seq(Frames)
  BY NewerIs DEF LegsIInv
<1>4. Drawn(History(Newer)) /\ \A i \in DOMAIN History(Newer) : ~ History(Newer)[i].streaming
  BY <1>3, HistoryIs
<1>5. Drawn(all) /\ Mixes(all, ui.bubbles, History(Newer))
  BY <1>2, <1>4, JoinedIs DEF Shape
<1> HIDE DEF all
<1>6. DOMAIN ui' = PageFields /\ ui'.buffer = ui.buffer /\ ui'.bubbles \in {ui.bubbles, all}
  BY <1>1, <1>2 DEF Shape, PageFields
<1>7. Shape(ui')
  BY <1>2, <1>5, <1>6 DEF Shape
<1>8. ASSUME Owned(ui) PROVE Owned(ui')
  <2>1. CASE ui'.bubbles = ui.bubbles
    BY <1>6, <1>8, <2>1 DEF Owned
  <2>2. CASE ui'.bubbles = all
    <3> SUFFICES ASSUME NEW i \in DOMAIN all, all[i].streaming
                 PROVE  ui.buffer # NoBuffer /\ all[i].id = ui.buffer.id
      BY <1>6, <2>2 DEF Owned
    <3>1. \E j \in DOMAIN ui.bubbles : all[i] = ui.bubbles[j]
      BY <1>4, <1>5 DEF Mixes
    <3> QED
      BY <1>8, <3>1 DEF Owned
  <2> QED
    BY <1>6, <2>1, <2>2
<1>9. Opened'
  BY <1>1, <1>2, <1>6 DEF Opened, Ahead, Buffering
<1> QED
  BY <1>1, <1>2, <1>7, <1>8, <1>9 DEF CaretIInv

\* The page polls again.
LEMMA ReconnectCarets ==
  ASSUME CaretIInv, Reconnect
  PROVE  CaretIInv'
<1>1. /\ view' = "here" /\ unread' = <<>> /\ UNCHANGED <<script, page, ui>>
      /\ ~ adrift' => ~ adrift /\ ~ Buffering
  BY DEF Reconnect, serverVars
<1>2. ~ adrift' => Owned(ui') /\ Alone(ui') /\ ~ Buffering' /\ Plain(unread')
  BY <1>1 DEF CaretIInv, Alone, Buffering, Plain
<1>3. Opened'
  BY <1>2 DEF Opened
<1> QED
  BY <1>1, <1>2, <1>3 DEF CaretIInv

\* At the start the page is empty.
LEMMA CaretInit == Init => CaretIInv
<1> SUFFICES ASSUME Init PROVE CaretIInv
  OBVIOUS
<1>1. script \in Scripts /\ view = "away" /\ page = NoAnswer /\ ui = NoPage
  BY DEF Init
<1>2. Whole(script)
  BY <1>1, ScriptsAssumption DEF Whole
<1>3. DOMAIN page = {"frames", "legs"} /\ page.frames \in Seq(Frames)
  BY <1>1 DEF NoAnswer
<1>4. DOMAIN ui = PageFields /\ ui.bubbles = <<>> /\ ui.buffer = NoBuffer
  BY <1>1 DEF NoPage, PageFields
<1>5. Drawn(ui.bubbles) /\ \A i \in DOMAIN ui.bubbles : ~ ui.bubbles[i].streaming
  BY <1>4 DEF Drawn
<1>6. Shape(ui) /\ Owned(ui) /\ Alone(ui)
  BY <1>4, <1>5, NoMoreBuffer
<1>7. Opened
  BY <1>1 DEF Opened
<1> QED
  BY <1>1, <1>2, <1>3, <1>4, <1>6, <1>7 DEF CaretIInv

\* Whatever comes between, something that closes the response that is open on
\* the page is under way, and only its bubble has a caret.
THEOREM CaretsCorrect == Spec => []CaretIInv
<1>1. LegsIInv /\ CaretIInv /\ [Next]_vars => CaretIInv'
  BY ServerCarets, ReadCarets, VisitCarets, AskCarets, LoadedCarets, HearCarets, StallCarets,
     SyncCarets, ReconnectCarets DEF Next
<1> QED
  BY <1>1, CaretInit, LegsCorrect, PTL DEF Spec

\* Between responses no bubble has a caret and no buffer takes the next message
\* in.
THEOREM CaretsSafe == Spec => []NoCaretLeft
<1>1. LegsIInv /\ CaretIInv => NoCaretLeft
  <2> SUFFICES ASSUME LegsIInv, CaretIInv, AtRest, ~ adrift,
                      script = <<>> \/ Head(script).kind = "start"
               PROVE  ~ Buffering /\ Streaming = {}
    BY DEF NoCaretLeft
  <2>1. view = "here" /\ notices = {} /\ news = "none" /\ unread = <<>>
    BY DEF AtRest
  <2>2. Sends(script)
    BY DEF LegsIInv
  <2>3. ~ Midway(script)
    <3> SUFFICES ASSUME NEW k \in DOMAIN script, \A j \in 1 .. k : script[j].kind # "start"
                 PROVE  FALSE
      BY DEF Midway
    <3>1. DOMAIN script = 1 .. Len(script) /\ Len(script) \in Nat
      BY <2>2, LenProperties DEF Sends
    <3>2. 1 \in 1 .. k /\ script # <<>>
      BY <3>1
    <3>3. Head(script) = script[1]
      OBVIOUS
    <3> QED
      BY <3>2, <3>3
  <2>4. ~ Ahead /\ ~ Closed(unread)
    BY <2>1, <2>3 DEF Ahead, Closed
  <2>5. ~ Buffering
    BY <2>1, <2>4 DEF CaretIInv, Opened
  <2>6. Owned(ui)
    BY DEF CaretIInv
  <2> QED
    BY <2>5, <2>6 DEF Owned, Streaming, Buffering
<1> QED
  BY <1>1, CaretsCorrect, LegsCorrect, PTL

-----------------------------------------------------------------------------
(* That every item of the file is on the page, once.  What follows is      *)
(* about one item x, a text, a tool use or a result.                       *)

\* What is told that is shown: the file never has an interrupt_success.
Names == {f.item : f \in Frames}
Tellable == Names \ {"interrupt_success", "none"}

\* An event is a frame of x, or a piece of its text.
FrameOf(e, x) == e.kind \notin Pieces /\ e.item = x
DeltaOf(e, x) == e.kind = "delta" /\ e.item = x
Breaks(e) == e.kind \in {"start", "stop"}
Brings(s, x) == \E i \in DOMAIN s : FrameOf(s[i], x)
Streamed(s, x) == \E i \in DOMAIN s : DeltaOf(s[i], x)

\* x comes once, and after the pieces of its text.
Good(s, x) ==
  /\ \A i, j \in DOMAIN s : FrameOf(s[i], x) /\ FrameOf(s[j], x) => i = j
  /\ \A i, j \in DOMAIN s : DeltaOf(s[i], x) /\ FrameOf(s[j], x) => Streams(s, i, j)

\* x comes, as a text, in the response that is open.
Near(s, x) ==
  /\ Brings(s, x)
  /\ \A j \in DOMAIN s : FrameOf(s[j], x) =>
       s[j].kind \in TextAnswers /\ \A k \in DOMAIN s : k < j => ~ Breaks(s[k])

\* What the page will be told, in order.
Held == IF reader = NoFrame THEN <<>> ELSE <<reader>>
Underway == unread \o Held
Coming == unread \o (Held \o script)

\* x is in the file, in a frame that is seen, or stored and not published yet.
Stored(x) == \E i \in DOMAIN file : file[i].item = x
Wanted(x) == \E i \in DOMAIN file : file[i].item = x /\ Visible(file[i])
Noticed(x) == \E f \in notices : f.item = x

\* x is in the file once, and what the page is told of it is in the file.
FiledOnce(x) ==
  /\ \A i, j \in DOMAIN file : file[i].item = x /\ file[j].item = x => i = j
  /\ x \in {"said", "interrupt"} /\ Stored(x) => x \in had
  /\ \A e \in ToSet(unread) \cup ToSet(Held) \cup notices :
       FrameOf(e, x) => e \in ToSet(file)
  /\ view \in {"away", "hydrating"} => unread = <<>>

\* x is told once, after the pieces of its text.
ToldOnce(x) ==
  /\ Brings(script, x) => ~ Stored(x)
  /\ Noticed(x) => ~ Brings(Coming, x)
  /\ Good(Coming, x)
  /\ Stored(x) /\ x \notin blurred /\ Streamed(Coming, x) => Brings(Coming, x)

\* Where x is on the page u.
In(q, x) == \E i \in DOMAIN q : x \in Shows(q[i])
Once(q, x) == \A i, j \in DOMAIN q : x \in Shows(q[i]) /\ x \in Shows(q[j]) => i = j
Kept(u, x) == \E i \in DOMAIN u.buffer.got : u.buffer.got[i].item = x
InOpen(u, x) == \A i \in DOMAIN u.bubbles : x \in Shows(u.bubbles[i]) => u.bubbles[i].id = u.buffer.id

\* The bubble of the response that is buffered.
Holder(u) ==
  u.buffer # NoBuffer =>
    \A i, j \in DOMAIN u.bubbles :
      u.bubbles[i].id = u.buffer.id =>
        /\ u.bubbles[i].streaming /\ u.bubbles[i].parts = {}
        /\ u.bubbles[i].text \in Seq(Names)
        /\ u.bubbles[j].id = u.buffer.id => i = j

\* What holds of the page u, whatever has been blurred.
Sound(u, x) ==
  /\ Holder(u)
  /\ \A i \in DOMAIN u.buffer.got : u.buffer.got[i].kind \notin Pieces
  /\ \A i \in DOMAIN u.buffer.got : u.buffer.got[i].item = x => u.buffer.got[i] \in ToSet(file)
  /\ x \in Made /\ (In(u.bubbles, x) \/ Kept(u, x)) => Stored(x)

\* Before the history is there the page is empty, and the answer is of the file.
PageOnce(x) ==
  /\ view \in {"away", "hydrating", "loading"} => ui.bubbles = <<>> /\ ui.buffer = NoBuffer
  /\ view = "loading" =>
       /\ \A i \in DOMAIN page.frames : page.frames[i] \in ToSet(file)
       /\ \A i, j \in DOMAIN page.frames :
            page.frames[i].item = x /\ page.frames[j].item = x => i = j
  /\ Sound(ui, x)

\* The page shows x only as the text of the open response.
Preview(u, x) == u.buffer # NoBuffer /\ InOpen(u, x) /\ Near(Coming, x)

\* x may be told yet.
Later(x) == IF view = "synced" THEN Brings(script, x) ELSE Brings(Coming, x) \/ Noticed(x)

\* The bubble of the open response shows x.
Half(u, x) ==
  \E i \in DOMAIN u.bubbles : u.bubbles[i].id = u.buffer.id /\ x \in Shows(u.bubbles[i])

\* What the answer lacks the page will be told.
LoadingOnce(x) ==
  view = "loading" /\ x \notin blurred /\ Wanted(x) =>
    (\E i \in DOMAIN page.frames : page.frames[i].item = x) \/ Brings(Underway, x) \/ Noticed(x)

\* The page u shows x once, or keeps it aside, or is told of it yet; and what is
\* yet to come it shows only as the text of the open response.
Fits(u, x) ==
  /\ Wanted(x) => In(u.bubbles, x) \/ Kept(u, x) \/ Brings(Underway, x) \/ Noticed(x)
  /\ Stored(x) \/ Brings(Coming, x) => Once(u.bubbles, x)
  /\ Later(x) => ~ Kept(u, x) /\ (In(u.bubbles, x) => Preview(u, x))
  /\ Kept(u, x) => InOpen(u, x)
  /\ \A i, j \in DOMAIN u.buffer.got :
       u.buffer.got[i].item = x /\ u.buffer.got[j].item = x => i = j
  /\ u.buffer # NoBuffer /\ Stored(x) /\ Half(u, x) => Brings(Coming, x) \/ Kept(u, x)

\* The page shows x once, or is told of it yet.
ShowingOnce(x) == view \in {"here", "stalled", "synced"} /\ x \notin blurred => Fits(ui, x)

\* What holds of x in every state.
ItemOnce(x) == FiledOnce(x) /\ ToldOnce(x) /\ PageOnce(x) /\ LoadingOnce(x) /\ ShowingOnce(x)

\* That an interrupt succeeded is told and not stored.
NothingUnsaid == \A i \in DOMAIN file : file[i].item # "interrupt_success"

\* And of everything that can be told.
OnceIInv == NothingUnsaid /\ \A x \in Tellable : ItemOnce(x)

-----------------------------------------------------------------------------
(* Lemmas about the events to come.                                        *)

\* Nothing that matters to x.
Other(e, x) == e.kind \notin Pieces /\ e.item # x

\* Some events of s are left out, and some that do not matter are put in.
Thins(s, r, x) ==
  \E m :
    /\ \A i \in DOMAIN r : Other(r[i], x) \/ (m[i] \in DOMAIN s /\ r[i] = s[m[i]])
    /\ \A i, j \in DOMAIN r : i < j /\ ~ Other(r[i], x) /\ ~ Other(r[j], x) => m[i] < m[j]

\* What is kept when events are left out.
LEMMA ThinsKeeps ==
  ASSUME NEW x, NEW s \in Seq(Frames), NEW r \in Seq(Frames), Thins(s, r, x)
  PROVE  /\ Good(s, x) => Good(r, x)
         /\ Brings(r, x) => Brings(s, x)
         /\ Streamed(r, x) => Streamed(s, x)
         /\ Near(s, x) /\ Brings(r, x) => Near(r, x)
<1>1. PICK m :
        /\ \A i \in DOMAIN r : Other(r[i], x) \/ (m[i] \in DOMAIN s /\ r[i] = s[m[i]])
        /\ \A i, j \in DOMAIN r : i < j /\ ~ Other(r[i], x) /\ ~ Other(r[j], x) => m[i] < m[j]
  BY DEF Thins
<1>2. /\ Len(r) \in Nat /\ DOMAIN r = 1 .. Len(r) /\ Len(s) \in Nat /\ DOMAIN s = 1 .. Len(s)
  BY LenProperties
<1>3. \A e : (FrameOf(e, x) \/ DeltaOf(e, x) \/ Breaks(e)) => ~ Other(e, x)
  BY DEF FrameOf, DeltaOf, Breaks, Other, Pieces
<1>4. \A i \in DOMAIN r : ~ Other(r[i], x) => m[i] \in DOMAIN s /\ r[i] = s[m[i]]
  BY <1>1
<1>5. \A e : ~ (FrameOf(e, x) /\ DeltaOf(e, x))
  BY DEF FrameOf, DeltaOf, Pieces
<1>6. ASSUME NEW i \in DOMAIN r, NEW j \in DOMAIN r, ~ Other(r[i], x), ~ Other(r[j], x)
      PROVE  /\ m[i] = m[j] => i = j
             /\ m[i] < m[j] => i < j
  <2>1. m[i] \in Int /\ m[j] \in Int /\ i \in Int /\ j \in Int
    BY <1>2, <1>4, <1>6
  <2>2. i < j => m[i] < m[j]
    BY <1>1, <1>6
  <2>3. j < i => m[j] < m[i]
    BY <1>1, <1>6
  <2> QED
    BY <2>1, <2>2, <2>3
<1>7. Brings(r, x) => Brings(s, x)
  BY <1>3, <1>4 DEF Brings
<1>8. Streamed(r, x) => Streamed(s, x)
  BY <1>3, <1>4 DEF Streamed
<1>9. ASSUME Good(s, x) PROVE Good(r, x)
  <2>1. ASSUME NEW i \in DOMAIN r, NEW j \in DOMAIN r, FrameOf(r[i], x), FrameOf(r[j], x)
        PROVE  i = j
    <3>1. /\ ~ Other(r[i], x) /\ m[i] \in DOMAIN s /\ FrameOf(s[m[i]], x)
          /\ ~ Other(r[j], x) /\ m[j] \in DOMAIN s /\ FrameOf(s[m[j]], x)
      BY <1>3, <1>4, <2>1
    <3>2. m[i] = m[j]
      BY <1>9, <3>1 DEF Good
    <3> QED
      BY <1>6, <3>1, <3>2
  <2>2. ASSUME NEW i \in DOMAIN r, NEW j \in DOMAIN r, DeltaOf(r[i], x), FrameOf(r[j], x)
        PROVE  Streams(r, i, j)
    <3>1. /\ ~ Other(r[i], x) /\ m[i] \in DOMAIN s /\ DeltaOf(s[m[i]], x)
          /\ ~ Other(r[j], x) /\ m[j] \in DOMAIN s /\ FrameOf(s[m[j]], x) /\ r[j] = s[m[j]]
      BY <1>3, <1>4, <2>2
    <3>2. Streams(s, m[i], m[j])
      BY <1>9, <3>1 DEF Good
    <3>3. i < j /\ r[j].kind \in TextAnswers
      BY <1>6, <3>1, <3>2 DEF Streams
    <3>4. ASSUME NEW k \in i .. j, Breaks(r[k]) PROVE FALSE
      <4>1. k \in DOMAIN r
        BY <1>2
      <4>2. ~ Other(r[k], x) /\ m[k] \in DOMAIN s /\ r[k] = s[m[k]]
        BY <1>3, <1>4, <3>4, <4>1
      <4>3. k = i \/ i < k
        BY <1>2
      <4>4. k = j \/ k < j
        BY <1>2
      <4>5. m[k] = m[i] \/ m[i] < m[k]
        BY <1>1, <3>1, <4>1, <4>2, <4>3
      <4>6. m[k] = m[j] \/ m[k] < m[j]
        BY <1>1, <3>1, <4>1, <4>2, <4>4
      <4>7. m[k] \in m[i] .. m[j]
        BY <1>2, <3>1, <4>2, <4>5, <4>6
      <4> QED
        BY <3>2, <3>4, <4>2, <4>7 DEF Streams, Breaks
    <3> QED
      BY <3>3, <3>4 DEF Streams, Breaks
  <2> QED
    BY <2>1, <2>2 DEF Good
<1>10. ASSUME Near(s, x), Brings(r, x) PROVE Near(r, x)
  <2>1. ASSUME NEW j \in DOMAIN r, FrameOf(r[j], x)
        PROVE  r[j].kind \in TextAnswers /\ \A k \in DOMAIN r : k < j => ~ Breaks(r[k])
    <3>1. ~ Other(r[j], x) /\ m[j] \in DOMAIN s /\ FrameOf(s[m[j]], x) /\ r[j] = s[m[j]]
      BY <1>3, <1>4, <2>1
    <3>2. s[m[j]].kind \in TextAnswers /\ \A k \in DOMAIN s : k < m[j] => ~ Breaks(s[k])
      BY <1>10, <3>1 DEF Near
    <3>3. ASSUME NEW k \in DOMAIN r, k < j, Breaks(r[k]) PROVE FALSE
      <4>1. ~ Other(r[k], x) /\ m[k] \in DOMAIN s /\ r[k] = s[m[k]]
        BY <1>3, <1>4, <3>3
      <4>2. m[k] < m[j]
        BY <1>1, <3>1, <3>3, <4>1
      <4> QED
        BY <3>2, <3>3, <4>1, <4>2
    <3> QED
      BY <3>1, <3>2, <3>3
  <2> QED
    BY <1>10, <2>1 DEF Near
<1> QED
  BY <1>7, <1>8, <1>9, <1>10

\* Nothing is left out.
LEMMA ThinsSelf ==
  ASSUME NEW x, NEW s \in Seq(Frames)
  PROVE  Thins(s, s, x)
<1> DEFINE m == [i \in DOMAIN s |-> i]
<1>1. \A i \in DOMAIN s : m[i] = i
  OBVIOUS
<1> QED
  BY <1>1 DEF Thins

\* All is left out.
LEMMA ThinsNone ==
  ASSUME NEW x, NEW s
  PROVE  Thins(s, <<>>, x)
<1>1. DOMAIN <<>> = {}
  OBVIOUS
<1> QED
  BY <1>1 DEF Thins

\* The first are left out.
LEMMA ThinsEnd ==
  ASSUME NEW x, NEW s \in Seq(Frames), NEW k \in 1 .. Len(s) + 1
  PROVE  SubSeq(s, k, Len(s)) \in Seq(Frames) /\ Thins(s, SubSeq(s, k, Len(s)), x)
<1> DEFINE n == Len(s)
           r == SubSeq(s, k, n)
           m == [i \in DOMAIN r |-> k + i - 1]
<1>1. n \in Nat /\ DOMAIN s = 1 .. n /\ k \in Int /\ k >= 1 /\ k <= n + 1
  BY LenProperties
<1>2. \A i \in k .. n : s[i] \in Frames
  BY <1>1, ElementOfSeq
<1> HIDE DEF n, r
<1>3. /\ r \in Seq(Frames) /\ Len(r) = IF k <= n THEN n - k + 1 ELSE 0
      /\ \A i \in 1 .. n - k + 1 : r[i] = s[k + i - 1]
  BY <1>1, <1>2, SubSeqProperties DEF r
<1>4. DOMAIN r = 1 .. n - k + 1
  <2>1. DOMAIN r = 1 .. Len(r)
    BY <1>3, LenProperties
  <2> QED
    BY <1>1, <1>3, <2>1
<1>5. \A i \in DOMAIN r : m[i] = k + i - 1 /\ i \in Int
  BY <1>4
<1> HIDE DEF m
<1>6. \A i \in DOMAIN r : m[i] \in DOMAIN s /\ r[i] = s[m[i]]
  <2>1. \A i \in DOMAIN r : k + i - 1 \in DOMAIN s /\ r[i] = s[k + i - 1]
    BY <1>1, <1>3, <1>4
  <2> QED
    BY <1>5, <2>1
<1>7. \A i, j \in DOMAIN r : i < j => m[i] < m[j]
  BY <1>1, <1>4, <1>5
<1>8. Thins(s, r, x)
  BY <1>6, <1>7 DEF Thins
<1> QED
  BY <1>3, <1>8 DEF r, n

\* One that does not matter is put in.
LEMMA ThinsOther ==
  ASSUME NEW x, NEW e, Other(e, x)
  PROVE  Thins(<<>>, <<e>>, x)
<1>1. DOMAIN <<e>> = {1} /\ <<e>>[1] = e
  OBVIOUS
<1> QED
  BY <1>1 DEF Thins

\* What a sequence after another is.
LEMMA Joins ==
  ASSUME NEW q \in Seq(Frames), NEW r \in Seq(Frames)
  PROVE  /\ q \o r \in Seq(Frames)
         /\ Len(q) \in Nat /\ DOMAIN q = 1 .. Len(q) /\ Len(r) \in Nat /\ DOMAIN r = 1 .. Len(r)
         /\ DOMAIN (q \o r) = 1 .. Len(q) + Len(r)
         /\ \A i \in 1 .. Len(q) : i \in DOMAIN (q \o r) /\ (q \o r)[i] = q[i]
         /\ \A i \in 1 .. Len(r) : Len(q) + i \in DOMAIN (q \o r) /\ (q \o r)[Len(q) + i] = r[i]
         /\ \A i \in DOMAIN (q \o r) :
              \/ i \in 1 .. Len(q)
              \/ i - Len(q) \in 1 .. Len(r) /\ i = Len(q) + (i - Len(q)) /\ i \notin 1 .. Len(q)
<1>1. /\ q \o r \in Seq(Frames) /\ Len(q \o r) = Len(q) + Len(r)
      /\ \A i \in 1 .. Len(q) + Len(r) : (q \o r)[i] = IF i <= Len(q) THEN q[i] ELSE r[i - Len(q)]
  BY ConcatProperties
<1>2. /\ Len(q) \in Nat /\ DOMAIN q = 1 .. Len(q) /\ Len(r) \in Nat /\ DOMAIN r = 1 .. Len(r)
      /\ DOMAIN (q \o r) = 1 .. Len(q \o r)
  BY <1>1, LenProperties
<1> DEFINE s == q \o r
<1> HIDE DEF s
<1>3. DOMAIN s = 1 .. Len(q) + Len(r)
  BY <1>1, <1>2 DEF s
<1>4. \A i \in 1 .. Len(q) : i \in 1 .. Len(q) + Len(r) /\ i <= Len(q)
  BY <1>2
<1>5. \A i \in 1 .. Len(r) : /\ Len(q) + i \in 1 .. Len(q) + Len(r) /\ ~ (Len(q) + i <= Len(q))
                             /\ (Len(q) + i) - Len(q) = i
  BY <1>2
<1>6. \A i \in 1 .. Len(q) + Len(r) :
        \/ i \in 1 .. Len(q)
        \/ i - Len(q) \in 1 .. Len(r) /\ i = Len(q) + (i - Len(q)) /\ i \notin 1 .. Len(q)
  BY <1>2
<1>7. \A i \in 1 .. Len(q) : s[i] = q[i]
  BY <1>1, <1>4 DEF s
<1>8. \A i \in 1 .. Len(r) : s[Len(q) + i] = r[i]
  BY <1>1, <1>5 DEF s
<1> QED
  BY <1>1, <1>2, <1>3, <1>4, <1>5, <1>6, <1>7, <1>8 DEF s

\* Leaving out of each of two.
LEMMA ThinsConcat ==
  ASSUME NEW x, NEW q \in Seq(Frames), NEW r \in Seq(Frames), NEW v \in Seq(Frames),
         NEW w \in Seq(Frames), Thins(q, v, x), Thins(r, w, x)
  PROVE  Thins(q \o r, v \o w, x)
<1>1. PICK a :
        /\ \A i \in DOMAIN v : Other(v[i], x) \/ (a[i] \in DOMAIN q /\ v[i] = q[a[i]])
        /\ \A i, j \in DOMAIN v : i < j /\ ~ Other(v[i], x) /\ ~ Other(v[j], x) => a[i] < a[j]
  BY DEF Thins
<1>2. PICK b :
        /\ \A i \in DOMAIN w : Other(w[i], x) \/ (b[i] \in DOMAIN r /\ w[i] = r[b[i]])
        /\ \A i, j \in DOMAIN w : i < j /\ ~ Other(w[i], x) /\ ~ Other(w[j], x) => b[i] < b[j]
  BY DEF Thins
<1> DEFINE s == q \o r
           t == v \o w
           m == [i \in DOMAIN t |-> IF i \in 1 .. Len(v) THEN a[i] ELSE Len(q) + b[i - Len(v)]]
<1>3. /\ Len(q) \in Nat /\ DOMAIN q = 1 .. Len(q) /\ Len(r) \in Nat /\ DOMAIN r = 1 .. Len(r)
      /\ \A i \in 1 .. Len(q) : i \in DOMAIN s /\ s[i] = q[i]
      /\ \A i \in 1 .. Len(r) : Len(q) + i \in DOMAIN s /\ s[Len(q) + i] = r[i]
  BY Joins
<1>4. /\ Len(v) \in Nat /\ DOMAIN v = 1 .. Len(v) /\ Len(w) \in Nat /\ DOMAIN w = 1 .. Len(w)
      /\ DOMAIN t = 1 .. Len(v) + Len(w)
      /\ \A i \in 1 .. Len(v) : t[i] = v[i]
      /\ \A i \in 1 .. Len(w) : t[Len(v) + i] = w[i]
      /\ \A i \in DOMAIN t :
              \/ i \in 1 .. Len(v)
              \/ i - Len(v) \in 1 .. Len(w) /\ i = Len(v) + (i - Len(v)) /\ i \notin 1 .. Len(v)
  BY Joins
<1>5. \A i \in DOMAIN t : m[i] = IF i \in 1 .. Len(v) THEN a[i] ELSE Len(q) + b[i - Len(v)]
  OBVIOUS
<1> HIDE DEF s, t, m
<1>6. ASSUME NEW i \in DOMAIN t, i \in 1 .. Len(v), ~ Other(t[i], x)
      PROVE  /\ ~ Other(v[i], x) /\ m[i] = a[i] /\ a[i] \in 1 .. Len(q)
             /\ m[i] \in DOMAIN s /\ t[i] = s[m[i]]
  <2>1. t[i] = v[i] /\ m[i] = a[i]
    BY <1>4, <1>5, <1>6
  <2>2. a[i] \in 1 .. Len(q) /\ v[i] = q[a[i]]
    BY <1>1, <1>3, <1>4, <1>6, <2>1
  <2> QED
    BY <1>3, <1>6, <2>1, <2>2
<1>7. ASSUME NEW i \in DOMAIN t, i \notin 1 .. Len(v), ~ Other(t[i], x)
      PROVE  /\ i - Len(v) \in 1 .. Len(w) /\ ~ Other(w[i - Len(v)], x)
             /\ m[i] = Len(q) + b[i - Len(v)] /\ b[i - Len(v)] \in 1 .. Len(r)
             /\ m[i] \in DOMAIN s /\ t[i] = s[m[i]]
  <2>1. PICK k : k = i - Len(v)
    OBVIOUS
  <2>2. k \in 1 .. Len(w) /\ i = Len(v) + k
    BY <1>4, <1>7, <2>1
  <2>3. t[i] = w[k] /\ m[i] = Len(q) + b[k]
    BY <1>4, <1>5, <1>7, <2>1, <2>2
  <2>4. b[k] \in 1 .. Len(r) /\ w[k] = r[b[k]]
    BY <1>2, <1>3, <1>4, <1>7, <2>2, <2>3
  <2> QED
    BY <1>3, <1>7, <2>1, <2>2, <2>3, <2>4
<1>8. \A i \in DOMAIN t : Other(t[i], x) \/ (m[i] \in DOMAIN s /\ t[i] = s[m[i]])
  BY <1>6, <1>7
<1>9. ASSUME NEW i \in DOMAIN t, NEW j \in DOMAIN t, i < j, ~ Other(t[i], x), ~ Other(t[j], x)
      PROVE  m[i] < m[j]
  <2>1. CASE i \in 1 .. Len(v) /\ j \in 1 .. Len(v)
    BY <1>1, <1>4, <1>6, <1>9, <2>1
  <2>2. CASE i \in 1 .. Len(v) /\ j \notin 1 .. Len(v)
    <3>1. /\ m[i] = a[i] /\ a[i] \in 1 .. Len(q)
          /\ m[j] = Len(q) + b[j - Len(v)] /\ b[j - Len(v)] \in 1 .. Len(r)
      BY <1>6, <1>7, <1>9, <2>2
    <3>2. PICK k, l : k = a[i] /\ l = b[j - Len(v)]
      OBVIOUS
    <3> QED
      BY <1>3, <3>1, <3>2
  <2>3. CASE i \notin 1 .. Len(v) /\ j \in 1 .. Len(v)
    BY <1>4, <1>9, <2>3
  <2>4. CASE i \notin 1 .. Len(v) /\ j \notin 1 .. Len(v)
    <3>1. PICK k, l : k = i - Len(v) /\ l = j - Len(v)
      OBVIOUS
    <3>2. /\ k \in 1 .. Len(w) /\ ~ Other(w[k], x) /\ m[i] = Len(q) + b[k] /\ b[k] \in 1 .. Len(r)
          /\ l \in 1 .. Len(w) /\ ~ Other(w[l], x) /\ m[j] = Len(q) + b[l] /\ b[l] \in 1 .. Len(r)
      BY <1>7, <1>9, <2>4, <3>1
    <3>3. k < l
      BY <1>4, <1>9, <3>1
    <3>4. b[k] < b[l]
      BY <1>2, <1>4, <3>2, <3>3
    <3>5. b[k] \in Int /\ b[l] \in Int
      BY <3>2
    <3> QED
      BY <1>3, <3>2, <3>4, <3>5
  <2> QED
    BY <2>1, <2>2, <2>3, <2>4
<1> QED
  BY <1>8, <1>9 DEF Thins, s, t

\* What two sequences bring.
LEMMA BothBring ==
  ASSUME NEW x, NEW q \in Seq(Frames), NEW r \in Seq(Frames)
  PROVE  /\ Brings(q \o r, x) <=> Brings(q, x) \/ Brings(r, x)
         /\ Streamed(q \o r, x) <=> Streamed(q, x) \/ Streamed(r, x)
<1> DEFINE s == q \o r
<1>1. /\ DOMAIN q = 1 .. Len(q) /\ DOMAIN r = 1 .. Len(r)
      /\ \A i \in 1 .. Len(q) : i \in DOMAIN s /\ s[i] = q[i]
      /\ \A i \in 1 .. Len(r) : Len(q) + i \in DOMAIN s /\ s[Len(q) + i] = r[i]
      /\ \A i \in DOMAIN s :
              \/ i \in 1 .. Len(q)
              \/ i - Len(q) \in 1 .. Len(r) /\ i = Len(q) + (i - Len(q)) /\ i \notin 1 .. Len(q)
  BY Joins
<1> HIDE DEF s
<1>2. \A i \in DOMAIN s : (\E j \in DOMAIN q : s[i] = q[j]) \/ \E j \in DOMAIN r : s[i] = r[j]
  <2> SUFFICES ASSUME NEW i \in DOMAIN s
               PROVE  (\E j \in DOMAIN q : s[i] = q[j]) \/ \E j \in DOMAIN r : s[i] = r[j]
    OBVIOUS
  <2>1. PICK k : k = i - Len(q)
    OBVIOUS
  <2> QED
    BY <1>1, <2>1
<1>3. Brings(s, x) <=> Brings(q, x) \/ Brings(r, x)
  BY <1>1, <1>2 DEF Brings
<1>4. Streamed(s, x) <=> Streamed(q, x) \/ Streamed(r, x)
  BY <1>1, <1>2 DEF Streamed
<1> QED
  BY <1>3, <1>4 DEF s

\* After x there is nothing about it.
LEMMA GoodSplit ==
  ASSUME NEW x, NEW q \in Seq(Frames), NEW r \in Seq(Frames), Good(q \o r, x), Brings(q, x)
  PROVE  ~ Brings(r, x) /\ ~ Streamed(r, x)
<1> DEFINE s == q \o r
<1>1. /\ DOMAIN q = 1 .. Len(q) /\ DOMAIN r = 1 .. Len(r) /\ Len(q) \in Nat /\ Len(r) \in Nat
      /\ \A i \in 1 .. Len(q) : i \in DOMAIN s /\ s[i] = q[i]
      /\ \A i \in 1 .. Len(r) : Len(q) + i \in DOMAIN s /\ s[Len(q) + i] = r[i]
  BY Joins
<1> HIDE DEF s
<1>2. PICK j \in 1 .. Len(q) : j \in DOMAIN s /\ FrameOf(s[j], x)
  BY <1>1 DEF Brings
<1>3. ASSUME NEW i \in 1 .. Len(r)
      PROVE  Len(q) + i \in DOMAIN s /\ s[Len(q) + i] = r[i] /\ Len(q) + i # j /\ ~ (Len(q) + i < j)
  BY <1>1, <1>2
<1>4. Good(s, x)
  BY DEF s
<1>5. ~ Brings(r, x)
  BY <1>1, <1>2, <1>3, <1>4 DEF Brings, Good
<1>6. ~ Streamed(r, x)
  BY <1>1, <1>2, <1>3, <1>4 DEF Streamed, Good, Streams
<1> QED
  BY <1>5, <1>6

\* The first event before a text of the response that is open, and a piece of a
\* text before it.
LEMMA NearFirst ==
  ASSUME NEW x, NEW e \in Frames, NEW r \in Seq(Frames)
  PROVE  /\ Near(<<e>> \o r, x) /\ Brings(r, x) => ~ Breaks(e)
         /\ Near(<<e>> \o r, x) /\ FrameOf(e, x) => e.kind \in TextAnswers
         /\ Good(<<e>> \o r, x) /\ DeltaOf(e, x) /\ Brings(r, x) => Near(r, x)
<1> DEFINE s == <<e>> \o r
<1>1. <<e>> \in Seq(Frames) /\ Len(<<e>>) = 1 /\ <<e>>[1] = e
  OBVIOUS
<1>2. /\ DOMAIN r = 1 .. Len(r) /\ Len(r) \in Nat
      /\ \A i \in 1 .. Len(<<e>>) : i \in DOMAIN s /\ s[i] = <<e>>[i]
      /\ \A i \in 1 .. Len(r) : Len(<<e>>) + i \in DOMAIN s /\ s[Len(<<e>>) + i] = r[i]
  BY <1>1, Joins
<1> HIDE DEF s
<1>3. 1 \in DOMAIN s /\ s[1] = e /\ \A i \in DOMAIN r : 1 + i \in DOMAIN s /\ s[1 + i] = r[i]
  BY <1>1, <1>2
<1>4. \A i \in DOMAIN r : 1 < 1 + i /\ i \in Int
  BY <1>2
<1>5. Near(s, x) /\ Brings(r, x) => ~ Breaks(e)
  BY <1>3, <1>4 DEF Near, Brings
<1>6. Near(s, x) /\ FrameOf(e, x) => e.kind \in TextAnswers
  BY <1>3 DEF Near
<1>7. ASSUME Good(s, x), DeltaOf(e, x), Brings(r, x) PROVE Near(r, x)
  <2>1. ASSUME NEW j \in DOMAIN r, FrameOf(r[j], x)
        PROVE  r[j].kind \in TextAnswers /\ \A k \in DOMAIN r : k < j => ~ Breaks(r[k])
    <3>1. Streams(s, 1, 1 + j) /\ s[1 + j] = r[j]
      BY <1>3, <1>7, <2>1 DEF Good
    <3>2. ASSUME NEW k \in DOMAIN r, k < j PROVE ~ Breaks(r[k])
      <4>1. 1 + k \in 1 .. 1 + j /\ s[1 + k] = r[k]
        BY <1>2, <1>3, <3>2
      <4> QED
        BY <3>1, <4>1 DEF Streams, Breaks
    <3> QED
      BY <3>1, <3>2 DEF Streams
  <2> QED
    BY <1>7, <2>1 DEF Near
<1> QED
  BY <1>5, <1>6, <1>7 DEF s

-----------------------------------------------------------------------------
(* The steps of the server.                                                *)

\* What the CLI sends has not the item of a message of the server.
LEMMA ItemsAre ==
  ASSUME NEW f \in Frames
  PROVE  /\ f.kind \in Made => f.item = f.kind
         /\ f.kind \notin Made => f.item \notin Made \cup {"filler"}
         /\ f.item # "filler"
         /\ f.item \in Made => f.kind \in Made
<1>1. CASE f \in OwnFrames
  <2>1. f.kind \in Made /\ f.item = f.kind
    BY <1>1 DEF OwnFrames, Frame
  <2> QED
    BY <2>1 DEF Made
<1>2. ASSUME NEW s \in Scripts, f \in ToSet(s) PROVE f.kind \notin Made /\ f.item \notin Made \cup {"filler"}
  <2>1. PICK i \in DOMAIN s : f = s[i]
    BY <1>2 DEF ToSet
  <2>2. f.kind \in SentKinds \cup {"start", "delta", "stop"} /\ f.item \notin Made \cup {"filler"}
    BY <2>1, ScriptsAssumption
  <2> QED
    BY <2>2 DEF SentKinds, TaskKinds, Answers, TextAnswers, Made
<1> QED
  BY <1>1, <1>2 DEF Frames

\* What is in a sequence.
LEMMA SetOfJoins ==
  ASSUME NEW q \in Seq(Frames), NEW r \in Seq(Frames)
  PROVE  ToSet(q \o r) = ToSet(q) \cup ToSet(r)
<1> DEFINE s == q \o r
<1>1. /\ DOMAIN q = 1 .. Len(q) /\ DOMAIN r = 1 .. Len(r)
      /\ \A i \in 1 .. Len(q) : i \in DOMAIN s /\ s[i] = q[i]
      /\ \A i \in 1 .. Len(r) : Len(q) + i \in DOMAIN s /\ s[Len(q) + i] = r[i]
      /\ \A i \in DOMAIN s :
              \/ i \in 1 .. Len(q)
              \/ i - Len(q) \in 1 .. Len(r) /\ i = Len(q) + (i - Len(q)) /\ i \notin 1 .. Len(q)
  BY Joins
<1> HIDE DEF s
<1>2. \A i \in DOMAIN s : (\E j \in DOMAIN q : s[i] = q[j]) \/ \E j \in DOMAIN r : s[i] = r[j]
  <2> SUFFICES ASSUME NEW i \in DOMAIN s
               PROVE  (\E j \in DOMAIN q : s[i] = q[j]) \/ \E j \in DOMAIN r : s[i] = r[j]
    OBVIOUS
  <2>1. PICK k : k = i - Len(q)
    OBVIOUS
  <2> QED
    BY <1>1, <2>1
<1>3. ToSet(s) \subseteq ToSet(q) \cup ToSet(r)
  BY <1>2 DEF ToSet
<1>4. ToSet(q) \subseteq ToSet(s) /\ ToSet(r) \subseteq ToSet(s)
  BY <1>1 DEF ToSet
<1> QED
  BY <1>3, <1>4 DEF s

\* A sequence of one.
LEMMA SingleIs ==
  ASSUME NEW x, NEW e \in Frames
  PROVE  /\ <<e>> \in Seq(Frames) /\ ToSet(<<e>>) = {e}
         /\ Brings(<<e>>, x) <=> FrameOf(e, x)
         /\ Streamed(<<e>>, x) <=> DeltaOf(e, x)
<1>1. <<e>> \in Seq(Frames) /\ DOMAIN <<e>> = {1} /\ <<e>>[1] = e
  OBVIOUS
<1>2. ToSet(<<e>>) = {e}
  BY <1>1 DEF ToSet
<1> QED
  BY <1>1, <1>2 DEF Brings, Streamed

\* A sequence of none.
LEMMA NoneIs ==
  ASSUME NEW x
  PROVE  <<>> \in Seq(Frames) /\ ToSet(<<>>) = {} /\ ~ Brings(<<>>, x) /\ ~ Streamed(<<>>, x)
<1>1. <<>> \in Seq(Frames) /\ DOMAIN <<>> = {}
  OBVIOUS
<1> QED
  BY <1>1 DEF ToSet, Brings, Streamed

\* The first and the rest.
LEMMA FirstAndRest ==
  ASSUME NEW s \in Seq(Frames), s # <<>>
  PROVE  /\ Head(s) \in Frames /\ Tail(s) \in Seq(Frames) /\ s = <<Head(s)>> \o Tail(s)
<1>1. Len(s) \in Nat \ {0}
  BY EmptySeq
<1>2. Tail(s) = SubSeq(s, 2, Len(s)) /\ Tail(s) \in Seq(Frames) /\ Head(s) \in Frames
  BY TailIsSubSeq, HeadTailProperties
<1>3. 1 \in 1 .. Len(s) /\ Len(s) \in 1 .. Len(s) /\ 1 + 1 = 2
  BY <1>1
<1>4. SubSeq(s, 1, Len(s)) = <<s[1]>> \o SubSeq(s, 1 + 1, Len(s))
  BY <1>3, SubSeqRecursiveFirst
<1>5. SubSeq(s, 1, Len(s)) = s /\ Head(s) = s[1]
  BY SubSeqFull
<1> QED
  BY <1>2, <1>3, <1>4, <1>5

\* What the reader has in its hands.
LEMMA HeldIs ==
  ASSUME FileOK, NEW x
  PROVE  /\ Held \in Seq(Frames)
         /\ reader = NoFrame => Held = <<>> /\ ~ Brings(Held, x) /\ ToSet(Held) = {}
         /\ reader # NoFrame => /\ Held = <<reader>> /\ reader \in Frames /\ ToSet(Held) = {reader}
                                /\ reader.kind \notin Pieces /\ reader.kind \notin Made
                                /\ Brings(Held, x) <=> reader.item = x
         /\ ~ Streamed(Held, x)
<1>1. CASE reader = NoFrame
  BY <1>1, NoneIs DEF Held
<1>2. CASE reader # NoFrame
  <2>1. Held = <<reader>> /\ reader \in Frames /\ reader.kind \in SentKinds
    BY <1>2 DEF Held, FileOK
  <2>2. reader.kind \notin Pieces /\ reader.kind \notin Made
    BY <2>1 DEF Pieces, SentKinds, TaskKinds, Answers, TextAnswers, Made
  <2>3. /\ <<reader>> \in Seq(Frames) /\ ToSet(<<reader>>) = {reader}
        /\ Brings(<<reader>>, x) <=> FrameOf(reader, x)
        /\ Streamed(<<reader>>, x) <=> DeltaOf(reader, x)
    BY <2>1, SingleIs
  <2> QED
    BY <1>2, <2>1, <2>2, <2>3 DEF FrameOf, DeltaOf, Pieces
<1> QED
  BY <1>1, <1>2

\* What three sequences bring.
LEMMA AllBring ==
  ASSUME NEW x, NEW q \in Seq(Frames), NEW r \in Seq(Frames), NEW s \in Seq(Frames)
  PROVE  /\ r \o s \in Seq(Frames) /\ q \o r \in Seq(Frames) /\ q \o (r \o s) \in Seq(Frames)
         /\ Brings(q \o r, x) <=> Brings(q, x) \/ Brings(r, x)
         /\ Brings(q \o (r \o s), x) <=> Brings(q, x) \/ Brings(r, x) \/ Brings(s, x)
         /\ Streamed(q \o (r \o s), x) <=> Streamed(q, x) \/ Streamed(r, x) \/ Streamed(s, x)
<1>1. r \o s \in Seq(Frames) /\ q \o r \in Seq(Frames) /\ q \o (r \o s) \in Seq(Frames)
  BY ConcatProperties
<1>2. PICK t : t = r \o s
  OBVIOUS
<1>3. /\ Brings(t, x) <=> Brings(r, x) \/ Brings(s, x)
      /\ Streamed(t, x) <=> Streamed(r, x) \/ Streamed(s, x)
  BY <1>2, BothBring
<1>4. /\ Brings(q \o t, x) <=> Brings(q, x) \/ Brings(t, x)
      /\ Streamed(q \o t, x) <=> Streamed(q, x) \/ Streamed(t, x)
  BY <1>1, <1>2, BothBring
<1>5. Brings(q \o r, x) <=> Brings(q, x) \/ Brings(r, x)
  BY BothBring
<1> QED
  BY <1>1, <1>2, <1>3, <1>4, <1>5

\* Leaving out of each of three.
LEMMA ThinsAll ==
  ASSUME NEW x, NEW q \in Seq(Frames), NEW r \in Seq(Frames), NEW s \in Seq(Frames),
         NEW u \in Seq(Frames), NEW v \in Seq(Frames), NEW w \in Seq(Frames),
         Thins(q, u, x), Thins(r, v, x), Thins(s, w, x)
  PROVE  Thins(q \o (r \o s), u \o (v \o w), x)
<1>1. PICK a, b : a = r \o s /\ b = v \o w
  OBVIOUS
<1>2. Thins(a, b, x)
  BY <1>1, ThinsConcat
<1>3. a \in Seq(Frames) /\ b \in Seq(Frames)
  BY <1>1, ConcatProperties
<1>4. Thins(q \o a, u \o b, x)
  BY <1>2, <1>3, ThinsConcat
<1> QED
  BY <1>1, <1>4

\* A step that leaves the page as it is, and what it has to keep of x.
Steady(x) ==
  /\ UNCHANGED <<ui, page, view>> /\ ToSet(file) \subseteq ToSet(file')
  /\ x \notin blurred' => x \notin blurred
  /\ Wanted(x)' => Wanted(x) \/ Brings(Underway, x)' \/ Noticed(x)'
  /\ x \notin blurred' /\ view \notin {"away", "hydrating"}
       /\ (Brings(Underway, x) \/ Noticed(x)) => Brings(Underway, x)' \/ Noticed(x)'
  /\ Stored(x)' \/ Brings(Coming, x)' => Stored(x) \/ Brings(Coming, x) \/ ~ In(ui.bubbles, x)
  /\ Later(x)' => Later(x) \/ (~ In(ui.bubbles, x) /\ ~ Kept(ui, x))
  /\ Later(x)' /\ Later(x) /\ Near(Coming, x) => Near(Coming, x)'
  /\ Stored(x)' /\ x \notin blurred' /\ view \notin {"away", "hydrating"} =>
       Brings(Coming, x)' \/ (Stored(x) /\ ~ Brings(Coming, x)) \/ ~ In(ui.bubbles, x)

\* Such a step keeps what holds of the page.
LEMMA PageStays ==
  ASSUME NEW x, PageOnce(x), LoadingOnce(x), ShowingOnce(x), Steady(x)
  PROVE  PageOnce(x)' /\ LoadingOnce(x)' /\ ShowingOnce(x)'
<1>0. /\ UNCHANGED <<ui, page, view>> /\ ToSet(file) \subseteq ToSet(file')
      /\ x \notin blurred' => x \notin blurred
  BY DEF Steady
<1>1. Stored(x) => Stored(x)'
  BY <1>0 DEF Stored, ToSet
<1>2. PageOnce(x)'
  BY <1>0, <1>1 DEF PageOnce, Sound, Holder, In, Kept
<1>3. LoadingOnce(x)'
  BY <1>0 DEF LoadingOnce, Steady
<1>4. ASSUME view \in {"here", "stalled", "synced"}, x \notin blurred'
      PROVE  /\ Wanted(x)' => In(ui.bubbles, x) \/ Kept(ui, x) \/ Brings(Underway, x)' \/ Noticed(x)'
             /\ Stored(x)' \/ Brings(Coming, x)' => Once(ui.bubbles, x)
             /\ Later(x)' => ~ Kept(ui, x) /\ (In(ui.bubbles, x) => Preview(ui, x)')
             /\ Kept(ui, x) => InOpen(ui, x)
             /\ \A i, j \in DOMAIN ui.buffer.got :
                   ui.buffer.got[i].item = x /\ ui.buffer.got[j].item = x => i = j
             /\ ui.buffer # NoBuffer /\ Stored(x)'
                  /\ (\E i \in DOMAIN ui.bubbles :
                        ui.bubbles[i].id = ui.buffer.id /\ x \in Shows(ui.bubbles[i])) =>
                  Brings(Coming, x)' \/ Kept(ui, x)
  <2>0. view \notin {"away", "hydrating"} /\ x \notin blurred
    BY <1>0, <1>4
  <2>1. /\ Wanted(x) => In(ui.bubbles, x) \/ Kept(ui, x) \/ Brings(Underway, x) \/ Noticed(x)
        /\ Stored(x) \/ Brings(Coming, x) => Once(ui.bubbles, x)
        /\ Later(x) => ~ Kept(ui, x) /\ (In(ui.bubbles, x) => Preview(ui, x))
        /\ Kept(ui, x) => InOpen(ui, x)
        /\ \A i, j \in DOMAIN ui.buffer.got :
              ui.buffer.got[i].item = x /\ ui.buffer.got[j].item = x => i = j
        /\ ui.buffer # NoBuffer /\ Stored(x)
             /\ (\E i \in DOMAIN ui.bubbles :
                   ui.bubbles[i].id = ui.buffer.id /\ x \in Shows(ui.bubbles[i])) =>
             Brings(Coming, x) \/ Kept(ui, x)
    BY <1>4, <2>0 DEF ShowingOnce, Fits, Half
  <2>2. /\ Wanted(x)' => Wanted(x) \/ Brings(Underway, x)' \/ Noticed(x)'
        /\ (Brings(Underway, x) \/ Noticed(x)) => Brings(Underway, x)' \/ Noticed(x)'
        /\ Stored(x)' \/ Brings(Coming, x)' => Stored(x) \/ Brings(Coming, x) \/ ~ In(ui.bubbles, x)
        /\ Later(x)' => Later(x) \/ (~ In(ui.bubbles, x) /\ ~ Kept(ui, x))
        /\ Later(x)' /\ Later(x) /\ Near(Coming, x) => Near(Coming, x)'
        /\ Stored(x)' => Brings(Coming, x)' \/ (Stored(x) /\ ~ Brings(Coming, x)) \/ ~ In(ui.bubbles, x)
    BY <1>4, <2>0 DEF Steady
  <2>3. ~ In(ui.bubbles, x) => Once(ui.bubbles, x)
    BY DEF In, Once
  <2>4. Preview(ui, x) => Near(Coming, x)
    BY DEF Preview
  <2>5. Preview(ui, x) /\ Near(Coming, x)' => Preview(ui, x)'
    BY <1>0 DEF Preview, InOpen
  <2>6. (\E i \in DOMAIN ui.bubbles :
            ui.bubbles[i].id = ui.buffer.id /\ x \in Shows(ui.bubbles[i])) => In(ui.bubbles, x)
    BY DEF In
  <2>7. Wanted(x)' => In(ui.bubbles, x) \/ Kept(ui, x) \/ Brings(Underway, x)' \/ Noticed(x)'
    BY <2>1, <2>2
  <2>8. Later(x)' => ~ Kept(ui, x) /\ (In(ui.bubbles, x) => Preview(ui, x)')
    BY <2>1, <2>2, <2>4, <2>5
  <2> QED
    BY <2>1, <2>2, <2>3, <2>6, <2>7, <2>8
<1>5. ShowingOnce(x)'
  BY <1>0, <1>4 DEF ShowingOnce, Fits, Half, In, Kept, Once, InOpen, Preview
<1> QED
  BY <1>2, <1>3, <1>5

\* One more in the file.
LEMMA FileGrows ==
  ASSUME NEW x, file \in Seq(Frames), NEW f \in Frames, file' = Append(file, f)
  PROVE  /\ ToSet(file') = ToSet(file) \cup {f}
         /\ Stored(x)' <=> Stored(x) \/ f.item = x
         /\ Wanted(x)' => Wanted(x) \/ f.item = x
         /\ (\A i, j \in DOMAIN file : file[i].item = x /\ file[j].item = x => i = j)
              /\ (f.item = x => ~ Stored(x)) =>
              \A i, j \in DOMAIN file' : file'[i].item = x /\ file'[j].item = x => i = j
<1>1. /\ Len(file) \in Nat /\ DOMAIN file = 1 .. Len(file)
      /\ DOMAIN file' = 1 .. Len(file) + 1 /\ file'[Len(file) + 1] = f
      /\ \A i \in 1 .. Len(file) : file'[i] = file[i]
  BY AppendProperties, LenProperties
<1>2. /\ \A i \in 1 .. Len(file) + 1 : i \in 1 .. Len(file) \/ i = Len(file) + 1
      /\ \A i \in 1 .. Len(file) : i \in 1 .. Len(file) + 1
      /\ Len(file) + 1 \in 1 .. Len(file) + 1
  BY <1>1
<1>3. ToSet(file') = ToSet(file) \cup {f}
  BY <1>1, <1>2 DEF ToSet
<1>4. Stored(x)' <=> Stored(x) \/ f.item = x
  BY <1>1, <1>2 DEF Stored
<1>5. Wanted(x)' => Wanted(x) \/ f.item = x
  BY <1>1, <1>2 DEF Wanted
<1>6. (\A i, j \in DOMAIN file : file[i].item = x /\ file[j].item = x => i = j)
              /\ (f.item = x => ~ Stored(x)) =>
              \A i, j \in DOMAIN file' : file'[i].item = x /\ file'[j].item = x => i = j
  BY <1>1, <1>2 DEF Stored
<1> QED
  BY <1>3, <1>4, <1>5, <1>6

\* What LegsIInv says of the sequences.
LEMMA TypedIs ==
  ASSUME LegsIInv
  PROVE  /\ unread \in Seq(Frames) /\ script \in Seq(Frames) /\ file \in Seq(Frames)
         /\ Held \in Seq(Frames) /\ FileOK /\ Coming \in Seq(Frames) /\ Underway \in Seq(Frames)
         /\ \A f \in notices : f \in Frames /\ f.kind \in Made
<1>1. unread \in Seq(Frames) /\ script \in Seq(Frames) /\ file \in Seq(Frames) /\ FileOK
  BY DEF LegsIInv, LegsOK, Sends, FileOK
<1>2. Held \in Seq(Frames)
  BY <1>1, HeldIs
<1>3. Coming \in Seq(Frames) /\ Underway \in Seq(Frames)
  BY <1>1, <1>2, AllBring DEF Coming, Underway
<1> QED
  BY <1>1, <1>2, <1>3 DEF FileOK

\* The same after a step.
LEMMA TypedNext ==
  ASSUME LegsIInv'
  PROVE  /\ unread' \in Seq(Frames) /\ script' \in Seq(Frames) /\ file' \in Seq(Frames)
         /\ Held' \in Seq(Frames) /\ Coming' \in Seq(Frames) /\ Underway' \in Seq(Frames)
<1>1. unread' \in Seq(Frames) /\ script' \in Seq(Frames) /\ file' \in Seq(Frames)
  BY DEF LegsIInv, LegsOK, Sends, FileOK
<1>2. reader' = NoFrame \/ reader' \in Frames
  BY DEF LegsIInv, FileOK
<1>3. Held' \in Seq(Frames)
  BY <1>2 DEF Held
<1>4. Coming' \in Seq(Frames) /\ Underway' \in Seq(Frames)
  BY <1>1, <1>3, AllBring DEF Coming, Underway
<1> QED
  BY <1>1, <1>3, <1>4

\* What is to come of x.
LEMMA ComingIs ==
  ASSUME LegsIInv, NEW x
  PROVE  /\ Brings(Underway, x) <=> Brings(unread, x) \/ Brings(Held, x)
         /\ Brings(Coming, x) <=> Brings(Underway, x) \/ Brings(script, x)
         /\ Streamed(Coming, x) <=> Streamed(unread, x) \/ Streamed(script, x)
<1>1. unread \in Seq(Frames) /\ script \in Seq(Frames) /\ Held \in Seq(Frames) /\ FileOK
  BY TypedIs
<1>2. ~ Streamed(Held, x)
  BY <1>1, HeldIs
<1> QED
  BY <1>1, <1>2, AllBring DEF Coming, Underway

\* The same after a step.
LEMMA ComingNext ==
  ASSUME LegsIInv', NEW x
  PROVE  /\ Brings(Underway', x) <=> Brings(unread', x) \/ Brings(Held', x)
         /\ Brings(Coming', x) <=> Brings(Underway', x) \/ Brings(script', x)
         /\ Streamed(Coming', x) => Streamed(unread', x) \/ Streamed(Held', x) \/ Streamed(script', x)
<1>1. unread' \in Seq(Frames) /\ script' \in Seq(Frames) /\ Held' \in Seq(Frames)
  BY TypedNext
<1> QED
  BY <1>1, AllBring DEF Coming, Underway

\* A step that says nothing new of x.
Quiet(x) ==
  /\ UNCHANGED <<ui, page, view>> /\ ToSet(file) \subseteq ToSet(file')
  /\ x \notin blurred' => x \notin blurred
  /\ (Stored(x)' <=> Stored(x)) /\ (Wanted(x)' => Wanted(x)) /\ (Noticed(x)' <=> Noticed(x))
  /\ Thins(Coming, Coming', x) /\ (Brings(script', x) => Brings(script, x))
  /\ x \notin blurred' /\ Brings(Underway, x)
       /\ (view \notin {"away", "hydrating"} \/ Streamed(Coming', x)) => Brings(Underway', x)

\* It is such a step.
LEMMA QuietTold ==
  ASSUME LegsIInv, LegsIInv', NEW x, ToldOnce(x), Quiet(x)
  PROVE  ToldOnce(x)' /\ Steady(x)
<1>1. Coming \in Seq(Frames) /\ Coming' \in Seq(Frames)
  BY TypedIs, TypedNext
<1>2. /\ Good(Coming, x) => Good(Coming', x)
      /\ Brings(Coming', x) => Brings(Coming, x)
      /\ Streamed(Coming', x) => Streamed(Coming, x)
      /\ Near(Coming, x) /\ Brings(Coming', x) => Near(Coming', x)
  BY <1>1, ThinsKeeps DEF Quiet
<1>3. /\ Brings(Coming, x) <=> Brings(Underway, x) \/ Brings(script, x)
      /\ Brings(Coming', x) <=> Brings(Underway', x) \/ Brings(script', x)
  BY ComingIs, ComingNext
<1>4. /\ Brings(script, x) => ~ Stored(x)
      /\ Noticed(x) => ~ Brings(Coming, x)
      /\ Good(Coming, x)
      /\ Stored(x) /\ x \notin blurred /\ Streamed(Coming, x) => Brings(Coming, x)
  BY DEF ToldOnce
<1>5. /\ x \notin blurred' => x \notin blurred
      /\ (Stored(x)' <=> Stored(x)) /\ (Wanted(x)' => Wanted(x)) /\ (Noticed(x)' <=> Noticed(x))
      /\ Brings(script', x) => Brings(script, x)
      /\ x \notin blurred' /\ Brings(Underway, x)
           /\ (view \notin {"away", "hydrating"} \/ Streamed(Coming', x)) => Brings(Underway', x)
      /\ UNCHANGED <<ui, page, view>> /\ ToSet(file) \subseteq ToSet(file')
  BY DEF Quiet
<1>6. ToldOnce(x)'
  <2>1. Brings(script', x) => ~ Stored(x)'
    BY <1>4, <1>5
  <2>2. Noticed(x)' => ~ Brings(Coming', x)
    BY <1>2, <1>4, <1>5
  <2>3. Stored(x)' /\ x \notin blurred' /\ Streamed(Coming', x) => Brings(Coming', x)
    BY <1>2, <1>3, <1>4, <1>5
  <2> QED
    BY <1>2, <1>4, <2>1, <2>2, <2>3 DEF ToldOnce
<1>7. /\ Later(x) <=> IF view = "synced" THEN Brings(script, x) ELSE Brings(Coming, x) \/ Noticed(x)
      /\ Later(x)' <=> IF view = "synced" THEN Brings(script', x) ELSE Brings(Coming', x) \/ Noticed(x)'
  BY <1>5 DEF Later
<1>8. Later(x)' => Later(x)
  BY <1>2, <1>5, <1>7
<1>9. Later(x)' /\ Near(Coming, x) => Near(Coming', x)
  <2>1. Near(Coming, x) => Brings(Coming, x)
    BY DEF Near
  <2> QED
    BY <1>2, <1>3, <1>4, <1>5, <1>7, <2>1
<1>10. Stored(x)' /\ x \notin blurred' /\ view \notin {"away", "hydrating"} /\ Brings(Coming, x) =>
         Brings(Coming', x)
  BY <1>3, <1>4, <1>5
<1>11. Steady(x)
  <2>1. /\ Brings(Underway, x)' <=> Brings(Underway', x)
        /\ Brings(Coming, x)' <=> Brings(Coming', x)
        /\ Near(Coming, x)' <=> Near(Coming', x)
    OBVIOUS
  <2>2. x \notin blurred' /\ view \notin {"away", "hydrating"}
       /\ (Brings(Underway, x) \/ Noticed(x)) => Brings(Underway, x)' \/ Noticed(x)'
    BY <1>5, <2>1
  <2>3. Stored(x)' \/ Brings(Coming, x)' => Stored(x) \/ Brings(Coming, x) \/ ~ In(ui.bubbles, x)
    BY <1>2, <1>5, <2>1
  <2>4. Stored(x)' /\ x \notin blurred' /\ view \notin {"away", "hydrating"} =>
       Brings(Coming, x)' \/ (Stored(x) /\ ~ Brings(Coming, x)) \/ ~ In(ui.bubbles, x)
    BY <1>5, <1>10, <2>1
  <2> QED
    BY <1>5, <1>8, <1>9, <2>1, <2>2, <2>3, <2>4 DEF Steady
<1> QED
  BY <1>6, <1>11

\* What is told.
LEMMA ToldAre ==
  ASSUME LegsIInv, NEW e \in Frames, Told(<<e>>), NEW x, FiledOnce(x), UNCHANGED view
  PROVE  /\ view \in {"away", "hydrating"} => unread' = unread /\ unread = <<>>
         /\ view \notin {"away", "hydrating"} =>
              /\ unread' = unread \o <<e>> /\ ToSet(unread') = ToSet(unread) \cup {e}
              /\ Brings(unread', x) <=> Brings(unread, x) \/ FrameOf(e, x)
              /\ Streamed(unread', x) <=> Streamed(unread, x) \/ DeltaOf(e, x)
<1>1. unread \in Seq(Frames)
  BY TypedIs
<1>2. /\ <<e>> \in Seq(Frames) /\ ToSet(<<e>>) = {e}
      /\ Brings(<<e>>, x) <=> FrameOf(e, x)
      /\ Streamed(<<e>>, x) <=> DeltaOf(e, x)
  BY SingleIs
<1>3. PICK r : r = <<e>>
  OBVIOUS
<1>4. /\ ToSet(unread \o r) = ToSet(unread) \cup ToSet(r)
      /\ Brings(unread \o r, x) <=> Brings(unread, x) \/ Brings(r, x)
      /\ Streamed(unread \o r, x) <=> Streamed(unread, x) \/ Streamed(r, x)
  BY <1>1, <1>2, <1>3, SetOfJoins, BothBring
<1>5. unread' = IF view \in {"away", "hydrating"} THEN unread ELSE unread \o r
  BY <1>3 DEF Told
<1>6. view \in {"away", "hydrating"} => unread = <<>>
  BY DEF FiledOnce
<1> QED
  BY <1>2, <1>3, <1>4, <1>5, <1>6

\* A piece of a response is told.
LEMMA EmitOnce ==
  ASSUME LegsIInv, LegsIInv', NEW x, FiledOnce(x), ToldOnce(x), Emit
  PROVE  FiledOnce(x)' /\ ToldOnce(x)' /\ Steady(x)
<1> DEFINE e == Head(script)
<1>1. /\ reader = NoFrame /\ script # <<>> /\ e.kind \in Pieces /\ Told(<<e>>) /\ script' = Tail(script)
      /\ UNCHANGED <<file, reader, notices, had, view, page, ui, blurred>>
  BY DEF Emit, ghosts
<1>2. unread \in Seq(Frames) /\ script \in Seq(Frames)
  BY TypedIs
<1>3. e \in Frames /\ script' \in Seq(Frames) /\ script = <<e>> \o script'
  BY <1>1, <1>2, FirstAndRest
<1> HIDE DEF e
<1>4. <<e>> \in Seq(Frames) /\ (Brings(<<e>>, x) <=> FrameOf(e, x)) /\ ~ FrameOf(e, x)
  BY <1>1, <1>3, SingleIs DEF FrameOf
<1>5. PICK r : r = <<e>>
  OBVIOUS
<1>6. Brings(script, x) <=> Brings(script', x)
  <2>1. Brings(r \o script', x) <=> Brings(r, x) \/ Brings(script', x)
    BY <1>3, <1>4, <1>5, BothBring
  <2> QED
    BY <1>3, <1>4, <1>5, <2>1
<1>7. Held = <<>> /\ Held' = <<>>
  BY <1>1 DEF Held
<1>8. /\ view \in {"away", "hydrating"} => unread' = unread /\ unread = <<>>
      /\ view \notin {"away", "hydrating"} =>
              /\ unread' = unread \o <<e>> /\ ToSet(unread') = ToSet(unread) \cup {e}
              /\ Brings(unread', x) <=> Brings(unread, x) \/ FrameOf(e, x)
  BY <1>1, <1>3, ToldAre
<1>9. /\ <<>> \o script = script /\ <<>> \o script' = script'
      /\ Coming = unread \o script /\ Coming' = unread' \o script'
  BY <1>2, <1>3, <1>7, ConcatEmptySeq DEF Coming
<1>10. Thins(Coming, Coming', x)
  <2>1. CASE view \notin {"away", "hydrating"}
    <3>1. (unread \o r) \o script' = unread \o (r \o script')
      BY <1>2, <1>3, <1>4, <1>5, ConcatAssociative
    <3>2. Coming' = Coming
      BY <1>3, <1>5, <1>8, <1>9, <2>1, <3>1
    <3>3. Coming \in Seq(Frames)
      BY TypedIs
    <3> QED
      BY <3>2, <3>3, ThinsSelf
  <2>2. CASE view \in {"away", "hydrating"}
    <3>1. unread = <<>> /\ unread' = <<>>
      BY <1>8, <2>2
    <3>2. Coming = script /\ Coming' = script'
      BY <1>9, <3>1
    <3>3. /\ Len(script) \in Nat \ {0}
      BY <1>1, <1>2, EmptySeq
    <3>4. 2 \in 1 .. Len(script) + 1
      BY <3>3
    <3>5. Thins(script, SubSeq(script, 2, Len(script)), x)
      BY <1>2, <3>4, ThinsEnd
    <3>6. Tail(script) = SubSeq(script, 2, Len(script))
      BY <1>1, <1>2, TailIsSubSeq
    <3> QED
      BY <1>1, <3>2, <3>5, <3>6
  <2> QED
    BY <2>1, <2>2
<1>11. Brings(Underway, x) => Brings(Underway', x)
  <2>1. Brings(unread, x) => Brings(unread', x)
    BY <1>8
  <2> QED
    BY <1>7, <2>1, ComingIs, ComingNext
<1>12. (Stored(x)' <=> Stored(x)) /\ (Wanted(x)' <=> Wanted(x)) /\ (Noticed(x)' <=> Noticed(x))
  BY <1>1 DEF Stored, Wanted, Noticed
<1>13. Quiet(x)
  BY <1>1, <1>6, <1>10, <1>11, <1>12 DEF Quiet
<1>14. ToSet(unread') \subseteq ToSet(unread) \cup {e}
  BY <1>8
<1>15. FiledOnce(x)'
  BY <1>1, <1>4, <1>7, <1>8, <1>12, <1>14 DEF FiledOnce
<1> QED
  BY <1>13, <1>15, QuietTold

\* A frame is stored.
LEMMA StoreOnce ==
  ASSUME LegsIInv, LegsIInv', NEW x, FiledOnce(x), ToldOnce(x), Store
  PROVE  FiledOnce(x)' /\ ToldOnce(x)' /\ Steady(x)
<1> DEFINE e == Head(script)
<1>1. /\ reader = NoFrame /\ script # <<>> /\ e.kind \notin Pieces /\ script' = Tail(script)
      /\ file' = Append(file, e) /\ reader' = e
      /\ UNCHANGED <<notices, had, view, page, unread, ui, blurred>>
  BY DEF Store, ghosts
<1>2. unread \in Seq(Frames) /\ script \in Seq(Frames) /\ file \in Seq(Frames) /\ Sends(script)
  BY TypedIs DEF LegsIInv
<1>3. e \in Frames /\ script' \in Seq(Frames) /\ script = <<e>> \o script'
  BY <1>1, <1>2, FirstAndRest
<1>4. e.kind \in SentKinds
  BY <1>1, <1>2, TailShrinks
<1> HIDE DEF e
<1>5. e # NoFrame /\ e.kind \notin Made
  BY <1>4, NoFrameIs DEF SentKinds, TaskKinds, Answers, TextAnswers, Made
<1>6. Held = <<>> /\ Held' = <<e>>
  BY <1>1, <1>5 DEF Held
<1>7. /\ <<e>> \in Seq(Frames) /\ ToSet(<<e>>) = {e}
      /\ (Brings(<<e>>, x) <=> FrameOf(e, x)) /\ (FrameOf(e, x) <=> e.item = x)
  BY <1>1, <1>3, SingleIs DEF FrameOf
<1>8. PICK r : r = <<e>>
  OBVIOUS
<1>9. Brings(script, x) <=> e.item = x \/ Brings(script', x)
  <2>1. Brings(r \o script', x) <=> Brings(r, x) \/ Brings(script', x)
    BY <1>3, <1>7, <1>8, BothBring
  <2> QED
    BY <1>3, <1>7, <1>8, <2>1
<1>10. Coming' = Coming /\ Coming \in Seq(Frames) /\ Underway' = unread \o r /\ Underway = unread
  <2>1. Coming = unread \o (<<>> \o script) /\ Underway = unread \o <<>>
    BY <1>6 DEF Coming, Underway
  <2>2. Coming' = unread \o (r \o script') /\ Underway' = unread \o r
    BY <1>1, <1>6, <1>8 DEF Coming, Underway
  <2>3. <<>> \o script = script /\ unread \o <<>> = unread
    BY <1>2, ConcatEmptySeq
  <2> QED
    BY <1>3, <1>8, <2>1, <2>2, <2>3, TypedIs
<1>11. /\ ToSet(file') = ToSet(file) \cup {e}
       /\ Stored(x)' <=> Stored(x) \/ e.item = x
       /\ Wanted(x)' => Wanted(x) \/ e.item = x
       /\ (\A i, j \in DOMAIN file : file[i].item = x /\ file[j].item = x => i = j)
            /\ (e.item = x => ~ Stored(x)) =>
            \A i, j \in DOMAIN file' : file'[i].item = x /\ file'[j].item = x => i = j
  BY <1>1, <1>2, <1>3, FileGrows
<1>12. Noticed(x)' <=> Noticed(x)
  BY <1>1 DEF Noticed
<1>13. /\ Brings(script, x) => ~ Stored(x)
       /\ Noticed(x) => ~ Brings(Coming, x)
       /\ Good(Coming, x)
       /\ Stored(x) /\ x \notin blurred /\ Streamed(Coming, x) => Brings(Coming, x)
  BY DEF ToldOnce
<1>14. FiledOnce(x)'
  <2>1. e.item = x => ~ Stored(x)
    BY <1>9, <1>13
  <2>2. x \in {"said", "interrupt"} => e.item # x
    BY <1>3, <1>5, ItemsAre DEF Made
  <2>3. ToSet(Held') = {e}
    BY <1>6, <1>7
  <2>4. \A i, j \in DOMAIN file' : file'[i].item = x /\ file'[j].item = x => i = j
    BY <1>11, <2>1 DEF FiledOnce
  <2>5. \A f \in ToSet(unread') \cup ToSet(Held') \cup notices' :
          FrameOf(f, x) => f \in ToSet(file')
    BY <1>1, <1>11, <2>3 DEF FiledOnce
  <2>6. x \in {"said", "interrupt"} /\ Stored(x)' => x \in had'
    BY <1>1, <1>11, <2>2 DEF FiledOnce
  <2>7. view' \in {"away", "hydrating"} => unread' = <<>>
    BY <1>1 DEF FiledOnce
  <2> QED
    BY <2>4, <2>5, <2>6, <2>7 DEF FiledOnce
<1>15. Brings(Underway', x) <=> Brings(Underway, x) \/ e.item = x
  <2>1. Brings(unread \o r, x) <=> Brings(unread, x) \/ Brings(r, x)
    BY <1>2, <1>7, <1>8, BothBring
  <2> QED
    BY <1>7, <1>8, <1>10, <2>1
<1>16. e.item = x => ~ Brings(script', x) /\ ~ Brings(Underway, x)
  <2>1. SUFFICES ASSUME e.item = x PROVE ~ Brings(script', x) /\ ~ Brings(Underway, x)
    OBVIOUS
  <2>2. PICK t : t = unread \o r
    OBVIOUS
  <2>3. t \in Seq(Frames) /\ Brings(t, x)
    BY <1>2, <1>7, <1>8, <1>10, <1>15, <2>1, <2>2, ConcatProperties
  <2>4. Coming = t \o script'
    <3>1. Coming = unread \o (r \o script')
      BY <1>1, <1>6, <1>8, <1>10 DEF Coming
    <3>2. (unread \o r) \o script' = unread \o (r \o script')
      BY <1>2, <1>3, <1>7, <1>8, ConcatAssociative
    <3> QED
      BY <2>2, <3>1, <3>2
  <2>5. ~ Brings(script', x)
    BY <1>3, <1>13, <2>3, <2>4, GoodSplit
  <2>6. ASSUME Brings(unread, x) PROVE FALSE
    <3>1. Coming = unread \o script
      <4>1. <<>> \o script = script
        BY <1>2, ConcatEmptySeq
      <4> QED
        BY <1>6, <4>1 DEF Coming
    <3>2. ~ Brings(script, x)
      BY <1>2, <1>13, <2>6, <3>1, GoodSplit
    <3> QED
      BY <1>9, <2>1, <3>2
  <2> QED
    BY <1>10, <2>5, <2>6
<1>17. Brings(Coming, x) <=> Brings(Underway, x) \/ Brings(script, x)
  BY ComingIs
<1>18. ToldOnce(x)'
  <2>1. Brings(script', x) => ~ Stored(x)'
    BY <1>9, <1>11, <1>13, <1>16
  <2>2. Stored(x)' /\ x \notin blurred' /\ Streamed(Coming', x) => Brings(Coming', x)
    BY <1>1, <1>9, <1>10, <1>11, <1>13, <1>17
  <2> QED
    BY <1>10, <1>12, <1>13, <2>1, <2>2 DEF ToldOnce
<1>19. Steady(x)
  <2>1. /\ Brings(Underway, x)' <=> Brings(Underway', x)
        /\ Brings(Coming, x)' <=> Brings(Coming, x)
        /\ Near(Coming, x)' <=> Near(Coming, x)
    BY <1>10
  <2>2. Later(x)' => Later(x)
    BY <1>1, <1>9, <1>10, <1>12 DEF Later
  <2>3. Wanted(x)' => Wanted(x) \/ Brings(Underway, x)'
    BY <1>11, <1>15, <2>1
  <2>4. Brings(Underway, x) \/ Noticed(x) => Brings(Underway, x)' \/ Noticed(x)'
    BY <1>12, <1>15, <2>1
  <2>5. Stored(x)' \/ Brings(Coming, x)' => Stored(x) \/ Brings(Coming, x)
    BY <1>9, <1>11, <1>17, <2>1
  <2>6. Stored(x)' => Brings(Coming, x)' \/ (Stored(x) /\ ~ Brings(Coming, x))
    BY <1>9, <1>11, <1>17, <2>1
  <2> QED
    BY <1>1, <1>11, <2>1, <2>2, <2>3, <2>4, <2>5, <2>6 DEF Steady
<1> QED
  BY <1>14, <1>18, <1>19

\* The frame in the reader's hands is told.
LEMMA PublishOnce ==
  ASSUME LegsIInv, LegsIInv', NEW x, FiledOnce(x), ToldOnce(x), Publish
  PROVE  FiledOnce(x)' /\ ToldOnce(x)' /\ Steady(x)
<1>1. /\ reader # NoFrame /\ Told(<<reader>>) /\ reader' = NoFrame
      /\ UNCHANGED <<script, file, notices, had, view, page, ui, blurred>>
  BY DEF Publish, ghosts
<1>2. unread \in Seq(Frames) /\ script \in Seq(Frames) /\ FileOK
  BY TypedIs
<1>3. /\ Held = <<reader>> /\ reader \in Frames /\ ToSet(Held) = {reader} /\ reader.kind \notin Pieces
      /\ Brings(Held, x) <=> reader.item = x
  BY <1>1, <1>2, HeldIs
<1>4. Held' = <<>> /\ ToSet(Held') = {} /\ ~ Brings(Held', x)
  BY <1>1, NoneIs DEF Held
<1>5. /\ view \in {"away", "hydrating"} => unread' = unread /\ unread = <<>>
      /\ view \notin {"away", "hydrating"} =>
              /\ unread' = unread \o <<reader>> /\ ToSet(unread') = ToSet(unread) \cup {reader}
              /\ Brings(unread', x) <=> Brings(unread, x) \/ FrameOf(reader, x)
  BY <1>1, <1>3, ToldAre
<1>6. PICK r : r = <<reader>>
  OBVIOUS
<1>7. r \in Seq(Frames) /\ Thins(r, <<>>, x) /\ (Brings(r, x) <=> reader.item = x)
  BY <1>3, <1>6, SingleIs, ThinsNone
<1>8. <<>> \o script = script /\ Coming = unread \o (r \o script) /\ Coming' = unread' \o script
  <2>1. <<>> \o script = script
    BY <1>2, ConcatEmptySeq
  <2> QED
    BY <1>1, <1>3, <1>4, <1>6, <2>1 DEF Coming
<1>9. Thins(Coming, Coming', x)
  <2>1. CASE view \notin {"away", "hydrating"}
    <3>1. (unread \o r) \o script = unread \o (r \o script)
      BY <1>2, <1>7, ConcatAssociative
    <3>2. Coming' = Coming /\ Coming \in Seq(Frames)
      BY <1>5, <1>6, <1>8, <2>1, <3>1, TypedIs
    <3> QED
      BY <3>2, ThinsSelf
  <2>2. CASE view \in {"away", "hydrating"}
    <3>1. <<>> \in Seq(Frames) /\ Thins(unread, unread, x) /\ Thins(script, script, x)
      BY <1>2, NoneIs, ThinsSelf
    <3>2. Thins(unread \o (r \o script), unread \o (<<>> \o script), x)
      BY <1>2, <1>7, <3>1, ThinsAll
    <3> QED
      BY <1>5, <1>8, <2>2, <3>2
  <2> QED
    BY <2>1, <2>2
<1>10. Brings(Underway, x) /\ (view \notin {"away", "hydrating"} \/ Streamed(Coming', x))
         => Brings(Underway', x)
  <2> SUFFICES ASSUME Brings(Underway, x), view \notin {"away", "hydrating"} \/ Streamed(Coming', x)
               PROVE  Brings(Underway', x)
    OBVIOUS
  <2>1. Brings(unread, x) \/ reader.item = x
    BY <1>3, ComingIs
  <2>2. CASE view \notin {"away", "hydrating"}
    <3>1. Brings(unread', x)
      BY <1>3, <1>5, <2>1, <2>2 DEF FrameOf
    <3> QED
      BY <3>1, ComingNext
  <2>3. CASE view \in {"away", "hydrating"}
    <3>1. unread = <<>> /\ unread' = <<>>
      BY <1>5, <2>3
    <3>2. reader.item = x
      BY <2>1, <3>1, NoneIs
    <3>3. <<>> \o (r \o script) = r \o script
      <4>1. r \o script \in Seq(Frames)
        BY <1>2, <1>7, ConcatProperties
      <4> QED
        BY <4>1, ConcatEmptySeq
    <3>4. Good(r \o script, x)
      BY <1>8, <3>1, <3>3 DEF ToldOnce
    <3>5. ~ Streamed(script, x)
      BY <1>2, <1>7, <3>2, <3>4, GoodSplit
    <3>6. Coming' = script
      BY <1>8, <3>1
    <3> QED
      BY <2>2, <2>3, <3>5, <3>6
  <2> QED
    BY <2>2, <2>3
<1>11. (Stored(x)' <=> Stored(x)) /\ (Wanted(x)' <=> Wanted(x)) /\ (Noticed(x)' <=> Noticed(x))
  BY <1>1 DEF Stored, Wanted, Noticed
<1>12. Quiet(x)
  BY <1>1, <1>9, <1>10, <1>11 DEF Quiet
<1>13. ToSet(unread') \subseteq ToSet(unread) \cup ToSet(Held)
  BY <1>3, <1>5
<1>14. FiledOnce(x)'
  BY <1>1, <1>4, <1>5, <1>11, <1>13 DEF FiledOnce
<1> QED
  BY <1>12, <1>14, QuietTold

\* A message of the server is told.
LEMMA NoticeOnce ==
  ASSUME LegsIInv, LegsIInv', NEW x, FiledOnce(x), ToldOnce(x), NEW f \in notices, PublishNotice(f)
  PROVE  FiledOnce(x)' /\ ToldOnce(x)' /\ Steady(x)
<1>1. /\ Told(<<f>>) /\ notices' = notices \ {f}
      /\ UNCHANGED <<script, file, reader, had, view, page, ui, blurred>>
  BY DEF PublishNotice, ghosts
<1>2. unread \in Seq(Frames) /\ script \in Seq(Frames) /\ FileOK /\ Held \in Seq(Frames)
  BY TypedIs
<1>3. f \in Frames /\ f.kind \in Made /\ f.item = f.kind /\ f.kind \notin Pieces
  <2>1. f \in Frames /\ f.kind \in Made
    BY TypedIs
  <2> QED
    BY <2>1, ItemsAre DEF Made, Pieces
<1>4. Held' = Held
  BY <1>1 DEF Held
<1>5. /\ view \in {"away", "hydrating"} => unread' = unread /\ unread = <<>>
      /\ view \notin {"away", "hydrating"} =>
              /\ unread' = unread \o <<f>> /\ ToSet(unread') = ToSet(unread) \cup {f}
              /\ Brings(unread', x) <=> Brings(unread, x) \/ FrameOf(f, x)
              /\ Streamed(unread', x) <=> Streamed(unread, x) \/ DeltaOf(f, x)
  BY <1>1, <1>3, ToldAre
<1>6. PICK r : r = <<f>>
  OBVIOUS
<1>7. r \in Seq(Frames)
  BY <1>3, <1>6, SingleIs
<1>8. (Stored(x)' <=> Stored(x)) /\ (Wanted(x)' <=> Wanted(x))
  BY <1>1 DEF Stored, Wanted
<1>9. FiledOnce(x)'
  <2>1. ToSet(unread') \subseteq ToSet(unread) \cup {f} /\ notices' \subseteq notices
    BY <1>1, <1>5
  <2> QED
    BY <1>1, <1>4, <1>5, <1>8, <2>1 DEF FiledOnce
<1>10. \A g \in notices : g.item = f.item => g = f
  <2>1. ASSUME NEW g \in notices, g.item = f.item PROVE g = f
    <3>1. g \in Frames /\ g.kind \in Made
      BY TypedIs
    <3>2. g.kind = f.kind
      BY <1>3, <2>1, <3>1, ItemsAre
    <3>3. \A h \in Frames : h.kind \in Made => h = Frame(h.kind, h.kind, NoId, "none")
      <4> SUFFICES ASSUME NEW h \in Frames, h.kind \in Made PROVE h = Frame(h.kind, h.kind, NoId, "none")
        OBVIOUS
      <4>1. h \in OwnFrames
        <5>1. ASSUME NEW s \in Scripts, h \in ToSet(s) PROVE FALSE
          <6>1. PICK i \in DOMAIN s : h = s[i]
            BY <5>1 DEF ToSet
          <6>2. h.kind \in SentKinds \cup {"start", "delta", "stop"}
            BY <6>1, ScriptsAssumption
          <6> QED
            BY <6>2 DEF SentKinds, TaskKinds, Answers, TextAnswers, Made
        <5> QED
          BY <5>1 DEF Frames
      <4>2. PICK k \in Made : h = Frame(k, k, NoId, "none")
        BY <4>1 DEF OwnFrames
      <4>3. h.kind = k
        BY <4>2 DEF Frame
      <4> QED
        BY <4>2, <4>3
    <3> QED
      BY <1>3, <3>1, <3>2, <3>3
  <2> QED
    BY <2>1
<1>11. CASE f.item # x
  <2>1. Noticed(x)' <=> Noticed(x)
    BY <1>1, <1>11 DEF Noticed
  <2>2. ~ FrameOf(f, x) /\ Other(f, x)
    BY <1>3, <1>11 DEF FrameOf, Other
  <2>3. Thins(unread, unread', x)
    <3>1. CASE view \notin {"away", "hydrating"}
      <4>1. Thins(unread, unread, x) /\ Thins(<<>>, r, x) /\ <<>> \in Seq(Frames)
        BY <1>2, <1>6, <2>2, ThinsSelf, ThinsOther, NoneIs
      <4>2. Thins(unread \o <<>>, unread \o r, x)
        BY <1>2, <1>7, <4>1, ThinsConcat
      <4>3. unread \o <<>> = unread
        BY <1>2, ConcatEmptySeq
      <4> QED
        BY <1>5, <1>6, <3>1, <4>2, <4>3
    <3>2. CASE view \in {"away", "hydrating"}
      BY <1>2, <1>5, <3>2, ThinsSelf
    <3> QED
      BY <3>1, <3>2
  <2>4. Thins(Coming, Coming', x)
    <3>1. Thins(Held, Held, x) /\ Thins(script, script, x) /\ unread' \in Seq(Frames)
      BY <1>2, ThinsSelf, TypedNext
    <3>2. Thins(unread \o (Held \o script), unread' \o (Held \o script), x)
      BY <1>2, <2>3, <3>1, ThinsAll
    <3> QED
      BY <1>1, <1>4, <3>2 DEF Coming
  <2>5. Brings(Underway, x) => Brings(Underway', x)
    <3>1. Brings(unread, x) => Brings(unread', x)
      BY <1>5
    <3> QED
      BY <1>4, <3>1, ComingIs, ComingNext
  <2>6. Quiet(x)
    BY <1>1, <1>8, <2>1, <2>4, <2>5 DEF Quiet
  <2> QED
    BY <1>9, <2>6, QuietTold
<1>12. CASE f.item = x
  <2>1. Noticed(x) /\ ~ Noticed(x)'
    BY <1>1, <1>10, <1>12 DEF Noticed
  <2>2. FrameOf(f, x) /\ ~ DeltaOf(f, x) /\ x \in Made
    BY <1>3, <1>12 DEF FrameOf, DeltaOf, Pieces
  <2>3. f \in ToSet(file)
    BY <2>2 DEF FiledOnce
  <2>4. Stored(x)
    BY <1>12, <2>3 DEF Stored, ToSet
  <2>5. ~ Brings(Coming, x) /\ Good(Coming, x)
    BY <2>1 DEF ToldOnce
  <2>6. ~ Brings(unread, x) /\ ~ Brings(Held, x) /\ ~ Brings(script, x) /\ ~ Brings(Underway, x)
    BY <2>5, ComingIs
  <2>7. \A s \in Seq(Frames) : ~ Streamed(s, x)
    <3> SUFFICES ASSUME NEW s \in Seq(Frames), NEW i \in DOMAIN s, DeltaOf(s[i], x) PROVE FALSE
      BY DEF Streamed
    <3>1. s[i] \in Frames
      <4>1. DOMAIN s = 1 .. Len(s)
        BY LenProperties
      <4> QED
        BY <4>1, ElementOfSeq
    <3>2. s[i].kind \in Made
      BY <2>2, <3>1, ItemsAre DEF DeltaOf
    <3> QED
      BY <3>2 DEF DeltaOf, Made
  <2>8. ~ Streamed(Coming', x)
    BY <2>7, TypedNext
  <2>9. Good(Coming', x)
    <3>1. \A i \in DOMAIN Coming' : ~ DeltaOf(Coming'[i], x)
      BY <2>8 DEF Streamed
    <3>2. CASE view \in {"away", "hydrating"}
      <4>1. Coming' = Coming
        BY <1>1, <1>4, <1>5, <3>2 DEF Coming
      <4> QED
        BY <2>5, <4>1
    <3>3. CASE view \notin {"away", "hydrating"}
      <4>1. PICK t : t = Held \o script
        OBVIOUS
      <4>2. t \in Seq(Frames) /\ (Brings(t, x) <=> Brings(Held, x) \/ Brings(script, x))
        BY <1>2, <4>1, AllBring, BothBring
      <4>3. PICK q : q = r \o t
        OBVIOUS
      <4>4. /\ q \in Seq(Frames) /\ DOMAIN r = {1} /\ r[1] = f /\ Len(r) = 1
            /\ Coming' = unread \o q
        <5>1. unread' = unread \o r
          BY <1>5, <1>6, <3>3
        <5>2. (unread \o r) \o t = unread \o (r \o t)
          BY <1>2, <1>7, <4>2, ConcatAssociative
        <5>3. Coming' = unread' \o t
          BY <1>1, <1>4, <4>1 DEF Coming
        <5>4. DOMAIN r = {1} /\ r[1] = f /\ Len(r) = 1
          BY <1>6
        <5> QED
          BY <1>7, <4>2, <4>3, <5>1, <5>2, <5>3, <5>4, ConcatProperties
      <4>5. PICK n : n = Len(unread)
        OBVIOUS
      <4>6. \A i \in DOMAIN q : FrameOf(q[i], x) => i = 1
        <5>1. /\ Len(t) \in Nat /\ DOMAIN t = 1 .. Len(t)
              /\ \A i \in 1 .. Len(t) : Len(r) + i \in DOMAIN q /\ q[Len(r) + i] = t[i]
              /\ \A i \in DOMAIN q :
                   \/ i \in 1 .. Len(r)
                   \/ i - Len(r) \in 1 .. Len(t) /\ i = Len(r) + (i - Len(r)) /\ i \notin 1 .. Len(r)
          BY <1>7, <4>2, <4>3, Joins
        <5>2. ASSUME NEW i \in DOMAIN q, FrameOf(q[i], x), i # 1 PROVE FALSE
          <6>1. PICK k : k = i - 1
            OBVIOUS
          <6>2. k \in 1 .. Len(t) /\ q[i] = t[k]
            BY <4>4, <5>1, <5>2, <6>1
          <6> QED
            BY <2>6, <4>2, <5>1, <5>2, <6>2 DEF Brings
        <5> QED
          BY <5>2
      <4>7. \A i \in DOMAIN Coming' : FrameOf(Coming'[i], x) => i = n + 1
        <5>1. /\ Len(q) \in Nat /\ DOMAIN q = 1 .. Len(q) /\ n \in Nat /\ DOMAIN unread = 1 .. n
              /\ \A i \in 1 .. n : (unread \o q)[i] = unread[i]
              /\ \A i \in 1 .. Len(q) : n + i \in DOMAIN (unread \o q) /\ (unread \o q)[n + i] = q[i]
              /\ \A i \in DOMAIN (unread \o q) :
                   \/ i \in 1 .. n
                   \/ i - n \in 1 .. Len(q) /\ i = n + (i - n) /\ i \notin 1 .. n
          BY <1>2, <4>4, <4>5, Joins
        <5>2. ASSUME NEW i \in DOMAIN (unread \o q), FrameOf((unread \o q)[i], x) PROVE i = n + 1
          <6>1. i \notin 1 .. n
            BY <2>6, <5>1, <5>2 DEF Brings
          <6>2. PICK k : k = i - n
            OBVIOUS
          <6>3. k \in 1 .. Len(q) /\ i = n + k /\ (unread \o q)[i] = q[k]
            BY <5>1, <6>1, <6>2
          <6>4. k = 1
            BY <4>6, <5>1, <5>2, <6>3
          <6> QED
            BY <6>3, <6>4
        <5> QED
          BY <4>4, <5>2
      <4> QED
        BY <3>1, <4>7 DEF Good
    <3> QED
      BY <3>2, <3>3
  <2>10. ToldOnce(x)'
    BY <1>1, <2>1, <2>6, <2>8, <2>9 DEF ToldOnce
  <2>11. view \notin {"away", "hydrating"} => Brings(Underway', x)
    BY <1>5, <2>2, ComingNext
  <2>12. ~ Near(Coming, x)
    BY <2>5 DEF Near
  <2>13. Later(x)' => Later(x)
    BY <1>1, <2>1 DEF Later
  <2>14. Steady(x)
    <3>1. /\ Brings(Underway, x)' <=> Brings(Underway', x)
          /\ Brings(Coming, x)' <=> Brings(Coming', x)
      OBVIOUS
    <3>2. Brings(Coming', x) <=> Brings(Underway', x) \/ Brings(script', x)
      BY ComingNext
    <3> QED
      BY <1>1, <1>8, <2>4, <2>5, <2>11, <2>12, <2>13, <3>1, <3>2 DEF Steady
  <2> QED
    BY <1>9, <2>10, <2>14
<1> QED
  BY <1>11, <1>12

\* A message of the server has no pieces.
LEMMA MadeComes ==
  ASSUME NEW x \in Made, NEW s \in Seq(Frames)
  PROVE  ~ Streamed(s, x)
<1> SUFFICES ASSUME NEW i \in DOMAIN s, DeltaOf(s[i], x) PROVE FALSE
  BY DEF Streamed
<1>1. s[i] \in Frames
  <2>1. DOMAIN s = 1 .. Len(s)
    BY LenProperties
  <2> QED
    BY <2>1, ElementOfSeq
<1>2. s[i].kind \in Made
  BY <1>1, ItemsAre DEF DeltaOf
<1> QED
  BY <1>2 DEF DeltaOf, Made

\* Nor does the CLI send one.
LEMMA MadeNotSent ==
  ASSUME LegsIInv, NEW x \in Made
  PROVE  ~ Brings(script, x)
<1> SUFFICES ASSUME NEW i \in DOMAIN script, FrameOf(script[i], x) PROVE FALSE
  BY DEF Brings
<1>1. script[i] \in Frames /\ script[i].kind \in SentKinds \cup Pieces
  <2>1. DOMAIN script = 1 .. Len(script) /\ script \in Seq(Frames) /\ Sends(script)
    BY TypedIs, LenProperties DEF LegsIInv
  <2> QED
    BY <2>1, ElementOfSeq DEF Sends
<1>2. script[i].kind \in Made
  BY <1>1, ItemsAre DEF FrameOf
<1> QED
  BY <1>1, <1>2 DEF SentKinds, TaskKinds, Answers, TextAnswers, Pieces, Made

\* A message of the server is stored.
LEMMA SaysOnce ==
  ASSUME LegsIInv, LegsIInv', NEW x, FiledOnce(x), ToldOnce(x), PageOnce(x),
         NEW kind \in Made, Says(kind), ~ Stored(kind),
         UNCHANGED <<reader, ui, page, view, blurred>>,
         Thins(unread, unread', x), Thins(script, script', x),
         Brings(unread, x) => Brings(unread', x),
         \A e \in ToSet(unread') : FrameOf(e, x) => e \in ToSet(unread),
         view \in {"away", "hydrating"} => unread' = <<>>,
         had \subseteq had', kind \in {"said", "interrupt"} => kind \in had'
  PROVE  FiledOnce(x)' /\ ToldOnce(x)' /\ Steady(x)
<1>1. PICK f : f = Frame(kind, kind, NoId, "none")
  OBVIOUS
<1>2. f \in Frames /\ f.kind = kind /\ f.item = kind
  BY <1>1, MadeFrames DEF Frame
<1>3. file' = Append(file, f) /\ notices' = notices \cup {f}
  BY <1>1 DEF Says
<1>4. /\ unread \in Seq(Frames) /\ script \in Seq(Frames) /\ file \in Seq(Frames)
      /\ Held \in Seq(Frames) /\ Coming \in Seq(Frames) /\ Coming' \in Seq(Frames)
      /\ unread' \in Seq(Frames) /\ script' \in Seq(Frames)
  BY TypedIs, TypedNext
<1>5. /\ ToSet(file') = ToSet(file) \cup {f}
      /\ Stored(x)' <=> Stored(x) \/ f.item = x
      /\ Wanted(x)' => Wanted(x) \/ f.item = x
      /\ (\A i, j \in DOMAIN file : file[i].item = x /\ file[j].item = x => i = j)
           /\ (f.item = x => ~ Stored(x)) =>
           \A i, j \in DOMAIN file' : file'[i].item = x /\ file'[j].item = x => i = j
  BY <1>2, <1>3, <1>4, FileGrows
<1>6. Held' = Held
  BY DEF Held
<1>7. Noticed(x)' <=> Noticed(x) \/ x = kind
  BY <1>2, <1>3 DEF Noticed
<1>8. Thins(Coming, Coming', x)
  <2>1. Thins(Held, Held, x)
    BY <1>4, ThinsSelf
  <2>2. Thins(unread \o (Held \o script), unread' \o (Held \o script'), x)
    BY <1>4, <2>1, ThinsAll
  <2> QED
    BY <1>6, <2>2 DEF Coming
<1>9. Brings(Underway, x) => Brings(Underway', x)
  BY <1>6, ComingIs, ComingNext
<1>10. Brings(script', x) => Brings(script, x)
  BY <1>4, ThinsKeeps
<1>11. FiledOnce(x)'
  <2>1. \A i, j \in DOMAIN file' : file'[i].item = x /\ file'[j].item = x => i = j
    BY <1>2, <1>5 DEF FiledOnce
  <2>2. x \in {"said", "interrupt"} /\ Stored(x)' => x \in had'
    BY <1>2, <1>5 DEF FiledOnce
  <2>3. \A e \in ToSet(unread') \cup ToSet(Held') \cup notices' :
          FrameOf(e, x) => e \in ToSet(file')
    <3>1. \A e \in ToSet(unread) \cup ToSet(Held) \cup notices : FrameOf(e, x) => e \in ToSet(file)
      BY DEF FiledOnce
    <3> QED
      BY <1>3, <1>5, <1>6, <3>1
  <2> QED
    BY <2>1, <2>2, <2>3 DEF FiledOnce
<1>12. CASE x # kind
  <2>1. Quiet(x)
    BY <1>2, <1>5, <1>7, <1>8, <1>9, <1>10, <1>12 DEF Quiet
  <2> QED
    BY <1>11, <2>1, QuietTold
<1>13. CASE x = kind
  <2>1. ~ Stored(x) /\ x \in Made
    BY <1>13
  <2>2. ~ In(ui.bubbles, x) /\ ~ Kept(ui, x)
    BY <2>1 DEF PageOnce, Sound
  <2>3. ~ Brings(Coming, x)
    <3>1. ~ Brings(script, x)
      BY <2>1, MadeNotSent
    <3>2. \A e \in ToSet(unread) \cup ToSet(Held) : ~ FrameOf(e, x)
      <4>1. \A e \in ToSet(file) : e.item # x
        BY <2>1 DEF Stored, ToSet
      <4> QED
        BY <4>1 DEF FiledOnce, FrameOf
    <3>3. ~ Brings(unread, x) /\ ~ Brings(Held, x)
      BY <3>2 DEF Brings, ToSet
    <3> QED
      BY <3>1, <3>3, ComingIs
  <2>4. Good(Coming', x) /\ ~ Brings(Coming', x)
    BY <1>4, <1>8, <2>3, ThinsKeeps DEF ToldOnce
  <2>5. ~ Streamed(Coming', x)
    BY <1>4, <2>1, MadeComes
  <2>6. ~ Brings(script', x)
    BY <1>10, <2>1, MadeNotSent
  <2>7. ToldOnce(x)'
    BY <2>4, <2>5, <2>6 DEF ToldOnce
  <2>8. ~ Near(Coming, x) /\ Noticed(x)'
    BY <1>7, <1>13, <2>3 DEF Near
  <2>9. Steady(x)
    BY <1>5, <2>2, <2>8 DEF Steady
  <2> QED
    BY <1>11, <2>7, <2>9
<1> QED
  BY <1>12, <1>13

\* The rest of the script after a response.
LEMMA AfterThins ==
  ASSUME LegsIInv, NEW x
  PROVE  AfterResponse \in Seq(Frames) /\ Thins(script, AfterResponse, x)
<1> DEFINE cut == {i \in DOMAIN script : script[i].kind = "start"}
           k == CHOOSE i \in cut : \A j \in cut : i <= j
<1>1. script \in Seq(Frames) /\ Len(script) \in Nat /\ DOMAIN script = 1 .. Len(script)
  BY TypedIs, LenProperties
<1>2. CASE cut = {}
  <2>1. AfterResponse = <<>>
    BY <1>2 DEF AfterResponse
  <2> QED
    BY <2>1, NoneIs, ThinsNone
<1>3. CASE cut # {}
  <2>1. AfterResponse = SubSeq(script, k, Len(script))
    BY <1>3 DEF AfterResponse
  <2>2. cut \subseteq Nat /\ cut \subseteq 1 .. Len(script)
    BY <1>1
  <2> HIDE DEF cut
  <2>3. \E i \in cut : \A j \in cut : i <= j
    BY <1>3, <2>2, Least
  <2>4. k \in cut
    BY <2>3
  <2>5. \A i \in cut : i \in 1 .. Len(script) + 1
    BY <1>1, <2>2
  <2>6. k \in 1 .. Len(script) + 1
    BY <2>4, <2>5
  <2> HIDE DEF k
  <2> QED
    BY <1>1, <2>1, <2>6, ThinsEnd
<1> QED
  BY <1>2, <1>3

\* Nothing is told.
LEMMA SaysSilently ==
  ASSUME LegsIInv, LegsIInv', NEW x, FiledOnce(x), ToldOnce(x), PageOnce(x),
         NEW kind \in Made, Says(kind), ~ Stored(kind),
         UNCHANGED <<script, reader, ui, page, view, unread, blurred>>,
         had \subseteq had', kind \in {"said", "interrupt"} => kind \in had'
  PROVE  FiledOnce(x)' /\ ToldOnce(x)' /\ Steady(x)
<1>1. unread \in Seq(Frames) /\ script \in Seq(Frames)
  BY TypedIs
<1>2. Thins(unread, unread', x) /\ Thins(script, script', x)
  BY <1>1, ThinsSelf
<1>3. view \in {"away", "hydrating"} => unread' = <<>>
  BY DEF FiledOnce
<1> QED
  BY <1>2, <1>3, SaysOnce

\* What is spent once has not been said before.
LEMMA NotSaid ==
  ASSUME NEW kind \in {"said", "interrupt"}, FiledOnce(kind), Spend(kind)
  PROVE  ~ Stored(kind) /\ had \subseteq had' /\ kind \in had' /\ kind \in Made
BY DEF FiledOnce, Spend, Made

\* A message of the user.
LEMMA SendOnce ==
  ASSUME LegsIInv, LegsIInv', NEW x, FiledOnce(x), ToldOnce(x), PageOnce(x), FiledOnce("said"), Send
  PROVE  FiledOnce(x)' /\ ToldOnce(x)' /\ Steady(x)
<1>1. /\ Spend("said") /\ Says("said")
      /\ UNCHANGED <<script, reader, ui, page, view, unread, blurred>>
  BY DEF Send, ghosts
<1>2. ~ Stored("said") /\ had \subseteq had' /\ "said" \in had' /\ "said" \in Made
  BY <1>1, NotSaid
<1> QED
  BY <1>1, <1>2, SaysSilently

\* The launch of a session that has ended.
LEMMA LaunchOnce ==
  ASSUME LegsIInv, LegsIInv', NEW x, FiledOnce(x), ToldOnce(x), PageOnce(x), Launch
  PROVE  FiledOnce(x)' /\ ToldOnce(x)' /\ Steady(x)
<1>1. /\ "client_launched" \notin Items(file) /\ Says("client_launched")
      /\ UNCHANGED <<script, reader, had, ui, page, view, unread, blurred>>
  BY DEF Launch, ghosts
<1>2. ~ Stored("client_launched") /\ "client_launched" \in Made
  BY <1>1 DEF Stored, Items, Made
<1> QED
  BY <1>1, <1>2, SaysSilently

\* An interrupt, and what the CLI does not send after it.
LEMMA InterruptOnce ==
  ASSUME LegsIInv, LegsIInv', NEW x, FiledOnce(x), ToldOnce(x), PageOnce(x), FiledOnce("interrupt"),
         x # "interrupt_success", Interrupt
  PROVE  FiledOnce(x)' /\ ToldOnce(x)' /\ Steady(x)
<1>1. PICK e : e = Frame("interrupt_success", "interrupt_success", NoId, "none")
  OBVIOUS
<1>2. /\ Spend("interrupt") /\ Says("interrupt") /\ Told(<<e>>)
      /\ script' \in {script, AfterResponse}
      /\ UNCHANGED <<reader, ui, page, view, blurred>>
  BY <1>1 DEF Interrupt, ghosts
<1>3. ~ Stored("interrupt") /\ had \subseteq had' /\ "interrupt" \in had' /\ "interrupt" \in Made
  BY <1>2, NotSaid
<1>4. "interrupt_success" \in Made /\ "interrupt_success" \notin Pieces
  BY DEF Made, Pieces
<1>5. e \in Frames /\ Other(e, x) /\ ~ FrameOf(e, x)
  BY <1>1, <1>4, MadeFrames DEF Frame, Other, FrameOf
<1>6. unread \in Seq(Frames) /\ script \in Seq(Frames)
  BY TypedIs
<1>7. Thins(script, script', x)
  BY <1>2, <1>6, AfterThins, ThinsSelf
<1>8. /\ view \in {"away", "hydrating"} => unread' = unread /\ unread = <<>>
      /\ view \notin {"away", "hydrating"} =>
              /\ unread' = unread \o <<e>> /\ ToSet(unread') = ToSet(unread) \cup {e}
              /\ Brings(unread', x) <=> Brings(unread, x) \/ FrameOf(e, x)
  BY <1>2, <1>5, ToldAre
<1>9. Thins(unread, unread', x)
  <2>1. CASE view \notin {"away", "hydrating"}
    <3>1. PICK r : r = <<e>>
      OBVIOUS
    <3>2. r \in Seq(Frames) /\ Thins(unread, unread, x) /\ Thins(<<>>, r, x) /\ <<>> \in Seq(Frames)
      BY <1>5, <1>6, <3>1, SingleIs, ThinsSelf, ThinsOther, NoneIs
    <3>3. Thins(unread \o <<>>, unread \o r, x)
      BY <1>6, <3>2, ThinsConcat
    <3>4. unread \o <<>> = unread
      BY <1>6, ConcatEmptySeq
    <3> QED
      BY <1>8, <2>1, <3>1, <3>3, <3>4
  <2>2. CASE view \in {"away", "hydrating"}
    BY <1>6, <1>8, <2>2, ThinsSelf
  <2> QED
    BY <2>1, <2>2
<1>10. \A g \in ToSet(unread') : FrameOf(g, x) => g \in ToSet(unread)
  BY <1>5, <1>8
<1>11. Brings(unread, x) => Brings(unread', x)
  BY <1>8
<1> QED
  BY <1>2, <1>3, <1>7, <1>8, <1>9, <1>10, <1>11, SaysOnce

\* The end of the session: what the reader had in its hands is not told.
LEMMA TerminateOnce ==
  ASSUME LegsIInv, LegsIInv', NEW x, FiledOnce(x), ToldOnce(x), Terminate
  PROVE  FiledOnce(x)' /\ ToldOnce(x)' /\ Steady(x)
<1>1. /\ script' = AfterResponse /\ reader' = NoFrame
      /\ blurred' = IF view = "away" THEN blurred ELSE blurred \cup {reader.item}
      /\ Spend("terminate") /\ UNCHANGED <<file, notices, view, page, unread, ui>>
  BY DEF Terminate
<1>2. /\ unread \in Seq(Frames) /\ script \in Seq(Frames) /\ FileOK /\ Held \in Seq(Frames)
      /\ script' \in Seq(Frames)
  BY TypedIs, TypedNext
<1>3. Thins(script, script', x)
  BY <1>1, AfterThins
<1>4. Held' = <<>> /\ ToSet(Held') = {} /\ ~ Brings(Held', x) /\ <<>> \in Seq(Frames) /\ ~ Streamed(<<>>, x)
  BY <1>1, NoneIs DEF Held
<1>5. Thins(Coming, Coming', x)
  <2>1. Thins(unread, unread, x) /\ Thins(Held, <<>>, x)
    BY <1>2, ThinsSelf, ThinsNone
  <2>2. Thins(unread \o (Held \o script), unread \o (<<>> \o script'), x)
    BY <1>2, <1>3, <1>4, <2>1, ThinsAll
  <2> QED
    BY <1>1, <1>4, <2>2 DEF Coming
<1>6. Brings(script', x) => Brings(script, x)
  BY <1>2, <1>3, ThinsKeeps
<1>7. /\ Stored(x)' <=> Stored(x)
      /\ Wanted(x)' <=> Wanted(x)
      /\ Noticed(x)' <=> Noticed(x)
  BY <1>1 DEF Stored, Wanted, Noticed
<1>8. x \notin blurred' /\ Brings(Underway, x)
       /\ (view \notin {"away", "hydrating"} \/ Streamed(Coming', x)) => Brings(Underway', x)
  <2> SUFFICES ASSUME x \notin blurred', Brings(Underway, x), ~ Brings(Underway', x),
                      view \notin {"away", "hydrating"} \/ Streamed(Coming', x)
               PROVE  FALSE
    OBVIOUS
  <2>1. Brings(unread, x) \/ Brings(Held, x)
    BY ComingIs
  <2>2. ~ Brings(unread, x)
    BY <1>1, ComingNext
  <2>3. reader # NoFrame /\ reader.item = x /\ Brings(Held, x)
    BY <1>2, <2>1, <2>2, HeldIs
  <2>4. view = "away"
    BY <1>1, <2>3
  <2>5. unread = <<>>
    BY <2>4 DEF FiledOnce
  <2>6. Held \o script \in Seq(Frames)
    BY <1>2, ConcatProperties
  <2>7. Good(Held \o script, x)
    <3>1. Coming = Held \o script
      BY <2>5, <2>6, ConcatEmptySeq DEF Coming
    <3> QED
      BY <3>1 DEF ToldOnce
  <2>8. ~ Streamed(script, x)
    BY <1>2, <2>3, <2>7, GoodSplit
  <2>9. ~ Streamed(script', x)
    BY <1>2, <1>3, <2>8, ThinsKeeps
  <2>10. Streamed(unread', x)
    BY <1>4, <2>4, <2>9, ComingNext
  <2> QED
    BY <1>1, <1>4, <2>5, <2>10
<1>9. Quiet(x)
  BY <1>1, <1>5, <1>6, <1>7, <1>8 DEF Quiet
<1>10. FiledOnce(x)'
  BY <1>1, <1>4, <1>7 DEF FiledOnce, Spend
<1> QED
  BY <1>9, <1>10, QuietTold

\* Nothing happens.
LEMMA NothingOnce ==
  ASSUME LegsIInv, LegsIInv', NEW x, FiledOnce(x), ToldOnce(x), UNCHANGED vars
  PROVE  FiledOnce(x)' /\ ToldOnce(x)' /\ Steady(x)
<1>1. UNCHANGED <<script, file, reader, notices, had, view, page, unread, ui, blurred>>
  BY DEF vars, serverVars, ghosts
<1>2. Held' = Held /\ Coming' = Coming /\ Underway' = Underway /\ Coming \in Seq(Frames)
  BY <1>1, TypedIs DEF Held, Coming, Underway
<1>3. Thins(Coming, Coming', x)
  BY <1>2, ThinsSelf
<1>4. /\ Stored(x)' <=> Stored(x)
      /\ Wanted(x)' <=> Wanted(x)
      /\ Noticed(x)' <=> Noticed(x)
  BY <1>1 DEF Stored, Wanted, Noticed
<1>5. Quiet(x)
  BY <1>1, <1>2, <1>3, <1>4 DEF Quiet
<1>6. FiledOnce(x)'
  BY <1>1, <1>2, <1>4 DEF FiledOnce
<1> QED
  BY <1>5, <1>6, QuietTold

-----------------------------------------------------------------------------
(* What the bubble of a frame shows.                                       *)

\* What is known of the two forms of a frame.
TwoForms(f) ==
  /\ Words(Live(f)) \subseteq {f.item} /\ Words(Reloaded(f)) = Words(Live(f))
  /\ IF f.kind \in TextAnswers
     THEN Words(Live(f)) = {f.item} \ {"filler"}
     ELSE Reloaded(f).names \cap BlockNames = Live(f).names \cap BlockNames
  /\ Reloaded(f).id = NoId
  /\ Live(f).id # NoId => Words(Live(f)) = {} /\ f.kind \notin TextAnswers

\* Two parsed messages with the same text, or one of them with none.
LEMMA FormsOf ==
  ASSUME NEW f, NEW t, NEW u, NEW i, NEW x, NEW y, NEW n, NEW m, NEW s, NEW v,
         Live(f) = Parsed(t, u, x, i, n), Reloaded(f) = Parsed(s, v, y, NoId, m),
         x = <<f.item>> \/ x = Filler, y = x \/ (x = Filler /\ y = <<>>),
         i = NoId \/ x = Filler, f.kind \notin TextAnswers, n \cap BlockNames = m \cap BlockNames
  PROVE  TwoForms(f)
<1>1. /\ Live(f).text = x /\ Live(f).names = n /\ Live(f).id = i
      /\ Reloaded(f).text = y /\ Reloaded(f).names = m /\ Reloaded(f).id = NoId
  BY DEF Parsed
<1>2. x = Filler => Words(Live(f)) = {}
  BY <1>1, WordsAre
<1>3. x = <<f.item>> => Words(Live(f)) \subseteq {f.item}
  BY <1>1 DEF Words, ToSet
<1>4. Words(Reloaded(f)) = Words(Live(f))
  BY <1>1, <1>2, WordsAre DEF Words
<1> QED
  BY <1>1, <1>2, <1>3, <1>4 DEF TwoForms

\* The two forms of every frame there is.
LEMMA FormsAre ==
  ASSUME NEW f, f.kind \in SentKinds \cup Made
  PROVE  TwoForms(f)
<1>a. f.kind \in Made \cup TaskKinds \cup {"init", "mode", "retry", "hook",
                "agent_notice", "tool", "think", "think_tool", "results",
                "text_results", "command", "done"} =>
        f.kind \notin TextAnswers
  BY DEF TextAnswers, Made, TaskKinds
<1>1. CASE f.kind \in Made
  <2>1. Reloaded(f) = Live(f)
    BY <1>1 DEF Reloaded, StoredMade, Live
  <2>2. Live(f) = IF f.kind = "said" THEN User(f) ELSE System(f)
    BY <1>1, ParseMade
  <2>3. f.kind = "said" => User(f) = Parsed("user", "none", <<f.item>>, NoId, {})
    BY DEF User
  <2>4. f.kind # "said" => System(f) = Parsed("system", f.kind, <<f.item>>, NoId, {})
    <3>1. \A k \in Made : k \notin {"agent_notice", "hook", "retry", "mode"}
      BY DEF Made
    <3> QED
      BY <1>1, <3>1 DEF System
  <2>5. CASE f.kind = "said"
    <3>1. Live(f) = Parsed("user", "none", <<f.item>>, NoId, {})
      BY <2>2, <2>3, <2>5
    <3> QED
      BY <1>1, <1>a, <2>1, <3>1, FormsOf
  <2>6. CASE f.kind # "said"
    <3>1. Live(f) = Parsed("system", f.kind, <<f.item>>, NoId, {})
      BY <2>2, <2>4, <2>6
    <3> QED
      BY <1>1, <1>a, <2>1, <3>1, FormsOf
  <2> QED
    BY <2>5, <2>6
<1>2. ASSUME f.kind \in SentKinds PROVE f.kind \notin Made /\ Live(f) = Parse(f)
  BY <1>2 DEF SentKinds, TaskKinds, Made, Live, Processed, Answers, TextAnswers
<1>3. CASE f.kind \in TaskKinds
  <2>1. f.kind \in SentKinds /\ Class[f.kind] \in TaskKinds
    BY <1>3, ClassIs DEF SentKinds
  <2>2. Reloaded(f) = StoredTask(f)
    BY <1>2, <2>1 DEF Reloaded
  <2>3. ASSUME NEW n, NEW u, Live(f) = Parsed("system", u, <<f.item>>, NoId, n),
               n \cap BlockNames = {},
               \E m : Reloaded(f) = Parsed("system", u, <<f.item>>, NoId, m) /\ m \cap BlockNames = {}
        PROVE  TwoForms(f)
    BY <1>3, <1>a, <2>3, FormsOf
  <2>4. \A u, n : [Parsed("system", u, <<f.item>>, NoId, n) EXCEPT !.names = @ \cup {"init_data"}]
                    = Parsed("system", u, <<f.item>>, NoId, n \cup {"init_data"})
    BY DEF Parsed
  <2>5. \A u, n : [Parsed("system", u, <<f.item>>, NoId, n) EXCEPT !.names = @ \ {"task_session_id"}]
                    = Parsed("system", u, <<f.item>>, NoId, n \ {"task_session_id"})
    BY DEF Parsed
  <2>6. CASE f.kind = "task_started"
    <3> DEFINE n == {"task_id", "description", "task_session_id", "task_type", "uuid", "tool_use_id"}
    <3>1. Live(f) = Parsed("system", "task_started", <<f.item>>, NoId, n)
      BY <1>2, <2>1, <2>6, ParseIs DEF TaskStarted
    <3>2. n \cap BlockNames = {} /\ (n \cup {"init_data"}) \cap BlockNames = {}
      BY DEF BlockNames
    <3>3. Reloaded(f) = [TaskStarted(f) EXCEPT !.names = @ \cup {"init_data"}]
      BY <2>2, <2>6 DEF StoredTask
    <3>4. TaskStarted(f) = Parsed("system", "task_started", <<f.item>>, NoId, n)
      BY DEF TaskStarted
    <3> HIDE DEF n
    <3>5. Reloaded(f) = Parsed("system", "task_started", <<f.item>>, NoId, n \cup {"init_data"})
      BY <2>4, <3>3, <3>4
    <3> QED
      BY <2>3, <3>1, <3>2, <3>5
  <2>7. CASE f.kind = "task_progress"
    <3> DEFINE n == {"task_id", "description", "task_session_id", "last_tool_name",
            "uuid", "tool_use_id", "usage"}
    <3>1. Live(f) = Parsed("system", "task_progress", <<f.item>>, NoId, n)
      BY <1>2, <2>1, <2>7, ParseIs DEF TaskProgress
    <3>2. n \cap BlockNames = {} /\ (n \cup {"init_data"}) \cap BlockNames = {}
      BY DEF BlockNames
    <3>3. Reloaded(f) = [TaskProgress(f) EXCEPT !.names = @ \cup {"init_data"}]
      BY <2>2, <2>7 DEF StoredTask
    <3>4. TaskProgress(f) = Parsed("system", "task_progress", <<f.item>>, NoId, n)
      BY DEF TaskProgress
    <3> HIDE DEF n
    <3>5. Reloaded(f) = Parsed("system", "task_progress", <<f.item>>, NoId, n \cup {"init_data"})
      BY <2>4, <3>3, <3>4
    <3> QED
      BY <2>3, <3>1, <3>2, <3>5
  <2>8. CASE f.kind = "task_notification"
    <3> DEFINE n == {"task_id", "status", "summary", "task_session_id", "output_file",
            "uuid", "tool_use_id", "usage"}
    <3>1. Live(f) = Parsed("system", "task_notification", <<f.item>>, NoId, n)
      BY <1>2, <2>1, <2>8, ParseIs DEF TaskNotification
    <3>2. n \cap BlockNames = {} /\ (n \cup {"init_data"}) \cap BlockNames = {}
      BY DEF BlockNames
    <3>3. Reloaded(f) = [TaskNotification(f) EXCEPT !.names = @ \cup {"init_data"}]
      BY <2>2, <2>8 DEF StoredTask
    <3>4. TaskNotification(f) = Parsed("system", "task_notification", <<f.item>>, NoId, n)
      BY DEF TaskNotification
    <3> HIDE DEF n
    <3>5. Reloaded(f) = Parsed("system", "task_notification", <<f.item>>, NoId, n \cup {"init_data"})
      BY <2>4, <3>3, <3>4
    <3> QED
      BY <2>3, <3>1, <3>2, <3>5
  <2>9. CASE f.kind = "task_updated"
    <3> DEFINE n == {"task_id", "patch", "status", "task_session_id", "uuid"}
               m == n \ {"task_session_id"}
    <3>1. Live(f) = Parsed("system", "task_updated", <<f.item>>, NoId, n)
      BY <1>2, <2>1, <2>9, ParseIs DEF TaskUpdated
    <3>2. n \cap BlockNames = {} /\ (m \cup {"init_data"}) \cap BlockNames = {}
      BY DEF BlockNames
    <3>3. Reloaded(f) = [[TaskUpdated(f) EXCEPT !.names = @ \ {"task_session_id"}]
                           EXCEPT !.names = @ \cup {"init_data"}]
      BY <2>2, <2>9 DEF StoredTask
    <3>4. TaskUpdated(f) = Parsed("system", "task_updated", <<f.item>>, NoId, n)
      BY DEF TaskUpdated
    <3> HIDE DEF n
    <3>5. [TaskUpdated(f) EXCEPT !.names = @ \ {"task_session_id"}]
            = Parsed("system", "task_updated", <<f.item>>, NoId, m)
      BY <2>5, <3>4
    <3> HIDE DEF m
    <3>6. Reloaded(f) = Parsed("system", "task_updated", <<f.item>>, NoId, m \cup {"init_data"})
      BY <2>4, <3>3, <3>5
    <3> QED
      BY <2>3, <3>1, <3>2, <3>6
  <2> QED
    BY <1>3, <2>6, <2>7, <2>8, <2>9 DEF TaskKinds
<1>4. CASE f.kind \in {"init", "mode", "retry", "hook", "agent_notice"}
  <2>1. f.kind \in SentKinds /\ Class[f.kind] \in {"SystemMessage", "HookEventMessage"}
    BY <1>4, ClassIs DEF SentKinds
  <2>2. Reloaded(f) = StoredSystem(f)
    BY <1>2, <2>1 DEF Reloaded, IsSystem, TaskKinds
  <2>3. Live(f) = System(f)
    BY <1>2, <1>4, <2>1, ParseIs
  <2>4. CASE f.kind = "init"
    <3>1. /\ Live(f) = Parsed("system", f.kind, Filler, NoId, {"init_data"})
          /\ Reloaded(f) = Parsed("system", f.kind, <<>>, NoId, {"init_data"})
      BY <1>2, <2>1, <2>2, <2>3, <2>4 DEF StoredSystem, System
    <3> QED
      BY <1>4, <1>a, <3>1, FormsOf
  <2>5. CASE f.kind # "init"
    <3>1. Reloaded(f) = System(f)
      BY <1>4, <2>2, <2>5 DEF StoredSystem
    <3>2. \E u, n : System(f) = Parsed("system", u, <<f.item>>, NoId, n)
      BY <1>2, <1>4, <2>1, <2>5 DEF System
    <3> QED
      BY <1>4, <1>a, <2>3, <3>1, <3>2, FormsOf
  <2> QED
    BY <2>4, <2>5
<1>5. CASE f.kind \in Answers \cup {"results", "text_results", "command", "done"}
  <2>1. /\ f.kind \in SentKinds /\ ~ IsSystem(Class[f.kind])
        /\ f.kind \in Answers => Type(f) = "assistant" /\ Live(f) = Assistant(f)
        /\ f.kind \in {"results", "text_results", "command"} =>
             Type(f) = "user" /\ Live(f) = User(f)
        /\ f.kind = "done" => Type(f) = "result" /\ Live(f) = Result(f)
    <3>1. f.kind \in SentKinds /\ f.kind \notin Made
      BY <1>2, <1>5 DEF SentKinds
    <3> QED
      BY <1>2, <1>5, <3>1, ClassIs, ParseIs DEF IsSystem, TaskKinds, Type
  <2>2. Reloaded(f) = StoredOther(f)
    BY <1>2, <2>1 DEF Reloaded, IsSystem
  <2>3. CASE f.kind \in TextAnswers
    <3>1. Converted(f) = <<f.item>> /\ <<f.item>> # <<>>
      BY <2>3 DEF Converted
    <3>2. Reloaded(f) = Parsed("assistant", "none", <<f.item>>, NoId, Blocks[f.kind])
      BY <2>1, <2>2, <2>3, <3>1 DEF StoredOther, StoredText, Answers
    <3>3. Live(f) = Parsed("assistant", "none", <<f.item>>, NoId, {})
      BY <2>1, <2>3, <3>1 DEF Assistant, Answers
    <3>4. /\ Live(f).text = <<f.item>> /\ Live(f).id = NoId
          /\ Reloaded(f).text = <<f.item>> /\ Reloaded(f).id = NoId
      BY <3>2, <3>3 DEF Parsed
    <3>5. Words(Live(f)) = {f.item} \ {"filler"} /\ Words(Reloaded(f)) = Words(Live(f))
      BY <3>4 DEF Words, ToSet
    <3> QED
      BY <2>3, <3>4, <3>5 DEF TwoForms
  <2>4. CASE f.kind \in {"tool", "think", "think_tool"}
    <3>1. Converted(f) = <<>> /\ f.kind \in Answers
      BY <2>4 DEF Converted, Made, Answers, TextAnswers
    <3>2. Reloaded(f) = Parsed("assistant", "none", <<>>, NoId, Blocks[f.kind])
      BY <2>1, <2>2, <2>4, <3>1 DEF StoredOther, StoredText
    <3>3. Live(f) = Parsed("assistant", "none", Filler, f.resp, Blocks[f.kind])
      BY <2>1, <2>4, <3>1 DEF Assistant
    <3> QED
      BY <1>a, <2>4, <3>2, <3>3, FormsOf
  <2>5. CASE f.kind = "results"
    <3>1. Converted(f) = <<>>
      BY <2>5 DEF Converted, Made, TextAnswers
    <3>2. Reloaded(f) = Parsed("user", "none", <<>>, NoId, Blocks[f.kind])
      BY <2>1, <2>2, <2>5, <3>1 DEF StoredOther, StoredText
    <3>3. Live(f) = Parsed("user", "none", Filler, NoId, Blocks[f.kind])
      BY <2>1, <2>5 DEF User
    <3> QED
      BY <1>a, <2>5, <3>2, <3>3, FormsOf
  <2>6. CASE f.kind = "text_results"
    <3>1. Converted(f) = <<f.item>>
      BY <2>6 DEF Converted
    <3>2. Reloaded(f) = Parsed("user", "none", <<f.item>>, NoId, Blocks[f.kind])
      BY <2>1, <2>2, <2>6, <3>1 DEF StoredOther, StoredText
    <3>3. Live(f) = Parsed("user", "none", <<f.item>>, NoId, Blocks[f.kind])
      BY <2>1, <2>6 DEF User
    <3> QED
      BY <1>a, <2>6, <3>2, <3>3, FormsOf
  <2>8. CASE f.kind = "command"
    <3>1. Converted(f) = <<f.item>>
      BY <2>8 DEF Converted
    <3>2. Reloaded(f) = Parsed("user", "none", <<f.item>>, NoId, {})
      BY <2>1, <2>2, <2>8, <3>1 DEF StoredOther, StoredText
    <3>3. Live(f) = Parsed("user", "local_command_response", <<f.item>>, NoId,
                           {"is_local_command_response"})
      BY <2>1, <2>8 DEF User
    <3>4. {"is_local_command_response"} \cap BlockNames = {} \cap BlockNames
      BY DEF BlockNames
    <3> QED
      BY <1>a, <2>8, <3>2, <3>3, <3>4, FormsOf
  <2>7. CASE f.kind = "done"
    <3>1. Reloaded(f) = Parsed("result", "success", <<>>, NoId, ResultNames)
      BY <2>1, <2>2, <2>7 DEF StoredOther
    <3>2. Live(f) = Parsed("result", "success", Filler, NoId,
                           ResultNames \cup {"is_error", "api_error_status"})
      BY <2>1, <2>7 DEF Result
    <3>3. (ResultNames \cup {"is_error", "api_error_status"}) \cap BlockNames
            = ResultNames \cap BlockNames
      BY DEF BlockNames
    <3> QED
      BY <1>a, <2>7, <3>1, <3>2, <3>3, FormsOf
  <2> QED
    BY <1>5, <2>3, <2>4, <2>5, <2>6, <2>7, <2>8 DEF Answers
<1> QED
  BY <1>1, <1>3, <1>4, <1>5 DEF SentKinds

\* A frame's bubble shows its item, if it shows anything.
LEMMA BubbleShows ==
  ASSUME NEW f, f.kind \in SentKinds \cup Made, f.item # "filler",
         NEW m, m = Live(f) \/ m = Reloaded(f), NEW x
  PROVE  /\ x \in Shows(Bubble(f, m)) <=> x = f.item /\ Visible(f)
         /\ x \in Texts(Bubble(f, m)) => x = f.item /\ Visible(f)
<1>1. TwoForms(f)
  BY FormsAre
<1>2. Words(m) = Words(Live(f)) /\ Words(Live(f)) \subseteq {f.item}
  BY <1>1 DEF TwoForms
<1>3. Texts(Bubble(f, m)) = Words(m)
  BY DEF Texts, Bubble, Words
<1>4. Bubble(f, m).parts = IF m.names \cap BlockNames = {} THEN {} ELSE {f.item}
  BY DEF Bubble
<1>5. CASE f.kind \in TextAnswers
  <2>1. Words(Live(f)) = {f.item}
    BY <1>1, <1>5 DEF TwoForms
  <2> QED
    BY <1>2, <1>3, <1>4, <2>1 DEF Shows, Visible
<1>6. CASE f.kind \notin TextAnswers
  <2>1. m.names \cap BlockNames = Live(f).names \cap BlockNames
    BY <1>1, <1>6 DEF TwoForms
  <2> QED
    BY <1>2, <1>3, <1>4, <2>1 DEF Shows, Visible
<1> QED
  BY <1>5, <1>6

-----------------------------------------------------------------------------
(* Where an item is in a list of bubbles.                                  *)

\* What a list after another is.
LEMMA ListJoins ==
  ASSUME NEW q, NEW r, Drawn(q), Drawn(r)
  PROVE  /\ Drawn(q \o r)
         /\ Len(q) \in Nat /\ DOMAIN q = 1 .. Len(q) /\ Len(r) \in Nat /\ DOMAIN r = 1 .. Len(r)
         /\ DOMAIN (q \o r) = 1 .. Len(q) + Len(r)
         /\ \A i \in 1 .. Len(q) : i \in DOMAIN (q \o r) /\ (q \o r)[i] = q[i]
         /\ \A i \in 1 .. Len(r) : Len(q) + i \in DOMAIN (q \o r) /\ (q \o r)[Len(q) + i] = r[i]
         /\ \A i \in DOMAIN (q \o r) :
              \/ i \in 1 .. Len(q)
              \/ i - Len(q) \in 1 .. Len(r) /\ i = Len(q) + (i - Len(q)) /\ i \notin 1 .. Len(q)
<1>1. PICK S : q \in Seq(S) /\ \A b \in S : DOMAIN b = Fields
  BY DEF Drawn
<1>2. PICK T : r \in Seq(T) /\ \A b \in T : DOMAIN b = Fields
  BY DEF Drawn
<1>3. q \in Seq(S \cup T) /\ r \in Seq(S \cup T)
  BY <1>1, <1>2, SeqMonotonic
<1>4. /\ Len(q \o r) = Len(q) + Len(r)
      /\ \A i \in 1 .. Len(q) + Len(r) : (q \o r)[i] = IF i <= Len(q) THEN q[i] ELSE r[i - Len(q)]
  BY <1>3, ConcatProperties
<1>5. /\ Len(q) \in Nat /\ DOMAIN q = 1 .. Len(q) /\ Len(r) \in Nat /\ DOMAIN r = 1 .. Len(r)
      /\ Drawn(q \o r) /\ DOMAIN (q \o r) = 1 .. Len(q) + Len(r)
  BY DrawnIs, DrawnConcat
<1> DEFINE s == q \o r
<1> HIDE DEF s
<1>6. DOMAIN s = 1 .. Len(q) + Len(r)
  BY <1>5 DEF s
<1>7. \A i \in 1 .. Len(q) : i \in 1 .. Len(q) + Len(r) /\ i <= Len(q)
  BY <1>5
<1>8. \A i \in 1 .. Len(r) : /\ Len(q) + i \in 1 .. Len(q) + Len(r) /\ ~ (Len(q) + i <= Len(q))
                             /\ (Len(q) + i) - Len(q) = i
  BY <1>5
<1>9. \A i \in 1 .. Len(q) + Len(r) :
        \/ i \in 1 .. Len(q)
        \/ i - Len(q) \in 1 .. Len(r) /\ i = Len(q) + (i - Len(q)) /\ i \notin 1 .. Len(q)
  BY <1>5
<1>10. \A i \in 1 .. Len(q) : s[i] = q[i]
  BY <1>4, <1>7 DEF s
<1>11. \A i \in 1 .. Len(r) : s[Len(q) + i] = r[i]
  BY <1>4, <1>8 DEF s
<1> QED
  BY <1>5, <1>6, <1>7, <1>8, <1>9, <1>10, <1>11 DEF s

\* One bubble has this id, at most.
Single(q, id) == \A i, j \in DOMAIN q : q[i].id = id /\ q[j].id = id => i = j

\* What two lists show.
LEMMA BothShow ==
  ASSUME NEW x, NEW id, NEW q, NEW r, Drawn(q), Drawn(r)
  PROVE  /\ In(q \o r, x) <=> In(q, x) \/ In(r, x)
         /\ Once(q, x) /\ Once(r, x) /\ ~ (In(q, x) /\ In(r, x)) => Once(q \o r, x)
         /\ Single(q, id) /\ (\A i \in DOMAIN r : r[i].id # id) => Single(q \o r, id)
         /\ Mixes(q \o r, q, r)
<1> DEFINE s == q \o r
<1>1. /\ Len(q) \in Nat /\ DOMAIN q = 1 .. Len(q) /\ DOMAIN r = 1 .. Len(r)
      /\ \A i \in 1 .. Len(q) : i \in DOMAIN s /\ s[i] = q[i]
      /\ \A i \in 1 .. Len(r) : Len(q) + i \in DOMAIN s /\ s[Len(q) + i] = r[i]
      /\ \A i \in DOMAIN s :
              \/ i \in 1 .. Len(q)
              \/ i - Len(q) \in 1 .. Len(r) /\ i = Len(q) + (i - Len(q)) /\ i \notin 1 .. Len(q)
  BY ListJoins
<1> HIDE DEF s
<1>2. \A i \in DOMAIN s : \/ i \in DOMAIN q /\ s[i] = q[i]
                          \/ \E k \in DOMAIN r : i = Len(q) + k /\ s[i] = r[k]
  <2> SUFFICES ASSUME NEW i \in DOMAIN s, i \notin DOMAIN q
               PROVE  \E k \in DOMAIN r : i = Len(q) + k /\ s[i] = r[k]
    BY <1>1
  <2>1. PICK k : k = i - Len(q)
    OBVIOUS
  <2> QED
    BY <1>1, <2>1
<1>3. In(s, x) <=> In(q, x) \/ In(r, x)
  BY <1>1, <1>2 DEF In
<1>4. ASSUME Once(q, x), Once(r, x), ~ (In(q, x) /\ In(r, x)) PROVE Once(s, x)
  BY <1>1, <1>2, <1>4 DEF Once, In
<1>5. ASSUME Single(q, id), \A i \in DOMAIN r : r[i].id # id PROVE Single(s, id)
  BY <1>1, <1>2, <1>5 DEF Single
<1>6. Mixes(s, q, r)
  BY <1>2 DEF Mixes
<1> QED
  BY <1>3, <1>4, <1>5, <1>6 DEF s

\* A list of one bubble.
LEMMA OneBubble ==
  ASSUME NEW b, DOMAIN b = Fields
  PROVE  Drawn(<<b>>) /\ Len(<<b>>) = 1 /\ DOMAIN <<b>> = {1} /\ <<b>>[1] = b
<1>1. PICK S : S = {b}
  OBVIOUS
<1>2. <<b>> \in Seq(S) /\ \A c \in S : DOMAIN c = Fields
  BY <1>1
<1> QED
  BY <1>2 DEF Drawn

\* The places of a part of a list.
LEMMA PartIs ==
  ASSUME NEW q, Drawn(q), NEW m \in Nat \ {0}, NEW n \in Nat, n <= Len(q), m <= n + 1
  PROVE  /\ Drawn(SubSeq(q, m, n)) /\ Len(SubSeq(q, m, n)) = n - m + 1
         /\ DOMAIN SubSeq(q, m, n) = 1 .. n - m + 1
         /\ \A i \in 1 .. n - m + 1 : SubSeq(q, m, n)[i] = q[m + i - 1]
<1>1. PICK S : q \in Seq(S) /\ \A b \in S : DOMAIN b = Fields
  BY DEF Drawn
<1>2. Len(q) \in Nat /\ DOMAIN q = 1 .. Len(q)
  BY DrawnIs
<1>3. \A i \in m .. n : q[i] \in S
  BY <1>1, <1>2, ElementOfSeq
<1> DEFINE r == SubSeq(q, m, n)
<1>4. /\ r \in Seq(S) /\ Len(r) = IF m <= n THEN n - m + 1 ELSE 0
      /\ \A i \in 1 .. n - m + 1 : r[i] = q[m + i - 1]
  BY <1>3, SubSeqProperties
<1> HIDE DEF r
<1>5. Len(r) = n - m + 1
  BY <1>4
<1>6. DOMAIN r = 1 .. n - m + 1
  BY <1>4, <1>5, LenProperties
<1>7. Drawn(r)
  BY <1>1, <1>4 DEF Drawn
<1> QED
  BY <1>4, <1>5, <1>6, <1>7 DEF r

\* Where a bubble is put into a list.
LEMMA InsertedAt ==
  ASSUME NEW q, Drawn(q), NEW b, DOMAIN b = Fields
  PROVE  \E p \in 1 .. Len(q) + 1 :
           /\ DOMAIN Inserted(q, b) = 1 .. Len(q) + 1
           /\ \A i \in 1 .. Len(q) + 1 :
                Inserted(q, b)[i] = IF i < p THEN q[i] ELSE IF i = p THEN b ELSE q[i - 1]
<1> DEFINE I == {i \in DOMAIN q : q[i].at <= b.at}
           k == 1 + Cardinality(I)
           r == SubSeq(q, 1, k - 1)
           t == SubSeq(q, k, Len(q))
<1>1. Len(q) \in Nat /\ DOMAIN q = 1 .. Len(q)
  BY DrawnIs
<1>2. Cardinality(I) \in Nat /\ Cardinality(I) <= Len(q)
  <2>1. IsFiniteSet(1 .. Len(q)) /\ Cardinality(1 .. Len(q)) = Len(q)
    BY <1>1, FS_Interval
  <2>2. I \in SUBSET (1 .. Len(q))
    BY <1>1
  <2> HIDE DEF I
  <2>3. IsFiniteSet(I) /\ Cardinality(I) <= Cardinality(1 .. Len(q))
    BY <2>1, <2>2, FS_Subset
  <2> QED
    BY <2>1, <2>3, FS_CardinalityType
<1>3. Inserted(q, b) = r \o <<b>> \o t
  BY DEF Inserted, InsertAt
<1> HIDE DEF I
<1>4. k \in 1 .. Len(q) + 1 /\ k \in Nat \ {0} /\ k - 1 \in Nat /\ k - 1 <= Len(q) /\ k <= Len(q) + 1
  BY <1>1, <1>2
<1> HIDE DEF k
<1>5. /\ Drawn(r) /\ Len(r) = k - 1 /\ \A i \in 1 .. k - 1 : r[i] = q[i]
  <2>1. 1 \in Nat \ {0} /\ 1 <= (k - 1) + 1 /\ (k - 1) - 1 + 1 = k - 1
    BY <1>4
  <2>0. PICK n : n = k - 1
    OBVIOUS
  <2>2. /\ Drawn(r) /\ Len(r) = n - 1 + 1
        /\ \A i \in 1 .. n - 1 + 1 : r[i] = q[1 + i - 1]
    BY <1>4, <2>0, <2>1, PartIs
  <2>3. \A i \in 1 .. k - 1 : 1 + i - 1 = i
    BY <1>4
  <2> HIDE DEF r
  <2> QED
    BY <2>0, <2>1, <2>2, <2>3
<1>6. /\ Drawn(t) /\ Len(t) = Len(q) - k + 1 /\ \A i \in 1 .. Len(q) - k + 1 : t[i] = q[k + i - 1]
  BY <1>1, <1>4, PartIs
<1>7. Drawn(<<b>>) /\ Len(<<b>>) = 1 /\ <<b>>[1] = b
  BY OneBubble
<1> HIDE DEF r, t
<1>8. PICK o : o = <<b>>
  OBVIOUS
<1> DEFINE s == r \o o
<1>9. /\ Drawn(s) /\ Len(s) = k
      /\ \A i \in 1 .. k : s[i] = IF i < k THEN q[i] ELSE b
  <2>1. /\ Drawn(s) /\ DOMAIN s = 1 .. (k - 1) + 1
        /\ \A i \in 1 .. k - 1 : s[i] = r[i]
        /\ \A i \in 1 .. 1 : s[k - 1 + i] = o[i]
    BY <1>5, <1>7, <1>8, ListJoins
  <2> HIDE DEF s
  <2>2. Len(s) \in Nat /\ DOMAIN s = 1 .. Len(s)
    BY <2>1, DrawnIs
  <2>3. (k - 1) + 1 = k /\ 1 \in 1 .. 1
    BY <1>4
  <2>4. Len(s) = k
    BY <1>4, <2>1, <2>2, <2>3
  <2>5. s[k] = b
    BY <1>7, <1>8, <2>1, <2>3
  <2>6. \A i \in 1 .. k : (i < k => i \in 1 .. k - 1) /\ (~ (i < k) => i = k)
    BY <1>4
  <2> QED
    BY <1>5, <2>1, <2>4, <2>5, <2>6
<1> HIDE DEF s
<1> DEFINE w == s \o t
<1>10. /\ DOMAIN w = 1 .. k + (Len(q) - k + 1)
       /\ \A i \in 1 .. k : w[i] = s[i]
       /\ \A i \in 1 .. Len(q) - k + 1 : w[k + i] = t[i]
  <2>1. PICK a, c, n : a = s /\ c = t /\ n = Len(q) - k + 1
    OBVIOUS
  <2>2. /\ DOMAIN (a \o c) = 1 .. Len(a) + Len(c)
        /\ \A i \in 1 .. Len(a) : (a \o c)[i] = a[i]
        /\ \A i \in 1 .. Len(c) : (a \o c)[Len(a) + i] = c[i]
    BY <1>6, <1>9, <2>1, ListJoins
  <2>3. Len(a) = k /\ Len(c) = n
    BY <1>6, <1>9, <2>1
  <2> QED
    BY <2>1, <2>2, <2>3
<1> HIDE DEF w
<1>11. k + (Len(q) - k + 1) = Len(q) + 1
  BY <1>1, <1>4
<1>12. ASSUME NEW i \in 1 .. Len(q) + 1
       PROVE  w[i] = IF i < k THEN q[i] ELSE IF i = k THEN b ELSE q[i - 1]
  <2>1. CASE i <= k
    <3>1. i \in 1 .. k
      BY <1>1, <1>4, <2>1
    <3>2. w[i] = IF i < k THEN q[i] ELSE b
      BY <1>9, <1>10, <3>1
    <3>3. i < k \/ i = k
      BY <1>4, <3>1
    <3> QED
      BY <3>2, <3>3
  <2>2. CASE ~ (i <= k)
    <3>1. PICK j : j = i - k
      OBVIOUS
    <3>2. j \in 1 .. Len(q) - k + 1 /\ k + j = i /\ k + j - 1 = i - 1 /\ ~ (i < k) /\ i # k
      BY <1>1, <1>4, <2>2, <3>1
    <3>3. w[i] = t[j] /\ t[j] = q[i - 1]
      BY <1>6, <1>10, <3>2
    <3> QED
      BY <3>2, <3>3
  <2> QED
    BY <2>1, <2>2
<1>13. Inserted(q, b) = w
  BY <1>3, <1>8 DEF s, w
<1> QED
  BY <1>4, <1>10, <1>11, <1>12, <1>13

\* The first n bubbles of q, in some order.
Shuffles(q, n, r) ==
  \E m : /\ \A i \in DOMAIN r : m[i] \in 1 .. n /\ r[i] = q[m[i]]
         /\ \A i, j \in DOMAIN r : m[i] = m[j] => i = j
         /\ \A k \in 1 .. n : \E i \in DOMAIN r : m[i] = k

\* One more bubble, put in its place.
LEMMA InsertedShuffles ==
  ASSUME NEW q, NEW k \in Nat \ {0}, NEW r, Drawn(r), DOMAIN q[k] = Fields, Shuffles(q, k - 1, r)
  PROVE  Shuffles(q, k, Inserted(r, q[k]))
<1>1. PICK m : /\ \A i \in DOMAIN r : m[i] \in 1 .. k - 1 /\ r[i] = q[m[i]]
               /\ \A i, j \in DOMAIN r : m[i] = m[j] => i = j
               /\ \A l \in 1 .. k - 1 : \E i \in DOMAIN r : m[i] = l
  BY DEF Shuffles
<1>2. Len(r) \in Nat /\ DOMAIN r = 1 .. Len(r)
  BY DrawnIs
<1>3. PICK b : b = q[k]
  OBVIOUS
<1>4. PICK s : s = Inserted(r, b)
  OBVIOUS
<1>5. PICK p \in 1 .. Len(r) + 1 :
           /\ DOMAIN s = 1 .. Len(r) + 1
           /\ \A i \in 1 .. Len(r) + 1 : s[i] = IF i < p THEN r[i] ELSE IF i = p THEN b ELSE r[i - 1]
  BY <1>3, <1>4, InsertedAt
<1> DEFINE h == [i \in 1 .. Len(r) + 1 |-> IF i < p THEN m[i] ELSE IF i = p THEN k ELSE m[i - 1]]
<1>6. \A i \in 1 .. Len(r) + 1 : h[i] = IF i < p THEN m[i] ELSE IF i = p THEN k ELSE m[i - 1]
  OBVIOUS
<1> HIDE DEF h
<1>7. \A i \in 1 .. Len(r) + 1 : /\ i \in Int /\ p \in Int
                                 /\ i < p => i \in 1 .. Len(r)
                                 /\ ~ (i < p) /\ i # p => i - 1 \in 1 .. Len(r)
  BY <1>2, <1>5
<1>8. \A i \in 1 .. k - 1 : i \in 1 .. k /\ i # k
  OBVIOUS
<1>9. ASSUME NEW i \in 1 .. Len(r) + 1 PROVE h[i] \in 1 .. k /\ s[i] = q[h[i]]
  <2>1. CASE i < p
    BY <1>1, <1>2, <1>5, <1>6, <1>7, <1>8, <2>1
  <2>2. CASE i = p
    <3>1. s[i] = b /\ h[i] = k
      BY <1>5, <1>6, <1>7, <2>2
    <3> QED
      BY <1>3, <3>1
  <2>3. CASE ~ (i < p) /\ i # p
    BY <1>1, <1>2, <1>5, <1>6, <1>7, <1>8, <2>3
  <2> QED
    BY <2>1, <2>2, <2>3
<1>10. ASSUME NEW i \in 1 .. Len(r) + 1, NEW j \in 1 .. Len(r) + 1, h[i] = h[j] PROVE i = j
  <2>0. \A n \in 1 .. Len(r) : m[n] # k
    BY <1>1, <1>2, <1>8
  <2>1. h[i] = k <=> i = p
    BY <1>6, <1>7, <2>0
  <2>2. h[j] = k <=> j = p
    BY <1>6, <1>7, <2>0
  <2>3. CASE i = p
    BY <1>10, <2>1, <2>2, <2>3
  <2>4. CASE i # p
    <3>0. j # p
      BY <1>10, <2>1, <2>2, <2>4
    <3>1. PICK a : a = IF i < p THEN i ELSE i - 1
      OBVIOUS
    <3>2. PICK c : c = IF j < p THEN j ELSE j - 1
      OBVIOUS
    <3>3. a \in 1 .. Len(r) /\ h[i] = m[a]
      BY <1>6, <1>7, <2>4, <3>1
    <3>4. c \in 1 .. Len(r) /\ h[j] = m[c]
      BY <1>6, <1>7, <3>0, <3>2
    <3>5. a = c
      BY <1>1, <1>2, <1>10, <3>3, <3>4
    <3> QED
      BY <1>7, <2>4, <3>0, <3>1, <3>2, <3>5
  <2> QED
    BY <2>3, <2>4
<1>11. ASSUME NEW l \in 1 .. k PROVE \E i \in 1 .. Len(r) + 1 : h[i] = l
  <2>1. CASE l = k
    <3>1. h[p] = k
      BY <1>6, <1>7
    <3> QED
      BY <2>1, <3>1
  <2>2. CASE l # k
    <3>1. l \in 1 .. k - 1
      BY <2>2
    <3>2. PICK n \in 1 .. Len(r) : m[n] = l
      BY <1>1, <1>2, <3>1
    <3>3. CASE n < p
      <4>1. n \in 1 .. Len(r) + 1
        BY <1>2
      <4> QED
        BY <1>6, <3>2, <3>3, <4>1
    <3>4. CASE ~ (n < p)
      <4>1. /\ n + 1 \in 1 .. Len(r) + 1 /\ ~ (n + 1 < p) /\ n + 1 # p /\ (n + 1) - 1 = n
        BY <1>2, <1>7, <3>4
      <4>2. h[n + 1] = m[n]
        BY <1>6, <4>1
      <4> QED
        BY <3>2, <4>1, <4>2
    <3> QED
      BY <3>3, <3>4
  <2> QED
    BY <2>1, <2>2
<1>12. Shuffles(q, k, s)
  <2>1. /\ \A i \in DOMAIN s : h[i] \in 1 .. k /\ s[i] = q[h[i]]
        /\ \A i, j \in DOMAIN s : h[i] = h[j] => i = j
        /\ \A l \in 1 .. k : \E i \in DOMAIN s : h[i] = l
    BY <1>5, <1>9, <1>10, <1>11
  <2> QED
    BY <2>1, Zenon DEF Shuffles
<1> QED
  BY <1>3, <1>4, <1>12

\* Sorting a list is putting it in some order.
LEMMA ByTimeShuffles ==
  ASSUME NEW q, Drawn(q)
  PROVE  Shuffles(q, Len(q), ByTime(q))
<1> DEFINE it == CHOOSE g : Sorts(g, q, Len(q))
<1>1. Len(q) \in Nat /\ DOMAIN q = 1 .. Len(q) /\ \A i \in 1 .. Len(q) : DOMAIN q[i] = Fields
  BY DrawnIs
<1>2. Sorts(it, q, Len(q))
  BY <1>1, SortsExist
<1>3. ByTime(q) = it[Len(q)]
  BY DEF ByTime, Sorts
<1> HIDE DEF it
<1> DEFINE S == {k \in 0 .. Len(q) : ~ (Drawn(it[k]) /\ Shuffles(q, k, it[k]))}
<1>4. S = {}
  <2> SUFFICES ASSUME S # {} PROVE FALSE
    OBVIOUS
  <2>1. PICK k \in S : \A m \in S : k <= m
    <3> HIDE DEF S
    <3>1. S \subseteq Nat
      BY DEF S
    <3> QED
      BY <3>1, Least
  <2>2. k \in 0 .. Len(q)
    OBVIOUS
  <2>3. it[k] = IF k = 0 THEN <<>> ELSE Inserted(it[k - 1], q[k])
    BY <1>2, <2>2 DEF Sorts
  <2>4. k # 0
    <3> SUFFICES ASSUME k = 0 PROVE FALSE
      OBVIOUS
    <3>1. it[k] = <<>> /\ DOMAIN <<>> = {} /\ 1 .. k = {}
      BY <2>3
    <3>2. Drawn(<<>>)
      <4>1. <<>> \in Seq({}) /\ \A b \in {} : DOMAIN b = Fields
        OBVIOUS
      <4> QED
        BY <4>1 DEF Drawn
    <3>3. Shuffles(q, k, it[k])
      BY <3>1 DEF Shuffles
    <3> QED
      BY <3>1, <3>2, <3>3
  <2>5. Drawn(it[k - 1]) /\ Shuffles(q, k - 1, it[k - 1])
    <3>1. k - 1 \in 0 .. Len(q) /\ ~ (k <= k - 1)
      BY <1>1, <2>2, <2>4
    <3>2. k - 1 \notin S
      BY <2>1, <3>1
    <3> QED
      BY <3>1, <3>2
  <2>6. k \in 1 .. Len(q) /\ k \in Nat \ {0}
    BY <1>1, <2>2, <2>4
  <2>7. PICK r : r = it[k - 1]
    OBVIOUS
  <2>8. Drawn(Inserted(r, q[k]))
    BY <1>1, <2>5, <2>6, <2>7, InsertedIs
  <2>9. Shuffles(q, k, Inserted(r, q[k]))
    BY <1>1, <2>5, <2>6, <2>7, InsertedShuffles
  <2> QED
    BY <2>3, <2>4, <2>7, <2>8, <2>9
<1>5. Len(q) \in 0 .. Len(q)
  BY <1>1
<1> QED
  BY <1>3, <1>4, <1>5

\* What is the same in every order.
LEMMA ShuffleKeeps ==
  ASSUME NEW x, NEW id, NEW q, Drawn(q), NEW r, Shuffles(q, Len(q), r)
  PROVE  /\ In(r, x) <=> In(q, x)
         /\ Once(q, x) => Once(r, x)
         /\ Single(q, id) => Single(r, id)
         /\ \A i \in DOMAIN r : \E j \in DOMAIN q : r[i] = q[j]
<1>1. PICK m : /\ \A i \in DOMAIN r : m[i] \in 1 .. Len(q) /\ r[i] = q[m[i]]
               /\ \A i, j \in DOMAIN r : m[i] = m[j] => i = j
               /\ \A k \in 1 .. Len(q) : \E i \in DOMAIN r : m[i] = k
  BY DEF Shuffles
<1>2. DOMAIN q = 1 .. Len(q)
  BY DrawnIs
<1>3. \A i \in DOMAIN r : m[i] \in DOMAIN q /\ r[i] = q[m[i]]
  BY <1>1, <1>2
<1>4. In(r, x) => In(q, x)
  BY <1>3 DEF In
<1>5. ASSUME In(q, x) PROVE In(r, x)
  <2>1. PICK k \in DOMAIN q : x \in Shows(q[k])
    BY <1>5 DEF In
  <2>2. PICK i \in DOMAIN r : m[i] = k
    BY <1>1, <1>2
  <2>3. r[i] = q[k]
    BY <1>3, <2>2
  <2> QED
    BY <2>1, <2>3 DEF In
<1>6. Once(q, x) => Once(r, x)
  BY <1>1, <1>3 DEF Once
<1>7. Single(q, id) => Single(r, id)
  BY <1>1, <1>3 DEF Single
<1> QED
  BY <1>3, <1>4, <1>5, <1>6, <1>7

\* What joining two keeps.
LEMMA JoinedShows ==
  ASSUME NEW x, NEW id, NEW q, NEW r, Drawn(q), Drawn(r)
  PROVE  /\ In(Joined(q, r), x) <=> In(q, x) \/ In(r, x)
         /\ Once(q, x) /\ Once(r, x) /\ ~ (In(q, x) /\ In(r, x)) => Once(Joined(q, r), x)
         /\ Single(q, id) /\ (\A i \in DOMAIN r : r[i].id # id) => Single(Joined(q, r), id)
         /\ Mixes(Joined(q, r), q, r)
<1>1. PICK s : s = q \o r
  OBVIOUS
<1>2. /\ In(s, x) <=> In(q, x) \/ In(r, x)
      /\ Once(q, x) /\ Once(r, x) /\ ~ (In(q, x) /\ In(r, x)) => Once(s, x)
      /\ Single(q, id) /\ (\A i \in DOMAIN r : r[i].id # id) => Single(s, id)
      /\ Mixes(s, q, r)
  BY <1>1, BothShow
<1>3. Drawn(s)
  BY <1>1, ListJoins
<1>4. /\ In(ByTime(s), x) <=> In(s, x)
      /\ Once(s, x) => Once(ByTime(s), x)
      /\ Single(s, id) => Single(ByTime(s), id)
      /\ \A i \in DOMAIN ByTime(s) : \E j \in DOMAIN s : ByTime(s)[i] = s[j]
  BY <1>3, ByTimeShuffles, ShuffleKeeps
<1>5. Mixes(ByTime(s), q, r)
  BY <1>2, <1>4 DEF Mixes
<1>6. Joined(q, r) = s \/ Joined(q, r) = ByTime(s)
  BY <1>1 DEF Joined
<1> QED
  BY <1>2, <1>4, <1>5, <1>6

\* One more bubble.
LEMMA OneMoreShows ==
  ASSUME NEW x, NEW id, NEW q, Drawn(q), NEW b, DOMAIN b = Fields
  PROVE  /\ In(Append(q, b), x) <=> In(q, x) \/ x \in Shows(b)
         /\ Once(q, x) /\ ~ (In(q, x) /\ x \in Shows(b)) => Once(Append(q, b), x)
         /\ Single(q, id) /\ (b.id = id => \A i \in DOMAIN q : q[i].id # id) => Single(Append(q, b), id)
         /\ \A i \in DOMAIN Append(q, b) : Append(q, b)[i] = b \/ \E j \in DOMAIN q : Append(q, b)[i] = q[j]
<1> DEFINE s == Append(q, b)
<1>1. /\ Len(q) \in Nat /\ DOMAIN q = 1 .. Len(q) /\ DOMAIN s = 1 .. Len(q) + 1
      /\ s[Len(q) + 1] = b /\ \A i \in 1 .. Len(q) : s[i] = q[i]
  BY DrawnIs, DrawnAppend
<1> HIDE DEF s
<1>2. /\ \A i \in DOMAIN s : (i \in DOMAIN q /\ s[i] = q[i]) \/ (i = Len(q) + 1 /\ s[i] = b)
      /\ \A i \in DOMAIN q : i \in DOMAIN s /\ s[i] = q[i]
      /\ Len(q) + 1 \in DOMAIN s /\ s[Len(q) + 1] = b
  BY <1>1
<1>3. In(s, x) <=> In(q, x) \/ x \in Shows(b)
  BY <1>2 DEF In
<1>4. Once(q, x) /\ ~ (In(q, x) /\ x \in Shows(b)) => Once(s, x)
  BY <1>2 DEF In, Once
<1>5. Single(q, id) /\ (b.id = id => \A i \in DOMAIN q : q[i].id # id) => Single(s, id)
  BY <1>2 DEF Single
<1>6. \A i \in DOMAIN s : s[i] = b \/ \E j \in DOMAIN q : s[i] = q[j]
  BY <1>2
<1> QED
  BY <1>3, <1>4, <1>5, <1>6 DEF s

-----------------------------------------------------------------------------
(* The steps of the page.                                                  *)

\* The page has read or dropped the events p, and the server has done nothing.
Cuts(p, x) ==
  /\ ToSet(file') = ToSet(file) /\ script' = script /\ FiledOnce(x)' /\ ToldOnce(x)'
  /\ (Wanted(x)' <=> Wanted(x)) /\ (Stored(x)' <=> Stored(x)) /\ (Noticed(x)' <=> Noticed(x))
  /\ Coming = p \o Coming' /\ Coming' \in Seq(Frames)
  /\ Brings(Coming, x) <=> Brings(p, x) \/ Brings(Coming', x)
  /\ Brings(Underway, x) <=> Brings(p, x) \/ Brings(Underway', x)
  /\ Brings(Coming', x) <=> Brings(Underway', x) \/ Brings(script, x)
  /\ Brings(p, x) => ~ Brings(Coming', x)
  /\ Near(Coming, x) /\ Brings(Coming', x) => Near(Coming', x)

\* That is what such a step does.
LEMMA CutOnce ==
  ASSUME LegsIInv, LegsIInv', NEW x, FiledOnce(x), ToldOnce(x), NEW p \in Seq(Frames),
         unread = p \o unread', UNCHANGED <<script, file, reader, notices, had>>,
         view' \in {"away", "hydrating"} => unread' = <<>>, x \notin blurred' => x \notin blurred
  PROVE  Cuts(p, x)
<1>1. /\ unread' \in Seq(Frames) /\ Held \in Seq(Frames) /\ script \in Seq(Frames) /\ unread \in Seq(Frames)
      /\ Coming' \in Seq(Frames) /\ Coming \in Seq(Frames)
  BY TypedIs, TypedNext
<1>2. Held' = Held
  BY DEF Held
<1>3. PICK r : r = Held \o script
  OBVIOUS
<1>4. r \in Seq(Frames) /\ Coming = unread \o r /\ Coming' = unread' \o r
  BY <1>1, <1>2, <1>3, ConcatProperties DEF Coming
<1>5. Coming = p \o Coming'
  <2>1. (p \o unread') \o r = p \o (unread' \o r)
    BY <1>1, <1>4, ConcatAssociative
  <2> QED
    BY <1>4, <2>1
<1>6. PICK s : s = Coming'
  OBVIOUS
<1>7. /\ Brings(p \o s, x) <=> Brings(p, x) \/ Brings(s, x)
      /\ Streamed(p \o s, x) <=> Streamed(p, x) \/ Streamed(s, x)
  BY <1>1, <1>6, BothBring
<1>8. Thins(p \o s, s, x)
  <2>1. Thins(p, <<>>, x) /\ Thins(s, s, x) /\ <<>> \in Seq(Frames)
    BY <1>1, <1>6, ThinsNone, ThinsSelf
  <2>2. PICK n : n = <<>>
    OBVIOUS
  <2>3. Thins(p \o s, n \o s, x)
    BY <1>1, <1>6, <2>1, <2>2, ThinsConcat
  <2>4. <<>> \o s = s
    BY <1>1, <1>6, ConcatEmptySeq
  <2> QED
    BY <2>2, <2>3, <2>4
<1>9. PICK t : t = Coming
  OBVIOUS
<1>10. /\ Good(t, x) => Good(s, x)
       /\ Brings(s, x) => Brings(t, x)
       /\ Streamed(s, x) => Streamed(t, x)
       /\ Near(t, x) /\ Brings(s, x) => Near(s, x)
  BY <1>1, <1>5, <1>6, <1>8, <1>9, ThinsKeeps
<1>11. /\ Brings(script, x) => ~ Stored(x)
       /\ Noticed(x) => ~ Brings(t, x)
       /\ Good(t, x)
       /\ Stored(x) /\ x \notin blurred /\ Streamed(t, x) => Brings(t, x)
  BY <1>9 DEF ToldOnce
<1>12. Brings(p, x) => ~ Brings(s, x) /\ ~ Streamed(s, x)
  BY <1>1, <1>5, <1>6, <1>9, <1>11, GoodSplit
<1>13. /\ Wanted(x)' <=> Wanted(x)
       /\ Stored(x)' <=> Stored(x)
       /\ Noticed(x)' <=> Noticed(x)
  BY DEF Wanted, Stored, Noticed
<1>14. ToldOnce(x)'
  <2>1. Stored(x) /\ x \notin blurred' /\ Streamed(s, x) => Brings(s, x)
    BY <1>5, <1>6, <1>7, <1>9, <1>10, <1>11, <1>12
  <2> QED
    BY <1>6, <1>10, <1>11, <1>13, <2>1 DEF ToldOnce
<1>15. /\ Brings(Underway, x) <=> Brings(unread, x) \/ Brings(Held, x)
       /\ Brings(Underway', x) <=> Brings(unread', x) \/ Brings(Held', x)
       /\ Brings(unread, x) <=> Brings(p, x) \/ Brings(unread', x)
       /\ Brings(Coming', x) <=> Brings(Underway', x) \/ Brings(script', x)
  BY <1>1, ComingIs, ComingNext, BothBring
<1>16. ToSet(unread') \subseteq ToSet(unread)
  BY <1>1, SetOfJoins
<1>17. FiledOnce(x)'
  BY <1>2, <1>13, <1>16 DEF FiledOnce
<1> QED
  BY <1>1, <1>2, <1>5, <1>6, <1>7, <1>9, <1>10, <1>12, <1>13, <1>14, <1>15, <1>17 DEF Cuts

\* No event is read or dropped.
LEMMA KeptOnce ==
  ASSUME LegsIInv, LegsIInv', NEW x, FiledOnce(x), ToldOnce(x),
         UNCHANGED <<unread, script, file, reader, notices, had>>,
         view' \in {"away", "hydrating"} => unread' = <<>>, x \notin blurred' => x \notin blurred
  PROVE  Cuts(<<>>, x) /\ Coming' = Coming /\ Underway' = Underway
<1>1. <<>> \in Seq(Frames) /\ unread \in Seq(Frames)
  BY TypedIs
<1>2. unread = <<>> \o unread'
  BY <1>1, ConcatEmptySeq
<1>3. Coming' = Coming /\ Underway' = Underway
  BY DEF Coming, Underway, Held
<1> QED
  BY <1>1, <1>2, <1>3, CutOnce

\* The page is opened.
LEMMA VisitOnce ==
  ASSUME LegsIInv, LegsIInv', NEW x, ItemOnce(x), Visit
  PROVE  ItemOnce(x)'
<1>1. /\ view = "away" /\ view' = "hydrating"
      /\ UNCHANGED <<script, file, reader, notices, had, unread, ui, blurred>>
  BY DEF Visit
<1>2. FiledOnce(x) /\ ToldOnce(x) /\ PageOnce(x)
  BY DEF ItemOnce
<1>3. unread' = <<>>
  BY <1>1, <1>2 DEF FiledOnce
<1>4. Cuts(<<>>, x)
  BY <1>1, <1>2, <1>3, KeptOnce
<1>5. PageOnce(x)'
  BY <1>1, <1>2, <1>4 DEF Cuts, PageOnce, Sound, Holder, In, Kept
<1>6. LoadingOnce(x)' /\ ShowingOnce(x)'
  BY <1>1 DEF LoadingOnce, ShowingOnce
<1> QED
  BY <1>4, <1>5, <1>6 DEF ItemOnce, Cuts

\* It asks for the history.
LEMMA AskOnce ==
  ASSUME LegsIInv, LegsIInv', CaretIInv, NEW x, ItemOnce(x), Ask
  PROVE  ItemOnce(x)'
<1>1. /\ view = "hydrating" /\ view' = "loading" /\ unread' = <<>>
      /\ ui' = [ui EXCEPT !.legs = page.legs] /\ page' = [frames |-> file, legs |-> <<>>]
      /\ UNCHANGED <<script, file, reader, notices, had, blurred>>
  BY DEF Ask, serverVars
<1>2. FiledOnce(x) /\ ToldOnce(x) /\ PageOnce(x)
  BY DEF ItemOnce
<1>3. unread = <<>>
  BY <1>1, <1>2 DEF FiledOnce
<1>4. Cuts(<<>>, x)
  BY <1>1, <1>2, <1>3, KeptOnce
<1>5. ui'.bubbles = ui.bubbles /\ ui'.buffer = ui.buffer
  BY <1>1 DEF CaretIInv, Shape, PageFields
<1>6. page'.frames = file
  BY <1>1
<1>7. PageOnce(x)'
  <2>1. /\ \A i \in DOMAIN file : file[i] \in ToSet(file')
        /\ \A i, j \in DOMAIN file : file[i].item = x /\ file[j].item = x => i = j
    BY <1>1, <1>2 DEF ToSet, FiledOnce
  <2> QED
    BY <1>1, <1>2, <1>4, <1>5, <1>6, <2>1 DEF Cuts, PageOnce, Sound, Holder, In, Kept
<1>8. LoadingOnce(x)'
  BY <1>1, <1>6 DEF LoadingOnce, Wanted
<1>9. ShowingOnce(x)'
  BY <1>1 DEF ShowingOnce
<1> QED
  BY <1>4, <1>7, <1>8, <1>9 DEF ItemOnce, Cuts

\* The page stalls.
LEMMA StallOnce ==
  ASSUME LegsIInv, LegsIInv', NEW x, ItemOnce(x), Stall
  PROVE  ItemOnce(x)'
<1>1. /\ view = "here" /\ view' = "stalled" /\ had \subseteq had'
      /\ UNCHANGED <<script, file, reader, notices, page, unread, ui, blurred>>
  BY DEF Stall, serverVars, ghosts, Spend
<1>2. FiledOnce(x) /\ ToldOnce(x) /\ PageOnce(x) /\ ShowingOnce(x)
  BY DEF ItemOnce
<1>3. Coming' = Coming /\ Underway' = Underway /\ Held' = Held
  BY <1>1 DEF Coming, Underway, Held
<1>4. /\ Wanted(x)' <=> Wanted(x)
      /\ Stored(x)' <=> Stored(x)
      /\ Noticed(x)' <=> Noticed(x)
  BY <1>1 DEF Wanted, Stored, Noticed
<1>5. FiledOnce(x)'
  BY <1>1, <1>2, <1>3, <1>4 DEF FiledOnce
<1>6. ToldOnce(x)'
  BY <1>1, <1>2, <1>3, <1>4 DEF ToldOnce
<1>7. PageOnce(x)'
  BY <1>1, <1>2, <1>4 DEF PageOnce, Sound, Holder, In, Kept
<1>8. LoadingOnce(x)'
  BY <1>1 DEF LoadingOnce
<1>9. Later(x)' => Later(x)
  BY <1>1, <1>3, <1>4 DEF Later
<1>10. x \notin blurred => Fits(ui, x)
  BY <1>1, <1>2 DEF ShowingOnce
<1>11. x \notin blurred => Fits(ui, x)'
  BY <1>1, <1>3, <1>4, <1>9, <1>10 DEF Fits, In, Kept, Once, InOpen, Preview, Half
<1> QED
  BY <1>1, <1>5, <1>6, <1>7, <1>8, <1>11 DEF ItemOnce, ShowingOnce

\* A page without a buffer keeps nothing aside.
LEMMA NothingKept ==
  ASSUME NEW x, NEW u, u.buffer = NoBuffer
  PROVE  u.buffer.got = <<>> /\ DOMAIN u.buffer.got = {} /\ ~ Kept(u, x) /\ Holder(u)
<1>1. u.buffer.got = <<>> /\ DOMAIN u.buffer.got = {}
  BY DEF NoBuffer
<1> QED
  BY <1>1 DEF Kept, Holder

\* A page without a buffer, in few words.
LEMMA BareFits ==
  ASSUME NEW x, NEW u, u.buffer = NoBuffer,
         (Wanted(x) => In(u.bubbles, x) \/ Brings(Underway, x) \/ Noticed(x))',
         (Stored(x) \/ Brings(Coming, x) => Once(u.bubbles, x))',
         (Later(x) => ~ In(u.bubbles, x))'
  PROVE  Fits(u, x)'
BY NothingKept DEF Fits

\* The same for what holds whatever has been blurred.
LEMMA BareSound ==
  ASSUME NEW x, NEW u, u.buffer = NoBuffer, (x \in Made /\ In(u.bubbles, x) => Stored(x))'
  PROVE  Sound(u, x)'
BY NothingKept DEF Sound, Holder

\* The end of the streaming changes nothing that is shown.
LEMMA StoppedShows ==
  ASSUME NEW x, NEW u, Shape(u)
  PROVE  /\ Stopped(u).buffer = NoBuffer /\ (u.buffer = NoBuffer => Stopped(u) = u)
         /\ In(Stopped(u).bubbles, x) <=> In(u.bubbles, x)
         /\ Once(Stopped(u).bubbles, x) <=> Once(u.bubbles, x)
<1>1. Stopped(u).buffer = NoBuffer
  BY StoppedIs
<1>2. CASE u.buffer = NoBuffer
  BY <1>1, <1>2 DEF Stopped
<1>3. CASE u.buffer # NoBuffer
  <2> DEFINE q == u.bubbles
             r == [i \in DOMAIN q |-> IF q[i].id = u.buffer.id
                                      THEN [q[i] EXCEPT !.streaming = FALSE] ELSE q[i]]
  <2>1. Stopped(u) = [u EXCEPT !.buffer = NoBuffer, !.bubbles = r]
    BY <1>3 DEF Stopped
  <2>2. Stopped(u).bubbles = r /\ DOMAIN r = DOMAIN q
    BY <2>1 DEF Shape, PageFields
  <2>3. \A i \in DOMAIN q : DOMAIN q[i] = Fields
    BY DrawnIs DEF Shape
  <2>4. \A i \in DOMAIN q : Shows(r[i]) = Shows(q[i])
    <3> SUFFICES ASSUME NEW i \in DOMAIN q PROVE Shows(r[i]) = Shows(q[i])
      OBVIOUS
    <3>1. DOMAIN q[i] = Fields /\ r[i] \in {q[i], [q[i] EXCEPT !.streaming = FALSE]}
      BY <2>3
    <3> HIDE DEF r, q
    <3>2. r[i].text = q[i].text /\ r[i].parts = q[i].parts
      BY <3>1 DEF Fields
    <3> QED
      BY <3>2 DEF Shows, Texts
  <2> HIDE DEF r, q
  <2>5. /\ In(r, x) <=> In(q, x)
        /\ Once(r, x) <=> Once(q, x)
    BY <2>2, <2>4 DEF In, Once
  <2> QED
    BY <1>1, <1>3, <2>2, <2>5 DEF q
<1> QED
  BY <1>2, <1>3

\* The page still shows x once, or is told of it yet, when the streaming ends,
\* unless that drops it.
LEMMA StoppedFits ==
  ASSUME NEW x, NEW u, Shape(u), Sound(u, x)', Fits(u, x)', x \notin Dropped(u)
  PROVE  Fits(Stopped(u), x)'
<1>1. PICK w : w = Stopped(u)
  OBVIOUS
<1>2. /\ w.buffer = NoBuffer /\ (u.buffer = NoBuffer => w = u)
      /\ In(w.bubbles, x) <=> In(u.bubbles, x)
      /\ Once(w.bubbles, x) <=> Once(u.bubbles, x)
  BY <1>1, StoppedShows
<1>3. u.buffer = NoBuffer => ~ Kept(u, x)
  BY NothingKept
<1> DEFINE streamed == UNION {Texts(u.bubbles[i]) : i \in {i \in DOMAIN u.bubbles : u.bubbles[i].streaming}}
           got == Items(u.buffer.got)
<1>4. x \notin streamed \ got /\ x \notin got \ streamed
  BY DEF Dropped
<1>5. (x \in got <=> Kept(u, x)) /\ (x \in streamed => In(u.bubbles, x))
  BY DEF Items, Kept, In, Shows
<1>6. ASSUME In(u.bubbles, x), InOpen(u, x), u.buffer # NoBuffer PROVE x \in streamed
  <2>1. PICK i \in DOMAIN u.bubbles : x \in Shows(u.bubbles[i])
    BY <1>6 DEF In
  <2>2. u.bubbles[i].id = u.buffer.id
    BY <1>6, <2>1 DEF InOpen
  <2>3. u.bubbles[i].streaming /\ u.bubbles[i].parts = {}
    BY <1>6, <2>2 DEF Sound, Holder
  <2>4. x \in Texts(u.bubbles[i])
    BY <2>1, <2>3 DEF Shows
  <2> QED
    BY <2>3, <2>4
<1> HIDE DEF streamed, got
<1>7. Kept(u, x) => In(u.bubbles, x)
  BY <1>4, <1>5
<1>8. InOpen(u, x)' <=> InOpen(u, x)
  BY DEF InOpen
<1>9. Preview(u, x)' => u.buffer # NoBuffer /\ InOpen(u, x)
  BY <1>8 DEF Preview
<1>10. (Kept(u, x)' <=> Kept(u, x)) /\ (In(u.bubbles, x)' <=> In(u.bubbles, x))
  BY DEF Kept, In
<1>11. Later(x)' => ~ In(u.bubbles, x)
  <2>1. Later(x)' => ~ Kept(u, x) /\ (In(u.bubbles, x) => Preview(u, x)')
    BY <1>10 DEF Fits
  <2> QED
    BY <1>4, <1>5, <1>6, <1>9, <2>1
<1>12. Wanted(x)' => In(u.bubbles, x) \/ Brings(Underway, x)' \/ Noticed(x)'
  BY <1>7, <1>10 DEF Fits
<1>13. Stored(x)' \/ Brings(Coming, x)' => Once(u.bubbles, x)
  BY DEF Fits, Once
<1>14. /\ In(w.bubbles, x)' <=> In(w.bubbles, x)
       /\ Once(w.bubbles, x)' <=> Once(w.bubbles, x)
  BY DEF In, Once
<1>15. Fits(w, x)'
  BY <1>2, <1>11, <1>12, <1>13, <1>14, BareFits
<1> QED
  BY <1>1, <1>15

\* What holds whatever has been blurred still holds.
LEMMA StoppedSound ==
  ASSUME NEW x, NEW u, Shape(u), Sound(u, x)'
  PROVE  Sound(Stopped(u), x)'
<1>1. PICK w : w = Stopped(u)
  OBVIOUS
<1>2. w.buffer = NoBuffer /\ (In(w.bubbles, x) <=> In(u.bubbles, x))
  BY <1>1, StoppedShows
<1>3. x \in Made /\ In(u.bubbles, x) => Stored(x)'
  BY DEF Sound, In
<1>4. In(w.bubbles, x)' <=> In(w.bubbles, x)
  BY DEF In
<1>5. Sound(w, x)'
  BY <1>2, <1>3, <1>4, BareSound
<1> QED
  BY <1>1, <1>5

\* The page hears that the session has ended.
LEMMA HearOnce ==
  ASSUME LegsIInv, LegsIInv', CaretIInv, NEW x, ItemOnce(x), HearEnd
  PROVE  ItemOnce(x)'
<1>1. /\ ui' = Stopped(ui) /\ blurred' = blurred \cup Dropped(ui)
      /\ UNCHANGED <<script, file, reader, notices, had, view, page, unread>>
  BY DEF HearEnd, serverVars
<1>2. FiledOnce(x) /\ ToldOnce(x) /\ PageOnce(x) /\ LoadingOnce(x) /\ ShowingOnce(x)
  BY DEF ItemOnce
<1>3. view' \in {"away", "hydrating"} => unread' = <<>>
  BY <1>1, <1>2 DEF FiledOnce
<1>4. Cuts(<<>>, x) /\ Coming' = Coming /\ Underway' = Underway
  BY <1>1, <1>2, <1>3, KeptOnce
<1>5. /\ Wanted(x)' <=> Wanted(x)
      /\ Stored(x)' <=> Stored(x)
      /\ Noticed(x)' <=> Noticed(x)
      /\ ToSet(file') = ToSet(file)
  BY <1>4 DEF Cuts
<1>6. PICK u : u = ui
  OBVIOUS
<1>7. Shape(u) /\ ui' = Stopped(u)
  BY <1>1, <1>6 DEF CaretIInv
<1>8. Sound(u, x)'
  BY <1>2, <1>5, <1>6 DEF PageOnce, Sound, Holder, In, Kept
<1>9. Sound(ui, x)'
  <2>1. Sound(Stopped(u), x)'
    BY <1>7, <1>8, StoppedSound
  <2> QED
    BY <1>7, <2>1
<1>10. Stopped(u).buffer = NoBuffer /\ (u.buffer = NoBuffer => Stopped(u) = u)
  BY <1>7, StoppedShows
<1>11. PageOnce(x)'
  <2>1. view' \in {"away", "hydrating", "loading"} => ui'.bubbles = <<>> /\ ui'.buffer = NoBuffer
    BY <1>1, <1>2, <1>6, <1>7, <1>10 DEF PageOnce
  <2> QED
    BY <1>1, <1>2, <1>5, <1>9, <2>1 DEF PageOnce
<1>12. LoadingOnce(x)'
  BY <1>1, <1>2, <1>4, <1>5 DEF LoadingOnce
<1>13. ASSUME view \in {"here", "stalled", "synced"}, x \notin blurred' PROVE Fits(ui, x)'
  <2>1. Fits(u, x)
    BY <1>1, <1>2, <1>6, <1>13 DEF ShowingOnce
  <2>2. Later(x)' <=> Later(x)
    BY <1>1, <1>4, <1>5 DEF Later
  <2>3. Fits(u, x)'
    BY <1>1, <1>4, <1>5, <2>1, <2>2 DEF Fits, In, Kept, Once, InOpen, Preview, Half
  <2>4. x \notin Dropped(u)
    BY <1>1, <1>6, <1>13
  <2>5. Fits(Stopped(u), x)'
    BY <1>7, <1>8, <2>3, <2>4, StoppedFits
  <2> QED
    BY <1>7, <2>5
<1> QED
  BY <1>1, <1>4, <1>11, <1>12, <1>13 DEF ItemOnce, ShowingOnce, Cuts

\* What a history shows.
LEMMA HistoryShows ==
  ASSUME NEW x, NEW frames \in Seq(Frames), \A i \in DOMAIN frames : frames[i].kind \in SentKinds \cup Made
  PROVE  /\ In(History(frames), x) <=> \E i \in DOMAIN frames : frames[i].item = x /\ Visible(frames[i])
         /\ (\A i, j \in DOMAIN frames : frames[i].item = x /\ frames[j].item = x => i = j) =>
              Once(History(frames), x)
         /\ \A i \in DOMAIN History(frames) : History(frames)[i].id = NoId
         /\ Drawn(History(frames))
<1> DEFINE q == History(frames)
<1>1. DOMAIN q = DOMAIN frames /\ \A i \in DOMAIN frames : q[i] = Bubble(frames[i], Reloaded(frames[i]))
  BY DEF History
<1> HIDE DEF q
<1>2. \A i \in DOMAIN frames : x \in Shows(q[i]) <=> x = frames[i].item /\ Visible(frames[i])
  <2> SUFFICES ASSUME NEW i \in DOMAIN frames
               PROVE  x \in Shows(q[i]) <=> x = frames[i].item /\ Visible(frames[i])
    OBVIOUS
  <2>1. frames[i] \in Frames
    BY ElementOfSeq, LenProperties
  <2>2. PICK f, m : f = frames[i] /\ m = Reloaded(f)
    OBVIOUS
  <2>3. f.item # "filler"
    BY <2>1, <2>2, ItemsAre
  <2>4. x \in Shows(Bubble(f, m)) <=> x = f.item /\ Visible(f)
    BY <2>2, <2>3, BubbleShows
  <2> QED
    BY <1>1, <2>2, <2>4
<1>3. \A i \in DOMAIN frames : q[i].id = NoId
  <2> SUFFICES ASSUME NEW i \in DOMAIN frames PROVE q[i].id = NoId
    OBVIOUS
  <2>1. TwoForms(frames[i])
    BY FormsAre
  <2> QED
    BY <1>1, <2>1, BubbleIs DEF TwoForms
<1>4. Drawn(q)
  BY HistoryIs DEF q
<1>5. In(q, x) <=> \E i \in DOMAIN frames : frames[i].item = x /\ Visible(frames[i])
  BY <1>1, <1>2 DEF In
<1>6. (\A i, j \in DOMAIN frames : frames[i].item = x /\ frames[j].item = x => i = j) => Once(q, x)
  BY <1>1, <1>2 DEF Once
<1> QED
  BY <1>1, <1>3, <1>4, <1>5, <1>6 DEF q

\* What is in a sequence of events.
LEMMA BringsItem ==
  ASSUME NEW x, NEW s
  PROVE  Brings(s, x) => x \in Items(s)
BY DEF Brings, FrameOf, Items

\* What is pending.
LEMMA PendingIs ==
  ASSUME LegsIInv, NEW x
  PROVE  Noticed(x) \/ Brings(Held, x) => x \in Pending
<1>1. Brings(Held, x) => reader.item = x
  BY TypedIs, HeldIs
<1> QED
  BY <1>1 DEF Noticed, Pending

\* The history is shown.
LEMMA LoadedOnce ==
  ASSUME LegsIInv, LegsIInv', CaretIInv, NEW x, ItemOnce(x), Loaded
  PROVE  ItemOnce(x)'
<1>1. /\ view = "loading" /\ view' = "here"
      /\ ui' = [ui EXCEPT !.bubbles = History(page.frames),
                          !.last = IF page.frames = <<>> THEN @ ELSE Time(Last(page.frames))]
      /\ Items(page.frames) \cap (Items(unread) \cup Pending) \subseteq blurred'
      /\ blurred \subseteq blurred'
      /\ UNCHANGED <<script, file, reader, notices, had, unread>>
  BY DEF Loaded, serverVars, Blur
<1>2. FiledOnce(x) /\ ToldOnce(x) /\ PageOnce(x) /\ LoadingOnce(x)
  BY DEF ItemOnce
<1>3. Cuts(<<>>, x) /\ Coming' = Coming /\ Underway' = Underway
  BY <1>1, <1>2, KeptOnce
<1>4. PICK frames : frames = page.frames
  OBVIOUS
<1>5. frames \in Seq(Frames)
  BY <1>4 DEF CaretIInv
<1>6. /\ \A i \in DOMAIN frames : frames[i] \in ToSet(file)
      /\ \A i, j \in DOMAIN frames : frames[i].item = x /\ frames[j].item = x => i = j
  BY <1>1, <1>2, <1>4 DEF PageOnce
<1>7. \A i \in DOMAIN frames : \E k \in DOMAIN file : frames[i] = file[k]
  BY <1>6 DEF ToSet
<1>8. \A i \in DOMAIN frames : frames[i].kind \in SentKinds \cup Made
  BY <1>7, TypedIs DEF FileOK
<1>9. PICK q : q = History(frames)
  OBVIOUS
<1>10. /\ In(q, x) <=> \E i \in DOMAIN frames : frames[i].item = x /\ Visible(frames[i])
       /\ Once(q, x)
  BY <1>5, <1>6, <1>8, <1>9, HistoryShows
<1>11. ui.buffer = NoBuffer
  BY <1>1, <1>2 DEF PageOnce
<1>12. PICK u : u = ui'
  OBVIOUS
<1>13. u.bubbles = q /\ u.buffer = NoBuffer
  BY <1>1, <1>4, <1>9, <1>11, <1>12 DEF CaretIInv, Shape, PageFields
<1>14. /\ Wanted(x)' <=> Wanted(x)
       /\ Stored(x)' <=> Stored(x)
       /\ Noticed(x)' <=> Noticed(x)
       /\ ToSet(file') = ToSet(file)
  BY <1>3 DEF Cuts
<1>15. /\ In(u.bubbles, x)' <=> In(q, x)
       /\ Once(u.bubbles, x)' <=> Once(q, x)
  BY <1>13 DEF In, Once
<1>16. In(q, x) => Stored(x)
  BY <1>7, <1>10 DEF Stored
<1>17. Sound(u, x)'
  BY <1>13, <1>14, <1>15, <1>16, BareSound
<1>18. PageOnce(x)'
  BY <1>1, <1>12, <1>17 DEF PageOnce
<1>19. LoadingOnce(x)'
  BY <1>1 DEF LoadingOnce
<1>20. ASSUME x \notin blurred' PROVE Fits(u, x)'
  <2>1. Wanted(x) => In(q, x) \/ Brings(Underway, x) \/ Noticed(x)
    <3> SUFFICES ASSUME Wanted(x), NEW i \in DOMAIN frames, frames[i].item = x PROVE In(q, x)
      BY <1>1, <1>2, <1>4, <1>20 DEF LoadingOnce
    <3>1. PICK k \in DOMAIN file : file[k].item = x /\ Visible(file[k])
      BY DEF Wanted
    <3>2. PICK l \in DOMAIN file : frames[i] = file[l]
      BY <1>7
    <3>3. k = l
      BY <1>2, <3>1, <3>2 DEF FiledOnce
    <3> QED
      BY <1>10, <3>1, <3>2, <3>3
  <2>2. ASSUME In(q, x) PROVE ~ Later(x)'
    <3>1. x \in Items(frames)
      BY <1>10, <2>2 DEF Items
    <3>2. x \notin Items(unread) /\ x \notin Pending
      BY <1>1, <1>4, <1>20, <3>1
    <3>3. ~ Brings(unread, x) /\ ~ Brings(Held, x) /\ ~ Noticed(x)
      BY <3>2, BringsItem, PendingIs
    <3>4. ~ Brings(script, x)
      BY <1>2, <1>16, <2>2 DEF ToldOnce
    <3>5. ~ Brings(Coming, x)
      BY <3>3, <3>4, ComingIs
    <3> QED
      BY <1>1, <1>3, <1>14, <3>3, <3>5 DEF Later
  <2>3. Wanted(x)' => In(u.bubbles, x)' \/ Brings(Underway, x)' \/ Noticed(x)'
    BY <1>3, <1>14, <1>15, <2>1
  <2> QED
    BY <1>10, <1>13, <1>15, <2>2, <2>3, BareFits
<1> QED
  BY <1>1, <1>3, <1>12, <1>18, <1>19, <1>20 DEF ItemOnce, ShowingOnce, Cuts

\* The page polls again.
LEMMA ReconnectOnce ==
  ASSUME LegsIInv, LegsIInv', NEW x, ItemOnce(x), Reconnect
  PROVE  ItemOnce(x)'
<1> DEFINE settled == (UNION {Shows(ui.bubbles[i]) : i \in DOMAIN ui.bubbles \ Streaming})
                        \cup Items(ui.buffer.got)
<1>1. /\ view = "synced" /\ view' = "here" /\ unread' = <<>> /\ ui' = ui
      /\ blurred' = blurred \cup (Items(unread) \ settled) \cup Pending
      /\ UNCHANGED <<script, file, reader, notices, had, page>>
  BY DEF Reconnect, serverVars
<1>2. FiledOnce(x) /\ ToldOnce(x) /\ PageOnce(x) /\ ShowingOnce(x)
  BY DEF ItemOnce
<1>3. unread \in Seq(Frames)
  BY TypedIs
<1>4. unread = unread \o unread'
  BY <1>1, <1>3, ConcatEmptySeq
<1>5. Cuts(unread, x)
  BY <1>1, <1>2, <1>3, <1>4, CutOnce
<1>6. PageOnce(x)'
  BY <1>1, <1>2, <1>5 DEF Cuts, PageOnce, Sound, Holder, In, Kept
<1>7. LoadingOnce(x)'
  BY <1>1 DEF LoadingOnce
<1>8. x \in settled => Kept(ui, x) \/ \E i \in DOMAIN ui.bubbles : x \in Shows(ui.bubbles[i]) /\ ~ ui.bubbles[i].streaming
  <2>1. x \in Items(ui.buffer.got) => Kept(ui, x)
    BY DEF Items, Kept
  <2>2. ASSUME NEW i \in DOMAIN ui.bubbles \ Streaming, x \in Shows(ui.bubbles[i])
        PROVE  i \in DOMAIN ui.bubbles /\ ~ ui.bubbles[i].streaming
    BY DEF Streaming
  <2>3. ASSUME x \in UNION {Shows(ui.bubbles[i]) : i \in DOMAIN ui.bubbles \ Streaming}
        PROVE  \E i \in DOMAIN ui.bubbles : x \in Shows(ui.bubbles[i]) /\ ~ ui.bubbles[i].streaming
    <3>1. \E i \in DOMAIN ui.bubbles \ Streaming : x \in Shows(ui.bubbles[i])
      BY <2>3
    <3>2. PICK i \in DOMAIN ui.bubbles \ Streaming : x \in Shows(ui.bubbles[i])
      BY <3>1
    <3>3. i \in DOMAIN ui.bubbles /\ ~ ui.bubbles[i].streaming
      BY <2>2, <3>2
    <3> QED
      BY <3>2, <3>3
  <2> QED
    BY <2>1, <2>3
<1>9. Brings(unread, x) /\ x \notin blurred' => x \in settled
  <2>1. Brings(unread, x) => x \in Items(unread)
    BY BringsItem
  <2> HIDE DEF settled
  <2> QED
    BY <1>1, <2>1
<1>10. x \notin blurred' => x \notin blurred /\ ~ Noticed(x) /\ ~ Brings(Held, x)
  <2> HIDE DEF settled
  <2> QED
    BY <1>1, PendingIs
<1> HIDE DEF settled
<1>11. ASSUME x \notin blurred' PROVE Fits(ui, x)'
  <2>1. PICK u : u = ui
    OBVIOUS
  <2>2. Fits(u, x)
    BY <1>1, <1>2, <1>10, <1>11, <2>1 DEF ShowingOnce
  <2>3. /\ Wanted(x)' <=> Wanted(x)
        /\ Stored(x)' <=> Stored(x)
        /\ ~ Noticed(x) /\ ~ Noticed(x)'
        /\ Brings(Coming, x) <=> Brings(unread, x) \/ Brings(Coming', x)
        /\ Near(Coming, x) /\ Brings(Coming', x) => Near(Coming', x)
    BY <1>5, <1>10, <1>11 DEF Cuts
  <2>4. Brings(Underway, x) => Brings(unread, x)
    BY <1>10, <1>11, ComingIs
  <2>5. Brings(Coming', x) <=> Brings(script, x)
    <3>1. Held' = Held /\ script' = script
      BY <1>1 DEF Held
    <3>2. /\ Brings(Underway', x) <=> Brings(unread', x) \/ Brings(Held', x)
          /\ Brings(Coming', x) <=> Brings(Underway', x) \/ Brings(script', x)
      BY ComingNext
    <3>3. ~ Brings(unread', x)
      BY <1>1, NoneIs
    <3> QED
      BY <1>10, <1>11, <3>1, <3>2, <3>3
  <2>6. Later(x) <=> Brings(script, x)
    BY <1>1 DEF Later
  <2>7. Later(x)' <=> Brings(Coming', x)
    BY <1>1, <2>3 DEF Later
  <2>8. Brings(unread, x) =>
          Kept(u, x) \/ \E i \in DOMAIN u.bubbles : x \in Shows(u.bubbles[i]) /\ ~ u.bubbles[i].streaming
    BY <1>8, <1>9, <1>11, <2>1
  <2>9. /\ In(u.bubbles, x)' <=> In(u.bubbles, x)
        /\ Kept(u, x)' <=> Kept(u, x)
        /\ Once(u.bubbles, x)' <=> Once(u.bubbles, x)
        /\ InOpen(u, x)' <=> InOpen(u, x)
        /\ Half(u, x)' <=> Half(u, x)
    BY DEF In, Kept, Once, InOpen, Half
  <2>10. Wanted(x)' => In(u.bubbles, x) \/ Kept(u, x)
    <3>1. Wanted(x) => In(u.bubbles, x) \/ Kept(u, x) \/ Brings(Underway, x)
      BY <2>2, <2>3 DEF Fits
    <3>2. Brings(unread, x) => In(u.bubbles, x) \/ Kept(u, x)
      BY <2>8 DEF In
    <3> QED
      BY <2>3, <2>4, <3>1, <3>2
  <2>11. Stored(x)' \/ Brings(Coming', x) => Once(u.bubbles, x)
    BY <2>2, <2>3 DEF Fits
  <2>12. Later(x)' => ~ Kept(u, x) /\ (In(u.bubbles, x) => Preview(u, x)')
    <3>1. Later(x)' => ~ Kept(u, x) /\ (In(u.bubbles, x) => Preview(u, x))
      BY <2>2, <2>5, <2>6, <2>7 DEF Fits
    <3>2. Later(x)' /\ Preview(u, x) => Preview(u, x)'
      BY <2>3, <2>7, <2>9 DEF Preview
    <3> QED
      BY <3>1, <3>2
  <2>13. ASSUME u.buffer # NoBuffer, Stored(x), Half(u, x), ~ Kept(u, x) PROVE Brings(Coming', x)
    <3>1. Brings(Coming, x) /\ Once(u.bubbles, x)
      BY <2>2, <2>13 DEF Fits
    <3>2. ~ Brings(unread, x)
      <4> SUFFICES ASSUME NEW i \in DOMAIN u.bubbles, x \in Shows(u.bubbles[i]), ~ u.bubbles[i].streaming
                   PROVE  FALSE
        BY <2>8, <2>13
      <4>1. PICK j \in DOMAIN u.bubbles : u.bubbles[j].id = u.buffer.id /\ x \in Shows(u.bubbles[j])
        BY <2>13 DEF Half
      <4>2. i = j
        BY <3>1, <4>1 DEF Once
      <4>3. u.bubbles[j].streaming
        BY <1>2, <2>1, <2>13, <4>1 DEF PageOnce, Sound, Holder
      <4> QED
        BY <4>2, <4>3
    <3> QED
      BY <2>3, <3>1, <3>2
  <2>14. Fits(u, x)'
    <3>1. (Brings(Coming, x)' <=> Brings(Coming', x))
      OBVIOUS
    <3>2. /\ Kept(u, x) => InOpen(u, x)
          /\ \A i, j \in DOMAIN u.buffer.got :
                u.buffer.got[i].item = x /\ u.buffer.got[j].item = x => i = j
      BY <2>2 DEF Fits
    <3> QED
      BY <2>3, <2>9, <2>10, <2>11, <2>12, <2>13, <3>1, <3>2 DEF Fits
  <2> QED
    BY <1>1, <2>1, <2>14
<1> QED
  BY <1>1, <1>5, <1>6, <1>7, <1>11 DEF ItemOnce, ShowingOnce, Cuts

\* What is newer is a part of the file.
LEMMA NewerPart ==
  ASSUME FileOK, NEW x
  PROVE  /\ Newer \in Seq(Frames) /\ \A i \in DOMAIN Newer : Newer[i] \in ToSet(file)
         /\ (\A i, j \in DOMAIN file : file[i].item = x /\ file[j].item = x => i = j) =>
              \A i, j \in DOMAIN Newer : Newer[i].item = x /\ Newer[j].item = x => i = j
<1> DEFINE I == {i \in DOMAIN file : Time(file[i]) <= ui.last}
           c == Cardinality(I)
           n == Len(file)
           r == Newer
<1>1. file \in Seq(Frames) /\ n \in Nat /\ DOMAIN file = 1 .. n
  BY LenProperties DEF FileOK
<1>2. c \in Nat /\ c <= n
  <2>1. IsFiniteSet(1 .. n) /\ Cardinality(1 .. n) = n
    BY <1>1, FS_Interval
  <2>2. I \in SUBSET (1 .. n)
    BY <1>1
  <2> HIDE DEF I
  <2>3. IsFiniteSet(I) /\ Cardinality(I) <= Cardinality(1 .. n)
    BY <2>1, <2>2, FS_Subset
  <2> QED
    BY <2>1, <2>3, FS_CardinalityType
<1>3. Newer = SubSeq(file, 1 + c, n)
  BY DEF Newer
<1> HIDE DEF I, c, n, r
<1>4. \A i \in 1 + c .. n : file[i] \in Frames
  BY <1>1, <1>2, ElementOfSeq
<1>5. /\ r \in Seq(Frames) /\ Len(r) = IF 1 + c <= n THEN n - (1 + c) + 1 ELSE 0
      /\ \A i \in 1 .. n - (1 + c) + 1 : r[i] = file[1 + c + i - 1]
  BY <1>1, <1>2, <1>3, <1>4, SubSeqProperties DEF r
<1>6. DOMAIN r = 1 .. n - c
  <2>1. DOMAIN r = 1 .. Len(r)
    BY <1>5, LenProperties
  <2>2. Len(r) = n - c
    BY <1>1, <1>2, <1>5
  <2> QED
    BY <2>1, <2>2
<1>7. \A i \in 1 .. n - c : /\ i \in Int /\ c \in Int
                            /\ i \in 1 .. n - (1 + c) + 1 /\ 1 + c + i - 1 = c + i /\ c + i \in 1 .. n
  BY <1>1, <1>2
<1>8. \A i \in DOMAIN r : c + i \in DOMAIN file /\ r[i] = file[c + i] /\ i \in Int /\ c \in Int
  BY <1>1, <1>5, <1>6, <1>7
<1>9. \A i \in DOMAIN r : r[i] \in ToSet(file)
  BY <1>8 DEF ToSet
<1>10. ASSUME \A i, j \in DOMAIN file : file[i].item = x /\ file[j].item = x => i = j,
              NEW i \in DOMAIN r, NEW j \in DOMAIN r, r[i].item = x, r[j].item = x
       PROVE  i = j
  <2>1. c + i = c + j
    BY <1>8, <1>10
  <2> QED
    BY <1>8, <2>1
<1> QED
  BY <1>5, <1>9, <1>10 DEF r

\* The page gets what is newer than what it has.
LEMMA SyncOnce ==
  ASSUME LegsIInv, LegsIInv', CaretIInv, NEW x, ItemOnce(x), Sync
  PROVE  ItemOnce(x)'
<1> DEFINE lost == Items(Newer) \cap (Shown(ui.bubbles) \cup Items(ui.buffer.got))
<1>1. /\ view = "stalled" /\ view' = "synced"
      /\ UNCHANGED <<script, file, reader, notices, had, page, unread>>
  BY DEF Sync, serverVars
<1>2. \/ ui' = ui /\ blurred \subseteq blurred'
      \/ /\ \E last, legs : ui' = [ui EXCEPT !.bubbles = Joined(ui.bubbles, History(Newer)),
                                             !.last = last, !.legs = legs]
         /\ blurred' = blurred \cup lost
  BY DEF Sync
<1>3. FiledOnce(x) /\ ToldOnce(x) /\ PageOnce(x) /\ ShowingOnce(x)
  BY DEF ItemOnce
<1>4. blurred \subseteq blurred'
  <2> HIDE DEF lost
  <2> QED
    BY <1>2
<1>5. Cuts(<<>>, x) /\ Coming' = Coming /\ Underway' = Underway
  BY <1>1, <1>3, <1>4, KeptOnce
<1>6. /\ Wanted(x)' <=> Wanted(x)
      /\ Stored(x)' <=> Stored(x)
      /\ Noticed(x)' <=> Noticed(x)
      /\ ToSet(file') = ToSet(file)
  BY <1>5 DEF Cuts
<1>7. FileOK
  BY TypedIs
<1>8. PICK n : n = Newer
  OBVIOUS
<1>9. /\ n \in Seq(Frames) /\ \A i \in DOMAIN n : n[i] \in ToSet(file)
      /\ \A i, j \in DOMAIN n : n[i].item = x /\ n[j].item = x => i = j
  BY <1>3, <1>7, <1>8, NewerPart DEF FiledOnce
<1>10. \A i \in DOMAIN n : \E k \in DOMAIN file : n[i] = file[k]
  BY <1>9 DEF ToSet
<1>11. \A i \in DOMAIN n : n[i].kind \in SentKinds \cup Made
  BY <1>7, <1>10 DEF FileOK
<1>12. PICK h : h = History(n)
  OBVIOUS
<1>13. /\ In(h, x) <=> \E i \in DOMAIN n : n[i].item = x /\ Visible(n[i])
       /\ Once(h, x) /\ Drawn(h) /\ \A i \in DOMAIN h : h[i].id = NoId
  BY <1>9, <1>11, <1>12, HistoryShows
<1>14. In(h, x) => x \in Items(n) /\ Stored(x)
  BY <1>10, <1>13 DEF Items, Stored
<1>15. PICK u : u = ui
  OBVIOUS
<1>16. Shape(u) /\ Sound(u, x)
  BY <1>3, <1>15 DEF CaretIInv, PageOnce
<1>17. PICK w : w = ui'
  OBVIOUS
<1>18. PICK all : all = Joined(u.bubbles, h)
  OBVIOUS
<1>19. \/ w = u
       \/ w.bubbles = all /\ w.buffer = u.buffer /\ blurred' = blurred \cup lost
  BY <1>2, <1>8, <1>12, <1>15, <1>16, <1>17, <1>18 DEF Shape, PageFields
<1>20. /\ In(all, x) <=> In(u.bubbles, x) \/ In(h, x)
       /\ Once(u.bubbles, x) /\ Once(h, x) /\ ~ (In(u.bubbles, x) /\ In(h, x)) => Once(all, x)
       /\ Single(u.bubbles, u.buffer.id) /\ (\A i \in DOMAIN h : h[i].id # u.buffer.id) =>
            Single(all, u.buffer.id)
       /\ Mixes(all, u.bubbles, h)
  BY <1>13, <1>16, <1>18, JoinedShows DEF Shape
<1>21. u.buffer # NoBuffer => u.buffer.id # NoId
  BY <1>16 DEF Shape
<1>22. ASSUME u.buffer # NoBuffer, NEW i \in DOMAIN all, all[i].id = u.buffer.id
       PROVE  \E j \in DOMAIN u.bubbles : all[i] = u.bubbles[j] /\ u.bubbles[j].id = u.buffer.id
  BY <1>13, <1>20, <1>21, <1>22 DEF Mixes
<1>23. Sound(w, x)'
  <2>1. CASE w = u
    BY <1>6, <1>16, <2>1 DEF Sound, Holder, In, Kept
  <2>2. CASE w.bubbles = all /\ w.buffer = u.buffer
    <3>1. Holder(w)
      <4> SUFFICES ASSUME u.buffer # NoBuffer, NEW i \in DOMAIN all, NEW j \in DOMAIN all,
                          all[i].id = u.buffer.id
                   PROVE  /\ all[i].streaming /\ all[i].parts = {} /\ all[i].text \in Seq(Names)
                          /\ all[j].id = u.buffer.id => i = j
        BY <2>2 DEF Holder
      <4>1. Single(u.bubbles, u.buffer.id)
        BY <1>16 DEF Sound, Holder, Single
      <4>2. Single(all, u.buffer.id)
        BY <1>13, <1>20, <1>21, <4>1
      <4> QED
        BY <1>16, <1>22, <4>2 DEF Sound, Holder, Single
    <3>2. In(w.bubbles, x) => In(u.bubbles, x) \/ Stored(x)
      BY <1>14, <1>20, <2>2
    <3> QED
      BY <1>6, <1>16, <2>2, <3>1, <3>2 DEF Sound, Holder, In, Kept
  <2> QED
    BY <1>19, <2>1, <2>2
<1>24. PageOnce(x)'
  BY <1>1, <1>17, <1>23 DEF PageOnce
<1>25. LoadingOnce(x)'
  BY <1>1 DEF LoadingOnce
<1>26. ASSUME x \notin blurred' PROVE Fits(w, x)'
  <2>1. Fits(u, x)
    BY <1>1, <1>3, <1>4, <1>15, <1>26 DEF ShowingOnce
  <2>2. Later(x)' => Later(x) /\ ~ Stored(x)
    <3>1. Later(x)' <=> Brings(script, x)
      BY <1>1 DEF Later
    <3>2. Later(x) <=> Brings(Coming, x) \/ Noticed(x)
      BY <1>1 DEF Later
    <3>3. Brings(script, x) => Brings(Coming, x) /\ ~ Stored(x)
      BY <1>3, ComingIs DEF ToldOnce
    <3> QED
      BY <3>1, <3>2, <3>3
  <2>3. CASE w = u
    BY <1>5, <1>6, <2>1, <2>2, <2>3 DEF Fits, In, Kept, Once, InOpen, Preview, Half
  <2>4. CASE w.bubbles = all /\ w.buffer = u.buffer /\ blurred' = blurred \cup lost
    <3>1. x \in Items(n) => ~ In(u.bubbles, x) /\ ~ Kept(u, x)
      <4>1. x \in Items(n) => x \notin Shown(ui.bubbles) /\ x \notin Items(ui.buffer.got)
        BY <1>8, <1>26, <2>4
      <4> QED
        BY <1>15, <4>1 DEF Shown, Items, In, Kept
    <3>2. /\ In(w.bubbles, x) <=> In(u.bubbles, x) \/ In(h, x)
          /\ Once(u.bubbles, x) => Once(w.bubbles, x)
          /\ Kept(w, x) <=> Kept(u, x)
      BY <1>13, <1>14, <1>20, <2>4, <3>1 DEF Kept
    <3>3. ~ In(h, x) /\ InOpen(u, x) => InOpen(w, x)
      <4> SUFFICES ASSUME ~ In(h, x), InOpen(u, x), NEW i \in DOMAIN all, x \in Shows(all[i])
                   PROVE  all[i].id = u.buffer.id
        BY <2>4 DEF InOpen
      <4> QED
        BY <1>20 DEF Mixes, In, InOpen
    <3>4. u.buffer # NoBuffer /\ Half(w, x) => Half(u, x)
      BY <1>22, <2>4 DEF Half
    <3>5. Wanted(x)' => In(w.bubbles, x) \/ Kept(w, x) \/ Brings(Underway, x)' \/ Noticed(x)'
      BY <1>5, <1>6, <2>1, <3>2 DEF Fits
    <3>6. Stored(x)' \/ Brings(Coming, x)' => Once(w.bubbles, x)
      BY <1>5, <1>6, <2>1, <3>2 DEF Fits
    <3>7. Later(x)' => ~ Kept(w, x) /\ (In(w.bubbles, x) => Preview(w, x)')
      <4> SUFFICES ASSUME Later(x)' PROVE ~ Kept(w, x) /\ (In(w.bubbles, x) => Preview(w, x)')
        OBVIOUS
      <4>1. ~ In(h, x) /\ ~ Kept(u, x) /\ (In(u.bubbles, x) => Preview(u, x))
        BY <1>14, <2>1, <2>2 DEF Fits
      <4>2. Preview(u, x) => Preview(w, x)'
        BY <1>5, <2>4, <3>3, <4>1 DEF Preview, InOpen
      <4> QED
        BY <3>2, <4>1, <4>2
    <3>8. Kept(w, x) => InOpen(w, x)
      <4>1. Kept(u, x) => InOpen(u, x) /\ ~ In(h, x)
        BY <1>14, <2>1, <3>1 DEF Fits
      <4> QED
        BY <3>2, <3>3, <4>1
    <3>9. /\ \A i, j \in DOMAIN w.buffer.got : w.buffer.got[i].item = x /\ w.buffer.got[j].item = x => i = j
          /\ w.buffer # NoBuffer /\ Stored(x)' /\ Half(w, x) => Brings(Coming, x)' \/ Kept(w, x)
      BY <1>5, <1>6, <2>1, <2>4, <3>2, <3>4 DEF Fits
    <3>10. /\ In(w.bubbles, x)' <=> In(w.bubbles, x)
           /\ Kept(w, x)' <=> Kept(w, x)
           /\ Once(w.bubbles, x)' <=> Once(w.bubbles, x)
           /\ InOpen(w, x)' <=> InOpen(w, x)
           /\ Half(w, x)' <=> Half(w, x)
      BY DEF In, Kept, Once, InOpen, Half
    <3> QED
      BY <3>5, <3>6, <3>7, <3>8, <3>9, <3>10 DEF Fits
  <2> QED
    BY <1>19, <2>3, <2>4
<1> QED
  BY <1>1, <1>5, <1>17, <1>24, <1>25, <1>26 DEF ItemOnce, ShowingOnce, Cuts

-----------------------------------------------------------------------------
(* What the page does with an event.                                       *)

\* The page reads the event e, and nothing else happens.
Hears(e, x) ==
  /\ e \in Frames /\ view = "here" /\ view' = "here" /\ Cuts(<<e>>, x)
  /\ x \notin blurred' => x \notin blurred
  /\ FrameOf(e, x) =>
       /\ Stored(x) /\ e \in ToSet(file) /\ (Wanted(x) => Visible(e))
       /\ Later(x) /\ ~ Later(x)'
       /\ Near(Coming, x) => e.kind \in TextAnswers
  /\ ~ FrameOf(e, x) =>
       /\ Brings(Coming', x) <=> Brings(Coming, x)
       /\ Brings(Underway', x) <=> Brings(Underway, x)
       /\ Later(x)' <=> Later(x)
       /\ Near(Coming, x) => Near(Coming', x) /\ ~ Breaks(e)
  /\ DeltaOf(e, x) =>
       /\ ~ FrameOf(e, x) /\ ~ Noticed(x) /\ x \notin Made
       /\ Brings(Coming', x) => Near(Coming', x)
       /\ Stored(x) /\ x \notin blurred => Brings(Coming', x)
  /\ Noticed(x) => ~ Brings(Coming, x)
  /\ \A i, j \in DOMAIN file : file[i].item = x /\ file[j].item = x => i = j
  /\ Wanted(x) => Stored(x)
  /\ Stored(x) /\ Brings(Coming', x) => Brings(Underway', x)

\* That is what the step is when the page reads the first of its events.
LEMMA HearsIs ==
  ASSUME LegsIInv, LegsIInv', NEW x, FiledOnce(x), ToldOnce(x),
         view = "here", view' = "here", unread # <<>>, unread' = Tail(unread),
         UNCHANGED <<script, file, reader, notices, had>>, x \notin blurred' => x \notin blurred
  PROVE  Hears(Head(unread), x)
<1>1. PICK e : e = Head(unread)
  OBVIOUS
<1>2. e \in Frames /\ unread = <<e>> \o unread' /\ unread \in Seq(Frames)
  BY <1>1, TypedIs, FirstAndRest
<1>3. PICK p : p = <<e>>
  OBVIOUS
<1>4. /\ p \in Seq(Frames) /\ ToSet(p) = {e}
      /\ Brings(p, x) <=> FrameOf(e, x)
      /\ Streamed(p, x) <=> DeltaOf(e, x)
  BY <1>2, <1>3, SingleIs
<1>5. Cuts(p, x)
  BY <1>2, <1>3, <1>4, CutOnce
<1>6. PICK s : s = Coming'
  OBVIOUS
<1>7. /\ (Wanted(x)' <=> Wanted(x)) /\ (Stored(x)' <=> Stored(x)) /\ (Noticed(x)' <=> Noticed(x))
      /\ Coming = p \o s /\ s \in Seq(Frames)
      /\ Brings(Coming, x) <=> FrameOf(e, x) \/ Brings(s, x)
      /\ Brings(Underway, x) <=> FrameOf(e, x) \/ Brings(Underway', x)
      /\ Brings(s, x) <=> Brings(Underway', x) \/ Brings(script, x)
      /\ FrameOf(e, x) => ~ Brings(s, x)
      /\ Near(Coming, x) /\ Brings(s, x) => Near(s, x)
  BY <1>4, <1>5, <1>6 DEF Cuts
<1>8. e \in ToSet(unread)
  <2>1. ToSet(p \o unread') = ToSet(p) \cup ToSet(unread')
    BY <1>4, TypedNext, SetOfJoins
  <2> QED
    BY <1>2, <1>3, <1>4, <2>1
<1>9. FrameOf(e, x) => e \in ToSet(file)
  BY <1>8 DEF FiledOnce
<1>10. Wanted(x) => Stored(x)
  BY DEF Wanted, Stored
<1>11. FrameOf(e, x) => Stored(x) /\ (Wanted(x) => Visible(e))
  <2> SUFFICES ASSUME FrameOf(e, x) PROVE Stored(x) /\ (Wanted(x) => Visible(e))
    OBVIOUS
  <2>1. PICK i \in DOMAIN file : file[i] = e
    BY <1>9 DEF ToSet
  <2>2. file[i].item = x
    BY <2>1 DEF FrameOf
  <2> QED
    BY <2>1, <2>2 DEF FiledOnce, Stored, Wanted
<1>12. /\ Brings(script, x) => ~ Stored(x)
       /\ Noticed(x) => ~ Brings(Coming, x)
       /\ Good(Coming, x)
       /\ Stored(x) /\ x \notin blurred /\ Streamed(Coming, x) => Brings(Coming, x)
  BY DEF ToldOnce
<1>13. (Later(x) <=> Brings(Coming, x) \/ Noticed(x)) /\ (Later(x)' <=> Brings(s, x) \/ Noticed(x))
  BY <1>6, <1>7 DEF Later
<1>14. PICK t : t = Coming
  OBVIOUS
<1>15. /\ Near(t, x) /\ Brings(s, x) => ~ Breaks(e)
       /\ Near(t, x) /\ FrameOf(e, x) => e.kind \in TextAnswers
       /\ DeltaOf(e, x) /\ Brings(s, x) => Near(s, x)
  <2>1. t = <<e>> \o s /\ Good(<<e>> \o s, x)
    BY <1>3, <1>7, <1>12, <1>14
  <2> QED
    BY <1>2, <1>7, <2>1, NearFirst
<1>16. Near(t, x) => Brings(t, x)
  BY DEF Near
<1>17. DeltaOf(e, x) => ~ FrameOf(e, x) /\ x \notin Made
  <2> SUFFICES ASSUME DeltaOf(e, x) PROVE ~ FrameOf(e, x) /\ x \notin Made
    OBVIOUS
  <2>1. e.kind = "delta" /\ e.item = x
    BY DEF DeltaOf
  <2> QED
    BY <1>2, <2>1, ItemsAre DEF FrameOf, Pieces, Made
<1>18. x \notin Made => ~ Noticed(x)
  BY TypedIs, ItemsAre DEF Noticed
<1>19. Streamed(Coming, x) <=> Streamed(p, x) \/ Streamed(s, x)
  BY <1>4, <1>7, BothBring
<1>20. DeltaOf(e, x) /\ Stored(x) /\ x \notin blurred => Brings(s, x)
  BY <1>4, <1>7, <1>12, <1>17, <1>19
<1>21. Stored(x) /\ Brings(s, x) => Brings(Underway', x)
  BY <1>7, <1>12
<1>22. FrameOf(e, x) => Later(x) /\ ~ Later(x)'
  BY <1>7, <1>12, <1>13
<1>23. \A i, j \in DOMAIN file : file[i].item = x /\ file[j].item = x => i = j
  BY DEF FiledOnce
<1> QED
  BY <1>23, <1>1, <1>2, <1>3, <1>5, <1>6, <1>7, <1>9, <1>10, <1>11, <1>12, <1>13, <1>14, <1>15, <1>16, <1>17,
     <1>18, <1>20, <1>21, <1>22 DEF Hears

\* An event that is no frame of x changes little about it.
LEMMA Carried ==
  ASSUME NEW x, NEW e, Hears(e, x), ~ FrameOf(e, x), NEW u, NEW w, Fits(u, x),
         In(u.bubbles, x) \/ Kept(u, x) => In(w.bubbles, x) \/ Kept(w, x),
         Once(u.bubbles, x) => Once(w.bubbles, x),
         In(w.bubbles, x) => In(u.bubbles, x),
         Kept(w, x) => Kept(u, x) /\ InOpen(w, x),
         ~ Breaks(e) /\ u.buffer # NoBuffer /\ InOpen(u, x) => w.buffer # NoBuffer /\ InOpen(w, x),
         \A i, j \in DOMAIN w.buffer.got :
           w.buffer.got[i].item = x /\ w.buffer.got[j].item = x => i = j,
         w.buffer # NoBuffer /\ Half(w, x) /\ Stored(x) => Brings(Coming, x) \/ Kept(w, x)
  PROVE  Fits(w, x)'
<1>1. /\ In(w.bubbles, x)' <=> In(w.bubbles, x)
      /\ Kept(w, x)' <=> Kept(w, x)
      /\ Once(w.bubbles, x)' <=> Once(w.bubbles, x)
      /\ InOpen(w, x)' <=> InOpen(w, x)
      /\ Half(w, x)' <=> Half(w, x)
  BY DEF In, Kept, Once, InOpen, Half
<1>2. /\ (Wanted(x)' <=> Wanted(x)) /\ (Stored(x)' <=> Stored(x)) /\ (Noticed(x)' <=> Noticed(x))
      /\ Brings(Coming, x)' <=> Brings(Coming, x)
      /\ Brings(Underway, x)' <=> Brings(Underway, x)
      /\ Later(x)' <=> Later(x)
      /\ Near(Coming, x) => Near(Coming, x)' /\ ~ Breaks(e)
  BY DEF Hears, Cuts
<1>3. /\ Wanted(x) => In(u.bubbles, x) \/ Kept(u, x) \/ Brings(Underway, x) \/ Noticed(x)
      /\ Stored(x) \/ Brings(Coming, x) => Once(u.bubbles, x)
      /\ Later(x) => ~ Kept(u, x) /\ (In(u.bubbles, x) => Preview(u, x))
  BY DEF Fits
<1>4. Later(x) => ~ Kept(w, x) /\ (In(w.bubbles, x) => Preview(w, x)')
  BY <1>1, <1>2, <1>3 DEF Preview
<1> QED
  BY <1>1, <1>2, <1>3, <1>4 DEF Fits

\* A page where x is in the same places.
LEMMA AlikeIs ==
  ASSUME NEW x, NEW u, NEW w, w.buffer = u.buffer, DOMAIN w.bubbles = DOMAIN u.bubbles,
         \A i \in DOMAIN u.bubbles :
           /\ w.bubbles[i].id = u.bubbles[i].id
           /\ x \in Shows(w.bubbles[i]) <=> x \in Shows(u.bubbles[i])
  PROVE  /\ In(w.bubbles, x) <=> In(u.bubbles, x)
         /\ Kept(w, x) <=> Kept(u, x)
         /\ Once(w.bubbles, x) <=> Once(u.bubbles, x)
         /\ InOpen(w, x) <=> InOpen(u, x)
         /\ Half(w, x) <=> Half(u, x)
BY DEF In, Kept, Once, InOpen, Half

\* Such a page shows x once, if the other did.
LEMMA AlikeFits ==
  ASSUME NEW x, NEW e, Hears(e, x), ~ FrameOf(e, x), NEW u, NEW w, Fits(u, x),
         w.buffer = u.buffer, DOMAIN w.bubbles = DOMAIN u.bubbles,
         \A i \in DOMAIN u.bubbles :
           /\ w.bubbles[i].id = u.bubbles[i].id
           /\ x \in Shows(w.bubbles[i]) <=> x \in Shows(u.bubbles[i])
  PROVE  Fits(w, x)'
<1>1. /\ In(w.bubbles, x) <=> In(u.bubbles, x)
      /\ Kept(w, x) <=> Kept(u, x)
      /\ Once(w.bubbles, x) <=> Once(u.bubbles, x)
      /\ InOpen(w, x) <=> InOpen(u, x)
      /\ Half(w, x) <=> Half(u, x)
  BY AlikeIs
<1>2. /\ Kept(u, x) => InOpen(u, x)
      /\ \A i, j \in DOMAIN u.buffer.got : u.buffer.got[i].item = x /\ u.buffer.got[j].item = x => i = j
      /\ u.buffer # NoBuffer /\ Stored(x) /\ Half(u, x) => Brings(Coming, x) \/ Kept(u, x)
  BY DEF Fits
<1> QED
  BY <1>1, <1>2, Carried

\* What is kept aside and not lost when the buffer is dropped is shown.
LEMMA NotDropped ==
  ASSUME NEW x, NEW u, x \notin Dropped(u), Kept(u, x)
  PROVE  In(u.bubbles, x)
<1> DEFINE streamed == UNION {Texts(u.bubbles[i]) : i \in {i \in DOMAIN u.bubbles : u.bubbles[i].streaming}}
           got == Items(u.buffer.got)
<1>1. x \notin streamed \ got /\ x \notin got \ streamed
  BY DEF Dropped
<1>2. (x \in got <=> Kept(u, x)) /\ (x \in streamed => In(u.bubbles, x))
  BY DEF Items, Kept, In, Shows
<1> HIDE DEF streamed, got
<1> QED
  BY <1>1, <1>2

\* What holds of the page after the event.
Heard(e, x) == Sound(ui, x)' /\ (x \notin blurred' => Fits(ui, x)')

\* A response starts.
LEMMA StartOnce ==
  ASSUME NEW x, NEW e, Hears(e, x), Shape(ui), Sound(ui, x), x \notin blurred => Fits(ui, x),
         StartStream(e)
  PROVE  Heard(e, x)
<1>1. ~ FrameOf(e, x) /\ Breaks(e) /\ (x \notin blurred' => x \notin blurred)
      /\ ToSet(file') = ToSet(file) /\ (Stored(x)' <=> Stored(x))
  BY DEF StartStream, FrameOf, Pieces, Breaks, Hears, Cuts
<1>2. PICK u, w : u = ui /\ w = ui'
  OBVIOUS
<1>3. CASE w = u
  <2>1. Sound(u, x)'
    BY <1>1, <1>2 DEF Sound, Holder, In, Kept
  <2>2. x \notin blurred' => Fits(u, x)'
    BY <1>1, <1>2, AlikeFits
  <2> QED
    BY <1>2, <1>3, <2>1, <2>2 DEF Heard
<1>4. CASE w # u
  <2>1. PICK q : q = u.bubbles
    OBVIOUS
  <2>2. PICK b : b = Placeholder(e.resp)
    OBVIOUS
  <2>3. /\ e.resp \notin Ids \cup {NoId}
        /\ w = [u EXCEPT !.bubbles = Append(q, b), !.buffer = [id |-> e.resp, got |-> <<>>]]
        /\ blurred' = IF Buffering THEN blurred \cup Dropped(ui) ELSE blurred
    BY <1>2, <1>4, <2>1, <2>2 DEF StartStream
  <2>4. /\ DOMAIN b = Fields /\ b.id = e.resp /\ b.streaming /\ b.parts = {} /\ b.text = <<>>
        /\ b.text \in Seq(Names)
    BY <2>2 DEF Placeholder, Fields
  <2>5. x \notin Shows(b)
    BY <2>4 DEF Shows, Texts, ToSet
  <2>6. w.bubbles = Append(q, b) /\ w.buffer.id = e.resp /\ w.buffer.got = <<>> /\ w.buffer # NoBuffer
    BY <1>2, <2>3 DEF Shape, PageFields, NoBuffer
  <2>7. Drawn(q) /\ \A i \in DOMAIN q : q[i].id # e.resp
    BY <1>2, <2>1, <2>3 DEF Shape, Ids
  <2>8. /\ In(w.bubbles, x) <=> In(q, x)
        /\ Once(q, x) => Once(w.bubbles, x)
        /\ Single(q, e.resp) => Single(w.bubbles, e.resp)
        /\ \A i \in DOMAIN w.bubbles : w.bubbles[i] = b \/ \E j \in DOMAIN q : w.bubbles[i] = q[j]
    <3>1. PICK r : r = e.resp
      OBVIOUS
    <3>2. /\ In(Append(q, b), x) <=> In(q, x) \/ x \in Shows(b)
          /\ Once(q, x) /\ ~ (In(q, x) /\ x \in Shows(b)) => Once(Append(q, b), x)
          /\ Single(q, r) /\ (b.id = r => \A i \in DOMAIN q : q[i].id # r) => Single(Append(q, b), r)
          /\ \A i \in DOMAIN Append(q, b) : Append(q, b)[i] = b \/ \E j \in DOMAIN q : Append(q, b)[i] = q[j]
      BY <2>4, <2>7, OneMoreShows
    <3> QED
      BY <2>5, <2>6, <2>7, <3>1, <3>2
  <2>9. ~ Kept(w, x) /\ ~ Half(w, x)
    BY <2>5, <2>6, <2>7, <2>8 DEF Kept, Half
  <2>10. \A i \in DOMAIN w.bubbles : w.bubbles[i].id = e.resp => w.bubbles[i] = b
    BY <2>7, <2>8
  <2>11. Holder(w)
    <3>1. Single(w.bubbles, e.resp)
      BY <2>7, <2>8 DEF Single
    <3> QED
      BY <2>4, <2>6, <2>10, <3>1 DEF Holder, Single
  <2>12. Sound(w, x)'
    <3>1. x \in Made /\ In(w.bubbles, x) => Stored(x)
      BY <1>2, <2>1, <2>8 DEF Sound
    <3> QED
      BY <1>1, <2>6, <2>9, <2>11, <3>1 DEF Sound, Holder, In, Kept
  <2>13. ASSUME x \notin blurred' PROVE Fits(w, x)'
    <3>1. Fits(u, x)
      BY <1>1, <1>2, <2>13
    <3>2. Kept(u, x) => In(q, x)
      <4>1. ~ Buffering => ~ Kept(u, x)
        BY <1>2, NothingKept DEF Buffering
      <4>2. Buffering => x \notin Dropped(u)
        BY <1>2, <2>3, <2>13
      <4> QED
        BY <2>1, <4>1, <4>2, NotDropped
    <3>3. DOMAIN w.buffer.got = {}
      BY <2>6
    <3>4. \A i, j \in DOMAIN w.buffer.got :
            w.buffer.got[i].item = x /\ w.buffer.got[j].item = x => i = j
      BY <3>3
    <3> QED
      BY <1>1, <2>1, <2>8, <2>9, <3>1, <3>2, <3>4, Carried
  <2> QED
    BY <1>2, <2>12, <2>13 DEF Heard
<1> QED
  BY <1>3, <1>4

\* What a bubble shows when text has been added to it.
LEMMA MoreText ==
  ASSUME NEW x, x # "filler", NEW b, DOMAIN b = Fields, b.text \in Seq(Names), NEW a \in Names,
         NEW c, c = [b EXCEPT !.text = Append(@, a)]
  PROVE  /\ DOMAIN c = Fields /\ c.id = b.id /\ c.streaming = b.streaming /\ c.parts = b.parts
         /\ c.text \in Seq(Names)
         /\ x \in Shows(c) <=> x \in Shows(b) \/ x = a
<1>1. PICK t : t = b.text
  OBVIOUS
<1>2. PICK r : r = Append(t, a)
  OBVIOUS
<1>3. /\ DOMAIN c = Fields /\ c.id = b.id /\ c.streaming = b.streaming /\ c.parts = b.parts
      /\ c.text = r
  BY <1>1, <1>2 DEF Fields
<1>4. /\ t \in Seq(Names) /\ Len(t) \in Nat /\ DOMAIN t = 1 .. Len(t)
      /\ r \in Seq(Names) /\ DOMAIN r = 1 .. Len(t) + 1 /\ r[Len(t) + 1] = a
      /\ \A i \in 1 .. Len(t) : r[i] = t[i]
  BY <1>1, <1>2, AppendProperties, LenProperties
<1>5. \A i \in 1 .. Len(t) + 1 : i \in 1 .. Len(t) \/ i = Len(t) + 1
  BY <1>4
<1>6. \A i \in 1 .. Len(t) : i \in 1 .. Len(t) + 1
  BY <1>4
<1>7. Len(t) + 1 \in 1 .. Len(t) + 1
  BY <1>4
<1>8. x \in ToSet(r) <=> x \in ToSet(t) \/ x = a
  BY <1>4, <1>5, <1>6, <1>7 DEF ToSet
<1> QED
  BY <1>1, <1>3, <1>4, <1>8 DEF Shows, Texts

\* Text comes.
LEMMA TextOnce ==
  ASSUME NEW x, x # "filler", NEW e, Hears(e, x), Shape(ui), Sound(ui, x),
         x \notin blurred => Fits(ui, x), StreamText(e)
  PROVE  Heard(e, x)
<1>1. /\ ~ FrameOf(e, x) /\ blurred' = blurred /\ ToSet(file') = ToSet(file) /\ (Stored(x)' <=> Stored(x))
      /\ e.kind = "delta" /\ e \in Frames
  BY DEF StreamText, ghosts, FrameOf, Pieces, Hears, Cuts
<1>2. PICK u, w : u = ui /\ w = ui'
  OBVIOUS
<1>3. CASE w = u
  <2>1. Sound(u, x)'
    BY <1>1, <1>2 DEF Sound, Holder, In, Kept
  <2>2. x \notin blurred' => Fits(u, x)'
    BY <1>1, <1>2, AlikeFits
  <2> QED
    BY <1>2, <1>3, <2>1, <2>2 DEF Heard
<1>4. CASE w # u
  <2>1. PICK q : q = u.bubbles
    OBVIOUS
  <2>2. PICK p : p = PlaceholderAt
    OBVIOUS
  <2>3. HasPlaceholder /\ ui' = [ui EXCEPT !.bubbles[p].text = Append(@, e.item)]
    BY <1>2, <1>4, <2>2 DEF StreamText
  <2>4. p \in DOMAIN q /\ q[p].id = u.buffer.id /\ u.buffer # NoBuffer
    BY <1>2, <2>1, <2>2, <2>3, PlaceholderIs DEF Buffering
  <2>5. PICK a : a = e.item
    OBVIOUS
  <2>6. PICK b : b = [q[p] EXCEPT !.text = Append(@, a)]
    OBVIOUS
  <2>7. ui' = [ui EXCEPT !.bubbles = [@ EXCEPT ![p] = b]]
    BY <1>2, <2>1, <2>3, <2>5, <2>6
  <2>8. w.buffer = u.buffer /\ w.bubbles = [q EXCEPT ![p] = b]
    BY <1>2, <2>1, <2>7 DEF Shape, PageFields
  <2>9. Drawn(q) /\ DOMAIN q[p] = Fields
    BY <1>2, <2>1, <2>4, DrawnIs DEF Shape
  <2>10. /\ \A i \in DOMAIN q : q[i].id = u.buffer.id =>
              q[i].streaming /\ q[i].parts = {} /\ q[i].text \in Seq(Names)
         /\ \A i, j \in DOMAIN q : q[i].id = u.buffer.id /\ q[j].id = u.buffer.id => i = j
    BY <1>2, <2>1, <2>4 DEF Sound, Holder
  <2>11. a \in Names
    BY <1>1, <2>5 DEF Names
  <2>12. /\ DOMAIN b = Fields /\ b.id = q[p].id /\ b.streaming = q[p].streaming /\ b.parts = q[p].parts
         /\ b.text \in Seq(Names)
         /\ x \in Shows(b) <=> x \in Shows(q[p]) \/ x = a
    <3>1. PICK o : o = q[p]
      OBVIOUS
    <3>2. b = [o EXCEPT !.text = Append(@, a)] /\ DOMAIN o = Fields /\ o.text \in Seq(Names)
      BY <2>4, <2>6, <2>9, <2>10, <3>1
    <3>3. /\ DOMAIN b = Fields /\ b.id = o.id /\ b.streaming = o.streaming /\ b.parts = o.parts
          /\ b.text \in Seq(Names)
          /\ x \in Shows(b) <=> x \in Shows(o) \/ x = a
      BY <2>11, <3>2, MoreText
    <3> QED
      BY <3>1, <3>3
  <2>13. /\ DOMAIN w.bubbles = DOMAIN q
         /\ \A i \in DOMAIN q : w.bubbles[i] = IF i = p THEN b ELSE q[i]
    BY <2>4, <2>8
  <2>14. \A i \in DOMAIN q : /\ w.bubbles[i].id = q[i].id
                             /\ x \in Shows(w.bubbles[i]) <=> x \in Shows(q[i]) \/ (i = p /\ x = a)
    BY <2>12, <2>13
  <2>15. Holder(w)
    BY <2>4, <2>8, <2>10, <2>12, <2>13 DEF Holder
  <2>16. x = a => DeltaOf(e, x) /\ x \notin Made
    BY <1>1, <2>5 DEF DeltaOf, Hears
  <2>17. Kept(w, x) <=> Kept(u, x)
    BY <2>8 DEF Kept
  <2>18. In(w.bubbles, x) <=> In(q, x) \/ x = a
    BY <2>4, <2>13, <2>14 DEF In
  <2>19. Sound(w, x)'
    <3>1. x \in Made /\ (In(w.bubbles, x) \/ Kept(w, x)) => Stored(x)
      BY <1>2, <2>1, <2>16, <2>17, <2>18 DEF Sound
    <3>2. /\ \A i \in DOMAIN w.buffer.got : w.buffer.got[i].kind \notin Pieces
          /\ \A i \in DOMAIN w.buffer.got : w.buffer.got[i].item = x => w.buffer.got[i] \in ToSet(file)
      BY <1>2, <2>8 DEF Sound
    <3> QED
      BY <1>1, <2>15, <3>1, <3>2 DEF Sound, Holder, In, Kept
  <2>20. ASSUME x \notin blurred', x # a PROVE Fits(w, x)'
    BY <1>1, <1>2, <2>1, <2>8, <2>13, <2>14, <2>20, AlikeFits
  <2>21. ASSUME x \notin blurred', x = a PROVE Fits(w, x)'
    <3>1. Fits(u, x)
      BY <1>1, <1>2, <2>21
    <3>2. /\ (Wanted(x)' <=> Wanted(x)) /\ (Noticed(x)' <=> Noticed(x)) /\ ~ Noticed(x)
          /\ Wanted(x) => Stored(x)
          /\ Brings(Coming', x) <=> Brings(Coming, x)
          /\ Brings(Coming', x) => Near(Coming', x)
          /\ Stored(x) => Brings(Coming', x)
          /\ Stored(x) /\ Brings(Coming', x) => Brings(Underway', x)
          /\ Later(x)' <=> Later(x)
      BY <1>1, <2>16, <2>21 DEF Hears, Cuts
    <3>3. Kept(u, x) => Stored(x)
      BY <1>2 DEF Sound, Kept, Stored, ToSet
    <3>4. Brings(Coming, x) => Later(x)
      BY DEF Later, Hears
    <3>5. Later(x)' => Brings(Coming', x)
      BY <3>2 DEF Later, Hears
    <3>6. Brings(Coming', x) => ~ Kept(u, x) /\ (In(q, x) => InOpen(u, x))
      BY <2>1, <3>1, <3>2, <3>4 DEF Fits, Preview
    <3>7. Brings(Coming', x) => InOpen(w, x)
      BY <2>1, <2>4, <2>8, <2>13, <2>14, <3>6 DEF In, InOpen
    <3>8. InOpen(w, x) => Once(w.bubbles, x)
      BY <2>8, <2>10, <2>13, <2>14 DEF InOpen, Once
    <3>9. /\ In(w.bubbles, x)' <=> In(w.bubbles, x)
          /\ Kept(w, x)' <=> Kept(w, x)
          /\ Once(w.bubbles, x)' <=> Once(w.bubbles, x)
          /\ InOpen(w, x)' <=> InOpen(w, x)
          /\ Half(w, x)' <=> Half(w, x)
      BY DEF In, Kept, Once, InOpen, Half
    <3>10. ~ Kept(w, x)
      BY <2>17, <3>2, <3>3, <3>6
    <3>11. Later(x)' => Preview(w, x)'
      BY <2>4, <2>8, <3>2, <3>5, <3>7, <3>9 DEF Preview
    <3>12. \A i, j \in DOMAIN w.buffer.got :
             w.buffer.got[i].item = x /\ w.buffer.got[j].item = x => i = j
      BY <2>8, <3>1 DEF Fits
    <3> QED
      BY <1>1, <3>2, <3>7, <3>8, <3>9, <3>10, <3>11, <3>12 DEF Fits
  <2> QED
    BY <1>2, <2>19, <2>20, <2>21 DEF Heard
<1> QED
  BY <1>3, <1>4

\* A page whose buffer is gone shows what it showed and what it kept aside.
LEMMA BareCarried ==
  ASSUME NEW x, NEW e, Hears(e, x), ~ FrameOf(e, x), Breaks(e), NEW u, NEW w, Fits(u, x),
         w.buffer = NoBuffer,
         Wanted(x) /\ (In(u.bubbles, x) \/ Kept(u, x)) =>
           In(w.bubbles, x) \/ Brings(Underway', x),
         In(w.bubbles, x) => In(u.bubbles, x) \/ Kept(u, x),
         Once(u.bubbles, x) => Once(w.bubbles, x)
  PROVE  Fits(w, x)'
<1>1. /\ In(w.bubbles, x)' <=> In(w.bubbles, x)
      /\ Once(w.bubbles, x)' <=> Once(w.bubbles, x)
  BY DEF In, Once
<1>2. /\ (Wanted(x)' <=> Wanted(x)) /\ (Stored(x)' <=> Stored(x)) /\ (Noticed(x)' <=> Noticed(x))
      /\ Brings(Coming, x)' <=> Brings(Coming, x)
      /\ Brings(Underway, x)' <=> Brings(Underway, x)
      /\ Later(x)' <=> Later(x)
      /\ ~ Near(Coming, x)
  BY DEF Hears, Cuts
<1>3. /\ Wanted(x) => In(u.bubbles, x) \/ Kept(u, x) \/ Brings(Underway, x) \/ Noticed(x)
      /\ Stored(x) \/ Brings(Coming, x) => Once(u.bubbles, x)
      /\ Later(x) => ~ Kept(u, x) /\ ~ In(u.bubbles, x)
  BY <1>2 DEF Fits, Preview
<1>4. (Wanted(x) => In(w.bubbles, x) \/ Brings(Underway, x) \/ Noticed(x))'
  BY <1>1, <1>2, <1>3
<1>5. (Stored(x) \/ Brings(Coming, x) => Once(w.bubbles, x))'
  BY <1>1, <1>2, <1>3
<1>6. (Later(x) => ~ In(w.bubbles, x))'
  BY <1>1, <1>2, <1>3
<1> QED
  BY <1>4, <1>5, <1>6, BareFits

\* What the bubbles of the frames kept aside show.
LEMMA GotShows ==
  ASSUME NEW x, NEW got \in Seq(Frames), \A k \in DOMAIN got : got[k].kind \notin Pieces,
         NEW r, r = [k \in DOMAIN got |-> Bubble(got[k], Live(got[k]))]
  PROVE  /\ Drawn(r)
         /\ In(r, x) <=> \E k \in DOMAIN got : got[k].item = x /\ Visible(got[k])
         /\ (\A i, j \in DOMAIN got : got[i].item = x /\ got[j].item = x => i = j) => Once(r, x)
<1>1. Len(got) \in Nat /\ DOMAIN got = 1 .. Len(got) /\ \A k \in DOMAIN got : got[k] \in Frames
  BY LenProperties, ElementOfSeq
<1>2. \A k \in DOMAIN got : got[k].kind \in SentKinds \cup Made
  BY <1>1, FrameKinds
<1>3. DOMAIN r = DOMAIN got /\ \A k \in DOMAIN got : r[k] = Bubble(got[k], Live(got[k]))
  OBVIOUS
<1>4. \A k \in DOMAIN got : x \in Shows(r[k]) <=> x = got[k].item /\ Visible(got[k])
  <2> SUFFICES ASSUME NEW k \in DOMAIN got
               PROVE  x \in Shows(r[k]) <=> x = got[k].item /\ Visible(got[k])
    OBVIOUS
  <2>1. PICK f, m : f = got[k] /\ m = Live(f)
    OBVIOUS
  <2>2. x \in Shows(Bubble(f, m)) <=> x = f.item /\ Visible(f)
    <3>1. f.item # "filler"
      BY <1>1, <2>1, ItemsAre
    <3> QED
      BY <1>2, <2>1, <3>1, BubbleShows
  <2> QED
    BY <1>3, <2>1, <2>2
<1>5. Drawn(r)
  <2>1. r = [k \in 1 .. Len(got) |-> r[k]]
    BY <1>1
  <2>2. \A k \in 1 .. Len(got) : DOMAIN r[k] = Fields
    BY <1>1, <1>3, BubbleIs
  <2> QED
    BY <1>1, <2>1, <2>2, DrawnBy
<1> QED
  BY <1>3, <1>4, <1>5 DEF In, Once

\* The list q with r in the place of its bubble at i.
PutIn(q, i, r) == SubSeq(q, 1, i - 1) \o r \o SubSeq(q, i + 1, Len(q))

\* What it shows.
LEMMA PutInShows ==
  ASSUME NEW x, NEW q, Drawn(q), NEW i \in DOMAIN q, NEW r, Drawn(r), NEW s, s = PutIn(q, i, r)
  PROVE  /\ In(s, x) <=> In(r, x) \/ \E j \in DOMAIN q : j # i /\ x \in Shows(q[j])
         /\ Once(q, x) /\ Once(r, x) /\ ~ (In(r, x) /\ \E j \in DOMAIN q : j # i /\ x \in Shows(q[j])) =>
              Once(s, x)
<1>1. PICK n : n = Len(q)
  OBVIOUS
<1>2. n \in Nat /\ DOMAIN q = 1 .. n /\ i \in 1 .. n
  BY <1>1, DrawnIs
<1>3. PICK a : a = SubSeq(q, 1, i - 1)
  OBVIOUS
<1>4. PICK b : b = SubSeq(q, i + 1, n)
  OBVIOUS
<1>5. /\ Drawn(a) /\ DOMAIN a = 1 .. i - 1 /\ \A k \in 1 .. i - 1 : a[k] = q[k]
  <2>1. PICK l : l = i - 1
    OBVIOUS
  <2>2. l \in Nat /\ 1 \in Nat \ {0} /\ l <= Len(q) /\ 1 <= l + 1 /\ l - 1 + 1 = l
    BY <1>1, <1>2, <2>1
  <2>3. /\ Drawn(SubSeq(q, 1, l)) /\ DOMAIN SubSeq(q, 1, l) = 1 .. l - 1 + 1
        /\ \A k \in 1 .. l - 1 + 1 : SubSeq(q, 1, l)[k] = q[1 + k - 1]
    BY <2>2, PartIs
  <2>4. \A k \in 1 .. l : 1 + k - 1 = k
    BY <2>2
  <2> QED
    BY <1>3, <2>1, <2>2, <2>3, <2>4
<1>6. /\ Drawn(b) /\ DOMAIN b = 1 .. n - i /\ \A k \in 1 .. n - i : b[k] = q[i + k]
  <2>1. PICK l : l = i + 1
    OBVIOUS
  <2>2. l \in Nat \ {0} /\ n <= Len(q) /\ l <= n + 1 /\ n - l + 1 = n - i
    BY <1>1, <1>2, <2>1
  <2>3. /\ Drawn(SubSeq(q, l, n)) /\ DOMAIN SubSeq(q, l, n) = 1 .. n - l + 1
        /\ \A k \in 1 .. n - l + 1 : SubSeq(q, l, n)[k] = q[l + k - 1]
    BY <1>2, <2>2, PartIs
  <2>4. \A k \in 1 .. n - i : l + k - 1 = i + k
    BY <1>2, <2>1
  <2> QED
    BY <1>4, <2>1, <2>2, <2>3, <2>4
<1>7. PICK t : t = a \o r
  OBVIOUS
<1>8. s = t \o b
  BY <1>1, <1>3, <1>4, <1>7 DEF PutIn
<1>9. /\ Drawn(t)
      /\ In(t, x) <=> In(a, x) \/ In(r, x)
      /\ Once(a, x) /\ Once(r, x) /\ ~ (In(a, x) /\ In(r, x)) => Once(t, x)
  BY <1>5, <1>7, ListJoins, BothShow
<1>10. /\ In(s, x) <=> In(t, x) \/ In(b, x)
       /\ Once(t, x) /\ Once(b, x) /\ ~ (In(t, x) /\ In(b, x)) => Once(s, x)
  <2>1. PICK id : id = NoId
    OBVIOUS
  <2>2. /\ In(t \o b, x) <=> In(t, x) \/ In(b, x)
        /\ Once(t, x) /\ Once(b, x) /\ ~ (In(t, x) /\ In(b, x)) => Once(t \o b, x)
        /\ Single(t, id) /\ (\A k \in DOMAIN b : b[k].id # id) => Single(t \o b, id)
        /\ Mixes(t \o b, t, b)
    BY <1>6, <1>9, BothShow
  <2> QED
    BY <1>8, <2>2
<1>11. \A k \in 1 .. i - 1 : k \in 1 .. n /\ k # i
  BY <1>2
<1>12. \A k \in 1 .. n - i : i + k \in 1 .. n /\ i + k # i
  BY <1>2
<1>13. \A j \in 1 .. n : j # i => j \in 1 .. i - 1 \/ (j - i \in 1 .. n - i /\ i + (j - i) = j)
  BY <1>2
<1>14. In(a, x) \/ In(b, x) <=> \E j \in DOMAIN q : j # i /\ x \in Shows(q[j])
  <2>1. In(a, x) => \E j \in DOMAIN q : j # i /\ x \in Shows(q[j])
    BY <1>2, <1>5, <1>11 DEF In
  <2>2. In(b, x) => \E j \in DOMAIN q : j # i /\ x \in Shows(q[j])
    BY <1>2, <1>6, <1>12 DEF In
  <2>3. ASSUME NEW j \in DOMAIN q, j # i, x \in Shows(q[j]) PROVE In(a, x) \/ In(b, x)
    <3>1. CASE j \in 1 .. i - 1
      BY <1>5, <2>3, <3>1 DEF In
    <3>2. CASE j - i \in 1 .. n - i /\ i + (j - i) = j
      <4>1. PICK k : k = j - i
        OBVIOUS
      <4> QED
        BY <1>6, <2>3, <3>2, <4>1 DEF In
    <3> QED
      BY <1>2, <1>13, <2>3, <3>1, <3>2
  <2> QED
    BY <2>1, <2>2, <2>3
<1>15. ASSUME Once(q, x) PROVE Once(a, x) /\ Once(b, x) /\ ~ (In(a, x) /\ In(b, x))
  <2>1. Once(a, x)
    BY <1>2, <1>5, <1>11, <1>15 DEF Once
  <2>2. Once(b, x)
    <3> SUFFICES ASSUME NEW k \in 1 .. n - i, NEW l \in 1 .. n - i, x \in Shows(b[k]), x \in Shows(b[l])
                 PROVE  k = l
      BY <1>6 DEF Once
    <3>1. i + k = i + l
      BY <1>2, <1>6, <1>12, <1>15 DEF Once
    <3> QED
      BY <1>2, <3>1
  <2>3. ASSUME NEW k \in 1 .. i - 1, NEW l \in 1 .. n - i, x \in Shows(a[k]), x \in Shows(b[l])
        PROVE  FALSE
    <3>1. k = i + l
      BY <1>2, <1>5, <1>6, <1>11, <1>12, <1>15, <2>3 DEF Once
    <3> QED
      BY <1>2, <3>1
  <2>4. ~ (In(a, x) /\ In(b, x))
    BY <1>5, <1>6, <2>3 DEF In
  <2> QED
    BY <2>1, <2>2, <2>4
<1> QED
  BY <1>9, <1>10, <1>14, <1>15

\* The frames kept aside come into the placeholder's place.
LEMMA SplicedOnce ==
  ASSUME NEW x, NEW e, Hears(e, x), Breaks(e), ~ FrameOf(e, x), NEW u, Shape(u), Sound(u, x),
         NEW i \in DOMAIN u.bubbles, u.bubbles[i].id = u.buffer.id, u.buffer # NoBuffer,
         NEW w, w = Spliced(u, i)
  PROVE  Sound(w, x)' /\ (Fits(u, x) => Fits(w, x)')
<1>1. PICK q, got : q = u.bubbles /\ got = u.buffer.got
  OBVIOUS
<1>2. w = Spliced(u, i)
  OBVIOUS
<1>3. /\ Drawn(q) /\ i \in DOMAIN q /\ DOMAIN q[i] = Fields /\ got \in Seq(Frames)
      /\ \A k \in DOMAIN got : got[k].kind \notin Pieces
      /\ \A k \in DOMAIN got : got[k].item = x => got[k] \in ToSet(file)
      /\ \A j, k \in DOMAIN q : q[j].id = u.buffer.id /\ q[k].id = u.buffer.id => j = k
      /\ x \in Made /\ (In(q, x) \/ Kept(u, x)) => Stored(x)
  BY <1>1, DrawnIs DEF Shape, Sound, Holder
<1>4. Stored(x)' <=> Stored(x)
  BY DEF Hears, Cuts
<1>5. Kept(u, x) <=> \E k \in DOMAIN got : got[k].item = x
  BY <1>1 DEF Kept
<1>6. /\ w.buffer = NoBuffer
      /\ In(w.bubbles, x) => In(q, x) \/ Kept(u, x)
      /\ Fits(u, x) /\ Wanted(x) /\ (In(q, x) \/ Kept(u, x)) => In(w.bubbles, x) \/ Brings(Underway', x)
      /\ Fits(u, x) /\ Once(q, x) => Once(w.bubbles, x)
  <2>1. CASE got = <<>>
    <3>1. PICK b : b = [q[i] EXCEPT !.streaming = FALSE]
      OBVIOUS
    <3>2. w = [u EXCEPT !.bubbles = [@ EXCEPT ![i] = b], !.buffer = NoBuffer]
      BY <1>1, <1>2, <2>1, <3>1 DEF Spliced
    <3>3. w.bubbles = [q EXCEPT ![i] = b] /\ w.buffer = NoBuffer
      BY <1>1, <3>2 DEF Shape, PageFields
    <3>4. b.text = q[i].text /\ b.parts = q[i].parts
      BY <1>3, <3>1 DEF Fields
    <3>5. Shows(b) = Shows(q[i])
      BY <3>4 DEF Shows, Texts
    <3>6. DOMAIN w.bubbles = DOMAIN q /\ \A j \in DOMAIN q : Shows(w.bubbles[j]) = Shows(q[j])
      BY <1>3, <3>3, <3>5
    <3>7. ~ Kept(u, x)
      BY <1>5, <2>1
    <3> QED
      BY <3>3, <3>6, <3>7 DEF In, Once
  <2>2. CASE got # <<>>
    <3>1. PICK r : r = [k \in DOMAIN got |-> Bubble(got[k], Live(got[k]))]
      OBVIOUS
    <3>2. PICK s : s = PutIn(q, i, r)
      OBVIOUS
    <3>3. w = [u EXCEPT !.bubbles = s, !.buffer = NoBuffer, !.last = Time(Last(got))]
      BY <1>1, <1>2, <2>2, <3>1, <3>2 DEF Spliced, PutIn
    <3>4. w.bubbles = s /\ w.buffer = NoBuffer
      BY <3>3 DEF Shape, PageFields
    <3>5. /\ Drawn(r)
          /\ In(r, x) <=> \E k \in DOMAIN got : got[k].item = x /\ Visible(got[k])
          /\ (\A j, k \in DOMAIN got : got[j].item = x /\ got[k].item = x => j = k) => Once(r, x)
      BY <1>3, <3>1, GotShows
    <3>6. /\ In(s, x) <=> In(r, x) \/ \E j \in DOMAIN q : j # i /\ x \in Shows(q[j])
          /\ Once(q, x) /\ Once(r, x) /\ ~ (In(r, x) /\ \E j \in DOMAIN q : j # i /\ x \in Shows(q[j])) =>
               Once(s, x)
      BY <1>3, <3>2, <3>5, PutInShows
    <3>7. In(r, x) => Kept(u, x)
      BY <1>5, <3>5
    <3>8. In(s, x) => In(q, x) \/ Kept(u, x)
      BY <3>6, <3>7 DEF In
    <3>9. ASSUME Fits(u, x), Kept(u, x), Wanted(x) PROVE In(s, x)
      <4>1. PICK k \in DOMAIN got : got[k].item = x
        BY <1>5, <3>9
      <4>2. PICK l \in DOMAIN file : file[l] = got[k]
        BY <1>3, <4>1 DEF ToSet
      <4>3. PICK m \in DOMAIN file : file[m].item = x /\ Visible(file[m])
        BY <3>9 DEF Wanted
      <4>5. l = m
        BY <4>1, <4>2, <4>3 DEF Hears
      <4> QED
        BY <3>5, <3>6, <4>1, <4>2, <4>3, <4>5
    <3>10. ASSUME Fits(u, x), In(q, x), ~ In(s, x), Wanted(x), ~ Kept(u, x) PROVE Brings(Underway', x)
      <4>1. x \in Shows(q[i])
        BY <3>6, <3>10 DEF In
      <4>2. Half(u, x)
        BY <1>1, <1>3, <4>1 DEF Half
      <4>3. Stored(x) /\ (Stored(x) /\ Brings(Coming', x) => Brings(Underway', x))
            /\ (Brings(Coming', x) <=> Brings(Coming, x))
        BY <3>10 DEF Hears
      <4> QED
        BY <3>10, <4>2, <4>3 DEF Fits
    <3>11. ASSUME Fits(u, x), Once(q, x) PROVE Once(s, x)
      <4>1. Once(r, x)
        BY <1>1, <3>5, <3>11 DEF Fits
      <4>2. ~ (In(r, x) /\ \E j \in DOMAIN q : j # i /\ x \in Shows(q[j]))
        <5> SUFFICES ASSUME In(r, x), NEW j \in DOMAIN q, x \in Shows(q[j]) PROVE j = i
          OBVIOUS
        <5>1. InOpen(u, x)
          BY <3>7, <3>11 DEF Fits
        <5> QED
          BY <1>1, <1>3, <5>1 DEF InOpen
      <4> QED
        BY <3>6, <3>11, <4>1, <4>2
    <3> QED
      BY <3>4, <3>8, <3>9, <3>10, <3>11
  <2> QED
    BY <2>1, <2>2
<1>7. Sound(w, x)'
  <2>1. (x \in Made /\ In(w.bubbles, x) => Stored(x))'
    BY <1>3, <1>4, <1>6 DEF In
  <2> QED
    BY <1>6, <2>1, BareSound
<1>8. Fits(u, x) => Fits(w, x)'
  <2> SUFFICES ASSUME Fits(u, x) PROVE Fits(w, x)'
    OBVIOUS
  <2> QED
    BY <1>1, <1>6, BareCarried
<1> QED
  BY <1>2, <1>7, <1>8

\* A response stops.
LEMMA StopOnce ==
  ASSUME NEW x, NEW e, Hears(e, x), Shape(ui), Sound(ui, x), x \notin blurred => Fits(ui, x),
         StopStream(e)
  PROVE  Heard(e, x)
<1>1. /\ ~ FrameOf(e, x) /\ Breaks(e) /\ (x \notin blurred' => x \notin blurred)
      /\ Stored(x)' <=> Stored(x)
  BY DEF StopStream, FrameOf, Pieces, Breaks, Hears, Cuts
<1>2. PICK u, w, i : u = ui /\ w = ui' /\ i = PlaceholderAt
  OBVIOUS
<1>3. CASE HasPlaceholder
  <2>1. i \in DOMAIN u.bubbles /\ u.bubbles[i].id = u.buffer.id /\ u.buffer # NoBuffer
    BY <1>2, <1>3, PlaceholderIs DEF Buffering
  <2>2. u.bubbles[i].streaming
    BY <1>2, <2>1 DEF Sound, Holder
  <2>3. w = Spliced(u, i)
    BY <1>2, <1>3, <2>2 DEF StopStream
  <2>4. Sound(w, x)' /\ (Fits(u, x) => Fits(w, x)')
    BY <1>1, <1>2, <2>1, <2>3, SplicedOnce
  <2> QED
    BY <1>1, <1>2, <2>4 DEF Heard
<1>4. CASE ~ HasPlaceholder
  <2>1. /\ ui' = [ui EXCEPT !.buffer = NoBuffer] /\ blurred' = blurred \cup Items(ui.buffer.got)
    BY <1>4 DEF StopStream
  <2>2. w.bubbles = u.bubbles /\ w.buffer = NoBuffer
    BY <1>2, <2>1 DEF Shape, PageFields
  <2>3. x \notin blurred' => ~ Kept(u, x)
    BY <1>2, <2>1 DEF Items, Kept
  <2>4. Sound(w, x)'
    <3>1. (x \in Made /\ In(w.bubbles, x) => Stored(x))'
      BY <1>1, <1>2, <2>2 DEF Sound, In
    <3> QED
      BY <2>2, <3>1, BareSound
  <2>5. ASSUME x \notin blurred' PROVE Fits(w, x)'
    <3>1. Fits(u, x)
      BY <1>1, <1>2, <2>5
    <3> QED
      BY <1>1, <2>2, <2>3, <2>5, <3>1, BareCarried
  <2> QED
    BY <1>2, <2>4, <2>5 DEF Heard
<1> QED
  BY <1>3, <1>4

\* A frame waits for the end of the response.
LEMMA CollectOnce ==
  ASSUME NEW x, NEW e, Hears(e, x), Shape(ui), Sound(ui, x), x \notin blurred => Fits(ui, x),
         e.kind \notin Pieces, Collect(e)
  PROVE  Heard(e, x)
<1>1. /\ Buffering /\ (x \notin blurred' => x \notin blurred)
      /\ ui' = [ui EXCEPT !.buffer.got = Append(@, e)]
      /\ ToSet(file') = ToSet(file) /\ (Stored(x)' <=> Stored(x)) /\ (Wanted(x)' <=> Wanted(x))
      /\ (Noticed(x)' <=> Noticed(x)) /\ e \in Frames
  BY DEF Collect, Waits, Hears, Cuts
<1>2. PICK u, w : u = ui /\ w = ui'
  OBVIOUS
<1>3. PICK got : got = u.buffer.got
  OBVIOUS
<1>4. PICK r : r = Append(got, e)
  OBVIOUS
<1>5. got \in Seq(Frames) /\ u.buffer.id # NoId /\ u.buffer # NoBuffer
  BY <1>1, <1>2, <1>3 DEF Shape, Buffering
<1>6. /\ w.bubbles = u.bubbles /\ w.buffer = [u.buffer EXCEPT !.got = r]
  BY <1>1, <1>2, <1>3, <1>4 DEF Shape, PageFields
<1>7. w.buffer.id = u.buffer.id /\ w.buffer.got = r
  BY <1>2, <1>6 DEF Shape
<1>8. w.buffer # NoBuffer
  BY <1>5, <1>7 DEF NoBuffer
<1>9. /\ Len(got) \in Nat /\ DOMAIN got = 1 .. Len(got) /\ DOMAIN r = 1 .. Len(got) + 1
      /\ r[Len(got) + 1] = e /\ \A i \in 1 .. Len(got) : r[i] = got[i]
  BY <1>1, <1>4, <1>5, AppendProperties, LenProperties
<1>10. \A i \in 1 .. Len(got) + 1 : i \in 1 .. Len(got) \/ i = Len(got) + 1
  BY <1>9
<1>11. Len(got) + 1 \in DOMAIN r /\ \A i \in 1 .. Len(got) : i \in DOMAIN r
  BY <1>9
<1>12. /\ Kept(w, x) <=> Kept(u, x) \/ e.item = x
       /\ InOpen(w, x) <=> InOpen(u, x)
       /\ Half(w, x) <=> Half(u, x)
  <2>1. Kept(w, x) <=> Kept(u, x) \/ e.item = x
    BY <1>3, <1>7, <1>9, <1>10, <1>11 DEF Kept
  <2> QED
    BY <1>6, <1>7, <2>1 DEF InOpen, Half
<1>13. FrameOf(e, x) <=> e.item = x
  BY DEF FrameOf
<1>14. Sound(w, x)'
  <2>1. Holder(w)
    BY <1>2, <1>5, <1>6, <1>7 DEF Sound, Holder
  <2>2. /\ \A i \in DOMAIN got : got[i].kind \notin Pieces
        /\ \A i \in DOMAIN got : got[i].item = x => got[i] \in ToSet(file)
        /\ x \in Made /\ (In(u.bubbles, x) \/ Kept(u, x)) => Stored(x)
    BY <1>2, <1>3 DEF Sound
  <2>3. e.item = x => e \in ToSet(file) /\ Stored(x)
    BY <1>13 DEF Hears
  <2>4. /\ \A i \in DOMAIN r : r[i].kind \notin Pieces
        /\ \A i \in DOMAIN r : r[i].item = x => r[i] \in ToSet(file)
    BY <1>9, <1>10, <2>2, <2>3
  <2>5. x \in Made /\ (In(w.bubbles, x) \/ Kept(w, x)) => Stored(x)
    BY <1>6, <1>12, <2>2, <2>3
  <2> QED
    BY <1>1, <1>7, <2>1, <2>4, <2>5 DEF Sound, Holder, In, Kept
<1>15. ASSUME x \notin blurred', e.item # x PROVE Fits(w, x)'
  <2>1. Fits(u, x)
    BY <1>1, <1>2, <1>15
  <2>2. \A i, j \in DOMAIN got : got[i].item = x /\ got[j].item = x => i = j
    BY <1>3, <2>1 DEF Fits
  <2>3. \A i, j \in DOMAIN r : r[i].item = x /\ r[j].item = x => i = j
    BY <1>9, <1>10, <1>15, <2>2
  <2>4. /\ Kept(u, x) => InOpen(u, x)
        /\ Stored(x) /\ Half(u, x) => Brings(Coming, x) \/ Kept(u, x)
    BY <1>5, <2>1 DEF Fits
  <2>5. /\ \A i, j \in DOMAIN w.buffer.got :
             w.buffer.got[i].item = x /\ w.buffer.got[j].item = x => i = j
    BY <1>7, <2>3
  <2> QED
    BY <1>6, <1>8, <1>12, <1>13, <1>15, <2>1, <2>4, <2>5, Carried
<1>16. ASSUME x \notin blurred', e.item = x PROVE Fits(w, x)'
  <2>1. Fits(u, x)
    BY <1>1, <1>2, <1>16
  <2>2. Later(x) /\ ~ Later(x)' /\ Stored(x)
    BY <1>13, <1>16 DEF Hears
  <2>3. ~ Kept(u, x) /\ InOpen(u, x) /\ Once(u.bubbles, x)
    BY <2>1, <2>2 DEF Fits, Preview, In, InOpen
  <2>4. \A i, j \in DOMAIN r : r[i].item = x /\ r[j].item = x => i = j
    <3>1. \A i \in 1 .. Len(got) : got[i].item # x
      BY <1>3, <1>9, <2>3 DEF Kept
    <3> QED
      BY <1>9, <1>10, <3>1
  <2>5. Kept(w, x) /\ InOpen(w, x) /\ Once(w.bubbles, x)
    BY <1>6, <1>12, <1>16, <2>3
  <2>6. /\ Kept(w, x)' <=> Kept(w, x)
        /\ Once(w.bubbles, x)' <=> Once(w.bubbles, x)
        /\ InOpen(w, x)' <=> InOpen(w, x)
    BY DEF Kept, Once, InOpen
  <2> QED
    BY <1>7, <2>2, <2>4, <2>5, <2>6 DEF Fits
<1> QED
  BY <1>2, <1>14, <1>15, <1>16 DEF Heard

\* A frame takes a bubble's place while nothing is being buffered.
LEMMA PutOnce ==
  ASSUME NEW x, NEW e, Hears(e, x), e.kind \notin Pieces, NEW u, NEW w, Shape(u), Sound(u, x),
         x \notin blurred => Fits(u, x), u.buffer = NoBuffer, w.buffer = NoBuffer,
         NEW i \in DOMAIN u.bubbles, NEW b, w.bubbles = [u.bubbles EXCEPT ![i] = b],
         x \in Shows(b) => x = e.item \/ x \in Shows(u.bubbles[i]),
         x \notin blurred' /\ ~ (x = e.item /\ In(u.bubbles, x)) =>
           (x \in Shows(b) <=> (x = e.item /\ Visible(e)) \/ x \in Shows(u.bubbles[i]))
  PROVE  Sound(w, x)' /\ (x \notin blurred' => Fits(w, x)')
<1>1. /\ x \notin blurred' => x \notin blurred
      /\ (Stored(x)' <=> Stored(x)) /\ (Wanted(x)' <=> Wanted(x)) /\ (Noticed(x)' <=> Noticed(x))
  BY DEF Hears, Cuts
<1>2. FrameOf(e, x) <=> x = e.item
  BY DEF FrameOf
<1>3. PICK q : q = u.bubbles
  OBVIOUS
<1>4. /\ DOMAIN w.bubbles = DOMAIN q /\ i \in DOMAIN q
      /\ \A j \in DOMAIN q : w.bubbles[j] = IF j = i THEN b ELSE q[j]
  BY <1>3
<1>5. /\ In(w.bubbles, x)' <=> In(w.bubbles, x)
      /\ Once(w.bubbles, x)' <=> Once(w.bubbles, x)
  BY DEF In, Once
<1>6. Sound(w, x)'
  <2>1. In(w.bubbles, x) => x = e.item \/ In(q, x)
    BY <1>3, <1>4 DEF In
  <2>2. x = e.item => Stored(x)
    BY <1>2 DEF Hears
  <2>3. x \in Made /\ In(q, x) => Stored(x)
    BY <1>3 DEF Sound
  <2>4. (x \in Made /\ In(w.bubbles, x) => Stored(x))'
    BY <1>1, <1>5, <2>1, <2>2, <2>3
  <2> QED
    BY <2>4, BareSound
<1>7. ASSUME x \notin blurred' PROVE Fits(w, x)'
  <2>1. Fits(u, x)
    BY <1>1, <1>7
  <2>2. ~ Kept(u, x)
    BY NothingKept
  <2>3. /\ Wanted(x) => In(q, x) \/ Brings(Underway, x) \/ Noticed(x)
        /\ Stored(x) \/ Brings(Coming, x) => Once(q, x)
        /\ Later(x) => ~ In(q, x)
    BY <1>3, <2>1, <2>2 DEF Fits, Preview
  <2>4. CASE x # e.item
    <3>1. /\ In(w.bubbles, x) <=> In(q, x)
          /\ Once(w.bubbles, x) <=> Once(q, x)
      BY <1>3, <1>4, <1>7, <2>4 DEF In, Once
    <3>2. /\ Brings(Coming, x)' <=> Brings(Coming, x)
          /\ Brings(Underway, x)' <=> Brings(Underway, x)
          /\ Later(x)' <=> Later(x)
      BY <1>2, <2>4 DEF Hears
    <3>3. (Wanted(x) => In(w.bubbles, x) \/ Brings(Underway, x) \/ Noticed(x))'
      BY <1>1, <1>5, <2>3, <3>1, <3>2
    <3>4. (Stored(x) \/ Brings(Coming, x) => Once(w.bubbles, x))'
      BY <1>1, <1>5, <2>3, <3>1, <3>2
    <3>5. (Later(x) => ~ In(w.bubbles, x))'
      BY <1>5, <2>3, <3>1, <3>2
    <3> QED
      BY <3>3, <3>4, <3>5, BareFits
  <2>5. CASE x = e.item
    <3>1. Stored(x) /\ (Wanted(x) => Visible(e)) /\ Later(x) /\ ~ Later(x)'
      BY <1>2, <2>5 DEF Hears
    <3>2. ~ In(q, x)
      BY <2>3, <3>1
    <3>3. \A j \in DOMAIN q : x \notin Shows(q[j])
      BY <3>2 DEF In
    <3>4. x \in Shows(b) <=> Visible(e)
      BY <1>3, <1>4, <1>7, <2>5, <3>2, <3>3
    <3>5. (In(w.bubbles, x) <=> Visible(e)) /\ Once(w.bubbles, x)
      BY <1>4, <3>3, <3>4 DEF In, Once
    <3>6. (Wanted(x) => In(w.bubbles, x) \/ Brings(Underway, x) \/ Noticed(x))'
      BY <1>1, <1>5, <3>1, <3>5
    <3>7. (Stored(x) \/ Brings(Coming, x) => Once(w.bubbles, x))'
      BY <1>5, <3>5
    <3>8. (Later(x) => ~ In(w.bubbles, x))'
      BY <3>1
    <3> QED
      BY <3>6, <3>7, <3>8, BareFits
  <2> QED
    BY <2>4, <2>5
<1> QED
  BY <1>6, <1>7

\* The bubble with the id of the response takes the frame in.
LEMMA MergeOnce ==
  ASSUME NEW x, NEW e, Hears(e, x), Shape(ui), Sound(ui, x), x \notin blurred => Fits(ui, x),
         e.kind \notin Pieces, Merge(e)
  PROVE  Heard(e, x)
<1>1. PICK u, w, m : u = ui /\ w = ui' /\ m = Live(e)
  OBVIOUS
<1>2. PICK S : S = WithId(m.id)
  OBVIOUS
<1>3. PICK i : i = First(S)
  OBVIOUS
<1>4. PICK old : old = u.bubbles[i]
  OBVIOUS
<1>a. PICK a : a = IF Repeats(e, old) THEN {} ELSE Bubble(e, m).parts
  OBVIOUS
<1>5. PICK b : b = [Bubble(e, m) EXCEPT !.parts = a \cup old.parts]
  OBVIOUS
<1>6. PICK t : t = IF old.streaming THEN ui.last ELSE Time(e)
  OBVIOUS
<1>7. /\ ~ Buffering /\ m.id \in Ids /\ blurred' = blurred \cup Texts(old) \cup ({e.item} \ a)
      /\ ui' = [ui EXCEPT !.bubbles[i] = b, !.last = t]
  BY <1>1, <1>2, <1>3, <1>4, <1>a, <1>5, <1>6 DEF Merge
<1>8. i \in DOMAIN u.bubbles
  <2>1. S # {} /\ S \subseteq DOMAIN u.bubbles
    BY <1>1, <1>2, <1>7 DEF Ids, WithId
  <2>2. S \subseteq Nat
    BY <1>1, <2>1, DrawnIs DEF Shape
  <2>3. \E k \in S : \A j \in S : k <= j
    BY <2>1, <2>2, Least
  <2>4. i \in S
    BY <1>3, <2>3 DEF First
  <2> QED
    BY <2>1, <2>4
<1>9. /\ w.buffer = u.buffer /\ u.buffer = NoBuffer /\ w.bubbles = [u.bubbles EXCEPT ![i] = b]
  BY <1>1, <1>7 DEF Shape, PageFields, Buffering
<1>10. PICK c : c = Bubble(e, m)
  OBVIOUS
<1>11. /\ x \in Shows(c) <=> x = e.item /\ Visible(e)
  <2>1. e.kind \in SentKinds \cup Made /\ e.item # "filler"
    BY FrameKinds, ItemsAre DEF Hears
  <2> QED
    BY <1>1, <1>10, <2>1, BubbleShows
<1>12. b.text = c.text /\ b.parts = a \cup old.parts /\ a \subseteq c.parts
  <2>1. DOMAIN c = Fields
    BY <1>10, BubbleIs
  <2> QED
    BY <1>a, <1>5, <1>10, <2>1 DEF Fields
<1>13. x \in Shows(b) <=> x \in Texts(c) \/ x \in a \/ x \in old.parts
  BY <1>12 DEF Shows, Texts
<1>b. x \in Texts(c) \/ x \in a => x \in Shows(c)
  BY <1>12 DEF Shows
<1>14. x \in Shows(old) <=> x \in Texts(old) \/ x \in old.parts
  BY DEF Shows
<1>15. x \in Shows(b) => x = e.item \/ x \in Shows(u.bubbles[i])
  BY <1>4, <1>11, <1>13, <1>14, <1>b
<1>16. x \notin blurred' =>
         (x \in Shows(b) <=> (x = e.item /\ Visible(e)) \/ x \in Shows(u.bubbles[i]))
  <2>1. x \notin blurred' => x \notin Texts(old) /\ (x = e.item => x \in a)
    BY <1>7
  <2> QED
    BY <1>4, <1>11, <1>13, <1>14, <1>b, <2>1
<1>17. Sound(w, x)' /\ (x \notin blurred' => Fits(w, x)')
  BY <1>1, <1>8, <1>9, <1>15, <1>16, PutOnce
<1> QED
  BY <1>1, <1>17 DEF Heard

\* The last bubble with a caret becomes the frame's.
LEMMA ReplaceOnce ==
  ASSUME NEW x, NEW e, Hears(e, x), Shape(ui), Sound(ui, x), x \notin blurred => Fits(ui, x),
         e.kind \notin Pieces, Replace(e)
  PROVE  Heard(e, x)
<1>1. PICK u, w, m : u = ui /\ w = ui' /\ m = Live(e)
  OBVIOUS
<1>2. PICK S : S = Streaming
  OBVIOUS
<1>3. PICK i : i = Latest(S)
  OBVIOUS
<1>4. PICK old : old = u.bubbles[i]
  OBVIOUS
<1>5. PICK b : b = [Bubble(e, m) EXCEPT !.id = old.id]
  OBVIOUS
<1>7. /\ ~ Buffering /\ S # {} /\ blurred' = blurred \cup ((Texts(old) \cup old.parts) \ {e.item})
      /\ ui' = [ui EXCEPT !.bubbles[i] = b]
  BY <1>1, <1>2, <1>3, <1>4, <1>5 DEF Replace
<1>8. i \in DOMAIN u.bubbles
  <2>1. S \subseteq DOMAIN u.bubbles
    BY <1>1, <1>2 DEF Streaming
  <2>2. PICK n : n = Len(u.bubbles)
    OBVIOUS
  <2>3. n \in Nat /\ S \in SUBSET (1 .. n)
    BY <1>1, <2>1, <2>2, DrawnIs DEF Shape
  <2>4. Max(S) \in S /\ \A j \in S : j <= Max(S)
    BY <1>7, <2>3, Greatest
  <2>5. \E k \in S : \A j \in S : k >= j
    BY <2>3, <2>4
  <2>6. i \in S
    BY <1>3, <2>5 DEF Latest
  <2> QED
    BY <2>1, <2>6
<1>9. /\ w.buffer = u.buffer /\ u.buffer = NoBuffer /\ w.bubbles = [u.bubbles EXCEPT ![i] = b]
  BY <1>1, <1>7 DEF Shape, PageFields, Buffering
<1>10. PICK c : c = Bubble(e, m)
  OBVIOUS
<1>11. x \in Shows(c) <=> x = e.item /\ Visible(e)
  <2>1. e.kind \in SentKinds \cup Made /\ e.item # "filler"
    BY FrameKinds, ItemsAre DEF Hears
  <2> QED
    BY <1>1, <1>10, <2>1, BubbleShows
<1>12. b.text = c.text /\ b.parts = c.parts
  <2>1. DOMAIN c = Fields
    BY <1>10, BubbleIs
  <2> QED
    BY <1>5, <1>10, <2>1 DEF Fields
<1>13. x \in Shows(b) <=> x \in Shows(c)
  BY <1>12 DEF Shows, Texts
<1>14. x \in Shows(old) <=> x \in Texts(old) \cup old.parts
  BY DEF Shows
<1>15. x \in Shows(b) => x = e.item \/ x \in Shows(u.bubbles[i])
  BY <1>11, <1>13
<1>16. x \notin blurred' /\ ~ (x = e.item /\ In(u.bubbles, x)) =>
         (x \in Shows(b) <=> (x = e.item /\ Visible(e)) \/ x \in Shows(u.bubbles[i]))
  <2>1. x \in Shows(u.bubbles[i]) => In(u.bubbles, x)
    BY <1>8 DEF In
  <2>2. x \notin blurred' /\ x # e.item => x \notin Shows(old)
    BY <1>7, <1>14
  <2> QED
    BY <1>4, <1>11, <1>13, <2>1, <2>2
<1>17. Sound(w, x)' /\ (x \notin blurred' => Fits(w, x)')
  BY <1>1, <1>8, <1>9, <1>15, <1>16, PutOnce
<1> QED
  BY <1>1, <1>17 DEF Heard

\* A text is an answer.
LEMMA TextsAreAnswers ==
  ASSUME NEW f, f.kind \in TextAnswers
  PROVE  IsAnswer(f)
<1>1. f.kind \in SentKinds /\ Parse(f) = Assistant(f)
  BY ParseIs DEF SentKinds, Answers
<1>2. Live(f) = Assistant(f)
  BY <1>1 DEF Live, Processed
<1> QED
  BY <1>2 DEF IsAnswer, Assistant, Parsed

\* What is new is dropped by nobody.
LEMMA PushedDrops ==
  ASSUME NEW u, NEW w, Drawn(u.bubbles), NEW b, DOMAIN b = Fields, ~ b.streaming,
         w.buffer = u.buffer, w.bubbles = Append(u.bubbles, b)
  PROVE  Dropped(w) = Dropped(u)
<1>1. PICK q, r : q = u.bubbles /\ r = w.bubbles
  OBVIOUS
<1>2. /\ Len(q) \in Nat /\ DOMAIN q = 1 .. Len(q) /\ DOMAIN r = 1 .. Len(q) + 1
      /\ r[Len(q) + 1] = b /\ \A i \in 1 .. Len(q) : r[i] = q[i]
  BY <1>1, DrawnIs, DrawnAppend
<1>3. \A i \in 1 .. Len(q) + 1 : i \in 1 .. Len(q) \/ i = Len(q) + 1
  BY <1>2
<1>4. \A i \in 1 .. Len(q) : i \in DOMAIN r
  BY <1>2
<1> DEFINE open == {i \in DOMAIN q : q[i].streaming}
<1>5. {i \in DOMAIN r : r[i].streaming} = open
  BY <1>2, <1>3, <1>4
<1>6. UNION {Texts(r[i]) : i \in open} = UNION {Texts(q[i]) : i \in open}
  BY <1>2
<1> QED
  BY <1>1, <1>5, <1>6 DEF Dropped

\* A message is new.
LEMMA PushOnce ==
  ASSUME NEW x, NEW e, Hears(e, x), Shape(ui), Sound(ui, x), x \notin blurred => Fits(ui, x),
         e.kind \notin Pieces, Push(e)
  PROVE  Heard(e, x)
<1>1. PICK u, w, b : u = ui /\ w = Pushed(e) /\ b = Bubble(e, Live(e))
  OBVIOUS
<1>2. PICK q : q = u.bubbles
  OBVIOUS
<1>3. /\ (x \notin blurred' => x \notin blurred) /\ ToSet(file') = ToSet(file)
      /\ (Stored(x)' <=> Stored(x)) /\ (Wanted(x)' <=> Wanted(x)) /\ (Noticed(x)' <=> Noticed(x))
      /\ e.kind \in SentKinds \cup Made
  BY FrameKinds DEF Hears, Cuts
<1>4. FrameOf(e, x) <=> x = e.item
  BY DEF FrameOf
<1>5. w.buffer = u.buffer /\ w.bubbles = Append(q, b) /\ DOMAIN w = PageFields
  BY <1>1, <1>2 DEF Pushed, Shape, PageFields
<1>6. DOMAIN b = Fields /\ ~ b.streaming /\ b.id = Live(e).id
  BY <1>1, BubbleIs
<1>7. x \in Shows(b) <=> x = e.item /\ Visible(e)
  <2>1. PICK m : m = Live(e)
    OBVIOUS
  <2>2. x \in Shows(Bubble(e, m)) <=> x = e.item /\ Visible(e)
    <3>1. e.item # "filler"
      BY ItemsAre DEF Hears
    <3> QED
      BY <1>3, <2>1, <3>1, BubbleShows
  <2> QED
    BY <1>1, <2>1, <2>2
<1>8. Drawn(q) /\ Shape(u)
  BY <1>1, <1>2 DEF Shape
<1>9. u.buffer # NoBuffer => ~ IsAnswer(e) /\ b.id # u.buffer.id
  <2>1. u.buffer # NoBuffer => ~ IsAnswer(e)
    BY <1>1 DEF Push, Waits, Buffering
  <2>2. u.buffer # NoBuffer => Live(e).id = NoId
    BY <1>3, <2>1, AnswersAre
  <2> QED
    BY <1>6, <1>8, <2>1, <2>2 DEF Shape
<1>10. PICK id : id = u.buffer.id
  OBVIOUS
<1>11. /\ In(w.bubbles, x) <=> In(q, x) \/ x \in Shows(b)
       /\ Once(q, x) /\ ~ (In(q, x) /\ x \in Shows(b)) => Once(w.bubbles, x)
       /\ Single(q, id) /\ (b.id = id => \A i \in DOMAIN q : q[i].id # id) => Single(w.bubbles, id)
       /\ \A i \in DOMAIN w.bubbles : w.bubbles[i] = b \/ \E j \in DOMAIN q : w.bubbles[i] = q[j]
  <2>1. /\ In(Append(q, b), x) <=> In(q, x) \/ x \in Shows(b)
        /\ Once(q, x) /\ ~ (In(q, x) /\ x \in Shows(b)) => Once(Append(q, b), x)
        /\ Single(q, id) /\ (b.id = id => \A i \in DOMAIN q : q[i].id # id) => Single(Append(q, b), id)
        /\ \A i \in DOMAIN Append(q, b) : Append(q, b)[i] = b \/ \E j \in DOMAIN q : Append(q, b)[i] = q[j]
    BY <1>6, <1>8, OneMoreShows
  <2> QED
    BY <1>5, <2>1
<1>12. Kept(w, x) <=> Kept(u, x)
  BY <1>5 DEF Kept
<1>13. Shape(w)
  <2>1. Drawn(Append(q, b))
    BY <1>6, <1>8, DrawnAppend
  <2> QED
    BY <1>5, <1>8, <2>1 DEF Shape
<1>14. Sound(w, x)'
  <2>1. Holder(w)
    <3> SUFFICES ASSUME u.buffer # NoBuffer PROVE Holder(w)
      BY <1>5 DEF Holder
    <3>1. /\ \A i \in DOMAIN q : q[i].id = id =>
                q[i].streaming /\ q[i].parts = {} /\ q[i].text \in Seq(Names)
          /\ Single(q, id)
      BY <1>1, <1>2, <1>10 DEF Sound, Holder, Single
    <3>2. Single(w.bubbles, id) /\ b.id # id
      BY <1>9, <1>10, <1>11, <3>1
    <3>3. \A i \in DOMAIN w.bubbles : w.bubbles[i].id = id =>
             w.bubbles[i].streaming /\ w.bubbles[i].parts = {} /\ w.bubbles[i].text \in Seq(Names)
      BY <1>11, <3>1, <3>2
    <3> QED
      BY <1>5, <1>10, <3>2, <3>3 DEF Holder, Single
  <2>2. /\ \A i \in DOMAIN w.buffer.got : w.buffer.got[i].kind \notin Pieces
        /\ \A i \in DOMAIN w.buffer.got : w.buffer.got[i].item = x => w.buffer.got[i] \in ToSet(file)
    BY <1>1, <1>5 DEF Sound
  <2>3. x = e.item => Stored(x)
    BY <1>4 DEF Hears
  <2>4. x \in Made /\ (In(w.bubbles, x) \/ Kept(w, x)) => Stored(x)
    BY <1>1, <1>2, <1>7, <1>11, <1>12, <2>3 DEF Sound
  <2> QED
    BY <1>3, <2>1, <2>2, <2>4 DEF Sound, Holder, In, Kept
<1>15. ASSUME x \notin blurred', x # e.item PROVE Fits(w, x)'
  <2>1. Fits(u, x)
    BY <1>1, <1>3, <1>15
  <2>2. x \notin Shows(b)
    BY <1>7, <1>15
  <2>3. InOpen(u, x) => InOpen(w, x)
    BY <1>2, <1>5, <1>11, <2>2 DEF InOpen
  <2>4. Half(w, x) => Half(u, x)
    BY <1>2, <1>5, <1>11, <2>2 DEF Half
  <2>5. /\ Kept(u, x) => InOpen(u, x)
        /\ \A i, j \in DOMAIN u.buffer.got : u.buffer.got[i].item = x /\ u.buffer.got[j].item = x => i = j
        /\ u.buffer # NoBuffer /\ Stored(x) /\ Half(u, x) => Brings(Coming, x) \/ Kept(u, x)
    BY <2>1 DEF Fits
  <2>6. /\ \A i, j \in DOMAIN w.buffer.got : w.buffer.got[i].item = x /\ w.buffer.got[j].item = x => i = j
        /\ w.buffer # NoBuffer /\ Half(w, x) /\ Stored(x) => Brings(Coming, x) \/ Kept(w, x)
    BY <1>5, <1>12, <2>4, <2>5
  <2>7. /\ In(u.bubbles, x) <=> In(w.bubbles, x)
        /\ Once(u.bubbles, x) => Once(w.bubbles, x)
    BY <1>2, <1>11, <2>2
  <2>8. ~ FrameOf(e, x)
    BY <1>4, <1>15
  <2> QED
    BY <1>5, <1>12, <2>1, <2>3, <2>5, <2>6, <2>7, <2>8, Carried
<1>16. ASSUME x \notin blurred', x = e.item PROVE Fits(w, x)'
  <2>1. Fits(u, x)
    BY <1>1, <1>3, <1>16
  <2>2. Stored(x) /\ (Wanted(x) => Visible(e)) /\ Later(x) /\ ~ Later(x)' /\ (Near(Coming, x) => e.kind \in TextAnswers)
    BY <1>4, <1>16 DEF Hears
  <2>3. ~ Kept(u, x) /\ (In(q, x) => Preview(u, x)) /\ Once(q, x)
    BY <1>2, <2>1, <2>2 DEF Fits
  <2>4. ~ In(q, x)
    BY <1>9, <2>2, <2>3, TextsAreAnswers DEF Preview
  <2>5. (In(w.bubbles, x) <=> Visible(e)) /\ Once(w.bubbles, x)
    BY <1>7, <1>11, <1>16, <2>3, <2>4
  <2>6. w.buffer # NoBuffer => ~ Half(w, x)
    BY <1>5, <1>9, <1>11, <2>4 DEF Half, In
  <2>7. /\ In(w.bubbles, x)' <=> In(w.bubbles, x)
        /\ Kept(w, x)' <=> Kept(w, x)
        /\ Once(w.bubbles, x)' <=> Once(w.bubbles, x)
        /\ Half(w, x)' <=> Half(w, x)
    BY DEF In, Kept, Once, Half
  <2>8. ~ Kept(w, x)
    BY <1>12, <2>3
  <2>9. \A i, j \in DOMAIN w.buffer.got :
          w.buffer.got[i].item = x /\ w.buffer.got[j].item = x => i = j
    BY <1>5, <2>1 DEF Fits
  <2> QED
    BY <1>3, <2>2, <2>5, <2>6, <2>7, <2>8, <2>9 DEF Fits
<1>17. CASE Live(e).subtype \in {"interrupt", "client_launched"}
  <2>1. ui' = Stopped(w) /\ blurred' = blurred \cup Dropped(u)
    BY <1>1, <1>17 DEF Push
  <2>2. Dropped(w) = Dropped(u)
    BY <1>2, <1>5, <1>6, <1>8, PushedDrops
  <2>3. Sound(Stopped(w), x)'
    BY <1>13, <1>14, StoppedSound
  <2>4. ASSUME x \notin blurred' PROVE Fits(Stopped(w), x)'
    BY <1>13, <1>14, <1>15, <1>16, <2>1, <2>2, <2>4, StoppedFits
  <2> QED
    BY <2>1, <2>3, <2>4 DEF Heard
<1>18. CASE Live(e).subtype \notin {"interrupt", "client_launched"}
  <2>1. ui' = w
    BY <1>1, <1>18 DEF Push
  <2> QED
    BY <1>14, <1>15, <1>16, <2>1 DEF Heard
<1> QED
  BY <1>17, <1>18

\* The page reads an event.
LEMMA ReadOnce ==
  ASSUME LegsIInv, LegsIInv', CaretIInv, NEW x, x # "filler", ItemOnce(x), Read
  PROVE  ItemOnce(x)'
<1>1. PICK e : e = Head(unread)
  OBVIOUS
<1>2. /\ view = "here" /\ view' = "here" /\ unread # <<>> /\ unread' = Tail(unread)
      /\ UNCHANGED <<script, file, reader, notices, had, page>>
      /\ \/ StartStream(e) \/ StreamText(e) \/ StopStream(e)
         \/ e.kind \notin Pieces /\ (Collect(e) \/ Merge(e) \/ Replace(e) \/ Push(e))
  BY <1>1 DEF Read, serverVars
<1>3. FiledOnce(x) /\ ToldOnce(x) /\ PageOnce(x) /\ ShowingOnce(x)
  BY DEF ItemOnce
<1>4. blurred \subseteq blurred'
  BY <1>2 DEF StartStream, StreamText, StopStream, Collect, Merge, Replace, Push, ghosts
<1>5. Hears(e, x)
  BY <1>1, <1>2, <1>3, <1>4, HearsIs
<1>6. Shape(ui) /\ Sound(ui, x) /\ (x \notin blurred => Fits(ui, x))
  BY <1>2, <1>3 DEF CaretIInv, PageOnce, ShowingOnce
<1>7. Heard(e, x)
  BY <1>2, <1>5, <1>6, StartOnce, TextOnce, StopOnce, CollectOnce, MergeOnce, ReplaceOnce, PushOnce
<1>8. PageOnce(x)'
  BY <1>2, <1>7 DEF PageOnce, Heard
<1>9. LoadingOnce(x)'
  BY <1>2 DEF LoadingOnce
<1>10. ShowingOnce(x)'
  BY <1>7 DEF ShowingOnce, Heard
<1> QED
  BY <1>5, <1>8, <1>9, <1>10 DEF ItemOnce, Hears, Cuts

\* What can be told.
LEMMA TellableAre ==
  /\ "said" \in Tellable /\ "interrupt" \in Tellable
  /\ \A x \in Tellable : x # "filler" /\ x # "interrupt_success"
<1>1. \A k \in Made : Frame(k, k, NoId, "none") \in Frames /\ Frame(k, k, NoId, "none").item = k
  BY DEF Frames, OwnFrames, Frame
<1>2. Made \subseteq Names
  BY <1>1 DEF Names
<1>3. \A x \in Names : x # "filler"
  BY ItemsAre DEF Names
<1> QED
  BY <1>2, <1>3 DEF Tellable, Made

\* What is in the file can be told.
LEMMA FiledTells ==
  ASSUME LegsIInv, NothingUnsaid, NEW i \in DOMAIN file
  PROVE  file[i].item \in Tellable
<1>1. PICK f : f = file[i]
  OBVIOUS
<1>2. f \in Frames /\ f.kind \in SentKinds \cup Made /\ f.item # "interrupt_success"
  BY <1>1, TypedIs, LenProperties, ElementOfSeq DEF FileOK, NothingUnsaid
<1>3. f.item # "none"
  <2>1. CASE f \in OwnFrames
    BY <2>1 DEF OwnFrames, Frame, Made
  <2>2. ASSUME NEW s \in Scripts, f \in ToSet(s) PROVE f.item # "none"
    <3>1. PICK j \in DOMAIN s : f = s[j]
      BY <2>2 DEF ToSet
    <3>2. s[j].kind \in SentKinds \cup {"start", "delta", "stop"} /\ (s[j].kind \in SentKinds => s[j].item # "none")
      BY ScriptsAssumption
    <3>3. f.kind \notin {"start", "delta", "stop"}
      BY <1>2 DEF SentKinds, TaskKinds, Answers, TextAnswers, Made
    <3> QED
      BY <3>1, <3>2, <3>3
  <2> QED
    BY <1>2, <2>1, <2>2 DEF Frames
<1> QED
  BY <1>1, <1>2, <1>3 DEF Tellable, Names

\* The file never has an interrupt_success.
LEMMA UnsaidStays ==
  ASSUME LegsIInv, NothingUnsaid, [Next]_vars
  PROVE  NothingUnsaid'
<1>1. file \in Seq(Frames)
  BY TypedIs
<1>2. ASSUME NEW f \in Frames, file' = Append(file, f), f.item # "interrupt_success"
      PROVE  NothingUnsaid'
  <2>1. /\ DOMAIN file' = 1 .. Len(file) + 1 /\ file'[Len(file) + 1] = f /\ DOMAIN file = 1 .. Len(file)
        /\ Len(file) \in Nat /\ \A i \in 1 .. Len(file) : file'[i] = file[i]
    BY <1>1, <1>2, AppendProperties, LenProperties
  <2>2. \A i \in 1 .. Len(file) + 1 : i \in 1 .. Len(file) \/ i = Len(file) + 1
    BY <2>1
  <2> QED
    BY <1>2, <2>1, <2>2 DEF NothingUnsaid
<1>3. ASSUME NEW k \in Made, k # "interrupt_success", Says(k) PROVE NothingUnsaid'
  <2>1. PICK f : f = Frame(k, k, NoId, "none")
    OBVIOUS
  <2>2. f \in Frames /\ f.item = k /\ file' = Append(file, f)
    BY <1>3, <2>1 DEF Frames, OwnFrames, Frame, Says
  <2> QED
    BY <1>2, <1>3, <2>2
<1>4. CASE Store
  <2>1. PICK f : f = Head(script)
    OBVIOUS
  <2>2. /\ script # <<>> /\ f.kind \notin Pieces /\ file' = Append(file, f)
    BY <1>4, <2>1 DEF Store
  <2>3. f \in Frames /\ f = script[1] /\ 1 \in DOMAIN script
    <3>1. script \in Seq(Frames)
      BY TypedIs
    <3>2. Len(script) \in Nat /\ DOMAIN script = 1 .. Len(script) /\ Len(script) # 0
      BY <2>2, <3>1, EmptySeq, LenProperties
    <3>3. 1 \in 1 .. Len(script)
      BY <3>2
    <3> QED
      BY <2>1, <2>2, <3>1, <3>2, <3>3, FirstAndRest
  <2>4. f.kind \in SentKinds
    BY <2>2, <2>3 DEF LegsIInv, Sends
  <2>5. f.kind \notin Made
    BY <2>4 DEF SentKinds, TaskKinds, Answers, TextAnswers, Made
  <2>6. f.item # "interrupt_success"
    BY <2>3, <2>5, ItemsAre DEF Made
  <2> QED
    BY <1>2, <2>2, <2>3, <2>6
<1>5. CASE Send \/ Interrupt \/ Launch
  BY <1>3, <1>5 DEF Send, Interrupt, Launch, Made
<1>6. CASE UNCHANGED file
  BY <1>6 DEF NothingUnsaid
<1>7. \/ Store \/ Send \/ Interrupt \/ Launch
      \/ UNCHANGED file
  BY DEF Next, vars, serverVars, Emit, Publish, PublishNotice, Terminate, Visit, Ask, Loaded, Read,
         HearEnd, Stall, Sync, Reconnect
<1> QED
  BY <1>4, <1>5, <1>6, <1>7

\* Nothing is told at the start.
LEMMA OnceInit ==
  ASSUME LegsIInv, Init, NEW x
  PROVE  ItemOnce(x)
<1>1. /\ script \in Scripts /\ file = <<>> /\ reader = NoFrame /\ notices = {}
      /\ view = "away" /\ unread = <<>> /\ ui = NoPage
  BY DEF Init
<1>2. script \in Seq(Frames)
  BY TypedIs
<1>3. Held = <<>> /\ ToSet(<<>>) = {}
  BY <1>1, NoneIs DEF Held
<1>4. Coming = script
  <2>1. PICK s : s = script
    OBVIOUS
  <2>2. <<>> \o s = s
    BY <1>2, <2>1, ConcatEmptySeq
  <2> QED
    BY <1>1, <1>3, <2>1, <2>2 DEF Coming
<1>5. ~ Stored(x) /\ ~ Wanted(x) /\ ~ Noticed(x)
  BY <1>1 DEF Stored, Wanted, Noticed
<1>6. FiledOnce(x)
  BY <1>1, <1>3, <1>5 DEF FiledOnce
<1>7. Good(script, x)
  <2>1. \A i \in DOMAIN script : script[i].kind \in SentKinds \cup Pieces
    BY <1>1, ScriptsAssumption DEF Pieces
  <2>2. ASSUME NEW i \in DOMAIN script, NEW j \in DOMAIN script, FrameOf(script[j], x)
        PROVE  /\ FrameOf(script[i], x) => i = j
               /\ DeltaOf(script[i], x) => Streams(script, i, j)
    <3>1. \A k \in DOMAIN script : FrameOf(script[k], x) => script[k].kind \in SentKinds /\ script[k].item = x
      BY <2>1 DEF FrameOf
    <3>2. FrameOf(script[i], x) => i = j
      BY <1>1, <2>2, <3>1, ScriptsAssumption
    <3>3. DeltaOf(script[i], x) => Streams(script, i, j)
      BY <1>1, <2>2, <3>1, ScriptsAssumption DEF DeltaOf
    <3> QED
      BY <3>2, <3>3
  <2> QED
    BY <2>2 DEF Good
<1>8. ToldOnce(x)
  BY <1>4, <1>5, <1>7 DEF ToldOnce
<1>9. ui.bubbles = <<>> /\ ui.buffer = NoBuffer
  BY <1>1 DEF NoPage
<1>10. PageOnce(x)
  <2>1. ~ In(ui.bubbles, x)
    BY <1>9 DEF In
  <2>2. ~ Kept(ui, x) /\ DOMAIN ui.buffer.got = {} /\ Holder(ui)
    BY <1>9, NothingKept
  <2> QED
    BY <1>1, <1>9, <2>1, <2>2 DEF PageOnce, Sound
<1>11. LoadingOnce(x) /\ ShowingOnce(x)
  BY <1>1 DEF LoadingOnce, ShowingOnce
<1> QED
  BY <1>6, <1>8, <1>10, <1>11 DEF ItemOnce

\* A step of the server, which changes nothing on the page.
LEMMA ServerOnce ==
  ASSUME LegsIInv, LegsIInv', NEW x, x # "interrupt_success", ItemOnce(x), ItemOnce("said"), ItemOnce("interrupt"),
         \/ Emit \/ Store \/ Publish
         \/ \E f \in notices : PublishNotice(f)
         \/ Send \/ Interrupt \/ Terminate \/ Launch \/ UNCHANGED vars
  PROVE  ItemOnce(x)'
<1>1. /\ FiledOnce(x) /\ ToldOnce(x) /\ PageOnce(x) /\ LoadingOnce(x) /\ ShowingOnce(x)
      /\ FiledOnce("said") /\ FiledOnce("interrupt")
  BY DEF ItemOnce
<1>2. FiledOnce(x)' /\ ToldOnce(x)' /\ Steady(x)
  BY <1>1, EmitOnce, StoreOnce, PublishOnce, NoticeOnce, SendOnce, LaunchOnce, InterruptOnce,
     TerminateOnce, NothingOnce
<1>3. PageOnce(x)' /\ LoadingOnce(x)' /\ ShowingOnce(x)'
  BY <1>1, <1>2, PageStays
<1> QED
  BY <1>2, <1>3 DEF ItemOnce

\* However frames, pieces, interrupts and stalls come between, of every item
\* the data are as they should be.
THEOREM OnceCorrect == Spec => []OnceIInv
<1>1. Init /\ LegsIInv => OnceIInv
  <2>1. Init => NothingUnsaid
    BY DEF Init, NothingUnsaid
  <2> QED
    BY <2>1, OnceInit DEF OnceIInv
<1>2. LegsIInv /\ LegsIInv' /\ CaretIInv /\ OnceIInv /\ [Next]_vars => OnceIInv'
  <2> SUFFICES ASSUME LegsIInv, LegsIInv', CaretIInv, OnceIInv, [Next]_vars PROVE OnceIInv'
    OBVIOUS
  <2>1. NothingUnsaid'
    BY UnsaidStays DEF OnceIInv
  <2>2. ASSUME NEW x \in Tellable PROVE ItemOnce(x)'
    <3>1. ItemOnce(x) /\ ItemOnce("said") /\ ItemOnce("interrupt") /\ x # "filler" /\ x # "interrupt_success"
      BY TellableAre DEF OnceIInv
    <3>2. \/ Emit \/ Store \/ Publish
          \/ \E f \in notices : PublishNotice(f)
          \/ Send \/ Interrupt \/ Terminate \/ Launch \/ UNCHANGED vars
          \/ Visit \/ Ask \/ Loaded \/ Read
          \/ HearEnd \/ Stall \/ Sync \/ Reconnect
      BY DEF Next
    <3> QED
      BY <3>1, <3>2, ServerOnce, VisitOnce, AskOnce, LoadedOnce, ReadOnce, HearOnce, StallOnce, SyncOnce,
         ReconnectOnce
  <2> QED
    BY <2>1, <2>2 DEF OnceIInv
<1> QED
  BY <1>1, <1>2, LegsCorrect, CaretsCorrect, PTL DEF Spec

\* When nothing is on its way, every text, tool use and result of the file is
\* on the page once.
THEOREM OnceSafe == Spec => []ShownOnce
<1>1. LegsIInv /\ OnceIInv => ShownOnce
  <2> SUFFICES ASSUME LegsIInv, OnceIInv, AtRest, ~ Buffering,
                      NEW x \in {f.item : f \in {f \in ToSet(file) : Visible(f)}} \ blurred
               PROVE  Cardinality({i \in DOMAIN ui.bubbles : x \in Shows(ui.bubbles[i])}) = 1
    BY DEF ShownOnce
  <2>1. PICK k \in DOMAIN file : file[k].item = x /\ Visible(file[k])
    BY DEF ToSet
  <2>2. ItemOnce(x)
    BY <2>1, FiledTells DEF OnceIInv
  <2>3. /\ reader = NoFrame /\ notices = {} /\ view = "here" /\ unread = <<>> /\ ui.buffer = NoBuffer
    BY DEF AtRest, Buffering
  <2>4. Wanted(x) /\ Stored(x)
    BY <2>1 DEF Wanted, Stored
  <2>5. Fits(ui, x)
    BY <2>2, <2>3 DEF ItemOnce, ShowingOnce
  <2>6. ~ Brings(Underway, x) /\ ~ Noticed(x)
    <3>1. ~ Noticed(x)
      BY <2>3 DEF Noticed
    <3>2. Brings(Underway, x) <=> Brings(unread, x) \/ Brings(Held, x)
      BY ComingIs
    <3>3. ~ Brings(unread, x) /\ ~ Brings(Held, x)
      BY <2>3, NoneIs DEF Held
    <3> QED
      BY <3>1, <3>2, <3>3
  <2>7. ~ Kept(ui, x)
    BY <2>3, NothingKept
  <2>8. In(ui.bubbles, x) /\ Once(ui.bubbles, x)
    BY <2>4, <2>5, <2>6, <2>7 DEF Fits
  <2>9. PICK i \in DOMAIN ui.bubbles : x \in Shows(ui.bubbles[i])
    BY <2>8 DEF In
  <2>10. {j \in DOMAIN ui.bubbles : x \in Shows(ui.bubbles[j])} = {i}
    BY <2>8, <2>9 DEF Once
  <2> QED
    BY <2>10, FS_Singleton
<1> QED
  BY <1>1, OnceCorrect, LegsCorrect, PTL
=============================================================================
