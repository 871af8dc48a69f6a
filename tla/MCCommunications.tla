------------------------- MODULE MCCommunications -------------------------
(***************************************************************************)
(* Communications on a small instance.                                     *)
(***************************************************************************)
EXTENDS Communications

CONSTANTS m1, m2

Letter(from, to, prio, files) ==
  [from |-> from, to |-> to, prio |-> prio, files |-> files, kept |-> {}]
OneFile == <<[name |-> "a", text |-> "x"]>>
TwoOfOneName == <<[name |-> "a", text |-> "x"], [name |-> "a", text |-> "y"]>>

\* One of a minion, of any priority; one of the user, or an urgent one.
MCMails ==
  [t \in {m1, m2} |->
     IF t = m1
     THEN {Letter("minion", "minion", "none", OneFile),
           Letter("minion", "minion", "halt", <<>>), Letter("minion", "minion", "pivot", <<>>)}
     ELSE {Letter("user", "minion", "none", <<>>), Letter("minion", "minion", "pivot", <<>>),
           Letter("minion", "user", "none", TwoOfOneName)}]
=============================================================================
