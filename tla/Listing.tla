------------------------------- MODULE Listing -------------------------------
(***************************************************************************)
(* What a function that lists things promises while the things change: the *)
(* pids of the system, the open files of a process, the logged-in users.   *)
(* There is no moment of which the answer is a photograph; it has          *)
(* everything that was there during the whole call, and nothing that was   *)
(* there at no moment of it.  A function that has counted beforehand, and  *)
(* is not firm, may lack a thing for which another, newer one is listed.   *)
(***************************************************************************)
CONSTANT
  Entry  \* things that can be there

VARIABLES
  there,    \* the things that are there now
  busy,     \* whether a call is in progress
  wanted,   \* the things that the function of this call is to list
  firm,     \* whether it lists all of them, however many there are
  since,    \* the things that have been there since the call began
  ever,     \* the things that were there at some moment of the call
  refused,  \* the things the system has refused to describe during the call
  starved,  \* whether the call was refused the memory or the files it needs
  answer    \* the last answer: null, or a set of things

vars == <<there, busy, wanted, firm, since, ever, refused, starved, answer>>

Null == [null |-> TRUE, ids |-> {}]

\* Any function may be called next.
AnyFunction == wanted' \in SUBSET Entry /\ firm' \in BOOLEAN

Init ==
  /\ there \in SUBSET Entry
  /\ busy = FALSE /\ starved = FALSE
  /\ wanted \in SUBSET Entry /\ firm \in BOOLEAN
  /\ since = {} /\ ever = {} /\ refused = {}
  /\ answer = Null

\* Something appears or goes away.
Change ==
  /\ \E e \in Entry : there' = IF e \in there THEN there \ {e} ELSE there \cup {e}
  /\ since' = since \cap there'
  /\ ever' = IF busy THEN ever \cup there' ELSE ever
  /\ UNCHANGED <<busy, wanted, firm, refused, starved, answer>>

Start ==
  /\ ~busy /\ busy' = TRUE
  /\ AnyFunction
  /\ since' = there /\ ever' = there
  /\ refused' = {} /\ starved' = FALSE
  /\ answer' = Null
  /\ UNCHANGED there

\* The call is refused before anything has been looked at.
Deny ==
  /\ ~busy
  /\ since' = there /\ ever' = there
  /\ refused' = {} /\ starved' = TRUE
  /\ answer' = Null
  /\ UNCHANGED <<there, busy, wanted, firm>>

Refuse ==
  /\ busy
  /\ \E s \in SUBSET Entry : refused' = refused \cup s
  /\ UNCHANGED <<there, busy, wanted, firm, since, ever, starved, answer>>

\* What must be in an answer.
Owed == (since \cap wanted) \ refused

Finish ==
  /\ busy /\ busy' = FALSE
  /\ \E s \in SUBSET (ever \cap wanted) :
       /\ Owed \subseteq s \/ (~firm /\ s \ since # {})
       /\ answer' = [null |-> FALSE, ids |-> s]
  /\ AnyFunction
  /\ UNCHANGED <<there, since, ever, refused, starved>>

\* No answer: nothing to list, or no memory.
Fail ==
  /\ busy /\ busy' = FALSE
  /\ Owed = {} \/ starved' = TRUE
  /\ starved' \in BOOLEAN
  /\ answer' = Null
  /\ AnyFunction
  /\ UNCHANGED <<there, since, ever, refused>>

Next == Change \/ Start \/ Deny \/ Refuse \/ Finish \/ Fail

Spec == Init /\ [][Next]_vars
=============================================================================
