----------------------------- MODULE K2Messages -----------------------------
(***************************************************************************)
(* The message actions of k2ultra on the "messages" table of one scope, as *)
(* the code runs them: seenmsg and getunseen walk the secondary index      *)
(* "seen" entry by entry, and seenmsg moves the entries it walks over.     *)
(* Tables of different scopes share nothing.  One action runs at a time,   *)
(* and what it has stored is visible to others when it ends.               *)
(***************************************************************************)
EXTENDS Naturals, FiniteSets

CONSTANTS
    Senders,    \* account names
    MaxId,      \* largest key available_primary_key() hands out (2^64 - 3)
    MaxIter,    \* max_iterations, 1000
    Cap,        \* where getunseen stops counting, 100
    Silent      \* the answer of an action that prints nothing

ASSUME MessagesAssumption ==
    /\ MaxId \in Nat
    /\ MaxIter \in Nat \ {0}
    /\ Cap \in Nat \ {0}
    /\ Silent \notin Nat

VARIABLES
    messages,   \* the rows of the table, as the running action sees them
    saved,      \* the rows when the running action began
    call,       \* the action that is running: "none", "seenmsg", "getunseen"
    sender,     \* the parameter of the running getunseen
    itr,        \* id of the row the index iterator points to, or End
    iterations, \* the loop counter
    cnt,        \* what getunseen has counted
    printed     \* what the last action printed

loop == <<saved, sender, itr, iterations, cnt>>
vars == <<messages, saved, call, sender, itr, iterations, cnt, printed>>

Ids == 1..MaxId
End == 0        \* no row has the id 0

Msg == [id : Ids, sender : Senders, seen : {0, 1}]

TypeOK ==
    /\ messages \subseteq Msg
    /\ saved \subseteq Msg
    /\ call \in {"none", "seenmsg", "getunseen"}
    /\ sender \in Senders
    /\ itr \in Ids \cup {End}
    /\ iterations \in 0..MaxIter
    /\ cnt \in 0..Cap
    /\ printed \in Nat \cup {Silent}

Init ==
    /\ messages = {}
    /\ saved = {}
    /\ call = "none"
    /\ sender \in Senders
    /\ itr = End
    /\ iterations = 0
    /\ cnt = 0
    /\ printed = Silent

-----------------------------------------------------------------------------
(* The secondary index: the rows by "seen", and by id among equals.        *)

Precedes(m, n) ==
    \/ m.seen < n.seen
    \/ m.seen = n.seen /\ m.id < n.id

RowAt(id) == CHOOSE m \in messages : m.id = id

\* The least of the rows in "rows", the greatest of them, or End.
FirstIn(rows) ==
    IF rows = {} THEN End
    ELSE (CHOOSE m \in rows : \A n \in rows : n = m \/ Precedes(m, n)).id

LastIn(rows) ==
    IF rows = {} THEN End
    ELSE (CHOOSE m \in rows : \A n \in rows : n = m \/ Precedes(n, m)).id

Begin == FirstIn(messages)
LowerBound(k) == FirstIn({m \in messages : m.seen >= k})
UpperBound(k) == FirstIn({m \in messages : m.seen > k})

\* ++ and -- of an iterator; -- takes End to the last row.
After(id) == FirstIn({m \in messages : Precedes(RowAt(id), m)})
Before(id) == LastIn({m \in messages : id = End \/ Precedes(m, RowAt(id))})

-----------------------------------------------------------------------------
(* sendmsg, pushmsg, deletemesgs.                                          *)

Idle == call = "none"

\* The running action ends and its locals are gone.
Return ==
    /\ call' = "none"
    /\ saved' = {}
    /\ itr' = End
    /\ iterations' = 0
    /\ cnt' = 0
    /\ UNCHANGED <<messages, sender>>

\* available_primary_key(), with 0 replaced by 1.
NewId(id) ==
    \/ messages = {} /\ id = 1
    \/ \E last \in messages :
        /\ \A m \in messages : m.id <= last.id
        /\ id = last.id + 1

SendMsg(from) ==
    /\ Idle
    /\ \E id \in Ids :
        /\ NewId(id)
        /\ messages' = messages \cup {[id |-> id, sender |-> from, seen |-> 0]}
        /\ printed' = id
    /\ UNCHANGED <<loop, call>>

PushMsg(from) ==
    /\ Idle
    /\ \E id \in Ids :
        /\ NewId(id)
        /\ messages' = messages \cup {[id |-> id, sender |-> from, seen |-> 1]}
    /\ printed' = Silent
    /\ UNCHANGED <<loop, call>>

DeleteMesgs ==
    /\ Idle
    /\ messages' = {}
    /\ printed' = Silent
    /\ UNCHANGED <<loop, call>>

-----------------------------------------------------------------------------
(* Faulty variants of the operators below, one slip each, used by no       *)
(* action: they show that the properties can fail.                         *)

\* The iterator is moved on after its row has been marked: the next entry is
\* looked for among the seen ones.
SeenStepLate ==
    /\ call = "seenmsg"
    /\ itr # End
    /\ iterations < MaxIter
    /\ itr' = FirstIn({m \in messages : m.seen = 1 /\ itr < m.id})
    /\ messages' = (messages \ {RowAt(itr)}) \cup {[RowAt(itr) EXCEPT !.seen = 1]}
    /\ iterations' = iterations + 1
    /\ UNCHANGED <<saved, call, sender, cnt, printed>>

\* The loop counter is left alone: the walk goes on while rows come back
\* behind the iterator.
SeenStepUncounted ==
    /\ call = "seenmsg"
    /\ itr # End
    /\ itr' = IF After(itr) = End THEN Begin ELSE After(itr)
    /\ messages' = (messages \ {RowAt(itr)}) \cup {[RowAt(itr) EXCEPT !.seen = 1]}
    /\ UNCHANGED <<saved, call, sender, iterations, cnt, printed>>

\* The loop does not stop at Cap.
UnseenMoreUncapped ==
    /\ itr # Begin
    /\ RowAt(itr).seen = 0
    /\ iterations < MaxIter

-----------------------------------------------------------------------------
(* seenmsg.                                                                *)

\* The first entry exists and is unseen.
HasUnseen == LowerBound(0) # End /\ RowAt(LowerBound(0)).seen = 0

\* There is nothing to mark: prints 0 and returns.
SeenNothing ==
    /\ Idle
    /\ ~HasUnseen
    /\ printed' = 0
    /\ UNCHANGED <<messages, loop, call>>

SeenBegin ==
    /\ Idle
    /\ HasUnseen
    /\ call' = "seenmsg"
    /\ saved' = messages
    /\ itr' = LowerBound(0)
    /\ iterations' = 0
    /\ UNCHANGED <<messages, sender, cnt, printed>>

\* The iterator is moved on before the row it points to is modified, which
\* moves the row's entry behind all unseen ones.
SeenStep ==
    /\ call = "seenmsg"
    /\ itr # End
    /\ iterations < MaxIter
    /\ itr' = After(itr)
    /\ messages' = (messages \ {RowAt(itr)}) \cup {[RowAt(itr) EXCEPT !.seen = 1]}
    /\ iterations' = iterations + 1
    /\ UNCHANGED <<saved, call, sender, cnt, printed>>

SeenEnd ==
    /\ call = "seenmsg"
    /\ itr = End \/ iterations = MaxIter
    /\ printed' = IF iterations = MaxIter THEN 1 ELSE Silent
    /\ Return

-----------------------------------------------------------------------------
(* getunseen.                                                              *)

UnseenNothing ==
    /\ Idle
    /\ UpperBound(0) = Begin
    /\ printed' = 0
    /\ UNCHANGED <<messages, loop, call>>

UnseenBegin(from) ==
    /\ Idle
    /\ UpperBound(0) # Begin
    /\ call' = "getunseen"
    /\ saved' = messages
    /\ sender' = from
    /\ itr' = Before(UpperBound(0))
    /\ iterations' = 0
    /\ cnt' = 0
    /\ UNCHANGED <<messages, printed>>

\* The condition of the loop.
UnseenMore ==
    /\ itr # Begin
    /\ RowAt(itr).seen = 0
    /\ iterations < MaxIter
    /\ cnt < Cap

UnseenStep ==
    /\ call = "getunseen"
    /\ UnseenMore
    /\ cnt' = IF RowAt(itr).sender = sender THEN cnt + 1 ELSE cnt
    /\ iterations' = iterations + 1
    /\ itr' = Before(itr)
    /\ UNCHANGED <<messages, saved, call, sender, printed>>

\* The row the loop stopped at is looked at once more.
LastCounts ==
    /\ RowAt(itr).seen = 0
    /\ RowAt(itr).sender = sender
    /\ iterations < MaxIter

UnseenEnd ==
    /\ call = "getunseen"
    /\ ~UnseenMore
    /\ printed' = IF LastCounts THEN cnt + 1 ELSE cnt
    /\ Return

-----------------------------------------------------------------------------
Next ==
    \/ \E from \in Senders : SendMsg(from) \/ PushMsg(from) \/ UnseenBegin(from)
    \/ DeleteMesgs
    \/ SeenNothing \/ SeenBegin \/ SeenStep \/ SeenEnd
    \/ UnseenNothing \/ UnseenStep \/ UnseenEnd

Spec == Init /\ [][Next]_vars

\* An action that has begun runs to its end.
FairSpec == Spec /\ WF_vars(SeenStep \/ SeenEnd \/ UnseenStep \/ UnseenEnd)

-----------------------------------------------------------------------------
\* What the other transactions see: a running action has stored nothing yet.
Conv == INSTANCE Conversation WITH
            messages <- IF Idle THEN messages ELSE saved

\* The walks over the moving index do what Conversation says.
ImplementsConversation == Conv!Spec

\* Every call returns.
CallsReturn == ~Idle ~> Idle

\* The loop of seenmsg never meets a row twice while it is unseen and never
\* skips one: at any point the rows marked are the oldest that were unseen,
\* as many as there were iterations or all of them.
MarksEveryUnseen ==
    call = "seenmsg" =>
        LET was == {m \in saved : m.seen = 0}
            left == {m \in messages : m.seen = 0}
        IN  /\ left \subseteq was
            /\ \A m \in was \ left, n \in left : m.id < n.id
            /\ left # {} => Cardinality(was \ left) = iterations /\ itr = FirstIn(left)

=============================================================================
