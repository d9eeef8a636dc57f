---------------------------- MODULE Conversation ----------------------------
(***************************************************************************)
(* What the "messages" table of one scope promises to the two accounts     *)
(* that talk in it: every action of k2ultra that touches the table as one  *)
(* step, with the answer it prints, and no word about how seenmsg and      *)
(* getunseen walk the "seen" index.  K2Messages models the walks and       *)
(* implements this specification.                                          *)
(***************************************************************************)
EXTENDS Naturals, FiniteSets

CONSTANTS
    Senders,    \* account names
    MaxId,      \* largest key available_primary_key() hands out (2^64 - 3)
    MaxIter,    \* entries one call walks over (max_iterations, 1000)
    Cap,        \* count at which getunseen stops (100)
    Silent      \* the answer of an action that prints nothing

ASSUME ConversationAssumption ==
    /\ MaxId \in Nat
    /\ MaxIter \in Nat \ {0}
    /\ Cap \in Nat \ {0}
    /\ Silent \notin Nat

VARIABLES
    messages,   \* the rows of the table
    printed     \* what the last action printed

vars == <<messages, printed>>

Ids == 1..MaxId

\* "time" and "data" are never read by the contract, "reply_to" neither.
Msg == [id : Ids, sender : Senders, seen : {0, 1}]

TypeOK ==
    /\ messages \subseteq Msg
    /\ printed \in Nat \cup {Silent}

Init == messages = {} /\ printed = Silent

Unseen == {m \in messages : m.seen = 0}

Seen(m) == [m EXCEPT !.seen = 1]

-----------------------------------------------------------------------------
(* Faulty variants of the operators below, one slip each, used by no       *)
(* action: they show that the properties can fail.                         *)

\* available_primary_key() is called once for the id and once to test it,
\* and each call takes a key.
NewIdSkips(id) ==
    /\ id \in Ids
    /\ \/ messages = {} /\ id = 1
       \/ \E last \in messages :
            /\ \A m \in messages : m.id <= last.id
            /\ id = last.id + 2

\* The first key is left at 0.
StoreFromZero(sender, seen) ==
    \E id \in 0..MaxId :
        /\ \A m \in messages : m.id < id
        /\ id # 0 => \E m \in messages : id = m.id + 1
        /\ messages' = messages \cup {[id |-> id, sender |-> sender, seen |-> seen]}
        /\ printed' = IF seen = 0 THEN id ELSE Silent

\* The walk starts at the newest unseen message.
SeenMsgNewest ==
    \E read \in SUBSET Unseen :
        /\ Cardinality(read) <= MaxIter
        /\ read = Unseen \/ Cardinality(read) = MaxIter
        /\ \A m \in read, n \in Unseen \ read : n.id < m.id
        /\ messages' = (messages \ read) \cup {Seen(m) : m \in read}
        /\ printed' = 1

\* The erasing loop stops after one row.
DeleteMesgsFirst ==
    /\ messages' = {m \in messages : \E n \in messages : n.id < m.id}
    /\ printed' = Silent

-----------------------------------------------------------------------------
\* The id of a new message: one past the last, and 1 in an empty table.
NewId(id) ==
    /\ id \in Ids
    /\ \A m \in messages : m.id < id
    /\ id # 1 => \E m \in messages : id = m.id + 1

\* sendmsg and pushmsg: the second stores the message as already seen.
Store(sender, seen) ==
    \E id \in Ids :
        /\ NewId(id)
        /\ messages' = messages \cup {[id |-> id, sender |-> sender, seen |-> seen]}
        /\ printed' = IF seen = 0 THEN id ELSE Silent

\* As many rows of "all" as one call walks over.
Portion(some, all) ==
    /\ Cardinality(some) <= MaxIter
    /\ some = all \/ Cardinality(some) = MaxIter

\* seenmsg marks the oldest unseen messages.  If it prints nothing none is
\* left; it prints 0 if there was none to begin with.
SeenMsg ==
    \E read \in SUBSET Unseen :
        /\ Portion(read, Unseen)
        /\ \A m \in read, n \in Unseen \ read : m.id < n.id
        /\ messages' = (messages \ read) \cup {Seen(m) : m \in read}
        /\ \/ Unseen = {} /\ printed' = 0
           \/ Unseen # {} /\ printed' = 1
           \/ Unseen # {} /\ read = Unseen /\ printed' = Silent

\* getunseen counts the sender's messages among the newest unseen ones.  The
\* answer is exact up to Cap, and never more than one above it.
GetUnseen(sender) ==
    /\ \E newest \in SUBSET Unseen :
        /\ Portion(newest, Unseen)
        /\ \A m \in newest, n \in Unseen \ newest : n.id < m.id
        /\ LET n == Cardinality({m \in newest : m.sender = sender})
           IN  printed' \in IF n <= Cap THEN {n} ELSE {Cap, Cap + 1}
    /\ UNCHANGED messages

DeleteMesgs == messages' = {} /\ printed' = Silent

Next ==
    \/ \E sender \in Senders, seen \in {0, 1} : Store(sender, seen)
    \/ SeenMsg
    \/ \E sender \in Senders : GetUnseen(sender)
    \/ DeleteMesgs

Spec == Init /\ [][Next]_vars

-----------------------------------------------------------------------------
\* The ids in a conversation are 1, 2, .. without a gap and no two messages
\* share one: a client pages through the conversation by id, and reply_to
\* names a message by its id.
IdsAreDense ==
    /\ \A m, n \in messages : m.id = n.id => m = n
    /\ \A m \in messages : \A id \in 1..m.id : \E n \in messages : n.id = id

\* A stored message changes in one way only, from unseen to seen, and goes
\* only when the whole conversation does.
OnlySeenChanges ==
    [][messages' # {} => \A m \in messages :
        \/ m \in messages'
        \/ m.seen = 0 /\ Seen(m) \in messages']_vars

\* Messages are seen in the order they were sent: a step that marks one marks
\* every older unseen one, so what a capped call leaves is the newest.
SeenInOrder ==
    [][messages' # {} => \A m, n \in messages :
        m.id < n.id /\ n.seen = 0 /\ Seen(n) \in messages' /\ m.seen = 0
            => Seen(m) \in messages']_vars

=============================================================================
