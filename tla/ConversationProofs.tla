------------------------- MODULE ConversationProofs -------------------------
(***************************************************************************)
(* Theorems about Conversation, for any senders, any number of messages    *)
(* and any limits of the two walks.                                        *)
(***************************************************************************)
EXTENDS Conversation, FiniteSetTheorems, TLAPS

RowsTyped == messages \subseteq Msg

IdInv == RowsTyped /\ IdsAreDense

\* A message that is stored gets the id after the last.
LEMMA StoreKeeps ==
    ASSUME IdInv, NEW from \in Senders, NEW seen \in {0, 1}, Store(from, seen)
    PROVE  IdInv'
<1>1. PICK id \in Ids :
        /\ NewId(id)
        /\ messages' = messages \cup {[id |-> id, sender |-> from, seen |-> seen]}
  BY DEF Store
<1> DEFINE new == [id |-> id, sender |-> from, seen |-> seen]
<1>2. new \in Msg /\ new.id = id
  BY DEF Msg
<1>3. RowsTyped'
  BY <1>1, <1>2 DEF IdInv, RowsTyped
<1>4. \A m \in messages : m.id < id /\ m.id \in Nat
  BY <1>1 DEF NewId, IdInv, RowsTyped, Msg, Ids
<1>5. \A m, n \in messages' : m.id = n.id => m = n
  BY <1>1, <1>2, <1>4, ConversationAssumption DEF IdInv, IdsAreDense, Ids
<1>6. \A k \in 1..id : \E n \in messages' : n.id = k
  <2> SUFFICES ASSUME NEW k \in 1..id, k # id
               PROVE  \E n \in messages : n.id = k
    BY <1>1, <1>2
  <2>1. PICK m \in messages : id = m.id + 1
    BY <1>1, ConversationAssumption DEF NewId, Ids
  <2>2. k \in 1..m.id
    BY <1>4, <2>1, ConversationAssumption DEF Ids
  <2> QED
    BY <2>2 DEF IdInv, IdsAreDense
<1>7. \A m \in messages' : \A k \in 1..m.id : \E n \in messages' : n.id = k
  BY <1>1, <1>2, <1>6 DEF IdInv, IdsAreDense
<1> QED
  BY <1>3, <1>5, <1>7 DEF IdInv, IdsAreDense

\* What seenmsg leaves: the rows it did not read, and the read ones marked.
LEMMA SeenTyped ==
    ASSUME NEW m \in Msg
    PROVE  Seen(m) \in Msg /\ Seen(m).id = m.id
BY DEF Msg, Seen

LEMMA SeenKeeps ==
    ASSUME IdInv, SeenMsg
    PROVE  IdInv'
<1>1. PICK read \in SUBSET Unseen :
        messages' = (messages \ read) \cup {Seen(m) : m \in read}
  BY DEF SeenMsg
<1>2. read \subseteq messages
  BY DEF Unseen
<1>3. \A m \in messages : m \in Msg /\ Seen(m) \in Msg /\ Seen(m).id = m.id
  BY SeenTyped DEF IdInv, RowsTyped
<1>4. RowsTyped'
  BY <1>1, <1>2, <1>3 DEF IdInv, RowsTyped
<1>5. \A m \in messages' : \E n \in messages :
        n.id = m.id /\ m = IF n \in read THEN Seen(n) ELSE n
  BY <1>1, <1>2, <1>3
<1>6. \A n \in messages : \E m \in messages' : m.id = n.id
  BY <1>1, <1>3
<1>7. \A m, n \in messages' : m.id = n.id => m = n
  BY <1>5 DEF IdInv, IdsAreDense
<1>8. \A m \in messages' : \A k \in 1..m.id : \E n \in messages' : n.id = k
  <2> SUFFICES ASSUME NEW m \in messages', NEW k \in 1..m.id
               PROVE  \E n \in messages' : n.id = k
    OBVIOUS
  <2>1. PICK p \in messages : p.id = m.id
    BY <1>5
  <2>2. PICK q \in messages : q.id = k
    BY <2>1 DEF IdInv, IdsAreDense
  <2> QED
    BY <1>6, <2>2
<1> QED
  BY <1>4, <1>7, <1>8 DEF IdInv, IdsAreDense

LEMMA IdInvStep == IdInv /\ [Next]_vars => IdInv'
<1> SUFFICES ASSUME IdInv, [Next]_vars PROVE IdInv'
  OBVIOUS
<1>1. ASSUME NEW from \in Senders, NEW seen \in {0, 1}, Store(from, seen) PROVE IdInv'
  BY <1>1, StoreKeeps
<1>2. ASSUME SeenMsg PROVE IdInv'
  BY <1>2, SeenKeeps
<1>3. ASSUME UNCHANGED messages PROVE IdInv'
  BY <1>3 DEF IdInv, RowsTyped, IdsAreDense
<1>4. ASSUME DeleteMesgs PROVE IdInv'
  BY <1>4 DEF DeleteMesgs, IdInv, RowsTyped, IdsAreDense
<1> QED
  BY <1>1, <1>2, <1>3, <1>4 DEF Next, GetUnseen, vars

LEMMA IdInvInit == Init => IdInv
BY DEF Init, IdInv, RowsTyped, IdsAreDense

\* The ids of a conversation are 1, 2, .. without gap or double.
THEOREM IdsStayDense == Spec => []IdsAreDense
<1>1. IdInv => IdsAreDense
  BY DEF IdInv
<1> QED
  BY <1>1, IdInvInit, IdInvStep, PTL DEF Spec

-----------------------------------------------------------------------------
(* What is printed is a number, because the table stays finite.            *)

CountInv == TypeOK /\ IsFiniteSet(messages)

LEMMA CountInvStep == CountInv /\ [Next]_vars => CountInv'
<1> SUFFICES ASSUME CountInv, [Next]_vars PROVE CountInv'
  OBVIOUS
<1>1. ASSUME NEW from \in Senders, NEW seen \in {0, 1}, Store(from, seen) PROVE CountInv'
  <2>1. PICK id \in Ids :
          /\ messages' = messages \cup {[id |-> id, sender |-> from, seen |-> seen]}
          /\ printed' = IF seen = 0 THEN id ELSE Silent
    BY <1>1 DEF Store
  <2>2. IsFiniteSet(messages')
    BY <2>1, FS_AddElement DEF CountInv
  <2>3. [id |-> id, sender |-> from, seen |-> seen] \in Msg /\ id \in Nat
    BY DEF Msg, Ids
  <2> QED
    BY <2>1, <2>2, <2>3 DEF CountInv, TypeOK
<1>2. ASSUME SeenMsg PROVE CountInv'
  <2>1. PICK read \in SUBSET Unseen :
          messages' = (messages \ read) \cup {Seen(m) : m \in read}
    BY <1>2 DEF SeenMsg
  <2>2. read \subseteq messages /\ \A m \in read : Seen(m) \in Msg
    BY SeenTyped DEF Unseen, CountInv, TypeOK
  <2>3. printed' \in Nat \cup {Silent}
    BY <1>2 DEF SeenMsg
  <2>4. IsFiniteSet(read) /\ IsFiniteSet(messages \ read)
    BY <2>2, FS_Subset, FS_Difference DEF CountInv
  <2>5. IsFiniteSet({Seen(m) : m \in read})
    <3> DEFINE marked == {Seen(m) : m \in read}
               mark   == [m \in read |-> Seen(m)]
    <3>1. mark \in Surjection(read, marked)
      BY DEF Surjection
    <3> QED
      BY <2>4, <3>1, FS_Surjection
  <2>6. IsFiniteSet(messages')
    BY <2>1, <2>4, <2>5, FS_Union
  <2> QED
    BY <2>1, <2>2, <2>3, <2>6 DEF CountInv, TypeOK
<1>3. ASSUME NEW from \in Senders, GetUnseen(from) PROVE CountInv'
  <2>1. PICK newest \in SUBSET Unseen :
          LET n == Cardinality({m \in newest : m.sender = from})
          IN  printed' \in IF n <= Cap THEN {n} ELSE {Cap, Cap + 1}
    BY <1>3 DEF GetUnseen
  <2>2. {m \in newest : m.sender = from} \subseteq messages
    BY DEF Unseen
  <2>3. Cardinality({m \in newest : m.sender = from}) \in Nat
    BY <2>2, FS_Subset, FS_CardinalityType DEF CountInv
  <2>4. printed' \in Nat
    BY <2>1, <2>3, ConversationAssumption
  <2> QED
    BY <1>3, <2>4 DEF GetUnseen, CountInv, TypeOK
<1>4. ASSUME DeleteMesgs PROVE CountInv'
  BY <1>4, FS_EmptySet DEF DeleteMesgs, CountInv, TypeOK
<1>5. ASSUME UNCHANGED vars PROVE CountInv'
  BY <1>5 DEF vars, CountInv, TypeOK
<1> QED
  BY <1>1, <1>2, <1>3, <1>4, <1>5 DEF Next

\* Ids, flags and answers keep their types.
THEOREM TypeCorrect == Spec => []TypeOK
<1>1. Init => CountInv
  BY FS_EmptySet DEF Init, CountInv, TypeOK
<1>2. CountInv => TypeOK
  BY DEF CountInv
<1> QED
  BY <1>1, <1>2, CountInvStep, PTL DEF Spec

-----------------------------------------------------------------------------
\* A step keeps every message, as it is or marked, unless it empties the
\* conversation; and what it marks are the oldest unseen ones.
LEMMA StepKeepsMessages ==
    ASSUME IdInv, [Next]_vars
    PROVE  \/ messages' = {}
           \/ messages \subseteq messages'
           \/ \E read \in SUBSET Unseen :
                /\ messages' = (messages \ read) \cup {Seen(m) : m \in read}
                /\ \A m \in read, n \in Unseen \ read : m.id < n.id
BY DEF Next, vars, Store, SeenMsg, GetUnseen, DeleteMesgs

\* A stored message only ever changes from unseen to seen.
THEOREM MessagesOnlyGetSeen == Spec => OnlySeenChanges
<1> DEFINE Kept == messages' # {} => \A m \in messages :
                      \/ m \in messages'
                      \/ m.seen = 0 /\ Seen(m) \in messages'
<1>1. ASSUME IdInv, [Next]_vars PROVE Kept
  BY <1>1, StepKeepsMessages DEF Unseen
<1>2. IdInv /\ [Next]_vars => [Kept]_vars
  BY <1>1
<1> QED
  BY <1>2, IdInvInit, IdInvStep, PTL DEF Spec, OnlySeenChanges

\* Messages are marked in the order they were sent.
THEOREM MessagesSeenInOrder == Spec => SeenInOrder
<1> DEFINE Ordered == messages' # {} => \A m, n \in messages :
        m.id < n.id /\ n.seen = 0 /\ Seen(n) \in messages' /\ m.seen = 0
            => Seen(m) \in messages'
<1>1. ASSUME IdInv, IdInv', [Next]_vars PROVE Ordered
  <2> SUFFICES ASSUME messages' # {}, NEW m \in messages, NEW n \in messages,
                      m.id < n.id, n.seen = 0, Seen(n) \in messages', m.seen = 0
               PROVE  Seen(m) \in messages'
    OBVIOUS
  <2>1. m \in Msg /\ n \in Msg
    BY <1>1 DEF IdInv, RowsTyped
  <2>2. Seen(n) # n /\ Seen(n).id = n.id
    BY <2>1 DEF Msg, Seen
  <2>3. Seen(n) \notin messages
    BY <1>1, <2>2 DEF IdInv, IdsAreDense
  <2>4. n \notin messages'
    BY <1>1, <2>2 DEF IdInv, IdsAreDense
  <2>5. PICK read \in SUBSET Unseen :
          /\ messages' = (messages \ read) \cup {Seen(k) : k \in read}
          /\ \A k \in read, l \in Unseen \ read : k.id < l.id
    BY <1>1, <2>4, StepKeepsMessages
  <2>6. n \in read
    BY <2>4, <2>5
  <2>7. m \in read
    <3>1. m \in Unseen
      BY DEF Unseen
    <3>2. m.id \in Nat /\ n.id \in Nat
      BY <2>1 DEF Msg, Ids
    <3> QED
      BY <2>5, <2>6, <3>1, <3>2
  <2> QED
    BY <2>5, <2>7
<1>2. IdInv /\ IdInv' /\ [Next]_vars => [Ordered]_vars
  BY <1>1
<1> QED
  BY <1>2, IdInvInit, IdInvStep, PTL DEF Spec, SeenInOrder

=============================================================================
