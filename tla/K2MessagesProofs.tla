-------------------------- MODULE K2MessagesProofs --------------------------
(***************************************************************************)
(* For any senders, any number of messages and any limits of the walks:    *)
(* the walks of seenmsg and getunseen over the moving "seen" index do, in  *)
(* one go, what Conversation says.                                         *)
(***************************************************************************)
EXTENDS K2Messages, FiniteSetTheorems, TLAPS

-----------------------------------------------------------------------------
(* Finite sets and orders.                                                 *)

\* Among the members of a set of finite sets one contains no other.
LEMMA MinimalSet ==
    ASSUME NEW S, IsFiniteSet(S), NEW C \in SUBSET SUBSET S, C # {}
    PROVE  \E x \in C : \A y \in C : y \subseteq x => y = x
<1>1. C \subseteq FiniteSubsetsOf(S)
  BY FS_Subset DEF FiniteSubsetsOf
<1>2. PICK x \in C : \A y \in C : ~(<<y, x>> \in StrictSubsetOrdering(S))
  BY <1>1, FS_StrictSubsetOrderingWellFounded, WFMin, Zenon
<1>3. \A y \in C : y \subseteq x => y = x
  BY <1>2 DEF StrictSubsetOrdering
<1> QED
  BY <1>3

\* ... and one is contained in no other.
LEMMA MaximalSet ==
    ASSUME NEW S, IsFiniteSet(S), NEW C \in SUBSET SUBSET S, C # {}
    PROVE  \E x \in C : \A y \in C : x \subseteq y => y = x
<1> DEFINE D == {S \ x : x \in C}
<1>1. D \subseteq SUBSET S /\ D # {}
  <2>1. \A d \in D : d \in SUBSET S
    OBVIOUS
  <2>2. PICK x : x \in C
    OBVIOUS
  <2>3. S \ x \in D
    BY <2>2
  <2> QED BY <2>1, <2>3
<1>2. PICK d \in D : \A e \in D : e \subseteq d => e = d
  <2> HIDE DEF D
  <2> QED BY <1>1, MinimalSet
<1>3. PICK x \in C : d = S \ x
  OBVIOUS
<1>4. ASSUME NEW y \in C, x \subseteq y PROVE y = x
  <2>1. S \ y \in D /\ S \ y \subseteq d
    BY <1>3, <1>4
  <2>2. S \ y = S \ x
    BY <1>2, <1>3, <2>1
  <2> QED
    BY <2>2
<1> QED
  BY <1>4

\* A finite set has a minimal member under any strict order.
LEMMA FiniteMinimal ==
    ASSUME NEW S, IsFiniteSet(S), S # {}, NEW R,
           \A x \in S : <<x, x>> \notin R,
           \A x, y, z \in S : <<x, y>> \in R /\ <<y, z>> \in R => <<x, z>> \in R
    PROVE  \E x \in S : \A y \in S : <<y, x>> \notin R
<1> DEFINE Down(x) == {y \in S : <<y, x>> \in R}
           C == {Down(x) : x \in S}
<1>1. C \subseteq SUBSET S /\ C # {}
  <2>1. \A x \in S : Down(x) \in C /\ Down(x) \in SUBSET S
    OBVIOUS
  <2>2. \A d \in C : \E x \in S : d = Down(x)
    OBVIOUS
  <2> HIDE DEF C, Down
  <2> QED BY <2>1, <2>2
<1>2. PICK d \in C : \A e \in C : e \subseteq d => e = d
  <2> HIDE DEF C
  <2> QED BY <1>1, MinimalSet
<1>3. PICK x \in S : d = Down(x)
  OBVIOUS
<1>4. ASSUME NEW y \in S, <<y, x>> \in R PROVE FALSE
  <2>1. Down(y) \in C /\ Down(y) \subseteq Down(x)
    BY <1>4
  <2>2. Down(y) = Down(x)
    BY <1>2, <1>3, <2>1
  <2>3. y \in Down(x) /\ y \notin Down(y)
    BY <1>4
  <2> QED
    BY <2>2, <2>3
<1> QED
  BY <1>4

-----------------------------------------------------------------------------
(* Tables and the index.                                                   *)

\* A table: typed rows, no two with one id, finitely many.
Table(rows) ==
    /\ rows \subseteq Msg
    /\ \A m, n \in rows : m.id = n.id => m = n
    /\ IsFiniteSet(rows)

LEMMA SubTable ==
    ASSUME NEW rows, Table(rows), NEW part \in SUBSET rows
    PROVE  Table(part)
BY FS_Subset DEF Table

\* The index orders the rows of a table totally.
LEMMA PrecedesOrders ==
    ASSUME NEW rows, Table(rows)
    PROVE  /\ \A m \in rows : ~Precedes(m, m)
           /\ \A m, n, o \in rows : Precedes(m, n) /\ Precedes(n, o) => Precedes(m, o)
           /\ \A m, n \in rows : m = n \/ Precedes(m, n) \/ Precedes(n, m)
<1>1. \A m \in rows : m.seen \in {0, 1} /\ m.id \in Nat
  BY DEF Table, Msg, Ids
<1>2. \A m \in rows : ~Precedes(m, m)
  BY <1>1 DEF Precedes
<1>3. \A m, n, o \in rows : Precedes(m, n) /\ Precedes(n, o) => Precedes(m, o)
  BY <1>1 DEF Precedes
<1>4. \A m, n \in rows : m = n \/ Precedes(m, n) \/ Precedes(n, m)
  BY <1>1 DEF Precedes, Table
<1> QED
  BY <1>2, <1>3, <1>4

LEMMA HasFirst ==
    ASSUME NEW rows, Table(rows), rows # {}
    PROVE  \E m \in rows : \A n \in rows : n = m \/ Precedes(m, n)
<1> DEFINE R == {p \in rows \X rows : Precedes(p[1], p[2])}
<1>1. \A m, n \in rows : <<m, n>> \in R <=> Precedes(m, n)
  OBVIOUS
<1> HIDE DEF R
<1>2. PICK m \in rows : \A n \in rows : <<n, m>> \notin R
  <2>1. /\ \A x \in rows : <<x, x>> \notin R
        /\ \A x, y, z \in rows : <<x, y>> \in R /\ <<y, z>> \in R => <<x, z>> \in R
    BY <1>1, PrecedesOrders
  <2>2. IsFiniteSet(rows)
    BY DEF Table
  <2> QED BY <2>1, <2>2, FiniteMinimal
<1> QED
  BY <1>1, <1>2, PrecedesOrders

LEMMA HasLast ==
    ASSUME NEW rows, Table(rows), rows # {}
    PROVE  \E m \in rows : \A n \in rows : n = m \/ Precedes(n, m)
<1> DEFINE R == {p \in rows \X rows : Precedes(p[2], p[1])}
<1>1. \A m, n \in rows : <<m, n>> \in R <=> Precedes(n, m)
  OBVIOUS
<1> HIDE DEF R
<1>2. PICK m \in rows : \A n \in rows : <<n, m>> \notin R
  <2>1. /\ \A x \in rows : <<x, x>> \notin R
        /\ \A x, y, z \in rows : <<x, y>> \in R /\ <<y, z>> \in R => <<x, z>> \in R
    BY <1>1, PrecedesOrders
  <2>2. IsFiniteSet(rows)
    BY DEF Table
  <2> QED BY <2>1, <2>2, FiniteMinimal
<1> QED
  BY <1>1, <1>2, PrecedesOrders

\* FirstIn names the least row and LastIn the greatest.
LEMMA FirstInIs ==
    ASSUME NEW rows, Table(rows),
           NEW m \in rows, \A n \in rows : n = m \/ Precedes(m, n)
    PROVE  FirstIn(rows) = m.id
<1> DEFINE f == CHOOSE k \in rows : \A n \in rows : n = k \/ Precedes(k, n)
<1>1. f \in rows /\ \A n \in rows : n = f \/ Precedes(f, n)
  OBVIOUS
<1> HIDE DEF f
<1>2. f = m
  BY <1>1, PrecedesOrders
<1> USE DEF f
<1> QED
  BY <1>2 DEF FirstIn

LEMMA LastInIs ==
    ASSUME NEW rows, Table(rows),
           NEW m \in rows, \A n \in rows : n = m \/ Precedes(n, m)
    PROVE  LastIn(rows) = m.id
<1> DEFINE f == CHOOSE k \in rows : \A n \in rows : n = k \/ Precedes(n, k)
<1>1. f \in rows /\ \A n \in rows : n = f \/ Precedes(n, f)
  OBVIOUS
<1> HIDE DEF f
<1>2. f = m
  BY <1>1, PrecedesOrders
<1> USE DEF f
<1> QED
  BY <1>2 DEF LastIn

\* ... and End when there is none, which is the id of no row.
LEMMA FirstInRow ==
    ASSUME NEW rows, Table(rows)
    PROVE  \/ rows = {} /\ FirstIn(rows) = End
           \/ \E m \in rows : /\ FirstIn(rows) = m.id
                              /\ \A n \in rows : n = m \/ Precedes(m, n)
BY HasFirst, FirstInIs DEF FirstIn

LEMMA LastInRow ==
    ASSUME NEW rows, Table(rows)
    PROVE  \/ rows = {} /\ LastIn(rows) = End
           \/ \E m \in rows : /\ LastIn(rows) = m.id
                              /\ \A n \in rows : n = m \/ Precedes(n, m)
BY HasLast, LastInIs DEF LastIn

LEMMA RowTypes ==
    ASSUME NEW rows, Table(rows), NEW m \in rows
    PROVE  /\ m \in Msg /\ m.id \in Ids /\ m.id \in Nat /\ m.id # End
           /\ m.seen \in {0, 1} /\ m.sender \in Senders
BY DEF Table, Msg, Ids, End

LEMMA RowAtIs ==
    ASSUME Table(messages), NEW m \in messages
    PROVE  RowAt(m.id) = m
BY DEF Table, RowAt

-----------------------------------------------------------------------------
(* The walks.                                                              *)

\* The rows that were unseen when seenmsg began, those that still are, and
\* those it has marked.
Was == {m \in saved : m.seen = 0}
Left == {m \in messages : m.seen = 0}
Read == Was \ Left

\* The walk of seenmsg: what it has marked are the oldest, one per iteration
\* until none is left.  From then on it only passes over seen rows.
SeenWalk ==
    /\ Was # {}
    /\ Left \subseteq Was
    /\ messages = (saved \ Read) \cup {Conv!Seen(m) : m \in Read}
    /\ \A m \in Read, n \in Left : m.id < n.id
    /\ Cardinality(Read) <= iterations
    /\ Left # {} => Cardinality(Read) = iterations /\ itr = FirstIn(Left)
    /\ itr # End => \E m \in messages : m.id = itr

\* The rows getunseen has walked over: the unseen ones after its iterator.
Visited == {m \in messages : m.seen = 0 /\ itr < m.id}

UnseenWalk ==
    /\ messages = saved
    /\ \E r \in messages : r.seen = 0 /\ r.id = itr
    /\ iterations = Cardinality(Visited)
    /\ cnt = Cardinality({m \in Visited : m.sender = sender})

Inv ==
    /\ TypeOK
    /\ Table(messages) /\ Table(saved)
    /\ call = "seenmsg" => SeenWalk
    /\ call = "getunseen" => UnseenWalk

LEMMA StoreTable ==
    ASSUME Table(messages), NEW id \in Ids, NewId(id),
           NEW from \in Senders, NEW flag \in {0, 1}
    PROVE  /\ Table(messages \cup {[id |-> id, sender |-> from, seen |-> flag]})
           /\ \A m \in messages : m.id < id
           /\ id # 1 => \E m \in messages : id = m.id + 1
<1> DEFINE new == [id |-> id, sender |-> from, seen |-> flag]
<1>1. new \in Msg /\ new.id = id
  BY DEF Msg
<1>2. \A m \in messages : m.id \in Nat
  BY RowTypes
<1>3. /\ \A m \in messages : m.id < id
      /\ id # 1 => \E m \in messages : id = m.id + 1
  BY <1>2, MessagesAssumption DEF NewId, Ids
<1>4. IsFiniteSet(messages \cup {new})
  BY FS_AddElement DEF Table
<1>5. \A m, n \in messages \cup {new} : m.id = n.id => m = n
  BY <1>1, <1>2, <1>3, MessagesAssumption DEF Table, Ids
<1> HIDE DEF new
<1>6. Table(messages \cup {new})
  BY <1>1, <1>4, <1>5 DEF Table
<1> QED
  BY <1>3, <1>6 DEF new

LEMMA MarkTable ==
    ASSUME NEW rows, Table(rows), NEW r \in rows
    PROVE  Table((rows \ {r}) \cup {[r EXCEPT !.seen = 1]})
<1> DEFINE marked == [r EXCEPT !.seen = 1]
<1>1. marked \in Msg /\ marked.id = r.id
  BY DEF Msg, Table
<1>2. IsFiniteSet(rows \ {r})
  BY FS_RemoveElement DEF Table
<1>3. IsFiniteSet((rows \ {r}) \cup {marked})
  BY <1>2, FS_AddElement
<1> HIDE DEF marked
<1>4. Table((rows \ {r}) \cup {marked})
  BY <1>1, <1>3 DEF Table
<1> QED
  BY <1>4 DEF marked

\* After(itr) and Before(itr), for an iterator at a row.
LEMMA AfterRow ==
    ASSUME Table(messages), NEW r \in messages
    PROVE  LET rest == {m \in messages : Precedes(r, m)}
           IN  \/ rest = {} /\ After(r.id) = End
               \/ \E m \in rest : /\ After(r.id) = m.id
                                  /\ \A n \in rest : n = m \/ Precedes(m, n)
<1> DEFINE rest == {m \in messages : Precedes(r, m)}
<1>1. After(r.id) = FirstIn(rest)
  BY RowAtIs DEF After
<1>2. Table(rest)
  BY SubTable
<1> HIDE DEF rest
<1>3. \/ rest = {} /\ After(r.id) = End
      \/ \E m \in rest : /\ After(r.id) = m.id
                         /\ \A n \in rest : n = m \/ Precedes(m, n)
  BY <1>1, <1>2, FirstInRow
<1> QED
  BY <1>3 DEF rest

LEMMA BeforeRow ==
    ASSUME Table(messages), NEW r \in messages
    PROVE  LET rest == {m \in messages : Precedes(m, r)}
           IN  \/ rest = {} /\ Before(r.id) = End
               \/ \E m \in rest : /\ Before(r.id) = m.id
                                  /\ \A n \in rest : n = m \/ Precedes(n, m)
<1> DEFINE rest == {m \in messages : Precedes(m, r)}
<1>1. Before(r.id) = LastIn(rest)
  BY RowAtIs, RowTypes DEF Before
<1>2. Table(rest)
  BY SubTable
<1> HIDE DEF rest
<1>3. \/ rest = {} /\ Before(r.id) = End
      \/ \E m \in rest : /\ Before(r.id) = m.id
                         /\ \A n \in rest : n = m \/ Precedes(n, m)
  BY <1>1, <1>2, LastInRow
<1> QED
  BY <1>3 DEF rest

-----------------------------------------------------------------------------
(* seenmsg.                                                                *)

LEMMA LeftTable ==
    ASSUME Table(messages)
    PROVE  /\ Table(Left) /\ Left \subseteq messages
           /\ \A m \in Left : m.seen = 0
           /\ \A m \in messages \ Left : m.seen = 1
BY SubTable, RowTypes DEF Left

\* lower_bound(0) is the oldest unseen row, if there is one.
LEMMA LowerBoundIs ==
    ASSUME Table(messages)
    PROVE  /\ HasUnseen <=> Left # {}
           /\ Left # {} => LowerBound(0) = FirstIn(Left)
<1>1. {m \in messages : m.seen >= 0} = messages
  BY RowTypes
<1>2. LowerBound(0) = FirstIn(messages)
  BY <1>1 DEF LowerBound
<1>3. CASE Left = {}
  <2>1. CASE messages = {}
    BY <1>2, <1>3, <2>1, FirstInRow DEF HasUnseen
  <2>2. CASE messages # {}
    <3>1. PICK m \in messages : FirstIn(messages) = m.id
      BY <2>2, FirstInRow
    <3>2. RowAt(LowerBound(0)).seen = 1
      BY <1>2, <1>3, <3>1, RowAtIs, LeftTable
    <3> QED
      BY <1>3, <3>2 DEF HasUnseen
  <2> QED
    BY <2>1, <2>2
<1>4. CASE Left # {}
  <2>1. PICK m \in Left : /\ FirstIn(Left) = m.id
                          /\ \A n \in Left : n = m \/ Precedes(m, n)
    BY <1>4, LeftTable, FirstInRow
  <2>2. \A n \in messages : n = m \/ Precedes(m, n)
    BY <2>1, LeftTable DEF Precedes
  <2>3. m \in messages /\ m.seen = 0
    BY LeftTable
  <2>4. FirstIn(messages) = m.id
    BY <2>2, <2>3, FirstInIs
  <2>5. m.id # End /\ RowAt(m.id).seen = 0
    BY <2>3, RowAtIs, RowTypes
  <2> QED
    BY <1>2, <1>4, <2>1, <2>4, <2>5 DEF HasUnseen
<1> QED
  BY <1>3, <1>4

LEMMA SeenBeginKeeps ==
    ASSUME Inv, SeenBegin
    PROVE  Inv'
<1>1. /\ messages' = messages /\ saved' = messages
      /\ call' = "seenmsg" /\ iterations' = 0
      /\ UNCHANGED <<sender, cnt, printed>>
  BY DEF SeenBegin
<1>2. Table(messages) /\ Left # {} /\ itr' = FirstIn(Left)
  BY LowerBoundIs DEF SeenBegin, Inv
<1>3. Left' = Left /\ Was' = Left /\ Read' = {}
  BY <1>1 DEF Left, Was, Read
<1>4. PICK m \in Left : itr' = m.id
  BY <1>2, LeftTable, FirstInRow
<1>5. m \in messages /\ m.id \in Ids
  BY <1>2, LeftTable, RowTypes
<1>6. TypeOK'
  BY <1>1, <1>4, <1>5, MessagesAssumption DEF Inv, TypeOK
<1>7. messages' = (saved' \ Read') \cup {Conv!Seen(k) : k \in Read'}
  BY <1>1, <1>3
<1>8. Cardinality(Read') = 0
  BY <1>3, FS_EmptySet
<1>9. SeenWalk'
  BY <1>1, <1>2, <1>3, <1>4, <1>5, <1>7, <1>8 DEF SeenWalk
<1> QED
  BY <1>1, <1>2, <1>6, <1>9 DEF Inv, Table

\* While unseen rows are left, the iterator is at the oldest: marking it
\* moves it out of the way of the walk, which was moved on before.
LEMMA SeenStepMarks ==
    ASSUME Inv, SeenStep, Left # {}
    PROVE  /\ TypeOK' /\ Table(messages)'
           /\ SeenWalk'
<1>1. /\ call = "seenmsg" /\ SeenWalk /\ TypeOK
      /\ Table(messages) /\ Table(saved)
      /\ iterations < MaxIter /\ itr' = After(itr)
      /\ messages' = (messages \ {RowAt(itr)}) \cup {[RowAt(itr) EXCEPT !.seen = 1]}
      /\ iterations' = iterations + 1
      /\ UNCHANGED <<saved, call, sender, cnt, printed>>
  BY DEF SeenStep, Inv
<1>2. PICK r \in Left : /\ itr = r.id
                        /\ \A n \in Left : n = r \/ Precedes(r, n)
  BY <1>1, LeftTable, FirstInRow DEF SeenWalk
<1>3. r \in messages /\ r.seen = 0 /\ RowAt(itr) = r /\ r \in Msg
  BY <1>1, <1>2, LeftTable, RowAtIs, RowTypes
<1> DEFINE marked == [r EXCEPT !.seen = 1]
<1>4. /\ marked.seen = 1 /\ marked.id = r.id /\ marked = Conv!Seen(r)
      /\ marked # r
  BY <1>3 DEF Msg, Conv!Seen
<1>5. messages' = (messages \ {r}) \cup {marked}
  BY <1>1, <1>3
<1> HIDE DEF marked
<1>6. Table(messages')
  BY <1>1, <1>3, <1>5, MarkTable DEF marked
<1>7. Left' = Left \ {r} /\ Was' = Was
  BY <1>1, <1>4, <1>5 DEF Left, Was
<1>8. r \in Was /\ r \notin Read /\ Left \subseteq Was
  BY <1>1, <1>2 DEF SeenWalk, Read
<1>9. Read' = Read \cup {r}
  BY <1>7, <1>8, <1>2 DEF Read
<1>10. \A m \in Left : m.id \in Nat /\ m.seen = 0
  BY <1>1, LeftTable, RowTypes
<1>11. \A n \in Left \ {r} : r.id < n.id
  BY <1>2, <1>10 DEF Precedes
<1>12. \A m \in Read', n \in Left' : m.id < n.id
  BY <1>1, <1>7, <1>9, <1>11 DEF SeenWalk
<1>13. messages' = (saved' \ Read') \cup {Conv!Seen(m) : m \in Read'}
  <2>1. messages = (saved \ Read) \cup {Conv!Seen(m) : m \in Read}
    BY <1>1 DEF SeenWalk
  <2>2. \A m \in Read : Conv!Seen(m) # r
    <3>1. \A m \in Read : m \in Msg
      BY <1>1 DEF Read, Was, Table
    <3> QED BY <1>3, <3>1 DEF Conv!Seen, Msg
  <2>3. r \in saved
    BY <1>8 DEF Was
  <2> QED
    BY <1>1, <1>4, <1>5, <1>9, <2>1, <2>2, <2>3
<1>14. Cardinality(Read') = iterations'
  <2>1. IsFiniteSet(Read)
    BY <1>1, FS_Subset DEF Read, Was, Table
  <2>2. Cardinality(Read) = iterations
    BY <1>1 DEF SeenWalk
  <2> QED
    BY <1>1, <1>8, <1>9, <2>1, <2>2, FS_AddElement
<1>15. IF Left' = {} THEN itr' = End \/ \E m \in messages' : m.id = itr'
                     ELSE \E m \in Left' : itr' = m.id /\ itr' = FirstIn(Left')
  <2> DEFINE rest == {m \in messages : Precedes(r, m)}
  <2>1. \/ rest = {} /\ itr' = End
        \/ \E m \in rest : /\ itr' = m.id
                           /\ \A n \in rest : n = m \/ Precedes(m, n)
    BY <1>1, <1>2, <1>3, AfterRow
  <2>2. rest = messages \ {r}
    <3>1. \A n \in messages \ {r} : Precedes(r, n)
      BY <1>1, <1>2, <1>3, LeftTable DEF Precedes
    <3>2. ~Precedes(r, r)
      BY <1>1, <1>3, PrecedesOrders
    <3> QED BY <3>1, <3>2
  <2> HIDE DEF rest
  <2>3. CASE Left' = {}
    BY <1>5, <2>1, <2>2, <2>3
  <2>4. CASE Left' # {}
    <3>1. Left' \subseteq rest
      BY <1>1, <1>7, <2>2, LeftTable
    <3>2. PICK m \in rest : /\ itr' = m.id
                            /\ \A n \in rest : n = m \/ Precedes(m, n)
      BY <2>1, <2>4, <3>1
    <3>3. m \in Left'
      <4>1. PICK l \in Left' : TRUE
        BY <2>4
      <4>2. m = l \/ Precedes(m, l)
        BY <3>1, <3>2, <4>1
      <4>3. l.seen = 0 /\ m \in messages
        BY <1>7, <1>10, <2>2, <4>1
      <4>4. m.seen = 0
        BY <1>1, <4>2, <4>3, RowTypes DEF Precedes
      <4> QED
        BY <1>7, <2>2, <4>3, <4>4 DEF Left
    <3>4. Table(Left')
      BY <1>1, <1>7, LeftTable, SubTable
    <3>5. FirstIn(Left') = m.id
      BY <3>1, <3>2, <3>3, <3>4, FirstInIs
    <3> QED
      BY <2>4, <3>2, <3>3, <3>5
  <2> QED
    BY <2>3, <2>4
<1>16. Left' \subseteq messages' /\ \A m \in messages' : m.id \in Ids
  BY <1>6, RowTypes DEF Left
<1>17. TypeOK'
  <2>1. messages' \subseteq Msg
    BY <1>6 DEF Table
  <2>2. itr' \in Ids \cup {End}
    BY <1>15, <1>16
  <2>3. iterations' \in 0..MaxIter
    BY <1>1, MessagesAssumption DEF TypeOK
  <2> QED
    BY <1>1, <2>1, <2>2, <2>3 DEF TypeOK
<1>18. SeenWalk'
  <2>1. Was' # {} /\ Left' \subseteq Was'
    BY <1>1, <1>7, <1>8 DEF SeenWalk
  <2>2. Cardinality(Read') <= iterations'
    BY <1>14, <1>17 DEF TypeOK
  <2>3. itr' # End => \E m \in messages' : m.id = itr'
    BY <1>15, <1>16
  <2> QED
    BY <1>12, <1>13, <1>14, <1>15, <2>1, <2>2, <2>3 DEF SeenWalk
<1> QED
  BY <1>6, <1>17, <1>18

\* When none is left it passes over seen rows and changes nothing.
LEMMA SeenStepPasses ==
    ASSUME Inv, SeenStep, Left = {}
    PROVE  /\ TypeOK' /\ Table(messages)'
           /\ SeenWalk'
           /\ messages' = messages
<1>1. /\ call = "seenmsg" /\ SeenWalk /\ TypeOK
      /\ Table(messages)
      /\ itr # End /\ iterations < MaxIter /\ itr' = After(itr)
      /\ messages' = (messages \ {RowAt(itr)}) \cup {[RowAt(itr) EXCEPT !.seen = 1]}
      /\ iterations' = iterations + 1
      /\ UNCHANGED <<saved, call, sender, cnt, printed>>
  BY DEF SeenStep, Inv
<1>2. PICK r \in messages : r.id = itr
  BY <1>1 DEF SeenWalk
<1>3. RowAt(itr) = r /\ r.seen = 1 /\ r \in Msg
  BY <1>1, <1>2, LeftTable, RowAtIs, RowTypes
<1>4. [r EXCEPT !.seen = 1] = r
  BY <1>3 DEF Msg
<1>5. messages' = messages
  BY <1>1, <1>2, <1>3, <1>4
<1>6. itr' = End \/ \E m \in messages : m.id = itr'
  BY <1>1, <1>2, AfterRow
<1>7. Left' = {} /\ Was' = Was /\ Read' = Read
  BY <1>1, <1>5 DEF Left, Was, Read
<1>8. TypeOK'
  <2>1. itr' \in Ids \cup {End}
    BY <1>1, <1>6, RowTypes
  <2>2. iterations' \in 0..MaxIter
    BY <1>1, MessagesAssumption DEF TypeOK
  <2> QED
    BY <1>1, <1>5, <2>1, <2>2 DEF TypeOK
<1>9. SeenWalk'
  <2>1. Cardinality(Read) \in Nat
    <3>1. IsFiniteSet(Read)
      BY FS_Subset DEF Read, Was, Table, Inv
    <3> QED BY <3>1, FS_CardinalityType
  <2>2. Cardinality(Read') <= iterations'
    BY <1>1, <1>7, <2>1 DEF SeenWalk, TypeOK
  <2>3. messages' = (saved' \ Read') \cup {Conv!Seen(m) : m \in Read'}
    BY <1>1, <1>5, <1>7 DEF SeenWalk
  <2> QED
    BY <1>1, <1>5, <1>6, <1>7, <2>2, <2>3 DEF SeenWalk
<1> QED
  BY <1>1, <1>5, <1>8, <1>9 DEF Table

LEMMA SeenStepKeeps ==
    ASSUME Inv, SeenStep
    PROVE  Inv'
<1>1. /\ TypeOK' /\ Table(messages)' /\ SeenWalk'
  BY SeenStepMarks, SeenStepPasses
<1>2. call' = "seenmsg" /\ saved' = saved
  BY DEF SeenStep
<1> QED
  BY <1>1, <1>2 DEF Inv, Table

-----------------------------------------------------------------------------
(* getunseen.                                                              *)

\* upper_bound(0) is not the first entry exactly if a row is unseen, and the
\* entry before it is the newest unseen row.
LEMMA UpperBoundIs ==
    ASSUME Table(messages)
    PROVE  /\ UpperBound(0) # Begin <=> Left # {}
           /\ Left # {} => \E r \in Left : /\ Before(UpperBound(0)) = r.id
                                           /\ \A m \in Left : m = r \/ m.id < r.id
<1> DEFINE seen == {m \in messages : m.seen > 0}
<1>1. seen = messages \ Left
  <2>1. \A m \in messages : m \in Left \/ m.seen = 1
    BY LeftTable
  <2> QED BY <2>1, LeftTable
<1>2. UpperBound(0) = FirstIn(seen)
  BY DEF UpperBound
<1> HIDE DEF seen
<1>3. Table(seen)
  BY <1>1, SubTable
<1>4. CASE Left = {}
  BY <1>1, <1>2, <1>4 DEF Begin
<1>5. CASE Left # {}
  <2>1. PICK b \in messages : /\ Begin = b.id
                              /\ \A n \in messages : n = b \/ Precedes(b, n)
    BY <1>5, FirstInRow, LeftTable DEF Begin
  <2>2. b \in Left
    BY <1>5, <2>1, LeftTable, RowTypes DEF Precedes
  <2>3. UpperBound(0) # Begin
    BY <1>1, <1>2, <1>3, <2>1, <2>2, FirstInRow, RowTypes DEF Table
  <2>4. {m \in messages : UpperBound(0) = End \/ Precedes(m, RowAt(UpperBound(0)))} = Left
    <3>1. CASE seen = {}
      BY <1>1, <1>2, <3>1, LeftTable DEF FirstIn
    <3>2. CASE seen # {}
      <4>1. PICK u \in seen : /\ UpperBound(0) = u.id
                              /\ \A n \in seen : n = u \/ Precedes(u, n)
        BY <1>2, <1>3, <3>2, FirstInRow
      <4>2. UpperBound(0) # End /\ RowAt(UpperBound(0)) = u
        BY <1>1, <4>1, RowAtIs, RowTypes
      <4>3. \A m \in Left : Precedes(m, u)
        BY <1>1, <4>1, LeftTable DEF Precedes
      <4>4. \A m \in seen : ~Precedes(m, u)
        BY <1>3, <4>1, PrecedesOrders
      <4> QED
        BY <1>1, <4>2, <4>3, <4>4, LeftTable
    <3> QED BY <3>1, <3>2
  <2>5. Before(UpperBound(0)) = LastIn(Left)
    BY <2>4 DEF Before
  <2>6. PICK r \in Left : /\ Before(UpperBound(0)) = r.id
                          /\ \A m \in Left : m = r \/ Precedes(m, r)
    BY <1>5, <2>5, LeftTable, LastInRow
  <2>7. \A m \in Left : m = r \/ m.id < r.id
    BY <2>6, LeftTable DEF Precedes
  <2> QED
    BY <1>5, <2>3, <2>6, <2>7
<1> QED
  BY <1>4, <1>5

LEMMA UnseenBeginKeeps ==
    ASSUME Inv, NEW from \in Senders, UnseenBegin(from)
    PROVE  Inv'
<1>1. /\ messages' = messages /\ saved' = messages
      /\ call' = "getunseen" /\ sender' = from
      /\ iterations' = 0 /\ cnt' = 0 /\ printed' = printed
      /\ Table(messages)
  BY DEF UnseenBegin, Inv
<1>2. PICK r \in Left : itr' = r.id /\ \A m \in Left : m = r \/ m.id < r.id
  BY <1>1, UpperBoundIs DEF UnseenBegin
<1>3. r \in messages /\ r.seen = 0 /\ r.id \in Ids
  BY <1>1, LeftTable, RowTypes
<1>4. TypeOK'
  BY <1>1, <1>2, <1>3, MessagesAssumption DEF Inv, TypeOK
<1>5. Visited' = {}
  <2>1. \A m \in Left : m.id \in Nat
    BY <1>1, LeftTable, RowTypes
  <2>2. \A m \in Left : ~(r.id < m.id)
    BY <1>2, <2>1
  <2> QED BY <1>1, <1>2, <2>2 DEF Visited, Left
<1>6. Cardinality(Visited') = 0 /\ Cardinality({m \in Visited' : m.sender = sender'}) = 0
  <2>1. {m \in Visited' : m.sender = sender'} = {}
    BY <1>5
  <2> QED BY <1>5, <2>1, FS_EmptySet
<1>7. UnseenWalk'
  BY <1>1, <1>2, <1>3, <1>6 DEF UnseenWalk
<1> QED
  BY <1>1, <1>4, <1>7 DEF Inv, Table

\* The row at the iterator of a running getunseen.
LEMMA UnseenRow ==
    ASSUME Inv, call = "getunseen"
    PROVE  \E r \in Left :
             /\ itr = r.id /\ RowAt(itr) = r /\ r \notin Visited
             /\ Visited = {m \in Left : r.id < m.id}
             /\ itr = Begin => Left = Visited \cup {r}
             /\ IsFiniteSet(Visited)
             /\ IsFiniteSet({m \in Visited : m.sender = sender})
<1>1. UnseenWalk /\ Table(messages)
  BY DEF Inv
<1>2. PICK r \in messages : r.seen = 0 /\ r.id = itr
  BY <1>1 DEF UnseenWalk
<1>3. r \in Left /\ RowAt(itr) = r
  BY <1>1, <1>2, RowAtIs DEF Left
<1>4. Visited = {m \in Left : r.id < m.id}
  BY <1>2 DEF Visited, Left
<1>5. \A m \in Left : m.id \in Nat
  BY <1>1, LeftTable, RowTypes
<1>6. r \notin Visited
  BY <1>3, <1>4, <1>5
<1>7. IsFiniteSet(Visited) /\ IsFiniteSet({m \in Visited : m.sender = sender})
  BY <1>1, <1>4, FS_Subset, LeftTable DEF Table
<1>8. ASSUME itr = Begin PROVE Left = Visited \cup {r}
  <2>1. PICK b \in messages : /\ Begin = b.id
                              /\ \A n \in messages : n = b \/ Precedes(b, n)
    BY <1>1, <1>2, FirstInRow DEF Begin
  <2>2. b = r
    BY <1>1, <1>2, <1>8, <2>1 DEF Table
  <2>3. \A m \in Left : m = r \/ r.id < m.id
    BY <1>1, <1>2, <2>1, <2>2, LeftTable DEF Precedes
  <2> QED
    BY <1>3, <1>4, <2>3
<1> QED
  BY <1>2, <1>3, <1>4, <1>6, <1>7, <1>8

LEMMA UnseenStepKeeps ==
    ASSUME Inv, UnseenStep
    PROVE  Inv'
<1>1. /\ call = "getunseen" /\ UnseenMore /\ UnseenWalk /\ TypeOK /\ Table(messages)
      /\ cnt' = IF RowAt(itr).sender = sender THEN cnt + 1 ELSE cnt
      /\ iterations' = iterations + 1
      /\ itr' = Before(itr)
      /\ UNCHANGED <<messages, saved, call, sender, printed>>
  BY DEF UnseenStep, Inv
<1>2. PICK r \in Left :
        /\ itr = r.id /\ RowAt(itr) = r /\ r \notin Visited
        /\ Visited = {m \in Left : r.id < m.id}
        /\ IsFiniteSet(Visited)
        /\ IsFiniteSet({m \in Visited : m.sender = sender})
  BY <1>1, UnseenRow
<1>3. r \in messages /\ r.seen = 0
  BY <1>1, LeftTable
<1>4. PICK p \in Left : itr' = p.id /\ p.id < r.id
                        /\ \A m \in Left : m.id < r.id => m = p \/ m.id < p.id
  <2> DEFINE rest == {m \in messages : Precedes(m, r)}
  <2>1. \/ rest = {} /\ itr' = End
        \/ \E p \in rest : /\ itr' = p.id
                           /\ \A n \in rest : n = p \/ Precedes(n, p)
    BY <1>1, <1>2, <1>3, BeforeRow
  <2>2. rest = {m \in Left : m.id < r.id}
    BY <1>1, <1>3, LeftTable DEF Precedes
  <2>3. rest # {}
    <3>1. PICK b \in messages : /\ Begin = b.id
                                /\ \A n \in messages : n = b \/ Precedes(b, n)
      BY <1>1, <1>3, FirstInRow DEF Begin
    <3>2. b # r
      BY <1>1, <1>2, <3>1 DEF UnseenMore
    <3> QED BY <1>3, <3>1, <3>2
  <2> HIDE DEF rest
  <2>4. PICK p \in rest : /\ itr' = p.id
                          /\ \A n \in rest : n = p \/ Precedes(n, p)
    BY <2>1, <2>3
  <2>5. p \in Left /\ p.id < r.id
    BY <2>2
  <2>6. \A m \in rest : m = p \/ m.id < p.id
    BY <1>1, <2>2, <2>4, LeftTable DEF Precedes
  <2> QED
    BY <2>2, <2>4, <2>5, <2>6
<1>5. p \in messages /\ p.seen = 0 /\ p.id \in Ids
  BY <1>1, LeftTable, RowTypes
<1>6. Visited' = Visited \cup {r}
  <2>1. Visited' = {m \in Left : p.id < m.id}
    BY <1>1, <1>4 DEF Visited, Left
  <2>2. \A m \in Left : m.id \in Nat /\ (m.id = r.id => m = r)
    BY <1>1, <1>3, LeftTable, RowTypes DEF Table
  <2>3. \A m \in Left : p.id < m.id <=> m = r \/ r.id < m.id
    BY <1>4, <2>2
  <2> QED
    BY <1>2, <2>1, <2>3
<1>7. Cardinality(Visited') = iterations'
  BY <1>1, <1>2, <1>6, FS_AddElement DEF UnseenWalk
<1>8. Cardinality({m \in Visited' : m.sender = sender'}) = cnt'
  <2>1. {m \in Visited' : m.sender = sender'} =
          IF r.sender = sender THEN {m \in Visited : m.sender = sender} \cup {r}
                               ELSE {m \in Visited : m.sender = sender}
    BY <1>1, <1>6
  <2>2. r \notin {m \in Visited : m.sender = sender}
    BY <1>2
  <2>3. cnt = Cardinality({m \in Visited : m.sender = sender})
    BY <1>1 DEF UnseenWalk
  <2> QED
    BY <1>1, <1>2, <2>1, <2>2, <2>3, FS_AddElement
<1>9. TypeOK'
  <2>1. iterations' \in 0..MaxIter /\ cnt' \in 0..Cap
    BY <1>1, MessagesAssumption DEF TypeOK, UnseenMore
  <2> QED
    BY <1>1, <1>4, <1>5, <2>1 DEF TypeOK
<1>10. UnseenWalk'
  BY <1>1, <1>4, <1>5, <1>7, <1>8 DEF UnseenWalk
<1> QED
  BY <1>1, <1>9, <1>10 DEF Inv, Table

-----------------------------------------------------------------------------
(* The other actions, and the invariant.                                   *)

LEMMA ReturnKeeps ==
    ASSUME Inv, Return, printed' \in Nat \cup {Silent}
    PROVE  Inv'
<1>1. Table({})
  BY FS_EmptySet DEF Table
<1>2. Table(messages')
  BY DEF Return, Inv
<1>3. TypeOK'
  BY MessagesAssumption DEF Return, Inv, TypeOK
<1> QED
  BY <1>1, <1>2, <1>3 DEF Inv, Return

LEMMA IdleKeeps ==
    ASSUME Inv, Idle, UNCHANGED <<loop, call>>,
           Table(messages'), printed' \in Nat \cup {Silent}
    PROVE  Inv'
<1>1. TypeOK'
  BY DEF Inv, TypeOK, loop, Table
<1> QED
  BY <1>1 DEF Inv, loop, Idle

LEMMA EndsPrint ==
    ASSUME Inv, SeenEnd \/ UnseenEnd
    PROVE  Return /\ printed' \in Nat \cup {Silent}
BY DEF Inv, TypeOK, SeenEnd, UnseenEnd

LEMMA InvStep == Inv /\ [Next]_vars => Inv'
<1> SUFFICES ASSUME Inv, [Next]_vars PROVE Inv'
  OBVIOUS
<1>1. ASSUME NEW from \in Senders, SendMsg(from) \/ PushMsg(from) PROVE Inv'
  <2>1. PICK id \in Ids, flag \in {0, 1} :
          /\ NewId(id)
          /\ messages' = messages \cup {[id |-> id, sender |-> from, seen |-> flag]}
          /\ printed' \in {id, Silent}
    BY <1>1 DEF SendMsg, PushMsg
  <2>2. Table(messages')
    BY <2>1, StoreTable DEF Inv
  <2>3. printed' \in Nat \cup {Silent}
    BY <2>1 DEF Ids
  <2> QED
    BY <1>1, <2>2, <2>3, IdleKeeps DEF SendMsg, PushMsg
<1>2. ASSUME DeleteMesgs PROVE Inv'
  <2>1. Table(messages')
    BY <1>2, FS_EmptySet DEF DeleteMesgs, Table
  <2> QED
    BY <1>2, <2>1, IdleKeeps DEF DeleteMesgs
<1>3. ASSUME SeenNothing \/ UnseenNothing PROVE Inv'
  <2>1. Table(messages') /\ printed' = 0
    BY <1>3 DEF SeenNothing, UnseenNothing, Inv
  <2> QED
    BY <1>3, <2>1, IdleKeeps DEF SeenNothing, UnseenNothing
<1>4. ASSUME SeenEnd \/ UnseenEnd PROVE Inv'
  BY <1>4, EndsPrint, ReturnKeeps
<1>5. ASSUME UNCHANGED vars PROVE Inv'
  BY <1>5 DEF vars, Inv, TypeOK, Table, SeenWalk, UnseenWalk, Read, Was, Left, Visited
<1> QED
  BY <1>1, <1>2, <1>3, <1>4, <1>5, SeenBeginKeeps, SeenStepKeeps, UnseenBeginKeeps,
     UnseenStepKeeps DEF Next

LEMMA InvInit == Init => Inv
<1> SUFFICES ASSUME Init PROVE Inv
  OBVIOUS
<1>1. Table({})
  BY FS_EmptySet DEF Table
<1> QED
  BY <1>1, MessagesAssumption DEF Init, Inv, TypeOK

LEMMA Invariant == Spec => []Inv
BY InvInit, InvStep, PTL DEF Spec

\* Rows, iterators, counters and answers keep their types: no walk counts
\* beyond its limit, and an iterator is End or an id.
THEOREM TypeCorrect == Spec => []TypeOK
<1>1. Inv => TypeOK
  BY DEF Inv
<1> QED
  BY <1>1, Invariant, PTL

\* However many rows there are and wherever the walk stops, seenmsg marks the
\* oldest unseen rows, each once and none left out.
THEOREM WalkMarksEveryUnseen == Spec => []MarksEveryUnseen
<1>1. Inv => MarksEveryUnseen
  <2> SUFFICES ASSUME Inv, call = "seenmsg" PROVE
        /\ Left \subseteq Was
        /\ \A m \in Was \ Left, n \in Left : m.id < n.id
        /\ Left # {} => Cardinality(Was \ Left) = iterations /\ itr = FirstIn(Left)
    BY DEF MarksEveryUnseen, Was, Left
  <2> QED
    BY DEF Inv, SeenWalk, Read
<1> QED
  BY <1>1, Invariant, PTL

-----------------------------------------------------------------------------
(* The refinement.                                                         *)

\* Conversation counts as this module does.
LEMMA SameCount == \A S : Conv!Cardinality(S) = Cardinality(S)
BY DEF Conv!Cardinality, Cardinality

LEMMA PortionIs ==
    ASSUME NEW some, NEW all
    PROVE  Conv!Portion(some, all) <=>
             /\ Cardinality(some) <= MaxIter
             /\ some = all \/ Cardinality(some) = MaxIter
BY SameCount DEF Conv!Portion

\* Any rows a walk back from the newest has met, at most MaxIter, belong to
\* a full portion of the newest.
LEMMA FullPortion ==
    ASSUME NEW rows, Table(rows), \A m \in rows : m.seen = 0,
           NEW base \in SUBSET rows, Cardinality(base) <= MaxIter,
           \A m \in base, n \in rows \ base : n.id < m.id
    PROVE  \E newest \in SUBSET rows :
             /\ base \subseteq newest
             /\ Conv!Portion(newest, rows)
             /\ \A m \in newest, n \in rows \ newest : n.id < m.id
<1> DEFINE C == {x \in SUBSET rows :
                   /\ base \subseteq x
                   /\ Cardinality(x) <= MaxIter
                   /\ \A m \in x, n \in rows \ x : n.id < m.id}
<1>1. base \in C /\ C \subseteq SUBSET rows
  OBVIOUS
<1>2. PICK top \in C : \A y \in C : top \subseteq y => y = top
  <2>1. IsFiniteSet(rows)
    BY DEF Table
  <2> HIDE DEF C
  <2> QED BY <1>1, <2>1, MaximalSet
<1>3. top = rows \/ Cardinality(top) = MaxIter
  <2> SUFFICES ASSUME top # rows, Cardinality(top) # MaxIter PROVE FALSE
    OBVIOUS
  <2>1. IsFiniteSet(top)
    BY FS_Subset DEF Table
  <2>2. Cardinality(top) \in Nat /\ Cardinality(top) < MaxIter
    BY <2>1, FS_CardinalityType, MessagesAssumption
  <2>3. Table(rows \ top) /\ rows \ top # {}
    BY SubTable
  <2>4. PICK l \in rows \ top : \A n \in rows \ top : n = l \/ Precedes(n, l)
    BY <2>3, HasLast
  <2>5. \A n \in rows \ top : n = l \/ n.id < l.id
    BY <2>4 DEF Precedes
  <2>6. Cardinality(top \cup {l}) <= MaxIter
    <3>1. Cardinality(top \cup {l}) = Cardinality(top) + 1
      BY <2>1, <2>4, FS_AddElement
    <3> QED BY <2>2, <3>1, MessagesAssumption
  <2>7. \A m \in top \cup {l}, n \in rows \ (top \cup {l}) : n.id < m.id
    BY <2>5
  <2>8. top \cup {l} \in C
    BY <2>6, <2>7
  <2> QED
    BY <1>2, <2>4, <2>8
<1>4. Cardinality(top) <= MaxIter
  BY <1>2
<1>5. Conv!Portion(top, rows)
  BY <1>3, <1>4, PortionIs
<1> QED
  BY <1>2, <1>5

LEMMA StoreImplements ==
    ASSUME Inv, NEW from \in Senders, SendMsg(from) \/ PushMsg(from)
    PROVE  \E flag \in {0, 1} : Conv!Store(from, flag)
<1>1. Idle /\ Idle' /\ Table(messages)
  BY DEF SendMsg, PushMsg, Idle, Inv
<1>2. PICK id \in Ids, flag \in {0, 1} :
        /\ NewId(id)
        /\ messages' = messages \cup {[id |-> id, sender |-> from, seen |-> flag]}
        /\ printed' = IF flag = 0 THEN id ELSE Silent
  BY DEF SendMsg, PushMsg
<1>3. /\ \A m \in messages : m.id < id
      /\ id # 1 => \E m \in messages : id = m.id + 1
  BY <1>1, <1>2, StoreTable
<1>4. Conv!NewId(id)
  BY <1>1, <1>3 DEF Conv!NewId, Conv!Ids, Ids
<1>5. Conv!Store(from, flag)
  BY <1>1, <1>2, <1>4 DEF Conv!Store, Conv!Ids, Ids
<1> QED
  BY <1>5

LEMMA SeenNothingImplements ==
    ASSUME Inv, SeenNothing
    PROVE  Conv!SeenMsg
<1>1. Idle /\ Idle' /\ messages' = messages /\ printed' = 0 /\ Left = {}
  BY LowerBoundIs DEF SeenNothing, Idle, Inv
<1>2. Conv!Unseen = {}
  BY <1>1 DEF Conv!Unseen, Left
<1>3. Conv!Portion({}, Conv!Unseen)
  BY <1>2, FS_EmptySet, PortionIs, MessagesAssumption
<1>4. messages' = (messages \ {}) \cup {Conv!Seen(m) : m \in {}}
  BY <1>1
<1> QED
  BY <1>1, <1>2, <1>3, <1>4 DEF Conv!SeenMsg

LEMMA SeenEndImplements ==
    ASSUME Inv, SeenEnd
    PROVE  Conv!SeenMsg
<1>1. /\ call = "seenmsg" /\ ~Idle /\ Idle' /\ SeenWalk /\ TypeOK
      /\ itr = End \/ iterations = MaxIter
      /\ printed' = IF iterations = MaxIter THEN 1 ELSE Silent
      /\ messages' = messages
  BY DEF SeenEnd, Return, Idle, Inv
<1>2. Conv!Unseen = Was
  BY <1>1 DEF Conv!Unseen, Was
<1>3. Left # {} => iterations = MaxIter
  BY <1>1, LeftTable, FirstInRow, RowTypes DEF SeenWalk, Inv
<1>4. Conv!Portion(Read, Was)
  <2>1. Cardinality(Read) <= MaxIter
    <3>1. IsFiniteSet(Read)
      BY FS_Subset DEF Read, Was, Table, Inv
    <3>2. Cardinality(Read) \in Nat
      BY <3>1, FS_CardinalityType
    <3> QED
      BY <1>1, <3>2, MessagesAssumption DEF SeenWalk, TypeOK
  <2>2. Read = Was \/ Cardinality(Read) = MaxIter
    BY <1>1, <1>3 DEF SeenWalk, Read
  <2> QED
    BY <2>1, <2>2, PortionIs
<1>5. \A m \in Read, n \in Was \ Read : m.id < n.id
  BY <1>1 DEF SeenWalk, Read
<1>6. messages' = (saved \ Read) \cup {Conv!Seen(m) : m \in Read}
  BY <1>1 DEF SeenWalk
<1>7. \/ printed' = 1
      \/ Read = Was /\ printed' = Silent
  BY <1>1, <1>3 DEF SeenWalk, Read
<1>8. Read \in SUBSET Conv!Unseen /\ Conv!Unseen # {}
  BY <1>1, <1>2 DEF SeenWalk, Read
<1> QED
  BY <1>1, <1>2, <1>4, <1>5, <1>6, <1>7, <1>8 DEF Conv!SeenMsg

LEMMA UnseenNothingImplements ==
    ASSUME Inv, UnseenNothing, NEW from \in Senders
    PROVE  Conv!GetUnseen(from)
<1>1. Idle /\ Idle' /\ messages' = messages /\ printed' = 0 /\ Left = {}
  BY UpperBoundIs DEF UnseenNothing, Idle, Inv
<1>2. Conv!Unseen = {}
  BY <1>1 DEF Conv!Unseen, Left
<1>3. Conv!Portion({}, Conv!Unseen)
  BY <1>2, FS_EmptySet, PortionIs, MessagesAssumption
<1>4. Cardinality({m \in {} : m.sender = from}) = 0
  <2>1. {m \in {} : m.sender = from} = {}
    OBVIOUS
  <2> QED BY <2>1, FS_EmptySet
<1> QED
  BY <1>1, <1>2, <1>3, <1>4, SameCount, MessagesAssumption DEF Conv!GetUnseen

\* What getunseen prints is right for a full portion of the newest.
LEMMA CountIsRight ==
    ASSUME Inv, UnseenEnd
    PROVE  \E newest \in SUBSET Left :
             /\ Conv!Portion(newest, Left)
             /\ \A m \in newest, n \in Left \ newest : n.id < m.id
             /\ LET n == Cardinality({m \in newest : m.sender = sender})
                IN  printed' \in IF n <= Cap THEN {n} ELSE {Cap, Cap + 1}
<1>1. /\ call = "getunseen" /\ ~UnseenMore /\ UnseenWalk /\ TypeOK /\ Table(messages)
      /\ printed' = IF LastCounts THEN cnt + 1 ELSE cnt
  BY DEF UnseenEnd, Inv
<1>2. PICK r \in Left :
        /\ itr = r.id /\ RowAt(itr) = r /\ r \notin Visited
        /\ Visited = {m \in Left : r.id < m.id}
        /\ itr = Begin => Left = Visited \cup {r}
        /\ IsFiniteSet(Visited)
        /\ IsFiniteSet({m \in Visited : m.sender = sender})
  BY <1>1, UnseenRow
<1>3. /\ Table(Left) /\ \A m \in Left : m.seen = 0 /\ m.id \in Nat
      /\ iterations \in Nat /\ iterations <= MaxIter /\ cnt \in Nat /\ cnt <= Cap
      /\ MaxIter \in Nat /\ Cap \in Nat
      /\ iterations = Cardinality(Visited)
      /\ cnt = Cardinality({m \in Visited : m.sender = sender})
  BY <1>1, LeftTable, RowTypes, MessagesAssumption DEF TypeOK, UnseenWalk
<1>4. \A m \in Visited, n \in Left \ Visited : n.id < m.id
  BY <1>2, <1>3
<1>5. CASE iterations = MaxIter
  <2>1. Conv!Portion(Visited, Left)
    BY <1>3, <1>5, PortionIs
  <2>2. printed' = cnt
    BY <1>1, <1>3, <1>5 DEF LastCounts
  <2>3. Visited \in SUBSET Left
    BY <1>2
  <2> QED
    BY <1>3, <1>4, <2>1, <2>2, <2>3
<1>6. CASE iterations # MaxIter
  <2> DEFINE met == Visited \cup {r}
             Of(some) == {m \in some : m.sender = sender}
  <2>1. met \in SUBSET Left /\ IsFiniteSet(met)
    BY <1>2, FS_AddElement
  <2>2. Cardinality(met) <= MaxIter
    <3>1. Cardinality(met) = Cardinality(Visited) + 1
      BY <1>2, FS_AddElement
    <3> HIDE DEF met
    <3> QED BY <1>3, <1>6, <3>1
  <2>3. \A m \in met, n \in Left \ met : n.id < m.id
    <3>1. \A m \in Left : m.id = r.id => m = r
      BY <1>3 DEF Table
    <3> QED BY <1>2, <1>3, <3>1
  <2>4. /\ Cardinality(Of(met)) = cnt + (IF r.sender = sender THEN 1 ELSE 0)
        /\ printed' = Cardinality(Of(met))
    <3>1. Of(met) = IF r.sender = sender THEN Of(Visited) \cup {r} ELSE Of(Visited)
      OBVIOUS
    <3>2. r \notin Of(Visited)
      BY <1>2
    <3>3. LastCounts <=> r.sender = sender
      BY <1>2, <1>3, <1>6 DEF LastCounts
    <3>4. IsFiniteSet(Of(Visited)) /\ Cardinality(Of(Visited)) = cnt
      BY <1>2, <1>3
    <3> HIDE DEF Of
    <3>5. Cardinality(Of(Visited) \cup {r}) = cnt + 1
      BY <3>2, <3>4, FS_AddElement
    <3> QED
      BY <1>1, <1>3, <3>1, <3>3, <3>4, <3>5
  <2>5. itr = Begin \/ cnt = Cap
    BY <1>1, <1>2, <1>3, <1>6 DEF UnseenMore
  <2>6. PICK newest \in SUBSET Left :
          /\ met \subseteq newest
          /\ Conv!Portion(newest, Left)
          /\ \A m \in newest, n \in Left \ newest : n.id < m.id
    <3> HIDE DEF met
    <3> QED BY <1>3, <2>1, <2>2, <2>3, FullPortion
  <2>7. Cardinality(Of(met)) <= Cardinality(Of(newest)) /\ Cardinality(Of(newest)) \in Nat
    <3>1. Of(met) \subseteq Of(newest) /\ Of(newest) \subseteq Left
      BY <2>6
    <3>2. IsFiniteSet(Of(newest))
      BY <1>3, <3>1, FS_Subset DEF Table
    <3> HIDE DEF Of, met
    <3> QED BY <3>1, <3>2, FS_Subset, FS_CardinalityType
  <2>8. itr = Begin => newest = met
    BY <1>2, <2>6
  <2>9. printed' \in IF Cardinality(Of(newest)) <= Cap
                     THEN {Cardinality(Of(newest))} ELSE {Cap, Cap + 1}
    <3>1. CASE itr = Begin
      <4>1. Cardinality(Of(met)) \in {cnt, cnt + 1}
        BY <1>3, <2>4
      <4> HIDE DEF Of, met
      <4> QED BY <1>3, <2>4, <2>8, <3>1, <4>1
    <3>2. CASE cnt = Cap
      <4> HIDE DEF Of, met
      <4> QED BY <1>3, <2>4, <2>7, <3>2
    <3> QED
      BY <2>5, <3>1, <3>2
  <2> QED
    BY <2>6, <2>9
<1> QED
  BY <1>5, <1>6

LEMMA UnseenEndImplements ==
    ASSUME Inv, UnseenEnd
    PROVE  Conv!GetUnseen(sender)
<1>1. ~Idle /\ Idle' /\ messages' = messages /\ messages = saved
  BY DEF UnseenEnd, Return, Idle, Inv, UnseenWalk
<1>2. Conv!Unseen = Left
  BY <1>1 DEF Conv!Unseen, Left
<1> QED
  BY <1>1, <1>2, CountIsRight, SameCount DEF Conv!GetUnseen

LEMMA StepImplements ==
    ASSUME Inv, [Next]_vars
    PROVE  Conv!Next \/ UNCHANGED Conv!vars
<1>1. ASSUME NEW from \in Senders, SendMsg(from) \/ PushMsg(from) PROVE Conv!Next
  BY <1>1, StoreImplements DEF Conv!Next
<1>2. ASSUME DeleteMesgs PROVE Conv!Next
  BY <1>2 DEF DeleteMesgs, Idle, Conv!DeleteMesgs, Conv!Next
<1>3. ASSUME SeenNothing \/ SeenEnd PROVE Conv!Next
  BY <1>3, SeenNothingImplements, SeenEndImplements DEF Conv!Next
<1>4. ASSUME UnseenNothing PROVE Conv!Next
  <2>1. sender \in Senders
    BY DEF Inv, TypeOK
  <2> QED
    BY <1>4, <2>1, UnseenNothingImplements DEF Conv!Next
<1>5. ASSUME UnseenEnd PROVE Conv!Next
  <2>1. sender \in Senders
    BY DEF Inv, TypeOK
  <2> QED
    BY <1>5, <2>1, UnseenEndImplements DEF Conv!Next
<1>6. ASSUME NEW from \in Senders, UnseenBegin(from) PROVE UNCHANGED Conv!vars
  BY <1>6 DEF UnseenBegin, Idle, Conv!vars
<1>7. ASSUME SeenBegin PROVE UNCHANGED Conv!vars
  BY <1>7 DEF SeenBegin, Idle, Conv!vars
<1>8. ASSUME SeenStep \/ UnseenStep PROVE UNCHANGED Conv!vars
  BY <1>8 DEF SeenStep, UnseenStep, Idle, Conv!vars
<1>9. ASSUME UNCHANGED vars PROVE UNCHANGED Conv!vars
  BY <1>9 DEF vars, Idle, Conv!vars
<1> QED
  BY <1>1, <1>2, <1>3, <1>4, <1>5, <1>6, <1>7, <1>8, <1>9 DEF Next

\* The walks over the moving index do in many steps what Conversation does
\* in one: every run of k2ultra's message actions is a run of Conversation.
THEOREM WalksImplementConversation == Spec => ImplementsConversation
<1>1. Init => Conv!Init
  BY DEF Init, Conv!Init, Idle
<1>2. Inv /\ [Next]_vars => [Conv!Next]_Conv!vars
  BY StepImplements
<1> QED
  BY <1>1, <1>2, Invariant, PTL DEF Spec, ImplementsConversation, Conv!Spec

=============================================================================
