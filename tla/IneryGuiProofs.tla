--------------------------- MODULE IneryGuiProofs ---------------------------
(***************************************************************************)
(* Proofs about IneryGui, for any names and any hash of them, any lists    *)
(* and any number of users.                                                *)
(*                                                                         *)
(* The first part is about the loops: what is kept of a list is the list   *)
(* read at increasing positions, and rmpluginu's loop over the vector it   *)
(* assigns to keeps just that.  They are proved by induction on the number *)
(* of turns, in the form of a set of turns that has no least member.       *)
(***************************************************************************)
EXTENDS IneryGui, SequenceTheorems, FiniteSetTheorems, TLAPS

-----------------------------------------------------------------------------
(* Induction.                                                              *)

\* A set with 0 and with the successor of each of its numbers has them all.
LEMMA AllTurns ==
    ASSUME NEW T, 0 \in T, \A n \in Nat : n \in T => n + 1 \in T
    PROVE  \A n \in Nat : n \in T
<1> DEFINE Rest == Nat \ T
           Less == OpToRel(<, Nat)
<1> SUFFICES ASSUME Rest # {} PROVE FALSE
  OBVIOUS
<1>1. \A m, n \in Nat : <<m, n>> \in Less <=> m < n
  BY DEF OpToRel
<1> HIDE DEF Less
<1>2. IsWellFoundedOn(Less, Nat)
  BY NatLessThanWellFounded DEF Less
<1>3. PICK n \in Rest : \A m \in Rest : ~ (<<m, n>> \in Less)
  <2>1. Rest \subseteq Nat
    OBVIOUS
  <2> HIDE DEF Rest
  <2> QED BY <1>2, <2>1, WFMin
<1>4. n # 0 /\ n - 1 \in Nat
  OBVIOUS
<1>5. n - 1 \in T
  <2>1. <<n - 1, n>> \in Less
    BY <1>1, <1>4
  <2> QED BY <1>3, <1>4, <2>1
<1> QED BY <1>4, <1>5

-----------------------------------------------------------------------------
(* What is kept of a list.                                                 *)

\* The element at a position as it is appended to what is kept: or nothing.
Piece(s, S, i) == IF s[i] \in S THEN <<s[i]>> ELSE <<>>

\* There is a function that says what is kept after each turn, and Kept is
\* what it says of the last one.
LEMMA KeptTurns ==
    ASSUME NEW s, Len(s) \in Nat, NEW S
    PROVE  \E kept :
             /\ kept[0] = <<>>
             /\ \A i \in 1..Len(s) : kept[i] = kept[i - 1] \o Piece(s, S, i)
             /\ Kept(s, S) = kept[Len(s)]
<1> DEFINE Turns(kept, n) ==
             kept = [i \in 0..n |-> IF i = 0 THEN <<>>
                                    ELSE kept[i - 1] \o Piece(s, S, i)]
           T == {n \in Nat : \E kept : Turns(kept, n)}
<1>1. 0 \in T
  <2> DEFINE kept == [i \in 0..0 |-> <<>>]
  <2>1. Turns(kept, 0)
    OBVIOUS
  <2> QED BY <2>1
<1>2. ASSUME NEW n \in Nat, n \in T PROVE n + 1 \in T
  <2>1. PICK f : Turns(f, n)
    BY <1>2
  <2> DEFINE kept == [i \in 0..(n + 1) |-> IF i = n + 1 THEN f[n] \o Piece(s, S, i)
                                           ELSE f[i]]
  <2>2. \A i \in 0..n : f[i] = IF i = 0 THEN <<>> ELSE f[i - 1] \o Piece(s, S, i)
    BY <2>1
  <2>3. \A i \in 0..n : kept[i] = f[i]
    OBVIOUS
  <2>4. ASSUME NEW i \in 0..(n + 1)
        PROVE  kept[i] = IF i = 0 THEN <<>> ELSE kept[i - 1] \o Piece(s, S, i)
    <3>1. CASE i = n + 1
      <4>1. n + 1 \in 0..(n + 1) /\ n + 1 # 0 /\ (n + 1) - 1 = n /\ n \in 0..n
        OBVIOUS
      <4>2. kept[n + 1] = f[n] \o Piece(s, S, n + 1)
        BY <4>1
      <4>3. kept[n] = f[n]
        BY <4>1, <2>3
      <4> HIDE DEF kept
      <4> QED BY <3>1, <4>1, <4>2, <4>3
    <3>2. CASE i \in 0..n
      <4>1. i # 0 => i - 1 \in 0..n
        BY <3>2
      <4> QED BY <3>2, <4>1, <2>2, <2>3
    <3> QED BY <3>1, <3>2
  <2>5. Turns(kept, n + 1)
    <3> HIDE DEF kept
    <3>1. kept = [i \in 0..(n + 1) |-> kept[i]]
      BY DEF kept
    <3> QED BY <3>1, <2>4
  <2> HIDE DEF kept, Turns
  <2> QED BY <2>5
<1>3. Len(s) \in T
  <2> HIDE DEF T
  <2> QED BY <1>1, <1>2, AllTurns
<1> DEFINE kept == CHOOSE kept : Turns(kept, Len(s))
<1>4. Turns(kept, Len(s))
  BY <1>3
<1>5. Kept(s, S) = kept[Len(s)]
  BY DEF Kept, Piece
<1>6. kept[0] = <<>> /\ \A i \in 1..Len(s) : kept[i] = kept[i - 1] \o Piece(s, S, i)
  <2> HIDE DEF kept
  <2>1. \A i \in 0..Len(s) :
           kept[i] = IF i = 0 THEN <<>> ELSE kept[i - 1] \o Piece(s, S, i)
    BY <1>4
  <2>2. /\ 0 \in 0..Len(s)
        /\ \A i \in 1..Len(s) : i \in 0..Len(s) /\ i # 0
    OBVIOUS
  <2> QED BY <2>1, <2>2
<1> HIDE DEF kept
<1> QED BY <1>5, <1>6

\* A list t is the list s read at positions up to n that increase.
Reads(t, s, at, n) ==
    /\ at \in [1..Len(t) -> 1..n]
    /\ \A j \in 1..Len(t) : t[j] = s[at[j]]
    /\ \A j, k \in 1..Len(t) : j < k => at[j] < at[k]

\* What is kept is the list at some of its positions, in their order.
LEMMA KeptReads ==
    ASSUME NEW A, NEW s \in Seq(A), NEW S
    PROVE  /\ Kept(s, S) \in Seq(A)
           /\ \E at : Reads(Kept(s, S), s, at, Len(s))
<1>1. Len(s) \in Nat /\ \A i \in 1..Len(s) : s[i] \in A
  OBVIOUS
<1>2. PICK kept :
        /\ kept[0] = <<>>
        /\ \A i \in 1..Len(s) : kept[i] = kept[i - 1] \o Piece(s, S, i)
        /\ Kept(s, S) = kept[Len(s)]
  BY <1>1, KeptTurns
<1> DEFINE Good(n) == kept[n] \in Seq(A) /\ \E at : Reads(kept[n], s, at, n)
           T == {n \in Nat : n <= Len(s) => Good(n)}
<1>3. 0 \in T
  <2>1. kept[0] \in Seq(A) /\ Len(kept[0]) = 0
    BY <1>2
  <2>2. Reads(kept[0], s, [j \in 1..0 |-> 0], 0)
    BY <2>1 DEF Reads
  <2> QED BY <2>1, <2>2
<1>4. ASSUME NEW n \in Nat, n \in T PROVE n + 1 \in T
  <2> SUFFICES ASSUME n + 1 <= Len(s) PROVE Good(n + 1)
    OBVIOUS
  <2>1. kept[n] \in Seq(A) /\ n \in 1..Len(s) \cup {0}
    BY <1>1, <1>4
  <2>2. PICK at : Reads(kept[n], s, at, n)
    BY <1>1, <1>4
  <2> DEFINE t == kept[n]
             u == kept[n + 1]
  <2>3. u = t \o Piece(s, S, n + 1)
    <3>1. n + 1 \in 1..Len(s) /\ (n + 1) - 1 = n
      BY <1>1
    <3> QED BY <1>2, <3>1
  <2>4. t \in Seq(A)
    BY <2>1
  <2> HIDE DEF t, u
  <2>5. CASE s[n + 1] \in S
    <3>1. u = Append(t, s[n + 1]) /\ s[n + 1] \in A
      BY <1>1, <2>3, <2>4, <2>5 DEF Piece
    <3>2. /\ u \in Seq(A) /\ Len(u) = Len(t) + 1 /\ u[Len(t) + 1] = s[n + 1]
          /\ \A j \in 1..Len(t) : u[j] = t[j]
          /\ Len(t) \in Nat
      BY <2>4, <3>1
    <3> DEFINE new == [j \in 1..Len(u) |-> IF j = Len(u) THEN n + 1 ELSE at[j]]
    <3>3. /\ at \in [1..Len(t) -> 1..n]
          /\ \A j \in 1..Len(t) : t[j] = s[at[j]]
          /\ \A j, k \in 1..Len(t) : j < k => at[j] < at[k]
      BY <2>2 DEF Reads, t
    <3>4. new[Len(u)] = n + 1 /\ \A j \in 1..Len(t) : new[j] = at[j]
      BY <3>2
    <3>5. \A j \in 1..Len(u) : j \in 1..Len(t) \/ j = Len(u)
      BY <3>2
    <3>6. new \in [1..Len(u) -> 1..(n + 1)]
      BY <3>2, <3>3
    <3> HIDE DEF new
    <3>7. \A j \in 1..Len(u) : u[j] = s[new[j]]
      BY <3>2, <3>3, <3>4, <3>5
    <3>8. \A j, k \in 1..Len(u) : j < k => new[j] < new[k]
      BY <3>2, <3>3, <3>4, <3>5
    <3> QED BY <3>2, <3>6, <3>7, <3>8 DEF Reads, u
  <2>6. CASE s[n + 1] \notin S
    <3>1. u = t
      BY <2>3, <2>4, <2>6 DEF Piece
    <3>2. Reads(t, s, at, n + 1)
      BY <2>2, <2>4 DEF Reads, t
    <3> QED BY <2>4, <3>1, <3>2 DEF u
  <2> QED BY <2>5, <2>6
<1>5. Len(s) \in T
  <2> HIDE DEF T
  <2> QED BY <1>1, <1>3, <1>4, AllTurns
<1>6. Good(Len(s))
  BY <1>1, <1>5
<1> QED BY <1>2, <1>6

-----------------------------------------------------------------------------
(* The loop of rmpluginu, which assigns to the vector it walks.            *)

TurnTemp(was, id, i) ==
    was.temp \o IF was.buffer[i].id # id THEN <<was.buffer[i]>> ELSE <<>>
Turn(was, id, i) ==
    [buffer |-> TurnTemp(was, id, i)
                  \o SubSeq(was.buffer, Len(TurnTemp(was, id, i)) + 1, Len(was.buffer)),
     temp |-> TurnTemp(was, id, i)]

\* There is a function that says what the vector and what is to be kept are
\* after each turn, and AfterRemoval is what is to be kept after the last.
LEMMA RemovalTurns ==
    ASSUME NEW plugins, Len(plugins) \in Nat, NEW id
    PROVE  \E turn :
             /\ turn[0] = [buffer |-> plugins, temp |-> <<>>]
             /\ \A i \in 1..Len(plugins) : turn[i] = Turn(turn[i - 1], id, i)
             /\ AfterRemoval(plugins, id) = turn[Len(plugins)].temp
<1> DEFINE first == [buffer |-> plugins, temp |-> <<>>]
           Turns(turn, n) ==
             turn = [i \in 0..n |-> IF i = 0 THEN first ELSE Turn(turn[i - 1], id, i)]
           T == {n \in Nat : \E turn : Turns(turn, n)}
<1>1. 0 \in T
  <2> DEFINE turn == [i \in 0..0 |-> first]
  <2> HIDE DEF first
  <2>1. Turns(turn, 0)
    OBVIOUS
  <2> QED BY <2>1
<1>2. ASSUME NEW n \in Nat, n \in T PROVE n + 1 \in T
  <2> HIDE DEF first
  <2>1. PICK f : Turns(f, n)
    BY <1>2
  <2> DEFINE turn == [i \in 0..(n + 1) |-> IF i = n + 1 THEN Turn(f[n], id, i)
                                           ELSE f[i]]
  <2>2. \A i \in 0..n : f[i] = IF i = 0 THEN first ELSE Turn(f[i - 1], id, i)
    BY <2>1
  <2>3. \A i \in 0..n : turn[i] = f[i]
    OBVIOUS
  <2>4. ASSUME NEW i \in 0..(n + 1)
        PROVE  turn[i] = IF i = 0 THEN first ELSE Turn(turn[i - 1], id, i)
    <3>1. CASE i = n + 1
      <4>1. n + 1 \in 0..(n + 1) /\ n + 1 # 0 /\ (n + 1) - 1 = n /\ n \in 0..n
        OBVIOUS
      <4>2. turn[n + 1] = Turn(f[n], id, n + 1)
        BY <4>1
      <4>3. turn[n] = f[n]
        BY <4>1, <2>3
      <4> HIDE DEF turn
      <4> QED BY <3>1, <4>1, <4>2, <4>3
    <3>2. CASE i \in 0..n
      <4>1. i # 0 => i - 1 \in 0..n
        BY <3>2
      <4> QED BY <3>2, <4>1, <2>2, <2>3
    <3> QED BY <3>1, <3>2
  <2>5. Turns(turn, n + 1)
    <3> HIDE DEF turn
    <3>1. turn = [i \in 0..(n + 1) |-> turn[i]]
      BY DEF turn
    <3> QED BY <3>1, <2>4
  <2> HIDE DEF turn, Turns
  <2> QED BY <2>5
<1>3. Len(plugins) \in T
  <2> HIDE DEF T
  <2> QED BY <1>1, <1>2, AllTurns
<1> DEFINE turn == CHOOSE turn : Turns(turn, Len(plugins))
<1>4. Turns(turn, Len(plugins))
  BY <1>3
<1>5. AfterRemoval(plugins, id) = turn[Len(plugins)].temp
  BY DEF AfterRemoval, Turn, TurnTemp
<1>6. /\ turn[0] = first
      /\ \A i \in 1..Len(plugins) : turn[i] = Turn(turn[i - 1], id, i)
  <2> HIDE DEF turn, first
  <2>1. \A i \in 0..Len(plugins) :
           turn[i] = IF i = 0 THEN first ELSE Turn(turn[i - 1], id, i)
    BY <1>4
  <2>2. /\ 0 \in 0..Len(plugins)
        /\ \A i \in 1..Len(plugins) : i \in 0..Len(plugins) /\ i # 0
    OBVIOUS
  <2> QED BY <2>1, <2>2
<1> HIDE DEF turn
<1> QED BY <1>5, <1>6

\* Each turn reads an element the loop has not written over yet, so what it
\* keeps is what a walk over an unchanged vector would keep.
LEMMA RemovalKeepsOthers ==
    ASSUME NEW A, NEW plugins \in Seq(A), NEW id
    PROVE  AfterRemoval(plugins, id) = Kept(plugins, OtherPlugins(plugins, id))
<1> DEFINE others == OtherPlugins(plugins, id)
           L == Len(plugins)
<1>1. L \in Nat /\ plugins \in [1..L -> A]
  OBVIOUS
<1>2. PICK kept :
        /\ kept[0] = <<>>
        /\ \A i \in 1..L : kept[i] = kept[i - 1] \o Piece(plugins, others, i)
        /\ Kept(plugins, others) = kept[L]
  BY <1>1, KeptTurns
<1>3. PICK turn :
        /\ turn[0] = [buffer |-> plugins, temp |-> <<>>]
        /\ \A i \in 1..L : turn[i] = Turn(turn[i - 1], id, i)
        /\ AfterRemoval(plugins, id) = turn[L].temp
  BY <1>1, RemovalTurns
<1> DEFINE Good(n) ==
             /\ turn[n].temp = kept[n]
             /\ kept[n] \in Seq(A) /\ Len(kept[n]) <= n
             /\ turn[n].buffer \in Seq(A) /\ Len(turn[n].buffer) = L
             /\ \A j \in (n + 1)..L : turn[n].buffer[j] = plugins[j]
           T == {n \in Nat : n <= L => Good(n)}
<1>4. 0 \in T
  <2>1. /\ turn[0].temp = <<>> /\ kept[0] = <<>>
        /\ turn[0].buffer = plugins
    BY <1>2, <1>3
  <2>2. <<>> \in Seq(A) /\ Len(<<>>) = 0
    OBVIOUS
  <2>3. Good(0)
    BY <2>1, <2>2
  <2> HIDE DEF Good
  <2> QED BY <2>3
<1>5. ASSUME NEW n \in Nat, n \in T PROVE n + 1 \in T
  <2> SUFFICES ASSUME n + 1 <= L PROVE Good(n + 1)
    OBVIOUS
  <2> DEFINE was == turn[n]
             now == turn[n + 1]
  <2>1. n + 1 \in 1..L /\ (n + 1) - 1 = n /\ n <= L
    BY <1>1
  <2>2. now = Turn(was, id, n + 1)
    BY <1>3, <2>1
  <2>3. kept[n + 1] = kept[n] \o Piece(plugins, others, n + 1)
    BY <1>2, <2>1
  <2>4. Good(n)
    BY <1>5, <2>1
  <2>5. was.buffer[n + 1] = plugins[n + 1] /\ plugins[n + 1] \in A
    BY <1>1, <2>1, <2>4
  <2>6. plugins[n + 1] \in others <=> plugins[n + 1].id # id
    BY <1>1, <2>1 DEF OtherPlugins, Members
  <2>7. TurnTemp(was, id, n + 1) = kept[n + 1]
    <3> HIDE DEF others
    <3> QED BY <2>3, <2>4, <2>5, <2>6 DEF TurnTemp, Piece
  <2> DEFINE t == kept[n + 1]
             b == was.buffer
  <2>8. t \in Seq(A) /\ Len(t) <= n + 1 /\ Len(t) \in Nat
    <3> DEFINE k == kept[n]
               x == plugins[n + 1]
    <3>1. k \in Seq(A) /\ Len(k) <= n /\ x \in A
      BY <2>4, <2>5
    <3> DEFINE e == Piece(plugins, others, n + 1)
    <3>2. e = <<>> \/ e = <<x>>
      BY DEF Piece
    <3>3. t = k \o e
      BY <2>3
    <3> HIDE DEF k, x, t, e, L
    <3>4. t = k \/ t = k \o <<x>>
      <4>1. k \o <<>> = k
        BY <3>1
      <4> QED BY <3>2, <3>3, <4>1
    <3>5. k \o <<x>> \in Seq(A) /\ Len(k \o <<x>>) = Len(k) + 1 /\ Len(k) \in Nat
      BY <3>1
    <3> QED BY <3>1, <3>4, <3>5
  <2>9. now.temp = t /\ now.buffer = t \o SubSeq(b, Len(t) + 1, L)
    <3>1. Len(b) = L
      BY <2>4
    <3>2. now = [buffer |-> t \o SubSeq(b, Len(t) + 1, Len(b)), temp |-> t]
      <4> HIDE DEF t, now
      <4> QED BY <2>2, <2>7 DEF Turn, t, now
    <3> HIDE DEF now, t, b
    <3> QED BY <3>1, <3>2
  <2>10. b \in Seq(A) /\ Len(b) = L /\ \A j \in (n + 1)..L : b[j] = plugins[j]
    BY <2>4
  <2> HIDE DEF t, b, now, others
  <2>11. /\ SubSeq(b, Len(t) + 1, L) \in Seq(A)
         /\ Len(SubSeq(b, Len(t) + 1, L)) = L - Len(t)
         /\ \A j \in 1..(L - Len(t)) : SubSeq(b, Len(t) + 1, L)[j] = b[Len(t) + j]
    BY <1>1, <2>1, <2>8, <2>10
  <2>12. /\ now.buffer \in Seq(A) /\ Len(now.buffer) = L
         /\ \A j \in (Len(t) + 1)..L : now.buffer[j] = b[j]
    <3> DEFINE r == SubSeq(b, Len(t) + 1, L)
    <3>1. r \in Seq(A) /\ Len(r) = L - Len(t)
          /\ \A j \in 1..(L - Len(t)) : r[j] = b[Len(t) + j]
      BY <2>11
    <3> HIDE DEF r
    <3>2. /\ t \o r \in Seq(A) /\ Len(t \o r) = Len(t) + Len(r)
          /\ \A j \in 1..Len(r) : (t \o r)[Len(t) + j] = r[j]
      BY <2>8, <3>1
    <3>3. \A j \in (Len(t) + 1)..L : j - Len(t) \in 1..Len(r) /\ Len(t) + (j - Len(t)) = j
      BY <1>1, <2>8, <3>1
    <3> QED BY <1>1, <2>8, <2>9, <3>1, <3>2, <3>3 DEF r
  <2>13. \A j \in (n + 2)..L : now.buffer[j] = plugins[j]
    BY <1>1, <2>8, <2>10, <2>12
  <2>14. (n + 1) + 1 = n + 2
    OBVIOUS
  <2> QED BY <2>8, <2>9, <2>12, <2>13, <2>14 DEF t, now
<1>6. L \in T
  <2> HIDE DEF T, L
  <2> QED BY <1>1, <1>4, <1>5, AllTurns
<1> QED BY <1>1, <1>2, <1>3, <1>6

-----------------------------------------------------------------------------
(* Lists without doubles.                                                  *)

\* What is kept of a list without doubles is one.
LEMMA KeptHasNoDoubles ==
    ASSUME NEW A, NEW s \in Seq(A), NEW S, IsInjective(s)
    PROVE  Kept(s, S) \in Seq(A) /\ IsInjective(Kept(s, S))
<1> DEFINE t == Kept(s, S)
<1>1. t \in Seq(A) /\ \E at : Reads(t, s, at, Len(s))
  BY KeptReads
<1> HIDE DEF t
<1>2. PICK at : Reads(t, s, at, Len(s))
  BY <1>1
<1>3. /\ Len(t) \in Nat /\ DOMAIN t = 1..Len(t) /\ DOMAIN s = 1..Len(s)
      /\ Len(s) \in Nat
  BY <1>1
<1> SUFFICES ASSUME NEW j \in DOMAIN t, NEW k \in DOMAIN t, t[j] = t[k], j < k
             PROVE  FALSE
  BY <1>1, <1>3 DEF IsInjective, t
<1>4. at[j] \in DOMAIN s /\ at[k] \in DOMAIN s /\ at[j] < at[k]
      /\ s[at[j]] = s[at[k]]
  BY <1>2, <1>3 DEF Reads
<1> QED BY <1>3, <1>4 DEF IsInjective

\* A new element makes no double.
LEMMA NewHasNoDoubles ==
    ASSUME NEW A, NEW s \in Seq(A), NEW x \in A, x \notin Members(s), IsInjective(s)
    PROVE  Append(s, x) \in Seq(A) /\ IsInjective(Append(s, x))
<1> DEFINE t == Append(s, x)
<1>1. /\ t \in Seq(A) /\ Len(t) = Len(s) + 1 /\ t[Len(s) + 1] = x
      /\ \A j \in 1..Len(s) : t[j] = s[j]
      /\ Len(s) \in Nat /\ DOMAIN s = 1..Len(s) /\ DOMAIN t = 1..Len(t)
  OBVIOUS
<1> HIDE DEF t
<1>2. \A j \in DOMAIN t : j \in DOMAIN s \/ j = Len(s) + 1
  BY <1>1
<1>3. \A j \in DOMAIN s : t[j] # x
  BY <1>1 DEF Members
<1>4. IsInjective(t)
  BY <1>1, <1>2, <1>3 DEF IsInjective
<1> QED BY <1>1, <1>4 DEF t

\* No two plugins of the list have one id.
DistinctIds(plugins) == IsInjective([j \in DOMAIN plugins |-> plugins[j].id])

LEMMA DistinctIdsSays ==
    ASSUME NEW plugins
    PROVE  DistinctIds(plugins) <=>
             \A j, k \in DOMAIN plugins : plugins[j].id = plugins[k].id => j = k
BY DEF DistinctIds, IsInjective

LEMMA KeptPluginsAreDistinct ==
    ASSUME NEW A, NEW s \in Seq(A), NEW S, DistinctIds(s)
    PROVE  Kept(s, S) \in Seq(A) /\ DistinctIds(Kept(s, S))
<1> DEFINE t == Kept(s, S)
<1>1. t \in Seq(A) /\ \E at : Reads(t, s, at, Len(s))
  BY KeptReads
<1> HIDE DEF t
<1>2. PICK at : Reads(t, s, at, Len(s))
  BY <1>1
<1>3. /\ Len(t) \in Nat /\ DOMAIN t = 1..Len(t) /\ DOMAIN s = 1..Len(s)
      /\ Len(s) \in Nat
  BY <1>1
<1>4. ASSUME NEW j \in DOMAIN t, NEW k \in DOMAIN t, t[j].id = t[k].id, j < k
      PROVE  FALSE
  <2>1. at[j] \in DOMAIN s /\ at[k] \in DOMAIN s /\ at[j] < at[k]
        /\ s[at[j]].id = s[at[k]].id
    BY <1>2, <1>3, <1>4 DEF Reads
  <2> QED BY <1>3, <2>1, DistinctIdsSays
<1>5. \A j, k \in DOMAIN t : t[j].id = t[k].id => j = k
  BY <1>3, <1>4
<1> QED BY <1>1, <1>5, DistinctIdsSays DEF t

LEMMA NewPluginIsDistinct ==
    ASSUME NEW A, NEW s \in Seq(A), NEW x \in A, DistinctIds(s),
           \A y \in Members(s) : y.id # x.id
    PROVE  Append(s, x) \in Seq(A) /\ DistinctIds(Append(s, x))
<1> DEFINE t == Append(s, x)
<1>1. /\ t \in Seq(A) /\ Len(t) = Len(s) + 1 /\ t[Len(s) + 1] = x
      /\ \A j \in 1..Len(s) : t[j] = s[j]
      /\ Len(s) \in Nat /\ DOMAIN s = 1..Len(s) /\ DOMAIN t = 1..Len(t)
  OBVIOUS
<1> HIDE DEF t
<1>2. \A j \in DOMAIN t : j \in DOMAIN s \/ j = Len(s) + 1
  BY <1>1
<1>3. \A j \in DOMAIN s : t[j].id # x.id
  BY <1>1 DEF Members
<1>4. \A j, k \in DOMAIN t : t[j].id = t[k].id => j = k
  BY <1>1, <1>2, <1>3, DistinctIdsSays
<1> QED BY <1>1, <1>4, DistinctIdsSays DEF t

-----------------------------------------------------------------------------
(* The invariant: the types, with the one global row said without counting, *)
(* and no doubles.                                                         *)

\* A row that may be stored under i.
Fits(i, r) ==
    /\ r \in User /\ IdOf[r.guiname] = i
    /\ IsInjective(r.accounts) /\ IsInjective(r.templates)
    /\ DistinctIds(r.plugins)

OneGlobal == global = {} \/ \E g \in Global : global = {g}
UsersFit ==
    /\ DOMAIN users \subseteq UserIds
    /\ \A i \in DOMAIN users : Fits(i, users[i])
HistoriesFit ==
    /\ DOMAIN histories \subseteq Owners \X Compositions
    /\ \A k \in DOMAIN histories : histories[k] \in History
PermissionsFit ==
    /\ DOMAIN permissions \subseteq Owners \X Compositions
    /\ \A k \in DOMAIN permissions : permissions[k] \in Perms

GuiInv == OneGlobal /\ UsersFit /\ HistoriesFit /\ PermissionsFit

\* The invariant says all the types say, and that there are no doubles.
LEMMA InvSaysTypes == GuiInv => TypeOK /\ NoDoubles
<1> SUFFICES ASSUME GuiInv PROVE TypeOK /\ NoDoubles
  OBVIOUS
<1>1. Cardinality(global) <= 1 /\ \A g \in global : g \in Global
  <2>1. CASE global = {}
    <3>1. Cardinality(global) = 0
      BY <2>1, FS_EmptySet
    <3> QED BY <2>1, <3>1
  <2>2. CASE \E g \in Global : global = {g}
    <3>1. PICK g \in Global : global = {g}
      BY <2>2
    <3>2. Cardinality(global) = 1
      BY <3>1, FS_Singleton
    <3> QED BY <3>1, <3>2
  <2> QED BY <2>1, <2>2 DEF GuiInv, OneGlobal
<1>2. TypeOK
  BY <1>1 DEF GuiInv, UsersFit, Fits, HistoriesFit, PermissionsFit, TypeOK
<1>3. NoDoubles
  BY DEF GuiInv, UsersFit, Fits, DistinctIds, NoDoubles
<1> QED BY <1>2, <1>3

LEMMA InitFits == Init => GuiInv
BY DEF Init, GuiInv, OneGlobal, UsersFit, HistoriesFit, PermissionsFit

\* What an action loads is the row the table has, or the default.
LEMMA Loaded ==
    ASSUME OneGlobal
    PROVE  Gstate \in Global /\ \A g \in global : Gstate = g
<1>1. CASE global = {}
  <2>1. Default \in Global
    BY GuiAssumption DEF Default, Global
  <2> QED BY <1>1, <2>1 DEF Gstate
<1>2. CASE \E g \in Global : global = {g}
  BY <1>2 DEF Gstate
<1> QED BY <1>1, <1>2 DEF OneGlobal

-----------------------------------------------------------------------------
(* The steps.                                                              *)

\* A row that fits is stored where the name hashes to.
LEMMA ModifyFits ==
    ASSUME GuiInv, NEW guiname \in Guinames, NEW row,
           Fits(IdOf[guiname], row),
           ChangeUsers(Put(users, IdOf[guiname], row))
    PROVE  GuiInv'
<1>1. users' = Put(users, IdOf[guiname], row) /\ global' = {Gstate}
      /\ UNCHANGED <<histories, permissions>>
  BY DEF ChangeUsers, Store
<1>2. OneGlobal'
  BY <1>1, Loaded DEF GuiInv, OneGlobal
<1>3. IdOf[guiname] \in UserIds
  BY DEF UserIds
<1>4. UsersFit'
  BY <1>1, <1>3 DEF GuiInv, UsersFit, Put, Fits
<1> QED BY <1>1, <1>2, <1>4 DEF GuiInv, HistoriesFit, PermissionsFit

LEMMA GlobalActionFits ==
    ASSUME GuiInv, NEW g \in Global, ChangeGlobal(g)
    PROVE  GuiInv'
BY DEF GuiInv, ChangeGlobal, Store, OneGlobal, UsersFit, Fits, HistoriesFit, PermissionsFit

\* The actions on the global row store one of its type.
LEMMA GlobalActions ==
    ASSUME GuiInv
    PROVE  /\ \A id \in Ids :
                /\ [Gstate EXCEPT !.templates = Append(@, id)] \in Global
                /\ [Gstate EXCEPT !.plugins = Append(@, id)] \in Global
           /\ \A version \in Versions : [Gstate EXCEPT !.version = version] \in Global
           /\ [Gstate EXCEPT !.plugins = <<>>] \in Global
<1>1. /\ Gstate \in Global /\ Gstate.templates \in Seq(Ids)
      /\ Gstate.plugins \in Seq(Ids)
  BY Loaded DEF GuiInv, Global
<1>2. /\ \A id \in Ids : /\ Append(Gstate.templates, id) \in Seq(Ids)
                         /\ Append(Gstate.plugins, id) \in Seq(Ids)
      /\ <<>> \in Seq(Ids)
  BY <1>1
<1> QED BY <1>1, <1>2 DEF Global

\* The row an action finds, and the types of what is in it.
LEMMA Found ==
    ASSUME GuiInv, NEW guiname, HasUser(guiname)
    PROVE  LET r == UserRow(guiname)
           IN  /\ Fits(IdOf[guiname], r)
               /\ r.accounts \in Seq(Accounts) /\ r.servers \in Seq(Servers)
               /\ r.templates \in Seq(Ids) /\ r.plugins \in Seq(Plugin)
BY DEF GuiInv, UsersFit, HasUser, UserRow, Fits, User

LEMMA AddUserFits ==
    ASSUME GuiInv, NEW guiname \in Guinames, NEW password \in Passwords,
           NEW version \in Versions, AddUser(guiname, password, version)
    PROVE  GuiInv'
<1> DEFINE row == [guiname |-> guiname, password |-> password, twords |-> <<>>,
                   accounts |-> <<>>, servers |-> <<>>, templates |-> <<>>,
                   plugins |-> <<>>, version |-> version]
<1>1. /\ <<>> \in Seq(Accounts) /\ <<>> \in Seq(Servers) /\ <<>> \in Seq(Ids)
      /\ <<>> \in Seq(Plugin) /\ DOMAIN <<>> = {}
  OBVIOUS
<1>2. row \in User
  BY <1>1 DEF User
<1>3. IsInjective(<<>>) /\ DistinctIds(<<>>)
  BY <1>1, DistinctIdsSays DEF IsInjective
<1>4. Fits(IdOf[guiname], row)
  BY <1>2, <1>3 DEF Fits
<1>5. ChangeUsers(Put(users, IdOf[guiname], row))
  BY DEF AddUser
<1> HIDE DEF row
<1> QED BY <1>4, <1>5, ModifyFits

\* Passwords, words, versions and servers have no part in what must fit.
LEMMA PlainFieldsFit ==
    ASSUME NEW i, NEW r, Fits(i, r)
    PROVE  /\ \A p \in Passwords : Fits(i, [r EXCEPT !.password = p])
           /\ \A w \in WordLists : Fits(i, [r EXCEPT !.twords = w])
           /\ \A v \in Versions : Fits(i, [r EXCEPT !.version = v])
           /\ \A s \in Seq(Servers) : Fits(i, [r EXCEPT !.servers = s])
BY DEF Fits, User

LEMMA ListsFit ==
    ASSUME NEW i, NEW r, Fits(i, r)
    PROVE  /\ \A s \in Seq(Accounts) :
                IsInjective(s) => Fits(i, [r EXCEPT !.accounts = s])
           /\ \A s \in Seq(Ids) :
                IsInjective(s) => Fits(i, [r EXCEPT !.templates = s])
           /\ \A s \in Seq(Plugin) :
                DistinctIds(s) => Fits(i, [r EXCEPT !.plugins = s])
BY DEF Fits, User

\* Words, passwords, versions and servers.
LEMMA PlainActionsFit ==
    ASSUME GuiInv, NEW guiname \in Guinames
    PROVE  /\ \A twords \in WordLists : AddTwords(guiname, twords) => GuiInv'
           /\ \A twords : \A password \in Passwords :
                RecoverPsw(guiname, twords, password) => GuiInv'
           /\ UpVersionU(guiname) => GuiInv'
           /\ \A server \in Servers :
                AddServer(guiname, server) \/ RmServer(guiname, server) => GuiInv'
<1> DEFINE r == UserRow(guiname)
           i == IdOf[guiname]
<1>1. HasUser(guiname) => Fits(i, r) /\ r.servers \in Seq(Servers)
  BY Found
<1>2. ASSUME NEW twords \in WordLists, AddTwords(guiname, twords) PROVE GuiInv'
  BY <1>1, <1>2, PlainFieldsFit, ModifyFits DEF AddTwords, Modify
<1>3. ASSUME NEW password \in Passwords, NEW twords,
             RecoverPsw(guiname, twords, password)
      PROVE  GuiInv'
  BY <1>1, <1>3, PlainFieldsFit, ModifyFits DEF RecoverPsw, Modify
<1>4. ASSUME UpVersionU(guiname) PROVE GuiInv'
  <2>1. Gstate.version \in Versions
    BY Loaded DEF GuiInv, Global
  <2> QED BY <1>1, <1>4, <2>1, PlainFieldsFit, ModifyFits DEF UpVersionU, Modify
<1>5. ASSUME NEW server \in Servers, AddServer(guiname, server) PROVE GuiInv'
  <2>1. HasUser(guiname) /\ Append(r.servers, server) \in Seq(Servers)
    BY <1>1, <1>5 DEF AddServer, Modify
  <2> QED BY <1>1, <1>5, <2>1, PlainFieldsFit, ModifyFits DEF AddServer, Modify
<1>6. ASSUME NEW server \in Servers, RmServer(guiname, server) PROVE GuiInv'
  <2>1. HasUser(guiname) /\ Without(r.servers, server) \in Seq(Servers)
    BY <1>1, <1>6, KeptReads DEF RmServer, Without
  <2> QED BY <1>1, <1>6, <2>1, PlainFieldsFit, ModifyFits DEF RmServer, Modify
<1> QED BY <1>2, <1>3, <1>4, <1>5, <1>6

\* Accounts and templates.
LEMMA AccountActionsFit ==
    ASSUME GuiInv, NEW guiname \in Guinames, NEW account \in Accounts,
           AddAccount(guiname, account) \/ RmAccount(guiname, account)
    PROVE  GuiInv'
<1> DEFINE r == UserRow(guiname)
<1>1. HasUser(guiname)
  BY DEF AddAccount, RmAccount
<1>2. /\ Fits(IdOf[guiname], r)
      /\ r.accounts \in Seq(Accounts) /\ IsInjective(r.accounts)
  BY <1>1, Found DEF Fits
<1>3. CASE AddAccount(guiname, account)
  <2>1. Append(r.accounts, account) \in Seq(Accounts)
        /\ IsInjective(Append(r.accounts, account))
    BY <1>2, <1>3, NewHasNoDoubles DEF AddAccount
  <2> QED BY <1>2, <1>3, <2>1, ListsFit, ModifyFits DEF AddAccount, Modify
<1>4. CASE RmAccount(guiname, account)
  <2>1. Without(r.accounts, account) \in Seq(Accounts)
        /\ IsInjective(Without(r.accounts, account))
    BY <1>2, KeptHasNoDoubles DEF Without
  <2> QED BY <1>2, <1>4, <2>1, ListsFit, ModifyFits DEF RmAccount, Modify
<1> QED BY <1>3, <1>4

LEMMA TemplateActionsFit ==
    ASSUME GuiInv, NEW guiname \in Guinames, NEW id \in Ids,
           AddTemplateU(guiname, id) \/ RmTemplateU(guiname, id)
    PROVE  GuiInv'
<1> DEFINE r == UserRow(guiname)
<1>1. HasUser(guiname)
  BY DEF AddTemplateU, RmTemplateU
<1>2. /\ Fits(IdOf[guiname], r)
      /\ r.templates \in Seq(Ids) /\ IsInjective(r.templates)
  BY <1>1, Found DEF Fits
<1>3. CASE AddTemplateU(guiname, id)
  <2>1. Append(r.templates, id) \in Seq(Ids) /\ IsInjective(Append(r.templates, id))
    BY <1>2, <1>3, NewHasNoDoubles DEF AddTemplateU
  <2> QED BY <1>2, <1>3, <2>1, ListsFit, ModifyFits DEF AddTemplateU, Modify
<1>4. CASE RmTemplateU(guiname, id)
  <2>1. Without(r.templates, id) \in Seq(Ids) /\ IsInjective(Without(r.templates, id))
    BY <1>2, KeptHasNoDoubles DEF Without
  <2> QED BY <1>2, <1>4, <2>1, ListsFit, ModifyFits DEF RmTemplateU, Modify
<1> QED BY <1>3, <1>4

\* Plugins.
LEMMA SetActiveFits ==
    ASSUME GuiInv, NEW guiname \in Guinames, NEW id, NEW active \in BOOLEAN,
           SetActive(guiname, id, active)
    PROVE  GuiInv'
<1> DEFINE r == UserRow(guiname)
           s == r.plugins
           t == [i \in DOMAIN s |-> IF s[i].id = id THEN [s[i] EXCEPT !.active = active]
                                    ELSE s[i]]
<1>1. HasUser(guiname) /\ ChangeUsers(Put(users, IdOf[guiname], [r EXCEPT !.plugins = t]))
  BY DEF SetActive, Modify
<1>2. Fits(IdOf[guiname], r) /\ s \in Seq(Plugin) /\ DistinctIds(s)
  BY <1>1, Found DEF Fits
<1>3. \A i \in DOMAIN s : t[i] \in Plugin /\ t[i].id = s[i].id
  <2> TAKE i \in DOMAIN s
  <2>1. s[i] \in Plugin
    <3> HIDE DEF s
    <3> QED BY <1>2
  <2>2. [s[i] EXCEPT !.active = active] \in Plugin
        /\ [s[i] EXCEPT !.active = active].id = s[i].id
    <3> HIDE DEF s
    <3> QED BY <2>1 DEF Plugin
  <2>3. t[i] = s[i] \/ t[i] = [s[i] EXCEPT !.active = active]
    <3> HIDE DEF s
    <3> QED OBVIOUS
  <2> HIDE DEF s, t
  <2> QED BY <2>1, <2>2, <2>3
<1>4. t \in Seq(Plugin)
  <2> HIDE DEF s
  <2>1. DOMAIN s = 1..Len(s) /\ Len(s) \in Nat
    BY <1>2
  <2>2. t \in [1..Len(s) -> Plugin]
    BY <1>3, <2>1
  <2> HIDE DEF t
  <2> QED BY <2>1, <2>2, SeqDef
<1>5. DistinctIds(t)
  <2>1. DOMAIN t = DOMAIN s
    OBVIOUS
  <2> HIDE DEF s, t
  <2> QED BY <1>2, <1>3, <2>1, DistinctIdsSays
<1> HIDE DEF t
<1> QED BY <1>1, <1>2, <1>4, <1>5, ListsFit, ModifyFits

LEMMA PluginActionsFit ==
    ASSUME GuiInv, NEW guiname \in Guinames, NEW id \in Ids,
           \/ AddPluginU(guiname, id) \/ RmPluginU(guiname, id)
           \/ TurnOnPlugin(guiname, id) \/ TurnOfPlugin(guiname, id)
    PROVE  GuiInv'
<1> DEFINE r == UserRow(guiname)
           new == [id |-> id, active |-> FALSE]
<1>1. CASE TurnOnPlugin(guiname, id) \/ TurnOfPlugin(guiname, id)
  BY <1>1, SetActiveFits DEF TurnOnPlugin, TurnOfPlugin
<1>2. CASE AddPluginU(guiname, id)
  <2>1. Fits(IdOf[guiname], r) /\ r.plugins \in Seq(Plugin) /\ DistinctIds(r.plugins)
    BY <1>2, Found DEF Fits, AddPluginU
  <2>2. new \in Plugin /\ new.id = id
    BY DEF Plugin
  <2>3. \A plg \in Members(r.plugins) : plg.id # new.id
    BY <1>2, <2>2 DEF AddPluginU
  <2>4. Append(r.plugins, new) \in Seq(Plugin) /\ DistinctIds(Append(r.plugins, new))
    <3> HIDE DEF new
    <3> QED BY <2>1, <2>2, <2>3, NewPluginIsDistinct
  <2>5. Fits(IdOf[guiname], [r EXCEPT !.plugins = Append(@, new)])
    BY <2>1, <2>4, ListsFit
  <2> QED BY <1>2, <2>5, ModifyFits DEF AddPluginU, Modify
<1>3. CASE RmPluginU(guiname, id)
  <2>1. Fits(IdOf[guiname], r) /\ r.plugins \in Seq(Plugin) /\ DistinctIds(r.plugins)
    BY <1>3, Found DEF Fits, RmPluginU, Modify
  <2>2. AfterRemoval(r.plugins, id) = Kept(r.plugins, OtherPlugins(r.plugins, id))
    BY <2>1, RemovalKeepsOthers
  <2>3. AfterRemoval(r.plugins, id) \in Seq(Plugin)
        /\ DistinctIds(AfterRemoval(r.plugins, id))
    BY <2>1, <2>2, KeptPluginsAreDistinct
  <2>4. Fits(IdOf[guiname], [r EXCEPT !.plugins = AfterRemoval(@, id)])
    BY <2>1, <2>3, ListsFit
  <2> QED BY <1>3, <2>4, ModifyFits DEF RmPluginU, Modify
<1> QED BY <1>1, <1>2, <1>3

LEMMA AllUsersFit ==
    ASSUME GuiInv, WaVersion \/ RmUsers
    PROVE  GuiInv'
<1>1. OneGlobal' /\ UNCHANGED <<histories, permissions>>
  BY Loaded DEF GuiInv, OneGlobal, WaVersion, RmUsers, ChangeUsers, Store
<1>2. CASE WaVersion
  <2>1. Gstate.version \in Versions
    BY Loaded DEF GuiInv, Global
  <2>2. users' = [i \in DOMAIN users |-> [users[i] EXCEPT !.version = Gstate.version]]
    BY <1>2 DEF WaVersion, ChangeUsers
  <2>3. \A i \in DOMAIN users : Fits(i, [users[i] EXCEPT !.version = Gstate.version])
    BY <2>1, PlainFieldsFit DEF GuiInv, UsersFit
  <2>4. UsersFit'
    BY <2>2, <2>3 DEF GuiInv, UsersFit, Fits
  <2> QED BY <1>1, <2>4 DEF GuiInv, HistoriesFit, PermissionsFit
<1>3. CASE RmUsers
  <2>1. UsersFit'
    BY <1>3 DEF RmUsers, ChangeUsers, UsersFit
  <2> QED BY <1>1, <2>1 DEF GuiInv, HistoriesFit, PermissionsFit
<1> QED BY <1>2, <1>3

LEMMA AddHistoryFits ==
    ASSUME GuiInv, NEW owner \in Owners, NEW composition \in Compositions,
           NEW object \in Objects, NEW type, AddHistory(owner, composition, object, type)
    PROVE  GuiInv'
<1> DEFINE key == <<owner, composition>>
           row == IF key \in DOMAIN histories THEN histories[key]
                  ELSE [t \in HistoryTypes |-> <<>>]
           new == [t \in HistoryTypes |->
                     IF t = type THEN Append(row[t], object) ELSE row[t]]
<1>1. histories' = Put(histories, key, new) /\ global' = {Gstate}
      /\ UNCHANGED <<users, permissions>>
  BY DEF AddHistory, Store
<1>2. row \in History
  <2>1. [t \in HistoryTypes |-> <<>>] \in History
    BY DEF History
  <2>2. key \in DOMAIN histories => histories[key] \in History
    BY DEF GuiInv, HistoriesFit
  <2> QED BY <2>1, <2>2
<1>3. new \in History
  <2> HIDE DEF row
  <2>1. ASSUME NEW t \in HistoryTypes
        PROVE  row[t] \in Seq(Objects) /\ Append(row[t], object) \in Seq(Objects)
    BY <1>2 DEF History
  <2> QED BY <2>1 DEF History
<1> HIDE DEF new
<1>4. HistoriesFit'
  BY <1>1, <1>3 DEF GuiInv, HistoriesFit, Put
<1>5. OneGlobal'
  BY <1>1, Loaded DEF GuiInv, OneGlobal
<1> QED BY <1>1, <1>4, <1>5 DEF GuiInv, UsersFit, Fits, PermissionsFit

LEMMA LinkPermFits ==
    ASSUME GuiInv, NEW owner \in Owners, NEW composition \in Compositions,
           NEW perm \in Perms, LinkPerm(owner, composition, perm)
    PROVE  GuiInv'
<1>1. permissions' = Put(permissions, <<owner, composition>>, perm)
      /\ global' = {Gstate} /\ UNCHANGED <<users, histories>>
  BY DEF LinkPerm, Store
<1>2. PermissionsFit'
  BY <1>1 DEF GuiInv, PermissionsFit, Put
<1>3. OneGlobal'
  BY <1>1, Loaded DEF GuiInv, OneGlobal
<1> QED BY <1>1, <1>2, <1>3 DEF GuiInv, UsersFit, Fits, HistoriesFit

-----------------------------------------------------------------------------
(* Every step keeps the invariant.                                         *)

LEMMA StepFits == GuiInv /\ [Next]_vars => GuiInv'
<1> SUFFICES ASSUME GuiInv, [Next]_vars PROVE GuiInv'
  OBVIOUS
<1>1. CASE UNCHANGED vars
  BY <1>1 DEF vars, GuiInv, OneGlobal, UsersFit, Fits, HistoriesFit, PermissionsFit
<1>2. ASSUME NEW id \in Ids, AddTemplateG(id) \/ AddPluginG(id) PROVE GuiInv'
  BY <1>2, GlobalActions, GlobalActionFits DEF AddTemplateG, AddPluginG
<1>3. ASSUME NEW version \in Versions, UpVersionG(version) PROVE GuiInv'
  BY <1>3, GlobalActions, GlobalActionFits DEF UpVersionG
<1>4. CASE RmPluginG \/ Sti
  <2>1. Gstate \in Global
    BY Loaded DEF GuiInv
  <2> QED BY <1>4, <2>1, GlobalActions, GlobalActionFits DEF RmPluginG, Sti
<1>5. CASE WaVersion \/ RmUsers
  BY <1>5, AllUsersFit
<1>6. ASSUME NEW guiname \in Guinames, UserNext(guiname) PROVE GuiInv'
  BY <1>6, AddUserFits, PlainActionsFit, AccountActionsFit, TemplateActionsFit,
     PluginActionsFit DEF UserNext
<1>7. ASSUME NEW owner \in Owners, NEW composition \in Compositions,
             NEW object \in Objects, NEW type, AddHistory(owner, composition, object, type)
      PROVE  GuiInv'
  BY <1>7, AddHistoryFits
<1>8. ASSUME NEW owner \in Owners, NEW composition \in Compositions,
             NEW perm \in Perms, LinkPerm(owner, composition, perm)
      PROVE  GuiInv'
  BY <1>8, LinkPermFits
<1> QED BY <1>1, <1>2, <1>3, <1>4, <1>5, <1>6, <1>7, <1>8 DEF Next

\* The tables keep their types, for any names and whatever they hash to.
THEOREM TypeCorrect == Spec => []TypeOK
BY InitFits, StepFits, InvSaysTypes, PTL DEF Spec

\* No user ever has an account, a template or a plugin twice.
THEOREM NothingIsDoubled == Spec => []NoDoubles
BY InitFits, StepFits, InvSaysTypes, PTL DEF Spec

\* rmpluginu leaves every user the other plugins as they are, in their order,
\* however many there are, although its loop assigns to what it walks.
THEOREM RemovalIsRight == Spec => []RemovalKeepsTheRest
<1>1. GuiInv => RemovalKeepsTheRest
  <2> SUFFICES ASSUME GuiInv, NEW i \in DOMAIN users, NEW id \in Ids
               PROVE  AfterRemoval(users[i].plugins, id) =
                        Kept(users[i].plugins, OtherPlugins(users[i].plugins, id))
    BY DEF RemovalKeepsTheRest
  <2>1. users[i].plugins \in Seq(Plugin)
    BY DEF GuiInv, UsersFit, Fits, User
  <2> QED BY <2>1, RemovalKeepsOthers
<1> QED BY InitFits, StepFits, <1>1, PTL DEF Spec

-----------------------------------------------------------------------------
(* What a step does to the global state and to the users.                  *)

LEMMA PrefixOfMore ==
    ASSUME NEW A, NEW s \in Seq(A)
    PROVE  IsPrefix(s, s) /\ \A x \in A : IsPrefix(s, Append(s, x))
<1>1. IsPrefix(s, s)
  BY DEF IsPrefix
<1>2. ASSUME NEW x \in A PROVE IsPrefix(s, Append(s, x))
  <2> DEFINE t == Append(s, x)
  <2>1. /\ t \in Seq(A) /\ Len(t) = Len(s) + 1 /\ Len(s) \in Nat
        /\ \A j \in 1..Len(s) : t[j] = s[j]
    OBVIOUS
  <2> HIDE DEF t
  <2>2. SubSeq(s, 1, Len(s)) = SubSeq(t, 1, Len(s))
    <3>1. /\ SubSeq(s, 1, Len(s)) \in Seq(A) /\ SubSeq(t, 1, Len(s)) \in Seq(A)
          /\ Len(SubSeq(s, 1, Len(s))) = Len(s)
          /\ Len(SubSeq(t, 1, Len(s))) = Len(s)
          /\ \A j \in 1..Len(s) : SubSeq(s, 1, Len(s))[j] = SubSeq(t, 1, Len(s))[j]
      BY <2>1
    <3> QED BY <3>1, SeqEqual
  <2> QED BY <2>1, <2>2 DEF IsPrefix, t
<1> QED BY <1>1, <1>2

\* The body of GlobalIsKept.
GlobalKept ==
    \A old \in global, new \in global' :
        /\ users' # users \/ histories' # histories \/ permissions' # permissions
             => new = old
        /\ IsPrefix(old.templates, new.templates)
        /\ IsPrefix(old.plugins, new.plugins) \/ new.plugins = <<>>
        /\ new.version # old.version =>
             new.templates = old.templates /\ new.plugins = old.plugins

\* What a step of the global state stores, beside what all others store.
GlobalSteps ==
    {[Gstate EXCEPT !.templates = Append(@, id)] : id \in Ids}
    \cup {[Gstate EXCEPT !.plugins = Append(@, id)] : id \in Ids}
    \cup {[Gstate EXCEPT !.version = version] : version \in Versions}
    \cup {[Gstate EXCEPT !.plugins = <<>>]}

LEMMA WhatIsStored ==
    ASSUME GuiInv, [Next]_vars
    PROVE  \/ \E g \in GlobalSteps : ChangeGlobal(g)
           \/ global' = {Gstate}
           \/ UNCHANGED global
<1>1. ASSUME NEW guiname, UserNext(guiname) PROVE global' = {Gstate}
  BY <1>1 DEF UserNext, AddUser, RecoverPsw, AddTwords, UpVersionU, AddAccount,
     RmAccount, AddServer, RmServer, AddTemplateU, RmTemplateU, AddPluginU,
     RmPluginU, TurnOnPlugin, TurnOfPlugin, SetActive, Modify, ChangeUsers, Store
<1>2. CASE WaVersion \/ RmUsers \/ Sti
  BY <1>2 DEF WaVersion, RmUsers, Sti, ChangeGlobal, ChangeUsers, Store
<1>3. ASSUME NEW id \in Ids, AddTemplateG(id) \/ AddPluginG(id)
      PROVE  \E g \in GlobalSteps : ChangeGlobal(g)
  <2>1. /\ [Gstate EXCEPT !.templates = Append(@, id)] \in GlobalSteps
        /\ [Gstate EXCEPT !.plugins = Append(@, id)] \in GlobalSteps
    BY DEF GlobalSteps
  <2> QED BY <1>3, <2>1 DEF AddTemplateG, AddPluginG
<1>4. ASSUME NEW version \in Versions, UpVersionG(version)
      PROVE  \E g \in GlobalSteps : ChangeGlobal(g)
  <2>1. [Gstate EXCEPT !.version = version] \in GlobalSteps
    BY DEF GlobalSteps
  <2> QED BY <1>4, <2>1 DEF UpVersionG
<1>5. CASE RmPluginG
  BY <1>5 DEF RmPluginG, GlobalSteps
<1>6. ASSUME NEW owner, NEW composition, NEW object, NEW type,
             AddHistory(owner, composition, object, type)
      PROVE  global' = {Gstate}
  BY <1>6 DEF AddHistory, Store
<1>7. ASSUME NEW owner, NEW composition, NEW perm, LinkPerm(owner, composition, perm)
      PROVE  global' = {Gstate}
  BY <1>7 DEF LinkPerm, Store
<1>8. CASE UNCHANGED vars
  BY <1>8 DEF vars
<1> QED BY <1>1, <1>2, <1>3, <1>4, <1>5, <1>6, <1>7, <1>8 DEF Next

LEMMA StepKeepsGlobal == GuiInv /\ [Next]_vars => GlobalKept
<1> SUFFICES ASSUME GuiInv, [Next]_vars, NEW old \in global, NEW new \in global'
             PROVE  /\ users' # users \/ histories' # histories
                          \/ permissions' # permissions => new = old
                    /\ IsPrefix(old.templates, new.templates)
                    /\ IsPrefix(old.plugins, new.plugins) \/ new.plugins = <<>>
                    /\ new.version # old.version =>
                         new.templates = old.templates /\ new.plugins = old.plugins
  BY DEF GlobalKept
<1>1. Gstate = old /\ old \in Global /\ global = {old}
  BY Loaded DEF GuiInv, OneGlobal
<1>2. /\ old.templates \in Seq(Ids) /\ old.plugins \in Seq(Ids)
      /\ IsPrefix(old.templates, old.templates) /\ IsPrefix(old.plugins, old.plugins)
  BY <1>1, PrefixOfMore DEF Global
<1>3. CASE global' = {Gstate} \/ UNCHANGED global
  BY <1>1, <1>2, <1>3
<1>4. ASSUME NEW g \in GlobalSteps, ChangeGlobal(g)
      PROVE  /\ UNCHANGED <<users, histories, permissions>>
             /\ IsPrefix(old.templates, g.templates)
             /\ IsPrefix(old.plugins, g.plugins) \/ g.plugins = <<>>
             /\ g.version # old.version =>
                  g.templates = old.templates /\ g.plugins = old.plugins
             /\ new = g
  <2>1. UNCHANGED <<users, histories, permissions>> /\ new = g
    BY <1>4 DEF ChangeGlobal, Store
  <2>2. CASE \E id \in Ids : g = [Gstate EXCEPT !.templates = Append(@, id)]
    BY <1>1, <1>2, <2>1, <2>2, PrefixOfMore DEF Global
  <2>3. CASE \E id \in Ids : g = [Gstate EXCEPT !.plugins = Append(@, id)]
    BY <1>1, <1>2, <2>1, <2>3, PrefixOfMore DEF Global
  <2>4. CASE \E version \in Versions : g = [Gstate EXCEPT !.version = version]
    BY <1>1, <1>2, <2>1, <2>4 DEF Global
  <2>5. CASE g = [Gstate EXCEPT !.plugins = <<>>]
    BY <1>1, <1>2, <2>1, <2>5 DEF Global
  <2> QED BY <2>2, <2>3, <2>4, <2>5 DEF GlobalSteps
<1> QED BY <1>3, <1>4, WhatIsStored

\* No action about something else changes the global state it stores again.
THEOREM GlobalStaysKept == Spec => GlobalIsKept
<1>1. GuiInv /\ [Next]_vars => [GlobalKept]_vars
  BY StepKeepsGlobal
<1> QED BY InitFits, StepFits, <1>1, PTL DEF Spec, GlobalIsKept, GlobalKept

\* The body of UsersAreKept.
UsersKept ==
    \A i \in DOMAIN users :
        \/ users' = [j \in {} |-> Default]
        \/ /\ i \in DOMAIN users'
           /\ users'[i].guiname = users[i].guiname
           /\ users[i].twords # <<>> => users'[i].twords = users[i].twords

\* A modification of any field but the name and the words keeps both.
LEMMA ModifyKeepsUsers ==
    ASSUME GuiInv, NEW guiname, NEW row, Modify(guiname, row),
           row.guiname = UserRow(guiname).guiname,
           UserRow(guiname).twords # <<>> => row.twords = UserRow(guiname).twords
    PROVE  UsersKept
BY DEF Modify, ChangeUsers, Put, UserRow, UsersKept

LEMMA StepKeepsUsers == GuiInv /\ [Next]_vars => UsersKept
<1> SUFFICES ASSUME GuiInv, [Next]_vars PROVE UsersKept
  OBVIOUS
<1>1. CASE UNCHANGED users
  BY <1>1 DEF UsersKept
<1>2. CASE RmUsers
  BY <1>2 DEF RmUsers, ChangeUsers, UsersKept
<1>3. CASE WaVersion
  <2>1. users' = [i \in DOMAIN users |-> [users[i] EXCEPT !.version = Gstate.version]]
    BY <1>3 DEF WaVersion, ChangeUsers
  <2>2. \A i \in DOMAIN users : users[i] \in User
    BY DEF GuiInv, UsersFit, Fits
  <2> QED BY <2>1, <2>2 DEF UsersKept, User
<1>4. ASSUME NEW guiname \in Guinames, UserNext(guiname) PROVE UsersKept
  <2> DEFINE r == UserRow(guiname)
  <2>1. HasUser(guiname) => r \in User
    BY Found DEF Fits
  <2>2. ASSUME NEW password, NEW version, AddUser(guiname, password, version)
        PROVE  UsersKept
    BY <2>2 DEF AddUser, HasUser, ChangeUsers, Put, UsersKept
  <2>3. ASSUME NEW twords, AddTwords(guiname, twords) PROVE UsersKept
    BY <2>1, <2>3, ModifyKeepsUsers DEF AddTwords, User
  <2>4. ASSUME NEW twords, NEW password, RecoverPsw(guiname, twords, password)
        PROVE  UsersKept
    BY <2>1, <2>4, ModifyKeepsUsers DEF RecoverPsw, User
  <2>5. CASE UpVersionU(guiname)
    BY <2>1, <2>5, ModifyKeepsUsers DEF UpVersionU, User
  <2>6. ASSUME NEW account, AddAccount(guiname, account) \/ RmAccount(guiname, account)
        PROVE  UsersKept
    BY <2>1, <2>6, ModifyKeepsUsers DEF AddAccount, RmAccount, User
  <2>7. ASSUME NEW server, AddServer(guiname, server) \/ RmServer(guiname, server)
        PROVE  UsersKept
    BY <2>1, <2>7, ModifyKeepsUsers DEF AddServer, RmServer, Modify, User
  <2>8. ASSUME NEW id, AddTemplateU(guiname, id) \/ RmTemplateU(guiname, id)
        PROVE  UsersKept
    BY <2>1, <2>8, ModifyKeepsUsers DEF AddTemplateU, RmTemplateU, User
  <2>9. ASSUME NEW id, AddPluginU(guiname, id) \/ RmPluginU(guiname, id)
        PROVE  UsersKept
    BY <2>1, <2>9, ModifyKeepsUsers DEF AddPluginU, RmPluginU, Modify, User
  <2>10. ASSUME NEW id, TurnOnPlugin(guiname, id) \/ TurnOfPlugin(guiname, id)
         PROVE  UsersKept
    BY <2>1, <2>10, ModifyKeepsUsers
       DEF TurnOnPlugin, TurnOfPlugin, SetActive, Modify, User
  <2> QED BY <1>4, <2>2, <2>3, <2>4, <2>5, <2>6, <2>7, <2>8, <2>9, <2>10 DEF UserNext
<1>5. CASE ~(UNCHANGED users) /\ ~RmUsers /\ ~WaVersion
  <2>1. \E guiname \in Guinames : UserNext(guiname)
    BY <1>5 DEF Next, vars, AddTemplateG, AddPluginG, UpVersionG, RmPluginG, Sti,
       ChangeGlobal, AddHistory, LinkPerm
  <2> QED BY <1>4, <2>1
<1> QED BY <1>1, <1>2, <1>3, <1>5

\* A row stays with the name that made it, and its words stay once set.
THEOREM UsersStayKept == Spec => UsersAreKept
<1>1. GuiInv /\ [Next]_vars => [UsersKept]_vars
  BY StepKeepsUsers
<1> QED BY InitFits, StepFits, <1>1, PTL DEF Spec, UsersAreKept, UsersKept

=============================================================================
