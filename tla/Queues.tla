------------------------------- MODULE Queues -------------------------------
(***************************************************************************)
(* Lemmas about the sequences that stand between two parts of the system:   *)
(* the commands of the engine, the events on their way to the main loop,    *)
(* the lines of a socket.  A sequence is read from its head, so that the    *)
(* last element of a kind decides what is left behind.                      *)
(*                                                                         *)
(* Then about numbers: the least one that has a property, induction for     *)
(* sets of numbers, and what a loop computes step by step.                  *)
(***************************************************************************)
EXTENDS Naturals, Sequences, WellFoundedInduction, TLAPS

-----------------------------------------------------------------------------
(* The last of its kind in a sequence: what a queue that is executed from   *)
(* its head leaves behind.                                                  *)

\* Nothing of the kind K; the last of the kind K is one of G; what holds once
\* the sequence is worked off, where P holds if it says nothing of the kind.
Free(q, K) == \A i \in 1..Len(q) : q[i] \notin K
LastIn(q, K, G) ==
    \E i \in 1..Len(q) : q[i] \in G /\ \A j \in 1..Len(q) : j > i => q[j] \notin K
Settles(q, K, G, P) == LastIn(q, K, G) \/ (Free(q, K) /\ P)
Has(q, op) == \E i \in 1..Len(q) : q[i].op = op

LEMMA FreeEmpty == ASSUME NEW K PROVE Free(<<>>, K)
BY DEF Free

LEMMA FreeIn ==
  ASSUME NEW T, NEW K, NEW s \in Seq(T), T \cap K = {}
  PROVE  Free(s, K)
BY DEF Free

LEMMA LastSingle ==
  ASSUME NEW K, NEW G, NEW a \in G
  PROVE  LastIn(<<a>>, K, G)
<1>1. Len(<<a>>) = 1 /\ <<a>>[1] = a /\ 1 \in 1..1
  OBVIOUS
<1> QED
  BY <1>1 DEF LastIn

\* What stands where in a concatenation.
LEMMA ConcatAt ==
  ASSUME NEW S, NEW s \in Seq(S), NEW t \in Seq(S)
  PROVE  /\ s \o t \in Seq(S)
         /\ Len(s \o t) = Len(s) + Len(t)
         /\ \A i \in 1..Len(s) : (s \o t)[i] = s[i]
         /\ \A i \in 1..Len(t) : (s \o t)[Len(s) + i] = t[i]
         /\ \A k \in 1..Len(s \o t) :
               k \in 1..Len(s) \/ \E i \in 1..Len(t) : k = Len(s) + i
<1>1. Len(s) \in Nat /\ Len(t) \in Nat /\ Len(s \o t) = Len(s) + Len(t)
  OBVIOUS
<1>2. ASSUME NEW k \in 1..Len(s \o t), k \notin 1..Len(s)
      PROVE  \E i \in 1..Len(t) : k = Len(s) + i
  <2>1. k - Len(s) \in 1..Len(t) /\ k = Len(s) + (k - Len(s))
    BY <1>1, <1>2
  <2> QED
    BY <2>1
<1> QED
  BY <1>1, <1>2

LEMMA FreeConcat ==
  ASSUME NEW S, NEW s \in Seq(S), NEW t \in Seq(S), NEW K, Free(s, K), Free(t, K)
  PROVE  Free(s \o t, K)
BY ConcatAt DEF Free

LEMMA LastAfter ==
  ASSUME NEW S, NEW s \in Seq(S), NEW t \in Seq(S), NEW K, NEW G, LastIn(t, K, G)
  PROVE  LastIn(s \o t, K, G)
<1>1. PICK i \in 1..Len(t) : t[i] \in G /\ \A j \in 1..Len(t) : j > i => t[j] \notin K
  BY DEF LastIn
<1>2. Len(s) + i \in 1..Len(s \o t) /\ (s \o t)[Len(s) + i] = t[i]
  OBVIOUS
<1>3. ASSUME NEW k \in 1..Len(s \o t), k > Len(s) + i PROVE (s \o t)[k] \notin K
  <2>1. k \notin 1..Len(s)
    BY <1>3
  <2>2. PICK j \in 1..Len(t) : k = Len(s) + j
    BY <2>1, ConcatAt
  <2>3. (s \o t)[k] = t[j]
    BY <2>2, ConcatAt
  <2>4. j > i
    BY <1>3, <2>2
  <2> QED
    BY <1>1, <2>3, <2>4
<1> QED
  BY <1>1, <1>2, <1>3 DEF LastIn

LEMMA LastBefore ==
  ASSUME NEW S, NEW s \in Seq(S), NEW t \in Seq(S), NEW K, NEW G,
         LastIn(s, K, G), Free(t, K)
  PROVE  LastIn(s \o t, K, G)
<1>1. PICK i \in 1..Len(s) : s[i] \in G /\ \A j \in 1..Len(s) : j > i => s[j] \notin K
  BY DEF LastIn
<1>2. i \in 1..Len(s \o t) /\ (s \o t)[i] = s[i]
  OBVIOUS
<1>3. ASSUME NEW k \in 1..Len(s \o t), k > i PROVE (s \o t)[k] \notin K
  <2>1. CASE k \in 1..Len(s)
    BY <1>1, <1>3, <2>1, ConcatAt
  <2>2. CASE \E j \in 1..Len(t) : k = Len(s) + j
    BY <2>2, ConcatAt DEF Free
  <2> QED
    BY <2>1, <2>2, ConcatAt
<1> QED
  BY <1>1, <1>2, <1>3 DEF LastIn

LEMMA HasConcat ==
  ASSUME NEW S, NEW s \in Seq(S), NEW t \in Seq(S), NEW op, Has(s, op) \/ Has(t, op)
  PROVE  Has(s \o t, op)
<1>1. CASE Has(s, op)
  <2>1. PICK i \in 1..Len(s) : s[i].op = op
    BY <1>1 DEF Has
  <2>2. i \in 1..Len(s \o t) /\ (s \o t)[i] = s[i]
    OBVIOUS
  <2> QED
    BY <2>1, <2>2 DEF Has
<1>2. CASE Has(t, op)
  <2>1. PICK i \in 1..Len(t) : t[i].op = op
    BY <1>2 DEF Has
  <2>2. Len(s) + i \in 1..Len(s \o t) /\ (s \o t)[Len(s) + i] = t[i]
    OBVIOUS
  <2> QED
    BY <2>1, <2>2 DEF Has
<1> QED
  BY <1>1, <1>2

\* The head is worked off.
LEMMA TailAt ==
  ASSUME NEW S, NEW q \in Seq(S), q # <<>>
  PROVE  /\ Head(q) \in S /\ Head(q) = q[1] /\ 1 \in 1..Len(q)
         /\ Tail(q) \in Seq(S) /\ Len(Tail(q)) = Len(q) - 1
         /\ \A i \in 1..Len(Tail(q)) : Tail(q)[i] = q[i + 1] /\ i + 1 \in 1..Len(q)
OBVIOUS

LEMMA FreeTail ==
  ASSUME NEW S, NEW q \in Seq(S), q # <<>>, NEW K, Free(q, K)
  PROVE  Head(q) \notin K /\ Free(Tail(q), K)
BY TailAt DEF Free

LEMMA LastTail ==
  ASSUME NEW S, NEW q \in Seq(S), q # <<>>, NEW K, NEW G, LastIn(q, K, G)
  PROVE  LastIn(Tail(q), K, G) \/ (Head(q) \in G /\ Free(Tail(q), K))
<1>1. PICK i \in 1..Len(q) : q[i] \in G /\ \A j \in 1..Len(q) : j > i => q[j] \notin K
  BY DEF LastIn
<1>2. CASE i = 1
  <2>1. ASSUME NEW k \in 1..Len(Tail(q)) PROVE Tail(q)[k] \notin K
    <3>1. Tail(q)[k] = q[k + 1] /\ k + 1 \in 1..Len(q) /\ k + 1 > 1
      BY TailAt
    <3> QED
      BY <1>1, <1>2, <3>1
  <2> QED
    BY <1>1, <1>2, <2>1, TailAt DEF Free
<1>3. CASE i # 1
  <2>1. i - 1 \in 1..Len(Tail(q)) /\ (i - 1) + 1 = i
    BY <1>3, TailAt
  <2>2. Tail(q)[i - 1] \in G
    BY <1>1, <2>1, TailAt
  <2>3. ASSUME NEW k \in 1..Len(Tail(q)), k > i - 1 PROVE Tail(q)[k] \notin K
    <3>1. Tail(q)[k] = q[k + 1] /\ k + 1 \in 1..Len(q) /\ k + 1 > i
      BY <2>3, TailAt
    <3> QED
      BY <1>1, <3>1
  <2> QED
    BY <2>1, <2>2, <2>3 DEF LastIn
<1> QED
  BY <1>2, <1>3

LEMMA HasTail ==
  ASSUME NEW S, NEW q \in Seq(S), q # <<>>, NEW op, Has(q, op), Head(q).op # op
  PROVE  Has(Tail(q), op)
<1>1. PICK i \in 1..Len(q) : q[i].op = op
  BY DEF Has
<1>2. i # 1
  BY <1>1, TailAt
<1>3. i - 1 \in 1..Len(Tail(q)) /\ (i - 1) + 1 = i
  BY <1>2, TailAt
<1>4. Tail(q)[i - 1] = q[i]
  BY <1>3, TailAt
<1> QED
  BY <1>1, <1>3, <1>4 DEF Has

LEMMA Assoc ==
  ASSUME NEW S, NEW s \in Seq(S), NEW t \in Seq(S), NEW u \in Seq(S)
  PROVE  (s \o t) \o u = s \o (t \o u)
OBVIOUS

LEMMA EmptyConcat ==
  ASSUME NEW S, NEW s \in Seq(S)
  PROVE  <<>> \o s = s /\ s \o <<>> = s
OBVIOUS

LEMMA EmptyTyped == \A S : <<>> \in Seq(S)
OBVIOUS

LEMMA NoLength ==
  ASSUME NEW S, NEW q \in Seq(S), Len(q) = 0
  PROVE  q = <<>>
OBVIOUS

\* An empty queue says nothing.
LEMMA EmptySays ==
  /\ \A K, G : ~LastIn(<<>>, K, G)
  /\ \A K : Free(<<>>, K)
  /\ \A op : ~Has(<<>>, op)
BY DEF LastIn, Free, Has

LEMMA FreeOfAll ==
  ASSUME NEW S, NEW s \in Seq(S), Free(s, S)
  PROVE  s = <<>>
<1>1. Len(s) \in Nat /\ \A i \in 1..Len(s) : s[i] \in S
  OBVIOUS
<1>2. Len(s) = 0
  BY <1>1 DEF Free
<1> QED
  BY <1>2, NoLength

LEMMA LastMono ==
  ASSUME NEW q, NEW K, NEW G, NEW H, G \subseteq H, LastIn(q, K, G)
  PROVE  LastIn(q, K, H)
BY DEF LastIn

LEMMA AppendTyped ==
  ASSUME NEW S, NEW s \in Seq(S), NEW a \in S
  PROVE  Append(s, a) \in Seq(S)
OBVIOUS

LEMMA TailTyped ==
  ASSUME NEW S, NEW s \in Seq(S), s # <<>>
  PROVE  Tail(s) \in Seq(S)
OBVIOUS

\* One element more, at the end, and the first one taken.
\* Channels grow at one end and shrink at the other.
LEMMA ChannelSends ==
  ASSUME NEW S, NEW s \in Seq(S), NEW a \in S, NEW K
  PROVE  /\ ~Free(s, K) \/ a \in K => ~Free(Append(s, a), K)
         /\ Free(s, K) /\ a \notin K => Free(Append(s, a), K)
         /\ \A G : a \in G \/ (LastIn(s, K, G) /\ a \notin K) => LastIn(Append(s, a), K, G)
<1> DEFINE q == Append(s, a)
           n == Len(s) + 1
<1>1. /\ Len(q) = n /\ q[n] = a /\ n \in 1..Len(q) /\ Len(s) \in Nat
      /\ \A i \in 1..Len(s) : i \in 1..Len(q) /\ q[i] = s[i]
      /\ \A i \in 1..Len(q) : i = n \/ i \in 1..Len(s)
  OBVIOUS
<1> HIDE DEF q
<1>2. ~Free(s, K) \/ a \in K => ~Free(q, K)
  BY <1>1 DEF Free
<1>3. Free(s, K) /\ a \notin K => Free(q, K)
  BY <1>1 DEF Free
<1>4. ASSUME NEW G, a \in G PROVE LastIn(q, K, G)
  <2>1. \A j \in 1..Len(q) : ~(j > n)
    BY <1>1
  <2> QED
    BY <1>1, <1>4, <2>1 DEF LastIn
<1>5. ASSUME NEW G, LastIn(s, K, G), a \notin K PROVE LastIn(q, K, G)
  <2>1. PICK i \in 1..Len(s) : s[i] \in G /\ \A j \in 1..Len(s) : j > i => s[j] \notin K
    BY <1>5 DEF LastIn
  <2>2. i \in 1..Len(q) /\ q[i] \in G
    BY <1>1, <2>1
  <2>3. \A j \in 1..Len(q) : j > i => q[j] \notin K
    BY <1>1, <1>5, <2>1
  <2> QED
    BY <2>2, <2>3 DEF LastIn
<1> QED
  BY <1>2, <1>3, <1>4, <1>5 DEF q

LEMMA ChannelTakes ==
  ASSUME NEW S, NEW s \in Seq(S), s # <<>>, NEW K, ~Free(s, K)
  PROVE  Head(s) \in K \/ ~Free(Tail(s), K)
<1>1. PICK i \in 1..Len(s) : s[i] \in K
  BY DEF Free
<1>2. CASE i = 1
  BY <1>1, <1>2, TailAt
<1>3. CASE i # 1
  <2>1. i - 1 \in 1..Len(Tail(s)) /\ (i - 1) + 1 = i
    BY <1>3, TailAt
  <2>2. Tail(s)[i - 1] = s[i]
    BY <2>1, TailAt
  <2> QED
    BY <1>1, <2>1, <2>2 DEF Free
<1> QED
  BY <1>2, <1>3

LEMMA HasOf ==
  ASSUME NEW S, NEW q \in Seq(S), q # <<>>, NEW op,
         Has(Tail(q), op) \/ Head(q).op = op
  PROVE  Has(q, op)
BY TailAt DEF Has

\* What comes first: an element of G, before any of the kind K.
FirstIn(q, K, G) ==
    \E i \in 1..Len(q) : q[i] \in G /\ \A j \in 1..Len(q) : j < i => q[j] \notin K

LEMMA FirstSends ==
  ASSUME NEW S, NEW s \in Seq(S), NEW a \in S, NEW K, NEW G,
         FirstIn(s, K, G) \/ (Free(s, K) /\ a \in G)
  PROVE  FirstIn(Append(s, a), K, G)
<1> DEFINE q == Append(s, a)
           n == Len(s) + 1
<1>1. /\ Len(q) = n /\ q[n] = a /\ n \in 1..Len(q) /\ Len(s) \in Nat
      /\ \A i \in 1..Len(s) : i \in 1..Len(q) /\ q[i] = s[i]
      /\ \A i \in 1..Len(q) : i = n \/ i \in 1..Len(s)
  OBVIOUS
<1> HIDE DEF q
<1>2. CASE FirstIn(s, K, G)
  <2>1. PICK i \in 1..Len(s) : s[i] \in G /\ \A j \in 1..Len(s) : j < i => s[j] \notin K
    BY <1>2 DEF FirstIn
  <2>2. i \in 1..Len(q) /\ q[i] \in G
    BY <1>1, <2>1
  <2>3. \A j \in 1..Len(q) : j < i => q[j] \notin K
    BY <1>1, <2>1
  <2> QED
    BY <2>2, <2>3 DEF FirstIn, q
<1>3. CASE Free(s, K) /\ a \in G
  <2>1. \A j \in 1..Len(q) : j < n => q[j] \notin K
    BY <1>1, <1>3 DEF Free
  <2> QED
    BY <1>1, <1>3, <2>1 DEF FirstIn, q
<1> QED
  BY <1>2, <1>3

LEMMA FirstTakes ==
  ASSUME NEW S, NEW s \in Seq(S), s # <<>>, NEW K, NEW G, FirstIn(s, K, G)
  PROVE  Head(s) \in G \/ (Head(s) \notin K /\ FirstIn(Tail(s), K, G))
<1>1. PICK i \in 1..Len(s) : s[i] \in G /\ \A j \in 1..Len(s) : j < i => s[j] \notin K
  BY DEF FirstIn
<1>2. CASE i = 1
  BY <1>1, <1>2, TailAt
<1>3. CASE i # 1
  <2>1. i - 1 \in 1..Len(Tail(s)) /\ (i - 1) + 1 = i
    BY <1>3, TailAt
  <2>2. Tail(s)[i - 1] \in G
    BY <1>1, <2>1, TailAt
  <2>3. ASSUME NEW j \in 1..Len(Tail(s)), j < i - 1 PROVE Tail(s)[j] \notin K
    <3>1. Tail(s)[j] = s[j + 1] /\ j + 1 \in 1..Len(s) /\ j + 1 < i
      BY <2>3, TailAt
    <3> QED
      BY <1>1, <3>1
  <2>4. Head(s) \notin K
    <3>1. 1 \in 1..Len(s) /\ 1 < i /\ Head(s) = s[1]
      BY <1>3, TailAt
    <3> QED
      BY <1>1, <3>1
  <2> QED
    BY <2>1, <2>2, <2>3, <2>4 DEF FirstIn
<1> QED
  BY <1>2, <1>3

-----------------------------------------------------------------------------
(* Numbers: the least, induction, and what a loop computes.                 *)

\* A set of numbers has a first one; bounded, a last one.
LEMMA FirstNumber ==
  ASSUME NEW T \in SUBSET Nat, T # {}
  PROVE  \E i \in T : \A j \in T : i <= j
<1> DEFINE R == {ss \in Nat \X Nat : ss[1] < ss[2]}
<1>1. OpToRel(<, Nat) = R
  BY DEF OpToRel
<1>2. IsWellFoundedOn(R, Nat)
  BY <1>1, NatLessThanWellFounded
<1>3. \A i, j \in Nat : <<j, i>> \notin R => i <= j
  OBVIOUS
<1> HIDE DEF R
<1>4. \E i \in T : \A j \in T : <<j, i>> \notin R
  BY <1>2, WFMin
<1> QED
  BY <1>3, <1>4

LEMMA LastNumber ==
  ASSUME NEW n \in Nat, NEW S \in SUBSET (1..n), S # {}
  PROVE  \E i \in S : \A j \in S : i >= j
<1> DEFINE T == {i \in 0..n : n - i \in S}
<1>1. T \in SUBSET Nat
  OBVIOUS
<1>2. \A i \in S : n - i \in T
  <2>1. \A i \in S : n - i \in 0..n /\ n - (n - i) = i
    OBVIOUS
  <2> QED
    BY <2>1
<1>3. PICK i \in T : \A j \in T : i <= j
  BY <1>1, <1>2, FirstNumber
<1>4. n - i \in S
  OBVIOUS
<1>5. \A j \in S : n - i >= j
  BY <1>2, <1>3
<1> QED
  BY <1>4, <1>5

\* Induction, over the numbers up to a bound.
LEMMA Induction ==
  ASSUME NEW n \in Nat, NEW S, 0 \in S, \A i \in 1..n : i - 1 \in S => i \in S
  PROVE  0..n \subseteq S
<1> DEFINE T == (0..n) \ S
<1>1. SUFFICES ASSUME T # {} PROVE FALSE
  OBVIOUS
<1>2. T \in SUBSET Nat
  OBVIOUS
<1>3. \E i \in T : \A j \in T : i <= j
  <2> HIDE DEF T
  <2> QED
    BY <1>1, <1>2, FirstNumber
<1>4. PICK i \in T : \A j \in T : i <= j
  BY <1>3
<1>5. i \in 1..n /\ i - 1 \in 0..n /\ ~(i <= i - 1)
  BY <1>4
<1>6. i - 1 \in S
  BY <1>4, <1>5
<1> QED
  BY <1>4, <1>5, <1>6

\* A loop of n turns, turn i of which does step[i], computes something.
Loops(g, n, c, step) == g[0] = c /\ \A i \in 1..n : g[i] = step[i][g[i - 1]]

LEMMA Recursion ==
  ASSUME NEW n \in Nat, NEW V, NEW c \in V, NEW step \in [1..n -> [V -> V]]
  PROVE  \E g \in [0..n -> V] : Loops(g, n, c, step)
<1> DEFINE Runs(m, g) == g[0] = c /\ \A i \in 1..m : g[i] = step[i][g[i - 1]]
           S == {m \in 0..n : \E g \in [0..n -> V] : Runs(m, g)}
<1>1. 0 \in S
  <2>1. /\ [i \in 0..n |-> c] \in [0..n -> V] /\ [i \in 0..n |-> c][0] = c
        /\ 0 \in 0..n /\ 1..0 = {}
    OBVIOUS
  <2> QED
    BY <2>1
<1>2. ASSUME NEW m \in 1..n, m - 1 \in S PROVE m \in S
  <2>1. PICK g \in [0..n -> V] : Runs(m - 1, g)
    BY <1>2
  <2> DEFINE h == [g EXCEPT ![m] = step[m][g[m - 1]]]
  <2>2. m - 1 \in 0..n /\ g[m - 1] \in V /\ m \in 0..n
    OBVIOUS
  <2>3. step[m][g[m - 1]] \in V
    BY <2>2
  <2>4. /\ h \in [0..n -> V] /\ h[m] = step[m][g[m - 1]]
        /\ \A i \in 0..m - 1 : h[i] = g[i]
    BY <2>2, <2>3
  <2>5. 0 \in 0..m - 1 /\ \A i \in 1..m : i - 1 \in 0..m - 1
    OBVIOUS
  <2> HIDE DEF h
  <2>6. ASSUME NEW i \in 1..m PROVE h[i] = step[i][h[i - 1]]
    <3>1. CASE i = m
      BY <2>4, <2>5, <3>1
    <3>2. CASE i # m
      <4>1. i \in 1..m - 1 /\ i \in 0..m - 1
        BY <3>2
      <4> QED
        BY <2>1, <2>4, <2>5, <4>1
    <3> QED
      BY <3>1, <3>2
  <2>7. h[0] = c
    BY <2>1, <2>4, <2>5
  <2> QED
    BY <2>2, <2>4, <2>6, <2>7
<1>3. n \in S
  <2>1. n \in 0..n
    OBVIOUS
  <2> HIDE DEF S
  <2> QED
    BY <1>1, <1>2, <2>1, Induction
<1> QED
  BY <1>3 DEF Loops
=============================================================================
