--------------------------- MODULE SetupFilesProofs ---------------------------
(***************************************************************************)
(* Proofs about SetupFiles for any executables, hooks and files: types,    *)
(* that no step of a setup loses a hook of the user's, and that what setup *)
(* reports is what happened.                                               *)
(***************************************************************************)
EXTENDS SetupFiles, SequenceTheorems, FiniteSetTheorems, WellFoundedInduction, TLAPS

-----------------------------------------------------------------------------
(* Numbers. *)

LEMMA FirstIsLeast ==
  ASSUME NEW S, S \subseteq Nat, S # {}
  PROVE  First(S) \in S /\ \A t \in S : First(S) <= t
<1> DEFINE Less == {ss \in Nat \X Nat : ss[1] < ss[2]}
<1>1. IsWellFoundedOn(Less, Nat)
  BY NatLessThanWellFounded DEF OpToRel
<1> HIDE DEF Less
<1>2. PICK s \in S : \A t \in S : ~ (<<t, s>> \in Less)
  BY <1>1, WFMin
<1>3. \A t \in S : t < s => <<t, s>> \in Less
  <2> TAKE t \in S
  <2>1. <<t, s>> \in Nat \X Nat /\ <<t, s>>[1] = t /\ <<t, s>>[2] = s
    OBVIOUS
  <2>. QED BY <2>1 DEF Less
<1>4. \A t \in S : ~ (t < s)
  BY <1>2, <1>3
<1>5. \A t \in S : s <= t
  BY <1>4
<1>. QED BY <1>5 DEF First

LEMMA LastIsGreatest ==
  ASSUME NEW n \in Nat, NEW S, S \subseteq 0..n, S # {}
  PROVE  LastOf(S) \in S /\ \A t \in S : t <= LastOf(S)
<1> DEFINE D == {n - i : i \in S}
<1>0. \A i \in S : i \in Nat /\ i <= n /\ n - i \in Nat
  OBVIOUS
<1>1. D \subseteq Nat /\ D # {}
  BY <1>0
<1> HIDE DEF D
<1>2. First(D) \in D /\ \A d \in D : First(D) <= d
  BY <1>1, FirstIsLeast
<1>3. PICK s \in S : First(D) = n - s
  BY <1>2 DEF D
<1>4. \A t \in S : n - s <= n - t
  BY <1>2, <1>3 DEF D
<1>5. \A t \in S : t <= s
  BY <1>0, <1>4
<1>. QED BY <1>5 DEF LastOf

(* Nth enumerates a set of positions. *)
LEMMA NthEnumerates ==
  ASSUME NEW b \in Nat, NEW I, I \subseteq 1..b
  PROVE  /\ Cardinality(I) \in Nat
         /\ \A n \in 1..Cardinality(I) : Nth(I, n) \in I
         /\ \A i \in I : \E n \in 1..Cardinality(I) : Nth(I, n) = i
<1> DEFINE Upto(k) == {j \in I : j <= k}
           C(k) == Cardinality(Upto(k))
<1>0. \A i \in I : i \in Nat /\ 1 <= i /\ i <= b
  OBVIOUS
<1>1. IsFiniteSet(I) /\ Cardinality(I) \in Nat
  <2>1. IsFiniteSet(1..b)
    BY FS_Interval
  <2>. QED BY <2>1, FS_Subset, FS_CardinalityType
<1>2. ASSUME NEW k \in Nat PROVE IsFiniteSet(Upto(k)) /\ C(k) \in 0..Cardinality(I)
  BY <1>1, FS_Subset, FS_CardinalityType
<1>3. ASSUME NEW k \in I PROVE C(k) = C(k - 1) + 1
  <2>1. k \in Nat /\ k - 1 \in Nat
    BY <1>0
  <2>0. ~ (k <= k - 1) /\ \A j \in I : j <= k <=> j <= k - 1 \/ j = k
    BY <1>0
  <2>2. Upto(k) = Upto(k - 1) \cup {k} /\ k \notin Upto(k - 1)
    <3>1. \A j : j \in Upto(k) <=> j \in Upto(k - 1) \cup {k}
      BY <2>0
    <3>. QED BY <2>0, <3>1
  <2>3. IsFiniteSet(Upto(k - 1))
    BY <1>2, <2>1
  <2>. QED BY <2>2, <2>3, FS_AddElement
<1>4. ASSUME NEW k \in Nat \ I, k > 0 PROVE C(k) = C(k - 1)
  <2>0. \A j \in I : j <= k <=> j <= k - 1
    BY <1>0
  <2>1. Upto(k) = Upto(k - 1)
    BY <2>0
  <2>. QED BY <2>1
<1>5. ASSUME NEW i \in Nat, NEW k \in Nat, i <= k PROVE C(i) <= C(k)
  <2>0. \A j \in I : j <= i => j <= k
    BY <1>0, <1>5
  <2>1. Upto(i) \subseteq Upto(k)
    BY <2>0
  <2>. QED BY <2>1, <1>2, FS_Subset
<1>6. C(0) = 0
  <2>0. \A j \in I : ~ (j <= 0)
    BY <1>0
  <2>1. Upto(0) = {}
    BY <2>0
  <2>. QED BY <2>1, FS_EmptySet
<1>7. C(b) = Cardinality(I)
  <2>1. Upto(b) = I
    BY <1>0
  <2>. QED BY <2>1
<1> HIDE DEF C, Upto
<1>8. ASSUME NEW i \in I, NEW k \in I, C(i) = C(k) PROVE i = k
  <2>1. ASSUME NEW x \in I, NEW y \in I, x < y PROVE C(x) < C(y)
    <3>1. x \in Nat /\ y \in Nat /\ y - 1 \in Nat /\ x <= y - 1
      BY <1>0, <2>1
    <3>2. C(x) <= C(y - 1) /\ C(y) = C(y - 1) + 1
      BY <3>1, <1>5, <1>3
    <3>3. C(x) \in Nat /\ C(y - 1) \in Nat
      BY <3>1, <1>2
    <3>. QED BY <3>2, <3>3
  <2>2. C(i) \in Nat /\ C(k) \in Nat /\ i \in Nat /\ k \in Nat
    BY <1>0, <1>2
  <2>. QED BY <2>1, <2>2, <1>8
<1>9. ASSUME NEW n \in 1..Cardinality(I) PROVE \E i \in I : C(i) = n
  <2> DEFINE K == {k \in Nat : C(k) >= n}
  <2>1. b \in K
    BY <1>1, <1>7
  <2> DEFINE k == First(K)
  <2>2. k \in K /\ \A x \in K : k <= x
    BY <2>1, FirstIsLeast
  <2> HIDE DEF k
  <2>3. k \in Nat /\ C(k) >= n
    BY <2>2
  <2>4. k # 0
    BY <2>3, <1>6
  <2>5. k - 1 \in Nat /\ k - 1 \notin K
    BY <2>2, <2>3, <2>4
  <2>6. C(k - 1) < n
    BY <2>5, <1>2, <1>1
  <2>7. k \in I
    <3>1. C(k) # C(k - 1)
      BY <2>3, <2>5, <2>6, <1>1, <1>2
    <3>2. k > 0
      BY <2>3, <2>4
    <3>. QED BY <2>3, <3>1, <3>2, <1>4
  <2>8. C(k) = n
    BY <2>3, <2>6, <2>7, <1>3, <1>2, <2>5, <1>1
  <2>. QED BY <2>7, <2>8
<1>10. ASSUME NEW n \in 1..Cardinality(I) PROVE Nth(I, n) \in I /\ C(Nth(I, n)) = n
  <2>1. Nth(I, n) = CHOOSE i \in I : C(i) = n
    BY DEF Nth, C, Upto
  <2>. QED BY <2>1, <1>9
<1>11. ASSUME NEW i \in I PROVE \E n \in 1..Cardinality(I) : Nth(I, n) = i
  <2>1. C(i) \in 1..Cardinality(I)
    BY <1>0, <1>1, <1>2, <1>3
  <2>2. Nth(I, C(i)) \in I /\ C(Nth(I, C(i))) = C(i)
    BY <2>1, <1>10
  <2>. QED BY <2>1, <2>2, <1>8
<1>. QED BY <1>1, <1>10, <1>11

-----------------------------------------------------------------------------
(* Hooks. *)

UsersIn(a, S) == {h \in S : Lasting(a, h)}
Users(a, hs) == UsersIn(a, HooksOf(hs))

LEMMA SeqOfOne == ASSUME NEW S, NEW e \in S PROVE <<e>> \in Seq(S)
  OBVIOUS

LEMMA ConcatParts ==
  ASSUME NEW S, NEW s \in Seq(S), NEW t \in Seq(S)
  PROVE  /\ s \o t \in Seq(S) /\ Len(s \o t) = Len(s) + Len(t)
         /\ \A i \in 1..Len(s) : i \in DOMAIN (s \o t) /\ (s \o t)[i] = s[i]
         /\ \A i \in 1..Len(t) : Len(s) + i \in DOMAIN (s \o t) /\ (s \o t)[Len(s) + i] = t[i]
<1>1. s \o t \in Seq(S) /\ Len(s \o t) = Len(s) + Len(t)
  BY ConcatProperties
<1>2. ASSUME NEW i \in 1..Len(s) PROVE i \in DOMAIN (s \o t) /\ (s \o t)[i] = s[i]
  <2>1. i \in 1..(Len(s) + Len(t)) /\ i <= Len(s)
    OBVIOUS
  <2>. QED BY <1>1, <2>1, ConcatProperties
<1>3. ASSUME NEW i \in 1..Len(t)
      PROVE  Len(s) + i \in DOMAIN (s \o t) /\ (s \o t)[Len(s) + i] = t[i]
  <2>1. Len(s) + i \in 1..(Len(s) + Len(t)) /\ ~ (Len(s) + i <= Len(s)) /\ (Len(s) + i) - Len(s) = i
    OBVIOUS
  <2>. QED BY <1>1, <2>1, ConcatProperties
<1>. QED BY <1>1, <1>2, <1>3

LEMMA OursInside ==
  ASSUME NEW hs \in Seq(Hooks), Ours(hs) # {}
  PROVE  First(Ours(hs)) \in 1..Len(hs) /\ IsOurs(hs[First(Ours(hs))])
<1>1. Ours(hs) \subseteq Nat
  BY DEF Ours
<1>2. First(Ours(hs)) \in Ours(hs)
  BY <1>1, FirstIsLeast
<1>. QED BY <1>2 DEF Ours

LEMMA DropHooks ==
  ASSUME NEW hs \in Seq(Hooks), NEW i \in 1..Len(hs)
  PROVE  /\ Drop(hs, i) \in Seq(Hooks)
         /\ \A j \in 1..Len(hs) : j # i => hs[j] \in HooksOf(Drop(hs, i))
         /\ HooksOf(Drop(hs, i)) \subseteq HooksOf(hs)
<1> DEFINE a == SubSeq(hs, 1, i - 1)
           b == SubSeq(hs, i + 1, Len(hs))
<1>1. a \in Seq(Hooks) /\ Len(a) = i - 1 /\ \A j \in 1..(i - 1) : a[j] = hs[j]
  BY SubSeqProperties
<1>2. /\ b \in Seq(Hooks) /\ Len(b) = Len(hs) - i
      /\ \A j \in 1..(Len(hs) - i) : b[j] = hs[i + j]
  BY SubSeqProperties
<1> HIDE DEF a, b
<1>3. /\ a \o b \in Seq(Hooks) /\ Len(a \o b) = Len(hs) - 1
      /\ \A j \in 1..(i - 1) : j \in DOMAIN (a \o b) /\ (a \o b)[j] = a[j]
      /\ \A j \in 1..(Len(hs) - i) :
           (i - 1) + j \in DOMAIN (a \o b) /\ (a \o b)[(i - 1) + j] = b[j]
  <2>0. a \in Seq(Hooks) /\ b \in Seq(Hooks)
    BY <1>1, <1>2
  <2>1. /\ a \o b \in Seq(Hooks) /\ Len(a \o b) = Len(a) + Len(b)
        /\ \A j \in 1..Len(a) : j \in DOMAIN (a \o b) /\ (a \o b)[j] = a[j]
        /\ \A j \in 1..Len(b) : Len(a) + j \in DOMAIN (a \o b) /\ (a \o b)[Len(a) + j] = b[j]
    BY <2>0, ConcatParts
  <2>. QED BY <1>1, <1>2, <2>1
<1>4. ASSUME NEW j \in 1..Len(hs), j # i PROVE \E k \in DOMAIN (a \o b) : (a \o b)[k] = hs[j]
  <2>1. CASE j < i
    BY <1>1, <1>3, <2>1
  <2>2. CASE j > i
    <3>1. j - i \in 1..(Len(hs) - i) /\ i + (j - i) = j
      BY <2>2
    <3>2. b[j - i] = hs[j]
      BY <1>2, <3>1
    <3>3. (i - 1) + (j - i) \in DOMAIN (a \o b) /\ (a \o b)[(i - 1) + (j - i)] = b[j - i]
      BY <1>3, <3>1
    <3>. QED BY <3>2, <3>3
  <2>. QED BY <1>4, <2>1, <2>2
<1>5. Drop(hs, i) = a \o b
  BY DEF Drop, a, b
<1>6. ASSUME NEW k \in DOMAIN (a \o b) PROVE \E j \in 1..Len(hs) : (a \o b)[k] = hs[j]
  <2>0. k \in 1..(Len(hs) - 1)
    BY <1>3
  <2>1. CASE k < i
    <3>1. k \in 1..(i - 1) /\ k \in 1..Len(hs)
      BY <2>0, <2>1
    <3>. QED BY <1>1, <1>3, <3>1
  <2>2. CASE ~ (k < i)
    <3>1. /\ k - (i - 1) \in 1..(Len(hs) - i) /\ (i - 1) + (k - (i - 1)) = k
          /\ i + (k - (i - 1)) \in 1..Len(hs)
      BY <2>0, <2>2
    <3>. QED BY <1>2, <1>3, <3>1
  <2>. QED BY <2>1, <2>2
<1> DEFINE d == a \o b
<1>7. HooksOf(d) \subseteq HooksOf(hs)
  <2>1. \A k \in DOMAIN d : \E j \in 1..Len(hs) : d[k] = hs[j]
    BY <1>6
  <2>2. DOMAIN hs = 1..Len(hs)
    OBVIOUS
  <2> HIDE DEF d
  <2>. QED BY <2>1, <2>2 DEF HooksOf
<1>8. \A j \in 1..Len(hs) : j # i => hs[j] \in HooksOf(d)
  <2>1. \A j \in 1..Len(hs) : j # i => \E k \in DOMAIN d : d[k] = hs[j]
    BY <1>4
  <2> HIDE DEF d
  <2>. QED BY <2>1 DEF HooksOf
<1>. QED BY <1>3, <1>5, <1>7, <1>8

LEMMA NewHooksKeepUsers ==
  ASSUME NEW a \in Agents, NEW hs \in Seq(Hooks), NEW e \in Exes, NEW remove \in BOOLEAN
  PROVE  /\ NewHooks(a, hs, e, remove) \in Seq(Hooks)
         /\ Users(a, hs) \subseteq Users(a, NewHooks(a, hs, e, remove))
         /\ HooksOf(NewHooks(a, hs, e, remove)) \subseteq HooksOf(hs) \cup {Entry(a, e)}
<1>0. Entry(a, e) \in Hooks
  BY DEF Entry, Hooks
<1>1. CASE Ours(hs) = {} /\ remove
  BY <1>1 DEF NewHooks
<1>2. CASE Ours(hs) = {} /\ ~remove
  <2> DEFINE new == Append(hs, Entry(a, e))
  <2>1. /\ new \in Seq(Hooks) /\ Len(new) = Len(hs) + 1 /\ \A i \in 1..Len(hs) : new[i] = hs[i]
        /\ new[Len(hs) + 1] = Entry(a, e)
    BY <1>0, AppendProperties
  <2>2. NewHooks(a, hs, e, remove) = new
    BY <1>2 DEF NewHooks
  <2> HIDE DEF new
  <2>3. HooksOf(hs) \subseteq HooksOf(new)
    BY <2>1 DEF HooksOf
  <2>4. HooksOf(new) \subseteq HooksOf(hs) \cup {Entry(a, e)}
    <3>1. \A i \in DOMAIN new : i \in 1..Len(hs) \/ i = Len(hs) + 1
      BY <2>1
    <3>. QED BY <2>1, <3>1 DEF HooksOf
  <2>. QED BY <2>1, <2>2, <2>3, <2>4 DEF Users, UsersIn
<1>3. CASE Ours(hs) # {} /\ remove
  <2> DEFINE i == First(Ours(hs))
  <2>1. i \in 1..Len(hs) /\ IsOurs(hs[i])
    BY <1>3, OursInside
  <2>2. NewHooks(a, hs, e, remove) = Drop(hs, i)
    BY <1>3 DEF NewHooks
  <2> HIDE DEF i
  <2>3. /\ Drop(hs, i) \in Seq(Hooks) /\ \A j \in 1..Len(hs) : j # i => hs[j] \in HooksOf(Drop(hs, i))
        /\ HooksOf(Drop(hs, i)) \subseteq HooksOf(hs)
    BY <2>1, DropHooks
  <2>4. Users(a, hs) \subseteq Users(a, Drop(hs, i))
    BY <2>1, <2>3 DEF Users, UsersIn, Lasting, HooksOf
  <2>. QED BY <2>2, <2>3, <2>4
<1>4. CASE Ours(hs) # {} /\ ~remove
  <2> DEFINE i == First(Ours(hs))
             new == [hs EXCEPT ![i] = Entry(a, e)]
  <2>1. i \in 1..Len(hs) /\ IsOurs(hs[i])
    BY <1>4, OursInside
  <2>2. NewHooks(a, hs, e, remove) = new
    BY <1>4 DEF NewHooks
  <2> HIDE DEF i
  <2>3. /\ new \in Seq(Hooks) /\ Len(new) = Len(hs) /\ new[i] = Entry(a, e)
        /\ \A j \in 1..Len(hs) : j # i => new[j] = hs[j]
    BY <1>0, <2>1, ExceptSeq
  <2> HIDE DEF new
  <2>4. Users(a, hs) \subseteq Users(a, new)
    BY <2>1, <2>3 DEF Users, UsersIn, Lasting, HooksOf
  <2>5. HooksOf(new) \subseteq HooksOf(hs) \cup {Entry(a, e)}
    BY <2>1, <2>3 DEF HooksOf
  <2>. QED BY <2>2, <2>3, <2>4, <2>5
<1>. QED BY <1>1, <1>2, <1>3, <1>4

(* What a setup writes is read back as it is, if what it read was.         *)
Clean(a, hs) == \A h \in HooksOf(hs) : ReadBack(a, h)

LEMMA NewHooksClean ==
  ASSUME NEW a \in Agents, NEW hs \in Seq(Hooks), Clean(a, hs),
         NEW e \in Exes, NEW remove \in BOOLEAN
  PROVE  Clean(a, NewHooks(a, hs, e, remove))
<1>1. ReadBack(a, Entry(a, e))
  <2>1. Entry(a, e).cmd = e /\ e \notin UserCommands
    BY SetupConstantsOK DEF Entry
  <2>2. Escaped[a] \subseteq UserCommands /\ Literal \subseteq UserCommands
    BY SetupConstantsOK
  <2>. QED BY <2>1, <2>2 DEF ReadBack, Basic
<1>. QED BY <1>1, NewHooksKeepUsers DEF Clean

LEMMA DecodedType ==
  ASSUME NEW a \in Agents, NEW hs \in Seq(Hooks)
  PROVE  /\ Decoded(a, hs) \in Seq(Hooks)
         /\ \A h \in HooksOf(Decoded(a, hs)) : h.cmd \notin Escaped[a]
         /\ (\A h \in HooksOf(hs) : Basic(h)) => \A h \in HooksOf(Decoded(a, hs)) : Basic(h)
         /\ Users(a, hs) \subseteq Users(a, Decoded(a, hs))
         /\ Clean(a, hs) => Decoded(a, hs) = hs
<1> DEFINE d == Decoded(a, hs)
<1>0. Garbled \in UserCommands /\ Garbled \notin Literal /\ Garbled \notin Escaped[a]
  <2>1. Escaped[a] \in {Escaped[b] : b \in Agents}
    OBVIOUS
  <2>2. \A x : x \in Escaped[a] => x \in UNION {Escaped[b] : b \in Agents}
    BY <2>1
  <2>. QED BY <2>2, SetupConstantsOK
<1>1. DOMAIN d = DOMAIN hs /\ DOMAIN hs = 1..Len(hs) /\ Len(hs) \in Nat
  BY DEF Decoded
<1>2. ASSUME NEW i \in DOMAIN hs
      PROVE  /\ d[i] \in Hooks /\ d[i].cmd \notin Escaped[a]
             /\ Basic(hs[i]) => Basic(d[i])
             /\ hs[i].cmd \notin Escaped[a] => d[i] = hs[i]
  <2>0. hs[i] \in Hooks
    OBVIOUS
  <2>1. CASE hs[i].cmd \in Escaped[a]
    <3>1. d[i] = [hs[i] EXCEPT !.cmd = Garbled]
      BY <2>1 DEF Decoded
    <3>2. d[i] \in Hooks /\ d[i].cmd = Garbled
      BY <1>0, <2>0, <3>1 DEF Hooks
    <3>. QED BY <1>0, <2>1, <3>2 DEF Basic
  <2>2. CASE hs[i].cmd \notin Escaped[a]
    <3>1. d[i] = hs[i]
      BY <2>2 DEF Decoded
    <3>. QED BY <2>0, <2>2, <3>1
  <2>. QED BY <2>1, <2>2
<1>5. ASSUME Clean(a, hs) PROVE d = hs
  <2>1. \A i \in DOMAIN hs : hs[i].cmd \notin Escaped[a]
    BY <1>5 DEF Clean, ReadBack, HooksOf
  <2>2. d = [i \in DOMAIN hs |-> hs[i]]
    BY <2>1 DEF Decoded
  <2>. QED BY <2>2
<1> HIDE DEF d
<1>3. d \in Seq(Hooks)
  <2>1. d \in [1..Len(hs) -> Hooks]
    <3>1. d = [i \in DOMAIN hs |-> d[i]]
      BY DEF Decoded, d
    <3>. QED BY <1>1, <1>2, <3>1
  <2>. QED BY <1>1, <2>1
<1>4. Users(a, hs) \subseteq Users(a, d)
  <2>1. \A h \in Users(a, hs) : \E i \in DOMAIN hs : h = hs[i] /\ h.cmd \notin Escaped[a] /\ Lasting(a, h)
    BY DEF Users, UsersIn, Lasting, ReadBack, HooksOf
  <2>. QED BY <1>1, <1>2, <2>1 DEF Users, UsersIn, HooksOf
<1>6. \A h \in HooksOf(d) : \E i \in DOMAIN hs : h = d[i]
  BY <1>1 DEF HooksOf
<1>7. (\A h \in HooksOf(hs) : Basic(h)) => \A i \in DOMAIN hs : Basic(hs[i])
  BY DEF HooksOf
<1>. QED BY <1>2, <1>3, <1>4, <1>5, <1>6, <1>7 DEF d

-----------------------------------------------------------------------------
(* Lines. *)

LEMMA LineIsLine ==
  ASSUME NEW k \in Kinds, NEW hs \in Seq(Hooks)
  PROVE  Line(k, hs) \in Lines /\ Line(k, hs).kind = k /\ Line(k, hs).hooks = hs
  BY DEF Line, Lines

LEMMA BlockParts ==
  ASSUME NEW hs \in Seq(Hooks)
  PROVE  /\ Block(hs) \in Seq(Lines) /\ Len(Block(hs)) = Len(hs) + 2
         /\ Block(hs)[1] = Line("open", <<>>)
         /\ \A i \in 1..Len(hs) : Block(hs)[1 + i] = Line("item", <<hs[i]>>)
         /\ Block(hs)[Len(hs) + 2] = Line("close", <<>>)
<1> DEFINE o == <<Line("open", <<>>)>>
           m == [i \in DOMAIN hs |-> Line("item", <<hs[i]>>)]
           c == <<Line("close", <<>>)>>
<1>1. \A i \in 1..Len(hs) : <<hs[i]>> \in Seq(Hooks)
  BY SeqOfOne, ElementOfSeq
<1>2. /\ Line("open", <<>>) \in Lines /\ Line("close", <<>>) \in Lines
      /\ \A i \in 1..Len(hs) : Line("item", <<hs[i]>>) \in Lines
  <2>1. <<>> \in Seq(Hooks) /\ {"open", "close", "item"} \subseteq Kinds
    BY DEF Kinds
  <2>. QED BY <1>1, <2>1, LineIsLine
<1>3. o \in Seq(Lines) /\ Len(o) = 1 /\ o[1] = Line("open", <<>>)
  BY <1>2, SeqOfOne
<1>4. c \in Seq(Lines) /\ Len(c) = 1 /\ c[1] = Line("close", <<>>)
  BY <1>2, SeqOfOne
<1>5. m \in Seq(Lines) /\ Len(m) = Len(hs) /\ \A i \in 1..Len(hs) : m[i] = Line("item", <<hs[i]>>)
  <2>1. \A i \in DOMAIN hs : Line("item", <<hs[i]>>) \in Lines
    BY <1>2
  <2>2. DOMAIN hs = 1..Len(hs) /\ Len(hs) \in Nat
    OBVIOUS
  <2> HIDE DEF o, c
  <2>3. m \in [1..Len(hs) -> Lines]
    BY <2>1, <2>2
  <2>. QED BY <2>2, <2>3
<1>6. Block(hs) = o \o m \o c
  BY DEF Block
<1> HIDE DEF o, m, c
<1>7. /\ o \o m \in Seq(Lines) /\ Len(o \o m) = Len(o) + Len(m)
      /\ \A i \in 1..Len(o) : i \in DOMAIN (o \o m) /\ (o \o m)[i] = o[i]
      /\ \A i \in 1..Len(m) : Len(o) + i \in DOMAIN (o \o m) /\ (o \o m)[Len(o) + i] = m[i]
  <2>1. o \in Seq(Lines) /\ m \in Seq(Lines)
    BY <1>3, <1>5
  <2>. QED BY <2>1, ConcatParts
<1> DEFINE om == o \o m
<1>8. /\ om \in Seq(Lines) /\ Len(om) = Len(hs) + 1
      /\ om[1] = Line("open", <<>>)
      /\ \A i \in 1..Len(hs) : om[1 + i] = Line("item", <<hs[i]>>)
  BY <1>3, <1>5, <1>7
<1> HIDE DEF om
<1>9. /\ om \o c \in Seq(Lines) /\ Len(om \o c) = Len(om) + Len(c)
      /\ \A i \in 1..Len(om) : i \in DOMAIN (om \o c) /\ (om \o c)[i] = om[i]
      /\ \A i \in 1..Len(c) : Len(om) + i \in DOMAIN (om \o c) /\ (om \o c)[Len(om) + i] = c[i]
  <2>1. om \in Seq(Lines) /\ c \in Seq(Lines)
    BY <1>4, <1>8
  <2>. QED BY <2>1, ConcatParts
<1>10. Block(hs) = om \o c
  BY <1>6 DEF om
<1>11. Len(hs) \in Nat /\ 1 \in 1..(Len(hs) + 1) /\ \A i \in 1..Len(hs) : 1 + i \in 1..(Len(hs) + 1)
  OBVIOUS
<1>12. Block(hs)[Len(hs) + 2] = Line("close", <<>>)
  <2>1. Len(om) + 1 = Len(hs) + 2 /\ 1 \in 1..Len(c)
    BY <1>4, <1>8, <1>11
  <2>. QED BY <1>4, <1>9, <1>10, <2>1
<1>13. Block(hs) \in Seq(Lines) /\ Len(Block(hs)) = Len(hs) + 2
  BY <1>4, <1>8, <1>9, <1>10, <1>11
<1>14. /\ Block(hs)[1] = Line("open", <<>>)
       /\ \A i \in 1..Len(hs) : Block(hs)[1 + i] = Line("item", <<hs[i]>>)
  BY <1>8, <1>9, <1>10, <1>11
<1>. QED BY <1>12, <1>13, <1>14

LEMMA SpliceParts ==
  ASSUME NEW ls \in Seq(Lines), NEW p \in 0..Len(ls), NEW q \in p..Len(ls), NEW hs \in Seq(Hooks)
  PROVE  LET r == Splice(ls, p, q, hs)
             n == Len(hs) + 2
         IN /\ r \in Seq(Lines) /\ Len(r) = p + n + (Len(ls) - q)
            /\ \A i \in 1..p : r[i] = ls[i]
            /\ \A i \in 1..n : r[p + i] = Block(hs)[i]
            /\ \A i \in 1..(Len(ls) - q) : r[p + n + i] = ls[q + i]
<1> DEFINE a == SubSeq(ls, 1, p)
           b == Block(hs)
           c == SubSeq(ls, q + 1, Len(ls))
           ab == a \o b
           n == Len(hs) + 2
<1>1. a \in Seq(Lines) /\ Len(a) = p /\ \A i \in 1..p : a[i] = ls[i]
  BY SubSeqProperties
<1>2. c \in Seq(Lines) /\ Len(c) = Len(ls) - q /\ \A i \in 1..(Len(ls) - q) : c[i] = ls[q + i]
  BY SubSeqProperties
<1>3. b \in Seq(Lines) /\ Len(b) = n
  BY BlockParts
<1>4. Splice(ls, p, q, hs) = ab \o c
  BY DEF Splice
<1> HIDE DEF a, b, c
<1>5. /\ ab \in Seq(Lines) /\ Len(ab) = Len(a) + Len(b)
      /\ \A i \in 1..Len(a) : i \in DOMAIN ab /\ ab[i] = a[i]
      /\ \A i \in 1..Len(b) : Len(a) + i \in DOMAIN ab /\ ab[Len(a) + i] = b[i]
  <2>1. a \in Seq(Lines) /\ b \in Seq(Lines)
    BY <1>1, <1>3
  <2>. QED BY <2>1, ConcatParts, SMTT(60)
<1> HIDE DEF ab
<1>6. /\ ab \o c \in Seq(Lines) /\ Len(ab \o c) = Len(ab) + Len(c)
      /\ \A i \in 1..Len(ab) : i \in DOMAIN (ab \o c) /\ (ab \o c)[i] = ab[i]
      /\ \A i \in 1..Len(c) : Len(ab) + i \in DOMAIN (ab \o c) /\ (ab \o c)[Len(ab) + i] = c[i]
  <2>1. ab \in Seq(Lines) /\ c \in Seq(Lines)
    BY <1>2, <1>5
  <2>. QED BY <2>1, ConcatParts, SMTT(30)
<1> DEFINE r == ab \o c
<1> HIDE DEF r
<1>7. n \in Nat /\ Len(ab) = p + n
  BY <1>1, <1>3, <1>5
<1>8. r \in Seq(Lines) /\ Len(r) = p + n + (Len(ls) - q)
  BY <1>2, <1>6, <1>7 DEF r
<1>9. \A i \in 1..p : r[i] = ls[i]
  <2>1. \A i \in 1..p : i \in 1..Len(ab)
    BY <1>7
  <2>. QED BY <1>1, <1>5, <1>6, <2>1 DEF r
<1>10. \A i \in 1..n : r[p + i] = b[i]
  <2>1. \A i \in 1..n : p + i \in 1..Len(ab)
    BY <1>7
  <2>2. \A i \in 1..n : ab[p + i] = b[i]
    BY <1>1, <1>3, <1>5
  <2>. QED BY <1>6, <2>1, <2>2 DEF r
<1>11. \A i \in 1..(Len(ls) - q) : r[p + n + i] = ls[q + i]
  BY <1>2, <1>6, <1>7 DEF r
<1>. QED BY <1>4, <1>8, <1>9, <1>10, <1>11 DEF r, b

(* Which line of the old file or of the block a line of the new one is. *)
Origin(ls, p, q, n, i, k) ==
  \/ i \in 1..p /\ k = i
  \/ i \in (p + n + 1)..(p + n + (Len(ls) - q)) /\ k = q + (i - (p + n))

LEMMA SpliceOrigins ==
  ASSUME NEW ls \in Seq(Lines), NEW p \in 0..Len(ls), NEW q \in p..Len(ls), NEW hs \in Seq(Hooks),
         NEW i \in DOMAIN Splice(ls, p, q, hs)
  PROVE  LET r == Splice(ls, p, q, hs)
             n == Len(hs) + 2
         IN \/ \E k \in DOMAIN ls : Origin(ls, p, q, n, i, k) /\ r[i] = ls[k]
            \/ \E k \in 1..n : i = p + k /\ r[i] = Block(hs)[k]
<1> DEFINE r == Splice(ls, p, q, hs)
           n == Len(hs) + 2
<1>1. /\ r \in Seq(Lines) /\ Len(r) = p + n + (Len(ls) - q)
      /\ \A j \in 1..p : r[j] = ls[j]
      /\ \A j \in 1..n : r[p + j] = Block(hs)[j]
      /\ \A j \in 1..(Len(ls) - q) : r[p + n + j] = ls[q + j]
  BY SpliceParts
<1>2. i \in 1..(p + n + (Len(ls) - q)) /\ n \in Nat
  <2>1. i \in DOMAIN r
    OBVIOUS
  <2> HIDE DEF r
  <2>. QED BY <1>1, <2>1
<1> HIDE DEF r, n
<1>3. CASE i <= p
  <2>1. i \in 1..p /\ i \in DOMAIN ls
    BY <1>2, <1>3
  <2>. QED BY <1>1, <2>1 DEF Origin, r, n
<1>4. CASE p < i /\ i <= p + n
  <2>1. i - p \in 1..n /\ p + (i - p) = i
    BY <1>2, <1>4
  <2>2. r[p + (i - p)] = Block(hs)[i - p]
    BY <1>1, <2>1
  <2>. QED BY <2>1, <2>2 DEF r, n
<1>5. CASE p + n < i
  <2> DEFINE j == i - (p + n)
  <2>1. /\ j \in 1..(Len(ls) - q) /\ p + n + j = i /\ q + j \in DOMAIN ls
        /\ i \in (p + n + 1)..(p + n + (Len(ls) - q))
    BY <1>2, <1>5
  <2>2. r[p + n + j] = ls[q + j]
    BY <1>1, <2>1
  <2>. QED BY <2>1, <2>2 DEF Origin, r, n
<1>. QED BY <1>2, <1>3, <1>4, <1>5

(* A block holds the hooks it is made of, one on each line. *)
LEMMA BlockLines ==
  ASSUME NEW hs \in Seq(Hooks), NEW k \in 1..(Len(hs) + 2)
  PROVE  /\ Block(hs)[k].kind \in {"open", "item", "close"}
         /\ Block(hs)[k].kind = "item" => Len(Block(hs)[k].hooks) <= 1
         /\ Block(hs)[k].kind # "item" => Block(hs)[k].hooks = <<>>
         /\ Block(hs)[Len(hs) + 2].kind = "close"
<1>1. CASE k = 1
  BY <1>1, BlockParts DEF Line
<1>2. CASE k = Len(hs) + 2
  BY <1>2, BlockParts DEF Line
<1>3. CASE k # 1 /\ k # Len(hs) + 2
  <2>1. k - 1 \in 1..Len(hs) /\ 1 + (k - 1) = k
    BY <1>3
  <2>2. Block(hs)[k] = Line("item", <<hs[k - 1]>>)
    BY <2>1, BlockParts
  <2>3. Line("item", <<hs[k - 1]>>).kind = "item" /\ Len(Line("item", <<hs[k - 1]>>).hooks) = 1
    BY DEF Line
  <2>4. Block(hs)[Len(hs) + 2].kind = "close"
    BY BlockParts DEF Line
  <2>5. Block(hs)[k].kind = "item" /\ Len(Block(hs)[k].hooks) = 1
    BY <2>2, <2>3
  <2>6. Len(Block(hs)[k].hooks) <= 1
    BY <2>5
  <2>. QED BY <2>4, <2>5, <2>6
<1>. QED BY <1>1, <1>2, <1>3

(* Where the lines after the replaced ones go: i and j are the places of k  *)
(* and l, and c is between these.                                           *)
Shifted(p, n, q, m, i, j, k, l, c) ==
  /\ p \in Nat /\ n \in Nat /\ q \in Nat /\ m \in Nat
  /\ i \in Nat /\ j \in Nat /\ k \in Nat /\ l \in Nat /\ c \in Int
  /\ k = q + (i - (p + n)) /\ l = q + (j - (p + n))
  /\ i >= p + n + 1 /\ j <= p + n + (m - q)
  /\ c >= k + 1 /\ c <= l - 1

LEMMA LineBetween ==
  ASSUME NEW p, NEW n, NEW q, NEW m, NEW i, NEW j, NEW k, NEW l, NEW c,
         Shifted(p, n, q, m, i, j, k, l, c)
  PROVE  /\ c - q \in 1..(m - q) /\ q + (c - q) = c
         /\ p + n + (c - q) \in (i + 1)..(j - 1)
  BY DEF Shifted

LEMMA LineAfter ==
  ASSUME NEW p \in Nat, NEW n \in Nat, NEW q \in Nat, NEW m \in Nat, NEW i \in Nat,
         q < i, i <= m
  PROVE  /\ i - q \in 1..(m - q) /\ q + (i - q) = i
         /\ p + n + (i - q) \in 1..(p + n + (m - q))
  OBVIOUS

LEMMA SplicePlain ==
  ASSUME NEW ls \in Seq(Lines), NEW p \in 0..Len(ls), NEW q \in p..Len(ls), NEW hs \in Seq(Hooks),
         Plain(ls)
  PROVE  Splice(ls, p, q, hs) \in Seq(Lines) /\ Plain(Splice(ls, p, q, hs))
<1> DEFINE r == Splice(ls, p, q, hs)
           n == Len(hs) + 2
<1>1. /\ r \in Seq(Lines) /\ Len(r) = p + n + (Len(ls) - q)
      /\ \A j \in 1..p : r[j] = ls[j]
      /\ \A j \in 1..n : r[p + j] = Block(hs)[j]
      /\ \A j \in 1..(Len(ls) - q) : r[p + n + j] = ls[q + j]
  BY SpliceParts
<1>2. ASSUME NEW i \in DOMAIN r
      PROVE  \/ \E k \in DOMAIN ls : Origin(ls, p, q, n, i, k) /\ r[i] = ls[k]
             \/ \E k \in 1..n : i = p + k /\ r[i] = Block(hs)[k]
  BY SpliceOrigins
<1>3. \A k \in 1..n : /\ Block(hs)[k].kind \in {"open", "item", "close"}
                      /\ Block(hs)[k].kind = "item" => Len(Block(hs)[k].hooks) <= 1
                      /\ Block(hs)[k].kind # "item" => Block(hs)[k].hooks = <<>>
                      /\ Block(hs)[n].kind = "close"
  <2> TAKE k \in 1..n
  <2>. QED BY BlockLines
<1>4. n \in Nat /\ n >= 1 /\ p \in Nat /\ q \in Nat /\ Len(ls) \in Nat
  OBVIOUS
<1> HIDE DEF r, n
<1>5. ASSUME NEW i \in DOMAIN r
      PROVE  /\ r[i].kind \in {"item", "last"} => Len(r[i].hooks) <= 1
             /\ r[i].kind \notin {"item", "last", "array", "string"} => r[i].hooks = <<>>
  <2>1. CASE \E k \in DOMAIN ls : r[i] = ls[k]
    BY <2>1 DEF Plain
  <2>2. CASE \E k \in 1..n : r[i] = Block(hs)[k]
    BY <1>3, <2>2
  <2>. QED BY <1>2, <2>1, <2>2
<1>6. ASSUME NEW i \in DOMAIN r, NEW j \in DOMAIN r,
             i < j, r[i].kind = "open", r[j].kind \in {"array", "string"}
      PROVE  \E k \in (i + 1)..(j - 1) : r[k].kind = "close"
  <2>0. i \in Nat /\ j \in Nat /\ DOMAIN r = 1..(p + n + (Len(ls) - q))
    BY <1>1
  <2>1. PICK l \in DOMAIN ls : Origin(ls, p, q, n, j, l) /\ r[j] = ls[l]
    BY <1>2, <1>3, <1>6
  <2>2. CASE \E k \in 1..n : i = p + k /\ r[i] = Block(hs)[k]
    <3>1. PICK k \in 1..n : i = p + k /\ r[i] = Block(hs)[k]
      BY <2>2
    <3>2. k # n /\ n \in 1..n
      BY <1>3, <1>4, <1>6, <3>1
    <3>3. j > p + n
      BY <1>4, <1>6, <2>0, <2>1, <3>1 DEF Origin
    <3>4. p + n \in (i + 1)..(j - 1)
      BY <1>4, <2>0, <3>1, <3>2, <3>3
    <3>. QED BY <1>1, <1>3, <3>2, <3>4
  <2>3. CASE \E k \in DOMAIN ls : Origin(ls, p, q, n, i, k) /\ r[i] = ls[k]
    <3>1. PICK k \in DOMAIN ls : Origin(ls, p, q, n, i, k) /\ r[i] = ls[k]
      BY <2>3
    <3>2. k < l
      BY <1>4, <1>6, <2>0, <2>1, <3>1 DEF Origin
    <3>3. PICK c \in (k + 1)..(l - 1) : ls[c].kind = "close"
      BY <1>6, <2>1, <3>1, <3>2 DEF Plain
    <3>4. CASE j \in 1..p
      <4>1. l = j /\ i \in 1..p /\ k = i
        BY <1>4, <1>6, <2>0, <2>1, <3>1, <3>4 DEF Origin
      <4>2. c \in 1..p /\ c \in (i + 1)..(j - 1)
        BY <1>4, <2>0, <3>3, <3>4, <4>1
      <4>. QED BY <1>1, <3>3, <4>2
    <3>5. CASE j \notin 1..p /\ i \in 1..p
      <4>1. p + n \in (i + 1)..(j - 1) /\ n \in 1..n
        BY <1>4, <2>0, <2>1, <3>5, SMTT(30) DEF Origin
      <4>2. r[p + n] = Block(hs)[n] /\ Block(hs)[n].kind = "close"
        BY <1>1, <1>3, <4>1
      <4>. QED BY <4>1, <4>2
    <3>6. CASE j \notin 1..p /\ i \notin 1..p
      <4>1. /\ k = q + (i - (p + n)) /\ l = q + (j - (p + n))
            /\ i \in (p + n + 1)..(p + n + (Len(ls) - q)) /\ j \in (p + n + 1)..(p + n + (Len(ls) - q))
        BY <2>1, <3>1, <3>6 DEF Origin
      <4>2. /\ c - q \in 1..(Len(ls) - q) /\ q + (c - q) = c
            /\ p + n + (c - q) \in (i + 1)..(j - 1)
        <5>1. i >= p + n + 1 /\ j <= p + n + (Len(ls) - q)
          BY <4>1
        <5>2. k \in Nat /\ l \in Nat /\ c \in Int /\ c >= k + 1 /\ c <= l - 1
          BY <3>3
        <5>3. Shifted(p, n, q, Len(ls), i, j, k, l, c)
          BY <1>4, <2>0, <4>1, <5>1, <5>2 DEF Shifted
        <5>. QED BY <5>3, LineBetween
      <4>3. r[p + n + (c - q)] = ls[q + (c - q)]
        BY <1>1, <4>2
      <4>. QED BY <3>3, <4>2, <4>3
    <3>. QED BY <3>4, <3>5, <3>6
  <2>. QED BY <1>2, <2>2, <2>3
<1>7. Plain(r)
  BY <1>5, <1>6 DEF Plain
<1>. QED BY <1>1, <1>7 DEF r

LEMMA EveryLine ==
  ASSUME NEW ls \in Seq(Lines)
  PROVE  /\ \A i \in DOMAIN ls : HooksOf(ls[i].hooks) \subseteq Everything("codex", ls)
         /\ \A h \in Everything("codex", ls) : \E i \in DOMAIN ls : h \in HooksOf(ls[i].hooks)
<1>1. Everything("codex", ls) = UNION {HooksOf(l.hooks) : l \in HooksOf(ls)}
  BY DEF Everything
<1>2. \A i \in DOMAIN ls : ls[i] \in HooksOf(ls)
  BY DEF HooksOf
<1>3. \A l \in HooksOf(ls) : \E i \in DOMAIN ls : l = ls[i]
  BY DEF HooksOf
<1>. QED BY <1>1, <1>2, <1>3, ZenonT(30)

LEMMA BlockHooks ==
  ASSUME NEW hs \in Seq(Hooks), NEW h \in HooksOf(hs)
  PROVE  \E k \in 1..(Len(hs) + 2) : h \in HooksOf(Block(hs)[k].hooks)
<1>1. PICK i \in 1..Len(hs) : h = hs[i]
  BY DEF HooksOf
<1>2. 1 + i \in 1..(Len(hs) + 2) /\ Block(hs)[1 + i] = Line("item", <<hs[i]>>)
  BY BlockParts
<1>3. h \in HooksOf(Line("item", <<hs[i]>>).hooks)
  BY <1>1 DEF Line, HooksOf
<1>. QED BY <1>2, <1>3

LEMMA SpliceKeeps ==
  ASSUME NEW ls \in Seq(Lines), NEW p \in 0..Len(ls), NEW q \in p..Len(ls), NEW hs \in Seq(Hooks)
  PROVE  LET new == Everything("codex", Splice(ls, p, q, hs))
         IN /\ HooksOf(hs) \subseteq new
            /\ \A i \in DOMAIN ls : i <= p \/ q < i => HooksOf(ls[i].hooks) \subseteq new
<1> DEFINE r == Splice(ls, p, q, hs)
           n == Len(hs) + 2
           new == Everything("codex", r)
<1>1. /\ r \in Seq(Lines) /\ Len(r) = p + n + (Len(ls) - q)
      /\ \A j \in 1..p : r[j] = ls[j]
      /\ \A j \in 1..n : r[p + j] = Block(hs)[j]
      /\ \A j \in 1..(Len(ls) - q) : r[p + n + j] = ls[q + j]
  BY SpliceParts
<1> HIDE DEF r
<1>2. \A i \in DOMAIN r : HooksOf(r[i].hooks) \subseteq new
  BY <1>1, EveryLine
<1> HIDE DEF new
<1>3. n \in Nat /\ DOMAIN r = 1..(p + n + (Len(ls) - q))
  BY <1>1
<1>4. ASSUME NEW h \in HooksOf(hs) PROVE h \in new
  <2>1. PICK k \in 1..n : h \in HooksOf(Block(hs)[k].hooks)
    BY BlockHooks
  <2>2. p + k \in DOMAIN r /\ r[p + k] = Block(hs)[k]
    BY <1>1, <1>3
  <2>. QED BY <1>2, <2>1, <2>2
<1>5. ASSUME NEW i \in DOMAIN ls, i <= p PROVE HooksOf(ls[i].hooks) \subseteq new
  <2>1. i \in 1..p /\ i \in DOMAIN r
    BY <1>3, <1>5
  <2>. QED BY <1>1, <1>2, <2>1
<1>6. ASSUME NEW i \in DOMAIN ls, q < i PROVE HooksOf(ls[i].hooks) \subseteq new
  <2>0. i \in Nat /\ i <= Len(ls) /\ Len(ls) \in Nat /\ p \in Nat /\ q \in Nat
    OBVIOUS
  <2>1. i - q \in 1..(Len(ls) - q) /\ q + (i - q) = i /\ p + n + (i - q) \in DOMAIN r
    BY <1>3, <1>6, <2>0, LineAfter
  <2>2. r[p + n + (i - q)] = ls[i]
    BY <1>1, <2>1
  <2>. QED BY <1>2, <2>1, <2>2
<1>. QED BY <1>4, <1>5, <1>6 DEF new, r

(* Where the value that is replaced lies. *)
LEMMA ValueInside ==
  ASSUME NEW ls \in Seq(Lines), HasValue(ls)
  PROVE  LET s == First(Starts(ls))
             e == First(Ends(ls, s))
         IN /\ s \in 1..Len(ls) /\ e \in s..Len(ls)
            /\ ls[s].kind # "open" => e = s
            /\ ls[s].kind = "open" =>
                 s < e /\ ls[e].kind = "close" /\ \A k \in (s + 1)..(e - 1) : ls[k].kind # "close"
<1> DEFINE s == First(Starts(ls))
           E == Ends(ls, s)
           e == First(E)
<1>1. Starts(ls) \subseteq 1..Len(ls) /\ Starts(ls) # {} /\ E # {}
  BY DEF HasValue, Starts
<1>2. s \in Starts(ls)
  BY <1>1, FirstIsLeast
<1>3. s \in 1..Len(ls)
  BY <1>1, <1>2
<1> HIDE DEF s
<1>4. E \subseteq 1..Len(ls)
  BY <1>3 DEF Ends
<1>5. e \in E /\ \A k \in E : e <= k
  BY <1>1, <1>4, FirstIsLeast
<1> HIDE DEF E, e
<1>6. CASE ls[s].kind # "open"
  <2>1. \A i \in E : i = s
    BY <1>6 DEF Ends, E
  <2>. QED BY <1>3, <1>5, <1>6, <2>1 DEF s, e, E
<1>7. CASE ls[s].kind = "open"
  <2>1. E = {i \in 1..Len(ls) : s < i /\ ls[i].kind = "close"}
    BY <1>7 DEF Ends, E
  <2>2. e \in 1..Len(ls) /\ s < e /\ ls[e].kind = "close"
    BY <1>5, <2>1
  <2>3. ASSUME NEW k \in (s + 1)..(e - 1) PROVE ls[k].kind # "close"
    <3>1. k \in 1..Len(ls) /\ s < k /\ ~ (e <= k)
      BY <1>3, <2>2
    <3>. QED BY <1>5, <2>1, <3>1
  <2>. QED BY <1>3, <1>7, <2>2, <2>3 DEF s, e, E
<1>. QED BY <1>6, <1>7

LEMMA StringsType ==
  ASSUME NEW hs \in Seq(Hooks)
  PROVE  /\ Strings(hs) \in Seq(Hooks)
         /\ \A h : h \in HooksOf(Strings(hs)) <=> h \in HooksOf(hs) /\ Basic(h)
<1> DEFINE B == {i \in DOMAIN hs : Basic(hs[i])}
           v == [n \in 1..Cardinality(B) |-> hs[Nth(B, n)]]
<1>1. Strings(hs) = v
  BY DEF Strings
<1>2. B \subseteq 1..Len(hs) /\ Len(hs) \in Nat
  OBVIOUS
<1>3. \A i : i \in B <=> i \in DOMAIN hs /\ Basic(hs[i])
  OBVIOUS
<1> HIDE DEF B
<1>4. /\ Cardinality(B) \in Nat
      /\ \A n \in 1..Cardinality(B) : Nth(B, n) \in B
      /\ \A i \in B : \E n \in 1..Cardinality(B) : Nth(B, n) = i
  BY <1>2, NthEnumerates
<1>5. \A i \in B : hs[i] \in Hooks
  BY <1>2
<1>6. v \in [1..Cardinality(B) -> Hooks]
  BY <1>4, <1>5
<1>7. v \in Seq(Hooks)
  BY <1>4, <1>6
<1>8. ASSUME NEW h \in HooksOf(v) PROVE h \in HooksOf(hs) /\ Basic(h)
  <2>1. PICK n \in 1..Cardinality(B) : h = hs[Nth(B, n)]
    BY DEF HooksOf
  <2>. QED BY <1>3, <1>4, <2>1 DEF HooksOf
<1>9. ASSUME NEW h \in HooksOf(hs), Basic(h) PROVE h \in HooksOf(v)
  <2>1. PICK i \in B : h = hs[i]
    BY <1>3, <1>9 DEF HooksOf
  <2>2. PICK n \in 1..Cardinality(B) : Nth(B, n) = i
    BY <1>4, <2>1
  <2>3. n \in DOMAIN v /\ v[n] = h
    BY <2>1, <2>2
  <2>. QED BY <2>3 DEF HooksOf
<1>. QED BY <1>1, <1>7, <1>8, <1>9

LEMMA ValuesType ==
  ASSUME NEW ls \in Seq(Lines)
  PROVE  Values(ls) \in Seq(Hooks) /\ \A h \in HooksOf(Values(ls)) : Basic(h)
<1> DEFINE s == First(Starts(ls))
           e == First(Ends(ls, s))
           I == Items(ls, s, e)
           v == [n \in 1..Cardinality(I) |-> ls[Nth(I, n)].hooks[1]]
<1>1. CASE ~HasValue(ls)
  BY <1>1 DEF Values, HooksOf
<1>2. CASE HasValue(ls)
  <2>1. s \in 1..Len(ls) /\ e \in s..Len(ls)
    BY <1>2, ValueInside
  <2>2. CASE ls[s].kind # "open"
    <3>1. Values(ls) = Strings(ls[s].hooks)
      BY <1>2, <2>2 DEF Values
    <3> HIDE DEF s
    <3>2. ls[s] \in Lines
      BY <2>1
    <3>3. ls[s].hooks \in Seq(Hooks)
      BY <3>2 DEF Lines
    <3>. QED BY <3>1, <3>3, StringsType
  <2>3. CASE ls[s].kind = "open"
    <3>1. Values(ls) = v
      BY <1>2, <2>3 DEF Values
    <3> HIDE DEF s, e
    <3>2. I \subseteq 1..Len(ls)
      BY <2>1 DEF Items
    <3>3. Cardinality(I) \in Nat /\ \A n \in 1..Cardinality(I) : Nth(I, n) \in I
      BY <3>2, NthEnumerates
    <3>4. ASSUME NEW i \in I PROVE ls[i].hooks[1] \in Hooks /\ Basic(ls[i].hooks[1])
      <4>1. ls[i] \in Lines /\ ls[i].hooks # <<>> /\ Basic(ls[i].hooks[1])
        BY <3>2 DEF Items
      <4>2. ls[i].hooks \in Seq(Hooks)
        BY <4>1 DEF Lines
      <4>. QED BY <4>1, <4>2
    <3> HIDE DEF I
    <3>5. v \in [1..Cardinality(I) -> Hooks]
      BY <3>3, <3>4
    <3>6. \A h \in HooksOf(v) : Basic(h)
      <4>1. \A n \in 1..Cardinality(I) : Basic(v[n])
        BY <3>3, <3>4
      <4>. QED BY <3>5, <4>1 DEF HooksOf
    <3>7. v \in Seq(Hooks)
      BY <3>3, <3>5
    <3>. QED BY <3>1, <3>6, <3>7
  <2>. QED BY <2>2, <2>3
<1>. QED BY <1>1, <1>2

LEMMA OneHook ==
  ASSUME NEW hs \in Seq(Hooks), hs # <<>>, Len(hs) <= 1
  PROVE  HooksOf(hs) = {hs[1]}
<1> DEFINE n == Len(hs)
<1>1. n \in Nat \ {0}
  BY EmptySeq
<1> HIDE DEF n
<1>2. n <= 1
  BY DEF n
<1>3. n = 1
  BY <1>1, <1>2
<1>. QED BY <1>3 DEF HooksOf, n

(* Of a plain file the parser sees every hook in double quotes of the      *)
(* lines it replaces.                                                      *)
LEMMA ValuesCover ==
  ASSUME NEW ls \in Seq(Lines), Plain(ls), HasValue(ls),
         NEW i \in First(Starts(ls))..First(Ends(ls, First(Starts(ls))))
  PROVE  \A h \in HooksOf(ls[i].hooks) : Basic(h) => h \in HooksOf(Values(ls))
<1> DEFINE s == First(Starts(ls))
           e == First(Ends(ls, s))
           I == Items(ls, s, e)
           v == [n \in 1..Cardinality(I) |-> ls[Nth(I, n)].hooks[1]]
<1>1. s \in 1..Len(ls) /\ e \in s..Len(ls)
  BY ValueInside
<1>2. CASE ls[s].kind # "open"
  <2>1. e = s
    BY <1>2, ValueInside
  <2>2. Values(ls) = Strings(ls[s].hooks)
    BY <1>2 DEF Values
  <2>3. i \in s..e
    OBVIOUS
  <2> HIDE DEF s, e
  <2>4. i = s /\ ls[s] \in Lines
    BY <1>1, <2>1, <2>3
  <2>5. ls[s].hooks \in Seq(Hooks)
    BY <2>4 DEF Lines
  <2>. QED BY <2>2, <2>4, <2>5, StringsType
<1>3. CASE ls[s].kind = "open"
  <2>1. s < e /\ ls[e].kind = "close" /\ \A k \in (s + 1)..(e - 1) : ls[k].kind # "close"
    BY <1>3, ValueInside
  <2>2. Values(ls) = v
    BY <1>3 DEF Values
  <2>3. i \in s..e
    OBVIOUS
  <2>4. I = {k \in (s + 1)..(e - 1) : ls[k].kind \in {"item", "last"} /\ ls[k].hooks # <<>> /\ Basic(ls[k].hooks[1])}
    BY DEF Items
  <2> HIDE DEF s, e, I
  <2>5. i \in 1..Len(ls)
    BY <1>1, <2>3
  <2>6. ls[i].hooks \in Seq(Hooks) /\ ls[i].kind \in Kinds
    <3>1. ls[i] \in Lines
      BY <2>5
    <3>. QED BY <3>1 DEF Lines
  <2>7. CASE ls[i].hooks = <<>>
    BY <2>7 DEF HooksOf
  <2>8. CASE ls[i].hooks # <<>>
    <3>0. i \in DOMAIN ls
      BY <2>5
    <3>1. ls[i].kind \in {"item", "last", "array", "string"}
      BY <2>8, <3>0 DEF Plain
    <3>2. i \in (s + 1)..(e - 1)
      <4>1. i # s /\ i # e
        BY <1>3, <2>1, <3>1
      <4>. QED BY <1>1, <2>3, <4>1
    <3>3. ls[i].kind \in {"item", "last"}
      <4>1. ASSUME ls[i].kind \in {"array", "string"} PROVE FALSE
        <5>1. s < i /\ s \in DOMAIN ls /\ i \in DOMAIN ls
          BY <1>1, <2>5, <3>2
        <5>2. PICK k \in (s + 1)..(i - 1) : ls[k].kind = "close"
          BY <1>3, <4>1, <5>1 DEF Plain
        <5>3. k \in (s + 1)..(e - 1)
          BY <1>1, <3>2, <5>2
        <5>. QED BY <2>1, <5>2, <5>3
      <4>. QED BY <3>1, <4>1
    <3>4. ASSUME Basic(ls[i].hooks[1]) PROVE ls[i].hooks[1] \in HooksOf(Values(ls))
      <4>1. i \in I
        BY <2>4, <2>8, <3>2, <3>3, <3>4
      <4>2. I \subseteq 1..Len(ls) /\ Len(ls) \in Nat
        BY <1>1, <2>4
      <4>3. PICK n \in 1..Cardinality(I) : Nth(I, n) = i
        <5>1. \A k \in I : \E n \in 1..Cardinality(I) : Nth(I, n) = k
          BY <4>2, NthEnumerates
        <5>. QED BY <4>1, <5>1
      <4>4. n \in DOMAIN v /\ v[n] = ls[i].hooks[1]
        <5>1. v[n] = ls[Nth(I, n)].hooks[1]
          OBVIOUS
        <5>. QED BY <4>3, <5>1
      <4> HIDE DEF v
      <4>. QED BY <2>2, <4>4 DEF HooksOf
    <3>8. Len(ls[i].hooks) <= 1
      BY <3>0, <3>3 DEF Plain
    <3>9. HooksOf(ls[i].hooks) = {ls[i].hooks[1]}
      BY <2>6, <2>8, <3>8, OneHook
    <3>. QED BY <3>4, <3>9
  <2>. QED BY <2>7, <2>8
<1>. QED BY <1>2, <1>3

LEMMA AppendHeader ==
  ASSUME NEW ls \in Seq(Lines), Plain(ls)
  PROVE  LET l == Append(ls, Line("hooks", <<>>))
         IN /\ l \in Seq(Lines) /\ Plain(l) /\ Len(l) = Len(ls) + 1
            /\ \A i \in DOMAIN ls : i \in DOMAIN l /\ l[i] = ls[i]
<1> DEFINE x == Line("hooks", <<>>)
           l == Append(ls, x)
<1>1. x \in Lines /\ x.kind = "hooks" /\ x.hooks = <<>>
  <2>1. <<>> \in Seq(Hooks) /\ "hooks" \in Kinds
    BY DEF Kinds
  <2>. QED BY <2>1, LineIsLine
<1> HIDE DEF x
<1>2. /\ l \in Seq(Lines) /\ Len(l) = Len(ls) + 1
      /\ \A i \in 1..Len(ls) : l[i] = ls[i]
      /\ l[Len(ls) + 1] = x
  BY <1>1, AppendProperties
<1> HIDE DEF l
<1>3. \A i \in DOMAIN l : i \in 1..Len(ls) \/ l[i] = x
  BY <1>2
<1>4. ASSUME NEW i \in DOMAIN l
      PROVE  /\ l[i].kind \in {"item", "last"} => Len(l[i].hooks) <= 1
             /\ l[i].kind \notin {"item", "last", "array", "string"} => l[i].hooks = <<>>
  <2>1. CASE l[i] = x
    BY <1>1, <2>1
  <2>2. CASE i \in 1..Len(ls)
    <3>1. l[i] = ls[i] /\ i \in DOMAIN ls
      BY <1>2, <2>2
    <3>. QED BY <3>1 DEF Plain
  <2>. QED BY <1>3, <2>1, <2>2
<1>5. ASSUME NEW i \in DOMAIN l, NEW j \in DOMAIN l,
             i < j, l[i].kind = "open", l[j].kind \in {"array", "string"}
      PROVE  \E k \in (i + 1)..(j - 1) : l[k].kind = "close"
  <2>1. i \in DOMAIN ls /\ j \in DOMAIN ls /\ l[i] = ls[i] /\ l[j] = ls[j]
    BY <1>1, <1>2, <1>3, <1>5
  <2>2. PICK k \in (i + 1)..(j - 1) : ls[k].kind = "close"
    BY <1>5, <2>1 DEF Plain
  <2>3. k \in 1..Len(ls)
    BY <2>1, <2>2
  <2>. QED BY <1>2, <2>2, <2>3
<1>6. Plain(l)
  BY <1>4, <1>5 DEF Plain
<1>. QED BY <1>2, <1>6 DEF l, x

LEMMA RebuiltKeeps ==
  ASSUME NEW ls \in Seq(Lines), Plain(ls),
         NEW hs \in Seq(Hooks), Users("codex", Values(ls)) \subseteq Users("codex", hs)
  PROVE  /\ Rebuilt(ls, hs) \in Seq(Lines) /\ Plain(Rebuilt(ls, hs))
         /\ UsersIn("codex", Everything("codex", ls)) \subseteq UsersIn("codex", Everything("codex", Rebuilt(ls, hs)))
<1> DEFINE s == First(Starts(ls))
           e == First(Ends(ls, s))
           h == LastOf(Headers(ls))
           l == Append(ls, Line("hooks", <<>>))
           r == Rebuilt(ls, hs)
<1>1. CASE HasValue(ls)
  <2>1. s \in 1..Len(ls) /\ e \in s..Len(ls)
    BY <1>1, ValueInside
  <2>2. r = Splice(ls, s - 1, e, hs)
    BY <1>1 DEF Rebuilt
  <2>3. \A i \in s..e : \A x \in HooksOf(ls[i].hooks) : Basic(x) => x \in HooksOf(Values(ls))
    BY <1>1, ValuesCover
  <2> HIDE DEF s, e, r
  <2>4. s - 1 \in 0..Len(ls) /\ e \in (s - 1)..Len(ls)
    BY <2>1
  <2>5. r \in Seq(Lines) /\ Plain(r)
    BY <2>2, <2>4, SplicePlain
  <2>6. /\ HooksOf(hs) \subseteq Everything("codex", r)
        /\ \A i \in DOMAIN ls : i <= s - 1 \/ e < i => HooksOf(ls[i].hooks) \subseteq Everything("codex", r)
    BY <2>2, <2>4, SpliceKeeps
  <2>7. ASSUME NEW x \in Everything("codex", ls), Lasting("codex", x) PROVE x \in Everything("codex", r)
    <3>1. PICK i \in DOMAIN ls : x \in HooksOf(ls[i].hooks)
      BY EveryLine
    <3>2. CASE i \in s..e
      <4>1. x \in Users("codex", Values(ls))
        BY <2>3, <2>7, <3>1, <3>2 DEF Users, UsersIn, Lasting, ReadBack
      <4>2. x \in HooksOf(hs)
        BY <4>1 DEF Users, UsersIn
      <4>. QED BY <2>6, <4>2
    <3>3. CASE i \notin s..e
      <4>1. i <= s - 1 \/ e < i
        BY <2>1, <3>3
      <4>. QED BY <2>6, <3>1, <4>1
    <3>. QED BY <3>2, <3>3
  <2>. QED BY <2>5, <2>7 DEF UsersIn, r
<1>2. CASE ~HasValue(ls) /\ Headers(ls) # {}
  <2>1. Headers(ls) \subseteq 0..Len(ls) /\ Headers(ls) \subseteq 1..Len(ls)
    BY DEF Headers
  <2>2. h \in 0..Len(ls)
    BY <1>2, <2>1, LastIsGreatest
  <2>3. r = Splice(ls, h, h, hs)
    BY <1>2 DEF Rebuilt
  <2> HIDE DEF h, r
  <2>4. h \in h..Len(ls)
    BY <2>2
  <2>5. r \in Seq(Lines) /\ Plain(r)
    BY <2>2, <2>3, <2>4, SplicePlain
  <2>6. \A i \in DOMAIN ls : i <= h \/ h < i => HooksOf(ls[i].hooks) \subseteq Everything("codex", r)
    BY <2>2, <2>3, <2>4, SpliceKeeps
  <2>7. \A i \in DOMAIN ls : i <= h \/ h < i
    BY <2>2
  <2>8. Everything("codex", ls) \subseteq Everything("codex", r)
    BY <2>6, <2>7, EveryLine
  <2>. QED BY <2>5, <2>8 DEF UsersIn, r
<1>3. CASE ~HasValue(ls) /\ Headers(ls) = {}
  <2>1. /\ l \in Seq(Lines) /\ Plain(l) /\ Len(l) = Len(ls) + 1
        /\ \A i \in DOMAIN ls : i \in DOMAIN l /\ l[i] = ls[i]
    BY AppendHeader
  <2>2. r = Splice(l, Len(ls) + 1, Len(ls) + 1, hs)
    BY <1>3 DEF Rebuilt
  <2> HIDE DEF l, r
  <2> DEFINE n == Len(ls) + 1
  <2>3. n \in 0..Len(l) /\ n \in n..Len(l) /\ r = Splice(l, n, n, hs)
    BY <2>1, <2>2
  <2> HIDE DEF n
  <2>5. r \in Seq(Lines) /\ Plain(r)
    BY <2>1, <2>3, SplicePlain
  <2>6. \A i \in DOMAIN l : i <= n \/ n < i => HooksOf(l[i].hooks) \subseteq Everything("codex", r)
    BY <2>1, <2>3, SpliceKeeps
  <2>7. \A i \in DOMAIN l : i <= n \/ n < i
    BY <2>1, <2>3
  <2>8. Everything("codex", ls) \subseteq Everything("codex", r)
    <3>1. ASSUME NEW x \in Everything("codex", ls) PROVE x \in Everything("codex", r)
      <4>1. PICK i \in DOMAIN ls : x \in HooksOf(ls[i].hooks)
        BY EveryLine
      <4>2. i \in DOMAIN l /\ l[i] = ls[i]
        BY <2>1
      <4>. QED BY <2>6, <2>7, <4>1, <4>2
    <3>. QED BY <3>1
  <2>. QED BY <2>5, <2>8 DEF UsersIn, r
<1>. QED BY <1>1, <1>2, <1>3

LEMMA RebuiltType ==
  ASSUME NEW ls \in Seq(Lines), NEW hs \in Seq(Hooks)
  PROVE  Rebuilt(ls, hs) \in Seq(Lines)
<1> DEFINE s == First(Starts(ls))
           e == First(Ends(ls, s))
           h == LastOf(Headers(ls))
           l == Append(ls, Line("hooks", <<>>))
           r == Rebuilt(ls, hs)
<1>1. CASE HasValue(ls)
  <2>1. s \in 1..Len(ls) /\ e \in s..Len(ls)
    BY <1>1, ValueInside
  <2>2. r = Splice(ls, s - 1, e, hs)
    BY <1>1 DEF Rebuilt
  <2> HIDE DEF s, e, r
  <2>3. s - 1 \in 0..Len(ls) /\ e \in (s - 1)..Len(ls)
    BY <2>1
  <2>4. r \in Seq(Lines)
    BY <2>2, <2>3, SpliceParts
  <2>. QED BY <2>4 DEF r
<1>2. CASE ~HasValue(ls) /\ Headers(ls) # {}
  <2>1. Headers(ls) \subseteq 0..Len(ls)
    BY DEF Headers
  <2>2. h \in 0..Len(ls)
    BY <1>2, <2>1, LastIsGreatest
  <2>3. r = Splice(ls, h, h, hs)
    BY <1>2 DEF Rebuilt
  <2> HIDE DEF h, r
  <2>4. h \in h..Len(ls)
    BY <2>2
  <2>5. r \in Seq(Lines)
    BY <2>2, <2>3, <2>4, SpliceParts
  <2>. QED BY <2>5 DEF r
<1>3. CASE ~HasValue(ls) /\ Headers(ls) = {}
  <2>1. Line("hooks", <<>>) \in Lines
    <3>1. <<>> \in Seq(Hooks) /\ "hooks" \in Kinds
      BY DEF Kinds
    <3>. QED BY <3>1, LineIsLine
  <2>2. l \in Seq(Lines) /\ Len(l) = Len(ls) + 1
    BY <2>1, AppendProperties
  <2>3. r = Splice(l, Len(ls) + 1, Len(ls) + 1, hs)
    BY <1>3 DEF Rebuilt
  <2> HIDE DEF l, r
  <2> DEFINE n == Len(ls) + 1
  <2>4. n \in 0..Len(l) /\ n \in n..Len(l) /\ r = Splice(l, n, n, hs)
    BY <2>2, <2>3
  <2> HIDE DEF n
  <2>5. r \in Seq(Lines)
    BY <2>2, <2>4, SpliceParts
  <2>. QED BY <2>5 DEF r
<1>. QED BY <1>1, <1>2, <1>3

-----------------------------------------------------------------------------
(* What a file is read as, and what is planned for it. *)

LEMMA HooksInClean ==
  ASSUME NEW a \in Agents, NEW c \in Contents(a)
  PROVE  HooksIn(a, c) \in Seq(Hooks) /\ Clean(a, HooksIn(a, c))
<1>1. CASE a = "claude"
  <2>1. HooksIn(a, c) = Decoded(a, c) /\ c \in Seq(Hooks)
    BY <1>1 DEF HooksIn, Contents
  <2>2. a # "codex"
    BY <1>1
  <2>. QED BY <2>1, <2>2, DecodedType DEF Clean, ReadBack
<1>2. CASE a = "codex"
  <2>1. HooksIn(a, c) = Decoded(a, Values(c)) /\ c \in Seq(Lines)
    BY <1>2 DEF HooksIn, Contents
  <2>. QED BY <2>1, ValuesType, DecodedType DEF Clean, ReadBack
<1>. QED BY <1>1, <1>2 DEF Agents

LEMMA TextType ==
  ASSUME NEW a \in Agents, config[a] \in Contents(a) \cup {NoFile}
  PROVE  TextOf(config[a]) \in Contents(a)
<1>1. <<>> \in Seq(Hooks) /\ <<>> \in Seq(Lines)
  OBVIOUS
<1>. QED BY <1>1 DEF TextOf, Contents

LEMMA SeenType ==
  ASSUME NEW a \in Agents, config[a] \in Contents(a) \cup {NoFile}, NEW c \in Seen(a)
  PROVE  c \in Contents(a)
<1> DEFINE text == TextOf(config[a])
<1>1. text \in Contents(a)
  BY TextType
<1>2. CASE c = text
  BY <1>1, <1>2
<1>3. CASE c = <<>>
  <2>1. c \in Seq(Hooks) /\ c \in Seq(Lines)
    BY <1>3
  <2>. QED BY <2>1 DEF Contents
<1>4. CASE a = "claude" /\ \E n \in 0..Len(text) : c = SubSeq(text, 1, n)
  <2>1. PICK n \in 0..Len(text) : c = SubSeq(text, 1, n)
    BY <1>4
  <2>2. text \in Seq(Hooks)
    BY <1>1, <1>4 DEF Contents
  <2> HIDE DEF text
  <2>3. c \in Seq(Hooks)
    BY <2>1, <2>2, SubSeqProperties
  <2>. QED BY <1>4, <2>3 DEF Contents
<1>5. c = text \/ c = <<>> \/ (a = "claude" /\ \E n \in 0..Len(text) : c = SubSeq(text, 1, n))
  BY Zenon DEF Seen
<1>. QED BY <1>2, <1>3, <1>4, <1>5

LEMMA NewContentType ==
  ASSUME NEW a \in Agents, NEW c \in Contents(a), NEW e \in Exes, NEW remove \in BOOLEAN
  PROVE  NewContent(a, c, e, remove) \in Contents(a)
<1>1. HooksIn(a, c) \in Seq(Hooks)
  BY HooksInClean
<1>2. NewHooks(a, HooksIn(a, c), e, remove) \in Seq(Hooks)
  BY <1>1, NewHooksKeepUsers
<1>. QED BY <1>2, RebuiltType DEF NewContent, Contents

LEMMA VerdictType ==
  ASSUME NEW a, NEW hs, NEW e, NEW remove
  PROVE  Verdict(a, hs, e, remove) \in Results
  BY DEF Verdict, Results

-----------------------------------------------------------------------------
(* Types. *)

LEMMA TurnIn ==
  ASSUME SetupTypeOK, pc # "idle"
  PROVE  Turn \in todo /\ Turn \in Agents
  BY DEF SetupTypeOK, Turn, Agents

LEMMA ReportType ==
  ASSUME SetupTypeOK, pc # "idle", NEW r \in Results, Report(r),
         DOMAIN config' = Agents, DOMAIN tmp' = Agents,
         \A a \in Agents : config'[a] \in Contents(a) \cup {NoFile} /\ tmp'[a] \in Contents(a) \cup {NoFile},
         lossy' \in [Agents -> BOOLEAN]
  PROVE  SetupTypeOK'
<1>1. Turn \in todo /\ Turn \in Agents
  BY TurnIn
<1>2. runs' \in 0..MaxRuns /\ args' \in [dry : BOOLEAN, remove : BOOLEAN] /\ exe' \in Exes
  BY DEF SetupTypeOK, Report, runVars
<1>3. todo' \subseteq Agents /\ pc' \in {"idle", "read", "open", "write", "rename"} /\ (pc' = "idle" <=> todo' = {})
      /\ pc' \in {"idle", "read"} /\ plan' = NoPlan
  BY <1>1 DEF SetupTypeOK, Report
<1>4. plan'.verdict \in Results \cup {"none"} /\ (plan.content \in Contents(Turn))'
  <2>1. <<>> \in Seq(Hooks) /\ <<>> \in Seq(Lines)
    OBVIOUS
  <2>. QED BY <2>1 DEF Report, NoPlan, Contents
<1>5. result' \in [Agents -> Results \cup {"none"}]
  BY <1>1 DEF SetupTypeOK, Report
<1>. QED BY <1>2, <1>3, <1>4, <1>5 DEF SetupTypeOK

LEMMA NoPlanType == NoPlan.verdict = "none" /\ \A a \in Agents : NoPlan.content \in Contents(a)
<1>1. <<>> \in Seq(Hooks) /\ <<>> \in Seq(Lines)
  OBVIOUS
<1>. QED BY <1>1 DEF NoPlan, Contents

LEMMA StartType == SetupTypeOK /\ Start => SetupTypeOK'
<1> SUFFICES ASSUME SetupTypeOK, Start PROVE SetupTypeOK'
  OBVIOUS
<1>1. \A a \in Agents : config'[a] \in Contents(a) \cup {NoFile} /\ tmp'[a] \in Contents(a) \cup {NoFile}
  BY DEF SetupTypeOK, Start, fileVars
<1>2. runs' \in 0..MaxRuns
  BY SetupConstantsOK DEF SetupTypeOK, Start
<1>3. plan' = NoPlan /\ plan'.verdict = "none" /\ (plan.content \in Contents(Turn))'
  <2>1. plan' = NoPlan
    BY DEF Start, SetupTypeOK
  <2>2. Turn' \in Agents
    BY DEF Turn, Agents
  <2>. QED BY <2>1, <2>2, NoPlanType
<1>4. todo' \subseteq Agents /\ todo' # {} /\ pc' = "read"
  BY Zenon DEF Start
<1>. QED BY <1>1, <1>2, <1>3, <1>4 DEF SetupTypeOK, Start, fileVars

(* The parts of SetupTypeOK that a step within a run leaves alone. *)
LEMMA StepType ==
  ASSUME SetupTypeOK, pc # "idle", UNCHANGED <<runVars, todo, result>>,
         pc' \in {"open", "write", "rename"},
         DOMAIN config' = Agents, DOMAIN tmp' = Agents,
         \A a \in Agents : config'[a] \in Contents(a) \cup {NoFile} /\ tmp'[a] \in Contents(a) \cup {NoFile},
         lossy' \in [Agents -> BOOLEAN],
         plan'.verdict \in Results \cup {"none"}, plan'.content \in Contents(Turn),
         pc' \in {"write", "rename"} => tmp'[Turn] # NoFile
  PROVE  SetupTypeOK'
<1>1. Turn' = Turn
  BY DEF Turn
<1>. QED BY <1>1 DEF SetupTypeOK, runVars

LEMMA ReadType == SetupTypeOK /\ Read => SetupTypeOK'
<1> SUFFICES ASSUME SetupTypeOK, Read PROVE SetupTypeOK'
  OBVIOUS
<1> DEFINE v(c) == Verdict(Turn, HooksIn(Turn, c), exe, args.remove)
<1>1. pc = "read" /\ UNCHANGED fileVars
  BY DEF Read
<1>2. Turn \in todo /\ Turn \in Agents
  BY <1>1, TurnIn
<1>3. PICK c \in Seen(Turn) :
        /\ lossy' = [lossy EXCEPT ![Turn] = c # TextOf(config[Turn])]
        /\ \/ v(c) = "AlreadyConfigured" \/ args.dry
           \/ v(c) # "AlreadyConfigured" /\ ~args.dry
        /\ v(c) = "AlreadyConfigured" \/ args.dry => Report(v(c))
        /\ ~ (v(c) = "AlreadyConfigured" \/ args.dry) =>
             /\ plan' = [verdict |-> v(c), content |-> NewContent(Turn, c, exe, args.remove)]
             /\ pc' = "open"
             /\ UNCHANGED <<runVars, todo, result>>
  BY Zenon DEF Read
<1>4. /\ DOMAIN config' = Agents /\ DOMAIN tmp' = Agents
      /\ \A a \in Agents : config'[a] \in Contents(a) \cup {NoFile} /\ tmp'[a] \in Contents(a) \cup {NoFile}
  BY <1>1 DEF SetupTypeOK, fileVars
<1>5. lossy' \in [Agents -> BOOLEAN]
  BY <1>2, <1>3 DEF SetupTypeOK
<1>6. v(c) \in Results
  BY VerdictType
<1>7. c \in Contents(Turn)
  BY <1>2, SeenType DEF SetupTypeOK
<1> HIDE DEF v
<1>8. CASE v(c) = "AlreadyConfigured" \/ args.dry
  BY <1>1, <1>3, <1>4, <1>5, <1>6, <1>8, ReportType
<1>9. CASE ~ (v(c) = "AlreadyConfigured" \/ args.dry)
  <2>1. args.remove \in BOOLEAN /\ exe \in Exes
    BY DEF SetupTypeOK
  <2>2. NewContent(Turn, c, exe, args.remove) \in Contents(Turn)
    BY <1>2, <1>7, <2>1, NewContentType
  <2>3. plan'.verdict \in Results /\ plan'.content \in Contents(Turn)
    BY <1>3, <1>6, <1>9, <2>2
  <2>4. pc' = "open" /\ UNCHANGED <<runVars, todo, result>>
    BY <1>3, <1>9
  <2>. QED BY <1>1, <1>4, <1>5, <2>3, <2>4, StepType
<1>. QED BY <1>8, <1>9

LEMMA OpenType == SetupTypeOK /\ OpenTmp => SetupTypeOK'
<1> SUFFICES ASSUME SetupTypeOK, OpenTmp PROVE SetupTypeOK'
  OBVIOUS
<1>1. pc = "open" /\ lossy' = lossy /\ config' = config
  BY DEF OpenTmp, fileVars
<1>2. Turn \in todo /\ Turn \in Agents
  BY <1>1, TurnIn
<1>3. \A a \in Agents : <<>> \in Contents(a)
  BY NoPlanType DEF NoPlan
<1>4. CASE /\ tmp' = [tmp EXCEPT ![Turn] = <<>>]
           /\ pc' = "write"
           /\ UNCHANGED <<config, runVars, todo, plan, result>>
  <2>1. /\ DOMAIN config' = Agents /\ DOMAIN tmp' = Agents
        /\ \A a \in Agents : config'[a] \in Contents(a) \cup {NoFile} /\ tmp'[a] \in Contents(a) \cup {NoFile}
    BY <1>1, <1>2, <1>3, <1>4 DEF SetupTypeOK
  <2>2. tmp'[Turn] # NoFile
    <3>1. tmp'[Turn] = <<>>
      BY <1>2, <1>4 DEF SetupTypeOK
    <3>2. <<>> \in Seq(Hooks)
      OBVIOUS
    <3>. QED BY <3>1, <3>2, SetupConstantsOK
  <2>3. plan'.verdict \in Results \cup {"none"} /\ plan'.content \in Contents(Turn) /\ lossy' \in [Agents -> BOOLEAN]
    BY <1>1, <1>4 DEF SetupTypeOK
  <2>. QED BY <1>1, <1>4, <2>1, <2>2, <2>3, StepType
<1>5. CASE Report("Failed") /\ UNCHANGED fileVars
  <2>1. "Failed" \in Results
    BY DEF Results
  <2>2. /\ DOMAIN config' = Agents /\ DOMAIN tmp' = Agents
        /\ \A a \in Agents : config'[a] \in Contents(a) \cup {NoFile} /\ tmp'[a] \in Contents(a) \cup {NoFile}
    BY <1>5 DEF SetupTypeOK, fileVars
  <2>3. lossy' \in [Agents -> BOOLEAN]
    BY <1>1 DEF SetupTypeOK
  <2>. QED BY <1>1, <1>5, <2>1, <2>2, <2>3, ReportType
<1>. QED BY <1>4, <1>5 DEF OpenTmp

LEMMA GiveUpType == SetupTypeOK /\ pc # "idle" /\ GiveUp => SetupTypeOK'
<1> SUFFICES ASSUME SetupTypeOK, pc # "idle", GiveUp PROVE SetupTypeOK'
  OBVIOUS
<1>1. Turn \in todo /\ Turn \in Agents
  BY TurnIn
<1>2. /\ Report("Failed") /\ config' = config /\ lossy' = lossy
      /\ tmp' = tmp \/ tmp' = [tmp EXCEPT ![Turn] = NoFile]
  BY DEF GiveUp
<1>3. /\ DOMAIN config' = Agents /\ DOMAIN tmp' = Agents
      /\ \A a \in Agents : config'[a] \in Contents(a) \cup {NoFile} /\ tmp'[a] \in Contents(a) \cup {NoFile}
  BY <1>1, <1>2 DEF SetupTypeOK
<1>4. lossy' \in [Agents -> BOOLEAN] /\ "Failed" \in Results
  BY <1>2 DEF SetupTypeOK, Results
<1>. QED BY <1>2, <1>3, <1>4, ReportType

LEMMA WriteType == SetupTypeOK /\ Write => SetupTypeOK'
<1> SUFFICES ASSUME SetupTypeOK, Write PROVE SetupTypeOK'
  OBVIOUS
<1>1. pc = "write"
  BY DEF Write
<1>2. Turn \in todo /\ Turn \in Agents
  BY <1>1, TurnIn
<1>3. plan.content \in Contents(Turn) /\ plan.content # NoFile
  <2>1. plan.content \in Contents(Turn)
    BY DEF SetupTypeOK
  <2>. QED BY <2>1, SetupConstantsOK DEF Contents
<1>4. CASE /\ \/ tmp' = [tmp EXCEPT ![Turn] = plan.content] /\ UNCHANGED lossy
              \/ "flush" \in Anomalies /\ UNCHANGED tmp /\ lossy' = [lossy EXCEPT ![Turn] = TRUE]
           /\ pc' = "rename"
           /\ UNCHANGED <<config, runVars, todo, plan, result>>
  <2>1. /\ DOMAIN config' = Agents /\ DOMAIN tmp' = Agents
        /\ \A a \in Agents : config'[a] \in Contents(a) \cup {NoFile} /\ tmp'[a] \in Contents(a) \cup {NoFile}
    BY <1>2, <1>3, <1>4 DEF SetupTypeOK
  <2>2. tmp'[Turn] # NoFile
    BY <1>1, <1>2, <1>3, <1>4 DEF SetupTypeOK
  <2>3. lossy' \in [Agents -> BOOLEAN]
    BY <1>2, <1>4 DEF SetupTypeOK
  <2>4. plan'.verdict \in Results \cup {"none"} /\ plan'.content \in Contents(Turn)
    BY <1>4 DEF SetupTypeOK
  <2>. QED BY <1>1, <1>4, <2>1, <2>2, <2>3, <2>4, StepType
<1>5. CASE GiveUp
  BY <1>1, <1>5, GiveUpType
<1>. QED BY <1>4, <1>5 DEF Write

(* A plan has a verdict. *)
PlanMade == pc \in {"open", "write", "rename"} => plan.verdict \in Results

LEMMA RenameType == SetupTypeOK /\ PlanMade /\ Rename => SetupTypeOK'
<1> SUFFICES ASSUME SetupTypeOK, PlanMade, Rename PROVE SetupTypeOK'
  OBVIOUS
<1>1. pc = "rename" /\ plan.verdict \in Results
  BY DEF Rename, PlanMade
<1>2. Turn \in todo /\ Turn \in Agents
  BY <1>1, TurnIn
<1>3. CASE /\ config' = [config EXCEPT ![Turn] = tmp[Turn]]
           /\ tmp' = [tmp EXCEPT ![Turn] = NoFile]
           /\ Report(plan.verdict)
           /\ UNCHANGED lossy
  <2>1. /\ DOMAIN config' = Agents /\ DOMAIN tmp' = Agents
        /\ \A a \in Agents : config'[a] \in Contents(a) \cup {NoFile} /\ tmp'[a] \in Contents(a) \cup {NoFile}
    BY <1>2, <1>3 DEF SetupTypeOK
  <2>2. lossy' \in [Agents -> BOOLEAN]
    BY <1>3 DEF SetupTypeOK
  <2>. QED BY <1>1, <1>3, <2>1, <2>2, ReportType
<1>4. CASE GiveUp
  BY <1>1, <1>4, GiveUpType
<1>. QED BY <1>3, <1>4 DEF Rename

LEMMA CrashType == SetupTypeOK /\ Crash => SetupTypeOK'
<1> SUFFICES ASSUME SetupTypeOK, Crash PROVE SetupTypeOK'
  OBVIOUS
<1>1. UNCHANGED <<config, tmp, lossy, runs, args, exe>> /\ pc' = "idle" /\ todo' = {} /\ plan' = NoPlan
  BY DEF Crash, fileVars, runVars
<1>2. result' \in [Agents -> Results \cup {"none"}]
  BY DEF Crash
<1>3. Turn' \in Agents
  BY DEF Turn, Agents
<1>4. plan'.verdict = "none" /\ plan'.content \in Contents(Turn')
  BY <1>1, <1>3, NoPlanType
<1>. QED BY <1>1, <1>2, <1>4 DEF SetupTypeOK

LEMMA PlanMadeStep == SetupTypeOK /\ PlanMade /\ [SetupNext]_setupVars => PlanMade'
<1> SUFFICES ASSUME SetupTypeOK, PlanMade, [SetupNext]_setupVars PROVE PlanMade'
  OBVIOUS
<1>1. ASSUME NEW r, Report(r) PROVE PlanMade'
  BY <1>1 DEF Report, PlanMade
<1>2. CASE Start
  BY <1>2 DEF Start, PlanMade
<1>3. CASE Read
  <2>1. PICK c \in Seen(Turn) :
          \/ Report(Verdict(Turn, HooksIn(Turn, c), exe, args.remove))
          \/ plan' = [verdict |-> Verdict(Turn, HooksIn(Turn, c), exe, args.remove),
                      content |-> NewContent(Turn, c, exe, args.remove)]
    BY <1>3, Zenon DEF Read
  <2>2. Verdict(Turn, HooksIn(Turn, c), exe, args.remove) \in Results
    BY VerdictType
  <2>. QED BY <1>1, <2>1, <2>2 DEF PlanMade
<1>4. CASE OpenTmp
  BY <1>1, <1>4 DEF OpenTmp, PlanMade
<1>5. CASE Write
  BY <1>1, <1>5 DEF Write, GiveUp, PlanMade
<1>6. CASE Rename
  BY <1>1, <1>6 DEF Rename, GiveUp
<1>7. CASE Crash
  BY <1>7 DEF Crash, PlanMade
<1>8. CASE UNCHANGED setupVars
  BY <1>8 DEF setupVars, PlanMade
<1>. QED BY <1>2, <1>3, <1>4, <1>5, <1>6, <1>7, <1>8 DEF SetupNext

LEMMA SetupInitTyped == SetupInit => SetupTypeOK /\ PlanMade
<1> SUFFICES ASSUME SetupInit PROVE SetupTypeOK /\ PlanMade
  OBVIOUS
<1>1. /\ config \in [Agents -> JsonFiles \cup TomlFiles \cup {NoFile}]
      /\ config["claude"] \in JsonFiles \cup {NoFile}
      /\ config["codex"] \in TomlFiles \cup {NoFile}
  BY DEF SetupInit
<1>2. \A a \in Agents : config[a] \in Contents(a) \cup {NoFile}
  BY <1>1, SetupConstantsOK DEF Agents, Contents
<1>3. tmp \in [Agents -> {NoFile}]
  BY DEF SetupInit
<1>4. Turn \in Agents
  BY DEF Turn, Agents
<1>5. plan = NoPlan /\ plan.verdict = "none" /\ plan.content \in Contents(Turn)
  BY <1>4, NoPlanType DEF SetupInit
<1>6. runs \in 0..MaxRuns
  BY SetupConstantsOK DEF SetupInit
<1>7. SetupTypeOK
  BY <1>1, <1>2, <1>3, <1>5, <1>6 DEF SetupInit, SetupTypeOK
<1>. QED BY <1>7 DEF SetupInit, PlanMade

LEMMA SetupTypedStep == SetupTypeOK /\ PlanMade /\ [SetupNext]_setupVars => SetupTypeOK' /\ PlanMade'
<1> SUFFICES ASSUME SetupTypeOK, PlanMade, [SetupNext]_setupVars PROVE SetupTypeOK'
  BY PlanMadeStep
<1>1. CASE UNCHANGED setupVars
  <2>1. Turn' = Turn
    BY <1>1 DEF setupVars, Turn
  <2>. QED BY <1>1, <2>1 DEF setupVars, fileVars, runVars, SetupTypeOK
<1>. QED BY <1>1, StartType, ReadType, OpenType, WriteType, RenameType, CrashType DEF SetupNext

(* Every reachable state is typed, for any executables, hooks and files:   *)
(* a run is over exactly when every agent was dealt with, a configuration  *)
(* file always holds what its format may hold, and what a rename moves is  *)
(* there.                                                                  *)
THEOREM SetupTyped == SetupSpec => []SetupTypeOK
<1>1. SetupSpec => [](SetupTypeOK /\ PlanMade)
  BY SetupInitTyped, SetupTypedStep, PTL DEF SetupSpec
<1>. QED BY <1>1, PTL

-----------------------------------------------------------------------------
(* The user's hooks. *)

LEMMA NewContentKeeps ==
  ASSUME NEW a \in Agents, NEW c \in Contents(a), a = "codex" => Plain(c),
         NEW e \in Exes, NEW remove \in BOOLEAN
  PROVE  LET new == NewContent(a, c, e, remove)
         IN /\ UsersIn(a, Everything(a, c)) \subseteq UsersIn(a, Everything(a, new))
            /\ a = "codex" => Plain(new)
<1> DEFINE new == NewContent(a, c, e, remove)
           hs == NewHooks(a, HooksIn(a, c), e, remove)
<1>0. hs \in Seq(Hooks) /\ Users(a, HooksIn(a, c)) \subseteq Users(a, hs)
  BY HooksInClean, NewHooksKeepUsers
<1>1. CASE a = "claude"
  <2>1. HooksIn(a, c) = Decoded(a, c) /\ c \in Seq(Hooks)
    BY <1>1 DEF HooksIn, Contents
  <2>2. Users(a, c) \subseteq Users(a, HooksIn(a, c))
    BY <2>1, DecodedType
  <2>3. new = hs
    BY <1>1 DEF NewContent
  <2>4. Everything(a, c) = HooksOf(c) /\ Everything(a, hs) = HooksOf(hs) /\ a # "codex"
    BY <1>1 DEF Everything
  <2> HIDE DEF new, hs
  <2>. QED BY <1>0, <2>2, <2>3, <2>4 DEF new, Users
<1>2. CASE a = "codex"
  <2>1. HooksIn(a, c) = Decoded(a, Values(c)) /\ c \in Seq(Lines)
    BY <1>2 DEF HooksIn, Contents
  <2>2. Users(a, Values(c)) \subseteq Users(a, HooksIn(a, c))
    BY <2>1, ValuesType, DecodedType
  <2>3. new = Rebuilt(c, hs)
    BY <1>2 DEF NewContent
  <2> HIDE DEF new, hs
  <2>4. Users("codex", Values(c)) \subseteq Users("codex", hs)
    BY <1>0, <1>2, <2>2
  <2>5. /\ Plain(new)
        /\ UsersIn("codex", Everything("codex", c)) \subseteq UsersIn("codex", Everything("codex", new))
    BY <1>0, <1>2, <2>1, <2>3, <2>4, RebuiltKeeps
  <2>. QED BY <1>2, <2>5 DEF new
<1>. QED BY <1>1, <1>2 DEF Agents

LEMMA EmptyPlain == Plain(<<>>)
<1>1. DOMAIN <<>> = {}
  OBVIOUS
<1>. QED BY <1>1 DEF Plain

Busy == pc \in {"open", "write", "rename"}

(* Whatever a run is about to put in the place of a file still has the     *)
(* hooks of the user's that the file has.                                  *)
FilesPlain == Plain(TextOf(config["codex"])) /\ Plain(TextOf(tmp["codex"]))
PlanKeeps ==
  Busy =>
    /\ Turn = "codex" => Plain(plan.content)
    /\ lossy[Turn] \/ LastingHooks(Turn, config[Turn]) \subseteq UsersIn(Turn, Everything(Turn, plan.content))
TmpIsPlan == pc = "rename" => lossy[Turn] \/ tmp[Turn] = plan.content
KeepInv == SetupTypeOK /\ PlanMade /\ FilesPlain /\ PlanKeeps /\ TmpIsPlan

LEMMA KeptInit ==
  ASSUME \A ls \in TomlFiles : Plain(ls)
  PROVE  SetupInit => KeepInv
<1> SUFFICES ASSUME SetupInit PROVE KeepInv
  OBVIOUS
<1>1. config["codex"] \in TomlFiles \cup {NoFile} /\ tmp["codex"] = NoFile /\ pc = "idle"
  BY DEF SetupInit, Agents
<1>2. FilesPlain
  BY <1>1, EmptyPlain DEF FilesPlain, TextOf
<1>. QED BY <1>1, <1>2, SetupInitTyped DEF KeepInv, PlanKeeps, TmpIsPlan, Busy

(* Every step but a rename leaves the configuration files alone.           *)
LEMMA OnlyRename ==
  SetupNext /\ ~Rename => config' = config
  BY DEF SetupNext, Start, Read, OpenTmp, Write, GiveUp, Crash, fileVars

LEMMA RenameKeeps ==
  KeepInv /\ Rename => KeepsHooks /\ FilesPlain'
<1> SUFFICES ASSUME KeepInv, Rename PROVE KeepsHooks /\ FilesPlain'
  OBVIOUS
<1>0. SetupTypeOK /\ FilesPlain /\ PlanKeeps /\ TmpIsPlan
  BY DEF KeepInv
<1>1. pc = "rename"
  BY DEF Rename
<1>2. Turn \in Agents /\ Turn \in todo
  BY <1>0, <1>1, TurnIn
<1>3. CASE config' = config /\ (tmp' = tmp \/ tmp' = [tmp EXCEPT ![Turn] = NoFile])
  <2>1. KeepsHooks
    BY <1>3 DEF KeepsHooks
  <2>2. tmp'["codex"] = tmp["codex"] \/ tmp'["codex"] = NoFile
    BY <1>0, <1>2, <1>3 DEF SetupTypeOK, Agents
  <2>3. FilesPlain'
    BY <1>0, <1>3, <2>2, EmptyPlain DEF FilesPlain, TextOf
  <2>. QED BY <2>1, <2>3
<1>4. CASE config' = [config EXCEPT ![Turn] = tmp[Turn]] /\ tmp' = [tmp EXCEPT ![Turn] = NoFile]
  <2>1. /\ config'[Turn] = tmp[Turn] /\ \A a \in Agents : a # Turn => config'[a] = config[a]
        /\ tmp'[Turn] = NoFile /\ \A a \in Agents : a # Turn => tmp'[a] = tmp[a]
    BY <1>0, <1>2, <1>4 DEF SetupTypeOK
  <2>2. FilesPlain'
    <3>1. config'["codex"] = config["codex"] \/ config'["codex"] = tmp["codex"]
      BY <1>2, <2>1 DEF Agents
    <3>2. tmp'["codex"] = NoFile \/ tmp'["codex"] = tmp["codex"]
      BY <1>2, <2>1 DEF Agents
    <3>. QED BY <1>0, <3>1, <3>2, EmptyPlain DEF FilesPlain, TextOf
  <2>3. ASSUME ~ lossy[Turn]
        PROVE  LastingHooks(Turn, config[Turn]) \subseteq LastingHooks(Turn, config'[Turn])
    <3>1. config'[Turn] = plan.content
      BY <1>0, <1>1, <2>1, <2>3 DEF TmpIsPlan
    <3>2. plan.content # NoFile
      <4>1. plan.content \in Contents(Turn)
        BY <1>0 DEF SetupTypeOK
      <4>. QED BY <4>1, SetupConstantsOK DEF Contents
    <3>3. LastingHooks(Turn, config'[Turn]) = UsersIn(Turn, Everything(Turn, plan.content))
      BY <3>1, <3>2 DEF LastingHooks, UsersIn, TextOf
    <3>. QED BY <1>0, <1>1, <2>3, <3>3 DEF PlanKeeps, Busy
  <2>4. KeepsHooks
    <3>1. ASSUME NEW a \in Agents PROVE lossy[a] \/ LastingHooks(a, config[a]) \subseteq LastingHooks(a, config'[a])
      <4>1. CASE a = Turn
        BY <2>3, <4>1
      <4>2. CASE a # Turn
        BY <2>1, <4>2
      <4>. QED BY <4>1, <4>2
    <3>. QED BY <3>1 DEF KeepsHooks
  <2>. QED BY <2>2, <2>4
<1>. QED BY <1>3, <1>4 DEF Rename, GiveUp

LEMMA KeepsStep ==
  KeepInv /\ [SetupNext]_setupVars => [KeepsHooks]_setupVars
<1> SUFFICES ASSUME KeepInv, [SetupNext]_setupVars PROVE [KeepsHooks]_setupVars
  OBVIOUS
<1>1. CASE UNCHANGED setupVars
  BY <1>1
<1>2. CASE Rename
  BY <1>2, RenameKeeps
<1>3. CASE SetupNext /\ ~Rename
  <2>1. config' = config
    BY <1>3, OnlyRename
  <2>2. KeepsHooks
    BY <2>1 DEF KeepsHooks
  <2>. QED BY <2>2
<1>. QED BY <1>1, <1>2, <1>3

LEMMA ReportEnds ==
  ASSUME NEW r, Report(r)
  PROVE  PlanKeeps' /\ TmpIsPlan'
  BY DEF Report, PlanKeeps, TmpIsPlan, Busy

LEMMA KeptRead ==
  ASSUME KeepInv, Read
  PROVE  FilesPlain' /\ PlanKeeps' /\ TmpIsPlan'
<1>0. SetupTypeOK /\ FilesPlain
  BY DEF KeepInv
<1>1. pc = "read" /\ UNCHANGED <<config, tmp>>
  BY DEF Read, fileVars
<1>2. Turn \in todo /\ Turn \in Agents
  BY <1>0, <1>1, TurnIn
<1>3. FilesPlain'
  BY <1>0, <1>1 DEF FilesPlain
<1>4. PICK c \in Seen(Turn) :
        /\ lossy' = [lossy EXCEPT ![Turn] = c # TextOf(config[Turn])]
        /\ \/ Report(Verdict(Turn, HooksIn(Turn, c), exe, args.remove))
           \/ /\ plan'.content = NewContent(Turn, c, exe, args.remove)
              /\ pc' = "open"
              /\ todo' = todo
  <2>1. PICK c \in Seen(Turn) :
          /\ lossy' = [lossy EXCEPT ![Turn] = c # TextOf(config[Turn])]
          /\ \/ Report(Verdict(Turn, HooksIn(Turn, c), exe, args.remove))
             \/ /\ plan' = [verdict |-> Verdict(Turn, HooksIn(Turn, c), exe, args.remove),
                            content |-> NewContent(Turn, c, exe, args.remove)]
                /\ pc' = "open"
                /\ UNCHANGED <<runVars, todo, result>>
    BY Zenon DEF Read
  <2>2. ASSUME plan' = [verdict |-> Verdict(Turn, HooksIn(Turn, c), exe, args.remove),
                       content |-> NewContent(Turn, c, exe, args.remove)]
        PROVE  plan'.content = NewContent(Turn, c, exe, args.remove)
    BY <2>2
  <2>3. UNCHANGED <<runVars, todo, result>> => todo' = todo
    OBVIOUS
  <2>. QED BY <2>1, <2>2, <2>3, Zenon
<1>5. c \in Contents(Turn)
  BY <1>0, <1>2, SeenType DEF SetupTypeOK
<1>6. args.remove \in BOOLEAN /\ exe \in Exes
  BY <1>0 DEF SetupTypeOK
<1>8. Turn = "codex" => Plain(c)
  <2>1. ASSUME Turn = "codex" PROVE Plain(c)
    <3>1. c = TextOf(config[Turn]) \/ c = <<>>
      <4>1. Turn # "claude"
        BY <2>1
      <4>. QED BY <4>1, Zenon DEF Seen
    <3>. QED BY <1>0, <2>1, <3>1, EmptyPlain DEF FilesPlain
  <2>. QED BY <2>1
<1>9. CASE Report(Verdict(Turn, HooksIn(Turn, c), exe, args.remove))
  BY <1>3, <1>9, ReportEnds
<1>10. CASE /\ plan'.content = NewContent(Turn, c, exe, args.remove)
            /\ pc' = "open"
            /\ todo' = todo
  <2>1. Turn' = Turn
    BY <1>10 DEF Turn
  <2>2. /\ UsersIn(Turn, Everything(Turn, c)) \subseteq UsersIn(Turn, Everything(Turn, plan'.content))
        /\ Turn = "codex" => Plain(plan'.content)
    BY <1>2, <1>5, <1>6, <1>8, <1>10, NewContentKeeps
  <2>3. lossy'[Turn] = (c # TextOf(config[Turn]))
    BY <1>0, <1>2, <1>4 DEF SetupTypeOK
  <2>4. c = TextOf(config[Turn]) => LastingHooks(Turn, config[Turn]) = UsersIn(Turn, Everything(Turn, c))
    BY DEF LastingHooks, UsersIn
  <2>5. lossy'[Turn] \/ LastingHooks(Turn, config'[Turn]) \subseteq UsersIn(Turn, Everything(Turn, plan'.content))
    <3>1. CASE c = TextOf(config[Turn])
      <4>1. config'[Turn] = config[Turn]
        BY <1>1
      <4>. QED BY <2>2, <2>4, <3>1, <4>1
    <3>. QED BY <2>3, <3>1
  <2>6. PlanKeeps'
    BY <2>1, <2>2, <2>5 DEF PlanKeeps
  <2>7. TmpIsPlan'
    BY <1>10 DEF TmpIsPlan
  <2>. QED BY <1>3, <2>6, <2>7
<1>. QED BY <1>4, <1>9, <1>10

LEMMA KeptOpen ==
  ASSUME KeepInv, OpenTmp
  PROVE  FilesPlain' /\ PlanKeeps' /\ TmpIsPlan'
<1>0. SetupTypeOK /\ FilesPlain /\ PlanKeeps
  BY DEF KeepInv
<1>1. pc = "open" /\ lossy' = lossy /\ config' = config
  BY DEF OpenTmp, fileVars
<1>2. Turn \in Agents
  BY <1>0, <1>1, TurnIn
<1>3. CASE tmp' = [tmp EXCEPT ![Turn] = <<>>] /\ pc' = "write" /\ UNCHANGED <<todo, plan>>
  <2>1. tmp'["codex"] = tmp["codex"] \/ tmp'["codex"] = <<>>
    BY <1>0, <1>2, <1>3 DEF SetupTypeOK, Agents
  <2>2. FilesPlain'
    BY <1>0, <1>1, <2>1, EmptyPlain DEF FilesPlain, TextOf
  <2>3. Turn' = Turn
    BY <1>3 DEF Turn
  <2>4. PlanKeeps'
    BY <1>0, <1>1, <1>3, <2>3 DEF PlanKeeps, Busy
  <2>5. TmpIsPlan'
    BY <1>3 DEF TmpIsPlan
  <2>. QED BY <2>2, <2>4, <2>5
<1>4. CASE Report("Failed") /\ UNCHANGED fileVars
  BY <1>0, <1>4, ReportEnds DEF FilesPlain, fileVars
<1>. QED BY <1>3, <1>4 DEF OpenTmp

LEMMA KeptWrite ==
  ASSUME KeepInv, Write
  PROVE  FilesPlain' /\ PlanKeeps' /\ TmpIsPlan'
<1>0. SetupTypeOK /\ FilesPlain /\ PlanKeeps
  BY DEF KeepInv
<1>1. pc = "write"
  BY DEF Write
<1>2. Turn \in Agents
  BY <1>0, <1>1, TurnIn
<1>3. CASE /\ \/ tmp' = [tmp EXCEPT ![Turn] = plan.content] /\ UNCHANGED lossy
              \/ UNCHANGED tmp /\ lossy' = [lossy EXCEPT ![Turn] = TRUE]
           /\ pc' = "rename"
           /\ UNCHANGED <<config, todo, plan>>
  <2>1. plan.content # NoFile
    <3>1. plan.content \in Contents(Turn)
      BY <1>0 DEF SetupTypeOK
    <3>. QED BY <3>1, SetupConstantsOK DEF Contents
  <2>2. Turn = "codex" => Plain(plan.content)
    BY <1>0, <1>1 DEF PlanKeeps, Busy
  <2>3. tmp'["codex"] = tmp["codex"] \/ (Turn = "codex" /\ tmp'["codex"] = plan.content)
    BY <1>0, <1>2, <1>3 DEF SetupTypeOK, Agents
  <2>4. FilesPlain'
    BY <1>0, <1>3, <2>1, <2>2, <2>3 DEF FilesPlain, TextOf
  <2>5. Turn' = Turn
    BY <1>3 DEF Turn
  <2>6. lossy'[Turn] = lossy[Turn] \/ lossy'[Turn] = TRUE
    BY <1>0, <1>2, <1>3 DEF SetupTypeOK
  <2>7. PlanKeeps'
    BY <1>0, <1>1, <1>3, <2>5, <2>6 DEF PlanKeeps, Busy
  <2>8. lossy'[Turn] \/ tmp'[Turn] = plan.content
    BY <1>0, <1>2, <1>3 DEF SetupTypeOK
  <2>9. TmpIsPlan'
    BY <1>3, <2>5, <2>8 DEF TmpIsPlan
  <2>. QED BY <2>4, <2>7, <2>9
<1>4. CASE GiveUp
  <2>1. tmp'["codex"] = tmp["codex"] \/ tmp'["codex"] = NoFile
    BY <1>0, <1>2, <1>4 DEF GiveUp, SetupTypeOK, Agents
  <2>2. FilesPlain'
    BY <1>0, <1>4, <2>1, EmptyPlain DEF GiveUp, FilesPlain, TextOf
  <2>3. Report("Failed")
    BY <1>4 DEF GiveUp
  <2>. QED BY <2>2, <2>3, ReportEnds
<1>. QED BY <1>3, <1>4 DEF Write

LEMMA KeptStep == KeepInv /\ [SetupNext]_setupVars => KeepInv'
<1> SUFFICES ASSUME KeepInv, [SetupNext]_setupVars PROVE KeepInv'
  OBVIOUS
<1>1. SetupTypeOK' /\ PlanMade'
  BY SetupTypedStep DEF KeepInv
<1>2. CASE Start
  <2>1. UNCHANGED <<config, tmp>> /\ pc' = "read"
    BY <1>2, Zenon DEF Start, fileVars
  <2>. QED BY <1>1, <2>1 DEF KeepInv, FilesPlain, PlanKeeps, TmpIsPlan, Busy
<1>3. CASE Read
  BY <1>1, <1>3, KeptRead DEF KeepInv
<1>4. CASE OpenTmp
  BY <1>1, <1>4, KeptOpen DEF KeepInv
<1>5. CASE Write
  BY <1>1, <1>5, KeptWrite DEF KeepInv
<1>6. CASE Rename
  <2>1. \E r : Report(r)
    BY <1>6 DEF Rename, GiveUp
  <2>2. PlanKeeps' /\ TmpIsPlan'
    BY <2>1, ReportEnds
  <2>. QED BY <1>1, <1>6, <2>2, RenameKeeps DEF KeepInv
<1>7. CASE Crash
  <2>1. UNCHANGED <<config, tmp>> /\ pc' = "idle"
    BY <1>7 DEF Crash, fileVars
  <2>. QED BY <1>1, <2>1 DEF KeepInv, FilesPlain, PlanKeeps, TmpIsPlan, Busy
<1>8. CASE UNCHANGED setupVars
  <2>1. Turn' = Turn
    BY <1>8 DEF setupVars, Turn
  <2>. QED BY <1>1, <1>8, <2>1
         DEF KeepInv, FilesPlain, PlanKeeps, TmpIsPlan, Busy, setupVars, fileVars
<1>. QED BY <1>2, <1>3, <1>4, <1>5, <1>6, <1>7, <1>8 DEF SetupNext

(* No step of a setup takes a hook of the user's from a file that was read *)
(* and written whole, for any files and hooks: provided that the TOML      *)
(* files are laid out so that the line parser sees every hook.  Of the     *)
(* spellings it speaks of those that are read back as they are written;    *)
(* what the other hooks of the file are spelled like does not matter.      *)
THEOREM HooksAreKept ==
  ASSUME \A ls \in TomlFiles : Plain(ls)
  PROVE  SetupSpec => HooksKept
<1>1. SetupInit => KeepInv
  BY KeptInit
<1>2. KeepInv /\ [SetupNext]_setupVars => KeepInv'
  BY KeptStep
<1>3. KeepInv /\ [SetupNext]_setupVars => [KeepsHooks]_setupVars
  BY KeepsStep
<1>. QED BY <1>1, <1>2, <1>3, PTL DEF SetupSpec, HooksKept

-----------------------------------------------------------------------------
(* Reports. *)

(* An agent that is still to be dealt with has its file as it was, and     *)
(* nothing is planned in a dry run or when there is nothing to do.         *)
ReportInv ==
  /\ SetupTypeOK /\ PlanMade /\ UntouchedWhenSaidSo
  /\ \A a \in todo : config[a] = before[a] /\ result[a] = "none"
  /\ Busy => ~args.dry /\ plan.verdict \notin {"AlreadyConfigured", "Failed"}

LEMMA ReportTruth ==
  ASSUME ReportInv, pc # "idle", NEW r, Report(r),
         \A a \in Agents : a # Turn => config'[a] = config[a],
         config'[Turn] = config[Turn] \/ (~args.dry /\ r \notin {"AlreadyConfigured", "Failed"})
  PROVE  /\ UntouchedWhenSaidSo'
         /\ \A a \in todo' : config'[a] = before'[a] /\ result'[a] = "none"
         /\ ~Busy'
<1>0. SetupTypeOK
  BY DEF ReportInv
<1>1. Turn \in todo /\ Turn \in Agents /\ todo \subseteq Agents
  BY <1>0, TurnIn DEF SetupTypeOK
<1>2. /\ result'[Turn] = r /\ \A a \in Agents : a # Turn => result'[a] = result[a]
      /\ args' = args /\ before' = before /\ todo' = todo \ {Turn}
  BY <1>0, <1>1 DEF SetupTypeOK, Report, runVars
<1>3. ASSUME NEW a \in Agents, result'[a] # "none",
             result'[a] \in {"Failed", "AlreadyConfigured"} \/ args.dry
      PROVE  config'[a] = before[a]
  <2>1. CASE a = Turn
    BY <1>1, <1>2, <1>3, <2>1 DEF ReportInv
  <2>2. CASE a # Turn
    BY <1>2, <1>3, <2>2 DEF ReportInv, UntouchedWhenSaidSo
  <2>. QED BY <2>1, <2>2
<1>4. UntouchedWhenSaidSo'
  BY <1>2, <1>3 DEF UntouchedWhenSaidSo
<1>5. \A a \in todo' : config'[a] = before'[a] /\ result'[a] = "none"
  BY <1>1, <1>2 DEF ReportInv
<1>6. ~Busy'
  BY DEF Report, Busy
<1>. QED BY <1>4, <1>5, <1>6

LEMMA ReportStep == ReportInv /\ [SetupNext]_setupVars => ReportInv'
<1> SUFFICES ASSUME ReportInv, [SetupNext]_setupVars PROVE ReportInv'
  OBVIOUS
<1> DEFINE Rest == /\ UntouchedWhenSaidSo
                   /\ \A a \in todo : config[a] = before[a] /\ result[a] = "none"
                   /\ Busy => ~args.dry /\ plan.verdict \notin {"AlreadyConfigured", "Failed"}
<1>0. SetupTypeOK /\ PlanMade /\ Rest
  BY DEF ReportInv
<1>1. SetupTypeOK' /\ PlanMade'
  BY <1>0, SetupTypedStep
<1>2. CASE Start
  <2>1. /\ pc' = "read" /\ result' = [a \in Agents |-> "none"] /\ before' = config /\ config' = config
        /\ todo' \subseteq Agents
    BY <1>2, Zenon DEF Start, fileVars
  <2>2. UntouchedWhenSaidSo'
    BY <2>1 DEF UntouchedWhenSaidSo
  <2>. QED BY <1>1, <2>1, <2>2 DEF ReportInv, Busy
<1>3. CASE Read
  <2>1. PICK c \in Seen(Turn) :
          LET v == Verdict(Turn, HooksIn(Turn, c), exe, args.remove) IN
          \/ (v = "AlreadyConfigured" \/ args.dry) /\ Report(v)
          \/ /\ v # "AlreadyConfigured" /\ ~args.dry
             /\ plan' = [verdict |-> v, content |-> NewContent(Turn, c, exe, args.remove)]
             /\ UNCHANGED <<runVars, todo, result>>
    BY <1>3, Zenon DEF Read
  <2> DEFINE v == Verdict(Turn, HooksIn(Turn, c), exe, args.remove)
  <2>2. pc = "read" /\ config' = config
    BY <1>3 DEF Read, fileVars
  <2>3. CASE Report(v)
    <3>1. ReportInv /\ pc # "idle" /\ (\A a \in Agents : a # Turn => config'[a] = config[a]) /\ config'[Turn] = config[Turn]
      BY <2>2
    <3>2. Rest'
      BY <2>3, <3>1, ReportTruth
    <3>. QED BY <1>1, <3>2 DEF ReportInv
  <2>4. CASE /\ v # "AlreadyConfigured" /\ ~args.dry
             /\ plan' = [verdict |-> v, content |-> NewContent(Turn, c, exe, args.remove)]
             /\ UNCHANGED <<runVars, todo, result>>
    <3>1. v # "Failed"
      BY DEF Verdict
    <3>2. plan'.verdict \notin {"AlreadyConfigured", "Failed"}
      BY <2>4, <3>1
    <3>3. UNCHANGED <<config, before, args, todo, result>>
      BY <2>2, <2>4 DEF runVars
    <3>4. UntouchedWhenSaidSo'
      BY <1>0, <3>3 DEF UntouchedWhenSaidSo
    <3>. QED BY <1>0, <1>1, <2>4, <3>2, <3>3, <3>4 DEF ReportInv
  <2>. QED BY <2>1, <2>3, <2>4
<1>4. ASSUME pc # "idle", Report("Failed"), config' = config PROVE ReportInv'
  <2>1. Rest'
    BY <1>4, ReportTruth
  <2>. QED BY <1>1, <2>1 DEF ReportInv
<1>5. CASE OpenTmp
  <2>1. CASE Report("Failed") /\ UNCHANGED fileVars
    BY <1>4, <1>5, <2>1 DEF OpenTmp, fileVars
  <2>2. CASE UNCHANGED <<config, runVars, todo, plan, result>>
    BY <1>0, <1>1, <1>5, <2>2 DEF ReportInv, UntouchedWhenSaidSo, Busy, OpenTmp, runVars
  <2>. QED BY <1>5, <2>1, <2>2 DEF OpenTmp
<1>6. CASE Write
  <2>1. CASE GiveUp
    BY <1>4, <1>6, <2>1 DEF Write, GiveUp
  <2>2. CASE UNCHANGED <<config, runVars, todo, plan, result>>
    BY <1>0, <1>1, <1>6, <2>2 DEF ReportInv, UntouchedWhenSaidSo, Busy, Write, runVars
  <2>. QED BY <1>6, <2>1, <2>2 DEF Write
<1>7. CASE Rename
  <2>1. CASE GiveUp
    BY <1>4, <1>7, <2>1 DEF Rename, GiveUp
  <2>2. CASE config' = [config EXCEPT ![Turn] = tmp[Turn]] /\ Report(plan.verdict)
    <3>1. pc = "rename"
      BY <1>7 DEF Rename
    <3>2. \A a \in Agents : a # Turn => config'[a] = config[a]
      BY <1>0, <2>2 DEF SetupTypeOK
    <3>3. ~args.dry /\ plan.verdict \notin {"AlreadyConfigured", "Failed"}
      BY <1>0, <3>1 DEF Busy
    <3>4. Rest'
      BY <2>2, <3>1, <3>2, <3>3, ReportTruth
    <3>. QED BY <1>1, <3>4 DEF ReportInv
  <2>. QED BY <1>7, <2>1, <2>2 DEF Rename
<1>8. CASE Crash
  <2>1. pc' = "idle" /\ todo' = {} /\ result' = [a \in Agents |-> "none"]
    BY <1>8 DEF Crash
  <2>. QED BY <1>1, <2>1 DEF ReportInv, UntouchedWhenSaidSo, Busy
<1>9. CASE UNCHANGED setupVars
  BY <1>0, <1>1, <1>9 DEF ReportInv, UntouchedWhenSaidSo, Busy, setupVars, fileVars, runVars
<1>. QED BY <1>2, <1>3, <1>5, <1>6, <1>7, <1>8, <1>9 DEF SetupNext

(* An agent that is reported Failed or AlreadyConfigured, or that a dry    *)
(* run reports anything of, has its configuration file exactly as it was   *)
(* when the run started.                                                   *)
THEOREM UntouchedFiles == SetupSpec => []UntouchedWhenSaidSo
<1>1. SetupInit => ReportInv
  <2> SUFFICES ASSUME SetupInit PROVE ReportInv
    OBVIOUS
  <2>1. UntouchedWhenSaidSo /\ todo = {} /\ pc = "idle"
    BY DEF SetupInit, UntouchedWhenSaidSo
  <2>. QED BY <2>1, SetupInitTyped DEF ReportInv, Busy
<1>2. ReportInv => UntouchedWhenSaidSo
  BY DEF ReportInv
<1>. QED BY <1>1, <1>2, ReportStep, PTL DEF SetupSpec

-----------------------------------------------------------------------------
(* Our hooks. *)

LEMMA SameSizeOfHooks ==
  ASSUME NEW S, NEW T, IsFiniteSet(S), NEW f \in [S -> T],
         \A x, y \in S : f[x] = f[y] => x = y,
         \A t \in T : \E x \in S : f[x] = t
  PROVE  IsFiniteSet(T) /\ Cardinality(T) = Cardinality(S)
<1>1. f \in Bijection(S, T)
  BY DEF Bijection, Injection, Surjection, IsInjective
<1>2. ExistsBijection(S, T)
  BY <1>1 DEF ExistsBijection
<1>. QED BY <1>2, FS_Bijection

LEMMA OursFinite ==
  ASSUME NEW hs \in Seq(Hooks)
  PROVE  /\ IsFiniteSet(Ours(hs)) /\ Cardinality(Ours(hs)) \in Nat
         /\ Cardinality(Ours(hs)) = 0 <=> Ours(hs) = {}
<1>1. IsFiniteSet(1..Len(hs)) /\ Ours(hs) \subseteq 1..Len(hs)
  BY FS_Interval DEF Ours
<1>2. IsFiniteSet(Ours(hs))
  BY <1>1, FS_Subset
<1>. QED BY <1>2, FS_CardinalityType, FS_EmptySet

(* The hook that setup writes is recognised as ours by the next setup, of  *)
(* an executable in a place that has "ast-tool" in its path.               *)
LEMMA EntryIsOurs ==
  ASSUME Exes \subseteq Recognised, NEW a, NEW e \in Exes
  PROVE  Entry(a, e) \in Hooks /\ IsOurs(Entry(a, e))
  BY DEF Entry, Hooks, IsOurs

LEMMA VerdictSettled ==
  ASSUME NEW a, NEW hs, NEW e, Ours(hs) # {}, hs[First(Ours(hs))] = Entry(a, e)
  PROVE  Verdict(a, hs, e, FALSE) = "AlreadyConfigured"
  BY DEF Verdict

LEMMA InstalledHooks ==
  ASSUME Exes \subseteq Recognised, NEW a \in Agents, NEW hs \in Seq(Hooks), NEW e \in Exes, Ours(hs) = {}
  PROVE  LET new == NewHooks(a, hs, e, FALSE)
         IN Verdict(a, new, e, FALSE) = "AlreadyConfigured" /\ Cardinality(Ours(new)) = 1
<1> DEFINE new == Append(hs, Entry(a, e))
           n == Len(hs) + 1
<1>1. Entry(a, e) \in Hooks /\ IsOurs(Entry(a, e))
  BY EntryIsOurs
<1>2. /\ new \in Seq(Hooks) /\ Len(new) = n /\ new[n] = Entry(a, e)
      /\ \A i \in 1..Len(hs) : new[i] = hs[i]
  BY <1>1, AppendProperties
<1>3. NewHooks(a, hs, e, FALSE) = new
  BY DEF NewHooks
<1>4. n \in Nat /\ Len(hs) \in Nat
  OBVIOUS
<1> HIDE DEF new
<1>5. \A i \in 1..Len(hs) : ~IsOurs(hs[i])
  BY DEF Ours
<1>6. \A i : i \in Ours(new) <=> i = n
  <2>1. \A i \in 1..n : i = n \/ i \in 1..Len(hs)
    BY <1>4
  <2>2. DOMAIN new = 1..n
    BY <1>2
  <2>. QED BY <1>1, <1>2, <1>4, <1>5, <2>1, <2>2 DEF Ours
<1>7. Ours(new) = {n}
  BY <1>6
<1>8. First(Ours(new)) = n
  BY <1>4, <1>7, FirstIsLeast
<1>. QED BY <1>2, <1>3, <1>7, <1>8, VerdictSettled, FS_Singleton

LEMMA UpdatedHooks ==
  ASSUME Exes \subseteq Recognised, NEW a \in Agents, NEW hs \in Seq(Hooks), NEW e \in Exes, Ours(hs) # {}
  PROVE  LET new == NewHooks(a, hs, e, FALSE)
         IN Verdict(a, new, e, FALSE) = "AlreadyConfigured" /\ Ours(new) = Ours(hs)
<1> DEFINE i == First(Ours(hs))
           new == [hs EXCEPT ![i] = Entry(a, e)]
<1>1. Entry(a, e) \in Hooks /\ IsOurs(Entry(a, e))
  BY EntryIsOurs
<1>2. i \in 1..Len(hs) /\ IsOurs(hs[i])
  BY OursInside
<1>3. NewHooks(a, hs, e, FALSE) = new
  BY DEF NewHooks
<1> HIDE DEF i
<1>4. /\ new \in Seq(Hooks) /\ DOMAIN new = DOMAIN hs /\ new[i] = Entry(a, e)
      /\ \A j \in 1..Len(hs) : j # i => new[j] = hs[j]
  BY <1>1, <1>2, ExceptSeq
<1> HIDE DEF new
<1>5. \A j \in DOMAIN hs : IsOurs(new[j]) <=> IsOurs(hs[j])
  BY <1>1, <1>2, <1>4
<1>6. Ours(new) = Ours(hs)
  BY <1>4, <1>5 DEF Ours
<1>. QED BY <1>3, <1>4, <1>6, VerdictSettled DEF i

LEMMA RemovedHooks ==
  ASSUME NEW a \in Agents, NEW hs \in Seq(Hooks), NEW e \in Exes, Ours(hs) # {}
  PROVE  Cardinality(Ours(NewHooks(a, hs, e, TRUE))) + 1 = Cardinality(Ours(hs))
<1> DEFINE i == First(Ours(hs))
           x == SubSeq(hs, 1, i - 1)
           y == SubSeq(hs, i + 1, Len(hs))
           new == x \o y
           S == Ours(hs) \ {i}
           f == [j \in S |-> IF j < i THEN j ELSE j - 1]
<1>1. i \in Ours(hs) /\ i \in 1..Len(hs)
  <2>1. Ours(hs) \subseteq Nat
    BY DEF Ours
  <2>. QED BY <2>1, FirstIsLeast, OursInside
<1>2. NewHooks(a, hs, e, TRUE) = new
  BY DEF NewHooks, Drop
<1> HIDE DEF i
<1>3. x \in Seq(Hooks) /\ Len(x) = i - 1 /\ \A j \in 1..(i - 1) : x[j] = hs[j]
  BY <1>1, SubSeqProperties
<1>4. /\ y \in Seq(Hooks) /\ Len(y) = Len(hs) - i
      /\ \A j \in 1..(Len(hs) - i) : y[j] = hs[i + j]
  BY <1>1, SubSeqProperties
<1> HIDE DEF x, y
<1>5. /\ new \in Seq(Hooks) /\ Len(new) = Len(x) + Len(y)
      /\ \A j \in 1..Len(x) : j \in DOMAIN new /\ new[j] = x[j]
      /\ \A j \in 1..Len(y) : Len(x) + j \in DOMAIN new /\ new[Len(x) + j] = y[j]
  <2>1. x \in Seq(Hooks) /\ y \in Seq(Hooks)
    BY <1>3, <1>4
  <2>. QED BY <2>1, ConcatParts
<1> HIDE DEF new
<1>6. DOMAIN new = 1..(Len(hs) - 1)
  BY <1>1, <1>3, <1>4, <1>5
<1>7. \A j \in 1..Len(hs) : j < i => j \in DOMAIN new /\ new[j] = hs[j]
  <2> TAKE j \in 1..Len(hs)
  <2> HAVE j < i
  <2>1. j \in 1..(i - 1) /\ j \in 1..Len(x)
    BY <1>1, <1>3
  <2>. QED BY <1>3, <1>5, <2>1
<1>8. \A j \in 1..Len(hs) : j > i => j - 1 \in DOMAIN new /\ new[j - 1] = hs[j]
  <2> TAKE j \in 1..Len(hs)
  <2> HAVE j > i
  <2>1. j - i \in 1..Len(y) /\ i + (j - i) = j /\ Len(x) + (j - i) = j - 1
    BY <1>1, <1>3, <1>4
  <2>2. y[j - i] = hs[j]
    BY <1>4, <2>1
  <2>. QED BY <1>5, <2>1, <2>2
<1>9. IsFiniteSet(Ours(hs)) /\ Cardinality(Ours(hs)) \in Nat
  BY OursFinite
<1>10. IsFiniteSet(S) /\ Cardinality(S) = Cardinality(Ours(hs)) - 1
  BY <1>1, <1>9, FS_RemoveElement
<1>11. \A j \in S : j \in 1..Len(hs) /\ j # i /\ IsOurs(hs[j])
  BY DEF Ours
<1>12. f \in [S -> Ours(new)]
  <2>1. ASSUME NEW j \in S PROVE f[j] \in Ours(new)
    <3>1. CASE j < i
      BY <1>7, <1>11, <3>1 DEF Ours
    <3>2. CASE ~ (j < i)
      <4>1. j > i
        BY <1>1, <1>11, <3>2
      <4>. QED BY <1>8, <1>11, <3>2, <4>1 DEF Ours
    <3>. QED BY <3>1, <3>2
  <2>. QED BY <2>1
<1>13. \A j, k \in S : f[j] = f[k] => j = k
  <2> TAKE j, k \in S
  <2>1. /\ j \in Nat /\ k \in Nat /\ i \in Nat /\ j # i /\ k # i
        /\ f[j] = (IF j < i THEN j ELSE j - 1) /\ f[k] = (IF k < i THEN k ELSE k - 1)
    BY <1>1, <1>11
  <2> HIDE DEF f, S
  <2>. QED BY <2>1
<1>14. \A t \in Ours(new) : \E j \in S : f[j] = t
  <2> TAKE t \in Ours(new)
  <2>1. t \in 1..(Len(hs) - 1) /\ IsOurs(new[t])
    BY <1>6 DEF Ours
  <2>2. CASE t < i
    <3>1. t \in 1..Len(hs) /\ new[t] = hs[t]
      BY <1>1, <1>7, <2>1, <2>2
    <3>2. t \in S
      BY <2>1, <2>2, <3>1 DEF Ours
    <3>. QED BY <2>2, <3>2
  <2>3. CASE ~ (t < i)
    <3>1. t + 1 \in 1..Len(hs) /\ t + 1 > i /\ (t + 1) - 1 = t
      BY <1>1, <2>1, <2>3
    <3>2. new[t] = hs[t + 1]
      BY <1>8, <3>1
    <3>3. t + 1 \in S
      BY <2>1, <3>1, <3>2 DEF Ours
    <3>4. f[t + 1] = t
      BY <1>1, <3>1, <3>3
    <3>. QED BY <3>3, <3>4
  <2>. QED BY <2>2, <2>3
<1>15. Cardinality(Ours(new)) = Cardinality(S)
  <2> HIDE DEF f, S
  <2>. QED BY <1>10, <1>12, <1>13, <1>14, SameSizeOfHooks
<1> HIDE DEF f, S
<1>16. Cardinality(Ours(new)) + 1 = Cardinality(Ours(hs))
  BY <1>9, <1>10, <1>15
<1>. QED BY <1>2, <1>16, Zenon

-----------------------------------------------------------------------------
(* What the line parser reads back. *)

LEMMA TableBefore ==
  ASSUME NEW ls, NEW r, NEW p \in Nat, \A i \in 1..p : r[i] = ls[i], NEW k \in 1..(p + 1)
  PROVE  InHooks(r, k) <=> InHooks(ls, k)
<1>1. \A h \in 1..(k - 1) : h \in 1..p /\ r[h] = ls[h]
  OBVIOUS
<1>2. \A h \in 1..(k - 1) : \A j \in (h + 1)..(k - 1) : r[j] = ls[j]
  <2> TAKE h \in 1..(k - 1)
  <2> TAKE j \in (h + 1)..(k - 1)
  <2>1. j \in 1..(k - 1)
    OBVIOUS
  <2>. QED BY <1>1, <2>1
<1>. QED BY <1>1, <1>2 DEF InHooks

(* The hooks are in the n-th, the n+1-st, ... line of an array: they are   *)
(* what is read from it.                                                   *)
LEMMA NthOfInterval ==
  ASSUME NEW s \in Nat, NEW n \in Nat, NEW k \in 1..n
  PROVE  /\ Cardinality((s + 1)..(s + n)) = n
         /\ Nth((s + 1)..(s + n), k) = s + k
<1> DEFINE I == (s + 1)..(s + n)
<1>1. Cardinality(I) = n
  BY FS_Interval
<1>2. \A i \in I : Cardinality({j \in I : j <= i}) = i - s
  <2> TAKE i \in I
  <2>1. {j \in I : j <= i} = (s + 1)..i
    OBVIOUS
  <2>2. Cardinality((s + 1)..i) = i - s
    BY FS_Interval
  <2>. QED BY <2>1, <2>2
<1>3. s + k \in I
  OBVIOUS
<1>4. \A i \in I : i - s = k <=> i = s + k
  OBVIOUS
<1>5. Nth(I, k) = CHOOSE i \in I : i - s = k
  BY <1>2 DEF Nth
<1> HIDE DEF I
<1>6. Nth(I, k) = s + k
  BY <1>3, <1>4, <1>5
<1>. QED BY <1>1, <1>6 DEF I

LEMMA SpliceValues ==
  ASSUME NEW ls \in Seq(Lines), NEW p \in 0..Len(ls), NEW q \in p..Len(ls), NEW hs \in Seq(Hooks),
         \A h \in HooksOf(hs) : Basic(h),
         \A i \in 1..p : i \notin Starts(ls), InHooks(ls, p + 1)
  PROVE  HasValue(Splice(ls, p, q, hs)) /\ Values(Splice(ls, p, q, hs)) = hs
<1> DEFINE r == Splice(ls, p, q, hs)
           n == Len(hs)
           s == p + 1
           e == s + n + 1
<1>1. /\ r \in Seq(Lines) /\ Len(r) = p + (n + 2) + (Len(ls) - q)
      /\ \A i \in 1..p : r[i] = ls[i]
      /\ \A i \in 1..(n + 2) : r[p + i] = Block(hs)[i]
  BY SpliceParts
<1>2. /\ Block(hs)[1] = Line("open", <<>>)
      /\ \A i \in 1..n : Block(hs)[1 + i] = Line("item", <<hs[i]>>)
      /\ Block(hs)[n + 2] = Line("close", <<>>)
  BY BlockParts
<1>0. \A k \in 1..n : Basic(hs[k])
  BY DEF HooksOf
<1>3. n \in Nat /\ p \in Nat /\ q \in Nat /\ Len(ls) \in Nat /\ p <= Len(ls) /\ q <= Len(ls)
  OBVIOUS
<1> HIDE DEF r, n
<1>4. s \in 1..Len(r) /\ e \in 1..Len(r) /\ DOMAIN r = 1..Len(r) /\ DOMAIN ls = 1..Len(ls)
  BY <1>1, <1>3
<1>5. r[s].kind = "open"
  <2>1. 1 \in 1..(n + 2)
    BY <1>3
  <2>2. r[p + 1] = Line("open", <<>>)
    BY <1>1, <1>2, <2>1
  <2>. QED BY <2>2 DEF Line
<1>6. r[e].kind = "close"
  <2>1. n + 2 \in 1..(n + 2) /\ p + (n + 2) = e
    BY <1>3
  <2>2. r[p + (n + 2)] = Line("close", <<>>)
    BY <1>1, <1>2, <2>1
  <2>. QED BY <2>1, <2>2 DEF Line
<1>7. \A k \in 1..n : r[s + k].kind = "item" /\ r[s + k].hooks = <<hs[k]>>
  <2> TAKE k \in 1..n
  <2>1. 1 + k \in 1..(n + 2) /\ p + (1 + k) = s + k
    BY <1>3
  <2>2. r[p + (1 + k)] = Line("item", <<hs[k]>>)
    BY <1>1, <1>2, <2>1
  <2>3. r[s + k] = Line("item", <<hs[k]>>)
    BY <2>1, <2>2
  <2>. QED BY <2>3 DEF Line
<1>8. First(Starts(r)) = s
  <2>1. s \in Starts(r)
    <3>1. InHooks(r, s)
      <4>1. s \in 1..(p + 1)
        BY <1>3
      <4>. QED BY <1>1, <1>3, <4>1, TableBefore
    <3>. QED BY <1>4, <1>5, <3>1 DEF Starts
  <2>2. \A i \in Starts(r) : s <= i
    <3>1. SUFFICES ASSUME NEW i \in 1..p, i \in Starts(r) PROVE FALSE
      <4>1. \A i \in Starts(r) : i \in 1..Len(r)
        BY <1>4 DEF Starts
      <4>. QED BY <1>3, <3>1, <4>1
    <3>2. i \in 1..(p + 1) /\ i \in DOMAIN ls /\ r[i] = ls[i]
      BY <1>1, <1>3, <1>4
    <3>3. InHooks(ls, i)
      BY <1>1, <1>3, <3>1, <3>2, TableBefore DEF Starts
    <3>. QED BY <3>1, <3>2, <3>3 DEF Starts
  <2>3. Starts(r) \subseteq Nat
    BY <1>4 DEF Starts
  <2> DEFINE f == First(Starts(r))
  <2>4. f \in Starts(r) /\ \A i \in Starts(r) : f <= i
    BY <2>1, <2>3, FirstIsLeast
  <2> HIDE DEF f
  <2>5. f = s
    BY <1>3, <2>1, <2>2, <2>3, <2>4
  <2>. QED BY <2>5 DEF f
<1>9. Ends(r, s) # {} /\ First(Ends(r, s)) = e
  <2> DEFINE E == Ends(r, s)
             f == First(E)
  <2>1. E = {i \in 1..Len(r) : s < i /\ r[i].kind = "close"}
    BY <1>4, <1>5 DEF Ends
  <2> HIDE DEF E
  <2>2. e \in E
    BY <1>3, <1>4, <1>6, <2>1
  <2>3. \A i \in E : e <= i
    <3>1. SUFFICES ASSUME NEW i \in E, i < e PROVE FALSE
      BY <1>3, <2>1
    <3>2. i - s \in 1..n /\ s + (i - s) = i
      BY <1>3, <2>1, <3>1
    <3>3. r[s + (i - s)].kind = "item"
      BY <1>7, <3>2
    <3>. QED BY <2>1, <3>2, <3>3
  <2>4. E \subseteq Nat
    BY <2>1
  <2>5. f \in E /\ \A i \in E : f <= i
    BY <2>2, <2>4, FirstIsLeast
  <2> HIDE DEF f
  <2>6. f = e
    BY <1>3, <2>2, <2>3, <2>4, <2>5
  <2>. QED BY <2>2, <2>6 DEF f, E
<1> DEFINE I == (s + 1)..(s + n)
<1>10. Items(r, s, e) = I
  <2>1. (s + 1)..(e - 1) = I
    BY <1>3
  <2>2. \A i \in I : r[i].kind = "item" /\ r[i].hooks # <<>> /\ Basic(r[i].hooks[1])
    <3> TAKE i \in I
    <3>1. i - s \in 1..n /\ s + (i - s) = i
      BY <1>3
    <3>2. r[s + (i - s)].kind = "item" /\ r[s + (i - s)].hooks = <<hs[i - s]>>
      BY <1>7, <3>1
    <3>3. <<hs[i - s]>> # <<>> /\ <<hs[i - s]>>[1] = hs[i - s]
      OBVIOUS
    <3>4. Basic(hs[i - s])
      BY <1>0, <3>1
    <3>. QED BY <3>1, <3>2, <3>3, <3>4
  <2>3. \A i \in I : r[i].kind \in {"item", "last"} /\ r[i].hooks # <<>> /\ Basic(r[i].hooks[1])
    BY <2>2
  <2> HIDE DEF I
  <2>. QED BY <2>1, <2>3 DEF Items
<1>11. Cardinality(I) = n
  BY <1>3, FS_Interval
<1>12. HasValue(r)
  <2>1. Starts(r) # {}
    <3>1. s \in Starts(r)
      <4>1. InHooks(r, s)
        <5>1. s \in 1..(p + 1)
          BY <1>3
        <5>. QED BY <1>1, <1>3, <5>1, TableBefore
      <4>. QED BY <1>4, <1>5, <4>1 DEF Starts
    <3>. QED BY <3>1
  <2>. QED BY <1>8, <1>9, <2>1 DEF HasValue
<1>13. Values(r) = [k \in 1..Cardinality(I) |-> r[Nth(I, k)].hooks[1]]
  <2>1. ~ (r[s].kind # "open")
    BY <1>5
  <2>2. First(Ends(r, First(Starts(r)))) = e
    BY <1>8, <1>9
  <2> HIDE DEF s, e, I
  <2>3. Items(r, First(Starts(r)), First(Ends(r, First(Starts(r))))) = I
    BY <1>8, <1>10, <2>2
  <2>. QED BY <1>8, <1>12, <2>1, <2>3, Zenon DEF Values
<1>14. \A k \in 1..n : r[Nth(I, k)].hooks[1] = hs[k]
  <2> TAKE k \in 1..n
  <2>0. s \in Nat
    BY <1>3
  <2>1. Nth(I, k) = s + k
    <3> HIDE DEF s
    <3>. QED BY <1>3, <2>0, NthOfInterval
  <2>2. r[s + k].hooks = <<hs[k]>>
    BY <1>7
  <2>. QED BY <2>1, <2>2
<1> HIDE DEF I
<1>15. Values(r) = [k \in 1..n |-> hs[k]]
  BY <1>11, <1>13, <1>14
<1>16. [k \in 1..n |-> hs[k]] = hs
  BY DEF n
<1>. QED BY <1>12, <1>15, <1>16 DEF r

(* What is written to a TOML file is what the next setup reads from it.    *)
(* The file has a value, or one place where it goes.                       *)
Readable(ls) == HasValue(ls) \/ OneTable(ls)

LEMMA ValuesOfRebuilt ==
  ASSUME NEW ls \in Seq(Lines), Readable(ls), NEW hs \in Seq(Hooks), \A x \in HooksOf(hs) : Basic(x)
  PROVE  HasValue(Rebuilt(ls, hs)) /\ Values(Rebuilt(ls, hs)) = hs
<1> DEFINE s == First(Starts(ls))
           e == First(Ends(ls, s))
           h == LastOf(Headers(ls))
           l == Append(ls, Line("hooks", <<>>))
<1>0. DOMAIN ls = 1..Len(ls) /\ Len(ls) \in Nat
  OBVIOUS
<1>a. Starts(ls) \subseteq Nat
  BY <1>0 DEF Starts
<1>1. CASE HasValue(ls)
  <2>1. s \in 1..Len(ls) /\ e \in s..Len(ls)
    BY <1>1, ValueInside
  <2>2. Rebuilt(ls, hs) = Splice(ls, s - 1, e, hs)
    BY <1>1 DEF Rebuilt
  <2>3. s \in Starts(ls) /\ \A i \in Starts(ls) : s <= i
    BY <1>1, <1>a, FirstIsLeast DEF HasValue
  <2> HIDE DEF s, e
  <2>4. /\ s - 1 \in 0..Len(ls) /\ e \in (s - 1)..Len(ls) /\ (s - 1) + 1 = s
        /\ \A i \in 1..(s - 1) : i \notin Starts(ls)
    BY <2>1, <2>3
  <2>5. InHooks(ls, (s - 1) + 1)
    BY <2>3, <2>4 DEF Starts
  <2>. QED BY <2>2, <2>4, <2>5, SpliceValues
<1>2. CASE ~HasValue(ls) /\ Headers(ls) # {}
  <2>1. Headers(ls) \subseteq 0..Len(ls)
    BY DEF Headers
  <2>2. h \in Headers(ls)
    BY <1>2, <2>1, LastIsGreatest
  <2>3. Rebuilt(ls, hs) = Splice(ls, h, h, hs)
    BY <1>2 DEF Rebuilt
  <2> HIDE DEF h
  <2>4. h \in 1..Len(ls) /\ ls[h].kind = "hooks"
    BY <2>2 DEF Headers
  <2>5. h \in 0..Len(ls) /\ h \in h..Len(ls) /\ \A i \in 1..h : i \notin Starts(ls)
    <3>1. ASSUME NEW i \in 1..h, i \in Starts(ls) PROVE FALSE
      <4>1. PICK g \in 1..(i - 1) : ls[g].kind = "hooks"
        BY <3>1 DEF Starts, InHooks
      <4>2. g \in DOMAIN ls /\ h \in DOMAIN ls /\ g # h
        BY <1>0, <2>4, <3>1, <4>1
      <4>. QED BY <1>2, <2>4, <4>1, <4>2 DEF Readable, OneTable
    <3>. QED BY <2>4, <3>1
  <2>6. InHooks(ls, h + 1)
    <3>1. h \in 1..((h + 1) - 1) /\ (h + 1)..((h + 1) - 1) = {}
      BY <2>4
    <3>. QED BY <2>4, <3>1 DEF InHooks
  <2>. QED BY <2>3, <2>5, <2>6, SpliceValues
<1>3. CASE ~HasValue(ls) /\ Headers(ls) = {}
  <2> DEFINE n == Len(ls) + 1
  <2>1. Starts(ls) = {}
    <3>1. SUFFICES ASSUME Starts(ls) # {} PROVE FALSE
      OBVIOUS
    <3>2. s \in Starts(ls) /\ \A i \in Starts(ls) : s <= i
      BY <1>a, <3>1, FirstIsLeast
    <3> HIDE DEF s
    <3>3. s \in 1..Len(ls) /\ InHooks(ls, s)
      BY <3>2 DEF Starts
    <3>4. PICK g \in 1..(s - 1) : ls[g].kind = "hooks"
      BY <3>3 DEF InHooks
    <3>5. g \in DOMAIN ls /\ g < s
      BY <1>0, <3>3, <3>4
    <3>. QED BY <1>3, <3>4, <3>5 DEF Headers, s
  <2>2. Line("hooks", <<>>) \in Lines /\ Line("hooks", <<>>).kind = "hooks"
    <3>1. <<>> \in Seq(Hooks) /\ "hooks" \in Kinds
      BY DEF Kinds
    <3>. QED BY <3>1, LineIsLine
  <2>3. l \in Seq(Lines) /\ Len(l) = n /\ l[n] = Line("hooks", <<>>) /\ \A i \in 1..Len(ls) : l[i] = ls[i]
    BY <2>2, AppendProperties
  <2>4. Rebuilt(ls, hs) = Splice(l, n, n, hs)
    BY <1>3 DEF Rebuilt
  <2> HIDE DEF l
  <2>5. n \in 0..Len(l) /\ n \in n..Len(l) /\ DOMAIN l = 1..n /\ n \in Nat
    BY <1>0, <2>3
  <2>6. \A i \in 1..n : i \notin Starts(l)
    <3> SUFFICES ASSUME NEW i \in 1..n, i \in Starts(l) PROVE FALSE
      OBVIOUS
    <3>1. l[i].kind \in {"open", "array", "string"} /\ InHooks(l, i)
      BY DEF Starts
    <3>2. i \in 1..Len(ls)
      <4>1. i # n
        BY <2>2, <2>3, <3>1
      <4>. QED BY <1>0, <4>1
    <3>3. InHooks(ls, i) /\ ls[i] = l[i]
      <4>1. i \in 1..(Len(ls) + 1)
        BY <1>0
      <4>2. InHooks(l, i) <=> InHooks(ls, i)
        BY <1>0, <2>3, <4>1, TableBefore
      <4>. QED BY <2>3, <3>1, <3>2, <4>2
    <3>4. i \in Starts(ls)
      BY <1>0, <3>1, <3>2, <3>3 DEF Starts
    <3>. QED BY <2>1, <3>4
  <2>7. InHooks(l, n + 1)
    <3>1. n \in 1..((n + 1) - 1) /\ (n + 1)..((n + 1) - 1) = {}
      BY <2>5
    <3>. QED BY <2>2, <2>3, <3>1 DEF InHooks
  <2> HIDE DEF n
  <2>. QED BY <2>3, <2>4, <2>5, <2>6, <2>7, SpliceValues
<1>. QED BY <1>1, <1>2, <1>3

-----------------------------------------------------------------------------
(* What was done is what is reported. *)

LEMMA NewHooksAreRead ==
  ASSUME NEW a \in Agents, NEW c \in Contents(a), a = "codex" => Readable(c),
         NEW e \in Exes, NEW remove \in BOOLEAN
  PROVE  LET new == NewContent(a, c, e, remove)
         IN /\ HooksIn(a, new) = NewHooks(a, HooksIn(a, c), e, remove)
            /\ a = "codex" => Readable(new)
<1> DEFINE hs == NewHooks(a, HooksIn(a, c), e, remove)
<1>1. HooksIn(a, c) \in Seq(Hooks) /\ Clean(a, HooksIn(a, c))
  BY HooksInClean
<1>2. hs \in Seq(Hooks) /\ Clean(a, hs)
  BY <1>1, NewHooksKeepUsers, NewHooksClean
<1>3. NewContent(a, c, e, remove) = IF a = "claude" THEN hs ELSE Rebuilt(c, hs)
  BY DEF NewContent
<1> HIDE DEF hs
<1>4. Decoded(a, hs) = hs
  BY <1>2, DecodedType
<1>5. CASE a = "claude"
  BY <1>3, <1>4, <1>5 DEF HooksIn, hs
<1>6. CASE a = "codex"
  <2>1. c \in Seq(Lines) /\ Readable(c) /\ \A x \in HooksOf(hs) : Basic(x)
    BY <1>2, <1>6 DEF Contents, Clean, ReadBack
  <2>2. HasValue(Rebuilt(c, hs)) /\ Values(Rebuilt(c, hs)) = hs
    BY <1>2, <2>1, ValuesOfRebuilt
  <2>. QED BY <1>3, <1>4, <1>6, <2>2 DEF HooksIn, Readable, hs
<1>. QED BY <1>5, <1>6 DEF Agents

(* The hooks are now, the hooks that were and the verdict fit together.    *)
Fits(a, now, was, e, remove, v) ==
  /\ v \in {"Installed", "Updated", "AlreadyConfigured"} /\ ~remove =>
       /\ Verdict(a, now, e, FALSE) = "AlreadyConfigured"
       /\ Cardinality(Ours(now)) =
            (IF Cardinality(Ours(was)) = 0 THEN 1 ELSE Cardinality(Ours(was)))
  /\ v = "Removed" => Cardinality(Ours(now)) + 1 = Cardinality(Ours(was))

LEMMA PlanFits ==
  ASSUME Exes \subseteq Recognised, NEW a \in Agents, NEW c \in Contents(a),
         a = "codex" => Readable(c), NEW e \in Exes, NEW remove \in BOOLEAN
  PROVE  Fits(a, HooksIn(a, NewContent(a, c, e, remove)), HooksIn(a, c), e, remove,
              Verdict(a, HooksIn(a, c), e, remove))
<1> DEFINE was == HooksIn(a, c)
           v == Verdict(a, was, e, remove)
           now == HooksIn(a, NewContent(a, c, e, remove))
<1>1. was \in Seq(Hooks)
  BY HooksInClean
<1>2. now = NewHooks(a, was, e, remove)
  BY NewHooksAreRead
<1>3. v = Verdict(a, was, e, remove)
  OBVIOUS
<1> HIDE DEF was, v, now
<1>4. Cardinality(Ours(was)) = 0 <=> Ours(was) = {}
  BY <1>1, OursFinite
<1>5. ASSUME remove = FALSE PROVE Fits(a, now, was, e, remove, v)
  <2>1. v # "Removed"
    BY <1>3, <1>5 DEF Verdict
  <2>2. CASE Ours(was) = {}
    <3>1. Verdict(a, now, e, FALSE) = "AlreadyConfigured" /\ Cardinality(Ours(now)) = 1
      BY <1>1, <1>2, <1>5, <2>2, InstalledHooks
    <3>. QED BY <1>4, <2>1, <2>2, <3>1 DEF Fits
  <2>3. CASE Ours(was) # {}
    <3>1. Verdict(a, now, e, FALSE) = "AlreadyConfigured" /\ Ours(now) = Ours(was)
      BY <1>1, <1>2, <1>5, <2>3, UpdatedHooks
    <3>. QED BY <1>4, <2>1, <2>3, <3>1 DEF Fits
  <2>. QED BY <2>2, <2>3
<1>6. ASSUME remove = TRUE PROVE Fits(a, now, was, e, remove, v)
  <2>1. CASE Ours(was) = {}
    <3>1. v # "Removed"
      BY <1>3, <2>1, <1>6 DEF Verdict
    <3>. QED BY <1>6, <3>1 DEF Fits
  <2>2. CASE Ours(was) # {}
    <3>1. Cardinality(Ours(now)) + 1 = Cardinality(Ours(was))
      BY <1>1, <1>2, <1>6, <2>2, RemovedHooks
    <3>. QED BY <1>6, <3>1 DEF Fits
  <2>. QED BY <2>1, <2>2
<1>7. Fits(a, now, was, e, remove, v)
  BY <1>5, <1>6
<1>. QED BY <1>7 DEF v, now, was

LEMMA NothingToDoFits ==
  ASSUME NEW a \in Agents, NEW c \in Contents(a), NEW e \in Exes, NEW remove \in BOOLEAN,
         Verdict(a, HooksIn(a, c), e, remove) = "AlreadyConfigured"
  PROVE  Fits(a, HooksIn(a, c), HooksIn(a, c), e, remove, "AlreadyConfigured")
<1> DEFINE was == HooksIn(a, c)
<1>1. CASE remove = FALSE
  <2>1. was \in Seq(Hooks) /\ Verdict(a, was, e, FALSE) = "AlreadyConfigured"
    BY <1>1, HooksInClean
  <2> HIDE DEF was
  <2>2. Ours(was) # {}
    BY <2>1 DEF Verdict
  <2>3. Cardinality(Ours(was)) # 0
    BY <2>1, <2>2, OursFinite
  <2>4. Fits(a, was, was, e, remove, "AlreadyConfigured")
    BY <2>1, <2>3 DEF Fits
  <2>. QED BY <1>1, <2>4 DEF was
<1>2. CASE remove = TRUE
  BY <1>2 DEF Fits
<1>. QED BY <1>1, <1>2

(* The TOML files stay readable: what is written has a value.              *)
TablesInv ==
  /\ Readable(TextOf(config["codex"])) /\ Readable(TextOf(tmp["codex"]))
  /\ Busy /\ Turn = "codex" => Readable(plan.content)

LEMMA EmptyReadable == Readable(<<>>)
<1>1. DOMAIN <<>> = {}
  OBVIOUS
<1>. QED BY <1>1 DEF Readable, OneTable

LEMMA TablesInit ==
  ASSUME \A ls \in TomlFiles : OneTable(ls), SetupInit
  PROVE  TablesInv
<1>1. config["codex"] \in TomlFiles \cup {NoFile} /\ tmp["codex"] = NoFile /\ pc = "idle"
  BY DEF SetupInit, Agents
<1>. QED BY <1>1, EmptyReadable DEF TablesInv, TextOf, Readable, Busy

LEMMA TablesRead ==
  ASSUME SetupTypeOK, TablesInv, Read
  PROVE  TablesInv'
<1>1. pc = "read" /\ UNCHANGED <<config, tmp>>
  BY DEF Read, fileVars
<1>2. Turn \in Agents
  BY <1>1, TurnIn
<1>3. PICK c \in Seen(Turn) :
        \/ \E r : Report(r)
        \/ /\ plan'.content = NewContent(Turn, c, exe, args.remove)
           /\ todo' = todo
  <2>1. PICK c \in Seen(Turn) :
          \/ \E r : Report(r)
          \/ /\ plan' = [verdict |-> Verdict(Turn, HooksIn(Turn, c), exe, args.remove),
                         content |-> NewContent(Turn, c, exe, args.remove)]
             /\ UNCHANGED <<runVars, todo, result>>
    BY Zenon DEF Read
  <2>2. ASSUME plan' = [verdict |-> Verdict(Turn, HooksIn(Turn, c), exe, args.remove),
                       content |-> NewContent(Turn, c, exe, args.remove)]
        PROVE  plan'.content = NewContent(Turn, c, exe, args.remove)
    BY <2>2
  <2>3. UNCHANGED <<runVars, todo, result>> => todo' = todo
    OBVIOUS
  <2>. QED BY <2>1, <2>2, <2>3, Zenon
<1>4. c \in Contents(Turn)
  BY <1>2, SeenType DEF SetupTypeOK
<1>5. args.remove \in BOOLEAN /\ exe \in Exes
  BY DEF SetupTypeOK
<1>6. Turn = "codex" => Readable(c)
  <2>1. ASSUME Turn = "codex" PROVE Readable(c)
    <3>1. c = TextOf(config[Turn]) \/ c = <<>>
      <4>1. Turn # "claude"
        BY <2>1
      <4>. QED BY <4>1, Zenon DEF Seen
    <3>. QED BY <2>1, <3>1, EmptyReadable DEF TablesInv
  <2>. QED BY <2>1
<1>7. CASE \E r : Report(r)
  BY <1>1, <1>7 DEF Report, TablesInv, Busy
<1>8. CASE plan'.content = NewContent(Turn, c, exe, args.remove) /\ todo' = todo
  <2>1. Turn' = Turn
    BY <1>8 DEF Turn
  <2>2. Turn = "codex" => Readable(plan'.content)
    BY <1>2, <1>4, <1>5, <1>6, <1>8, NewHooksAreRead
  <2>. QED BY <1>1, <2>1, <2>2 DEF TablesInv
<1>. QED BY <1>3, <1>7, <1>8

LEMMA TablesStep == SetupTypeOK /\ TablesInv /\ [SetupNext]_setupVars => TablesInv'
<1> SUFFICES ASSUME SetupTypeOK, TablesInv, [SetupNext]_setupVars PROVE TablesInv'
  OBVIOUS
<1>a. ASSUME Busy PROVE Turn \in Agents /\ (Turn = "codex" => plan.content # NoFile /\ Readable(plan.content))
  <2>1. Turn \in Agents
    BY <1>a, TurnIn DEF Busy
  <2>2. plan.content # NoFile
    BY SetupConstantsOK DEF SetupTypeOK, Contents
  <2>. QED BY <1>a, <2>1, <2>2 DEF TablesInv
<1>1. CASE Start
  <2>1. UNCHANGED <<config, tmp>> /\ pc' = "read"
    BY <1>1, Zenon DEF Start, fileVars
  <2>. QED BY <2>1 DEF TablesInv, Busy
<1>2. CASE Read
  BY <1>2, TablesRead
<1>3. CASE OpenTmp
  <2>0. Turn \in Agents /\ Busy
    BY <1>3, <1>a DEF OpenTmp, Busy
  <2>1. CASE tmp' = [tmp EXCEPT ![Turn] = <<>>] /\ UNCHANGED <<config, todo, plan>>
    <3>1. tmp'["codex"] = tmp["codex"] \/ tmp'["codex"] = <<>>
      BY <2>0, <2>1 DEF SetupTypeOK, Agents
    <3>2. Turn' = Turn
      BY <2>1 DEF Turn
    <3>. QED BY <2>0, <2>1, <3>1, <3>2, EmptyReadable DEF TablesInv, TextOf
  <2>2. CASE Report("Failed") /\ UNCHANGED fileVars
    BY <2>2 DEF Report, fileVars, TablesInv, Busy
  <2>. QED BY <1>3, <2>1, <2>2 DEF OpenTmp
<1>4. ASSUME GiveUp, Busy PROVE TablesInv'
  <2>1. tmp'["codex"] = tmp["codex"] \/ tmp'["codex"] = NoFile
    BY <1>4, <1>a DEF GiveUp, SetupTypeOK, Agents
  <2>2. config' = config /\ ~Busy'
    BY <1>4 DEF GiveUp, Report, Busy
  <2>. QED BY <2>1, <2>2, EmptyReadable DEF TablesInv, TextOf
<1>5. CASE Write
  <2>0. Turn \in Agents /\ Busy
    BY <1>5, <1>a DEF Write, Busy
  <2>1. CASE /\ tmp' = [tmp EXCEPT ![Turn] = plan.content] \/ UNCHANGED tmp
             /\ UNCHANGED <<config, todo, plan>>
    <3>1. tmp'["codex"] = tmp["codex"] \/ (Turn = "codex" /\ tmp'["codex"] = plan.content)
      BY <2>0, <2>1 DEF SetupTypeOK, Agents
    <3>2. Turn' = Turn
      BY <2>1 DEF Turn
    <3>. QED BY <1>a, <2>0, <2>1, <3>1, <3>2 DEF TablesInv, TextOf
  <2>. QED BY <1>4, <1>5, <2>0, <2>1 DEF Write
<1>6. CASE Rename
  <2>0. Turn \in Agents /\ Busy
    BY <1>6, <1>a DEF Rename, Busy
  <2>1. CASE /\ config' = [config EXCEPT ![Turn] = tmp[Turn]]
             /\ tmp' = [tmp EXCEPT ![Turn] = NoFile]
             /\ Report(plan.verdict)
    <3>1. /\ config'["codex"] = config["codex"] \/ config'["codex"] = tmp["codex"]
          /\ tmp'["codex"] = tmp["codex"] \/ tmp'["codex"] = NoFile
      BY <2>0, <2>1 DEF SetupTypeOK, Agents
    <3>2. ~Busy'
      BY <2>1 DEF Report, Busy
    <3>. QED BY <3>1, <3>2, EmptyReadable DEF TablesInv, TextOf
  <2>. QED BY <1>4, <1>6, <2>0, <2>1 DEF Rename
<1>7. CASE Crash
  <2>1. UNCHANGED <<config, tmp>> /\ pc' = "idle"
    BY <1>7 DEF Crash, fileVars
  <2>. QED BY <2>1 DEF TablesInv, Busy
<1>8. CASE UNCHANGED setupVars
  <2>1. Turn' = Turn
    BY <1>8 DEF setupVars, Turn
  <2>. QED BY <1>8, <2>1 DEF TablesInv, Busy, setupVars, fileVars
<1>. QED BY <1>1, <1>2, <1>3, <1>5, <1>6, <1>7, <1>8 DEF SetupNext

(* What is planned is what the parser's reading of the file calls for; and *)
(* of the agents that are done with, file, old file and report fit.        *)
FileText(a) == TextOf(config[a])
Fulfilled(a) ==
  ~lossy[a] /\ ~args.dry => Fits(a, HooksNow(a), HooksIn(a, TextOf(before[a])), exe, args.remove, result[a])
PlanTrue ==
  Busy => \/ lossy[Turn]
          \/ /\ plan.verdict = Verdict(Turn, HooksIn(Turn, FileText(Turn)), exe, args.remove)
             /\ plan.content = NewContent(Turn, FileText(Turn), exe, args.remove)
TruthInv == ReportInv /\ TablesInv /\ TmpIsPlan /\ PlanTrue /\ \A a \in Agents : Fulfilled(a)

LEMMA FulfilledSays ==
  ASSUME UntouchedWhenSaidSo, \A a \in Agents : Fulfilled(a)
  PROVE  ReportsTruthful
<1>1. ASSUME NEW a \in Agents, ~lossy[a], ~args.dry
      PROVE  /\ result[a] \in {"Installed", "Updated", "AlreadyConfigured"} /\ ~args.remove =>
                  /\ Verdict(a, HooksNow(a), exe, FALSE) = "AlreadyConfigured"
                  /\ OursNow(a) = (IF OursBefore(a) = 0 THEN 1 ELSE OursBefore(a))
             /\ result[a] = "Removed" => OursNow(a) + 1 = OursBefore(a)
  <2>1. Fits(a, HooksNow(a), HooksIn(a, TextOf(before[a])), exe, args.remove, result[a])
    BY <1>1 DEF Fulfilled
  <2>. QED BY <2>1, Zenon DEF Fits, OursNow, OursBefore
<1>. QED BY <1>1, Zenon DEF ReportsTruthful

LEMMA NoneFits ==
  ASSUME NEW a, NEW now, NEW was, NEW e, NEW remove
  PROVE  Fits(a, now, was, e, remove, "none") /\ Fits(a, now, was, e, remove, "Failed")
  BY DEF Fits

(* An agent's report stands as long as its file, the old file and the      *)
(* run's arguments do.                                                     *)
LEMMA StillFulfilled ==
  ASSUME NEW a \in Agents, Fulfilled(a),
         config'[a] = config[a], before' = before, args' = args, exe' = exe,
         lossy'[a] = lossy[a], result'[a] = result[a]
  PROVE  Fulfilled(a)'
  BY DEF Fulfilled, HooksNow

LEMMA NotYetFulfilled ==
  ASSUME NEW a \in Agents, result'[a] \in {"none", "Failed"}
  PROVE  Fulfilled(a)'
  BY NoneFits DEF Fulfilled

(* One agent's report leaves the others'. *)
LEMMA OthersFulfilled ==
  ASSUME TruthInv, pc # "idle", NEW r, Report(r),
         \A a \in Agents : a # Turn => config'[a] = config[a] /\ lossy'[a] = lossy[a]
  PROVE  /\ \A a \in Agents : a # Turn => Fulfilled(a)'
         /\ result'[Turn] = r /\ ~Busy' /\ TmpIsPlan' /\ PlanTrue'
<1>0. SetupTypeOK /\ \A a \in Agents : Fulfilled(a)
  BY DEF TruthInv, ReportInv
<1>1. Turn \in Agents
  BY <1>0, TurnIn
<1>2. /\ result'[Turn] = r /\ \A a \in Agents : a # Turn => result'[a] = result[a]
      /\ args' = args /\ before' = before /\ exe' = exe
  BY <1>0, <1>1 DEF SetupTypeOK, Report, runVars
<1>3. ~Busy' /\ pc' # "rename"
  BY DEF Report, Busy
<1>4. \A a \in Agents : a # Turn => Fulfilled(a)'
  BY <1>0, <1>2, StillFulfilled
<1>. QED BY <1>2, <1>3, <1>4 DEF TmpIsPlan, PlanTrue

LEMMA TruthRead ==
  ASSUME TruthInv, Read
  PROVE  TmpIsPlan' /\ PlanTrue' /\ \A a \in Agents : Fulfilled(a)'
<1>0. SetupTypeOK /\ ReportInv /\ \A a \in Agents : Fulfilled(a)
  BY DEF TruthInv, ReportInv
<1>1. pc = "read" /\ UNCHANGED <<config, tmp>>
  BY DEF Read, fileVars
<1>2. PICK t \in Agents : t = Turn /\ t \in todo
  BY <1>0, <1>1, TurnIn
<1>3. PICK c \in Seen(t) :
        /\ lossy' = [lossy EXCEPT ![t] = c # FileText(t)]
        /\ \/ /\ Verdict(t, HooksIn(t, c), exe, args.remove) = "AlreadyConfigured" \/ args.dry
              /\ Report(Verdict(t, HooksIn(t, c), exe, args.remove))
           \/ /\ plan' = [verdict |-> Verdict(t, HooksIn(t, c), exe, args.remove),
                          content |-> NewContent(t, c, exe, args.remove)]
              /\ pc' = "open"
              /\ UNCHANGED <<runVars, todo, result>>
  BY <1>2, Zenon DEF Read, FileText
<1>4. args.remove \in BOOLEAN /\ exe \in Exes
  BY <1>0 DEF SetupTypeOK
<1>5. config[t] = before[t] /\ result[t] = "none"
  BY <1>0, <1>2 DEF ReportInv
<1>6. lossy'[t] = (c # FileText(t)) /\ \A a \in Agents : a # t => lossy'[a] = lossy[a]
  BY <1>0, <1>2, <1>3 DEF SetupTypeOK
<1>7. FileText(t) \in Contents(t)
  BY <1>0, <1>2, TextType DEF SetupTypeOK, FileText
<1>8. CASE /\ Verdict(t, HooksIn(t, c), exe, args.remove) = "AlreadyConfigured" \/ args.dry
           /\ Report(Verdict(t, HooksIn(t, c), exe, args.remove))
  <2> DEFINE r == Verdict(t, HooksIn(t, c), exe, args.remove)
  <2>0. Report(r) /\ (r = "AlreadyConfigured" \/ args.dry)
    BY <1>8
  <2> HIDE DEF r
  <2>1. /\ \A a \in Agents : a # t => Fulfilled(a)'
        /\ result'[t] = r /\ TmpIsPlan' /\ PlanTrue'
    BY <1>1, <1>2, <1>6, <2>0, OthersFulfilled
  <2>2. args' = args /\ before' = before /\ exe' = exe
    BY <2>0 DEF Report, runVars
  <2>3. ASSUME ~lossy'[t], ~args.dry
        PROVE  Fits(t, HooksIn(t, TextOf(config[t])), HooksIn(t, TextOf(before[t])), exe, args.remove, r)
    <3>1. c = FileText(t) /\ r = "AlreadyConfigured"
      BY <1>6, <2>0, <2>3
    <3>2. Verdict(t, HooksIn(t, FileText(t)), exe, args.remove) = "AlreadyConfigured"
      BY <3>1 DEF r
    <3>. QED BY <1>4, <1>5, <1>7, <3>1, <3>2, NothingToDoFits DEF FileText
  <2>4. Fulfilled(t)'
    BY <1>1, <2>1, <2>2, <2>3 DEF Fulfilled, HooksNow
  <2>. QED BY <2>1, <2>4
<1>9. CASE /\ plan' = [verdict |-> Verdict(t, HooksIn(t, c), exe, args.remove),
                       content |-> NewContent(t, c, exe, args.remove)]
           /\ pc' = "open"
           /\ UNCHANGED <<runVars, todo, result>>
  <2>1. /\ plan'.verdict = Verdict(t, HooksIn(t, c), exe, args.remove)
        /\ plan'.content = NewContent(t, c, exe, args.remove)
    BY <1>9
  <2>2. Turn' = t /\ args' = args /\ before' = before /\ exe' = exe /\ result' = result
    BY <1>2, <1>9 DEF Turn, runVars
  <2>3. FileText(t)' = FileText(t)
    BY <1>1 DEF FileText
  <2>4. PlanTrue'
    <3>1. CASE c = FileText(t)
      <4>1. FileText(t)' = c
        BY <2>3, <3>1
      <4>2. /\ plan'.verdict = Verdict(t, HooksIn(t, FileText(t)'), exe', args'.remove)
            /\ plan'.content = NewContent(t, FileText(t)', exe', args'.remove)
        BY <2>1, <2>2, <4>1
      <4>. QED BY <2>2, <4>2 DEF PlanTrue
    <3>2. CASE c # FileText(t)
      BY <1>6, <2>2, <3>2 DEF PlanTrue
    <3>. QED BY <3>1, <3>2
  <2>5. Fulfilled(t)'
    BY <1>5, <2>2, NotYetFulfilled
  <2>6. \A a \in Agents : a # t => Fulfilled(a)'
    BY <1>0, <1>1, <1>6, <2>2, StillFulfilled
  <2>7. TmpIsPlan'
    BY <1>9 DEF TmpIsPlan
  <2>. QED BY <2>4, <2>5, <2>6, <2>7
<1>. QED BY <1>3, <1>8, <1>9

LEMMA TruthFailed ==
  ASSUME TruthInv, pc # "idle", Report("Failed"), config' = config, lossy' = lossy
  PROVE  TmpIsPlan' /\ PlanTrue' /\ \A a \in Agents : Fulfilled(a)'
<1>0. SetupTypeOK
  BY DEF TruthInv, ReportInv
<1>1. PICK t \in Agents : t = Turn
  BY <1>0, TurnIn
<1>2. /\ \A a \in Agents : a # t => Fulfilled(a)'
      /\ result'[t] = "Failed" /\ TmpIsPlan' /\ PlanTrue'
  BY <1>1, OthersFulfilled
<1>3. Fulfilled(t)'
  BY <1>2, NotYetFulfilled
<1>. QED BY <1>2, <1>3

(* Opening and writing the temporary file. *)
LEMMA TruthBusy ==
  ASSUME TruthInv, Busy, UNCHANGED <<config, runVars, todo, plan, result>>,
         \A a \in Agents : lossy'[a] = lossy[a] \/ (a = Turn /\ lossy'[a] = TRUE)
  PROVE  PlanTrue' /\ \A a \in Agents : Fulfilled(a)'
<1>0. SetupTypeOK /\ ReportInv /\ PlanTrue /\ \A a \in Agents : Fulfilled(a)
  BY DEF TruthInv, ReportInv
<1>1. PICK t \in Agents : t = Turn /\ t \in todo
  BY <1>0, TurnIn DEF Busy
<1>2. Turn' = t /\ args' = args /\ before' = before /\ exe' = exe
  BY <1>1 DEF Turn, runVars
<1>3. FileText(t)' = FileText(t)
  BY DEF FileText
<1>4. PlanTrue'
  <2>1. CASE lossy'[t] = TRUE
    BY <1>2, <2>1 DEF PlanTrue
  <2>2. CASE lossy'[t] = lossy[t]
    <3>1. \/ lossy[t]
          \/ /\ plan.verdict = Verdict(t, HooksIn(t, FileText(t)), exe, args.remove)
             /\ plan.content = NewContent(t, FileText(t), exe, args.remove)
      BY <1>0, <1>1 DEF PlanTrue
    <3>. QED BY <1>2, <1>3, <2>2, <3>1 DEF PlanTrue
  <2>. QED BY <2>1, <2>2
<1>5. \A a \in Agents : a # t => Fulfilled(a)'
  BY <1>0, <1>1, <1>2, StillFulfilled
<1>6. Fulfilled(t)'
  <2>1. result'[t] = "none"
    BY <1>0, <1>1 DEF ReportInv
  <2>. QED BY <2>1, NotYetFulfilled
<1>. QED BY <1>4, <1>5, <1>6

LEMMA TruthOpen ==
  ASSUME TruthInv, OpenTmp
  PROVE  TmpIsPlan' /\ PlanTrue' /\ \A a \in Agents : Fulfilled(a)'
<1>1. pc = "open" /\ lossy' = lossy
  BY DEF OpenTmp
<1>2. CASE Report("Failed") /\ UNCHANGED fileVars
  BY <1>1, <1>2, TruthFailed DEF fileVars
<1>3. CASE pc' = "write" /\ UNCHANGED <<config, runVars, todo, plan, result>>
  BY <1>1, <1>3, TruthBusy DEF Busy, TmpIsPlan
<1>. QED BY <1>2, <1>3 DEF OpenTmp

LEMMA TruthWrite ==
  ASSUME TruthInv, Write
  PROVE  TmpIsPlan' /\ PlanTrue' /\ \A a \in Agents : Fulfilled(a)'
<1>0. SetupTypeOK
  BY DEF TruthInv, ReportInv
<1>1. pc = "write"
  BY DEF Write
<1>2. Turn \in Agents
  BY <1>0, <1>1, TurnIn
<1>3. CASE GiveUp
  <2>1. Report("Failed") /\ config' = config /\ lossy' = lossy
    BY <1>3 DEF GiveUp
  <2>. QED BY <1>1, <2>1, TruthFailed
<1>4. CASE /\ \/ tmp' = [tmp EXCEPT ![Turn] = plan.content] /\ UNCHANGED lossy
              \/ UNCHANGED tmp /\ lossy' = [lossy EXCEPT ![Turn] = TRUE]
           /\ pc' = "rename"
           /\ UNCHANGED <<config, runVars, todo, plan, result>>
  <2>1. \A a \in Agents : lossy'[a] = lossy[a] \/ (a = Turn /\ lossy'[a] = TRUE)
    BY <1>0, <1>2, <1>4 DEF SetupTypeOK
  <2>2. UNCHANGED <<config, runVars, todo, plan, result>> /\ Busy
    BY <1>1, <1>4 DEF Busy
  <2>3. PlanTrue' /\ \A a \in Agents : Fulfilled(a)'
    BY <2>1, <2>2, TruthBusy
  <2>4. Turn' = Turn
    BY <1>4 DEF Turn
  <2>5. lossy'[Turn] \/ tmp'[Turn] = plan.content
    BY <1>0, <1>2, <1>4 DEF SetupTypeOK
  <2>6. TmpIsPlan'
    BY <1>4, <2>4, <2>5 DEF TmpIsPlan
  <2>. QED BY <2>3, <2>6
<1>. QED BY <1>3, <1>4 DEF Write

LEMMA TruthRename ==
  ASSUME Exes \subseteq Recognised, TruthInv, Rename
  PROVE  TmpIsPlan' /\ PlanTrue' /\ \A a \in Agents : Fulfilled(a)'
<1>0. SetupTypeOK /\ ReportInv /\ TablesInv /\ PlanTrue /\ TmpIsPlan
  BY DEF TruthInv, ReportInv
<1>1. pc = "rename"
  BY DEF Rename
<1>2. PICK t \in Agents : t = Turn /\ t \in todo
  BY <1>0, <1>1, TurnIn
<1>3. CASE GiveUp
  <2>1. Report("Failed") /\ config' = config /\ lossy' = lossy
    BY <1>3 DEF GiveUp
  <2>. QED BY <1>1, <2>1, TruthFailed
<1>4. CASE config' = [config EXCEPT ![Turn] = tmp[Turn]] /\ Report(plan.verdict) /\ lossy' = lossy
  <2>1. config'[t] = tmp[t] /\ \A a \in Agents : a # t => config'[a] = config[a]
    BY <1>0, <1>2, <1>4 DEF SetupTypeOK
  <2>2. /\ \A a \in Agents : a # t => Fulfilled(a)'
        /\ result'[t] = plan.verdict /\ TmpIsPlan' /\ PlanTrue'
    BY <1>1, <1>2, <1>4, <2>1, OthersFulfilled
  <2>3. args' = args /\ before' = before /\ exe' = exe
    BY <1>4 DEF Report, runVars
  <2>4. args.remove \in BOOLEAN /\ exe \in Exes
    BY <1>0 DEF SetupTypeOK
  <2>5. config[t] = before[t]
    BY <1>0, <1>2 DEF ReportInv
  <2>6. FileText(t) \in Contents(t) /\ (t = "codex" => Readable(FileText(t)))
    BY <1>0, TextType DEF SetupTypeOK, FileText, TablesInv
  <2>7. ASSUME ~lossy[t]
        PROVE  Fits(t, HooksIn(t, TextOf(config'[t])), HooksIn(t, TextOf(before[t])), exe, args.remove, plan.verdict)
    <3>1. config'[t] = plan.content
      BY <1>0, <1>1, <1>2, <2>1, <2>7 DEF TmpIsPlan
    <3>2. TextOf(config'[t]) = plan.content
      <4>1. plan.content \in Contents(t)
        BY <1>0, <1>2 DEF SetupTypeOK
      <4>2. plan.content # NoFile
        BY <4>1, SetupConstantsOK DEF Contents
      <4>. QED BY <3>1, <4>2 DEF TextOf
    <3>3. /\ plan.verdict = Verdict(t, HooksIn(t, FileText(t)), exe, args.remove)
          /\ plan.content = NewContent(t, FileText(t), exe, args.remove)
      BY <1>0, <1>1, <1>2, <2>7 DEF PlanTrue, Busy
    <3>. QED BY <2>4, <2>5, <2>6, <3>2, <3>3, PlanFits DEF FileText
  <2>8. Fulfilled(t)'
    BY <1>4, <2>2, <2>3, <2>7 DEF Fulfilled, HooksNow
  <2>. QED BY <2>2, <2>8
<1>. QED BY <1>3, <1>4 DEF Rename

LEMMA TruthStep ==
  ASSUME Exes \subseteq Recognised
  PROVE  TruthInv /\ [SetupNext]_setupVars => TruthInv'
<1> SUFFICES ASSUME TruthInv, [SetupNext]_setupVars PROVE TruthInv'
  OBVIOUS
<1> DEFINE Kept == TmpIsPlan /\ PlanTrue /\ \A a \in Agents : Fulfilled(a)
<1>0. ReportInv' /\ TablesInv' /\ Kept
  BY ReportStep, TablesStep DEF TruthInv, ReportInv
<1>1. CASE Start
  <2>1. result' = [a \in Agents |-> "none"] /\ pc' = "read"
    BY <1>1, Zenon DEF Start
  <2>2. \A a \in Agents : Fulfilled(a)'
    BY <2>1, NotYetFulfilled
  <2>. QED BY <1>0, <2>1, <2>2 DEF TruthInv, TmpIsPlan, PlanTrue, Busy
<1>2. CASE Read
  BY <1>0, <1>2, TruthRead DEF TruthInv
<1>3. CASE OpenTmp
  BY <1>0, <1>3, TruthOpen DEF TruthInv
<1>4. CASE Write
  BY <1>0, <1>4, TruthWrite DEF TruthInv
<1>5. CASE Rename
  BY <1>0, <1>5, TruthRename DEF TruthInv
<1>6. CASE Crash
  <2>1. result' = [a \in Agents |-> "none"] /\ pc' = "idle"
    BY <1>6 DEF Crash
  <2>2. \A a \in Agents : Fulfilled(a)'
    BY <2>1, NotYetFulfilled
  <2>. QED BY <1>0, <2>1, <2>2 DEF TruthInv, TmpIsPlan, PlanTrue, Busy
<1>7. CASE UNCHANGED setupVars
  <2>1. UNCHANGED <<config, tmp, args, exe, before, todo, pc, plan, result, lossy>>
    BY <1>7 DEF setupVars, fileVars, runVars
  <2>2. \A a \in Agents : Fulfilled(a)'
    BY <1>0, <2>1, StillFulfilled
  <2>3. Turn' = Turn /\ FileText(Turn)' = FileText(Turn)
    BY <2>1 DEF Turn, FileText
  <2>4. PlanTrue'
    BY <1>0, <2>1, <2>3 DEF PlanTrue, Busy
  <2>5. TmpIsPlan'
    BY <1>0, <2>1, <2>3 DEF TmpIsPlan
  <2>. QED BY <1>0, <2>2, <2>4, <2>5 DEF TruthInv
<1>. QED BY <1>1, <1>2, <1>3, <1>4, <1>5, <1>6, <1>7 DEF SetupNext

(* What setup reports is what happened, for any executables whose commands *)
(* are recognised, any hooks, and any files with one [hooks] table at      *)
(* most, however they are laid out: a file that was read and written       *)
(* whole leaves the next setup nothing to do after Installed, Updated or   *)
(* AlreadyConfigured, with as many hooks of ours as before or the one that *)
(* was missing, and has one less after Removed.                            *)
THEOREM ReportsAreTruthful ==
  ASSUME Exes \subseteq Recognised, \A ls \in TomlFiles : OneTable(ls)
  PROVE  SetupSpec => []ReportsTruthful
<1>1. SetupInit => TruthInv
  <2> SUFFICES ASSUME SetupInit PROVE TruthInv
    OBVIOUS
  <2>1. UntouchedWhenSaidSo /\ todo = {} /\ pc = "idle" /\ result = [a \in Agents |-> "none"]
    BY DEF SetupInit, UntouchedWhenSaidSo
  <2>2. ReportInv
    BY <2>1, SetupInitTyped DEF ReportInv, Busy
  <2>3. \A a \in Agents : Fulfilled(a)
    BY <2>1, NoneFits DEF Fulfilled
  <2>4. TablesInv
    BY TablesInit
  <2>. QED BY <2>1, <2>2, <2>3, <2>4 DEF TruthInv, TmpIsPlan, PlanTrue, Busy
<1>2. TruthInv => ReportsTruthful
  BY FulfilledSays DEF TruthInv, ReportInv
<1>. QED BY <1>1, <1>2, TruthStep, PTL DEF SetupSpec
=============================================================================
