----------------------- MODULE ConnectionStringProofs -----------------------
(***************************************************************************)
(* SetConnectionString sets what the string says, for strings of any       *)
(* length: the reader stands at the beginning of an item, and the members  *)
(* have the values of the items before it.                                 *)
(***************************************************************************)
EXTENDS ConnectionString, FiniteSetTheorems, SequenceTheorems, TLAPS

(***************************************************************************)
(* The first place of a token.                                             *)
(***************************************************************************)

\* A set of numbers that is not empty has a least member: the shortest of the
\* intervals that lead up to its members ends there.
LEMMA LeastMember ==
  ASSUME NEW S, S \subseteq Nat, S # {}
  PROVE  \E n \in S : \A k \in S : n <= k
<1>. DEFINE R == StrictSubsetOrdering(Nat)
            T == {1..n : n \in S}
<1>1. IsWellFoundedOn(R, FiniteSubsetsOf(Nat))
  BY FS_StrictSubsetOrderingWellFounded
<1>2. T \subseteq FiniteSubsetsOf(Nat) /\ T # {}
  <2>1. ASSUME NEW n \in Nat PROVE IsFiniteSet(1..n) /\ 1..n \in SUBSET Nat
    BY FS_Interval
  <2>. QED BY <2>1 DEF FiniteSubsetsOf
<1>3. \E I \in T : \A J \in T : ~(<<J, I>> \in R)
  <2>. HIDE DEF R, T
  <2>. QED BY <1>1, <1>2, WFMin
<1>4. PICK n \in S : \A J \in T : ~(<<J, 1..n>> \in R)
  <2>. HIDE DEF R
  <2>. QED BY <1>3
<1>5. ASSUME NEW k \in S, k < n PROVE FALSE
  <2>. k \in Nat /\ n \in Nat
    OBVIOUS
  <2>1. 1..k \in T
    OBVIOUS
  <2>2. 1..k \subseteq 1..n /\ n \in 1..n /\ n \notin 1..k
    BY <1>5
  <2>3. <<1..k, 1..n>> \in R
    <3>1. ASSUME NEW A \in SUBSET Nat, NEW B \in SUBSET Nat, A \subseteq B, A # B
          PROVE  <<A, B>> \in StrictSubsetOrdering(Nat)
      <4>. HIDE DEF R, T
      <4>. QED BY <3>1 DEF StrictSubsetOrdering
    <3>2. 1..k \in SUBSET Nat /\ 1..n \in SUBSET Nat /\ 1..k # 1..n
      BY <2>2
    <3>. QED BY <2>2, <3>1, <3>2
  <2>. QED BY <1>4, <2>1, <2>3
<1>. QED BY <1>5

\* The same from above, for a set with a bound.
LEMMA GreatestMember ==
  ASSUME NEW N \in Nat, NEW S, S \subseteq 0..N, S # {}
  PROVE  \E n \in S : \A k \in S : k <= n
<1>. DEFINE D == {N - k : k \in S}
<1>1. D \subseteq Nat /\ D # {}
  <2>1. ASSUME NEW k \in S PROVE N - k \in Nat
    <3>1. k \in 0..N
      OBVIOUS
    <3>. QED BY <3>1
  <2>. QED BY <2>1
<1>2. PICK d \in D : \A e \in D : d <= e
  <2>. HIDE DEF D
  <2>. QED BY <1>1, LeastMember
<1>3. PICK n \in S : d = N - n
  OBVIOUS
<1>4. ASSUME NEW k \in S PROVE k <= n
  <2>1. N - n <= N - k
    BY <1>2, <1>3
  <2>2. k \in Int /\ n \in Int
    OBVIOUS
  <2>. QED BY <2>1, <2>2
<1>. QED BY <1>4

\* p is the first place of t in s from n on, or behind the end.
First(s, t, n, p) ==
  /\ p \in n..(Len(s) + 1)
  /\ p <= Len(s) => s[p] = t
  /\ \A k \in n..(p - 1) : s[k] # t

LEMMA FindIsFirst ==
  ASSUME NEW s \in Seq(STRING), NEW t, NEW n \in 1..(Len(s) + 1)
  PROVE  First(s, t, n, find(s, t, n))
<1>. DEFINE S == {k \in n..Len(s) : s[k] = t} \cup {Len(s) + 1}
<1>1. Len(s) \in Nat
  OBVIOUS
<1>2. S \subseteq Nat /\ S # {}
  BY <1>1
<1>3. \E p \in S : \A k \in S : p <= k
  <2>. HIDE DEF S
  <2>. QED BY <1>2, LeastMember
<1>4. Min(S) \in S /\ \A k \in S : Min(S) <= k
  <2>. HIDE DEF S
  <2>. QED BY <1>3 DEF Min
<1>5. find(s, t, n) = Min(S)
  BY DEF find
<1>6. PICK p : p = Min(S)
  OBVIOUS
<1>7. p \in S /\ \A k \in S : p <= k
  BY <1>4, <1>6
<1>8. p \in n..(Len(s) + 1) /\ (p <= Len(s) => s[p] = t)
  BY <1>1, <1>7
<1>9. ASSUME NEW k \in n..(p - 1) PROVE s[k] # t
  <2>1. k \in n..Len(s) /\ k < p
    BY <1>1, <1>8
  <2>2. k \in S => p <= k
    BY <1>7
  <2>. QED BY <1>1, <1>8, <2>1, <2>2
<1>. QED BY <1>5, <1>6, <1>8, <1>9 DEF First

\* There is only one such place.
LEMMA FirstIsFind ==
  ASSUME NEW s \in Seq(STRING), NEW t, NEW n \in 1..(Len(s) + 1), NEW p, First(s, t, n, p)
  PROVE  find(s, t, n) = p
<1>. DEFINE q == find(s, t, n)
<1>1. First(s, t, n, q)
  BY FindIsFirst
<1>2. p \in Int /\ q \in Int /\ Len(s) \in Nat
  BY <1>1 DEF First
<1>. HIDE DEF q
<1>3. ~(p < q)
  BY <1>1, <1>2 DEF First
<1>4. ~(q < p)
  BY <1>1, <1>2 DEF First
<1>. QED BY <1>2, <1>3, <1>4 DEF q

\* A search that begins later, but not behind the first place, finds it too.
LEMMA FirstFromLater ==
  ASSUME NEW s \in Seq(STRING), NEW t, NEW n \in 1..(Len(s) + 1),
         NEW m \in n..find(s, t, n)
  PROVE  find(s, t, m) = find(s, t, n)
<1>. DEFINE p == find(s, t, n)
<1>1. First(s, t, n, p)
  BY FindIsFirst
<1>2. m \in 1..(Len(s) + 1) /\ First(s, t, m, p)
  <2>. HIDE DEF p
  <2>1. Len(s) \in Nat /\ p \in n..(Len(s) + 1) /\ m \in n..p
    BY <1>1 DEF First, p
  <2>. QED BY <1>1, <2>1 DEF First
<1>. QED BY <1>2, FirstIsFind

(***************************************************************************)
(* What is still to be read.                                               *)
(***************************************************************************)

LEMMA PartOf ==
  ASSUME NEW s \in Seq(STRING), NEW a \in 1..(Len(s) + 1), NEW b \in (a - 1)..Len(s)
  PROVE  /\ SubSeq(s, a, b) \in Seq(STRING)
         /\ Len(SubSeq(s, a, b)) = b - a + 1
         /\ \A k \in 1..(b - a + 1) : SubSeq(s, a, b)[k] = s[a + k - 1]
<1>1. \A k \in a..b : s[k] \in STRING
  OBVIOUS
<1>2. a \in Int /\ b \in Int /\ (IF a <= b THEN b - a + 1 ELSE 0) = b - a + 1
  OBVIOUS
<1>. QED BY <1>1, <1>2, SubSeqProperties

\* The part of s from p on.
Rest(s, p) == SubSeq(s, p, Len(s))

LEMMA RestIs ==
  ASSUME NEW s \in Seq(STRING), NEW p \in 1..(Len(s) + 1)
  PROVE  /\ Rest(s, p) \in Seq(STRING)
         /\ Len(Rest(s, p)) = Len(s) - p + 1
         /\ \A k \in 1..(Len(s) - p + 1) : Rest(s, p)[k] = s[p + k - 1]
BY PartOf DEF Rest

\* The places in the rest are those in the whole, counted from p.
LEMMA FindInRest ==
  ASSUME NEW s \in Seq(STRING), NEW p \in 1..(Len(s) + 1), NEW t,
         NEW n \in 1..(Len(s) - p + 2)
  PROVE  find(Rest(s, p), t, n) = find(s, t, n + p - 1) - p + 1
<1>. DEFINE r == Rest(s, p)
<1>1. /\ r \in Seq(STRING) /\ Len(r) = Len(s) - p + 1 /\ Len(s) \in Nat
      /\ \A k \in 1..(Len(s) - p + 1) : r[k] = s[p + k - 1]
  <2>1. /\ Rest(s, p) \in Seq(STRING)
        /\ Len(Rest(s, p)) = Len(s) - p + 1
        /\ \A k \in 1..(Len(s) - p + 1) : Rest(s, p)[k] = s[p + k - 1]
    BY RestIs
  <2>2. Len(s) \in Nat
    OBVIOUS
  <2>. QED BY <2>1, <2>2
<1>. DEFINE q == find(s, t, n + p - 1)
<1>2. n + p - 1 \in 1..(Len(s) + 1)
  BY <1>1
<1>3. First(s, t, n + p - 1, q)
  BY <1>2, FindIsFirst
<1>. HIDE DEF q, r
<1>4. First(r, t, n, q - p + 1)
  <2>1. q \in Int /\ q - p + 1 \in n..(Len(r) + 1)
    <3>1. q \in (n + p - 1)..(Len(s) + 1)
      BY <1>3 DEF First
    <3>. QED BY <1>1, <3>1
  <2>2. ASSUME q - p + 1 <= Len(r) PROVE r[q - p + 1] = t
    <3>1. q - p + 1 \in 1..(Len(s) - p + 1) /\ q <= Len(s) /\ p + (q - p + 1) - 1 = q
      BY <1>1, <2>1, <2>2
    <3>. QED BY <1>1, <1>3, <3>1 DEF First
  <2>3. ASSUME NEW k \in n..((q - p + 1) - 1) PROVE r[k] # t
    <3>1. k \in 1..(Len(s) - p + 1) /\ p + k - 1 \in (n + p - 1)..(q - 1)
      BY <1>1, <2>1, <2>3
    <3>. QED BY <1>1, <1>3, <3>1 DEF First
  <2>. QED BY <2>1, <2>2, <2>3 DEF First
<1>5. n \in 1..(Len(r) + 1)
  BY <1>1
<1>. QED BY <1>1, <1>4, <1>5, FirstIsFind DEF q, r

\* A part of the rest is a part of the whole.
LEMMA PartOfRest ==
  ASSUME NEW s \in Seq(STRING), NEW p \in 1..(Len(s) + 1),
         NEW a \in 1..(Len(s) - p + 2), NEW b \in (a - 1)..(Len(s) - p + 1)
  PROVE  SubSeq(Rest(s, p), a, b) = SubSeq(s, a + p - 1, b + p - 1)
<1>. DEFINE r == Rest(s, p)
<1>1. /\ r \in Seq(STRING) /\ Len(r) = Len(s) - p + 1 /\ Len(s) \in Nat
      /\ \A k \in 1..(Len(s) - p + 1) : r[k] = s[p + k - 1]
  BY RestIs
<1>. HIDE DEF r
<1>2. /\ SubSeq(r, a, b) \in Seq(STRING)
      /\ Len(SubSeq(r, a, b)) = b - a + 1
      /\ \A k \in 1..(b - a + 1) : SubSeq(r, a, b)[k] = r[a + k - 1]
  <2>1. a \in 1..(Len(r) + 1) /\ b \in (a - 1)..Len(r)
    BY <1>1
  <2>. QED BY <1>1, <2>1, PartOf
<1>. DEFINE c == a + p - 1
            d == b + p - 1
<1>3. c \in 1..(Len(s) + 1) /\ d \in (c - 1)..Len(s) /\ d - c + 1 = b - a + 1
  BY <1>1
<1>4. /\ SubSeq(s, c, d) \in Seq(STRING)
      /\ Len(SubSeq(s, c, d)) = d - c + 1
      /\ \A k \in 1..(d - c + 1) : SubSeq(s, c, d)[k] = s[c + k - 1]
  <2>. HIDE DEF c, d
  <2>. QED BY <1>1, <1>3, PartOf
<1>5. ASSUME NEW k \in 1..(b - a + 1) PROVE SubSeq(r, a, b)[k] = SubSeq(s, c, d)[k]
  <2>1. a + k - 1 \in 1..(Len(s) - p + 1) /\ (a + k - 1) + p - 1 = c + k - 1
    BY <1>1
  <2>2. SubSeq(r, a, b)[k] = s[c + k - 1]
    BY <1>1, <1>2, <2>1
  <2>. HIDE DEF c, d
  <2>. QED BY <1>3, <1>4, <2>2
<1>6. Len(SubSeq(r, a, b)) = Len(SubSeq(s, c, d))
  <2>. HIDE DEF c, d
  <2>. QED BY <1>2, <1>3, <1>4
<1>7. SubSeq(r, a, b) = SubSeq(s, c, d)
  <2>1. \A k \in 1..Len(SubSeq(r, a, b)) : SubSeq(r, a, b)[k] = SubSeq(s, c, d)[k]
    BY <1>2, <1>5
  <2>. HIDE DEF c, d
  <2>. QED BY <1>2, <1>4, <1>6, <2>1, SeqEqual
<1>. QED BY <1>7 DEF r

(***************************************************************************)
(* The items of the string.                                                *)
(***************************************************************************)

LEMMA ItemPlaces ==
  ASSUME given \in Seq(STRING), NEW b \in Items
  PROVE  /\ b \in 1..(Len(given) + 1)
         /\ b = 1 \/ given[b - 1] = Semicolon
         /\ First(given, EqualSign, b, equals(b))
         /\ First(given, Semicolon, b, endOf(b) + 1)
<1>1. Len(given) \in Nat
  OBVIOUS
<1>2. b \in 1..(Len(given) + 1) /\ (b = 1 \/ given[b - 1] = Semicolon)
  <2>1. CASE b = 1 BY <1>1, <2>1
  <2>2. CASE b # 1
    <3>1. PICK n \in 1..Len(given) : given[n] = Semicolon /\ b = n + 1
      BY <2>2 DEF Items
    <3>2. b - 1 = n
      BY <1>1, <3>1
    <3>. QED BY <1>1, <3>1, <3>2
  <2>. QED BY <2>1, <2>2
<1>3. First(given, EqualSign, b, find(given, EqualSign, b)) /\ First(given, Semicolon, b, find(given, Semicolon, b))
  BY <1>2, FindIsFirst
<1>4. find(given, Semicolon, b) = endOf(b) + 1
  <2>1. find(given, Semicolon, b) \in Int
    BY <1>1, <1>2, <1>3 DEF First
  <2>. QED BY <2>1 DEF endOf
<1>. QED BY <1>2, <1>3, <1>4 DEF equals

\* Behind an item comes the next one, and nothing in between.
LEMMA NextItem ==
  ASSUME given \in Seq(STRING), NEW p \in Items
  PROVE  /\ endOf(p) < Len(given) => endOf(p) + 2 \in Items
         /\ \A b \in Items : b <= p \/ (endOf(p) < Len(given) /\ endOf(p) + 2 <= b)
<1>1. Len(given) \in Nat /\ p \in 1..(Len(given) + 1)
  <2>1. Len(given) \in Nat
    OBVIOUS
  <2>2. p \in 1..(Len(given) + 1)
    BY ItemPlaces
  <2>. QED BY <2>1, <2>2
<1>. DEFINE e == endOf(p) + 1
<1>2. First(given, Semicolon, p, e)
  BY ItemPlaces
<1>3. endOf(p) \in Int /\ e \in p..(Len(given) + 1)
  <2>1. find(given, Semicolon, p) \in p..(Len(given) + 1)
    BY <1>1, FindIsFirst DEF First
  <2>. QED BY <1>1, <2>1 DEF endOf
<1>4. ASSUME endOf(p) < Len(given) PROVE endOf(p) + 2 \in Items
  <2>1. e \in 1..Len(given) /\ endOf(p) + 2 = e + 1
    BY <1>1, <1>3, <1>4
  <2>2. given[e] = Semicolon
    BY <1>2, <2>1 DEF First
  <2>. HIDE DEF e
  <2>. QED BY <2>1, <2>2 DEF Items
<1>5. ASSUME NEW b \in Items, p < b PROVE endOf(p) < Len(given) /\ endOf(p) + 2 <= b
  <2>1. b \in 1..(Len(given) + 1) /\ given[b - 1] = Semicolon
    BY <1>1, <1>5, ItemPlaces
  <2>2. e <= b - 1
    <3>. HIDE DEF e
    <3>1. ~(b - 1 \in p..(e - 1))
      BY <1>2, <2>1 DEF First
    <3>. QED BY <1>1, <1>3, <1>5, <2>1, <3>1
  <2>. QED BY <1>1, <1>3, <2>1, <2>2
<1>6. ASSUME NEW b \in Items PROVE b <= p \/ p < b
  BY <1>1, ItemPlaces
<1>. QED BY <1>4, <1>5, <1>6

\* The item in which a place lies.
LEMMA ItemAt ==
  ASSUME given \in Seq(STRING), NEW n \in 1..(Len(given) + 1)
  PROVE  \E q \in Items : q <= n /\ \A b \in Items : b <= n => b <= q
<1>. DEFINE S == {b \in Items : b <= n}
<1>1. 1 \in S
  BY DEF Items
<1>2. n \in Nat /\ S \subseteq 0..n
  <2>1. ASSUME NEW b \in S PROVE b \in 0..n
    <3>1. b \in 1..(Len(given) + 1) /\ b <= n
      BY ItemPlaces
    <3>. QED BY <3>1
  <2>. QED BY <2>1
<1>3. \E q \in S : \A b \in S : b <= q
  <2>. HIDE DEF S
  <2>. QED BY <1>1, <1>2, GreatestMember
<1>. QED BY <1>3

LEMMA TokensDiffer ==
  EqualSign # Semicolon /\ EqualSign \notin DOMAIN Member /\ Semicolon \notin DOMAIN Member
<1>1. EqualSign # Semicolon
  BY Zenon DEF EqualSign, Semicolon
<1>2. DOMAIN Member = {"host", "server", "database", "user", "uid", "password", "pwd", "port",
                       "connecttimeout", "readtimeout", "writetimeout", "charset"}
  BY DEF Member
<1>3. EqualSign \notin DOMAIN Member
  BY Zenon, <1>2 DEF EqualSign
<1>4. Semicolon \notin DOMAIN Member
  BY Zenon, <1>2 DEF Semicolon
<1>. QED BY <1>1, <1>3, <1>4

(***************************************************************************)
(* The invariant of the loop.                                              *)
(***************************************************************************)

\* Where the reader stands.
Position == Len(given) - Len(szConnection) + 1

\* What the items before place n set member m to.
Before(m, n) == {b \in Setting(m) : b < n}

Value(m, n) ==
  IF Before(m, n) = {} THEN Defaults[m]
  ELSE LET b == Max(Before(m, n)) IN ValueFor(m, SubSeq(given, b + 2, endOf(b)))

Values(n) == [m \in DOMAIN Defaults |-> Value(m, n)]

ReadInv ==
  /\ given \in Seq(STRING)
  /\ pc \in {"loop", "done"}
  /\ pc = "loop" =>
       /\ Position \in Items
       /\ szConnection = Rest(given, Position)
       /\ \A c \in Incomplete : Position <= c
       /\ settings = Values(Position)
  /\ pc = "done" => settings = Values(Len(given) + 2)

\* At the end all items have been read or nothing more is set.
LEMMA ReadExact == ReadInv => SettingsExact
<1>. SUFFICES ASSUME ReadInv, pc = "done", NEW m \in DOMAIN Defaults
              PROVE  settings[m] = Value(m, Len(given) + 2) /\ Before(m, Len(given) + 2) = Setting(m)
  BY DEF SettingsExact, Value
<1>1. settings[m] = Value(m, Len(given) + 2)
  BY DEF ReadInv, Values
<1>2. given \in Seq(STRING) /\ Len(given) \in Nat
  BY DEF ReadInv
<1>3. ASSUME NEW b \in Setting(m) PROVE b < Len(given) + 2
  <2>1. b \in Items
    BY DEF Setting, Assignments
  <2>2. b \in 1..(Len(given) + 1)
    BY <1>2, <2>1, ItemPlaces
  <2>. QED BY <1>2, <2>2
<1>4. Before(m, Len(given) + 2) = Setting(m)
  BY <1>3 DEF Before
<1>. QED BY <1>1, <1>4

\* Without an item that sets m in between the value of m stays.
LEMMA SameValue ==
  ASSUME NEW m, NEW n, NEW k, Before(m, k) = Before(m, n)
  PROVE  Value(m, k) = Value(m, n)
BY DEF Value

\* The last item that sets m decides.
LEMMA LastValue ==
  ASSUME NEW m, NEW n, NEW p \in Before(m, n), Before(m, n) \subseteq Int,
         \A b \in Before(m, n) : b <= p
  PROVE  Value(m, n) = ValueFor(m, SubSeq(given, p + 2, endOf(p)))
<1>. DEFINE S == Before(m, n)
<1>1. S # {} /\ p \in S /\ S \subseteq Int /\ \A b \in S : b <= p
  OBVIOUS
<1>2. Max(S) = p
  <2>. HIDE DEF S
  <2>1. \E x \in S : \A y \in S : x >= y
    BY <1>1
  <2>2. Max(S) \in S /\ \A y \in S : Max(S) >= y
    BY <2>1 DEF Max
  <2>3. Max(S) <= p /\ Max(S) >= p /\ Max(S) \in Int /\ p \in Int
    BY <1>1, <2>2
  <2>. QED BY <2>3
<1>. QED BY <1>1, <1>2 DEF Value

\* The items that set something begin with the name of the member and a =.
LEMMA SettingPlaces ==
  ASSUME given \in Seq(STRING), NEW m, NEW b \in Setting(m)
  PROVE  /\ b \in Items /\ b \in 1..Len(given)
         /\ b + 1 \in 1..Len(given) /\ given[b + 1] = EqualSign
         /\ b + 1 <= endOf(b)
         /\ given[b] \in DOMAIN Member /\ Member[given[b]] = m
         /\ \A c \in Incomplete : b < c
<1>1. b \in Items /\ equals(b) <= endOf(b)
  BY DEF Setting, Assignments
<1>2. /\ equals(b) = b + 1 /\ given[b] \in DOMAIN Member /\ Member[given[b]] = m
      /\ \A c \in Incomplete : b < c
  BY DEF Setting
<1>3. /\ b \in 1..(Len(given) + 1)
      /\ First(given, EqualSign, b, equals(b))
      /\ First(given, Semicolon, b, endOf(b) + 1)
  BY <1>1, ItemPlaces
<1>4. Len(given) \in Nat
  OBVIOUS
<1>5. endOf(b) \in Int /\ endOf(b) <= Len(given)
  <2>1. find(given, Semicolon, b) \in b..(Len(given) + 1)
    BY <1>3, FindIsFirst DEF First
  <2>. QED BY <1>3, <1>4, <2>1 DEF endOf
<1>6. b + 1 <= Len(given)
  BY <1>1, <1>2, <1>3, <1>4, <1>5
<1>7. given[b + 1] = EqualSign
  BY <1>2, <1>3, <1>6 DEF First
<1>. QED BY <1>1, <1>2, <1>3, <1>4, <1>6, <1>7

(***************************************************************************)
(* One turn of the loop, at the item that begins at p.                     *)
(***************************************************************************)

\* What sscanf and strchr find, in places of the whole string.
LEMMA FoundAt ==
  ASSUME given \in Seq(STRING), NEW p \in Items, szConnection = Rest(given, p)
  PROVE  /\ scanned <=> /\ p < equals(p) /\ equals(p) < Len(given)
                        /\ given[equals(p) + 1] # Semicolon
         /\ scanned => /\ szParameter = SubSeq(given, p, equals(p) - 1)
                       /\ szValue = SubSeq(given, equals(p) + 1,
                                           find(given, Semicolon, equals(p)) - 1)
         /\ find(szConnection, Semicolon, 1) = endOf(p) - p + 2
<1>1. p \in 1..(Len(given) + 1) /\ Len(given) \in Nat
  BY ItemPlaces
<1>2. /\ szConnection \in Seq(STRING)
      /\ Len(szConnection) = Len(given) - p + 1
      /\ \A k \in 1..(Len(given) - p + 1) : szConnection[k] = given[p + k - 1]
  BY <1>1, RestIs
<1>3. 1 \in 1..(Len(given) - p + 2) /\ 1 + p - 1 = p
  BY <1>1
<1>4. find(szConnection, EqualSign, 1) = equals(p) - p + 1
  BY <1>1, <1>3, FindInRest DEF equals
<1>5. find(szConnection, Semicolon, 1) = find(given, Semicolon, p) - p + 1
  BY <1>1, <1>3, FindInRest
<1>6. equals(p) \in p..(Len(given) + 1) /\ find(given, Semicolon, p) \in p..(Len(given) + 1)
  BY <1>1, FindIsFirst DEF First, equals
<1>7. find(szConnection, Semicolon, 1) = endOf(p) - p + 2
  BY <1>1, <1>5, <1>6 DEF endOf
<1>8. PICK q : q = equals(p)
  OBVIOUS
<1>9. q \in p..(Len(given) + 1) /\ q \in Int
  BY <1>1, <1>6, <1>8
<1>10. scanned <=> /\ q - p + 1 > 1 /\ q - p + 1 < Len(szConnection)
                   /\ szConnection[(q - p + 1) + 1] # Semicolon
  BY <1>4, <1>8 DEF scanned
<1>11. ASSUME q < Len(given)
       PROVE  szConnection[(q - p + 1) + 1] = given[q + 1]
  <2>1. (q - p + 1) + 1 \in 1..(Len(given) - p + 1) /\ p + ((q - p + 1) + 1) - 1 = q + 1
    BY <1>1, <1>9, <1>11
  <2>. QED BY <1>2, <2>1
<1>12. scanned <=> p < q /\ q < Len(given) /\ given[q + 1] # Semicolon
  BY <1>1, <1>2, <1>9, <1>10, <1>11
<1>13. ASSUME scanned PROVE szParameter = SubSeq(given, p, q - 1)
  <2>1. szParameter = SubSeq(szConnection, 1, (q - p + 1) - 1)
    BY <1>4, <1>8 DEF szParameter
  <2>2. 1 \in 1..(Len(given) - p + 2) /\ (q - p + 1) - 1 \in (1 - 1)..(Len(given) - p + 1)
    BY <1>1, <1>9, <1>12, <1>13
  <2>3. szParameter = SubSeq(given, 1 + p - 1, ((q - p + 1) - 1) + p - 1)
    BY <1>1, <2>1, <2>2, PartOfRest
  <2>4. 1 + p - 1 = p /\ ((q - p + 1) - 1) + p - 1 = q - 1
    BY <1>1, <1>9
  <2>. QED BY <2>3, <2>4
<1>14. ASSUME scanned
       PROVE  szValue = SubSeq(given, q + 1, find(given, Semicolon, q) - 1)
  <2>1. q - p + 1 \in 1..(Len(given) - p + 2) /\ (q - p + 1) + p - 1 = q
    BY <1>1, <1>9
  <2>2. find(szConnection, Semicolon, q - p + 1) = find(given, Semicolon, q) - p + 1
    <3>1. find(szConnection, Semicolon, q - p + 1)
            = find(given, Semicolon, (q - p + 1) + p - 1) - p + 1
      BY <1>1, <2>1, FindInRest
    <3>. QED BY <2>1, <3>1
  <2>3. PICK f : f = find(given, Semicolon, q)
    OBVIOUS
  <2>4. First(given, Semicolon, q, f) /\ q \in 1..Len(given) /\ given[q] = EqualSign
    <3>1. q \in 1..Len(given)
      BY <1>1, <1>9, <1>12, <1>14
    <3>2. given[q] = EqualSign
      BY <1>8, <3>1, ItemPlaces DEF First
    <3>. QED BY <2>3, <3>1, <3>2, FindIsFirst
  <2>5. f \in (q + 1)..(Len(given) + 1)
    BY <1>1, <2>4, TokensDiffer DEF First
  <2>6. szValue = SubSeq(szConnection, (q - p + 1) + 1, (f - p + 1) - 1)
    BY <1>4, <1>8, <2>2, <2>3 DEF szValue
  <2>7. /\ (q - p + 1) + 1 \in 1..(Len(given) - p + 2)
        /\ (f - p + 1) - 1 \in (((q - p + 1) + 1) - 1)..(Len(given) - p + 1)
    BY <1>1, <1>9, <2>4, <2>5
  <2>8. szValue = SubSeq(given, ((q - p + 1) + 1) + p - 1, ((f - p + 1) - 1) + p - 1)
    BY <1>1, <2>6, <2>7, PartOfRest
  <2>9. ((q - p + 1) + 1) + p - 1 = q + 1 /\ ((f - p + 1) - 1) + p - 1 = f - 1
    BY <1>1, <1>9, <2>5
  <2>. QED BY <2>3, <2>8, <2>9
<1>. QED BY <1>7, <1>8, <1>12, <1>13, <1>14

\* An item that could be read is complete, and sets the member it names, if it
\* is no more than a name before the first =.
LEMMA ItemRead ==
  ASSUME given \in Seq(STRING), NEW p \in Items, \A c \in Incomplete : p <= c,
         p < equals(p), equals(p) < Len(given), given[equals(p) + 1] # Semicolon
  PROVE  /\ p \notin Incomplete
         /\ \A m : p \in Setting(m) <=>
              equals(p) = p + 1 /\ given[p] \in DOMAIN Member /\ Member[given[p]] = m
         /\ equals(p) = p + 1 /\ given[p] \in DOMAIN Member
              => endOf(p) = find(given, Semicolon, equals(p)) - 1
<1>1. p \in 1..(Len(given) + 1) /\ Len(given) \in Nat
  BY ItemPlaces
<1>2. PICK q : q = equals(p)
  OBVIOUS
<1>3. PICK f : f = find(given, Semicolon, p)
  OBVIOUS
<1>4. endOf(p) = f - 1
  BY <1>3 DEF endOf
<1>5. First(given, EqualSign, p, q) /\ First(given, Semicolon, p, f)
  BY <1>1, <1>2, <1>3, FindIsFirst DEF equals
<1>6. q \in (p + 1)..(Len(given) - 1) /\ f \in p..(Len(given) + 1)
  BY <1>1, <1>2, <1>5 DEF First
<1>7. given[q] = EqualSign /\ given[q + 1] # Semicolon
  BY <1>1, <1>2, <1>5, <1>6 DEF First
<1>8. q # f - 1
  <2>1. SUFFICES ASSUME q = f - 1 PROVE FALSE
    OBVIOUS
  <2>2. f = q + 1 /\ f <= Len(given)
    BY <1>1, <1>6, <2>1
  <2>. QED BY <1>5, <1>7, <2>2 DEF First
<1>9. p \notin Incomplete
  BY <1>1, <1>2, <1>4, <1>6, <1>8 DEF Incomplete
<1>10. \A c \in Incomplete : p < c
  <2>1. ASSUME NEW c \in Incomplete PROVE p < c
    <3>1. c \in Items /\ p <= c /\ p # c
      BY <1>9 DEF Incomplete, Assignments
    <3>2. c \in 1..(Len(given) + 1)
      BY <3>1, ItemPlaces
    <3>. QED BY <1>1, <3>1, <3>2
  <2>. QED BY <2>1
<1>11. ASSUME q = p + 1, given[p] \in DOMAIN Member
       PROVE  q <= endOf(p) /\ f = find(given, Semicolon, q)
  <2>1. f # p
    BY <1>1, <1>5, <1>6, <1>11, TokensDiffer DEF First
  <2>2. f # q
    BY <1>1, <1>5, <1>6, <1>7, TokensDiffer DEF First
  <2>3. q < f
    BY <1>1, <1>6, <1>11, <2>1, <2>2
  <2>4. find(given, Semicolon, q) = find(given, Semicolon, p)
    <3>1. p \in 1..(Len(given) + 1) /\ q \in p..find(given, Semicolon, p)
      BY <1>1, <1>3, <1>6, <2>3
    <3>. QED BY <3>1, FirstFromLater
  <2>. QED BY <1>1, <1>3, <1>4, <1>6, <2>3, <2>4
<1>12. ASSUME NEW m
       PROVE  p \in Setting(m) <=>
                q = p + 1 /\ given[p] \in DOMAIN Member /\ Member[given[p]] = m
  <2>1. ASSUME p \in Setting(m)
        PROVE  q = p + 1 /\ given[p] \in DOMAIN Member /\ Member[given[p]] = m
    BY <1>2, <2>1 DEF Setting
  <2>2. ASSUME q = p + 1, given[p] \in DOMAIN Member, Member[given[p]] = m
        PROVE  p \in Setting(m)
    BY <1>2, <1>10, <1>11, <2>2 DEF Setting, Assignments
  <2>. QED BY <2>1, <2>2
<1>13. q = p + 1 /\ given[p] \in DOMAIN Member => endOf(p) = find(given, Semicolon, q) - 1
  BY <1>4, <1>11
<1>. QED BY <1>2, <1>9, <1>12, <1>13

\* Where reading stops nothing more is set: the item with the next = is
\* incomplete.
LEMMA NothingMore ==
  ASSUME given \in Seq(STRING), NEW p \in Items,
         ~(p < equals(p) /\ equals(p) < Len(given) /\ given[equals(p) + 1] # Semicolon),
         NEW m, NEW b \in Setting(m)
  PROVE  b < p
<1>1. SUFFICES ASSUME p <= b PROVE FALSE
  <2>1. p \in Int /\ b \in Int
    BY ItemPlaces, SettingPlaces
  <2>. QED BY <1>1, <2>1
<1>2. p \in 1..(Len(given) + 1) /\ Len(given) \in Nat
  BY ItemPlaces
<1>3. PICK q : q = equals(p)
  OBVIOUS
<1>4. First(given, EqualSign, p, q) /\ q \in p..(Len(given) + 1)
  BY <1>2, <1>3, ItemPlaces DEF First
<1>5. /\ b \in 1..Len(given) /\ b + 1 \in 1..Len(given) /\ given[b + 1] = EqualSign
      /\ given[b] \in DOMAIN Member /\ \A c \in Incomplete : b < c
  BY SettingPlaces
<1>6. q <= b + 1
  <2>1. ~(b + 1 \in p..(q - 1))
    BY <1>4, <1>5 DEF First
  <2>. QED BY <1>1, <1>2, <1>4, <1>5, <2>1
<1>7. q \in 1..Len(given) /\ given[q] = EqualSign
  BY <1>2, <1>4, <1>5, <1>6 DEF First
<1>8. PICK a \in Items : a <= q /\ \A d \in Items : d <= q => d <= a
  BY <1>2, <1>7, ItemAt
<1>9. a \in 1..(Len(given) + 1) /\ p <= a /\ (a = 1 \/ given[a - 1] = Semicolon)
  BY <1>4, <1>8, ItemPlaces
<1>10. equals(a) = q
  <2>1. q = find(given, EqualSign, p)
    BY <1>3 DEF equals
  <2>2. a \in p..find(given, EqualSign, p)
    BY <1>2, <1>4, <1>8, <1>9, <2>1
  <2>. QED BY <1>2, <2>1, <2>2, FirstFromLater DEF equals
<1>11. PICK f : f = find(given, Semicolon, a)
  OBVIOUS
<1>12. First(given, Semicolon, a, f) /\ f \in a..(Len(given) + 1) /\ endOf(a) = f - 1
  BY <1>2, <1>9, <1>11, FindIsFirst DEF First, endOf
<1>13. q < f
  <2>1. f # q
    BY <1>7, <1>12, TokensDiffer DEF First
  <2>2. ASSUME f < q PROVE FALSE
    <3>1. f \in 1..Len(given) /\ given[f] = Semicolon
      BY <1>2, <1>7, <1>9, <1>12, <2>2 DEF First
    <3>2. f + 1 \in Items
      BY <3>1 DEF Items
    <3>. QED BY <1>2, <1>7, <1>8, <1>9, <1>12, <2>2, <3>2
  <2>. QED BY <1>2, <1>7, <1>12, <2>1, <2>2
<1>14. a \in Assignments
  BY <1>2, <1>7, <1>10, <1>12, <1>13 DEF Assignments
<1>15. a \in Incomplete
  <2>1. CASE q = p
    <3>1. a = q
      BY <1>2, <1>4, <1>8, <1>9, <2>1
    <3>. QED BY <1>10, <1>14, <3>1 DEF Incomplete
  <2>2. CASE q # p
    <3>1. q = Len(given) \/ given[q + 1] = Semicolon
      BY <1>2, <1>3, <1>4, <1>7, <2>2
    <3>2. f = q + 1
      <4>1. CASE q = Len(given)
        BY <1>2, <1>12, <1>13, <4>1
      <4>2. CASE q # Len(given)
        <5>1. given[q + 1] = Semicolon /\ q + 1 \in Int
          BY <1>7, <3>1, <4>2
        <5>2. ~(q + 1 \in a..(f - 1))
          BY <1>12, <5>1 DEF First
        <5>. QED BY <1>2, <1>7, <1>8, <1>9, <1>12, <1>13, <5>2
      <4>. QED BY <4>1, <4>2
    <3>3. endOf(a) = q
      BY <1>7, <1>12, <3>2
    <3>. QED BY <1>10, <1>14, <3>3 DEF Incomplete
  <2>. QED BY <2>1, <2>2
<1>16. b < a
  BY <1>5, <1>15
<1>17. b + 1 = a
  BY <1>5, <1>6, <1>7, <1>8, <1>9, <1>16
<1>18. given[b] = Semicolon
  <2>1. a # 1 /\ a - 1 = b
    BY <1>5, <1>17
  <2>. QED BY <1>9, <2>1
<1>. QED BY <1>5, <1>18, TokensDiffer

\* The string the items are of does not change.
LEMMA SameString ==
  ASSUME given' = given
  PROVE  Items' = Items /\ Incomplete' = Incomplete
<1>1. Items' = Items
  BY DEF Items
<1>2. \A b : equals(b)' = equals(b) /\ endOf(b)' = endOf(b)
  BY DEF equals, endOf
<1>3. Assignments' = Assignments
  BY <1>1, <1>2 DEF Assignments
<1>4. Incomplete' = Incomplete
  BY <1>2, <1>3 DEF Incomplete
<1>. QED BY <1>1, <1>4

\* The members after the item at p has been read, where n is behind it and not
\* behind the next one.
LEMMA MembersSet ==
  ASSUME given \in Seq(STRING), NEW p \in Items, \A c \in Incomplete : p <= c,
         szConnection = Rest(given, p), settings = Values(p), scanned,
         NEW n \in Int, \A b \in Items : b < n <=> b <= p, Scan
  PROVE  settings' = Values(n)
<1>1. p \in 1..(Len(given) + 1) /\ Len(given) \in Nat
  BY ItemPlaces
<1>2. PICK q : q = equals(p)
  OBVIOUS
<1>3. /\ p < q /\ q < Len(given) /\ given[q + 1] # Semicolon
      /\ szParameter = SubSeq(given, p, q - 1)
      /\ szValue = SubSeq(given, q + 1, find(given, Semicolon, q) - 1)
  BY <1>2, FoundAt
<1>4. q \in Int
  BY <1>1, <1>2, ItemPlaces DEF First
<1>. DEFINE named == q = p + 1 /\ given[p] \in DOMAIN Member
<1>5. /\ \A m : p \in Setting(m) <=> named /\ Member[given[p]] = m
      /\ named => endOf(p) = find(given, Semicolon, q) - 1
  BY <1>2, <1>3, ItemRead
<1>6. Len(szParameter) = 1 /\ szParameter[1] \in DOMAIN Member <=> named
  <2>1. /\ Len(szParameter) = (q - 1) - p + 1
        /\ \A k \in 1..((q - 1) - p + 1) : szParameter[k] = given[p + k - 1]
    <3>1. q - 1 \in (p - 1)..Len(given)
      BY <1>1, <1>3, <1>4
    <3>. QED BY <1>1, <1>3, <3>1, PartOf
  <2>2. Len(szParameter) = 1 <=> q = p + 1
    BY <1>1, <1>4, <2>1
  <2>3. ASSUME q = p + 1 PROVE szParameter[1] = given[p]
    <3>1. 1 \in 1..((q - 1) - p + 1) /\ p + 1 - 1 = p
      BY <1>1, <2>3
    <3>. QED BY <2>1, <3>1
  <2>. QED BY <2>2, <2>3
<1>7. ASSUME named PROVE szParameter[1] = given[p] /\ szValue = SubSeq(given, p + 2, endOf(p))
  <2>1. SubSeq(given, p, q - 1)[1] = given[p]
    <3>1. q - 1 \in (p - 1)..Len(given) /\ 1 \in 1..((q - 1) - p + 1) /\ p + 1 - 1 = p
      BY <1>1, <1>3, <1>4, <1>7
    <3>2. SubSeq(given, p, q - 1)[1] = given[p + 1 - 1]
      BY <1>1, <3>1, PartOf
    <3>. QED BY <3>1, <3>2
  <2>2. q + 1 = p + 2
    BY <1>1, <1>7
  <2>. QED BY <1>3, <1>5, <1>7, <2>1, <2>2
<1>8. ASSUME NEW m, p \notin Setting(m) PROVE Value(m, n) = Value(m, p)
  <2>1. ASSUME NEW b \in Setting(m) PROVE b < n <=> b < p
    <3>1. b \in Items /\ b # p
      BY <1>8 DEF Setting, Assignments
    <3>2. b \in Int
      BY <3>1, ItemPlaces
    <3>. QED BY <1>1, <3>1, <3>2
  <2>2. Before(m, n) = Before(m, p)
    BY <2>1 DEF Before
  <2>. QED BY <2>2, SameValue
<1>9. ASSUME NEW m, p \in Setting(m)
      PROVE  Value(m, n) = ValueFor(m, SubSeq(given, p + 2, endOf(p)))
  <2>1. ASSUME NEW b \in Before(m, n) PROVE b \in Int /\ b <= p
    <3>1. b \in Items /\ b < n
      BY DEF Before, Setting, Assignments
    <3>. QED BY <3>1, ItemPlaces
  <2>2. p \in Before(m, n)
    BY <1>1, <1>9 DEF Before
  <2>. QED BY <2>1, <2>2, LastValue
<1>. DEFINE m0 == Member[given[p]]
<1>10. CASE ~named
  <2>1. settings' = settings
    BY <1>6, <1>10 DEF Scan
  <2>2. \A m : Value(m, n) = Value(m, p)
    BY <1>5, <1>8, <1>10
  <2>. QED BY <2>1, <2>2 DEF Values
<1>11. CASE named
  <2>1. settings' = [settings EXCEPT ![m0] = ValueFor(m0, SubSeq(given, p + 2, endOf(p)))]
    <3>1. settings' = LET m == Member[szParameter[1]]
                      IN  [settings EXCEPT ![m] = ValueFor(m, szValue)]
      BY <1>6, <1>11 DEF Scan
    <3>. QED BY <1>7, <1>11, <3>1
  <2>2. p \in Setting(m0) /\ \A m : m # m0 => p \notin Setting(m)
    BY <1>5, <1>11
  <2>3. settings' = [m \in DOMAIN Defaults |->
                       IF m = m0 THEN ValueFor(m0, SubSeq(given, p + 2, endOf(p)))
                       ELSE Value(m, p)]
    <3>. HIDE DEF m0
    <3>. QED BY <2>1 DEF Values
  <2>4. \A m : Value(m, n) = IF m = m0 THEN ValueFor(m0, SubSeq(given, p + 2, endOf(p)))
                             ELSE Value(m, p)
    BY <1>8, <1>9, <2>2
  <2>. QED BY <2>3, <2>4 DEF Values
<1>. QED BY <1>10, <1>11

LEMMA ScanStep == ReadInv /\ Scan => ReadInv'
<1>. SUFFICES ASSUME ReadInv, Scan PROVE ReadInv'
  OBVIOUS
<1>1. PICK p : p = Position
  OBVIOUS
<1>2. /\ given \in Seq(STRING) /\ p \in Items /\ szConnection = Rest(given, p)
      /\ \A c \in Incomplete : p <= c
      /\ settings = Values(p) /\ scanned /\ given' = given
  BY <1>1 DEF ReadInv, Scan
<1>3. p \in 1..(Len(given) + 1) /\ Len(given) \in Nat
  BY <1>2, ItemPlaces
<1>4. PICK e : e = endOf(p)
  OBVIOUS
<1>5. e \in (p - 1)..Len(given) /\ e \in Int
  <2>1. find(given, Semicolon, p) \in p..(Len(given) + 1)
    BY <1>2, <1>3, FindIsFirst DEF First
  <2>. QED BY <1>3, <1>4, <2>1 DEF endOf
<1>6. find(szConnection, Semicolon, 1) = e - p + 2
  BY <1>2, <1>4, FoundAt
<1>7. Len(szConnection) = Len(given) - p + 1
  BY <1>2, <1>3, RestIs
<1>8. p \notin Incomplete
  <2>1. p < equals(p) /\ equals(p) < Len(given) /\ given[equals(p) + 1] # Semicolon
    BY <1>2, FoundAt
  <2>. QED BY <1>2, <2>1, ItemRead
<1>9. /\ e < Len(given) => e + 2 \in Items
      /\ \A b \in Items : b <= p \/ (e < Len(given) /\ e + 2 <= b)
  BY <1>2, <1>4, NextItem
<1>10. \A b \in Items : b \in 1..(Len(given) + 1)
  BY <1>2, ItemPlaces
<1>11. Items' = Items /\ Incomplete' = Incomplete /\ (given \in Seq(STRING))'
  BY <1>2, SameString
<1>12. CASE e < Len(given)
  <2>1. pc' = "loop"
    <3>1. ~(e - p + 2 > Len(szConnection))
      BY <1>3, <1>5, <1>7, <1>12
    <3>. QED BY <1>6, <3>1 DEF Scan
  <2>2. szConnection' = SubSeq(szConnection, (e - p + 2) + 1, Len(given) - p + 1)
    BY <1>6, <1>7 DEF Scan
  <2>3. szConnection' = Rest(given, e + 2)
    <3>1. /\ (e - p + 2) + 1 \in 1..(Len(given) - p + 2)
          /\ Len(given) - p + 1 \in (((e - p + 2) + 1) - 1)..(Len(given) - p + 1)
      BY <1>3, <1>5, <1>12
    <3>2. SubSeq(Rest(given, p), (e - p + 2) + 1, Len(given) - p + 1)
            = SubSeq(given, ((e - p + 2) + 1) + p - 1, (Len(given) - p + 1) + p - 1)
      BY <1>2, <1>3, <3>1, PartOfRest
    <3>3. ((e - p + 2) + 1) + p - 1 = e + 2 /\ (Len(given) - p + 1) + p - 1 = Len(given)
      BY <1>3, <1>5
    <3>. QED BY <1>2, <2>2, <3>2, <3>3 DEF Rest
  <2>4. Position' = e + 2
    <3>1. e + 2 \in 1..(Len(given) + 1)
      BY <1>9, <1>10, <1>12
    <3>2. Len(Rest(given, e + 2)) = Len(given) - (e + 2) + 1
      BY <1>2, <3>1, RestIs
    <3>3. Len(szConnection') = Len(given) - (e + 2) + 1
      BY <2>3, <3>2
    <3>4. Position' = Len(given) - Len(szConnection') + 1
      BY <1>2 DEF Position
    <3>. QED BY <1>3, <1>5, <3>3, <3>4
  <2>5. \A c \in Incomplete : e + 2 <= c
    <3>1. ASSUME NEW c \in Incomplete PROVE e + 2 <= c
      <4>1. c \in Items /\ p <= c /\ p # c
        BY <1>2, <1>8 DEF Incomplete, Assignments
      <4>2. ~(c <= p)
        BY <1>3, <1>10, <4>1
      <4>. QED BY <1>9, <4>1, <4>2
    <3>. QED BY <3>1
  <2>6. settings' = Values(e + 2)
    <3>1. \A b \in Items : b < e + 2 <=> b <= p
      BY <1>3, <1>5, <1>9, <1>10
    <3>. QED BY <1>2, <1>5, <3>1, MembersSet
  <2>7. Position' \in Items' /\ szConnection' = Rest(given', Position')
    BY <1>2, <1>9, <1>11, <1>12, <2>3, <2>4
  <2>8. settings' = Values(Position)'
    <3>1. Values(Position)' = Values(e + 2)
      BY <1>2, <2>4, <1>3, <1>5 DEF Values, Value, Before, Setting, Assignments, Items, Incomplete, equals, endOf
    <3>. QED BY <2>6, <3>1
  <2>9. \A c \in Incomplete' : Position' <= c
    BY <1>11, <2>4, <2>5
  <2>10. szConnection' = Rest(given, Position)'
    BY <2>7 DEF Rest
  <2>. QED BY <1>11, <2>1, <2>7, <2>8, <2>9, <2>10 DEF ReadInv
<1>13. CASE ~(e < Len(given))
  <2>1. pc' = "done"
    <3>1. e - p + 2 > Len(szConnection)
      BY <1>3, <1>5, <1>7, <1>13
    <3>. QED BY <1>6, <3>1 DEF Scan
  <2>2. \A b \in Items : b < Len(given) + 2 <=> b <= p
    BY <1>3, <1>9, <1>10, <1>13
  <2>3. settings' = Values(Len(given) + 2)
    BY <1>2, <1>3, <2>2, MembersSet
  <2>4. Values(Len(given) + 2)' = Values(Len(given) + 2)
    BY <1>2 DEF Values, Value, Before, Setting, Assignments, Items, Incomplete,
                equals, endOf
  <2>. QED BY <1>11, <2>1, <2>3, <2>4 DEF ReadInv
<1>. QED BY <1>12, <1>13

LEMMA StopStep == ReadInv /\ Stop => ReadInv'
<1>. SUFFICES ASSUME ReadInv, Stop PROVE ReadInv'
  OBVIOUS
<1>1. PICK p : p = Position
  OBVIOUS
<1>2. /\ given \in Seq(STRING) /\ p \in Items /\ szConnection = Rest(given, p)
      /\ settings = Values(p) /\ ~scanned
      /\ given' = given /\ settings' = settings /\ pc' = "done"
  BY <1>1 DEF ReadInv, Stop
<1>3. p \in 1..(Len(given) + 1) /\ Len(given) \in Nat
  BY <1>2, ItemPlaces
<1>4. ~(p < equals(p) /\ equals(p) < Len(given) /\ given[equals(p) + 1] # Semicolon)
  BY <1>2, FoundAt
<1>5. ASSUME NEW m PROVE Value(m, Len(given) + 2) = Value(m, p)
  <2>1. ASSUME NEW b \in Setting(m) PROVE b < p /\ b < Len(given) + 2
    <3>1. b < p
      BY <1>2, <1>4, NothingMore
    <3>2. b \in 1..Len(given)
      BY <1>2, SettingPlaces
    <3>. QED BY <1>3, <3>1, <3>2
  <2>2. Before(m, Len(given) + 2) = Before(m, p)
    BY <2>1 DEF Before
  <2>. QED BY <2>2, SameValue
<1>6. settings = Values(Len(given) + 2)
  BY <1>2, <1>5 DEF Values
<1>7. Values(Len(given) + 2)' = Values(Len(given) + 2)
  BY <1>2 DEF Values, Value, Before, Setting, Assignments, Items, Incomplete,
                equals, endOf
<1>. QED BY <1>2, <1>6, <1>7 DEF ReadInv

\* SetConnectionString sets every member to the value of the last item that
\* names it before the first incomplete one, whatever the string is made of
\* and however long it is: items without a = are passed over although the name
\* that sscanf reads runs on into the next item.
THEOREM SettingsCorrect == Spec => []SettingsExact
<1>1. Init => ReadInv
  <2>. SUFFICES ASSUME Init PROVE ReadInv
    OBVIOUS
  <2>1. given \in Seq(STRING) /\ szConnection = given /\ settings = Defaults /\ pc = "loop"
    BY StringsAssumption DEF Init
  <2>2. Len(given) \in Nat /\ Position = 1
    BY <2>1 DEF Position
  <2>3. Rest(given, 1) = given
    BY <2>1, SubSeqFull DEF Rest
  <2>4. \A b \in Items : b \in 1..(Len(given) + 1)
    BY <2>1, ItemPlaces
  <2>5. \A c \in Incomplete : 1 <= c
    BY <2>2, <2>4 DEF Incomplete, Assignments
  <2>6. \A m : Before(m, 1) = {}
    BY <2>2, <2>4 DEF Before, Setting, Assignments
  <2>7. Values(1) = Defaults
    BY <2>6 DEF Values, Value, Defaults
  <2>. QED BY <2>1, <2>2, <2>3, <2>5, <2>7 DEF ReadInv, Items
<1>2. ReadInv /\ [Next]_vars => ReadInv'
  <2>. SUFFICES ASSUME ReadInv, [Next]_vars PROVE ReadInv'
    OBVIOUS
  <2>1. CASE Scan BY <2>1, ScanStep
  <2>2. CASE Stop BY <2>2, StopStep
  <2>3. CASE Returned \/ UNCHANGED vars
    <3>1. UNCHANGED vars
      BY <2>3 DEF Returned
    <3>2. given' = given /\ szConnection' = szConnection /\ settings' = settings /\ pc' = pc
      BY <3>1 DEF vars
    <3>3. Position' = Position /\ Rest(given, Position)' = Rest(given, Position)
      BY <3>2 DEF Position, Rest
    <3>4. Items' = Items /\ Incomplete' = Incomplete
      BY <3>2, SameString
    <3>5. Values(Position)' = Values(Position) /\ Values(Len(given) + 2)' = Values(Len(given) + 2)
      BY <3>2 DEF Values, Value, Before, Setting, Assignments, Items, Incomplete, Position,
                  equals, endOf
    <3>. QED BY <3>2, <3>3, <3>4, <3>5 DEF ReadInv
  <2>. QED BY <2>1, <2>2, <2>3 DEF Next
<1>. QED BY <1>1, <1>2, ReadExact, PTL DEF Spec
=============================================================================
