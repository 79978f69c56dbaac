------------------------- MODULE AgentRequestProofs -------------------------
(***************************************************************************)
(* What AgentRequest promises of admissions and answers, for any keys,     *)
(* limits, windows and requests.                                           *)
(***************************************************************************)
EXTENDS AgentRequest, FiniteSetTheorems, SequenceTheorems, TLAPS

-----------------------------------------------------------------------------
(* Numbers and sequences *)

LEMMA LeastNatural ==
    ASSUME NEW T \in SUBSET Nat, T # {}
    PROVE  \E m \in T : \A n \in T : m <= n
<1>1. \E m \in T : \A n \in T : <<n, m>> \notin OpToRel(<, Nat)
  BY WFMin, NatLessThanWellFounded
<1>2. PICK m \in T : \A n \in T : <<n, m>> \notin {ss \in Nat \X Nat : ss[1] < ss[2]}
  BY <1>1 DEF OpToRel
<1>3. \A n \in T : ~(n < m)
  BY <1>2
<1> QED
  BY <1>3

LEMMA GreatestOf ==
    ASSUME NEW n \in Nat, NEW S \in SUBSET (1 .. n), S # {}
    PROVE  \E m \in S : \A j \in S : j <= m
<1> DEFINE T == {n - j : j \in S}
<1>1. T \in SUBSET Nat /\ T # {}
  <2>1. \A j \in S : n - j \in Nat
    OBVIOUS
  <2>2. T \subseteq Nat
    BY <2>1
  <2>3. PICK j \in S : TRUE
    OBVIOUS
  <2>4. n - j \in T
    OBVIOUS
  <2> HIDE DEF T
  <2> QED
    BY <2>2, <2>4
<1>2. PICK d \in T : \A x \in T : d <= x
  <2> HIDE DEF T
  <2> QED
    BY <1>1, LeastNatural
<1>3. PICK m \in S : d = n - m
  OBVIOUS
<1>4. ASSUME NEW j \in S PROVE j <= m
  <2>1. n - j \in T
    OBVIOUS
  <2>2. n - m <= n - j
    BY <1>2, <1>3, <2>1
  <2>3. m \in Nat /\ j \in Nat
    OBVIOUS
  <2> HIDE DEF T
  <2> QED
    BY <2>2, <2>3
<1> QED
  BY <1>4

\* Seconds rounded up are enough, and more than none.
LEMMA CeilEnough ==
    ASSUME NEW a \in Int, NEW s \in Nat \ {0}
    PROVE  s * ((a + s - 1) \div s) >= a /\ (a + s - 1) \div s \in Int
OBVIOUS

LEMMA DueFacts ==
    ASSUME AgentRequestAssumption, now \in Nat, NEW at \in Nat
    PROVE  Due(at) \in Nat \ {0} /\ Due(at) >= at
BY CeilEnough DEF Due, AgentRequestAssumption

\* What is left of a sequence whose first n are dropped.
Rest(s, n) == SubSeq(s, n + 1, Len(s))
Sorted(s) == \A i, j \in DOMAIN s : i <= j => s[i] <= s[j]

LEMMA RestFacts ==
    ASSUME NEW s \in Seq(Nat), NEW n \in 0 .. Len(s)
    PROVE  /\ Rest(s, n) \in Seq(Nat)
           /\ Len(Rest(s, n)) = Len(s) - n
           /\ \A i \in 1 .. Len(s) - n : Rest(s, n)[i] = s[n + i]
           /\ Sorted(s) => Sorted(Rest(s, n))
<1>1. /\ Len(s) \in Nat /\ n \in Nat /\ DOMAIN s = 1 .. Len(s)
      /\ \A i \in n + 1 .. Len(s) : s[i] \in Nat
  BY LenProperties, ElementOfSeq
<1>2. /\ Rest(s, n) \in Seq(Nat)
      /\ Len(Rest(s, n)) = IF n + 1 <= Len(s) THEN Len(s) - (n + 1) + 1 ELSE 0
      /\ \A i \in 1 .. Len(s) - (n + 1) + 1 : Rest(s, n)[i] = s[(n + 1) + i - 1]
  BY <1>1, SubSeqProperties DEF Rest
<1> DEFINE r == Rest(s, n)
           l == Len(s)
<1>3. r \in Seq(Nat) /\ Len(r) = Len(s) - n
  <2>1. Len(r) = IF n + 1 <= l THEN l - (n + 1) + 1 ELSE 0
    BY <1>2
  <2>2. l \in Nat /\ n \in 0 .. l
    BY <1>1
  <2> HIDE DEF r, l
  <2>3. Len(r) = l - n
    BY <2>1, <2>2
  <2> QED
    BY <1>2, <2>3 DEF r, l
<1> HIDE DEF r, l
<1>4. ASSUME NEW i \in 1 .. Len(s) - n PROVE r[i] = s[n + i]
  <2>1. i \in 1 .. Len(s) - (n + 1) + 1 /\ (n + 1) + i - 1 = n + i
    BY <1>1
  <2> QED
    BY <1>2, <2>1 DEF r
<1>5. DOMAIN r = 1 .. Len(s) - n
  BY <1>3, LenProperties
<1>6. \A i \in 1 .. Len(s) - n : n + i \in 1 .. Len(s)
  BY <1>1
<1>7. Sorted(s) => Sorted(r)
  <2> SUFFICES ASSUME Sorted(s), NEW i \in DOMAIN r, NEW j \in DOMAIN r, i <= j PROVE r[i] <= r[j]
    BY DEF Sorted
  <2>1. n + i \in DOMAIN s /\ n + j \in DOMAIN s /\ n + i <= n + j
    BY <1>1, <1>5, <1>6
  <2>2. s[n + i] <= s[n + j]
    BY <2>1 DEF Sorted
  <2>3. r[i] = s[n + i] /\ r[j] = s[n + j]
    BY <1>4, <1>5
  <2> QED
    BY <2>2, <2>3
<1> QED
  BY <1>3, <1>4, <1>7 DEF r

LEMMA RestOfRest ==
    ASSUME NEW s \in Seq(Nat), NEW n \in 0 .. Len(s), NEW m \in 0 .. Len(s) - n
    PROVE  Rest(Rest(s, n), m) = Rest(s, n + m)
<1>0. Len(s) \in Nat
  BY LenProperties
<1>1. n + m \in 0 .. Len(s)
  BY <1>0
<1>2. Len(Rest(s, n)) = Len(s) - n /\ Rest(s, n) \in Seq(Nat)
  BY RestFacts
<1> DEFINE a == Rest(Rest(s, n), m)
           b == Rest(s, n + m)
<1>3. a \in Seq(Nat) /\ b \in Seq(Nat) /\ Len(a) = Len(s) - n - m /\ Len(b) = Len(s) - (n + m)
  BY <1>1, <1>2, RestFacts
<1>4. ASSUME NEW i \in 1 .. Len(s) - n - m PROVE a[i] = b[i]
  <2>1. a[i] = Rest(s, n)[m + i]
    BY <1>2, RestFacts
  <2>2. Rest(s, n)[m + i] = s[n + (m + i)]
    <3>1. m + i \in 1 .. Len(s) - n
      BY <1>0
    <3> QED
      BY <3>1, RestFacts
  <2>3. b[i] = s[(n + m) + i]
    BY <1>1, RestFacts
  <2> QED
    BY <2>1, <2>2, <2>3
<1> HIDE DEF a, b
<1>5. a = b
  <2>1. Len(a) = Len(b) /\ Len(a) = Len(s) - n - m
    BY <1>0, <1>3
  <2> QED
    BY <1>3, <1>4, <2>1, SeqEqual
<1> QED
  BY <1>5 DEF a, b

LEMMA RestOfAppend ==
    ASSUME NEW s \in Seq(Nat), NEW n \in 0 .. Len(s), NEW x \in Nat
    PROVE  Append(Rest(s, n), x) = Rest(Append(s, x), n)
<1>0. Len(s) \in Nat
  BY LenProperties
<1>1. Append(s, x) \in Seq(Nat) /\ Len(Append(s, x)) = Len(s) + 1 /\ n \in 0 .. Len(Append(s, x))
  BY <1>0, AppendProperties
<1> DEFINE a == Append(Rest(s, n), x)
           b == Rest(Append(s, x), n)
<1>2. Rest(s, n) \in Seq(Nat) /\ Len(Rest(s, n)) = Len(s) - n
  BY RestFacts
<1>3. a \in Seq(Nat) /\ Len(a) = Len(s) - n + 1
  BY <1>2, AppendProperties
<1>4. b \in Seq(Nat) /\ Len(b) = Len(s) + 1 - n
  <2> DEFINE t == Append(s, x)
  <2>1. t \in Seq(Nat) /\ n \in 0 .. Len(t) /\ Len(t) = Len(s) + 1
    BY <1>1
  <2> HIDE DEF t
  <2>2. Rest(t, n) \in Seq(Nat) /\ Len(Rest(t, n)) = Len(t) - n
    BY <2>1, RestFacts
  <2> QED
    BY <2>1, <2>2 DEF t
<1>5. ASSUME NEW i \in 1 .. Len(s) - n + 1 PROVE a[i] = b[i]
  <2>1. b[i] = Append(s, x)[n + i]
    <3>1. i \in 1 .. Len(Append(s, x)) - n
      BY <1>0, <1>1
    <3> QED
      BY <1>1, <3>1, RestFacts
  <2>2. CASE i = Len(s) - n + 1
    <3>1. n + i = Len(s) + 1 /\ i = Len(Rest(s, n)) + 1
      BY <1>0, <1>2, <2>2
    <3>2. a[i] = x /\ Append(s, x)[n + i] = x
      BY <1>2, <3>1, AppendProperties
    <3> QED
      BY <2>1, <3>2
  <2>3. CASE i # Len(s) - n + 1
    <3>1. i \in 1 .. Len(s) - n /\ n + i \in 1 .. Len(s)
      BY <1>0, <2>3
    <3>2. a[i] = Rest(s, n)[i]
      BY <1>2, <3>1, AppendProperties
    <3>3. Rest(s, n)[i] = s[n + i]
      BY <3>1, RestFacts
    <3>4. Append(s, x)[n + i] = s[n + i]
      BY <3>1, AppendProperties
    <3> QED
      BY <2>1, <3>2, <3>3, <3>4
  <2> QED
    BY <2>2, <2>3
<1> HIDE DEF a, b
<1>6. a = b
  <2>1. Len(a) = Len(b) /\ Len(a) = Len(s) - n + 1
    BY <1>0, <1>3, <1>4
  <2> QED
    BY <1>3, <1>4, <1>5, <2>1, SeqEqual
<1> QED
  BY <1>6 DEF a, b

\* Of times in order, the ones that are over are a beginning.
LEMMA OverFacts ==
    ASSUME AgentRequestAssumption, now \in Nat, NEW s \in Seq(Nat), Sorted(s)
    PROVE  /\ Over(s) \in 0 .. Len(s)
           /\ \A i \in 1 .. Len(s) : s[i] <= now - Window <=> i <= Over(s)
<1> DEFINE T == {n \in 0 .. Len(s) : \A i \in 1 .. Len(s) : n < i => now - Window < s[i]}
<1>0. /\ now - Window \in Int /\ Len(s) \in Nat /\ DOMAIN s = 1 .. Len(s)
      /\ \A i \in 1 .. Len(s) : s[i] \in Nat
  BY LenProperties, ElementOfSeq DEF AgentRequestAssumption
<1>1. Len(s) \in T
  BY <1>0
<1>2. \E m \in T : \A n \in T : m <= n
  <2>1. T \in SUBSET Nat /\ T # {}
    BY <1>0, <1>1
  <2> HIDE DEF T
  <2> QED
    BY <2>1, LeastNatural
<1>5. PICK m \in T : \A n \in T : m <= n
  BY <1>2
<1>3. ASSUME NEW i \in 1 .. Len(s) PROVE s[i] <= now - Window <=> i <= m
  <2>1. CASE i > m
    BY <1>0, <2>1
  <2>2. CASE i <= m
    <3>1. m - 1 \in 0 .. Len(s) /\ m \in Nat /\ i \in Nat
      BY <1>0, <2>2
    <3>2. m - 1 \notin T
      <4> HIDE DEF T
      <4>1. T \subseteq Int
        BY DEF T
      <4> QED
        BY <1>5, <3>1, <4>1
    <3>3. PICK j \in 1 .. Len(s) : m - 1 < j /\ ~(now - Window < s[j])
      BY <3>1, <3>2
    <3>4. i <= j
      BY <1>0, <2>2, <3>1, <3>3
    <3>5. s[i] <= s[j]
      BY <1>0, <3>4 DEF Sorted
    <3> QED
      BY <1>0, <2>2, <3>3, <3>5
  <2> QED
    BY <2>1, <2>2
<1>4. \E n \in 0 .. Len(s) : \A i \in DOMAIN s : s[i] <= now - Window <=> i <= n
  BY <1>0, <1>3
<1> QED
  BY <1>0, <1>4 DEF Over

-----------------------------------------------------------------------------
(* The invariant of the windows.  A bucket is the end of the history of its *)
(* key, and what it lacks is over; the limit is kept over all the history.  *)

EndOf(b, k) ==
    \E n \in 0 .. Len(admitted[k]) :
        /\ Times(b, k) = Rest(admitted[k], n)
        /\ \A i \in 1 .. n : admitted[k][i] <= now - Window

LimitTypes ==
    /\ now \in Nat
    /\ admitted \in [Key -> Seq(Nat)] /\ told \in [Key -> Nat]
    /\ DOMAIN buckets \subseteq Key /\ IsFiniteSet(DOMAIN buckets)
    /\ \A k \in DOMAIN buckets : buckets[k] # <<>>

History == \A k \in Key : Sorted(admitted[k]) /\ \A i \in DOMAIN admitted[k] : admitted[k][i] <= now

Spaced ==
    \A k \in Key : \A i \in DOMAIN admitted[k] :
        Limit[k] < i => admitted[k][i - Limit[k]] <= admitted[k][i] - Window

Buckets == \A k \in Key : EndOf(buckets, k) /\ Len(Times(buckets, k)) <= Limit[k]

\* Who was told to wait waits for the oldest of a full bucket ...
TellsFull ==
    \A k \in Key : told[k] # 0 /\ Len(Times(buckets, k)) = Limit[k] => Times(buckets, k)[1] + Window <= told[k]

\* ... or for a whole bucket.
TellsCrowded ==
    \A k \in Key : ~Shared /\ told[k] # 0 /\ Crowded(buckets, k) =>
        \E j \in DOMAIN buckets : Last(buckets[j]) + Window <= told[k]

Few == ~Shared => Cardinality(DOMAIN buckets) <= MaxBuckets

LimitInv == LimitTypes /\ History /\ Spaced /\ Buckets /\ TellsFull /\ TellsCrowded /\ Few

LEMMA InitLimitInv == ASSUME AgentRequestAssumption, LimitInit PROVE LimitInv
<1>1. IsFiniteSet({}) /\ Cardinality({}) = 0
  BY FS_EmptySet
<1>2. DOMAIN buckets = {}
  BY DEF LimitInit
<1>3. LimitTypes /\ Few
  BY <1>1, <1>2 DEF LimitInit, LimitTypes, Few, AgentRequestAssumption
<1>4. \A k \in Key : Times(buckets, k) = <<>> /\ admitted[k] = <<>> /\ told[k] = 0
  BY <1>2 DEF Times, LimitInit
<1>5. History /\ Spaced /\ TellsFull /\ TellsCrowded
  BY <1>4 DEF History, Spaced, Sorted, TellsFull, TellsCrowded
<1>6. Buckets
  <2>1. Rest(<<>>, 0) = <<>>
    BY DEF Rest
  <2> QED
    BY <1>4, <2>1 DEF Buckets, EndOf, AgentRequestAssumption
<1> QED
  BY <1>3, <1>5, <1>6 DEF LimitInv

\* The bucket of a key, in terms of its history.
LEMMA BucketFacts ==
    ASSUME AgentRequestAssumption, LimitInv, NEW k \in Key
    PROVE  /\ Times(buckets, k) \in Seq(Nat) /\ Sorted(Times(buckets, k))
           /\ \A i \in DOMAIN Times(buckets, k) : Times(buckets, k)[i] <= now
           /\ Len(Times(buckets, k)) <= Len(admitted[k])
<1>1. PICK n \in 0 .. Len(admitted[k]) : Times(buckets, k) = Rest(admitted[k], n)
  BY DEF LimitInv, Buckets, EndOf
<1>2. admitted[k] \in Seq(Nat) /\ Sorted(admitted[k])
  BY DEF LimitInv, LimitTypes, History
<1>3. /\ Rest(admitted[k], n) \in Seq(Nat) /\ Sorted(Rest(admitted[k], n))
      /\ Len(Rest(admitted[k], n)) = Len(admitted[k]) - n
      /\ \A i \in 1 .. Len(admitted[k]) - n : Rest(admitted[k], n)[i] = admitted[k][n + i]
  BY <1>2, RestFacts
<1>4. \A i \in 1 .. Len(admitted[k]) : admitted[k][i] <= now
  BY <1>2, LenProperties DEF LimitInv, History
<1>5. /\ Len(admitted[k]) \in Nat
      /\ \A i \in 1 .. Len(admitted[k]) - n : n + i \in 1 .. Len(admitted[k])
  BY <1>2, LenProperties
<1>6. DOMAIN Rest(admitted[k], n) = 1 .. Len(admitted[k]) - n
  BY <1>3, LenProperties
<1> DEFINE b == Times(buckets, k)
<1>7. /\ b \in Seq(Nat) /\ Sorted(b) /\ DOMAIN b = 1 .. Len(admitted[k]) - n
      /\ Len(b) = Len(admitted[k]) - n
      /\ \A i \in 1 .. Len(admitted[k]) - n : b[i] = admitted[k][n + i]
  BY <1>1, <1>2, <1>3, <1>6
<1> HIDE DEF b
<1>8. \A i \in DOMAIN b : b[i] <= now
  BY <1>4, <1>5, <1>7
<1>9. Len(b) <= Len(admitted[k])
  BY <1>5, <1>7
<1> QED
  BY <1>7, <1>8, <1>9 DEF b

\* What consume drops before it decides: the beginning of a bucket that is over.
LEMMA LeftFacts ==
    ASSUME AgentRequestAssumption, LimitInv, NEW j \in DOMAIN buckets, NEW k
    PROVE  \E m \in 0 .. Len(buckets[j]) :
              /\ Left(j, k) = Rest(buckets[j], m)
              /\ \A i \in 1 .. m : buckets[j][i] <= now - Window
              /\ ~(Shared /\ j # k) => \A i \in 1 .. Len(buckets[j]) : i <= m \/ buckets[j][i] > now - Window
<1>1. Times(buckets, j) = buckets[j] /\ j \in Key
  BY DEF Times, LimitInv, LimitTypes
<1>2. buckets[j] \in Seq(Nat) /\ Sorted(buckets[j]) /\ now \in Nat /\ now - Window \in Int
  BY <1>1, BucketFacts DEF LimitInv, LimitTypes, AgentRequestAssumption
<1>3. CASE Shared /\ j # k
  <2>1. Rest(buckets[j], 0) = buckets[j]
    BY <1>2 DEF Rest
  <2> QED
    BY <1>2, <1>3, <2>1 DEF Left
<1>4. CASE ~(Shared /\ j # k)
  <2>1. Left(j, k) = Rest(buckets[j], Over(buckets[j]))
    BY <1>4 DEF Left, Active, Rest
  <2>2. /\ Over(buckets[j]) \in 0 .. Len(buckets[j])
        /\ \A i \in 1 .. Len(buckets[j]) : buckets[j][i] <= now - Window <=> i <= Over(buckets[j])
    BY <1>2, OverFacts
  <2> QED
    BY <1>2, <2>1, <2>2
<1> QED
  BY <1>3, <1>4

\* The history is in order, not after now, and a bucket is an end of it.
LEMMA HistoryFacts ==
    ASSUME LimitInv, NEW k \in Key
    PROVE  /\ admitted[k] \in Seq(Nat) /\ Len(admitted[k]) \in Nat /\ Sorted(admitted[k])
           /\ DOMAIN admitted[k] = 1 .. Len(admitted[k])
           /\ \A i \in 1 .. Len(admitted[k]) : admitted[k][i] \in Nat /\ admitted[k][i] <= now
<1>1. admitted[k] \in Seq(Nat) /\ Sorted(admitted[k])
  BY DEF LimitInv, LimitTypes, History
<1> QED
  BY <1>1, LenProperties, ElementOfSeq DEF LimitInv, History

\* So is what consume leaves of it.
LEMMA ClearedFacts ==
    ASSUME AgentRequestAssumption, LimitInv, NEW k \in Key, NEW j \in Key
    PROVE  LET c == Times(Cleared(k), j)
               b == Times(buckets, j)
           IN  /\ EndOf(Cleared(k), j)
               /\ c \in Seq(Nat) /\ Len(c) <= Len(b)
               /\ Len(c) = Len(b) => c = b
               /\ c # <<>> => Last(c) = Last(b)
               /\ j = k \/ ~Shared => \A i \in DOMAIN c : c[i] > now - Window
<1> DEFINE c == Times(Cleared(k), j)
           b == Times(buckets, j)
           a == admitted[j]
<1>0. b \in Seq(Nat) /\ Len(b) \in Nat /\ DOMAIN b = 1 .. Len(b)
  BY BucketFacts, LenProperties
<1>1. DOMAIN Cleared(k) = {i \in DOMAIN buckets : Left(i, k) # <<>>}
  BY DEF Cleared
<1>2. \E m \in 0 .. Len(b) :
         /\ c = Rest(b, m)
         /\ \A i \in 1 .. m : b[i] <= now - Window
         /\ j = k \/ ~Shared => \A i \in 1 .. Len(b) : i <= m \/ b[i] > now - Window
  <2>1. CASE j \in DOMAIN buckets
    <3>1. b = buckets[j]
      BY <2>1 DEF Times
    <3>2. c = Left(j, k)
      BY <1>1, <2>1 DEF Times, Cleared
    <3> QED
      BY <2>1, <3>1, <3>2, LeftFacts
  <2>2. CASE j \notin DOMAIN buckets
    <3>1. b = <<>> /\ c = <<>>
      BY <1>1, <2>2 DEF Times
    <3>2. Rest(<<>>, 0) = <<>> /\ Len(<<>>) = 0
      BY EmptySeq DEF Rest
    <3> QED
      BY <3>1, <3>2
  <2> QED
    BY <2>1, <2>2
<1>3. PICK m \in 0 .. Len(b) :
         /\ c = Rest(b, m)
         /\ \A i \in 1 .. m : b[i] <= now - Window
         /\ j = k \/ ~Shared => \A i \in 1 .. Len(b) : i <= m \/ b[i] > now - Window
  BY <1>2
<1>4. PICK n \in 0 .. Len(a) : b = Rest(a, n) /\ \A i \in 1 .. n : a[i] <= now - Window
  BY DEF LimitInv, Buckets, EndOf
<1>5. a \in Seq(Nat) /\ Len(a) \in Nat /\ Len(b) = Len(a) - n /\ \A i \in 1 .. Len(a) - n : b[i] = a[n + i]
  BY <1>4, HistoryFacts, RestFacts
<1> HIDE DEF a, b, c
<1>6. c \in Seq(Nat) /\ Len(c) = Len(b) - m /\ \A i \in 1 .. Len(b) - m : c[i] = b[m + i]
  BY <1>0, <1>3, RestFacts
<1>7. DOMAIN c = 1 .. Len(b) - m
  BY <1>6, LenProperties
<1>8. EndOf(Cleared(k), j)
  <2>1. c = Rest(a, n + m)
    BY <1>3, <1>4, <1>5, RestOfRest
  <2>2. n + m \in 0 .. Len(a)
    BY <1>0, <1>5
  <2>3. ASSUME NEW i \in 1 .. n + m PROVE a[i] <= now - Window
    <3>1. CASE i <= n
      BY <1>4, <3>1
    <3>2. CASE i > n
      <4>1. i - n \in 1 .. m /\ i - n \in 1 .. Len(a) - n /\ n + (i - n) = i
        BY <1>0, <1>5, <3>2
      <4>2. b[i - n] = a[i]
        BY <1>5, <4>1
      <4> QED
        BY <1>3, <4>1, <4>2
    <3> QED
      BY <3>1, <3>2
  <2> QED
    BY <2>1, <2>2, <2>3 DEF EndOf, a, c
<1>9. Len(c) <= Len(b)
  BY <1>0, <1>6
<1>10. Len(c) = Len(b) => c = b
  <2> SUFFICES ASSUME Len(c) = Len(b) PROVE c = b
    OBVIOUS
  <2>1. m = 0
    BY <1>0, <1>6
  <2>2. \A i \in 1 .. Len(c) : c[i] = b[i]
    BY <1>0, <1>6, <2>1
  <2> QED
    BY <1>0, <1>6, <2>2, SeqEqual
<1>11. c # <<>> => Last(c) = Last(b)
  <2> SUFFICES ASSUME c # <<>> PROVE Last(c) = Last(b)
    OBVIOUS
  <2>1. Len(c) # 0
    BY <1>6, EmptySeq
  <2>2. m \in Nat /\ Len(c) \in Nat /\ Len(c) = Len(b) - m
    BY <1>0, <1>6, LenProperties
  <2>3. Len(c) \in 1 .. Len(b) - m /\ m + Len(c) = Len(b)
    <3>1. \A x, y \in Nat : x # 0 /\ x = y - m => x \in 1 .. y - m /\ m + x = y
      BY <2>2
    <3> QED
      BY <1>0, <2>1, <2>2, <3>1
  <2>4. c[Len(c)] = b[m + Len(c)]
    BY <1>6, <2>3
  <2> QED
    BY <2>3, <2>4 DEF Last
<1>12. ASSUME j = k \/ ~Shared, NEW i \in DOMAIN c PROVE c[i] > now - Window
  <2>1. m \in Nat /\ i \in 1 .. Len(b) - m
    BY <1>0, <1>7, <1>12
  <2>2. m + i \in 1 .. Len(b) /\ ~(m + i <= m)
    BY <1>0, <2>1
  <2>3. c[i] = b[m + i]
    BY <1>6, <2>1
  <2> QED
    BY <1>3, <1>12, <2>2, <2>3
<1> QED
  BY <1>6, <1>8, <1>9, <1>10, <1>11, <1>12 DEF b, c

\* No bucket appears by clearing, and none that is left is empty.
LEMMA ClearedDomain ==
    ASSUME LimitInv, NEW k
    PROVE  /\ DOMAIN Cleared(k) \subseteq DOMAIN buckets /\ DOMAIN Cleared(k) \subseteq Key
           /\ IsFiniteSet(DOMAIN Cleared(k))
           /\ \A j \in DOMAIN Cleared(k) : Cleared(k)[j] # <<>>
<1>1. DOMAIN Cleared(k) = {i \in DOMAIN buckets : Left(i, k) # <<>>}
  BY DEF Cleared
<1>2. DOMAIN Cleared(k) \subseteq DOMAIN buckets
  BY <1>1
<1>3. \A j \in DOMAIN Cleared(k) : Cleared(k)[j] = Left(j, k)
  BY DEF Cleared
<1> QED
  BY <1>1, <1>2, <1>3, FS_Subset DEF LimitInv, LimitTypes

\* The first bucket to be over is one of them.
LEMMA FirstGoneFacts ==
    ASSUME AgentRequestAssumption, LimitInv, NEW k \in Key, DOMAIN Cleared(k) # {}
    PROVE  \E j \in DOMAIN Cleared(k) : FirstGone(Cleared(k)) = Last(Cleared(k)[j]) + Window /\ FirstGone(Cleared(k)) \in Nat
<1> DEFINE c == Cleared(k)
           T == {Last(c[j]) + Window : j \in DOMAIN c}
<1>1. ASSUME NEW j \in DOMAIN c PROVE Last(c[j]) \in Nat
  <2>1. c[j] = Times(c, j) /\ c[j] # <<>> /\ j \in Key
    BY ClearedDomain DEF Times
  <2>2. c[j] \in Seq(Nat)
    BY <2>1, ClearedFacts
  <2> HIDE DEF c
  <2>3. Len(c[j]) \in 1 .. Len(c[j])
    BY <2>1, <2>2, EmptySeq, LenProperties
  <2> QED
    BY <2>2, <2>3, ElementOfSeq DEF Last
<1>2. T \in SUBSET Nat /\ T # {}
  <2> HIDE DEF c
  <2> QED
    BY <1>1 DEF AgentRequestAssumption, c
<1>3. PICK m \in T : \A n \in T : m <= n
  <2> HIDE DEF T
  <2> QED
    BY <1>2, LeastNatural
<1>4. \A j \in DOMAIN c : m <= Last(c[j]) + Window
  BY <1>3
<1>5. FirstGone(c) \in T
  <2> HIDE DEF c
  <2> QED
    BY <1>4 DEF FirstGone
<1> QED
  BY <1>2, <1>5

-----------------------------------------------------------------------------
(* The steps of the windows *)

LEMMA TickLimitInv == ASSUME AgentRequestAssumption, LimitInv, Tick PROVE LimitInv'
<1> USE DEF Tick, LimitInv
<1>1. LimitTypes' /\ Few'
  BY DEF LimitTypes, Few
<1>2. History'
  <2> SUFFICES ASSUME NEW k \in Key, NEW i \in DOMAIN admitted[k] PROVE admitted[k][i] <= now + 1
    BY DEF History, Sorted
  <2>1. admitted[k][i] \in Nat /\ admitted[k][i] <= now /\ now \in Nat
    BY HistoryFacts DEF LimitTypes
  <2> QED
    BY <2>1
<1>3. Spaced'
  BY DEF Spaced
<1>4. Buckets'
  <2> SUFFICES ASSUME NEW k \in Key PROVE EndOf(buckets, k)'
    BY DEF Buckets, Times
  <2>1. PICK n \in 0 .. Len(admitted[k]) :
           Times(buckets, k) = Rest(admitted[k], n) /\ \A i \in 1 .. n : admitted[k][i] <= now - Window
    BY DEF Buckets, EndOf
  <2>2. ASSUME NEW i \in 1 .. n PROVE admitted[k][i] <= (now + 1) - Window
    <3>1. admitted[k][i] \in Nat /\ admitted[k][i] <= now - Window
      BY <2>1, HistoryFacts
    <3> QED
      BY <3>1 DEF LimitTypes, AgentRequestAssumption
  <2> QED
    BY <2>1, <2>2 DEF EndOf, Times
<1>5. TellsFull' /\ TellsCrowded'
  BY DEF TellsFull, TellsCrowded, Times, Crowded
<1> QED
  BY <1>1, <1>2, <1>3, <1>4, <1>5

LEMMA RefusedLimitInv == ASSUME AgentRequestAssumption, LimitInv, NEW k \in Key, Consume(k, FALSE) PROVE LimitInv'
<1> DEFINE c == Cleared(k)
           due == IF Full(c, k) THEN Times(c, k)[1] + Window ELSE FirstGone(c)
<1>1. /\ Full(c, k) \/ Crowded(c, k)
      /\ buckets' = c /\ admitted' = admitted /\ now' = now
      /\ told' = [told EXCEPT ![k] = Due(due)]
  BY DEF Consume
<1>2. now \in Nat /\ told \in [Key -> Nat] /\ Limit[k] \in Nat \ {0} /\ Window \in Nat
  BY DEF LimitInv, LimitTypes, AgentRequestAssumption
<1>3. \A j \in Key : /\ EndOf(c, j) /\ Times(c, j) \in Seq(Nat) /\ Len(Times(c, j)) <= Len(Times(buckets, j))
                     /\ Len(Times(c, j)) = Len(Times(buckets, j)) => Times(c, j) = Times(buckets, j)
                     /\ Times(c, j) # <<>> => Last(Times(c, j)) = Last(Times(buckets, j))
                     /\ Len(Times(c, j)) \in Nat /\ Len(Times(buckets, j)) \in Nat
                     /\ Len(Times(buckets, j)) <= Limit[j] /\ Limit[j] \in Nat \ {0}
  BY ClearedFacts, BucketFacts, LenProperties DEF LimitInv, Buckets, AgentRequestAssumption
<1>4. /\ DOMAIN c \subseteq DOMAIN buckets /\ DOMAIN c \subseteq Key /\ IsFiniteSet(DOMAIN c)
      /\ \A j \in DOMAIN c : c[j] # <<>>
  BY ClearedDomain
<1>5. Full(c, k) => Times(c, k)[1] \in Nat
  <2> SUFFICES ASSUME Full(c, k) PROVE Times(c, k)[1] \in Nat
    OBVIOUS
  <2>1. 1 \in 1 .. Len(Times(c, k))
    BY <1>3 DEF Full
  <2> QED
    BY <1>3, <2>1, ElementOfSeq
<1>6. ~Full(c, k) => \E j \in DOMAIN c : FirstGone(c) = Last(c[j]) + Window /\ FirstGone(c) \in Nat
  <2>1. Crowded(c, k) => DOMAIN c # {}
    BY FS_EmptySet DEF Crowded, AgentRequestAssumption
  <2> QED
    BY <1>1, <2>1, FirstGoneFacts
<1>7. due \in Nat
  BY <1>2, <1>5, <1>6
<1>8. Due(due) \in Nat /\ Due(due) >= due
  <2> HIDE DEF due
  <2> QED
    BY <1>2, <1>7, DueFacts
<1>9. told'[k] = Due(due) /\ (\A j \in Key \ {k} : told'[j] = told[j]) /\ told' \in [Key -> Nat]
  BY <1>1, <1>2, <1>8
<1> HIDE DEF c
<1>10. LimitTypes'
  BY <1>1, <1>4, <1>9 DEF LimitInv, LimitTypes
<1>11. History' /\ Spaced'
  BY <1>1 DEF LimitInv, History, Spaced
<1>12. Buckets'
  BY <1>1, <1>3 DEF Buckets, EndOf, Times
<1>13. TellsFull'
  <2> SUFFICES ASSUME NEW j \in Key, told'[j] # 0, Len(Times(c, j)) = Limit[j]
               PROVE  Times(c, j)[1] + Window <= told'[j]
    BY <1>1 DEF TellsFull, Times
  <2>1. CASE j = k
    <3>1. Full(c, k)
      BY <1>3, <2>1 DEF Full
    <3> QED
      BY <1>8, <1>9, <2>1, <3>1
  <2>2. CASE j # k
    <3>1. Times(c, j) = Times(buckets, j)
      BY <1>3
    <3> QED
      BY <1>9, <2>2, <3>1 DEF LimitInv, TellsFull
  <2> QED
    BY <2>1, <2>2
<1>14. IsFiniteSet(DOMAIN buckets) /\ Cardinality(DOMAIN c) \in Nat /\ Cardinality(DOMAIN buckets) \in Nat
  BY <1>4, FS_CardinalityType DEF LimitInv, LimitTypes
<1>15. Cardinality(DOMAIN c) <= Cardinality(DOMAIN buckets)
       /\ (Cardinality(DOMAIN c) = Cardinality(DOMAIN buckets) => DOMAIN c = DOMAIN buckets)
  BY <1>4, <1>14, FS_Subset
<1>16. TellsCrowded'
  <2> SUFFICES ASSUME NEW j \in Key, ~Shared, told'[j] # 0, Crowded(c, j)
               PROVE  \E i \in DOMAIN c : Last(c[i]) + Window <= told'[j]
    BY <1>1 DEF TellsCrowded, Crowded
  <2>1. DOMAIN c = DOMAIN buckets
    BY <1>14, <1>15 DEF Crowded, LimitInv, Few, AgentRequestAssumption
  <2>2. CASE j = k
    <3>1. Times(c, k) = <<>>
      BY <2>2 DEF Times, Crowded
    <3>2. ~Full(c, k)
      BY <1>2, <3>1, EmptySeq DEF Full
    <3> QED
      BY <1>6, <1>8, <1>9, <2>2, <3>2
  <2>3. CASE j # k
    <3>1. Crowded(buckets, j) /\ told[j] # 0
      BY <1>9, <2>1, <2>3 DEF Crowded
    <3>2. PICK i \in DOMAIN buckets : Last(buckets[i]) + Window <= told[j]
      BY <3>1 DEF LimitInv, TellsCrowded
    <3>3. Times(c, i) = c[i] /\ Times(buckets, i) = buckets[i] /\ c[i] # <<>> /\ i \in Key
      BY <1>4, <2>1 DEF Times
    <3>4. Last(c[i]) = Last(buckets[i])
      BY <1>3, <3>3
    <3> QED
      BY <1>9, <2>1, <2>3, <3>2, <3>4
  <2> QED
    BY <2>2, <2>3
<1>17. Few'
  BY <1>1, <1>14, <1>15 DEF LimitInv, Few, AgentRequestAssumption
<1> QED
  BY <1>10, <1>11, <1>12, <1>13, <1>16, <1>17 DEF LimitInv

LEMMA AdmittedLimitInv == ASSUME AgentRequestAssumption, LimitInv, NEW k \in Key, Consume(k, TRUE) PROVE LimitInv'
<1> DEFINE c == Cleared(k)
           a == admitted[k]
<1>1. /\ ~Full(c, k) /\ ~Crowded(c, k)
      /\ buckets' = [j \in DOMAIN c \cup {k} |-> IF j = k THEN Append(Times(c, k), now) ELSE c[j]]
      /\ admitted' = [admitted EXCEPT ![k] = Append(a, now)]
      /\ told' = [j \in Key |-> IF Shared /\ j # k THEN told[j] ELSE 0]
      /\ now' = now
  BY DEF Consume
<1>2. /\ now \in Nat /\ admitted \in [Key -> Seq(Nat)] /\ told \in [Key -> Nat]
      /\ Limit[k] \in Nat \ {0} /\ Window \in Nat \ {0} /\ MaxBuckets \in Nat
  BY DEF LimitInv, LimitTypes, AgentRequestAssumption
<1>3. \A j \in Key : /\ EndOf(c, j) /\ Times(c, j) \in Seq(Nat) /\ Len(Times(c, j)) <= Len(Times(buckets, j))
                     /\ Len(Times(c, j)) = Len(Times(buckets, j)) => Times(c, j) = Times(buckets, j)
                     /\ Len(Times(c, j)) \in Nat /\ Len(Times(buckets, j)) \in Nat
                     /\ Len(Times(buckets, j)) <= Limit[j] /\ Limit[j] \in Nat \ {0}
  BY ClearedFacts, BucketFacts, LenProperties DEF LimitInv, Buckets, AgentRequestAssumption
<1>4. /\ DOMAIN c \subseteq DOMAIN buckets /\ DOMAIN c \subseteq Key /\ IsFiniteSet(DOMAIN c)
      /\ \A j \in DOMAIN c : c[j] # <<>>
  BY ClearedDomain
<1>5. /\ a \in Seq(Nat) /\ Len(a) \in Nat /\ Sorted(a) /\ DOMAIN a = 1 .. Len(a)
      /\ \A i \in 1 .. Len(a) : a[i] \in Nat /\ a[i] <= now
  BY HistoryFacts
<1>6. /\ Append(a, now) \in Seq(Nat) /\ Len(Append(a, now)) = Len(a) + 1
      /\ \A i \in 1 .. Len(a) : Append(a, now)[i] = a[i]
      /\ Append(a, now)[Len(a) + 1] = now
      /\ DOMAIN Append(a, now) = 1 .. Len(a) + 1
  BY <1>2, <1>5, AppendProperties, LenProperties
<1>7. PICK n \in 0 .. Len(a) : Times(c, k) = Rest(a, n) /\ \A i \in 1 .. n : a[i] <= now - Window
  BY <1>3 DEF EndOf
<1>8. Len(Times(c, k)) = Len(a) - n
  BY <1>5, <1>7, RestFacts
<1>9. Len(a) - n < Limit[k]
  BY <1>1, <1>2, <1>5, <1>8 DEF Full
<1> HIDE DEF c
<1>10. /\ Times(buckets', k) = Append(Times(c, k), now)
       /\ \A j \in Key \ {k} : Times(buckets', j) = Times(c, j)
       /\ DOMAIN buckets' = DOMAIN c \cup {k}
  BY <1>1 DEF Times
<1>11. admitted'[k] = Append(a, now) /\ \A j \in Key \ {k} : admitted'[j] = admitted[j]
  BY <1>1, <1>2
<1> HIDE DEF a
<1>12. LimitTypes'
  <2>1. admitted' \in [Key -> Seq(Nat)]
    BY <1>1, <1>2, <1>6
  <2>2. told' \in [Key -> Nat]
    BY <1>1, <1>2
  <2>3. IsFiniteSet(DOMAIN c \cup {k})
    BY <1>4, FS_AddElement
  <2>4. Append(Times(c, k), now) # <<>>
    <3>1. Len(Times(c, k)) \in Nat /\ Times(c, k) \in Seq(Nat)
      BY <1>3
    <3>2. Len(Append(Times(c, k), now)) = Len(Times(c, k)) + 1
      BY <1>2, <3>1, AppendProperties
    <3> QED
      BY <3>1, <3>2, EmptySeq
  <2>5. \A j \in DOMAIN c \cup {k} : buckets'[j] # <<>>
    BY <1>1, <1>4, <2>4
  <2> QED
    BY <1>1, <1>2, <1>4, <1>10, <2>1, <2>2, <2>3, <2>5 DEF LimitTypes
<1>13. History'
  <2>1. \A i \in 1 .. Len(a) + 1 : Append(a, now)[i] <= now
    BY <1>2, <1>5, <1>6
  <2>2. Sorted(Append(a, now))
    <3> SUFFICES ASSUME NEW i \in 1 .. Len(a) + 1, NEW j \in 1 .. Len(a) + 1, i <= j
                 PROVE  Append(a, now)[i] <= Append(a, now)[j]
      BY <1>6 DEF Sorted
    <3>1. CASE j = Len(a) + 1
      BY <1>6, <2>1, <3>1
    <3>2. CASE j # Len(a) + 1
      <4>1. i \in 1 .. Len(a) /\ j \in 1 .. Len(a)
        BY <1>5, <3>2
      <4>2. a[i] <= a[j]
        BY <1>5, <4>1 DEF Sorted
      <4>3. Append(a, now)[i] = a[i] /\ Append(a, now)[j] = a[j]
        BY <1>6, <4>1
      <4> QED
        BY <4>2, <4>3
    <3> QED
      BY <3>1, <3>2
  <2>3. \A j \in Key \ {k} : Sorted(admitted[j]) /\ \A i \in DOMAIN admitted[j] : admitted[j][i] <= now
    BY DEF LimitInv, History
  <2> QED
    BY <1>1, <1>6, <1>11, <2>1, <2>2, <2>3 DEF History
<1>14. Spaced'
  <2>1. ASSUME NEW i \in 1 .. Len(a) + 1, Limit[k] < i
        PROVE  Append(a, now)[i - Limit[k]] <= Append(a, now)[i] - Window
    <3>1. i - Limit[k] \in 1 .. Len(a)
      BY <1>2, <1>5, <2>1
    <3>2. Append(a, now)[i - Limit[k]] = a[i - Limit[k]]
      BY <1>6, <3>1
    <3>3. CASE i = Len(a) + 1
      <4>1. i - Limit[k] \in 1 .. n
        BY <1>2, <1>5, <1>9, <3>1, <3>3
      <4>2. a[i - Limit[k]] <= now - Window
        BY <1>7, <4>1
      <4> QED
        BY <1>6, <3>2, <3>3, <4>2
    <3>4. CASE i # Len(a) + 1
      <4>1. i \in 1 .. Len(a)
        BY <1>5, <3>4
      <4>2. a[i - Limit[k]] <= a[i] - Window
        BY <1>5, <2>1, <4>1 DEF LimitInv, Spaced, a
      <4> QED
        BY <1>6, <3>2, <4>1, <4>2
    <3> QED
      BY <3>3, <3>4
  <2>2. \A j \in Key \ {k} : \A i \in DOMAIN admitted[j] :
           Limit[j] < i => admitted[j][i - Limit[j]] <= admitted[j][i] - Window
    BY DEF LimitInv, Spaced
  <2> QED
    BY <1>6, <1>11, <2>1, <2>2 DEF Spaced
<1>15. Buckets'
  <2>1. Append(Times(c, k), now) = Rest(Append(a, now), n) /\ n \in 0 .. Len(Append(a, now))
    BY <1>2, <1>5, <1>6, <1>7, RestOfAppend
  <2>2. \A i \in 1 .. n : Append(a, now)[i] <= now - Window
    <3>1. \A i \in 1 .. n : i \in 1 .. Len(a)
      BY <1>5
    <3> QED
      BY <1>6, <1>7, <3>1
  <2>3. EndOf(buckets, k)'
    BY <1>1, <1>10, <1>11, <2>1, <2>2 DEF EndOf
  <2>4. Len(Append(Times(c, k), now)) <= Limit[k]
    <3>1. Len(Append(Times(c, k), now)) = Len(Times(c, k)) + 1
      BY <1>2, <1>3, AppendProperties
    <3> QED
      BY <1>2, <1>5, <1>8, <1>9, <3>1
  <2>5. ASSUME NEW j \in Key \ {k} PROVE EndOf(buckets, j)' /\ Len(Times(c, j)) <= Limit[j]
    <3>1. EndOf(c, j) /\ Len(Times(c, j)) <= Limit[j]
      BY <1>3
    <3> QED
      BY <1>1, <1>10, <1>11, <3>1 DEF EndOf
  <2> QED
    BY <1>10, <2>3, <2>4, <2>5 DEF Buckets
<1>16. TellsFull'
  <2> SUFFICES ASSUME NEW j \in Key, told'[j] # 0, Len(Times(buckets', j)) = Limit[j]
               PROVE  Times(buckets', j)[1] + Window <= told'[j]
    BY DEF TellsFull, Times
  <2>1. j # k /\ told'[j] = told[j]
    BY <1>1
  <2>2. Times(buckets', j) = Times(c, j)
    BY <1>10, <2>1
  <2>3. Times(c, j) = Times(buckets, j)
    BY <1>3, <2>2
  <2> QED
    BY <2>1, <2>2, <2>3 DEF LimitInv, TellsFull
<1>17. TellsCrowded'
  BY <1>1 DEF TellsCrowded
<1>18. Few'
  <2> SUFFICES ASSUME ~Shared PROVE Cardinality(DOMAIN c \cup {k}) <= MaxBuckets
    BY <1>10 DEF Few
  <2>1. /\ IsFiniteSet(DOMAIN buckets) /\ Cardinality(DOMAIN c) \in Nat /\ Cardinality(DOMAIN buckets) \in Nat
        /\ Cardinality(DOMAIN buckets) <= MaxBuckets
    BY <1>4, FS_CardinalityType DEF LimitInv, LimitTypes, Few
  <2>2. Cardinality(DOMAIN c) <= Cardinality(DOMAIN buckets)
    BY <1>4, <2>1, FS_Subset
  <2>3. Cardinality(DOMAIN c \cup {k}) = IF k \in DOMAIN c THEN Cardinality(DOMAIN c) ELSE Cardinality(DOMAIN c) + 1
    BY <1>4, FS_AddElement
  <2>4. k \in DOMAIN c \/ ~(Cardinality(DOMAIN c) >= MaxBuckets)
    BY <1>1 DEF Crowded
  <2> QED
    BY <1>2, <2>1, <2>2, <2>3, <2>4
<1> QED
  BY <1>12, <1>13, <1>14, <1>15, <1>16, <1>17, <1>18 DEF LimitInv

-----------------------------------------------------------------------------
(* What the invariant says of the limits *)

LEMMA InvWindowLimit == ASSUME AgentRequestAssumption, LimitInv PROVE WindowLimit
<1> SUFFICES ASSUME NEW k \in Key, NEW i \in DOMAIN admitted[k]
             PROVE  Cardinality({j \in DOMAIN admitted[k] :
                        admitted[k][i] - Window < admitted[k][j] /\ admitted[k][j] <= admitted[k][i]}) <= Limit[k]
  BY DEF WindowLimit
<1> DEFINE a == admitted[k]
           W == {j \in 1 .. Len(a) : a[i] - Window < a[j] /\ a[j] <= a[i]}
<1>1. /\ a \in Seq(Nat) /\ Len(a) \in Nat /\ Sorted(a) /\ DOMAIN a = 1 .. Len(a)
      /\ \A j \in 1 .. Len(a) : a[j] \in Nat
      /\ Limit[k] \in Nat \ {0} /\ Window \in Nat \ {0}
  BY HistoryFacts DEF AgentRequestAssumption
<1>2. i \in W /\ \A j \in W : j \in 1 .. Len(a) /\ a[i] - Window < a[j] /\ a[j] <= a[i]
  BY <1>1
<1> HIDE DEF W, a
<1>3. PICK last \in W : \A j \in W : j <= last
  BY <1>1, <1>2, GreatestOf
<1>4. ASSUME NEW j \in W PROVE j \in (last - Limit[k]) + 1 .. last
  <2>0. j \in Nat \ {0} /\ last \in 1 .. Len(a) /\ j <= last /\ j \in 1 .. Len(a)
    BY <1>1, <1>2, <1>3
  <2> SUFFICES ASSUME j <= last - Limit[k] PROVE FALSE
    BY <1>1, <2>0
  <2>1. last - Limit[k] \in 1 .. Len(a) /\ Limit[k] < last
    BY <1>1, <2>0
  <2>2. a[last - Limit[k]] <= a[last] - Window
    BY <1>1, <2>0, <2>1 DEF LimitInv, Spaced, a
  <2>3. a[j] <= a[last - Limit[k]]
    BY <1>1, <2>0, <2>1 DEF Sorted
  <2>4. a[last] <= a[i] /\ a[i] - Window < a[j] /\ a[j] \in Nat /\ a[last] \in Nat /\ a[i] \in Nat /\ a[last - Limit[k]] \in Nat
    BY <1>1, <1>2, <2>0, <2>1
  <2>5. \A p, q, r, t \in Nat, w \in Nat \ {0} : p <= q /\ q <= r - w /\ r <= t /\ t - w < p => FALSE
    OBVIOUS
  <2> QED
    BY <1>1, <2>2, <2>3, <2>4, <2>5
<1>5. last \in Int
  BY <1>1, <1>2
<1>6. IsFiniteSet((last - Limit[k]) + 1 .. last) /\ Cardinality((last - Limit[k]) + 1 .. last) = Limit[k]
  <2> DEFINE f == (last - Limit[k]) + 1
  <2>1. f \in Int /\ f <= last /\ last - f + 1 = Limit[k]
    BY <1>1, <1>5
  <2> HIDE DEF f
  <2>2. IsFiniteSet(f .. last) /\ Cardinality(f .. last) = IF f > last THEN 0 ELSE last - f + 1
    BY <1>5, <2>1, FS_Interval
  <2>3. ~(f > last)
    BY <1>5, <2>1
  <2> QED
    BY <2>1, <2>2, <2>3 DEF f
<1>7. Cardinality(W) <= Limit[k]
  <2>1. W \subseteq (last - Limit[k]) + 1 .. last
    BY <1>4
  <2> QED
    BY <1>6, <2>1, FS_Subset
<1> QED
  BY <1>1, <1>7 DEF W, a

LEMMA InvRetrySuffices == ASSUME AgentRequestAssumption, LimitInv PROVE RetrySuffices
<1> SUFFICES ASSUME NEW k \in Key, told[k] # 0, now >= told[k]
             PROVE  ~Full(Cleared(k), k) /\ ~Crowded(Cleared(k), k)
  BY DEF RetrySuffices
<1> DEFINE c == Cleared(k)
<1>1. /\ now \in Nat /\ told[k] \in Nat /\ Window \in Nat \ {0} /\ Limit[k] \in Nat \ {0}
      /\ MaxBuckets \in Nat /\ IsFiniteSet(DOMAIN buckets)
  BY DEF LimitInv, LimitTypes, AgentRequestAssumption
<1>2. \A j \in Key : /\ Times(c, j) \in Seq(Nat) /\ Len(Times(c, j)) <= Len(Times(buckets, j))
                     /\ Len(Times(c, j)) = Len(Times(buckets, j)) => Times(c, j) = Times(buckets, j)
                     /\ Times(c, j) # <<>> => Last(Times(c, j)) = Last(Times(buckets, j))
                     /\ j = k \/ ~Shared => \A i \in DOMAIN Times(c, j) : Times(c, j)[i] > now - Window
                     /\ Len(Times(c, j)) \in Nat /\ Len(Times(buckets, j)) \in Nat
                     /\ Len(Times(buckets, j)) <= Limit[j] /\ DOMAIN Times(c, j) = 1 .. Len(Times(c, j))
  BY ClearedFacts, BucketFacts, LenProperties DEF LimitInv, Buckets
<1>3. /\ DOMAIN c \subseteq DOMAIN buckets /\ DOMAIN c \subseteq Key /\ IsFiniteSet(DOMAIN c)
      /\ \A j \in DOMAIN c : c[j] # <<>>
  BY ClearedDomain
<1> HIDE DEF c
<1>4. ~Full(c, k)
  <2> SUFFICES ASSUME Full(c, k) PROVE FALSE
    OBVIOUS
  <2>1. Len(Times(buckets, k)) = Limit[k] /\ Times(c, k) = Times(buckets, k) /\ 1 \in DOMAIN Times(c, k)
    BY <1>1, <1>2 DEF Full
  <2>2. Times(c, k)[1] + Window <= told[k]
    BY <2>1 DEF LimitInv, TellsFull
  <2>3. Times(c, k)[1] > now - Window /\ Times(c, k)[1] \in Nat
    BY <1>2, <2>1, ElementOfSeq
  <2> QED
    BY <1>1, <2>2, <2>3
<1>5. ~Crowded(c, k)
  <2> SUFFICES ASSUME Crowded(c, k) PROVE FALSE
    OBVIOUS
  <2>1. ~Shared /\ k \notin DOMAIN c /\ Cardinality(DOMAIN c) >= MaxBuckets
    BY DEF Crowded
  <2>2. Cardinality(DOMAIN buckets) <= MaxBuckets /\ Cardinality(DOMAIN c) \in Nat /\ Cardinality(DOMAIN buckets) \in Nat
    BY <1>1, <1>3, <2>1, FS_CardinalityType DEF LimitInv, Few
  <2>3. Cardinality(DOMAIN c) <= Cardinality(DOMAIN buckets)
        /\ (Cardinality(DOMAIN c) = Cardinality(DOMAIN buckets) => DOMAIN c = DOMAIN buckets)
    BY <1>1, <1>3, FS_Subset
  <2>4. DOMAIN c = DOMAIN buckets /\ Cardinality(DOMAIN buckets) >= MaxBuckets
    BY <1>1, <2>1, <2>2, <2>3
  <2>5. Crowded(buckets, k)
    BY <2>1, <2>4 DEF Crowded
  <2>6. PICK j \in DOMAIN buckets : Last(buckets[j]) + Window <= told[k]
    BY <2>1, <2>5 DEF LimitInv, TellsCrowded
  <2>7. Times(c, j) = c[j] /\ Times(buckets, j) = buckets[j] /\ c[j] # <<>> /\ j \in Key
    BY <1>3, <2>4 DEF Times
  <2>8. Last(c[j]) = Last(buckets[j]) /\ c[j] \in Seq(Nat) /\ Len(c[j]) \in 1 .. Len(c[j])
    BY <1>2, <2>7, EmptySeq
  <2>9. Last(c[j]) > now - Window /\ Last(c[j]) \in Nat
    BY <1>2, <2>1, <2>7, <2>8, ElementOfSeq DEF Last
  <2> QED
    BY <1>1, <2>6, <2>8, <2>9
<1> QED
  BY <1>4, <1>5 DEF c

-----------------------------------------------------------------------------
(* The requests.  What is true of one request by itself, and what all of   *)
(* them have had of the limits.                                            *)
Stages == {"new", "admit", "asking", "decided", "working", "over"}

Budget == [stage : Stages, key : Key \cup {NewRequest.key}, reason : {"none", "timeout", "cancelled"},
           deadline : Nat, paid : BOOLEAN, reads : Nat, pending : Nat, left : BOOLEAN, answer : Answers]

Sane(q) ==
    /\ q \in Budget
    /\ q.stage # "new" => q.key \in Key
    /\ q.stage = "new" => q.answer = "none" /\ q.pending = 0
    /\ q.stage \in {"new", "admit", "asking"} => ~q.paid
    /\ q.stage = "working" \/ q.reads > 0 => q.paid
    /\ q.answer = "none" <=> q.reason = "none"
    /\ q.left => q.answer # "none"

Paid(k) == {r \in Request : req[r].paid /\ req[r].key = k}

PaidFor == \A k \in Key : IsFiniteSet(Paid(k)) /\ Cardinality(Paid(k)) <= Len(admitted[k])

IInv ==
    /\ LimitInv
    /\ req \in [Request -> Budget] /\ \A r \in Request : Sane(req[r])
    /\ PaidFor

\* What one step of a request may do to it.
Truthful(q, p) ==
    /\ q.answer # "none" => p.reads = q.reads
    /\ q.answer = "none" =>
        /\ p.answer \in {"ok", "failed", "limited", "unavailable"} => now < p.deadline /\ ~p.left
        /\ p.answer = "timeout" => now >= p.deadline
        /\ p.answer = "cancelled" => p.left

Move(r, p) ==
    /\ req' = [req EXCEPT ![r] = p] /\ Sane(p) /\ Truthful(req[r], p)
    /\ \/ UNCHANGED limitVars /\ p.paid = req[r].paid /\ (p.paid => p.key = req[r].key)
       \/ ~req[r].paid /\ p.key = req[r].key /\ p.key \in Key /\ Consume(p.key, p.paid)

LEMMA NewRequestSane == Sane(NewRequest) /\ NewRequest.answer = "none" /\ ~NewRequest.paid
BY DEF Sane, NewRequest, Budget, Stages, Answers

LEMMA InitIInv == ASSUME AgentRequestAssumption, Init PROVE IInv
<1>1. LimitInv
  BY InitLimitInv DEF Init
<1>2. \A r \in Request : req[r] = NewRequest
  BY DEF Init
<1>3. req \in [Request -> Budget] /\ \A r \in Request : Sane(req[r])
  BY <1>2, NewRequestSane DEF Init, Sane
<1>4. \A k \in Key : Paid(k) = {} /\ admitted[k] = <<>>
  BY <1>2, NewRequestSane DEF Paid, Init, LimitInit
<1>5. IsFiniteSet({}) /\ Cardinality({}) = 0 /\ Len(<<>>) = 0
  BY FS_EmptySet, EmptySeq
<1>6. PaidFor
  <2>1. ASSUME NEW k \in Key PROVE IsFiniteSet(Paid(k)) /\ Cardinality(Paid(k)) <= Len(admitted[k])
    <3>1. Cardinality(Paid(k)) = 0 /\ Len(admitted[k]) = 0 /\ IsFiniteSet(Paid(k))
      BY <1>4, <1>5
    <3> QED
      BY <3>1
  <2> QED
    BY <2>1 DEF PaidFor
<1> QED
  BY <1>1, <1>3, <1>6 DEF IInv

\* An answer is given once, and with it the work is stopped.
LEMMA AnswerFacts ==
    ASSUME NEW q \in Budget, NEW a \in Answers \ {"none"}, q.answer = "none" \/ q.reason # "none"
    PROVE  LET p == Answer(q, a) IN
           /\ p \in Budget
           /\ p.stage = q.stage /\ p.key = q.key /\ p.deadline = q.deadline /\ p.paid = q.paid
           /\ p.reads = q.reads /\ p.left = q.left
           /\ p.answer = IF q.answer = "none" THEN a ELSE q.answer
           /\ p.answer # "none" /\ p.reason # "none"
BY DEF Answer, Budget, Answers

\* The work stops, or ends.
LEMMA SettleMoves ==
    ASSUME IInv, NEW r \in Request, NEW q \in Budget, NEW a \in {"ok", "failed", "limited", "unavailable"},
           Settle(r, q, a), UNCHANGED limitVars,
           q.stage \in {"over", req[r].stage}, req[r].stage # "new",
           q.key = req[r].key, q.deadline = req[r].deadline, q.paid = req[r].paid, q.reads = req[r].reads,
           q.left = req[r].left, q.reason = req[r].reason, q.answer = req[r].answer
    PROVE  \E p : Move(r, p)
<1> DEFINE e == IF Stopped(r) # "none" THEN Stopped(r) ELSE a
           p == Answer(q, e)
<1>1. Sane(req[r]) /\ req[r] \in Budget
  BY DEF IInv
<1>2. e \in Answers \ {"none"}
  BY <1>1 DEF Stopped, Answers, Budget
<1>3. q.answer = "none" \/ q.reason # "none"
  BY <1>1 DEF Sane
<1> HIDE DEF e
<1>4. /\ p \in Budget
      /\ p.stage = q.stage /\ p.key = q.key /\ p.deadline = q.deadline /\ p.paid = q.paid
      /\ p.reads = q.reads /\ p.left = q.left
      /\ p.answer = IF q.answer = "none" THEN e ELSE q.answer
      /\ p.answer # "none" /\ p.reason # "none"
  BY <1>2, <1>3, AnswerFacts
<1>5. req' = [req EXCEPT ![r] = p]
  BY DEF Settle, e
<1> HIDE DEF p
<1>6. Sane(p)
  BY <1>1, <1>4 DEF Sane
<1>7. Truthful(req[r], p)
  <2>1. req[r].answer = "none" => req[r].reason = "none" /\ ~req[r].left
    BY <1>1 DEF Sane
  <2> SUFFICES ASSUME req[r].answer = "none"
               PROVE  /\ p.answer \in {"ok", "failed", "limited", "unavailable"} => now < p.deadline /\ ~p.left
                      /\ p.answer = "timeout" => now >= p.deadline
                      /\ p.answer = "cancelled" => p.left
    BY <1>4 DEF Truthful
  <2>2. p.answer = e /\ p.deadline = req[r].deadline /\ ~p.left
    BY <1>4, <2>1
  <2>3. e = IF Late(r) THEN "timeout" ELSE a
    BY <2>1 DEF e, Stopped
  <2>4. now \in Nat /\ req[r].deadline \in Nat
    BY <1>1 DEF IInv, LimitInv, LimitTypes, Budget
  <2> QED
    BY <2>2, <2>3, <2>4 DEF Late
<1> QED
  BY <1>4, <1>5, <1>6, <1>7 DEF Move

\* Each action is such a step.
LEMMA ReceiveMoves == ASSUME AgentRequestAssumption, IInv, NEW r \in Request, Receive(r) PROVE \E p : Move(r, p)
<1>1. PICK k \in Key, gone \in BOOLEAN :
         LET q == [NewRequest EXCEPT !.stage = "admit", !.key = k, !.deadline = now + Timeout, !.left = gone] IN
         req' = [req EXCEPT ![r] = IF gone THEN Answer([q EXCEPT !.stage = "over"], "cancelled") ELSE q]
  BY DEF Receive
<1> DEFINE q == [NewRequest EXCEPT !.stage = "admit", !.key = k, !.deadline = now + Timeout, !.left = gone]
<1>2. Sane(req[r]) /\ req[r].stage = "new"
  BY DEF IInv, Receive
<1>3. now + Timeout \in Nat
  BY DEF IInv, LimitInv, LimitTypes, AgentRequestAssumption
<1>4. req[r].paid = FALSE /\ req[r].answer = "none"
  BY <1>2 DEF Sane, Budget
<1>5. q \in Budget /\ [q EXCEPT !.stage = "over"] \in Budget
  BY <1>3 DEF NewRequest, Budget, Stages, Answers
<1>6. CASE gone
  <2> DEFINE o == [q EXCEPT !.stage = "over"]
             p == Answer(o, "cancelled")
  <2>1. o.answer = "none" /\ o.left /\ o.stage = "over" /\ o.key = k /\ o.paid = FALSE /\ o.reads = 0
    BY <1>6 DEF NewRequest
  <2>2. o \in Budget
    BY <1>5
  <2> HIDE DEF o
  <2>3. /\ p \in Budget
        /\ p.stage = o.stage /\ p.key = o.key /\ p.deadline = o.deadline /\ p.paid = o.paid
        /\ p.reads = o.reads /\ p.left = o.left /\ p.answer = "cancelled" /\ p.reason # "none"
    BY <2>1, <2>2, AnswerFacts DEF Answers
  <2>4. req' = [req EXCEPT ![r] = p]
    BY <1>1, <1>6 DEF o
  <2> HIDE DEF p
  <2>5. Sane(p)
    BY <2>1, <2>3 DEF Sane
  <2>6. Truthful(req[r], p)
    BY <1>4, <2>1, <2>3 DEF Truthful
  <2>7. UNCHANGED limitVars /\ p.paid = req[r].paid /\ ~p.paid
    BY <1>4, <2>1, <2>3 DEF Receive
  <2>8. Move(r, p)
    BY <2>4, <2>5, <2>6, <2>7 DEF Move
  <2> QED
    BY <2>8
<1>7. CASE ~gone
  <2>1. q.answer = "none" /\ ~q.left /\ q.stage = "admit" /\ q.key = k /\ q.paid = FALSE /\ q.reads = 0 /\ q.reason = "none"
    BY <1>7 DEF NewRequest
  <2>2. req' = [req EXCEPT ![r] = q]
    BY <1>1, <1>7
  <2> HIDE DEF q
  <2>3. Sane(q) /\ Truthful(req[r], q)
    BY <1>4, <1>5, <2>1 DEF Sane, Truthful
  <2>4. UNCHANGED limitVars /\ q.paid = req[r].paid /\ ~q.paid
    BY <1>4, <2>1 DEF Receive
  <2>5. Move(r, q)
    BY <2>2, <2>3, <2>4 DEF Move
  <2> QED
    BY <2>5
<1> QED
  BY <1>6, <1>7

\* The request is stopped from outside.
LEMMA StopMoves ==
    ASSUME IInv, NEW r \in Request, NEW q \in Budget, NEW a \in {"timeout", "cancelled"},
           UNCHANGED limitVars, req' = [req EXCEPT ![r] = Answer(q, a)], req[r].stage # "new",
           q.stage = req[r].stage, q.key = req[r].key, q.deadline = req[r].deadline, q.paid = req[r].paid,
           q.reads = req[r].reads, q.reason = req[r].reason, q.answer = req[r].answer,
           a = "timeout" => Late(r), a = "cancelled" => q.left
    PROVE  \E p : Move(r, p)
<1> DEFINE p == Answer(q, a)
<1>1. Sane(req[r]) /\ req[r] \in Budget
  BY DEF IInv
<1>2. a \in Answers \ {"none"}
  BY DEF Answers
<1>3. q.answer = "none" \/ q.reason # "none"
  BY <1>1 DEF Sane
<1>4. /\ p \in Budget
      /\ p.stage = q.stage /\ p.key = q.key /\ p.deadline = q.deadline /\ p.paid = q.paid
      /\ p.reads = q.reads /\ p.left = q.left
      /\ p.answer = IF q.answer = "none" THEN a ELSE q.answer
      /\ p.answer # "none" /\ p.reason # "none"
  BY <1>2, <1>3, AnswerFacts
<1>5. req' = [req EXCEPT ![r] = p]
  OBVIOUS
<1> HIDE DEF p
<1>6. Sane(p)
  BY <1>1, <1>4 DEF Sane
<1>7. Truthful(req[r], p)
  BY <1>1, <1>4 DEF Truthful, Late
<1>8. Move(r, p)
  BY <1>1, <1>4, <1>5, <1>6, <1>7 DEF Move
<1> QED
  BY <1>8

LEMMA TimerMoves ==
    ASSUME AgentRequestAssumption, IInv, NEW r \in Request, Timer(r) \/ CallerLeaves(r)
    PROVE  \E p : Move(r, p)
<1>1. req[r] \in Budget /\ req \in [Request -> Budget] /\ req[r].stage # "new" /\ UNCHANGED limitVars
  BY DEF IInv, Timer, CallerLeaves
<1>2. CASE Timer(r)
  <2>1. req' = [req EXCEPT ![r] = Answer(req[r], "timeout")] /\ Late(r)
    BY <1>1, <1>2 DEF Timer
  <2> QED
    BY <1>1, <2>1, StopMoves
<1>3. CASE CallerLeaves(r)
  <2> DEFINE q == [req[r] EXCEPT !.left = TRUE]
  <2>1. req' = [req EXCEPT ![r] = Answer(q, "cancelled")]
    BY <1>1, <1>3 DEF CallerLeaves
  <2>2. /\ q \in Budget /\ q.left
        /\ q.stage = req[r].stage /\ q.key = req[r].key /\ q.deadline = req[r].deadline
        /\ q.paid = req[r].paid /\ q.reads = req[r].reads /\ q.reason = req[r].reason
        /\ q.answer = req[r].answer
    BY <1>1 DEF Budget
  <2> HIDE DEF q
  <2> QED
    BY <1>1, <2>1, <2>2, StopMoves
<1> QED
  BY <1>2, <1>3

\* A decision is an admission paid for by this request, or none.
LEMMA AdmitMoves ==
    ASSUME AgentRequestAssumption, IInv, NEW r \in Request, Admit(r) \/ StoreDecides(r)
    PROVE  \E p : Move(r, p)
<1>1. Sane(req[r]) /\ req[r] \in Budget /\ req[r].stage \in {"admit", "asking"} /\ req \in [Request -> Budget]
  BY DEF IInv, Admit, StoreDecides
<1>2. req[r].paid = FALSE /\ req[r].key \in Key /\ req[r].reads = 0
  BY <1>1 DEF Sane, Budget
<1>3. ASSUME NEW s \in {"over", "asking"}, req' = [req EXCEPT ![r].stage = s], UNCHANGED limitVars,
             s = "asking" => req[r].stage = "admit"
      PROVE  \E p : Move(r, p)
  <2> DEFINE p == [req[r] EXCEPT !.stage = s]
  <2>1. /\ p \in Budget /\ p.stage = s /\ p.key = req[r].key /\ p.paid = FALSE /\ p.reads = 0
        /\ p.answer = req[r].answer /\ p.reason = req[r].reason /\ p.left = req[r].left
    BY <1>1, <1>2 DEF Budget, Stages
  <2>2. req' = [req EXCEPT ![r] = p]
    BY <1>3
  <2> HIDE DEF p
  <2>3. Sane(p)
    BY <1>1, <1>2, <1>3, <2>1 DEF Sane
  <2>4. Truthful(req[r], p)
    BY <1>1, <1>2, <2>1 DEF Truthful, Sane
  <2>5. Move(r, p)
    BY <1>2, <1>3, <2>1, <2>2, <2>3, <2>4 DEF Move
  <2> QED
    BY <2>5
<1>4. ASSUME NEW allowed \in BOOLEAN, Consume(req[r].key, allowed),
             req' = [req EXCEPT ![r].stage = "decided", ![r].paid = allowed]
      PROVE  \E p : Move(r, p)
  <2> DEFINE p == [req[r] EXCEPT !.stage = "decided", !.paid = allowed]
  <2>1. /\ p \in Budget /\ p.stage = "decided" /\ p.key = req[r].key /\ p.paid = allowed /\ p.reads = 0
        /\ p.answer = req[r].answer /\ p.reason = req[r].reason /\ p.left = req[r].left
    BY <1>1, <1>2 DEF Budget, Stages
  <2>2. req' = [req EXCEPT ![r] = p]
    BY <1>1, <1>4
  <2> HIDE DEF p
  <2>3. Sane(p)
    BY <1>1, <1>2, <2>1 DEF Sane
  <2>4. Truthful(req[r], p)
    BY <1>1, <1>2, <2>1 DEF Truthful, Sane
  <2>5. Move(r, p)
    BY <1>2, <1>4, <2>1, <2>2, <2>3, <2>4 DEF Move
  <2> QED
    BY <2>5
<1> QED
  BY <1>3, <1>4 DEF Admit, StoreDecides

LEMMA DecidedMoves ==
    ASSUME AgentRequestAssumption, IInv, NEW r \in Request, StoreFails(r) \/ Decided(r)
    PROVE  \E p : Move(r, p)
<1>1. /\ Sane(req[r]) /\ req[r] \in Budget /\ req[r].stage \in {"asking", "decided"} /\ req \in [Request -> Budget]
      /\ UNCHANGED limitVars
  BY DEF IInv, StoreFails, Decided
<1> DEFINE q == [req[r] EXCEPT !.stage = "over"]
<1>2. /\ q \in Budget /\ q.stage = "over" /\ q.key = req[r].key /\ q.deadline = req[r].deadline
      /\ q.paid = req[r].paid /\ q.reads = req[r].reads
      /\ q.left = req[r].left /\ q.reason = req[r].reason /\ q.answer = req[r].answer
  BY <1>1 DEF Budget, Stages
<1>3. ASSUME NEW a \in {"limited", "unavailable"}, Settle(r, q, a) PROVE \E p : Move(r, p)
  <2> HIDE DEF q
  <2> QED
    BY <1>1, <1>2, <1>3, SettleMoves
<1>4. ASSUME req[r].paid, req' = [req EXCEPT ![r].stage = "working"] PROVE \E p : Move(r, p)
  <2> DEFINE p == [req[r] EXCEPT !.stage = "working"]
  <2>1. /\ p \in Budget /\ p.stage = "working" /\ p.key = req[r].key /\ p.paid = req[r].paid /\ p.reads = req[r].reads
        /\ p.answer = req[r].answer /\ p.reason = req[r].reason /\ p.left = req[r].left
    BY <1>1 DEF Budget, Stages
  <2>2. req' = [req EXCEPT ![r] = p]
    BY <1>4
  <2> HIDE DEF p
  <2>3. Sane(p)
    BY <1>1, <1>4, <2>1 DEF Sane
  <2>4. Truthful(req[r], p)
    BY <1>1, <2>1 DEF Truthful, Sane
  <2>5. Move(r, p)
    BY <1>1, <2>1, <2>2, <2>3, <2>4 DEF Move
  <2> QED
    BY <2>5
<1> QED
  BY <1>3, <1>4 DEF StoreFails, Decided

\* Reads begin for a request that was not stopped, and the answer is the work's
\* only when it was not.
LEMMA ReadMoves ==
    ASSUME AgentRequestAssumption, IInv, NEW r \in Request,
           StartRead(r) \/ ReadEnds(r) \/ ReadFails(r) \/ Finish(r)
    PROVE  \E p : Move(r, p)
<1>1. /\ Sane(req[r]) /\ req[r] \in Budget /\ req \in [Request -> Budget] /\ UNCHANGED limitVars
  BY DEF IInv, StartRead, ReadEnds, ReadFails, Finish
<1>2. CASE StartRead(r) /\ Stopped(r) = "none"
  <2> DEFINE p == [req[r] EXCEPT !.reads = @ + 1, !.pending = @ + 1]
  <2>1. /\ p \in Budget /\ p.stage = req[r].stage /\ p.key = req[r].key /\ p.paid = req[r].paid
        /\ p.answer = req[r].answer /\ p.reason = req[r].reason /\ p.left = req[r].left
    <3>1. req[r].reads + 1 \in Nat /\ req[r].pending + 1 \in Nat
      BY <1>1 DEF Budget
    <3>2. p = [req[r] EXCEPT !.reads = req[r].reads + 1, !.pending = req[r].pending + 1]
      BY <1>1 DEF Budget
    <3> QED
      BY <1>1, <3>1, <3>2 DEF Budget
  <2>2. req' = [req EXCEPT ![r] = p] /\ req[r].stage = "working" /\ req[r].reason = "none"
    BY <1>1, <1>2 DEF StartRead, Stopped
  <2> HIDE DEF p
  <2>3. Sane(p)
    BY <1>1, <2>1, <2>2 DEF Sane
  <2>4. Truthful(req[r], p)
    BY <1>1, <2>1, <2>2 DEF Truthful, Sane
  <2>5. Move(r, p)
    BY <1>1, <2>1, <2>2, <2>3, <2>4 DEF Move
  <2> QED
    BY <2>5
<1>3. CASE (StartRead(r) /\ Stopped(r) # "none") \/ Finish(r)
  <2> DEFINE q == [req[r] EXCEPT !.stage = "over"]
  <2>1. /\ q \in Budget /\ q.stage = "over" /\ q.key = req[r].key /\ q.deadline = req[r].deadline
        /\ q.paid = req[r].paid /\ q.reads = req[r].reads
        /\ q.left = req[r].left /\ q.reason = req[r].reason /\ q.answer = req[r].answer
    BY <1>1 DEF Budget, Stages
  <2>2. req[r].stage # "new" /\ \E a \in {"ok", "failed"} : Settle(r, q, a)
    BY <1>3 DEF StartRead, Finish
  <2> HIDE DEF q
  <2> QED
    BY <1>1, <2>1, <2>2, SettleMoves
<1>4. CASE ReadEnds(r)
  <2> DEFINE p == [req[r] EXCEPT !.pending = @ - 1]
  <2>1. /\ p \in Budget /\ p.stage = req[r].stage /\ p.key = req[r].key /\ p.paid = req[r].paid
        /\ p.reads = req[r].reads
        /\ p.answer = req[r].answer /\ p.reason = req[r].reason /\ p.left = req[r].left
    BY <1>1, <1>4 DEF Budget, ReadEnds
  <2>2. req' = [req EXCEPT ![r] = p]
    BY <1>1, <1>4 DEF ReadEnds
  <2> HIDE DEF p
  <2>3. Sane(p)
    <3>1. req[r].stage # "new"
      BY <1>1, <1>4 DEF ReadEnds, Sane
    <3> QED
      BY <1>1, <2>1, <3>1 DEF Sane
  <2>4. Truthful(req[r], p)
    BY <1>1, <2>1 DEF Truthful, Sane
  <2>5. Move(r, p)
    BY <1>1, <2>1, <2>2, <2>3, <2>4 DEF Move
  <2> QED
    BY <2>5
<1>5. CASE ReadFails(r)
  <2> DEFINE q == [req[r] EXCEPT !.pending = @ - 1]
  <2>1. /\ q \in Budget /\ q.stage = req[r].stage /\ q.key = req[r].key /\ q.deadline = req[r].deadline
        /\ q.paid = req[r].paid /\ q.reads = req[r].reads
        /\ q.left = req[r].left /\ q.reason = req[r].reason /\ q.answer = req[r].answer
    BY <1>1, <1>5 DEF Budget, ReadFails
  <2>2. Settle(r, q, "failed")
    BY <1>5 DEF ReadFails
  <2> HIDE DEF q
  <2>3. req[r].stage # "new"
    BY <1>1, <1>5 DEF ReadFails, Sane
  <2> QED
    BY <1>1, <2>1, <2>2, <2>3, SettleMoves
<1> QED
  BY <1>2, <1>3, <1>4, <1>5

-----------------------------------------------------------------------------
(* The invariant is kept. *)
LEMMA MoveIInv == ASSUME AgentRequestAssumption, IInv, NEW r \in Request, NEW p, Move(r, p) PROVE IInv'
<1>1. /\ LimitInv /\ req \in [Request -> Budget] /\ PaidFor /\ \A s \in Request : Sane(req[s])
      /\ p \in Budget /\ Sane(p)
  BY DEF IInv, Move, Sane
<1>2. req' = [req EXCEPT ![r] = p]
  BY DEF Move
<1>3. /\ req' \in [Request -> Budget] /\ req'[r] = p
      /\ \A s \in Request : s # r => req'[s] = req[s]
  BY <1>1, <1>2
<1>4. \A s \in Request : Sane(req'[s])
  BY <1>1, <1>3
<1>5. CASE UNCHANGED limitVars /\ p.paid = req[r].paid /\ (p.paid => p.key = req[r].key)
  <2>1. LimitInv' /\ admitted' = admitted
    BY <1>1, <1>5 DEF limitVars, LimitInv, LimitTypes, History, Buckets, EndOf, Few, Spaced, TellsFull,
                      TellsCrowded, Times, Full, Crowded
  <2>2. \A k \in Key : Paid(k)' = Paid(k)
    BY <1>3, <1>5 DEF Paid
  <2> QED
    BY <1>1, <1>3, <1>4, <2>1, <2>2 DEF IInv, PaidFor
<1>6. CASE ~req[r].paid /\ p.key = req[r].key /\ p.key \in Key /\ Consume(p.key, p.paid)
  <2> DEFINE k == p.key
  <2>1. k \in Key /\ ~req[r].paid /\ p.paid \in BOOLEAN /\ Consume(k, p.paid)
    BY <1>1, <1>6 DEF Budget
  <2>2. CASE p.paid = FALSE
    <3>1. Consume(k, FALSE) /\ admitted' = admitted
      BY <2>1, <2>2 DEF Consume
    <3>2. LimitInv'
      BY <1>1, <2>1, <3>1, RefusedLimitInv
    <3>3. \A j \in Key : Paid(j)' = Paid(j)
      BY <1>3, <2>1, <2>2 DEF Paid
    <3> QED
      BY <1>1, <1>3, <1>4, <3>1, <3>2, <3>3 DEF IInv, PaidFor
  <2>3. CASE p.paid = TRUE
    <3>1. Consume(k, TRUE) /\ admitted' = [admitted EXCEPT ![k] = Append(admitted[k], now)]
      BY <2>1, <2>3 DEF Consume
    <3>2. LimitInv'
      BY <1>1, <2>1, <3>1, AdmittedLimitInv
    <3>3. admitted \in [Key -> Seq(Nat)] /\ now \in Nat
      BY <1>1 DEF LimitInv, LimitTypes
    <3>4. ASSUME NEW j \in Key, j # k PROVE IsFiniteSet(Paid(j)') /\ Cardinality(Paid(j)') <= Len(admitted'[j])
      <4>1. Paid(j)' = Paid(j)
        BY <1>3, <2>1, <3>4 DEF Paid
      <4>2. admitted'[j] = admitted[j]
        BY <3>1, <3>3, <3>4
      <4> QED
        BY <1>1, <4>1, <4>2 DEF PaidFor
    <3>5. IsFiniteSet(Paid(k)') /\ Cardinality(Paid(k)') <= Len(admitted'[k])
      <4>1. Paid(k)' \subseteq Paid(k) \cup {r} /\ r \notin Paid(k)
        BY <1>3, <2>1 DEF Paid
      <4>2. IsFiniteSet(Paid(k)) /\ Cardinality(Paid(k)) <= Len(admitted[k])
        BY <1>1, <2>1 DEF PaidFor
      <4>3. IsFiniteSet(Paid(k) \cup {r}) /\ Cardinality(Paid(k) \cup {r}) = Cardinality(Paid(k)) + 1
        BY <4>1, <4>2, FS_AddElement
      <4>4. IsFiniteSet(Paid(k)') /\ Cardinality(Paid(k)') <= Cardinality(Paid(k) \cup {r})
        BY <4>1, <4>3, FS_Subset
      <4>5. Len(admitted'[k]) = Len(admitted[k]) + 1
        BY <2>1, <3>1, <3>3, AppendProperties
      <4>6. Cardinality(Paid(k)) \in Nat /\ Cardinality(Paid(k)') \in Nat /\ Len(admitted[k]) \in Nat
        BY <2>1, <3>3, <4>2, <4>4, FS_CardinalityType, LenProperties
      <4> QED
        BY <4>2, <4>3, <4>4, <4>5, <4>6
    <3> QED
      BY <1>3, <1>4, <3>2, <3>4, <3>5 DEF IInv, PaidFor
  <2> QED
    BY <2>1, <2>2, <2>3
<1> QED
  BY <1>5, <1>6 DEF Move

LEMMA StepMoves == ASSUME AgentRequestAssumption, IInv, NEW r \in Request, Step(r) PROVE \E p : Move(r, p)
BY ReceiveMoves, TimerMoves, AdmitMoves, DecidedMoves, ReadMoves DEF Step

LEMMA IInvNext == ASSUME AgentRequestAssumption, IInv, [Next]_vars PROVE IInv'
<1>1. CASE Clock
  <2>1. LimitInv' /\ req' = req /\ admitted' = admitted
    BY <1>1, TickLimitInv DEF Clock, Tick, IInv
  <2> QED
    BY <2>1 DEF IInv, PaidFor, Paid
<1>2. ASSUME NEW r \in Request, Step(r) PROVE IInv'
  <2>1. PICK p : Move(r, p)
    BY <1>2, StepMoves
  <2> QED
    BY <2>1, MoveIInv
<1>3. CASE UNCHANGED vars
  <2>1. LimitInv'
    BY <1>3 DEF vars, limitVars, IInv, LimitInv, LimitTypes, History, Buckets, EndOf, Few, Spaced, TellsFull,
                TellsCrowded, Times, Full, Crowded
  <2>2. req' = req /\ admitted' = admitted
    BY <1>3 DEF vars, limitVars
  <2> QED
    BY <2>1, <2>2 DEF IInv, PaidFor, Paid
<1> QED
  BY <1>1, <1>2, <1>3 DEF Next

(* Whoever read anything was paid for. *)
LEMMA InvReadsPaid == ASSUME IInv PROVE ReadsPaid
<1> SUFFICES ASSUME NEW k \in Key
             PROVE  Cardinality({r \in Request : req[r].key = k /\ req[r].reads > 0}) <= Len(admitted[k])
  BY DEF ReadsPaid
<1> DEFINE readers == {r \in Request : req[r].key = k /\ req[r].reads > 0}
<1>1. readers \subseteq Paid(k)
  BY DEF IInv, Sane, Paid
<1>2. IsFiniteSet(Paid(k)) /\ Cardinality(Paid(k)) <= Len(admitted[k]) /\ admitted[k] \in Seq(Nat)
  BY DEF IInv, PaidFor, LimitInv, LimitTypes
<1> HIDE DEF readers
<1>3. IsFiniteSet(readers) /\ Cardinality(readers) <= Cardinality(Paid(k))
  BY <1>1, <1>2, FS_Subset
<1>4. Cardinality(readers) \in Nat /\ Cardinality(Paid(k)) \in Nat /\ Len(admitted[k]) \in Nat
  BY <1>2, <1>3, FS_CardinalityType, LenProperties
<1>5. Cardinality(readers) <= Len(admitted[k])
  BY <1>2, <1>3, <1>4
<1> QED
  BY <1>5 DEF readers

LEMMA Invariance == ASSUME AgentRequestAssumption PROVE Spec => []IInv
<1>1. Init => IInv
  BY InitIInv
<1>2. IInv /\ [Next]_vars => IInv'
  BY IInvNext
<1> QED
  BY <1>1, <1>2, PTL DEF Spec

(* Whatever the windows, the limits, the clock and the requests are, and   *)
(* whether Redis or memory decides: no window holds more admissions than   *)
(* its limit, a refused client that waits as told passes, and every request*)
(* that read anything was paid for (rate-limit.ts:52-80,                   *)
(* request-control.ts:42).                                                 *)
THEOREM LimitsHold ==
    ASSUME AgentRequestAssumption
    PROVE  Spec => [](ReadsPaid /\ WindowLimit /\ RetrySuffices)
<1>1. IInv => ReadsPaid /\ WindowLimit /\ RetrySuffices
  BY InvReadsPaid, InvWindowLimit, InvRetrySuffices DEF IInv
<1> QED
  BY <1>1, Invariance, PTL

(* What one step does to one request, put together for all of them. *)
LEMMA StepTruthful ==
    ASSUME AgentRequestAssumption, IInv, [Next]_vars
    PROVE  \A r \in Request : req'[r] = req[r] \/ Truthful(req[r], req'[r])
<1>1. CASE Clock \/ UNCHANGED vars
  BY <1>1 DEF Clock, vars
<1>2. ASSUME NEW s \in Request, Step(s)
      PROVE  \A r \in Request : req'[r] = req[r] \/ Truthful(req[r], req'[r])
  <2>1. PICK p : Move(s, p)
    BY <1>2, StepMoves
  <2>2. req' = [req EXCEPT ![s] = p] /\ Truthful(req[s], p) /\ req \in [Request -> Budget]
    BY <2>1 DEF Move, IInv
  <2>3. req'[s] = p /\ \A r \in Request : r # s => req'[r] = req[r]
    BY <2>2
  <2> QED
    BY <2>2, <2>3
<1> QED
  BY <1>1, <1>2 DEF Next

(* Nothing a request left running reads on after it was answered           *)
(* (request-budget.ts:69-74).                                              *)
THEOREM NothingReadsAfterAnswer == ASSUME AgentRequestAssumption PROVE Spec => NothingAfterAnswer
<1>1. IInv /\ [Next]_vars => [\A r \in Request : req[r].answer # "none" => req'[r].reads = req[r].reads]_vars
  BY StepTruthful DEF Truthful
<1> QED
  BY <1>1, Invariance, PTL DEF Spec, NothingAfterAnswer

(* A time limit is reported only after the deadline, a cancellation only to*)
(* a caller who left, and the work's own answer only before the one and the*)
(* other (request-control.ts:62-72).                                       *)
THEOREM AnswersAreHonest == ASSUME AgentRequestAssumption PROVE Spec => HonestAnswer
<1> DEFINE A ==
      \A r \in Request : req[r].answer = "none" =>
        LET q == req'[r] IN
        /\ q.answer \in {"ok", "failed", "limited", "unavailable"} => now < q.deadline /\ ~q.left
        /\ q.answer = "timeout" => now >= q.deadline
        /\ q.answer = "cancelled" => q.left
<1>1. IInv /\ [Next]_vars => [A]_vars
  <2>1. ASSUME IInv, [Next]_vars PROVE A
    BY <2>1, StepTruthful DEF Truthful
  <2> QED
    BY <2>1
<1>2. HonestAnswer <=> [][A]_vars
  BY DEF HonestAnswer
<1> HIDE DEF A
<1> QED
  BY <1>1, <1>2, Invariance, PTL DEF Spec

(* The three together, as the run of the panels checks them: admission is  *)
(* limited and paid for, and answers are honest and the last thing a       *)
(* request does (rate-limit.ts:52-80, request-control.ts:42-72,            *)
(* request-budget.ts:69-74).                                               *)
THEOREM RequestsAreKept == ASSUME AgentRequestAssumption PROVE Spec => RequestsKept
  BY LimitsHold, NothingReadsAfterAnswer, AnswersAreHonest, PTL DEF RequestsKept
=============================================================================
