----------------------------- MODULE MPIdataProofs -----------------------------
(* Theorems about MPIdata, for any number of processes and any programs that  *)
(* keep to MPI's rules about requests.                                        *)
EXTENDS MPIdata, Induction

--------------------------------------------------------------------------------
(* Lists: looking a request up, taking an element out.                        *)

\* Where element k of a list was before element i was taken out, and back.
Before(i, k) == IF k < i THEN k ELSE k + 1
After(i, k) == IF k < i THEN k ELSE k - 1

LEMMA Removal ==
    ASSUME NEW S, NEW s \in Seq(S), NEW i \in 1..Len(s)
    PROVE  /\ RemoveAt(s, i) \in Seq(S) /\ Len(RemoveAt(s, i)) = Len(s) - 1
           /\ \A k \in 1..Len(s) - 1 : RemoveAt(s, i)[k] = s[Before(i, k)] /\ Before(i, k) \in 1..Len(s)
           /\ \A k \in 1..Len(s) : k # i => /\ After(i, k) \in 1..Len(s) - 1 /\ Before(i, After(i, k)) = k
                                            /\ RemoveAt(s, i)[After(i, k)] = s[k]
           /\ \A k \in 1..Len(s) - 1 : Before(i, k) # i
           /\ \A j, k \in 1..Len(s) - 1 : j < k <=> Before(i, j) < Before(i, k)
<1> DEFINE a == SubSeq(s, 1, i - 1)
           b == SubSeq(s, i + 1, Len(s))
<1>1. Len(s) \in Nat /\ i \in Nat /\ 1 <= i /\ i <= Len(s)
  OBVIOUS
<1>2. a \in Seq(S) /\ Len(a) = i - 1 /\ \A k \in 1..i - 1 : a[k] = s[k]
  BY <1>1
<1>3. b \in Seq(S) /\ Len(b) = Len(s) - i /\ \A k \in 1..Len(s) - i : b[k] = s[i + k]
  BY <1>1
<1>4. RemoveAt(s, i) = a \o b
  BY DEF RemoveAt
<1> HIDE DEF a, b
<1>5. RemoveAt(s, i) \in Seq(S) /\ Len(RemoveAt(s, i)) = Len(s) - 1
  BY <1>1, <1>2, <1>3, <1>4
<1>6. \A k \in 1..Len(s) - 1 : RemoveAt(s, i)[k] = s[Before(i, k)] /\ Before(i, k) \in 1..Len(s)
  <2> TAKE k \in 1..Len(s) - 1
  <2>1. CASE k < i
    BY <1>1, <1>2, <1>3, <1>4, <2>1 DEF Before
  <2>2. CASE ~(k < i)
    <3>1. k - (i - 1) \in 1..Len(s) - i /\ i + (k - (i - 1)) = k + 1
      BY <1>1, <2>2
    <3>2. (a \o b)[k] = b[k - Len(a)]
      BY <1>1, <1>2, <1>3, <2>2
    <3> QED BY <1>1, <1>2, <1>3, <1>4, <2>2, <3>1, <3>2 DEF Before
  <2> QED BY <2>1, <2>2
<1>7. \A k \in 1..Len(s) : k # i => After(i, k) \in 1..Len(s) - 1 /\ Before(i, After(i, k)) = k
  BY <1>1 DEF Before, After
<1>8. /\ \A k \in 1..Len(s) - 1 : Before(i, k) # i
      /\ \A j, k \in 1..Len(s) - 1 : j < k <=> Before(i, j) < Before(i, k)
  BY <1>1 DEF Before
<1> QED BY <1>5, <1>6, <1>7, <1>8

LEMMA Appended ==
    ASSUME NEW S, NEW s \in Seq(S), NEW e \in S
    PROVE  /\ Append(s, e) \in Seq(S) /\ Len(Append(s, e)) = Len(s) + 1 /\ DOMAIN Append(s, e) = 1..Len(s) + 1
           /\ \A k \in 1..Len(s) : Append(s, e)[k] = s[k]
           /\ Append(s, e)[Len(s) + 1] = e /\ Len(s) \in Nat /\ DOMAIN s = 1..Len(s)
OBVIOUS

\* asyncIndex is 0 or the first place of the request.
LEMMA Index ==
    ASSUME NEW S, NEW s \in Seq(S), NEW q
    PROVE  /\ asyncIndex(s, q) \in 0..Len(s)
           /\ asyncIndex(s, q) = 0 <=> \A k \in 1..Len(s) : s[k].req # q
           /\ asyncIndex(s, q) > 0 => s[asyncIndex(s, q)].req = q
<1> DEFINE I == {k \in 1..Len(s) : s[k].req = q}
<1>1. Len(s) \in Nat /\ I \in SUBSET Nat
  OBVIOUS
<1>2. asyncIndex(s, q) = IF I # {} THEN Min(I) ELSE 0
  BY DEF asyncIndex, SelectInSeq
<1>3. CASE I = {}
  BY <1>1, <1>2, <1>3
<1>4. CASE I # {}
  <2>1. \E n \in I : \A m \in I : n <= m
    BY <1>1, <1>4, Least
  <2>2. Min(I) \in I
    BY <2>1 DEF Min
  <2> QED BY <1>1, <1>2, <1>4, <2>2
<1> QED BY <1>3, <1>4

--------------------------------------------------------------------------------
(* A list that mirrors the active requests of a kind.                         *)

Entries == [req : Int, source : Int, bytes : Nat]
Requests == [req : Int, kind : {"send", "recv", "other"}, other : Int, tag : Int, bytes : Nat, buffer : Nat,
             done : BOOLEAN, source : Int]
Matching(list, requests, kind, i, a) == requests[a].kind = kind /\ list[i].req = requests[a].req
\* no request is active twice, and an entry has the size of its request's buffer
Once(requests) == \A a, b \in 1..Len(requests) : requests[a].req = requests[b].req => a = b
Sized(list, requests, kind) ==
    \A i \in 1..Len(list), a \in 1..Len(requests) :
        Matching(list, requests, kind, i, a) => list[i].bytes = requests[a].buffer

MirrorFacts(L, P, kind) ==
    /\ \A i \in 1..Len(L) : \E a \in 1..Len(P) : Matching(L, P, kind, i, a)
    /\ \A a \in 1..Len(P) : P[a].kind = kind => \E i \in 1..Len(L) : Matching(L, P, kind, i, a)
    /\ \A i, j \in 1..Len(L), a, b \in 1..Len(P) :
          Matching(L, P, kind, i, a) /\ Matching(L, P, kind, j, b) => (i < j <=> a < b)

LEMMA MirrorsIs ==
    ASSUME NEW L \in Seq(Entries), NEW P \in Seq(Requests), NEW kind
    PROVE  Mirrors(L, P, kind) <=> MirrorFacts(L, P, kind)
<1>1. DOMAIN L = 1..Len(L) /\ DOMAIN P = 1..Len(P)
  OBVIOUS
<1> QED BY <1>1 DEF Mirrors, Matching, MirrorFacts

\* A request is started: its kind's list gets an entry, the others none.
LEMMA MirrorStart ==
    ASSUME NEW L \in Seq(Entries), NEW P \in Seq(Requests), NEW kind, Mirrors(L, P, kind),
           NEW e \in Entries, NEW r \in Requests, r.kind = kind, e.req = r.req,
           \A a \in 1..Len(P) : P[a].req # r.req
    PROVE  Mirrors(Append(L, e), Append(P, r), kind)
<1> DEFINE M == Append(L, e)
           Q == Append(P, r)
<1>1. /\ M \in Seq(Entries) /\ Len(M) = Len(L) + 1 /\ Len(L) \in Nat
      /\ \A k \in 1..Len(L) : M[k] = L[k]
      /\ M[Len(L) + 1] = e
  BY Appended
<1>2. /\ Q \in Seq(Requests) /\ Len(Q) = Len(P) + 1 /\ Len(P) \in Nat
      /\ \A k \in 1..Len(P) : Q[k] = P[k]
      /\ Q[Len(P) + 1] = r
  BY Appended
<1>3. /\ \A i \in 1..Len(L) : \E a \in 1..Len(P) : Matching(L, P, kind, i, a)
      /\ \A a \in 1..Len(P) : P[a].kind = kind => \E i \in 1..Len(L) : Matching(L, P, kind, i, a)
      /\ \A i, j \in 1..Len(L), a, b \in 1..Len(P) :
            Matching(L, P, kind, i, a) /\ Matching(L, P, kind, j, b) => (i < j <=> a < b)
  BY MirrorsIs DEF MirrorFacts
<1> HIDE DEF M, Q
<1>4. /\ \A i \in 1..Len(L), a \in 1..Len(P) : Matching(M, Q, kind, i, a) <=> Matching(L, P, kind, i, a)
      /\ Matching(M, Q, kind, Len(L) + 1, Len(P) + 1)
  BY <1>1, <1>2 DEF Matching
<1>5. /\ \A i \in 1..Len(L) : ~Matching(M, Q, kind, i, Len(P) + 1)
      /\ \A a \in 1..Len(P) : ~Matching(M, Q, kind, Len(L) + 1, a)
  <2>1. ASSUME NEW i \in 1..Len(L)
        PROVE  L[i].req # r.req
    BY <1>3 DEF Matching
  <2> QED BY <2>1, <1>1, <1>2 DEF Matching
<1>6. \A i \in 1..Len(M) : i \in 1..Len(L) \/ i = Len(L) + 1
  BY <1>1
<1>7. \A a \in 1..Len(Q) : a \in 1..Len(P) \/ a = Len(P) + 1
  BY <1>2
<1>8. \A i \in 1..Len(M) : \E a \in 1..Len(Q) : Matching(M, Q, kind, i, a)
  <2>1. 1..Len(P) \subseteq 1..Len(Q) /\ Len(P) + 1 \in 1..Len(Q)
    BY <1>2
  <2> QED BY <1>3, <1>4, <1>6, <2>1
<1>9. \A a \in 1..Len(Q) : Q[a].kind = kind => \E i \in 1..Len(M) : Matching(M, Q, kind, i, a)
  <2>1. 1..Len(L) \subseteq 1..Len(M) /\ Len(L) + 1 \in 1..Len(M)
    BY <1>1
  <2> QED BY <1>2, <1>3, <1>4, <1>7, <2>1
<1>10. \A i, j \in 1..Len(M), a, b \in 1..Len(Q) :
          Matching(M, Q, kind, i, a) /\ Matching(M, Q, kind, j, b) => (i < j <=> a < b)
  <2> SUFFICES ASSUME NEW i \in 1..Len(M), NEW j \in 1..Len(M), NEW a \in 1..Len(Q), NEW b \in 1..Len(Q),
                      Matching(M, Q, kind, i, a), Matching(M, Q, kind, j, b)
               PROVE  i < j <=> a < b
    OBVIOUS
  <2>1. (i \in 1..Len(L) /\ a \in 1..Len(P)) \/ (i = Len(L) + 1 /\ a = Len(P) + 1)
    BY <1>5, <1>6, <1>7
  <2>2. (j \in 1..Len(L) /\ b \in 1..Len(P)) \/ (j = Len(L) + 1 /\ b = Len(P) + 1)
    BY <1>5, <1>6, <1>7
  <2>3. CASE i \in 1..Len(L) /\ a \in 1..Len(P) /\ j \in 1..Len(L) /\ b \in 1..Len(P)
    BY <1>3, <1>4, <2>3
  <2> QED BY <1>1, <1>2, <2>1, <2>2, <2>3
<1>11. MirrorFacts(M, Q, kind)
  BY <1>8, <1>9, <1>10 DEF MirrorFacts
<1>12. Mirrors(M, Q, kind)
  BY <1>1, <1>2, <1>11, MirrorsIs
<1> QED BY <1>12 DEF M, Q

LEMMA MirrorOther ==
    ASSUME NEW L \in Seq(Entries), NEW P \in Seq(Requests), NEW kind, Mirrors(L, P, kind),
           NEW r \in Requests, r.kind # kind
    PROVE  Mirrors(L, Append(P, r), kind)
<1> DEFINE Q == Append(P, r)
<1>1. /\ Q \in Seq(Requests) /\ Len(Q) = Len(P) + 1 /\ Len(P) \in Nat
      /\ \A k \in 1..Len(P) : Q[k] = P[k]
      /\ Q[Len(P) + 1] = r
  BY Appended
<1>2. /\ \A i \in 1..Len(L) : \E a \in 1..Len(P) : Matching(L, P, kind, i, a)
      /\ \A a \in 1..Len(P) : P[a].kind = kind => \E i \in 1..Len(L) : Matching(L, P, kind, i, a)
      /\ \A i, j \in 1..Len(L), a, b \in 1..Len(P) :
            Matching(L, P, kind, i, a) /\ Matching(L, P, kind, j, b) => (i < j <=> a < b)
  BY MirrorsIs DEF MirrorFacts
<1> HIDE DEF Q
<1>3. /\ \A i \in 1..Len(L), a \in 1..Len(P) : Matching(L, Q, kind, i, a) <=> Matching(L, P, kind, i, a)
      /\ \A i \in 1..Len(L), a \in 1..Len(Q) : Matching(L, Q, kind, i, a) => a \in 1..Len(P)
      /\ \A a \in 1..Len(Q) : Q[a].kind = kind => a \in 1..Len(P) /\ P[a].kind = kind
  BY <1>1 DEF Matching
<1>4. 1..Len(P) \subseteq 1..Len(Q)
  BY <1>1
<1>5. MirrorFacts(L, Q, kind)
  BY <1>2, <1>3, <1>4 DEF MirrorFacts
<1>6. Mirrors(L, Q, kind)
  BY <1>1, <1>5, MirrorsIs
<1> QED BY <1>6 DEF Q

\* A request completes: its entry goes, the lists of other kinds stay.
LEMMA MirrorFinish ==
    ASSUME NEW L \in Seq(Entries), NEW P \in Seq(Requests), NEW kind, Mirrors(L, P, kind),
           NEW i0 \in 1..Len(L), NEW a0 \in 1..Len(P), Matching(L, P, kind, i0, a0)
    PROVE  Mirrors(RemoveAt(L, i0), RemoveAt(P, a0), kind)
<1> DEFINE M == RemoveAt(L, i0)
           Q == RemoveAt(P, a0)
<1>1. /\ M \in Seq(Entries) /\ Len(M) = Len(L) - 1 /\ Len(L) \in Nat
      /\ \A k \in 1..Len(L) - 1 : M[k] = L[Before(i0, k)] /\ Before(i0, k) \in 1..Len(L) /\ Before(i0, k) # i0
      /\ \A k \in 1..Len(L) : k # i0 => After(i0, k) \in 1..Len(L) - 1 /\ Before(i0, After(i0, k)) = k
      /\ \A j, k \in 1..Len(L) - 1 : j < k <=> Before(i0, j) < Before(i0, k)
  BY Removal
<1>2. /\ Q \in Seq(Requests) /\ Len(Q) = Len(P) - 1 /\ Len(P) \in Nat
      /\ \A k \in 1..Len(P) - 1 : Q[k] = P[Before(a0, k)] /\ Before(a0, k) \in 1..Len(P) /\ Before(a0, k) # a0
      /\ \A k \in 1..Len(P) : k # a0 => After(a0, k) \in 1..Len(P) - 1 /\ Before(a0, After(a0, k)) = k
      /\ \A j, k \in 1..Len(P) - 1 : j < k <=> Before(a0, j) < Before(a0, k)
  BY Removal
<1>3. /\ \A i \in 1..Len(L) : \E a \in 1..Len(P) : Matching(L, P, kind, i, a)
      /\ \A a \in 1..Len(P) : P[a].kind = kind => \E i \in 1..Len(L) : Matching(L, P, kind, i, a)
      /\ \A i, j \in 1..Len(L), a, b \in 1..Len(P) :
            Matching(L, P, kind, i, a) /\ Matching(L, P, kind, j, b) => (i < j <=> a < b)
  BY MirrorsIs DEF MirrorFacts
<1>4. \A i \in 1..Len(L), a \in 1..Len(P) : Matching(L, P, kind, i, a) => (i = i0 <=> a = a0)
  <2> SUFFICES ASSUME NEW i \in 1..Len(L), NEW a \in 1..Len(P), Matching(L, P, kind, i, a)
               PROVE  i = i0 <=> a = a0
    OBVIOUS
  <2>1. (i < i0 <=> a < a0) /\ (i0 < i <=> a0 < a)
    BY <1>3
  <2> QED BY <2>1
<1> HIDE DEF M, Q
<1>5. \A i \in 1..Len(M), a \in 1..Len(Q) :
         Matching(M, Q, kind, i, a) <=> Matching(L, P, kind, Before(i0, i), Before(a0, a))
  BY <1>1, <1>2 DEF Matching
<1>6. ASSUME NEW i \in 1..Len(M)
      PROVE  \E a \in 1..Len(Q) : Matching(M, Q, kind, i, a)
  <2>1. PICK a \in 1..Len(P) : Matching(L, P, kind, Before(i0, i), a)
    BY <1>1, <1>3
  <2>2. a # a0
    BY <1>1, <1>4, <2>1
  <2>3. After(a0, a) \in 1..Len(Q) /\ Before(a0, After(a0, a)) = a
    BY <1>2, <2>2
  <2> QED BY <1>5, <2>1, <2>3
<1>7. ASSUME NEW a \in 1..Len(Q), Q[a].kind = kind
      PROVE  \E i \in 1..Len(M) : Matching(M, Q, kind, i, a)
  <2>1. PICK i \in 1..Len(L) : Matching(L, P, kind, i, Before(a0, a))
    BY <1>2, <1>3, <1>7
  <2>2. i # i0
    BY <1>2, <1>4, <2>1
  <2>3. After(i0, i) \in 1..Len(M) /\ Before(i0, After(i0, i)) = i
    BY <1>1, <2>2
  <2> QED BY <1>5, <2>1, <2>3
<1>8. \A i, j \in 1..Len(M), a, b \in 1..Len(Q) :
          Matching(M, Q, kind, i, a) /\ Matching(M, Q, kind, j, b) => (i < j <=> a < b)
  <2> SUFFICES ASSUME NEW i \in 1..Len(M), NEW j \in 1..Len(M), NEW a \in 1..Len(Q), NEW b \in 1..Len(Q),
                      Matching(M, Q, kind, i, a), Matching(M, Q, kind, j, b)
               PROVE  i < j <=> a < b
    OBVIOUS
  <2>0. /\ Matching(L, P, kind, Before(i0, i), Before(a0, a))
        /\ Matching(L, P, kind, Before(i0, j), Before(a0, b))
    BY <1>5
  <2>2. /\ Before(i0, i) \in 1..Len(L) /\ Before(i0, j) \in 1..Len(L)
        /\ Before(a0, a) \in 1..Len(P) /\ Before(a0, b) \in 1..Len(P)
    BY <1>1, <1>2
  <2>1. Before(i0, i) < Before(i0, j) <=> Before(a0, a) < Before(a0, b)
    BY <1>3, <2>0, <2>2
  <2> QED BY <1>1, <1>2, <2>1
<1>9. MirrorFacts(M, Q, kind)
  BY <1>6, <1>7, <1>8 DEF MirrorFacts
<1>10. Mirrors(M, Q, kind)
  BY <1>1, <1>2, <1>9, MirrorsIs
<1> QED BY <1>10 DEF M, Q

LEMMA MirrorFinishOther ==
    ASSUME NEW L \in Seq(Entries), NEW P \in Seq(Requests), NEW kind, Mirrors(L, P, kind),
           NEW a0 \in 1..Len(P), P[a0].kind # kind
    PROVE  Mirrors(L, RemoveAt(P, a0), kind)
<1> DEFINE Q == RemoveAt(P, a0)
<1>1. /\ Q \in Seq(Requests) /\ Len(Q) = Len(P) - 1 /\ Len(P) \in Nat
      /\ \A k \in 1..Len(P) - 1 : Q[k] = P[Before(a0, k)] /\ Before(a0, k) \in 1..Len(P) /\ Before(a0, k) # a0
      /\ \A k \in 1..Len(P) : k # a0 => After(a0, k) \in 1..Len(P) - 1 /\ Before(a0, After(a0, k)) = k
      /\ \A j, k \in 1..Len(P) - 1 : j < k <=> Before(a0, j) < Before(a0, k)
  BY Removal
<1>2. /\ \A i \in 1..Len(L) : \E a \in 1..Len(P) : Matching(L, P, kind, i, a)
      /\ \A a \in 1..Len(P) : P[a].kind = kind => \E i \in 1..Len(L) : Matching(L, P, kind, i, a)
      /\ \A i, j \in 1..Len(L), a, b \in 1..Len(P) :
            Matching(L, P, kind, i, a) /\ Matching(L, P, kind, j, b) => (i < j <=> a < b)
  BY MirrorsIs DEF MirrorFacts
<1> HIDE DEF Q
<1>3. /\ \A i \in 1..Len(L), a \in 1..Len(Q) : Matching(L, Q, kind, i, a) <=> Matching(L, P, kind, i, Before(a0, a))
      /\ \A a \in 1..Len(Q) : Q[a].kind = P[Before(a0, a)].kind
      /\ \A i \in 1..Len(L) : ~Matching(L, P, kind, i, a0)
  BY <1>1 DEF Matching
<1>4. ASSUME NEW i \in 1..Len(L)
      PROVE  \E a \in 1..Len(Q) : Matching(L, Q, kind, i, a)
  <2>1. PICK a \in 1..Len(P) : Matching(L, P, kind, i, a)
    BY <1>2
  <2>2. After(a0, a) \in 1..Len(Q) /\ Before(a0, After(a0, a)) = a
    BY <1>1, <1>3, <2>1
  <2> QED BY <1>3, <2>1, <2>2
<1>5. \A a \in 1..Len(Q) : Q[a].kind = kind => \E i \in 1..Len(L) : Matching(L, Q, kind, i, a)
  BY <1>1, <1>2, <1>3
<1>6. \A i, j \in 1..Len(L), a, b \in 1..Len(Q) :
          Matching(L, Q, kind, i, a) /\ Matching(L, Q, kind, j, b) => (i < j <=> a < b)
  <2> SUFFICES ASSUME NEW i \in 1..Len(L), NEW j \in 1..Len(L), NEW a \in 1..Len(Q), NEW b \in 1..Len(Q),
                      Matching(L, Q, kind, i, a), Matching(L, Q, kind, j, b)
               PROVE  i < j <=> a < b
    OBVIOUS
  <2>1. i < j <=> Before(a0, a) < Before(a0, b)
    BY <1>1, <1>2, <1>3
  <2> QED BY <1>1, <2>1
<1>7. MirrorFacts(L, Q, kind)
  BY <1>4, <1>5, <1>6 DEF MirrorFacts
<1>8. Mirrors(L, Q, kind)
  BY <1>1, <1>7, MirrorsIs
<1> QED BY <1>8 DEF Q

\* A message arrives: the requests and their kinds stay.
LEMMA MirrorMatch ==
    ASSUME NEW L \in Seq(Entries), NEW P \in Seq(Requests), NEW kind, Mirrors(L, P, kind),
           NEW Q \in Seq(Requests), Len(Q) = Len(P),
           \A a \in 1..Len(P) : Q[a].req = P[a].req /\ Q[a].kind = P[a].kind
    PROVE  Mirrors(L, Q, kind)
<1>1. \A i \in 1..Len(L), a \in 1..Len(P) : Matching(L, Q, kind, i, a) <=> Matching(L, P, kind, i, a)
  BY DEF Matching
<1>2. MirrorFacts(L, P, kind)
  BY MirrorsIs
<1>3. MirrorFacts(L, Q, kind)
  BY <1>1, <1>2 DEF MirrorFacts
<1> QED BY <1>3, MirrorsIs

\* Once and Sized over the same steps.
LEMMA OnceStart ==
    ASSUME NEW P \in Seq(Requests), Once(P), NEW r \in Requests, \A a \in 1..Len(P) : P[a].req # r.req
    PROVE  Once(Append(P, r))
<1>1. Len(Append(P, r)) = Len(P) + 1 /\ Len(P) \in Nat
  BY Appended
<1>2. /\ \A k \in 1..Len(P) : Append(P, r)[k] = P[k]
      /\ Append(P, r)[Len(P) + 1] = r
  BY Appended
<1> QED BY <1>1, <1>2 DEF Once

LEMMA OnceFinish ==
    ASSUME NEW P \in Seq(Requests), Once(P), NEW a0 \in 1..Len(P)
    PROVE  Once(RemoveAt(P, a0))
<1>1. /\ Len(RemoveAt(P, a0)) = Len(P) - 1 /\ Len(P) \in Nat
      /\ \A k \in 1..Len(P) - 1 : RemoveAt(P, a0)[k] = P[Before(a0, k)] /\ Before(a0, k) \in 1..Len(P)
      /\ \A j, k \in 1..Len(P) - 1 : j < k <=> Before(a0, j) < Before(a0, k)
  BY Removal
<1>2. ASSUME NEW a \in 1..Len(P) - 1, NEW b \in 1..Len(P) - 1, P[Before(a0, a)].req = P[Before(a0, b)].req
      PROVE  a = b
  <2>1. Before(a0, a) = Before(a0, b)
    BY <1>1, <1>2 DEF Once
  <2>2. ~(a < b) /\ ~(b < a)
    BY <2>1, <1>1
  <2> QED BY <2>2
<1> QED BY <1>1, <1>2 DEF Once

LEMMA SizedStart ==
    ASSUME NEW L \in Seq(Entries), NEW P \in Seq(Requests), NEW kind, Sized(L, P, kind), Mirrors(L, P, kind),
           NEW e \in Entries, NEW r \in Requests, e.req = r.req, e.bytes = r.buffer,
           \A a \in 1..Len(P) : P[a].req # r.req
    PROVE  Sized(Append(L, e), Append(P, r), kind) /\ Sized(L, Append(P, r), kind)
<1>1. /\ Len(Append(L, e)) = Len(L) + 1 /\ Len(L) \in Nat
      /\ \A k \in 1..Len(L) : Append(L, e)[k] = L[k]
      /\ Append(L, e)[Len(L) + 1] = e
  BY Appended
<1>2. /\ Len(Append(P, r)) = Len(P) + 1 /\ Len(P) \in Nat
      /\ \A k \in 1..Len(P) : Append(P, r)[k] = P[k]
      /\ Append(P, r)[Len(P) + 1] = r
  BY Appended
<1>3. \A i \in 1..Len(L) : L[i].req # r.req
  BY MirrorsIs DEF MirrorFacts, Matching
<1>4. Sized(L, Append(P, r), kind)
  BY <1>1, <1>2, <1>3 DEF Sized, Matching
<1>5. ASSUME NEW i \in 1..Len(L) + 1, NEW a \in 1..Len(P) + 1, Matching(Append(L, e), Append(P, r), kind, i, a)
      PROVE  Append(L, e)[i].bytes = Append(P, r)[a].buffer
  <2>1. CASE i = Len(L) + 1
    <3>1. Append(P, r)[a].req = r.req
      BY <1>1, <1>5, <2>1 DEF Matching
    <3>2. a = Len(P) + 1
      BY <1>2, <3>1
    <3> QED BY <1>1, <1>2, <2>1, <3>2
  <2>2. CASE i \in 1..Len(L)
    <3>1. a \in 1..Len(P)
      BY <1>1, <1>2, <1>3, <1>5, <2>2 DEF Matching
    <3> QED BY <1>1, <1>2, <1>5, <2>2, <3>1 DEF Sized, Matching
  <2> QED BY <1>1, <2>1, <2>2
<1> QED BY <1>1, <1>2, <1>4, <1>5 DEF Sized

LEMMA SizedOther ==
    ASSUME NEW L \in Seq(Entries), NEW P \in Seq(Requests), NEW kind, Sized(L, P, kind), NEW r \in Requests, r.kind # kind
    PROVE  Sized(L, Append(P, r), kind)
<1>1. /\ Len(Append(P, r)) = Len(P) + 1 /\ Len(P) \in Nat
      /\ \A k \in 1..Len(P) : Append(P, r)[k] = P[k]
      /\ Append(P, r)[Len(P) + 1] = r
  BY Appended
<1> QED BY <1>1 DEF Sized, Matching

LEMMA SizedFinish ==
    ASSUME NEW L \in Seq(Entries), NEW P \in Seq(Requests), NEW kind, Sized(L, P, kind), NEW a0 \in 1..Len(P)
    PROVE  /\ Sized(L, RemoveAt(P, a0), kind)
           /\ \A i0 \in 1..Len(L) : Sized(RemoveAt(L, i0), RemoveAt(P, a0), kind)
<1>1. /\ Len(RemoveAt(P, a0)) = Len(P) - 1 /\ Len(P) \in Nat
      /\ \A k \in 1..Len(P) - 1 : RemoveAt(P, a0)[k] = P[Before(a0, k)] /\ Before(a0, k) \in 1..Len(P)
  BY Removal
<1>2. Sized(L, RemoveAt(P, a0), kind)
  BY <1>1 DEF Sized, Matching
<1>3. ASSUME NEW i0 \in 1..Len(L)
      PROVE  Sized(RemoveAt(L, i0), RemoveAt(P, a0), kind)
  <2>1. /\ Len(RemoveAt(L, i0)) = Len(L) - 1 /\ Len(L) \in Nat
        /\ \A k \in 1..Len(L) - 1 : RemoveAt(L, i0)[k] = L[Before(i0, k)] /\ Before(i0, k) \in 1..Len(L)
    BY Removal
  <2> DEFINE M == RemoveAt(L, i0)
             Q == RemoveAt(P, a0)
  <2> HIDE DEF M, Q
  <2>2. ASSUME NEW i \in 1..Len(L) - 1, NEW a \in 1..Len(P) - 1, Matching(M, Q, kind, i, a)
        PROVE  M[i].bytes = Q[a].buffer
    <3>1. M[i] = L[Before(i0, i)] /\ Before(i0, i) \in 1..Len(L)
      BY <2>1 DEF M
    <3>2. Q[a] = P[Before(a0, a)] /\ Before(a0, a) \in 1..Len(P)
      BY <1>1 DEF Q
    <3>3. Matching(L, P, kind, Before(i0, i), Before(a0, a))
      BY <2>2, <3>1, <3>2 DEF Matching
    <3> QED BY <3>1, <3>2, <3>3 DEF Sized
  <2>3. Len(M) = Len(L) - 1 /\ Len(Q) = Len(P) - 1
    BY <1>1, <2>1 DEF M, Q
  <2> QED BY <2>2, <2>3 DEF Sized, M, Q
<1> QED BY <1>2, <1>3

--------------------------------------------------------------------------------
(* The state of the analysis of a process: the pending requests, the vector   *)
(* of what was received, and one completion in step with MPI's.               *)

Fields == {"sentBytes", "receivedBytes", "totalSentMessages", "totalReceivedMessages", "collective",
           "matrixReceived", "async_send", "async_recv", "async_other", "aborted"}
Shape(d) == DOMAIN d = Fields /\ d = [f \in DOMAIN d |-> d[f]]

Pending(d, P) ==
    /\ d.async_send \in Seq(Entries) /\ d.async_recv \in Seq(Entries) /\ d.async_other \in Seq(Entries)
    /\ P \in Seq(Requests) /\ Once(P) /\ d.aborted = FALSE
    /\ Mirrors(d.async_send, P, "send") /\ Mirrors(d.async_recv, P, "recv") /\ Mirrors(d.async_other, P, "other")
    /\ Sized(d.async_send, P, "send") /\ Sized(d.async_recv, P, "recv")

Receipts == [source : Int, known : BOOLEAN, bytes : Nat, buffer : Nat]
OfSource(D, s) == {k \in 1..Len(D) : Origin(D[k]) = s}
BufferOf(D) == [k \in 1..Len(D) |-> D[k].buffer]
Vector(d, D) ==
    /\ D \in Seq(Receipts)
    /\ \A s : s \in DOMAIN d.matrixReceived <=> \E k \in 1..Len(D) : Origin(D[k]) = s
    /\ \A s \in DOMAIN d.matrixReceived :
          /\ d.matrixReceived[s].messages = Cardinality(OfSource(D, s))
          /\ d.matrixReceived[s].bytes = SumFunctionOnSet(BufferOf(D), OfSource(D, s))
    /\ d.receivedBytes = SumFunctionOnSet(BufferOf(D), 1..Len(D))
    /\ d.totalReceivedMessages = Len(D)

\* The counters of a received message, and those of a sent one.
LEMMA CountSent ==
    ASSUME NEW d, Shape(d), NEW b
    PROVE  LET e == count_sent(d, b)
           IN  /\ Shape(e) /\ e.sentBytes = d.sentBytes + b /\ e.totalSentMessages = d.totalSentMessages + 1
               /\ e.receivedBytes = d.receivedBytes /\ e.totalReceivedMessages = d.totalReceivedMessages
               /\ e.collective = d.collective /\ e.matrixReceived = d.matrixReceived /\ e.async_send = d.async_send
               /\ e.async_recv = d.async_recv /\ e.async_other = d.async_other /\ e.aborted = d.aborted
BY DEF count_sent, Shape, Fields

\* what updateReceivedMatrix makes of the vector
Updated(m, source, bytes) ==
    [s \in DOMAIN m \cup {source} |->
        IF s # source THEN m[s]
        ELSE LET old == IF source \in DOMAIN m THEN m[source] ELSE [bytes |-> 0, messages |-> 0]
             IN  [bytes |-> old.bytes + bytes, messages |-> old.messages + 1]]

LEMMA CountReceived ==
    ASSUME NEW d, Shape(d), NEW b, NEW source
    PROVE  LET e == updateReceivedMatrix(count_received(d, b), source, b)
           IN  /\ Shape(e) /\ e.sentBytes = d.sentBytes /\ e.totalSentMessages = d.totalSentMessages
               /\ e.receivedBytes = d.receivedBytes + b /\ e.totalReceivedMessages = d.totalReceivedMessages + 1
               /\ e.collective = d.collective /\ e.matrixReceived = Updated(d.matrixReceived, source, b)
               /\ e.async_send = d.async_send /\ e.async_recv = d.async_recv /\ e.async_other = d.async_other
               /\ e.aborted = d.aborted
<1> DEFINE c == count_received(d, b)
<1>1. /\ Shape(c) /\ c.sentBytes = d.sentBytes /\ c.totalSentMessages = d.totalSentMessages
      /\ c.receivedBytes = d.receivedBytes + b /\ c.totalReceivedMessages = d.totalReceivedMessages + 1
      /\ c.collective = d.collective /\ c.matrixReceived = d.matrixReceived
      /\ c.async_send = d.async_send /\ c.async_recv = d.async_recv /\ c.async_other = d.async_other
      /\ c.aborted = d.aborted
  BY DEF count_received, Shape, Fields
<1> HIDE DEF c
<1>2. updateReceivedMatrix(c, source, b) = [c EXCEPT !.matrixReceived = Updated(c.matrixReceived, source, b)]
  BY DEF updateReceivedMatrix, Updated
<1>3. LET e == [c EXCEPT !.matrixReceived = Updated(c.matrixReceived, source, b)]
      IN  /\ Shape(e) /\ e.sentBytes = c.sentBytes /\ e.totalSentMessages = c.totalSentMessages
          /\ e.receivedBytes = c.receivedBytes /\ e.totalReceivedMessages = c.totalReceivedMessages
          /\ e.collective = c.collective /\ e.matrixReceived = Updated(c.matrixReceived, source, b)
          /\ e.async_send = c.async_send /\ e.async_recv = c.async_recv /\ e.async_other = c.async_other
          /\ e.aborted = c.aborted
  BY <1>1 DEF Shape, Fields
<1> QED BY <1>1, <1>2, <1>3 DEF c

\* One more message received keeps the vector exact.
LEMMA VectorAdds ==
    ASSUME NEW d, NEW D, Vector(d, D), NEW x \in Receipts, NEW e,
           e.matrixReceived = Updated(d.matrixReceived, Origin(x), x.buffer),
           e.receivedBytes = d.receivedBytes + x.buffer, e.totalReceivedMessages = d.totalReceivedMessages + 1
    PROVE  Vector(e, Append(D, x))
<1> DEFINE E == Append(D, x)
           n == Len(D) + 1
           m == d.matrixReceived
           f == BufferOf(D)
           g == BufferOf(E)
<1>1. /\ E \in Seq(Receipts) /\ Len(E) = n /\ Len(D) \in Nat
      /\ \A k \in 1..Len(D) : E[k] = D[k]
      /\ E[n] = x
  BY Appended DEF Vector
<1>2. 1..n = 1..Len(D) \cup {n} /\ n \notin 1..Len(D) /\ IsFiniteSet(1..Len(D))
  <2>1. IsFiniteSet(1..Len(D))
    BY <1>1, FS_Interval
  <2> QED BY <1>1, <2>1
<1> HIDE DEF E, n
<1>3. (\A k \in 1..Len(D) : f[k] \in Int /\ g[k] = f[k]) /\ g[n] = x.buffer /\ g[n] \in Int
  <2>1. \A k \in 1..Len(D) : D[k] \in Receipts
    BY DEF Vector
  <2>2. \A k \in 1..Len(D) : D[k].buffer \in Int
    BY <2>1 DEF Receipts
  <2>3. x.buffer \in Int
    BY DEF Receipts
  <2>4. n \in 1..n /\ \A k \in 1..Len(D) : k \in 1..n
    BY <1>2
  <2> QED BY <1>1, <2>2, <2>3, <2>4 DEF BufferOf
<1> HIDE DEF f, g
<1>4. ASSUME NEW s
      PROVE  /\ IsFiniteSet(OfSource(D, s)) /\ n \notin OfSource(D, s) /\ OfSource(D, s) \subseteq 1..Len(D)
             /\ SumFunctionOnSet(g, OfSource(D, s)) = SumFunctionOnSet(f, OfSource(D, s))
             /\ s # Origin(x) => OfSource(E, s) = OfSource(D, s)
             /\ s = Origin(x) => OfSource(E, s) = OfSource(D, s) \cup {n}
  <2>1. OfSource(D, s) \subseteq 1..Len(D)
    BY DEF OfSource
  <2>2. IsFiniteSet(OfSource(D, s)) /\ n \notin OfSource(D, s)
    BY <1>2, <2>1, FS_Subset
  <2>3. SumFunctionOnSet(g, OfSource(D, s)) = SumFunctionOnSet(f, OfSource(D, s))
    BY <1>3, <2>1, <2>2, SumEqual
  <2>4. /\ s # Origin(x) => OfSource(E, s) = OfSource(D, s)
        /\ s = Origin(x) => OfSource(E, s) = OfSource(D, s) \cup {n}
    BY <1>1, <1>2 DEF OfSource
  <2> QED BY <2>1, <2>2, <2>3, <2>4
<1>5. e.receivedBytes = SumFunctionOnSet(g, 1..n)
  <2>1. SumFunctionOnSet(g, 1..Len(D)) = SumFunctionOnSet(f, 1..Len(D))
    BY <1>2, <1>3, SumEqual
  <2>2. \A k \in 1..Len(D) \cup {n} : g[k] \in Int
    BY <1>3
  <2>3. SumFunctionOnSet(g, 1..Len(D) \cup {n}) = g[n] + SumFunctionOnSet(g, 1..Len(D))
    BY <1>2, <2>2, SumAdd
  <2>4. SumFunctionOnSet(g, 1..n) = g[n] + SumFunctionOnSet(g, 1..Len(D))
    BY <1>2, <2>3, Zenon
  <2>5. d.receivedBytes = SumFunctionOnSet(f, 1..Len(D))
    BY DEF Vector, f
  <2>6. SumFunctionOnSet(f, 1..Len(D)) \in Int
    BY <1>2, <1>3, SumInt
  <2> QED BY <1>3, <2>1, <2>4, <2>5, <2>6
<1>6. \A s : s \in DOMAIN m <=> \E k \in 1..Len(D) : Origin(D[k]) = s
  BY DEF Vector
<1>7. \A s \in DOMAIN m : /\ m[s].messages = Cardinality(OfSource(D, s))
                          /\ m[s].bytes = SumFunctionOnSet(f, OfSource(D, s))
  BY DEF Vector, f
<1> DEFINE new == e.matrixReceived
<1>8. /\ DOMAIN new = DOMAIN m \cup {Origin(x)}
      /\ \A s \in DOMAIN m : s # Origin(x) => new[s] = m[s]
      /\ Origin(x) \in DOMAIN m => new[Origin(x)] = [bytes |-> m[Origin(x)].bytes + x.buffer, messages |-> m[Origin(x)].messages + 1]
      /\ Origin(x) \notin DOMAIN m => new[Origin(x)] = [bytes |-> 0 + x.buffer, messages |-> 0 + 1]
  BY DEF Updated
<1> HIDE DEF m, new
<1>9. \A s : s \in DOMAIN new <=> \E k \in 1..Len(E) : Origin(E[k]) = s
  BY <1>1, <1>2, <1>6, <1>8, SMTT(30)
<1>10. ASSUME NEW s \in DOMAIN new
       PROVE  /\ new[s].messages = Cardinality(OfSource(E, s))
              /\ new[s].bytes = SumFunctionOnSet(g, OfSource(E, s))
  <2>1. CASE s # Origin(x)
    <3>1. s \in DOMAIN m /\ new[s] = m[s] /\ OfSource(E, s) = OfSource(D, s)
      BY <1>4, <1>8, <2>1
    <3>2. Cardinality(OfSource(E, s)) = Cardinality(OfSource(D, s))
          /\ SumFunctionOnSet(g, OfSource(E, s)) = SumFunctionOnSet(g, OfSource(D, s))
      BY <3>1, Zenon
    <3> QED BY <1>4, <1>7, <3>1, <3>2
  <2>2. CASE s = Origin(x)
    <3>1. OfSource(E, s) = OfSource(D, s) \cup {n}
      BY <1>4, <2>2
    <3>2. \A k \in OfSource(D, s) \cup {n} : g[k] \in Int
      BY <1>3, <1>4
    <3>3. SumFunctionOnSet(g, OfSource(D, s) \cup {n}) = g[n] + SumFunctionOnSet(g, OfSource(D, s))
      BY <1>4, <3>2, SumAdd
    <3>4. Cardinality(OfSource(D, s) \cup {n}) = Cardinality(OfSource(D, s)) + 1
      BY <1>4, FS_AddElement
    <3>5. /\ SumFunctionOnSet(g, OfSource(E, s)) = g[n] + SumFunctionOnSet(g, OfSource(D, s))
          /\ Cardinality(OfSource(E, s)) = Cardinality(OfSource(D, s)) + 1
      BY <3>1, <3>3, <3>4, Zenon
    <3>6. SumFunctionOnSet(f, OfSource(D, s)) \in Int
      BY <1>2, <1>3, <1>4, SumInt
    <3>7. CASE s \in DOMAIN m
      BY <1>3, <1>4, <1>7, <1>8, <2>2, <3>5, <3>6, <3>7
    <3>8. CASE s \notin DOMAIN m
      <4>1. OfSource(D, s) = {}
        BY <1>6, <3>8 DEF OfSource
      <4>2. SumFunctionOnSet(g, OfSource(D, s)) = 0 /\ Cardinality(OfSource(D, s)) = 0
        <5>1. SumFunctionOnSet(g, {}) = 0
          BY SumEmpty
        <5>2. Cardinality({}) = 0
          BY FS_EmptySet
        <5> QED BY <4>1, <5>1, <5>2, Zenon
      <4> QED BY <1>3, <1>8, <2>2, <3>5, <3>8, <4>2
    <3> QED BY <3>7, <3>8
  <2> QED BY <2>1, <2>2
<1>11. e.totalReceivedMessages = Len(E)
  BY <1>1 DEF Vector, n
<1> QED BY <1>1, <1>5, <1>9, <1>10, <1>11 DEF Vector, E, g, new

\* A list knows a request if and only if one of its kind is active.
LEMMA Found ==
    ASSUME NEW L \in Seq(Entries), NEW P \in Seq(Requests), NEW kind, Mirrors(L, P, kind), Once(P), NEW q
    PROVE  /\ asyncIndex(L, q) > 0 <=> asyncIndex(P, q) > 0 /\ P[asyncIndex(P, q)].kind = kind
           /\ asyncIndex(L, q) \in 0..Len(L) /\ asyncIndex(P, q) \in 0..Len(P)
           /\ asyncIndex(L, q) > 0 => Matching(L, P, kind, asyncIndex(L, q), asyncIndex(P, q))
<1> DEFINE i == asyncIndex(L, q)
           k == asyncIndex(P, q)
<1>1. /\ i \in 0..Len(L) /\ (i = 0 <=> \A j \in 1..Len(L) : L[j].req # q)
      /\ i > 0 => L[i].req = q
  BY Index
<1>2. /\ k \in 0..Len(P) /\ (k = 0 <=> \A j \in 1..Len(P) : P[j].req # q)
      /\ k > 0 => P[k].req = q
  BY Index
<1>3. MirrorFacts(L, P, kind) /\ Len(L) \in Nat /\ Len(P) \in Nat
  BY MirrorsIs
<1> HIDE DEF i, k
<1>4. ASSUME i > 0
      PROVE  k > 0 /\ Matching(L, P, kind, i, k)
  <2>1. i \in 1..Len(L)
    BY <1>1, <1>3, <1>4
  <2>2. PICK a \in 1..Len(P) : Matching(L, P, kind, i, a)
    BY <1>3, <2>1 DEF MirrorFacts
  <2>3. P[a].req = q
    BY <1>1, <1>4, <2>2 DEF Matching
  <2>4. k > 0 /\ k \in 1..Len(P) /\ P[k].req = q
    BY <1>2, <1>3, <2>3
  <2>5. a = k
    BY <2>3, <2>4 DEF Once
  <2> QED BY <2>2, <2>4, <2>5
<1>5. ASSUME k > 0, P[k].kind = kind
      PROVE  i > 0
  <2>1. k \in 1..Len(P)
    BY <1>2, <1>3, <1>5
  <2>2. PICK j \in 1..Len(L) : Matching(L, P, kind, j, k)
    BY <1>3, <1>5, <2>1 DEF MirrorFacts
  <2>3. L[j].req = q
    BY <1>2, <1>5, <2>2 DEF Matching
  <2> QED BY <1>1, <1>3, <2>3
<1>6. i > 0 => P[k].kind = kind
  BY <1>4 DEF Matching
<1> QED BY <1>1, <1>2, <1>4, <1>5, <1>6 DEF i, k

\* One list gives up a request when MPI completes it.
LEMMA PendingFinish ==
    ASSUME NEW d, NEW P, Pending(d, P), NEW k \in 1..Len(P), NEW e,
           e.aborted = FALSE,
           /\ P[k].kind = "send" => e.async_send = RemoveAt(d.async_send, asyncIndex(d.async_send, P[k].req))
           /\ P[k].kind # "send" => e.async_send = d.async_send
           /\ P[k].kind = "recv" => e.async_recv = RemoveAt(d.async_recv, asyncIndex(d.async_recv, P[k].req))
           /\ P[k].kind # "recv" => e.async_recv = d.async_recv
           /\ P[k].kind = "other" => e.async_other = RemoveAt(d.async_other, asyncIndex(d.async_other, P[k].req))
           /\ P[k].kind # "other" => e.async_other = d.async_other
    PROVE  Pending(e, RemoveAt(P, k))
<1> DEFINE Q == RemoveAt(P, k)
<1>1. /\ d.async_send \in Seq(Entries) /\ d.async_recv \in Seq(Entries) /\ d.async_other \in Seq(Entries)
      /\ P \in Seq(Requests) /\ Once(P)
      /\ Mirrors(d.async_send, P, "send") /\ Mirrors(d.async_recv, P, "recv") /\ Mirrors(d.async_other, P, "other")
      /\ Sized(d.async_send, P, "send") /\ Sized(d.async_recv, P, "recv")
  BY DEF Pending
<1>2. Q \in Seq(Requests) /\ Once(Q)
  BY <1>1, Removal, OnceFinish
<1>3. asyncIndex(P, P[k].req) = k
  <2>1. /\ asyncIndex(P, P[k].req) \in 0..Len(P)
        /\ asyncIndex(P, P[k].req) = 0 <=> \A j \in 1..Len(P) : P[j].req # P[k].req
        /\ asyncIndex(P, P[k].req) > 0 => P[asyncIndex(P, P[k].req)].req = P[k].req
    BY <1>1, Index
  <2> QED BY <1>1, <2>1 DEF Once
<1>4. ASSUME NEW L \in Seq(Entries), NEW kind, Mirrors(L, P, kind), NEW M,
             P[k].kind = kind => M = RemoveAt(L, asyncIndex(L, P[k].req)), P[k].kind # kind => M = L
      PROVE  M \in Seq(Entries) /\ Mirrors(M, Q, kind) /\ (Sized(L, P, kind) => Sized(M, Q, kind))
  <2>1. CASE P[k].kind # kind
    BY <1>1, <1>4, <2>1, MirrorFinishOther, SizedFinish
  <2>2. CASE P[k].kind = kind
    <3> DEFINE i == asyncIndex(L, P[k].req)
    <3>1. /\ i > 0 <=> asyncIndex(P, P[k].req) > 0 /\ P[asyncIndex(P, P[k].req)].kind = kind
          /\ i \in 0..Len(L)
          /\ i > 0 => Matching(L, P, kind, i, asyncIndex(P, P[k].req))
      BY <1>1, <1>4, Found
    <3> HIDE DEF i
    <3>2. i \in 1..Len(L) /\ Matching(L, P, kind, i, k)
      BY <1>1, <1>3, <2>2, <3>1
    <3>3. M = RemoveAt(L, i)
      BY <1>4, <2>2 DEF i
    <3>4. RemoveAt(L, i) \in Seq(Entries)
      BY <3>2, Removal
    <3>5. Mirrors(RemoveAt(L, i), Q, kind)
      BY <1>1, <1>4, <3>2, MirrorFinish
    <3>6. Sized(L, P, kind) => Sized(RemoveAt(L, i), Q, kind)
      BY <1>1, <3>2, SizedFinish
    <3> QED BY <3>3, <3>4, <3>5, <3>6
  <2> QED BY <2>1, <2>2
<1> HIDE DEF Q
<1>5. e.async_send \in Seq(Entries) /\ Mirrors(e.async_send, Q, "send") /\ Sized(e.async_send, Q, "send")
  BY <1>1, <1>4
<1>6. e.async_recv \in Seq(Entries) /\ Mirrors(e.async_recv, Q, "recv") /\ Sized(e.async_recv, Q, "recv")
  BY <1>1, <1>4
<1>7. e.async_other \in Seq(Entries) /\ Mirrors(e.async_other, Q, "other")
  BY <1>1, <1>4
<1> QED BY <1>2, <1>5, <1>6, <1>7 DEF Pending, Q

\* The send that a completion counts, if any.
SentNow(P, k, d, e) ==
    IF k > 0 /\ P[k].kind = "send"
    THEN e.sentBytes = d.sentBytes + P[k].buffer /\ e.totalSentMessages = d.totalSentMessages + 1
    ELSE e.sentBytes = d.sentBytes /\ e.totalSentMessages = d.totalSentMessages
SourceIn(P, q) == IF asyncIndex(P, q) = 0 THEN ANY_SOURCE ELSE P[asyncIndex(P, q)].source
\* what the hook is told of it, with a status and without
Told(P, q, status) == IF status THEN SourceIn(P, q) ELSE ANY_SOURCE

\* handleRequestCompletion and MPI's completion of the same request.
LEMMA FinishOne ==
    ASSUME NEW d, NEW P, NEW D, Shape(d), Pending(d, P), Vector(d, D), NEW q, NEW status \in BOOLEAN
    PROVE  LET e == handleRequestCompletion(d, [req |-> q, source |-> Told(P, q, status)])
               s == Finish([posted |-> P, delivered |-> D], q, status)
           IN  /\ Shape(e) /\ Pending(e, s.posted) /\ Vector(e, s.delivered)
               /\ s = [posted |-> s.posted, delivered |-> s.delivered]
               /\ e.collective = d.collective /\ SentNow(P, asyncIndex(P, q), d, e)
<1> DEFINE told == Told(P, q, status)
           r == [req |-> q, source |-> told]
           e == handleRequestCompletion(d, r)
           s == Finish([posted |-> P, delivered |-> D], q, status)
           k == asyncIndex(P, q)
           is == asyncIndex(d.async_send, q)
           ir == asyncIndex(d.async_recv, q)
           io == asyncIndex(d.async_other, q)
<1>1. /\ d.async_send \in Seq(Entries) /\ d.async_recv \in Seq(Entries) /\ d.async_other \in Seq(Entries)
      /\ P \in Seq(Requests) /\ Once(P) /\ d.aborted = FALSE
      /\ Mirrors(d.async_send, P, "send") /\ Mirrors(d.async_recv, P, "recv") /\ Mirrors(d.async_other, P, "other")
      /\ Sized(d.async_send, P, "send") /\ Sized(d.async_recv, P, "recv")
  BY DEF Pending
<1>2. /\ is > 0 <=> k > 0 /\ P[k].kind = "send"
      /\ is \in 0..Len(d.async_send) /\ k \in 0..Len(P)
      /\ is > 0 => Matching(d.async_send, P, "send", is, k)
  BY <1>1, Found
<1>3. /\ ir > 0 <=> k > 0 /\ P[k].kind = "recv"
      /\ ir \in 0..Len(d.async_recv)
      /\ ir > 0 => Matching(d.async_recv, P, "recv", ir, k)
  BY <1>1, Found
<1>4. /\ io > 0 <=> k > 0 /\ P[k].kind = "other"
      /\ io \in 0..Len(d.async_other)
  BY <1>1, Found
<1>5. k > 0 => P[k].req = q
  BY <1>1, Index
<1>6. e = IF is > 0 THEN [count_sent(d, d.async_send[is].bytes) EXCEPT !.async_send = RemoveAt(@, is)]
          ELSE IF ir > 0
          THEN [updateReceivedMatrix(count_received(d, d.async_recv[ir].bytes), told, d.async_recv[ir].bytes)
                   EXCEPT !.async_recv = RemoveAt(@, ir)]
          ELSE IF io > 0 THEN [d EXCEPT !.async_other = RemoveAt(@, io)]
          ELSE [d EXCEPT !.aborted = @ \/ told # ANY_SOURCE]
  BY DEF handleRequestCompletion
<1>7. s = IF k = 0 THEN [posted |-> P, delivered |-> D]
          ELSE [posted |-> RemoveAt(P, k),
                delivered |-> IF P[k].kind = "recv" THEN Append(D, Receipt(P[k].source, status, P[k].bytes, P[k].buffer)) ELSE D]
  BY DEF Finish
<1>8. k > 0 => told = IF status THEN P[k].source ELSE ANY_SOURCE
  BY <1>2 DEF SourceIn, Told
<1>9. k = 0 => told = ANY_SOURCE
  BY DEF SourceIn, Told
<1>10. Len(P) \in Nat /\ \A a \in 1..Len(P) : P[a] \in Requests
  BY <1>1
<1> HIDE DEF e, s, k, is, ir, io, r, told
<1> SUFFICES /\ Shape(e) /\ Pending(e, s.posted) /\ Vector(e, s.delivered)
             /\ s = [posted |-> s.posted, delivered |-> s.delivered]
             /\ e.collective = d.collective /\ SentNow(P, k, d, e)
  BY DEF e, s, k, r, told
<1>11. CASE k = 0
  <2>1. e = [d EXCEPT !.aborted = @ \/ told # ANY_SOURCE]
    BY <1>2, <1>3, <1>4, <1>6, <1>11
  <2>2. /\ Shape(e) /\ e.async_send = d.async_send /\ e.async_recv = d.async_recv /\ e.async_other = d.async_other
        /\ e.collective = d.collective /\ e.matrixReceived = d.matrixReceived /\ e.sentBytes = d.sentBytes
        /\ e.receivedBytes = d.receivedBytes /\ e.totalSentMessages = d.totalSentMessages
        /\ e.totalReceivedMessages = d.totalReceivedMessages
    BY <2>1 DEF Shape, Fields
  <2>3. e.aborted = FALSE
    BY <1>1, <1>9, <1>11, <2>1 DEF Shape, Fields
  <2>4. s = [posted |-> P, delivered |-> D]
    BY <1>7, <1>11
  <2>5. Pending(e, P)
    BY <1>1, <2>2, <2>3 DEF Pending
  <2>6. Vector(e, D)
    BY <2>2 DEF Vector
  <2>7. SentNow(P, k, d, e)
    BY <1>11, <2>2 DEF SentNow
  <2> QED BY <2>2, <2>4, <2>5, <2>6, <2>7
<1>12. CASE k > 0 /\ P[k].kind = "send"
  <2> DEFINE b == d.async_send[is].bytes
             c == count_sent(d, b)
  <2>1. e = [c EXCEPT !.async_send = RemoveAt(@, is)]
    BY <1>2, <1>6, <1>12
  <2>2. /\ Shape(c) /\ c.sentBytes = d.sentBytes + b /\ c.totalSentMessages = d.totalSentMessages + 1
        /\ c.receivedBytes = d.receivedBytes /\ c.totalReceivedMessages = d.totalReceivedMessages
        /\ c.collective = d.collective /\ c.matrixReceived = d.matrixReceived /\ c.async_send = d.async_send
        /\ c.async_recv = d.async_recv /\ c.async_other = d.async_other /\ c.aborted = d.aborted
    BY CountSent
  <2> HIDE DEF c
  <2>3. /\ Shape(e) /\ e.async_send = RemoveAt(d.async_send, is) /\ e.async_recv = d.async_recv
        /\ e.async_other = d.async_other /\ e.aborted = d.aborted
        /\ e.collective = d.collective /\ e.matrixReceived = d.matrixReceived /\ e.sentBytes = d.sentBytes + b
        /\ e.receivedBytes = d.receivedBytes /\ e.totalSentMessages = d.totalSentMessages + 1
        /\ e.totalReceivedMessages = d.totalReceivedMessages
    BY <2>1, <2>2 DEF Shape, Fields
  <2>4. k \in 1..Len(P) /\ is \in 1..Len(d.async_send)
    BY <1>1, <1>2, <1>10, <1>12
  <2>5. b = P[k].buffer
    BY <1>1, <1>2, <1>12, <2>4 DEF Sized
  <2>6. s.posted = RemoveAt(P, k) /\ s.delivered = D /\ s = [posted |-> s.posted, delivered |-> s.delivered]
    BY <1>7, <1>12
  <2>7. Pending(e, RemoveAt(P, k))
    BY <1>1, <1>5, <1>12, <2>3, <2>4, PendingFinish DEF is
  <2>8. Vector(e, D)
    BY <2>3 DEF Vector
  <2>9. SentNow(P, k, d, e)
    BY <1>12, <2>3, <2>5 DEF SentNow
  <2> QED BY <2>3, <2>6, <2>7, <2>8, <2>9
<1>13. CASE k > 0 /\ P[k].kind = "recv"
  <2> DEFINE b == d.async_recv[ir].bytes
             c == updateReceivedMatrix(count_received(d, b), told, b)
  <2>1. e = [c EXCEPT !.async_recv = RemoveAt(@, ir)]
    BY <1>2, <1>3, <1>6, <1>13
  <2>2. /\ Shape(c) /\ c.sentBytes = d.sentBytes /\ c.totalSentMessages = d.totalSentMessages
        /\ c.receivedBytes = d.receivedBytes + b /\ c.totalReceivedMessages = d.totalReceivedMessages + 1
        /\ c.collective = d.collective /\ c.matrixReceived = Updated(d.matrixReceived, told, b)
        /\ c.async_send = d.async_send /\ c.async_recv = d.async_recv /\ c.async_other = d.async_other
        /\ c.aborted = d.aborted
    BY CountReceived
  <2> HIDE DEF c
  <2>3. /\ Shape(e) /\ e.async_send = d.async_send /\ e.async_recv = RemoveAt(d.async_recv, ir)
        /\ e.async_other = d.async_other /\ e.aborted = d.aborted
        /\ e.collective = d.collective /\ e.matrixReceived = c.matrixReceived /\ e.sentBytes = d.sentBytes
        /\ e.receivedBytes = d.receivedBytes + b /\ e.totalSentMessages = d.totalSentMessages
        /\ e.totalReceivedMessages = d.totalReceivedMessages + 1
    BY <2>1, <2>2 DEF Shape, Fields
  <2>4. k \in 1..Len(P) /\ ir \in 1..Len(d.async_recv)
    BY <1>1, <1>2, <1>3, <1>10, <1>13
  <2>5. b = P[k].buffer
    BY <1>1, <1>3, <1>13, <2>4 DEF Sized
  <2> DEFINE x == Receipt(P[k].source, status, P[k].bytes, P[k].buffer)
  <2>6. s.posted = RemoveAt(P, k) /\ s.delivered = Append(D, x) /\ s = [posted |-> s.posted, delivered |-> s.delivered]
    <3>1. k # 0
      BY <1>13
    <3>2. s = [posted |-> RemoveAt(P, k),
               delivered |-> IF P[k].kind = "recv" THEN Append(D, Receipt(P[k].source, status, P[k].bytes, P[k].buffer)) ELSE D]
      BY <1>7, <3>1
    <3>3. s = [posted |-> RemoveAt(P, k), delivered |-> Append(D, x)]
      BY <3>2, <1>13
    <3> HIDE DEF x
    <3> QED BY <3>3
  <2>7. Pending(e, RemoveAt(P, k))
    BY <1>1, <1>5, <1>13, <2>3, <2>4, PendingFinish DEF ir
  <2>8. x \in Receipts /\ Origin(x) = told /\ x.buffer = P[k].buffer
    <3>1. P[k] \in Requests
      BY <1>10, <2>4
    <3>2. x.source = P[k].source /\ x.known = status /\ x \in Receipts /\ x.buffer = P[k].buffer
      BY <3>1 DEF Receipt, Receipts, Requests
    <3> HIDE DEF x
    <3> QED BY <1>8, <1>13, <3>2 DEF Origin
  <2> HIDE DEF x
  <2>9. e.matrixReceived = Updated(d.matrixReceived, Origin(x), x.buffer)
    BY <2>2, <2>3, <2>5, <2>8
  <2>10. Vector(e, Append(D, x))
    BY <2>3, <2>5, <2>8, <2>9, VectorAdds
  <2>11. SentNow(P, k, d, e)
    BY <1>13, <2>3 DEF SentNow
  <2> QED BY <2>3, <2>6, <2>7, <2>10, <2>11
<1>14. CASE k > 0 /\ P[k].kind = "other"
  <2>1. e = [d EXCEPT !.async_other = RemoveAt(@, io)]
    BY <1>2, <1>3, <1>4, <1>6, <1>14
  <2>2. /\ Shape(e) /\ e.async_send = d.async_send /\ e.async_recv = d.async_recv
        /\ e.async_other = RemoveAt(d.async_other, io) /\ e.aborted = d.aborted
        /\ e.collective = d.collective /\ e.matrixReceived = d.matrixReceived /\ e.sentBytes = d.sentBytes
        /\ e.receivedBytes = d.receivedBytes /\ e.totalSentMessages = d.totalSentMessages
        /\ e.totalReceivedMessages = d.totalReceivedMessages
    BY <2>1 DEF Shape, Fields
  <2>3. k \in 1..Len(P)
    BY <1>2, <1>10, <1>14
  <2>4. s.posted = RemoveAt(P, k) /\ s.delivered = D /\ s = [posted |-> s.posted, delivered |-> s.delivered]
    BY <1>7, <1>14
  <2>5. Pending(e, RemoveAt(P, k))
    BY <1>1, <1>5, <1>14, <2>2, <2>3, PendingFinish DEF io
  <2>6. Vector(e, D)
    BY <2>2 DEF Vector
  <2>7. SentNow(P, k, d, e)
    BY <1>14, <2>2 DEF SentNow
  <2> QED BY <2>2, <2>4, <2>5, <2>6, <2>7
<1>15. k > 0 => P[k].kind \in {"send", "recv", "other"}
  BY <1>2, <1>10 DEF Requests
<1> QED BY <1>2, <1>11, <1>12, <1>13, <1>14, <1>15

\* The requests that stay active, when one completes.
Stays(P, Q, q) ==
    /\ \A a \in 1..Len(Q) : \E b \in 1..Len(P) : Q[a] = P[b] /\ P[b].req # q
    /\ \A b \in 1..Len(P) : P[b].req # q => \E a \in 1..Len(Q) : Q[a] = P[b]

LEMMA FinishStays ==
    ASSUME NEW P \in Seq(Requests), Once(P), NEW D, NEW q, NEW status
    PROVE  Stays(P, Finish([posted |-> P, delivered |-> D], q, status).posted, q)
<1> DEFINE s == Finish([posted |-> P, delivered |-> D], q, status)
           k == asyncIndex(P, q)
<1>1. /\ k \in 0..Len(P) /\ (k = 0 <=> \A j \in 1..Len(P) : P[j].req # q)
      /\ k > 0 => P[k].req = q
  BY Index
<1>2. s.posted = IF k = 0 THEN P ELSE RemoveAt(P, k)
  BY DEF Finish
<1> HIDE DEF s, k
<1> SUFFICES Stays(P, s.posted, q)
  BY DEF s
<1>3. CASE k = 0
  BY <1>1, <1>2, <1>3 DEF Stays
<1>4. CASE k # 0
  <2>1. k \in 1..Len(P) /\ P[k].req = q
    BY <1>1, <1>4
  <2> DEFINE Q == RemoveAt(P, k)
  <2>2. /\ Q \in Seq(Requests) /\ Len(Q) = Len(P) - 1 /\ Len(P) \in Nat
        /\ \A a \in 1..Len(P) - 1 : Q[a] = P[Before(k, a)] /\ Before(k, a) \in 1..Len(P) /\ Before(k, a) # k
    BY <2>1, Removal, SMTT(30)
  <2>7. \A b \in 1..Len(P) : b # k => After(k, b) \in 1..Len(P) - 1 /\ Q[After(k, b)] = P[b]
    <3>1. k \in 1..Len(P) /\ P \in Seq(Requests)
      BY <2>1
    <3> QED BY ONLY <3>1, Removal, SMTT(30)
  <2>4. s.posted = Q
    BY <1>2, <1>4
  <2> HIDE DEF Q
  <2>5. \A a \in 1..Len(Q) : \E b \in 1..Len(P) : Q[a] = P[b] /\ P[b].req # q
    <3> TAKE a \in 1..Len(Q)
    <3>1. Q[a] = P[Before(k, a)] /\ Before(k, a) \in 1..Len(P) /\ Before(k, a) # k
      BY <2>2
    <3>2. P[Before(k, a)].req # q
      BY <2>1, <3>1 DEF Once
    <3> QED BY <3>1, <3>2
  <2>6. \A b \in 1..Len(P) : P[b].req # q => \E a \in 1..Len(Q) : Q[a] = P[b]
    BY <2>1, <2>2, <2>7
  <2> QED BY <2>4, <2>5, <2>6 DEF Stays
<1> QED BY <1>3, <1>4

\* The source of a request depends on the active requests alone.
LEMMA SourceSame ==
    ASSUME NEW P \in Seq(Requests), Once(P), NEW Q \in Seq(Requests), Once(Q), NEW q,
           \A a \in 1..Len(Q) : \E b \in 1..Len(P) : Q[a] = P[b],
           \A b \in 1..Len(P) : P[b].req = q => \E a \in 1..Len(Q) : Q[a] = P[b]
    PROVE  SourceIn(Q, q) = SourceIn(P, q)
<1> DEFINE k == asyncIndex(P, q)
           l == asyncIndex(Q, q)
<1>1. /\ k \in 0..Len(P) /\ (k = 0 <=> \A j \in 1..Len(P) : P[j].req # q)
      /\ k > 0 => P[k].req = q
  BY Index
<1>2. /\ l \in 0..Len(Q) /\ (l = 0 <=> \A j \in 1..Len(Q) : Q[j].req # q)
      /\ l > 0 => Q[l].req = q
  BY Index
<1> HIDE DEF k, l
<1>3. CASE k = 0
  <2>1. l = 0
    BY <1>1, <1>2, <1>3
  <2> QED BY <1>3, <2>1 DEF SourceIn, k, l
<1>4. CASE k # 0
  <2>1. k \in 1..Len(P) /\ P[k].req = q
    BY <1>1, <1>4
  <2>2. PICK a \in 1..Len(Q) : Q[a] = P[k]
    BY <2>1
  <2>3. l \in 1..Len(Q) /\ Q[l].req = q
    BY <1>2, <2>1, <2>2
  <2>4. l = a
    BY <2>1, <2>2, <2>3 DEF Once
  <2>5. SourceIn(Q, q) = Q[l].source /\ SourceIn(P, q) = P[k].source
    BY <1>4, <2>3 DEF SourceIn, k, l
  <2> QED BY <2>2, <2>4, <2>5
<1> QED BY <1>3, <1>4

\* handleRequests and FinishAll are the ends of chains.
LEMMA HandleChain ==
    ASSUME NEW d, NEW rs, Len(rs) \in Nat
    PROVE  \E f : /\ f[0] = d
                  /\ \A k \in 1..Len(rs) : f[k] = handleRequestCompletion(f[k - 1], rs[k])
                  /\ handleRequests(d, rs) = f[Len(rs)]
<1> DEFINE n == Len(rs)
           body(f, m) == [k \in 0..m |-> IF k = 0 THEN d ELSE handleRequestCompletion(f[k - 1], rs[k])]
           T == {m \in 0..n : \E f : f = body(f, m)}
<1>0. n \in Nat
  OBVIOUS
<1>1. 0 \in T
  <2> DEFINE g == [k \in 0..0 |-> d]
  <2>1. g = body(g, 0)
    BY SMT
  <2>2. \E f : f = body(f, 0)
    BY <2>1
  <2> QED BY <2>2, <1>0
<1>2. ASSUME NEW m \in 1..n, m - 1 \in T
      PROVE  m \in T
  <2>1. PICK f : f = body(f, m - 1)
    BY <1>2
  <2> DEFINE g == [k \in 0..m |-> IF k <= m - 1 THEN f[k] ELSE handleRequestCompletion(f[m - 1], rs[m])]
  <2>2. g = body(g, m)
    <3>1. ASSUME NEW k \in 0..m
          PROVE  g[k] = IF k = 0 THEN d ELSE handleRequestCompletion(g[k - 1], rs[k])
      <4>1. CASE k = 0
        BY <2>1, <4>1
      <4>2. CASE k \in 1..m - 1
        <5>1. f[k] = handleRequestCompletion(f[k - 1], rs[k])
          BY <2>1, <4>2
        <5>2. g[k] = f[k] /\ g[k - 1] = f[k - 1]
          BY <4>2
        <5> QED BY <5>1, <5>2, <4>2
      <4>3. CASE k = m
        <5>1. m - 1 \in 0..m /\ ~(m <= m - 1) /\ m # 0
          OBVIOUS
        <5>2. g[m - 1] = f[m - 1] /\ g[m] = handleRequestCompletion(f[m - 1], rs[m])
          BY <5>1
        <5> QED BY <5>1, <5>2, <4>3
      <4> QED BY <4>1, <4>2, <4>3
    <3> QED BY <3>1
  <2>3. \E h : h = body(h, m)
    BY <2>2
  <2> QED BY <2>3
<1>3. n \in T
  <2> HIDE DEF T, n
  <2>1. \A k \in 1..n : k - 1 \in T => k \in T
    BY <1>2
  <2>2. \A k \in 0..n : k \in T
    BY <1>0, <1>1, <2>1, UpTo
  <2> QED BY <2>2, <1>0
<1>4. \E f : f = body(f, n)
  BY <1>3
<1> DEFINE r == CHOOSE f : f = body(f, n)
<1>5. r = body(r, n)
  BY <1>4
<1>6. handleRequests(d, rs) = r[n]
  BY DEF handleRequests
<1> HIDE DEF r
<1>7. r[0] = d
  BY <1>5, <1>0
<1>8. ASSUME NEW k \in 1..n
      PROVE  r[k] = handleRequestCompletion(r[k - 1], rs[k])
  <2>1. k \in 0..n /\ k # 0
    OBVIOUS
  <2> QED BY <2>1, <1>5
<1> QED BY <1>6, <1>7, <1>8

FinishesOn(f, d, rs, status) ==
    /\ f[0] = d
    /\ \A k \in 1..Len(rs) : f[k] = Finish(f[k - 1], rs[k], status)
    /\ FinishAll(d, rs, status) = f[Len(rs)]

LEMMA FinishChain ==
    ASSUME NEW d, NEW rs, NEW status, Len(rs) \in Nat
    PROVE  \E f : FinishesOn(f, d, rs, status)
<1> DEFINE n == Len(rs)
           body(f, m) == [k \in 0..m |-> IF k = 0 THEN d ELSE Finish(f[k - 1], rs[k], status)]
           T == {m \in 0..n : \E f : f = body(f, m)}
<1>0. n \in Nat
  OBVIOUS
<1>1. 0 \in T
  <2> DEFINE g == [k \in 0..0 |-> d]
  <2>1. g = body(g, 0)
    BY SMT
  <2>2. \E f : f = body(f, 0)
    BY <2>1
  <2> QED BY <2>2, <1>0
<1>2. ASSUME NEW m \in 1..n, m - 1 \in T
      PROVE  m \in T
  <2>1. PICK f : f = body(f, m - 1)
    BY <1>2
  <2> DEFINE g == [k \in 0..m |-> IF k <= m - 1 THEN f[k] ELSE Finish(f[m - 1], rs[m], status)]
  <2>2. g = body(g, m)
    <3>1. ASSUME NEW k \in 0..m
          PROVE  g[k] = IF k = 0 THEN d ELSE Finish(g[k - 1], rs[k], status)
      <4>1. CASE k = 0
        BY <2>1, <4>1
      <4>2. CASE k \in 1..m - 1
        <5>1. f[k] = Finish(f[k - 1], rs[k], status)
          BY <2>1, <4>2
        <5>2. g[k] = f[k] /\ g[k - 1] = f[k - 1]
          BY <4>2
        <5> QED BY <5>1, <5>2, <4>2
      <4>3. CASE k = m
        <5>1. m - 1 \in 0..m /\ ~(m <= m - 1) /\ m # 0
          OBVIOUS
        <5>2. g[m - 1] = f[m - 1] /\ g[m] = Finish(f[m - 1], rs[m], status)
          BY <5>1
        <5> QED BY <5>1, <5>2, <4>3
      <4> QED BY <4>1, <4>2, <4>3
    <3> QED BY <3>1
  <2>3. \E h : h = body(h, m)
    BY <2>2
  <2> QED BY <2>3
<1>3. n \in T
  <2> HIDE DEF T, n
  <2>1. \A k \in 1..n : k - 1 \in T => k \in T
    BY <1>2
  <2>2. \A k \in 0..n : k \in T
    BY <1>0, <1>1, <2>1, UpTo
  <2> QED BY <2>2, <1>0
<1>4. \E f : f = body(f, n)
  BY <1>3
<1> DEFINE r == CHOOSE f : f = body(f, n)
<1>5. r = body(r, n)
  BY <1>4
<1>6. FinishAll(d, rs, status) = r[n]
  BY DEF FinishAll
<1> HIDE DEF r
<1>7. r[0] = d
  BY <1>5, <1>0
<1>8. ASSUME NEW k \in 1..n
      PROVE  r[k] = Finish(r[k - 1], rs[k], status)
  <2>1. k \in 0..n /\ k # 0
    OBVIOUS
  <2> QED BY <2>1, <1>5
<1> QED BY <1>6, <1>7, <1>8 DEF FinishesOn

--------------------------------------------------------------------------------
(* What a process has sent and what it has got, in bytes or in messages; a    *)
(* message counts for its receiver from the moment it is matched.             *)

Units(u, b) == IF u = "bytes" THEN b ELSE 1
Weight(r, u) == IF r.kind = "send" THEN Units(u, r.buffer)
                ELSE IF r.kind = "recv" /\ r.done THEN -Units(u, r.bytes) ELSE 0
Open(P, u) == SumFunctionOnSet([a \in 1..Len(P) |-> Weight(P[a], u)], 1..Len(P))
Got(D, u) == SumFunctionOnSet([k \in 1..Len(D) |-> Units(u, D[k].bytes)], 1..Len(D))
Sent(d, u) == IF u = "bytes" THEN d.sentBytes ELSE d.totalSentMessages
Balance(d, P, D, u) == Sent(d, u) + Open(P, u) - Got(D, u)

LEMMA SumAppend ==
    ASSUME NEW n \in Nat, NEW w, NEW v, \A k \in 1..n : w[k] \in Int /\ v[k] = w[k], v[n + 1] \in Int
    PROVE  SumFunctionOnSet(v, 1..n + 1) = SumFunctionOnSet(w, 1..n) + v[n + 1] /\ SumFunctionOnSet(w, 1..n) \in Int
<1>1. IsFiniteSet(1..n)
  BY FS_Interval
<1>2. 1..n + 1 = 1..n \cup {n + 1} /\ n + 1 \notin 1..n
  OBVIOUS
<1>3. SumFunctionOnSet(v, 1..n) = SumFunctionOnSet(w, 1..n)
  BY <1>1, SumEqual
<1>4. \A k \in 1..n \cup {n + 1} : v[k] \in Int
  OBVIOUS
<1>5. SumFunctionOnSet(v, 1..n \cup {n + 1}) = v[n + 1] + SumFunctionOnSet(v, 1..n)
  BY <1>1, <1>2, <1>4, SumAdd
<1>6. SumFunctionOnSet(v, 1..n + 1) = v[n + 1] + SumFunctionOnSet(v, 1..n)
  BY <1>2, <1>5, Zenon
<1>7. SumFunctionOnSet(w, 1..n) \in Int
  BY <1>1, SumInt
<1> QED BY <1>3, <1>6, <1>7

LEMMA SumTakeOut ==
    ASSUME NEW n \in Nat, NEW i \in 1..n, NEW w, NEW v, \A k \in 1..n : w[k] \in Int,
           \A k \in 1..n - 1 : v[k] = w[Before(i, k)]
    PROVE  SumFunctionOnSet(v, 1..n - 1) = SumFunctionOnSet(w, 1..n) - w[i] /\ SumFunctionOnSet(w, 1..n) \in Int
<1> DEFINE h == [k \in 1..n - 1 |-> Before(i, k)]
           B == 1..n \ {i}
<1>1. IsFiniteSet(1..n) /\ IsFiniteSet(1..n - 1)
  BY FS_Interval
<1>2. /\ \A k \in 1..n - 1 : h[k] \in B /\ w[h[k]] \in Int /\ v[k] = w[h[k]]
      /\ \A j, k \in 1..n - 1 : h[j] = h[k] => j = k
  BY DEF Before
<1>3. \A z \in B : \E k \in 1..n - 1 : h[k] = z
  <2> TAKE z \in B
  <2>1. After(i, z) \in 1..n - 1 /\ Before(i, After(i, z)) = z
    BY DEF Before, After
  <2> QED BY <2>1
<1>4. SumFunctionOnSet(v, 1..n - 1) = SumFunctionOnSet(w, B)
  <2> HIDE DEF h, B
  <2> QED BY <1>1, <1>2, <1>3, SumImage
<1>5. SumFunctionOnSet(w, 1..n) = w[i] + SumFunctionOnSet(w, B)
  BY <1>1, SumRemove
<1>6. SumFunctionOnSet(w, 1..n) \in Int /\ SumFunctionOnSet(w, B) \in Int
  BY <1>1, SumInt
<1> HIDE DEF B
<1> QED BY <1>4, <1>5, <1>6

LEMMA WeightInt ==
    ASSUME NEW u, NEW r \in Requests
    PROVE  Weight(r, u) \in Int
BY DEF Weight, Units, Requests

LEMMA OpenStart ==
    ASSUME NEW u, NEW P \in Seq(Requests), NEW r \in Requests
    PROVE  Open(Append(P, r), u) = Open(P, u) + Weight(r, u) /\ Open(P, u) \in Int
<1> DEFINE n == Len(P)
           Q == Append(P, r)
           w == [a \in 1..n |-> Weight(P[a], u)]
           v == [a \in 1..n + 1 |-> Weight(Q[a], u)]
<1>1. n \in Nat /\ Len(Q) = n + 1 /\ (\A k \in 1..n : Q[k] = P[k] /\ P[k] \in Requests) /\ Q[n + 1] = r
  BY Appended
<1> HIDE DEF n, Q
<1>2. (\A k \in 1..n : w[k] \in Int /\ v[k] = w[k]) /\ v[n + 1] = Weight(r, u) /\ v[n + 1] \in Int
  BY <1>1, WeightInt
<1>3. Open(P, u) = SumFunctionOnSet(w, 1..n) /\ Open(Q, u) = SumFunctionOnSet(v, 1..n + 1)
  BY <1>1 DEF Open, n
<1> HIDE DEF w, v
<1>4. SumFunctionOnSet(v, 1..n + 1) = SumFunctionOnSet(w, 1..n) + v[n + 1] /\ SumFunctionOnSet(w, 1..n) \in Int
  BY <1>1, <1>2, SumAppend
<1> QED BY <1>2, <1>3, <1>4 DEF Q

LEMMA OpenFinish ==
    ASSUME NEW u, NEW P \in Seq(Requests), NEW i \in 1..Len(P)
    PROVE  Open(RemoveAt(P, i), u) = Open(P, u) - Weight(P[i], u) /\ Open(P, u) \in Int
<1> DEFINE n == Len(P)
           Q == RemoveAt(P, i)
           w == [a \in 1..n |-> Weight(P[a], u)]
           v == [a \in 1..n - 1 |-> Weight(Q[a], u)]
<1>1. /\ n \in Nat /\ Len(Q) = n - 1 /\ i \in 1..n
      /\ \A k \in 1..n - 1 : Q[k] = P[Before(i, k)] /\ Before(i, k) \in 1..n
      /\ \A k \in 1..n : P[k] \in Requests
  BY Removal
<1> HIDE DEF n, Q
<1>2. \A k \in 1..n : w[k] \in Int
  BY <1>1, WeightInt
<1>3. \A k \in 1..n - 1 : v[k] = w[Before(i, k)]
  BY <1>1
<1>6. w[i] = Weight(P[i], u) /\ n \in Nat /\ i \in 1..n
  BY <1>1
<1>4. Open(P, u) = SumFunctionOnSet(w, 1..n) /\ Open(Q, u) = SumFunctionOnSet(v, 1..n - 1)
  BY <1>1 DEF Open, n
<1> HIDE DEF w, v
<1>5. SumFunctionOnSet(v, 1..n - 1) = SumFunctionOnSet(w, 1..n) - w[i] /\ SumFunctionOnSet(w, 1..n) \in Int
  BY ONLY <1>2, <1>3, <1>6, SumTakeOut, SMTT(30)
<1> QED BY <1>4, <1>5, <1>6 DEF Q

LEMMA GotMore ==
    ASSUME NEW u, NEW D \in Seq(Receipts), NEW x \in Receipts
    PROVE  Got(Append(D, x), u) = Got(D, u) + Units(u, x.bytes) /\ Got(D, u) \in Int
<1> DEFINE n == Len(D)
           E == Append(D, x)
           w == [k \in 1..n |-> Units(u, D[k].bytes)]
           v == [k \in 1..n + 1 |-> Units(u, E[k].bytes)]
<1>1. n \in Nat /\ Len(E) = n + 1 /\ (\A k \in 1..n : E[k] = D[k] /\ D[k] \in Receipts) /\ E[n + 1] = x
  BY Appended
<1> HIDE DEF n, E
<1>2. (\A k \in 1..n : w[k] \in Int /\ v[k] = w[k]) /\ v[n + 1] = Units(u, x.bytes) /\ v[n + 1] \in Int
  BY <1>1 DEF Units, Receipts
<1>3. Got(D, u) = SumFunctionOnSet(w, 1..n) /\ Got(E, u) = SumFunctionOnSet(v, 1..n + 1)
  BY <1>1 DEF Got, n
<1> HIDE DEF w, v
<1>4. SumFunctionOnSet(v, 1..n + 1) = SumFunctionOnSet(w, 1..n) + v[n + 1] /\ SumFunctionOnSet(w, 1..n) \in Int
  BY <1>1, <1>2, SumAppend
<1> QED BY <1>2, <1>3, <1>4 DEF E

\* A completion moves what was open to what is counted.
Finishing(u, d, e, P, D, q, status, s) ==
    /\ u \in {"bytes", "messages"} /\ P \in Seq(Requests) /\ D \in Seq(Receipts) /\ status \in BOOLEAN
    /\ Sent(d, u) \in Int /\ SentNow(P, asyncIndex(P, q), d, e)
    /\ asyncIndex(P, q) > 0 => P[asyncIndex(P, q)].done
    /\ s = Finish([posted |-> P, delivered |-> D], q, status)

LEMMA FinishBalance ==
    ASSUME NEW u, NEW d, NEW e, NEW P, NEW D, NEW q, NEW status, NEW s, Finishing(u, d, e, P, D, q, status, s)
    PROVE  Balance(e, s.posted, s.delivered, u) = Balance(d, P, D, u) /\ Sent(e, u) \in Int
<1> DEFINE k == asyncIndex(P, q)
<1>0. /\ u \in {"bytes", "messages"} /\ P \in Seq(Requests) /\ D \in Seq(Receipts) /\ status \in BOOLEAN
      /\ Sent(d, u) \in Int
  BY DEF Finishing
<1>1. k \in 0..Len(P) /\ Len(P) \in Nat
  BY <1>0, Index
<1>2. s = IF k = 0 THEN [posted |-> P, delivered |-> D]
          ELSE [posted |-> RemoveAt(P, k),
                delivered |-> IF P[k].kind = "recv" THEN Append(D, Receipt(P[k].source, status, P[k].bytes, P[k].buffer)) ELSE D]
  BY DEF Finish, Finishing
<1>3. SentNow(P, k, d, e) /\ (k > 0 => P[k].done)
  BY DEF Finishing
<1> HIDE DEF k
<1>4. CASE k = 0
  <2>1. Sent(e, u) = Sent(d, u)
    BY <1>3, <1>4 DEF SentNow, Sent
  <2>2. s.posted = P /\ s.delivered = D
    BY <1>2, <1>4
  <2> QED BY <1>0, <2>1, <2>2 DEF Balance
<1>5. CASE k > 0
  <2>1. k \in 1..Len(P) /\ k # 0
    BY <1>1, <1>5
  <2>2. P[k] \in Requests
    BY <1>0, <2>1
  <2>3. Open(RemoveAt(P, k), u) = Open(P, u) - Weight(P[k], u) /\ Open(P, u) \in Int
    BY <1>0, <2>1, OpenFinish
  <2>4. s.posted = RemoveAt(P, k)
    BY <1>2, <2>1
  <2>5. Weight(P[k], u) \in Int
    BY <1>0, <2>2, WeightInt
  <2>6. CASE P[k].kind = "recv"
    <3> DEFINE x == Receipt(P[k].source, status, P[k].bytes, P[k].buffer)
    <3>1. s.delivered = Append(D, x)
      <4>1. s = [posted |-> RemoveAt(P, k), delivered |-> IF P[k].kind = "recv" THEN Append(D, x) ELSE D]
        BY <1>2, <2>1
      <4> HIDE DEF x
      <4> QED BY <2>6, <4>1
    <3>2. x \in Receipts /\ x.bytes = P[k].bytes
      BY <1>0, <2>2 DEF Receipt, Receipts, Requests
    <3> HIDE DEF x
    <3>3. Got(Append(D, x), u) = Got(D, u) + Units(u, P[k].bytes) /\ Got(D, u) \in Int
      BY <1>0, <3>2, GotMore
    <3>4. Weight(P[k], u) = -Units(u, P[k].bytes) /\ Units(u, P[k].bytes) \in Int
      BY <1>0, <1>3, <1>5, <2>2, <2>6 DEF Weight, Units, Requests
    <3>5. Sent(e, u) = Sent(d, u)
      BY <1>3, <2>6 DEF SentNow, Sent
    <3> QED BY ONLY <1>0, <2>3, <2>4, <3>1, <3>3, <3>4, <3>5 DEF Balance
  <2>7. CASE P[k].kind # "recv"
    <3>1. s.delivered = D
      <4>1. s = [posted |-> RemoveAt(P, k), delivered |-> D]
        BY <1>2, <2>1, <2>7
      <4> QED BY <4>1
    <3>2. Sent(e, u) = Sent(d, u) + Weight(P[k], u)
      <4>1. CASE P[k].kind = "send"
        BY <1>0, <1>3, <1>5, <4>1 DEF SentNow, Sent, Weight, Units
      <4>2. CASE P[k].kind # "send"
        <5>1. Weight(P[k], u) = 0
          BY <2>7, <4>2 DEF Weight
        <5>2. Sent(e, u) = Sent(d, u)
          BY <1>3, <4>2 DEF SentNow, Sent
        <5> QED BY <1>0, <5>1, <5>2
      <4> QED BY <4>1, <4>2
    <3>3. Got(D, u) \in Int
      <4>1. Receipt(0, TRUE, 0, 0) \in Receipts
        BY DEF Receipt, Receipts
      <4> QED BY <1>0, <4>1, GotMore
    <3> QED BY ONLY <1>0, <2>3, <2>4, <2>5, <3>1, <3>2, <3>3 DEF Balance
  <2> QED BY <2>6, <2>7
<1> QED BY <1>1, <1>4, <1>5

\* An array of completions: handleRequests keeps up with MPI, request by request.
AllDone(P, reqs) == \A j \in 1..Len(reqs) : asyncIndex(P, reqs[j]) > 0 => P[asyncIndex(P, reqs[j])].done
UnitNames == {"bytes", "messages"}

LEMMA FinishMany ==
    ASSUME NEW P, NEW D, NEW reqs \in Seq(Int), \A i, j \in 1..Len(reqs) : reqs[i] = reqs[j] => i = j,
           NEW d, Shape(d), Pending(d, P), Vector(d, D),
           NEW status \in BOOLEAN, NEW rs, Len(rs) = Len(reqs),
           \A k \in 1..Len(reqs) : rs[k] = [req |-> reqs[k], source |-> Told(P, reqs[k], status)]
    PROVE  LET e == handleRequests(d, rs)
               s == FinishAll([posted |-> P, delivered |-> D], reqs, status)
           IN  /\ Shape(e) /\ Pending(e, s.posted) /\ Vector(e, s.delivered) /\ e.collective = d.collective
               /\ \A a \in 1..Len(s.posted) : \E b \in 1..Len(P) :
                     s.posted[a] = P[b] /\ \A j \in 1..Len(reqs) : P[b].req # reqs[j]
               /\ AllDone(P, reqs) => \A u \in UnitNames : Sent(d, u) \in Int =>
                     /\ Balance(e, s.posted, s.delivered, u) = Balance(d, P, D, u)
                     /\ Sent(e, u) \in Int
<1> DEFINE n == Len(reqs)
<1>0. n \in Nat /\ Len(rs) = n
  OBVIOUS
<1>a. Len(rs) \in Nat /\ Len(reqs) \in Nat
  BY <1>0
<1>b. \E f : /\ f[0] = d
             /\ \A k \in 1..Len(rs) : f[k] = handleRequestCompletion(f[k - 1], rs[k])
             /\ handleRequests(d, rs) = f[Len(rs)]
  BY ONLY <1>a, HandleChain, ZenonT(60)
<1>c. \E g : FinishesOn(g, [posted |-> P, delivered |-> D], reqs, status)
  BY ONLY <1>a, FinishChain
<1>1. PICK f : /\ f[0] = d
               /\ \A k \in 1..n : f[k] = handleRequestCompletion(f[k - 1], rs[k])
               /\ handleRequests(d, rs) = f[n]
  BY <1>b, <1>0, Zenon
<1>2. PICK g : /\ g[0] = [posted |-> P, delivered |-> D]
               /\ \A k \in 1..n : g[k] = Finish(g[k - 1], reqs[k], status)
               /\ FinishAll([posted |-> P, delivered |-> D], reqs, status) = g[n]
  BY <1>c, Zenon DEF FinishesOn
<1>3. \A k \in 1..n : rs[k] = [req |-> reqs[k], source |-> Told(P, reqs[k], status)]
  OBVIOUS
<1>4. \A i, j \in 1..n : reqs[i] = reqs[j] => i = j
  OBVIOUS
<1>5. Shape(d) /\ Pending(d, P) /\ Vector(d, D)
  OBVIOUS
<1>s. status \in BOOLEAN
  OBVIOUS
<1> HIDE DEF n
<1> DEFINE InStep(k) == /\ Shape(f[k]) /\ Pending(f[k], g[k].posted) /\ Vector(f[k], g[k].delivered)
                        /\ g[k] = [posted |-> g[k].posted, delivered |-> g[k].delivered]
                        /\ f[k].collective = d.collective
           Left(k) == \A a \in 1..Len(g[k].posted) : \E b \in 1..Len(P) :
                         g[k].posted[a] = P[b] /\ \A j \in 1..k : P[b].req # reqs[j]
           Kept(k) == \A b \in 1..Len(P) : (\A j \in 1..k : P[b].req # reqs[j]) =>
                         \E a \in 1..Len(g[k].posted) : g[k].posted[a] = P[b]
           Level(k) == AllDone(P, reqs) => \A u \in UnitNames : Sent(d, u) \in Int =>
                         /\ Balance(f[k], g[k].posted, g[k].delivered, u) = Balance(d, P, D, u)
                         /\ Sent(f[k], u) \in Int
           T == {k \in 0..n : InStep(k) /\ Left(k) /\ Kept(k) /\ Level(k)}
<1>6. 0 \in T
  <2>1. g[0].posted = P /\ g[0].delivered = D /\ f[0] = d
    BY <1>1, <1>2
  <2>2. InStep(0)
    BY <1>2, <1>5, <2>1
  <2>3. Left(0) /\ Kept(0) /\ Level(0)
    BY <2>1
  <2> HIDE DEF InStep, Left, Kept, Level
  <2> QED BY <2>2, <2>3, <1>0
<1>7. ASSUME NEW k \in 1..n, k - 1 \in T
      PROVE  k \in T
  <2> DEFINE Q == g[k - 1].posted
             E == g[k - 1].delivered
             q == reqs[k]
             s == Finish([posted |-> Q, delivered |-> E], q, status)
  <2>1. InStep(k - 1) /\ Left(k - 1) /\ Kept(k - 1) /\ Level(k - 1)
    BY <1>7
  <2>2. Pending(f[k - 1], Q) /\ Vector(f[k - 1], E) /\ Shape(f[k - 1]) /\ g[k - 1] = [posted |-> Q, delivered |-> E]
    BY <2>1
  <2>3. Q \in Seq(Requests) /\ Once(Q) /\ P \in Seq(Requests) /\ Once(P) /\ E \in Seq(Receipts)
    BY <2>2, <1>5 DEF Pending, Vector
  <2>4. \A j \in 1..k - 1 : q # reqs[j]
    <3> TAKE j \in 1..k - 1
    <3>1. j \in 1..n /\ j # k
      BY <1>0
    <3> QED BY <3>1, <1>4
  <2>5. g[k] = s /\ f[k] = handleRequestCompletion(f[k - 1], [req |-> q, source |-> Told(P, q, status)])
    BY <1>1, <1>2, <1>3, <2>2
  <2> HIDE DEF Q, E, q, s
  <2>6. Told(Q, q, status) = Told(P, q, status)
    <3>1. \A a \in 1..Len(Q) : \E b \in 1..Len(P) : Q[a] = P[b]
      BY <2>1 DEF Q
    <3>2. \A b \in 1..Len(P) : P[b].req = q => \E a \in 1..Len(Q) : Q[a] = P[b]
      BY <2>1, <2>4 DEF Q
    <3>3. SourceIn(Q, q) = SourceIn(P, q)
      BY ONLY <2>3, <3>1, <3>2, SourceSame
    <3> QED BY <3>3 DEF Told
  <2>7. /\ Shape(f[k]) /\ Pending(f[k], s.posted) /\ Vector(f[k], s.delivered)
        /\ s = [posted |-> s.posted, delivered |-> s.delivered]
        /\ f[k].collective = f[k - 1].collective /\ SentNow(Q, asyncIndex(Q, q), f[k - 1], f[k])
    BY <2>2, <2>5, <2>6, FinishOne DEF s
  <2>8. InStep(k)
    BY <2>1, <2>5, <2>7
  <2>9. /\ \A a \in 1..Len(s.posted) : \E b \in 1..Len(Q) : s.posted[a] = Q[b] /\ Q[b].req # q
        /\ \A b \in 1..Len(Q) : Q[b].req # q => \E a \in 1..Len(s.posted) : s.posted[a] = Q[b]
    <3>a. Q \in Seq(Requests) /\ Once(Q)
      BY <2>3
    <3>1. Stays(Q, Finish([posted |-> Q, delivered |-> E], q, status).posted, q)
      BY ONLY <3>a, FinishStays
    <3> QED BY <3>1 DEF s, Stays
  <2>10. \A b : (\A j \in 1..k : P[b].req # reqs[j]) <=> (\A j \in 1..k - 1 : P[b].req # reqs[j]) /\ P[b].req # q
    <3>1. \A j : j \in 1..k <=> j \in 1..k - 1 \/ j = k
      OBVIOUS
    <3> QED BY <3>1 DEF q
  <2>11. Left(k)
    <3> SUFFICES ASSUME NEW a \in 1..Len(s.posted)
                 PROVE  \E b \in 1..Len(P) : s.posted[a] = P[b] /\ \A j \in 1..k : P[b].req # reqs[j]
      BY <2>5
    <3>1. PICK c \in 1..Len(Q) : s.posted[a] = Q[c] /\ Q[c].req # q
      BY <2>9
    <3>2. PICK b \in 1..Len(P) : Q[c] = P[b] /\ \A j \in 1..k - 1 : P[b].req # reqs[j]
      BY <2>1 DEF Q
    <3> QED BY <3>1, <3>2, <2>10
  <2>12. Kept(k)
    <3> SUFFICES ASSUME NEW b \in 1..Len(P), \A j \in 1..k : P[b].req # reqs[j]
                 PROVE  \E a \in 1..Len(s.posted) : s.posted[a] = P[b]
      BY <2>5
    <3>1. (\A j \in 1..k - 1 : P[b].req # reqs[j]) /\ P[b].req # q
      BY <2>10
    <3>2. PICK c \in 1..Len(Q) : Q[c] = P[b]
      BY <2>1, <3>1 DEF Q
    <3> QED BY <3>1, <3>2, <2>9, SMTT(60)
  <2>13. Level(k)
    <3> SUFFICES ASSUME AllDone(P, reqs), NEW u \in UnitNames, Sent(d, u) \in Int
                 PROVE  /\ Balance(f[k], s.posted, s.delivered, u) = Balance(d, P, D, u)
                        /\ Sent(f[k], u) \in Int
      BY <2>5
    <3>1. Balance(f[k - 1], Q, E, u) = Balance(d, P, D, u) /\ Sent(f[k - 1], u) \in Int
      BY <2>1 DEF Q, E
    <3>2. asyncIndex(Q, q) > 0 => Q[asyncIndex(Q, q)].done
      <4> SUFFICES ASSUME asyncIndex(Q, q) > 0
                   PROVE  Q[asyncIndex(Q, q)].done
        OBVIOUS
      <4>1. asyncIndex(Q, q) \in 1..Len(Q) /\ Q[asyncIndex(Q, q)].req = q
        BY <2>3, Index
      <4>2. PICK b \in 1..Len(P) : Q[asyncIndex(Q, q)] = P[b]
        BY <2>1, <4>1 DEF Q
      <4>3. asyncIndex(P, q) \in 1..Len(P) /\ P[asyncIndex(P, q)].req = q
        BY <2>3, <4>1, <4>2, Index
      <4>4. asyncIndex(P, q) = b
        BY <2>3, <4>1, <4>2, <4>3 DEF Once
      <4>5. P[asyncIndex(P, q)].done
        BY <4>3 DEF AllDone, q, n
      <4> QED BY <4>2, <4>4, <4>5
    <3>3. u \in {"bytes", "messages"} /\ SentNow(Q, asyncIndex(Q, q), f[k - 1], f[k])
      BY <2>7 DEF UnitNames
    <3>4. Finishing(u, f[k - 1], f[k], Q, E, q, status, s)
      BY <1>s, <2>3, <3>1, <3>2, <3>3 DEF s, Finishing
    <3>5. Balance(f[k], s.posted, s.delivered, u) = Balance(f[k - 1], Q, E, u) /\ Sent(f[k], u) \in Int
      BY ONLY <3>4, FinishBalance, Zenon
    <3> QED BY <3>1, <3>5
  <2> HIDE DEF InStep, Left, Kept, Level
  <2> QED BY <2>8, <2>11, <2>12, <2>13
<1>8. n \in T
  <2> HIDE DEF T
  <2>1. \A k \in 1..n : k - 1 \in T => k \in T
    BY <1>7
  <2>2. \A k \in 0..n : k \in T
    BY <1>0, <1>6, <2>1, UpTo
  <2> QED BY <2>2, <1>0
<1>9. InStep(n) /\ Left(n) /\ Level(n)
  BY <1>8
<1> DEFINE e == f[n]
           s == g[n]
<1>10. handleRequests(d, rs) = e /\ FinishAll([posted |-> P, delivered |-> D], reqs, status) = s
  BY <1>1, <1>2
<1>11. /\ Shape(e) /\ Pending(e, s.posted) /\ Vector(e, s.delivered) /\ e.collective = d.collective
       /\ \A a \in 1..Len(s.posted) : \E b \in 1..Len(P) :
             s.posted[a] = P[b] /\ \A j \in 1..Len(reqs) : P[b].req # reqs[j]
       /\ AllDone(P, reqs) => \A u \in UnitNames : Sent(d, u) \in Int =>
             /\ Balance(e, s.posted, s.delivered, u) = Balance(d, P, D, u)
             /\ Sent(e, u) \in Int
  BY <1>9 DEF n
<1> HIDE DEF e, s
<1> QED BY <1>10, <1>11, Zenon

--------------------------------------------------------------------------------
(* What the notification of each call makes of the state of the analysis.     *)

AllToAll == {"Alltoall", "Ialltoall", "Alltoallv", "Allgather", "Iallgather"}
Rooted == {"Bcast", "Ibcast", "Reduce", "Ireduce"}
Gathers == {"Gather", "Igather"}
Reduces == {"Allreduce", "Iallreduce"}
Collectives == AllToAll \cup Rooted \cup Gathers \cup Reduces
Pairwise == {"Send", "Recv", "Isend", "Irecv"}
Completing == {"Wait", "Test", "Waitall", "Testall"}

LEMMA NotifiedPair ==
    ASSUME NEW c, c.name \in Pairwise
    PROVE  LET m == mpi_update_db(c)
           IN  /\ m.name = c.name /\ m.other = c.other /\ m.size = c.bytes
               /\ c.name \in {"Isend", "Irecv"} => m.req = c.req
<1>1. CASE c.name \in {"Send", "Recv"}
  BY <1>1 DEF mpi_update_db, HookClass, point_to_point_class, basic_call, Cleared
<1>2. CASE c.name \in {"Isend", "Irecv"}
  BY <1>2 DEF mpi_update_db, HookClass, point_to_point_class, async_call, basic_call, Cleared
<1> QED BY <1>1, <1>2 DEF Pairwise

\* the source in the notification: a test has none without a status
Reported(c) == IF c.name = "Test" /\ ~c.status THEN ANY_SOURCE ELSE c.source

LEMMA NotifiedCompletion ==
    ASSUME NEW c, c.name \in Completing
    PROVE  LET m == mpi_update_db(c)
           IN  /\ m.name = c.name
               /\ c.name \in {"Wait", "Test"} => m.req = c.req /\ m.source = Reported(c)
               /\ c.name \in {"Waitall", "Testall"} => m.reqs = c.reqs
               /\ c.name \in {"Test", "Testall"} => m.flag = c.done
<1>1. CASE c.name = "Wait"
  BY <1>1 DEF mpi_update_db, HookClass, point_to_point_class, wait_call, Cleared, Reported
<1>2. CASE c.name = "Test"
  BY <1>2 DEF mpi_update_db, HookClass, point_to_point_class, test_call, Cleared, Reported
<1>3. CASE c.name = "Waitall"
  BY <1>3 DEF mpi_update_db, HookClass, point_to_point_class, waitall_call, Cleared
<1>4. CASE c.name = "Testall"
  BY <1>4 DEF mpi_update_db, HookClass, point_to_point_class, testall_call, Cleared
<1> QED BY <1>1, <1>2, <1>3, <1>4 DEF Completing

LEMMA NotifiedCollective ==
    ASSUME NEW c, c.name \in Collectives
    PROVE  LET m == mpi_update_db(c)
           IN  /\ m.name = c.name /\ m.other = 0 /\ m.size = c.bytes /\ m.req = c.req /\ m.comm_size = c.comm_size
               /\ m.recvsize = IF c.name \in Gathers \cup AllToAll THEN c.recvbytes ELSE 0
               /\ m.root = IF c.name \in Gathers \cup Rooted THEN c.root ELSE 0
<1>1. CASE c.name \in Rooted
  BY <1>1 DEF mpi_update_db, HookClass, point_to_point_class, collective_class, rooted_call, Cleared, Rooted, Gathers, AllToAll
<1>2. CASE c.name \in Gathers
  BY <1>2 DEF mpi_update_db, HookClass, point_to_point_class, collective_class, rooted_call, gather_call, Cleared, Gathers
<1>3. CASE c.name \in AllToAll
  <2>1. HookClass(c.name) = "PAIRS" /\ c.name \notin Gathers /\ c.name \notin Rooted
    BY <1>3 DEF HookClass, point_to_point_class, collective_class, Rooted, Gathers, AllToAll
  <2>2. mpi_update_db(c) = [all_pairs_call(c) EXCEPT !.name = c.name, !.comm_size = c.comm_size]
    BY <2>1 DEF mpi_update_db
  <2> QED BY <1>3, <2>1, <2>2 DEF all_pairs_call, Cleared
<1>4. CASE c.name \in Reduces
  BY <1>4 DEF mpi_update_db, HookClass, point_to_point_class, collective_class, allreduce_call, Cleared, Rooted, Gathers, AllToAll, Reduces
<1> QED BY <1>1, <1>2, <1>3, <1>4 DEF Collectives

Pend(c, bytes, other) == [req |-> c.req, source |-> other, bytes |-> bytes]

LEMMA VisitPair ==
    ASSUME NEW c, c.name \in Pairwise, NEW d, NEW p
    PROVE  visit(d, p, mpi_update_db(c)) =
              CASE c.name = "Send"  -> count_sent(d, c.bytes)
                [] c.name = "Recv"  -> updateReceivedMatrix(count_received(d, c.bytes), c.other, c.bytes)
                [] c.name = "Isend" -> [d EXCEPT !.async_send = Append(@, Pend(c, c.bytes, c.other))]
                [] c.name = "Irecv" -> [d EXCEPT !.async_recv = Append(@, Pend(c, c.bytes, c.other))]
<1> DEFINE m == mpi_update_db(c)
<1>1. /\ m.name = c.name /\ m.other = c.other /\ m.size = c.bytes
      /\ c.name \in {"Isend", "Irecv"} => m.req = c.req
  BY NotifiedPair
<1> HIDE DEF m
<1>2. visit(d, p, m) = visit_point_to_point(d, m)
  BY <1>1 DEF visit, Pairwise
<1>3. CASE c.name = "Send"
  BY <1>1, <1>2, <1>3 DEF visit_point_to_point, m
<1>4. CASE c.name = "Recv"
  BY <1>1, <1>2, <1>4 DEF visit_point_to_point, m
<1>5. CASE c.name = "Isend"
  BY <1>1, <1>2, <1>5 DEF visit_point_to_point, updateAsyncReqList, Pend, m
<1>6. CASE c.name = "Irecv"
  BY <1>1, <1>2, <1>6 DEF visit_point_to_point, updateAsyncReqList, Pend, m
<1> QED BY <1>3, <1>4, <1>5, <1>6 DEF Pairwise

LEMMA VisitCompletion ==
    ASSUME NEW c, c.name \in Completing, c.done \in BOOLEAN, NEW d, NEW p
    PROVE  visit(d, p, mpi_update_db(c)) =
              IF c.name \in {"Test", "Testall"} /\ c.done = FALSE THEN d
              ELSE IF c.name \in {"Wait", "Test"} THEN handleRequestCompletion(d, [req |-> c.req, source |-> Reported(c)])
              ELSE handleRequests(d, c.reqs)
<1> DEFINE m == mpi_update_db(c)
<1>1. /\ m.name = c.name
      /\ c.name \in {"Wait", "Test"} => m.req = c.req /\ m.source = Reported(c)
      /\ c.name \in {"Waitall", "Testall"} => m.reqs = c.reqs
      /\ c.name \in {"Test", "Testall"} => m.flag = c.done
  BY NotifiedCompletion
<1> HIDE DEF m
<1>2. visit(d, p, m) = visit_completion(d, m)
  BY <1>1 DEF visit, Completing
<1>3. CASE c.name = "Wait"
  BY <1>1, <1>2, <1>3 DEF visit_completion, m
<1>4. CASE c.name = "Test"
  BY <1>1, <1>2, <1>4 DEF visit_completion, m
<1>5. CASE c.name = "Waitall"
  BY <1>1, <1>2, <1>5 DEF visit_completion, m
<1>6. CASE c.name = "Testall"
  BY <1>1, <1>2, <1>6 DEF visit_completion, m
<1> QED BY <1>3, <1>4, <1>5, <1>6 DEF Completing

\* What a call adds to a volume.
Adds(p, c, v) ==
    IF c.name \in Collectives /\ v \in FamilyVolumes[Family(c.name)] THEN volume(p, mpi_update_db(c), v) ELSE 0

Moved(d, p, c) == [v \in Volumes |-> d.collective[v] + Adds(p, c, v)]
Others(d, c) == IF c.name \in NonBlocking THEN Append(d.async_other, Pend(c, 0, 0)) ELSE d.async_other

LEMMA VisitCollective ==
    ASSUME NEW c, c.name \in Collectives, NEW d, NEW p
    PROVE  visit(d, p, mpi_update_db(c)) = [d EXCEPT !.collective = Moved(d, p, c), !.async_other = Others(d, c)]
<1> DEFINE m == mpi_update_db(c)
<1>1. m.name = c.name /\ m.other = 0 /\ m.req = c.req
  BY NotifiedCollective
<1>2. \A v : Adds(p, c, v) = IF v \in FamilyVolumes[Family(c.name)] THEN volume(p, m, v) ELSE 0
  BY DEF Adds
<1> HIDE DEF m
<1>3. visit(d, p, m) = visit_collective(d, p, m)
  BY <1>1 DEF visit, Collectives, AllToAll, Rooted, Gathers, Reduces
<1>4. updateAsyncReqList(d.async_other, m, 0) = Append(d.async_other, Pend(c, 0, 0))
  BY <1>1 DEF updateAsyncReqList, Pend
<1>5. visit_collective(d, p, m) =
         [d EXCEPT !.collective = [v \in Volumes |-> d.collective[v] + Adds(p, c, v)],
                   !.async_other = IF c.name \in NonBlocking THEN Append(d.async_other, Pend(c, 0, 0))
                                   ELSE d.async_other]
  <2> DEFINE F == FamilyVolumes[Family(c.name)]
  <2>1. visit_collective(d, p, m) =
           [d EXCEPT !.collective = [v \in Volumes |-> @[v] + IF v \in F THEN volume(p, m, v) ELSE 0],
                     !.async_other = IF c.name \in NonBlocking THEN updateAsyncReqList(@, m, 0) ELSE @]
    BY <1>1 DEF visit_collective
  <2> HIDE DEF F
  <2>2. \A v \in Volumes : Adds(p, c, v) = IF v \in F THEN volume(p, m, v) ELSE 0
    BY <1>2 DEF F
  <2> QED BY <1>4, <2>1, <2>2
<1> QED BY <1>3, <1>5 DEF m, Moved, Others

--------------------------------------------------------------------------------
(* The pending requests over a start and over a match.                        *)

LEMMA PendingStart ==
    ASSUME NEW d, NEW P, Pending(d, P), NEW r \in Requests, NEW x \in Entries, x.req = r.req,
           r.kind # "other" => x.bytes = r.buffer, \A a \in 1..Len(P) : P[a].req # r.req,
           NEW e, e.aborted = FALSE,
           e.async_send = IF r.kind = "send" THEN Append(d.async_send, x) ELSE d.async_send,
           e.async_recv = IF r.kind = "recv" THEN Append(d.async_recv, x) ELSE d.async_recv,
           e.async_other = IF r.kind = "other" THEN Append(d.async_other, x) ELSE d.async_other
    PROVE  Pending(e, Append(P, r))
<1>1. /\ d.async_send \in Seq(Entries) /\ d.async_recv \in Seq(Entries) /\ d.async_other \in Seq(Entries)
      /\ P \in Seq(Requests) /\ Once(P) /\ d.aborted = FALSE
      /\ Mirrors(d.async_send, P, "send") /\ Mirrors(d.async_recv, P, "recv") /\ Mirrors(d.async_other, P, "other")
      /\ Sized(d.async_send, P, "send") /\ Sized(d.async_recv, P, "recv")
  BY DEF Pending
<1>2. Append(P, r) \in Seq(Requests)
  BY <1>1
<1>3. Once(Append(P, r))
  BY <1>1, OnceStart
<1>4. ASSUME NEW L \in Seq(Entries), NEW kind, Mirrors(L, P, kind), NEW M,
             M = IF r.kind = kind THEN Append(L, x) ELSE L
      PROVE  M \in Seq(Entries) /\ Mirrors(M, Append(P, r), kind)
  <2>1. CASE r.kind = kind
    <3>1. Mirrors(Append(L, x), Append(P, r), kind)
      BY <1>1, <1>4, <2>1, MirrorStart
    <3> QED BY <3>1, <1>4, <2>1
  <2>2. CASE r.kind # kind
    BY <1>1, <1>4, <2>2, MirrorOther
  <2> QED BY <2>1, <2>2
<1>5. ASSUME NEW L \in Seq(Entries), NEW kind, kind # "other", Mirrors(L, P, kind), Sized(L, P, kind), NEW M,
             M = IF r.kind = kind THEN Append(L, x) ELSE L
      PROVE  Sized(M, Append(P, r), kind)
  <2>1. CASE r.kind = kind
    <3>1. Sized(Append(L, x), Append(P, r), kind)
      BY <1>1, <1>5, <2>1, SizedStart
    <3> QED BY <3>1, <1>5, <2>1
  <2>2. CASE r.kind # kind
    BY <1>1, <1>5, <2>2, SizedOther
  <2> QED BY <2>1, <2>2
<1>6. /\ e.async_send \in Seq(Entries) /\ Mirrors(e.async_send, Append(P, r), "send")
      /\ e.async_recv \in Seq(Entries) /\ Mirrors(e.async_recv, Append(P, r), "recv")
      /\ e.async_other \in Seq(Entries) /\ Mirrors(e.async_other, Append(P, r), "other")
  BY <1>1, <1>4
<1>7. Sized(e.async_send, Append(P, r), "send") /\ Sized(e.async_recv, Append(P, r), "recv")
  BY <1>1, <1>5
<1> QED BY <1>2, <1>3, <1>6, <1>7 DEF Pending

\* A request gets its message: only its source, its size and its flag change.
LEMMA PendingMatch ==
    ASSUME NEW d, NEW P, Pending(d, P), NEW Q \in Seq(Requests), Len(Q) = Len(P),
           \A a \in 1..Len(P) : Q[a].req = P[a].req /\ Q[a].kind = P[a].kind /\ Q[a].buffer = P[a].buffer
    PROVE  Pending(d, Q)
<1>1. /\ d.async_send \in Seq(Entries) /\ d.async_recv \in Seq(Entries) /\ d.async_other \in Seq(Entries)
      /\ P \in Seq(Requests) /\ Once(P) /\ d.aborted = FALSE
      /\ Mirrors(d.async_send, P, "send") /\ Mirrors(d.async_recv, P, "recv") /\ Mirrors(d.async_other, P, "other")
      /\ Sized(d.async_send, P, "send") /\ Sized(d.async_recv, P, "recv")
  BY DEF Pending
<1>2. /\ Mirrors(d.async_send, Q, "send") /\ Mirrors(d.async_recv, Q, "recv")
      /\ Mirrors(d.async_other, Q, "other")
  BY <1>1, MirrorMatch
<1>3. Once(Q)
  BY <1>1 DEF Once
<1>4. Sized(d.async_send, Q, "send") /\ Sized(d.async_recv, Q, "recv")
  BY <1>1, ZenonT(60) DEF Sized, Matching
<1> QED BY <1>1, <1>2, <1>3, <1>4 DEF Pending

--------------------------------------------------------------------------------
(* An active request was started by a call of the process, and none of the    *)
(* calls since completes it.                                                  *)

Active(s, n, P) ==
    \A a \in 1..Len(P) :
        \E i \in 1..n - 1 : /\ s[i].name \in Starting /\ s[i].req = P[a].req
                            /\ \A k \in i + 1..n - 1 : ~Completes(s[k], P[a].req)

\* Hence a call that starts a request finds its variable free.
LEMMA ActiveFree ==
    ASSUME NEW s \in Seq(Calls), Lawful(s), NEW n \in 1..Len(s), NEW P, Active(s, n, P), s[n].name \in Starting
    PROVE  \A a \in 1..Len(P) : P[a].req # s[n].req
<1> SUFFICES ASSUME NEW a \in 1..Len(P), P[a].req = s[n].req
             PROVE  FALSE
  OBVIOUS
<1>1. DOMAIN s = 1..Len(s) /\ Len(s) \in Nat
  OBVIOUS
<1>2. PICK i \in 1..n - 1 : /\ s[i].name \in Starting /\ s[i].req = P[a].req
                            /\ \A k \in i + 1..n - 1 : ~Completes(s[k], P[a].req)
  BY DEF Active
<1>3. i \in DOMAIN s /\ n \in DOMAIN s /\ i < n
  BY <1>1
<1>4. {s[i].name, s[n].name} \subseteq Starting /\ s[i].req = s[n].req
  BY <1>2
<1>5. \E k \in i + 1..n - 1 : Completes(s[k], s[i].req)
  BY <1>3, <1>4 DEF Lawful
<1> QED BY <1>2, <1>5

LEMMA ActiveOn ==
    ASSUME NEW s, NEW n \in Nat \ {0}, NEW P, Active(s, n, P), NEW Q,
           \A a \in 1..Len(Q) : \E b \in 1..Len(P) : Q[a].req = P[b].req /\ ~Completes(s[n], P[b].req)
    PROVE  Active(s, n + 1, Q)
<1> SUFFICES ASSUME NEW a \in 1..Len(Q)
             PROVE  \E i \in 1..(n + 1) - 1 : /\ s[i].name \in Starting /\ s[i].req = Q[a].req
                                              /\ \A k \in i + 1..(n + 1) - 1 : ~Completes(s[k], Q[a].req)
  BY DEF Active
<1>1. PICK b \in 1..Len(P) : Q[a].req = P[b].req /\ ~Completes(s[n], P[b].req)
  OBVIOUS
<1>2. PICK i \in 1..n - 1 : /\ s[i].name \in Starting /\ s[i].req = P[b].req
                            /\ \A k \in i + 1..n - 1 : ~Completes(s[k], P[b].req)
  BY DEF Active
<1>3. i \in 1..(n + 1) - 1 /\ \A k \in i + 1..(n + 1) - 1 : k \in i + 1..n - 1 \/ k = n
  OBVIOUS
<1>4. \A k \in i + 1..(n + 1) - 1 : ~Completes(s[k], Q[a].req)
  BY <1>1, <1>2, <1>3
<1> QED BY <1>1, <1>2, <1>3, <1>4

LEMMA ActiveStart ==
    ASSUME NEW s, NEW n \in Nat \ {0}, NEW P \in Seq(Requests), Active(s, n, P),
           s[n].name \in Starting, NEW r \in Requests, r.req = s[n].req
    PROVE  Active(s, n + 1, Append(P, r))
<1> DEFINE Q == Append(P, r)
<1>1. /\ Len(Q) = Len(P) + 1 /\ Len(P) \in Nat
      /\ \A k \in 1..Len(P) : Q[k] = P[k]
      /\ Q[Len(P) + 1] = r
  BY Appended
<1>2. \A q : ~Completes(s[n], q)
  BY DEF Completes, Starting, NonBlocking
<1>3. Active(s, n + 1, P)
  BY <1>2, ActiveOn
<1> HIDE DEF Q
<1> SUFFICES ASSUME NEW a \in 1..Len(Q)
             PROVE  \E i \in 1..(n + 1) - 1 : /\ s[i].name \in Starting /\ s[i].req = Q[a].req
                                              /\ \A k \in i + 1..(n + 1) - 1 : ~Completes(s[k], Q[a].req)
  BY DEF Active, Q
<1>4. CASE a \in 1..Len(P)
  BY <1>1, <1>3, <1>4 DEF Active
<1>5. CASE a = Len(P) + 1
  <2>1. n \in 1..(n + 1) - 1 /\ \A k : ~(k \in n + 1..(n + 1) - 1)
    OBVIOUS
  <2> QED BY <1>1, <1>5, <2>1
<1> QED BY <1>1, <1>4, <1>5

--------------------------------------------------------------------------------
(* The volumes of the collective calls: what the calls so far add.            *)

AddedBy(p, s, n, v) == [j \in 1..n |-> Adds(p, s[j], v)]
Collected(p, s, n, d) == \A v \in Volumes : d.collective[v] = SumFunctionOnSet(AddedBy(p, s, n - 1, v), 1..n - 1)

LEMMA AddsInt ==
    ASSUME NEW p, NEW c \in Calls, NEW v \in Volumes
    PROVE  Adds(p, c, v) \in Int
<1>1. CASE c.name \notin Collectives
  BY <1>1 DEF Adds
<1>2. CASE c.name \in Collectives
  <2> DEFINE m == mpi_update_db(c)
  <2>1. m.size \in Nat /\ m.comm_size \in Nat /\ m.recvsize \in Nat
    BY <1>2, NotifiedCollective DEF Calls
  <2> HIDE DEF m
  <2>2. m.size * m.comm_size \in Int /\ m.recvsize * m.comm_size \in Int
    BY <2>1
  <2>3. volume(p, m, v) \in Int
    BY <2>1, <2>2 DEF volume, Volumes
  <2> QED BY <2>3 DEF Adds, m
<1> QED BY <1>1, <1>2

LEMMA CollectedOn ==
    ASSUME NEW p, NEW s \in Seq(Calls), NEW n \in 1..Len(s), NEW d, Collected(p, s, n, d), NEW e,
           \A v \in Volumes : e.collective[v] = d.collective[v] + Adds(p, s[n], v)
    PROVE  Collected(p, s, n + 1, e)
<1> SUFFICES ASSUME NEW v \in Volumes
             PROVE  e.collective[v] = SumFunctionOnSet(AddedBy(p, s, n, v), 1..n)
  BY DEF Collected
<1> DEFINE f == AddedBy(p, s, n - 1, v)
           g == AddedBy(p, s, n, v)
           k == n - 1
<1>1. k \in Nat /\ k + 1 = n
  OBVIOUS
<1>2. \A j \in 1..n : s[j] \in Calls
  OBVIOUS
<1>3. \A j \in 1..n : g[j] = Adds(p, s[j], v) /\ g[j] \in Int
  BY <1>2, AddsInt DEF AddedBy
<1>4. \A j \in 1..k : f[j] = Adds(p, s[j], v)
  BY DEF AddedBy
<1>5. d.collective[v] = SumFunctionOnSet(f, 1..k)
  BY DEF Collected
<1>8. e.collective[v] = d.collective[v] + Adds(p, s[n], v)
  OBVIOUS
<1> HIDE DEF f, g, k
<1>6. (\A j \in 1..k : f[j] \in Int /\ g[j] = f[j]) /\ g[k + 1] \in Int /\ g[k + 1] = Adds(p, s[n], v)
  BY <1>1, <1>3, <1>4
<1>7. SumFunctionOnSet(g, 1..k + 1) = SumFunctionOnSet(f, 1..k) + g[k + 1]
  BY ONLY <1>1, <1>6, SumAppend
<1> QED BY <1>1, <1>5, <1>6, <1>7, <1>8 DEF g

LEMMA CollectedSame ==
    ASSUME NEW p, NEW s \in Seq(Calls), NEW n \in 1..Len(s), NEW d, Collected(p, s, n, d), NEW e,
           s[n].name \notin Collectives, e.collective = d.collective
    PROVE  Collected(p, s, n + 1, e)
<1>1. \A v \in Volumes : Adds(p, s[n], v) = 0
  BY DEF Adds
<1>2. \A v \in Volumes : d.collective[v] \in Int
  <2> TAKE v \in Volumes
  <2> DEFINE f == AddedBy(p, s, n - 1, v)
  <2>1. \A j \in 1..n - 1 : s[j] \in Calls
    OBVIOUS
  <2>2. \A j \in 1..n - 1 : f[j] \in Int
    BY <2>1, AddsInt DEF AddedBy
  <2>3. IsFiniteSet(1..n - 1)
    BY FS_Interval
  <2>4. d.collective[v] = SumFunctionOnSet(f, 1..n - 1)
    BY DEF Collected
  <2> HIDE DEF f
  <2>5. SumFunctionOnSet(f, 1..n - 1) \in Int
    BY ONLY <2>2, <2>3, SumInt
  <2> QED BY <2>4, <2>5
<1>3. \A v \in Volumes : e.collective[v] = d.collective[v] + Adds(p, s[n], v)
  BY <1>1, <1>2
<1> QED BY <1>3, CollectedOn

--------------------------------------------------------------------------------
(* A process: its program s and its next call n, its active requests P, what  *)
(* it was delivered D, and the state d of its analysis.                       *)

Kept(p, s, n, P, D, d) ==
    /\ n \in 1..Len(s) + 1
    /\ Shape(d) /\ Pending(d, P) /\ Vector(d, D) /\ Active(s, n, P)
    /\ \A u \in UnitNames : Sent(d, u) \in Int
    /\ Collected(p, s, n, d)
\* The balance of a process grows by amount(u).
Moves(d, P, D, e, Q, E, u, amount) ==
    Balance(e, Q, E, u) = Balance(d, P, D, u) + amount /\ Balance(d, P, D, u) \in Int

LEMMA KeptFacts ==
    ASSUME NEW p, NEW s, NEW n, NEW P, NEW D, NEW d, Kept(p, s, n, P, D, d)
    PROVE  /\ n \in 1..Len(s) + 1 /\ Shape(d) /\ Pending(d, P) /\ Vector(d, D) /\ Active(s, n, P)
           /\ Collected(p, s, n, d) /\ P \in Seq(Requests) /\ D \in Seq(Receipts) /\ Once(P) /\ d.aborted = FALSE
           /\ \A u \in UnitNames : Sent(d, u) \in Int
BY DEF Kept, Pending, Vector

LEMMA Balanced ==
    ASSUME NEW u, NEW P \in Seq(Requests), NEW D \in Seq(Receipts)
    PROVE  Open(P, u) \in Int /\ Got(D, u) \in Int
<1>1. Receipt(0, TRUE, 0, 0) \in Receipts
  BY DEF Receipt, Receipts
<1>2. \E x : x \in Receipts
  BY <1>1
<1>3. Got(D, u) \in Int
  BY <1>2, GotMore
<1>4. \E r : r \in Requests
  <2> DEFINE r == [req |-> 0, kind |-> "send", other |-> 0, tag |-> 0, bytes |-> 0, buffer |-> 0, done |-> TRUE, source |-> 0]
  <2>1. r \in Requests
    BY DEF Requests
  <2> QED BY <2>1
<1>5. Open(P, u) \in Int
  BY <1>4, OpenStart
<1> QED BY <1>3, <1>5

LEMMA VectorSame ==
    ASSUME NEW d, NEW D, Vector(d, D), NEW e, e.matrixReceived = d.matrixReceived,
           e.receivedBytes = d.receivedBytes, e.totalReceivedMessages = d.totalReceivedMessages
    PROVE  Vector(e, D)
BY DEF Vector

LEMMA PendingSame ==
    ASSUME NEW d, NEW P, Pending(d, P), NEW e, e.aborted = d.aborted,
           e.async_send = d.async_send, e.async_recv = d.async_recv, e.async_other = d.async_other
    PROVE  Pending(e, P)
BY DEF Pending

\* A call that completes nothing leaves the active requests.
LEMMA ActiveSame ==
    ASSUME NEW s, NEW n \in Nat \ {0}, NEW P, Active(s, n, P), s[n].name \notin Completing
    PROVE  Active(s, n + 1, P)
<1>1. \A q : ~Completes(s[n], q)
  BY DEF Completes, Completing
<1> QED BY <1>1, ActiveOn

LEMMA StepSend ==
    ASSUME NEW p, NEW s \in Seq(Calls), NEW n \in 1..Len(s), NEW P, NEW D, NEW d, Kept(p, s, n, P, D, d),
           s[n].name = "Send"
    PROVE  LET e == visit(d, p, mpi_update_db(s[n]))
           IN  /\ Kept(p, s, n + 1, P, D, e)
               /\ \A u \in UnitNames : Moves(d, P, D, e, P, D, u, Units(u, s[n].bytes))
<1> DEFINE c == s[n]
           e == visit(d, p, mpi_update_db(s[n]))
<1>1. c \in Calls /\ n \in Nat \ {0} /\ Len(s) \in Nat /\ c.bytes \in Nat
  <2>1. c \in Calls /\ n \in Nat \ {0} /\ Len(s) \in Nat
    OBVIOUS
  <2> HIDE DEF c
  <2> QED BY <2>1 DEF Calls
<1>2. /\ Shape(d) /\ Pending(d, P) /\ Vector(d, D) /\ Active(s, n, P)
      /\ Collected(p, s, n, d) /\ P \in Seq(Requests) /\ D \in Seq(Receipts)
      /\ \A u \in UnitNames : Sent(d, u) \in Int
  BY KeptFacts
<1>3. e = count_sent(d, c.bytes)
  BY VisitPair DEF Pairwise
<1>4. c.name = "Send"
  OBVIOUS
<1> HIDE DEF c, e
<1>5. /\ Shape(e) /\ e.sentBytes = d.sentBytes + c.bytes /\ e.totalSentMessages = d.totalSentMessages + 1
      /\ e.receivedBytes = d.receivedBytes /\ e.totalReceivedMessages = d.totalReceivedMessages
      /\ e.collective = d.collective /\ e.matrixReceived = d.matrixReceived /\ e.async_send = d.async_send
      /\ e.async_recv = d.async_recv /\ e.async_other = d.async_other /\ e.aborted = d.aborted
  BY <1>2, <1>3, CountSent
<1>6. Pending(e, P) /\ Vector(e, D)
  BY <1>2, <1>5, PendingSame, VectorSame
<1>7. Active(s, n + 1, P)
  BY <1>1, <1>2, <1>4, ActiveSame DEF Completing, c
<1>8. Collected(p, s, n + 1, e)
  <2>1. s[n].name \notin Collectives
    BY DEF Collectives, AllToAll, Rooted, Gathers, Reduces
  <2> QED BY <1>2, <1>5, <2>1, CollectedSame
<1>9. \A u \in UnitNames : Sent(e, u) = Sent(d, u) + Units(u, c.bytes) /\ Sent(e, u) \in Int
  BY <1>1, <1>2, <1>5 DEF Sent, Units, UnitNames
<1>10. Kept(p, s, n + 1, P, D, e)
  BY <1>1, <1>5, <1>6, <1>7, <1>8, <1>9 DEF Kept
<1>11. ASSUME NEW u \in UnitNames
       PROVE  Moves(d, P, D, e, P, D, u, Units(u, c.bytes))
  <2>1. Open(P, u) \in Int /\ Got(D, u) \in Int /\ Units(u, c.bytes) \in Int
    BY <1>1, <1>2, Balanced, SMTT(30) DEF Units
  <2> QED BY <1>2, <1>9, <2>1 DEF Moves, Balance
<1> QED BY <1>10, <1>11 DEF c, e

LEMMA StepRecv ==
    ASSUME NEW p, NEW s \in Seq(Calls), NEW n \in 1..Len(s), NEW P, NEW D, NEW d, Kept(p, s, n, P, D, d),
           s[n].name = "Recv", NEW b \in Nat, NEW source \in Int,
           s[n].other # ANY_SOURCE => source = s[n].other
    PROVE  LET e == visit(d, p, mpi_update_db(s[n]))
               E == Append(D, Receipt(source, s[n].other # ANY_SOURCE, b, s[n].bytes))
           IN  /\ Kept(p, s, n + 1, P, E, e)
               /\ \A u \in UnitNames : Moves(d, P, D, e, P, E, u, -Units(u, b))
<1> DEFINE c == s[n]
           e == visit(d, p, mpi_update_db(s[n]))
           x == Receipt(source, c.other # ANY_SOURCE, b, c.bytes)
           E == Append(D, x)
<1>1. c \in Calls /\ n \in Nat \ {0} /\ Len(s) \in Nat /\ c.bytes \in Nat /\ c.other \in Int
  <2>1. c \in Calls /\ n \in Nat \ {0} /\ Len(s) \in Nat
    OBVIOUS
  <2> HIDE DEF c
  <2> QED BY <2>1 DEF Calls
<1>2. /\ Shape(d) /\ Pending(d, P) /\ Vector(d, D) /\ Active(s, n, P)
      /\ Collected(p, s, n, d) /\ P \in Seq(Requests) /\ D \in Seq(Receipts)
      /\ \A u \in UnitNames : Sent(d, u) \in Int
  BY KeptFacts
<1>3. e = updateReceivedMatrix(count_received(d, c.bytes), c.other, c.bytes)
  BY VisitPair DEF Pairwise
<1>4. c.name = "Recv" /\ (c.other # ANY_SOURCE => source = c.other)
  OBVIOUS
<1>5. x \in Receipts /\ Origin(x) = c.other /\ x.buffer = c.bytes /\ x.bytes = b
  <2> HIDE DEF c
  <2>1. x.source = source /\ x.known = (c.other # ANY_SOURCE) /\ x \in Receipts /\ x.buffer = c.bytes /\ x.bytes = b
    BY <1>1 DEF Receipt, Receipts
  <2> HIDE DEF x
  <2> QED BY <1>4, <2>1 DEF Origin
<1> HIDE DEF c, e, x
<1>6. /\ Shape(e) /\ e.sentBytes = d.sentBytes /\ e.totalSentMessages = d.totalSentMessages
      /\ e.receivedBytes = d.receivedBytes + c.bytes /\ e.totalReceivedMessages = d.totalReceivedMessages + 1
      /\ e.collective = d.collective /\ e.matrixReceived = Updated(d.matrixReceived, c.other, c.bytes)
      /\ e.async_send = d.async_send /\ e.async_recv = d.async_recv /\ e.async_other = d.async_other
      /\ e.aborted = d.aborted
  BY <1>2, <1>3, CountReceived
<1>7. Pending(e, P)
  BY <1>2, <1>6, PendingSame
<1>8. Vector(e, E)
  BY <1>2, <1>5, <1>6, VectorAdds
<1>9. Active(s, n + 1, P)
  BY <1>1, <1>2, <1>4, ActiveSame DEF Completing, c
<1>10. Collected(p, s, n + 1, e)
  <2>1. s[n].name \notin Collectives
    BY DEF Collectives, AllToAll, Rooted, Gathers, Reduces
  <2> QED BY <1>2, <1>6, <2>1, CollectedSame
<1>11. \A u \in UnitNames : Sent(e, u) = Sent(d, u) /\ Sent(e, u) \in Int
  BY <1>2, <1>6 DEF Sent, UnitNames
<1>12. Kept(p, s, n + 1, P, E, e)
  BY <1>1, <1>6, <1>7, <1>8, <1>9, <1>10, <1>11 DEF Kept
<1>13. ASSUME NEW u \in UnitNames
       PROVE  Moves(d, P, D, e, P, E, u, -Units(u, b))
  <2>1. Open(P, u) \in Int /\ Got(D, u) \in Int /\ Units(u, b) \in Int
    BY <1>2, Balanced, SMTT(60) DEF Units
  <2>2. Got(E, u) = Got(D, u) + Units(u, b)
    BY <1>2, <1>5, GotMore
  <2> QED BY <1>2, <1>11, <2>1, <2>2 DEF Moves, Balance
<1> QED BY <1>12, <1>13 DEF c, e, x

\* A call that starts a request of a kind, with the counters it moves.
LEMMA StepStart ==
    ASSUME NEW p, NEW s \in Seq(Calls), Lawful(s), NEW n \in 1..Len(s), NEW P, NEW D, NEW d, Kept(p, s, n, P, D, d),
           s[n].name \in Starting, NEW kind \in {"send", "recv", "other"}, NEW x \in Entries,
           x.req = s[n].req, kind # "other" => x.bytes = s[n].bytes,
           NEW e, Shape(e), e.aborted = d.aborted,
           e.async_send = IF kind = "send" THEN Append(d.async_send, x) ELSE d.async_send,
           e.async_recv = IF kind = "recv" THEN Append(d.async_recv, x) ELSE d.async_recv,
           e.async_other = IF kind = "other" THEN Append(d.async_other, x) ELSE d.async_other,
           e.sentBytes = d.sentBytes, e.totalSentMessages = d.totalSentMessages,
           e.matrixReceived = d.matrixReceived, e.receivedBytes = d.receivedBytes,
           e.totalReceivedMessages = d.totalReceivedMessages, Collected(p, s, n + 1, e)
    PROVE  LET Q == Append(P, Request(kind, s[n]))
           IN  /\ Kept(p, s, n + 1, Q, D, e)
               /\ \A u \in UnitNames :
                     Moves(d, P, D, e, Q, D, u, IF kind = "send" THEN Units(u, s[n].bytes) ELSE 0)
<1> DEFINE c == s[n]
           r == Request(kind, c)
           Q == Append(P, r)
<1>1. /\ c \in Calls /\ n \in Nat \ {0} /\ Len(s) \in Nat /\ c.bytes \in Nat
      /\ c.other \in Int /\ c.req \in Int /\ c.tag \in Int
  <2>1. c \in Calls /\ n \in Nat \ {0} /\ Len(s) \in Nat
    OBVIOUS
  <2> HIDE DEF c
  <2> QED BY <2>1 DEF Calls
<1>2. /\ Pending(d, P) /\ Vector(d, D) /\ Active(s, n, P) /\ d.aborted = FALSE
      /\ P \in Seq(Requests) /\ D \in Seq(Receipts)
      /\ \A u \in UnitNames : Sent(d, u) \in Int
  BY KeptFacts
<1>3. c.name \in Starting /\ x.req = c.req /\ (kind # "other" => x.bytes = c.bytes)
  OBVIOUS
<1>4. \A a \in 1..Len(P) : P[a].req # c.req
  BY <1>2, ActiveFree
<1> HIDE DEF c
<1>5. r \in Requests /\ r.kind = kind /\ r.req = c.req /\ r.buffer = c.bytes /\ r.done = (kind # "recv")
  BY <1>1 DEF Request, Requests
<1> HIDE DEF r
<1>6. Pending(e, Q)
  BY <1>2, <1>3, <1>4, <1>5, PendingStart
<1>7. Vector(e, D)
  BY <1>2, VectorSame
<1>8. Active(s, n + 1, Q)
  BY <1>1, <1>2, <1>3, <1>5, ActiveStart DEF c
<1>9. \A u \in UnitNames : Sent(e, u) = Sent(d, u) /\ Sent(e, u) \in Int
  BY <1>2 DEF Sent, UnitNames
<1>10. Kept(p, s, n + 1, Q, D, e)
  BY <1>1, <1>6, <1>7, <1>8, <1>9 DEF Kept
<1>11. ASSUME NEW u \in UnitNames
       PROVE  Moves(d, P, D, e, Q, D, u, IF kind = "send" THEN Units(u, c.bytes) ELSE 0)
  <2> DEFINE w == IF kind = "send" THEN Units(u, c.bytes) ELSE 0
  <2>1. Open(P, u) \in Int /\ Got(D, u) \in Int
    BY <1>2, Balanced
  <2>2. Open(Q, u) = Open(P, u) + Weight(r, u)
    BY <1>2, <1>5, OpenStart
  <2>3. Weight(r, u) = w
    BY <1>5 DEF Weight
  <2> HIDE DEF w
  <2>4. Weight(r, u) \in Int
    BY <1>5, WeightInt
  <2>5. Moves(d, P, D, e, Q, D, u, w)
    BY <1>2, <1>9, <2>1, <2>2, <2>3, <2>4 DEF Moves, Balance
  <2> QED BY <2>5 DEF w
<1> QED BY <1>10, <1>11 DEF c, r

LEMMA StepIsend ==
    ASSUME NEW p, NEW s \in Seq(Calls), Lawful(s), NEW n \in 1..Len(s), NEW P, NEW D, NEW d, Kept(p, s, n, P, D, d),
           NEW kind, (s[n].name = "Isend" /\ kind = "send") \/ (s[n].name = "Irecv" /\ kind = "recv")
    PROVE  LET e == visit(d, p, mpi_update_db(s[n]))
               Q == Append(P, Request(kind, s[n]))
           IN  /\ Kept(p, s, n + 1, Q, D, e)
               /\ \A u \in UnitNames :
                     Moves(d, P, D, e, Q, D, u, IF kind = "send" THEN Units(u, s[n].bytes) ELSE 0)
<1> DEFINE c == s[n]
           e == visit(d, p, mpi_update_db(s[n]))
           x == Pend(c, c.bytes, c.other)
<1>1. c \in Calls /\ c.bytes \in Nat /\ c.other \in Int /\ c.req \in Int
  <2>1. c \in Calls
    OBVIOUS
  <2> HIDE DEF c
  <2> QED BY <2>1 DEF Calls
<1>2. /\ Shape(d) /\ Collected(p, s, n, d)
  BY KeptFacts
<1>3. e = CASE c.name = "Send"  -> count_sent(d, c.bytes)
            [] c.name = "Recv"  -> updateReceivedMatrix(count_received(d, c.bytes), c.other, c.bytes)
            [] c.name = "Isend" -> [d EXCEPT !.async_send = Append(@, x)]
            [] c.name = "Irecv" -> [d EXCEPT !.async_recv = Append(@, x)]
  <2>1. s[n].name \in Pairwise
    BY DEF Pairwise
  <2> QED BY ONLY <2>1, VisitPair, Zenon
<1>4. (c.name = "Isend" /\ kind = "send") \/ (c.name = "Irecv" /\ kind = "recv")
  OBVIOUS
<1>5. x \in Entries /\ x.req = c.req /\ x.bytes = c.bytes
  BY <1>1 DEF Pend, Entries
<1>6. s[n].name \in Starting /\ s[n].name \notin Collectives
  BY DEF Starting, Collectives, AllToAll, Rooted, Gathers, Reduces
<1> HIDE DEF c, e, x
<1>7. /\ Shape(e) /\ e.aborted = d.aborted
      /\ e.async_send = IF kind = "send" THEN Append(d.async_send, x) ELSE d.async_send
      /\ e.async_recv = IF kind = "recv" THEN Append(d.async_recv, x) ELSE d.async_recv
      /\ e.async_other = IF kind = "other" THEN Append(d.async_other, x) ELSE d.async_other
      /\ e.sentBytes = d.sentBytes /\ e.totalSentMessages = d.totalSentMessages
      /\ e.matrixReceived = d.matrixReceived /\ e.receivedBytes = d.receivedBytes
      /\ e.totalReceivedMessages = d.totalReceivedMessages /\ e.collective = d.collective
  <2>1. CASE c.name = "Isend" /\ kind = "send"
    BY <1>2, <1>3, <2>1 DEF Shape, Fields
  <2>2. CASE c.name = "Irecv" /\ kind = "recv"
    BY <1>2, <1>3, <2>2 DEF Shape, Fields
  <2> QED BY <1>4, <2>1, <2>2
<1>8. Collected(p, s, n + 1, e)
  BY <1>2, <1>6, <1>7, CollectedSame
<1>9. x \in Entries /\ x.req = s[n].req /\ (kind # "other" => x.bytes = s[n].bytes) /\ kind \in {"send", "recv", "other"}
  BY <1>4, <1>5 DEF c
<1>10. LET Q == Append(P, Request(kind, s[n]))
       IN  /\ Kept(p, s, n + 1, Q, D, e)
           /\ \A u \in UnitNames :
                 Moves(d, P, D, e, Q, D, u, IF kind = "send" THEN Units(u, s[n].bytes) ELSE 0)
  BY <1>6, <1>7, <1>8, <1>9, StepStart
<1> QED BY <1>10 DEF e

LEMMA StepCollective ==
    ASSUME NEW p, NEW s \in Seq(Calls), Lawful(s), NEW n \in 1..Len(s), NEW P, NEW D, NEW d, Kept(p, s, n, P, D, d),
           s[n].name \in Collectives
    PROVE  LET e == visit(d, p, mpi_update_db(s[n]))
               Q == IF s[n].name \in NonBlocking THEN Append(P, Request("other", s[n])) ELSE P
           IN  /\ Kept(p, s, n + 1, Q, D, e)
               /\ \A u \in UnitNames : Moves(d, P, D, e, Q, D, u, 0)
<1> DEFINE c == s[n]
           e == visit(d, p, mpi_update_db(s[n]))
           x == Pend(c, 0, 0)
           v1 == Moved(d, p, c)
           y == Others(d, c)
<1>1. c \in Calls /\ n \in Nat \ {0} /\ Len(s) \in Nat /\ c.req \in Int
  <2>1. c \in Calls /\ n \in Nat \ {0} /\ Len(s) \in Nat
    OBVIOUS
  <2> HIDE DEF c
  <2> QED BY <2>1 DEF Calls
<1>2. /\ Shape(d) /\ Pending(d, P) /\ Vector(d, D) /\ Active(s, n, P)
      /\ Collected(p, s, n, d) /\ P \in Seq(Requests) /\ D \in Seq(Receipts)
      /\ \A u \in UnitNames : Sent(d, u) \in Int
  BY KeptFacts
<1>3. e = [d EXCEPT !.collective = v1, !.async_other = y]
  <2>1. s[n].name \in Collectives
    OBVIOUS
  <2> QED BY ONLY <2>1, VisitCollective, Zenon
<1>4. c.name \in Collectives
  OBVIOUS
<1>5. x \in Entries /\ x.req = c.req
  BY <1>1 DEF Pend, Entries
<1>6. \A v \in Volumes : v1[v] = d.collective[v] + Adds(p, s[n], v)
  BY DEF Moved
<1> HIDE DEF c, e, x, v1, y
<1>7. /\ Shape(e) /\ e.aborted = d.aborted /\ e.async_send = d.async_send /\ e.async_recv = d.async_recv
      /\ e.async_other = y /\ e.sentBytes = d.sentBytes /\ e.totalSentMessages = d.totalSentMessages
      /\ e.matrixReceived = d.matrixReceived /\ e.receivedBytes = d.receivedBytes
      /\ e.totalReceivedMessages = d.totalReceivedMessages /\ e.collective = v1
  BY <1>2, <1>3 DEF Shape, Fields
<1>8. Collected(p, s, n + 1, e)
  BY <1>2, <1>6, <1>7, CollectedOn
<1>9. CASE c.name \in NonBlocking
  <2> DEFINE kind == "other"
  <2>1. s[n].name \in Starting
    BY <1>9 DEF Starting, c
  <2>2. x \in Entries /\ x.req = s[n].req /\ (kind # "other" => x.bytes = s[n].bytes) /\ kind \in {"send", "recv", "other"}
    BY <1>5 DEF c
  <2>3. /\ e.async_send = IF kind = "send" THEN Append(d.async_send, x) ELSE d.async_send
        /\ e.async_recv = IF kind = "recv" THEN Append(d.async_recv, x) ELSE d.async_recv
        /\ e.async_other = IF kind = "other" THEN Append(d.async_other, x) ELSE d.async_other
    BY <1>7, <1>9 DEF y, Others, x
  <2> HIDE DEF kind
  <2>4. LET Q == Append(P, Request(kind, s[n]))
        IN  /\ Kept(p, s, n + 1, Q, D, e)
            /\ \A u \in UnitNames :
                  Moves(d, P, D, e, Q, D, u, IF kind = "send" THEN Units(u, s[n].bytes) ELSE 0)
    BY <2>1, <2>2, <2>3, <1>7, <1>8, StepStart, ZenonT(60)
  <2> QED BY <2>4, <1>9 DEF kind, c, e
<1>10. CASE c.name \notin NonBlocking
  <2>1. Pending(e, P) /\ Vector(e, D)
    BY <1>2, <1>7, <1>10, PendingSame, VectorSame DEF y, Others
  <2>2. s[n].name \notin Completing
    BY <1>4 DEF Completing, c, Collectives, AllToAll, Rooted, Gathers, Reduces
  <2>3. Active(s, n + 1, P)
    BY <1>1, <1>2, <2>2, ActiveSame
  <2>4. \A u \in UnitNames : Sent(e, u) = Sent(d, u) /\ Sent(e, u) \in Int
    BY <1>2, <1>7 DEF Sent, UnitNames
  <2>5. Kept(p, s, n + 1, P, D, e)
    BY <1>1, <1>7, <1>8, <2>1, <2>3, <2>4 DEF Kept
  <2>6. ASSUME NEW u \in UnitNames
        PROVE  Moves(d, P, D, e, P, D, u, 0)
    <3>1. Open(P, u) \in Int /\ Got(D, u) \in Int
      BY <1>2, Balanced
    <3> QED BY <1>2, <2>4, <3>1 DEF Moves, Balance
  <2> QED BY <2>5, <2>6, <1>10 DEF c, e
<1> QED BY <1>9, <1>10

LEMMA HandleSingle ==
    ASSUME NEW d, NEW r
    PROVE  handleRequests(d, <<r>>) = handleRequestCompletion(d, r)
<1> DEFINE rs == <<r>>
<1>1. Len(rs) \in Nat /\ Len(rs) = 1 /\ rs[1] = r
  OBVIOUS
<1> HIDE DEF rs
<1>2. \E f : /\ f[0] = d
             /\ \A k \in 1..Len(rs) : f[k] = handleRequestCompletion(f[k - 1], rs[k])
             /\ handleRequests(d, rs) = f[Len(rs)]
  <2>1. Len(rs) \in Nat
    BY <1>1
  <2> QED BY ONLY <2>1, HandleChain, ZenonT(60)
<1>3. PICK f : /\ f[0] = d
               /\ \A k \in 1..Len(rs) : f[k] = handleRequestCompletion(f[k - 1], rs[k])
               /\ handleRequests(d, rs) = f[Len(rs)]
  BY <1>2, Zenon
<1>4. 1 \in 1..Len(rs) /\ 1 - 1 = 0
  BY <1>1
<1>5. f[1] = handleRequestCompletion(f[0], rs[1])
  BY <1>3, <1>4
<1>6. handleRequests(d, rs) = handleRequestCompletion(d, r)
  BY <1>1, <1>3, <1>5
<1> QED BY <1>6 DEF rs

\* A call that completes requests, told about with the status MPI gave it.
LEMMA StepComplete ==
    ASSUME NEW p, NEW s \in Seq(Calls), Lawful(s), NEW n \in 1..Len(s), NEW P, NEW D, NEW d, Kept(p, s, n, P, D, d),
           s[n].name \in Completing, NEW reqs, reqs = ReqsOf(s[n]), AllDone(P, reqs), NEW h,
           h.name = s[n].name, h.done = TRUE, h.req = s[n].req, h.status = s[n].status, Asserted(h),
           h.source = SourceIn(P, s[n].req),
           h.reqs = [k \in 1..Len(reqs) |-> [req |-> reqs[k], source |-> SourceIn(P, reqs[k])]]
    PROVE  LET e == visit(d, p, mpi_update_db(h))
               f == FinishAll([posted |-> P, delivered |-> D], reqs, s[n].status)
           IN  /\ Kept(p, s, n + 1, f.posted, f.delivered, e)
               /\ \A u \in UnitNames : Moves(d, P, D, e, f.posted, f.delivered, u, 0)
<1> DEFINE c == s[n]
           e == visit(d, p, mpi_update_db(h))
           f == FinishAll([posted |-> P, delivered |-> D], reqs, s[n].status)
           rs == [k \in 1..Len(reqs) |-> [req |-> reqs[k], source |-> Told(P, reqs[k], c.status)]]
<1>1. c \in Calls /\ n \in Nat \ {0} /\ Len(s) \in Nat /\ c.req \in Int /\ c.reqs \in Seq(Int) /\ n \in DOMAIN s
      /\ c.status \in BOOLEAN
  <2>1. c \in Calls /\ n \in Nat \ {0} /\ Len(s) \in Nat /\ n \in DOMAIN s
    OBVIOUS
  <2> HIDE DEF c
  <2> QED BY <2>1 DEF Calls
<1>2. /\ Shape(d) /\ Pending(d, P) /\ Vector(d, D) /\ Active(s, n, P)
      /\ Collected(p, s, n, d) /\ P \in Seq(Requests) /\ D \in Seq(Receipts)
      /\ \A u \in UnitNames : Sent(d, u) \in Int
  BY KeptFacts
<1>3. c.name \in Completing /\ reqs = IF c.name \in {"Wait", "Test"} THEN <<c.req>> ELSE c.reqs
  BY DEF ReqsOf
<1>4. reqs \in Seq(Int) /\ \A i, j \in 1..Len(reqs) : reqs[i] = reqs[j] => i = j
  <2>1. CASE c.name \in {"Wait", "Test"}
    BY <1>1, <1>3, <2>1
  <2>2. CASE c.name \notin {"Wait", "Test"}
    <3>1. \A i, j \in DOMAIN s[n].reqs : s[n].reqs[i] = s[n].reqs[j] => i = j
      BY <1>1 DEF Lawful
    <3>2. reqs = c.reqs /\ DOMAIN c.reqs = 1..Len(c.reqs)
      BY <1>1, <1>3, <2>2
    <3> QED BY <1>1, <3>1, <3>2
  <2> QED BY <2>1, <2>2
<1>5. /\ h.name = c.name /\ h.done = TRUE /\ h.req = c.req /\ h.source = SourceIn(P, c.req)
      /\ h.status = c.status /\ h.reqs = [k \in 1..Len(reqs) |-> [req |-> reqs[k], source |-> SourceIn(P, reqs[k])]]
  OBVIOUS
<1>6. e = handleRequests(d, rs)
  <2>1. h.name \in Completing /\ h.done \in BOOLEAN
    BY <1>3, <1>5
  <2>2. e = IF h.name \in {"Test", "Testall"} /\ h.done = FALSE THEN d
            ELSE IF h.name \in {"Wait", "Test"} THEN handleRequestCompletion(d, [req |-> h.req, source |-> Reported(h)])
            ELSE handleRequests(d, h.reqs)
    BY ONLY <2>1, VisitCompletion, Zenon
  <2>0. Len(reqs) \in Nat
    BY <1>4
  <2> HIDE DEF c, e
  <2>3. CASE c.name \in {"Wait", "Test"}
    <3>1. e = handleRequestCompletion(d, [req |-> h.req, source |-> Reported(h)])
      BY <1>5, <2>2, <2>3
    <3>2. Len(reqs) = 1 /\ reqs[1] = c.req
      BY <1>3, <2>3
    <3>3. 1..1 = {1}
      OBVIOUS
    <3>4. Reported(h) = Told(P, c.req, c.status)
      BY <1>1, <1>5, <2>3 DEF Asserted, Reported, Told
    <3>5. rs = <<[req |-> h.req, source |-> Reported(h)]>>
      BY <1>5, <3>2, <3>3, <3>4
    <3>6. handleRequests(d, <<[req |-> h.req, source |-> Reported(h)]>>)
            = handleRequestCompletion(d, [req |-> h.req, source |-> Reported(h)])
      BY ONLY HandleSingle, Zenon
    <3> HIDE DEF rs
    <3> QED BY ONLY <3>1, <3>5, <3>6, Zenon
  <2>4. CASE c.name \notin {"Wait", "Test"}
    <3>1. c.name \in {"Waitall", "Testall"}
      BY <1>3, <2>4 DEF Completing
    <3>2. h.reqs # <<>> => c.status
      BY <1>5, <3>1 DEF Asserted
    <3>3. ASSUME NEW k \in 1..Len(reqs)
          PROVE  Told(P, reqs[k], c.status) = SourceIn(P, reqs[k])
      <4>1. h.reqs # <<>>
        <5>1. DOMAIN h.reqs = 1..Len(reqs) /\ DOMAIN <<>> = {}
          BY <1>5
        <5> QED BY <3>3, <5>1
      <4> QED BY <3>2, <4>1 DEF Told
    <3>4. h.reqs = rs
      BY <1>5, <3>3
    <3>5. e = handleRequests(d, h.reqs)
      BY <1>5, <2>2, <2>4
    <3> HIDE DEF rs
    <3> QED BY ONLY <3>4, <3>5, Zenon
  <2> QED BY <2>3, <2>4
<1>7. Len(rs) = Len(reqs) /\ \A k \in 1..Len(reqs) : rs[k] = [req |-> reqs[k], source |-> Told(P, reqs[k], s[n].status)]
  <2>1. Len(reqs) \in Nat
    BY <1>4
  <2> QED BY <2>1
<1>s. s[n].status \in BOOLEAN
  BY <1>1
<1>8. AllDone(P, reqs)
  OBVIOUS
<1> HIDE DEF rs
<1>9. LET e1 == handleRequests(d, rs)
          s1 == FinishAll([posted |-> P, delivered |-> D], reqs, s[n].status)
      IN  /\ Shape(e1) /\ Pending(e1, s1.posted) /\ Vector(e1, s1.delivered) /\ e1.collective = d.collective
          /\ \A a \in 1..Len(s1.posted) : \E b \in 1..Len(P) :
                s1.posted[a] = P[b] /\ \A j \in 1..Len(reqs) : P[b].req # reqs[j]
          /\ AllDone(P, reqs) => \A u \in UnitNames : Sent(d, u) \in Int =>
                /\ Balance(e1, s1.posted, s1.delivered, u) = Balance(d, P, D, u)
                /\ Sent(e1, u) \in Int
  BY ONLY <1>2, <1>4, <1>7, <1>s, FinishMany, ZenonT(60)
<1>10. /\ Shape(e) /\ Pending(e, f.posted) /\ Vector(e, f.delivered) /\ e.collective = d.collective
       /\ \A a \in 1..Len(f.posted) : \E b \in 1..Len(P) :
             f.posted[a] = P[b] /\ \A j \in 1..Len(reqs) : P[b].req # reqs[j]
       /\ \A u \in UnitNames : Sent(d, u) \in Int =>
             /\ Balance(e, f.posted, f.delivered, u) = Balance(d, P, D, u)
             /\ Sent(e, u) \in Int
  <2> HIDE DEF e
  <2> QED BY ONLY <1>6, <1>8, <1>9, Zenon
<1> HIDE DEF e, f, c
<1>11. Active(s, n + 1, f.posted)
  <2>1. ASSUME NEW a \in 1..Len(f.posted)
        PROVE  \E b \in 1..Len(P) : f.posted[a].req = P[b].req /\ ~Completes(s[n], P[b].req)
    <3>1. PICK b \in 1..Len(P) : f.posted[a] = P[b] /\ \A j \in 1..Len(reqs) : P[b].req # reqs[j]
      BY <1>10
    <3>2. DOMAIN reqs = 1..Len(reqs)
      BY <1>4
    <3>3. ~Completes(s[n], P[b].req)
      BY <3>1, <3>2 DEF Completes
    <3> QED BY <3>1, <3>3
  <2> QED BY <1>1, <1>2, <2>1, ActiveOn
<1>12. Collected(p, s, n + 1, e)
  <2>1. s[n].name \notin Collectives
    BY DEF Collectives, AllToAll, Rooted, Gathers, Reduces, Completing
  <2> QED BY <1>2, <1>10, <2>1, CollectedSame
<1>13. Kept(p, s, n + 1, f.posted, f.delivered, e)
  <2>1. \A u \in UnitNames : Sent(e, u) \in Int
    BY <1>2, <1>10
  <2> QED BY <1>1, <1>10, <1>11, <1>12, <2>1 DEF Kept
<1>14. ASSUME NEW u \in UnitNames
       PROVE  Moves(d, P, D, e, f.posted, f.delivered, u, 0)
  <2>1. Open(P, u) \in Int /\ Got(D, u) \in Int /\ Sent(d, u) \in Int
    BY <1>2, Balanced
  <2>2. Balance(d, P, D, u) \in Int
    BY <2>1 DEF Balance
  <2>3. Balance(e, f.posted, f.delivered, u) = Balance(d, P, D, u)
    BY <1>10, <2>1
  <2> QED BY <2>2, <2>3 DEF Moves
<1> QED BY <1>13, <1>14 DEF e, f

\* A test that fails changes nothing, whether the call is repeated or not.
LEMMA StepNotYet ==
    ASSUME NEW p, NEW s \in Seq(Calls), NEW n \in 1..Len(s), NEW P, NEW D, NEW d, Kept(p, s, n, P, D, d),
           s[n].name \in {"Test", "Testall"}, NEW h, h.name = s[n].name, h.done = FALSE
    PROVE  visit(d, p, mpi_update_db(h)) = d /\ (~s[n].done => Kept(p, s, n + 1, P, D, d))
<1>1. h.name \in Completing /\ h.done \in BOOLEAN
  BY DEF Completing
<1>2. visit(d, p, mpi_update_db(h)) =
         IF h.name \in {"Test", "Testall"} /\ h.done = FALSE THEN d
         ELSE IF h.name \in {"Wait", "Test"} THEN handleRequestCompletion(d, [req |-> h.req, source |-> Reported(h)])
         ELSE handleRequests(d, h.reqs)
  BY ONLY <1>1, VisitCompletion, Zenon
<1>3. visit(d, p, mpi_update_db(h)) = d
  BY <1>2
<1>4. /\ Shape(d) /\ Pending(d, P) /\ Vector(d, D) /\ Active(s, n, P) /\ Collected(p, s, n, d)
      /\ \A u \in UnitNames : Sent(d, u) \in Int
  BY KeptFacts
<1>5. ASSUME ~s[n].done
      PROVE  Kept(p, s, n + 1, P, D, d)
  <2>1. \A q : ~Completes(s[n], q)
    BY <1>5 DEF Completes
  <2>2. Active(s, n + 1, P)
    BY <1>4, <2>1, ActiveOn
  <2>3. s[n].name \notin Collectives
    BY DEF Collectives, AllToAll, Rooted, Gathers, Reduces
  <2>4. Collected(p, s, n + 1, d)
    BY <1>4, <2>3, CollectedSame
  <2>5. n + 1 \in 1..Len(s) + 1
    OBVIOUS
  <2> QED BY <1>4, <2>2, <2>4, <2>5 DEF Kept
<1> QED BY <1>3, <1>5

--------------------------------------------------------------------------------
(* The invariant.                                                             *)

LEMMA ProcsFinite == IsFiniteSet(Procs) /\ Cardinality(Procs) = N /\ 0 \in Procs /\ N \in Nat \ {0} /\ \A p \in Procs : p \in Int
<1>1. 0 \in Int /\ N - 1 \in Int /\ N \in Nat \ {0}
  BY NAssumption
<1>2. IsFiniteSet(0..N - 1) /\ Cardinality(0..N - 1) = IF 0 > N - 1 THEN 0 ELSE (N - 1) - 0 + 1
  BY ONLY <1>1, FS_Interval
<1>3. Cardinality(0..N - 1) = N
  BY <1>1, <1>2
<1> QED BY <1>1, <1>2, <1>3 DEF Procs

Messages == [from : Procs, to : Int, tag : Int, bytes : Nat]
KeptBy(p) == Kept(p, prog[p], pc[p], posted[p], delivered[p], data[p])
DataInv ==
    /\ prog \in Programs /\ pc \in [Procs -> Nat] /\ network \in Seq(Messages)
    /\ DOMAIN posted = Procs /\ DOMAIN delivered = Procs /\ DOMAIN data = Procs
    /\ \A p \in Procs : KeptBy(p)
Conforming == \A s \in Programs, p \in Procs : Lawful(s[p])

LEMMA DataInit ==
    ASSUME Init
    PROVE  DataInv
<1>2. ASSUME NEW p, NEW s, Len(s) \in Nat
      PROVE  Kept(p, s, 1, <<>>, <<>>, Fresh)
  <2>1. Shape(Fresh)
    BY DEF Shape, Fresh, Fields
  <2>2. Pending(Fresh, <<>>)
    <3>1. /\ Fresh.async_send = <<>> /\ Fresh.async_recv = <<>> /\ Fresh.async_other = <<>> /\ Fresh.aborted = FALSE
          /\ <<>> \in Seq(Entries) /\ <<>> \in Seq(Requests) /\ Len(<<>>) = 0 /\ DOMAIN <<>> = {}
      BY DEF Fresh
    <3>2. Once(<<>>) /\ \A kind : Mirrors(<<>>, <<>>, kind) /\ Sized(<<>>, <<>>, kind)
      BY <3>1 DEF Once, Mirrors, Sized
    <3> QED BY <3>1, <3>2 DEF Pending
  <2>3. Vector(Fresh, <<>>)
    <3>1. Fresh.matrixReceived = <<>> /\ Fresh.receivedBytes = 0 /\ Fresh.totalReceivedMessages = 0
      BY DEF Fresh
    <3>2. <<>> \in Seq(Receipts) /\ Len(<<>>) = 0 /\ DOMAIN <<>> = {}
      OBVIOUS
    <3>3. 1..Len(<<>>) = {}
      BY <3>2
    <3>4. SumFunctionOnSet(BufferOf(<<>>), 1..Len(<<>>)) = 0
      <4>1. SumFunctionOnSet(BufferOf(<<>>), {}) = 0
        BY SumEmpty
      <4> QED BY ONLY <3>3, <4>1, Zenon
    <3> QED BY <3>1, <3>2, <3>3, <3>4 DEF Vector
  <2>4. Active(s, 1, <<>>)
    BY DEF Active
  <2>5. \A u \in UnitNames : Sent(Fresh, u) \in Int
    BY DEF Sent, Fresh
  <2>6. Collected(p, s, 1, Fresh)
    <3> SUFFICES ASSUME NEW v \in Volumes
                 PROVE  Fresh.collective[v] = SumFunctionOnSet(AddedBy(p, s, 1 - 1, v), 1..1 - 1)
      BY DEF Collected
    <3>1. Fresh.collective[v] = 0
      BY DEF Fresh
    <3>2. 1..1 - 1 = {}
      OBVIOUS
    <3>3. SumFunctionOnSet(AddedBy(p, s, 1 - 1, v), {}) = 0
      BY SumEmpty
    <3> QED BY ONLY <3>1, <3>2, <3>3, Zenon
  <2> QED BY <1>2, <2>1, <2>2, <2>3, <2>4, <2>5, <2>6 DEF Kept
<1>3. prog \in Programs /\ \A p \in Procs : Len(prog[p]) \in Nat
  <2>1. prog \in [Procs -> Seq(Calls)]
    BY ProgramsAssumption DEF Init
  <2> QED BY <2>1 DEF Init
<1>4. \A p \in Procs : KeptBy(p)
  <2> TAKE p \in Procs
  <2>1. pc[p] = 1 /\ posted[p] = <<>> /\ delivered[p] = <<>> /\ data[p] = Fresh
    BY DEF Init
  <2>2. Kept(p, prog[p], 1, <<>>, <<>>, Fresh)
    BY <1>2, <1>3
  <2> QED BY ONLY <2>1, <2>2, Zenon DEF KeptBy
<1>5. pc \in [Procs -> Nat] /\ network \in Seq(Messages)
  BY DEF Init
<1>6. DOMAIN posted = Procs /\ DOMAIN delivered = Procs /\ DOMAIN data = Procs
  BY DEF Init
<1> QED BY <1>3, <1>4, <1>5, <1>6 DEF DataInv

\* A step of one process.
LEMMA DataStep ==
    ASSUME DataInv, NEW p \in Procs, prog' = prog, network' \in Seq(Messages), KeptBy(p)',
           pc' \in [Procs -> Nat], DOMAIN posted' = Procs, DOMAIN delivered' = Procs, DOMAIN data' = Procs,
           \A q \in Procs \ {p} : pc'[q] = pc[q] /\ posted'[q] = posted[q] /\ delivered'[q] = delivered[q]
                                  /\ data'[q] = data[q]
    PROVE  DataInv'
<1>1. ASSUME NEW q \in Procs
      PROVE  KeptBy(q)'
  <2>1. CASE q = p
    BY <2>1
  <2>2. CASE q # p
    <3>1. pc'[q] = pc[q] /\ posted'[q] = posted[q] /\ delivered'[q] = delivered[q] /\ data'[q] = data[q] /\ prog' = prog
      BY <2>2
    <3>2. Kept(q, prog[q], pc[q], posted[q], delivered[q], data[q])
      BY DEF DataInv, KeptBy
    <3> QED BY ONLY <3>1, <3>2, Zenon DEF KeptBy
  <2> QED BY <2>1, <2>2
<1> QED BY <1>1 DEF DataInv

\* The messages in flight, and a step that moves the balance of a process with them.
Flight(W, u) == SumFunctionOnSet([k \in 1..Len(W) |-> Units(u, W[k].bytes)], 1..Len(W))
Carries(p) ==
    /\ \A q \in Procs \ {p} : posted'[q] = posted[q] /\ delivered'[q] = delivered[q] /\ data'[q] = data[q]
    /\ \A u \in UnitNames : \E x \in Int :
          /\ Moves(data[p], posted[p], delivered[p], data'[p], posted'[p], delivered'[p], u, x)
          /\ Flight(network', u) = Flight(network, u) + x

LEMMA FlightMore ==
    ASSUME NEW u, NEW W \in Seq(Messages), NEW m \in Messages
    PROVE  Flight(Append(W, m), u) = Flight(W, u) + Units(u, m.bytes) /\ Flight(W, u) \in Int
<1> DEFINE n == Len(W)
           X == Append(W, m)
           w == [k \in 1..n |-> Units(u, W[k].bytes)]
           v == [k \in 1..n + 1 |-> Units(u, X[k].bytes)]
<1>1. n \in Nat /\ Len(X) = n + 1 /\ (\A k \in 1..n : X[k] = W[k] /\ W[k] \in Messages) /\ X[n + 1] = m
  BY Appended
<1> HIDE DEF n, X
<1>2. (\A k \in 1..n : w[k] \in Int /\ v[k] = w[k]) /\ v[n + 1] = Units(u, m.bytes) /\ v[n + 1] \in Int
  BY <1>1 DEF Units, Messages
<1>3. Flight(W, u) = SumFunctionOnSet(w, 1..n) /\ Flight(X, u) = SumFunctionOnSet(v, 1..n + 1)
  BY <1>1 DEF Flight, n
<1> HIDE DEF w, v
<1>4. SumFunctionOnSet(v, 1..n + 1) = SumFunctionOnSet(w, 1..n) + v[n + 1] /\ SumFunctionOnSet(w, 1..n) \in Int
  BY <1>1, <1>2, SumAppend
<1> QED BY <1>2, <1>3, <1>4 DEF X

LEMMA FlightLess ==
    ASSUME NEW u, NEW W \in Seq(Messages), NEW i \in 1..Len(W)
    PROVE  Flight(RemoveAt(W, i), u) = Flight(W, u) - Units(u, W[i].bytes) /\ Flight(W, u) \in Int
<1> DEFINE n == Len(W)
           X == RemoveAt(W, i)
           w == [k \in 1..n |-> Units(u, W[k].bytes)]
           v == [k \in 1..n - 1 |-> Units(u, X[k].bytes)]
<1>1. /\ n \in Nat /\ i \in 1..n /\ Len(X) = n - 1 /\ \A k \in 1..n : W[k] \in Messages
      /\ \A k \in 1..n - 1 : X[k] = W[Before(i, k)] /\ Before(i, k) \in 1..n
  BY Removal
<1> HIDE DEF n, X
<1>2. \A k \in 1..n : w[k] \in Int /\ w[k] = Units(u, W[k].bytes)
  BY <1>1 DEF Units, Messages
<1>3. \A k \in 1..n - 1 : v[k] = w[Before(i, k)]
  BY <1>1
<1>4. Flight(W, u) = SumFunctionOnSet(w, 1..n) /\ Flight(X, u) = SumFunctionOnSet(v, 1..n - 1)
  BY <1>1 DEF Flight, n
<1>6. n \in Nat /\ i \in 1..n
  BY <1>1
<1> HIDE DEF w, v
<1>7. \A k \in 1..n : w[k] \in Int
  BY <1>2
<1>5. SumFunctionOnSet(v, 1..n - 1) = SumFunctionOnSet(w, 1..n) - w[i] /\ SumFunctionOnSet(w, 1..n) \in Int
  BY ONLY <1>3, <1>6, <1>7, SumTakeOut
<1> QED BY <1>2, <1>4, <1>5, <1>6 DEF X

LEMMA FlightInt ==
    ASSUME NEW u, NEW W \in Seq(Messages)
    PROVE  Flight(W, u) \in Int
<1>1. Len(W) \in Nat /\ \A k \in 1..Len(W) : W[k] \in Messages
  OBVIOUS
<1> DEFINE w == [k \in 1..Len(W) |-> Units(u, W[k].bytes)]
<1>2. \A k \in 1..Len(W) : w[k] \in Int
  BY <1>1 DEF Units, Messages
<1>3. IsFiniteSet(1..Len(W))
  BY <1>1, FS_Interval
<1>4. Flight(W, u) = SumFunctionOnSet(w, 1..Len(W))
  BY DEF Flight
<1> HIDE DEF w
<1>5. SumFunctionOnSet(w, 1..Len(W)) \in Int
  BY ONLY <1>2, <1>3, SumInt
<1> QED BY <1>4, <1>5

LEMMA CurrentFacts ==
    ASSUME Conforming, DataInv, NEW p \in Procs, pc[p] <= Len(prog[p])
    PROVE  /\ prog[p] \in Seq(Calls) /\ Lawful(prog[p]) /\ pc[p] \in 1..Len(prog[p])
           /\ pc[p] + 1 \in Nat /\ Current(p) \in Calls /\ Current(p) = prog[p][pc[p]]
           /\ Kept(p, prog[p], pc[p], posted[p], delivered[p], data[p])
<1>1. prog \in [Procs -> Seq(Calls)] /\ prog \in Programs
  BY ProgramsAssumption DEF DataInv
<1>2. Kept(p, prog[p], pc[p], posted[p], delivered[p], data[p])
  BY DEF DataInv, KeptBy
<1>3. pc[p] \in 1..Len(prog[p]) + 1
  BY <1>2 DEF Kept
<1>4. pc[p] \in 1..Len(prog[p]) /\ pc[p] + 1 \in Nat
  BY <1>1, <1>3
<1> QED BY <1>1, <1>2, <1>4 DEF Conforming, Current

LEMMA ActSend ==
    ASSUME Conforming, DataInv, NEW p \in Procs, Send(p)
    PROVE  DataInv' /\ Carries(p)
<1> DEFINE c == Current(p)
           n == pc[p]
           s == prog[p]
           e == visit(data[p], p, mpi_update_db(c))
           Q == IF c.name = "Send" THEN posted[p] ELSE Append(posted[p], Request("send", c))
<1>1. n <= Len(s) /\ c.name \in {"Send", "Isend"}
  BY DEF Send, Calling, Current
<1>2. /\ s \in Seq(Calls) /\ Lawful(s) /\ n \in 1..Len(s) /\ n + 1 \in Nat /\ c \in Calls /\ c = s[n]
      /\ Kept(p, s, n, posted[p], delivered[p], data[p])
  BY <1>1, CurrentFacts
<1>3. /\ network' = Append(network, Message(p, c)) /\ prog' = prog /\ delivered' = delivered
      /\ pc' = [pc EXCEPT ![p] = n + 1] /\ data' = [data EXCEPT ![p] = e]
      /\ posted' = IF c.name = "Send" THEN posted ELSE [posted EXCEPT ![p] = Append(@, Request("send", c))]
  BY DEF Send, notify, notified
<1>4. /\ pc \in [Procs -> Nat] /\ DOMAIN posted = Procs /\ DOMAIN delivered = Procs /\ DOMAIN data = Procs
      /\ network \in Seq(Messages)
  BY DEF DataInv
<1>5. e = visit(data[p], p, mpi_update_db(s[n]))
  BY <1>2
<1> HIDE DEF c, s, e
<1>6. /\ posted'[p] = Q /\ data'[p] = e /\ pc'[p] = n + 1 /\ delivered'[p] = delivered[p]
      /\ pc' \in [Procs -> Nat] /\ DOMAIN posted' = Procs /\ DOMAIN delivered' = Procs /\ DOMAIN data' = Procs
      /\ \A q \in Procs \ {p} : pc'[q] = pc[q] /\ posted'[q] = posted[q] /\ delivered'[q] = delivered[q]
                                /\ data'[q] = data[q]
  BY <1>2, <1>3, <1>4
<1>7. /\ Kept(p, s, n + 1, Q, delivered[p], e)
      /\ \A u \in UnitNames :
            Moves(data[p], posted[p], delivered[p], e, Q, delivered[p], u, Units(u, c.bytes))
  <2>1. CASE c.name = "Send"
    <3>1. s[n].name = "Send"
      BY <1>2, <2>1
    <3>2. /\ Kept(p, s, n + 1, posted[p], delivered[p], e)
          /\ \A u \in UnitNames :
                Moves(data[p], posted[p], delivered[p], e, posted[p], delivered[p], u, Units(u, s[n].bytes))
      BY <1>2, <1>5, <3>1, StepSend
    <3> QED BY <1>2, <2>1, <3>2
  <2>2. CASE c.name = "Isend"
    <3> DEFINE kind == "send"
    <3>1. (s[n].name = "Isend" /\ kind = "send") \/ (s[n].name = "Irecv" /\ kind = "recv")
      BY <1>2, <2>2
    <3>3. Q = Append(posted[p], Request(kind, s[n]))
      BY <1>2, <2>2
    <3> HIDE DEF kind, Q
    <3>2. LET R == Append(posted[p], Request(kind, s[n]))
          IN  /\ Kept(p, s, n + 1, R, delivered[p], e)
              /\ \A u \in UnitNames :
                    Moves(data[p], posted[p], delivered[p], e, R, delivered[p], u,
                          IF kind = "send" THEN Units(u, s[n].bytes) ELSE 0)
      BY <1>2, <1>5, <3>1, StepIsend
    <3> QED BY <1>2, <3>2, <3>3 DEF kind
  <2> QED BY <1>1, <2>1, <2>2
<1>8. Message(p, c) \in Messages /\ Message(p, c).bytes = c.bytes /\ c.bytes \in Nat
  BY <1>2 DEF Message, Messages, Calls
<1>9. network' \in Seq(Messages)
  BY <1>3, <1>4, <1>8
<1> HIDE DEF Q, n
<1>10. KeptBy(p)'
  BY ONLY <1>3, <1>6, <1>7, Zenon DEF KeptBy, s, n
<1>11. DataInv'
  BY <1>3, <1>6, <1>9, <1>10, DataStep
<1>12. Carries(p)
  <2>1. ASSUME NEW u \in UnitNames
        PROVE  /\ Units(u, c.bytes) \in Int
               /\ Moves(data[p], posted[p], delivered[p], data'[p], posted'[p], delivered'[p], u, Units(u, c.bytes))
               /\ Flight(network', u) = Flight(network, u) + Units(u, c.bytes)
    <3>1. Units(u, c.bytes) \in Int
      BY <1>8 DEF Units
    <3>2. Moves(data[p], posted[p], delivered[p], data'[p], posted'[p], delivered'[p], u, Units(u, c.bytes))
      BY <1>6, <1>7
    <3>3. Flight(Append(network, Message(p, c)), u) = Flight(network, u) + Units(u, c.bytes)
      BY <1>4, <1>8, FlightMore
    <3> QED BY <3>1, <3>2, <3>3, <1>3
  <2> QED BY <1>6, <2>1 DEF Carries
<1> QED BY <1>11, <1>12

LEMMA ActIrecv ==
    ASSUME Conforming, DataInv, NEW p \in Procs, Irecv(p)
    PROVE  DataInv' /\ Carries(p)
<1> DEFINE c == Current(p)
           n == pc[p]
           s == prog[p]
           e == visit(data[p], p, mpi_update_db(c))
           Q == Append(posted[p], Request("recv", c))
<1>1. n <= Len(s) /\ c.name = "Irecv"
  BY DEF Irecv, Calling, Current
<1>2. /\ s \in Seq(Calls) /\ Lawful(s) /\ n \in 1..Len(s) /\ n + 1 \in Nat /\ c \in Calls /\ c = s[n]
      /\ Kept(p, s, n, posted[p], delivered[p], data[p])
  BY <1>1, CurrentFacts
<1>3. /\ network' = network /\ prog' = prog /\ delivered' = delivered
      /\ pc' = [pc EXCEPT ![p] = n + 1] /\ data' = [data EXCEPT ![p] = e]
      /\ posted' = [posted EXCEPT ![p] = Q]
  BY DEF Irecv, notify, notified
<1>4. /\ pc \in [Procs -> Nat] /\ DOMAIN posted = Procs /\ DOMAIN delivered = Procs /\ DOMAIN data = Procs
      /\ network \in Seq(Messages)
  BY DEF DataInv
<1>5. e = visit(data[p], p, mpi_update_db(s[n]))
  BY <1>2
<1> HIDE DEF c, s, e
<1>6. /\ posted'[p] = Q /\ data'[p] = e /\ pc'[p] = n + 1 /\ delivered'[p] = delivered[p]
      /\ pc' \in [Procs -> Nat] /\ DOMAIN posted' = Procs /\ DOMAIN delivered' = Procs /\ DOMAIN data' = Procs
      /\ \A q \in Procs \ {p} : pc'[q] = pc[q] /\ posted'[q] = posted[q] /\ delivered'[q] = delivered[q]
                                /\ data'[q] = data[q]
  BY <1>2, <1>3, <1>4
<1>7. /\ Kept(p, s, n + 1, Q, delivered[p], e)
      /\ \A u \in UnitNames : Moves(data[p], posted[p], delivered[p], e, Q, delivered[p], u, 0)
  <2> DEFINE kind == "recv"
  <2>1. (s[n].name = "Isend" /\ kind = "send") \/ (s[n].name = "Irecv" /\ kind = "recv")
    BY <1>1, <1>2
  <2>2. Q = Append(posted[p], Request(kind, s[n]))
    BY <1>2
  <2> HIDE DEF kind, Q
  <2>3. LET R == Append(posted[p], Request(kind, s[n]))
        IN  /\ Kept(p, s, n + 1, R, delivered[p], e)
            /\ \A u \in UnitNames :
                  Moves(data[p], posted[p], delivered[p], e, R, delivered[p], u,
                        IF kind = "send" THEN Units(u, s[n].bytes) ELSE 0)
    BY <1>2, <1>5, <2>1, StepIsend
  <2> QED BY <2>2, <2>3 DEF kind
<1> HIDE DEF Q, n
<1>8. KeptBy(p)'
  BY ONLY <1>3, <1>6, <1>7, Zenon DEF KeptBy, s, n
<1>9. DataInv'
  BY <1>3, <1>4, <1>6, <1>8, DataStep
<1>10. Carries(p)
  <2>1. ASSUME NEW u \in UnitNames
        PROVE  /\ Moves(data[p], posted[p], delivered[p], data'[p], posted'[p], delivered'[p], u, 0)
               /\ Flight(network', u) = Flight(network, u) + 0
    <3>1. Moves(data[p], posted[p], delivered[p], data'[p], posted'[p], delivered'[p], u, 0)
      BY <1>6, <1>7
    <3>2. Flight(network, u) \in Int
      BY <1>4, FlightInt
    <3> QED BY <3>1, <3>2, <1>3
  <2> QED BY <1>6, <2>1 DEF Carries
<1> QED BY <1>9, <1>10

LEMMA ActCollective ==
    ASSUME Conforming, DataInv, NEW p \in Procs, Collective(p)
    PROVE  DataInv' /\ Carries(p)
<1> DEFINE c == Current(p)
           n == pc[p]
           s == prog[p]
           e == visit(data[p], p, mpi_update_db(c))
           Q == IF c.name \in NonBlocking THEN Append(posted[p], Request("other", c)) ELSE posted[p]
<1>1. n <= Len(s) /\ HookClass(c.name) \in {"ROOTED", "GATHER", "PAIRS", "ALLREDUCE"}
  BY DEF Collective
<1>2. /\ s \in Seq(Calls) /\ Lawful(s) /\ n \in 1..Len(s) /\ n + 1 \in Nat /\ c \in Calls /\ c = s[n]
      /\ Kept(p, s, n, posted[p], delivered[p], data[p])
  BY <1>1, CurrentFacts
<1>3. /\ network' = network /\ prog' = prog /\ delivered' = delivered
      /\ pc' = [pc EXCEPT ![p] = n + 1] /\ data' = [data EXCEPT ![p] = e]
      /\ posted' = IF c.name \notin NonBlocking THEN posted
                   ELSE [posted EXCEPT ![p] = Append(@, Request("other", c))]
  BY DEF Collective, notify, notified
<1>4. /\ pc \in [Procs -> Nat] /\ DOMAIN posted = Procs /\ DOMAIN delivered = Procs /\ DOMAIN data = Procs
      /\ network \in Seq(Messages)
  BY DEF DataInv
<1>5. e = visit(data[p], p, mpi_update_db(s[n]))
  BY <1>2
<1> HIDE DEF c, s, e
<1>6. /\ posted'[p] = Q /\ data'[p] = e /\ pc'[p] = n + 1 /\ delivered'[p] = delivered[p]
      /\ pc' \in [Procs -> Nat] /\ DOMAIN posted' = Procs /\ DOMAIN delivered' = Procs /\ DOMAIN data' = Procs
      /\ \A q \in Procs \ {p} : pc'[q] = pc[q] /\ posted'[q] = posted[q] /\ delivered'[q] = delivered[q]
                                /\ data'[q] = data[q]
  BY <1>2, <1>3, <1>4
<1>7. /\ Kept(p, s, n + 1, Q, delivered[p], e)
      /\ \A u \in UnitNames : Moves(data[p], posted[p], delivered[p], e, Q, delivered[p], u, 0)
  <2>1. c.name \in Routines
    BY <1>2 DEF Calls
  <2>2. s[n].name \in Collectives
    <3>1. c.name \in Collectives
      BY <1>1, <2>1 DEF Routines, HookClass, point_to_point_class, collective_class, Collectives, AllToAll, Rooted,
                        Gathers, Reduces
    <3> QED BY <1>2, <3>1
  <2>3. Q = IF s[n].name \in NonBlocking THEN Append(posted[p], Request("other", s[n])) ELSE posted[p]
    BY <1>2
  <2> HIDE DEF Q
  <2>4. LET R == IF s[n].name \in NonBlocking THEN Append(posted[p], Request("other", s[n])) ELSE posted[p]
        IN  /\ Kept(p, s, n + 1, R, delivered[p], e)
            /\ \A u \in UnitNames : Moves(data[p], posted[p], delivered[p], e, R, delivered[p], u, 0)
    BY <1>2, <1>5, <2>2, StepCollective
  <2> QED BY ONLY <2>3, <2>4, Zenon
<1> HIDE DEF Q, n
<1>8. KeptBy(p)'
  BY ONLY <1>3, <1>6, <1>7, Zenon DEF KeptBy, s, n
<1>9. DataInv'
  BY <1>3, <1>4, <1>6, <1>8, DataStep
<1>10. Carries(p)
  <2>1. ASSUME NEW u \in UnitNames
        PROVE  /\ Moves(data[p], posted[p], delivered[p], data'[p], posted'[p], delivered'[p], u, 0)
               /\ Flight(network', u) = Flight(network, u) + 0
    <3>1. Moves(data[p], posted[p], delivered[p], data'[p], posted'[p], delivered'[p], u, 0)
      BY <1>6, <1>7
    <3>2. Flight(network, u) \in Int
      BY <1>4, FlightInt
    <3> QED BY <3>1, <3>2, <1>3
  <2> QED BY <1>6, <2>1 DEF Carries
<1> QED BY <1>9, <1>10

LEMMA ActRecv ==
    ASSUME Conforming, DataInv, NEW p \in Procs, Recv(p)
    PROVE  DataInv' /\ Carries(p)
<1> DEFINE c == Current(p)
           n == pc[p]
           s == prog[p]
           e == visit(data[p], p, mpi_update_db(c))
<1>1. n <= Len(s) /\ c.name = "Recv"
  BY DEF Recv, Calling, Current
<1>2. /\ s \in Seq(Calls) /\ n \in 1..Len(s) /\ n + 1 \in Nat /\ c \in Calls /\ c = s[n]
      /\ Kept(p, s, n, posted[p], delivered[p], data[p])
  BY <1>1, CurrentFacts
<1>3. PICK k \in DOMAIN network :
         /\ Accepts([Request("recv", c) EXCEPT !.done = FALSE], network[k])
         /\ delivered' = [delivered EXCEPT ![p] = Append(@, Receipt(network[k].from, c.other # ANY_SOURCE, network[k].bytes, c.bytes))]
         /\ network' = RemoveAt(network, k)
  BY DEF Recv
<1>4. /\ prog' = prog /\ posted' = posted /\ pc' = [pc EXCEPT ![p] = n + 1] /\ data' = [data EXCEPT ![p] = e]
  BY DEF Recv, notify, notified
<1>5. /\ pc \in [Procs -> Nat] /\ DOMAIN posted = Procs /\ DOMAIN delivered = Procs /\ DOMAIN data = Procs
      /\ network \in Seq(Messages)
  BY DEF DataInv
<1>6. e = visit(data[p], p, mpi_update_db(s[n])) /\ s[n].name = "Recv"
  BY <1>1, <1>2
<1>7. k \in 1..Len(network) /\ network[k] \in Messages
  BY <1>5
<1>8. network[k].bytes \in Nat /\ network[k].from \in Int
  BY <1>7, ProcsFinite DEF Messages
<1> DEFINE b == network[k].bytes
           from == network[k].from
           E == Append(delivered[p], Receipt(from, c.other # ANY_SOURCE, b, c.bytes))
<1> HIDE DEF c, s, e
<1>9. c.other # ANY_SOURCE => from = c.other
  <2>1. [Request("recv", c) EXCEPT !.done = FALSE].other = c.other
    BY DEF Request
  <2> QED BY <1>3, <2>1 DEF Accepts
<1>10. delivered' = [delivered EXCEPT ![p] = E]
  BY <1>3
<1> HIDE DEF E, b, from
<1>11. /\ posted'[p] = posted[p] /\ data'[p] = e /\ pc'[p] = n + 1 /\ delivered'[p] = E
       /\ pc' \in [Procs -> Nat] /\ DOMAIN posted' = Procs /\ DOMAIN delivered' = Procs /\ DOMAIN data' = Procs
       /\ \A q \in Procs \ {p} : pc'[q] = pc[q] /\ posted'[q] = posted[q] /\ delivered'[q] = delivered[q]
                                 /\ data'[q] = data[q]
  BY <1>2, <1>4, <1>5, <1>10
<1>12. /\ Kept(p, s, n + 1, posted[p], E, e)
       /\ \A u \in UnitNames : Moves(data[p], posted[p], delivered[p], e, posted[p], E, u, -Units(u, b))
  <2>1. /\ E = Append(delivered[p], Receipt(from, s[n].other # ANY_SOURCE, b, s[n].bytes)) /\ b \in Nat
        /\ from \in Int /\ (s[n].other # ANY_SOURCE => from = s[n].other)
    BY <1>2, <1>8, <1>9 DEF E, b, from
  <2>2. LET F == Append(delivered[p], Receipt(from, s[n].other # ANY_SOURCE, b, s[n].bytes))
        IN  /\ Kept(p, s, n + 1, posted[p], F, e)
            /\ \A u \in UnitNames : Moves(data[p], posted[p], delivered[p], e, posted[p], F, u, -Units(u, b))
    BY <1>2, <1>6, <2>1, StepRecv
  <2> QED BY ONLY <2>1, <2>2, Zenon
<1>13. network' \in Seq(Messages)
  BY <1>3, <1>5, <1>7, Removal
<1> HIDE DEF n
<1>14. KeptBy(p)'
  BY ONLY <1>4, <1>11, <1>12, Zenon DEF KeptBy, s, n
<1>15. DataInv'
  BY <1>4, <1>11, <1>13, <1>14, DataStep
<1>16. Carries(p)
  <2>1. ASSUME NEW u \in UnitNames
        PROVE  /\ -Units(u, b) \in Int
               /\ Moves(data[p], posted[p], delivered[p], data'[p], posted'[p], delivered'[p], u, -Units(u, b))
               /\ Flight(network', u) = Flight(network, u) + -Units(u, b)
    <3>1. Units(u, b) \in Int /\ -Units(u, b) \in Int
      BY <1>8 DEF Units, b
    <3>2. Moves(data[p], posted[p], delivered[p], data'[p], posted'[p], delivered'[p], u, -Units(u, b))
      BY ONLY <1>11, <1>12, Zenon
    <3>3. Flight(RemoveAt(network, k), u) = Flight(network, u) - Units(u, network[k].bytes) /\ Flight(network, u) \in Int
      BY <1>5, <1>7, FlightLess
    <3> QED BY <3>1, <3>2, <3>3, <1>3 DEF b
  <2> QED BY <1>11, <2>1 DEF Carries
<1> QED BY <1>15, <1>16

LEMMA ActComplete ==
    ASSUME Conforming, DataInv, NEW p \in Procs, Complete(p)
    PROVE  DataInv' /\ Carries(p)
<1> DEFINE c == Current(p)
           n == pc[p]
           s == prog[p]
           P == posted[p]
           D == delivered[p]
           reqs == ReqsOf(c)
           h == Returned(p)
           e == visit(data[p], p, mpi_update_db(h))
           f == FinishAll([posted |-> P, delivered |-> D], reqs, c.status)
<1>1. n <= Len(s) /\ c.name \in Completing
  BY DEF Complete, Calling, Current, Completing
<1>2. /\ s \in Seq(Calls) /\ Lawful(s) /\ n \in 1..Len(s) /\ n + 1 \in Nat /\ c \in Calls /\ c = s[n]
      /\ Kept(p, s, n, P, D, data[p])
  BY <1>1, CurrentFacts
<1>3. /\ network' = network /\ prog' = prog /\ pc' = [pc EXCEPT ![p] = n + 1] /\ data' = [data EXCEPT ![p] = e]
      /\ posted' = [posted EXCEPT ![p] = f.posted] /\ delivered' = [delivered EXCEPT ![p] = f.delivered]
      /\ (\A k \in DOMAIN reqs : IsDone(p, reqs[k])) /\ Asserted(h)
  BY DEF Complete, Finished, notify, notified
<1>h. h = [c EXCEPT !.done = TRUE, !.source = SourceOf(p, c.req),
                    !.reqs = [k \in DOMAIN reqs |-> [req |-> reqs[k], source |-> SourceOf(p, reqs[k])]]]
  BY DEF Returned
<1>4. /\ pc \in [Procs -> Nat] /\ DOMAIN posted = Procs /\ DOMAIN delivered = Procs /\ DOMAIN data = Procs
      /\ network \in Seq(Messages)
  BY DEF DataInv
<1>5. \A q : SourceOf(p, q) = SourceIn(P, q)
  BY DEF SourceOf, SourceIn
<1>6. c.req \in Int /\ c.reqs \in Seq(Int) /\ DOMAIN c = {"name", "other", "tag", "other2", "tag2", "root", "bytes",
         "recvbytes", "req", "status", "source", "done", "reqs", "comm_size"}
  <2>1. c \in Calls
    BY <1>2
  <2> HIDE DEF c
  <2> QED BY <2>1 DEF Calls
<1> HIDE DEF c
<1>7. DOMAIN reqs = 1..Len(reqs)
  <2>1. reqs = <<c.req>> \/ reqs = c.reqs
    BY DEF ReqsOf
  <2>2. <<c.req>> \in Seq(Int) /\ c.reqs \in Seq(Int)
    BY <1>6
  <2> HIDE DEF reqs
  <2>3. reqs \in Seq(Int)
    BY ONLY <2>1, <2>2, Zenon
  <2> QED BY <2>3
<1>8. AllDone(P, reqs)
  BY <1>3, <1>7 DEF AllDone, IsDone
<1> HIDE DEF reqs, h
<1>9. /\ h.name = c.name /\ h.done = TRUE /\ h.req = c.req /\ h.status = c.status /\ h.source = SourceIn(P, c.req)
      /\ h.reqs = [k \in 1..Len(reqs) |-> [req |-> reqs[k], source |-> SourceIn(P, reqs[k])]]
  BY <1>5, <1>6, <1>7, <1>h
<1> HIDE DEF f, e
<1>10. LET g == FinishAll([posted |-> P, delivered |-> D], reqs, s[n].status)
           d == visit(data[p], p, mpi_update_db(h))
       IN  /\ Kept(p, s, n + 1, g.posted, g.delivered, d)
           /\ \A u \in UnitNames : Moves(data[p], P, D, d, g.posted, g.delivered, u, 0)
  <2>1. /\ s[n].name \in Completing /\ reqs = ReqsOf(s[n]) /\ h.name = s[n].name /\ h.req = s[n].req
        /\ h.status = s[n].status /\ Asserted(h) /\ h.source = SourceIn(P, s[n].req)
    BY <1>1, <1>2, <1>3, <1>9 DEF reqs
  <2> HIDE DEF s, n, P, D
  <2> QED BY <1>2, <1>8, <1>9, <2>1, StepComplete, ZenonT(60)
<1>11. /\ Kept(p, s, n + 1, f.posted, f.delivered, e)
       /\ \A u \in UnitNames : Moves(data[p], P, D, e, f.posted, f.delivered, u, 0)
  BY <1>2, <1>10 DEF e, f
<1>12. /\ posted'[p] = f.posted /\ data'[p] = e /\ pc'[p] = n + 1 /\ delivered'[p] = f.delivered
       /\ pc' \in [Procs -> Nat] /\ DOMAIN posted' = Procs /\ DOMAIN delivered' = Procs /\ DOMAIN data' = Procs
       /\ \A q \in Procs \ {p} : pc'[q] = pc[q] /\ posted'[q] = posted[q] /\ delivered'[q] = delivered[q]
                                 /\ data'[q] = data[q]
  BY <1>2, <1>3, <1>4
<1> HIDE DEF n, s, P, D
<1>13. KeptBy(p)'
  BY ONLY <1>3, <1>11, <1>12, Zenon DEF KeptBy, s, n
<1>14. DataInv'
  BY <1>3, <1>4, <1>12, <1>13, DataStep
<1>15. Carries(p)
  <2>1. ASSUME NEW u \in UnitNames
        PROVE  /\ Moves(data[p], posted[p], delivered[p], data'[p], posted'[p], delivered'[p], u, 0)
               /\ Flight(network', u) = Flight(network, u) + 0
    <3>1. Moves(data[p], posted[p], delivered[p], data'[p], posted'[p], delivered'[p], u, 0)
      BY ONLY <1>11, <1>12, Zenon DEF P, D
    <3>2. Flight(network, u) \in Int
      BY <1>4, FlightInt
    <3> QED BY <3>1, <3>2, <1>3
  <2> QED BY <1>12, <2>1 DEF Carries
<1> QED BY <1>14, <1>15

LEMMA ActNotYet ==
    ASSUME Conforming, DataInv, NEW p \in Procs, NotYet(p)
    PROVE  DataInv' /\ Carries(p)
<1> DEFINE c == Current(p)
           n == pc[p]
           s == prog[p]
           reqs == ReqsOf(c)
           h == Returned_not(p)
           e == visit(data[p], p, mpi_update_db(h))
<1>1. n <= Len(s) /\ c.name \in {"Test", "Testall"}
  BY DEF NotYet, Calling, Current
<1>2. /\ s \in Seq(Calls) /\ n \in 1..Len(s) /\ n + 1 \in Nat /\ c \in Calls /\ c = s[n]
      /\ Kept(p, s, n, posted[p], delivered[p], data[p])
  BY <1>1, CurrentFacts
<1>3. /\ network' = network /\ prog' = prog /\ posted' = posted /\ delivered' = delivered
      /\ data' = [data EXCEPT ![p] = e] /\ pc' = IF c.done THEN pc ELSE [pc EXCEPT ![p] = n + 1]
  BY DEF NotYet, notified
<1>4. /\ pc \in [Procs -> Nat] /\ DOMAIN posted = Procs /\ DOMAIN delivered = Procs /\ DOMAIN data = Procs
      /\ network \in Seq(Messages)
  BY DEF DataInv
<1>5. h.name = c.name /\ h.done = FALSE
  <2>1. c \in Calls
    BY <1>2
  <2>2. h = [c EXCEPT !.done = FALSE, !.source = 0,
                      !.reqs = [k \in DOMAIN reqs |-> [req |-> reqs[k], source |-> 0]]]
    BY DEF Returned_not
  <2> HIDE DEF c, reqs, h
  <2> QED BY <2>1, <2>2 DEF Calls
<1> HIDE DEF h, e
<1>6. e = data[p] /\ (~c.done => Kept(p, s, n + 1, posted[p], delivered[p], data[p]))
  <2>1. s[n].name \in {"Test", "Testall"} /\ h.name = s[n].name /\ h.done = FALSE
    BY <1>1, <1>2, <1>5
  <2> HIDE DEF s, n, c
  <2>2. visit(data[p], p, mpi_update_db(h)) = data[p]
        /\ (~s[n].done => Kept(p, s, n + 1, posted[p], delivered[p], data[p]))
    BY <1>2, <2>1, StepNotYet
  <2> QED BY <1>2, <2>2 DEF e
<1> HIDE DEF c
<1>7. /\ data'[p] = data[p] /\ (pc'[p] = n \/ (~c.done /\ pc'[p] = n + 1)) /\ posted'[p] = posted[p]
      /\ delivered'[p] = delivered[p] /\ pc' \in [Procs -> Nat]
      /\ DOMAIN posted' = Procs /\ DOMAIN delivered' = Procs /\ DOMAIN data' = Procs
      /\ \A q \in Procs \ {p} : pc'[q] = pc[q] /\ posted'[q] = posted[q] /\ delivered'[q] = delivered[q]
                                /\ data'[q] = data[q]
  BY <1>2, <1>3, <1>4, <1>6
<1> HIDE DEF n, s
<1>8. KeptBy(p)'
  <2>1. CASE pc'[p] = n
    BY ONLY <1>2, <1>3, <1>7, <2>1, Zenon DEF KeptBy, s
  <2>2. CASE ~c.done /\ pc'[p] = n + 1
    BY ONLY <1>3, <1>6, <1>7, <2>2, Zenon DEF KeptBy, s
  <2> QED BY <1>7, <2>1, <2>2
<1>9. DataInv'
  BY <1>3, <1>4, <1>7, <1>8, DataStep
<1>10. Carries(p)
  <2>1. ASSUME NEW u \in UnitNames
        PROVE  /\ Moves(data[p], posted[p], delivered[p], data'[p], posted'[p], delivered'[p], u, 0)
               /\ Flight(network', u) = Flight(network, u) + 0
    <3>1. Balance(data[p], posted[p], delivered[p], u) \in Int
      <4>1. posted[p] \in Seq(Requests) /\ delivered[p] \in Seq(Receipts) /\ Sent(data[p], u) \in Int
        BY <1>2, KeptFacts
      <4>2. Open(posted[p], u) \in Int /\ Got(delivered[p], u) \in Int
        BY <4>1, Balanced
      <4> QED BY <4>1, <4>2 DEF Balance
    <3>2. Flight(network, u) \in Int
      BY <1>4, FlightInt
    <3>3. Balance(data'[p], posted'[p], delivered'[p], u) = Balance(data[p], posted[p], delivered[p], u)
      BY ONLY <1>7, Zenon
    <3> QED BY <3>1, <3>2, <3>3, <1>3 DEF Moves
  <2> QED BY <1>7, <2>1 DEF Carries
<1> QED BY <1>9, <1>10

\* The first request that takes a message.
LEMMA Taker ==
    ASSUME NEW P \in Seq(Requests), NEW m, SelectInSeq(P, LAMBDA x : Accepts(x, m)) > 0
    PROVE  /\ SelectInSeq(P, LAMBDA x : Accepts(x, m)) \in 1..Len(P)
           /\ Accepts(P[SelectInSeq(P, LAMBDA x : Accepts(x, m))], m)
<1> DEFINE I == {k \in 1..Len(P) : Accepts(P[k], m)}
           r == SelectInSeq(P, LAMBDA x : Accepts(x, m))
<1>1. Len(P) \in Nat /\ I \in SUBSET Nat
  OBVIOUS
<1>2. r = IF I # {} THEN Min(I) ELSE 0
  BY DEF SelectInSeq
<1>3. r > 0
  OBVIOUS
<1> HIDE DEF r
<1>4. I # {}
  BY <1>2, <1>3
<1>5. \E n \in I : \A m1 \in I : n <= m1
  BY <1>1, <1>4, Least
<1>6. Min(I) \in I
  BY <1>5 DEF Min
<1>7. r \in I
  BY <1>2, <1>4, <1>6
<1> QED BY <1>7 DEF r

\* A request that gets its message: what was open is now received.
LEMMA OpenMatch ==
    ASSUME NEW u, NEW P \in Seq(Requests), NEW r \in 1..Len(P), P[r].kind = "recv", P[r].done = FALSE,
           NEW Q \in Seq(Requests), Len(Q) = Len(P), \A a \in 1..Len(P) : a # r => Q[a] = P[a],
           Q[r].kind = "recv", Q[r].done = TRUE
    PROVE  Open(Q, u) = Open(P, u) - Units(u, Q[r].bytes) /\ Open(P, u) \in Int
<1> DEFINE n == Len(P)
           w == [a \in 1..n |-> Weight(P[a], u)]
           v == [a \in 1..n |-> Weight(Q[a], u)]
           S == 1..n
<1>1. n \in Nat /\ r \in S /\ (\A a \in 1..n : P[a] \in Requests /\ Q[a] \in Requests) /\ Len(Q) = n
  OBVIOUS
<1>2. \A a \in S : w[a] \in Int /\ v[a] \in Int
  BY <1>1, WeightInt
<1>3. \A a \in S \ {r} : v[a] = w[a]
  OBVIOUS
<1>4. w[r] = 0 /\ v[r] = -Units(u, Q[r].bytes) /\ Units(u, Q[r].bytes) \in Int
  <2>1. Q[r].bytes \in Nat
    BY <1>1 DEF Requests
  <2> QED BY <2>1 DEF Weight, Units
<1>5. Open(P, u) = SumFunctionOnSet(w, S) /\ Open(Q, u) = SumFunctionOnSet(v, S)
  BY <1>1 DEF Open
<1>6. IsFiniteSet(S)
  BY <1>1, FS_Interval
<1>9. r \in S
  OBVIOUS
<1> HIDE DEF w, v, S
<1>7. SumFunctionOnSet(v, S) = SumFunctionOnSet(w, S) + v[r] - w[r]
  BY ONLY <1>2, <1>3, <1>6, <1>9, SumChange
<1>8. SumFunctionOnSet(w, S) \in Int
  BY <1>2, <1>6, SumInt
<1> QED BY <1>4, <1>5, <1>7, <1>8

LEMMA ActMatch ==
    ASSUME DataInv, NEW k \in DOMAIN network, Match(k)
    PROVE  DataInv' /\ (network[k].to \in Procs => Carries(network[k].to))
<1> DEFINE m == network[k]
           t == m.to
           r == SelectInSeq(posted[t], LAMBDA x : Accepts(x, m))
           g == [posted[t][r] EXCEPT !.done = TRUE, !.source = m.from, !.bytes = m.bytes]
<1>1. /\ r > 0 /\ network' = RemoveAt(network, k)
      /\ posted' = [posted EXCEPT ![t] = [posted[t] EXCEPT ![r] = g]]
      /\ prog' = prog /\ pc' = pc /\ delivered' = delivered /\ data' = data
  BY DEF Match
<1>2. /\ prog \in Programs /\ pc \in [Procs -> Nat] /\ network \in Seq(Messages)
      /\ DOMAIN posted = Procs /\ DOMAIN delivered = Procs /\ DOMAIN data = Procs
      /\ \A p \in Procs : KeptBy(p)
  BY DEF DataInv
<1>3. k \in 1..Len(network) /\ m \in Messages
  BY <1>2
<1>4. m.from \in Int /\ m.bytes \in Nat
  BY <1>3, NAssumption DEF Messages, Procs
<1>5. network' \in Seq(Messages)
  BY <1>1, <1>2, <1>3, Removal
<1>6. DOMAIN posted' = Procs /\ \A q \in Procs \ {t} : posted'[q] = posted[q]
  BY <1>1, <1>2
<1>7. CASE t \notin Procs
  <2>1. ASSUME NEW q \in Procs
        PROVE  KeptBy(q)'
    <3>1. posted'[q] = posted[q] /\ prog' = prog /\ pc' = pc /\ delivered' = delivered /\ data' = data
      BY <1>1, <1>6, <1>7
    <3>2. Kept(q, prog[q], pc[q], posted[q], delivered[q], data[q])
      BY <1>2 DEF KeptBy
    <3> QED BY ONLY <3>1, <3>2, Zenon DEF KeptBy
  <2> QED BY <1>1, <1>2, <1>5, <1>6, <1>7, <2>1 DEF DataInv
<1>8. CASE t \in Procs
  <2> DEFINE P == posted[t]
             Q == [P EXCEPT ![r] = g]
  <2>1. Kept(t, prog[t], pc[t], P, delivered[t], data[t])
    BY <1>2, <1>8 DEF KeptBy
  <2>2. P \in Seq(Requests) /\ Pending(data[t], P) /\ delivered[t] \in Seq(Receipts)
        /\ Active(prog[t], pc[t], P) /\ \A u \in UnitNames : Sent(data[t], u) \in Int
    BY <2>1, KeptFacts
  <2>3. r \in 1..Len(P) /\ Accepts(P[r], m)
    BY <1>1, <2>2, Taker
  <2>4. P[r] \in Requests
    BY <2>2, <2>3
  <2>5. posted'[t] = Q
    BY <1>1, <1>2, <1>8
  <2> HIDE DEF r, m, t, P
  <2>6. /\ g \in Requests /\ g.req = P[r].req /\ g.kind = P[r].kind /\ g.buffer = P[r].buffer
        /\ g.done = TRUE /\ g.bytes = m.bytes
    BY <1>4, <2>4 DEF Requests, P
  <2> HIDE DEF g
  <2>7. Q \in Seq(Requests) /\ Len(Q) = Len(P) /\ Q[r] = g /\ \A a \in 1..Len(P) : a # r => Q[a] = P[a]
    BY <2>2, <2>3, <2>6
  <2> HIDE DEF Q
  <2>8. \A a \in 1..Len(P) : Q[a].req = P[a].req /\ Q[a].kind = P[a].kind /\ Q[a].buffer = P[a].buffer
    BY <2>6, <2>7
  <2>9. Pending(data[t], Q)
    BY <2>2, <2>7, <2>8, PendingMatch
  <2>10. Active(prog[t], pc[t], Q)
    BY <2>2, <2>7, <2>8 DEF Active
  <2>11. Kept(t, prog[t], pc[t], Q, delivered[t], data[t])
    BY <2>1, <2>9, <2>10 DEF Kept
  <2>12. Kept(t, prog'[t], pc'[t], posted'[t], delivered'[t], data'[t])
    BY ONLY <1>1, <2>5, <2>11, Zenon
  <2>13. ASSUME NEW q \in Procs
         PROVE  KeptBy(q)'
    <3>1. CASE q = t
      BY ONLY <2>12, <3>1, Zenon DEF KeptBy
    <3>2. CASE q # t
      <4>1. posted'[q] = posted[q] /\ prog' = prog /\ pc' = pc /\ delivered' = delivered /\ data' = data
        BY <1>1, <1>6, <3>2
      <4>2. Kept(q, prog[q], pc[q], posted[q], delivered[q], data[q])
        BY <1>2 DEF KeptBy
      <4> QED BY ONLY <4>1, <4>2, Zenon DEF KeptBy
    <3> QED BY <3>1, <3>2
  <2>14. DataInv'
    BY <1>1, <1>2, <1>5, <1>6, <2>13 DEF DataInv
  <2>15. Carries(t)
    <3>1. ASSUME NEW u \in UnitNames
          PROVE  /\ -Units(u, m.bytes) \in Int
                 /\ Moves(data[t], posted[t], delivered[t], data'[t], posted'[t], delivered'[t], u, -Units(u, m.bytes))
                 /\ Flight(network', u) = Flight(network, u) + -Units(u, m.bytes)
      <4>1. Units(u, m.bytes) \in Int /\ -Units(u, m.bytes) \in Int
        BY <1>4 DEF Units
      <4>2. P[r].kind = "recv" /\ P[r].done = FALSE
        BY <2>3, <2>4 DEF Accepts, Requests
      <4>3. Open(Q, u) = Open(P, u) - Units(u, m.bytes) /\ Open(P, u) \in Int
        BY <2>2, <2>3, <2>6, <2>7, <4>2, OpenMatch
      <4>4. Got(delivered[t], u) \in Int /\ Sent(data[t], u) \in Int
        BY <2>2, Balanced
      <4>5. Moves(data[t], P, delivered[t], data[t], Q, delivered[t], u, -Units(u, m.bytes))
        BY <4>1, <4>3, <4>4 DEF Moves, Balance
      <4>6. Moves(data[t], posted[t], delivered[t], data'[t], posted'[t], delivered'[t], u, -Units(u, m.bytes))
        BY ONLY <1>1, <2>5, <4>5, Zenon DEF P
      <4>7. Flight(RemoveAt(network, k), u) = Flight(network, u) - Units(u, network[k].bytes) /\ Flight(network, u) \in Int
        BY <1>2, <1>3, FlightLess
      <4> QED BY <1>1, <4>1, <4>6, <4>7 DEF m
    <3>2. \A q \in Procs \ {t} : posted'[q] = posted[q] /\ delivered'[q] = delivered[q] /\ data'[q] = data[q]
      BY <1>1, <1>6
    <3> QED BY <3>1, <3>2 DEF Carries
  <2> QED BY <2>14, <2>15 DEF t, m
<1> QED BY <1>7, <1>8

LEMMA DataSame ==
    ASSUME DataInv, UNCHANGED running
    PROVE  DataInv'
BY DEF running, DataInv, KeptBy

LEMMA DataNext ==
    ASSUME Conforming, DataInv, [Next]_vars
    PROVE  DataInv'
<1>1. CASE Next
  <2>1. CASE \E p \in Procs : Send(p) \/ Irecv(p) \/ Recv(p) \/ Collective(p) \/ Complete(p) \/ NotYet(p)
    BY <2>1, ActSend, ActIrecv, ActRecv, ActCollective, ActComplete, ActNotYet
  <2>2. CASE \E k \in DOMAIN network : Match(k)
    BY <2>2, ActMatch
  <2>3. CASE \E p \in Procs : Killed(p)
    BY <2>3, DataSame DEF Killed
  <2> QED BY <1>1, <2>1, <2>2, <2>3 DEF Next
<1>2. CASE UNCHANGED vars
  BY <1>2, DataSame DEF vars
<1> QED BY <1>1, <1>2

--------------------------------------------------------------------------------
\* The lists of pending requests mirror MPI's active requests, and no
\* completion is reported for a request they do not know, in every run of
\* programs that use a request variable again only behind its completion
\* (updateAsyncReqList, handleRequestCompletion).
THEOREM ListsMirror == Conforming => (Spec => []RequestsMirrored)
<1> SUFFICES ASSUME Conforming
             PROVE  Spec => []RequestsMirrored
  OBVIOUS
<1>1. Init => DataInv
  BY DataInit
<1>2. DataInv /\ [Next]_vars => DataInv'
  BY DataNext
<1>3. DataInv => RequestsMirrored
  <2> SUFFICES ASSUME DataInv, NEW p \in Procs
               PROVE  /\ ~data[p].aborted
                      /\ Mirrors(data[p].async_send, posted[p], "send")
                      /\ Mirrors(data[p].async_recv, posted[p], "recv")
                      /\ Mirrors(data[p].async_other, posted[p], "other")
    BY DEF RequestsMirrored
  <2>1. Pending(data[p], posted[p])
    BY DEF DataInv, KeptBy, Kept
  <2> QED BY <2>1 DEF Pending
<1> QED BY <1>1, <1>2, <1>3, PTL DEF Spec

\* The communication vector has what MPI delivered: by the source that the call
\* names or that its status reports, and what is received without either under
\* -1, which stands for no process. It adds up to the received totals
\* (updateReceivedMatrix, handleRequestCompletion, visit, the hook of MPI_Test).
THEOREM VectorExact == Conforming => (Spec => []MatrixExact)
<1> SUFFICES ASSUME Conforming
             PROVE  Spec => []MatrixExact
  OBVIOUS
<1>1. Init => DataInv
  BY DataInit
<1>2. DataInv /\ [Next]_vars => DataInv'
  BY DataNext
<1>3. DataInv => MatrixExact
  <2> SUFFICES ASSUME DataInv, NEW p \in Procs
               PROVE  LET m == data[p].matrixReceived
                      IN  /\ DOMAIN m = {Origin(delivered[p][k]) : k \in DOMAIN delivered[p]}
                          /\ \A s \in DOMAIN m :
                                /\ m[s].messages = Cardinality(From(p, s))
                                /\ m[s].bytes = SumFunctionOnSet(Buffers(p), From(p, s))
                                /\ Filled(p) => m[s].bytes = SumFunctionOnSet(Bytes(p), From(p, s))
                          /\ data[p].receivedBytes = SumFunctionOnSet(Buffers(p), DOMAIN delivered[p])
                          /\ data[p].totalReceivedMessages = Len(delivered[p])
    BY DEF MatrixExact
  <2> DEFINE D == delivered[p]
             d == data[p]
  <2>1. Vector(d, D)
    BY DEF DataInv, KeptBy, Kept
  <2>2. D \in Seq(Receipts) /\ DOMAIN D = 1..Len(D)
    BY <2>1 DEF Vector
  <2>3. \A s : From(p, s) = OfSource(D, s)
    BY <2>2 DEF From, OfSource
  <2>4. Buffers(p) = BufferOf(D)
    BY <2>2 DEF Buffers, BufferOf
  <2>5. Filled(p) => Bytes(p) = BufferOf(D)
    BY <2>2 DEF Filled, Bytes, BufferOf
  <2> HIDE DEF D, d
  <2>6. DOMAIN d.matrixReceived = {Origin(D[k]) : k \in DOMAIN D}
    BY <2>1, <2>2 DEF Vector
  <2>7. ASSUME NEW s \in DOMAIN d.matrixReceived
        PROVE  /\ d.matrixReceived[s].messages = Cardinality(From(p, s))
               /\ d.matrixReceived[s].bytes = SumFunctionOnSet(Buffers(p), From(p, s))
               /\ Filled(p) => d.matrixReceived[s].bytes = SumFunctionOnSet(Bytes(p), From(p, s))
    <3>1. /\ d.matrixReceived[s].messages = Cardinality(OfSource(D, s))
          /\ d.matrixReceived[s].bytes = SumFunctionOnSet(BufferOf(D), OfSource(D, s))
      BY <2>1 DEF Vector
    <3> QED BY ONLY <2>3, <2>4, <2>5, <3>1, Zenon
  <2>8. d.receivedBytes = SumFunctionOnSet(Buffers(p), DOMAIN D) /\ d.totalReceivedMessages = Len(D)
    <3>1. d.receivedBytes = SumFunctionOnSet(BufferOf(D), 1..Len(D)) /\ d.totalReceivedMessages = Len(D)
      BY <2>1 DEF Vector
    <3> QED BY ONLY <2>2, <2>4, <3>1, Zenon
  <2> QED BY <2>6, <2>7, <2>8 DEF D, d
<1> QED BY <1>1, <1>2, <1>3, PTL DEF Spec

--------------------------------------------------------------------------------
(* What all processes sent is what they received and what is in flight.       *)

Balances(u) == [p \in Procs |-> Balance(data[p], posted[p], delivered[p], u)]
Aimed == \A k \in 1..Len(network) : network[k].to \in Procs
FlowInv == Aimed /\ \A u \in UnitNames : SumFunctionOnSet(Balances(u), Procs) = Flight(network, u)

LEMMA BalanceInt ==
    ASSUME DataInv, NEW p \in Procs, NEW u \in UnitNames
    PROVE  Balance(data[p], posted[p], delivered[p], u) \in Int
<1>1. Kept(p, prog[p], pc[p], posted[p], delivered[p], data[p])
  BY DEF DataInv, KeptBy
<1>2. posted[p] \in Seq(Requests) /\ delivered[p] \in Seq(Receipts) /\ Sent(data[p], u) \in Int
  BY <1>1, KeptFacts
<1>3. Open(posted[p], u) \in Int /\ Got(delivered[p], u) \in Int
  BY <1>2, Balanced
<1> QED BY <1>2, <1>3 DEF Balance

LEMMA EmptySums ==
    ASSUME NEW u
    PROVE  Open(<<>>, u) = 0 /\ Got(<<>>, u) = 0 /\ Flight(<<>>, u) = 0
<1> DEFINE E == <<>>
           f == [a \in 1..Len(E) |-> Weight(E[a], u)]
           g == [a \in 1..Len(E) |-> Units(u, E[a].bytes)]
<1>1. 1..Len(E) = {}
  OBVIOUS
<1>2. Open(E, u) = SumFunctionOnSet(f, 1..Len(E)) /\ Got(E, u) = SumFunctionOnSet(g, 1..Len(E))
      /\ Flight(E, u) = SumFunctionOnSet(g, 1..Len(E))
  BY DEF Open, Got, Flight
<1>3. SumFunctionOnSet(f, {}) = 0 /\ SumFunctionOnSet(g, {}) = 0
  BY SumEmpty
<1> HIDE DEF f, g, E
<1>4. Open(E, u) = 0 /\ Got(E, u) = 0 /\ Flight(E, u) = 0
  BY ONLY <1>1, <1>2, <1>3, Zenon
<1> QED BY <1>4 DEF E

LEMMA FlowInit ==
    ASSUME Init
    PROVE  FlowInv
<1>1. network = <<>> /\ \A p \in Procs : posted[p] = <<>> /\ delivered[p] = <<>> /\ data[p] = Fresh
  BY DEF Init
<1>2. Aimed
  BY <1>1 DEF Aimed
<1>3. ASSUME NEW u \in UnitNames
      PROVE  SumFunctionOnSet(Balances(u), Procs) = Flight(network, u)
  <2>1. Open(<<>>, u) = 0 /\ Got(<<>>, u) = 0 /\ Flight(<<>>, u) = 0
    BY EmptySums
  <2>2. Sent(Fresh, u) = 0
    BY DEF Sent, Fresh
  <2>3. ASSUME NEW p \in Procs
        PROVE  Balances(u)[p] = 0
    <3>1. Balances(u)[p] = Balance(Fresh, <<>>, <<>>, u)
      BY <1>1 DEF Balances
    <3> QED BY <2>1, <2>2, <3>1 DEF Balance
  <2>4. SumFunctionOnSet(Balances(u), Procs) = Cardinality(Procs) * 0
    BY <2>3, ProcsFinite, SumConstant
  <2> QED BY <1>1, <2>1, <2>4, ProcsFinite
<1> QED BY <1>2, <1>3 DEF FlowInv

LEMMA FlowStep ==
    ASSUME DataInv, DataInv', FlowInv, NEW p \in Procs, Carries(p), Aimed'
    PROVE  FlowInv'
<1>1. ASSUME NEW u \in UnitNames
      PROVE  SumFunctionOnSet(Balances(u)', Procs) = Flight(network', u)
  <2> DEFINE f == Balances(u)
             g == Balances(u)'
  <2>1. \A q \in Procs : f[q] = Balance(data[q], posted[q], delivered[q], u)
    BY DEF Balances
  <2>2. \A q \in Procs : g[q] = Balance(data'[q], posted'[q], delivered'[q], u)
    BY DEF Balances
  <2>3. PICK x \in Int : /\ Moves(data[p], posted[p], delivered[p], data'[p], posted'[p], delivered'[p], u, x)
                         /\ Flight(network', u) = Flight(network, u) + x
    BY DEF Carries
  <2>4. SumFunctionOnSet(f, Procs) = Flight(network, u)
    BY DEF FlowInv
  <2>5. \A q \in Procs : f[q] \in Int
    BY <2>1, BalanceInt
  <2>6. g[p] = f[p] + x
    BY <2>1, <2>2, <2>3 DEF Moves
  <2>7. \A q \in Procs \ {p} : g[q] = f[q]
    <3> TAKE q \in Procs \ {p}
    <3>1. posted'[q] = posted[q] /\ delivered'[q] = delivered[q] /\ data'[q] = data[q]
      BY DEF Carries
    <3>2. Balance(data'[q], posted'[q], delivered'[q], u) = Balance(data[q], posted[q], delivered[q], u)
      BY ONLY <3>1, Zenon
    <3> QED BY <2>1, <2>2, <3>2
  <2> HIDE DEF f, g
  <2>8. \A q \in Procs : f[q] \in Int /\ g[q] \in Int
    BY <2>5, <2>6, <2>7
  <2>9. IsFiniteSet(Procs) /\ p \in Procs
    BY ProcsFinite
  <2>10. SumFunctionOnSet(g, Procs) = SumFunctionOnSet(f, Procs) + g[p] - f[p]
    BY ONLY <2>7, <2>8, <2>9, SumChange
  <2>11. SumFunctionOnSet(f, Procs) \in Int
    BY <2>5, <2>9, SumInt
  <2>12. SumFunctionOnSet(g, Procs) = Flight(network', u)
    BY <2>3, <2>4, <2>5, <2>6, <2>10, <2>11
  <2> QED BY <2>12 DEF g
<1> QED BY <1>1 DEF FlowInv

AllAddressed == \A s \in Programs, p \in Procs : Addressed(s[p])

LEMMA AimedNext ==
    ASSUME AllAddressed, DataInv, Aimed, Next
    PROVE  Aimed'
<1>1. network \in Seq(Messages) /\ Len(network) \in Nat /\ DOMAIN network = 1..Len(network)
  BY DEF DataInv
<1>2. ASSUME NEW p \in Procs, Send(p)
      PROVE  Aimed'
  <2>1. network' = Append(network, Message(p, Current(p)))
    BY <1>2 DEF Send
  <2>2. Current(p).name \in {"Send", "Isend"} /\ pc[p] <= Len(prog[p]) /\ Current(p) = prog[p][pc[p]]
    BY <1>2 DEF Send, Calling, Current
  <2>3. prog \in Programs /\ prog[p] \in Seq(Calls)
    BY ProgramsAssumption DEF DataInv
  <2>4. pc[p] \in 1..Len(prog[p]) + 1
    BY DEF DataInv, KeptBy, Kept
  <2>5. pc[p] \in DOMAIN prog[p]
    BY <2>2, <2>3, <2>4
  <2>6. Current(p).other \in Procs
    BY <2>2, <2>3, <2>5 DEF AllAddressed, Addressed
  <2>7. Message(p, Current(p)).to \in Procs
    BY <2>6 DEF Message
  <2> DEFINE m == Message(p, Current(p))
  <2> HIDE DEF m
  <2>8. Len(network') = Len(network) + 1 /\ network'[Len(network) + 1] = m
        /\ \A k \in 1..Len(network) : network'[k] = network[k]
    BY <1>1, <2>1 DEF m
  <2>9. m.to \in Procs
    BY <2>7 DEF m
  <2> QED BY <1>1, <2>8, <2>9 DEF Aimed
<1>3. ASSUME NEW k \in 1..Len(network), network' = RemoveAt(network, k)
      PROVE  Aimed'
  <2>1. /\ Len(RemoveAt(network, k)) = Len(network) - 1
        /\ \A j \in 1..Len(network) - 1 : RemoveAt(network, k)[j] = network[Before(k, j)]
                                          /\ Before(k, j) \in 1..Len(network)
    BY <1>1, Removal
  <2> QED BY <1>3, <2>1 DEF Aimed
<1>4. ASSUME NEW p \in Procs, Recv(p)
      PROVE  Aimed'
  BY <1>1, <1>3, <1>4 DEF Recv
<1>5. ASSUME NEW k \in DOMAIN network, Match(k)
      PROVE  Aimed'
  BY <1>1, <1>3, <1>5 DEF Match
<1>6. ASSUME NEW p \in Procs, Irecv(p) \/ Collective(p) \/ Complete(p) \/ NotYet(p)
      PROVE  Aimed'
  <2>1. network' = network
    BY <1>6 DEF Irecv, Collective, Complete, NotYet
  <2> QED BY <2>1 DEF Aimed
<1>7. ASSUME NEW p \in Procs, Killed(p)
      PROVE  Aimed'
  BY <1>7 DEF Killed, running, Aimed
<1> QED BY <1>2, <1>4, <1>5, <1>6, <1>7 DEF Next

LEMMA FlowNext ==
    ASSUME Conforming, AllAddressed, DataInv, FlowInv, [Next]_vars
    PROVE  FlowInv'
<1>1. CASE Next /\ ~UNCHANGED running
  <2>1. DataInv'
    BY DataNext
  <2>2. Aimed'
    BY <1>1, AimedNext DEF FlowInv
  <2>3. \E p \in Procs : Carries(p)
    <3>1. CASE \E p \in Procs : Send(p) \/ Irecv(p) \/ Recv(p) \/ Collective(p) \/ Complete(p) \/ NotYet(p)
      BY <3>1, ActSend, ActIrecv, ActRecv, ActCollective, ActComplete, ActNotYet
    <3>2. CASE \E k \in DOMAIN network : Match(k)
      <4>1. PICK k \in DOMAIN network : Match(k)
        BY <3>2
      <4>2. DOMAIN network = 1..Len(network)
        BY DEF DataInv
      <4>3. network[k].to \in Procs
        BY <4>2 DEF FlowInv, Aimed
      <4>4. network[k].to \in Procs => Carries(network[k].to)
        BY <4>1, ActMatch
      <4>5. Carries(network[k].to)
        BY <4>3, <4>4
      <4> QED BY <4>3, <4>5
    <3>3. ASSUME NEW p \in Procs, Killed(p)
          PROVE  FALSE
      BY <1>1, <3>3 DEF Killed
    <3> QED BY <1>1, <3>1, <3>2, <3>3 DEF Next
  <2> QED BY <2>1, <2>2, <2>3, FlowStep
<1>2. CASE UNCHANGED running
  BY <1>2 DEF running, FlowInv, Aimed, Balances
<1> QED BY <1>1, <1>2 DEF vars

\* With nothing in flight and nothing pending, all that was sent was received.
LEMMA AllReceived ==
    ASSUME DataInv, FlowInv, Through
    PROVE  /\ SumFunctionOnSet([p \in Procs |-> data[p].sentBytes], Procs)
                = SumFunctionOnSet([p \in Procs |-> data[p].receivedBytes], Procs)
           /\ SumFunctionOnSet([p \in Procs |-> data[p].totalSentMessages], Procs)
                = SumFunctionOnSet([p \in Procs |-> data[p].totalReceivedMessages], Procs)
<1>1. ASSUME NEW p \in Procs
      PROVE  /\ Got(delivered[p], "bytes") = data[p].receivedBytes
             /\ Got(delivered[p], "messages") = data[p].totalReceivedMessages
             /\ \A u \in UnitNames : /\ Balance(data[p], posted[p], delivered[p], u) = Sent(data[p], u) - Got(delivered[p], u)
                                     /\ Sent(data[p], u) \in Int /\ Got(delivered[p], u) \in Int
  <2> DEFINE D == delivered[p]
             d == data[p]
             n == Len(D)
  <2>1. Kept(p, prog[p], pc[p], posted[p], D, d)
    BY DEF DataInv, KeptBy
  <2>2. Vector(d, D) /\ D \in Seq(Receipts) /\ (\A u \in UnitNames : Sent(d, u) \in Int) /\ posted[p] \in Seq(Requests)
    BY <2>1, KeptFacts
  <2>3. posted[p] = <<>> /\ \A k \in 1..n : D[k].bytes = D[k].buffer
    BY <2>2 DEF Through, Filled
  <2>4. n \in Nat /\ d.receivedBytes = SumFunctionOnSet(BufferOf(D), 1..n) /\ d.totalReceivedMessages = n
    BY <2>2 DEF Vector
  <2>5. Got(D, "bytes") = d.receivedBytes
    <3>1. [k \in 1..n |-> Units("bytes", D[k].bytes)] = BufferOf(D)
      BY <2>3 DEF Units, BufferOf
    <3> HIDE DEF D, d, n
    <3>2. Got(D, "bytes") = SumFunctionOnSet([k \in 1..n |-> Units("bytes", D[k].bytes)], 1..n)
      BY DEF Got, n
    <3> QED BY ONLY <2>4, <3>1, <3>2, Zenon
  <2>6. Got(D, "messages") = d.totalReceivedMessages
    <3> DEFINE f == [k \in 1..n |-> Units("messages", D[k].bytes)]
    <3>1. \A k \in 1..n : f[k] = 1
      BY DEF Units
    <3>2. Got(D, "messages") = SumFunctionOnSet(f, 1..n)
      BY DEF Got
    <3>3. IsFiniteSet(1..n) /\ Cardinality(1..n) = n
      <4>1. 1 \in Int /\ n \in Int
        BY <2>4
      <4>2. IsFiniteSet(1..n) /\ Cardinality(1..n) = IF 1 > n THEN 0 ELSE n - 1 + 1
        BY ONLY <4>1, FS_Interval
      <4> QED BY <2>4, <4>2
    <3> HIDE DEF f, n, D, d
    <3> DEFINE S == 1..n
    <3>5. IsFiniteSet(S) /\ \A k \in S : f[k] = 1
      BY <3>1, <3>3
    <3> HIDE DEF S
    <3>6. SumFunctionOnSet(f, S) = Cardinality(S) * 1
      BY ONLY <3>5, SumConstant
    <3>4. SumFunctionOnSet(f, 1..n) = Cardinality(1..n) * 1
      BY <3>6 DEF S
    <3> QED BY <2>4, <3>2, <3>3, <3>4
  <2>7. ASSUME NEW u \in UnitNames
        PROVE  /\ Balance(d, posted[p], D, u) = Sent(d, u) - Got(D, u)
               /\ Sent(d, u) \in Int /\ Got(D, u) \in Int
    <3>1. Open(posted[p], u) = 0
      BY <2>3, EmptySums
    <3>2. Got(D, u) \in Int
      BY <2>2, Balanced
    <3> QED BY <2>2, <3>1, <3>2 DEF Balance
  <2> QED BY <2>5, <2>6, <2>7
<1>2. ASSUME NEW u \in UnitNames, NEW f, NEW g, \A p \in Procs : f[p] = Sent(data[p], u) /\ g[p] = Got(delivered[p], u)
      PROVE  SumFunctionOnSet(f, Procs) = SumFunctionOnSet(g, Procs)
  <2> DEFINE b == Balances(u)
  <2>1. \A p \in Procs : b[p] = f[p] - g[p] /\ f[p] \in Int /\ g[p] \in Int
    BY <1>1, <1>2 DEF Balances
  <2>2. SumFunctionOnSet(b, Procs) = 0
    <3>1. SumFunctionOnSet(b, Procs) = Flight(network, u) /\ network = <<>>
      BY DEF FlowInv, Through
    <3>2. Flight(<<>>, u) = 0
      BY EmptySums
    <3> QED BY ONLY <3>1, <3>2, Zenon
  <2> HIDE DEF b
  <2>3. IsFiniteSet(Procs) /\ \A p \in Procs : g[p] \in Int /\ b[p] \in Int /\ f[p] = g[p] + b[p]
    BY <2>1, ProcsFinite
  <2>4. SumFunctionOnSet(f, Procs) = SumFunctionOnSet(g, Procs) + SumFunctionOnSet(b, Procs)
    BY ONLY <2>3, SumPlus
  <2>5. SumFunctionOnSet(g, Procs) \in Int
    BY <2>3, SumInt
  <2> QED BY <2>2, <2>4, <2>5
<1>3. SumFunctionOnSet([p \in Procs |-> data[p].sentBytes], Procs)
        = SumFunctionOnSet([p \in Procs |-> data[p].receivedBytes], Procs)
  <2> DEFINE f == [p \in Procs |-> data[p].sentBytes]
             g == [p \in Procs |-> data[p].receivedBytes]
  <2>1. \A p \in Procs : f[p] = Sent(data[p], "bytes") /\ g[p] = Got(delivered[p], "bytes")
    BY <1>1 DEF Sent
  <2> HIDE DEF f, g
  <2>2. "bytes" \in UnitNames
    BY DEF UnitNames
  <2>3. SumFunctionOnSet(f, Procs) = SumFunctionOnSet(g, Procs)
    BY <1>2, <2>1, <2>2
  <2> QED BY <2>3 DEF f, g
<1>4. SumFunctionOnSet([p \in Procs |-> data[p].totalSentMessages], Procs)
        = SumFunctionOnSet([p \in Procs |-> data[p].totalReceivedMessages], Procs)
  <2> DEFINE f == [p \in Procs |-> data[p].totalSentMessages]
             g == [p \in Procs |-> data[p].totalReceivedMessages]
  <2>1. \A p \in Procs : f[p] = Sent(data[p], "messages") /\ g[p] = Got(delivered[p], "messages")
    BY <1>1 DEF Sent
  <2> HIDE DEF f, g
  <2>2. "messages" \in UnitNames
    BY DEF UnitNames
  <2>3. SumFunctionOnSet(f, Procs) = SumFunctionOnSet(g, Procs)
    BY <1>2, <2>1, <2>2
  <2> QED BY <2>3 DEF f, g
<1> QED BY <1>3, <1>4

--------------------------------------------------------------------------------
(* The volumes of one collective operation, over all processes.               *)

Total(c, v) == SumFunctionOnSet([p \in Procs |-> Adds(p, c, v)], Procs)

LEMMA SumAll ==
    ASSUME NEW x \in Int, NEW f, \A p \in Procs : f[p] = x
    PROVE  SumFunctionOnSet(f, Procs) = N * x
<1>1. IsFiniteSet(Procs) /\ Cardinality(Procs) = N
  BY ProcsFinite
<1>2. SumFunctionOnSet(f, Procs) = Cardinality(Procs) * x
  BY ONLY <1>1, \A p \in Procs : f[p] = x, x \in Int, SumConstant
<1> QED BY <1>1, <1>2

LEMMA SumRoot ==
    ASSUME NEW x \in Int, NEW root \in Procs, NEW f, \A p \in Procs : f[p] = IF root = p THEN x ELSE 0
    PROVE  SumFunctionOnSet(f, Procs) = x
<1>1. IsFiniteSet(Procs) /\ root \in Procs /\ f[root] \in Int /\ \A p \in Procs \ {root} : f[p] = 0
  BY ProcsFinite
<1>2. SumFunctionOnSet(f, Procs) = f[root]
  BY ONLY <1>1, SumSingle
<1> QED BY <1>2

LEMMA SumNotRoot ==
    ASSUME NEW x \in Int, NEW root \in Procs, NEW f, \A p \in Procs : f[p] = IF root = p THEN 0 ELSE x
    PROVE  SumFunctionOnSet(f, Procs) = (N - 1) * x
<1> DEFINE g == [p \in Procs |-> IF root = p THEN x ELSE 0]
           h == [p \in Procs |-> x]
<1>1. \A p \in Procs : g[p] = IF root = p THEN x ELSE 0
  OBVIOUS
<1>2. \A p \in Procs : h[p] = x
  OBVIOUS
<1>3. \A p \in Procs : f[p] \in Int /\ g[p] \in Int /\ h[p] = f[p] + g[p]
  OBVIOUS
<1> HIDE DEF g, h
<1>4. IsFiniteSet(Procs) /\ N \in Int
  BY ProcsFinite
<1>5. SumFunctionOnSet(h, Procs) = SumFunctionOnSet(f, Procs) + SumFunctionOnSet(g, Procs)
  BY ONLY <1>3, <1>4, SumPlus
<1>6. SumFunctionOnSet(g, Procs) = x
  BY <1>1, SumRoot
<1>7. SumFunctionOnSet(h, Procs) = N * x
  BY <1>2, SumAll
<1>8. SumFunctionOnSet(f, Procs) \in Int
  BY <1>3, <1>4, SumInt
<1>9. N * x \in Int /\ N * x - x = (N - 1) * x
  BY <1>4
<1> QED BY <1>5, <1>6, <1>7, <1>8, <1>9

Broadcasts == {"Bcast", "Ibcast"}
Reductions == {"Reduce", "Ireduce"}
Alltoalls == {"Alltoall", "Alltoallv", "Ialltoall"}
Allgathers == {"Allgather", "Iallgather"}

\* What a call adds, by volume.
LEMMA AddsTable ==
    ASSUME NEW c, c.name \in Collectives, NEW p
    PROVE  /\ Adds(p, c, "gatherSent") = IF c.name \in Gathers THEN c.bytes ELSE 0
           /\ Adds(p, c, "gatherReceived") =
                 IF c.name \in Gathers THEN (IF c.root = p THEN c.recvbytes * c.comm_size ELSE 0) ELSE 0
           /\ Adds(p, c, "alltoallSent") = IF c.name \in Alltoalls THEN c.bytes * c.comm_size ELSE 0
           /\ Adds(p, c, "alltoallReceived") = IF c.name \in Alltoalls THEN c.recvbytes * c.comm_size ELSE 0
           /\ Adds(p, c, "allgatherSent") = IF c.name \in Allgathers THEN c.bytes ELSE 0
           /\ Adds(p, c, "allgatherReceived") = IF c.name \in Allgathers THEN c.recvbytes * c.comm_size ELSE 0
           /\ Adds(p, c, "bcastSent") = IF c.name \in Broadcasts THEN (IF c.root = p THEN c.bytes ELSE 0) ELSE 0
           /\ Adds(p, c, "bcastReceived") = IF c.name \in Broadcasts THEN (IF c.root = p THEN 0 ELSE c.bytes) ELSE 0
           /\ Adds(p, c, "reduceRoot") = IF c.name \in Reductions THEN (IF c.root = p THEN c.bytes ELSE 0) ELSE 0
           /\ Adds(p, c, "reduceNotRoot") = IF c.name \in Reductions THEN (IF c.root = p THEN 0 ELSE c.bytes) ELSE 0
           /\ Adds(p, c, "allreduce") = IF c.name \in Reduces THEN c.bytes ELSE 0
<1> DEFINE m == mpi_update_db(c)
           F == FamilyVolumes[Family(c.name)]
<1>1. /\ m.size = c.bytes /\ m.comm_size = c.comm_size
      /\ m.recvsize = IF c.name \in Gathers \cup AllToAll THEN c.recvbytes ELSE 0
      /\ m.root = IF c.name \in Gathers \cup Rooted THEN c.root ELSE 0
  BY NotifiedCollective
<1>2. \A v : Adds(p, c, v) = IF v \in F THEN volume(p, m, v) ELSE 0
  BY DEF Adds
<1>3. /\ c.name \in Broadcasts => F = {"bcastSent", "bcastReceived"}
      /\ c.name \in Alltoalls => F = {"alltoallSent", "alltoallReceived"}
      /\ c.name \in Gathers => F = {"gatherSent", "gatherReceived"}
      /\ c.name \in Allgathers => F = {"allgatherSent", "allgatherReceived"}
      /\ c.name \in Reductions => F = {"reduceRoot", "reduceNotRoot"}
      /\ c.name \in Reduces => F = {"allreduce"}
  BY DEF Family, FamilyVolumes, Broadcasts, Alltoalls, Gathers, Allgathers, Reductions, Reduces
<1> HIDE DEF m, F
<1>4. CASE c.name \in Broadcasts
  BY <1>1, <1>2, <1>3, <1>4 DEF volume, Broadcasts, Alltoalls, Gathers, Allgathers, Reductions, Reduces, AllToAll, Rooted
<1>5. CASE c.name \in Alltoalls
  BY <1>1, <1>2, <1>3, <1>5 DEF volume, Broadcasts, Alltoalls, Gathers, Allgathers, Reductions, Reduces, AllToAll, Rooted
<1>6. CASE c.name \in Gathers
  BY <1>1, <1>2, <1>3, <1>6 DEF volume, Broadcasts, Alltoalls, Gathers, Allgathers, Reductions, Reduces, AllToAll, Rooted
<1>7. CASE c.name \in Allgathers
  BY <1>1, <1>2, <1>3, <1>7 DEF volume, Broadcasts, Alltoalls, Gathers, Allgathers, Reductions, Reduces, AllToAll, Rooted
<1>8. CASE c.name \in Reductions
  BY <1>1, <1>2, <1>3, <1>8 DEF volume, Broadcasts, Alltoalls, Gathers, Allgathers, Reductions, Reduces, AllToAll, Rooted
<1>9. CASE c.name \in Reduces
  BY <1>1, <1>2, <1>3, <1>9 DEF volume, Broadcasts, Alltoalls, Gathers, Allgathers, Reductions, Reduces, AllToAll, Rooted
<1> QED BY <1>4, <1>5, <1>6, <1>7, <1>8, <1>9
        DEF Collectives, AllToAll, Rooted, Gathers, Reduces, Broadcasts, Alltoalls, Allgathers, Reductions

\* A call of an operation all processes take part in.
Fits(c) ==
    /\ c \in Calls /\ c.name \in Collectives
    /\ c.name \in Gathers \cup Rooted => c.root \in Procs
    /\ c.name \in Gathers \cup AllToAll => c.recvbytes = c.bytes
    /\ c.comm_size = N

LEMMA TotalsRelate ==
    ASSUME NEW c, Fits(c)
    PROVE  /\ Total(c, "gatherReceived") = Total(c, "gatherSent")
           /\ Total(c, "alltoallReceived") = Total(c, "alltoallSent")
           /\ Total(c, "allgatherReceived") = N * Total(c, "allgatherSent")
           /\ Total(c, "bcastReceived") = (N - 1) * Total(c, "bcastSent")
           /\ Total(c, "reduceNotRoot") = (N - 1) * Total(c, "reduceRoot")
<1> DEFINE b == c.bytes
           f(v) == [p \in Procs |-> Adds(p, c, v)]
<1>1. b \in Nat /\ b \in Int /\ N \in Int /\ b * N \in Int /\ c.name \in Collectives /\ c.comm_size = N
  BY ProcsFinite DEF Fits, Calls
<1>2. /\ c.name \in Gathers \cup Rooted => c.root \in Procs
      /\ c.name \in Gathers \cup AllToAll => c.recvbytes = b
  BY DEF Fits
<1>3. \A v : Total(c, v) = SumFunctionOnSet(f(v), Procs)
  BY DEF Total
<1>4. \A v : \A p \in Procs : f(v)[p] = Adds(p, c, v)
  OBVIOUS
<1> HIDE DEF b, f
<1>5. ASSUME NEW v, \A p \in Procs : Adds(p, c, v) = 0
      PROVE  Total(c, v) = 0
  <2>1. \A p \in Procs : f(v)[p] = 0
    BY <1>4, <1>5
  <2>2. SumFunctionOnSet(f(v), Procs) = N * 0
    BY ONLY <2>1, 0 \in Int, SumAll
  <2> QED BY <1>1, <1>3, <2>2
<1>6. ASSUME NEW v, NEW x \in Int, \A p \in Procs : Adds(p, c, v) = x
      PROVE  Total(c, v) = N * x
  <2>1. \A p \in Procs : f(v)[p] = x
    BY <1>4, <1>6
  <2>2. SumFunctionOnSet(f(v), Procs) = N * x
    BY ONLY <2>1, x \in Int, SumAll
  <2> QED BY <1>3, <2>2
<1>7. ASSUME NEW v, NEW x \in Int, c.root \in Procs, \A p \in Procs : Adds(p, c, v) = IF c.root = p THEN x ELSE 0
      PROVE  Total(c, v) = x
  <2>1. \A p \in Procs : f(v)[p] = IF c.root = p THEN x ELSE 0
    BY <1>4, <1>7
  <2>2. SumFunctionOnSet(f(v), Procs) = x
    BY ONLY <2>1, <1>7, SumRoot
  <2> QED BY <1>3, <2>2
<1>8. ASSUME NEW v, c.root \in Procs, \A p \in Procs : Adds(p, c, v) = IF c.root = p THEN 0 ELSE b
      PROVE  Total(c, v) = (N - 1) * b
  <2>1. \A p \in Procs : f(v)[p] = IF c.root = p THEN 0 ELSE b
    BY <1>4, <1>8
  <2>2. SumFunctionOnSet(f(v), Procs) = (N - 1) * b
    BY ONLY <2>1, <1>1, <1>8, SumNotRoot
  <2> QED BY <1>3, <2>2
<1>9. Total(c, "gatherReceived") = Total(c, "gatherSent")
  <2>1. CASE c.name \in Gathers
    <3>1. \A p \in Procs : Adds(p, c, "gatherSent") = b
      BY <1>1, <2>1, AddsTable DEF b
    <3>2. c.root \in Procs /\ c.recvbytes = b
      BY <1>2, <2>1
    <3>3. \A p \in Procs : Adds(p, c, "gatherReceived") = IF c.root = p THEN b * N ELSE 0
      <4> TAKE p \in Procs
      <4>1. Adds(p, c, "gatherReceived") = IF c.root = p THEN c.recvbytes * c.comm_size ELSE 0
        BY <1>1, <2>1, AddsTable
      <4> QED BY <1>1, <3>2, <4>1
    <3>4. Total(c, "gatherSent") = N * b
      BY <1>1, <1>6, <3>1
    <3>5. Total(c, "gatherReceived") = b * N
      BY <1>1, <1>7, <3>2, <3>3
    <3> QED BY <1>1, <3>4, <3>5
  <2>2. CASE c.name \notin Gathers
    <3>1. \A p \in Procs : Adds(p, c, "gatherSent") = 0 /\ Adds(p, c, "gatherReceived") = 0
      BY <1>1, <2>2, AddsTable
    <3> QED BY <1>5, <3>1
  <2> QED BY <2>1, <2>2
<1>10. Total(c, "alltoallReceived") = Total(c, "alltoallSent")
  <2>1. CASE c.name \in Alltoalls
    <3>1. c.recvbytes = b
      BY <1>2, <2>1 DEF Alltoalls, AllToAll
    <3>2. \A p \in Procs : Adds(p, c, "alltoallSent") = b * N
      <4> TAKE p \in Procs
      <4>1. Adds(p, c, "alltoallSent") = c.bytes * c.comm_size
        BY <1>1, <2>1, AddsTable
      <4> QED BY <1>1, <4>1 DEF b
    <3>3. \A p \in Procs : Adds(p, c, "alltoallReceived") = b * N
      <4> TAKE p \in Procs
      <4>1. Adds(p, c, "alltoallReceived") = c.recvbytes * c.comm_size
        BY <1>1, <2>1, AddsTable
      <4> QED BY <1>1, <3>1, <4>1
    <3> QED BY <1>1, <1>6, <3>2, <3>3
  <2>2. CASE c.name \notin Alltoalls
    <3>1. \A p \in Procs : Adds(p, c, "alltoallSent") = 0 /\ Adds(p, c, "alltoallReceived") = 0
      BY <1>1, <2>2, AddsTable
    <3> QED BY <1>5, <3>1
  <2> QED BY <2>1, <2>2
<1>11. Total(c, "allgatherReceived") = N * Total(c, "allgatherSent")
  <2>1. CASE c.name \in Allgathers
    <3>1. c.recvbytes = b
      BY <1>2, <2>1 DEF Allgathers, AllToAll
    <3>2. \A p \in Procs : Adds(p, c, "allgatherSent") = b
      BY <1>1, <2>1, AddsTable DEF b
    <3>3. \A p \in Procs : Adds(p, c, "allgatherReceived") = b * N
      <4> TAKE p \in Procs
      <4>1. Adds(p, c, "allgatherReceived") = c.recvbytes * c.comm_size
        BY <1>1, <2>1, AddsTable
      <4> QED BY <1>1, <3>1, <4>1
    <3>4. Total(c, "allgatherSent") = N * b /\ Total(c, "allgatherReceived") = N * (b * N)
      BY <1>1, <1>6, <3>2, <3>3
    <3>5. N * (b * N) = N * (N * b)
      BY <1>1
    <3> QED BY ONLY <3>4, <3>5, Zenon
  <2>2. CASE c.name \notin Allgathers
    <3>1. \A p \in Procs : Adds(p, c, "allgatherSent") = 0 /\ Adds(p, c, "allgatherReceived") = 0
      BY <1>1, <2>2, AddsTable
    <3>2. Total(c, "allgatherSent") = 0 /\ Total(c, "allgatherReceived") = 0
      BY <1>5, <3>1
    <3> QED BY <1>1, <3>2
  <2> QED BY <2>1, <2>2
<1>12. Total(c, "bcastReceived") = (N - 1) * Total(c, "bcastSent")
  <2>1. CASE c.name \in Broadcasts
    <3>1. c.root \in Procs
      BY <1>2, <2>1 DEF Broadcasts, Rooted
    <3>2. \A p \in Procs : Adds(p, c, "bcastSent") = IF c.root = p THEN b ELSE 0
      BY <1>1, <2>1, AddsTable DEF b
    <3>3. \A p \in Procs : Adds(p, c, "bcastReceived") = IF c.root = p THEN 0 ELSE b
      BY <1>1, <2>1, AddsTable DEF b
    <3>4. Total(c, "bcastSent") = b
      BY <1>1, <1>7, <3>1, <3>2
    <3>5. Total(c, "bcastReceived") = (N - 1) * b
      BY <1>8, <3>1, <3>3
    <3> QED BY ONLY <3>4, <3>5, Zenon
  <2>2. CASE c.name \notin Broadcasts
    <3>1. \A p \in Procs : Adds(p, c, "bcastSent") = 0 /\ Adds(p, c, "bcastReceived") = 0
      BY <1>1, <2>2, AddsTable
    <3>2. Total(c, "bcastSent") = 0 /\ Total(c, "bcastReceived") = 0
      BY <1>5, <3>1
    <3> QED BY <1>1, <3>2
  <2> QED BY <2>1, <2>2
<1>13. Total(c, "reduceNotRoot") = (N - 1) * Total(c, "reduceRoot")
  <2>1. CASE c.name \in Reductions
    <3>1. c.root \in Procs
      BY <1>2, <2>1 DEF Reductions, Rooted
    <3>2. \A p \in Procs : Adds(p, c, "reduceRoot") = IF c.root = p THEN b ELSE 0
      BY <1>1, <2>1, AddsTable DEF b
    <3>3. \A p \in Procs : Adds(p, c, "reduceNotRoot") = IF c.root = p THEN 0 ELSE b
      BY <1>1, <2>1, AddsTable DEF b
    <3>4. Total(c, "reduceRoot") = b
      BY <1>1, <1>7, <3>1, <3>2
    <3>5. Total(c, "reduceNotRoot") = (N - 1) * b
      BY <1>8, <3>1, <3>3
    <3> QED BY ONLY <3>4, <3>5, Zenon
  <2>2. CASE c.name \notin Reductions
    <3>1. \A p \in Procs : Adds(p, c, "reduceRoot") = 0 /\ Adds(p, c, "reduceNotRoot") = 0
      BY <1>1, <2>2, AddsTable
    <3>2. Total(c, "reduceRoot") = 0 /\ Total(c, "reduceNotRoot") = 0
      BY <1>5, <3>1
    <3> QED BY <1>1, <3>2
  <2> QED BY <2>1, <2>2
<1> QED BY <1>9, <1>10, <1>11, <1>12, <1>13

--------------------------------------------------------------------------------
(* The volumes of all calls of all processes, by operation.                   *)

LEMMA CollectiveIs ==
    ASSUME NEW t \in Seq(Calls)
    PROVE  /\ \A k : k \in CollectiveAt(t) <=> k \in 1..Len(t) /\ t[k].name \in Collectives
           /\ \A k \in CollectiveAt(t) : /\ HookClass(t[k].name) \in {"ROOTED", "GATHER"} <=> t[k].name \in Gathers \cup Rooted
                                         /\ HookClass(t[k].name) \in {"GATHER", "PAIRS"} <=> t[k].name \in Gathers \cup AllToAll
<1>1. DOMAIN t = 1..Len(t)
  OBVIOUS
<1>2. ASSUME NEW name \in Routines
      PROVE  /\ HookClass(name) \in {"ROOTED", "GATHER", "PAIRS", "ALLREDUCE"} <=> name \in Collectives
             /\ HookClass(name) \in {"ROOTED", "GATHER"} <=> name \in Gathers \cup Rooted
             /\ HookClass(name) \in {"GATHER", "PAIRS"} <=> name \in Gathers \cup AllToAll
  BY DEF Routines, HookClass, point_to_point_class, collective_class, Collectives, AllToAll, Rooted, Gathers, Reduces
<1>3. \A k \in 1..Len(t) : t[k].name \in Routines
  <2> TAKE k \in 1..Len(t)
  <2>1. t[k] \in Calls
    OBVIOUS
  <2> QED BY <2>1 DEF Calls
<1> QED BY <1>1, <1>2, <1>3 DEF CollectiveAt

\* A call that corresponds to another adds the same.
LEMMA AddsSame ==
    ASSUME NEW c, NEW d, Fits(c), Fits(d), Corresponds(c, d), NEW p, NEW v \in Volumes
    PROVE  Adds(p, d, v) = Adds(p, c, v)
<1>1. c.name = d.name /\ c.root = d.root /\ c.bytes = d.bytes /\ c.comm_size = d.comm_size /\ c.name \in Collectives
  BY DEF Fits, Corresponds
<1>2. c.name \in Gathers \cup AllToAll => c.recvbytes = d.recvbytes
  BY <1>1 DEF Fits
<1> DEFINE m == mpi_update_db(c)
           o == mpi_update_db(d)
<1>3. /\ m.size = c.bytes /\ m.comm_size = c.comm_size
      /\ m.recvsize = IF c.name \in Gathers \cup AllToAll THEN c.recvbytes ELSE 0
      /\ m.root = IF c.name \in Gathers \cup Rooted THEN c.root ELSE 0
  BY <1>1, NotifiedCollective
<1>4. /\ o.size = d.bytes /\ o.comm_size = d.comm_size
      /\ o.recvsize = IF d.name \in Gathers \cup AllToAll THEN d.recvbytes ELSE 0
      /\ o.root = IF d.name \in Gathers \cup Rooted THEN d.root ELSE 0
  BY <1>1, NotifiedCollective
<1> HIDE DEF m, o
<1>5. o.size = m.size /\ o.comm_size = m.comm_size /\ o.recvsize = m.recvsize /\ o.root = m.root
  BY <1>1, <1>2, <1>3, <1>4
<1>6. volume(p, o, v) = volume(p, m, v)
  BY <1>5 DEF volume, Volumes
<1> QED BY <1>1, <1>6 DEF Adds, m, o

LEMMA JointFits ==
    ASSUME NEW s \in [Procs -> Seq(Calls)], Joint(s), NEW p \in Procs, NEW k \in CollectiveAt(s[p])
    PROVE  Fits(s[p][k])
<1>1. s[p] \in Seq(Calls)
  OBVIOUS
<1>2. /\ k \in 1..Len(s[p]) /\ s[p][k].name \in Collectives
      /\ HookClass(s[p][k].name) \in {"ROOTED", "GATHER"} <=> s[p][k].name \in Gathers \cup Rooted
      /\ HookClass(s[p][k].name) \in {"GATHER", "PAIRS"} <=> s[p][k].name \in Gathers \cup AllToAll
  BY <1>1, CollectiveIs
<1>3. s[p][k] \in Calls
  BY <1>1, <1>2
<1> QED BY <1>2, <1>3 DEF Fits, Joint

\* What the calls of a process add is what its part in the operations adds.
LEMMA OwnPart ==
    ASSUME NEW s \in [Procs -> Seq(Calls)], Joint(s), NEW p \in Procs, NEW v \in Volumes
    PROVE  SumFunctionOnSet(AddedBy(p, s[p], Len(s[p]), v), 1..Len(s[p]))
             = SumFunctionOnSet([k \in CollectiveAt(s[0]) |-> Adds(p, s[0][k], v)], CollectiveAt(s[0]))
<1> DEFINE t == s[p]
           n == Len(t)
           f == AddedBy(p, t, n, v)
           A == CollectiveAt(s[0])
           B == CollectiveAt(t)
           C == 1..n \ B
           g == [k \in A |-> Adds(p, s[0][k], v)]
<1>1. t \in Seq(Calls) /\ n \in Nat /\ s[0] \in Seq(Calls) /\ 0 \in Procs
  BY ProcsFinite
<1>2. \A j \in 1..n : f[j] = Adds(p, t[j], v) /\ f[j] \in Int
  <2> TAKE j \in 1..n
  <2>1. t[j] \in Calls
    BY <1>1
  <2>2. Adds(p, t[j], v) \in Int
    BY <2>1, AddsInt
  <2> QED BY <2>2 DEF AddedBy
<1>3. \A k : k \in B <=> k \in 1..n /\ t[k].name \in Collectives
  BY <1>1, CollectiveIs
<1>4. IsFiniteSet(1..n)
  <2>1. 1 \in Int /\ n \in Int
    BY <1>1
  <2> QED BY ONLY <2>1, FS_Interval
<1>5. IsFiniteSet(B) /\ IsFiniteSet(C)
  <2>1. B \subseteq 1..n /\ C \subseteq 1..n
    BY <1>3
  <2> HIDE DEF B, C
  <2> QED BY ONLY <1>4, <2>1, FS_Subset
<1>6. PICK h \in Bijection(A, B) : \A k \in A : Corresponds(s[0][k], t[h[k]])
  BY DEF Joint
<1>7. /\ \A k \in A : h[k] \in B
      /\ \A j, k \in A : h[j] = h[k] => j = k
      /\ \A z \in B : \E k \in A : h[k] = z
  BY <1>6 DEF Bijection, Injection, Surjection, IsInjective
<1>8. \A k \in A : g[k] = f[h[k]] /\ f[h[k]] \in Int
  <2> TAKE k \in A
  <2>1. h[k] \in B /\ h[k] \in 1..n
    BY <1>3, <1>7
  <2>2. Fits(s[0][k]) /\ Fits(t[h[k]])
    BY <1>1, <2>1, JointFits
  <2>3. Corresponds(s[0][k], t[h[k]])
    BY <1>6
  <2>4. Adds(p, t[h[k]], v) = Adds(p, s[0][k], v)
    BY <2>2, <2>3, AddsSame
  <2> QED BY <1>2, <2>1, <2>4
<1>9. \A k \in A : k \in 1..Len(s[0])
  BY <1>1, CollectiveIs
<1>10. IsFiniteSet(A)
  <2>1. 1 \in Int /\ Len(s[0]) \in Int
    BY <1>1
  <2>2. IsFiniteSet(1..Len(s[0]))
    BY ONLY <2>1, FS_Interval
  <2>3. A \subseteq 1..Len(s[0])
    BY <1>9
  <2> HIDE DEF A
  <2> QED BY ONLY <2>2, <2>3, FS_Subset
<1>11. \A j \in C : f[j] = 0
  BY <1>2, <1>3 DEF Adds
<1>12. B \cup C = 1..n /\ B \cap C = {}
  BY <1>3
<1> HIDE DEF f, g, A, B, C
<1>13. SumFunctionOnSet(g, A) = SumFunctionOnSet(f, B)
  BY ONLY <1>7, <1>8, <1>10, SumImage
<1>14. SumFunctionOnSet(f, C) = Cardinality(C) * 0
  BY ONLY <1>5, <1>11, 0 \in Int, SumConstant
<1>15. Cardinality(C) \in Nat
  BY <1>5, FS_CardinalityType
<1>16. \A j \in B \cup C : f[j] \in Int
  BY <1>2, <1>12
<1>17. SumFunctionOnSet(f, B \cup C) = SumFunctionOnSet(f, B) + SumFunctionOnSet(f, C)
  BY <1>5, <1>12, <1>16, SumUnion
<1>18. SumFunctionOnSet(f, B) \in Int
  <2>1. IsFiniteSet(B) /\ \A j \in B : f[j] \in Int
    BY <1>5, <1>16
  <2>2. \A T \in SUBSET B : SumFunctionOnSet(f, T) \in Int
    BY ONLY <2>1, SumInt
  <2> QED BY <2>2
<1>19. SumFunctionOnSet(f, B \cup C) = SumFunctionOnSet(g, A)
  BY <1>13, <1>14, <1>15, <1>17, <1>18
<1>20. SumFunctionOnSet(f, 1..n) = SumFunctionOnSet(g, A)
  BY ONLY <1>12, <1>19, Zenon
<1> QED BY <1>20 DEF f, g, A

\* Over all processes and all their calls, a volume is the sum of its totals.
Operations == CollectiveAt(prog[0])
Totals(v) == [k \in Operations |-> Total(prog[0][k], v)]

LEMMA TotalInt ==
    ASSUME NEW c \in Calls, NEW v \in Volumes
    PROVE  Total(c, v) \in Int
<1> DEFINE f == [p \in Procs |-> Adds(p, c, v)]
<1>1. IsFiniteSet(Procs) /\ \A p \in Procs : f[p] \in Int
  BY ProcsFinite, AddsInt
<1>2. Total(c, v) = SumFunctionOnSet(f, Procs)
  BY DEF Total
<1> HIDE DEF f
<1>3. \A T \in SUBSET Procs : SumFunctionOnSet(f, T) \in Int
  BY ONLY <1>1, SumInt
<1> QED BY <1>2, <1>3

LEMMA OperationsFinite ==
    ASSUME DataInv
    PROVE  /\ prog \in [Procs -> Seq(Calls)] /\ 0 \in Procs
           /\ IsFiniteSet(Operations) /\ \A k \in Operations : prog[0][k] \in Calls
<1>1. prog \in [Procs -> Seq(Calls)] /\ 0 \in Procs
  BY ProgramsAssumption, ProcsFinite DEF DataInv
<1>2. prog[0] \in Seq(Calls)
  BY <1>1
<1>3. \A k \in Operations : k \in 1..Len(prog[0])
  BY <1>2, CollectiveIs DEF Operations
<1>4. 1 \in Int /\ Len(prog[0]) \in Int
  BY <1>2
<1>5. IsFiniteSet(1..Len(prog[0]))
  BY ONLY <1>4, FS_Interval
<1>6. Operations \subseteq 1..Len(prog[0])
  BY <1>3
<1>7. IsFiniteSet(Operations)
  BY ONLY <1>5, <1>6, FS_Subset
<1> QED BY <1>1, <1>2, <1>3, <1>7

LEMMA AllOfIs ==
    ASSUME DataInv, Through, Joint(prog), NEW v \in Volumes
    PROVE  AllOf(v) = SumFunctionOnSet(Totals(v), Operations)
<1> DEFINE f == [p \in Procs |-> data[p].collective[v]]
           F == [p \in Procs |-> [k \in Operations |-> Adds(p, prog[0][k], v)]]
           G == [k \in Operations |-> [p \in Procs |-> Adds(p, prog[0][k], v)]]
           g == Totals(v)
<1>1. /\ prog \in [Procs -> Seq(Calls)] /\ IsFiniteSet(Procs) /\ IsFiniteSet(Operations)
      /\ \A k \in Operations : prog[0][k] \in Calls
  BY OperationsFinite, ProcsFinite
<1>2. ASSUME NEW p \in Procs
      PROVE  f[p] = SumFunctionOnSet(F[p], Operations)
  <2> DEFINE n == Len(prog[p])
             h == AddedBy(p, prog[p], n, v)
             q == [k \in Operations |-> Adds(p, prog[0][k], v)]
  <2>1. n \in Nat /\ prog[p] \in Seq(Calls)
    BY <1>1
  <2>2. Kept(p, prog[p], pc[p], posted[p], delivered[p], data[p])
    BY DEF DataInv, KeptBy
  <2>3. pc[p] \in 1..n + 1 /\ Collected(p, prog[p], pc[p], data[p])
    BY <2>2, KeptFacts
  <2>4. pc[p] > n
    BY DEF Through
  <2>5. pc[p] - 1 = n
    BY <2>1, <2>3, <2>4
  <2>6. data[p].collective[v] = SumFunctionOnSet(AddedBy(p, prog[p], pc[p] - 1, v), 1..pc[p] - 1)
    BY <2>3 DEF Collected
  <2>7. SumFunctionOnSet(h, 1..n) = SumFunctionOnSet(q, Operations)
    BY <1>1, OwnPart DEF Operations
  <2>8. f[p] = data[p].collective[v] /\ F[p] = q
    BY Zenon
  <2>9. h = AddedBy(p, prog[p], n, v)
    OBVIOUS
  <2> HIDE DEF f, F, q, h, n
  <2> QED BY ONLY <2>5, <2>6, <2>7, <2>8, <2>9, Zenon
<1>3. \A p \in Procs, k \in Operations : F[p][k] \in Int /\ G[k][p] = F[p][k]
  BY <1>1, AddsInt
<1>4. \A k \in Operations : g[k] = SumFunctionOnSet(G[k], Procs)
  <2> TAKE k \in Operations
  <2>1. G[k] = [p \in Procs |-> Adds(p, prog[0][k], v)]
    BY Zenon
  <2>2. g[k] = Total(prog[0][k], v)
    BY DEF Totals
  <2> HIDE DEF G, g
  <2> QED BY ONLY <2>1, <2>2, Zenon DEF Total
<1>5. AllOf(v) = SumFunctionOnSet(f, Procs)
  BY Zenon DEF AllOf
<1> HIDE DEF f, F, G, g
<1>6. SumFunctionOnSet(f, Procs) = SumFunctionOnSet(g, Operations)
  <2>1. Transposed(Procs, Operations, F, G, f, g)
    BY <1>1, <1>2, <1>3, <1>4 DEF Transposed
  <2> QED BY ONLY <2>1, SumSwap
<1> QED BY <1>5, <1>6 DEF g

\* The collective volumes of all processes, when every process is through.
LEMMA AllCollected ==
    ASSUME DataInv, Through, Joint(prog)
    PROVE  /\ AllOf("gatherSent") = AllOf("gatherReceived")
           /\ AllOf("alltoallSent") = AllOf("alltoallReceived")
           /\ N * AllOf("allgatherSent") = AllOf("allgatherReceived")
           /\ (N - 1) * AllOf("bcastSent") = AllOf("bcastReceived")
           /\ (N - 1) * AllOf("reduceRoot") = AllOf("reduceNotRoot")
<1>1. /\ prog \in [Procs -> Seq(Calls)] /\ 0 \in Procs /\ IsFiniteSet(Operations)
      /\ \A k \in Operations : prog[0][k] \in Calls
  BY OperationsFinite
<1>2. \A k \in Operations : Fits(prog[0][k])
  BY <1>1, JointFits DEF Operations
<1>3. \A v \in Volumes : AllOf(v) = SumFunctionOnSet(Totals(v), Operations)
  BY AllOfIs
<1>4. \A v \in Volumes : \A k \in Operations : Totals(v)[k] = Total(prog[0][k], v) /\ Totals(v)[k] \in Int
  BY <1>1, TotalInt DEF Totals
<1>5. ASSUME NEW v \in Volumes, NEW w \in Volumes, NEW c \in Int,
             \A k \in Operations : Total(prog[0][k], w) = c * Total(prog[0][k], v)
      PROVE  AllOf(w) = c * AllOf(v)
  <2> DEFINE f == Totals(v)
             g == Totals(w)
  <2>1. \A k \in Operations : f[k] \in Int /\ g[k] = c * f[k]
    BY <1>4, <1>5
  <2>2. AllOf(w) = SumFunctionOnSet(g, Operations) /\ AllOf(v) = SumFunctionOnSet(f, Operations)
    BY <1>3
  <2> HIDE DEF f, g
  <2>3. SumFunctionOnSet(g, Operations) = c * SumFunctionOnSet(f, Operations)
    BY ONLY <1>1, <2>1, c \in Int, SumScale
  <2> QED BY <2>2, <2>3
<1>6. ASSUME NEW v \in Volumes, NEW w \in Volumes,
             \A k \in Operations : Total(prog[0][k], w) = Total(prog[0][k], v)
      PROVE  AllOf(w) = AllOf(v)
  <2> DEFINE f == Totals(v)
             g == Totals(w)
  <2>1. \A k \in Operations : f[k] \in Int /\ g[k] = f[k]
    BY <1>4, <1>6
  <2>2. AllOf(w) = SumFunctionOnSet(g, Operations) /\ AllOf(v) = SumFunctionOnSet(f, Operations)
    BY <1>3
  <2> HIDE DEF f, g
  <2>3. SumFunctionOnSet(g, Operations) = SumFunctionOnSet(f, Operations)
    BY ONLY <1>1, <2>1, SumEqual
  <2> QED BY <2>2, <2>3
<1>7. N \in Int /\ N - 1 \in Int
  BY ProcsFinite
<1>8. {"gatherSent", "gatherReceived", "alltoallSent", "alltoallReceived", "allgatherSent", "allgatherReceived",
       "bcastSent", "bcastReceived", "reduceRoot", "reduceNotRoot"} \subseteq Volumes
  BY DEF Volumes
<1>9. AllOf("gatherReceived") = AllOf("gatherSent") /\ AllOf("alltoallReceived") = AllOf("alltoallSent")
  BY <1>2, <1>6, <1>8, TotalsRelate
<1>10. AllOf("allgatherReceived") = N * AllOf("allgatherSent")
  BY <1>2, <1>5, <1>7, <1>8, TotalsRelate
<1>11. AllOf("bcastReceived") = (N - 1) * AllOf("bcastSent")
  BY <1>2, <1>5, <1>7, <1>8, TotalsRelate
<1>12. AllOf("reduceNotRoot") = (N - 1) * AllOf("reduceRoot")
  BY <1>2, <1>5, <1>7, <1>8, TotalsRelate
<1> QED BY <1>9, <1>10, <1>11, <1>12

AllJoint == \A s \in Programs : Joint(s)

\* When every process is through, as many bytes and messages were sent as
\* received, and the volumes of the collective operations balance, in every run
\* of programs that address processes and take part in each collective together
\* (count_sent, count_received, visit of the collective calls).
THEOREM VolumesBalanced == (Conforming /\ AllAddressed /\ AllJoint) => (Spec => []VolumesBalance)
<1> SUFFICES ASSUME Conforming, AllAddressed, AllJoint
             PROVE  Spec => []VolumesBalance
  OBVIOUS
<1>1. Init => DataInv /\ FlowInv
  BY DataInit, FlowInit
<1>2. DataInv /\ FlowInv /\ [Next]_vars => DataInv' /\ FlowInv'
  BY DataNext, FlowNext
<1>3. DataInv /\ FlowInv => VolumesBalance
  <2> SUFFICES ASSUME DataInv, FlowInv, Through
               PROVE  VolumesBalance
    BY DEF VolumesBalance
  <2>1. Joint(prog)
    BY DEF AllJoint, DataInv
  <2> QED BY <2>1, AllReceived, AllCollected DEF VolumesBalance
<1> QED BY <1>1, <1>2, <1>3, PTL DEF Spec

================================================================================
