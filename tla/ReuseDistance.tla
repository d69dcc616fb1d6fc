---------------------------- MODULE ReuseDistance ----------------------------
(***************************************************************************)
(* Temporal reuse of data and of instructions (DataTempReuse.cc,           *)
(* InstTempReuse.cc): for each access to something accessed before, the    *)
(* number of other things accessed since.  The times of the last accesses  *)
(* are the keys of a splay tree, a reuse distance is the size of a right   *)
(* subtree.  One step is one instruction of one thread (WKLDchar::analyze, *)
(* which counts the instruction first: times begin with 1).                *)
(***************************************************************************)
EXTENDS Splay, Functions, FiniteSetsExt

CONSTANTS
    NThreads,       \* max-expected-threads, the size of WKLDcharForThreads
    Threads,        \* the sets of initialised threads considered
    Steps,          \* instructions: [inst, addr, bytes], bytes = 0 unless load/store
    LineSize,       \* data_cache_line_size, 0: every byte on its own
    Resolution,     \* data_reuse_distance_resolution
    FinalBin,       \* data_reuse_distance_resolution_final_bin
    InstsPerLine,   \* inst_cache_line_size / inst_size, 0 if one is not set
    MaxSteps(_)     \* bound: instructions of a run with that many threads

ASSUME ReuseAssumption ==
    /\ NThreads \in Nat \ {0}
    /\ LineSize \in Nat /\ InstsPerLine \in Nat
    /\ Threads \subseteq SUBSET (0..NThreads - 1)
    /\ \A s \in Steps : s.addr \in Nat /\ s.bytes \in Nat

VARIABLES
    initialized,    \* InitializedThreads
    cycle,          \* (*mix)->getNumTotalInsts() of each thread
    last,           \* LastMemoryAccess of each thread: when a line was accessed
    bytes,          \* keys of LastMemoryAccessByte (memory footprint)
    tree,           \* DistanceTree
    histogram,      \* DistanceDistributionMap
    instLast, instTree, instHistogram,   \* the same for InstTempReuse
    expected, instExpected               \* histograms of the exact distances

reuseVars == <<initialized, cycle, last, bytes, tree, histogram, instLast, instTree,
          instHistogram, expected, instExpected>>

Ids == 0..NThreads - 1
Empty == <<>>
PerThread(v) == [t \in Ids |-> v]

ReuseInit ==
    /\ initialized \in Threads
    /\ cycle = PerThread(0)
    /\ last = PerThread(Empty) /\ bytes = PerThread({})
    /\ tree = PerThread(<<>>) /\ histogram = PerThread(Empty)
    /\ instLast = PerThread(Empty) /\ instTree = PerThread(<<>>)
    /\ instHistogram = PerThread(Empty)
    /\ expected = PerThread(Empty) /\ instExpected = PerThread(Empty)

-----------------------------------------------------------------------------
(* Histograms.                                                             *)

Put(f, k, v) == [x \in DOMAIN f \cup {k} |-> IF x = k THEN v ELSE f[x]]
Increment(h, k) == Put(h, k, IF k \in DOMAIN h THEN h[k] + 1 ELSE 1)

\* Distances are small here: up to 2^10.
upperPowerOfTwo(v) == IF v = 0 THEN 0 ELSE Min({2 ^ k : k \in {j \in 0..10 : 2 ^ j >= v}})

DataBin(d) == IF d > FinalBin \/ Resolution < 1 THEN upperPowerOfTwo(d)
              ELSE d + (Resolution - (d % Resolution))

-----------------------------------------------------------------------------
(* DataTempReuse::visit.                                                   *)

\* The loop over the bytes of an access.  With a cache line size there is
\* one round: the access counts for the line of its first byte.
Min0(distance, d) == distance = 0 \/ d < distance
OneByte(s, a, now) ==
    LET seen == a \in DOMAIN s.last
        previous == IF seen THEN s.last[a] ELSE 0
        reused == s.found \/ seen
        splayed == IF reused THEN SplayTo(previous, s.tree) ELSE s.tree
        known == reused /\ AtRoot(previous, splayed)
        d == DistanceIn(previous, s.tree)
        better == known /\ Min0(s.distance, d)
    IN  [found |-> reused, last |-> Put(s.last, a, now), tree |-> splayed,
         distance |-> IF better THEN d ELSE s.distance,
         previous |-> IF better THEN previous ELSE s.previous]

EachByte(s, a, n, now) ==
    LET after[k \in 0..n] == IF k = 0 THEN s ELSE OneByte(after[k - 1], a + k - 1, now)
    IN  after[n]

Line(a) == IF LineSize = 0 THEN a ELSE a \div LineSize
Rounds(n) == IF LineSize = 0 THEN n ELSE 1

inserted_m(s, now) == Insert(now, s.tree)        \* mutant: the old time stays
\* Update replaces the time the distance was measured from, per access.
inserted(s, now) == IF s.found THEN Update(s.previous, now, s.tree) ELSE Insert(now, s.tree)

\* The exact distance: lines accessed since the last access to this one.
Exact(l, a) == Cardinality({b \in DOMAIN l : l[b] > l[a]})

\* What the loop found out goes to the state of the thread.
data_store(t, s, now) ==
    /\ last' = [last EXCEPT ![t] = s.last]
    /\ tree' = [tree EXCEPT ![t] = inserted(s, now)]
    /\ histogram' = IF s.found THEN [histogram EXCEPT ![t] = Increment(@, DataBin(s.distance))]
                    ELSE histogram

data_visit(t, a, n, now) ==
    /\ data_store(t, EachByte([found |-> FALSE, distance |-> 0, previous |-> 0,
                               last |-> last[t], tree |-> tree[t]], Line(a), Rounds(n), now), now)
    /\ bytes' = IF LineSize = 0 THEN bytes
                ELSE [bytes EXCEPT ![t] = @ \cup (a..a + n - 1)]
    /\ expected' = IF Line(a) \in DOMAIN last[t]
                   THEN [expected EXCEPT ![t] = Increment(@, DataBin(Exact(last[t], Line(a))))]
                   ELSE expected

(* InstTempReuse::visit.  Instructions are numbered from the line size on. *)

InstLine(i) == IF InstsPerLine = 0 THEN i ELSE i \div InstsPerLine

inst_updated(splayed, previous, now) ==
    IF AtRoot(previous, splayed) THEN Update(previous, now, splayed) ELSE Insert(now, splayed)

inst_visit(t, i, now) ==
    LET a == InstLine(i)
        found == a \in DOMAIN instLast[t]
        previous == instLast[t][a]
    IN  /\ instLast' = [instLast EXCEPT ![t] = Put(@, a, now)]
        /\ instTree' = [instTree EXCEPT ![t] =
                            IF found THEN inst_updated(SplayTo(previous, @), previous, now)
                            ELSE Insert(now, @)]
        /\ IF found
           THEN /\ instHistogram' = [instHistogram EXCEPT ![t] =
                        Increment(@, upperPowerOfTwo(DistanceIn(previous, instTree[t])))]
                /\ instExpected' = [instExpected EXCEPT ![t] =
                        Increment(@, upperPowerOfTwo(Exact(instLast[t], a)))]
           ELSE UNCHANGED <<instHistogram, instExpected>>

TotalInsts == MapThenSumSet(LAMBDA t : cycle[t], Ids)

\* WKLDchar::analyze: one instruction of thread t.
analyze_reuse(t, s) ==
    /\ t \in initialized
    /\ TotalInsts < MaxSteps(Cardinality(initialized))
    /\ cycle' = [cycle EXCEPT ![t] = @ + 1]
    /\ IF s.bytes > 0 THEN data_visit(t, s.addr, s.bytes, cycle[t] + 1)
       ELSE UNCHANGED <<last, tree, bytes, histogram, expected>>
    /\ inst_visit(t, s.inst, cycle[t] + 1)
    /\ UNCHANGED initialized

ReuseNext == \E t \in Ids, s \in Steps : analyze_reuse(t, s)
ReuseSpec == ReuseInit /\ [][ReuseNext]_reuseVars

-----------------------------------------------------------------------------
(* compute_shared_memory: what all initialised threads accessed.  Two       *)
(* buffers take turns; a thread that was not initialised leaves its turn    *)
(* out of the intersections but not of the choice of the buffer.  A buffer  *)
(* that is never filled keeps the size it was given, the set of thread 0.   *)

PingPong(sets) ==
    LET out[i \in 2..NThreads] ==
            IF i = 2 THEN [b \in 0..1 |-> IF b = 0 THEN sets[0] \cap sets[1] ELSE sets[0]]
            ELSE IF i - 1 \notin initialized THEN out[i - 1]
            ELSE [out[i - 1] EXCEPT ![i % 2] = out[i - 1][(i - 1) % 2] \cap sets[i - 1]]
    IN  out[NThreads]

shared_index_m(n) == (n + 1) % 2                 \* mutant: the other buffer
shared_index(n) == n % 2
SharedSize(sets) ==
    IF NThreads < 2 \/ ~({0, 1} \subseteq initialized) THEN 0
    ELSE LET realSize == Cardinality(initialized) IN Cardinality(PingPong(sets)[shared_index(realSize)])

sharedAccesses == SharedSize([t \in Ids |-> DOMAIN last[t]])
sharedBytes == IF LineSize = 0 THEN sharedAccesses ELSE SharedSize(bytes)

-----------------------------------------------------------------------------
(* Properties.                                                             *)

\* The trees stay sound: search trees with one key per line, that of its last
\* access, and every stored subtree_size right; and from each of these trees
\* every operation of splay.cc leads to a sound tree with the keys it should have.
SoundOn(tr, S) ==
    /\ Holds(tr, S)
    /\ \A k \in S \cup {Max(S \cup {0}) + 1} :
          Holds(SplayTo(k, tr), S) /\ Holds(Delete(k, tr), S \ {k}) /\ Holds(Insert(k, tr), S \cup {k})
TreesSound == \A t \in Ids : SoundOn(tree[t], Range(last[t])) /\ SoundOn(instTree[t], Range(instLast[t]))

\* The histograms that JSONdump prints are those of the exact distances: the
\* number of different lines accessed since the line was accessed last.
DistancesExact == histogram = expected /\ instHistogram = instExpected

\* The memory footprint: what compute_shared_memory reports is the size of
\* the set that all threads accessed, if the initialised threads are the
\* first ones.
SharedExact ==
    \A n \in 2..NThreads : initialized = 0..n - 1 =>
        /\ sharedAccesses = Cardinality({a \in DOMAIN last[0] :
                                \A t \in initialized : a \in DOMAIN last[t]})
        /\ LineSize > 0 =>
             sharedBytes = Cardinality({b \in bytes[0] : \A t \in initialized : b \in bytes[t]})
=============================================================================
