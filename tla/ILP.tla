---------------------------------- MODULE ILP ----------------------------------
(* Instruction-level parallelism (src/library/ILP.cc): the issue cycle of     *)
(* every executed instruction on a machine with unlimited units, out of order *)
(* ("ooo", value1 in the code) and in order ("io", value2), optionally        *)
(* through a scheduler window. One execution of one thread is walked; the     *)
(* variables log, src and entered keep, beside the code's state, what was       *)
(* executed and which executed instructions the content of a register comes   *)
(* from: a register of the activation the walk is in, whatever the code does. *)
EXTENDS Integers, Sequences, FiniteSets, FiniteSetsExt, SequencesExt

CONSTANTS
    Setups,     \* [ctrl, window, code, next]: flags, window_size, the program's
                \* blocks and the successors of each block
    Addrs,      \* addresses a load or a store may touch
    Constants,  \* operands that are constants or labels
    MaxIssued   \* bound on the executed instructions

InstructionsOf(s) == UNION {Range(s.code[b]) : b \in DOMAIN s.code}
CallsBody(s, I) == I.op = "call" /\ I.callee \in DOMAIN s.code
EntriesOf(s) == {"entry"} \cup {I.callee : I \in {J \in InstructionsOf(s) : CallsBody(s, J)}}

\* What the LLVM verifier guarantees of a program: names are assigned once,
\* phis stand first in their block, outside entry blocks, and have a value for
\* every predecessor; parameters are names of their own, each of one function.
WellFormedInstruction(s, I) ==
    /\ I.id \notin Constants \cup {"none"}
    /\ \A J \in InstructionsOf(s) : J.id = I.id => J = I
    /\ I.op # "phi" => I.args \in Seq(Range(I.args))
    /\ I.op \in {"load", "store"} => I.type = "mem" /\ Len(I.args) = IF I.op = "load" THEN 1 ELSE 2
    /\ I.op = "call" => /\ I.params \in Seq(Range(I.params))
                        /\ \A k, l \in DOMAIN I.params : I.params[k] = I.params[l] => k = l
                        /\ \A p \in Range(I.params) : p \notin Constants /\ \A J \in InstructionsOf(s) : J.id # p
                        /\ \A J \in InstructionsOf(s) :
                              J.op = "call" /\ Range(J.params) \cap Range(I.params) # {} => J.callee = I.callee
WellFormed(s) ==
    /\ s.window \in Nat
    /\ "entry" \in DOMAIN s.code /\ "none" \notin DOMAIN s.code
    /\ IsFiniteSet(DOMAIN s.code)
    /\ \A I \in InstructionsOf(s) : WellFormedInstruction(s, I)
    /\ \A b, c \in DOMAIN s.code : b # c => Range(s.code[b]) \cap Range(s.code[c]) = {}
    /\ \A b \in DOMAIN s.code :
          /\ s.code[b] \in Seq(Range(s.code[b])) /\ s.next[b] \subseteq DOMAIN s.code
          /\ \A j \in DOMAIN s.code[b] : s.code[b][j].op = "phi" =>
                /\ b \notin EntriesOf(s)
                /\ \A i \in 1..j - 1 : s.code[b][i].op = "phi"
                /\ \A p \in DOMAIN s.code : b \in s.next[p] => p \in DOMAIN s.code[b][j].from
ASSUME SetupAssumption == \A s \in Setups : WellFormed(s)

VARIABLES
    setup, at, came, stack, returned,               \* the walk
    LastUsageOperands, LastUsageMemory, prevBB,
    MinIssueCycleForCtrl, MaxIssueCycle,
    spans, Previous,                                \* the per-type counters
    scheduler, window_cycle,
    log, src, entered                               \* history

walk == <<setup, at, came, stack, returned>>
counters == <<MinIssueCycleForCtrl, MaxIssueCycle, spans, Previous, scheduler, window_cycle>>
vars == <<walk, counters, LastUsageOperands, LastUsageMemory, prevBB, log, src, entered>>

Orders == {"ooo", "io"}
Types == {"mem", "int", "ctrl", "fp"}
Zero == [o \in Orders |-> 0]
Untouched == [store |-> Zero, load |-> Zero]
Latest(c, d) == [o \in Orders |-> IF d[o] > c[o] THEN d[o] ELSE c[o]]
Plus(c, k) == [o \in Orders |-> c[o] + k]
InOrder_m(c) == c   \* mutant: no clamp
\* impose in-order execution
InOrder(c) == [c EXCEPT !["io"] = Latest(c, MaxIssueCycle)["io"]]
\* the values are never retracted: a map insertion overrides
Put(f, k, v) == [x \in DOMAIN f \cup {k} |-> IF x = k THEN v ELSE f[x]]
Get(f, k, default) == IF k \in DOMAIN f THEN f[k] ELSE default

Init ==
    /\ setup \in Setups
    /\ at = <<"entry", 1>> /\ came = "none" /\ stack = <<>> /\ returned = "none"
    /\ LastUsageOperands = <<>> /\ LastUsageMemory = <<>> /\ prevBB = "none"
    /\ MinIssueCycleForCtrl = 0 /\ MaxIssueCycle = Zero
    /\ spans = [t \in Types |-> Zero] /\ Previous = [t \in Types |-> Zero]
    /\ scheduler = [o \in Orders |-> <<>>] /\ window_cycle = Zero
    /\ log = <<>> /\ src = <<>> /\ entered = <<>>

LookupOperand(u, v) == Get(u, v, Zero)
InsertOperandUsage(u, v, c) == IF v \in Constants THEN u ELSE Put(u, v, c)

Instructions == InstructionsOf(setup)
IsOp(v, op) == \E I \in Instructions : I.id = v /\ I.op = op
valueIsConstantLike(v) == v \in Constants \/ IsOp(v, "phi")
valueIsFunctionCall(v) == IsOp(v, "call")

\* The cycle an operand allows: a register one cycle after its producer, the
\* result of a phi at the cycle recorded for it, a constant at any cycle.
operand_cycle(u, v) == Plus(LookupOperand(u, v), IF valueIsConstantLike(v) THEN 0 ELSE 1)
after_operand(c, u, v) == IF v \in Constants THEN c ELSE InOrder(Latest(c, operand_cycle(u, v)))

\* A phi hands the cycle of the value that comes from prevBB on.
phi_cycle(I) ==
    IF prevBB \notin DOMAIN I.from THEN LastUsageOperands
    ELSE LET v == I.from[prevBB]
             u == LookupOperand(LastUsageOperands, v)
             c == IF valueIsConstantLike(v) \/ valueIsFunctionCall(v) THEN u ELSE InOrder(Plus(u, 1))
         IN  InsertOperandUsage(LastUsageOperands, I.id, c)

\* The loop over the operands of I, from cycle c: the cycle they allow, and
\* the registers with the parameters that were given an argument, in order.
operands_cycle(I, params, c) ==
    LET r[k \in 0..Len(I.args)] ==
            IF k = 0 THEN [cycle |-> c, usage |-> LastUsageOperands]
            ELSE [cycle |-> after_operand(r[k - 1].cycle, r[k - 1].usage, I.args[k]),
                  usage |-> IF k > Len(params) THEN r[k - 1].usage
                            ELSE InsertOperandUsage(r[k - 1].usage, params[k],
                                                    LookupOperand(r[k - 1].usage, I.args[k]))]
    IN  r[Len(I.args)]

\* Each of the following is the issue cycle of I started from cycle c, with
\* the register and memory maps it leaves.
other_cycle(I, params, c) ==
    LET r == operands_cycle(I, params, c)
    IN  [cycle |-> r.cycle, usage |-> InsertOperandUsage(r.usage, I.id, r.cycle), memory |-> LastUsageMemory]
call_cycle(I, c) ==
    IF I.callee = "unknown" THEN [cycle |-> c, usage |-> LastUsageOperands, memory |-> LastUsageMemory]
    ELSE other_cycle(I, I.params, c)
load_cycle(I, a, c) ==
    LET ptr == Plus(LookupOperand(LastUsageOperands, I.args[1]), 1)
        m == Get(LastUsageMemory, a, Untouched)
        raw == IF a \in DOMAIN LastUsageMemory THEN Plus(m.store, 1) ELSE Zero
        d == InOrder(Latest(Latest(c, ptr), raw))
    IN  [cycle |-> d, usage |-> InsertOperandUsage(LastUsageOperands, I.id, d),
         memory |-> Put(LastUsageMemory, a, [m EXCEPT !.load = Latest(m.load, d)])]
\* mutant: the earlier loads of the address are forgotten
store_cycle_m(I, a, c) ==
    LET m == Get(LastUsageMemory, a, Untouched)
        d == InOrder(Latest(Latest(c, Plus(LookupOperand(LastUsageOperands, I.args[1]), 1)), Plus(m.store, 1)))
    IN  [cycle |-> d, usage |-> InsertOperandUsage(LastUsageOperands, I.id, d),
         memory |-> Put(LastUsageMemory, a, [m EXCEPT !.store = Latest(m.store, d)])]
store_cycle(I, a, c) ==
    LET ops == Latest(Plus(LookupOperand(LastUsageOperands, I.args[1]), 1),
                      Plus(LookupOperand(LastUsageOperands, I.args[2]), 1))
        m == Get(LastUsageMemory, a, Untouched)
        order == IF a \in DOMAIN LastUsageMemory
                 THEN Latest(Plus(m.store, 1), Plus(m.load, 1)) ELSE Zero
        d == Latest(InOrder(Latest(c, ops)), order)
        u == InsertOperandUsage(LastUsageOperands, I.id, d)
    IN  [cycle |-> d, usage |-> InsertOperandUsage(u, I.args[2], d),
         memory |-> Put(LastUsageMemory, a, [m EXCEPT !.store = Latest(m.store, d)])]

getInstIssueCycle(I, a, c) ==
    CASE I.op = "call"  -> call_cycle(I, c)
      [] I.op = "load"  -> load_cycle(I, a, c)
      [] I.op = "store" -> store_cycle(I, a, c)
      [] OTHER -> other_cycle(I, <<>>, c)

--------------------------------------------------------------------------------
\* history: the executed instructions whose results I reads, and the accesses
\* to the same address it must not overtake; <<m, g>> asks for g cycles after m
Sources(v) == Get(src, v, {})
reads(I) == IF I.op = "call" /\ I.callee = "unknown" THEN {} ELSE UNION {Sources(v) : v \in Range(I.args)}
conflicts(I, a) ==
    {<<m, 1>> : m \in {k \in DOMAIN log : /\ I.op \in {"load", "store"} /\ log[k].addr = a
                                          /\ {I.op, log[k].op} \in {{"store"}, {"load", "store"}}}}
\* the parameters a call gives a cycle, and the argument each is bound to
bound(I) == IF I.op # "call" \/ I.callee = "unknown" THEN {} ELSE {I.params[k] : k \in DOMAIN I.params \cap DOMAIN I.args}
argument(I, p) == I.args[CHOOSE k \in DOMAIN I.params \cap DOMAIN I.args : I.params[k] = p]
produced(I) == Put(src, I.id, {<<Len(log) + 1, 1>>})
\* The registers of a function that is called are its own: at first they are
\* its parameters. The caller's are kept on the stack of the walk.
record(I, a, c, counted) ==
    /\ log' = Append(log, [op |-> I.op, type |-> I.type, addr |-> a, cycle |-> c, counted |-> counted,
                           deps |-> reads(I) \cup conflicts(I, a)])
    /\ src' = IF CallsBody(setup, I) THEN [p \in bound(I) |-> Sources(argument(I, p))] ELSE produced(I)

\* the walk: from instruction I to the next one of the execution
Block == setup.code[at[1]]
Current == Block[at[2]]
Enabled == returned = "none" /\ at[2] <= Len(Block) /\ Len(log) < MaxIssued
advance(I) ==
    /\ UNCHANGED setup
    /\ IF CallsBody(setup, I)
       THEN /\ stack' = Append(stack, <<at, came, I.id, produced(I)>>)
            /\ at' = <<I.callee, 1>> /\ came' = "none" /\ UNCHANGED <<returned, entered>>
       ELSE IF I.op = "ret" /\ stack # <<>>
       THEN returned' = I.id /\ UNCHANGED <<stack, at, came, entered>>
       ELSE IF at[2] = Len(Block) /\ setup.next[at[1]] # {}
       THEN /\ \E b \in setup.next[at[1]] : at' = <<b, 1>>
            /\ came' = at[1] /\ entered' = src' /\ UNCHANGED <<stack, returned>>
       ELSE at' = [at EXCEPT ![2] = @ + 1] /\ UNCHANGED <<stack, came, returned, entered>>

--------------------------------------------------------------------------------
\* with a window, nothing is issued before the window's first cycle
start == IF setup.window > 0 THEN window_cycle ELSE Zero
AddrsOf(I) == IF I.op \in {"load", "store"} THEN Addrs ELSE {0}

\* Visit of a phi: only the maps move, the phi itself is not issued. The phis
\* of a block take the values that came into the block, all at once.
visit_phi ==
    /\ Enabled
    /\ Current.op = "phi"
    /\ LastUsageOperands' = phi_cycle(Current)
    /\ LET v == Current.from[came]
           S == Get(entered, v, {})
       IN  src' = Put(src, Current.id, IF valueIsFunctionCall(v) THEN {<<s[1], 0>> : s \in S} ELSE S)
    /\ advance(Current)
    /\ UNCHANGED <<counters, LastUsageMemory, prevBB, log>>

\* ANALYZE_ILP_IGNORE_CTRL: a control instruction leaves after the maps moved.
visit_ignored ==
    /\ Enabled
    /\ Current.op # "phi" /\ setup.ctrl = "ignore" /\ Current.type = "ctrl"
    /\ LET r == getInstIssueCycle(Current, 0, start)
       IN  /\ LastUsageOperands' = r.usage /\ LastUsageMemory' = r.memory
           /\ record(Current, 0, LookupOperand(r.usage, Current.id), FALSE)
    /\ advance(Current)
    /\ UNCHANGED <<counters, prevBB>>

\* The scheduler is a list of cycles in which nothing depends on the order: it
\* is kept as a function from the numbers of the instructions in it.
Without(q, x) == Restrict(q, {n \in DOMAIN q : q[n] # x})
\* mutant: the window's first cycle is released only once
released_m(q, c) ==
    IF Cardinality(DOMAIN q) # setup.window THEN [queue |-> q, cycle |-> c]
    ELSE [queue |-> Without(q, c), cycle |-> c + 1]
\* At window_size instructions, cycles are released from window_cycle on until
\* one of them frees an entry.
released(q, c) ==
    LET later == {x \in Range(q) : x >= c}
    IN  IF Cardinality(DOMAIN q) # setup.window \/ later = {} THEN [queue |-> q, cycle |-> c]
        ELSE [queue |-> Without(q, Min(later)), cycle |-> Min(later) + 1]
schedule(c) ==
    IF setup.window = 0 THEN UNCHANGED <<scheduler, window_cycle>>
    ELSE LET r == [o \in Orders |-> released(Put(scheduler[o], Len(log) + 1, c[o]), window_cycle[o])]
         IN  /\ scheduler' = [o \in Orders |-> r[o].queue]
             /\ window_cycle' = [o \in Orders |-> r[o].cycle]

\* ANALYZE_ILP_CTRL: control instructions issue one after the other.
serialised(I, c) ==
    IF setup.ctrl = "serialise" /\ I.type = "ctrl" /\ c["ooo"] < MinIssueCycleForCtrl
    THEN [c EXCEPT !["ooo"] = MinIssueCycleForCtrl] ELSE c

\* mutant: the last cycle is compared, not the largest
count_span_m(t, c) ==
    IF t \notin Types THEN UNCHANGED <<spans, Previous>>
    ELSE /\ spans' = [spans EXCEPT ![t] = [o \in Orders |-> @[o] + IF c[o] > Previous[t][o] THEN 1 ELSE 0]]
         /\ Previous' = [Previous EXCEPT ![t] = c]
\* The span of a type counts the cycles that lie after all earlier ones.
count_span(t, c) ==
    IF t \notin Types THEN UNCHANGED <<spans, Previous>>
    ELSE /\ spans' = [spans EXCEPT ![t] = [o \in Orders |-> @[o] + IF c[o] > Previous[t][o] THEN 1 ELSE 0]]
         /\ Previous' = [Previous EXCEPT ![t] = Latest(@, c)]

visit_issued ==
    /\ Enabled
    /\ Current.op # "phi" /\ ~(setup.ctrl = "ignore" /\ Current.type = "ctrl")
    /\ \E a \in AddrsOf(Current) :
         LET r == getInstIssueCycle(Current, a, start)
             c == serialised(Current, InOrder(r.cycle))
         IN  /\ MinIssueCycleForCtrl' = IF setup.ctrl = "serialise" /\ Current.type = "ctrl"
                                        THEN c["ooo"] + 1 ELSE MinIssueCycleForCtrl
             /\ LastUsageOperands' = InsertOperandUsage(r.usage, Current.id, c)
             /\ LastUsageMemory' = r.memory
             /\ MaxIssueCycle' = Latest(MaxIssueCycle, c)
             /\ count_span(Current.type, c)
             /\ schedule(c)
             /\ record(Current, a, c, TRUE)
    /\ prevBB' = at[1]
    /\ advance(Current)

\* After the return, the caller's walk gives the call the cycle of the return.
updateILPforCall ==
    /\ returned # "none"
    /\ LET call == Last(stack)[3]
           c == Latest(LookupOperand(LastUsageOperands, call), LookupOperand(LastUsageOperands, returned))
           kept == Last(stack)[4]
       IN  /\ LastUsageOperands' = InsertOperandUsage(LastUsageOperands, call, c)
           /\ src' = Put(kept, call, kept[call] \cup Sources(returned))
           /\ at' = [Last(stack)[1] EXCEPT ![2] = @ + 1] /\ came' = Last(stack)[2]
    /\ stack' = Front(stack) /\ returned' = "none"
    /\ UNCHANGED <<setup, counters, LastUsageMemory, prevBB, log, entered>>

Next == visit_phi \/ visit_ignored \/ visit_issued \/ updateILPforCall
Spec == Init /\ [][Next]_vars

--------------------------------------------------------------------------------
Issued == {n \in DOMAIN log : log[n].counted}
Cycle(n, o) == log[n].cycle[o]

\* An instruction is issued after the instructions whose results it reads, a
\* load after the stores to its address, a store after the loads and stores of
\* its address, in both orders (getInstIssueCycle). A value that a phi takes
\* from a call is the one exception of the code: it may be used in the very
\* cycle of the return.
DependenciesRespected ==
    \A n \in DOMAIN log : \A d \in log[n].deps : \A o \in Orders : Cycle(n, o) >= Cycle(d[1], o) + d[2]

\* In-order cycles never decrease along the execution, and an instruction is
\* issued no earlier in order than out of order, with or without a window;
\* serialised control instructions, which move only the out-of-order cycle,
\* are outside the comparison.
InOrderNotFaster ==
    /\ \A m, n \in Issued : m <= n => Cycle(m, "io") <= Cycle(n, "io")
    /\ setup.ctrl # "serialise" => \A n \in Issued : Cycle(n, "ooo") <= Cycle(n, "io")

\* When an instruction is issued, fewer than window_size earlier ones are
\* still waiting to be issued, and the scheduler always has a free entry, so
\* the loop that frees one ends.
WindowRespected ==
    setup.window > 0 =>
        \A o \in Orders :
            /\ Cardinality(DOMAIN scheduler[o]) < setup.window
            /\ \A n \in Issued : Cardinality({m \in Issued : m < n /\ Cycle(m, o) >= Cycle(n, o)}) < setup.window

\* The in-order span of a type printed by JSONdump is the number of different
\* cycles after the first in which an instruction of the type was issued; the
\* out-of-order span never exceeds it, and it is 0 only when no such
\* instruction was issued after cycle 0.
CyclesOf(t, o) == {Cycle(n, o) : n \in {m \in Issued : log[m].type = t}} \ {0}
SpansCount ==
    \A t \in Types : \A o \in Orders :
        IF o = "io" THEN spans[t][o] = Cardinality(CyclesOf(t, o))
        ELSE /\ spans[t][o] <= Cardinality(CyclesOf(t, o))
             /\ spans[t][o] = 0 => CyclesOf(t, o) = {}

--------------------------------------------------------------------------------
(* The inductive invariant behind these properties.                           *)

\* The last of the instructions before place j of block b that set prevBB, if
\* there is one, was executed after the last call to a function with a body.
Issues(s, I) == I.op # "phi" /\ ~(s.ctrl = "ignore" /\ I.type = "ctrl")
Settled(s, b, j) == \E k \in 1..j - 1 : /\ Issues(s, s.code[b][k])
                                        /\ \A i \in k..j - 1 : ~CallsBody(s, s.code[b][i])
\* No function calls itself, directly or through others: the blocks have a
\* depth that only a call increases.
Ranked(s, depth) ==
    \A b \in DOMAIN s.code :
        /\ \A c \in s.next[b] : depth[c] = depth[b]
        /\ \A I \in Range(s.code[b]) : CallsBody(s, I) => depth[I.callee] > depth[b]
Depths(s) == [DOMAIN s.code -> 0..Cardinality(DOMAIN s.code)]
Depth(s) == CHOOSE depth \in Depths(s) : Ranked(s, depth)
\* The programs without recursion in which a phi finds its predecessor in
\* prevBB and takes no value of a phi before it in its block.
Traced(s) ==
    /\ \E depth \in Depths(s) : Ranked(s, depth)
    /\ \A b \in DOMAIN s.code :
          /\ s.next[b] # {} => Settled(s, b, Len(s.code[b]) + 1)
          /\ \A j \in DOMAIN s.code[b] : s.code[b][j].op = "phi" =>
                \A i \in 1..j - 1, p \in DOMAIN s.code[b][j].from : s.code[b][j].from[p] # s.code[b][i].id

Cycles == [Orders -> Nat]
\* The walk is at a place of the program and so is every caller.
Place(p, b) ==
    /\ p \in (DOMAIN setup.code) \X (Nat \ {0})
    /\ \/ b = "none" /\ p[1] \in EntriesOf(setup)
       \/ b \in DOMAIN setup.code /\ p[1] \in setup.next[b]
Caller(f) ==
    /\ Place(f[1], f[2]) /\ f[1][2] <= Len(setup.code[f[1][1]])
    /\ CallsBody(setup, setup.code[f[1][1]][f[1][2]])
    /\ f[3] = setup.code[f[1][1]][f[1][2]].id /\ f[3] \in DOMAIN f[4]
WalkInv ==
    /\ setup \in Setups
    /\ Place(at, came)
    /\ stack \in Seq(Range(stack)) /\ \A i \in DOMAIN stack : Caller(stack[i])
    /\ returned # "none" => stack # <<>> /\ IsOp(returned, "ret")

Histories == {src, entered} \cup {stack[i][4] : i \in DOMAIN stack}
TypeInv ==
    /\ \A v \in DOMAIN LastUsageOperands : LastUsageOperands[v] \in Cycles
    /\ \A a \in DOMAIN LastUsageMemory : LastUsageMemory[a] \in [store : Cycles, load : Cycles]
    /\ MinIssueCycleForCtrl \in Nat /\ MaxIssueCycle \in Cycles /\ window_cycle \in Cycles
    /\ spans \in [Types -> Cycles] /\ Previous \in [Types -> Cycles]
    /\ log \in Seq(Range(log))
    /\ \A n \in DOMAIN log : log[n].cycle \in Cycles /\ log[n].deps \subseteq (1..n - 1) \X {0, 1}
    /\ \A f \in Histories : \A v \in DOMAIN f : f[v] \subseteq (DOMAIN log) \X {0, 1}

\* No instruction was issued after MaxIssueCycle, nor before an earlier one.
MaxInv ==
    /\ \A n \in Issued : \A o \in Orders : Cycle(n, o) <= MaxIssueCycle[o]
    /\ \A m, n \in Issued : m <= n => Cycle(m, "io") <= Cycle(n, "io")

\* What is known of a register or an address comes no earlier in order.
Later(c) == c["ooo"] <= c["io"]
LagInv ==
    setup.ctrl # "serialise" =>
        /\ \A v \in DOMAIN LastUsageOperands : Later(LastUsageOperands[v])
        /\ \A a \in DOMAIN LastUsageMemory : Later(LastUsageMemory[a].store) /\ Later(LastUsageMemory[a].load)
        /\ \A n \in Issued : Later(log[n].cycle)

\* The scheduler holds the instructions issued at window_cycle or later, and
\* the cycle before it is there because they were too many.
From(o, c) == {n \in Issued : Cycle(n, o) >= c}
QueueInv ==
    setup.window > 0 =>
        \A o \in Orders :
            /\ DOMAIN scheduler[o] = From(o, window_cycle[o])
            /\ \A n \in DOMAIN scheduler[o] : scheduler[o][n] = Cycle(n, o)
            /\ window_cycle[o] > 0 => Cardinality(From(o, window_cycle[o] - 1)) >= setup.window

\* Previous is the last cycle of a type, or 0.
PreviousInv ==
    \A t \in Types : \A o \in Orders :
        /\ \A c \in CyclesOf(t, o) : c <= Previous[t][o]
        /\ Previous[t][o] \in CyclesOf(t, o) \cup {0}
        /\ spans[t][o] = 0 => Previous[t][o] = 0

\* Behind the leading phis prevBB is the block the walk came from and entered
\* differs from src at these phis only; behind an issued instruction prevBB is
\* the block itself.
PrevInv ==
    Traced(setup) =>
        /\ returned = "none" /\ came # "none" /\ (\A j \in 1..at[2] - 1 : Block[j].op = "phi") =>
              /\ prevBB = came
              /\ \A v \in DOMAIN src \cup DOMAIN entered :
                    (\A j \in 1..at[2] - 1 : Block[j].id # v) => Get(entered, v, {}) = Sources(v)
        /\ Settled(setup, at[1], at[2]) => prevBB = at[1]

\* The registers of an activation are those of its function, and the functions
\* on the stack lie one deeper than the other.
RegistersAt(s, d) ==
    {I.id : I \in UNION {Range(s.code[b]) : b \in {c \in DOMAIN s.code : Depth(s)[c] = d}}}
        \cup UNION {Range(I.params) : I \in {J \in InstructionsOf(s) : CallsBody(s, J) /\ Depth(s)[J.callee] = d}}
Level(i) == Depth(setup)[stack[i][1][1]]
DepthInv ==
    Traced(setup) =>
        /\ DOMAIN src \subseteq RegistersAt(setup, Depth(setup)[at[1]])
        /\ \A i \in DOMAIN stack :
              /\ DOMAIN stack[i][4] \subseteq RegistersAt(setup, Level(i))
              /\ Level(i) < Depth(setup)[at[1]] /\ \A j \in 1..i - 1 : Level(j) < Level(i)

\* A register allows no cycle before those of its sources, in the activation
\* the walk is in and in those that wait for it; only a phi or a parameter may
\* be used in the cycle of its source.
Weight(v) == IF valueIsConstantLike(v) THEN 0 ELSE 1
Covers(f, usage, l) ==
    \A v \in DOMAIN f : \A s \in f[v] :
        /\ v \notin Constants
        /\ \A I \in Instructions : I.id = v /\ I.op # "phi" => s[2] = 1
        /\ \A o \in Orders : LookupOperand(usage, v)[o] + Weight(v) >= l[s[1]].cycle[o] + s[2]
SourceInv ==
    Traced(setup) => /\ Covers(src, LastUsageOperands, log)
                     /\ \A i \in DOMAIN stack : Covers(stack[i][4], LastUsageOperands, log)
\* LastUsageMemory knows the accesses to an address.
MemoryInv ==
    \A n \in DOMAIN log : log[n].op \in {"load", "store"} =>
        /\ log[n].addr \in DOMAIN LastUsageMemory
        /\ \A o \in Orders : Cycle(n, o) <= LastUsageMemory[log[n].addr][log[n].op][o]

Inv == /\ WalkInv /\ TypeInv
       /\ MaxInv /\ LagInv /\ PreviousInv /\ SpansCount
       /\ QueueInv /\ WindowRespected
       /\ PrevInv /\ DepthInv /\ SourceInv /\ MemoryInv
       /\ Traced(setup) => DependenciesRespected
================================================================================
