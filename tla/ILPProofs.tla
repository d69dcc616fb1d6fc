------------------------------- MODULE ILPProofs -------------------------------
(* Proofs about ILP: for every well-formed program, every treatment of        *)
(* control instructions and every window, Inv is an invariant; the properties *)
(* of the issue cycles and of the spans follow from it.                       *)
EXTENDS ILP, Induction, SequenceTheorems, FiniteSetTheorems, TLAPS

--------------------------------------------------------------------------------
(* The loop over the operands.                                                *)

Step(I, params, p, k) ==
    [cycle |-> after_operand(p.cycle, p.usage, I.args[k]),
     usage |-> IF k > Len(params) THEN p.usage
               ELSE InsertOperandUsage(p.usage, params[k], LookupOperand(p.usage, I.args[k]))]

\* operands_cycle is the end of the chain that starts from cycle c and takes
\* one operand after the other.
LEMMA OperandChain ==
    ASSUME NEW I, I.args \in Seq(Range(I.args)), NEW params, NEW c
    PROVE  \E r : /\ r[0] = [cycle |-> c, usage |-> LastUsageOperands]
                  /\ \A k \in 1..Len(I.args) : r[k] = Step(I, params, r[k - 1], k)
                  /\ operands_cycle(I, params, c) = r[Len(I.args)]
<1> DEFINE n == Len(I.args)
           first == [cycle |-> c, usage |-> LastUsageOperands]
           body(f, m) == [k \in 0..m |-> IF k = 0 THEN first ELSE Step(I, params, f[k - 1], k)]
           T == {m \in 0..n : \E f : f = body(f, m)}
<1>0. n \in Nat
  OBVIOUS
<1>1. 0 \in T
  <2> DEFINE g == [k \in 0..0 |-> first]
  <2>1. g = body(g, 0)
    BY SMT
  <2>2. \E f : f = body(f, 0)
    BY <2>1
  <2> QED BY <2>2, <1>0
<1>2. ASSUME NEW m \in 1..n, m - 1 \in T
      PROVE  m \in T
  <2> HIDE DEF first
  <2>1. PICK f : f = body(f, m - 1)
    BY <1>2
  <2> DEFINE g == [k \in 0..m |-> IF k <= m - 1 THEN f[k] ELSE Step(I, params, f[m - 1], m)]
  <2>2. g = body(g, m)
    <3>1. ASSUME NEW k \in 0..m
          PROVE  g[k] = IF k = 0 THEN first ELSE Step(I, params, g[k - 1], k)
      <4>1. CASE k = 0
        BY <2>1, <4>1
      <4>2. CASE k \in 1..m - 1
        <5>1. f[k] = Step(I, params, f[k - 1], k)
          BY <2>1, <4>2
        <5>2. g[k] = f[k] /\ g[k - 1] = f[k - 1]
          BY <4>2
        <5> QED BY <5>1, <5>2, <4>2
      <4>3. CASE k = m
        <5>1. m - 1 \in 0..m /\ ~(m <= m - 1) /\ m # 0
          OBVIOUS
        <5>2. g[m - 1] = f[m - 1] /\ g[m] = Step(I, params, f[m - 1], m)
          BY <5>1
        <5> QED BY <5>1, <5>2, <4>3
      <4> QED BY <4>1, <4>2, <4>3
    <3> HIDE DEF first
    <3> QED BY <3>1
  <2>3. \E h : h = body(h, m)
    BY <2>2
  <2> QED BY <2>3
<1>3. n \in T
  <2> HIDE DEF T, n
  <2>1. \A k \in 1..n : k - 1 \in T => k \in T
    BY <1>2
  <2>2. \A k \in 0..n : k \in T
    BY <1>0, <1>1, <2>1, UpTo
  <2> QED BY <2>2, <1>0
<1>4. \E f : f = body(f, n)
  BY <1>3
<1> DEFINE r == CHOOSE f : f = body(f, n)
<1>5. r = body(r, n)
  BY <1>4
<1>6. operands_cycle(I, params, c) = r[n]
  BY DEF operands_cycle, Step
<1>7. DOMAIN r = 0..n
  BY <1>5
<1> HIDE DEF r
<1>8. r[0] = first
  BY <1>5, <1>0
<1>9. ASSUME NEW k \in 1..n
      PROVE  r[k] = Step(I, params, r[k - 1], k)
  <2> HIDE DEF first
  <2>1. k \in 0..n /\ k # 0
    OBVIOUS
  <2> QED BY <2>1, <1>5
<1> QED BY <1>6, <1>8, <1>9

--------------------------------------------------------------------------------
(* Arithmetic of cycles.                                                      *)

\* Latest, Plus and InOrder of cycles.
LEMMA CycleArithmetic ==
    ASSUME MaxIssueCycle \in Cycles, NEW c \in Cycles, NEW d \in Cycles, NEW k \in Nat
    PROVE  /\ Zero \in Cycles
           /\ Latest(c, d) \in Cycles
           /\ Plus(c, k) \in Cycles
           /\ InOrder(c) \in Cycles
           /\ \A o \in Orders : /\ Latest(c, d)[o] >= c[o] /\ Latest(c, d)[o] >= d[o]
                                /\ Latest(c, d)[o] \in {c[o], d[o]}
                                /\ Plus(c, k)[o] = c[o] + k
                                /\ InOrder(c)[o] >= c[o]
           /\ InOrder(c)["io"] >= MaxIssueCycle["io"]
           /\ InOrder(c)["ooo"] = c["ooo"]
           /\ c["io"] >= MaxIssueCycle["io"] => InOrder(c) = c
<1>1. Zero \in Cycles /\ Latest(c, d) \in Cycles /\ Plus(c, k) \in Cycles
  BY DEF Zero, Latest, Plus, Cycles, Orders
<1>2. \A o \in Orders : /\ Latest(c, d)[o] >= c[o] /\ Latest(c, d)[o] >= d[o]
                        /\ Latest(c, d)[o] \in {c[o], d[o]}
                        /\ Plus(c, k)[o] = c[o] + k
  BY DEF Latest, Plus, Cycles, Orders
<1> DEFINE m == Latest(c, MaxIssueCycle)
<1>3. m \in Cycles /\ m["io"] >= c["io"] /\ m["io"] >= MaxIssueCycle["io"] /\ m["io"] \in Nat
  BY DEF Latest, Cycles, Orders
<1>4. c["io"] >= MaxIssueCycle["io"] => m["io"] = c["io"]
  BY DEF Latest, Cycles, Orders
<1> HIDE DEF m
<1>5. InOrder(c) = [c EXCEPT !["io"] = m["io"]]
  BY DEF InOrder, m
<1>6. /\ InOrder(c) \in Cycles
      /\ InOrder(c)["io"] = m["io"] /\ InOrder(c)["ooo"] = c["ooo"]
      /\ c["io"] >= MaxIssueCycle["io"] => InOrder(c) = c
  BY <1>3, <1>4, <1>5 DEF Cycles, Orders
<1>7. \A o \in Orders : InOrder(c)[o] >= c[o]
  <2>1. c["ooo"] \in Nat
    BY DEF Cycles, Orders
  <2> QED BY <1>3, <1>6, <2>1 DEF Orders
<1> QED BY <1>1, <1>2, <1>3, <1>6, <1>7

\* A set of cycles that the computation of an issue cycle does not leave.
Closed(C) ==
    /\ C \subseteq Cycles /\ Zero \in C
    /\ \A c, d \in C : Latest(c, d) \in C
    /\ \A c \in C : Plus(c, 0) \in C /\ Plus(c, 1) \in C /\ InOrder(c) \in C
Registers(u, C) == \A v \in DOMAIN u : u[v] \in C
Memory(m, C) == \A a \in DOMAIN m : m[a] \in [store : C, load : C]
Behind == {c \in Cycles : Later(c)}

\* All cycles are such a set, and those that come no earlier in order are.
LEMMA ClosedSets ==
    ASSUME MaxIssueCycle \in Cycles
    PROVE  Closed(Cycles) /\ Closed(Behind)
<1>1. Closed(Cycles)
  BY CycleArithmetic DEF Closed
<1>2. Zero \in Behind
  BY CycleArithmetic DEF Behind, Later, Zero, Orders, Cycles
<1>3. ASSUME NEW c \in Behind, NEW d \in Behind
      PROVE  Latest(c, d) \in Behind
  BY CycleArithmetic DEF Behind, Later, Latest, Orders, Cycles
<1>4. ASSUME NEW c \in Behind, NEW k \in {0, 1}
      PROVE  Plus(c, k) \in Behind
  BY CycleArithmetic DEF Behind, Later, Plus, Orders, Cycles
<1>5. ASSUME NEW c \in Behind
      PROVE  InOrder(c) \in Behind
  <2>1. c \in Cycles /\ c["ooo"] <= c["io"] /\ c["ooo"] \in Nat /\ c["io"] \in Nat
    BY DEF Behind, Later, Cycles, Orders
  <2>2. InOrder(c) \in Cycles /\ InOrder(c)["ooo"] = c["ooo"] /\ InOrder(c)["io"] >= c["io"]
    BY <2>1, CycleArithmetic DEF Orders
  <2>3. InOrder(c)["io"] \in Nat
    BY <2>2 DEF Cycles, Orders
  <2> QED BY <2>1, <2>2, <2>3 DEF Behind, Later
<1> QED BY <1>1, <1>2, <1>3, <1>4, <1>5 DEF Closed, Behind

\* A register that was given a cycle of C, and one that is looked up.
LEMMA PutRegister ==
    ASSUME NEW C, Closed(C), NEW u, Registers(u, C), NEW v, NEW c \in C
    PROVE  Registers(InsertOperandUsage(u, v, c), C) /\ LookupOperand(u, v) \in C
BY DEF Closed, Registers, InsertOperandUsage, LookupOperand, Put, Get

\* The loop over the operands stays in C.
LEMMA ChainClosed ==
    ASSUME NEW C, Closed(C), Registers(LastUsageOperands, C), NEW c \in C,
           NEW I, I.args \in Seq(Range(I.args)), NEW params, NEW r,
           r[0] = [cycle |-> c, usage |-> LastUsageOperands],
           \A k \in 1..Len(I.args) : r[k] = Step(I, params, r[k - 1], k)
    PROVE  \A k \in 0..Len(I.args) : r[k].cycle \in C /\ Registers(r[k].usage, C)
<1> DEFINE n == Len(I.args)
           S == {k \in 0..n : r[k].cycle \in C /\ Registers(r[k].usage, C)}
<1>2. n \in Nat
  OBVIOUS
<1>3. 0 \in S
  BY <1>2
<1>4. ASSUME NEW k \in 1..n, k - 1 \in S
      PROVE  k \in S
  <2> DEFINE p == r[k - 1]
             v == I.args[k]
  <2>1. p.cycle \in C /\ Registers(p.usage, C)
    BY <1>4
  <2> HIDE DEF p, v
  <2>2. LookupOperand(p.usage, v) \in C
    BY <2>1, PutRegister
  <2>3. after_operand(p.cycle, p.usage, v) \in C
    <3>1. operand_cycle(p.usage, v) \in C
      BY <2>2 DEF operand_cycle, Closed
    <3> QED BY <3>1, <2>1 DEF after_operand, Closed
  <2>4. Registers(InsertOperandUsage(p.usage, params[k], LookupOperand(p.usage, v)), C)
    BY <2>1, <2>2, PutRegister
  <2>5. r[k] = Step(I, params, p, k)
    BY <1>4 DEF p
  <2>6. r[k].cycle = after_operand(p.cycle, p.usage, v)
    BY <2>5 DEF Step, v
  <2>7. r[k].usage \in {p.usage, InsertOperandUsage(p.usage, params[k], LookupOperand(p.usage, v))}
    BY <2>5 DEF Step, v
  <2> QED BY <2>1, <2>3, <2>4, <2>6, <2>7
<1>5. \A k \in 0..n : k \in S
  <2> HIDE DEF S, n
  <2>1. \A k \in 1..n : k - 1 \in S => k \in S
    BY <1>4
  <2> QED BY <1>2, <1>3, <2>1, UpTo
<1> QED BY <1>5

LEMMA OperandsClosed ==
    ASSUME NEW C, Closed(C), Registers(LastUsageOperands, C), NEW c \in C,
           NEW I, I.args \in Seq(Range(I.args)), NEW params
    PROVE  /\ operands_cycle(I, params, c).cycle \in C
           /\ Registers(operands_cycle(I, params, c).usage, C)
<1>1. PICK r : /\ r[0] = [cycle |-> c, usage |-> LastUsageOperands]
               /\ \A k \in 1..Len(I.args) : r[k] = Step(I, params, r[k - 1], k)
               /\ operands_cycle(I, params, c) = r[Len(I.args)]
  BY OperandChain
<1>2. \A k \in 0..Len(I.args) : r[k].cycle \in C /\ Registers(r[k].usage, C)
  BY <1>1, ChainClosed
<1>3. Len(I.args) \in 0..Len(I.args)
  OBVIOUS
<1> QED BY <1>1, <1>2, <1>3

\* So does the issue cycle of an instruction, with the maps it leaves.
LEMMA IssueClosed ==
    ASSUME NEW C, Closed(C), Registers(LastUsageOperands, C), Memory(LastUsageMemory, C), NEW c \in C,
           NEW I, I.args \in Seq(Range(I.args)), NEW a
    PROVE  LET r == getInstIssueCycle(I, a, c)
           IN  r.cycle \in C /\ Registers(r.usage, C) /\ Memory(r.memory, C)
<1>1. ASSUME NEW params
      PROVE  LET r == other_cycle(I, params, c)
             IN  r.cycle \in C /\ Registers(r.usage, C) /\ Memory(r.memory, C)
  BY OperandsClosed, PutRegister DEF other_cycle
<1>2. LET r == call_cycle(I, c)
      IN  r.cycle \in C /\ Registers(r.usage, C) /\ Memory(r.memory, C)
  BY <1>1 DEF call_cycle
<1> DEFINE m == Get(LastUsageMemory, a, Untouched)
<1>3. m \in [store : C, load : C]
  BY DEF Get, Untouched, Closed, Memory
<1>4. ASSUME NEW v
      PROVE  Plus(LookupOperand(LastUsageOperands, v), 1) \in C
  BY PutRegister DEF Closed
<1>5. ASSUME NEW x \in [store : C, load : C]
      PROVE  Memory(Put(LastUsageMemory, a, x), C)
  BY DEF Put, Memory
<1>6. LET r == load_cycle(I, a, c)
      IN  r.cycle \in C /\ Registers(r.usage, C) /\ Memory(r.memory, C)
  <2> DEFINE ptr == Plus(LookupOperand(LastUsageOperands, I.args[1]), 1)
             raw == IF a \in DOMAIN LastUsageMemory THEN Plus(m.store, 1) ELSE Zero
             d == InOrder(Latest(Latest(c, ptr), raw))
  <2>1. ptr \in C /\ raw \in C
    BY <1>3, <1>4 DEF Closed
  <2>2. d \in C
    <3> HIDE DEF ptr, raw
    <3> QED BY <2>1 DEF Closed
  <2>3. load_cycle(I, a, c) =
           [cycle |-> d, usage |-> InsertOperandUsage(LastUsageOperands, I.id, d),
            memory |-> Put(LastUsageMemory, a, [m EXCEPT !.load = Latest(m.load, d)])]
    BY DEF load_cycle
  <2> HIDE DEF d, m
  <2>4. [m EXCEPT !.load = Latest(m.load, d)] \in [store : C, load : C]
    BY <1>3, <2>2 DEF Closed
  <2> QED BY <2>2, <2>3, <2>4, <1>5, PutRegister
<1>7. LET r == store_cycle(I, a, c)
      IN  r.cycle \in C /\ Registers(r.usage, C) /\ Memory(r.memory, C)
  <2> DEFINE ops == Latest(Plus(LookupOperand(LastUsageOperands, I.args[1]), 1),
                           Plus(LookupOperand(LastUsageOperands, I.args[2]), 1))
             order == IF a \in DOMAIN LastUsageMemory
                      THEN Latest(Plus(m.store, 1), Plus(m.load, 1)) ELSE Zero
             d == Latest(InOrder(Latest(c, ops)), order)
             u == InsertOperandUsage(LastUsageOperands, I.id, d)
  <2>1. ops \in C /\ order \in C
    BY <1>3, <1>4 DEF Closed
  <2>2. d \in C
    <3> HIDE DEF ops, order
    <3> QED BY <2>1 DEF Closed
  <2>3. store_cycle(I, a, c) =
           [cycle |-> d, usage |-> InsertOperandUsage(u, I.args[2], d),
            memory |-> Put(LastUsageMemory, a, [m EXCEPT !.store = Latest(m.store, d)])]
    BY DEF store_cycle
  <2> HIDE DEF d, m
  <2>4. [m EXCEPT !.store = Latest(m.store, d)] \in [store : C, load : C]
    BY <1>3, <2>2 DEF Closed
  <2>5. Registers(u, C)
    BY <2>2, PutRegister
  <2> HIDE DEF u
  <2> QED BY <2>2, <2>3, <2>4, <2>5, <1>5, PutRegister
<1> QED BY <1>1, <1>2, <1>6, <1>7 DEF getInstIssueCycle

--------------------------------------------------------------------------------
(* The walk of the program.                                                   *)

\* The program is well formed, and the walk stands at one of its instructions.
LEMMA AtInstruction ==
    ASSUME WalkInv
    PROVE  /\ WellFormed(setup)
           /\ Enabled => /\ at[2] \in DOMAIN Block /\ Block = setup.code[at[1]]
                         /\ Current \in Instructions /\ WellFormedInstruction(setup, Current)
<1>1. WellFormed(setup) /\ Place(at, came)
  BY SetupAssumption DEF WalkInv
<1>2. ASSUME Enabled
      PROVE  /\ at[2] \in DOMAIN Block /\ Block = setup.code[at[1]]
             /\ Current \in Instructions
  <2>1. at[1] \in DOMAIN setup.code /\ at[2] \in Nat /\ at[2] >= 1 /\ at[2] <= Len(Block)
    BY <1>1, <1>2 DEF Place, Enabled
  <2>2. Block = setup.code[at[1]] /\ Block \in Seq(Range(Block))
    BY <1>1, <2>1 DEF Block, WellFormed
  <2>3. at[2] \in DOMAIN Block
    BY <2>1, <2>2
  <2>4. Current \in Range(setup.code[at[1]])
    BY <2>2, <2>3 DEF Current, Range
  <2> QED BY <2>1, <2>2, <2>3, <2>4 DEF Instructions, InstructionsOf
<1> QED BY <1>1, <1>2 DEF WellFormed, Instructions

\* Every frame that is pushed is a caller, and callers stay callers.
LEMMA WalkVisit ==
    ASSUME WalkInv, Enabled, advance(Current)
    PROVE  WalkInv'
<1>1. /\ WellFormed(setup) /\ Place(at, came) /\ setup' = setup /\ setup \in Setups
      /\ at[2] \in DOMAIN Block /\ Block = setup.code[at[1]] /\ Current \in Instructions
      /\ stack \in Seq(Range(stack)) /\ \A i \in DOMAIN stack : Caller(stack[i])
      /\ returned = "none"
  BY AtInstruction DEF WalkInv, advance, Enabled
<1>2. at \in (DOMAIN setup.code) \X (Nat \ {0}) /\ at[2] \in Nat /\ at = <<at[1], at[2]>>
  BY <1>1 DEF Place
<1>3. \A p, b : Place(p, b)' <=> Place(p, b)
  BY <1>1 DEF Place
<1>4. \A f : Caller(f)' <=> Caller(f)
  BY <1>1, <1>3 DEF Caller
<1>5. \A v, op : IsOp(v, op)' <=> IsOp(v, op)
  BY <1>1 DEF IsOp, Instructions
<1>6. EntriesOf(setup) \subseteq DOMAIN setup.code
  BY <1>1 DEF EntriesOf, CallsBody, WellFormed
<1>7. CASE CallsBody(setup, Current)
  <2> DEFINE f == <<at, came, Current.id, produced(Current)>>
  <2>1. /\ stack' = Append(stack, f) /\ at' = <<Current.callee, 1>> /\ came' = "none"
        /\ returned' = returned
    BY <1>7 DEF advance
  <2>2. Current.callee \in EntriesOf(setup)
    BY <1>1, <1>7 DEF EntriesOf, Instructions
  <2>3. Place(at, came)'
    <3>1. Place(<<Current.callee, 1>>, "none")
      BY <2>2, <1>6 DEF Place
    <3> HIDE DEF f
    <3> QED BY <3>1, <2>1, <1>1 DEF Place
  <2>4. Caller(f)
    <3>1. Place(f[1], f[2]) /\ f[1] = at /\ f[3] = Current.id /\ f[3] \in DOMAIN f[4]
      BY <1>1 DEF produced, Put
    <3>2. at[2] <= Len(setup.code[at[1]])
      BY DEF Enabled, Block
    <3>3. setup.code[at[1]][at[2]] = Current
      BY DEF Current, Block
    <3> HIDE DEF f
    <3> QED BY <3>1, <3>2, <3>3, <1>7 DEF Caller
  <2> HIDE DEF f
  <2>5. stack' \in Seq(Range(stack')) /\ \A i \in DOMAIN stack' : Caller(stack'[i])
    <3>1. Len(stack) \in Nat /\ DOMAIN stack = 1..Len(stack)
      BY <1>1
    <3>2. /\ Len(stack') = Len(stack) + 1 /\ DOMAIN stack' = 1..Len(stack) + 1
          /\ \A i \in 1..Len(stack) : stack'[i] = stack[i]
          /\ stack'[Len(stack) + 1] = f
      BY <1>1, <2>1
    <3>3. \A i \in DOMAIN stack' : Caller(stack'[i])
      BY <3>1, <3>2, <2>4, <1>1
    <3>4. stack' \in Seq(Range(stack) \cup {f})
      BY <2>1, <1>1
    <3> QED BY <3>3, <3>4, OverRange
  <2> QED BY <2>1, <2>3, <2>5, <1>1, <1>4 DEF WalkInv
<1>8. CASE ~CallsBody(setup, Current) /\ Current.op = "ret" /\ stack # <<>>
  <2>1. returned' = Current.id /\ UNCHANGED <<stack, at, came>>
    BY <1>8 DEF advance
  <2>2. IsOp(Current.id, "ret")
    BY <1>1, <1>8 DEF IsOp
  <2>3. Place(at, came)' /\ IsOp(returned, "ret")'
    BY <2>1, <2>2, <1>1, <1>3, <1>5 DEF Place, IsOp, Instructions
  <2> QED BY <2>1, <2>3, <1>1, <1>4, <1>8 DEF WalkInv
<1>9. CASE /\ ~CallsBody(setup, Current) /\ ~(Current.op = "ret" /\ stack # <<>>)
           /\ at[2] = Len(Block) /\ setup.next[at[1]] # {}
  <2>1. PICK b \in setup.next[at[1]] : at' = <<b, 1>>
    BY <1>9 DEF advance
  <2>2. came' = at[1] /\ UNCHANGED <<stack, returned>>
    BY <1>9 DEF advance
  <2>3. b \in DOMAIN setup.code /\ at[1] \in DOMAIN setup.code
    BY <2>1, <1>1, <1>2 DEF WellFormed
  <2>4. Place(at, came)'
    BY <2>1, <2>2, <2>3, <1>1 DEF Place
  <2> QED BY <2>2, <2>4, <1>1, <1>4 DEF WalkInv
<1>10. CASE /\ ~CallsBody(setup, Current) /\ ~(Current.op = "ret" /\ stack # <<>>)
            /\ ~(at[2] = Len(Block) /\ setup.next[at[1]] # {})
  <2>1. at' = [at EXCEPT ![2] = @ + 1] /\ UNCHANGED <<stack, came, returned>>
    BY <1>10 DEF advance
  <2>2. at' = <<at[1], at[2] + 1>>
    BY <2>1, <1>2
  <2>3. Place(at, came)'
    BY <2>1, <2>2, <1>1, <1>2 DEF Place
  <2> QED BY <2>1, <2>3, <1>1, <1>4 DEF WalkInv
<1> QED BY <1>7, <1>8, <1>9, <1>10

\* A return leads back behind the call of the caller on top of the stack.
LEMMA WalkReturn ==
    ASSUME WalkInv, updateILPforCall
    PROVE  /\ WalkInv' /\ Caller(Last(stack))
           /\ Len(stack) \in Nat /\ Len(stack) >= 1 /\ DOMAIN stack = 1..Len(stack) /\ Last(stack) = stack[Len(stack)]
           /\ DOMAIN stack' = 1..Len(stack) - 1 /\ \A i \in 1..Len(stack) - 1 : stack'[i] = stack[i]
<1>1. /\ WellFormed(setup) /\ setup' = setup /\ setup \in Setups
      /\ stack \in Seq(Range(stack)) /\ stack # <<>> /\ \A i \in DOMAIN stack : Caller(stack[i])
      /\ stack' = Front(stack) /\ returned' = "none"
      /\ at' = [Last(stack)[1] EXCEPT ![2] = @ + 1] /\ came' = Last(stack)[2]
  BY AtInstruction DEF WalkInv, updateILPforCall
<1>2. Len(stack) \in Nat /\ Len(stack) >= 1 /\ Last(stack) = stack[Len(stack)] /\ DOMAIN stack = 1..Len(stack)
  BY <1>1 DEF Last
<1>3. Caller(Last(stack))
  BY <1>1, <1>2
<1>4. Place(Last(stack)[1], Last(stack)[2])
  BY <1>3 DEF Caller
<1> DEFINE p == Last(stack)[1]
           b == Last(stack)[2]
<1>5. Place(p, b) /\ at' = [p EXCEPT ![2] = @ + 1] /\ came' = b
  BY <1>1, <1>4
<1> HIDE DEF p, b
<1>6. at' = <<p[1], p[2] + 1>> /\ p[2] \in Nat
  BY <1>5 DEF Place
<1>7. Place(at, came)'
  BY <1>1, <1>5, <1>6 DEF Place
<1>8. /\ stack' \in Seq(Range(stack)) /\ Len(stack') = Len(stack) - 1
      /\ \A i \in 1..Len(stack) - 1 : stack'[i] = stack[i]
  BY <1>1, <1>2 DEF Front
<1>9. stack' \in Seq(Range(stack'))
  BY <1>8, OverRange
<1>10. \A i \in DOMAIN stack' : Caller(stack'[i])
  <2>2. \A i \in DOMAIN stack' : i \in 1..Len(stack) - 1 /\ i \in DOMAIN stack
    BY <1>2, <1>8
  <2> QED BY <1>1, <1>8, <2>2
<1>11. \A f : Caller(f)' <=> Caller(f)
  BY <1>1 DEF Caller, Place
<1>12. DOMAIN stack' = 1..Len(stack) - 1
  BY <1>8
<1> QED BY <1>1, <1>2, <1>3, <1>7, <1>8, <1>9, <1>10, <1>11, <1>12 DEF WalkInv

--------------------------------------------------------------------------------
(* Lower bounds of the issue cycle.                                           *)

\* What an operand does to the cycle.
LEMMA AfterOperand ==
    ASSUME MaxIssueCycle \in Cycles, NEW c \in Cycles, NEW u, Registers(u, Cycles), NEW v
    PROVE  /\ after_operand(c, u, v) \in Cycles /\ operand_cycle(u, v) \in Cycles
           /\ \A o \in Orders : /\ after_operand(c, u, v)[o] >= c[o]
                                /\ v \notin Constants => after_operand(c, u, v)[o] >= operand_cycle(u, v)[o]
                                /\ operand_cycle(u, v)[o] = LookupOperand(u, v)[o] + Weight(v)
<1>1. LookupOperand(u, v) \in Cycles
  BY ClosedSets, PutRegister
<1>2. operand_cycle(u, v) = Plus(LookupOperand(u, v), Weight(v)) /\ Weight(v) \in Nat
  BY DEF operand_cycle, Weight
<1>3. operand_cycle(u, v) \in Cycles /\ \A o \in Orders : operand_cycle(u, v)[o] = LookupOperand(u, v)[o] + Weight(v)
  <2> DEFINE l == LookupOperand(u, v)
             w == Weight(v)
  <2>0. l \in Cycles /\ w \in Nat
    BY <1>1, <1>2
  <2> HIDE DEF l, w
  <2>1. Plus(l, w) \in Cycles /\ \A o \in Orders : Plus(l, w)[o] = l[o] + w
    BY <2>0, CycleArithmetic
  <2> QED BY <2>1, <1>2 DEF l, w
<1> DEFINE d == Latest(c, operand_cycle(u, v))
<1>4. d \in Cycles /\ \A o \in Orders : d[o] >= c[o] /\ d[o] >= operand_cycle(u, v)[o]
  BY <1>3, CycleArithmetic
<1> HIDE DEF d
<1>5. InOrder(d) \in Cycles /\ \A o \in Orders : InOrder(d)[o] >= d[o]
  BY <1>4, CycleArithmetic
<1>6. after_operand(c, u, v) = IF v \in Constants THEN c ELSE InOrder(d)
  BY DEF after_operand, d
<1>7. \A o \in Orders : InOrder(d)[o] \in Nat /\ d[o] \in Nat /\ c[o] \in Nat /\ operand_cycle(u, v)[o] \in Nat
  BY <1>3, <1>4, <1>5 DEF Cycles
<1>8. CASE v \in Constants
  BY <1>3, <1>6, <1>7, <1>8
<1>9. CASE v \notin Constants
  BY <1>3, <1>4, <1>5, <1>6, <1>7, <1>9
<1> QED BY <1>8, <1>9

\* The loop over the operands takes no cycle back.
LEMMA OperandsBound ==
    ASSUME MaxIssueCycle \in Cycles, Registers(LastUsageOperands, Cycles), NEW c \in Cycles,
           NEW I, I.args \in Seq(Range(I.args)), NEW params
    PROVE  \A o \in Orders : operands_cycle(I, params, c).cycle[o] >= c[o]
<1>1. PICK r : /\ r[0] = [cycle |-> c, usage |-> LastUsageOperands]
               /\ \A k \in 1..Len(I.args) : r[k] = Step(I, params, r[k - 1], k)
               /\ operands_cycle(I, params, c) = r[Len(I.args)]
  BY OperandChain
<1>0. \A k \in 0..Len(I.args) : r[k].cycle \in Cycles /\ Registers(r[k].usage, Cycles)
  <2>1. Closed(Cycles)
    BY ClosedSets
  <2> QED BY <1>1, <2>1, ChainClosed
<1> DEFINE n == Len(I.args)
           S == {k \in 0..n : \A o \in Orders : r[k].cycle[o] >= c[o]}
<1>2. n \in Nat /\ \A o \in Orders : c[o] \in Nat
  BY DEF Cycles
<1>3. 0 \in S
  BY <1>1, <1>2
<1>4. ASSUME NEW k \in 1..n, k - 1 \in S
      PROVE  k \in S
  <2> DEFINE p == r[k - 1]
  <2>0. r[k] = Step(I, params, p, k)
    BY <1>1
  <2>1. r[k].cycle = after_operand(p.cycle, p.usage, I.args[k])
    BY <2>0 DEF Step
  <2>2. p.cycle \in Cycles /\ Registers(p.usage, Cycles) /\ \A o \in Orders : p.cycle[o] >= c[o]
    BY <1>0, <1>4
  <2>3. r[k].cycle \in Cycles
    BY <1>0
  <2> HIDE DEF p
  <2>4. \A o \in Orders : r[k].cycle[o] >= p.cycle[o]
    BY <2>1, <2>2, AfterOperand
  <2>5. \A o \in Orders : r[k].cycle[o] \in Nat /\ p.cycle[o] \in Nat
    BY <2>2, <2>3 DEF Cycles
  <2>6. \A o \in Orders : r[k].cycle[o] >= c[o]
    BY <2>2, <2>4, <2>5, <1>2
  <2> QED BY <2>6
<1>5. \A k \in 0..n : k \in S
  <2> HIDE DEF S, n
  <2>1. \A k \in 1..n : k - 1 \in S => k \in S
    BY <1>4
  <2> QED BY <1>2, <1>3, <2>1, UpTo
<1>6. n \in 0..n
  BY <1>2
<1> QED BY <1>1, <1>5, <1>6

\* The issue cycle of an instruction is no earlier than the cycle it starts
\* from, and an access is issued in order in the first place.
LEMMA IssueBound ==
    ASSUME TypeInv, NEW c \in Cycles, NEW I, I.args \in Seq(Range(I.args)), NEW a
    PROVE  LET r == getInstIssueCycle(I, a, c)
           IN  /\ r.cycle \in Cycles /\ Registers(r.usage, Cycles) /\ Memory(r.memory, Cycles)
               /\ \A o \in Orders : r.cycle[o] >= c[o]
               /\ I.op \in {"load", "store"} => r.cycle["io"] >= MaxIssueCycle["io"]
<1> DEFINE r == getInstIssueCycle(I, a, c)
<1>1. /\ MaxIssueCycle \in Cycles /\ Registers(LastUsageOperands, Cycles) /\ Memory(LastUsageMemory, Cycles)
      /\ Closed(Cycles)
  BY ClosedSets DEF TypeInv, Registers, Memory
<1>2. r.cycle \in Cycles /\ Registers(r.usage, Cycles) /\ Memory(r.memory, Cycles)
  BY <1>1, IssueClosed
<1>3. \A o \in Orders : c[o] \in Nat
  BY DEF Cycles
<1>4. ASSUME NEW params
      PROVE  \A o \in Orders : other_cycle(I, params, c).cycle[o] >= c[o]
  BY <1>1, OperandsBound DEF other_cycle
<1>5. CASE I.op = "call"
  <2>1. r = call_cycle(I, c)
    BY <1>5 DEF getInstIssueCycle
  <2>2. r.cycle = c \/ r = other_cycle(I, I.params, c)
    BY <2>1 DEF call_cycle
  <2> HIDE DEF r
  <2>3. \A o \in Orders : r.cycle[o] >= c[o]
    BY <2>2, <1>3, <1>4
  <2> QED BY <2>3, <1>2, <1>5 DEF r
<1> DEFINE m == Get(LastUsageMemory, a, Untouched)
<1>6. m.store \in Cycles /\ m.load \in Cycles
  BY <1>1 DEF Get, Untouched, Closed, Memory
<1>7. ASSUME NEW v
      PROVE  Plus(LookupOperand(LastUsageOperands, v), 1) \in Cycles
  BY <1>1, PutRegister DEF Closed
<1>8. CASE I.op = "load"
  <2> DEFINE ptr == Plus(LookupOperand(LastUsageOperands, I.args[1]), 1)
             raw == IF a \in DOMAIN LastUsageMemory THEN Plus(m.store, 1) ELSE Zero
             d == Latest(c, ptr)
             e == Latest(d, raw)
  <2>1. r.cycle = InOrder(e)
    BY <1>8 DEF getInstIssueCycle, load_cycle
  <2>2. ptr \in Cycles /\ raw \in Cycles
    BY <1>1, <1>6, <1>7 DEF Closed
  <2> HIDE DEF r, m, ptr, raw
  <2>3. d \in Cycles /\ \A o \in Orders : d[o] >= c[o]
    BY <1>1, <2>2, CycleArithmetic
  <2> HIDE DEF d
  <2>4. e \in Cycles /\ \A o \in Orders : e[o] >= d[o]
    BY <1>1, <2>2, <2>3, CycleArithmetic
  <2> HIDE DEF e
  <2>5. InOrder(e)["io"] >= MaxIssueCycle["io"] /\ \A o \in Orders : InOrder(e)[o] >= e[o]
    BY <1>1, <2>4, CycleArithmetic
  <2>6. \A o \in Orders : r.cycle[o] \in Nat /\ d[o] \in Nat /\ e[o] \in Nat
    BY <1>2, <2>3, <2>4 DEF Cycles
  <2>7. \A o \in Orders : r.cycle[o] >= c[o]
    BY <2>1, <2>3, <2>4, <2>5, <2>6, <1>3
  <2> QED BY <2>1, <2>5, <2>7, <1>2 DEF r
<1>9. CASE I.op = "store"
  <2> DEFINE x == Plus(LookupOperand(LastUsageOperands, I.args[1]), 1)
             y == Plus(LookupOperand(LastUsageOperands, I.args[2]), 1)
             order == IF a \in DOMAIN LastUsageMemory
                      THEN Latest(Plus(m.store, 1), Plus(m.load, 1)) ELSE Zero
             ops == Latest(x, y)
             d == Latest(c, ops)
             e == InOrder(d)
  <2>1. r.cycle = Latest(e, order)
    BY <1>9 DEF getInstIssueCycle, store_cycle
  <2>2. x \in Cycles /\ y \in Cycles /\ order \in Cycles
    BY <1>1, <1>6, <1>7 DEF Closed
  <2> HIDE DEF r, m, x, y, order
  <2>3. ops \in Cycles
    BY <1>1, <2>2, CycleArithmetic
  <2> HIDE DEF ops
  <2>4. d \in Cycles /\ \A o \in Orders : d[o] >= c[o]
    BY <1>1, <2>3, CycleArithmetic
  <2> HIDE DEF d
  <2>5. e \in Cycles /\ e["io"] >= MaxIssueCycle["io"] /\ \A o \in Orders : e[o] >= d[o]
    BY <1>1, <2>4, CycleArithmetic
  <2> HIDE DEF e
  <2>6. \A o \in Orders : r.cycle[o] >= e[o]
    BY <1>1, <2>1, <2>2, <2>5, CycleArithmetic, ZenonT(60)
  <2>7. /\ \A o \in Orders : r.cycle[o] \in Nat /\ d[o] \in Nat /\ e[o] \in Nat
        /\ MaxIssueCycle["io"] \in Nat
    BY <1>1, <1>2, <2>4, <2>5 DEF Cycles, Orders
  <2>8. \A o \in Orders : r.cycle[o] >= c[o]
    BY <2>4, <2>5, <2>6, <2>7, <1>3
  <2>9. r.cycle["io"] >= MaxIssueCycle["io"]
    BY <2>5, <2>6, <2>7 DEF Orders
  <2> QED BY <2>8, <2>9, <1>2 DEF r
<1>10. CASE I.op \notin {"call", "load", "store"}
  <2>1. r = other_cycle(I, <<>>, c)
    BY <1>10 DEF getInstIssueCycle
  <2> HIDE DEF r
  <2> QED BY <2>1, <1>2, <1>4, <1>10 DEF r
<1> QED BY <1>5, <1>8, <1>9, <1>10

--------------------------------------------------------------------------------
(* The issued instructions.                                                   *)

\* The issued instructions are finitely many entries of the log.
LEMMA IssuedFinite ==
    ASSUME TypeInv
    PROVE  /\ Len(log) \in Nat /\ DOMAIN log = 1..Len(log)
           /\ Issued \subseteq 1..Len(log) /\ IsFiniteSet(Issued)
           /\ \A n \in Issued : \A o \in Orders : Cycle(n, o) \in Nat
<1>1. Len(log) \in Nat /\ DOMAIN log = 1..Len(log)
  BY DEF TypeInv
<1>2. Issued \subseteq 1..Len(log)
  BY <1>1 DEF Issued
<1>3. IsFiniteSet(1..Len(log))
  BY <1>1, FS_Interval
<1>4. IsFiniteSet(Issued)
  BY <1>2, <1>3, FS_Subset
<1>5. \A n \in DOMAIN log : log[n].cycle \in Cycles
  BY DEF TypeInv
<1> QED BY <1>1, <1>2, <1>4, <1>5 DEF Issued, Cycle, Cycles

\* An entry at the end of the log leaves the others alone.
LEMMA LogGrows ==
    ASSUME TypeInv, NEW e, e.counted \in BOOLEAN, log' = Append(log, e)
    PROVE  /\ Len(log') = Len(log) + 1 /\ DOMAIN log' = 1..Len(log) + 1
           /\ \A n \in 1..Len(log) : log'[n] = log[n]
           /\ log'[Len(log) + 1] = e
           /\ log' \in Seq(Range(log'))
           /\ Issued' = Issued \cup {n \in {Len(log) + 1} : e.counted}
           /\ \A n \in Issued : \A o \in Orders : Cycle(n, o)' = Cycle(n, o)
<1>1. log \in Seq(Range(log)) /\ Len(log) \in Nat /\ DOMAIN log = 1..Len(log)
  BY DEF TypeInv
<1>2. /\ Len(log') = Len(log) + 1 /\ DOMAIN log' = 1..Len(log) + 1
      /\ \A n \in 1..Len(log) : log'[n] = log[n]
      /\ log'[Len(log) + 1] = e
  BY <1>1
<1>3. log' \in Seq(Range(log'))
  <2>1. log' \in Seq(Range(log) \cup {e})
    BY <1>1
  <2> QED BY <2>1, OverRange
<1>4. Issued' = {n \in 1..Len(log) + 1 : log'[n].counted}
  BY <1>2 DEF Issued
<1>5. 1..Len(log) + 1 = (1..Len(log)) \cup {Len(log) + 1}
  BY <1>1
<1>6. Issued' = Issued \cup {n \in {Len(log) + 1} : e.counted}
  BY <1>1, <1>2, <1>4, <1>5 DEF Issued
<1>7. \A n \in Issued : \A o \in Orders : Cycle(n, o)' = Cycle(n, o)
  BY <1>1, <1>2 DEF Issued, Cycle
<1> QED BY <1>2, <1>3, <1>6, <1>7

CounterInv == MaxInv /\ PreviousInv /\ SpansCount /\ QueueInv /\ WindowRespected

\* A step that issues nothing and leaves the counters alone.
LEMMA CountersKept ==
    ASSUME CounterInv, TypeInv, UNCHANGED <<setup, counters>>, Issued' = Issued,
           \A n \in Issued : log'[n] = log[n]
    PROVE  CounterInv'
<1>1. UNCHANGED <<setup, MaxIssueCycle, spans, Previous, scheduler, window_cycle>>
  BY DEF counters
<1>2. \A n \in Issued : \A o \in Orders : Cycle(n, o)' = Cycle(n, o)
  BY DEF Cycle
<1>3. \A t \in Types : \A o \in Orders : CyclesOf(t, o)' = CyclesOf(t, o)
  BY <1>2 DEF CyclesOf
<1>4. \A o \in Orders : \A c \in Nat : From(o, c)' = From(o, c)
  BY <1>2 DEF From
<1>5. MaxInv'
  BY <1>1, <1>2 DEF CounterInv, MaxInv, Orders
<1>6. PreviousInv' /\ SpansCount'
  BY <1>1, <1>3 DEF CounterInv, PreviousInv, SpansCount
<1>7. QueueInv'
  <2>1. window_cycle \in [Orders -> Nat]
    BY DEF TypeInv, Cycles
  <2> SUFFICES ASSUME setup.window > 0, NEW o \in Orders
               PROVE  /\ DOMAIN scheduler'[o] = From(o, window_cycle[o])'
                      /\ \A n \in DOMAIN scheduler'[o] : scheduler'[o][n] = Cycle(n, o)'
                      /\ window_cycle'[o] > 0 => Cardinality(From(o, window_cycle[o] - 1)') >= setup'.window
    BY <1>1 DEF QueueInv
  <2>2. /\ DOMAIN scheduler[o] = From(o, window_cycle[o])
        /\ \A n \in DOMAIN scheduler[o] : scheduler[o][n] = Cycle(n, o)
        /\ window_cycle[o] > 0 => Cardinality(From(o, window_cycle[o] - 1)) >= setup.window
    BY DEF CounterInv, QueueInv
  <2>3. From(o, window_cycle[o])' = From(o, window_cycle[o])
    BY <1>1, <1>2 DEF From
  <2>4. From(o, window_cycle[o] - 1)' = From(o, window_cycle[o] - 1)
    BY <1>1, <1>2 DEF From
  <2>5. From(o, window_cycle[o]) \subseteq Issued
    BY DEF From
  <2> QED BY <2>2, <2>3, <2>4, <2>5, <1>1, <1>2
<1>8. WindowRespected'
  <2> SUFFICES ASSUME setup.window > 0, NEW o \in Orders
               PROVE  /\ Cardinality(DOMAIN scheduler'[o]) < setup'.window
                      /\ \A n \in Issued :
                            Cardinality({m \in Issued : m < n /\ Cycle(m, o)' >= Cycle(n, o)'}) < setup'.window
    BY <1>1 DEF WindowRespected
  <2>1. /\ Cardinality(DOMAIN scheduler[o]) < setup.window
        /\ \A n \in Issued : Cardinality({m \in Issued : m < n /\ Cycle(m, o) >= Cycle(n, o)}) < setup.window
    BY DEF CounterInv, WindowRespected
  <2>2. ASSUME NEW n \in Issued
        PROVE  {m \in Issued : m < n /\ Cycle(m, o)' >= Cycle(n, o)'} = {m \in Issued : m < n /\ Cycle(m, o) >= Cycle(n, o)}
    BY <1>2
  <2> QED BY <2>1, <2>2, <1>1
<1> QED BY <1>5, <1>6, <1>7, <1>8 DEF CounterInv

\* The window of the in-order machine is never behind the other one: the
\* instructions issued from a cycle on are no fewer in order.
LEMMA WindowLag ==
    ASSUME TypeInv, QueueInv, WindowRespected, setup.window \in Nat, setup.window > 0,
           \A n \in Issued : Later(log[n].cycle)
    PROVE  Later(window_cycle)
<1> DEFINE w == window_cycle["ooo"]
           v == window_cycle["io"]
<1>1. w \in Nat /\ v \in Nat
  BY DEF TypeInv, Cycles, Orders
<1> SUFFICES ASSUME w > v
             PROVE  FALSE
  BY <1>1 DEF Later
<1>2. Cardinality(From("ooo", w - 1)) >= setup.window
  BY <1>1 DEF QueueInv, Orders
<1>3. DOMAIN scheduler["io"] = From("io", v) /\ Cardinality(DOMAIN scheduler["io"]) < setup.window
  BY DEF QueueInv, WindowRespected, Orders
<1>4. From("ooo", w - 1) \subseteq From("io", v)
  <2> SUFFICES ASSUME NEW n \in Issued, Cycle(n, "ooo") >= w - 1
               PROVE  Cycle(n, "io") >= v
    BY DEF From
  <2>1. Cycle(n, "ooo") \in Nat /\ Cycle(n, "io") \in Nat
    BY IssuedFinite DEF Orders
  <2>2. Cycle(n, "ooo") <= Cycle(n, "io")
    BY DEF Later, Cycle
  <2> QED BY <1>1, <2>1, <2>2
<1>5. IsFiniteSet(From("io", v))
  <2>1. From("io", v) \subseteq Issued
    BY DEF From
  <2> QED BY <2>1, IssuedFinite, FS_Subset
<1>6. Cardinality(From("ooo", w - 1)) <= Cardinality(From("io", v))
  BY <1>4, <1>5, FS_Subset
<1>7. Cardinality(From("ooo", w - 1)) \in Nat /\ Cardinality(From("io", v)) \in Nat
  BY <1>4, <1>5, FS_Subset, FS_CardinalityType
<1> HIDE DEF w, v
<1> QED BY <1>2, <1>3, <1>6, <1>7

\* The cycle an instruction is given: not before the window, in order after
\* every instruction issued so far, and in order no earlier than out of order.
LEMMA IssueCycle ==
    ASSUME WalkInv, TypeInv, LagInv, QueueInv, WindowRespected, Enabled, Current.op # "phi", NEW a
    PROVE  LET r == getInstIssueCycle(Current, a, start)
               c == serialised(Current, InOrder(r.cycle))
           IN  /\ start \in Cycles /\ r.cycle \in Cycles /\ c \in Cycles
               /\ Registers(r.usage, Cycles) /\ Memory(r.memory, Cycles)
               /\ c["io"] >= MaxIssueCycle["io"]
               /\ \A o \in Orders : c[o] >= r.cycle[o] /\ c[o] >= start[o]
               /\ Current.op \in {"load", "store"} => c = r.cycle
               /\ setup.ctrl # "serialise" =>
                     /\ r.cycle \in Behind /\ c \in Behind
                     /\ Registers(r.usage, Behind) /\ Memory(r.memory, Behind)
<1> DEFINE I == Current
           r == getInstIssueCycle(I, a, start)
           d == InOrder(r.cycle)
           c == serialised(I, d)
<1>1. WellFormed(setup) /\ WellFormedInstruction(setup, I)
  BY AtInstruction
<1>2. I.args \in Seq(Range(I.args))
  BY <1>1 DEF WellFormedInstruction
<1>3. MaxIssueCycle \in Cycles /\ window_cycle \in Cycles /\ MinIssueCycleForCtrl \in Nat /\ setup.window \in Nat
  BY <1>1 DEF TypeInv, WellFormed
<1>4. start \in Cycles
  BY <1>3, CycleArithmetic DEF start
<1>5. /\ r.cycle \in Cycles /\ Registers(r.usage, Cycles) /\ Memory(r.memory, Cycles)
      /\ \A o \in Orders : r.cycle[o] >= start[o]
      /\ I.op \in {"load", "store"} => r.cycle["io"] >= MaxIssueCycle["io"]
  BY <1>2, <1>4, IssueBound
<1> HIDE DEF r
<1>6. /\ d \in Cycles /\ \A o \in Orders : d[o] >= r.cycle[o]
      /\ d["io"] >= MaxIssueCycle["io"]
      /\ r.cycle["io"] >= MaxIssueCycle["io"] => d = r.cycle
  BY <1>3, <1>5, CycleArithmetic
<1> HIDE DEF d
<1>7. /\ c \in Cycles /\ c["io"] = d["io"] /\ c["ooo"] >= d["ooo"]
      /\ setup.ctrl # "serialise" \/ I.type # "ctrl" => c = d
  <2>1. d["ooo"] \in Nat /\ d["io"] \in Nat
    BY <1>6 DEF Cycles, Orders
  <2> QED BY <1>3, <1>6, <2>1 DEF serialised, Cycles, Orders
<1> HIDE DEF c
<1>8. \A o \in Orders : c[o] >= r.cycle[o] /\ c[o] >= start[o]
  <2>1. \A o \in Orders : c[o] \in Nat /\ d[o] \in Nat /\ r.cycle[o] \in Nat /\ start[o] \in Nat
    BY <1>4, <1>5, <1>6, <1>7 DEF Cycles
  <2>2. \A o \in Orders : c[o] >= d[o]
    BY <1>7, <2>1 DEF Orders
  <2> QED BY <2>1, <2>2, <1>5, <1>6
<1>9. c["io"] >= MaxIssueCycle["io"]
  BY <1>6, <1>7
<1>10. I.op \in {"load", "store"} => c = r.cycle
  <2>1. I.op \in {"load", "store"} => I.type = "mem"
    BY <1>1 DEF WellFormedInstruction
  <2> QED BY <2>1, <1>5, <1>6, <1>7
<1>11. ASSUME setup.ctrl # "serialise"
       PROVE  r.cycle \in Behind /\ c \in Behind /\ Registers(r.usage, Behind) /\ Memory(r.memory, Behind)
  <2>1. Closed(Behind)
    BY <1>3, ClosedSets
  <2>2. Registers(LastUsageOperands, Behind) /\ Memory(LastUsageMemory, Behind)
    <3>1. Registers(LastUsageOperands, Behind)
      BY <1>11 DEF LagInv, TypeInv, Registers, Behind
    <3>2. ASSUME NEW x \in DOMAIN LastUsageMemory
          PROVE  LastUsageMemory[x] \in [store : Behind, load : Behind]
      <4>1. LastUsageMemory[x] \in [store : Cycles, load : Cycles]
        BY DEF TypeInv
      <4>2. Later(LastUsageMemory[x].store) /\ Later(LastUsageMemory[x].load)
        BY <1>11 DEF LagInv
      <4> QED BY <4>1, <4>2 DEF Behind
    <3> QED BY <3>1, <3>2 DEF Memory
  <2>3. start \in Behind
    <3>1. CASE setup.window > 0
      <4>1. Later(window_cycle)
        BY <1>3, <1>11, <3>1, WindowLag DEF LagInv
      <4> QED BY <4>1, <3>1, <1>3 DEF start, Behind
    <3>2. CASE ~(setup.window > 0)
      BY <3>2, <2>1 DEF start, Closed
    <3> QED BY <3>1, <3>2
  <2>4. r.cycle \in Behind /\ Registers(r.usage, Behind) /\ Memory(r.memory, Behind)
    BY <1>2, <2>1, <2>2, <2>3, IssueClosed DEF r
  <2>5. d \in Behind
    BY <2>1, <2>4 DEF d, Closed
  <2> QED BY <2>4, <2>5, <1>7, <1>11
<1> QED BY <1>4, <1>5, <1>7, <1>8, <1>9, <1>10, <1>11 DEF r, c, d

\* An instruction that counts joins the issued ones.
LEMMA LogIssue ==
    ASSUME TypeInv, NEW e, e.counted = TRUE, log' = Append(log, e), NEW n, n = Len(log) + 1
    PROVE  /\ n \in Nat /\ n \notin Issued /\ \A m \in Issued : m \in Nat /\ m < n
           /\ Issued' = Issued \cup {n}
           /\ log'[n] = e /\ \A m \in Issued : log'[m] = log[m]
<1>1. e.counted \in BOOLEAN
  BY Zenon
<1>2. /\ \A m \in 1..Len(log) : log'[m] = log[m]
      /\ log'[n] = e
      /\ Issued' = Issued \cup {m \in {n} : e.counted}
  BY <1>1, LogGrows
<1>3. Issued' = Issued \cup {n}
  BY <1>2
<1>4. n \in Nat /\ n \notin Issued /\ \A m \in Issued : m \in Nat /\ m < n
  BY IssuedFinite
<1>5. \A m \in Issued : log'[m] = log[m]
  BY <1>2, IssuedFinite
<1> QED BY <1>2, <1>3, <1>4, <1>5

\* Issuing at a cycle no earlier in order than MaxIssueCycle keeps MaxInv.
LEMMA MaxIssue ==
    ASSUME TypeInv, MaxInv, NEW c \in Cycles, c["io"] >= MaxIssueCycle["io"],
           MaxIssueCycle' = Latest(MaxIssueCycle, c),
           NEW e, e.counted = TRUE, e.cycle = c, log' = Append(log, e)
    PROVE  MaxIssueCycle' \in Cycles /\ MaxInv'
<1>0. PICK n : n = Len(log) + 1
  OBVIOUS
<1>1. MaxIssueCycle \in Cycles
  BY DEF TypeInv
<1>2. /\ MaxIssueCycle' \in Cycles
      /\ \A o \in Orders : MaxIssueCycle'[o] >= MaxIssueCycle[o] /\ MaxIssueCycle'[o] >= c[o]
  BY <1>1, CycleArithmetic
<1>3. Issued' = Issued \cup {n} /\ n \notin Issued /\ \A m \in Issued : m < n /\ m \in Nat
  BY <1>0, LogIssue, Zenon
<1>4. /\ \A o \in Orders : Cycle(n, o)' = c[o]
      /\ \A m \in Issued : \A o \in Orders : Cycle(m, o)' = Cycle(m, o)
  <2>1. log'[n] = e /\ \A m \in Issued : log'[m] = log[m]
    BY <1>0, LogIssue, Zenon
  <2> QED BY <2>1 DEF Cycle
<1>5. /\ \A o \in Orders : c[o] \in Nat /\ MaxIssueCycle[o] \in Nat /\ MaxIssueCycle'[o] \in Nat
      /\ \A m \in Issued : \A o \in Orders : Cycle(m, o) \in Nat
  BY <1>1, <1>2, IssuedFinite DEF Cycles
<1>6. n \in Nat
  BY <1>0, IssuedFinite
<1>7. \A m \in Issued' : \A o \in Orders : Cycle(m, o)' <= MaxIssueCycle'[o]
  BY <1>2, <1>3, <1>4, <1>5 DEF MaxInv
<1>8. ASSUME NEW l \in Issued', NEW m \in Issued', l <= m
      PROVE  Cycle(l, "io")' <= Cycle(m, "io")'
  <2>1. CASE m = n /\ l = n
    BY <2>1, <1>4, <1>5 DEF Orders
  <2>2. CASE m = n /\ l \in Issued
    BY <2>2, <1>4, <1>5 DEF Orders, MaxInv
  <2>3. CASE m \in Issued
    <3>1. l \in Issued
      BY <2>3, <1>3, <1>6, <1>8
    <3> QED BY <2>3, <3>1, <1>4, <1>8 DEF MaxInv, Orders
  <2> QED BY <2>1, <2>2, <2>3, <1>3
<1> QED BY <1>2, <1>7, <1>8 DEF MaxInv, Orders

\* The cycles of its type are one more, or the same.
LEMMA CyclesGrow ==
    ASSUME NEW n, NEW e, Issued' = Issued \cup {n}, n \notin Issued,
           log'[n] = e, \A m \in Issued : log'[m] = log[m], NEW t, NEW o \in Orders
    PROVE  CyclesOf(t, o)' = CyclesOf(t, o) \cup (IF e.type = t THEN {e.cycle[o]} \ {0} ELSE {})
<1>1. \A x : x \in CyclesOf(t, o) <=>
               x # 0 /\ \E m \in Issued : log[m].type = t /\ x = log[m].cycle[o]
  BY DEF CyclesOf, Cycle
<1>2. \A x : x \in CyclesOf(t, o)' <=>
               x # 0 /\ \E m \in Issued' : log'[m].type = t /\ x = log'[m].cycle[o]
  BY DEF CyclesOf, Cycle
<1>3. \A x : (\E m \in Issued' : log'[m].type = t /\ x = log'[m].cycle[o])
             <=> (e.type = t /\ x = e.cycle[o])
                   \/ (\E m \in Issued : log[m].type = t /\ x = log[m].cycle[o])
  OBVIOUS
<1>4. \A x : x \in CyclesOf(t, o)' <=> x \in CyclesOf(t, o) \/ (e.type = t /\ x = e.cycle[o] /\ x # 0)
  BY <1>1, <1>2, <1>3
<1> QED BY <1>4

\* The span of the instruction's type goes up by one exactly when its cycle
\* lies after the earlier ones; in order that is when the cycle is a new one.
LEMMA SpanIssue ==
    ASSUME TypeInv, MaxInv, PreviousInv, SpansCount, NEW c \in Cycles, c["io"] >= MaxIssueCycle["io"],
           NEW t, count_span(t, c),
           NEW n, NEW e, Issued' = Issued \cup {n}, n \notin Issued, e.cycle = c, e.type = t,
           log'[n] = e, \A m \in Issued : log'[m] = log[m]
    PROVE  spans' \in [Types -> Cycles] /\ Previous' \in [Types -> Cycles] /\ PreviousInv' /\ SpansCount'
<1>2. ASSUME NEW u \in Types, u # t, NEW o \in Orders
      PROVE  CyclesOf(u, o)' = CyclesOf(u, o)
  <2>1. CyclesOf(u, o)' = CyclesOf(u, o) \cup (IF e.type = u THEN {e.cycle[o]} \ {0} ELSE {})
    BY CyclesGrow
  <2> QED BY <2>1, <1>2
<1>3. ASSUME NEW o \in Orders
      PROVE  CyclesOf(t, o)' = CyclesOf(t, o) \cup ({c[o]} \ {0})
  <2>1. CyclesOf(t, o)' = CyclesOf(t, o) \cup (IF e.type = t THEN {e.cycle[o]} \ {0} ELSE {})
    BY CyclesGrow
  <2> QED BY <2>1
<1>4. spans \in [Types -> Cycles] /\ Previous \in [Types -> Cycles] /\ MaxIssueCycle \in Cycles
  BY DEF TypeInv
<1>5. CASE t \notin Types
  <2>1. UNCHANGED <<spans, Previous>>
    BY <1>5 DEF count_span
  <2>2. \A u \in Types : \A o \in Orders : CyclesOf(u, o)' = CyclesOf(u, o)
    BY <1>2, <1>5
  <2>3. PreviousInv' /\ SpansCount'
    BY <2>1, <2>2 DEF PreviousInv, SpansCount
  <2> QED BY <2>1, <2>3, <1>4
<1>6. CASE t \in Types
  <2> DEFINE P == Previous[t]
  <2>1. /\ spans' = [spans EXCEPT ![t] = [o \in Orders |-> @[o] + IF c[o] > P[o] THEN 1 ELSE 0]]
        /\ Previous' = [Previous EXCEPT ![t] = Latest(@, c)]
    BY <1>6 DEF count_span
  <2>2. P \in Cycles /\ spans[t] \in Cycles
    BY <1>4, <1>6
  <2>3. Latest(P, c) \in Cycles /\ \A o \in Orders : Latest(P, c)[o] = IF c[o] > P[o] THEN c[o] ELSE P[o]
    <3> HIDE DEF P
    <3>1. Latest(P, c) \in Cycles
      BY <1>4, <2>2, CycleArithmetic
    <3> QED BY <3>1 DEF Latest
  <2>4. /\ Previous' \in [Types -> Cycles] /\ Previous'[t] = Latest(P, c)
        /\ \A u \in Types : u # t => Previous'[u] = Previous[u]
    BY <1>4, <1>6, <2>1, <2>3
  <2>5. /\ spans' \in [Types -> Cycles]
        /\ \A o \in Orders : spans'[t][o] = spans[t][o] + IF c[o] > P[o] THEN 1 ELSE 0
        /\ \A u \in Types : u # t => spans'[u] = spans[u]
    <3> DEFINE s == [o \in Orders |-> spans[t][o] + IF c[o] > P[o] THEN 1 ELSE 0]
    <3>1. s \in Cycles
      BY <2>2 DEF Cycles
    <3>2. spans' = [spans EXCEPT ![t] = s]
      BY <2>1
    <3>3. \A o \in Orders : s[o] = spans[t][o] + IF c[o] > P[o] THEN 1 ELSE 0
      OBVIOUS
    <3> HIDE DEF s
    <3> QED BY <3>1, <3>2, <3>3, <1>4, <1>6
  <2> DEFINE A(u, o) == /\ \A x \in CyclesOf(u, o)' : x <= Previous'[u][o]
                        /\ Previous'[u][o] \in CyclesOf(u, o)' \cup {0}
                        /\ spans'[u][o] = 0 => Previous'[u][o] = 0
             B(u, o) == IF o = "io" THEN spans'[u][o] = Cardinality(CyclesOf(u, o)')
                        ELSE /\ spans'[u][o] <= Cardinality(CyclesOf(u, o)')
                             /\ spans'[u][o] = 0 => CyclesOf(u, o)' = {}
  <2>6. ASSUME NEW u \in Types, u # t, NEW o \in Orders
        PROVE  A(u, o) /\ B(u, o)
    BY <1>2, <2>4, <2>5, <2>6 DEF PreviousInv, SpansCount
  <2>7. ASSUME NEW o \in Orders
        PROVE  A(t, o) /\ B(t, o)
    <3>0. PICK X, Y, q, z, q1, z1 :
             /\ X = CyclesOf(t, o) /\ q = P[o] /\ z = spans[t][o]
             /\ Y = CyclesOf(t, o)' /\ q1 = Previous'[t][o] /\ z1 = spans'[t][o]
      OBVIOUS
    <3>1. q \in Nat /\ c[o] \in Nat /\ z \in Nat
      BY <2>2, <3>0 DEF Cycles
    <3>2. \A x \in X : x <= q /\ x \in Nat /\ x # 0
      <4>1. \A x \in X : x \in Nat /\ x # 0
        BY <3>0, IssuedFinite DEF CyclesOf
      <4> QED BY <4>1, <3>0, <1>6 DEF PreviousInv
    <3>3. q \in X \cup {0} /\ (z = 0 => q = 0)
      BY <3>0, <1>6 DEF PreviousInv
    <3>4. IsFiniteSet(X) /\ Cardinality(X) \in Nat
      <4>1. X \subseteq 0..q
        BY <3>1, <3>2
      <4>2. IsFiniteSet(0..q)
        BY <3>1, FS_Interval
      <4> QED BY <4>1, <4>2, FS_Subset, FS_CardinalityType
    <3>5. /\ o = "io" => z = Cardinality(X)
          /\ o # "io" => z <= Cardinality(X) /\ (z = 0 => X = {})
      BY <1>6, <3>0 DEF SpansCount
    <3>6. Y = X \cup ({c[o]} \ {0})
      BY <1>3, <3>0
    <3>7. q1 = (IF c[o] > q THEN c[o] ELSE q) /\ z1 = z + IF c[o] > q THEN 1 ELSE 0
      BY <2>3, <2>4, <2>5, <3>0
    <3>8. o = "io" => c[o] >= q
      <4> HAVE o = "io"
      <4>1. \A x \in CyclesOf(t, "io") : x <= MaxIssueCycle["io"]
        BY DEF CyclesOf, MaxInv, Orders
      <4>2. MaxIssueCycle["io"] \in Nat
        BY <1>4 DEF Cycles, Orders
      <4> QED BY <4>1, <4>2, <3>0, <3>1, <3>3
    <3>9. /\ \A x \in Y : x <= q1
          /\ q1 \in Y \cup {0} /\ (z1 = 0 => q1 = 0)
      BY <3>1, <3>2, <3>3, <3>6, <3>7
    <3>10. /\ o = "io" => z1 = Cardinality(Y)
           /\ o # "io" => z1 <= Cardinality(Y) /\ (z1 = 0 => Y = {})
      <4>1. CASE c[o] > q
        <5>1. c[o] # 0 /\ c[o] \notin X
          BY <3>1, <3>2, <4>1
        <5>2. Y = X \cup {c[o]}
          BY <3>6, <5>1
        <5>3. Cardinality(Y) = Cardinality(X) + 1
          BY <3>4, <5>1, <5>2, FS_AddElement
        <5> QED BY <5>3, <3>1, <3>4, <3>5, <3>7, <4>1
      <4>2. CASE ~(c[o] > q) /\ o = "io"
        <5>1. c[o] = q
          BY <3>1, <3>8, <4>2
        <5>2. Y = X
          BY <3>3, <3>6, <5>1
        <5>3. z1 = z
          BY <3>1, <3>7, <4>2
        <5> QED BY <5>2, <5>3, <3>5, <4>2
      <4>3. CASE ~(c[o] > q) /\ o # "io"
        <5>1. X \subseteq Y /\ z1 = z
          BY <3>1, <3>6, <3>7, <4>3
        <5>2. IsFiniteSet(Y)
          <6>1. Y = X \/ Y = X \cup {c[o]}
            BY <3>6
          <6>2. IsFiniteSet(X \cup {c[o]})
            BY <3>4, FS_AddElement
          <6> QED BY <6>1, <6>2, <3>4
        <5>3. Cardinality(Y) \in Nat /\ Cardinality(X) <= Cardinality(Y)
          BY <5>1, <5>2, FS_Subset, FS_CardinalityType
        <5>4. z <= Cardinality(X) /\ (z = 0 => X = {} /\ c[o] = 0)
          BY <3>1, <3>3, <3>5, <4>3
        <5>5. z1 <= Cardinality(Y)
          BY <5>1, <5>3, <5>4, <3>1, <3>4
        <5>6. z1 = 0 => Y = {}
          BY <5>1, <5>4, <3>6
        <5> QED BY <5>5, <5>6, <4>3
      <4> QED BY <4>1, <4>2, <4>3
    <3>11. A(t, o)
      BY <3>0, <3>9
    <3>12. B(t, o)
      BY <3>0, <3>10
    <3> QED BY <3>11, <3>12
  <2>8. \A u \in Types : \A o \in Orders : A(u, o) /\ B(u, o)
    BY <2>6, <2>7
  <2>9. PreviousInv'
    BY <2>8 DEF PreviousInv
  <2>10. SpansCount'
    BY <2>8 DEF SpansCount
  <2> QED BY <2>4, <2>5, <2>9, <2>10
<1> QED BY <1>5, <1>6

\* The scheduler after an entry came: it holds the entries from the window's
\* first cycle on, fewer than window_size, and a cycle it released lay in front
\* of window_size entries.
LEMMA Released ==
    ASSUME NEW q, IsFiniteSet(DOMAIN q), DOMAIN q # {}, NEW w \in Nat,
           \A m \in DOMAIN q : q[m] \in Nat /\ q[m] >= w,
           setup.window \in Nat, Cardinality(DOMAIN q) <= setup.window
    PROVE  LET r == released(q, w)
           IN  /\ r.cycle \in Nat /\ r.cycle >= w
               /\ DOMAIN r.queue = {m \in DOMAIN q : q[m] >= r.cycle}
               /\ \A m \in DOMAIN r.queue : r.queue[m] = q[m]
               /\ Cardinality(DOMAIN r.queue) < setup.window
               /\ \/ r.cycle = w
                  \/ /\ r.cycle > w
                     /\ \A m \in DOMAIN q : q[m] >= r.cycle - 1
                     /\ Cardinality(DOMAIN q) = setup.window
<1> DEFINE D == DOMAIN q
           later == {x \in Range(q) : x >= w}
           r == released(q, w)
<1>1. Cardinality(D) \in Nat
  BY FS_CardinalityType
<1>2. later \subseteq Nat /\ later # {} /\ \A x : x \in later <=> \E m \in D : q[m] = x
  BY DEF Range
<1>3. CASE Cardinality(D) # setup.window
  <2>1. r = [queue |-> q, cycle |-> w]
    BY <1>3 DEF released
  <2>2. D = {m \in D : q[m] >= w}
    OBVIOUS
  <2> HIDE DEF r
  <2>3. r.queue = q /\ r.cycle = w /\ Cardinality(D) < setup.window
    BY <2>1, <1>1, <1>3
  <2> QED BY <2>2, <2>3 DEF r
<1>4. CASE Cardinality(D) = setup.window
  <2> DEFINE x == Min(later)
  <2>1. r = [queue |-> Without(q, x), cycle |-> x + 1]
    BY <1>2, <1>4 DEF released
  <2>2. x \in later /\ \A y \in later : x <= y
    <3>1. \E z \in later : \A y \in later : z <= y
      BY <1>2, Least
    <3> QED BY <3>1 DEF Min
  <2> HIDE DEF x, r, later
  <2>3. PICK m \in D : q[m] = x
    BY <1>2, <2>2
  <2>4. x \in Nat /\ x >= w /\ \A k \in D : q[k] >= x /\ q[k] \in Nat
    BY <1>2, <2>2
  <2>5. r.queue = [k \in {l \in D : q[l] # x} |-> q[k]] /\ r.cycle = x + 1
    BY <2>1 DEF Without, Restrict
  <2>6. DOMAIN r.queue = {k \in D : q[k] >= r.cycle}
    <3>1. DOMAIN r.queue = {k \in D : q[k] # x}
      BY <2>5
    <3>2. \A k \in D : q[k] # x <=> q[k] >= x + 1
      BY <2>4
    <3> QED BY <3>1, <3>2, <2>5
  <2>7. Cardinality(DOMAIN r.queue) < setup.window
    <3>1. DOMAIN r.queue \subseteq D /\ m \notin DOMAIN r.queue
      BY <2>3, <2>5
    <3>2. DOMAIN r.queue # D
      BY <3>1, <2>3
    <3>3. /\ Cardinality(DOMAIN r.queue) <= Cardinality(D)
          /\ Cardinality(DOMAIN r.queue) # Cardinality(D)
          /\ IsFiniteSet(DOMAIN r.queue)
      BY <3>1, <3>2, FS_Subset
    <3>4. Cardinality(DOMAIN r.queue) \in Nat
      BY <3>3, FS_CardinalityType
    <3> QED BY <3>3, <3>4, <1>1, <1>4
  <2>8. \A k \in DOMAIN r.queue : r.queue[k] = q[k]
    BY <2>5
  <2>9. r.cycle \in Nat /\ r.cycle > w /\ r.cycle >= w /\ r.cycle - 1 = x
    BY <2>4, <2>5
  <2> QED BY <2>4, <2>6, <2>7, <2>8, <2>9, <1>4 DEF r
<1> QED BY <1>3, <1>4

\* Issuing at a cycle of the window keeps the scheduler's entries.
LEMMA QueueIssue ==
    ASSUME TypeInv, QueueInv, WindowRespected, setup.window \in Nat, setup' = setup,
           NEW c \in Cycles, setup.window > 0 => \A o \in Orders : c[o] >= window_cycle[o], schedule(c),
           NEW n, n = Len(log) + 1, NEW e, Issued' = Issued \cup {n}, n \notin Issued, e.cycle = c,
           log'[n] = e, \A m \in Issued : log'[m] = log[m]
    PROVE  window_cycle' \in Cycles /\ QueueInv' /\ WindowRespected'
<1>1. CASE setup.window = 0
  <2>1. window_cycle' = window_cycle
    BY <1>1 DEF schedule
  <2> QED BY <2>1, <1>1 DEF TypeInv, QueueInv, WindowRespected
<1>2. CASE setup.window > 0
  <2> DEFINE q(o) == Put(scheduler[o], n, c[o])
             r(o) == released(q(o), window_cycle[o])
  <2>1. scheduler' = [o \in Orders |-> r(o).queue] /\ window_cycle' = [o \in Orders |-> r(o).cycle]
    BY <1>2 DEF schedule
  <2>2. ASSUME NEW o \in Orders
        PROVE  /\ Cycle(n, o)' = c[o] /\ \A m \in Issued : Cycle(m, o)' = Cycle(m, o)
               /\ c[o] \in Nat /\ \A m \in Issued : Cycle(m, o) \in Nat /\ m < n /\ m \in Nat
               /\ n \in Nat
    <3>1. Cycle(n, o)' = c[o] /\ \A m \in Issued : Cycle(m, o)' = Cycle(m, o)
      BY DEF Cycle
    <3>2. c[o] \in Nat
      BY DEF Cycles
    <3>3. n \in Nat /\ \A m \in Issued : Cycle(m, o) \in Nat /\ m < n /\ m \in Nat
      BY IssuedFinite
    <3> QED BY <3>1, <3>2, <3>3
  <2>3. ASSUME NEW o \in Orders
        PROVE  /\ window_cycle'[o] \in Nat
               /\ DOMAIN scheduler'[o] = {m \in Issued' : Cycle(m, o)' >= window_cycle'[o]}
               /\ \A m \in DOMAIN scheduler'[o] : scheduler'[o][m] = Cycle(m, o)'
               /\ window_cycle'[o] > 0 =>
                     Cardinality({m \in Issued' : Cycle(m, o)' >= window_cycle'[o] - 1}) >= setup.window
               /\ Cardinality(DOMAIN scheduler'[o]) < setup.window
               /\ \A m \in Issued' :
                     Cardinality({k \in Issued' : k < m /\ Cycle(k, o)' >= Cycle(m, o)'}) < setup.window
    <3>0. PICK w, D, f, x, s1, w1 :
             /\ w = window_cycle[o] /\ D = DOMAIN scheduler[o] /\ f = scheduler[o]
             /\ x = c[o] /\ s1 = scheduler'[o] /\ w1 = window_cycle'[o]
      OBVIOUS
    <3>1. /\ w \in Nat /\ x \in Nat /\ x >= w
          /\ D = {m \in Issued : Cycle(m, o) >= w}
          /\ \A m \in D : f[m] = Cycle(m, o)
          /\ w > 0 => Cardinality({m \in Issued : Cycle(m, o) >= w - 1}) >= setup.window
          /\ Cardinality(D) < setup.window
          /\ \A m \in Issued : Cardinality({k \in Issued : k < m /\ Cycle(k, o) >= Cycle(m, o)}) < setup.window
      <4>1. w \in Nat /\ x \in Nat /\ x >= w
        BY <1>2, <3>0 DEF TypeInv, Cycles
      <4> QED BY <4>1, <1>2, <3>0 DEF QueueInv, WindowRespected, From
    <3>2. IsFiniteSet(Issued) /\ IsFiniteSet(Issued')
      BY IssuedFinite, FS_AddElement
    <3>3. D \subseteq Issued /\ IsFiniteSet(D)
      BY <3>1, <3>2, FS_Subset
    <3>4. PICK g : g = q(o)
      OBVIOUS
    <3>5. /\ DOMAIN g = D \cup {n} /\ \A m \in DOMAIN g : g[m] = Cycle(m, o)'
          /\ \A m \in DOMAIN g : g[m] \in Nat /\ g[m] >= w
      <4>1. /\ DOMAIN g = D \cup {n} /\ g[n] = x
            /\ \A m \in D : m # n => g[m] = f[m]
        BY <3>0, <3>4 DEF Put
      <4>2. \A m \in D : g[m] = Cycle(m, o) /\ Cycle(m, o)' = Cycle(m, o)
        BY <4>1, <2>2, <3>1, <3>3
      <4>3. g[n] = Cycle(n, o)' /\ g[n] \in Nat /\ g[n] >= w
        BY <4>1, <2>2, <3>0, <3>1
      <4>4. \A m \in D : g[m] \in Nat /\ g[m] >= w
        BY <4>2, <2>2, <3>1, <3>3
      <4> QED BY <4>1, <4>2, <4>3, <4>4
    <3>6. IsFiniteSet(DOMAIN g) /\ Cardinality(DOMAIN g) <= setup.window /\ DOMAIN g # {}
      <4>1. n \notin D
        BY <3>3
      <4>2. IsFiniteSet(D \cup {n}) /\ Cardinality(D \cup {n}) = Cardinality(D) + 1 /\ Cardinality(D) \in Nat
        BY <3>3, <4>1, FS_AddElement, FS_CardinalityType
      <4> QED BY <4>2, <3>1, <3>5
    <3>7. PICK u : u = released(g, w) /\ s1 = u.queue /\ w1 = u.cycle
      BY <2>1, <3>0, <3>4
    <3>8. /\ w1 \in Nat /\ w1 >= w
          /\ DOMAIN s1 = {m \in DOMAIN g : g[m] >= w1}
          /\ \A m \in DOMAIN s1 : s1[m] = g[m]
          /\ Cardinality(DOMAIN s1) < setup.window
          /\ \/ w1 = w
             \/ w1 > w /\ (\A m \in DOMAIN g : g[m] >= w1 - 1) /\ Cardinality(DOMAIN g) = setup.window
      <4>1. w \in Nat /\ \A m \in DOMAIN g : g[m] \in Nat /\ g[m] >= w
        BY <3>1, <3>5
      <4>2. /\ u.cycle \in Nat /\ u.cycle >= w
            /\ DOMAIN u.queue = {m \in DOMAIN g : g[m] >= u.cycle}
            /\ \A m \in DOMAIN u.queue : u.queue[m] = g[m]
            /\ Cardinality(DOMAIN u.queue) < setup.window
            /\ \/ u.cycle = w
               \/ /\ u.cycle > w
                  /\ \A m \in DOMAIN g : g[m] >= u.cycle - 1
                  /\ Cardinality(DOMAIN g) = setup.window
        BY <4>1, <3>6, <3>7, Released
      <4> QED BY <4>2, <3>7
    <3>9. DOMAIN g = {m \in Issued' : Cycle(m, o)' >= w}
      BY <2>2, <3>1, <3>5
    <3>10. DOMAIN s1 = {m \in Issued' : Cycle(m, o)' >= w1}
      <4>1. \A m \in Issued' : Cycle(m, o)' \in Nat
        BY <2>2
      <4>2. \A m \in Issued' : Cycle(m, o)' >= w1 => m \in DOMAIN g
        BY <4>1, <3>1, <3>8, <3>9
      <4>3. \A m : m \in DOMAIN s1 <=> m \in DOMAIN g /\ Cycle(m, o)' >= w1
        BY <3>5, <3>8
      <4>4. \A m \in DOMAIN g : m \in Issued'
        BY <3>9
      <4> QED BY <4>2, <4>3, <4>4
    <3>11. \A m \in DOMAIN s1 : s1[m] = Cycle(m, o)'
      BY <3>5, <3>8
    <3>12. w1 > 0 => Cardinality({m \in Issued' : Cycle(m, o)' >= w1 - 1}) >= setup.window
      <4> HAVE w1 > 0
      <4>1. CASE w1 = w
        <5> DEFINE A == {m \in Issued : Cycle(m, o) >= w - 1}
                   B == {m \in Issued' : Cycle(m, o)' >= w - 1}
        <5>1. A \subseteq B /\ B \subseteq Issued' /\ Cardinality(A) >= setup.window
          BY <2>2, <3>1, <4>1
        <5>2. IsFiniteSet(B)
          BY <3>2, <5>1, FS_Subset
        <5>3. Cardinality(A) <= Cardinality(B) /\ Cardinality(A) \in Nat /\ Cardinality(B) \in Nat
          BY <5>1, <5>2, FS_Subset, FS_CardinalityType
        <5> HIDE DEF A, B
        <5>4. Cardinality(B) >= setup.window
          BY <5>1, <5>3
        <5> QED BY <5>4, <4>1 DEF B
      <4>2. CASE w1 > w /\ (\A m \in DOMAIN g : g[m] >= w1 - 1) /\ Cardinality(DOMAIN g) = setup.window
        <5>1. \A m \in Issued' : Cycle(m, o)' \in Nat
          BY <2>2
        <5>2. {m \in Issued' : Cycle(m, o)' >= w1 - 1} = DOMAIN g
          BY <5>1, <4>2, <3>1, <3>5, <3>8, <3>9
        <5> QED BY <5>2, <4>2
      <4> QED BY <4>1, <4>2, <3>8
    <3>13. ASSUME NEW m \in Issued'
           PROVE  Cardinality({k \in Issued' : k < m /\ Cycle(k, o)' >= Cycle(m, o)'}) < setup.window
      <4>1. CASE m \in Issued
        <5>1. {k \in Issued' : k < m /\ Cycle(k, o)' >= Cycle(m, o)'}
                = {k \in Issued : k < m /\ Cycle(k, o) >= Cycle(m, o)}
          BY <2>2, <4>1
        <5> QED BY <5>1, <3>1, <4>1
      <4>2. CASE m = n
        <5> DEFINE A == {k \in Issued' : k < m /\ Cycle(k, o)' >= Cycle(m, o)'}
        <5>1. A \subseteq D
          BY <2>2, <3>0, <3>1, <4>2
        <5>2. Cardinality(A) <= Cardinality(D) /\ Cardinality(A) \in Nat /\ Cardinality(D) \in Nat
          BY <5>1, <3>3, FS_Subset, FS_CardinalityType
        <5> HIDE DEF A
        <5>3. Cardinality(A) < setup.window
          BY <5>2, <3>1
        <5> QED BY <5>3 DEF A
      <4> QED BY <4>1, <4>2
    <3> QED BY <3>0, <3>8, <3>10, <3>11, <3>12, <3>13
  <2>4. window_cycle' \in Cycles
    BY <2>1, <2>3 DEF Cycles
  <2>5. QueueInv'
    BY <2>3 DEF QueueInv, From
  <2>6. WindowRespected'
    BY <2>3 DEF WindowRespected
  <2> QED BY <2>4, <2>5, <2>6
<1> QED BY <1>1, <1>2

--------------------------------------------------------------------------------
(* The history.                                                               *)

Entry(I, a, c, counted) ==
    [op |-> I.op, type |-> I.type, addr |-> a, cycle |-> c, counted |-> counted,
     deps |-> reads(I) \cup conflicts(I, a)]

\* The sources of the registers are among the instructions of l.
Typed(f, l) == \A v \in DOMAIN f : f[v] \subseteq (DOMAIN l) \X {0, 1}

\* An entry of the history depends on earlier ones, and a register comes from
\* instructions that were executed.
LEMMA RecordTyped ==
    ASSUME TypeInv, NEW I, NEW a, NEW c \in Cycles, NEW counted \in BOOLEAN, record(I, a, c, counted)
    PROVE  /\ log' = Append(log, Entry(I, a, c, counted))
           /\ log' \in Seq(Range(log'))
           /\ \A n \in DOMAIN log' : log'[n].cycle \in Cycles /\ log'[n].deps \subseteq (1..n - 1) \X {0, 1}
           /\ Typed(src', log') /\ Typed(produced(I), log') /\ DOMAIN log \subseteq DOMAIN log'
<1>1. PICK e : e = Entry(I, a, c, counted)
  OBVIOUS
<1>2. log' = Append(log, e)
  BY <1>1 DEF record, Entry
<1>3. e.counted = counted /\ e.cycle = c /\ e.deps = reads(I) \cup conflicts(I, a)
  BY <1>1 DEF Entry
<1>4. e.counted \in BOOLEAN
  BY <1>3, Zenon
<1>5. /\ Len(log') = Len(log) + 1 /\ DOMAIN log' = 1..Len(log) + 1
      /\ \A n \in 1..Len(log) : log'[n] = log[n]
      /\ log'[Len(log) + 1] = e
      /\ log' \in Seq(Range(log'))
  BY <1>2, <1>4, LogGrows
<1>6. Len(log) \in Nat /\ DOMAIN log = 1..Len(log)
  BY DEF TypeInv
<1>7. \A v : Sources(v) \subseteq (1..Len(log)) \X {0, 1}
  BY <1>6 DEF Sources, Get, TypeInv, Histories
<1>8. e.deps \subseteq (1..Len(log)) \X {0, 1}
  <2>1. reads(I) \subseteq (1..Len(log)) \X {0, 1}
    BY <1>7 DEF reads
  <2>2. conflicts(I, a) \subseteq (1..Len(log)) \X {0, 1}
    BY <1>6 DEF conflicts
  <2> QED BY <2>1, <2>2, <1>3
<1>9. \A n \in DOMAIN log' : log'[n].cycle \in Cycles /\ log'[n].deps \subseteq (1..n - 1) \X {0, 1}
  <2>1. \A n \in 1..Len(log) : log'[n].cycle \in Cycles /\ log'[n].deps \subseteq (1..n - 1) \X {0, 1}
    BY <1>5, <1>6 DEF TypeInv
  <2>2. log'[Len(log) + 1].cycle \in Cycles /\ log'[Len(log) + 1].deps \subseteq (1..(Len(log) + 1) - 1) \X {0, 1}
    BY <1>3, <1>5, <1>6, <1>8
  <2>3. \A n \in DOMAIN log' : n \in 1..Len(log) \/ n = Len(log) + 1
    BY <1>5, <1>6
  <2> QED BY <2>1, <2>2, <2>3
<1>10. Typed(produced(I), log')
  <2>1. \A v \in DOMAIN produced(I) : produced(I)[v] = IF v = I.id THEN {<<Len(log) + 1, 1>>} ELSE src[v]
    BY DEF produced, Put
  <2>2. \A v \in DOMAIN produced(I) : v # I.id => v \in DOMAIN src
    BY DEF produced, Put
  <2>3. \A v \in DOMAIN src : src[v] \subseteq (1..Len(log)) \X {0, 1}
    BY <1>6 DEF TypeInv, Histories
  <2>4. (1..Len(log)) \X {0, 1} \subseteq (1..Len(log) + 1) \X {0, 1}
    BY <1>6
  <2>5. {<<Len(log) + 1, 1>>} \subseteq (1..Len(log) + 1) \X {0, 1}
    BY <1>6
  <2> QED BY <2>1, <2>2, <2>3, <2>4, <2>5, <1>5 DEF Typed
<1>11. Typed(src', log')
  <2>1. \A v : Sources(v) \subseteq (1..Len(log) + 1) \X {0, 1}
    BY <1>6, <1>7
  <2>2. src' = IF CallsBody(setup, I) THEN [p \in bound(I) |-> Sources(argument(I, p))] ELSE produced(I)
    BY DEF record
  <2> QED BY <2>1, <2>2, <1>5, <1>10 DEF Typed
<1>12. DOMAIN log \subseteq DOMAIN log'
  BY <1>5, <1>6
<1> QED BY <1>1, <1>2, <1>5, <1>9, <1>10, <1>11, <1>12

\* The registers of the activation, those at the entry of its block and those
\* of its callers come from executed instructions after the walk moved on.
LEMMA HistoriesVisit ==
    ASSUME WalkInv, TypeInv, advance(Current), DOMAIN log \subseteq DOMAIN log', Typed(src', log'),
           CallsBody(setup, Current) => Typed(produced(Current), log')
    PROVE  \A f \in Histories' : Typed(f, log')
<1>1. \A f \in Histories : Typed(f, log')
  BY DEF TypeInv, Typed
<1>2. entered' \in {entered, src'}
  BY DEF advance
<1>3. \A i \in DOMAIN stack' : Typed(stack'[i][4], log')
  <2>1. CASE CallsBody(setup, Current)
    <3>1. PICK g : g = <<at, came, Current.id, produced(Current)>>
      OBVIOUS
    <3>2. stack' = Append(stack, g) /\ g[4] = produced(Current)
      BY <2>1, <3>1 DEF advance
    <3>3. DOMAIN stack = 1..Len(stack) /\ DOMAIN stack' = 1..Len(stack) + 1 /\ Len(stack) \in Nat
          /\ (\A i \in 1..Len(stack) : stack'[i] = stack[i]) /\ stack'[Len(stack) + 1] = g
      BY <3>2 DEF WalkInv
    <3>4. \A i \in 1..Len(stack) : Typed(stack'[i][4], log')
      BY <3>3, <1>1 DEF Histories
    <3>5. Typed(stack'[Len(stack) + 1][4], log')
      BY <2>1, <3>2, <3>3
    <3>6. \A i \in DOMAIN stack' : i \in 1..Len(stack) \/ i = Len(stack) + 1
      BY <3>3
    <3> QED BY <3>4, <3>5, <3>6
  <2>2. CASE ~CallsBody(setup, Current)
    <3>1. stack' = stack
      BY <2>2 DEF advance
    <3> QED BY <3>1, <1>1 DEF Histories
  <2> QED BY <2>1, <2>2
<1>4. Typed(entered', log')
  BY <1>1, <1>2 DEF Histories
<1> QED BY <1>3, <1>4 DEF Histories

--------------------------------------------------------------------------------
(* The steps: the walk, the types, the counters and the lag between the two   *)
(* orders.                                                                    *)

CoreInv == WalkInv /\ TypeInv /\ CounterInv /\ LagInv

\* What LagInv says of the maps, with the cycles that lag.
LEMMA LagMaps ==
    ASSUME TypeInv
    PROVE  /\ Registers(LastUsageOperands, Cycles) /\ Memory(LastUsageMemory, Cycles) /\ Closed(Cycles)
           /\ Closed(Behind)
           /\ LagInv <=> (setup.ctrl # "serialise" =>
                             /\ Registers(LastUsageOperands, Behind) /\ Memory(LastUsageMemory, Behind)
                             /\ \A n \in Issued : Later(log[n].cycle))
<1>1. Registers(LastUsageOperands, Cycles) /\ Memory(LastUsageMemory, Cycles) /\ MaxIssueCycle \in Cycles
  BY DEF TypeInv, Registers, Memory
<1>2. Closed(Cycles) /\ Closed(Behind)
  BY <1>1, ClosedSets
<1>3. Registers(LastUsageOperands, Behind) <=> \A v \in DOMAIN LastUsageOperands : Later(LastUsageOperands[v])
  BY <1>1 DEF Registers, Behind
<1>4. ASSUME NEW a \in DOMAIN LastUsageMemory
      PROVE  LastUsageMemory[a] \in [store : Behind, load : Behind]
                <=> Later(LastUsageMemory[a].store) /\ Later(LastUsageMemory[a].load)
  <2>1. LastUsageMemory[a] \in [store : Cycles, load : Cycles]
    BY <1>1 DEF Memory
  <2> QED BY <2>1 DEF Behind
<1>5. Memory(LastUsageMemory, Behind)
        <=> \A a \in DOMAIN LastUsageMemory : Later(LastUsageMemory[a].store) /\ Later(LastUsageMemory[a].load)
  BY <1>4 DEF Memory
<1> QED BY <1>1, <1>2, <1>3, <1>5 DEF LagInv

\* A phi hands on a cycle of the set.
LEMMA PhiClosed ==
    ASSUME NEW C, Closed(C), Registers(LastUsageOperands, C), NEW I
    PROVE  Registers(phi_cycle(I), C)
<1>1. CASE prevBB \notin DOMAIN I.from
  BY <1>1 DEF phi_cycle
<1>2. CASE prevBB \in DOMAIN I.from
  <2> DEFINE v == I.from[prevBB]
             u == LookupOperand(LastUsageOperands, v)
             c == IF valueIsConstantLike(v) \/ valueIsFunctionCall(v) THEN u ELSE InOrder(Plus(u, 1))
  <2>1. u \in C
    <3>1. Zero \in C
      BY DEF Closed
    <3> QED BY <3>1, PutRegister
  <2>2. c \in C
    <3> HIDE DEF u, v
    <3> QED BY <2>1 DEF Closed
  <2>3. phi_cycle(I) = InsertOperandUsage(LastUsageOperands, I.id, c)
    BY <1>2 DEF phi_cycle
  <2> HIDE DEF c
  <2> QED BY <2>2, <2>3, PutRegister
<1> QED BY <1>1, <1>2

LEMMA CorePhi ==
    ASSUME CoreInv, visit_phi
    PROVE  CoreInv'
<1>1. /\ Enabled /\ advance(Current) /\ setup' = setup
      /\ LastUsageOperands' = phi_cycle(Current)
      /\ UNCHANGED <<counters, LastUsageMemory, log>>
      /\ UNCHANGED <<MinIssueCycleForCtrl, MaxIssueCycle, spans, Previous, scheduler, window_cycle>>
  BY DEF visit_phi, advance, counters
<1>2. WalkInv /\ TypeInv /\ CounterInv /\ LagInv
  BY DEF CoreInv
<1>3. WalkInv'
  BY <1>1, <1>2, WalkVisit
<1>4. /\ Registers(LastUsageOperands, Cycles) /\ Closed(Cycles) /\ Closed(Behind)
      /\ setup.ctrl # "serialise" => /\ Registers(LastUsageOperands, Behind) /\ Memory(LastUsageMemory, Behind)
                                     /\ \A n \in Issued : Later(log[n].cycle)
  BY <1>2, LagMaps
<1>5. Registers(LastUsageOperands', Cycles)
  BY <1>1, <1>4, PhiClosed
<1>6. \A f \in Histories' : Typed(f, log')
  <2>1. PICK v, S, X : /\ v = Current.from[came] /\ S = Get(entered, v, {})
                       /\ X = (IF valueIsFunctionCall(v) THEN {<<s[1], 0>> : s \in S} ELSE S)
    OBVIOUS
  <2>2. src' = Put(src, Current.id, X)
    BY <2>1 DEF visit_phi
  <2>3. S \subseteq (DOMAIN log) \X {0, 1}
    BY <1>2, <2>1 DEF Get, TypeInv, Histories
  <2>4. X \subseteq (DOMAIN log) \X {0, 1}
    BY <2>1, <2>3
  <2>5. \A x \in DOMAIN src : src[x] \subseteq (DOMAIN log) \X {0, 1}
    BY <1>2 DEF TypeInv, Histories
  <2>6. Typed(src', log')
    BY <2>2, <2>4, <2>5, <1>1 DEF Put, Typed
  <2>7. ~CallsBody(setup, Current)
    BY DEF visit_phi, CallsBody
  <2> QED BY <1>1, <1>2, <2>6, <2>7, HistoriesVisit
<1>7. TypeInv'
  BY <1>1, <1>2, <1>5, <1>6 DEF TypeInv, Registers, Typed
<1>8. Issued' = Issued
  BY <1>1 DEF Issued
<1>9. CounterInv'
  BY <1>1, <1>2, <1>8, CountersKept
<1>10. LagInv'
  <2>1. setup.ctrl # "serialise" => Registers(LastUsageOperands', Behind)
    BY <1>1, <1>4, PhiClosed
  <2> QED BY <2>1, <1>1, <1>2, <1>8 DEF LagInv, Registers, Behind
<1> QED BY <1>3, <1>7, <1>9, <1>10 DEF CoreInv

LEMMA CoreReturn ==
    ASSUME CoreInv, updateILPforCall
    PROVE  CoreInv'
<1>1. /\ setup' = setup /\ UNCHANGED <<counters, LastUsageMemory, log>>
      /\ UNCHANGED <<MinIssueCycleForCtrl, MaxIssueCycle, spans, Previous, scheduler, window_cycle>>
  BY DEF updateILPforCall, counters
<1>2. WalkInv /\ TypeInv /\ CounterInv /\ LagInv
  BY DEF CoreInv
<1>3. WalkInv'
  BY <1>2, WalkReturn
<1>4. /\ Registers(LastUsageOperands, Cycles) /\ Closed(Cycles) /\ Closed(Behind)
      /\ setup.ctrl # "serialise" => /\ Registers(LastUsageOperands, Behind) /\ Memory(LastUsageMemory, Behind)
                                     /\ \A n \in Issued : Later(log[n].cycle)
  BY <1>2, LagMaps
<1>5. ASSUME NEW C, Closed(C), Registers(LastUsageOperands, C)
      PROVE  Registers(LastUsageOperands', C)
  <2> DEFINE call == Last(stack)[3]
             c == Latest(LookupOperand(LastUsageOperands, call), LookupOperand(LastUsageOperands, returned))
  <2>1. LastUsageOperands' = InsertOperandUsage(LastUsageOperands, call, c)
    BY DEF updateILPforCall
  <2>2. Zero \in C
    BY <1>5 DEF Closed
  <2>3. LookupOperand(LastUsageOperands, call) \in C /\ LookupOperand(LastUsageOperands, returned) \in C
    BY <1>5, <2>2, PutRegister
  <2>4. c \in C
    BY <1>5, <2>3 DEF Closed
  <2> HIDE DEF c
  <2> QED BY <1>5, <2>1, <2>4, PutRegister
<1>6. \A f \in Histories' : Typed(f, log)
  <2>1. PICK call, kept, X : /\ call = Last(stack)[3] /\ kept = Last(stack)[4]
                             /\ X = kept[call] \cup Sources(returned)
    OBVIOUS
  <2>2. src' = Put(kept, call, X) /\ entered' = entered /\ stack' = Front(stack)
    BY <2>1 DEF updateILPforCall
  <2>3. \A f \in Histories : Typed(f, log)
    BY <1>2 DEF TypeInv, Typed
  <2>4. /\ Len(stack) \in Nat /\ DOMAIN stack = 1..Len(stack) /\ Len(stack) >= 1 /\ Last(stack) = stack[Len(stack)]
        /\ DOMAIN stack' = 1..Len(stack) - 1
        /\ \A i \in 1..Len(stack) - 1 : stack'[i] = stack[i]
    BY <1>2, WalkReturn
  <2>5. kept \in Histories /\ Typed(kept, log)
    BY <2>1, <2>3, <2>4 DEF Histories
  <2>6. Sources(returned) \subseteq (DOMAIN log) \X {0, 1}
    BY <2>3 DEF Sources, Get, Typed, Histories
  <2>7. call \in DOMAIN kept
    BY <1>2, <2>1, WalkReturn DEF Caller
  <2>8. Typed(src', log)
    BY <2>1, <2>2, <2>5, <2>6, <2>7 DEF Put, Typed
  <2>9. \A i \in DOMAIN stack' : Typed(stack'[i][4], log)
    BY <2>3, <2>4 DEF Histories
  <2> QED BY <2>2, <2>3, <2>8, <2>9 DEF Histories
<1>7. TypeInv'
  <2>1. Registers(LastUsageOperands', Cycles)
    BY <1>4, <1>5
  <2> QED BY <1>1, <1>2, <2>1, <1>6 DEF TypeInv, Registers, Typed
<1>8. Issued' = Issued
  BY <1>1 DEF Issued
<1>9. CounterInv'
  BY <1>1, <1>2, <1>8, CountersKept
<1>10. LagInv'
  <2>1. setup.ctrl # "serialise" => Registers(LastUsageOperands', Behind)
    BY <1>4, <1>5
  <2> QED BY <2>1, <1>1, <1>2, <1>8 DEF LagInv, Registers, Behind
<1> QED BY <1>3, <1>7, <1>9, <1>10 DEF CoreInv

LEMMA CoreIgnored ==
    ASSUME CoreInv, visit_ignored
    PROVE  CoreInv'
<1>1. /\ Enabled /\ advance(Current) /\ setup' = setup /\ Current.op # "phi"
      /\ UNCHANGED counters
      /\ UNCHANGED <<MinIssueCycleForCtrl, MaxIssueCycle, spans, Previous, scheduler, window_cycle>>
  BY DEF visit_ignored, advance, counters
<1>2. WalkInv /\ TypeInv /\ CounterInv /\ LagInv /\ QueueInv /\ WindowRespected
  BY DEF CoreInv, CounterInv
<1>3. WalkInv'
  BY <1>1, <1>2, WalkVisit
<1>4. PICK I, r, c :
         /\ I = Current /\ r = getInstIssueCycle(I, 0, start) /\ c = LookupOperand(r.usage, I.id)
         /\ LastUsageOperands' = r.usage /\ LastUsageMemory' = r.memory
         /\ record(I, 0, c, FALSE)
  BY DEF visit_ignored
<1>5. /\ Registers(r.usage, Cycles) /\ Memory(r.memory, Cycles)
      /\ setup.ctrl # "serialise" => Registers(r.usage, Behind) /\ Memory(r.memory, Behind)
  BY <1>1, <1>2, <1>4, IssueCycle
<1>6. c \in Cycles
  <2>1. Closed(Cycles) /\ Zero \in Cycles
    BY <1>2, LagMaps DEF Closed
  <2> QED BY <2>1, <1>4, <1>5, PutRegister
<1>7. FALSE \in BOOLEAN
  OBVIOUS
<1>8. PICK e :
         /\ e = Entry(I, 0, c, FALSE) /\ log' = Append(log, e)
         /\ log' \in Seq(Range(log'))
         /\ \A n \in DOMAIN log' : log'[n].cycle \in Cycles /\ log'[n].deps \subseteq (1..n - 1) \X {0, 1}
         /\ Typed(src', log') /\ Typed(produced(I), log') /\ DOMAIN log \subseteq DOMAIN log'
  BY <1>2, <1>4, <1>6, <1>7, RecordTyped
<1>9. e.counted = FALSE
  BY <1>8 DEF Entry
<1>10. Issued' = Issued /\ \A n \in Issued : log'[n] = log[n]
  <2>1. e.counted \in BOOLEAN
    BY <1>9, Zenon
  <2>2. /\ \A n \in 1..Len(log) : log'[n] = log[n]
        /\ Issued' = Issued \cup {n \in {Len(log) + 1} : e.counted}
    <3>1. log' = Append(log, e)
      BY <1>8
    <3> QED BY <1>2, <3>1, <2>1, LogGrows
  <2>3. Issued' = Issued
    BY <2>2, <1>9
  <2>4. Issued \subseteq 1..Len(log)
    BY <1>2, IssuedFinite
  <2> QED BY <2>2, <2>3, <2>4
<1>11. TypeInv'
  <2>1. \A f \in Histories' : Typed(f, log')
    BY <1>1, <1>2, <1>4, <1>8, HistoriesVisit
  <2> QED BY <2>1, <1>1, <1>2, <1>4, <1>5, <1>8 DEF TypeInv, Registers, Memory, Typed
<1>12. CounterInv'
  BY <1>1, <1>2, <1>10, CountersKept
<1>13. LagInv'
  <2>1. ASSUME setup.ctrl # "serialise"
        PROVE  \A n \in Issued' : Later(log'[n].cycle)
    BY <1>2, <1>10, <2>1 DEF LagInv
  <2>2. ASSUME setup.ctrl # "serialise"
        PROVE  Registers(LastUsageOperands', Behind) /\ Memory(LastUsageMemory', Behind)
    BY <1>4, <1>5, <2>2
  <2> QED BY <2>1, <2>2, <1>1, <1>11, LagMaps DEF LagInv, Registers, Memory, Behind
<1> QED BY <1>3, <1>11, <1>12, <1>13 DEF CoreInv

\* The parts of an issue.
LEMMA IssueParts ==
    ASSUME CoreInv, visit_issued
    PROVE  /\ Enabled /\ advance(Current) /\ setup' = setup /\ Current.op # "phi" /\ prevBB' = at[1]
           /\ \E I, a, r, c, e :
                /\ I = Current /\ r = getInstIssueCycle(I, a, start) /\ c = serialised(I, InOrder(r.cycle))
                /\ a \in AddrsOf(I)
                /\ MinIssueCycleForCtrl' = IF setup.ctrl = "serialise" /\ I.type = "ctrl"
                                           THEN c["ooo"] + 1 ELSE MinIssueCycleForCtrl
                /\ LastUsageOperands' = InsertOperandUsage(r.usage, I.id, c)
                /\ LastUsageMemory' = r.memory
                /\ MaxIssueCycle' = Latest(MaxIssueCycle, c)
                /\ count_span(I.type, c) /\ schedule(c)
                /\ record(I, a, c, TRUE)
                /\ e = Entry(I, a, c, TRUE)
                /\ r.cycle \in Cycles /\ c \in Cycles
                /\ Registers(r.usage, Cycles) /\ Memory(r.memory, Cycles)
                /\ c["io"] >= MaxIssueCycle["io"]
                /\ \A o \in Orders : c[o] >= r.cycle[o] /\ c[o] >= start[o]
                /\ I.op \in {"load", "store"} => c = r.cycle
                /\ setup.ctrl # "serialise" => c \in Behind /\ Registers(r.usage, Behind) /\ Memory(r.memory, Behind)
<1>1. Enabled /\ advance(Current) /\ setup' = setup /\ Current.op # "phi" /\ prevBB' = at[1]
  BY DEF visit_issued, advance
<1>2. WalkInv /\ TypeInv /\ CounterInv /\ LagInv /\ QueueInv /\ WindowRespected
  BY DEF CoreInv, CounterInv
<1>3. PICK I, a, r, c :
         /\ I = Current /\ r = getInstIssueCycle(I, a, start) /\ c = serialised(I, InOrder(r.cycle))
         /\ a \in AddrsOf(I)
         /\ MinIssueCycleForCtrl' = IF setup.ctrl = "serialise" /\ I.type = "ctrl"
                                    THEN c["ooo"] + 1 ELSE MinIssueCycleForCtrl
         /\ LastUsageOperands' = InsertOperandUsage(r.usage, I.id, c)
         /\ LastUsageMemory' = r.memory
         /\ MaxIssueCycle' = Latest(MaxIssueCycle, c)
         /\ count_span(I.type, c) /\ schedule(c)
         /\ record(I, a, c, TRUE)
  BY DEF visit_issued
<1>4. /\ r.cycle \in Cycles /\ c \in Cycles
      /\ Registers(r.usage, Cycles) /\ Memory(r.memory, Cycles)
      /\ c["io"] >= MaxIssueCycle["io"]
      /\ \A o \in Orders : c[o] >= r.cycle[o] /\ c[o] >= start[o]
      /\ I.op \in {"load", "store"} => c = r.cycle
      /\ setup.ctrl # "serialise" => c \in Behind /\ Registers(r.usage, Behind) /\ Memory(r.memory, Behind)
  BY <1>1, <1>2, <1>3, IssueCycle
<1>5. PICK e : e = Entry(I, a, c, TRUE)
  BY Zenon
<1> QED BY <1>1, <1>3, <1>4, <1>5

LEMMA CoreIssued ==
    ASSUME CoreInv, visit_issued
    PROVE  CoreInv'
<1>1. WalkInv /\ TypeInv /\ LagInv /\ MaxInv /\ PreviousInv /\ SpansCount /\ QueueInv /\ WindowRespected
  BY DEF CoreInv, CounterInv
<1>2. Enabled /\ advance(Current) /\ setup' = setup
  BY IssueParts
<1>3. PICK I, a, r, c, e :
         /\ I = Current /\ r = getInstIssueCycle(I, a, start) /\ c = serialised(I, InOrder(r.cycle))
         /\ a \in AddrsOf(I)
         /\ MinIssueCycleForCtrl' = IF setup.ctrl = "serialise" /\ I.type = "ctrl"
                                    THEN c["ooo"] + 1 ELSE MinIssueCycleForCtrl
         /\ LastUsageOperands' = InsertOperandUsage(r.usage, I.id, c)
         /\ LastUsageMemory' = r.memory
         /\ MaxIssueCycle' = Latest(MaxIssueCycle, c)
         /\ count_span(I.type, c) /\ schedule(c)
         /\ record(I, a, c, TRUE)
         /\ e = Entry(I, a, c, TRUE)
         /\ r.cycle \in Cycles /\ c \in Cycles
         /\ Registers(r.usage, Cycles) /\ Memory(r.memory, Cycles)
         /\ c["io"] >= MaxIssueCycle["io"]
         /\ \A o \in Orders : c[o] >= r.cycle[o] /\ c[o] >= start[o]
         /\ I.op \in {"load", "store"} => c = r.cycle
         /\ setup.ctrl # "serialise" => c \in Behind /\ Registers(r.usage, Behind) /\ Memory(r.memory, Behind)
  BY IssueParts, Zenon
<1>4. WalkInv'
  BY <1>1, <1>2, WalkVisit
<1>5. e.counted = TRUE /\ e.cycle = c /\ e.type = I.type
  BY <1>3 DEF Entry
<1>6. /\ log' = Append(log, e)
      /\ log' \in Seq(Range(log'))
      /\ \A n \in DOMAIN log' : log'[n].cycle \in Cycles /\ log'[n].deps \subseteq (1..n - 1) \X {0, 1}
      /\ Typed(src', log') /\ Typed(produced(I), log') /\ DOMAIN log \subseteq DOMAIN log'
  <2>1. record(I, a, c, TRUE) /\ e = Entry(I, a, c, TRUE) /\ c \in Cycles /\ TRUE \in BOOLEAN
    BY <1>3
  <2> QED BY <1>1, <2>1, RecordTyped
<1>7. PICK n : n = Len(log) + 1
  OBVIOUS
<1>8. /\ Issued' = Issued \cup {n} /\ n \notin Issued
      /\ log'[n] = e /\ \A m \in Issued : log'[m] = log[m]
  <2>1. log' = Append(log, e)
    BY <1>6
  <2> QED BY <1>1, <1>5, <1>7, <2>1, LogIssue, Zenon
<1>9. MaxIssueCycle' \in Cycles /\ MaxInv'
  <2>1. log' = Append(log, e) /\ MaxIssueCycle' = Latest(MaxIssueCycle, c) /\ c \in Cycles
        /\ c["io"] >= MaxIssueCycle["io"]
    BY <1>3, <1>6
  <2> QED BY <1>1, <1>5, <2>1, MaxIssue, Zenon
<1>10. spans' \in [Types -> Cycles] /\ Previous' \in [Types -> Cycles] /\ PreviousInv' /\ SpansCount'
  <2>1. PICK t : t = I.type
    OBVIOUS
  <2>2. count_span(t, c) /\ c \in Cycles /\ c["io"] >= MaxIssueCycle["io"] /\ e.type = t
    BY <1>3, <1>5, <2>1
  <2> QED BY <1>1, <1>5, <1>8, <2>2, SpanIssue, Zenon
<1>11. window_cycle' \in Cycles /\ QueueInv' /\ WindowRespected'
  <2>1. setup.window \in Nat
    BY <1>1, AtInstruction DEF WellFormed
  <2>2. c \in Cycles /\ schedule(c) /\ (setup.window > 0 => \A o \in Orders : c[o] >= window_cycle[o])
    BY <1>3 DEF start
  <2> QED BY <1>1, <1>2, <1>5, <1>7, <1>8, <2>1, <2>2, QueueIssue, Zenon
<1>12. CounterInv'
  BY <1>9, <1>10, <1>11 DEF CounterInv
<1>13. MinIssueCycleForCtrl' \in Nat
  BY <1>1, <1>3 DEF TypeInv, Cycles, Orders
<1>14. Registers(LastUsageOperands', Cycles) /\ Memory(LastUsageMemory', Cycles)
  <2>1. Closed(Cycles)
    BY <1>1, LagMaps
  <2> QED BY <1>3, <2>1, PutRegister
<1>15. TypeInv'
  <2>1. \A f \in Histories' : Typed(f, log')
    BY <1>1, <1>2, <1>3, <1>6, HistoriesVisit
  <2> QED BY <2>1, <1>6, <1>9, <1>10, <1>11, <1>13, <1>14 DEF TypeInv, Registers, Memory, Typed
<1>16. LagInv'
  <2> SUFFICES ASSUME setup.ctrl # "serialise"
               PROVE  /\ Registers(LastUsageOperands', Behind) /\ Memory(LastUsageMemory', Behind)
                      /\ \A m \in Issued' : Later(log'[m].cycle)
    BY <1>2 DEF LagInv, Registers, Memory, Behind
  <2>1. Closed(Behind)
    BY <1>1, LagMaps
  <2>2. Registers(LastUsageOperands', Behind) /\ Memory(LastUsageMemory', Behind)
    BY <1>3, <2>1, PutRegister
  <2>3. \A m \in Issued : Later(log[m].cycle)
    BY <1>1 DEF LagInv
  <2>4. Later(c)
    BY <1>3 DEF Behind
  <2> QED BY <2>2, <2>3, <2>4, <1>5, <1>8
<1> QED BY <1>4, <1>12, <1>15, <1>16 DEF CoreInv

\* At the start nothing was issued.
LEMMA CoreInit ==
    ASSUME Init
    PROVE  CoreInv /\ Issued = {} /\ log = <<>> /\ DOMAIN log = {}
<1>1. setup \in Setups /\ WellFormed(setup)
  BY SetupAssumption DEF Init
<1>2. at = <<"entry", 1>> /\ came = "none" /\ stack = <<>> /\ returned = "none"
  BY DEF Init
<1>3. WalkInv
  <2>1. Place(at, came)
    BY <1>1, <1>2 DEF Place, EntriesOf, WellFormed
  <2>2. stack \in Seq(Range(stack)) /\ DOMAIN stack = {}
    BY <1>2
  <2> QED BY <1>1, <1>2, <2>1, <2>2 DEF WalkInv
<1>4. log = <<>> /\ DOMAIN log = {} /\ src = <<>> /\ entered = <<>> /\ stack = <<>> /\ \A f \in Histories : DOMAIN f = {}
  BY DEF Init, Histories
<1>5. DOMAIN LastUsageOperands = {} /\ DOMAIN LastUsageMemory = {}
  BY DEF Init
<1>6. Zero \in Cycles
  BY DEF Zero, Cycles
<1>7. /\ MinIssueCycleForCtrl = 0 /\ MaxIssueCycle = Zero /\ window_cycle = Zero
      /\ spans = [t \in Types |-> Zero] /\ Previous = [t \in Types |-> Zero]
      /\ scheduler = [o \in Orders |-> <<>>]
  BY DEF Init
<1>8. TypeInv
  BY <1>4, <1>5, <1>6, <1>7 DEF TypeInv
<1>9. Issued = {}
  BY <1>4 DEF Issued
<1>10. \A t, o : CyclesOf(t, o) = {}
  BY <1>9 DEF CyclesOf
<1>11. MaxInv /\ LagInv
  BY <1>5, <1>9 DEF MaxInv, LagInv
<1>12. Cardinality({}) = 0
  BY FS_EmptySet
<1>13. \A t \in Types : \A o \in Orders : spans[t][o] = 0 /\ Previous[t][o] = 0
  BY <1>7 DEF Zero
<1>14. PreviousInv /\ SpansCount
  BY <1>10, <1>12, <1>13 DEF PreviousInv, SpansCount
<1>15. \A o \in Orders : DOMAIN scheduler[o] = {} /\ window_cycle[o] = 0
  BY <1>7 DEF Zero
<1>16. QueueInv
  BY <1>9, <1>15 DEF QueueInv, From
<1>17. WindowRespected
  BY <1>9, <1>12, <1>15 DEF WindowRespected
<1> QED BY <1>3, <1>4, <1>8, <1>9, <1>11, <1>14, <1>16, <1>17 DEF CoreInv, CounterInv

--------------------------------------------------------------------------------
(* What is read is read after it was produced: the operands.                  *)

\* Looking up a register after another one was given a cycle.
LEMMA PutLookup ==
    ASSUME NEW u, NEW v, NEW w, NEW c
    PROVE  /\ w # v => LookupOperand(InsertOperandUsage(u, v, c), w) = LookupOperand(u, w)
           /\ v \notin Constants => LookupOperand(InsertOperandUsage(u, v, c), v) = c
BY DEF LookupOperand, InsertOperandUsage, Put, Get

OperandsRead(r, I, params, A) ==
    /\ \A v : (\A j \in 1..Len(params) : j <= Len(I.args) => params[j] # v)
              => LookupOperand(r.usage, v) = LookupOperand(LastUsageOperands, v)
    /\ \A j \in 1..Len(params) : j <= Len(I.args) /\ I.args[j] \in A =>
          LookupOperand(r.usage, params[j]) = LookupOperand(LastUsageOperands, I.args[j])
    /\ \A j \in 1..Len(I.args) : I.args[j] \in A \ Constants =>
          \A o \in Orders : r.cycle[o] >= LookupOperand(LastUsageOperands, I.args[j])[o] + Weight(I.args[j])

\* The loop over the operands leaves the registers that are no parameters
\* alone; of the arguments in A, which are no parameters, it gives a parameter
\* the cycle its argument had before the loop, and ends at no cycle that such
\* an argument does not allow.
LEMMA OperandsTraced ==
    ASSUME TypeInv, NEW I, I.args \in Seq(Range(I.args)), NEW params, Len(params) \in Nat, NEW c \in Cycles,
           \A j, k \in 1..Len(params) : params[j] = params[k] => j = k,
           \A j \in 1..Len(params) : params[j] \notin Constants,
           NEW A, \A j \in 1..Len(params) : params[j] \notin A
    PROVE  OperandsRead(operands_cycle(I, params, c), I, params, A)
<1>1. PICK r : /\ r[0] = [cycle |-> c, usage |-> LastUsageOperands]
               /\ \A k \in 1..Len(I.args) : r[k] = Step(I, params, r[k - 1], k)
               /\ operands_cycle(I, params, c) = r[Len(I.args)]
  BY OperandChain
<1>2. MaxIssueCycle \in Cycles /\ Registers(LastUsageOperands, Cycles) /\ Closed(Cycles)
  BY LagMaps DEF TypeInv
<1>3. \A k \in 0..Len(I.args) : r[k].cycle \in Cycles /\ Registers(r[k].usage, Cycles)
  <2>1. Closed(Cycles) /\ Registers(LastUsageOperands, Cycles) /\ c \in Cycles /\ I.args \in Seq(Range(I.args))
    BY <1>2
  <2>2. /\ r[0] = [cycle |-> c, usage |-> LastUsageOperands]
        /\ \A k \in 1..Len(I.args) : r[k] = Step(I, params, r[k - 1], k)
    BY <1>1
  <2> QED BY ONLY <2>1, <2>2, ChainClosed
<1> DEFINE n == Len(I.args)
           U == LastUsageOperands
           P(k) == \A v : (\A j \in 1..Len(params) : j <= k => params[j] # v) => LookupOperand(r[k].usage, v) = LookupOperand(U, v)
           Q(k) == \A j \in 1..Len(params) : j <= k /\ I.args[j] \in A => LookupOperand(r[k].usage, params[j]) = LookupOperand(U, I.args[j])
           R(k) == \A j \in 1..n : j <= k /\ I.args[j] \in A \ Constants =>
                      \A o \in Orders : r[k].cycle[o] >= LookupOperand(U, I.args[j])[o] + Weight(I.args[j])
           S == {k \in 0..n : P(k) /\ Q(k) /\ R(k)}
<1>4. n \in Nat
  OBVIOUS
<1>5. 0 \in S
  BY <1>1, <1>4
<1>6. ASSUME NEW k \in 1..n, k - 1 \in S
      PROVE  k \in S
  <2>1. PICK p, v, x : p = r[k - 1] /\ v = I.args[k] /\ x = LookupOperand(U, v)
    OBVIOUS
  <2>2. P(k - 1) /\ Q(k - 1) /\ R(k - 1)
    BY <1>6
  <2>3. r[k] = Step(I, params, p, k)
    BY <1>1, <2>1
  <2>4. /\ r[k].cycle = after_operand(p.cycle, p.usage, v)
        /\ r[k].usage = IF k > Len(params) THEN p.usage
                        ELSE InsertOperandUsage(p.usage, params[k], LookupOperand(p.usage, v))
    BY <2>1, <2>3 DEF Step
  <2>5. v \in A => LookupOperand(p.usage, v) = x
    <3> HAVE v \in A
    <3>1. \A j \in 1..Len(params) : j <= k - 1 => params[j] # v
      OBVIOUS
    <3> QED BY <2>1, <2>2, <3>1
  <2>6. P(k)
    <3> SUFFICES ASSUME NEW w, \A j \in 1..Len(params) : j <= k => params[j] # w
                 PROVE  LookupOperand(r[k].usage, w) = LookupOperand(U, w)
      OBVIOUS
    <3>1. LookupOperand(p.usage, w) = LookupOperand(U, w)
      <4>1. \A j \in 1..Len(params) : j <= k - 1 => params[j] # w
        OBVIOUS
      <4> QED BY <4>1, <2>1, <2>2
    <3>2. CASE k > Len(params)
      BY <3>1, <3>2, <2>4
    <3>3. CASE ~(k > Len(params))
      <4>1. params[k] # w
        BY <3>3
      <4> QED BY <4>1, <3>1, <3>3, <2>4, PutLookup
    <3> QED BY <3>2, <3>3
  <2>7. Q(k)
    <3> SUFFICES ASSUME NEW j \in 1..Len(params), j <= k, I.args[j] \in A
                 PROVE  LookupOperand(r[k].usage, params[j]) = LookupOperand(U, I.args[j])
      OBVIOUS
    <3>1. CASE j = k
      <4>1. r[k].usage = InsertOperandUsage(p.usage, params[k], x) /\ params[k] \notin Constants
        BY <3>1, <2>1, <2>4, <2>5
      <4> QED BY <4>1, <3>1, <2>1, PutLookup
    <3>2. CASE j # k
      <4>1. LookupOperand(p.usage, params[j]) = LookupOperand(U, I.args[j])
        BY <3>2, <2>1, <2>2
      <4>2. CASE k > Len(params)
        BY <4>1, <4>2, <2>4
      <4>3. CASE ~(k > Len(params))
        <5>1. params[j] # params[k] /\ r[k].usage = InsertOperandUsage(p.usage, params[k], LookupOperand(p.usage, v))
          BY <4>3, <3>2, <2>4
        <5> QED BY <5>1, <4>1, PutLookup
      <4> QED BY <4>2, <4>3
    <3> QED BY <3>1, <3>2
  <2>8. R(k)
    <3>1. p.cycle \in Cycles /\ Registers(p.usage, Cycles) /\ r[k].cycle \in Cycles
      BY <1>3, <2>1
    <3>2. \A o \in Orders : /\ r[k].cycle[o] >= p.cycle[o]
                            /\ v \in A \ Constants => r[k].cycle[o] >= x[o] + Weight(v)
      <4>1. /\ operand_cycle(p.usage, v) \in Cycles
            /\ \A o \in Orders : /\ r[k].cycle[o] >= p.cycle[o]
                                 /\ v \notin Constants => r[k].cycle[o] >= operand_cycle(p.usage, v)[o]
                                 /\ v \in A => operand_cycle(p.usage, v)[o] = x[o] + Weight(v)
        BY <1>2, <2>4, <2>5, <3>1, AfterOperand
      <4> QED BY <4>1
    <3> SUFFICES ASSUME NEW j \in 1..n, j <= k, I.args[j] \in A \ Constants, NEW o \in Orders
                 PROVE  r[k].cycle[o] >= LookupOperand(U, I.args[j])[o] + Weight(I.args[j])
      OBVIOUS
    <3>3. CASE j = k
      BY <3>2, <3>3, <2>1
    <3>4. CASE j # k
      <4>1. p.cycle[o] >= LookupOperand(U, I.args[j])[o] + Weight(I.args[j])
        BY <3>4, <2>1, <2>2
      <4>2. LookupOperand(U, I.args[j]) \in Cycles
        <5>1. Zero \in Cycles
          BY <1>2 DEF Closed
        <5> QED BY <5>1, <1>2, PutRegister
      <4>3. PICK y, w : y = LookupOperand(U, I.args[j])[o] /\ w = Weight(I.args[j])
        OBVIOUS
      <4>4. y \in Nat /\ w \in Nat /\ p.cycle[o] \in Nat /\ r[k].cycle[o] \in Nat
        BY <4>2, <4>3, <3>1 DEF Cycles, Weight
      <4>5. r[k].cycle[o] >= p.cycle[o] /\ p.cycle[o] >= y + w
        BY <3>2, <4>1, <4>3
      <4>6. r[k].cycle[o] >= y + w
        BY <4>4, <4>5
      <4> QED BY <4>3, <4>6
    <3> QED BY <3>3, <3>4
  <2> QED BY <2>6, <2>7, <2>8
<1>7. n \in S
  <2> HIDE DEF S, n
  <2>1. \A k \in 1..n : k - 1 \in S => k \in S
    BY <1>6
  <2>2. \A k \in 0..n : k \in S
    BY <1>4, <1>5, <2>1, UpTo
  <2> QED BY <2>2, <1>4
<1>8. P(n) /\ Q(n) /\ R(n)
  BY <1>7
<1>9. operands_cycle(I, params, c) = r[n]
  BY <1>1
<1>10. \A j \in 1..n : j <= n
  BY <1>4
<1> QED BY <1>8, <1>9, <1>10 DEF OperandsRead

Accessed(I, a, r, m) ==
    /\ r.cycle \in Cycles /\ m \in [store : Cycles, load : Cycles]
    /\ \A o \in Orders :
          /\ r.cycle[o] >= LookupOperand(LastUsageOperands, I.args[1])[o] + 1
          /\ I.op = "store" => r.cycle[o] >= LookupOperand(LastUsageOperands, I.args[2])[o] + 1
          /\ a \in DOMAIN LastUsageMemory => r.cycle[o] >= m.store[o] + 1
          /\ a \in DOMAIN LastUsageMemory /\ I.op = "store" => r.cycle[o] >= m.load[o] + 1
    /\ I.op = "load" =>
          /\ r.usage = InsertOperandUsage(LastUsageOperands, I.id, r.cycle)
          /\ r.memory = Put(LastUsageMemory, a, [m EXCEPT !.load = Latest(m.load, r.cycle)])
    /\ I.op = "store" =>
          /\ r.usage = InsertOperandUsage(InsertOperandUsage(LastUsageOperands, I.id, r.cycle), I.args[2], r.cycle)
          /\ r.memory = Put(LastUsageMemory, a, [m EXCEPT !.store = Latest(m.store, r.cycle)])

\* A load or a store comes after its operands and after the accesses to the
\* address that LastUsageMemory knows and that it must not overtake.
LEMMA AccessCycle ==
    ASSUME TypeInv, NEW I, I.op \in {"load", "store"}, NEW a, NEW c \in Cycles
    PROVE  Accessed(I, a, getInstIssueCycle(I, a, c), Get(LastUsageMemory, a, Untouched))
<1>0. PICK r, m : r = getInstIssueCycle(I, a, c) /\ m = Get(LastUsageMemory, a, Untouched)
  OBVIOUS
<1>1. MaxIssueCycle \in Cycles /\ Closed(Cycles) /\ Registers(LastUsageOperands, Cycles) /\ Memory(LastUsageMemory, Cycles)
  BY LagMaps DEF TypeInv
<1>2. PICK p, q : p = LookupOperand(LastUsageOperands, I.args[1]) /\ q = LookupOperand(LastUsageOperands, I.args[2])
  OBVIOUS
<1>3. p \in Cycles /\ q \in Cycles
  <2>1. Zero \in Cycles
    BY <1>1 DEF Closed
  <2> QED BY <2>1, <1>1, <1>2, PutRegister
<1>4. m \in [store : Cycles, load : Cycles]
  BY <1>0, <1>1, <1>2 DEF Get, Untouched, Closed, Memory
<1>5. PICK s, l : s = m.store /\ l = m.load
  OBVIOUS
<1>6. s \in Cycles /\ l \in Cycles
  BY <1>4, <1>5
<1>7. ASSUME NEW x \in Cycles
      PROVE  Plus(x, 1) \in Cycles /\ \A o \in Orders : Plus(x, 1)[o] = x[o] + 1 /\ x[o] \in Nat
  <2>1. Plus(x, 1) \in Cycles /\ \A o \in Orders : Plus(x, 1)[o] = x[o] + 1
    BY <1>1, CycleArithmetic
  <2> QED BY <2>1 DEF Cycles
<1>8. ASSUME NEW x \in Cycles, NEW y \in Cycles
      PROVE  /\ Latest(x, y) \in Cycles
             /\ \A o \in Orders : Latest(x, y)[o] >= x[o] /\ Latest(x, y)[o] >= y[o] /\ Latest(x, y)[o] \in Nat
  <2>1. /\ Latest(x, y) \in Cycles
        /\ \A o \in Orders : Latest(x, y)[o] >= x[o] /\ Latest(x, y)[o] >= y[o]
    BY <1>1, CycleArithmetic
  <2> QED BY <2>1 DEF Cycles
<1>9. ASSUME NEW x \in Cycles
      PROVE  InOrder(x) \in Cycles /\ \A o \in Orders : InOrder(x)[o] >= x[o] /\ InOrder(x)[o] \in Nat
  <2>1. InOrder(x) \in Cycles /\ \A o \in Orders : InOrder(x)[o] >= x[o]
    BY <1>1, CycleArithmetic
  <2> QED BY <2>1 DEF Cycles
<1>10. Zero \in Cycles
  BY <1>1 DEF Closed
<1>11. CASE I.op = "load"
  <2>1. PICK raw, x, y : /\ raw = (IF a \in DOMAIN LastUsageMemory THEN Plus(s, 1) ELSE Zero)
                         /\ x = Latest(c, Plus(p, 1)) /\ y = Latest(x, raw)
    OBVIOUS
  <2>2. raw \in Cycles
    BY <2>1, <1>6, <1>7, <1>10
  <2>3. x \in Cycles /\ \A o \in Orders : x[o] >= p[o] + 1
    BY <2>1, <1>3, <1>7, <1>8
  <2>4. y \in Cycles /\ \A o \in Orders : y[o] >= x[o] /\ y[o] >= raw[o]
    BY <2>1, <2>2, <2>3, <1>8
  <2>5. r = load_cycle(I, a, c)
    BY <1>0, <1>11 DEF getInstIssueCycle
  <2>6. /\ r.cycle = InOrder(y)
        /\ r.usage = InsertOperandUsage(LastUsageOperands, I.id, r.cycle)
        /\ r.memory = Put(LastUsageMemory, a, [m EXCEPT !.load = Latest(m.load, r.cycle)])
    BY <2>1, <2>5, <1>0, <1>2, <1>5 DEF load_cycle
  <2>7. r.cycle \in Cycles /\ \A o \in Orders : r.cycle[o] >= y[o] /\ r.cycle[o] \in Nat
    BY <2>4, <2>6, <1>9
  <2>8. \A o \in Orders : x[o] \in Nat /\ y[o] \in Nat /\ raw[o] \in Nat /\ p[o] \in Nat /\ s[o] \in Nat
    BY <2>2, <2>3, <2>4, <1>3, <1>6 DEF Cycles
  <2>9. \A o \in Orders : a \in DOMAIN LastUsageMemory => raw[o] = s[o] + 1
    BY <2>1, <1>6, <1>7
  <2>10. \A o \in Orders : /\ r.cycle[o] >= p[o] + 1
                           /\ a \in DOMAIN LastUsageMemory => r.cycle[o] >= s[o] + 1
    BY <2>3, <2>4, <2>7, <2>8, <2>9
  <2>11. Accessed(I, a, r, m)
    BY <2>6, <2>7, <2>10, <1>2, <1>4, <1>5, <1>11 DEF Accessed
  <2> QED BY <2>11, <1>0
<1>12. CASE I.op = "store"
  <2>1. PICK ops, order, x, y :
           /\ ops = Latest(Plus(p, 1), Plus(q, 1)) /\ x = Latest(c, ops) /\ y = InOrder(x)
           /\ order = (IF a \in DOMAIN LastUsageMemory THEN Latest(Plus(s, 1), Plus(l, 1)) ELSE Zero)
    OBVIOUS
  <2>2. ops \in Cycles /\ \A o \in Orders : ops[o] >= p[o] + 1 /\ ops[o] >= q[o] + 1
    BY <2>1, <1>3, <1>7, <1>8
  <2>3. order \in Cycles /\ \A o \in Orders :
           a \in DOMAIN LastUsageMemory => order[o] >= s[o] + 1 /\ order[o] >= l[o] + 1
    BY <2>1, <1>6, <1>7, <1>8, <1>10
  <2>4. x \in Cycles /\ \A o \in Orders : x[o] >= ops[o]
    BY <2>1, <2>2, <1>8
  <2>5. y \in Cycles /\ \A o \in Orders : y[o] >= x[o]
    BY <2>1, <2>4, <1>9
  <2>6. r = store_cycle(I, a, c)
    BY <1>0, <1>12 DEF getInstIssueCycle
  <2>7. /\ r.cycle = Latest(y, order)
        /\ r.usage = InsertOperandUsage(InsertOperandUsage(LastUsageOperands, I.id, r.cycle), I.args[2], r.cycle)
        /\ r.memory = Put(LastUsageMemory, a, [m EXCEPT !.store = Latest(m.store, r.cycle)])
    BY <2>1, <2>6, <1>0, <1>2, <1>5 DEF store_cycle
  <2>8. r.cycle \in Cycles /\ \A o \in Orders : r.cycle[o] >= y[o] /\ r.cycle[o] >= order[o] /\ r.cycle[o] \in Nat
    BY <2>3, <2>5, <2>7, <1>8
  <2>9. \A o \in Orders : /\ x[o] \in Nat /\ y[o] \in Nat /\ ops[o] \in Nat /\ order[o] \in Nat
                          /\ p[o] \in Nat /\ q[o] \in Nat /\ s[o] \in Nat /\ l[o] \in Nat
    BY <2>2, <2>3, <2>4, <2>5, <1>3, <1>6 DEF Cycles
  <2>10. \A o \in Orders : /\ r.cycle[o] >= p[o] + 1 /\ r.cycle[o] >= q[o] + 1
                           /\ a \in DOMAIN LastUsageMemory => r.cycle[o] >= s[o] + 1 /\ r.cycle[o] >= l[o] + 1
    BY <2>2, <2>3, <2>4, <2>5, <2>8, <2>9
  <2>11. Accessed(I, a, r, m)
    BY <2>7, <2>8, <2>10, <1>2, <1>4, <1>5, <1>12 DEF Accessed
  <2> QED BY <2>11, <1>0
<1> QED BY <1>11, <1>12

Unresolved(I) == I.op = "call" /\ I.callee = "unknown"

\* So the issue cycle of an instruction is one its operands allow; the maps it
\* leaves give its register that cycle and its parameters, which come from
\* nowhere before, the cycle of their arguments, and take no cycle back.
LEMMA IssueTraced ==
    ASSUME WalkInv, TypeInv, NEW I \in Instructions, I.op # "phi", NEW a, NEW c \in Cycles,
           I.op = "call" => Range(I.params) \cap DOMAIN src = {}
    PROVE  LET r == getInstIssueCycle(I, a, c)
           IN  /\ \A v : v \notin bound(I) \cup {I.id} =>
                     \A o \in Orders : LookupOperand(r.usage, v)[o] >= LookupOperand(LastUsageOperands, v)[o]
               /\ \A v \in bound(I) : v # I.id /\ (argument(I, v) \in DOMAIN src =>
                                                   LookupOperand(r.usage, v) = LookupOperand(LastUsageOperands, argument(I, v)))
               /\ ~Unresolved(I) =>
                     /\ LookupOperand(r.usage, I.id) = r.cycle
                     /\ \A v \in Range(I.args) \cap DOMAIN src : v \notin Constants =>
                           \A o \in Orders : r.cycle[o] >= LookupOperand(LastUsageOperands, v)[o] + Weight(v)
<1>1. WellFormed(setup) /\ WellFormedInstruction(setup, I)
  BY AtInstruction DEF WellFormed, Instructions
<1>2. I.args \in Seq(Range(I.args)) /\ I.id \notin Constants
  BY <1>1 DEF WellFormedInstruction
<1>3. DOMAIN I.args = 1..Len(I.args) /\ Len(I.args) \in Nat
  BY <1>2
<1>4. \A v : LookupOperand(LastUsageOperands, v) \in Cycles
  <2>1. Closed(Cycles) /\ Zero \in Cycles /\ Registers(LastUsageOperands, Cycles)
    BY LagMaps DEF Closed
  <2> QED BY <2>1, PutRegister
<1>5. \A v : \A o \in Orders : LookupOperand(LastUsageOperands, v)[o] \in Nat
  BY <1>4 DEF Cycles
<1> DEFINE G(r) ==
      /\ \A v : v \notin bound(I) \cup {I.id} =>
            \A o \in Orders : LookupOperand(r.usage, v)[o] >= LookupOperand(LastUsageOperands, v)[o]
      /\ \A v \in bound(I) : v # I.id /\ (argument(I, v) \in DOMAIN src =>
                                          LookupOperand(r.usage, v) = LookupOperand(LastUsageOperands, argument(I, v)))
      /\ ~Unresolved(I) =>
            /\ LookupOperand(r.usage, I.id) = r.cycle
            /\ \A v \in Range(I.args) \cap DOMAIN src : v \notin Constants =>
                  \A o \in Orders : r.cycle[o] >= LookupOperand(LastUsageOperands, v)[o] + Weight(v)
<1>6. ASSUME NEW params, Len(params) \in Nat, ~Unresolved(I),
             bound(I) = {params[j] : j \in {k \in 1..Len(params) : k <= Len(I.args)}},
             \A j \in 1..Len(params) : j <= Len(I.args) => argument(I, params[j]) = I.args[j] /\ params[j] # I.id,
             \A j, k \in 1..Len(params) : params[j] = params[k] => j = k,
             \A j \in 1..Len(params) : params[j] \notin Constants /\ params[j] \notin DOMAIN src
      PROVE  G(other_cycle(I, params, c))
  <2>1. PICK r, s, A : r = operands_cycle(I, params, c) /\ s = other_cycle(I, params, c) /\ A = DOMAIN src
    OBVIOUS
  <2>2. /\ \A v : (\A j \in 1..Len(params) : j <= Len(I.args) => params[j] # v)
                     => LookupOperand(r.usage, v) = LookupOperand(LastUsageOperands, v)
        /\ \A j \in 1..Len(params) : j <= Len(I.args) /\ I.args[j] \in A =>
              LookupOperand(r.usage, params[j]) = LookupOperand(LastUsageOperands, I.args[j])
        /\ \A j \in 1..Len(I.args) : I.args[j] \in A \ Constants =>
              \A o \in Orders : r.cycle[o] >= LookupOperand(LastUsageOperands, I.args[j])[o] + Weight(I.args[j])
    <3>1. TypeInv /\ I.args \in Seq(Range(I.args)) /\ Len(params) \in Nat /\ c \in Cycles
      BY <1>2, <1>6
    <3>2. /\ \A j, k \in 1..Len(params) : params[j] = params[k] => j = k
          /\ \A j \in 1..Len(params) : params[j] \notin Constants
          /\ \A j \in 1..Len(params) : params[j] \notin A
      BY <1>6, <2>1
    <3>3. OperandsRead(operands_cycle(I, params, c), I, params, A)
      BY ONLY <3>1, <3>2, OperandsTraced
    <3> QED BY <2>1, <3>3 DEF OperandsRead
  <2>3. s.cycle = r.cycle /\ s.usage = InsertOperandUsage(r.usage, I.id, r.cycle)
    BY <2>1 DEF other_cycle
  <2>4. \A v : v # I.id => LookupOperand(s.usage, v) = LookupOperand(r.usage, v)
    BY <2>3, PutLookup
  <2>5. LookupOperand(s.usage, I.id) = s.cycle
    BY <1>2, <2>3, PutLookup
  <2>6. ASSUME NEW v, v \notin bound(I) \cup {I.id}, NEW o \in Orders
        PROVE  LookupOperand(s.usage, v)[o] >= LookupOperand(LastUsageOperands, v)[o]
    <3>1. \A j \in 1..Len(params) : j <= Len(I.args) => params[j] # v
      BY <2>6, <1>6
    <3>2. LookupOperand(s.usage, v) = LookupOperand(LastUsageOperands, v)
      BY <3>1, <2>2, <2>4, <2>6
    <3> QED BY <3>2, <1>5
  <2>7. ASSUME NEW v \in bound(I)
        PROVE  v # I.id /\ (argument(I, v) \in DOMAIN src =>
                               LookupOperand(s.usage, v) = LookupOperand(LastUsageOperands, argument(I, v)))
    <3>1. PICK j \in 1..Len(params) : j <= Len(I.args) /\ v = params[j]
      BY <1>6
    <3> QED BY <3>1, <1>6, <2>1, <2>2, <2>4
  <2>8. ASSUME NEW v \in Range(I.args) \cap DOMAIN src, v \notin Constants, NEW o \in Orders
        PROVE  s.cycle[o] >= LookupOperand(LastUsageOperands, v)[o] + Weight(v)
    <3>1. PICK j \in 1..Len(I.args) : v = I.args[j]
      BY <1>3 DEF Range
    <3> QED BY <3>1, <2>1, <2>2, <2>3, <2>8
  <2> QED BY <2>1, <2>5, <2>6, <2>7, <2>8
<1>7. CASE I.op = "call" /\ I.callee # "unknown"
  <2>1. /\ I.params \in Seq(Range(I.params))
        /\ \A k, l \in DOMAIN I.params : I.params[k] = I.params[l] => k = l
        /\ \A p \in Range(I.params) : p \notin Constants /\ p # I.id
    BY <1>1, <1>7 DEF WellFormedInstruction, Instructions
  <2>2. DOMAIN I.params = 1..Len(I.params) /\ Len(I.params) \in Nat
    BY <2>1
  <2>3. \A j \in 1..Len(I.params) : I.params[j] \notin Constants /\ I.params[j] # I.id /\ I.params[j] \notin DOMAIN src
    BY <1>7, <2>1, <2>2 DEF Range
  <2>5. bound(I) = {I.params[j] : j \in {k \in 1..Len(I.params) : k <= Len(I.args)}}
    <3>1. DOMAIN I.params \cap DOMAIN I.args = {k \in 1..Len(I.params) : k <= Len(I.args)}
      BY <1>3, <2>2
    <3> QED BY <3>1, <1>7 DEF bound
  <2>6. ASSUME NEW j \in 1..Len(I.params), j <= Len(I.args)
        PROVE  argument(I, I.params[j]) = I.args[j]
    <3>1. j \in DOMAIN I.params \cap DOMAIN I.args
      BY <1>3, <2>2, <2>6
    <3>2. \A k \in DOMAIN I.params \cap DOMAIN I.args : I.params[k] = I.params[j] => k = j
      BY <2>1, <3>1
    <3>3. (CHOOSE k \in DOMAIN I.params \cap DOMAIN I.args : I.params[k] = I.params[j]) = j
      BY <3>1, <3>2
    <3> QED BY <3>3 DEF argument
  <2>7. ~Unresolved(I)
    BY <1>7 DEF Unresolved
  <2>8. G(other_cycle(I, I.params, c))
    <3> HIDE DEF G
    <3>1. \A j \in 1..Len(I.params) : j <= Len(I.args) => argument(I, I.params[j]) = I.args[j] /\ I.params[j] # I.id
      BY <2>3, <2>6
    <3>2. \A j, k \in 1..Len(I.params) : I.params[j] = I.params[k] => j = k
      BY <2>1, <2>2
    <3>3. \A j \in 1..Len(I.params) : I.params[j] \notin Constants /\ I.params[j] \notin DOMAIN src
      BY <2>3
    <3> QED BY <1>6, <2>2, <2>5, <2>7, <3>1, <3>2, <3>3
  <2>9. getInstIssueCycle(I, a, c) = other_cycle(I, I.params, c)
    BY <1>7 DEF getInstIssueCycle, call_cycle
  <2> QED BY <2>8, <2>9
<1>8. CASE I.op = "call" /\ I.callee = "unknown"
  <2>1. getInstIssueCycle(I, a, c).usage = LastUsageOperands
    BY <1>8 DEF getInstIssueCycle, call_cycle
  <2>2. bound(I) = {} /\ Unresolved(I)
    BY <1>8 DEF bound, Unresolved
  <2> QED BY <1>5, <2>1, <2>2
<1>9. CASE I.op \notin {"call", "load", "store"}
  <2>1. getInstIssueCycle(I, a, c) = other_cycle(I, <<>>, c)
    BY <1>9 DEF getInstIssueCycle
  <2>2. bound(I) = {} /\ ~Unresolved(I)
    BY <1>9 DEF bound, Unresolved
  <2>3. Len(<<>>) = 0 /\ 1..0 = {}
    OBVIOUS
  <2>4. G(other_cycle(I, <<>>, c))
    <3> HIDE DEF G
    <3>1. \A j : j \notin 1..Len(<<>>)
      BY <2>3
    <3>2. bound(I) = {(<<>>)[j] : j \in {k \in 1..Len(<<>>) : k <= Len(I.args)}} /\ Len(<<>>) \in Nat
      BY <2>2, <2>3
    <3> QED BY <1>6, <2>2, <3>1, <3>2
  <2> QED BY <2>1, <2>4
<1>10. CASE I.op \in {"load", "store"}
  <2>1. bound(I) = {} /\ ~Unresolved(I) /\ Len(I.args) = IF I.op = "load" THEN 1 ELSE 2
    BY <1>1, <1>10 DEF bound, Unresolved, WellFormedInstruction
  <2>2. PICK r, m : r = getInstIssueCycle(I, a, c) /\ m = Get(LastUsageMemory, a, Untouched)
    OBVIOUS
  <2>3. /\ r.cycle \in Cycles
        /\ \A o \in Orders : /\ r.cycle[o] >= LookupOperand(LastUsageOperands, I.args[1])[o] + 1
                             /\ I.op = "store" => r.cycle[o] >= LookupOperand(LastUsageOperands, I.args[2])[o] + 1
        /\ I.op = "load" => r.usage = InsertOperandUsage(LastUsageOperands, I.id, r.cycle)
        /\ I.op = "store" => r.usage = InsertOperandUsage(InsertOperandUsage(LastUsageOperands, I.id, r.cycle), I.args[2], r.cycle)
    <3>1. Accessed(I, a, r, m)
      BY <1>10, <2>2, AccessCycle
    <3> QED BY <3>1 DEF Accessed
  <2>4. \A o \in Orders : r.cycle[o] \in Nat /\ \A v : LookupOperand(LastUsageOperands, v)[o] \in Nat
    BY <1>5, <2>2, <2>3 DEF Cycles
  <2>5. LookupOperand(r.usage, I.id) = r.cycle
    <3>1. LookupOperand(InsertOperandUsage(LastUsageOperands, I.id, r.cycle), I.id) = r.cycle
      BY <1>2, PutLookup
    <3>2. CASE I.op = "load"
      BY <3>1, <3>2, <2>3
    <3>3. CASE I.op = "store" /\ I.args[2] = I.id
      BY <3>3, <2>3, <1>2, PutLookup
    <3>4. CASE I.op = "store" /\ I.args[2] # I.id
      BY <3>1, <3>4, <2>3, PutLookup
    <3> QED BY <3>2, <3>3, <3>4, <1>10
  <2>6. ASSUME NEW v, v # I.id, NEW o \in Orders
        PROVE  LookupOperand(r.usage, v)[o] >= LookupOperand(LastUsageOperands, v)[o]
    <3>1. LookupOperand(InsertOperandUsage(LastUsageOperands, I.id, r.cycle), v) = LookupOperand(LastUsageOperands, v)
      BY <2>6, PutLookup
    <3>2. CASE I.op = "load" \/ v # I.args[2] \/ v \in Constants
      <4>1. LookupOperand(r.usage, v) = LookupOperand(LastUsageOperands, v)
        <5>1. CASE I.op = "load"
          BY <3>1, <5>1, <2>3
        <5>2. CASE I.op = "store" /\ v # I.args[2]
          BY <3>1, <5>2, <2>3, PutLookup
        <5>3. CASE I.op = "store" /\ v = I.args[2] /\ v \in Constants
          BY <3>1, <5>3, <2>3 DEF InsertOperandUsage
        <5> QED BY <5>1, <5>2, <5>3, <3>2, <1>10
      <4> QED BY <4>1, <2>4
    <3>3. CASE I.op = "store" /\ v = I.args[2] /\ v \notin Constants
      <4>1. LookupOperand(r.usage, v) = r.cycle
        BY <3>3, <2>3, PutLookup
      <4>2. r.cycle[o] >= LookupOperand(LastUsageOperands, v)[o] + 1
        BY <3>3, <2>3
      <4> QED BY <4>1, <4>2, <2>4
    <3> QED BY <3>2, <3>3, <1>10
  <2>7. ASSUME NEW v \in Range(I.args), NEW o \in Orders
        PROVE  r.cycle[o] >= LookupOperand(LastUsageOperands, v)[o] + Weight(v)
    <3>1. v = I.args[1] \/ (I.op = "store" /\ v = I.args[2])
      <4>1. PICK j \in 1..Len(I.args) : v = I.args[j]
        BY <1>3 DEF Range
      <4>2. j = 1 \/ (j = 2 /\ I.op = "store")
        BY <4>1, <2>1, <1>10
      <4> QED BY <4>1, <4>2
    <3>2. r.cycle[o] >= LookupOperand(LastUsageOperands, v)[o] + 1
      BY <3>1, <2>3
    <3>3. Weight(v) \in {0, 1}
      BY DEF Weight
    <3> QED BY <3>2, <3>3, <2>4
  <2> QED BY <2>1, <2>2, <2>5, <2>6, <2>7
<1> QED BY <1>7, <1>8, <1>9, <1>10

--------------------------------------------------------------------------------
(* The memory.                                                                *)

\* What r.memory knows after an instruction was given its cycle.
LEMMA MemoryKept ==
    ASSUME TypeInv, NEW I, NEW a, NEW c \in Cycles, NEW r, r = getInstIssueCycle(I, a, c)
    PROVE  /\ \A x \in DOMAIN LastUsageMemory :
                 /\ x \in DOMAIN r.memory
                 /\ \A k \in {"load", "store"} : \A o \in Orders : r.memory[x][k][o] >= LastUsageMemory[x][k][o]
           /\ I.op \in {"load", "store"} =>
                 a \in DOMAIN r.memory /\ \A o \in Orders : r.memory[a][I.op][o] >= r.cycle[o]
<1>1. \A x \in DOMAIN LastUsageMemory : LastUsageMemory[x] \in [store : Cycles, load : Cycles]
  BY DEF TypeInv
<1>2. \A x \in DOMAIN LastUsageMemory : \A k \in {"load", "store"} : \A o \in Orders : LastUsageMemory[x][k][o] \in Nat
  BY <1>1 DEF Cycles
<1>3. CASE I.op \notin {"load", "store"}
  <2>1. r.memory = LastUsageMemory
    BY <1>3 DEF getInstIssueCycle, call_cycle, other_cycle
  <2> QED BY <2>1, <1>2, <1>3
<1>4. CASE I.op \in {"load", "store"}
  <2>1. PICK m : m = Get(LastUsageMemory, a, Untouched)
    OBVIOUS
  <2>2. Accessed(I, a, r, m)
    BY <1>4, <2>1, AccessCycle
  <2>3. r.cycle \in Cycles /\ m \in [store : Cycles, load : Cycles] /\ MaxIssueCycle \in Cycles
    BY <2>2 DEF Accessed, TypeInv
  <2>4. PICK s, l, s1, l1 : s = m.store /\ l = m.load /\ s1 = Latest(m.store, r.cycle) /\ l1 = Latest(m.load, r.cycle)
    OBVIOUS
  <2>5. s \in Cycles /\ l \in Cycles
    BY <2>3, <2>4
  <2>6. \A o \in Orders : /\ s1[o] >= s[o] /\ s1[o] >= r.cycle[o]
                          /\ l1[o] >= l[o] /\ l1[o] >= r.cycle[o]
    BY <2>3, <2>4, <2>5, CycleArithmetic
  <2>7. \A o \in Orders : s[o] \in Nat /\ l[o] \in Nat
    BY <2>5 DEF Cycles
  <2>8. PICK y : r.memory = Put(LastUsageMemory, a, y) /\ y = IF I.op = "load" THEN [m EXCEPT !.load = l1] ELSE [m EXCEPT !.store = s1]
    BY <1>4, <2>2, <2>4 DEF Accessed
  <2>9. y["load"] = (IF I.op = "load" THEN l1 ELSE l) /\ y["store"] = (IF I.op = "load" THEN s ELSE s1)
    BY <2>3, <2>4, <2>8
  <2>10. /\ \A k \in {"load", "store"} : \A o \in Orders : y[k][o] >= m[k][o]
         /\ \A o \in Orders : y[I.op][o] >= r.cycle[o]
    BY <1>4, <2>4, <2>6, <2>7, <2>9
  <2>11. /\ a \in DOMAIN r.memory /\ r.memory[a] = y
         /\ \A x \in DOMAIN LastUsageMemory : x \in DOMAIN r.memory /\ (x # a => r.memory[x] = LastUsageMemory[x])
    BY <2>8 DEF Put
  <2>12. a \in DOMAIN LastUsageMemory => m = LastUsageMemory[a]
    BY <2>1 DEF Get
  <2> QED BY <2>10, <2>11, <2>12, <1>2
<1> QED BY <1>3, <1>4

\* The accesses that an access must not overtake come before it.
LEMMA ConflictsRespected ==
    ASSUME TypeInv, MemoryInv, NEW I, NEW a, NEW c \in Cycles, NEW r, r = getInstIssueCycle(I, a, c)
    PROVE  \A d \in conflicts(I, a) : \A o \in Orders : r.cycle[o] >= Cycle(d[1], o) + d[2]
<1> SUFFICES ASSUME NEW d \in conflicts(I, a), NEW o \in Orders
             PROVE  r.cycle[o] >= Cycle(d[1], o) + d[2]
  OBVIOUS
<1>1. PICK k \in DOMAIN log : /\ d = <<k, 1>> /\ I.op \in {"load", "store"} /\ log[k].addr = a
                              /\ {I.op, log[k].op} \in {{"store"}, {"load", "store"}}
  BY DEF conflicts
<1>2. log[k].op = "store" \/ (log[k].op = "load" /\ I.op = "store")
  BY <1>1
<1>3. a \in DOMAIN LastUsageMemory /\ Cycle(k, o) <= LastUsageMemory[a][log[k].op][o]
  BY <1>1, <1>2 DEF MemoryInv
<1>4. PICK m : m = LastUsageMemory[a]
  OBVIOUS
<1>5. Accessed(I, a, r, m)
  <2>1. I.op \in {"load", "store"}
    BY <1>1
  <2>2. Accessed(I, a, r, Get(LastUsageMemory, a, Untouched))
    BY <2>1, AccessCycle
  <2>3. Get(LastUsageMemory, a, Untouched) = m
    BY <1>3, <1>4 DEF Get
  <2> QED BY <2>2, <2>3
<1>6. r.cycle[o] \in Nat /\ m.store[o] \in Nat /\ m.load[o] \in Nat /\ Cycle(k, o) \in Nat
  BY <1>5 DEF Accessed, Cycles, TypeInv, Cycle
<1>7. CASE log[k].op = "store"
  <2>1. r.cycle[o] >= m.store[o] + 1 /\ Cycle(k, o) <= m.store[o]
    BY <1>3, <1>4, <1>5, <1>7 DEF Accessed
  <2> QED BY <2>1, <1>1, <1>6
<1>8. CASE log[k].op = "load" /\ I.op = "store"
  <2>1. r.cycle[o] >= m.load[o] + 1 /\ Cycle(k, o) <= m.load[o]
    BY <1>3, <1>4, <1>5, <1>8 DEF Accessed
  <2> QED BY <2>1, <1>1, <1>6
<1> QED BY <1>2, <1>7, <1>8

\* LastUsageMemory knows the accesses after one more instruction.
LEMMA MemoryRecorded ==
    ASSUME TypeInv, MemoryInv, NEW I, NEW a, NEW c0 \in Cycles, NEW r, r = getInstIssueCycle(I, a, c0),
           Memory(r.memory, Cycles), LastUsageMemory' = r.memory, NEW c \in Cycles, NEW e,
           DOMAIN log' = 1..Len(log) + 1, \A n \in 1..Len(log) : log'[n] = log[n], log'[Len(log) + 1] = e,
           e.op = I.op, e.addr = a, e.cycle = c, I.op \in {"load", "store"} => c = r.cycle
    PROVE  MemoryInv'
<1>1. PICK m, M : m = r.memory /\ M = LastUsageMemory
  OBVIOUS
<1>2. /\ \A x \in DOMAIN M :
            x \in DOMAIN m /\ \A k \in {"load", "store"} : \A o \in Orders : m[x][k][o] >= M[x][k][o]
      /\ I.op \in {"load", "store"} =>
            a \in DOMAIN m /\ \A o \in Orders : m[a][I.op][o] >= r.cycle[o]
  BY <1>1, MemoryKept
<1>3. \A x \in DOMAIN m : \A k \in {"load", "store"} : \A o \in Orders : m[x][k][o] \in Nat
  BY <1>1 DEF Memory, Cycles
<1>4. \A x \in DOMAIN M : \A k \in {"load", "store"} : \A o \in Orders : M[x][k][o] \in Nat
  BY <1>1 DEF TypeInv, Cycles
<1>5. Len(log) \in Nat /\ DOMAIN log = 1..Len(log) /\ \A n \in DOMAIN log : \A o \in Orders : log[n].cycle[o] \in Nat
  BY DEF TypeInv, Cycles
<1> SUFFICES ASSUME NEW n \in DOMAIN log', log'[n].op \in {"load", "store"}
             PROVE  /\ log'[n].addr \in DOMAIN m
                    /\ \A o \in Orders : log'[n].cycle[o] <= m[log'[n].addr][log'[n].op][o]
  BY <1>1 DEF MemoryInv, Cycle
<1>6. CASE n \in 1..Len(log)
  <2>1. PICK x, k : x = log[n].addr /\ k = log[n].op
    OBVIOUS
  <2>2. k \in {"load", "store"} /\ x \in DOMAIN M /\ \A o \in Orders : log[n].cycle[o] <= M[x][k][o]
    BY <1>1, <1>5, <1>6, <2>1 DEF MemoryInv, Cycle
  <2>3. \A o \in Orders : log[n].cycle[o] <= m[x][k][o]
    BY <2>2, <1>2, <1>3, <1>4, <1>5, <1>6
  <2> QED BY <2>1, <2>2, <2>3, <1>2, <1>6
<1>7. CASE n = Len(log) + 1
  <2>1. log'[n].addr = a /\ log'[n].op = I.op /\ log'[n].cycle = r.cycle /\ r.cycle = c
    BY <1>7
  <2>2. \A o \in Orders : r.cycle[o] \in Nat
    BY <2>1 DEF Cycles
  <2>3. I.op \in {"load", "store"}
    BY <2>1
  <2>4. a \in DOMAIN m /\ \A o \in Orders : r.cycle[o] <= m[a][I.op][o]
    BY <1>2, <1>3, <2>2, <2>3
  <2> QED BY <2>1, <2>4
<1> QED BY <1>5, <1>6, <1>7

--------------------------------------------------------------------------------
(* The block a phi is reached from.                                           *)

\* Behind one more instruction: the last one that set prevBB is the new one or
\* an earlier one.
LEMMA SettledNext ==
    ASSUME NEW s, NEW b, NEW j \in Nat, j >= 1, Settled(s, b, j + 1)
    PROVE  ~CallsBody(s, s.code[b][j]) /\ (Issues(s, s.code[b][j]) \/ Settled(s, b, j))
<1>1. PICK k \in 1..(j + 1) - 1 : /\ Issues(s, s.code[b][k])
                                  /\ \A i \in k..(j + 1) - 1 : ~CallsBody(s, s.code[b][i])
  BY DEF Settled
<1>2. k \in 1..j /\ \A i \in k..j : ~CallsBody(s, s.code[b][i])
  BY <1>1
<1>3. j \in k..j
  BY <1>2
<1>4. CASE k = j
  BY <1>1, <1>2, <1>3, <1>4
<1>5. CASE k # j
  <2>1. k \in 1..j - 1 /\ \A i \in k..j - 1 : ~CallsBody(s, s.code[b][i])
    BY <1>2, <1>5
  <2> QED BY <2>1, <1>1, <1>2, <1>3 DEF Settled
<1> QED BY <1>4, <1>5

\* The steps of the walk keep PrevInv when an instruction that is issued, and
\* no other, sets prevBB to its block, and a phi changes no other register.
LEMMA PrevVisit ==
    ASSUME WalkInv, PrevInv, Enabled, advance(Current),
           Issues(setup, Current) => prevBB' = at[1], ~Issues(setup, Current) => prevBB' = prevBB,
           Current.op = "phi" => \E X : src' = Put(src, Current.id, X)
    PROVE  PrevInv'
<1>1. setup' = setup
  BY DEF advance
<1> SUFFICES ASSUME Traced(setup)
             PROVE  /\ returned' = "none" /\ came' # "none" /\ (\A i \in 1..at'[2] - 1 : setup.code[at'[1]][i].op = "phi")
                          => /\ prevBB' = came'
                             /\ \A v \in DOMAIN src' \cup DOMAIN entered' :
                                   (\A i \in 1..at'[2] - 1 : setup.code[at'[1]][i].id # v)
                                      => Get(entered', v, {}) = Get(src', v, {})
                    /\ Settled(setup, at'[1], at'[2]) => prevBB' = at'[1]
  BY <1>1 DEF PrevInv, Block, Sources
<1>2. PICK b, j : b = at[1] /\ j = at[2]
  OBVIOUS
<1>3. /\ returned = "none" /\ came # "none" /\ (\A i \in 1..j - 1 : setup.code[b][i].op = "phi") =>
            /\ prevBB = came
            /\ \A v \in DOMAIN src \cup DOMAIN entered :
                  (\A i \in 1..j - 1 : setup.code[b][i].id # v) => Get(entered, v, {}) = Get(src, v, {})
      /\ Settled(setup, b, j) => prevBB = b
  BY <1>2 DEF PrevInv, Block, Sources
<1>4. /\ WellFormed(setup) /\ WellFormedInstruction(setup, Current)
      /\ Current = setup.code[b][j] /\ j <= Len(setup.code[b]) /\ returned = "none"
  BY <1>2, AtInstruction DEF Current, Block, Enabled
<1>5. b \in DOMAIN setup.code /\ j \in Nat /\ j >= 1 /\ at = <<b, j>>
  BY <1>2 DEF WalkInv, Place
<1>6. \A c : ~Settled(setup, c, 1)
  BY DEF Settled
<1>7. Settled(setup, b, j + 1) => prevBB' = b
  <2> HAVE Settled(setup, b, j + 1)
  <2>1. Issues(setup, Current) \/ Settled(setup, b, j)
    BY <1>4, <1>5, SettledNext
  <2> QED BY <2>1, <1>2, <1>3
<1>8. CASE CallsBody(setup, Current)
  <2>1. at' = <<Current.callee, 1>> /\ came' = "none"
    BY <1>8 DEF advance
  <2> QED BY <2>1, <1>6
<1>9. CASE ~CallsBody(setup, Current) /\ Current.op = "ret" /\ stack # <<>>
  <2>1. returned' = Current.id /\ at' = at
    BY <1>9 DEF advance
  <2>2. Current.id # "none"
    BY <1>4 DEF WellFormedInstruction
  <2>3. Settled(setup, b, j) => prevBB' = b
    BY <1>2, <1>3
  <2> QED BY <2>1, <2>2, <2>3, <1>2
<1>10. CASE /\ ~CallsBody(setup, Current) /\ ~(Current.op = "ret" /\ stack # <<>>)
            /\ at[2] = Len(Block) /\ setup.next[at[1]] # {}
  <2>1. PICK d \in setup.next[at[1]] : at' = <<d, 1>>
    BY <1>10 DEF advance
  <2>2. came' = b /\ entered' = src'
    BY <1>2, <1>10 DEF advance
  <2>3. Settled(setup, b, j + 1)
    BY <1>2, <1>5, <1>10 DEF Traced, Block
  <2> QED BY <2>1, <2>2, <2>3, <1>6, <1>7
<1>11. CASE /\ ~CallsBody(setup, Current) /\ ~(Current.op = "ret" /\ stack # <<>>)
            /\ ~(at[2] = Len(Block) /\ setup.next[at[1]] # {})
  <2>1. at' = [at EXCEPT ![2] = @ + 1] /\ UNCHANGED <<came, returned, entered>>
    BY <1>11 DEF advance
  <2>2. at' = <<b, j + 1>>
    BY <2>1, <1>5
  <2>3. ASSUME came' # "none", \A i \in 1..(j + 1) - 1 : setup.code[b][i].op = "phi"
        PROVE  /\ prevBB' = came'
               /\ \A v \in DOMAIN src' \cup DOMAIN entered' :
                     (\A i \in 1..(j + 1) - 1 : setup.code[b][i].id # v) => Get(entered', v, {}) = Get(src', v, {})
    <3>1. j \in 1..(j + 1) - 1 /\ \A i \in 1..j - 1 : i \in 1..(j + 1) - 1
      BY <1>5
    <3>2. Current.op = "phi" /\ \A i \in 1..j - 1 : setup.code[b][i].op = "phi"
      BY <2>3, <3>1, <1>4
    <3>3. ~Issues(setup, Current)
      BY <3>2 DEF Issues
    <3>4. prevBB' = came'
      BY <3>2, <3>3, <2>1, <2>3, <1>3, <1>4
    <3>5. ASSUME NEW v \in DOMAIN src' \cup DOMAIN entered', \A i \in 1..(j + 1) - 1 : setup.code[b][i].id # v
          PROVE  Get(entered', v, {}) = Get(src', v, {})
      <4>1. v # Current.id /\ \A i \in 1..j - 1 : setup.code[b][i].id # v
        BY <3>1, <3>5, <1>4
      <4>2. PICK X : src' = Put(src, Current.id, X)
        BY <3>2
      <4>3. Get(src', v, {}) = Get(src, v, {}) /\ v \in DOMAIN src \cup DOMAIN entered
        BY <4>1, <4>2, <3>5, <2>1 DEF Put, Get
      <4>4. Get(entered, v, {}) = Get(src, v, {})
        BY <4>1, <4>3, <3>2, <2>1, <2>3, <1>3, <1>4
      <4> QED BY <4>3, <4>4, <2>1
    <3> QED BY <3>4, <3>5
  <2> QED BY <2>1, <2>2, <2>3, <1>7
<1> QED BY <1>8, <1>9, <1>10, <1>11

\* A return leaves neither prevBB nor a place where it is needed.
LEMMA PrevReturn ==
    ASSUME WalkInv, PrevInv, updateILPforCall
    PROVE  PrevInv'
<1>1. PICK f : f = Last(stack)
  OBVIOUS
<1>2. /\ setup' = setup /\ at' = [f[1] EXCEPT ![2] = @ + 1]
  BY <1>1 DEF updateILPforCall
<1>3. Caller(f)
  BY <1>1, WalkReturn
<1>4. PICK p, b, j : p = f[1] /\ b = p[1] /\ j = p[2]
  OBVIOUS
<1>5. /\ CallsBody(setup, setup.code[b][j]) /\ j \in Nat /\ j >= 1 /\ p = <<b, j>>
  BY <1>3, <1>4 DEF Caller, Place
<1>6. at' = <<b, j + 1>>
  BY <1>2, <1>4, <1>5
<1>7. ~Settled(setup, b, j + 1)
  BY <1>5, SettledNext
<1>8. ~(\A i \in 1..(j + 1) - 1 : setup.code[b][i].op = "phi")
  <2>1. j \in 1..(j + 1) - 1 /\ setup.code[b][j].op # "phi"
    BY <1>5 DEF CallsBody
  <2> QED BY <2>1
<1> QED BY <1>2, <1>6, <1>7, <1>8 DEF PrevInv, Block

\* A phi finds its predecessor in prevBB, and no phi before it has changed the
\* value it takes.
LEMMA PrevAtPhi ==
    ASSUME WalkInv, PrevInv, Traced(setup), Enabled, Current.op = "phi"
    PROVE  /\ prevBB = came /\ came \in DOMAIN Current.from
           /\ Get(entered, Current.from[came], {}) = Sources(Current.from[came])
<1>1. PICK b, j : b = at[1] /\ j = at[2]
  OBVIOUS
<1>2. /\ WellFormed(setup) /\ Current = setup.code[b][j] /\ j \in DOMAIN setup.code[b] /\ returned = "none"
  BY <1>1, AtInstruction DEF Current, Block, Enabled
<1>3. /\ b \in DOMAIN setup.code
      /\ (came = "none" /\ b \in EntriesOf(setup)) \/ (came \in DOMAIN setup.code /\ b \in setup.next[came])
  BY <1>1 DEF WalkInv, Place
<1>4. /\ b \notin EntriesOf(setup) /\ \A i \in 1..j - 1 : setup.code[b][i].op = "phi"
      /\ \A p \in DOMAIN setup.code : b \in setup.next[p] => p \in DOMAIN Current.from
  BY <1>2, <1>3 DEF WellFormed
<1>5. came # "none"
  BY <1>2, <1>3, <1>4 DEF WellFormed
<1>6. /\ prevBB = came /\ came \in DOMAIN Current.from
      /\ \A v \in DOMAIN src \cup DOMAIN entered :
            (\A i \in 1..j - 1 : setup.code[b][i].id # v) => Get(entered, v, {}) = Sources(v)
  BY <1>1, <1>2, <1>3, <1>4, <1>5 DEF PrevInv, Block
<1>7. \A i \in 1..j - 1 : setup.code[b][i].id # Current.from[came]
  BY <1>2, <1>3, <1>6 DEF Traced
<1>8. PICK v : v = Current.from[came]
  OBVIOUS
<1>9. Get(entered, v, {}) = Sources(v)
  <2>1. CASE v \in DOMAIN src \cup DOMAIN entered
    BY <2>1, <1>6, <1>7, <1>8
  <2>2. CASE v \notin DOMAIN src \cup DOMAIN entered
    BY <2>2 DEF Sources, Get
  <2> QED BY <2>1, <2>2
<1> QED BY <1>6, <1>8, <1>9

--------------------------------------------------------------------------------
(* The registers of the activations.                                          *)

\* The depths of a program without recursion.
LEMMA DepthFacts ==
    ASSUME WalkInv, Traced(setup)
    PROVE  Ranked(setup, Depth(setup)) /\ \A b \in DOMAIN setup.code : Depth(setup)[b] \in Nat
<1>1. Depth(setup) \in Depths(setup) /\ Ranked(setup, Depth(setup))
  BY DEF Traced, Depth
<1>2. Cardinality(DOMAIN setup.code) \in Nat
  BY AtInstruction, FS_CardinalityType DEF WellFormed
<1> QED BY <1>1, <1>2 DEF Depths

\* A register belongs to the functions of one depth.
LEMMA RegistersApart ==
    ASSUME WalkInv, NEW v, NEW d, NEW e, v \in RegistersAt(setup, d), v \in RegistersAt(setup, e)
    PROVE  d = e
<1> DEFINE D == Depth(setup)
           Own(x) == \E b \in DOMAIN setup.code : D[b] = x /\ \E I \in Range(setup.code[b]) : I.id = v
           Param(x) == \E I \in Instructions : CallsBody(setup, I) /\ D[I.callee] = x /\ v \in Range(I.params)
<1>1. \A x : v \in RegistersAt(setup, x) <=> Own(x) \/ Param(x)
  BY DEF RegistersAt, Instructions
<1>2. WellFormed(setup) /\ \A I \in Instructions : WellFormedInstruction(setup, I)
  BY AtInstruction DEF WellFormed, Instructions
<1>3. \A b \in DOMAIN setup.code : \A I \in Range(setup.code[b]) : I \in Instructions
  BY DEF Instructions, InstructionsOf
<1>4. \A I, J \in Instructions : /\ I.id = J.id => I = J
                                 /\ CallsBody(setup, I) /\ v \in Range(I.params) => J.id # v
                                 /\ CallsBody(setup, I) /\ v \in Range(I.params) /\ CallsBody(setup, J) /\ v \in Range(J.params)
                                       => I.callee = J.callee
  BY <1>2 DEF WellFormedInstruction, Instructions, CallsBody
<1> HIDE DEF D
<1>5. Own(d) /\ Own(e) => d = e
  BY <1>2, <1>3, <1>4 DEF WellFormed
<1>6. Param(d) /\ Param(e) => d = e
  BY <1>4
<1>7. ~(Own(d) /\ Param(e)) /\ ~(Param(d) /\ Own(e))
  BY <1>3, <1>4
<1> QED BY <1>1, <1>5, <1>6, <1>7

\* The registers an instruction of block b gives a cycle: its own, the
\* parameters of a function with a body, and parameters of no such function.
LEMMA RegistersWritten ==
    ASSUME WalkInv, NEW b \in DOMAIN setup.code, NEW I \in Range(setup.code[b])
    PROVE  /\ I.id \in RegistersAt(setup, Depth(setup)[b])
           /\ CallsBody(setup, I) => Range(I.params) \subseteq RegistersAt(setup, Depth(setup)[I.callee])
           /\ I.op = "call" /\ ~CallsBody(setup, I) =>
                 \A d : \A v \in Range(I.params) : v \notin RegistersAt(setup, d)
<1>1. I \in Instructions /\ WellFormedInstruction(setup, I)
  BY AtInstruction DEF WellFormed, Instructions, InstructionsOf
<1>2. I.id \in RegistersAt(setup, Depth(setup)[b])
  BY DEF RegistersAt
<1>3. CallsBody(setup, I) => Range(I.params) \subseteq RegistersAt(setup, Depth(setup)[I.callee])
  BY <1>1 DEF RegistersAt, Instructions
<1>4. ASSUME I.op = "call", ~CallsBody(setup, I), NEW d, NEW v \in Range(I.params)
      PROVE  v \notin RegistersAt(setup, d)
  <2>1. \A J \in Instructions : J.id # v
    BY <1>1, <1>4 DEF WellFormedInstruction, Instructions
  <2>2. \A J \in Instructions : CallsBody(setup, J) => v \notin Range(J.params)
    BY <1>1, <1>4 DEF WellFormedInstruction, Instructions, CallsBody
  <2>3. \A c \in DOMAIN setup.code : \A J \in Range(setup.code[c]) : J \in Instructions
    BY DEF Instructions, InstructionsOf
  <2> QED BY <2>1, <2>2, <2>3 DEF RegistersAt, Instructions
<1> QED BY <1>2, <1>3, <1>4

\* So no instruction gives a register of a waiting activation a cycle, and no
\* call a register of the activation the walk is in to a parameter.
LEMMA OthersApart ==
    ASSUME WalkInv, DepthInv, Traced(setup), Enabled
    PROVE  /\ \A i \in DOMAIN stack : /\ Current.id \notin DOMAIN stack[i][4]
                                      /\ Current.op = "call" => Range(Current.params) \cap DOMAIN stack[i][4] = {}
           /\ Current.op = "call" => Range(Current.params) \cap DOMAIN src = {}
<1>1. PICK b, I : b = at[1] /\ I = Current
  OBVIOUS
<1>2. b \in DOMAIN setup.code /\ I \in Range(setup.code[b])
  BY <1>1, AtInstruction DEF WalkInv, Place, Current, Range
<1>3. PICK D, R : D = Depth(setup) /\ R = [d \in Nat |-> RegistersAt(setup, d)]
  OBVIOUS
<1>4. D[b] \in Nat /\ (CallsBody(setup, I) => D[I.callee] > D[b] /\ D[I.callee] \in Nat)
  BY <1>2, <1>3, DepthFacts DEF Ranked, CallsBody
<1>5. \A i \in DOMAIN stack : Level(i) \in Nat /\ Level(i) < D[b] /\ DOMAIN stack[i][4] \subseteq R[Level(i)]
  <2>1. \A i \in DOMAIN stack : stack[i][1][1] \in DOMAIN setup.code
    BY DEF WalkInv, Caller, Place
  <2>2. \A i \in DOMAIN stack : Level(i) \in Nat
    BY <2>1, <1>3, DepthFacts DEF Level
  <2> QED BY <2>2, <1>1, <1>3 DEF DepthInv
<1>6. DOMAIN src \subseteq R[D[b]]
  BY <1>1, <1>3, <1>4 DEF DepthInv
<1>7. /\ I.id \in R[D[b]]
      /\ CallsBody(setup, I) => Range(I.params) \subseteq R[D[I.callee]]
      /\ I.op = "call" /\ ~CallsBody(setup, I) => \A d \in Nat : Range(I.params) \cap R[d] = {}
  BY <1>2, <1>3, <1>4, RegistersWritten
<1>8. \A d, e \in Nat : d # e => R[d] \cap R[e] = {}
  BY <1>3, RegistersApart
<1>9. \A i \in DOMAIN stack : Level(i) # D[b] /\ (CallsBody(setup, I) => Level(i) # D[I.callee])
  BY <1>4, <1>5
<1>10. CallsBody(setup, I) => D[b] # D[I.callee]
  BY <1>4
<1> HIDE DEF Level
<1>11. \A i \in DOMAIN stack : I.id \notin DOMAIN stack[i][4]
  BY <1>4, <1>5, <1>7, <1>8, <1>9
<1>12. ASSUME I.op = "call"
       PROVE  /\ \A i \in DOMAIN stack : Range(I.params) \cap DOMAIN stack[i][4] = {}
              /\ Range(I.params) \cap DOMAIN src = {}
  <2>1. CASE CallsBody(setup, I)
    BY <2>1, <1>4, <1>5, <1>6, <1>7, <1>8, <1>9, <1>10
  <2>2. CASE ~CallsBody(setup, I)
    BY <2>2, <1>12, <1>4, <1>5, <1>6, <1>7
  <2> QED BY <2>1, <2>2
<1> QED BY <1>1, <1>11, <1>12

\* An instruction adds no register but its own to those of its activation, and
\* a call starts one that has the parameters.
LEMMA DepthVisit ==
    ASSUME WalkInv, DepthInv, Enabled, advance(Current),
           CallsBody(setup, Current) => DOMAIN src' \subseteq Range(Current.params),
           ~CallsBody(setup, Current) => DOMAIN src' \subseteq DOMAIN src \cup {Current.id}
    PROVE  DepthInv'
<1>1. setup' = setup
  BY DEF advance
<1> SUFFICES ASSUME Traced(setup)
             PROVE  /\ DOMAIN src' \subseteq RegistersAt(setup, Depth(setup)[at'[1]])
                    /\ \A i \in DOMAIN stack' :
                          /\ DOMAIN stack'[i][4] \subseteq RegistersAt(setup, Depth(setup)[stack'[i][1][1]])
                          /\ Depth(setup)[stack'[i][1][1]] < Depth(setup)[at'[1]]
                          /\ \A j \in 1..i - 1 : Depth(setup)[stack'[j][1][1]] < Depth(setup)[stack'[i][1][1]]
  BY <1>1 DEF DepthInv, Level
<1>2. PICK b, I, D : b = at[1] /\ I = Current /\ D = Depth(setup)
  OBVIOUS
<1>3. /\ b \in DOMAIN setup.code /\ I \in Range(setup.code[b])
      /\ at \in (DOMAIN setup.code) \X (Nat \ {0})
  BY <1>2, AtInstruction DEF WalkInv, Place, Current, Range
<1>4. /\ \A c \in DOMAIN setup.code : D[c] \in Nat
      /\ \A c \in setup.next[b] : D[c] = D[b]
      /\ CallsBody(setup, I) => D[I.callee] > D[b]
  BY <1>2, <1>3, DepthFacts DEF Ranked
<1>5. /\ I.id \in RegistersAt(setup, D[b])
      /\ CallsBody(setup, I) => Range(I.params) \subseteq RegistersAt(setup, D[I.callee])
  BY <1>2, <1>3, RegistersWritten
<1>6. /\ DOMAIN src \subseteq RegistersAt(setup, D[b])
      /\ \A i \in DOMAIN stack : /\ DOMAIN stack[i][4] \subseteq RegistersAt(setup, D[stack[i][1][1]])
                                 /\ D[stack[i][1][1]] < D[b]
                                 /\ \A j \in 1..i - 1 : D[stack[j][1][1]] < D[stack[i][1][1]]
  BY <1>2 DEF DepthInv, Level
<1>7. /\ DOMAIN stack = 1..Len(stack) /\ Len(stack) \in Nat
      /\ \A i \in DOMAIN stack : D[stack[i][1][1]] \in Nat
  BY <1>4 DEF WalkInv, Caller, Place
<1>8. CASE CallsBody(setup, I)
  <2>1. PICK g : g = <<at, came, I.id, produced(I)>>
    OBVIOUS
  <2>2. stack' = Append(stack, g) /\ at' = <<I.callee, 1>> /\ g[1] = at /\ g[4] = produced(I)
    BY <2>1, <1>2, <1>8 DEF advance
  <2>3. DOMAIN stack' = 1..Len(stack) + 1 /\ (\A i \in 1..Len(stack) : stack'[i] = stack[i]) /\ stack'[Len(stack) + 1] = g
    BY <2>2 DEF WalkInv
  <2>4. DOMAIN g[4] \subseteq RegistersAt(setup, D[b])
    BY <2>2, <1>5, <1>6 DEF produced, Put
  <2>5. DOMAIN src' \subseteq RegistersAt(setup, D[I.callee])
    BY <1>2, <1>5, <1>8
  <2>6. \A i \in 1..Len(stack) : D[stack[i][1][1]] < D[I.callee] /\ D[stack[i][1][1]] < D[b]
    BY <1>3, <1>4, <1>6, <1>7, <1>8 DEF CallsBody
  <2>7. ASSUME NEW i \in DOMAIN stack'
        PROVE  /\ DOMAIN stack'[i][4] \subseteq RegistersAt(setup, D[stack'[i][1][1]])
               /\ D[stack'[i][1][1]] < D[I.callee]
               /\ \A j \in 1..i - 1 : D[stack'[j][1][1]] < D[stack'[i][1][1]]
    <3>1. CASE i \in 1..Len(stack)
      <4>1. \A j \in 1..i - 1 : j \in 1..Len(stack) /\ stack'[j] = stack[j]
        BY <3>1, <2>3, <1>7
      <4> QED BY <4>1, <3>1, <2>3, <2>6, <1>6, <1>7
    <3>2. CASE i = Len(stack) + 1
      <4>1. stack'[i] = g /\ g[1][1] = b
        BY <3>2, <2>2, <2>3, <1>2
      <4>2. \A j \in 1..i - 1 : j \in 1..Len(stack) /\ stack'[j] = stack[j]
        BY <3>2, <2>3, <1>7
      <4> QED BY <4>1, <4>2, <2>4, <2>6, <1>4, <1>8
    <3> QED BY <3>1, <3>2, <2>3, <1>7
  <2> QED BY <2>2, <2>5, <2>7, <1>2
<1>9. CASE ~CallsBody(setup, I)
  <2>1. stack' = stack
    BY <1>2, <1>9 DEF advance
  <2>2. D[at'[1]] = D[b]
    <3>1. at' = at \/ (\E c \in setup.next[b] : at' = <<c, 1>>) \/ at' = [at EXCEPT ![2] = @ + 1]
      BY <1>2, <1>9 DEF advance
    <3>2. CASE at' = [at EXCEPT ![2] = @ + 1]
      BY <3>2, <1>2, <1>3
    <3> QED BY <3>1, <3>2, <1>2, <1>4
  <2>3. DOMAIN src' \subseteq RegistersAt(setup, D[b])
    BY <1>2, <1>5, <1>6, <1>9
  <2> QED BY <2>1, <2>2, <2>3, <1>2, <1>6
<1> QED BY <1>8, <1>9

\* A return gives the caller its registers back.
LEMMA DepthReturn ==
    ASSUME WalkInv, DepthInv, updateILPforCall
    PROVE  DepthInv'
<1>1. PICK f, n : f = Last(stack) /\ n = Len(stack)
  OBVIOUS
<1>2. /\ setup' = setup /\ at' = [f[1] EXCEPT ![2] = @ + 1]
      /\ \E X : src' = Put(f[4], f[3], X)
  BY <1>1 DEF updateILPforCall
<1>3. /\ Caller(f) /\ n \in Nat /\ n >= 1 /\ DOMAIN stack = 1..n /\ f = stack[n]
      /\ DOMAIN stack' = 1..n - 1 /\ \A i \in 1..n - 1 : stack'[i] = stack[i]
  BY <1>1, WalkReturn
<1>4. /\ f[1] \in (DOMAIN setup.code) \X (Nat \ {0}) /\ f[3] \in DOMAIN f[4]
  BY <1>3 DEF Caller, Place
<1>5. at'[1] = f[1][1]
  BY <1>2, <1>4
<1>6. DOMAIN src' = DOMAIN f[4]
  BY <1>2, <1>4 DEF Put
<1> SUFFICES ASSUME Traced(setup)
             PROVE  /\ DOMAIN src' \subseteq RegistersAt(setup, Depth(setup)[at'[1]])
                    /\ \A i \in DOMAIN stack' :
                          /\ DOMAIN stack'[i][4] \subseteq RegistersAt(setup, Depth(setup)[stack'[i][1][1]])
                          /\ Depth(setup)[stack'[i][1][1]] < Depth(setup)[at'[1]]
                          /\ \A j \in 1..i - 1 : Depth(setup)[stack'[j][1][1]] < Depth(setup)[stack'[i][1][1]]
  BY <1>2 DEF DepthInv, Level
<1>7. \A i \in 1..n : /\ DOMAIN stack[i][4] \subseteq RegistersAt(setup, Depth(setup)[stack[i][1][1]])
                       /\ \A j \in 1..i - 1 : Depth(setup)[stack[j][1][1]] < Depth(setup)[stack[i][1][1]]
  BY <1>3 DEF DepthInv, Level
<1>8. \A i \in 1..n - 1 : i \in 1..n /\ \A j \in 1..i - 1 : j \in 1..n - 1
  BY <1>3
<1>9. n \in 1..n
  BY <1>3
<1> QED BY <1>3, <1>5, <1>6, <1>7, <1>8, <1>9

\* The call a return leads back to has a register no other waiting activation
\* has.
LEMMA CallApart ==
    ASSUME WalkInv, DepthInv, Traced(setup), updateILPforCall
    PROVE  \A i \in 1..Len(stack) - 1 : Last(stack)[3] \notin DOMAIN stack[i][4]
<1>1. PICK f, n : f = Last(stack) /\ n = Len(stack)
  OBVIOUS
<1>a. PICK b, j : b = f[1][1] /\ j = f[1][2]
  OBVIOUS
<1>2. Caller(f) /\ n \in Nat /\ n >= 1 /\ DOMAIN stack = 1..n /\ f = stack[n]
  BY <1>1, WalkReturn
<1>3. b \in DOMAIN setup.code /\ j \in Nat /\ j >= 1 /\ j <= Len(setup.code[b]) /\ f[3] = setup.code[b][j].id
  <2>1. f[1] \in (DOMAIN setup.code) \X (Nat \ {0})
    BY <1>2 DEF Caller, Place
  <2>2. f[1][2] <= Len(setup.code[f[1][1]]) /\ f[3] = setup.code[f[1][1]][f[1][2]].id
    BY <1>2 DEF Caller
  <2>3. b \in DOMAIN setup.code /\ j \in Nat \ {0}
    BY <2>1, <1>a
  <2>4. j <= Len(setup.code[b]) /\ f[3] = setup.code[b][j].id
    BY <2>2, <1>a
  <2> QED BY <2>3, <2>4
<1>4. setup.code[b] \in Seq(Range(setup.code[b]))
  BY <1>3, AtInstruction DEF WellFormed
<1>5. j \in DOMAIN setup.code[b]
  BY <1>3, <1>4
<1>6. f[3] \in RegistersAt(setup, Depth(setup)[b])
  <2>1. setup.code[b][j] \in Range(setup.code[b])
    BY <1>5 DEF Range
  <2> QED BY <2>1, <1>3, RegistersWritten
<1>7. ASSUME NEW i \in 1..n - 1
      PROVE  f[3] \notin DOMAIN stack[i][4]
  <2>1. i \in DOMAIN stack /\ n \in DOMAIN stack /\ i \in 1..n - 1
    BY <1>2
  <2>2. DOMAIN stack[i][4] \subseteq RegistersAt(setup, Level(i)) /\ Level(i) < Level(n)
    BY <2>1 DEF DepthInv
  <2>3. Level(n) = Depth(setup)[b] /\ Level(i) \in Nat /\ Level(n) \in Nat
    <3>1. stack[i][1][1] \in DOMAIN setup.code
      BY <2>1 DEF WalkInv, Caller, Place
    <3> QED BY <3>1, <1>a, <1>2, <1>3, DepthFacts DEF Level
  <2>4. Level(i) # Depth(setup)[b]
    BY <2>2, <2>3
  <2> QED BY <2>2, <2>4, <1>6, RegistersApart
<1> QED BY <1>1, <1>7

--------------------------------------------------------------------------------
(* The sources of a register.                                                 *)

\* What SourceInv says of one source of a register of an activation.
LEMMA CoverFacts ==
    ASSUME TypeInv, NEW f, Typed(f, log), Covers(f, LastUsageOperands, log), NEW v \in DOMAIN f, NEW s \in f[v]
    PROVE  /\ v \notin Constants /\ s[1] \in DOMAIN log /\ s[2] \in {0, 1}
           /\ \A J \in Instructions : J.id = v /\ J.op # "phi" => s[2] = 1
           /\ \A o \in Orders : /\ Cycle(s[1], o) \in Nat
                                /\ LookupOperand(LastUsageOperands, v)[o] + Weight(v) >= Cycle(s[1], o) + s[2]
<1>1. s \in (DOMAIN log) \X {0, 1}
  BY DEF Typed
<1>2. s[1] \in DOMAIN log /\ s[2] \in {0, 1}
  BY <1>1
<1>3. \A o \in Orders : Cycle(s[1], o) \in Nat
  BY <1>2 DEF TypeInv, Cycles, Cycle
<1> QED BY <1>2, <1>3 DEF Covers, Cycle

\* The same of the activation the walk is in.
LEMMA SourceFacts ==
    ASSUME TypeInv, SourceInv, Traced(setup), NEW v, NEW s \in Sources(v)
    PROVE  /\ v \in DOMAIN src /\ v \notin Constants /\ s[1] \in DOMAIN log /\ s[2] \in {0, 1}
           /\ \A J \in Instructions : J.id = v /\ J.op # "phi" => s[2] = 1
           /\ \A o \in Orders : /\ Cycle(s[1], o) \in Nat
                                /\ LookupOperand(LastUsageOperands, v)[o] + Weight(v) >= Cycle(s[1], o) + s[2]
<1>1. PICK f : f = src
  OBVIOUS
<1>2. v \in DOMAIN f /\ s \in f[v]
  BY <1>1 DEF Sources, Get
<1>3. Typed(f, log) /\ Covers(f, LastUsageOperands, log)
  BY <1>1 DEF TypeInv, Typed, Histories, SourceInv
<1>4. /\ v \notin Constants /\ s[1] \in DOMAIN log /\ s[2] \in {0, 1}
      /\ \A J \in Instructions : J.id = v /\ J.op # "phi" => s[2] = 1
      /\ \A o \in Orders : /\ Cycle(s[1], o) \in Nat
                           /\ LookupOperand(LastUsageOperands, v)[o] + Weight(v) >= Cycle(s[1], o) + s[2]
  BY <1>2, <1>3, CoverFacts
<1> QED BY <1>1, <1>2, <1>4

\* The kind of a value is a matter of the program.
LEMMA KindsKept ==
    ASSUME setup' = setup
    PROVE  Instructions' = Instructions /\ \A v : Weight(v)' = Weight(v)
BY DEF Instructions, Weight, valueIsConstantLike, IsOp

\* The kind of the register of an instruction.
LEMMA KindOf ==
    ASSUME WalkInv, NEW I \in Instructions
    PROVE  /\ I.id \notin Constants
           /\ \A op : IsOp(I.id, op) <=> I.op = op
           /\ Weight(I.id) = IF I.op = "phi" THEN 0 ELSE 1
           /\ \A J \in Instructions : J.id = I.id => J = I
<1>1. WellFormedInstruction(setup, I)
  BY AtInstruction DEF WellFormed, Instructions
<1>2. I.id \notin Constants /\ \A J \in Instructions : J.id = I.id => J = I
  BY <1>1 DEF WellFormedInstruction, Instructions
<1>3. \A op : IsOp(I.id, op) <=> I.op = op
  BY <1>2 DEF IsOp
<1> QED BY <1>2, <1>3 DEF Weight, valueIsConstantLike

\* The cycles of the registers are natural numbers.
LEMMA LookupTyped ==
    ASSUME TypeInv, NEW v
    PROVE  /\ LookupOperand(LastUsageOperands, v) \in Cycles
           /\ \A o \in Orders : LookupOperand(LastUsageOperands, v)[o] \in Nat
<1>1. Closed(Cycles) /\ Zero \in Cycles /\ Registers(LastUsageOperands, Cycles)
  BY LagMaps DEF Closed
<1>2. LookupOperand(LastUsageOperands, v) \in Cycles
  BY <1>1, PutRegister
<1> QED BY <1>2 DEF Cycles

\* What SourceInv says of the next state.
LEMMA SourceNext ==
    ASSUME setup' = setup, Traced(setup) => Covers(src', LastUsageOperands', log'),
           Traced(setup) => \A i \in DOMAIN stack' : Covers(stack'[i][4], LastUsageOperands', log')
    PROVE  SourceInv'
<1>1. Instructions' = Instructions /\ \A v : Weight(v)' = Weight(v)
  BY KindsKept
<1>2. ASSUME NEW f, Covers(f, LastUsageOperands', log')
      PROVE  \A v \in DOMAIN f : \A s \in f[v] :
                /\ v \notin Constants
                /\ \A I \in Instructions' : I.id = v /\ I.op # "phi" => s[2] = 1
                /\ \A o \in Orders : LookupOperand(LastUsageOperands', v)[o] + Weight(v)' >= log'[s[1]].cycle[o] + s[2]
  BY <1>1, <1>2 DEF Covers
<1> QED BY <1>2 DEF SourceInv, Covers, LookupOperand

\* One register gets the cycle c and the sources X that c respects; the others
\* are kept.
LEMMA CoverPut ==
    ASSUME NEW f, NEW U, Covers(f, U, log), NEW id, id \notin Constants, NEW c, NEW X,
           \A s \in X : /\ \A J \in Instructions : J.id = id /\ J.op # "phi" => s[2] = 1
                        /\ \A o \in Orders : c[o] + Weight(id) >= Cycle(s[1], o) + s[2]
    PROVE  Covers(Put(f, id, X), InsertOperandUsage(U, id, c), log)
<1> SUFFICES ASSUME NEW v \in DOMAIN Put(f, id, X), NEW s \in Put(f, id, X)[v]
             PROVE  /\ v \notin Constants
                    /\ \A I \in Instructions : I.id = v /\ I.op # "phi" => s[2] = 1
                    /\ \A o \in Orders : LookupOperand(InsertOperandUsage(U, id, c), v)[o] + Weight(v)
                                            >= log[s[1]].cycle[o] + s[2]
  BY DEF Covers
<1>3. CASE v = id
  <2>1. s \in X
    BY <1>3 DEF Put
  <2>2. LookupOperand(InsertOperandUsage(U, id, c), v) = c
    BY <1>3, PutLookup
  <2> QED BY <2>1, <2>2, <1>3 DEF Cycle
<1>4. CASE v # id
  <2>1. v \in DOMAIN f /\ s \in f[v]
    BY <1>4 DEF Put
  <2>2. LookupOperand(InsertOperandUsage(U, id, c), v) = LookupOperand(U, v)
    BY <1>4, PutLookup
  <2> QED BY <2>1, <2>2 DEF Covers
<1> QED BY <1>3, <1>4

\* An activation that has no such register does not notice.
LEMMA CoverKept ==
    ASSUME NEW f, NEW U, Covers(f, U, log), NEW id, id \notin DOMAIN f, NEW c
    PROVE  Covers(f, InsertOperandUsage(U, id, c), log)
<1>1. \A v \in DOMAIN f : LookupOperand(InsertOperandUsage(U, id, c), v) = LookupOperand(U, v)
  BY PutLookup
<1> QED BY <1>1 DEF Covers

\* A phi takes its sources from the value it hands on. A value that is no phi
\* and no call is given one cycle more; a call keeps its cycle and loses the
\* gap to its sources.
LEMMA SourcePhi ==
    ASSUME WalkInv, TypeInv, PrevInv, DepthInv, SourceInv, visit_phi
    PROVE  SourceInv'
<1>1. Enabled /\ setup' = setup /\ log' = log /\ Current.op = "phi" /\ stack' = stack
  BY DEF visit_phi, advance, CallsBody
<1>2. CASE ~Traced(setup)
  BY <1>1, <1>2 DEF SourceInv
<1>3. CASE Traced(setup)
  <2>1. PICK I, v, X, u, c :
           /\ I = Current /\ v = I.from[came] /\ u = LookupOperand(LastUsageOperands, v)
           /\ X = (IF valueIsFunctionCall(v) THEN {<<s[1], 0>> : s \in Sources(v)} ELSE Sources(v))
           /\ c = (IF valueIsConstantLike(v) \/ valueIsFunctionCall(v) THEN u ELSE InOrder(Plus(u, 1)))
    OBVIOUS
  <2>3. prevBB = came /\ came \in DOMAIN I.from /\ Get(entered, v, {}) = Sources(v)
    BY <1>1, <1>3, <2>1, PrevAtPhi
  <2>2. src' = Put(src, I.id, X)
    BY <2>1, <2>3 DEF visit_phi
  <2>4. LastUsageOperands' = InsertOperandUsage(LastUsageOperands, I.id, c)
    <3>1. LastUsageOperands' = phi_cycle(I)
      BY <2>1 DEF visit_phi
    <3> QED BY <3>1, <2>1, <2>3 DEF phi_cycle
  <2>5. I \in Instructions /\ I.op = "phi"
    BY <1>1, <2>1, AtInstruction
  <2>6. /\ I.id \notin Constants /\ Weight(I.id) = 0
        /\ \A J \in Instructions : J.id = I.id => J.op = "phi"
    <3>1. /\ I.id \notin Constants /\ Weight(I.id) = (IF I.op = "phi" THEN 0 ELSE 1)
          /\ \A J \in Instructions : J.id = I.id => J = I
      BY <2>5, KindOf
    <3> QED BY <3>1, <2>5
  <2>7. /\ u \in Cycles /\ \A o \in Orders : u[o] \in Nat
    BY <2>1, LookupTyped
  <2>8. /\ InOrder(Plus(u, 1)) \in Cycles /\ \A o \in Orders : InOrder(Plus(u, 1))[o] >= u[o] + 1
    <3>1. MaxIssueCycle \in Cycles
      BY DEF TypeInv
    <3>2. Plus(u, 1) \in Cycles /\ \A o \in Orders : Plus(u, 1)[o] = u[o] + 1
      BY <2>7, <3>1, CycleArithmetic
    <3>3. PICK x : x = Plus(u, 1)
      OBVIOUS
    <3>4. InOrder(x) \in Cycles /\ \A o \in Orders : InOrder(x)[o] >= x[o]
      <4>1. x \in Cycles
        BY <3>2, <3>3
      <4> QED BY ONLY <3>1, <4>1, CycleArithmetic
    <3> QED BY <3>2, <3>3, <3>4
  <2>9. ASSUME NEW s \in X, NEW o \in Orders
        PROVE  c[o] >= Cycle(s[1], o) + s[2]
    <3>1. CASE valueIsFunctionCall(v)
      <4>1. PICK t \in Sources(v) : s = <<t[1], 0>>
        BY <2>1, <3>1
      <4>2. PICK J \in Instructions : J.id = v /\ J.op = "call"
        BY <3>1 DEF valueIsFunctionCall, IsOp
      <4>3. Weight(v) = 1
        BY <4>2, KindOf
      <4>4. t[2] = 1 /\ Cycle(t[1], o) \in Nat /\ u[o] + Weight(v) >= Cycle(t[1], o) + t[2]
        BY <4>2, <1>3, <2>1, SourceFacts
      <4>5. c = u /\ s[1] = t[1] /\ s[2] = 0
        BY <2>1, <3>1, <4>1
      <4> QED BY <4>3, <4>4, <4>5, <2>7
    <3>2. CASE ~valueIsFunctionCall(v)
      <4>1. s \in Sources(v)
        BY <2>1, <3>2
      <4>2. v \notin Constants /\ s[2] \in {0, 1} /\ Cycle(s[1], o) \in Nat /\ u[o] + Weight(v) >= Cycle(s[1], o) + s[2]
        BY <4>1, <1>3, <2>1, SourceFacts
      <4>3. CASE valueIsConstantLike(v)
        <5>1. c = u /\ Weight(v) = 0
          BY <2>1, <4>3 DEF Weight
        <5> QED BY <5>1, <4>2, <2>7
      <4>4. CASE ~valueIsConstantLike(v)
        <5>1. c[o] >= u[o] + 1 /\ Weight(v) = 1 /\ c \in Cycles
          BY <2>1, <2>8, <3>2, <4>4 DEF Weight
        <5>2. c[o] \in Nat
          BY <5>1 DEF Cycles
        <5> QED BY <5>1, <5>2, <4>2, <2>7
      <4> QED BY <4>3, <4>4
    <3> QED BY <3>1, <3>2
  <2>10. \A s \in X : /\ \A J \in Instructions : J.id = I.id /\ J.op # "phi" => s[2] = 1
                      /\ \A o \in Orders : c[o] + Weight(I.id) >= Cycle(s[1], o) + s[2]
    <3>1. \A o \in Orders : c[o] + 0 = c[o]
      <4>1. c \in Cycles
        BY <2>1, <2>7, <2>8
      <4> QED BY <4>1 DEF Cycles
    <3> QED BY <3>1, <2>6, <2>9
  <2>11. PICK id, f, U : id = I.id /\ f = src /\ U = LastUsageOperands
    OBVIOUS
  <2>12. Covers(Put(f, id, X), InsertOperandUsage(U, id, c), log)
    <3>1. Covers(f, U, log)
      BY <1>3, <2>11 DEF SourceInv
    <3> QED BY <3>1, <2>6, <2>10, <2>11, CoverPut
  <2>13. ASSUME NEW i \in DOMAIN stack
         PROVE  Covers(stack[i][4], LastUsageOperands', log)
    <3>1. PICK g : g = stack[i][4]
      OBVIOUS
    <3>2. Covers(g, U, log) /\ id \notin DOMAIN g
      BY <3>1, <1>1, <1>3, <2>1, <2>11, OthersApart DEF SourceInv
    <3>3. Covers(g, InsertOperandUsage(U, id, c), log)
      BY <3>2, CoverKept
    <3> QED BY <3>1, <3>3, <2>4, <2>11
  <2> QED BY <1>1, <2>2, <2>4, <2>11, <2>12, <2>13, SourceNext
<1> QED BY <1>2, <1>3

\* After a return the call comes from what the callee returned, too.
LEMMA SourceReturn ==
    ASSUME WalkInv, TypeInv, DepthInv, SourceInv, updateILPforCall
    PROVE  SourceInv'
<1>1. setup' = setup /\ log' = log /\ returned # "none"
  BY DEF updateILPforCall
<1>2. CASE ~Traced(setup)
  BY <1>1, <1>2 DEF SourceInv
<1>3. CASE Traced(setup)
  <2>1. PICK call, kept, U, x, y, c, X :
           /\ call = Last(stack)[3] /\ kept = Last(stack)[4] /\ U = LastUsageOperands
           /\ x = LookupOperand(LastUsageOperands, call) /\ y = LookupOperand(LastUsageOperands, returned)
           /\ c = Latest(x, y) /\ X = kept[call] \cup Sources(returned)
    OBVIOUS
  <2>2. LastUsageOperands' = InsertOperandUsage(LastUsageOperands, call, c) /\ src' = Put(kept, call, X)
    BY <2>1 DEF updateILPforCall
  <2>k. /\ call \in DOMAIN kept /\ Typed(kept, log) /\ Covers(kept, LastUsageOperands, log)
        /\ Len(stack) \in Nat /\ DOMAIN stack = 1..Len(stack) /\ Len(stack) >= 1
        /\ DOMAIN stack' = 1..Len(stack) - 1 /\ \A i \in 1..Len(stack) - 1 : stack'[i] = stack[i]
    <3>1. /\ Caller(Last(stack)) /\ Last(stack) = stack[Len(stack)]
          /\ Len(stack) \in Nat /\ DOMAIN stack = 1..Len(stack) /\ Len(stack) >= 1
          /\ DOMAIN stack' = 1..Len(stack) - 1 /\ \A i \in 1..Len(stack) - 1 : stack'[i] = stack[i]
      BY WalkReturn
    <3>2. kept = stack[Len(stack)][4] /\ Len(stack) \in DOMAIN stack
      BY <3>1, <2>1
    <3>3. kept \in Histories
      BY <3>2 DEF Histories
    <3>4. Typed(kept, log)
      BY <3>3 DEF TypeInv, Typed
    <3>5. Covers(kept, LastUsageOperands, log)
      BY <3>2, <1>3 DEF SourceInv
    <3> QED BY <3>1, <3>4, <3>5, <2>1 DEF Caller
  <2>3. PICK I \in Instructions : I.id = call /\ I.op = "call"
    <3>1. PICK f, p, b, j : f = Last(stack) /\ p = f[1] /\ b = p[1] /\ j = p[2]
      OBVIOUS
    <3>2. Caller(f) /\ call = f[3]
      BY <2>1, <3>1, WalkReturn
    <3>3. /\ b \in DOMAIN setup.code /\ j \in Nat /\ j >= 1 /\ j <= Len(setup.code[b])
          /\ CallsBody(setup, setup.code[b][j]) /\ call = setup.code[b][j].id
      BY <3>1, <3>2 DEF Caller, Place
    <3>4. setup.code[b] \in Seq(Range(setup.code[b]))
      BY <3>3, AtInstruction DEF WellFormed
    <3>5. j \in DOMAIN setup.code[b]
      BY <3>3, <3>4
    <3>6. setup.code[b][j] \in Instructions
      BY <3>3, <3>5 DEF Instructions, InstructionsOf, Range
    <3> QED BY <3>3, <3>6 DEF CallsBody
  <2>4. call \notin Constants /\ Weight(call) = 1 /\ I.op # "phi"
    BY <2>3, KindOf
  <2>5. PICK J \in Instructions : J.id = returned /\ J.op = "ret"
    BY <1>1 DEF WalkInv, IsOp
  <2>6. Weight(returned) = 1 /\ J.op # "phi"
    BY <2>5, KindOf
  <2>7. x \in Cycles /\ y \in Cycles /\ \A o \in Orders : x[o] \in Nat /\ y[o] \in Nat
    BY <2>1, LookupTyped
  <2>8. c \in Cycles /\ \A o \in Orders : c[o] >= x[o] /\ c[o] >= y[o] /\ c[o] \in Nat
    <3>1. MaxIssueCycle \in Cycles
      BY DEF TypeInv
    <3>2. c \in Cycles /\ \A o \in Orders : c[o] >= x[o] /\ c[o] >= y[o]
      BY <3>1, <2>1, <2>7, CycleArithmetic
    <3> QED BY <3>2 DEF Cycles
  <2>9. ASSUME NEW s \in X
        PROVE  s[2] = 1 /\ \A o \in Orders : c[o] + 1 >= Cycle(s[1], o) + s[2]
    <3>1. CASE s \in kept[call]
      <4>1. s[2] = 1 /\ \A o \in Orders : Cycle(s[1], o) \in Nat /\ x[o] + Weight(call) >= Cycle(s[1], o) + s[2]
        BY <2>1, <2>k, <2>3, <2>4, <3>1, CoverFacts
      <4> QED BY <4>1, <2>4, <2>7, <2>8
    <3>2. CASE s \in Sources(returned)
      <4>1. s[2] = 1 /\ \A o \in Orders : Cycle(s[1], o) \in Nat /\ y[o] + Weight(returned) >= Cycle(s[1], o) + s[2]
        BY <1>3, <2>1, <2>5, <2>6, <3>2, SourceFacts
      <4> QED BY <4>1, <2>6, <2>7, <2>8
    <3> QED BY <2>1, <3>1, <3>2
  <2>10. \A s \in X : /\ \A K \in Instructions : K.id = call /\ K.op # "phi" => s[2] = 1
                      /\ \A o \in Orders : c[o] + Weight(call) >= Cycle(s[1], o) + s[2]
    BY <2>4, <2>9
  <2>11. Covers(Put(kept, call, X), InsertOperandUsage(U, call, c), log)
    <3>1. Covers(kept, U, log) /\ call \notin Constants
      BY <2>1, <2>k, <2>4
    <3> QED BY ONLY <3>1, <2>10, CoverPut
  <2>12. ASSUME NEW i \in DOMAIN stack'
         PROVE  Covers(stack'[i][4], LastUsageOperands', log)
    <3>1. PICK g : g = stack[i][4]
      OBVIOUS
    <3>2. i \in 1..Len(stack) - 1 /\ i \in DOMAIN stack /\ stack'[i] = stack[i]
      BY <2>k
    <3>3. Covers(g, U, log) /\ call \notin DOMAIN g
      BY <3>1, <3>2, <1>3, <2>1, CallApart DEF SourceInv
    <3>4. Covers(g, InsertOperandUsage(U, call, c), log)
      BY <3>3, CoverKept
    <3> QED BY <3>1, <3>2, <3>4, <2>1, <2>2
  <2> QED BY <1>1, <2>1, <2>2, <2>11, <2>12, SourceNext
<1> QED BY <1>2, <1>3

Recorded(I, D, c, u) ==
    /\ DOMAIN log' = 1..Len(log) + 1 /\ \A m \in 1..Len(log) : log'[m] = log[m]
    /\ log'[Len(log) + 1].cycle = c /\ log'[Len(log) + 1].deps = D
    /\ \A m \in DOMAIN log' : log'[m].deps \subseteq (1..m - 1) \X {0, 1}
    /\ LastUsageOperands' = u /\ Registers(u, Cycles) /\ LookupOperand(u, I.id) = c
    /\ \A v : v \notin bound(I) \cup {I.id} =>
          \A o \in Orders : LookupOperand(u, v)[o] >= LookupOperand(LastUsageOperands, v)[o]
    /\ \A v \in bound(I) : argument(I, v) \in DOMAIN src =>
          LookupOperand(u, v) = LookupOperand(LastUsageOperands, argument(I, v))
    /\ \A d \in D : \A o \in Orders : c[o] >= Cycle(d[1], o) + d[2]

\* The cycles of the log, after one more instruction was executed at cycle c.
LEMMA CyclesRecorded ==
    ASSUME TypeInv, NEW I, NEW D, NEW c \in Cycles, NEW u, Recorded(I, D, c, u)
    PROVE  /\ Len(log) \in Nat /\ DOMAIN log = 1..Len(log)
           /\ \A m \in 1..Len(log) : \A o \in Orders : log'[m].cycle[o] = Cycle(m, o) /\ Cycle(m, o) \in Nat
           /\ \A o \in Orders : log'[Len(log) + 1].cycle[o] = c[o] /\ c[o] \in Nat
           /\ \A v : \A o \in Orders : LookupOperand(u, v)[o] \in Nat
<1>1. Len(log) \in Nat /\ DOMAIN log = 1..Len(log)
  BY DEF TypeInv
<1>2. \A m \in 1..Len(log) : \A o \in Orders : log'[m].cycle[o] = Cycle(m, o) /\ Cycle(m, o) \in Nat
  BY <1>1 DEF Recorded, Cycle, TypeInv, Cycles
<1>3. \A o \in Orders : log'[Len(log) + 1].cycle[o] = c[o] /\ c[o] \in Nat
  BY DEF Recorded, Cycles
<1>4. \A v : LookupOperand(u, v) \in Cycles
  <2>1. Closed(Cycles) /\ Zero \in Cycles /\ Registers(u, Cycles)
    BY LagMaps DEF Closed, Recorded
  <2> QED BY ONLY <2>1, PutRegister
<1> QED BY <1>1, <1>2, <1>3, <1>4 DEF Cycles

\* One more instruction was executed at cycle c; its register has that cycle
\* and no other register, but for parameters, is earlier: an activation that
\* has none of the parameters may take the register in.
LEMMA CoverRecord ==
    ASSUME WalkInv, TypeInv, NEW I \in Instructions, I.op # "phi", NEW D, NEW c \in Cycles, NEW u, Recorded(I, D, c, u),
           NEW f, Typed(f, log), Covers(f, LastUsageOperands, log), bound(I) \cap DOMAIN f = {}
    PROVE  /\ Covers(Put(f, I.id, {<<Len(log) + 1, 1>>}), u, log')
           /\ I.id \notin DOMAIN f => Covers(f, u, log')
<1>1. /\ Len(log) \in Nat /\ DOMAIN log = 1..Len(log)
      /\ \A m \in 1..Len(log) : \A o \in Orders : log'[m].cycle[o] = Cycle(m, o) /\ Cycle(m, o) \in Nat
      /\ \A o \in Orders : log'[Len(log) + 1].cycle[o] = c[o] /\ c[o] \in Nat
      /\ \A v : \A o \in Orders : LookupOperand(u, v)[o] \in Nat
  BY CyclesRecorded
<1>2. /\ \A v : v \notin bound(I) \cup {I.id} =>
            \A o \in Orders : LookupOperand(u, v)[o] >= LookupOperand(LastUsageOperands, v)[o]
      /\ LookupOperand(u, I.id) = c
  BY DEF Recorded
<1>3. ASSUME NEW v \in DOMAIN f, NEW s \in f[v], v # I.id
      PROVE  /\ v \notin Constants
             /\ \A J \in Instructions : J.id = v /\ J.op # "phi" => s[2] = 1
             /\ \A o \in Orders : LookupOperand(u, v)[o] + Weight(v) >= log'[s[1]].cycle[o] + s[2]
  <2>1. /\ v \notin Constants /\ s[1] \in 1..Len(log) /\ s[2] \in {0, 1}
        /\ \A J \in Instructions : J.id = v /\ J.op # "phi" => s[2] = 1
        /\ \A o \in Orders : Cycle(s[1], o) \in Nat /\ LookupOperand(LastUsageOperands, v)[o] + Weight(v) >= Cycle(s[1], o) + s[2]
    BY <1>1, CoverFacts
  <2>2. ASSUME NEW o \in Orders
        PROVE  LookupOperand(u, v)[o] + Weight(v) >= log'[s[1]].cycle[o] + s[2]
    <3>1. PICK x, y, z, w : /\ x = LookupOperand(LastUsageOperands, v)[o] /\ y = Cycle(s[1], o)
                            /\ z = LookupOperand(u, v)[o] /\ w = Weight(v)
      OBVIOUS
    <3>2. x \in Nat /\ y \in Nat /\ x + w >= y + s[2] /\ w \in {0, 1}
      BY <2>1, <3>1, LookupTyped DEF Weight
    <3>3. z \in Nat /\ z >= x
      BY <1>1, <1>2, <1>3, <3>1
    <3>4. z + w >= y + s[2]
      BY <2>1, <3>2, <3>3
    <3> QED BY <3>1, <3>4, <2>1, <1>1
  <2> QED BY <2>1, <2>2
<1>4. I.id \notin Constants /\ Weight(I.id) = 1
  BY KindOf
<1>5. ASSUME NEW v \in DOMAIN Put(f, I.id, {<<Len(log) + 1, 1>>}), NEW s \in Put(f, I.id, {<<Len(log) + 1, 1>>})[v]
      PROVE  /\ v \notin Constants
             /\ \A J \in Instructions : J.id = v /\ J.op # "phi" => s[2] = 1
             /\ \A o \in Orders : LookupOperand(u, v)[o] + Weight(v) >= log'[s[1]].cycle[o] + s[2]
  <2>1. CASE v = I.id
    <3>1. s = <<Len(log) + 1, 1>>
      BY <2>1 DEF Put
    <3> QED BY <3>1, <2>1, <1>1, <1>2, <1>4
  <2>2. CASE v # I.id
    <3>1. v \in DOMAIN f /\ s \in f[v]
      BY <2>2 DEF Put
    <3> QED BY <3>1, <2>2, <1>3
  <2> QED BY <2>1, <2>2
<1>6. Covers(Put(f, I.id, {<<Len(log) + 1, 1>>}), u, log')
  BY <1>5 DEF Covers
<1>7. ASSUME I.id \notin DOMAIN f
      PROVE  Covers(f, u, log')
  BY <1>3, <1>7 DEF Covers
<1> QED BY <1>6, <1>7

\* The parameters of an activation that a call starts come from the arguments.
LEMMA CoverCall ==
    ASSUME WalkInv, TypeInv, SourceInv, Traced(setup), NEW I \in Instructions, NEW D, NEW c \in Cycles, NEW u,
           Recorded(I, D, c, u)
    PROVE  Covers([p \in bound(I) |-> Sources(argument(I, p))], u, log')
<1>1. /\ Len(log) \in Nat /\ DOMAIN log = 1..Len(log)
      /\ \A m \in 1..Len(log) : \A o \in Orders : log'[m].cycle[o] = Cycle(m, o) /\ Cycle(m, o) \in Nat
  BY CyclesRecorded
<1> SUFFICES ASSUME NEW v \in bound(I), NEW s \in Sources(argument(I, v))
             PROVE  /\ v \notin Constants
                    /\ \A J \in Instructions : J.id = v /\ J.op # "phi" => s[2] = 1
                    /\ \A o \in Orders : LookupOperand(u, v)[o] + Weight(v) >= log'[s[1]].cycle[o] + s[2]
  BY DEF Covers
<1>2. PICK w : w = argument(I, v)
  OBVIOUS
<1>3. /\ w \in DOMAIN src /\ s[1] \in 1..Len(log) /\ s[2] \in {0, 1}
      /\ \A o \in Orders : Cycle(s[1], o) \in Nat /\ LookupOperand(LastUsageOperands, w)[o] + Weight(w) >= Cycle(s[1], o) + s[2]
  BY <1>1, <1>2, SourceFacts
<1>4. v \notin Constants /\ \A J \in Instructions : J.id # v
  <2>1. I.op = "call" /\ v \in Range(I.params)
    BY DEF bound, Range
  <2>2. WellFormedInstruction(setup, I)
    BY AtInstruction DEF WellFormed, Instructions
  <2> QED BY <2>1, <2>2 DEF WellFormedInstruction, Instructions
<1>5. Weight(v) = 1 /\ Weight(w) \in {0, 1}
  BY <1>4 DEF Weight, valueIsConstantLike, IsOp
<1>6. LookupOperand(u, v) = LookupOperand(LastUsageOperands, w)
  BY <1>2, <1>3 DEF Recorded
<1>7. ASSUME NEW o \in Orders
      PROVE  LookupOperand(u, v)[o] + Weight(v) >= log'[s[1]].cycle[o] + s[2]
  <2>1. PICK x, y : x = LookupOperand(LastUsageOperands, w)[o] /\ y = Cycle(s[1], o)
    OBVIOUS
  <2>2. x \in Nat /\ y \in Nat /\ x + Weight(w) >= y + s[2]
    BY <2>1, <1>3, LookupTyped
  <2>3. x + 1 >= y + s[2]
    BY <2>2, <1>3, <1>5
  <2> QED BY <2>1, <2>3, <1>1, <1>3, <1>5, <1>6
<1> QED BY <1>4, <1>7

\* So the registers of all activations respect their sources.
LEMMA SourceVisit ==
    ASSUME WalkInv, TypeInv, DepthInv, SourceInv, Traced(setup), Enabled, advance(Current), Current.op # "phi",
           NEW D, NEW c \in Cycles, NEW u, Recorded(Current, D, c, u),
           src' = IF CallsBody(setup, Current) THEN [p \in bound(Current) |-> Sources(argument(Current, p))]
                  ELSE produced(Current)
    PROVE  SourceInv'
<1>1. PICK I, h : I = Current /\ h = src
  OBVIOUS
<1>2. I \in Instructions /\ I.op # "phi" /\ Recorded(I, D, c, u) /\ setup' = setup /\ LastUsageOperands' = u
  BY <1>1, AtInstruction DEF advance, Recorded
<1>3. Typed(h, log) /\ Covers(h, LastUsageOperands, log) /\ bound(I) \cap DOMAIN h = {}
  <2>1. bound(I) \subseteq (IF I.op = "call" THEN Range(I.params) ELSE {})
    BY DEF bound, Range
  <2> QED BY <2>1, <1>1, OthersApart DEF TypeInv, Typed, Histories, SourceInv
<1>4. Covers(produced(I), u, log')
  <2>1. Covers(Put(h, I.id, {<<Len(log) + 1, 1>>}), u, log')
    BY <1>2, <1>3, CoverRecord
  <2> QED BY <2>1, <1>1 DEF produced
<1>5. ASSUME NEW i \in DOMAIN stack
      PROVE  Covers(stack[i][4], u, log')
  <2>1. PICK g : g = stack[i][4]
    OBVIOUS
  <2>2. Typed(g, log) /\ Covers(g, LastUsageOperands, log)
    BY <2>1 DEF TypeInv, Typed, Histories, SourceInv
  <2>3. I.id \notin DOMAIN g /\ bound(I) \cap DOMAIN g = {}
    <3>1. bound(I) \subseteq (IF I.op = "call" THEN Range(I.params) ELSE {})
      BY DEF bound, Range
    <3> QED BY <3>1, <2>1, <1>1, OthersApart
  <2>4. Covers(g, u, log')
    BY <2>2, <2>3, <1>2, CoverRecord
  <2> QED BY <2>1, <2>4
<1>6. CASE CallsBody(setup, I)
  <2>1. Covers(src', u, log')
    <3>1. Covers([p \in bound(I) |-> Sources(argument(I, p))], u, log')
      BY <1>2, CoverCall
    <3> QED BY <3>1, <1>1, <1>6
  <2>2. PICK g : g = <<at, came, I.id, produced(I)>>
    OBVIOUS
  <2>3. stack' = Append(stack, g) /\ g[4] = produced(I)
    BY <2>2, <1>1, <1>6 DEF advance
  <2>4. /\ DOMAIN stack = 1..Len(stack) /\ DOMAIN stack' = 1..Len(stack) + 1 /\ Len(stack) \in Nat
        /\ (\A i \in 1..Len(stack) : stack'[i] = stack[i]) /\ stack'[Len(stack) + 1] = g
    BY <2>3 DEF WalkInv
  <2>5. \A i \in DOMAIN stack' : i \in 1..Len(stack) \/ i = Len(stack) + 1
    BY <2>4
  <2>6. \A i \in DOMAIN stack' : Covers(stack'[i][4], u, log')
    BY <2>3, <2>4, <2>5, <1>4, <1>5
  <2> QED BY <2>1, <2>6, <1>2, SourceNext
<1>7. CASE ~CallsBody(setup, I)
  <2>1. stack' = stack /\ src' = produced(I)
    BY <1>1, <1>7 DEF advance
  <2> QED BY <2>1, <1>2, <1>4, <1>5, SourceNext
<1> QED BY <1>6, <1>7

\* The new instruction respects what it depends on, and the others still do.
LEMMA DependRecord ==
    ASSUME TypeInv, DependenciesRespected, NEW I, NEW D, NEW c \in Cycles, NEW u, Recorded(I, D, c, u)
    PROVE  DependenciesRespected'
<1>1. /\ Len(log) \in Nat /\ DOMAIN log = 1..Len(log)
      /\ \A m \in 1..Len(log) : \A o \in Orders : log'[m].cycle[o] = Cycle(m, o) /\ Cycle(m, o) \in Nat
      /\ \A o \in Orders : log'[Len(log) + 1].cycle[o] = c[o] /\ c[o] \in Nat
  BY CyclesRecorded
<1>2. /\ DOMAIN log' = 1..Len(log) + 1 /\ \A m \in 1..Len(log) : log'[m] = log[m]
      /\ log'[Len(log) + 1].deps = D
      /\ \A m \in DOMAIN log' : log'[m].deps \subseteq (1..m - 1) \X {0, 1}
      /\ \A d \in D : \A o \in Orders : c[o] >= Cycle(d[1], o) + d[2]
  BY DEF Recorded
<1> SUFFICES ASSUME NEW m \in DOMAIN log', NEW d \in log'[m].deps, NEW o \in Orders
             PROVE  log'[m].cycle[o] >= log'[d[1]].cycle[o] + d[2]
  BY DEF DependenciesRespected, Cycle
<1>3. d[1] \in 1..Len(log)
  <2>1. d \in (1..m - 1) \X {0, 1}
    BY <1>2
  <2>2. d[1] \in 1..m - 1
    BY <2>1
  <2> QED BY <2>2, <1>1, <1>2
<1>4. CASE m \in 1..Len(log)
  <2>1. Cycle(m, o) >= Cycle(d[1], o) + d[2]
    BY <1>1, <1>2, <1>4 DEF DependenciesRespected
  <2> QED BY <2>1, <1>1, <1>3, <1>4
<1>5. CASE m = Len(log) + 1
  <2>1. c[o] >= Cycle(d[1], o) + d[2]
    BY <1>2, <1>5
  <2> QED BY <2>1, <1>1, <1>3, <1>5
<1> QED BY <1>1, <1>2, <1>4, <1>5

--------------------------------------------------------------------------------
(* The steps: the history.                                                    *)

TraceInv == PrevInv /\ DepthInv /\ SourceInv /\ MemoryInv /\ (Traced(setup) => DependenciesRespected)

Executed(I, a, c0, r, c, u) ==
    /\ I.op # "phi" /\ c0 \in Cycles /\ c \in Cycles /\ r = getInstIssueCycle(I, a, c0)
    /\ r.cycle \in Cycles /\ Memory(r.memory, Cycles) /\ LastUsageMemory' = r.memory
    /\ LastUsageOperands' = u /\ Registers(u, Cycles) /\ LookupOperand(u, I.id) = c
    /\ \A v : v # I.id => LookupOperand(u, v) = LookupOperand(r.usage, v)
    /\ Traced(setup) /\ ~Unresolved(I) => \A o \in Orders : c[o] >= r.cycle[o]
    /\ I.op \in {"load", "store"} => c = r.cycle

\* An instruction that is executed at the cycle its operands and its address
\* allow, or later.
LEMMA TraceStep ==
    ASSUME WalkInv, TypeInv, DepthInv, SourceInv, MemoryInv, Traced(setup) => DependenciesRespected,
           Enabled, advance(Current), setup' = setup, NEW I \in Instructions, I = Current,
           NEW a, NEW c0, NEW r, NEW c, NEW u, Executed(I, a, c0, r, c, u), NEW counted \in BOOLEAN, record(I, a, c, counted)
    PROVE  DepthInv' /\ SourceInv' /\ MemoryInv' /\ (Traced(setup') => DependenciesRespected')
<1>0. /\ I.op # "phi" /\ c0 \in Cycles /\ c \in Cycles /\ r = getInstIssueCycle(I, a, c0)
      /\ r.cycle \in Cycles /\ Memory(r.memory, Cycles) /\ LastUsageMemory' = r.memory
      /\ LastUsageOperands' = u /\ Registers(u, Cycles) /\ LookupOperand(u, I.id) = c
      /\ \A v : v # I.id => LookupOperand(u, v) = LookupOperand(r.usage, v)
      /\ Traced(setup) /\ ~Unresolved(I) => \A o \in Orders : c[o] >= r.cycle[o]
      /\ I.op \in {"load", "store"} => c = r.cycle
  BY DEF Executed
<1> USE <1>0
<1>1. PICK e : e = Entry(I, a, c, counted)
  OBVIOUS
<1>2. PICK D : D = reads(I) \cup conflicts(I, a)
  OBVIOUS
<1>3. e.op = I.op /\ e.addr = a /\ e.cycle = c /\ e.deps = D /\ e.counted = counted
  BY <1>1, <1>2 DEF Entry
<1>4. /\ log' = Append(log, e)
      /\ \A m \in DOMAIN log' : log'[m].deps \subseteq (1..m - 1) \X {0, 1}
  <2>1. /\ log' = Append(log, Entry(I, a, c, counted))
        /\ \A m \in DOMAIN log' : log'[m].cycle \in Cycles /\ log'[m].deps \subseteq (1..m - 1) \X {0, 1}
    BY ONLY <1>0, TypeInv, counted \in BOOLEAN, record(I, a, c, counted), RecordTyped
  <2> QED BY <1>1, <2>1
<1>5. DOMAIN log' = 1..Len(log) + 1 /\ (\A m \in 1..Len(log) : log'[m] = log[m]) /\ log'[Len(log) + 1] = e
  <2>1. e.counted \in BOOLEAN
    BY <1>3, Zenon
  <2>2. log' = Append(log, e)
    BY <1>4
  <2> QED BY ONLY TypeInv, <2>1, <2>2, LogGrows
<1>6. MemoryInv'
  BY ONLY TypeInv, MemoryInv, <1>0, <1>3, <1>5, MemoryRecorded
<1>9. src' = IF CallsBody(setup, I) THEN [p \in bound(I) |-> Sources(argument(I, p))] ELSE produced(I)
  BY DEF record
<1>10. DepthInv'
  <2>1. CallsBody(setup, I) => DOMAIN src' \subseteq Range(I.params)
    BY <1>9 DEF bound, Range
  <2>2. ~CallsBody(setup, I) => DOMAIN src' \subseteq DOMAIN src \cup {I.id}
    BY <1>9 DEF produced, Put
  <2> QED BY <2>1, <2>2, DepthVisit
<1>7. CASE ~Traced(setup)
  BY <1>6, <1>7, <1>10 DEF SourceInv
<1>8. CASE Traced(setup)
  <2>0. I.op = "call" => Range(I.params) \cap DOMAIN src = {}
    BY <1>8, OthersApart
  <2>1. /\ \A v : v \notin bound(I) \cup {I.id} =>
              \A o \in Orders : LookupOperand(r.usage, v)[o] >= LookupOperand(LastUsageOperands, v)[o]
        /\ \A v \in bound(I) : v # I.id /\ (argument(I, v) \in DOMAIN src =>
                                            LookupOperand(r.usage, v) = LookupOperand(LastUsageOperands, argument(I, v)))
        /\ ~Unresolved(I) =>
              /\ LookupOperand(r.usage, I.id) = r.cycle
              /\ \A v \in Range(I.args) \cap DOMAIN src : v \notin Constants =>
                    \A o \in Orders : r.cycle[o] >= LookupOperand(LastUsageOperands, v)[o] + Weight(v)
    BY ONLY WalkInv, TypeInv, <1>0, <2>0, I \in Instructions, IssueTraced
  <2>2. \A v : v \notin bound(I) \cup {I.id} =>
           \A o \in Orders : LookupOperand(u, v)[o] >= LookupOperand(LastUsageOperands, v)[o]
    BY <2>1
  <2>3. \A v \in bound(I) : argument(I, v) \in DOMAIN src =>
           LookupOperand(u, v) = LookupOperand(LastUsageOperands, argument(I, v))
    BY <2>1
  <2>4. ASSUME NEW d \in D, NEW o \in Orders
        PROVE  c[o] >= Cycle(d[1], o) + d[2]
    <3>1. r.cycle[o] \in Nat /\ c[o] \in Nat
      BY DEF Cycles
    <3>2. ~Unresolved(I)
      BY <2>4, <1>2 DEF reads, conflicts, Unresolved
    <3>3. c[o] >= r.cycle[o]
      BY <1>8, <3>2
    <3>4. CASE d \in reads(I)
      <4>1. PICK v \in Range(I.args) : d \in Sources(v)
        BY <3>4 DEF reads
      <4>2. v \in DOMAIN src /\ v \notin Constants /\ d[2] \in {0, 1} /\ Cycle(d[1], o) \in Nat
            /\ LookupOperand(LastUsageOperands, v)[o] + Weight(v) >= Cycle(d[1], o) + d[2]
        BY <1>8, <4>1, SourceFacts
      <4>3. PICK x, w, y : x = LookupOperand(LastUsageOperands, v)[o] /\ w = Weight(v) /\ y = Cycle(d[1], o)
        OBVIOUS
      <4>4. x \in Nat /\ w \in {0, 1}
        BY <4>3, LookupTyped DEF Weight
      <4>5. r.cycle[o] >= x + w
        BY <2>1, <3>2, <4>1, <4>2, <4>3
      <4>6. x + w >= y + d[2] /\ y \in Nat /\ d[2] \in {0, 1}
        BY <4>2, <4>3
      <4>7. c[o] >= y + d[2]
        BY <3>1, <3>3, <4>4, <4>5, <4>6
      <4> QED BY <4>3, <4>7
    <3>5. CASE d \in conflicts(I, a)
      <4>1. r.cycle[o] >= Cycle(d[1], o) + d[2]
        BY ONLY TypeInv, MemoryInv, <1>0, <3>5, o \in Orders, ConflictsRespected
      <4>2. Cycle(d[1], o) \in Nat /\ d[2] = 1
        BY <3>5 DEF conflicts, TypeInv, Cycle, Cycles
      <4> QED BY <4>1, <4>2, <3>1, <3>3
    <3> QED BY <3>4, <3>5, <1>2
  <2>6. log'[Len(log) + 1].cycle = c /\ log'[Len(log) + 1].deps = D
    BY <1>3, <1>5
  <2>7. \A d \in D : \A o \in Orders : c[o] >= Cycle(d[1], o) + d[2]
    BY <2>4
  <2>8. Recorded(I, D, c, u)
    BY <1>4, <1>5, <2>2, <2>3, <2>6, <2>7 DEF Recorded
  <2>9. SourceInv'
    BY <1>8, <1>9, <2>8, SourceVisit
  <2>10. DependenciesRespected'
    BY <1>8, <2>8, DependRecord
  <2> QED BY <1>6, <1>10, <2>9, <2>10
<1> QED BY <1>7, <1>8

LEMMA TracePhi ==
    ASSUME CoreInv, TraceInv, visit_phi
    PROVE  TraceInv'
<1>1. WalkInv /\ TypeInv /\ PrevInv /\ DepthInv /\ SourceInv /\ MemoryInv /\ (Traced(setup) => DependenciesRespected)
  BY DEF CoreInv, TraceInv
<1>2. /\ Enabled /\ advance(Current) /\ setup' = setup /\ Current.op = "phi"
      /\ LastUsageMemory' = LastUsageMemory /\ log' = log /\ prevBB' = prevBB
  BY DEF visit_phi, advance
<1>3. ~Issues(setup, Current) /\ ~CallsBody(setup, Current) /\ \E X : src' = Put(src, Current.id, X)
  BY <1>2 DEF Issues, CallsBody, visit_phi
<1>4. PrevInv'
  BY <1>1, <1>2, <1>3, PrevVisit
<1>7. DepthInv'
  <2>1. DOMAIN src' \subseteq DOMAIN src \cup {Current.id}
    BY <1>3 DEF Put
  <2> QED BY <2>1, <1>1, <1>2, <1>3, DepthVisit
<1>5. SourceInv'
  BY <1>1, SourcePhi
<1>6. MemoryInv' /\ (Traced(setup') => DependenciesRespected')
  BY <1>1, <1>2 DEF MemoryInv, DependenciesRespected, Cycle
<1> QED BY <1>4, <1>5, <1>6, <1>7 DEF TraceInv

LEMMA TraceReturn ==
    ASSUME CoreInv, TraceInv, updateILPforCall
    PROVE  TraceInv'
<1>1. WalkInv /\ TypeInv /\ PrevInv /\ DepthInv /\ SourceInv /\ MemoryInv /\ (Traced(setup) => DependenciesRespected)
  BY DEF CoreInv, TraceInv
<1>2. setup' = setup /\ LastUsageMemory' = LastUsageMemory /\ log' = log
  BY DEF updateILPforCall
<1>3. PrevInv'
  BY <1>1, PrevReturn
<1>4. DepthInv' /\ SourceInv'
  BY <1>1, DepthReturn, SourceReturn
<1>5. MemoryInv' /\ (Traced(setup') => DependenciesRespected')
  BY <1>1, <1>2 DEF MemoryInv, DependenciesRespected, Cycle
<1> QED BY <1>3, <1>4, <1>5 DEF TraceInv

LEMMA TraceIgnored ==
    ASSUME CoreInv, TraceInv, visit_ignored
    PROVE  TraceInv'
<1>1. /\ WalkInv /\ TypeInv /\ LagInv /\ QueueInv /\ WindowRespected
      /\ PrevInv /\ DepthInv /\ SourceInv /\ MemoryInv /\ (Traced(setup) => DependenciesRespected)
  BY DEF CoreInv, CounterInv, TraceInv
<1>2. /\ Enabled /\ advance(Current) /\ setup' = setup /\ Current.op # "phi" /\ prevBB' = prevBB
      /\ setup.ctrl = "ignore" /\ Current.type = "ctrl"
  BY DEF visit_ignored, advance
<1>3. PrevInv'
  <2>1. ~Issues(setup, Current)
    BY <1>2 DEF Issues
  <2> QED BY <1>1, <1>2, <2>1, PrevVisit
<1>4. PICK I, r, c, u :
         /\ I = Current /\ r = getInstIssueCycle(I, 0, start) /\ c = LookupOperand(r.usage, I.id) /\ u = r.usage
         /\ LastUsageOperands' = r.usage /\ LastUsageMemory' = r.memory
         /\ record(I, 0, c, FALSE)
  BY DEF visit_ignored
<1>5. /\ start \in Cycles /\ r.cycle \in Cycles /\ Registers(r.usage, Cycles) /\ Memory(r.memory, Cycles)
  BY <1>1, <1>2, <1>4, IssueCycle
<1>6. I \in Instructions /\ WellFormedInstruction(setup, I) /\ I.op # "phi"
  BY <1>1, <1>2, <1>4, AtInstruction
<1>7. c \in Cycles
  <2>1. Closed(Cycles) /\ Zero \in Cycles
    BY <1>1, LagMaps DEF Closed
  <2> QED BY <2>1, <1>4, <1>5, PutRegister
<1>8. I.op \notin {"load", "store"}
  BY <1>2, <1>4, <1>6 DEF WellFormedInstruction
<1>9. Traced(setup) /\ ~Unresolved(I) => \A o \in Orders : c[o] >= r.cycle[o]
  <2> HAVE Traced(setup) /\ ~Unresolved(I)
  <2>0. I.op = "call" => Range(I.params) \cap DOMAIN src = {}
    BY <1>1, <1>2, <1>4, OthersApart
  <2>1. c = r.cycle
    BY <1>1, <1>4, <1>5, <1>6, <2>0, IssueTraced
  <2>2. \A o \in Orders : c[o] \in Nat
    BY <1>7 DEF Cycles
  <2> QED BY <2>1, <2>2
<1>10. Executed(I, 0, start, r, c, u)
  BY <1>4, <1>5, <1>6, <1>7, <1>8, <1>9 DEF Executed
<1>11. DepthInv' /\ SourceInv' /\ MemoryInv' /\ (Traced(setup') => DependenciesRespected')
  <2>1. record(I, 0, c, FALSE) /\ FALSE \in BOOLEAN
    BY <1>4
  <2> QED BY <1>1, <1>2, <1>4, <1>6, <1>10, <2>1, TraceStep
<1> QED BY <1>3, <1>11 DEF TraceInv

LEMMA TraceIssued ==
    ASSUME CoreInv, TraceInv, visit_issued
    PROVE  TraceInv'
<1>1. /\ WalkInv /\ TypeInv /\ LagInv /\ QueueInv /\ WindowRespected
      /\ PrevInv /\ DepthInv /\ SourceInv /\ MemoryInv /\ (Traced(setup) => DependenciesRespected)
  BY DEF CoreInv, CounterInv, TraceInv
<1>2. Enabled /\ advance(Current) /\ setup' = setup /\ Current.op # "phi" /\ prevBB' = at[1]
  BY IssueParts
<1>3. PrevInv'
  <2>1. Issues(setup, Current)
    BY DEF Issues, visit_issued
  <2> QED BY <1>1, <1>2, <2>1, PrevVisit
<1>4. PICK a : LET r == getInstIssueCycle(Current, a, start)
                   c == serialised(Current, InOrder(r.cycle))
               IN  /\ LastUsageOperands' = InsertOperandUsage(r.usage, Current.id, c)
                   /\ LastUsageMemory' = r.memory
                   /\ record(Current, a, c, TRUE)
  BY DEF visit_issued
<1>5. PICK I, r, c, u :
         /\ I = Current /\ r = getInstIssueCycle(I, a, start) /\ c = serialised(I, InOrder(r.cycle))
         /\ u = InsertOperandUsage(r.usage, I.id, c)
  OBVIOUS
<1>6. LastUsageOperands' = u /\ LastUsageMemory' = r.memory /\ record(I, a, c, TRUE)
  BY <1>4, <1>5
<1>7. /\ start \in Cycles /\ r.cycle \in Cycles /\ c \in Cycles
      /\ Registers(r.usage, Cycles) /\ Memory(r.memory, Cycles)
      /\ \A o \in Orders : c[o] >= r.cycle[o]
      /\ I.op \in {"load", "store"} => c = r.cycle
  BY <1>1, <1>2, <1>5, IssueCycle
<1>8. I \in Instructions /\ I.op # "phi"
  BY <1>1, <1>2, <1>5, AtInstruction
<1>9. Registers(u, Cycles)
  <2>1. Closed(Cycles)
    BY <1>1, LagMaps
  <2> QED BY <1>5, <1>7, <2>1, PutRegister
<1>10. LookupOperand(u, I.id) = c /\ \A v : v # I.id => LookupOperand(u, v) = LookupOperand(r.usage, v)
  <2>1. I.id \notin Constants
    BY <1>1, <1>8, KindOf
  <2> QED BY <1>5, <2>1, PutLookup
<1>11. Executed(I, a, start, r, c, u)
  BY <1>5, <1>6, <1>7, <1>8, <1>9, <1>10 DEF Executed
<1>12. DepthInv' /\ SourceInv' /\ MemoryInv' /\ (Traced(setup') => DependenciesRespected')
  <2>1. record(I, a, c, TRUE) /\ TRUE \in BOOLEAN
    BY <1>6
  <2> QED BY <1>1, <1>2, <1>5, <1>8, <1>11, <2>1, TraceStep
<1> QED BY <1>3, <1>12 DEF TraceInv

--------------------------------------------------------------------------------
(* The theorems.                                                              *)

\* Inv is the conjunction of the two parts.
LEMMA InvParts == Inv <=> CoreInv /\ TraceInv
BY DEF Inv, CoreInv, CounterInv, TraceInv

\* Inv holds at every step of the walk of every well-formed program, with every
\* treatment of control instructions and every window (ILP.cc: visit,
\* getInstIssueCycle, updateILPforCall).
THEOREM Invariance == Spec => []Inv
<1>1. Init => Inv
  <2> SUFFICES ASSUME Init
               PROVE  Inv
    OBVIOUS
  <2>1. CoreInv /\ DOMAIN log = {}
    BY CoreInit
  <2>2. DOMAIN src = {} /\ DOMAIN stack = {} /\ at = <<"entry", 1>> /\ came = "none"
    BY DEF Init
  <2>3. PrevInv
    BY <2>2 DEF PrevInv, Settled
  <2>4. DepthInv /\ SourceInv /\ MemoryInv /\ DependenciesRespected
    BY <2>1, <2>2 DEF DepthInv, SourceInv, Covers, MemoryInv, DependenciesRespected
  <2> QED BY <2>1, <2>3, <2>4, InvParts DEF TraceInv
<1>2. Inv /\ [Next]_vars => Inv'
  <2> SUFFICES ASSUME CoreInv, TraceInv, [Next]_vars
               PROVE  CoreInv' /\ TraceInv'
    <3>1. Inv' <=> CoreInv' /\ TraceInv'
      BY InvParts, PTL
    <3> QED BY <3>1, InvParts
  <2>1. CASE visit_phi
    BY <2>1, CorePhi, TracePhi
  <2>2. CASE visit_ignored
    BY <2>2, CoreIgnored, TraceIgnored
  <2>3. CASE visit_issued
    BY <2>3, CoreIssued, TraceIssued
  <2>4. CASE updateILPforCall
    BY <2>4, CoreReturn, TraceReturn
  <2>5. CASE UNCHANGED vars
    <3>1. /\ UNCHANGED <<setup, at, came, stack, returned, LastUsageOperands, LastUsageMemory, prevBB>>
          /\ UNCHANGED <<MinIssueCycleForCtrl, MaxIssueCycle, spans, Previous, scheduler, window_cycle, log, src, entered>>
      BY <2>5 DEF vars, walk, counters
    <3>2. WalkInv' /\ TypeInv'
      BY <3>1 DEF CoreInv, WalkInv, Place, Caller, IsOp, Instructions, TypeInv, Histories
    <3>3. Issued' = Issued
      BY <3>1 DEF Issued
    <3>4. CounterInv'
      <4>1. UNCHANGED <<setup, counters>> /\ \A n \in Issued : log'[n] = log[n]
        BY <3>1 DEF counters
      <4> QED BY <4>1, <3>3, CountersKept DEF CoreInv
    <3>5. LagInv'
      BY <3>1, <3>3 DEF CoreInv, LagInv
    <3>6. PrevInv' /\ DepthInv' /\ MemoryInv' /\ (Traced(setup') => DependenciesRespected')
      BY <3>1 DEF TraceInv, PrevInv, Block, Sources, DepthInv, Level, MemoryInv, DependenciesRespected, Cycle
    <3>7. SourceInv'
      BY <3>1, SourceNext DEF TraceInv, SourceInv
    <3> QED BY <3>2, <3>4, <3>5, <3>6, <3>7 DEF CoreInv, TraceInv
  <2> QED BY <2>1, <2>2, <2>3, <2>4, <2>5 DEF Next
<1> QED BY <1>1, <1>2, PTL DEF Spec

\* The walk stays in the program, and every map, counter and entry of the
\* history has its type: cycles are natural numbers, and an instruction depends
\* on earlier ones (the maps and counters of ILP.cc).
THEOREM TypeCorrect == Spec => [](WalkInv /\ TypeInv)
<1>1. Inv => WalkInv /\ TypeInv
  BY DEF Inv
<1> QED BY <1>1, Invariance, PTL

\* In a program without recursion, whose phis find their predecessor in prevBB
\* and take no value of a phi before them, no instruction is issued before the
\* results it reads or overtakes an access to its address (getInstIssueCycle),
\* whatever the window and the treatment of control instructions.
THEOREM Dependencies == Spec => [](Traced(setup) => DependenciesRespected)
<1>1. Inv => (Traced(setup) => DependenciesRespected)
  BY DEF Inv
<1> QED BY <1>1, Invariance, PTL

\* In-order cycles never decrease along the execution and, where control
\* instructions are not serialised, no instruction is issued earlier in order
\* than out of order (the clamps of visit and getInstIssueCycle to
\* MaxIssueCycleInOrder, and the two windows).
THEOREM InOrderBehind == Spec => []InOrderNotFaster
<1>1. Inv => InOrderNotFaster
  BY DEF Inv, MaxInv, LagInv, Later, InOrderNotFaster, Cycle
<1> QED BY <1>1, Invariance, PTL

\* When an instruction is issued, fewer than window_size earlier ones wait to
\* be issued, and the scheduler has a free entry (visit).
THEOREM WindowKept == Spec => []WindowRespected
<1>1. Inv => WindowRespected
  BY DEF Inv
<1> QED BY <1>1, Invariance, PTL

\* The in-order span of a type is the number of different cycles after the
\* first in which it was issued; the out-of-order span never exceeds that
\* number of its own cycles and is 0 only when there are none (visit's counters
\* MaxIssueCycleMemory and its fellows).
THEOREM SpansExact == Spec => []SpansCount
<1>1. Inv => SpansCount
  BY DEF Inv
<1> QED BY <1>1, Invariance, PTL

================================================================================
