---------------------------- MODULE ReplayProofs ----------------------------
(***************************************************************************)
(* Theorems about Replay, for any program that passes the IR verifier and  *)
(* any depth of calls.  Inv is inductive: TypeInv and, for the programs    *)
(* the walk can follow, PathInv and FunctionInv.                           *)
(***************************************************************************)
EXTENDS Replay, SequenceTheorems, FiniteSetTheorems, TLAPS

-----------------------------------------------------------------------------
(* Stacks.                                                                 *)

\* A stack is its top on the rest.
LEMMA StackFacts ==
    ASSUME NEW S, NEW s \in Seq(S), s # <<>>
    PROVE  /\ Len(s) \in Nat \ {0} /\ Top(s) \in S /\ Top(s) = s[Len(s)]
           /\ Pop(s) \in Seq(S) /\ Len(Pop(s)) = Len(s) - 1
           /\ \A j \in 1..Len(s) - 1 : Pop(s)[j] = s[j]
           /\ s = Append(Pop(s), Top(s))
<1>1. Len(s) \in Nat \ {0}
  OBVIOUS
<1>2. Top(s) \in S /\ Top(s) = s[Len(s)]
  BY <1>1 DEF Top
<1>3. Pop(s) \in Seq(S) /\ Len(Pop(s)) = Len(s) - 1 /\ \A j \in 1..Len(s) - 1 : Pop(s)[j] = s[j]
  <2> DEFINE n == Len(s) - 1
  <2>1. n \in Nat /\ 1 \in Int /\ n \in Int /\ \A i \in 1..n : s[i] \in S
    BY <1>1
  <2> HIDE DEF n
  <2>2. /\ SubSeq(s, 1, n) \in Seq(S)
        /\ Len(SubSeq(s, 1, n)) = IF 1 <= n THEN n - 1 + 1 ELSE 0
        /\ \A i \in 1..n - 1 + 1 : SubSeq(s, 1, n)[i] = s[1 + i - 1]
    BY <2>1, SubSeqProperties
  <2>3. Len(SubSeq(s, 1, n)) = n /\ \A i \in 1..n : SubSeq(s, 1, n)[i] = s[i]
    BY <2>1, <2>2
  <2> QED
    BY <2>2, <2>3 DEF Pop, n
<1>4. s = Append(Pop(s), Top(s))
  <2>1. Append(Pop(s), Top(s)) \in Seq(S) /\ Len(Append(Pop(s), Top(s))) = Len(s)
    BY <1>1, <1>2, <1>3
  <2>2. \A j \in 1..Len(s) : Append(Pop(s), Top(s))[j] = s[j]
    BY <1>1, <1>2, <1>3
  <2> QED
    BY <2>1, <2>2
<1> QED
  BY <1>1, <1>2, <1>3, <1>4

LEMMA AppendFacts ==
    ASSUME NEW S, NEW s \in Seq(S), NEW p \in S
    PROVE  /\ Append(s, p) \in Seq(S) /\ Append(s, p) # <<>> /\ Len(Append(s, p)) = Len(s) + 1
           /\ Top(Append(s, p)) = p /\ Pop(Append(s, p)) = s
           /\ \A j \in 1..Len(s) : Append(s, p)[j] = s[j]
<1>1. /\ Append(s, p) \in Seq(S) /\ Len(Append(s, p)) = Len(s) + 1 /\ Len(s) \in Nat
      /\ \A j \in 1..Len(s) : Append(s, p)[j] = s[j]
      /\ Append(s, p)[Len(s) + 1] = p
  OBVIOUS
<1>2. Append(s, p) # <<>>
  BY <1>1
<1>3. Top(Append(s, p)) = p
  BY <1>1 DEF Top
<1>4. Pop(Append(s, p)) = s
  BY <1>1 DEF Pop
<1> QED
  BY <1>1, <1>2, <1>3, <1>4

LEMMA SetTopFacts ==
    ASSUME NEW S, NEW s \in Seq(S), s # <<>>, NEW p \in S
    PROVE  SetTop(s, p) = Append(Pop(s), p)
<1>1. Len(s) \in Nat \ {0} /\ Pop(s) \in Seq(S) /\ Len(Pop(s)) = Len(s) - 1
      /\ \A j \in 1..Len(s) - 1 : Pop(s)[j] = s[j]
  BY StackFacts
<1>2. SetTop(s, p) \in Seq(S) /\ Len(SetTop(s, p)) = Len(s)
  BY <1>1 DEF SetTop
<1>3. \A j \in 1..Len(s) : SetTop(s, p)[j] = IF j = Len(s) THEN p ELSE s[j]
  BY <1>1 DEF SetTop
<1> QED
  BY <1>1, <1>2, <1>3

LEMMA PlaceFacts ==
    /\ \A p \in Places : /\ p[1] \in Funcs /\ p[2] \in Nat /\ p[3] \in Nat
                         /\ After(p) \in Places
                         /\ After(p)[1] = p[1] /\ After(p)[2] = p[2] /\ After(p)[3] = p[3] + 1
    /\ \A p, q \in Places : p[1] = q[1] /\ p[2] = q[2] /\ p[3] = q[3] => p = q
BY DEF Places, After

LEMMA SetTopStack ==
    ASSUME NEW c \in Seq(Places), c # <<>>, NEW p \in Places
    PROVE  /\ SetTop(c, p) \in Seq(Places) /\ SetTop(c, p) # <<>>
           /\ Len(SetTop(c, p)) = Len(c) /\ SetTop(c, p) = Append(Pop(c), p)
           /\ Top(SetTop(c, p)) = p /\ Pop(SetTop(c, p)) = Pop(c)
<1>1. Pop(c) \in Seq(Places) /\ Len(Pop(c)) = Len(c) - 1 /\ Len(c) \in Nat
  BY StackFacts
<1>2. SetTop(c, p) = Append(Pop(c), p)
  BY SetTopFacts
<1> QED
  BY <1>1, <1>2, AppendFacts

LEMMA SameStack ==
    ASSUME NEW c \in Seq(Places), NEW d \in Seq(Places), c # <<>>, d # <<>>,
           Pop(c) = Pop(d), Top(c) = Top(d)
    PROVE  c = d
<1>1. c = Append(Pop(c), Top(c)) /\ d = Append(Pop(d), Top(d))
  BY StackFacts
<1> QED
  BY <1>1

-----------------------------------------------------------------------------
(* The program.                                                            *)

SetupInv == setup \in Setups

\* The definitions over the program mean the same before and after a step.
LEMMA SameProgram ==
    ASSUME UNCHANGED setup
    PROVE  /\ \A p : /\ Instr(p)' = Instr(p) /\ AtEnd(p)' = AtEnd(p)
                     /\ OfBlock(p)' = OfBlock(p) /\ InBlock(p)' = InBlock(p)
           /\ \A p, q : Over(p, q)' = Over(p, q)
           /\ \A c : /\ CallStack(c)' = CallStack(c) /\ Op(c)' = Op(c)
                     /\ Passes(c)' = Passes(c) /\ Follow(c)' = Follow(c)
                     /\ Visited(c)' = Visited(c) /\ Inside(c)' = Inside(c)
           /\ \A c, d : /\ Reaches(c, d)' = Reaches(c, d)
                        /\ Counted(c, d)' = Counted(c, d)
                        /\ in_included(c, d)' = in_included(c, d)
           /\ Followed(setup)' = Followed(setup)
<1> USE DEF code, Decoupled, MpiMap, Include, Exclude
<1>1. \A p : /\ Instr(p)' = Instr(p) /\ AtEnd(p)' = AtEnd(p)
             /\ OfBlock(p)' = OfBlock(p) /\ InBlock(p)' = InBlock(p)
  BY DEF Instr, AtEnd, OfBlock, InBlock
<1>2. \A p, q : Over(p, q)' = Over(p, q)
  BY <1>1 DEF Over
<1>3. \A c, d : Reaches(c, d)' = Reaches(c, d)
  BY <1>2 DEF Reaches
<1>4. \A c, d : Counted(c, d)' = Counted(c, d) /\ in_included(c, d)' = in_included(c, d)
  BY DEF Counted, in_included, in_excluded
<1>5. \A c : CallStack(c)' = CallStack(c) /\ Op(c)' = Op(c)
  BY <1>1 DEF CallStack, Op
<1>6. \A c : Passes(c)' = Passes(c) /\ Follow(c)' = Follow(c)
  BY <1>5 DEF Passes, Follow
<1>7. \A c : Visited(c)' = Visited(c) /\ Inside(c)' = Inside(c)
  BY <1>4, <1>5 DEF Visited, Inside
<1>8. Followed(setup)' = Followed(setup)
  BY DEF Followed
<1> QED
  BY <1>1, <1>2, <1>3, <1>4, <1>5, <1>6, <1>7, <1>8

\* Where an instruction leads.
LEMMA CodeFacts ==
    ASSUME SetupInv, NEW p, InBlock(p)
    PROVE  /\ p \in Places
           /\ p[3] = 0 => InBlock(After(p))
           /\ p[3] > 0 =>
                /\ Instr(p).op \in Ops
                /\ Instr(p).op \notin {"br", "ret"} => InBlock(After(p))
                /\ Instr(p).op \in {"br", "ret"} => AtEnd(After(p))
                /\ Instr(p).op = "br" => \A b \in Instr(p).to : InBlock(<<p[1], b, 0>>)
                /\ Instr(p).op \in Calls => InBlock(<<Instr(p).to, 1, 0>>)
<1>1. WellFormed(code)
  BY SetupAssumption DEF SetupInv, code
<1>2. p \in Places /\ p[1] \in DOMAIN code /\ p[2] \in DOMAIN code[p[1]] /\ ~AtEnd(p)
  BY DEF InBlock, OfBlock
<1>3. Len(code[p[1]][p[2]]) \in Nat \ {0} /\ p[3] <= Len(code[p[1]][p[2]]) /\ p[3] \in Nat
  BY <1>1, <1>2, PlaceFacts DEF WellFormed, AtEnd
<1>4. \A i : i <= Len(code[p[1]][p[2]]) /\ i \in Nat => InBlock(<<p[1], p[2], i>>)
  <2> SUFFICES ASSUME NEW i \in Nat, i <= Len(code[p[1]][p[2]])
               PROVE  InBlock(<<p[1], p[2], i>>)
    OBVIOUS
  <2>1. <<p[1], p[2], i>> \in Places
    BY <1>2, PlaceFacts DEF Places
  <2> QED
    BY <1>2, <1>3, <2>1 DEF InBlock, OfBlock, AtEnd
<1>5. \A f, b : f \in DOMAIN code /\ b \in DOMAIN code[f] => InBlock(<<f, b, 0>>)
  <2> SUFFICES ASSUME NEW f, NEW b, f \in DOMAIN code, b \in DOMAIN code[f]
               PROVE  InBlock(<<f, b, 0>>)
    OBVIOUS
  <2>1. f \in Funcs /\ b \in Nat /\ Len(code[f][b]) \in Nat
    BY <1>1 DEF WellFormed
  <2> QED
    BY <2>1 DEF InBlock, OfBlock, AtEnd, Places
<1>6. CASE p[3] = 0
  BY <1>2, <1>3, <1>4, <1>6 DEF After
<1>7. CASE p[3] > 0
  <2> DEFINE ins == code[p[1]][p[2]][p[3]]
  <2>1. Instr(p) = ins
    BY DEF Instr
  <2>2. /\ ins.op \in Ops
        /\ ins.op \in {"br", "ret"} <=> p[3] = Len(code[p[1]][p[2]])
        /\ ins.op = "br" => ins.to \subseteq DOMAIN code[p[1]]
        /\ ins.op \in Calls => ins.to \in DOMAIN code
    BY <1>1, <1>2, <1>3, <1>7, SMTT(30) DEF WellFormed
  <2>3. ins.op \notin {"br", "ret"} => InBlock(After(p))
    BY <1>3, <1>4, <2>2 DEF After
  <2>4. ins.op \in {"br", "ret"} => AtEnd(After(p))
    BY <1>3, <2>2 DEF After, AtEnd
  <2>5. ins.op = "br" => \A b \in ins.to : InBlock(<<p[1], b, 0>>)
    BY <1>2, <1>5, <2>2
  <2>6. ins.op \in Calls => InBlock(<<ins.to, 1, 0>>)
    BY <1>1, <1>5, <2>2 DEF WellFormed
  <2> QED
    BY <1>2, <1>7, <2>1, <2>2, <2>3, <2>4, <2>5, <2>6
<1> QED
  BY <1>3, <1>6, <1>7

\* What a program that can be followed does not contain.
LEMMA FollowedFacts ==
    ASSUME Followed(setup), NEW p, InBlock(p), p[3] > 0
    PROVE  /\ Instr(p).op \notin {"pcall", "back", "hooked", "init"}
           /\ Decoupled => Instr(p).op # "icall" /\ (Instr(p).op = "mpi" => MpiMap)
<1>1. p[1] \in DOMAIN code /\ p[2] \in DOMAIN code[p[1]] /\ p[3] \in Nat
      /\ ~(p[3] > Len(code[p[1]][p[2]]))
  BY PlaceFacts DEF InBlock, OfBlock, AtEnd
<1>2. p[3] \in 1..Len(code[p[1]][p[2]])
  BY <1>1
<1> QED
  BY <1>1, <1>2 DEF Followed, Instr, code, Decoupled, MpiMap

\* Steps of the program keep its stack a call stack.
LEMMA StackSteps ==
    ASSUME NEW c, CallStack(c)
    PROVE  /\ c \in Seq(Places) /\ c # <<>> /\ Top(c) \in Places /\ InBlock(Top(c))
           /\ \A p : InBlock(p) => CallStack(SetTop(c, p))
           /\ Top(c)[3] > 1 => \A p : InBlock(p) => CallStack(Append(c, p))
           /\ Len(c) > 1 => CallStack(Pop(c)) /\ Top(Pop(c))[3] > 1
<1>1. c \in Seq(Places) /\ c # <<>> /\ InBlock(Top(c)) /\ Len(c) \in Nat \ {0}
  BY DEF CallStack
<1>2. \A p : InBlock(p) => p \in Places
  BY DEF InBlock, OfBlock
<1>3. ASSUME NEW p, InBlock(p) PROVE CallStack(SetTop(c, p))
  BY <1>1, <1>2, <1>3, SetTopStack DEF CallStack
<1>4. Pop(c) \in Seq(Places) /\ Len(Pop(c)) = Len(c) - 1
      /\ \A j \in 1..Len(Pop(c)) : Pop(c)[j] = c[j] /\ InBlock(c[j]) /\ c[j][3] > 1
  BY <1>1, StackFacts DEF CallStack
<1>5. ASSUME NEW p, InBlock(p), Top(c)[3] > 1 PROVE CallStack(Append(c, p))
  <2>1. /\ Append(c, p) \in Seq(Places) /\ Append(c, p) # <<>>
        /\ Top(Append(c, p)) = p /\ Pop(Append(c, p)) = c
    BY <1>1, <1>2, <1>5, AppendFacts
  <2>2. Top(c) = c[Len(c)]
    BY DEF Top
  <2>3. \A j \in 1..Len(c) : InBlock(c[j]) /\ c[j][3] > 1
    BY <1>1, <1>4, <1>5, <2>2
  <2> QED
    BY <1>5, <2>1, <2>3 DEF CallStack
<1>6. ASSUME Len(c) > 1 PROVE CallStack(Pop(c)) /\ Top(Pop(c))[3] > 1
  <2>1. Pop(c) # <<>> /\ Len(Pop(c)) \in 1..Len(Pop(c))
    BY <1>1, <1>4, <1>6
  <2>2. Top(Pop(c)) = c[Len(Pop(c))]
    BY <1>4, <2>1 DEF Top
  <2>3. /\ Len(Pop(Pop(c))) = Len(Pop(c)) - 1
        /\ \A j \in 1..Len(Pop(c)) - 1 : Pop(Pop(c))[j] = Pop(c)[j]
    BY <1>4, <2>1, StackFacts
  <2>4. \A j \in 1..Len(Pop(Pop(c))) : InBlock(Pop(Pop(c))[j]) /\ Pop(Pop(c))[j][3] > 1
    BY <1>1, <1>4, <2>3
  <2>5. InBlock(Top(Pop(c))) /\ Top(Pop(c))[3] > 1
    BY <1>4, <2>1, <2>2
  <2> QED
    BY <1>4, <2>1, <2>4, <2>5 DEF CallStack
<1> QED
  BY <1>1, <1>2, <1>3, <1>5, <1>6

LEMMA CountedType == \A f, t : Counted(f, t) \in BOOLEAN
BY DEF Counted

Visits == [stack : Seq(Places), counted : BOOLEAN]

LEMMA ExecutedType ==
    ASSUME NEW p, ahead \in Seq(Visits), Executed(p)
    PROVE  ahead' \in Seq(Visits)
<1>1. ahead # <<>> => Tail(ahead) \in Seq(Visits)
  OBVIOUS
<1> QED
  BY <1>1 DEF Executed

LEMMA AnalyseType ==
    ASSUME NEW p \in Places, saved \in Seq(Places), ahead \in Seq(Visits), Analyse(p)
    PROVE  ahead' \in Seq(Visits)
<1> DEFINE v == [stack |-> Append(saved, p), counted |-> Counted(p[1], saved)]
<1>1. v \in Visits
  BY CountedType, AppendFacts DEF Visits
<1>2. ahead' = ahead \/ ahead' = Append(ahead, v)
  BY DEF Analyse
<1> HIDE DEF v
<1> QED
  BY <1>1, <1>2

-----------------------------------------------------------------------------
(* TypeInv is inductive.                                                   *)

LEMMA InitType == Init => SetupInv /\ TypeInv
<1> SUFFICES ASSUME Init PROVE SetupInv /\ TypeInv
  OBVIOUS
<1>1. SetupInv /\ WellFormed(code)
  BY SetupAssumption DEF Init, SetupInv, code
<1> DEFINE p == <<MainF, 1, 0>>
<1>2. MainF \in DOMAIN code /\ 1 \in DOMAIN code[MainF] /\ Len(code[MainF][1]) \in Nat
  BY <1>1 DEF WellFormed
<1>3. p \in Places /\ OfBlock(p) /\ InBlock(p)
  BY <1>2, MainAssumption DEF Places, OfBlock, InBlock, AtEnd
<1> HIDE DEF p
<1>4. <<p>> \in Seq(Places) /\ <<p>> # <<>> /\ <<p>> = Append(<<>>, p) /\ <<>> \in Seq(Places)
  BY <1>3
<1>5. Top(<<p>>) = p /\ Pop(<<p>>) = <<>> /\ Len(<<p>>) = 1
  BY <1>3, <1>4, AppendFacts
<1>6. CallStack(<<p>>)
  BY <1>3, <1>4, <1>5 DEF CallStack
<1>7. stack = <<p>> /\ cursor = p /\ mode = "run" /\ hook = NoHook /\ last = "none"
      /\ saved = <<>> /\ inFunction = 0 /\ ahead = <<>>
  BY DEF Init, p
<1> QED
  BY <1>1, <1>3, <1>5, <1>6, <1>7, DepthAssumption DEF TypeInv, NoHook

LEMMA NativeType ==
    ASSUME SetupInv, TypeInv, UNCHANGED setup, Native
    PROVE  TypeInv'
<1> DEFINE p == Top(stack)
<1>1. /\ stack \in Seq(Places) /\ stack # <<>> /\ p \in Places /\ InBlock(p)
      /\ CallStack(stack) /\ Len(stack) \in Nat \ {0}
  BY StackSteps DEF TypeInv
<1>2. p[3] \in Nat /\ After(p) \in Places /\ After(p)[3] = p[3] + 1
  BY <1>1, PlaceFacts
<1>3. ahead \in Seq(Visits)
  BY DEF TypeInv, Visits
<1>4. ASSUME NEW q, InBlock(q), stack' = SetTop(stack, q)
      PROVE  CallStack(stack') /\ Len(stack') <= MaxDepth
  <2>1. q \in Places
    BY <1>4 DEF InBlock, OfBlock
  <2> QED
    BY <1>1, <1>4, <2>1, StackSteps, SetTopStack DEF TypeInv
<1>5. ASSUME CallStack(stack'), Len(stack') <= MaxDepth, UNCHANGED walkVars, ahead' \in Seq(Visits),
             mode' \in {"run", "hook", "done"}, hook'.kind \in {"none", "bb", "mem", "mpi"},
             mode' = "hook" => hook'.kind # "none" /\ InBlock(hook'.at) /\ hook'.at[3] > 0
      PROVE  TypeInv'
  BY <1>5, SameProgram DEF TypeInv, walkVars, Visits
<1> HIDE DEF p
<1>6. CASE enter_block(p)
  <2>0. p[3] = 0
    BY <1>6 DEF enter_block
  <2>1. InBlock(After(p)) /\ After(p)[3] > 0
    <3>1. InBlock(After(p))
      BY <1>1, <2>0, CodeFacts
    <3> QED
      BY <1>2, <3>1
  <2>2. CallStack(stack') /\ Len(stack') <= MaxDepth
    BY <1>4, <1>6, <2>1 DEF enter_block
  <2> QED
    BY <1>3, <1>5, <1>6, <2>1, <2>2 DEF enter_block
<1>7. CASE exec_hooked(p)
  <2>1. InBlock(After(p)) /\ p[3] > 0
    BY <1>1, <1>7, CodeFacts DEF exec_hooked, Hooked
  <2>2. CallStack(stack') /\ Len(stack') <= MaxDepth /\ ahead' \in Seq(Visits)
    BY <1>3, <1>4, <1>7, <2>1, ExecutedType DEF exec_hooked
  <2>3. mode = "run" /\ hook.kind \in {"none", "bb", "mem", "mpi"}
    BY <1>7 DEF exec_hooked, Run, TypeInv
  <2>4. CASE ~HasHook(p)
    BY <1>5, <1>7, <2>2, <2>3, <2>4 DEF exec_hooked
  <2>5. CASE HasHook(p)
    <3> DEFINE q == <<p[1], p[2], HookIndex(p)>>
    <3>1. HookIndex(p) \in 1..p[3]
      BY <1>2, <2>1 DEF HookIndex, InitBefore
    <3>2. q \in Places /\ InBlock(q) /\ q[3] > 0
      <4>1. q \in Places
        BY <1>1, <3>1, PlaceFacts DEF Places
      <4>2. Len(code[p[1]][p[2]]) \in Nat /\ p[3] <= Len(code[p[1]][p[2]])
        BY <1>1, <1>2, SetupAssumption DEF InBlock, OfBlock, AtEnd, SetupInv, WellFormed, code
      <4> QED
        BY <1>1, <1>2, <3>1, <4>1, <4>2 DEF InBlock, OfBlock, AtEnd
    <3>3. mode' = "hook" /\ hook'.kind \in {"mem", "mpi"} /\ hook'.at = q
      BY <1>7, <2>5 DEF exec_hooked
    <3> QED
      BY <1>5, <1>7, <2>2, <3>2, <3>3 DEF exec_hooked
  <2> QED
    BY <2>4, <2>5
<1>8. CASE exec_plain(p)
  <2>1. InBlock(After(p))
    BY <1>1, <1>8, CodeFacts DEF exec_plain
  <2>2. CallStack(stack') /\ Len(stack') <= MaxDepth /\ ahead' \in Seq(Visits)
    BY <1>3, <1>4, <1>8, <2>1, ExecutedType DEF exec_plain
  <2> QED
    BY <1>5, <1>8, <2>2 DEF exec_plain, Run, TypeInv
<1>9. CASE exec_call(p)
  <2> DEFINE q == <<Instr(p).to, 1, 0>>
             c == SetTop(stack, After(p))
  <2>1. InBlock(After(p)) /\ InBlock(q) /\ After(p)[3] > 1
    BY <1>1, <1>2, <1>9, CodeFacts DEF exec_call, Calls
  <2>2. stack' = Append(c, q) /\ ahead' \in Seq(Visits)
    BY <1>3, <1>9, ExecutedType DEF exec_call
  <2>3. CallStack(c) /\ Top(c) = After(p) /\ Len(c) = Len(stack) /\ c \in Seq(Places)
    BY <1>1, <1>2, <2>1, StackSteps, SetTopStack
  <2> HIDE DEF c, q
  <2>4. CallStack(stack')
    BY <2>1, <2>2, <2>3, StackSteps
  <2>5. q \in Places
    BY <2>1 DEF InBlock, OfBlock
  <2>6. Len(stack') <= MaxDepth
    BY <1>1, <1>9, <2>2, <2>3, <2>5, AppendFacts, DepthAssumption DEF exec_call
  <2> QED
    BY <1>5, <1>9, <2>2, <2>4, <2>6 DEF exec_call, Run, TypeInv
<1>10. CASE exec_br(p)
  <2>1. PICK b \in Instr(p).to : stack' = SetTop(stack, <<p[1], b, 0>>)
    BY <1>10 DEF exec_br
  <2>2. InBlock(<<p[1], b, 0>>)
    BY <1>1, <1>10, CodeFacts DEF exec_br
  <2>3. CallStack(stack') /\ Len(stack') <= MaxDepth /\ ahead' \in Seq(Visits)
    BY <1>3, <1>4, <1>10, <2>1, <2>2, ExecutedType DEF exec_br
  <2> QED
    BY <1>5, <1>10, <2>3 DEF exec_br, Run, TypeInv
<1>11. CASE exec_ret(p)
  <2>1. ahead' \in Seq(Visits)
    BY <1>3, <1>11, ExecutedType DEF exec_ret
  <2>2. CASE Len(stack) = 1
    BY <1>1, <1>5, <1>11, <2>1, <2>2 DEF exec_ret, Run, TypeInv
  <2>3. CASE Len(stack) # 1
    <3>1. stack' = Pop(stack)
      BY <1>11, <2>3 DEF exec_ret
    <3>2. Len(stack) > 1
      <4>1. Len(stack) \in Nat \ {0}
        BY <1>1
      <4>2. \A n \in Nat \ {0} : n # 1 => n > 1
        OBVIOUS
      <4> QED
        BY <2>3, <4>1, <4>2, Zenon
    <3>3. CallStack(stack') /\ Len(stack') = Len(stack) - 1
      BY <1>1, <3>1, <3>2, StackSteps, StackFacts
    <3> QED
      BY <1>1, <1>5, <1>11, <2>1, <2>3, <3>3, DepthAssumption DEF exec_ret, Run, TypeInv
  <2> QED
    BY <2>2, <2>3
<1> QED
  BY <1>6, <1>7, <1>8, <1>9, <1>10, <1>11 DEF Native, p

LEMMA AnalysisType ==
    ASSUME SetupInv, TypeInv, UNCHANGED setup, Analysis
    PROVE  TypeInv'
<1>1. /\ cursor \in Places /\ OfBlock(cursor) /\ saved \in Seq(Places) /\ ahead \in Seq(Visits)
      /\ last \in Ops \cup {"none"} /\ inFunction \in Nat
      /\ \A j \in 1..Len(saved) : OfBlock(saved[j]) /\ saved[j][3] > 0
  BY DEF TypeInv, OfBlock, Visits
<1>2. \A p \in Places : OfBlock(p) => OfBlock(After(p)) /\ After(p)[3] > 0
  BY PlaceFacts DEF OfBlock
<1>3. mode = "iter" /\ ~AtEnd(cursor) => InBlock(cursor) /\ cursor[3] > 0 /\ Instr(cursor).op \in Ops
  <2>1. mode = "iter" /\ ~AtEnd(cursor) => InBlock(cursor) /\ cursor[3] > 0
    BY DEF TypeInv, InBlock
  <2> QED
    BY <2>1, CodeFacts
<1>4. mode = "hook" => hook.kind # "none" /\ hook.at \in Places /\ InBlock(hook.at) /\ hook.at[3] > 0
  BY DEF TypeInv, InBlock, OfBlock
<1>5. ASSUME UNCHANGED stack, mode' \in {"run", "iter"}, hook' = hook \/ hook' = NoHook,
             OfBlock(cursor'), cursor'[3] > 0 \/ mode' = "run", last' \in Ops \cup {"none"},
             saved' \in Seq(Places), \A j \in 1..Len(saved') : OfBlock(saved'[j]) /\ saved'[j][3] > 0,
             inFunction' \in Nat, ahead' \in Seq(Visits)
      PROVE  TypeInv'
  <2>1. hook'.kind \in {"none", "bb", "mem", "mpi"}
    BY <1>5 DEF TypeInv, NoHook
  <2> QED
    BY <1>5, <2>1, SameProgram DEF TypeInv, Visits
<1>6. CASE basicblock_notification
  <2>1. inFunction' \in Nat
    BY <1>1, <1>6 DEF basicblock_notification, in_function_at_block
  <2> QED
    BY <1>1, <1>4, <1>5, <1>6, <2>1 DEF basicblock_notification, InBlock
<1>7. ASSUME mode = "hook", Resume(hook.at), ahead' \in Seq(Visits)
      PROVE  TypeInv'
  <2>1. OfBlock(After(hook.at)) /\ After(hook.at)[3] > 0
    BY <1>2, <1>4, <1>7 DEF InBlock
  <2> QED
    BY <1>1, <1>5, <1>7, <2>1 DEF Resume, resume_at
<1>8. CASE mem_addr_notification
  <2>1. ahead' \in Seq(Visits)
    BY <1>1, <1>4, <1>8, AnalyseType DEF mem_addr_notification
  <2> QED
    BY <1>7, <1>8, <2>1 DEF mem_addr_notification
<1>9. CASE mpi_call_notification
  BY <1>1, <1>7, <1>9 DEF mpi_call_notification
<1>10. CASE iter_intrinsic
  BY <1>1, <1>2, <1>5, <1>10 DEF iter_intrinsic, next_inst
<1>11. CASE iter_load_store
  BY <1>1, <1>5, <1>11 DEF iter_load_store, walkVars
<1>12. CASE iter_call
  <2>1. ahead' \in Seq(Visits)
    BY <1>1, <1>12, AnalyseType DEF iter_call
  <2>2. inFunction' \in Nat
    BY <1>1, <1>12 DEF iter_call, in_function_called
  <2>3. last' \in Ops \cup {"none"}
    BY <1>3, <1>12 DEF iter_call
  <2> DEFINE q == After(cursor)
  <2>4. q \in Places /\ OfBlock(q) /\ q[3] > 0
    BY <1>1, <1>2, PlaceFacts
  <2>5. saved' = Append(saved, q)
    BY <1>12 DEF iter_call
  <2> HIDE DEF q
  <2>6. saved' \in Seq(Places) /\ \A j \in 1..Len(saved') : OfBlock(saved'[j]) /\ saved'[j][3] > 0
    <3>1. Len(saved) \in Nat /\ Len(saved') = Len(saved) + 1 /\ saved'[Len(saved) + 1] = q
      BY <1>1, <2>4, <2>5
    <3>2. saved' \in Seq(Places) /\ \A j \in 1..Len(saved) : saved'[j] = saved[j]
      BY <1>1, <2>4, <2>5
    <3> QED
      BY <1>1, <2>4, <3>1, <3>2
  <2> QED
    BY <1>1, <1>5, <1>12, <2>1, <2>2, <2>3, <2>6 DEF iter_call
<1>13. CASE iter_other
  <2>1. ahead' \in Seq(Visits)
    BY <1>1, <1>13, AnalyseType DEF iter_other
  <2>2. last' \in Ops \cup {"none"}
    BY <1>3, <1>13 DEF iter_other
  <2>3. mode' \in {"run", "iter"} /\ cursor' = After(cursor) /\ UNCHANGED <<stack, hook, saved, inFunction>>
    BY <1>13 DEF iter_other
  <2> QED
    BY <1>1, <1>2, <1>5, <2>1, <2>2, <2>3
<1>14. CASE iter_return
  <2>1. saved # <<>> /\ cursor' = Top(saved) /\ saved' = Pop(saved)
    BY <1>14 DEF iter_return, saved_popped
  <2>2. OfBlock(cursor') /\ cursor'[3] > 0
    BY <1>1, <2>1, StackFacts DEF Top
  <2>3. saved' \in Seq(Places) /\ \A j \in 1..Len(saved') : OfBlock(saved'[j]) /\ saved'[j][3] > 0
    <3>1. saved' \in Seq(Places) /\ Len(saved') = Len(saved) - 1 /\ Len(saved) \in Nat
      BY <1>1, <2>1, StackFacts
    <3>2. \A j \in 1..Len(saved) - 1 : saved'[j] = saved[j]
      BY <1>1, <2>1, StackFacts
    <3>3. ASSUME NEW j \in 1..Len(saved')
          PROVE  OfBlock(saved'[j]) /\ saved'[j][3] > 0
      <4>1. j \in 1..Len(saved) - 1 /\ j \in 1..Len(saved)
        BY <3>1
      <4>2. saved'[j] = saved[j]
        BY <3>2, <4>1
      <4>3. OfBlock(saved[j]) /\ saved[j][3] > 0
        BY <1>1, <4>1
      <4> QED BY <4>2, <4>3
    <3> QED BY <3>1, <3>3
  <2>4. inFunction' \in Nat
    BY <1>1, <1>14 DEF iter_return, in_function_returned
  <2> QED
    BY <1>1, <1>5, <1>14, <2>2, <2>3, <2>4 DEF iter_return
<1>15. CASE iter_block_end
  BY <1>1, <1>5, <1>15 DEF iter_block_end, walkVars
<1> QED
  BY <1>6, <1>8, <1>9, <1>10, <1>11, <1>12, <1>13, <1>14, <1>15 DEF Analysis

LEMMA TypeStep ==
    ASSUME SetupInv, TypeInv, [Next]_vars
    PROVE  SetupInv' /\ TypeInv'
<1>1. UNCHANGED setup
  BY DEF Next, vars
<1>2. SetupInv'
  BY <1>1 DEF SetupInv
<1>3. CASE UNCHANGED vars
  <2>1. /\ \A p : OfBlock(p)' = OfBlock(p) /\ InBlock(p)' = InBlock(p)
        /\ \A c : CallStack(c)' = CallStack(c)
    BY <1>1, SameProgram
  <2>2. UNCHANGED <<stack, mode, hook, cursor, last, saved, inFunction, ahead>>
    BY <1>3 DEF vars
  <2> QED
    BY <1>2, <2>1, <2>2 DEF TypeInv
<1> QED
  BY <1>1, <1>2, <1>3, NativeType, AnalysisType DEF Next

-----------------------------------------------------------------------------
(* Paths.                                                                  *)

LEMMA OverFacts ==
    ASSUME SetupInv, NEW p \in Places, NEW q \in Places
    PROVE  /\ InBlock(p) /\ p[3] > 0 => Over(p, p)
           /\ Over(p, q) /\ Instr(p).op # "llvm" => p = q
           /\ Over(p, q) /\ Instr(q).op = "llvm" => Over(p, After(q))
           /\ Over(p, q) /\ Instr(p).op = "llvm" /\ Instr(q).op # "llvm" => Over(After(p), q)
<1>1. p[3] \in Nat /\ q[3] \in Nat
  BY PlaceFacts
<1>2. \A r \in Places : Instr(r) = Instr(<<r[1], r[2], r[3]>>)
  BY DEF Instr
<1>3. InBlock(p) /\ p[3] > 0 => Over(p, p)
  BY <1>1 DEF Over
<1>4. ASSUME Over(p, q), Instr(p).op # "llvm" PROVE p = q
  <2>1. p[3] = q[3]
    <3>1. p[3] <= q[3] /\ (p[3] # q[3] => p[3] \in p[3]..q[3] - 1)
      BY <1>1, <1>4 DEF Over
    <3>2. \A i \in p[3]..q[3] - 1 : Instr(<<p[1], p[2], i>>).op = "llvm"
      BY <1>4 DEF Over
    <3> QED
      BY <1>2, <1>4, <3>1, <3>2
  <2> QED
    BY <1>4, <2>1, PlaceFacts DEF Over
<1>5. ASSUME Over(p, q), Instr(q).op = "llvm" PROVE Over(p, After(q))
  <2>1. InBlock(q) /\ p[1] = q[1] /\ p[2] = q[2] /\ p[3] > 0 /\ p[3] <= q[3] /\ q[3] > 0
    BY <1>1, <1>5 DEF Over
  <2>2. InBlock(After(q))
    BY <1>5, <2>1, CodeFacts
  <2>3. \A i \in p[3]..q[3] : Instr(<<p[1], p[2], i>>).op = "llvm"
    BY <1>1, <1>2, <1>5, <2>1 DEF Over
  <2>4. After(q)[1] = q[1] /\ After(q)[2] = q[2] /\ After(q)[3] = q[3] + 1
    BY PlaceFacts
  <2> QED
    BY <1>1, <2>1, <2>2, <2>3, <2>4 DEF Over
<1>6. ASSUME Over(p, q), Instr(p).op = "llvm", Instr(q).op # "llvm" PROVE Over(After(p), q)
  <2>1. p[3] # q[3]
    <3>1. p[3] = q[3] => p = q
      BY <1>6, PlaceFacts DEF Over
    <3> QED
      BY <1>6, <3>1
  <2>2. After(p)[1] = p[1] /\ After(p)[2] = p[2] /\ After(p)[3] = p[3] + 1
    BY PlaceFacts
  <2> QED
    BY <1>1, <1>6, <2>1, <2>2 DEF Over
<1> QED
  BY <1>3, <1>4, <1>5, <1>6

LEMMA ReachFacts ==
    ASSUME SetupInv, NEW c, CallStack(c), NEW d \in Seq(Places), d # <<>>
    PROVE  /\ Top(c)[3] > 0 => Reaches(c, c)
           /\ Reaches(c, d) => CallStack(d) /\ Top(c)[3] > 0 /\ Top(d)[3] > 0
           /\ Reaches(c, d) /\ Op(c) # "llvm" => c = d
           /\ Reaches(c, d) /\ Op(c) = "llvm" /\ Op(d) # "llvm" =>
                 Reaches(SetTop(c, After(Top(c))), d)
<1>1. c \in Seq(Places) /\ c # <<>> /\ Top(c) \in Places /\ InBlock(Top(c)) /\ Top(d) \in Places
  BY StackSteps, StackFacts
<1>2. Top(c)[3] > 0 => Reaches(c, c)
  BY <1>1, OverFacts DEF Reaches
<1>3. ASSUME Reaches(c, d) PROVE CallStack(d) /\ Top(c)[3] > 0 /\ Top(d)[3] > 0
  <2>1. Pop(d) = Pop(c) /\ InBlock(Top(d)) /\ Top(c)[3] > 0 /\ Top(c)[3] <= Top(d)[3]
    BY <1>3 DEF Reaches, Over
  <2>2. Top(c)[3] \in Nat /\ Top(d)[3] \in Nat
    BY <1>1, PlaceFacts
  <2> QED
    BY <2>1, <2>2 DEF CallStack
<1>4. Reaches(c, d) /\ Op(c) # "llvm" => c = d
  BY <1>1, OverFacts, SameStack DEF Reaches, Op
<1>5. ASSUME Reaches(c, d), Op(c) = "llvm", Op(d) # "llvm"
      PROVE  Reaches(SetTop(c, After(Top(c))), d)
  <2>1. After(Top(c)) \in Places
    BY <1>1, PlaceFacts
  <2>2. Over(After(Top(c)), Top(d))
    BY <1>1, <1>5, OverFacts DEF Reaches, Op
  <2> QED
    BY <1>1, <1>5, <2>1, <2>2, SetTopStack DEF Reaches
<1> QED
  BY <1>2, <1>3, <1>4, <1>5

LEMMA FollowFacts ==
    ASSUME SetupInv, NEW c, CallStack(c), Top(c)[3] > 0, Passes(c)
    PROVE  CallStack(Follow(c)) /\ Top(Follow(c))[3] > 0
<1>1. c \in Seq(Places) /\ c # <<>> /\ Top(c) \in Places /\ InBlock(Top(c))
  BY StackSteps
<1>2. CASE Op(c) = "ret"
  <2>1. CallStack(Pop(c)) /\ Top(Pop(c))[3] > 1
    BY <1>2, StackSteps DEF Passes
  <2>2. Top(Pop(c)) \in Places
    BY <2>1, StackSteps
  <2>3. Top(Pop(c))[3] \in Nat
    BY <2>2, PlaceFacts
  <2> QED
    BY <1>2, <2>1, <2>3 DEF Follow
<1>3. CASE Op(c) # "ret"
  <2>1. InBlock(After(Top(c)))
    BY <1>1, <1>3, CodeFacts DEF Passes, Op
  <2>2. After(Top(c)) \in Places /\ After(Top(c))[3] > 0
    BY <1>1, PlaceFacts
  <2> QED
    BY <1>1, <1>3, <2>1, <2>2, StackSteps, SetTopStack DEF Follow
<1> QED
  BY <1>2, <1>3

\* The filters look at the function of the place and at the calls below it.
LEMMA CountedFacts ==
    ASSUME NEW c \in Seq(Places), c # <<>>, NEW f, f = Top(c)[1]
    PROVE  /\ {f} \cup Functions(c) = {f} \cup Functions(Pop(c))
           /\ Counted(f, c) = Counted(f, Pop(c)) /\ in_included(f, c) = in_included(f, Pop(c))
<1>1. {f} \cup Functions(c) = {f} \cup Functions(Pop(c))
  <2>1. Len(c) \in Nat /\ Len(c) >= 1 /\ Len(Pop(c)) = Len(c) - 1 /\ f = c[Len(c)][1]
    BY StackFacts DEF Top
  <2>2. \A j \in 1..Len(c) - 1 : Pop(c)[j] = c[j]
    BY StackFacts
  <2>3. \A j \in 1..Len(c) : c[j][1] \in {f} \cup Functions(Pop(c))
    BY <2>1, <2>2 DEF Functions
  <2>4. \A j \in 1..Len(Pop(c)) : Pop(c)[j][1] \in Functions(c)
    BY <2>1, <2>2 DEF Functions
  <2> QED
    BY <2>3, <2>4 DEF Functions
<1> QED
  BY <1>1 DEF Counted, in_included, in_excluded

-----------------------------------------------------------------------------
(* PathInv is inductive.                                                   *)

Context == SetupInv /\ TypeInv /\ Followed(setup) /\ UNCHANGED setup
Path == /\ AheadInv /\ IterInv /\ RunInv /\ HookInv /\ DueInv
        /\ mode = "done" => ahead = <<>>

LEMMA ContextFacts ==
    ASSUME Context
    PROVE  /\ CallStack(stack) /\ stack \in Seq(Places) /\ stack # <<>>
           /\ Top(stack) \in Places /\ InBlock(Top(stack)) /\ Top(stack)[3] \in Nat
           /\ saved \in Seq(Places) /\ cursor \in Places /\ cursor[3] \in Nat
           /\ Walk \in Seq(Places) /\ Walk # <<>> /\ Top(Walk) = cursor /\ Pop(Walk) = saved
           /\ ahead \in Seq(Visits)
<1>1. CallStack(stack) /\ saved \in Seq(Places) /\ cursor \in Places /\ ahead \in Seq(Visits)
  BY DEF Context, TypeInv, OfBlock, Visits
<1>2. Walk \in Seq(Places) /\ Walk # <<>> /\ Top(Walk) = cursor /\ Pop(Walk) = saved
  BY <1>1, AppendFacts DEF Walk
<1> QED
  BY <1>1, <1>2, StackSteps, PlaceFacts

\* The stack of every visit, the first and the newest.
LEMMA NewestFacts ==
    ASSUME Context, AheadInv, ahead # <<>>
    PROVE  /\ Len(ahead) \in Nat /\ Len(ahead) >= 1
           /\ Visited(ahead[1]) /\ Reaches(stack, ahead[1].stack)
           /\ Newest = ahead[Len(ahead)].stack /\ Visited(ahead[Len(ahead)])
           /\ CallStack(Newest) /\ Top(Newest)[3] > 0
<1>1. Len(ahead) \in Nat /\ Len(ahead) >= 1
  BY ContextFacts
<1>2. Newest = ahead[Len(ahead)].stack
  BY DEF Newest, Top
<1>3. Visited(ahead[1]) /\ Visited(ahead[Len(ahead)]) /\ Reaches(stack, ahead[1].stack)
  BY <1>1 DEF AheadInv
<1> QED
  BY <1>1, <1>2, <1>3 DEF Visited

\* The program executes what was visited first.
LEMMA AheadTail ==
    ASSUME Context, AheadInv, ahead # <<>>, ahead' = Tail(ahead),
           Len(ahead) > 1 => stack' = Follow(ahead[1].stack)
    PROVE  /\ AheadInv'
           /\ Len(ahead) > 1 => ahead' # <<>> /\ Newest' = Newest
           /\ Len(ahead) = 1 => ahead' = <<>> /\ Newest = ahead[1].stack
<1>1. Len(ahead) \in Nat /\ Len(ahead) >= 1 /\ Newest = ahead[Len(ahead)].stack /\ ahead \in Seq(Visits)
  BY NewestFacts, ContextFacts
<1>2. /\ ahead' \in Seq(Visits) /\ Len(ahead') = Len(ahead) - 1
      /\ \A k \in 1..Len(ahead') : ahead'[k] = ahead[k + 1]
  BY <1>1
<1>3. Len(ahead) = 1 => ahead' = <<>> /\ Newest = ahead[1].stack
  BY <1>1, <1>2
<1>4. ASSUME Len(ahead) > 1 PROVE ahead' # <<>> /\ Newest' = Newest
  <2>1. ahead' # <<>> /\ Len(ahead') \in 1..Len(ahead')
    BY <1>1, <1>2, <1>4, SMTT(30)
  <2>2. Newest' = ahead'[Len(ahead')].stack
    BY DEF Newest, Top
  <2> QED
    BY <1>1, <1>2, <2>1, <2>2
<1>5. \A k \in 1..Len(ahead') : Visited(ahead'[k])
  BY <1>1, <1>2 DEF AheadInv
<1>6. ahead' # <<>> => Reaches(stack', ahead'[1].stack)
  <2> SUFFICES ASSUME ahead' # <<>> PROVE Reaches(stack', ahead'[1].stack)
    OBVIOUS
  <2>1. Len(ahead) > 1
    BY <1>1, <1>2
  <2>2. ahead'[1] = ahead[2] /\ Reaches(Follow(ahead[1].stack), ahead[2].stack)
    BY <1>1, <1>2, <2>1 DEF AheadInv
  <2> QED
    BY <2>1, <2>2
<1>7. \A k \in 1..Len(ahead') - 1 :
         Passes(ahead'[k].stack) /\ Reaches(Follow(ahead'[k].stack), ahead'[k + 1].stack)
  <2> TAKE k \in 1..Len(ahead') - 1
  <2>1. k + 1 \in 1..Len(ahead) - 1 /\ ahead'[k] = ahead[k + 1] /\ ahead'[k + 1] = ahead[k + 2]
    BY <1>1, <1>2
  <2>2. k + 1 + 1 = k + 2
    OBVIOUS
  <2> QED
    BY <2>1, <2>2 DEF AheadInv
<1>8. AheadInv'
  BY <1>5, <1>6, <1>7, SameProgram DEF AheadInv, Context
<1> QED
  BY <1>3, <1>4, <1>8

\* An instruction the walk does not pass is the last one visited.
LEMMA VisitedLast ==
    ASSUME Context, AheadInv, ahead # <<>>
    PROVE  /\ Len(ahead) > 1 \/ Len(ahead) = 1
           /\ (~Passes(ahead[1].stack) => Len(ahead) = 1)
<1>1. Len(ahead) \in Nat /\ Len(ahead) >= 1
  BY NewestFacts
<1>2. Len(ahead) > 1 \/ Len(ahead) = 1
  <2>1. \A n \in Nat : n >= 1 => n > 1 \/ n = 1
    OBVIOUS
  <2> QED
    BY <1>1, <2>1, Zenon
<1>3. Len(ahead) > 1 => 1 \in 1..Len(ahead) - 1
  BY <1>1
<1>4. Len(ahead) > 1 => Passes(ahead[1].stack)
  BY <1>3 DEF AheadInv
<1> QED
  BY <1>2, <1>4

\* The walk visits the instruction it has got to.
LEMMA AheadAppend ==
    ASSUME Context, AheadInv, AtWalk, Instr(cursor).op \notin {"llvm", "mem"},
           due = <<>>, Analyse(cursor), UNCHANGED stack
    PROVE  AheadInv' /\ ahead' # <<>> /\ Newest' = Walk /\ due' = <<>> /\ CallStack(Walk)
           /\ InBlock(cursor) /\ cursor[3] > 0
<1> DEFINE v == [stack |-> Walk, counted |-> Counted(cursor[1], saved)]
<1>1. ahead \in Seq(Visits) /\ Walk \in Seq(Places) /\ Walk # <<>>
      /\ Top(Walk) = cursor /\ Pop(Walk) = saved
  BY ContextFacts
<1>2. due' = <<>> /\ ahead' = Append(ahead, v)
  BY DEF Analyse, Walk
<1>3. v \in Visits /\ v.stack = Walk
  BY <1>1, CountedType DEF Visits
<1>4. CallStack(Walk) /\ cursor[3] > 0
  <2>1. CASE ahead = <<>>
    BY <1>1, <2>1, ContextFacts, ReachFacts DEF AtWalk, Context
  <2>2. CASE ahead # <<>>
    <3>1. CallStack(Follow(Newest))
      BY <2>2, NewestFacts, FollowFacts DEF AtWalk, Context
    <3> QED
      BY <1>1, <2>2, <3>1, ReachFacts DEF AtWalk, Context
  <2> QED
    BY <2>1, <2>2
<1>5. Visited(v)
  <2>1. Counted(cursor[1], saved) = Counted(cursor[1], Walk)
    BY <1>1, CountedFacts
  <2>2. Op(Walk) \notin {"llvm", "mem"}
    BY <1>1 DEF Op
  <2> QED
    BY <1>1, <1>3, <1>4, <2>1, <2>2 DEF Visited
<1>6. ahead = <<>> => Reaches(stack, v.stack)
  BY <1>3 DEF AtWalk
<1>7. ahead # <<>> => Passes(Newest) /\ Reaches(Follow(Newest), v.stack) /\ Newest = ahead[Len(ahead)].stack
  BY <1>3, NewestFacts DEF AtWalk
<1> HIDE DEF v
<1>8. /\ Len(ahead) \in Nat /\ Len(ahead') = Len(ahead) + 1 /\ ahead'[Len(ahead) + 1] = v
      /\ \A k \in 1..Len(ahead) : ahead'[k] = ahead[k]
      /\ ahead' \in Seq(Visits)
  BY <1>1, <1>2, <1>3
<1>9. ahead' # <<>> /\ Newest' = Walk
  <2>1. Newest' = ahead'[Len(ahead')].stack
    BY DEF Newest, Top
  <2> QED
    BY <1>3, <1>8, <2>1
<1>10. \A k \in 1..Len(ahead') : Visited(ahead'[k])
  BY <1>5, <1>8 DEF AheadInv
<1>11. Reaches(stack', ahead'[1].stack)
  <2>1. CASE ahead = <<>>
    BY <1>6, <1>8, <2>1
  <2>2. CASE ahead # <<>>
    BY <1>8, <2>2, NewestFacts
  <2> QED
    BY <2>1, <2>2
<1>12. \A k \in 1..Len(ahead') - 1 :
         Passes(ahead'[k].stack) /\ Reaches(Follow(ahead'[k].stack), ahead'[k + 1].stack)
  <2> TAKE k \in 1..Len(ahead') - 1
  <2>1. CASE k = Len(ahead)
    BY <1>7, <1>8, <2>1
  <2>2. CASE k # Len(ahead)
    <3>1. k \in 1..Len(ahead) - 1 /\ ahead'[k] = ahead[k] /\ ahead'[k + 1] = ahead[k + 1]
      BY <1>8, <2>2
    <3> QED
      BY <3>1 DEF AheadInv
  <2> QED
    BY <2>1, <2>2
<1>13. AheadInv'
  BY <1>10, <1>11, <1>12, SameProgram DEF AheadInv, Context
<1> QED
  BY <1>1, <1>2, <1>4, <1>9, <1>13 DEF CallStack

\* What the program executes next is what the walk visited first, or the load
\* or store the walk waits at.
LEMMA ExecFacts ==
    ASSUME Context, Path, NEW p, Run(p), p[3] > 0, Executed(p)
    PROVE  /\ p = Top(stack) /\ due = <<>> /\ Op(stack) = Instr(p).op
           /\ Instr(p).op = "llvm" => UNCHANGED <<due, ahead>>
           /\ Instr(p).op = "mem" =>
                 /\ ahead = <<>> /\ ahead' = <<>> /\ AtWalk /\ Walk = stack
                 /\ due' = << [stack |-> stack, counted |-> Counted(p[1], stack)] >>
           /\ Instr(p).op \notin {"llvm", "mem"} =>
                 ahead # <<>> /\ ahead[1].stack = stack /\ ahead' = Tail(ahead) /\ due' = <<>>
<1> DEFINE visit == [stack |-> stack, counted |-> Counted(p[1], stack)]
<1>1. /\ mode = "run" /\ p = Top(stack) /\ due = <<>> /\ Op(stack) = Instr(p).op
      /\ AheadInv /\ RunInv
  BY DEF Run, Path, DueInv, Op
<1>2. /\ CallStack(stack) /\ stack \in Seq(Places) /\ stack # <<>>
      /\ Walk \in Seq(Places) /\ Walk # <<>> /\ Top(Walk) = cursor
  BY ContextFacts
<1>3. Instr(p).op = "llvm" => UNCHANGED <<due, ahead>>
  BY DEF Executed
<1>4. ASSUME Instr(p).op # "llvm", ahead # <<>>
      PROVE  /\ ahead[1].stack = stack /\ Instr(p).op # "mem"
             /\ ahead[1] = visit
  <2>1. Visited(ahead[1]) /\ Reaches(stack, ahead[1].stack)
    BY <1>1, <1>4, NewestFacts
  <2>2. CallStack(ahead[1].stack)
    BY <2>1 DEF Visited
  <2>3. ahead[1].stack \in Seq(Places) /\ ahead[1].stack # <<>>
    BY <2>2 DEF CallStack
  <2>4. ahead[1].stack = stack
    BY <1>1, <1>2, <1>4, <2>1, <2>3, ReachFacts DEF Context
  <2> QED
    BY <1>1, <2>1, <2>4 DEF Visited
<1>5. ASSUME Instr(p).op # "llvm", ahead # <<>>
      PROVE  ahead' = Tail(ahead) /\ due' = due
  <2>1. Head(ahead) = visit
    <3>1. Head(ahead) = ahead[1]
      BY <1>5, ContextFacts
    <3> QED
      BY <1>4, <1>5, <3>1
  <2> QED
    BY <1>5, <2>1 DEF Executed
<1>6. ASSUME Instr(p).op # "llvm", ahead = <<>>
      PROVE  Instr(p).op = "mem" /\ AtWalk /\ Walk = stack
  <2>1. AtWalk /\ Instr(cursor).op = "mem"
    BY <1>1, <1>6 DEF RunInv
  <2>2. Reaches(stack, Walk)
    BY <1>6, <2>1 DEF AtWalk
  <2>3. Walk = stack
    BY <1>1, <1>2, <1>6, <2>2, ReachFacts DEF Context
  <2> QED
    BY <1>1, <1>2, <2>1, <2>3
<1>7. ahead = <<>> /\ Instr(p).op # "llvm" => due' = Append(due, visit) /\ ahead' = ahead
  BY DEF Executed
<1>8. Append(<<>>, visit) = <<visit>>
  <2> HIDE DEF visit
  <2> QED
    OBVIOUS
<1> HIDE DEF visit
<1>9. Instr(p).op = "mem" => ahead = <<>> /\ ahead' = <<>> /\ AtWalk /\ Walk = stack /\ due' = <<visit>>
  BY <1>1, <1>4, <1>6, <1>7, <1>8
<1>10. Instr(p).op \notin {"llvm", "mem"} =>
          ahead # <<>> /\ ahead[1].stack = stack /\ ahead' = Tail(ahead) /\ due' = <<>>
  BY <1>1, <1>4, <1>5, <1>6
<1> QED
  BY <1>1, <1>3, <1>9, <1>10 DEF visit

\* The path when the walk does not move.
LEMMA RunPath ==
    ASSUME Context, Path, mode = "run", mode' = "run", due' = <<>>, UNCHANGED walkVars,
           AheadInv',
           \/ ahead' # <<>> /\ ahead # <<>> /\ Newest' = Newest
           \/ ahead' = <<>> /\ Top(stack')[3] = 0 /\ saved = Pop(stack')
           \/ AtWalk' /\ Instr(cursor).op = "mem"
    PROVE  Path'
<1>1. UNCHANGED <<setup, saved, cursor>>
  BY DEF walkVars, Context
<1>2. RunInv'
  <2>1. CASE ahead' # <<>> /\ ahead # <<>> /\ Newest' = Newest
    <3>1. \/ AtWalk /\ Instr(cursor).op = "mem"
          \/ Op(Newest) \in Calls /\ saved = SetTop(Newest, After(Top(Newest)))
          \/ Op(Newest) \in {"mpi", "br"} /\ saved = Pop(Newest)
          \/ Op(Newest) = "ret" /\ Len(Newest) = 1
      BY <2>1 DEF Path, RunInv
    <3>2. Walk' = Walk
      BY <1>1 DEF Walk
    <3>3. AtWalk => AtWalk'
      BY <1>1, <2>1, <3>2, SameProgram DEF AtWalk
    <3> QED
      BY <1>1, <2>1, <3>1, <3>3, SameProgram DEF RunInv
  <2>2. CASE ahead' = <<>> /\ Top(stack')[3] = 0 /\ saved = Pop(stack')
    BY <1>1, <2>2 DEF RunInv
  <2>3. CASE AtWalk' /\ Instr(cursor).op = "mem"
    BY <1>1, <2>3, SameProgram DEF RunInv
  <2> QED
    BY <2>1, <2>2, <2>3
<1> QED
  BY <1>2 DEF Path, IterInv, HookInv, DueInv

\* Every load, store and MPI call has its hook, with its own index.
LEMMA HookHere ==
    ASSUME Context, NEW p, InBlock(p), p[3] > 0, Instr(p).op \in {"mem", "mpi"}
    PROVE  HasHook(p) /\ HookIndex(p) = p[3]
<1>1. \A j \in 1..p[3] - 1 : code[p[1]][p[2]][j].op # "init"
  <2> TAKE j \in 1..p[3] - 1
  <2>1. Followed(setup)
    BY DEF Context
  <2>2. p[1] \in DOMAIN code /\ p[2] \in DOMAIN code[p[1]] /\ ~(p[3] > Len(code[p[1]][p[2]]))
        /\ p[3] \in Nat
    BY PlaceFacts DEF InBlock, OfBlock, AtEnd
  <2>3. j \in 1..Len(code[p[1]][p[2]])
    BY <2>2
  <2> QED
    BY <2>1, <2>2, <2>3 DEF Followed, code
<1>2. p[3] \in Nat
  BY PlaceFacts DEF InBlock, OfBlock
<1>3. ~InitBefore(p)
  BY <1>1 DEF InitBefore
<1>4. ~Skipped(p)
  BY <1>1, <1>2 DEF Skipped
<1> QED
  BY <1>3, <1>4 DEF HasHook, HookIndex, Hooked

LEMMA NativePath ==
    ASSUME Context, Path, Native
    PROVE  Path'
<1> DEFINE p == Top(stack)
<1>1. /\ CallStack(stack) /\ stack \in Seq(Places) /\ stack # <<>>
      /\ p \in Places /\ InBlock(p) /\ p[3] \in Nat /\ saved \in Seq(Places)
      /\ Walk \in Seq(Places) /\ Walk # <<>> /\ Top(Walk) = cursor /\ Pop(Walk) = saved
  BY ContextFacts
<1>2. SetupInv /\ UNCHANGED setup /\ AheadInv
  BY DEF Context, Path
<1>3. p[3] > 0 =>
         /\ Instr(p).op \notin {"pcall", "back", "hooked", "init"}
         /\ Decoupled => Instr(p).op # "icall" /\ (Instr(p).op = "mpi" => MpiMap)
  BY <1>1, FollowedFacts DEF Context
<1> HIDE DEF p
<1>4. CASE enter_block(p)
  <2>1. mode = "run" /\ p[3] = 0 /\ p = Top(stack) /\ UNCHANGED <<saved, due, ahead>>
        /\ stack' = SetTop(stack, After(p)) /\ mode' = "hook" /\ hook'.kind = "bb"
        /\ hook'.at = After(p)
    BY <1>4 DEF enter_block, Run, walkVars
  <2>2. ahead = <<>>
    <3>1. ahead # <<>> => Top(stack)[3] > 0
      BY <1>2, NewestFacts DEF Reaches, Over
    <3> QED
      BY <2>1, <3>1
  <2>3. saved = Pop(stack)
    BY <2>1, <2>2 DEF Path, RunInv, AtWalk, Reaches, Over
  <2>4. After(p) \in Places /\ After(p)[3] > 0
    BY <1>1, PlaceFacts
  <2>5. Top(stack') = After(p) /\ Pop(stack') = Pop(stack)
    BY <1>1, <2>1, <2>4, SetTopStack
  <2>6. AheadInv'
    BY <2>1, <2>2 DEF AheadInv
  <2>7. due = <<>>
    BY <2>1 DEF Path, DueInv
  <2> QED
    BY <2>1, <2>2, <2>3, <2>4, <2>5, <2>6, <2>7 DEF Path, IterInv, RunInv, HookInv, DueInv
<1>5. CASE exec_hooked(p)
  <2>1. Run(p) /\ mode = "run" /\ p[3] > 0 /\ Instr(p).op \in {"mem", "mpi"} /\ Executed(p)
        /\ stack' = SetTop(stack, After(p)) /\ UNCHANGED saved
    BY <1>3, <1>5 DEF exec_hooked, Run, walkVars, Hooked
  <2>2. HasHook(p) /\ HookIndex(p) = p[3]
    BY <1>1, <2>1, HookHere
  <2>3. <<p[1], p[2], p[3]>> = p
    BY <1>1 DEF Places
  <2>4. mode' = "hook" /\ hook'.at = p /\ hook'.kind = (IF Instr(p).op = "mem" THEN "mem" ELSE "mpi")
    BY <1>5, <2>2, <2>3 DEF exec_hooked
  <2>5. After(p) \in Places /\ After(p)[3] > 0 /\ After(p)[1] = p[1]
    BY <1>1, PlaceFacts
  <2>6. stack' \in Seq(Places) /\ stack' # <<>> /\ Top(stack') = After(p) /\ Pop(stack') = Pop(stack)
    BY <1>1, <2>1, <2>5, SetTopStack
  <2>7. CASE Instr(p).op = "mem"
    <3>1. /\ ahead = <<>> /\ ahead' = <<>> /\ Walk = stack
          /\ due' = << [stack |-> stack, counted |-> Counted(p[1], stack)] >>
      BY <2>1, <2>7, ExecFacts
    <3>2. saved' = Pop(stack')
      BY <1>1, <2>1, <2>6, <3>1
    <3>3. SetTop(stack', p) = stack
      <4>1. SetTop(stack', p) = Append(Pop(stack'), p)
        BY <1>1, <2>6, SetTopStack
      <4>2. stack = Append(Pop(stack), Top(stack))
        BY <1>1, StackFacts
      <4> QED
        BY <2>6, <4>1, <4>2 DEF p
    <3>4. Counted(p[1], stack') = Counted(p[1], stack)
      BY <1>1, <2>5, <2>6, CountedFacts DEF p
    <3>5. AheadInv'
      BY <3>1 DEF AheadInv
    <3>6. DueInv'
      BY <1>2, <2>4, <2>7, <3>1, <3>3, <3>4, SameProgram DEF DueInv
    <3> QED
      BY <2>4, <2>5, <2>6, <3>1, <3>2, <3>5, <3>6 DEF Path, IterInv, RunInv, HookInv
  <2>8. CASE Instr(p).op = "mpi"
    <3>1. /\ ahead # <<>> /\ ahead[1].stack = stack /\ ahead' = Tail(ahead) /\ due' = <<>>
          /\ Op(stack) = "mpi"
      BY <2>1, <2>8, ExecFacts
    <3>2. Len(ahead) = 1
      BY <1>2, <3>1, VisitedLast DEF Passes
    <3>3. AheadInv' /\ ahead' = <<>> /\ Newest = stack
      BY <1>2, <3>1, <3>2, AheadTail
    <3>4. saved = Pop(stack)
      BY <2>1, <3>1, <3>3 DEF Path, RunInv, AtWalk, Passes, Calls
    <3> QED
      BY <2>1, <2>4, <2>5, <2>6, <2>8, <3>1, <3>3, <3>4 DEF Path, IterInv, RunInv, HookInv, DueInv
  <2> QED
    BY <2>1, <2>7, <2>8
<1>6. CASE exec_plain(p)
  <2>1. /\ Run(p) /\ mode = "run" /\ mode' = "run" /\ p[3] > 0 /\ Executed(p)
        /\ Instr(p).op \in {"op", "ext", "llvm"}
        /\ stack' = SetTop(stack, After(p)) /\ UNCHANGED walkVars
    BY <1>6 DEF exec_plain, Run
  <2>2. CASE Instr(p).op = "llvm"
    <3>1. UNCHANGED <<due, ahead>> /\ due = <<>> /\ Op(stack) = "llvm"
      BY <2>1, <2>2, ExecFacts
    <3>2. \A d \in Seq(Places) : d # <<>> /\ Reaches(stack, d) /\ Op(d) # "llvm" => Reaches(stack', d)
      BY <1>1, <1>2, <2>1, <3>1, ReachFacts DEF p
    <3>3. AheadInv'
      <4>1. CASE ahead = <<>>
        BY <3>1, <4>1 DEF AheadInv
      <4>2. CASE ahead # <<>>
        <5>1. Reaches(stack, ahead[1].stack) /\ Visited(ahead[1])
          BY <1>2, <4>2, NewestFacts
        <5>2. Reaches(stack', ahead[1].stack)
          BY <3>2, <5>1 DEF Visited, CallStack
        <5> QED
          BY <1>2, <3>1, <5>2, SameProgram DEF AheadInv
      <4> QED
        BY <4>1, <4>2
    <3>4. CASE ahead # <<>>
      <4>1. Newest' = Newest
        BY <3>1 DEF Newest
      <4> QED
        BY <2>1, <3>1, <3>3, <3>4, <4>1, RunPath
    <3>5. CASE ahead = <<>>
      <4>1. Reaches(stack, Walk) /\ Instr(cursor).op = "mem"
        BY <2>1, <3>5 DEF Path, RunInv, AtWalk, Run
      <4>2. Reaches(stack', Walk)
        BY <1>1, <3>2, <4>1 DEF Op
      <4>3. AtWalk'
        BY <1>2, <2>1, <3>1, <3>5, <4>2, SameProgram DEF AtWalk, Walk, walkVars
      <4> QED
        BY <2>1, <3>1, <3>3, <4>1, <4>3, RunPath
    <3> QED
      BY <3>4, <3>5
  <2>3. CASE Instr(p).op # "llvm"
    <3>1. /\ ahead # <<>> /\ ahead[1].stack = stack /\ ahead' = Tail(ahead) /\ due' = <<>>
          /\ Op(stack) \in {"op", "ext"}
      BY <2>1, <2>3, ExecFacts
    <3>2. stack' = Follow(stack)
      BY <2>1, <3>1 DEF Follow, p
    <3>3. AheadInv' /\ (Len(ahead) > 1 => ahead' # <<>> /\ Newest' = Newest)
          /\ (Len(ahead) = 1 => ahead' = <<>> /\ Newest = stack)
      BY <1>2, <3>1, <3>2, AheadTail
    <3>4. CASE Len(ahead) > 1
      BY <2>1, <3>1, <3>3, <3>4, RunPath
    <3>5. CASE Len(ahead) = 1
      <4>1. AtWalk /\ Instr(cursor).op = "mem"
        BY <2>1, <3>1, <3>3, <3>5 DEF Path, RunInv, Calls
      <4>2. Reaches(stack', Walk)
        BY <3>1, <3>2, <3>3, <3>5, <4>1 DEF AtWalk
      <4>3. AtWalk'
        BY <1>2, <2>1, <3>3, <3>5, <4>2, SameProgram DEF AtWalk, Walk, walkVars
      <4> QED
        BY <2>1, <3>1, <3>3, <4>1, <4>3, RunPath
    <3> QED
      BY <1>2, <3>1, <3>4, <3>5, VisitedLast
  <2> QED
    BY <2>2, <2>3
<1>7. CASE exec_call(p)
  <2> DEFINE q == <<Instr(p).to, 1, 0>>
             c == SetTop(stack, After(p))
  <2>1. /\ Run(p) /\ mode = "run" /\ mode' = "run" /\ p[3] > 0 /\ Executed(p)
        /\ Instr(p).op \in Calls /\ stack' = Append(c, q) /\ UNCHANGED walkVars
    BY <1>7 DEF exec_call, Run
  <2>2. /\ ahead # <<>> /\ ahead[1].stack = stack /\ ahead' = Tail(ahead) /\ due' = <<>>
        /\ Op(stack) \in Calls
    BY <2>1, ExecFacts DEF Calls
  <2>3. Len(ahead) = 1
    BY <1>2, <2>2, VisitedLast DEF Passes, Calls
  <2>4. AheadInv' /\ ahead' = <<>> /\ Newest = stack
    BY <1>2, <2>2, <2>3, AheadTail
  <2>5. saved = c
    BY <2>1, <2>2, <2>4 DEF Path, RunInv, AtWalk, Passes, Calls, p
  <2>6. c \in Seq(Places) /\ q \in Places
    <3>1. After(p) \in Places
      BY <1>1, PlaceFacts
    <3>2. InBlock(q)
      BY <1>1, <1>2, <2>1, CodeFacts
    <3> QED
      BY <1>1, <3>1, <3>2, SetTopStack DEF InBlock, OfBlock
  <2>7. q[3] = 0
    OBVIOUS
  <2> HIDE DEF c, q
  <2>8. Top(stack') = q /\ Pop(stack') = c
    BY <2>1, <2>6, AppendFacts
  <2> QED
    BY <2>1, <2>2, <2>4, <2>5, <2>7, <2>8, RunPath
<1>8. CASE exec_br(p)
  <2>1. /\ Run(p) /\ mode = "run" /\ mode' = "run" /\ p[3] > 0 /\ Executed(p)
        /\ Instr(p).op = "br" /\ UNCHANGED walkVars
    BY <1>8 DEF exec_br, Run
  <2>2. PICK b \in Instr(p).to : stack' = SetTop(stack, <<p[1], b, 0>>)
    BY <1>8 DEF exec_br
  <2>3. <<p[1], b, 0>> \in Places
    BY <1>1, <1>2, <2>1, CodeFacts DEF InBlock, OfBlock
  <2>4. /\ ahead # <<>> /\ ahead[1].stack = stack /\ ahead' = Tail(ahead) /\ due' = <<>>
        /\ Op(stack) = "br"
    BY <2>1, ExecFacts
  <2>5. Len(ahead) = 1
    BY <1>2, <2>4, VisitedLast DEF Passes
  <2>6. AheadInv' /\ ahead' = <<>> /\ Newest = stack
    BY <1>2, <2>4, <2>5, AheadTail
  <2>7. saved = Pop(stack)
    BY <2>1, <2>4, <2>6 DEF Path, RunInv, AtWalk, Passes, Calls
  <2>8. Top(stack') = <<p[1], b, 0>> /\ Pop(stack') = Pop(stack)
    BY <1>1, <2>2, <2>3, SetTopStack
  <2> QED
    BY <2>1, <2>4, <2>6, <2>7, <2>8, RunPath
<1>9. CASE exec_ret(p)
  <2>1. /\ Run(p) /\ mode = "run" /\ p[3] > 0 /\ Executed(p)
        /\ Instr(p).op = "ret" /\ UNCHANGED walkVars
    BY <1>9 DEF exec_ret, Run
  <2>2. /\ ahead # <<>> /\ ahead[1].stack = stack /\ ahead' = Tail(ahead) /\ due' = <<>>
        /\ Op(stack) = "ret"
    BY <2>1, ExecFacts
  <2>3. CASE Len(stack) = 1
    <3>1. Len(ahead) = 1
      BY <1>2, <2>2, <2>3, VisitedLast DEF Passes
    <3>2. AheadInv' /\ ahead' = <<>>
      BY <1>2, <2>2, <3>1, AheadTail
    <3>3. mode' = "done"
      BY <1>9, <2>3 DEF exec_ret
    <3> QED
      BY <2>2, <3>2, <3>3 DEF Path, IterInv, RunInv, HookInv, DueInv
  <2>4. CASE Len(stack) # 1
    <3>1. stack' = Follow(stack) /\ mode' = "run"
      BY <1>9, <2>1, <2>2, <2>4 DEF exec_ret, Follow
    <3>2. AheadInv' /\ (Len(ahead) > 1 => ahead' # <<>> /\ Newest' = Newest)
          /\ (Len(ahead) = 1 => ahead' = <<>> /\ Newest = stack)
      BY <1>2, <2>2, <3>1, AheadTail
    <3>3. CASE Len(ahead) > 1
      BY <2>1, <2>2, <3>1, <3>2, <3>3, RunPath
    <3>4. CASE Len(ahead) = 1
      <4>1. AtWalk /\ Instr(cursor).op = "mem"
        BY <2>1, <2>2, <2>4, <3>2, <3>4 DEF Path, RunInv, Calls
      <4>2. Reaches(stack', Walk)
        BY <2>2, <3>1, <3>2, <3>4, <4>1 DEF AtWalk
      <4>3. AtWalk'
        BY <1>2, <2>1, <3>2, <3>4, <4>2, SameProgram DEF AtWalk, Walk, walkVars
      <4> QED
        BY <2>1, <2>2, <3>1, <3>2, <4>1, <4>3, RunPath
    <3> QED
      BY <1>2, <2>2, <3>3, <3>4, VisitedLast
  <2> QED
    BY <2>3, <2>4
<1> QED
  BY <1>4, <1>5, <1>6, <1>7, <1>8, <1>9 DEF Native, p

\* The walk is where the program is: it starts or resumes there.
LEMMA WalkStarts ==
    ASSUME Context, HookInv, mode = "hook", UNCHANGED <<stack, saved, ahead>>,
           mode' = "iter", cursor' = Top(stack), last' = "none", due' = <<>>
    PROVE  Path'
<1>1. ahead = <<>> /\ saved = Pop(stack) /\ Top(stack)[3] > 0
  BY DEF HookInv
<1>2. CallStack(stack) /\ stack = Append(Pop(stack), Top(stack)) /\ UNCHANGED setup
  BY ContextFacts, StackFacts DEF Context
<1>3. Walk' = stack
  BY <1>1, <1>2 DEF Walk
<1>4. Reaches(stack, stack)
  BY <1>1, <1>2, ContextFacts, ReachFacts DEF Context
<1>5. AtWalk'
  BY <1>1, <1>2, <1>3, <1>4, SameProgram DEF AtWalk
<1>6. AheadInv'
  BY <1>1 DEF AheadInv
<1> QED
  BY <1>5, <1>6 DEF Path, IterInv, RunInv, HookInv, DueInv

\* At an instruction the walk is on the path, at the end of a block it has
\* just visited the branch or the return.
LEMMA AtInstruction ==
    ASSUME Context, Path, mode = "iter", ~AtEnd(cursor)
    PROVE  AtWalk /\ InBlock(cursor) /\ cursor[3] > 0 /\ due = <<>> /\ last # "ret"
<1>1. InBlock(cursor) /\ cursor[3] > 0
  BY DEF Context, TypeInv, InBlock
<1>2. ASSUME ahead # <<>>, Op(Newest) \in {"br", "ret"}, cursor = After(Top(Newest))
      PROVE  FALSE
  <2>1. CallStack(Newest) /\ Top(Newest)[3] > 0
    BY <1>2, NewestFacts DEF Path
  <2>2. InBlock(Top(Newest))
    BY <2>1, StackSteps
  <2>3. AtEnd(cursor)
    BY <1>2, <2>1, <2>2, CodeFacts DEF Op, Context
  <2> QED
    BY <2>3
<1> QED
  BY <1>1, <1>2 DEF Path, IterInv, DueInv

LEMMA AtBlockEnd ==
    ASSUME Context, Path, mode = "iter", AtEnd(cursor)
    PROVE  /\ ahead # <<>> /\ Op(Newest) \in {"br", "ret"} /\ last = Op(Newest)
           /\ saved = Pop(Newest) /\ cursor = After(Top(Newest)) /\ due = <<>>
<1>1. ~AtWalk
  BY ContextFacts DEF AtWalk, Reaches, Over, InBlock
<1> QED
  BY <1>1 DEF Path, IterInv, DueInv

LEMMA AnalysisPath ==
    ASSUME Context, Path, Analysis
    PROVE  Path'
<1>1. /\ CallStack(stack) /\ stack \in Seq(Places) /\ stack # <<>>
      /\ Top(stack) \in Places /\ InBlock(Top(stack))
      /\ saved \in Seq(Places) /\ cursor \in Places
      /\ Walk \in Seq(Places) /\ Walk # <<>> /\ Top(Walk) = cursor /\ Pop(Walk) = saved
  BY ContextFacts
<1>2. /\ SetupInv /\ UNCHANGED setup /\ Followed(setup)
      /\ AheadInv /\ IterInv /\ HookInv /\ DueInv
  BY DEF Context, Path
<1>3. mode = "hook" => hook.at \in Places /\ InBlock(hook.at)
  BY DEF Context, TypeInv, InBlock, OfBlock
<1>4. mode = "iter" /\ ~AtEnd(cursor) =>
         AtWalk /\ InBlock(cursor) /\ cursor[3] > 0 /\ due = <<>> /\ last # "ret"
  BY AtInstruction
<1>5. mode = "iter" /\ AtEnd(cursor) =>
         /\ ahead # <<>> /\ Op(Newest) \in {"br", "ret"} /\ last = Op(Newest)
         /\ saved = Pop(Newest) /\ due = <<>>
  BY AtBlockEnd
<1>6. CASE basicblock_notification
  <2>1. cursor' = Top(stack) /\ due = <<>>
    BY <1>2, <1>6 DEF basicblock_notification, HookInv, DueInv
  <2> QED
    BY <1>2, <1>6, <2>1, WalkStarts DEF basicblock_notification
<1>7. ASSUME mode = "hook", hook.kind # "bb", Resume(hook.at), UNCHANGED ahead, due' = <<>>
      PROVE  Path'
  <2>1. cursor' = Top(stack) /\ last' = "none" /\ UNCHANGED <<stack, saved>>
    BY <1>2, <1>7 DEF Resume, resume_at, HookInv
  <2>2. mode' = "iter"
    BY <1>1, <1>2, <1>7, <2>1 DEF Resume, resume_at, InBlock
  <2> QED
    BY <1>2, <1>7, <2>1, <2>2, WalkStarts
<1>8. CASE mem_addr_notification
  <2> DEFINE q == hook.at
             visit == [stack |-> Append(saved, q), counted |-> Counted(q[1], saved)]
  <2>1. mode = "hook" /\ hook.kind = "mem" /\ Analyse(q) /\ Resume(q)
    BY <1>8 DEF mem_addr_notification
  <2>2. saved = Pop(stack) /\ Top(stack) = After(q) /\ q \in Places
    BY <1>2, <1>3, <2>1 DEF HookInv
  <2>3. due = << [stack |-> SetTop(stack, q), counted |-> Counted(q[1], stack)] >>
    BY <1>2, <2>1 DEF DueInv
  <2> HIDE DEF q
  <2>4. SetTop(stack, q) = Append(saved, q)
    <3>1. stack \in Seq(Places) /\ stack # <<>> /\ q \in Places
      BY <1>1, <2>2
    <3>2. SetTop(stack, q) = Append(Pop(stack), q)
      BY <3>1, SetTopStack
    <3> QED
      BY <2>2, <3>2
  <2>5. Counted(q[1], stack) = Counted(q[1], saved)
    <3>1. q[1] = Top(stack)[1]
      BY <2>2, PlaceFacts
    <3> QED
      BY <1>1, <2>2, <3>1, CountedFacts
  <2>6. due = <<visit>>
    BY <2>3, <2>4, <2>5
  <2>7. due # <<>> /\ Head(due) = visit /\ Tail(due) = <<>>
    <3> HIDE DEF visit
    <3> QED
      BY <2>6
  <2>8. due' = <<>> /\ UNCHANGED ahead
    BY <2>1, <2>7 DEF Analyse
  <2> QED
    BY <1>7, <2>1, <2>8 DEF q
<1>9. CASE mpi_call_notification
  BY <1>2, <1>7, <1>9 DEF mpi_call_notification, DueInv
<1>10. CASE iter_intrinsic
  <2>1. /\ mode = "iter" /\ mode' = "iter" /\ ~AtEnd(cursor) /\ Instr(cursor).op = "llvm"
        /\ cursor' = After(cursor) /\ UNCHANGED <<stack, last, saved, due, ahead>>
    BY <1>10 DEF iter_intrinsic, next_inst
  <2>2. AtWalk /\ InBlock(cursor) /\ due = <<>> /\ last # "ret"
    BY <1>4, <2>1
  <2>3. After(cursor) \in Places
    BY <1>1, PlaceFacts
  <2>4. Top(Walk') = After(cursor) /\ Pop(Walk') = saved
    BY <1>1, <2>1, <2>3, AppendFacts DEF Walk
  <2>5. \A c : CallStack(c) /\ Reaches(c, Walk) => Reaches(c, Walk')
    <3> SUFFICES ASSUME NEW c, CallStack(c), Reaches(c, Walk) PROVE Reaches(c, Walk')
      OBVIOUS
    <3>1. Top(c) \in Places /\ Over(Top(c), cursor)
      BY <1>1, StackSteps DEF Reaches
    <3>2. Over(Top(c), After(cursor))
      BY <1>1, <1>2, <2>1, <3>1, OverFacts
    <3> QED
      BY <1>1, <2>4, <3>2 DEF Reaches
  <2>6. AtWalk'
    <3>1. CASE ahead = <<>>
      BY <1>1, <1>2, <2>1, <2>2, <2>5, <3>1, SameProgram DEF AtWalk
    <3>2. CASE ahead # <<>>
      <4>1. Passes(Newest) /\ Reaches(Follow(Newest), Walk) /\ Newest' = Newest
        BY <2>1, <2>2, <3>2 DEF AtWalk, Newest
      <4>2. CallStack(Follow(Newest))
        BY <1>2, <3>2, <4>1, NewestFacts, FollowFacts
      <4> QED
        BY <1>2, <2>1, <2>5, <3>2, <4>1, <4>2, SameProgram DEF AtWalk
    <3> QED
      BY <3>1, <3>2
  <2>7. AheadInv'
    BY <1>2, <2>1, SameProgram DEF AheadInv
  <2> QED
    BY <2>1, <2>2, <2>6, <2>7 DEF Path, IterInv, RunInv, HookInv, DueInv
<1>11. CASE iter_load_store
  <2>1. /\ mode = "iter" /\ mode' = "run" /\ ~AtEnd(cursor) /\ Instr(cursor).op = "mem"
        /\ UNCHANGED <<stack, cursor, saved, due, ahead>>
    BY <1>11 DEF iter_load_store, walkVars
  <2>2. AtWalk /\ due = <<>>
    BY <1>4, <2>1
  <2>3. AtWalk' /\ AheadInv'
    BY <1>2, <2>1, <2>2, SameProgram DEF AtWalk, AheadInv, Walk, Newest
  <2> QED
    BY <1>2, <2>1, <2>2, <2>3, SameProgram DEF Path, IterInv, RunInv, HookInv, DueInv
<1>12. CASE iter_call
  <2>1. /\ mode = "iter" /\ mode' = "run" /\ ~AtEnd(cursor) /\ ResolvesCall(Instr(cursor))
        /\ Analyse(cursor) /\ saved' = Append(saved, After(cursor)) /\ UNCHANGED stack
    BY <1>12 DEF iter_call
  <2>2. AtWalk /\ due = <<>> /\ Instr(cursor).op \in {"call", "icall"}
    BY <1>4, <2>1 DEF ResolvesCall
  <2>3. AheadInv' /\ ahead' # <<>> /\ Newest' = Walk /\ due' = <<>>
    BY <1>2, <2>1, <2>2, AheadAppend
  <2>4. Op(Newest)' \in Calls
    BY <1>1, <1>2, <2>2, <2>3, SameProgram DEF Op, Calls
  <2>5. SetTop(Walk, After(cursor)) = Append(saved, After(cursor))
    BY <1>1, PlaceFacts, SetTopStack
  <2>6. RunInv'
    BY <1>1, <2>1, <2>3, <2>4, <2>5 DEF RunInv
  <2> QED
    BY <2>1, <2>3, <2>6 DEF Path, IterInv, HookInv, DueInv
<1>13. CASE iter_other
  <2>1. /\ mode = "iter" /\ ~AtEnd(cursor) /\ Instr(cursor).op \notin {"llvm", "mem"}
        /\ ~ResolvesCall(Instr(cursor)) /\ Analyse(cursor) /\ last' = Instr(cursor).op
        /\ mode' = (IF StopsAtMPI(Instr(cursor)) THEN "run" ELSE "iter")
        /\ cursor' = After(cursor) /\ UNCHANGED <<stack, saved>>
    BY <1>13 DEF iter_other
  <2>2. AtWalk /\ due = <<>> /\ InBlock(cursor) /\ cursor[3] > 0
    BY <1>4, <2>1
  <2>3. AheadInv' /\ ahead' # <<>> /\ Newest' = Walk /\ due' = <<>> /\ CallStack(Walk)
    BY <1>2, <2>1, <2>2, AheadAppend
  <2>4. Op(Newest)' = Instr(cursor).op /\ Op(Walk) = Instr(cursor).op
    BY <1>1, <1>2, <2>3, SameProgram DEF Op
  <2>5. Instr(cursor).op \in {"mpi", "op", "ext", "br", "ret"}
    <3>1. Instr(cursor).op \in Ops
      BY <1>2, <2>2, CodeFacts
    <3>2. /\ Instr(cursor).op \notin {"pcall", "back", "hooked", "init"}
          /\ Decoupled => Instr(cursor).op # "icall"
      BY <1>2, <2>2, FollowedFacts
    <3> QED
      BY <2>1, <3>1, <3>2 DEF Ops, Calls, Hooked, ResolvesCall
  <2>6. CASE Instr(cursor).op = "mpi"
    <3>1. mode' = "run"
      BY <1>2, <2>1, <2>2, <2>6, FollowedFacts DEF StopsAtMPI
    <3>2. RunInv'
      BY <1>1, <2>1, <2>3, <2>4, <2>6 DEF RunInv
    <3> QED
      BY <2>3, <3>1, <3>2 DEF Path, IterInv, HookInv, DueInv
  <2>7. CASE Instr(cursor).op # "mpi"
    <3>1. mode' = "iter"
      BY <2>1, <2>7 DEF StopsAtMPI
    <3>2. IterInv'
      <4>1. CASE Instr(cursor).op \in {"br", "ret"}
        <5>1. Top(Newest)' = cursor /\ Pop(Newest)' = saved
          BY <1>1, <2>3
        <5> QED
          BY <2>1, <2>3, <2>4, <4>1, <5>1 DEF IterInv
      <4>2. CASE Instr(cursor).op \in {"op", "ext"}
        <5>1. Passes(Walk) /\ Follow(Walk) = SetTop(Walk, After(cursor))
          BY <1>1, <2>4, <4>2 DEF Passes, Follow
        <5>2. Walk' = Follow(Walk)
          <6>1. SetTop(Walk, After(cursor)) = Append(saved, After(cursor))
            BY <1>1, PlaceFacts, SetTopStack
          <6> QED
            BY <2>1, <5>1, <6>1 DEF Walk
        <5>3. Reaches(Follow(Walk), Follow(Walk))
          <6>1. CallStack(Follow(Walk)) /\ Top(Follow(Walk))[3] > 0
            BY <1>1, <1>2, <2>2, <2>3, <5>1, FollowFacts
          <6> QED
            BY <1>1, <1>2, <6>1, ReachFacts
        <5>4. AtWalk'
          BY <1>2, <2>3, <5>1, <5>2, <5>3, SameProgram DEF AtWalk
        <5> QED
          BY <2>1, <4>2, <5>4 DEF IterInv
      <4> QED
        BY <2>5, <2>7, <4>1, <4>2
    <3> QED
      BY <2>3, <3>1, <3>2 DEF Path, RunInv, HookInv, DueInv
  <2> QED
    BY <2>6, <2>7
<1>14. CASE iter_return
  <2>1. /\ mode = "iter" /\ mode' = "iter" /\ AtEnd(cursor) /\ saved # <<>> /\ last = "ret"
        /\ cursor' = Top(saved) /\ saved' = Pop(saved) /\ last' = "none"
        /\ UNCHANGED <<stack, due, ahead>>
    BY <1>14 DEF iter_return, saved_popped
  <2>2. /\ ahead # <<>> /\ Op(Newest) = "ret" /\ saved = Pop(Newest) /\ due = <<>>
    BY <1>5, <2>1
  <2>3. CallStack(Newest) /\ Top(Newest)[3] > 0 /\ Newest \in Seq(Places) /\ Newest # <<>>
    BY <1>2, <2>2, NewestFacts, StackSteps
  <2>4. Len(Newest) > 1
    <3>1. Len(Newest) \in Nat /\ Len(saved) = Len(Newest) - 1 /\ Len(saved) \in Nat
      <4>1. Len(Pop(Newest)) = Len(Newest) - 1 /\ Len(Newest) \in Nat
        BY <2>3, StackFacts
      <4> QED
        BY <1>1, <2>2, <4>1
    <3>2. Len(saved) # 0
      BY <1>1, <2>1
    <3> QED
      BY <3>1, <3>2
  <2>5. Passes(Newest) /\ Follow(Newest) = saved
    BY <2>2, <2>4 DEF Passes, Follow
  <2>6. CallStack(saved) /\ Reaches(saved, saved)
    BY <1>1, <1>2, <2>3, <2>5, FollowFacts, ReachFacts
  <2>7. Walk' = saved /\ Newest' = Newest
    BY <1>1, <2>1, StackFacts DEF Walk, Newest
  <2>8. AtWalk'
    BY <1>2, <2>1, <2>2, <2>5, <2>6, <2>7, SameProgram DEF AtWalk
  <2>9. AheadInv'
    BY <1>2, <2>1, SameProgram DEF AheadInv
  <2> QED
    BY <2>1, <2>2, <2>8, <2>9 DEF Path, IterInv, RunInv, HookInv, DueInv
<1>15. CASE iter_block_end
  <2>1. /\ mode = "iter" /\ mode' = "run" /\ AtEnd(cursor) /\ (saved = <<>> \/ last # "ret")
        /\ UNCHANGED <<stack, cursor, last, saved, due, ahead>>
    BY <1>15 DEF iter_block_end, walkVars
  <2>2. /\ ahead # <<>> /\ Op(Newest) \in {"br", "ret"} /\ last = Op(Newest)
        /\ saved = Pop(Newest) /\ due = <<>>
    BY <1>5, <2>1
  <2>3. Op(Newest) = "ret" => Len(Newest) = 1
    <3> SUFFICES ASSUME Op(Newest) = "ret" PROVE Len(Newest) = 1
      OBVIOUS
    <3>1. Newest \in Seq(Places) /\ Newest # <<>>
      BY <1>2, <2>2, NewestFacts, StackSteps
    <3>2. Len(Newest) \in Nat /\ Len(saved) = Len(Newest) - 1 /\ Len(saved) = 0
      BY <2>1, <2>2, <3>1, StackFacts
    <3> QED
      BY <3>2
  <2>4. Newest' = Newest /\ Op(Newest)' = Op(Newest)
    BY <1>2, <2>1, SameProgram DEF Newest
  <2>5. RunInv'
    BY <2>1, <2>2, <2>3, <2>4 DEF RunInv
  <2>6. AheadInv'
    BY <1>2, <2>1, SameProgram DEF AheadInv
  <2> QED
    BY <2>1, <2>2, <2>5, <2>6 DEF Path, IterInv, HookInv, DueInv
<1> QED
  BY <1>6, <1>8, <1>9, <1>10, <1>11, <1>12, <1>13, <1>14, <1>15 DEF Analysis

-----------------------------------------------------------------------------
(* FunctionInv is inductive.                                               *)

LEMMA PrefixFacts ==
    ASSUME NEW c \in Seq(Places), c # <<>>
    PROVE  /\ SubSeq(c, 1, Len(c)) = c
           /\ \A i \in 1..Len(c) - 1 : SubSeq(c, 1, i) = SubSeq(Pop(c), 1, i)
<1>1. Len(c) \in Nat /\ Len(c) >= 1 /\ Pop(c) \in Seq(Places) /\ Len(Pop(c)) = Len(c) - 1
  BY StackFacts
<1>2. \A j \in 1..Len(c) - 1 : Pop(c)[j] = c[j]
  BY StackFacts
<1>3. SubSeq(c, 1, Len(c)) = c
  BY <1>1
<1>4. ASSUME NEW i \in 1..Len(c) - 1 PROVE SubSeq(c, 1, i) = SubSeq(Pop(c), 1, i)
  <2> DEFINE a == SubSeq(c, 1, i)
             b == SubSeq(Pop(c), 1, i)
  <2>1. i \in Nat /\ i >= 1 /\ i <= Len(c) /\ i <= Len(Pop(c))
    BY <1>1
  <2>2. a \in Seq(Places) /\ Len(a) = i /\ \A j \in 1..i : a[j] = c[j]
    BY <2>1
  <2>3. b \in Seq(Places) /\ Len(b) = i /\ \A j \in 1..i : b[j] = Pop(c)[j]
    BY <1>1, <2>1
  <2>4. \A j \in 1..i : Pop(c)[j] = c[j]
    BY <1>1, <1>2
  <2> HIDE DEF a, b
  <2>5. a = b
    BY <2>2, <2>3, <2>4, SeqEqual
  <2> QED
    BY <2>5 DEF a, b
<1> QED
  BY <1>3, <1>4

\* One more place counts if those below it do or if it is inside the filters.
LEMMA ActiveFacts ==
    ASSUME NEW c \in Seq(Places), c # <<>>
    PROVE  /\ Active(c) \in Nat /\ Active(Pop(c)) \in Nat
           /\ Active(c) = IF Active(Pop(c)) > 0 THEN Active(Pop(c)) + 1
                          ELSE IF Counted(Top(c)[1], Pop(c)) THEN 1 ELSE 0
<1> DEFINE n == Len(c)
           f == Top(c)[1]
           In(t, i) == Counted(t[i][1], SubSeq(t, 1, i))
<1>1. n \in Nat /\ n >= 1 /\ Pop(c) \in Seq(Places) /\ Len(Pop(c)) = n - 1 /\ Top(c) = c[n]
      /\ \A j \in 1..n - 1 : Pop(c)[j] = c[j]
  BY StackFacts
<1>2. \A i \in 1..n - 1 : In(c, i) = In(Pop(c), i)
  BY <1>1, PrefixFacts
<1>3. In(c, n) = Counted(f, Pop(c))
  BY <1>1, PrefixFacts, CountedFacts
<1>4. \A t : Inside(t) = {j \in 1..Len(t) : \E i \in 1..j : In(t, i)}
  BY DEF Inside
<1> HIDE DEF In
<1>5. n \notin Inside(Pop(c)) /\ Inside(Pop(c)) \subseteq 1..n - 1
  BY <1>1, <1>4
<1>6. \A j \in 1..n - 1 : j \in Inside(c) <=> j \in Inside(Pop(c))
  BY <1>1, <1>2, <1>4
<1>7. n \in Inside(c) <=> Inside(Pop(c)) # {} \/ Counted(f, Pop(c))
  <2>1. ASSUME NEW i \in 1..n, In(c, i) PROVE Inside(Pop(c)) # {} \/ Counted(f, Pop(c))
    <3>1. CASE i = n
      BY <1>3, <2>1, <3>1
    <3>2. CASE i # n
      <4>1. i \in 1..n - 1 /\ i \in 1..i
        BY <1>1, <3>2
      <4>2. i \in Inside(Pop(c))
        BY <1>1, <1>2, <1>4, <2>1, <4>1
      <4> QED
        BY <4>2
    <3> QED
      BY <3>1, <3>2
  <2>2. ASSUME NEW j \in Inside(Pop(c)) PROVE n \in Inside(c)
    BY <1>1, <1>2, <1>4, <2>2
  <2>3. Counted(f, Pop(c)) => n \in Inside(c)
    <3>1. n \in 1..n
      BY <1>1
    <3>2. Counted(f, Pop(c)) => In(c, n)
      BY <1>3
    <3> QED
      BY <1>4, <3>1, <3>2
  <2>4. n \in Inside(c) => \E i \in 1..n : In(c, i)
    BY <1>4
  <2> QED
    BY <2>1, <2>2, <2>3, <2>4
<1>8. IsFiniteSet(Inside(Pop(c))) /\ Active(Pop(c)) \in Nat
      /\ (Active(Pop(c)) = 0 <=> Inside(Pop(c)) = {})
  <2>1. IsFiniteSet(1..n - 1)
    BY <1>1, FS_Interval
  <2> QED
    BY <1>5, <2>1, FS_Subset, FS_CardinalityType, FS_EmptySet DEF Active
<1>9. CASE Inside(Pop(c)) # {} \/ Counted(f, Pop(c))
  <2>1. Inside(c) = Inside(Pop(c)) \cup {n}
    <3>1. Inside(c) \subseteq 1..n /\ 1..n = (1..n - 1) \cup {n}
      BY <1>1, <1>4
    <3> QED
      BY <1>5, <1>6, <1>7, <1>9, <3>1
  <2>2. Active(c) = Active(Pop(c)) + 1
    BY <1>5, <1>8, <2>1, FS_AddElement DEF Active
  <2> QED
    BY <1>8, <1>9, <2>2
<1>10. CASE Inside(Pop(c)) = {} /\ ~Counted(f, Pop(c))
  <2>1. Inside(c) = {}
    <3>1. Inside(c) \subseteq 1..n /\ 1..n = (1..n - 1) \cup {n}
      BY <1>1, <1>4
    <3> QED
      BY <1>6, <1>7, <1>10, <3>1
  <2> QED
    BY <1>8, <1>10, <2>1, FS_EmptySet DEF Active
<1> QED
  BY <1>9, <1>10

LEMMA ActiveSame ==
    ASSUME NEW c \in Seq(Places), c # <<>>, NEW d \in Seq(Places), d # <<>>,
           Pop(c) = Pop(d), Top(c)[1] = Top(d)[1]
    PROVE  Active(c) = Active(d)
BY ActiveFacts

LEMMA ActiveIncluded ==
    ASSUME NEW c \in Seq(Places), c # <<>>
    PROVE  /\ Active(c) > 0 => in_included(Top(c)[1], Pop(c))
           /\ \A f : Active(c) = 0 /\ Counted(f, c) => ~in_included(Top(c)[1], Pop(c))
<1> DEFINE g == Top(c)[1]
<1>1. {g} \cup Functions(c) = {g} \cup Functions(Pop(c))
  BY CountedFacts
<1>2. Len(c) \in Nat /\ Len(c) >= 1 /\ g = c[Len(c)][1]
  BY StackFacts DEF Top
<1>3. g \in Functions(c)
  BY <1>2 DEF Functions
<1>4. ASSUME Active(c) > 0 PROVE in_included(g, Pop(c))
  <2>1. Inside(c) # {}
    <3>1. Cardinality({}) = 0
      BY FS_EmptySet
    <3> QED
      BY <1>4, <3>1 DEF Active
  <2>2. PICK i \in 1..Len(c) : Counted(c[i][1], SubSeq(c, 1, i))
    BY <1>2, <2>1 DEF Inside
  <2> DEFINE t == SubSeq(c, 1, i)
  <2>3. i \in Nat /\ Len(t) = i /\ \A j \in 1..i : t[j] = c[j] /\ j \in 1..Len(c)
    BY <1>2
  <2>4. in_included(c[i][1], t)
    BY <2>2 DEF Counted
  <2> HIDE DEF t
  <2>5. {c[i][1]} \cup Functions(t) \subseteq Functions(c)
    BY <1>2, <2>3 DEF Functions
  <2> QED
    BY <1>1, <2>4, <2>5 DEF in_included
<1>5. ASSUME NEW f, Active(c) = 0, Counted(f, c) PROVE ~in_included(g, Pop(c))
  <2>1. ~Counted(g, Pop(c))
    BY <1>5, ActiveFacts
  <2>2. ~in_excluded(g, Pop(c))
    BY <1>1, <1>3, <1>5 DEF Counted, in_excluded
  <2> QED
    BY <2>1, <2>2 DEF Counted
<1> QED
  BY <1>4, <1>5

Counting == Context /\ Path /\ FunctionInv /\ Decoupled /\ MpiMap /\ Include # {}

\* The parts of FunctionInv.
LEMMA CountingFacts ==
    ASSUME Counting
    PROVE  /\ (mode = "hook" /\ hook.kind = "bb") \/ (mode = "run" /\ Top(stack)[3] = 0 /\ ahead = <<>>)
                 => inFunction \in {Active(stack), Lagging}
           /\ mode = "hook" /\ hook.kind # "bb" => inFunction = Active(stack)
           /\ mode = "iter" \/ (mode = "run" /\ AtWalk) => inFunction = Active(Walk)
           /\ mode = "run" /\ ahead # <<>> /\ Op(Newest) \in Calls => inFunction = Lagging
           /\ mode = "run" /\ ahead # <<>> /\ Op(Newest) \in {"mpi", "br"}
                 => inFunction = Active(Newest)
BY DEF Counting, FunctionInv, Context

LEMMA SameActive ==
    ASSUME UNCHANGED setup
    PROVE  /\ \A c : Active(c)' = Active(c)
           /\ UNCHANGED saved => Lagging' = Lagging
<1>1. \A c : Active(c)' = Active(c)
  BY SameProgram DEF Active
<1> QED
  BY <1>1 DEF Lagging

LEMMA NativeCounting ==
    ASSUME Counting, Native
    PROVE  FunctionInv'
<1> DEFINE p == Top(stack)
<1>1. /\ CallStack(stack) /\ stack \in Seq(Places) /\ stack # <<>>
      /\ p \in Places /\ InBlock(p) /\ p[3] \in Nat /\ After(p) \in Places
      /\ After(p)[1] = p[1] /\ After(p)[3] > 0
  BY ContextFacts, PlaceFacts DEF Counting
<1>2. SetupInv /\ UNCHANGED setup /\ AheadInv /\ Context /\ Path
  BY DEF Counting, Context, Path
<1>3. p[3] > 0 => Instr(p).op \notin {"pcall", "back", "hooked", "init"}
  BY <1>1, <1>2, FollowedFacts DEF Context
<1>4. \A q \in Places : /\ SetTop(stack, q) \in Seq(Places) /\ SetTop(stack, q) # <<>>
                        /\ Top(SetTop(stack, q)) = q /\ Pop(SetTop(stack, q)) = Pop(stack)
                        /\ q[1] = p[1] => Active(SetTop(stack, q)) = Active(stack)
  <2> TAKE q \in Places
  <2>1. /\ SetTop(stack, q) \in Seq(Places) /\ SetTop(stack, q) # <<>>
        /\ Top(SetTop(stack, q)) = q /\ Pop(SetTop(stack, q)) = Pop(stack)
    BY <1>1, SetTopStack
  <2> QED
    BY <1>1, <2>1, ActiveSame
<1> HIDE DEF p
\* Where the walk waits, it still waits.
<1>5. ASSUME mode = "run", mode' = "run", UNCHANGED walkVars, Top(stack')[3] # 0,
             ahead' = <<>> => AtWalk, ahead' # <<>> => ahead # <<>> /\ Newest' = Newest
      PROVE  FunctionInv'
  <2>1. Walk' = Walk /\ Lagging' = Lagging /\ UNCHANGED inFunction
    BY <1>2, <1>5, SameActive DEF walkVars, Walk
  <2>2. AtWalk' => AtWalk
    BY <1>2, <1>5, <2>1, SameProgram DEF AtWalk
  <2>3. AtWalk' => inFunction' = Active(Walk)'
    BY <1>2, <1>5, <2>1, <2>2, CountingFacts, SameActive
  <2>4. ahead' # <<>> /\ Op(Newest)' \in Calls => inFunction' = Lagging'
    BY <1>2, <1>5, <2>1, CountingFacts, SameProgram
  <2>5. ahead' # <<>> /\ Op(Newest)' \in {"mpi", "br"} => inFunction' = Active(Newest)'
    BY <1>2, <1>5, <2>1, CountingFacts, SameProgram, SameActive
  <2> QED
    BY <1>5, <2>3, <2>4, <2>5 DEF FunctionInv
\* The program is at the entry of a block.
<1>6. ASSUME mode' = "run", ahead' = <<>>, Top(stack')[3] = 0,
             inFunction' \in {Active(stack)', Lagging'}
      PROVE  FunctionInv'
  <2>1. ~AtWalk'
    BY <1>6 DEF AtWalk, Reaches, Over
  <2> QED
    BY <1>6, <2>1 DEF FunctionInv
<1>7. CASE enter_block(p)
  <2>1. mode = "run" /\ p[3] = 0 /\ p = Top(stack) /\ UNCHANGED <<saved, ahead, inFunction>>
        /\ stack' = SetTop(stack, After(p)) /\ mode' = "hook" /\ hook'.kind = "bb"
    BY <1>7 DEF enter_block, Run, walkVars
  <2>2. ahead = <<>>
    <3>1. ahead # <<>> => Top(stack)[3] > 0
      BY <1>2, NewestFacts DEF Reaches, Over
    <3> QED
      BY <2>1, <3>1
  <2>3. inFunction \in {Active(stack), Lagging}
    BY <2>1, <2>2, CountingFacts
  <2>4. Active(stack)' = Active(stack) /\ Lagging' = Lagging
    BY <1>1, <1>2, <1>4, <2>1, SameActive
  <2> QED
    BY <2>1, <2>3, <2>4 DEF FunctionInv
<1>8. CASE exec_hooked(p)
  <2>1. Run(p) /\ mode = "run" /\ p[3] > 0 /\ Instr(p).op \in {"mem", "mpi"} /\ Executed(p)
        /\ stack' = SetTop(stack, After(p)) /\ UNCHANGED inFunction
    BY <1>3, <1>8 DEF exec_hooked, Run, walkVars, Hooked
  <2>2. inFunction = Active(stack)
    <3>1. CASE Instr(p).op = "mem"
      BY <1>2, <2>1, <3>1, ExecFacts, CountingFacts
    <3>2. CASE Instr(p).op = "mpi"
      <4>1. /\ ahead # <<>> /\ ahead[1].stack = stack /\ ahead' = Tail(ahead)
            /\ Op(stack) = "mpi"
        BY <1>2, <2>1, <3>2, ExecFacts
      <4>2. Len(ahead) = 1
        BY <1>2, <4>1, VisitedLast DEF Passes
      <4>3. Newest = stack
        BY <1>2, <4>1, <4>2, AheadTail
      <4> QED
        BY <2>1, <4>1, <4>3, CountingFacts
    <3> QED
      BY <2>1, <3>1, <3>2
  <2>3. inFunction' = Active(stack)'
    BY <1>1, <1>2, <1>4, <2>1, <2>2, SameActive
  <2>4. mode' = "hook" /\ hook'.kind # "bb"
    BY <1>1, <1>2, <1>8, <2>1, HookHere DEF exec_hooked
  <2> QED
    BY <2>3, <2>4 DEF FunctionInv
<1>9. CASE exec_plain(p)
  <2>1. /\ Run(p) /\ mode = "run" /\ mode' = "run" /\ p[3] > 0 /\ Executed(p)
        /\ Instr(p).op \in {"op", "ext", "llvm"}
        /\ stack' = SetTop(stack, After(p)) /\ UNCHANGED walkVars
    BY <1>9 DEF exec_plain, Run
  <2>2. Top(stack')[3] # 0
    <3>1. Top(stack') = After(p)
      BY <1>1, <1>4, <2>1
    <3>2. After(p)[3] # 0
      BY <1>1, PlaceFacts
    <3> QED
      BY <3>1, <3>2
  <2>3. CASE Instr(p).op = "llvm"
    <3>1. UNCHANGED ahead
      BY <1>2, <2>1, <2>3, ExecFacts
    <3>2. ahead = <<>> => AtWalk
      BY <1>2, <2>1 DEF Path, RunInv, Run
    <3>3. Newest' = Newest
      BY <3>1 DEF Newest
    <3> QED
      BY <1>5, <2>1, <2>2, <3>1, <3>2, <3>3
  <2>4. CASE Instr(p).op # "llvm"
    <3>1. /\ ahead # <<>> /\ ahead[1].stack = stack /\ ahead' = Tail(ahead)
          /\ Op(stack) \in {"op", "ext"}
      BY <1>2, <2>1, <2>4, ExecFacts
    <3>2. stack' = Follow(stack)
      BY <2>1, <3>1 DEF Follow, p
    <3>3. (Len(ahead) > 1 => ahead' # <<>> /\ Newest' = Newest)
          /\ (Len(ahead) = 1 => ahead' = <<>> /\ Newest = stack)
      BY <1>2, <3>1, <3>2, AheadTail
    <3>4. ahead' = <<>> => AtWalk
      BY <1>2, <2>1, <3>1, <3>3, VisitedLast DEF Path, RunInv, Calls
    <3> QED
      BY <1>2, <1>5, <2>1, <2>2, <3>1, <3>3, <3>4, VisitedLast
  <2> QED
    BY <2>3, <2>4
<1>10. CASE exec_call(p)
  <2> DEFINE q == <<Instr(p).to, 1, 0>>
             c == SetTop(stack, After(p))
  <2>1. /\ Run(p) /\ mode = "run" /\ mode' = "run" /\ p[3] > 0 /\ Executed(p)
        /\ Instr(p).op \in Calls /\ stack' = Append(c, q) /\ UNCHANGED <<saved, inFunction>>
    BY <1>10 DEF exec_call, Run, walkVars
  <2>2. /\ ahead # <<>> /\ ahead[1].stack = stack /\ ahead' = Tail(ahead)
        /\ Op(stack) \in Calls
    BY <1>2, <2>1, ExecFacts DEF Calls
  <2>3. Len(ahead) = 1
    BY <1>2, <2>2, VisitedLast DEF Passes, Calls
  <2>4. ahead' = <<>> /\ Newest = stack
    BY <1>2, <2>2, <2>3, AheadTail
  <2>5. inFunction' = Lagging'
    BY <1>2, <2>1, <2>2, <2>4, CountingFacts, SameActive
  <2>6. c \in Seq(Places) /\ q \in Places
    <3>1. InBlock(q)
      BY <1>1, <1>2, <2>1, CodeFacts
    <3> QED
      BY <1>1, <1>4, <3>1 DEF InBlock, OfBlock
  <2>7. q[3] = 0
    OBVIOUS
  <2> HIDE DEF c, q
  <2>8. Top(stack')[3] = 0
    BY <2>1, <2>6, <2>7, AppendFacts
  <2> QED
    BY <1>6, <2>1, <2>4, <2>5, <2>8
<1>11. CASE exec_br(p)
  <2>1. /\ Run(p) /\ mode = "run" /\ mode' = "run" /\ p[3] > 0 /\ Executed(p)
        /\ Instr(p).op = "br" /\ UNCHANGED inFunction
    BY <1>11 DEF exec_br, Run, walkVars
  <2>2. PICK b \in Instr(p).to : stack' = SetTop(stack, <<p[1], b, 0>>)
    BY <1>11 DEF exec_br
  <2>3. <<p[1], b, 0>> \in Places
    BY <1>1, <1>2, <2>1, CodeFacts DEF InBlock, OfBlock
  <2>4. /\ ahead # <<>> /\ ahead[1].stack = stack /\ ahead' = Tail(ahead)
        /\ Op(stack) = "br"
    BY <1>2, <2>1, ExecFacts
  <2>5. Len(ahead) = 1
    BY <1>2, <2>4, VisitedLast DEF Passes
  <2>6. ahead' = <<>> /\ Newest = stack
    BY <1>2, <2>4, <2>5, AheadTail
  <2>7. inFunction = Active(stack)
    BY <2>1, <2>4, <2>6, CountingFacts
  <2>8. Top(stack') = <<p[1], b, 0>> /\ Active(stack') = Active(stack)
    BY <1>4, <2>2, <2>3
  <2>9. inFunction' = Active(stack)'
    BY <1>2, <2>1, <2>7, <2>8, SameActive
  <2> QED
    BY <1>6, <2>1, <2>6, <2>8, <2>9
<1>12. CASE exec_ret(p)
  <2>1. /\ Run(p) /\ mode = "run" /\ p[3] > 0 /\ Executed(p)
        /\ Instr(p).op = "ret" /\ UNCHANGED walkVars
    BY <1>12 DEF exec_ret, Run
  <2>2. CASE Len(stack) = 1
    <3>1. mode' = "done"
      BY <1>12, <2>2 DEF exec_ret
    <3> QED
      BY <3>1 DEF FunctionInv
  <2>3. CASE Len(stack) # 1
    <3>1. /\ ahead # <<>> /\ ahead[1].stack = stack /\ ahead' = Tail(ahead)
          /\ Op(stack) = "ret"
      BY <1>2, <2>1, ExecFacts
    <3>2. stack' = Follow(stack) /\ mode' = "run" /\ stack' = Pop(stack)
      BY <1>12, <2>1, <2>3, <3>1 DEF exec_ret, Follow
    <3>3. (Len(ahead) > 1 => ahead' # <<>> /\ Newest' = Newest)
          /\ (Len(ahead) = 1 => ahead' = <<>> /\ Newest = stack)
      BY <1>2, <3>1, <3>2, AheadTail
    <3>4. ahead' = <<>> => AtWalk
      BY <1>2, <2>1, <2>3, <3>1, <3>3, VisitedLast DEF Path, RunInv, Calls
    <3>5. Top(stack')[3] # 0
      <4>1. Len(stack) > 1
        <5>1. Len(stack) \in Nat \ {0}
          BY <1>1
        <5>2. \A n \in Nat \ {0} : n # 1 => n > 1
          OBVIOUS
        <5> QED
          BY <2>3, <5>1, <5>2, Zenon
      <4>2. Top(Pop(stack))[3] > 1
        BY <1>1, <4>1, StackSteps
      <4> QED
        BY <3>2, <4>2
    <3> QED
      BY <1>2, <1>5, <2>1, <3>1, <3>2, <3>3, <3>4, <3>5, VisitedLast
  <2> QED
    BY <2>2, <2>3
<1> QED
  BY <1>7, <1>8, <1>9, <1>10, <1>11, <1>12 DEF Native, p

LEMMA AnalysisCounting ==
    ASSUME Counting, Analysis
    PROVE  FunctionInv'
<1>1. /\ stack \in Seq(Places) /\ stack # <<>> /\ Top(stack) \in Places /\ InBlock(Top(stack))
      /\ saved \in Seq(Places) /\ cursor \in Places /\ After(cursor) \in Places
      /\ After(cursor)[1] = cursor[1]
      /\ Walk \in Seq(Places) /\ Walk # <<>> /\ Top(Walk) = cursor /\ Pop(Walk) = saved
  BY ContextFacts, PlaceFacts DEF Counting
<1>2. /\ SetupInv /\ UNCHANGED setup /\ Followed(setup) /\ Context /\ Path
      /\ AheadInv /\ IterInv /\ HookInv /\ Decoupled /\ MpiMap /\ Include # {}
  BY DEF Counting, Context, Path
<1>4. /\ Active(stack) \in Nat /\ Active(Walk) \in Nat /\ Active(saved) \in Nat
      /\ Active(Walk) = IF Active(saved) > 0 THEN Active(saved) + 1
                        ELSE IF Counted(cursor[1], saved) THEN 1 ELSE 0
  BY <1>1, ActiveFacts
<1>5. ASSUME mode' = "iter", inFunction' = Active(Walk') PROVE FunctionInv'
  BY <1>2, <1>5, SameActive DEF FunctionInv
<1>6. mode = "hook" => Walk' = Append(saved', cursor') /\ stack = Append(saved, Top(stack)) /\ saved = Pop(stack)
  BY <1>1, <1>2, StackFacts DEF HookInv, Walk
<1>7. Append(saved, After(cursor)) \in Seq(Places) /\ Append(saved, After(cursor)) # <<>>
      /\ Active(Append(saved, After(cursor))) = Active(Walk)
  <2> DEFINE d == Append(saved, After(cursor))
  <2>1. d \in Seq(Places) /\ d # <<>> /\ Top(d) = After(cursor) /\ Pop(d) = saved
    BY <1>1, AppendFacts
  <2> HIDE DEF d
  <2>2. Active(d) = Active(Walk)
    BY <1>1, <2>1, ActiveSame
  <2> QED
    BY <2>1, <2>2 DEF d
<1>8. CASE basicblock_notification
  <2> DEFINE f == Top(stack)[1]
  <2>1. /\ mode = "hook" /\ mode' = "iter" /\ hook.kind = "bb" /\ hook.at = Top(stack)
        /\ inFunction' = in_function_at_block(f) /\ cursor' = Top(stack) /\ UNCHANGED saved
    BY <1>2, <1>8 DEF basicblock_notification, HookInv
  <2>2. inFunction \in {Active(stack), Lagging}
    BY <2>1, CountingFacts
  <2>3. Walk' = stack /\ saved = Pop(stack)
    BY <1>6, <2>1
  <2>4. Active(stack) = IF Active(saved) > 0 THEN Active(saved) + 1
                        ELSE IF Counted(f, saved) THEN 1 ELSE 0
    BY <1>1, <2>3, ActiveFacts
  <2>5. Active(stack) > 0 => in_included(f, saved)
    BY <1>1, <2>3, ActiveIncluded
  <2> HIDE DEF f
  <2>6. in_function_at_block(f) = Active(stack)
    <3>1. CASE Active(saved) > 0
      <4>1. inFunction = Active(saved) + 1 /\ in_included(f, saved)
        BY <1>4, <2>2, <2>4, <2>5, <3>1 DEF Lagging
      <4> QED
        BY <1>2, <1>4, <2>4, <3>1, <4>1 DEF in_function_at_block
    <3>2. CASE Active(saved) = 0 /\ Counted(f, saved)
      <4>1. inFunction \in {0, 1} /\ in_included(f, saved) /\ Active(stack) = 1
        BY <2>2, <2>4, <2>5, <3>2 DEF Lagging
      <4> QED
        BY <1>2, <3>2, <4>1 DEF in_function_at_block
    <3>3. CASE Active(saved) = 0 /\ ~Counted(f, saved)
      <4>1. inFunction = 0 /\ Active(stack) = 0
        BY <2>2, <2>4, <3>3 DEF Lagging
      <4> QED
        BY <1>2, <3>3, <4>1 DEF in_function_at_block
    <3> QED
      BY <1>4, <3>1, <3>2, <3>3
  <2> QED
    BY <1>5, <2>1, <2>3, <2>6
<1>9. ASSUME mode = "hook", hook.kind # "bb", Resume(hook.at) PROVE FunctionInv'
  <2>1. cursor' = Top(stack) /\ UNCHANGED <<saved, inFunction>>
    BY <1>2, <1>9 DEF Resume, resume_at, HookInv
  <2>2. mode' = "iter"
    BY <1>1, <1>9, <2>1 DEF Resume, InBlock
  <2>3. inFunction = Active(stack) /\ Walk' = stack
    BY <1>6, <1>9, <2>1, CountingFacts
  <2> QED
    BY <1>5, <2>1, <2>2, <2>3
<1>10. CASE mem_addr_notification
  BY <1>9, <1>10 DEF mem_addr_notification
<1>11. CASE mpi_call_notification
  BY <1>9, <1>11 DEF mpi_call_notification
<1>12. CASE iter_intrinsic
  <2>1. /\ mode = "iter" /\ mode' = "iter" /\ UNCHANGED inFunction
        /\ Walk' = Append(saved, After(cursor))
    BY <1>12 DEF iter_intrinsic, next_inst, Walk
  <2> QED
    BY <1>5, <1>7, <2>1, CountingFacts
<1>13. CASE iter_load_store
  <2>1. /\ mode = "iter" /\ mode' = "run" /\ ~AtEnd(cursor) /\ Instr(cursor).op = "mem"
        /\ UNCHANGED <<stack, cursor, saved, inFunction, ahead>>
    BY <1>13 DEF iter_load_store, walkVars
  <2>2. AtWalk'
    <3>1. AtWalk
      BY <1>2, <2>1, AtInstruction
    <3> QED
      BY <1>2, <2>1, <3>1, SameProgram DEF AtWalk, Walk, Newest
  <2>3. ahead' # <<>> => Passes(Newest)'
    BY <2>2 DEF AtWalk
  <2>4. ahead' = <<>> => (Top(stack)[3] > 0)'
    BY <2>2 DEF AtWalk, Reaches, Over
  <2>5. inFunction' = Active(Walk)'
    BY <1>2, <2>1, CountingFacts, SameActive DEF Walk
  <2> QED
    BY <2>1, <2>3, <2>4, <2>5 DEF FunctionInv, Passes, Calls
<1>14. CASE iter_call
  <2>1. /\ mode = "iter" /\ mode' = "run" /\ ~AtEnd(cursor) /\ ResolvesCall(Instr(cursor))
        /\ inFunction' = in_function_called /\ saved' = Append(saved, After(cursor))
        /\ last' \in {"call", "icall"}
    BY <1>14 DEF iter_call, ResolvesCall
  <2>2. inFunction = Active(Walk) /\ Active(saved') = Active(Walk)
    BY <1>7, <2>1, CountingFacts
  <2>3. inFunction' = Lagging'
    <3>1. Lagging' = IF Active(Walk) = 0 THEN 0 ELSE Active(Walk) + 1
      BY <1>2, <2>2, SameActive DEF Lagging
    <3> QED
      BY <1>2, <1>4, <2>1, <2>2, <3>1 DEF in_function_called
  <2>4. AtWalk /\ due = <<>>
    BY <1>2, <2>1, AtInstruction
  <2>5. ahead' # <<>> /\ Newest' = Walk
    BY <1>2, <1>14, <2>1, <2>4, AheadAppend DEF iter_call, ResolvesCall
  <2>6. Op(Newest)' \in Calls
    BY <1>1, <1>2, <2>1, <2>5, SameProgram DEF Op, Calls, ResolvesCall
  <2>7. ~AtWalk'
    BY <2>5, <2>6 DEF AtWalk, Passes, Calls
  <2> QED
    BY <2>1, <2>3, <2>5, <2>6, <2>7 DEF FunctionInv, Calls
<1>15. CASE iter_other
  <2>1. /\ mode = "iter" /\ ~AtEnd(cursor) /\ Instr(cursor).op \notin {"llvm", "mem"}
        /\ Analyse(cursor)
        /\ mode' = (IF StopsAtMPI(Instr(cursor)) THEN "run" ELSE "iter")
        /\ cursor' = After(cursor) /\ UNCHANGED <<stack, saved, inFunction>>
    BY <1>15 DEF iter_other
  <2>2. inFunction = Active(Walk)
    BY <2>1, CountingFacts
  <2>3. CASE mode' = "iter"
    <3>1. Walk' = Append(saved, After(cursor))
      BY <2>1 DEF Walk
    <3> QED
      BY <1>5, <1>7, <2>1, <2>2, <2>3, <3>1
  <2>4. CASE mode' = "run"
    <3>1. Instr(cursor).op = "mpi"
      BY <2>1, <2>4 DEF StopsAtMPI
    <3>2. AtWalk /\ due = <<>>
      BY <1>2, <2>1, AtInstruction
    <3>3. ahead' # <<>> /\ Newest' = Walk
      BY <1>2, <2>1, <3>2, AheadAppend
    <3>4. Op(Newest)' = "mpi"
      BY <1>1, <1>2, <3>1, <3>3, SameProgram DEF Op
    <3>5. ~AtWalk'
      BY <3>3, <3>4 DEF AtWalk, Passes
    <3>6. inFunction' = Active(Newest)'
      BY <1>2, <2>1, <2>2, <3>3, SameActive
    <3> QED
      BY <2>4, <3>3, <3>4, <3>5, <3>6 DEF FunctionInv, Calls
  <2> QED
    BY <2>1, <2>3, <2>4
<1>16. CASE iter_return
  <2> DEFINE q == Top(saved)
  <2>1. /\ mode = "iter" /\ mode' = "iter" /\ saved # <<>>
        /\ cursor' = q /\ saved' = Pop(saved)
        /\ inFunction' = in_function_returned(q)
    BY <1>16 DEF iter_return, saved_popped
  <2>2. inFunction = Active(Walk) /\ Walk' = saved
    BY <1>1, <2>1, CountingFacts, StackFacts DEF Walk
  <2>3. /\ Active(saved) > 0 => in_included(q[1], Pop(saved))
        /\ Active(saved) = 0 /\ Counted(cursor[1], saved) => ~in_included(q[1], Pop(saved))
    BY <1>1, <2>1, ActiveIncluded
  <2> HIDE DEF q
  <2>4. in_function_returned(q) = Active(saved)
    <3>1. CASE Active(saved) > 0
      BY <1>2, <1>4, <2>2, <2>3, <3>1 DEF in_function_returned
    <3>2. CASE Active(saved) = 0
      BY <1>2, <1>4, <2>2, <2>3, <3>2 DEF in_function_returned
    <3> QED
      BY <1>4, <3>1, <3>2
  <2> QED
    BY <1>5, <2>1, <2>2, <2>4
<1>17. CASE iter_block_end
  <2>1. /\ mode = "iter" /\ mode' = "run" /\ AtEnd(cursor) /\ (saved = <<>> \/ last # "ret")
        /\ UNCHANGED <<stack, saved, inFunction, ahead>>
    BY <1>17 DEF iter_block_end, walkVars
  <2>2. /\ ahead # <<>> /\ Op(Newest) \in {"br", "ret"} /\ last = Op(Newest)
        /\ saved = Pop(Newest) /\ cursor = After(Top(Newest))
    BY <1>2, <2>1, AtBlockEnd
  <2>3. Newest \in Seq(Places) /\ Newest # <<>> /\ Top(Newest) \in Places
    BY <1>2, <2>2, NewestFacts, StackSteps
  <2>4. Active(Newest) = Active(Walk)
    <3>1. Top(Newest)[1] = Top(Walk)[1]
      BY <1>1, <2>2, <2>3, PlaceFacts
    <3> QED
      BY <1>1, <2>2, <2>3, <3>1, ActiveSame
  <2>5. Newest' = Newest /\ Op(Newest)' = Op(Newest) /\ Passes(Newest)' = Passes(Newest)
    BY <1>2, <2>1, SameProgram DEF Newest
  <2>6. ~Passes(Newest)
    <3>1. CASE Op(Newest) = "br"
      BY <3>1 DEF Passes
    <3>2. CASE Op(Newest) = "ret"
      <4>1. Len(Newest) \in Nat /\ Len(saved) = Len(Newest) - 1 /\ Len(saved) = 0
        BY <2>1, <2>2, <2>3, <3>2, StackFacts
      <4>2. ~(Len(Newest) > 1)
        BY <4>1
      <4> QED
        BY <3>2, <4>2 DEF Passes
    <3> QED
      BY <2>2, <3>1, <3>2
  <2>7. inFunction' = Active(Newest)'
    BY <1>2, <2>1, <2>4, <2>5, CountingFacts, SameActive
  <2> QED
    BY <2>1, <2>2, <2>5, <2>6, <2>7 DEF FunctionInv, AtWalk, Calls
<1> QED
  BY <1>8, <1>10, <1>11, <1>12, <1>13, <1>14, <1>15, <1>16, <1>17 DEF Analysis

-----------------------------------------------------------------------------

LEMMA InitInv == Init => Inv
<1> SUFFICES ASSUME Init PROVE Inv
  OBVIOUS
<1>1. TypeInv
  BY InitType
<1>2. /\ mode = "run" /\ ahead = <<>> /\ saved = <<>> /\ due = <<>> /\ inFunction = 0
      /\ stack = << <<MainF, 1, 0>> >> /\ last = "none"
  BY DEF Init
<1>3. Top(stack)[3] = 0 /\ Pop(stack) = <<>>
  <2> DEFINE p == <<MainF, 1, 0>>
  <2>1. p \in Places /\ p[3] = 0
    BY MainAssumption DEF Places
  <2> HIDE DEF p
  <2>2. Append(<<>>, p) = <<p>> /\ <<>> \in Seq(Places)
    OBVIOUS
  <2>3. Top(<<p>>) = p /\ Pop(<<p>>) = <<>>
    BY <2>1, <2>2, AppendFacts
  <2> QED
    BY <1>2, <2>1, <2>3 DEF p
<1>4. PathInv
  BY <1>2, <1>3 DEF PathInv, AheadInv, IterInv, RunInv, HookInv, DueInv
<1>5. Lagging = 0
  <2>1. Inside(<<>>) = {}
    BY DEF Inside
  <2> QED
    BY <1>2, <2>1, FS_EmptySet DEF Lagging, Active
<1>6. ~AtWalk
  BY <1>2, <1>3 DEF AtWalk, Reaches, Over
<1>7. FunctionInv
  BY <1>2, <1>5, <1>6 DEF FunctionInv
<1> QED
  BY <1>1, <1>4, <1>7 DEF Inv

LEMMA InvStep ==
    ASSUME SetupInv, Inv, [Next]_vars
    PROVE  Inv'
<1>1. UNCHANGED setup
  BY DEF Next, vars
<1>2. TypeInv'
  BY TypeStep DEF Inv
<1>3. Followed(setup)' = Followed(setup) /\ Decoupled' = Decoupled /\ MpiMap' = MpiMap
      /\ Include' = Include
  BY <1>1, SameProgram DEF Decoupled, MpiMap, Include
<1>4. CASE UNCHANGED vars
  <2>1. /\ UNCHANGED <<stack, mode, hook, cursor, last, saved, inFunction, due, ahead>>
        /\ Walk' = Walk /\ Newest' = Newest
    BY <1>4 DEF vars, Walk, Newest
  <2>2. AtWalk' = AtWalk
    BY <1>1, <2>1, SameProgram DEF AtWalk
  <2>3. AheadInv' = AheadInv
    BY <1>1, <2>1, SameProgram DEF AheadInv
  <2>4. IterInv' = IterInv
    BY <1>1, <2>1, <2>2, SameProgram DEF IterInv
  <2>5. RunInv' = RunInv
    BY <1>1, <2>1, <2>2, SameProgram DEF RunInv
  <2>6. HookInv' = HookInv /\ DueInv' = DueInv
    BY <1>1, <2>1, SameProgram DEF HookInv, DueInv
  <2>7. PathInv'
    BY <1>3, <2>1, <2>3, <2>4, <2>5, <2>6 DEF Inv, PathInv
  <2>8. FunctionInv'
    BY <1>1, <1>3, <2>1, <2>2, SameProgram, SameActive DEF Inv, FunctionInv
  <2> QED
    BY <1>2, <2>7, <2>8 DEF Inv
<1>5. CASE Next
  <2>1. Followed(setup) => Context /\ Path
    BY <1>1 DEF Context, Path, Inv, PathInv
  <2>2. PathInv'
    BY <1>3, <1>5, <2>1, NativePath, AnalysisPath DEF Next, PathInv, Path
  <2>3. FunctionInv'
    <3>1. CASE Followed(setup) /\ Decoupled /\ MpiMap /\ Include # {}
      <4>1. Counting
        BY <2>1, <3>1 DEF Counting, Inv
      <4> QED
        BY <1>5, <4>1, NativeCounting, AnalysisCounting DEF Next
    <3>2. CASE ~(Followed(setup) /\ Decoupled /\ MpiMap /\ Include # {})
      BY <1>3, <3>2 DEF FunctionInv
    <3> QED
      BY <3>1, <3>2
  <2> QED
    BY <1>2, <2>2, <2>3 DEF Inv
<1> QED
  BY <1>4, <1>5

\* In every reachable state of the walk of iter_instructions beside the
\* program, the strengthened invariant holds.
THEOREM Invariance == Spec => [](SetupInv /\ Inv)
<1>1. Init => SetupInv /\ Inv
  BY InitType, InitInv
<1>2. SetupInv /\ Inv /\ [Next]_vars => (SetupInv /\ Inv)'
  BY InvStep, TypeStep DEF Inv
<1> QED
  BY <1>1, <1>2, PTL DEF Spec

\* The native stack, SavedStates, the hooks and inFunction keep their types,
\* for every program, also those that the walk cannot follow.
THEOREM TypeCorrect == Spec => []TypeOK
<1>1. TypeInv => TypeOK
  <2> SUFFICES ASSUME TypeInv PROVE TypeOK
    OBVIOUS
  <2>1. stack \in Seq(Places) /\ stack # <<>> /\ saved \in Seq(Places)
    BY DEF TypeInv, CallStack
  <2>2. \A c \in Seq(Places) : \A j \in 1..Len(c) : c[j][1] \in Funcs
    <3> SUFFICES ASSUME NEW c \in Seq(Places), NEW j \in 1..Len(c) PROVE c[j][1] \in Funcs
      OBVIOUS
    <3>1. c[j] \in Places
      OBVIOUS
    <3> QED
      BY <3>1, PlaceFacts
  <2>3. Len(stack) \in 1..MaxDepth
    <3>1. Len(stack) \in Nat /\ Len(stack) >= 1
      BY <2>1, StackFacts
    <3> QED
      BY <3>1, DepthAssumption DEF TypeInv
  <2> QED
    BY <2>1, <2>2, <2>3 DEF TypeInv, TypeOK
<1> QED
  BY <1>1, Invariance, PTL DEF Inv

\* While the program runs, the walk has visited exactly what was executed and
\* what will be executed next, in order, with the right call stack and the
\* right answer of the filters.
THEOREM WalkInStep == Spec => [](Followed(setup) => InStep)
<1>1. Inv => (Followed(setup) => InStep)
  BY DEF Inv, PathInv, DueInv, HookInv, InStep
<1> QED
  BY <1>1, Invariance, PTL

\* When main has returned, every instruction executed has been visited once
\* and nothing else has.
THEOREM VisitedOnce == Spec => [](Followed(setup) => ExactlyOnce)
<1>1. Inv => (Followed(setup) => ExactlyOnce)
  BY DEF Inv, PathInv, DueInv, ExactlyOnce
<1> QED
  BY <1>1, Invariance, PTL

\* Before a load or store only intrinsics can lie between the program and the
\* walk, and the walk stops at the first of them that is not one.
LEMMA WalkAtStop ==
    ASSUME SetupInv, Inv, Followed(setup), Rendezvous
    PROVE  /\ saved = Pop(stack)
           /\ Top(stack)[3] > 0 => AtWalk /\ Walk = stack
<1>1. /\ CallStack(stack) /\ stack \in Seq(Places) /\ stack # <<>>
      /\ saved \in Seq(Places) /\ cursor \in Places /\ ahead \in Seq(Visits)
  BY StackSteps DEF Inv, TypeInv, OfBlock, Visits
<1>2. Walk \in Seq(Places) /\ Walk # <<>> /\ Top(Walk) = cursor /\ Pop(Walk) = saved
  BY <1>1, AppendFacts DEF Walk
<1>3. mode = "run" /\ AheadInv /\ RunInv
  BY DEF Inv, PathInv, Rendezvous
<1>4. ahead = <<>>
  <2> SUFFICES ASSUME ahead # <<>> PROVE FALSE
    OBVIOUS
  <2>1. 1 \in 1..Len(ahead)
    BY <1>1
  <2>2. Visited(ahead[1]) /\ Reaches(stack, ahead[1].stack)
    BY <1>3, <2>1 DEF AheadInv
  <2>3. ahead[1].stack \in Seq(Places) /\ ahead[1].stack # <<>> /\ Op(ahead[1].stack) # "mem"
    BY <2>2 DEF Visited, CallStack
  <2>4. Top(stack)[3] > 0
    BY <1>1, <2>2, <2>3, ReachFacts
  <2>5. Op(stack) = "mem"
    BY <2>4 DEF Rendezvous, Op
  <2>6. stack = ahead[1].stack
    BY <1>1, <2>2, <2>3, <2>5, ReachFacts
  <2> QED
    BY <2>3, <2>5, <2>6
<1>5. CASE Top(stack)[3] = 0
  <2>1. saved = Pop(stack)
    BY <1>3, <1>4, <1>5 DEF RunInv, AtWalk, Reaches, Over
  <2> QED
    BY <1>5, <2>1
<1>6. CASE Top(stack)[3] # 0
  <2>1. AtWalk /\ Reaches(stack, Walk) /\ Op(stack) = "mem"
    BY <1>3, <1>4, <1>6 DEF RunInv, AtWalk, Rendezvous, Op
  <2>2. Walk = stack
    BY <1>1, <1>2, <2>1, ReachFacts
  <2> QED
    BY <1>2, <2>1, <2>2
<1> QED
  BY <1>5, <1>6

\* At the entry of a block and before a load or store, SavedStates is the
\* native call stack.
THEOREM StackMatches == Spec => [](Followed(setup) => StackMirrored)
<1>1. SetupInv /\ Inv => (Followed(setup) => StackMirrored)
  BY WalkAtStop DEF StackMirrored
<1> QED
  BY <1>1, Invariance, PTL

\* With -mpi-map and -include, inFunction is the number of active functions
\* from the outermost one inside the filters inwards, and the case that
\* server.cc:510 wants investigated does not arise.
THEOREM InFunctionCounts == Spec => [](Followed(setup) => InFunctionFollows)
<1>1. SetupInv /\ Inv => (Followed(setup) => InFunctionFollows)
  <2> SUFFICES ASSUME SetupInv, Inv, Followed(setup), Decoupled, MpiMap, Include # {}
               PROVE  /\ Rendezvous /\ Top(stack)[3] > 0 => inFunction = Cardinality(Inside(stack))
                      /\ mode = "hook" /\ hook.kind = "bb" /\ inFunction > 0
                            => in_included(hook.at[1], saved)
    BY DEF InFunctionFollows
  <2>1. stack \in Seq(Places) /\ stack # <<>>
    BY DEF Inv, TypeInv, CallStack
  <2>2. ASSUME Rendezvous, Top(stack)[3] > 0 PROVE inFunction = Cardinality(Inside(stack))
    <3>1. mode = "run" /\ AtWalk /\ Walk = stack
      BY <2>2, WalkAtStop DEF Rendezvous
    <3> QED
      BY <3>1 DEF Inv, FunctionInv, Active
  <2>3. ASSUME mode = "hook", hook.kind = "bb", inFunction > 0 PROVE in_included(hook.at[1], saved)
    <3>1. hook.at = Top(stack) /\ saved = Pop(stack)
      BY <2>3 DEF Inv, PathInv, HookInv
    <3>2. inFunction \in {Active(stack), Lagging}
      BY <2>3 DEF Inv, FunctionInv
    <3>3. /\ Active(saved) \in Nat /\ Active(stack) \in Nat
          /\ Active(saved) > 0 => Active(stack) = Active(saved) + 1
      BY <2>1, <3>1, ActiveFacts
    <3>4. Active(stack) > 0
      BY <2>3, <3>2, <3>3 DEF Lagging
    <3> QED
      BY <2>1, <3>1, <3>4, ActiveIncluded
  <2> QED
    BY <2>2, <2>3
<1> QED
  BY <1>1, Invariance, PTL
=============================================================================
