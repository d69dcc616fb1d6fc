------------------------------- MODULE Replay -------------------------------
(***************************************************************************)
(* How the analysis follows one thread of the instrumented program.        *)
(*                                                                         *)
(* The program runs natively and calls a hook at the start of each basic   *)
(* block (inst_notification), after each load or store (update_vars) and   *)
(* after the MPI calls the pass knows (mpi_update_db).  From these the     *)
(* library reconstructs which instructions are executed: iter_instructions *)
(* walks the block from the point of the hook, ahead of the program, until *)
(* it meets something only a later hook can tell, and keeps the positions  *)
(* behind pending calls in SavedStates.  The same walk exists twice: in    *)
(* libanalysisCoupled.cc, where a hook is a call, and in server.cc, where  *)
(* it is a message that queue_consumer handles (Decoupled).                *)
(*                                                                         *)
(* A place <<f, b, i>> is instruction i of block b of function f; i = 0 is *)
(* the entry of the block, before its inst_notification.                   *)
(***************************************************************************)
EXTENDS Naturals, Sequences, FiniteSets

CONSTANTS
    Funcs,       \* functions with a body in the module
    MainF,       \* the function main
    Setups,      \* the programs considered and how they are analysed:
                 \*   code       code[f][b][i] is the instruction [op, to]
                 \*              number i of block b of f
                 \*   decoupled  TRUE: server.cc, FALSE: libanalysisCoupled.cc
                 \*   mpiMap     option ANALYZE_MPI_MAP
                 \*   include    IncludeFunctions
                 \*   exclude    ExcludedFunctions
    MaxDepth     \* bound: depth of the native call stack

\* What the walk tells apart.  "icall" calls through a pointer that a load
\* produced, "pcall" through any other pointer, "back" is an external call
\* that calls back into the module.  "mpi" is an MPI call with a hook that
\* is_mpi_sync_call lists, "hooked" one that it does not (MPI_Waitall,
\* MPI_Ibcast...), "init" is MPI_Init.  "llvm" is an llvm.* intrinsic, "ext"
\* any other external call and "op" everything else.
Calls == {"call", "icall", "pcall", "back"}
Hooked == {"mem", "mpi", "hooked", "init"}
Ops == Calls \cup Hooked \cup {"llvm", "ext", "op", "br", "ret"}

\* The IR verifier: a block ends with its only branch or return, branches go
\* to blocks of the function and the callees have a body.
Places == Funcs \X Nat \X Nat
WellFormed(c) ==
    /\ MainF \in DOMAIN c /\ DOMAIN c \subseteq Funcs
    /\ \A f \in DOMAIN c :
         /\ 1 \in DOMAIN c[f] /\ DOMAIN c[f] \subseteq Nat
         /\ \A b \in DOMAIN c[f] :
              /\ Len(c[f][b]) \in Nat \ {0}
              /\ \A i \in 1..Len(c[f][b]) :
                   LET ins == c[f][b][i]
                   IN  /\ ins.op \in Ops
                       /\ ins.op \in {"br", "ret"} <=> i = Len(c[f][b])
                       /\ ins.op = "br" => ins.to \subseteq DOMAIN c[f]
                       /\ ins.op \in Calls => ins.to \in DOMAIN c

ASSUME SetupAssumption ==
    \A s \in Setups : /\ WellFormed(s.code)
                      /\ s.decoupled \in BOOLEAN /\ s.mpiMap \in BOOLEAN
                      /\ s.include \subseteq Funcs /\ s.exclude \subseteq Funcs
ASSUME DepthAssumption == MaxDepth \in Nat \ {0}
ASSUME MainAssumption == MainF \in Funcs

VARIABLES
    setup,       \* the setup of this execution, which never changes
    stack,       \* native call stack, return places; last: the next place
    mode,        \* "run" natively, "hook" called, "iter" walking, "done"
    hook,        \* the pending notification
    cursor,      \* BB and I of iter_instructions
    last,        \* opcode of last_processed_inst, "none" for NULL
    saved,       \* SavedStatesForThreads[thread_id]
    inFunction,  \* connection_data::inFunction (server.cc)
    due,         \* executed, but not yet visited by the walk
    ahead        \* visited by the walk and not executed yet (history): the call
                 \* stack up to the instruction and if it is to be analysed

vars == <<setup, stack, mode, hook, cursor, last, saved, inFunction, due, ahead>>
walkVars == <<cursor, last, saved, inFunction>>

code == setup.code
Decoupled == setup.decoupled
MpiMap == setup.mpiMap
Include == setup.include
Exclude == setup.exclude

Top(s) == s[Len(s)]
Pop(s) == SubSeq(s, 1, Len(s) - 1)
SetTop(s, p) == [s EXCEPT ![Len(s)] = p]
Instr(p) == code[p[1]][p[2]][p[3]]
AtEnd(p) == p[3] > Len(code[p[1]][p[2]])
After(p) == <<p[1], p[2], p[3] + 1>>

NoHook == [kind |-> "none", at |-> <<MainF, 1, 0>>]

Init ==
    /\ setup \in Setups
    /\ stack = << <<MainF, 1, 0>> >>
    /\ mode = "run"
    /\ hook = NoHook
    /\ cursor = <<MainF, 1, 0>>
    /\ last = "none"
    /\ saved = <<>>
    /\ inFunction = 0
    /\ due = <<>>
    /\ ahead = <<>>

\* check_if_bb_is_in_included_functions, check_if_bb_is_in_excluded_functions:
\* the function of the block or one on the trace of calls is in the list.
Functions(trace) == {trace[j][1] : j \in 1..Len(trace)}
in_included(f, trace) == Include = {} \/ ({f} \cup Functions(trace)) \cap Include # {}
in_excluded(f, trace) == ({f} \cup Functions(trace)) \cap Exclude # {}
Counted(f, trace) == in_included(f, trace) /\ ~in_excluded(f, trace)

-----------------------------------------------------------------------------
(* The native program and the hooks the pass put into it.                  *)

\* Execution of the instruction at p, as the walk should visit it: once, with
\* this call stack, and analysed if the stack is inside the filters.
Executed(p) ==
    LET visit == [stack |-> stack, counted |-> Counted(p[1], stack)]
        known == ahead # <<>> /\ Head(ahead) = visit
    IN  IF Instr(p).op = "llvm" THEN UNCHANGED <<due, ahead>>
        ELSE IF known THEN ahead' = Tail(ahead) /\ UNCHANGED due
        ELSE due' = Append(due, visit) /\ UNCHANGED ahead

Run(p) == mode = "run" /\ p = Top(stack)

\* Entry of a block: inst_notification.
enter_block(p) ==
    /\ Run(p)
    /\ p[3] = 0
    /\ stack' = SetTop(stack, After(p))
    /\ hook' = [kind |-> "bb", at |-> After(p)]
    /\ mode' = "hook"
    /\ UNCHANGED <<walkVars, due, ahead>>

\* runOnModule counts the instructions of a block in i and gives i to the
\* hooks.  In the decoupled pass insertUpdateProcessID replaces MPI_Init by
\* one hook, and the two I++ that follow also pass over the instruction
\* behind it, which is not counted: it gets a hook only if it is an MPI
\* call, with the index of MPI_Init, and all later indices are one too low.
InitBefore(p) == \E j \in 1..(p[3] - 1) : code[p[1]][p[2]][j].op = "init"
Skipped(p) == p[3] > 1 /\ code[p[1]][p[2]][p[3] - 1].op = "init"
HookIndex(p) == IF Decoupled /\ InitBefore(p) THEN p[3] - 1 ELSE p[3]
HasHook(p) == /\ Instr(p).op \in Hooked
              /\ ~(Decoupled /\ Skipped(p) /\ Instr(p).op = "mem")

\* A load, store or MPI call, with its hook behind it.
exec_hooked(p) ==
    /\ Run(p)
    /\ p[3] > 0
    /\ Instr(p).op \in Hooked
    /\ Executed(p)
    /\ stack' = SetTop(stack, After(p))
    /\ IF HasHook(p)
       THEN /\ hook' = [kind |-> IF Instr(p).op = "mem" THEN "mem" ELSE "mpi",
                        at |-> <<p[1], p[2], HookIndex(p)>>]
            /\ mode' = "hook"
       ELSE UNCHANGED <<hook, mode>>
    /\ UNCHANGED walkVars

exec_plain(p) ==
    /\ Run(p)
    /\ p[3] > 0
    /\ Instr(p).op \in {"op", "ext", "llvm"}
    /\ Executed(p)
    /\ stack' = SetTop(stack, After(p))
    /\ UNCHANGED <<mode, hook, walkVars>>

\* A call that ends up in a function of the module.
exec_call(p) ==
    /\ Run(p)
    /\ p[3] > 0
    /\ Instr(p).op \in Calls
    /\ Len(stack) < MaxDepth
    /\ Executed(p)
    /\ stack' = Append(SetTop(stack, After(p)), <<Instr(p).to, 1, 0>>)
    /\ UNCHANGED <<mode, hook, walkVars>>

exec_br(p) ==
    /\ Run(p)
    /\ p[3] > 0
    /\ Instr(p).op = "br"
    /\ Executed(p)
    /\ \E b \in Instr(p).to : stack' = SetTop(stack, <<p[1], b, 0>>)
    /\ UNCHANGED <<mode, hook, walkVars>>

exec_ret(p) ==
    /\ Run(p)
    /\ p[3] > 0
    /\ Instr(p).op = "ret"
    /\ Executed(p)
    /\ IF Len(stack) = 1
       THEN mode' = "done" /\ UNCHANGED stack
       ELSE stack' = Pop(stack) /\ UNCHANGED mode
    /\ UNCHANGED <<hook, walkVars>>

Native == LET p == Top(stack) IN
    \/ enter_block(p)
    \/ exec_hooked(p)
    \/ exec_plain(p)
    \/ exec_call(p)
    \/ exec_br(p)
    \/ exec_ret(p)

-----------------------------------------------------------------------------
(* The analysis.                                                           *)

\* process_instr, if the filters let it through.
Analyse(p) ==
    LET visit == [stack |-> Append(saved, p), counted |-> Counted(p[1], saved)]
        late == due # <<>> /\ Head(due) = visit
    IN  IF late THEN due' = Tail(due) /\ UNCHANGED ahead
        ELSE ahead' = Append(ahead, visit) /\ UNCHANGED due

\* inFunction when a block starts, when the walk meets a call and when it
\* goes back to one.
in_function_at_block(f) ==
    IF ~(Decoupled /\ MpiMap) THEN inFunction
    ELSE CASE inFunction = 0 /\ Counted(f, saved)      -> 1
           [] inFunction > 0 /\ ~in_included(f, saved) -> 0
           [] OTHER                                    -> inFunction

in_function_called_m == inFunction             \* mutant: calls not counted
in_function_called ==
    IF Decoupled /\ Include # {} /\ inFunction >= 1 THEN inFunction + 1
    ELSE inFunction

in_function_returned_m(p) == inFunction - 1    \* mutant: not guarded
in_function_returned(p) ==
    LET n == IF Include # {} /\ inFunction > 1 THEN inFunction - 1
             ELSE inFunction
    IN  IF n = 1 /\ ~in_included(p[1], Pop(saved)) THEN 0 ELSE n

\* inst_notification and BASICBLOCK_NOTIFICATION.  With -mpi-map the server
\* notes here when the program enters and leaves the included functions.
basicblock_notification ==
    /\ mode = "hook" /\ hook.kind = "bb"
    /\ inFunction' = in_function_at_block(hook.at[1])
    /\ cursor' = hook.at
    /\ last' = "none"
    /\ mode' = "iter"
    /\ hook' = NoHook
    /\ UNCHANGED <<stack, saved, due, ahead>>

\* I++ behind the instruction of the hook
resume_at_m(p) == p                            \* mutant: no I++
resume_at(p) == After(p)

Resume(p) ==
    /\ hook' = NoHook
    /\ cursor' = resume_at(p)
    /\ last' = "none"
    /\ mode' = IF AtEnd(resume_at(p)) THEN "run" ELSE "iter"
    /\ UNCHANGED <<stack, saved, inFunction>>

\* update_vars and MEM_ADDR_NOTIFICATION: the load or store itself, then on.
mem_addr_notification ==
    /\ mode = "hook" /\ hook.kind = "mem"
    /\ Analyse(hook.at)
    /\ Resume(hook.at)

\* process_msg and MPI_CALL_NOTIFICATION: the call was analysed when the
\* walk met it; go on behind it.
mpi_call_notification ==
    /\ mode = "hook" /\ hook.kind = "mpi"
    /\ Resume(hook.at)
    /\ UNCHANGED <<due, ahead>>

\* The callee the walk knows: a direct one, and in the coupled library one
\* found through the address that the load of the pointer read.
ResolvesCall(ins) == ins.op = "call" \/ (ins.op = "icall" /\ ~Decoupled)

\* is_mpi_sync_call, which the server asks only with -mpi-map
StopsAtMPI_m(ins) == FALSE                     \* mutant: never asked
StopsAtMPI(ins) == ins.op = "mpi" /\ (Decoupled => MpiMap)

\* One turn of the loop of iter_instructions: an intrinsic (continue), a load
\* or store (the hook behind it goes on), a call into the module (push the
\* place behind it), anything else.
next_inst_m(p) == p                            \* mutant: I is not advanced
next_inst(p) == After(p)

iter_intrinsic ==
    /\ mode = "iter" /\ ~AtEnd(cursor)
    /\ Instr(cursor).op = "llvm"
    /\ cursor' = next_inst(cursor)
    /\ UNCHANGED <<stack, mode, hook, last, saved, inFunction, due, ahead>>

iter_load_store ==
    /\ mode = "iter" /\ ~AtEnd(cursor)
    /\ Instr(cursor).op = "mem"
    /\ mode' = "run"
    /\ UNCHANGED <<stack, hook, walkVars, due, ahead>>

iter_call ==
    /\ mode = "iter" /\ ~AtEnd(cursor)
    /\ ResolvesCall(Instr(cursor))
    /\ Analyse(cursor)
    /\ last' = Instr(cursor).op
    /\ saved' = Append(saved, After(cursor))
    /\ inFunction' = in_function_called
    /\ mode' = "run"
    /\ UNCHANGED <<stack, hook, cursor>>

iter_other ==
    /\ mode = "iter" /\ ~AtEnd(cursor)
    /\ LET ins == Instr(cursor) IN
       /\ ins.op \notin {"llvm", "mem"} /\ ~ResolvesCall(ins)
       /\ Analyse(cursor)
       /\ last' = ins.op
       /\ mode' = IF StopsAtMPI(ins) THEN "run" ELSE "iter"
       /\ cursor' = After(cursor)
    /\ UNCHANGED <<stack, hook, saved, inFunction>>

\* SavedStatesForThreads[thread_id].pop_back()
saved_popped_m == saved                        \* mutant: forgotten
saved_popped == Pop(saved)

\* The end of the block: after a ret, the walk goes on behind the call that
\* was interrupted last.
iter_return ==
    /\ mode = "iter" /\ AtEnd(cursor)
    /\ saved # <<>> /\ last = "ret"
    /\ cursor' = Top(saved)
    /\ saved' = saved_popped
    /\ last' = "none"
    /\ inFunction' = in_function_returned(Top(saved))
    /\ UNCHANGED <<stack, mode, hook, due, ahead>>

iter_block_end ==
    /\ mode = "iter" /\ AtEnd(cursor)
    /\ saved = <<>> \/ last # "ret"
    /\ mode' = "run"
    /\ UNCHANGED <<stack, hook, walkVars, due, ahead>>

Analysis ==
    \/ basicblock_notification
    \/ mem_addr_notification
    \/ mpi_call_notification
    \/ iter_intrinsic
    \/ iter_load_store
    \/ iter_call
    \/ iter_other
    \/ iter_return
    \/ iter_block_end

Next == (Native \/ Analysis) /\ UNCHANGED setup
Spec == Init /\ [][Next]_vars /\ WF_vars(Analysis /\ UNCHANGED setup)

-----------------------------------------------------------------------------

\* The variables have their types.
TypeOK ==
    /\ \A j \in 1..Len(stack) : stack[j][1] \in Funcs
    /\ Len(stack) \in 1..MaxDepth
    /\ mode \in {"run", "hook", "iter", "done"}
    /\ hook.kind \in {"none", "bb", "mem", "mpi"}
    /\ last \in Ops \cup {"none"}
    /\ \A j \in 1..Len(saved) : saved[j][1] \in Funcs
    /\ inFunction \in Nat

\* Whenever the program runs, the walk (iter_instructions) has visited every
\* instruction that was executed, once, in order, with the call stack it was
\* executed with and analysed if that is inside the filters: what was
\* visited and not executed is what the program executes next.
InStep ==
    /\ mode = "run" => due = <<>>
    /\ due = <<>> \/ ahead = <<>>

\* When main has returned, nothing else has been visited either.
ExactlyOnce == mode = "done" => due = <<>> /\ ahead = <<>>

\* A place where the walk waits for the program: the entry of a block or a
\* load or store.
Rendezvous == mode = "run" /\ (Top(stack)[3] = 0 \/ Instr(Top(stack)).op = "mem")

\* There SavedStates is the native call stack, return place by return place,
\* so the filters see the functions that really are active.
StackMirrored == Rendezvous => saved = Pop(stack)

\* With -mpi-map and -include, inFunction counts the active functions from
\* the outermost one inside the filters inwards, whenever a load or store is
\* about to execute; and the case that server.cc:510 wants investigated, a
\* block outside of the included functions while inFunction is positive, does
\* not arise.
Inside(trace) ==
    {j \in 1..Len(trace) : \E i \in 1..j : Counted(trace[i][1], SubSeq(trace, 1, i))}
InFunctionFollows ==
    Decoupled /\ MpiMap /\ Include # {} =>
    /\ Rendezvous /\ Top(stack)[3] > 0 => inFunction = Cardinality(Inside(stack))
    /\ mode = "hook" /\ hook.kind = "bb" /\ inFunction > 0
          => in_included(hook.at[1], saved)

\* A hook returns: the walk it starts comes to an end.
HooksReturn == (mode \in {"hook", "iter"}) ~> (mode = "run")

-----------------------------------------------------------------------------
(* Programs that the walk can follow, and the inductive invariant that     *)
(* shows that it does.                                                     *)

\* The walk does not stop at MPI_Init, at hooked MPI calls that
\* is_mpi_sync_call does not list or, in the server without -mpi-map, at any;
\* and there are callees it cannot know (README, further instances).
Followed(s) ==
    \A f \in DOMAIN s.code : \A b \in DOMAIN s.code[f] : \A i \in 1..Len(s.code[f][b]) :
        LET op == s.code[f][b][i].op
        IN  /\ op \notin {"pcall", "back", "hooked", "init"}
            /\ s.decoupled => op # "icall" /\ (op = "mpi" => s.mpiMap)

OfBlock(p) == p \in Places /\ p[1] \in DOMAIN code /\ p[2] \in DOMAIN code[p[1]]
InBlock(p) == OfBlock(p) /\ ~AtEnd(p)
CallStack(c) == /\ c \in Seq(Places) /\ c # <<>> /\ InBlock(Top(c))
                /\ \A j \in 1..Len(Pop(c)) : InBlock(Pop(c)[j]) /\ Pop(c)[j][3] > 1
Op(c) == Instr(Top(c)).op

\* The parts of the state are places of the program.
TypeInv ==
    /\ CallStack(stack) /\ Len(stack) <= MaxDepth
    /\ mode \in {"run", "hook", "iter", "done"}
    /\ hook.kind \in {"none", "bb", "mem", "mpi"}
    /\ mode = "hook" => hook.kind # "none" /\ InBlock(hook.at) /\ hook.at[3] > 0
    /\ OfBlock(cursor) /\ (mode = "iter" => cursor[3] > 0)
    /\ last \in Ops \cup {"none"}
    /\ saved \in Seq(Places) /\ \A j \in 1..Len(saved) : OfBlock(saved[j]) /\ saved[j][3] > 0
    /\ inFunction \in Nat
    /\ ahead \in Seq([stack : Seq(Places), counted : BOOLEAN])

\* From stack c the program gets to stack d over intrinsics alone.
Over(p, q) == /\ InBlock(q) /\ p[1] = q[1] /\ p[2] = q[2]
              /\ p[3] > 0 /\ p[3] <= q[3]
              /\ \A i \in p[3]..q[3] - 1 : Instr(<<p[1], p[2], i>>).op = "llvm"
Reaches(c, d) == Pop(c) = Pop(d) /\ Over(Top(c), Top(d))

\* The walk goes on behind the instruction of stack c, and where.
Passes(c) == Op(c) \in {"op", "ext"} \/ (Op(c) = "ret" /\ Len(c) > 1)
Follow(c) == IF Op(c) = "ret" THEN Pop(c) ELSE SetTop(c, After(Top(c)))

\* What was visited is a path that begins where the program is.
Visited(v) == /\ CallStack(v.stack) /\ Top(v.stack)[3] > 0 /\ Op(v.stack) \notin {"llvm", "mem"}
              /\ v = [stack |-> v.stack, counted |-> Counted(Top(v.stack)[1], v.stack)]
AheadInv ==
    /\ \A k \in 1..Len(ahead) : Visited(ahead[k])
    /\ ahead # <<>> => Reaches(stack, ahead[1].stack)
    /\ \A k \in 1..Len(ahead) - 1 :
          Passes(ahead[k].stack) /\ Reaches(Follow(ahead[k].stack), ahead[k + 1].stack)

Walk == Append(saved, cursor)
Newest == Top(ahead).stack
\* The walk is at the end of the path, with only intrinsics in between.
AtWalk == IF ahead = <<>> THEN Reaches(stack, Walk)
          ELSE Passes(Newest) /\ Reaches(Follow(Newest), Walk)

IterInv ==
    mode = "iter" =>
        \/ AtWalk /\ last # "ret"
        \/ /\ ahead # <<>> /\ Op(Newest) \in {"br", "ret"} /\ last = Op(Newest)
           /\ saved = Pop(Newest) /\ cursor = After(Top(Newest))
\* The program runs up to where the walk stopped.
RunInv ==
    mode = "run" =>
        \/ ahead = <<>> /\ Top(stack)[3] = 0 /\ saved = Pop(stack)
        \/ AtWalk /\ Instr(cursor).op = "mem"
        \/ /\ ahead # <<>>
           /\ \/ Op(Newest) \in Calls /\ saved = SetTop(Newest, After(Top(Newest)))
              \/ Op(Newest) \in {"mpi", "br"} /\ saved = Pop(Newest)
              \/ Op(Newest) = "ret" /\ Len(Newest) = 1
\* A hook finds the walk where the program is; only a load or store was
\* executed before it was visited.
HookInv ==
    mode = "hook" =>
        /\ ahead = <<>> /\ saved = Pop(stack) /\ Top(stack)[3] > 0
        /\ Top(stack) = IF hook.kind = "bb" THEN hook.at ELSE After(hook.at)
DueInv ==
    due = IF mode = "hook" /\ hook.kind = "mem"
          THEN << [stack |-> SetTop(stack, hook.at), counted |-> Counted(hook.at[1], stack)] >>
          ELSE <<>>

\* The walk and the program are on one path, for every program the walk can
\* follow.
PathInv == Followed(setup) =>
    /\ AheadInv /\ IterInv /\ RunInv /\ HookInv /\ DueInv
    /\ mode = "done" => ahead = <<>>

\* inFunction is the count for the place the walk has got to.  At the call of
\* an included function it lags behind until the first block of the callee.
Active(trace) == Cardinality(Inside(trace))
Lagging == IF Active(saved) = 0 THEN 0 ELSE Active(saved) + 1
FunctionInv ==
    Followed(setup) /\ Decoupled /\ MpiMap /\ Include # {} =>
    /\ (mode = "hook" /\ hook.kind = "bb") \/ (mode = "run" /\ Top(stack)[3] = 0 /\ ahead = <<>>)
          => inFunction \in {Active(stack), Lagging}
    /\ mode = "hook" /\ hook.kind # "bb" => inFunction = Active(stack)
    /\ mode = "iter" \/ (mode = "run" /\ AtWalk) => inFunction = Active(Walk)
    /\ mode = "run" /\ ahead # <<>> /\ Op(Newest) \in Calls => inFunction = Lagging
    /\ mode = "run" /\ ahead # <<>> /\ Op(Newest) \in {"mpi", "br"}
          => inFunction = Active(Newest)

Inv == TypeInv /\ PathInv /\ FunctionInv
=============================================================================
