--------------------------- MODULE ExecutorProofs ---------------------------
(***************************************************************************)
(* Proofs about executions, for any number of worker threads, observers,   *)
(* logical tasks, executions and exceptions.                               *)
(***************************************************************************)
EXTENDS Executor, FiniteSetTheorems, SequenceTheorems, TLAPS

MainPlaces ==
  {"construct", "create", "start", "join", "global_cancel", "profile", "exit"}

WorkerPlaces ==
  {"initialize", "loop", "take", "prepare", "run", "cancel", "finalize",
   "caught_cancel", "caught_finalize", "exit"}

Settings ==
  [graph : Graphs \cup {None}, workers : 1 .. MaxWorkers, profiling : BOOLEAN,
   observers : Nat]

ExecTypeOK ==
  /\ settings \in Settings /\ ctx \in Settings
  /\ joinable \in BOOLEAN /\ waiting \in BOOLEAN
  /\ executions \in Nat /\ throws \in Nat
  /\ pc \in [Actors -> MainPlaces \cup WorkerPlaces]
  /\ idx \in [Actors -> Nat \ {0}]
  /\ initialized \in [Workers -> Seq(Nat)]
  /\ inits \in [Workers -> Seq(Nat)] /\ finals \in [Workers -> Seq(Nat)]
  /\ cancels \in [Actors -> SUBSET Nat]

LogicalTasks == 1 .. ctx.graph.logical_tasks

\* The worker threads that WorkerThread::run has started.
Started ==
  {w \in Workers :
     \/ pc[Main] = "start" /\ w < idx[Main] - 1
     \/ /\ pc[Main] \in {"join", "global_cancel", "profile"} \/ (pc[Main] = "exit" /\ joinable)
        /\ w < ctx.workers}

\* The executor thread has joined them.
Joined == pc[Main] \in {"global_cancel", "profile", "exit"}

MainOK ==
  /\ pc[Main] \in MainPlaces
  /\ pc[Main] # "exit" \/ waiting => joinable
  /\ joinable => settings.graph # None
  /\ joinable /\ pc[Main] # "construct" => ctx = settings
  /\ joinable => thrown = IF pc[Main] = "exit" THEN exception ELSE None
  /\ pc[Main] = "start" => idx[Main] <= ctx.workers + 1
  /\ pc[Main] = "global_cancel" =>
       /\ IsCancelled /\ idx[Main] <= ctx.graph.logical_tasks + 1
       /\ cancels[Main] = 1 .. idx[Main] - 1
  /\ pc[Main] = "profile" => ~IsCancelled
  /\ pc[Main] \notin {"global_cancel", "exit"} \/ ~joinable => cancels[Main] = {}
  /\ joinable /\ pc[Main] = "exit" /\ IsCancelled => cancels[Main] = LogicalTasks
  /\ IsCancelled => /\ exception[1] = executions
                    /\ joinable /\ pc[Main] \notin {"construct", "create"}

\* How far a worker has come with thread_local_cancel.
CancelOK(w) ==
  /\ cancels[w] \subseteq LogicalTasks
  /\ pc[w] \in {"cancel", "caught_cancel"} =>
       idx[w] <= ctx.graph.logical_tasks + 1 /\ 1 .. idx[w] - 1 \subseteq cancels[w]
  /\ pc[w] = "caught_finalize" => cancels[w] = LogicalTasks
  /\ pc[w] \in {"finalize", "exit"} => IsFinished \/ (IsCancelled /\ cancels[w] = LogicalTasks)
  /\ pc[w] \in {"cancel", "caught_cancel", "caught_finalize"} => IsCancelled

\* The first k observers in their order, and m of them in the reverse order.
Up(k) == [i \in 1 .. k |-> i]
Down(k, m) == [i \in 1 .. m |-> k + 1 - i]

\* How far a worker has come with its observers: the ones that wait to be
\* finalized are the ones initialized, without the ones finalized.
BracketOK(w) ==
  \E k, m \in Nat :
    /\ m <= k /\ k <= ctx.observers
    /\ inits[w] = Up(k) /\ finals[w] = Down(k, m) /\ initialized[w] = Up(k - m)
    /\ pc[w] \in {"initialize", "loop", "take", "prepare", "run", "cancel"} => m = 0
    /\ pc[w] = "initialize" => k = idx[w] - 1
    /\ pc[w] \in {"loop", "take", "prepare", "run", "cancel"} => k = ctx.observers
    /\ pc[w] = "exit" => m = k

WorkerOK(w) ==
  /\ pc[w] \in WorkerPlaces
  /\ w \notin Started =>
       pc[w] = "exit" /\ inits[w] = <<>> /\ finals[w] = <<>> /\ cancels[w] = {}
  /\ Joined => pc[w] = "exit"
  /\ w \in Started => CancelOK(w)
  /\ BracketOK(w)

ExecInv == ExecTypeOK /\ MainOK /\ \A w \in Workers : WorkerOK(w)

-----------------------------------------------------------------------------
(* Sequences of observers.                                                 *)

LEMMA UpFacts ==
  ASSUME NEW k \in Nat
  PROVE  /\ Up(k) \in Seq(Nat) /\ Len(Up(k)) = k
         /\ Append(Up(k), k + 1) = Up(k + 1)
         /\ Up(k) = <<>> <=> k = 0
         /\ k > 0 => Front(Up(k)) = Up(k - 1) /\ Last(Up(k)) = k
  <1>1. Up(k) \in Seq(Nat) /\ Len(Up(k)) = k
    BY DEF Up
  <1>2. Append(Up(k), k + 1) = Up(k + 1)
    BY DEF Up
  <1>3. Up(k) = <<>> <=> k = 0
    BY <1>1
  <1>4. k > 0 => Front(Up(k)) = Up(k - 1) /\ Last(Up(k)) = k
    BY <1>1 DEF Up, Front, Last
  <1> QED BY <1>1, <1>2, <1>3, <1>4

LEMMA DownFacts ==
  ASSUME NEW k \in Nat, NEW m \in Nat, m <= k
  PROVE  /\ Down(k, m) \in Seq(Nat) /\ Len(Down(k, m)) = m
         /\ m < k => Append(Down(k, m), k - m) = Down(k, m + 1)
         /\ Down(k, 0) = <<>>
  <1>1. Down(k, m) \in Seq(Nat) /\ Len(Down(k, m)) = m
    BY DEF Down
  <1>2. m < k => Append(Down(k, m), k - m) = Down(k, m + 1)
    BY DEF Down
  <1>3. Down(k, 0) = <<>>
    BY DEF Down
  <1> QED BY <1>1, <1>2, <1>3

LEMMA DownNone ==
  ASSUME NEW k \in Nat
  PROVE  Down(k, 0) = <<>>
  BY DEF Down

LEMMA UpPrefix ==
  ASSUME NEW k \in Nat, NEW n \in Nat, k <= n
  PROVE  IsPrefix(Up(k), Up(n))
  <1>1. Len(Up(k)) = k /\ Len(Up(n)) = n
    BY UpFacts
  <1>2. SubSeq(Up(k), 1, k) = SubSeq(Up(n), 1, k)
    BY DEF Up
  <1> QED BY <1>1, <1>2 DEF IsPrefix

LEMMA DownPrefix ==
  ASSUME NEW k \in Nat, NEW m \in Nat, m <= k
  PROVE  IsPrefix(Down(k, m), Reverse(Up(k)))
  <1>1. Len(Up(k)) = k
    BY UpFacts
  <1>2. Reverse(Up(k)) = [i \in 1 .. k |-> k + 1 - i]
    BY <1>1 DEF Reverse, Up
  <1>3. Len(Reverse(Up(k))) = k /\ Len(Down(k, m)) = m
    BY <1>2, DownFacts
  <1>4. SubSeq(Down(k, m), 1, m) = SubSeq(Reverse(Up(k)), 1, m)
    BY <1>2 DEF Down
  <1> QED BY <1>3, <1>4 DEF IsPrefix

LEMMA FrontFacts ==
  ASSUME NEW s \in Seq(Nat), s # <<>>
  PROVE  Front(s) \in Seq(Nat) /\ Last(s) \in Nat
  BY DEF Front, Last

-----------------------------------------------------------------------------
(* What every step of a worker has in common.                              *)

LEMMA ExecConstants ==
  /\ MaxWorkers \in Nat \ {0}
  /\ Workers \subseteq Nat /\ 0 \in Workers
  /\ Main \notin Workers /\ Main \in Actors /\ Workers \subseteq Actors
  /\ \A g \in Graphs : g.logical_tasks \in Nat
  BY ExecutorAssumption DEF Workers, Actors

\* The exception is a pair, so it is never None.
LEMMA Notified ==
  ASSUME ExecTypeOK
  PROVE  Exception # None /\ Exception[1] = executions
  BY ExecutorAssumption DEF ExecTypeOK, Exception

\* The updates that actions have in common keep the types.
LEMMA Typed ==
  ASSUME ExecTypeOK, NEW a \in Actors
  PROVE  /\ [idx EXCEPT ![a] = @ + 1] \in [Actors -> Nat \ {0}]
         /\ [idx EXCEPT ![a] = 1] \in [Actors -> Nat \ {0}]
         /\ [cancels EXCEPT ![a] = @ \cup {idx[a]}] \in [Actors -> SUBSET Nat]
         /\ throws + 1 \in Nat
         /\ \A place_ \in MainPlaces \cup WorkerPlaces :
              [pc EXCEPT ![a] = place_] \in [Actors -> MainPlaces \cup WorkerPlaces]
  <1>1. idx[a] \in Nat \ {0}
    BY DEF ExecTypeOK
  <1>2. [idx EXCEPT ![a] = @ + 1] \in [Actors -> Nat \ {0}]
    BY <1>1 DEF ExecTypeOK
  <1>3. [idx EXCEPT ![a] = 1] \in [Actors -> Nat \ {0}]
    BY DEF ExecTypeOK
  <1>4. [cancels EXCEPT ![a] = @ \cup {idx[a]}] \in [Actors -> SUBSET Nat]
    BY <1>1 DEF ExecTypeOK
  <1>5. throws + 1 \in Nat
    BY DEF ExecTypeOK
  <1>6. \A place_ \in MainPlaces \cup WorkerPlaces :
          [pc EXCEPT ![a] = place_] \in [Actors -> MainPlaces \cup WorkerPlaces]
    BY DEF ExecTypeOK
  <1> QED BY <1>2, <1>3, <1>4, <1>5, <1>6

\* A step of worker w leaves the user's state, the context and the state of
\* every other thread alone; it keeps the first exception, and completed tasks
\* stay completed.
WorkerMoves(w) ==
  /\ UNCHANGED <<settings, joinable, thrown, waiting, executions, ctx>>
  /\ pc[w] # "exit" /\ pc'[w] \in WorkerPlaces
  /\ exception' = exception \/ (exception = None /\ exception' = Exception)
  /\ IsFinished => IsFinished'
  /\ \A a \in Actors \ {w} : pc'[a] = pc[a] /\ idx'[a] = idx[a] /\ cancels'[a] = cancels[a]
  /\ \A v \in Workers \ {w} :
       initialized'[v] = initialized[v] /\ inits'[v] = inits[v] /\ finals'[v] = finals[v]

LEMMA OnInitializeMoves ==
  ASSUME ExecTypeOK, NEW w \in Workers, OnInitialize(w)
  PROVE  WorkerMoves(w) /\ ExecTypeOK'
  <1> USE ExecConstants
  <1>1. /\ UNCHANGED <<settings, joinable, thrown, waiting, executions, ctx, exception,
                       tasks, throws, finals, cancels>>
        /\ pc[w] = "initialize"
    BY DEF OnInitialize, user
  <1>2. CASE idx[w] <= ctx.observers
    <2>1. /\ initialized' = [initialized EXCEPT ![w] = Append(@, idx[w])]
          /\ inits' = [inits EXCEPT ![w] = Append(@, idx[w])]
          /\ idx' = [idx EXCEPT ![w] = @ + 1] /\ pc' = pc
      BY <1>2 DEF OnInitialize, NextTurn
    <2>2. WorkerMoves(w)
      BY <1>1, <2>1 DEF WorkerMoves, ExecTypeOK, IsFinished, WorkerPlaces
    <2>3. Append(initialized[w], idx[w]) \in Seq(Nat) /\ Append(inits[w], idx[w]) \in Seq(Nat)
      BY DEF ExecTypeOK
    <2>4. ExecTypeOK'
      BY <1>1, <2>1, <2>3, Typed DEF ExecTypeOK
    <2> QED BY <2>2, <2>4
  <1>3. CASE ~(idx[w] <= ctx.observers)
    <2>1. /\ pc' = [pc EXCEPT ![w] = "loop"] /\ idx' = [idx EXCEPT ![w] = 1]
          /\ UNCHANGED <<initialized, inits>>
      BY <1>3 DEF OnInitialize, Goto
    <2> QED BY <1>1, <2>1 DEF WorkerMoves, ExecTypeOK, IsFinished, WorkerPlaces, MainPlaces
  <1> QED BY <1>2, <1>3

LEMMA LoopMoves ==
  ASSUME ExecTypeOK, NEW w \in Workers, Loop(w)
  PROVE  WorkerMoves(w) /\ ExecTypeOK'
  <1> USE ExecConstants
  <1>1. /\ UNCHANGED <<settings, joinable, thrown, waiting, executions, ctx, exception,
                       tasks, throws, initialized, inits, finals, cancels>>
        /\ pc[w] = "loop"
    BY DEF Loop, user, calls
  <1>2. PICK place_ \in {"cancel", "finalize", "take"} :
          pc' = [pc EXCEPT ![w] = place_] /\ idx' = [idx EXCEPT ![w] = 1]
    BY DEF Loop, Goto
  <1>3. WorkerMoves(w)
    BY <1>1, <1>2 DEF WorkerMoves, ExecTypeOK, IsFinished, WorkerPlaces
  <1>4. ExecTypeOK'
    BY <1>1, <1>2, Typed DEF ExecTypeOK, WorkerPlaces
  <1> QED BY <1>3, <1>4

LEMMA TakeMoves ==
  ASSUME ExecTypeOK, NEW w \in Workers, TakeRunnableTask(w)
  PROVE  WorkerMoves(w) /\ ExecTypeOK'
  <1> USE ExecConstants
  <1>1. /\ UNCHANGED <<settings, joinable, thrown, waiting, executions, ctx, exception,
                       throws, initialized, inits, finals, cancels>>
        /\ pc[w] = "take"
    BY DEF TakeRunnableTask, user, calls
  <1>2. IsFinished => IsFinished'
    BY DEF TakeRunnableTask, IsFinished
  <1>3. PICK place_ \in {"prepare", "loop"} :
          pc' = [pc EXCEPT ![w] = place_] /\ idx' = [idx EXCEPT ![w] = 1]
    BY DEF TakeRunnableTask, Goto
  <1> QED BY <1>1, <1>2, <1>3 DEF WorkerMoves, ExecTypeOK, WorkerPlaces, MainPlaces

LEMMA PrepareMoves ==
  ASSUME ExecTypeOK, NEW w \in Workers, Prepare(w)
  PROVE  WorkerMoves(w) /\ ExecTypeOK'
  <1> USE ExecConstants
  <1>1. /\ UNCHANGED <<settings, joinable, thrown, waiting, executions, ctx, exception,
                       tasks, throws, initialized, inits, finals, cancels>>
        /\ pc[w] = "prepare"
        /\ pc' = [pc EXCEPT ![w] = "run"] /\ idx' = [idx EXCEPT ![w] = 1]
    BY DEF Prepare, user, calls, Goto
  <1> QED BY <1>1 DEF WorkerMoves, ExecTypeOK, IsFinished, WorkerPlaces, MainPlaces

LEMMA CompleteMoves ==
  ASSUME ExecTypeOK, NEW w \in Workers, Complete(w)
  PROVE  WorkerMoves(w) /\ ExecTypeOK'
  <1> USE ExecConstants
  <1>1. /\ UNCHANGED <<settings, joinable, thrown, waiting, executions, ctx, exception,
                       throws, initialized, inits, finals, cancels>>
        /\ pc[w] = "run"
        /\ pc' = [pc EXCEPT ![w] = "loop"] /\ idx' = [idx EXCEPT ![w] = 1]
        /\ tasks' = [tasks EXCEPT ![task[w]] = "done"]
    BY DEF Complete, user, calls, Goto
  <1>2. IsFinished => IsFinished'
    BY <1>1 DEF IsFinished
  <1> QED BY <1>1, <1>2 DEF WorkerMoves, ExecTypeOK, WorkerPlaces, MainPlaces

LEMMA ThreadLocalCancelMoves ==
  ASSUME ExecTypeOK, NEW w \in Workers, ThreadLocalCancel(w)
  PROVE  WorkerMoves(w) /\ ExecTypeOK'
  <1> USE ExecConstants
  <1>1. /\ UNCHANGED <<settings, joinable, thrown, waiting, executions, ctx, exception,
                       tasks, throws, initialized, inits, finals>>
        /\ pc[w] \in {"cancel", "caught_cancel"}
    BY DEF ThreadLocalCancel, user
  <1>2. CASE idx[w] <= ctx.graph.logical_tasks
    <2>1. /\ cancels' = [cancels EXCEPT ![w] = @ \cup {idx[w]}]
          /\ idx' = [idx EXCEPT ![w] = @ + 1] /\ pc' = pc
      BY <1>2 DEF ThreadLocalCancel, NextTurn
    <2>2. WorkerMoves(w)
      BY <1>1, <2>1 DEF WorkerMoves, ExecTypeOK, IsFinished, WorkerPlaces
    <2>3. ExecTypeOK'
      BY <1>1, <2>1, Typed DEF ExecTypeOK
    <2> QED BY <2>2, <2>3
  <1>3. CASE ~(idx[w] <= ctx.graph.logical_tasks)
    <2>1. PICK place_ \in {"finalize", "caught_finalize"} :
            pc' = [pc EXCEPT ![w] = place_] /\ idx' = [idx EXCEPT ![w] = 1]
      BY <1>3 DEF ThreadLocalCancel, Goto
    <2>2. cancels' = cancels
      BY <1>3 DEF ThreadLocalCancel
    <2>3. WorkerMoves(w)
      BY <1>1, <2>1, <2>2 DEF WorkerMoves, ExecTypeOK, IsFinished, WorkerPlaces
    <2>4. ExecTypeOK'
      BY <1>1, <2>1, <2>2, Typed DEF ExecTypeOK, WorkerPlaces
    <2> QED BY <2>3, <2>4
  <1> QED BY <1>2, <1>3

\* What on_finalize does to the lists, in or out of the handler.
LEMMA PopMoves ==
  ASSUME ExecTypeOK, NEW w \in Workers, initialized[w] # <<>>
  PROVE  /\ [initialized EXCEPT ![w] = Front(@)] \in [Workers -> Seq(Nat)]
         /\ [finals EXCEPT ![w] = Append(@, Last(initialized[w]))] \in [Workers -> Seq(Nat)]
  <1>1. Front(initialized[w]) \in Seq(Nat) /\ Last(initialized[w]) \in Nat
    BY FrontFacts DEF ExecTypeOK
  <1>2. Append(finals[w], Last(initialized[w])) \in Seq(Nat)
    BY <1>1 DEF ExecTypeOK
  <1> QED BY <1>1, <1>2 DEF ExecTypeOK

LEMMA OnFinalizeMoves ==
  ASSUME ExecTypeOK, NEW w \in Workers, OnFinalize(w)
  PROVE  WorkerMoves(w) /\ ExecTypeOK'
  <1> USE ExecConstants
  <1>1. /\ UNCHANGED <<settings, joinable, thrown, waiting, executions, ctx,
                       tasks, inits, cancels>>
        /\ pc[w] = "finalize" /\ initialized[w] # <<>>
        /\ initialized' = [initialized EXCEPT ![w] = Front(@)]
        /\ finals' = [finals EXCEPT ![w] = Append(@, Last(initialized[w]))]
    BY DEF OnFinalize, user
  <1>2. \/ pc' = pc /\ idx' = idx /\ exception' = exception /\ throws' = throws
        \/ /\ pc' = [pc EXCEPT ![w] = "caught_cancel"] /\ idx' = [idx EXCEPT ![w] = 1]
           /\ throws' = throws + 1
           /\ exception' = IF exception = None THEN Exception ELSE exception
    BY DEF OnFinalize, Goto, MayThrow, NotifyException
  <1>3. initialized' \in [Workers -> Seq(Nat)] /\ finals' \in [Workers -> Seq(Nat)]
    BY <1>1, PopMoves
  <1>4. WorkerMoves(w)
    BY <1>1, <1>2 DEF WorkerMoves, ExecTypeOK, IsFinished, WorkerPlaces
  <1>5. pc' \in [Actors -> MainPlaces \cup WorkerPlaces]
    BY <1>2 DEF ExecTypeOK, WorkerPlaces
  <1>6. idx' \in [Actors -> Nat \ {0}] /\ throws' \in Nat
    <2>1. idx' = idx \/ idx' = [idx EXCEPT ![w] = 1]
      BY <1>2
    <2>2. throws' = throws \/ throws' = throws + 1
      BY <1>2
    <2>3. idx \in [Actors -> Nat \ {0}] /\ throws \in Nat /\ w \in Actors
      BY DEF ExecTypeOK
    <2> QED BY <2>1, <2>2, <2>3
  <1>7. ExecTypeOK'
    BY <1>1, <1>3, <1>5, <1>6 DEF ExecTypeOK
  <1> QED BY <1>4, <1>7

LEMMA FlushMoves ==
  ASSUME ExecTypeOK, NEW w \in Workers, Flush(w)
  PROVE  WorkerMoves(w) /\ ExecTypeOK'
  <1> USE ExecConstants
  <1>1. /\ UNCHANGED <<settings, joinable, thrown, waiting, executions, ctx, exception,
                       tasks, throws, initialized, inits, finals, cancels>>
        /\ pc[w] = "finalize"
        /\ pc' = [pc EXCEPT ![w] = "exit"] /\ idx' = [idx EXCEPT ![w] = 1]
    BY DEF Flush, user, calls, Goto
  <1> QED BY <1>1 DEF WorkerMoves, ExecTypeOK, IsFinished, WorkerPlaces, MainPlaces

LEMMA ThrowMoves ==
  ASSUME ExecTypeOK, NEW w \in Workers, Throw(w)
  PROVE  WorkerMoves(w) /\ ExecTypeOK'
  <1> USE ExecConstants
  <1>1. /\ UNCHANGED <<settings, joinable, thrown, waiting, executions, ctx,
                       tasks, initialized, inits, finals>>
        /\ pc[w] \in {"initialize", "prepare", "run", "cancel"}
        /\ pc' = [pc EXCEPT ![w] = "caught_cancel"] /\ idx' = [idx EXCEPT ![w] = 1]
        /\ throws' = throws + 1
        /\ exception' = IF exception = None THEN Exception ELSE exception
    BY DEF Throw, user, Goto, MayThrow, NotifyException
  <1>2. cancels' = cancels \/ cancels' = [cancels EXCEPT ![w] = @ \cup {idx[w]}]
    BY DEF Throw
  <1>3. WorkerMoves(w)
    BY <1>1, <1>2 DEF WorkerMoves, ExecTypeOK, IsFinished, WorkerPlaces
  <1>4. pc' \in [Actors -> MainPlaces \cup WorkerPlaces]
    BY <1>1 DEF ExecTypeOK, WorkerPlaces
  <1>5. cancels' \in [Actors -> SUBSET Nat]
    <2>1. cancels \in [Actors -> SUBSET Nat] /\ idx[w] \in Nat /\ w \in Actors
      BY DEF ExecTypeOK
    <2> QED BY <1>2, <2>1
  <1>6. ExecTypeOK'
    BY <1>1, <1>4, <1>5 DEF ExecTypeOK
  <1> QED BY <1>3, <1>6

LEMMA CaughtThrowMoves ==
  ASSUME ExecTypeOK, NEW w \in Workers, CaughtThrow(w)
  PROVE  WorkerMoves(w) /\ ExecTypeOK'
  <1> USE ExecConstants
  <1>1. /\ UNCHANGED <<settings, joinable, thrown, waiting, executions, ctx,
                       tasks, initialized, inits, finals, pc>>
        /\ pc[w] = "caught_cancel"
        /\ idx' = [idx EXCEPT ![w] = @ + 1]
        /\ throws' = throws + 1
        /\ exception' = IF exception = None THEN Exception ELSE exception
        /\ cancels' = [cancels EXCEPT ![w] = @ \cup {idx[w]}]
    BY DEF CaughtThrow, user, NextTurn, MayThrow, NotifyException
  <1>2. WorkerMoves(w)
    BY <1>1 DEF WorkerMoves, ExecTypeOK, IsFinished, WorkerPlaces
  <1>3. ExecTypeOK'
    BY <1>1, Typed DEF ExecTypeOK, WorkerPlaces
  <1> QED BY <1>2, <1>3

LEMMA CaughtFinalizeMoves ==
  ASSUME ExecTypeOK, NEW w \in Workers, CaughtFinalize(w)
  PROVE  WorkerMoves(w) /\ ExecTypeOK'
  <1> USE ExecConstants
  <1>1. /\ UNCHANGED <<settings, joinable, thrown, waiting, executions, ctx,
                       tasks, inits, cancels>>
        /\ pc[w] = "caught_finalize"
    BY DEF CaughtFinalize, user
  <1>2. CASE initialized[w] # <<>>
    <2>1. /\ initialized' = [initialized EXCEPT ![w] = Front(@)]
          /\ finals' = [finals EXCEPT ![w] = Append(@, Last(initialized[w]))]
          /\ idx' = [idx EXCEPT ![w] = @ + 1] /\ pc' = pc
      BY <1>2 DEF CaughtFinalize, NextTurn
    <2>2. \/ exception' = exception /\ throws' = throws
          \/ /\ throws' = throws + 1
             /\ exception' = IF exception = None THEN Exception ELSE exception
      BY <1>2 DEF CaughtFinalize, MayThrow, NotifyException
    <2>3. initialized' \in [Workers -> Seq(Nat)] /\ finals' \in [Workers -> Seq(Nat)]
      BY <1>2, <2>1, PopMoves
    <2>4. WorkerMoves(w)
      BY <1>1, <2>1, <2>2 DEF WorkerMoves, ExecTypeOK, IsFinished, WorkerPlaces
    <2>5. ExecTypeOK'
      BY <1>1, <2>1, <2>2, <2>3, Typed DEF ExecTypeOK, WorkerPlaces
    <2> QED BY <2>4, <2>5
  <1>3. CASE initialized[w] = <<>>
    <2>1. /\ pc' = [pc EXCEPT ![w] = "exit"] /\ idx' = [idx EXCEPT ![w] = 1]
          /\ UNCHANGED <<initialized, finals, exception, throws>>
      BY <1>3 DEF CaughtFinalize, Goto
    <2>2. WorkerMoves(w)
      BY <1>1, <2>1 DEF WorkerMoves, ExecTypeOK, IsFinished, WorkerPlaces
    <2>3. ExecTypeOK'
      BY <1>1, <2>1, Typed DEF ExecTypeOK, WorkerPlaces
    <2> QED BY <2>2, <2>3
  <1> QED BY <1>2, <1>3

LEMMA WorkerStepMoves ==
  ASSUME ExecTypeOK, NEW w \in Workers, WorkerStep(w)
  PROVE  WorkerMoves(w) /\ ExecTypeOK'
  BY OnInitializeMoves, LoopMoves, TakeMoves, PrepareMoves, CompleteMoves,
     ThreadLocalCancelMoves, OnFinalizeMoves, FlushMoves, ThrowMoves, CaughtThrowMoves,
     CaughtFinalizeMoves DEF WorkerStep

-----------------------------------------------------------------------------
(* A step of a worker keeps the invariant: first for everyone else, then   *)
(* for the worker itself.                                                  *)

\* A worker that has not ended was started by the executor thread, which
\* cannot have joined it.
LEMMA RunningFacts ==
  ASSUME ExecInv, NEW w \in Workers, pc[w] # "exit"
  PROVE  /\ w \in Started /\ ~Joined
         /\ pc[Main] \in {"start", "join"} /\ joinable
         /\ CancelOK(w) /\ BracketOK(w)
         /\ ctx.graph.logical_tasks \in Nat /\ ctx.observers \in Nat
  <1>1. WorkerOK(w) /\ MainOK /\ ExecTypeOK
    BY DEF ExecInv
  <1>2. w \in Started /\ ~Joined
    BY <1>1 DEF WorkerOK
  <1>3. pc[Main] \in {"start", "join"} /\ joinable
    BY <1>1, <1>2 DEF Started, Joined, MainOK
  <1>4. ctx = settings /\ settings.graph # None
    BY <1>1, <1>3 DEF MainOK
  <1>5. ctx.graph.logical_tasks \in Nat /\ ctx.observers \in Nat
    BY <1>1, <1>4, ExecConstants DEF ExecTypeOK, Settings
  <1>6. CancelOK(w) /\ BracketOK(w)
    BY <1>1, <1>2 DEF WorkerOK
  <1> QED BY <1>2, <1>3, <1>5, <1>6

LEMMA OthersKept ==
  ASSUME ExecInv, NEW w \in Workers, WorkerMoves(w)
  PROVE  /\ MainOK'
         /\ Started' = Started /\ Joined' = Joined
         /\ \A v \in Workers \ {w} : WorkerOK(v)'
  <1> USE ExecConstants
  <1>1. ExecTypeOK /\ MainOK /\ \A v \in Workers : WorkerOK(v)
    BY DEF ExecInv
  <1>2. /\ UNCHANGED <<settings, joinable, thrown, waiting, executions, ctx>>
        /\ pc'[Main] = pc[Main] /\ idx'[Main] = idx[Main] /\ cancels'[Main] = cancels[Main]
        /\ exception' = exception \/ (exception = None /\ exception' = Exception)
    BY DEF WorkerMoves
  <1>3. pc[Main] \in {"start", "join"} /\ joinable
    BY RunningFacts DEF WorkerMoves
  <1>4. Started' = Started
    BY <1>2 DEF Started
  <1>5. Joined' = Joined
    BY <1>2 DEF Joined
  <1>6. IsCancelled' => exception'[1] = executions'
    BY <1>1, <1>2, Notified DEF MainOK, IsCancelled
  <1>7. MainOK'
    BY <1>1, <1>2, <1>3, <1>6 DEF MainOK, IsCancelled
  <1>8. (IsCancelled => IsCancelled') /\ (IsFinished => IsFinished')
    BY <1>2, <1>1 DEF IsCancelled, WorkerMoves
  <1>9. ASSUME NEW v \in Workers \ {w}
        PROVE  WorkerOK(v)'
    <2>1. /\ pc'[v] = pc[v] /\ idx'[v] = idx[v] /\ cancels'[v] = cancels[v]
          /\ initialized'[v] = initialized[v] /\ inits'[v] = inits[v] /\ finals'[v] = finals[v]
      BY DEF WorkerMoves
    <2>2. WorkerOK(v)
      BY <1>1
    <2>3. BracketOK(v)'
      BY <1>2, <2>1, <2>2 DEF WorkerOK, BracketOK
    <2>4. CancelOK(v) => CancelOK(v)'
      BY <1>2, <1>8, <2>1 DEF CancelOK, LogicalTasks
    <2> QED BY <1>4, <1>5, <2>1, <2>2, <2>3, <2>4 DEF WorkerOK
  <1> QED BY <1>4, <1>5, <1>7, <1>9

\* It remains to show what the step does for the worker itself.
LEMMA OwnKept ==
  ASSUME ExecInv, NEW w \in Workers, WorkerMoves(w), ExecTypeOK', CancelOK(w)', BracketOK(w)'
  PROVE  ExecInv'
  <1>1. w \in Started' /\ ~Joined' /\ pc'[w] \in WorkerPlaces
    BY RunningFacts, OthersKept DEF WorkerMoves
  <1>2. WorkerOK(w)'
    BY <1>1 DEF WorkerOK
  <1>3. MainOK' /\ \A v \in Workers \ {w} : WorkerOK(v)'
    BY OthersKept
  <1> QED BY <1>2, <1>3 DEF ExecInv

\* The lists stay and the worker goes on, not to its exit.
LEMMA BracketStays ==
  ASSUME ExecInv, NEW w \in Workers, pc[w] # "exit",
         UNCHANGED <<initialized, inits, finals, ctx>>,
         pc'[w] # "exit", pc'[w] # "initialize",
         \/ pc[w] \in {"loop", "take", "prepare", "run"}
         \/ pc'[w] \in {"finalize", "caught_cancel", "caught_finalize"}
         \/ pc'[w] = pc[w]
  PROVE  BracketOK(w)'
  <1>1. BracketOK(w)
    BY RunningFacts
  <1>2. PICK k \in Nat, m \in Nat :
          /\ m <= k /\ k <= ctx.observers
          /\ inits[w] = Up(k) /\ finals[w] = Down(k, m) /\ initialized[w] = Up(k - m)
          /\ pc[w] \in {"initialize", "loop", "take", "prepare", "run", "cancel"} => m = 0
          /\ pc[w] \in {"loop", "take", "prepare", "run", "cancel"} => k = ctx.observers
    BY <1>1 DEF BracketOK
  <1> QED BY <1>2 DEF BracketOK

LEMMA OnInitializeKeeps ==
  ASSUME ExecInv, NEW w \in Workers, OnInitialize(w)
  PROVE  CancelOK(w)' /\ BracketOK(w)'
  <1> USE ExecConstants
  <1>1. /\ UNCHANGED <<ctx, exception, tasks, finals, cancels>> /\ pc[w] = "initialize"
    BY DEF OnInitialize
  <1>2. CancelOK(w) /\ BracketOK(w) /\ ctx.observers \in Nat /\ ExecTypeOK
    BY <1>1, RunningFacts DEF ExecInv
  <1>3. PICK k \in Nat :
          /\ k <= ctx.observers /\ k = idx[w] - 1
          /\ inits[w] = Up(k) /\ finals[w] = Down(k, 0) /\ initialized[w] = Up(k)
    BY <1>1, <1>2 DEF BracketOK
  <1>4. CASE idx[w] <= ctx.observers
    <2>1. /\ initialized' = [initialized EXCEPT ![w] = Append(@, idx[w])]
          /\ inits' = [inits EXCEPT ![w] = Append(@, idx[w])]
          /\ idx' = [idx EXCEPT ![w] = @ + 1] /\ pc' = pc
      BY <1>4 DEF OnInitialize, NextTurn
    <2>2. idx[w] = k + 1 /\ idx'[w] = k + 2
      BY <1>2, <1>3, <2>1 DEF ExecTypeOK
    <2>3. inits'[w] = Up(k + 1) /\ initialized'[w] = Up(k + 1)
      BY <1>2, <1>3, <2>1, <2>2, UpFacts DEF ExecTypeOK
    <2>4. finals'[w] = Down(k + 1, 0)
      <3>1. Down(k, 0) = <<>> /\ Down(k + 1, 0) = <<>>
        BY DownNone
      <3> QED BY <1>1, <1>3, <3>1
    <2>5. BracketOK(w)'
      <3>1. /\ k + 1 \in Nat /\ 0 <= k + 1 /\ k + 1 <= ctx'.observers
            /\ (k + 1) - 0 = k + 1 /\ k + 1 = idx'[w] - 1
        BY <1>1, <1>2, <1>4, <2>2
      <3>2. pc'[w] = "initialize"
        BY <1>1, <2>1
      <3> QED BY <2>3, <2>4, <3>1, <3>2 DEF BracketOK
    <2>6. CancelOK(w)'
      BY <1>1, <1>2, <2>1 DEF CancelOK, LogicalTasks
    <2> QED BY <2>5, <2>6
  <1>5. CASE ~(idx[w] <= ctx.observers)
    <2>1. /\ pc' = [pc EXCEPT ![w] = "loop"] /\ UNCHANGED <<initialized, inits>>
      BY <1>5 DEF OnInitialize, Goto
    <2>2. pc'[w] = "loop" /\ k = ctx.observers
      BY <1>2, <1>3, <1>5, <2>1 DEF ExecTypeOK
    <2>3. BracketOK(w)'
      BY <1>1, <1>2, <1>3, <2>1, <2>2 DEF BracketOK
    <2>4. CancelOK(w)'
      BY <1>1, <1>2, <2>2 DEF CancelOK, LogicalTasks
    <2> QED BY <2>3, <2>4
  <1> QED BY <1>4, <1>5

LEMMA LoopKeeps ==
  ASSUME ExecInv, NEW w \in Workers, Loop(w)
  PROVE  CancelOK(w)' /\ BracketOK(w)'
  <1> USE ExecConstants
  <1>1. UNCHANGED <<ctx, exception, tasks, initialized, inits, finals, cancels>> /\ pc[w] = "loop"
    BY DEF Loop, calls
  <1>2. CancelOK(w) /\ ctx.graph.logical_tasks \in Nat /\ ExecTypeOK
    BY <1>1, RunningFacts DEF ExecInv
  <1>3. /\ \/ pc'[w] = "cancel" /\ IsCancelled
           \/ pc'[w] = "finalize" /\ IsFinished
           \/ pc'[w] = "take"
        /\ idx'[w] = 1
    BY <1>2 DEF Loop, Goto, ExecTypeOK
  <1>4. BracketOK(w)'
    BY <1>1, <1>3, BracketStays
  <1>5. CancelOK(w)'
    BY <1>1, <1>2, <1>3 DEF CancelOK, LogicalTasks, IsCancelled, IsFinished
  <1> QED BY <1>4, <1>5

LEMMA TaskKeeps ==
  ASSUME ExecInv, NEW w \in Workers, TakeRunnableTask(w) \/ Prepare(w) \/ Complete(w)
  PROVE  CancelOK(w)' /\ BracketOK(w)'
  <1> USE ExecConstants
  <1>1. /\ UNCHANGED <<ctx, exception, initialized, inits, finals, cancels>>
        /\ pc[w] \in {"take", "prepare", "run"}
    BY DEF TakeRunnableTask, Prepare, Complete, calls
  <1>2. CancelOK(w) /\ ExecTypeOK
    BY <1>1, RunningFacts DEF ExecInv
  <1>3. pc'[w] \in {"prepare", "loop", "run"}
    BY <1>2 DEF TakeRunnableTask, Prepare, Complete, Goto, ExecTypeOK
  <1>4. BracketOK(w)'
    BY <1>1, <1>3, BracketStays
  <1>5. CancelOK(w)'
    BY <1>1, <1>2, <1>3 DEF CancelOK, LogicalTasks
  <1> QED BY <1>4, <1>5

LEMMA ThreadLocalCancelKeeps ==
  ASSUME ExecInv, NEW w \in Workers, ThreadLocalCancel(w)
  PROVE  CancelOK(w)' /\ BracketOK(w)'
  <1> USE ExecConstants
  <1>1. /\ UNCHANGED <<ctx, exception, tasks, initialized, inits, finals>>
        /\ pc[w] \in {"cancel", "caught_cancel"}
    BY DEF ThreadLocalCancel
  <1>2. CancelOK(w) /\ ctx.graph.logical_tasks \in Nat /\ ExecTypeOK
    BY <1>1, RunningFacts DEF ExecInv
  <1>3. CASE idx[w] <= ctx.graph.logical_tasks
    <2>1. /\ cancels' = [cancels EXCEPT ![w] = @ \cup {idx[w]}]
          /\ idx' = [idx EXCEPT ![w] = @ + 1] /\ pc' = pc
      BY <1>3 DEF ThreadLocalCancel, NextTurn
    <2>2. cancels'[w] = cancels[w] \cup {idx[w]} /\ idx'[w] = idx[w] + 1 /\ idx[w] \in Nat \ {0}
      BY <1>2, <2>1 DEF ExecTypeOK
    <2>3. CancelOK(w)'
      BY <1>1, <1>2, <1>3, <2>1, <2>2 DEF CancelOK, LogicalTasks, IsCancelled
    <2>4. BracketOK(w)'
      BY <1>1, <2>1, BracketStays
    <2> QED BY <2>3, <2>4
  <1>4. CASE ~(idx[w] <= ctx.graph.logical_tasks)
    <2>1. pc'[w] \in {"finalize", "caught_finalize"} /\ cancels' = cancels
      BY <1>2, <1>4 DEF ThreadLocalCancel, Goto, ExecTypeOK
    <2>2. cancels[w] = LogicalTasks
      <3>1. idx[w] - 1 = ctx.graph.logical_tasks
        <4>1. idx[w] \in Nat /\ idx[w] <= ctx.graph.logical_tasks + 1
          BY <1>1, <1>2 DEF CancelOK, ExecTypeOK
        <4> QED BY <1>2, <1>4, <4>1
      <3> QED BY <1>1, <1>2, <3>1 DEF CancelOK, LogicalTasks
    <2>3. CancelOK(w)'
      BY <1>1, <1>2, <2>1, <2>2 DEF CancelOK, LogicalTasks, IsCancelled
    <2>4. BracketOK(w)'
      BY <1>1, <2>1, BracketStays
    <2> QED BY <2>3, <2>4
  <1> QED BY <1>3, <1>4

LEMMA ThrowKeeps ==
  ASSUME ExecInv, NEW w \in Workers, Throw(w)
  PROVE  CancelOK(w)' /\ BracketOK(w)'
  <1> USE ExecConstants
  <1>1. /\ UNCHANGED <<ctx, tasks, initialized, inits, finals>>
        /\ pc[w] \in {"initialize", "prepare", "run", "cancel"}
        /\ exception' = IF exception = None THEN Exception ELSE exception
    BY DEF Throw, NotifyException
  <1>2. CancelOK(w) /\ ctx.graph.logical_tasks \in Nat /\ ExecTypeOK
    BY <1>1, RunningFacts DEF ExecInv
  <1>3. pc'[w] = "caught_cancel" /\ idx'[w] = 1
    BY <1>2 DEF Throw, Goto, ExecTypeOK
  <1>4. IsCancelled'
    BY <1>1, <1>2, Notified DEF IsCancelled
  <1>5. idx[w] \in Nat \ {0}
    BY <1>2 DEF ExecTypeOK
  <1>6. cancels'[w] \subseteq LogicalTasks
    BY <1>2, <1>5 DEF Throw, CancelOK, LogicalTasks, ExecTypeOK
  <1>7. CancelOK(w)'
    BY <1>1, <1>2, <1>3, <1>4, <1>6 DEF CancelOK, LogicalTasks
  <1>8. BracketOK(w)'
    BY <1>1, <1>3, BracketStays
  <1> QED BY <1>7, <1>8

LEMMA CaughtThrowKeeps ==
  ASSUME ExecInv, NEW w \in Workers, CaughtThrow(w)
  PROVE  CancelOK(w)' /\ BracketOK(w)'
  <1> USE ExecConstants
  <1>1. /\ UNCHANGED <<ctx, tasks, initialized, inits, finals, pc>>
        /\ pc[w] = "caught_cancel" /\ idx[w] <= ctx.graph.logical_tasks
        /\ exception' = IF exception = None THEN Exception ELSE exception
    BY DEF CaughtThrow, NotifyException, NextTurn
  <1>2. CancelOK(w) /\ ctx.graph.logical_tasks \in Nat /\ ExecTypeOK
    BY <1>1, RunningFacts DEF ExecInv
  <1>3. cancels'[w] = cancels[w] \cup {idx[w]} /\ idx'[w] = idx[w] + 1 /\ idx[w] \in Nat \ {0}
    BY <1>2 DEF CaughtThrow, NextTurn, ExecTypeOK
  <1>4. IsCancelled'
    BY <1>1, <1>2, Notified DEF IsCancelled
  <1>5. CancelOK(w)'
    BY <1>1, <1>2, <1>3, <1>4 DEF CancelOK, LogicalTasks
  <1>6. BracketOK(w)'
    BY <1>1, BracketStays
  <1> QED BY <1>5, <1>6

\* on_finalize of the last of the observers that are left.
LEMMA PopKeeps ==
  ASSUME ExecInv, NEW w \in Workers, pc[w] \in {"finalize", "caught_finalize"},
         initialized[w] # <<>>,
         initialized' = [initialized EXCEPT ![w] = Front(@)],
         finals' = [finals EXCEPT ![w] = Append(@, Last(initialized[w]))],
         UNCHANGED <<inits, ctx>>,
         pc'[w] \in {"finalize", "caught_cancel", "caught_finalize"}
  PROVE  BracketOK(w)'
  <1>1. BracketOK(w) /\ ctx.observers \in Nat /\ ExecTypeOK
    BY RunningFacts DEF ExecInv
  <1>2. PICK k \in Nat, m \in Nat :
          /\ m <= k /\ k <= ctx.observers
          /\ inits[w] = Up(k) /\ finals[w] = Down(k, m) /\ initialized[w] = Up(k - m)
    BY <1>1 DEF BracketOK
  <1>3. k - m \in Nat /\ k - m # 0
    BY <1>2, UpFacts
  <1>4. Front(Up(k - m)) = Up(k - m - 1) /\ Last(Up(k - m)) = k - m
    BY <1>3, UpFacts
  <1>5. Append(Down(k, m), k - m) = Down(k, m + 1)
    <2>1. m <= k /\ m < k
      BY <1>2, <1>3
    <2> QED BY <2>1, DownFacts
  <1>6. initialized'[w] = Up(k - (m + 1)) /\ finals'[w] = Down(k, m + 1)
    <2>1. k - m - 1 = k - (m + 1)
      OBVIOUS
    <2> QED BY <1>1, <1>2, <1>4, <1>5, <2>1 DEF ExecTypeOK
  <1>7. m + 1 \in Nat /\ m + 1 <= k /\ k <= ctx'.observers /\ inits'[w] = Up(k)
    BY <1>2, <1>3
  <1> QED BY <1>6, <1>7 DEF BracketOK

\* With no observer left the worker may end.
LEMMA EndKeeps ==
  ASSUME ExecInv, NEW w \in Workers, pc[w] # "exit", initialized[w] = <<>>,
         UNCHANGED <<initialized, inits, finals, ctx>>, pc'[w] = "exit"
  PROVE  BracketOK(w)'
  <1>1. BracketOK(w)
    BY RunningFacts
  <1>2. PICK k \in Nat, m \in Nat :
          /\ m <= k /\ k <= ctx.observers
          /\ inits[w] = Up(k) /\ finals[w] = Down(k, m) /\ initialized[w] = Up(k - m)
    BY <1>1 DEF BracketOK
  <1>3. k - m \in Nat /\ k - m = 0
    BY <1>2, UpFacts
  <1>4. m = k
    BY <1>3
  <1> QED BY <1>2, <1>4 DEF BracketOK

LEMMA OnFinalizeKeeps ==
  ASSUME ExecInv, NEW w \in Workers, OnFinalize(w)
  PROVE  CancelOK(w)' /\ BracketOK(w)'
  <1> USE ExecConstants
  <1>1. /\ UNCHANGED <<ctx, tasks, inits, cancels>>
        /\ pc[w] = "finalize" /\ initialized[w] # <<>>
        /\ initialized' = [initialized EXCEPT ![w] = Front(@)]
        /\ finals' = [finals EXCEPT ![w] = Append(@, Last(initialized[w]))]
    BY DEF OnFinalize
  <1>2. CancelOK(w) /\ ctx.graph.logical_tasks \in Nat /\ ExecTypeOK
    BY <1>1, RunningFacts DEF ExecInv
  <1>3. \/ pc'[w] = "finalize" /\ exception' = exception
        \/ /\ pc'[w] = "caught_cancel" /\ idx'[w] = 1
           /\ exception' = IF exception = None THEN Exception ELSE exception
    BY <1>1, <1>2 DEF OnFinalize, Goto, NotifyException, ExecTypeOK
  <1>4. BracketOK(w)'
    <2>1. pc'[w] \in {"finalize", "caught_cancel", "caught_finalize"}
      BY <1>3
    <2> QED BY <1>1, <2>1, PopKeeps
  <1>5. CASE pc'[w] = "finalize" /\ exception' = exception
    BY <1>1, <1>2, <1>4, <1>5 DEF CancelOK, LogicalTasks, IsCancelled, IsFinished
  <1>6. CASE /\ pc'[w] = "caught_cancel" /\ idx'[w] = 1
             /\ exception' = IF exception = None THEN Exception ELSE exception
    <2>1. IsCancelled'
      BY <1>2, <1>6, Notified DEF IsCancelled
    <2> QED BY <1>1, <1>2, <1>4, <1>6, <2>1 DEF CancelOK, LogicalTasks
  <1> QED BY <1>3, <1>5, <1>6

LEMMA FlushKeeps ==
  ASSUME ExecInv, NEW w \in Workers, Flush(w)
  PROVE  CancelOK(w)' /\ BracketOK(w)'
  <1> USE ExecConstants
  <1>1. /\ UNCHANGED <<ctx, exception, tasks, initialized, inits, finals, cancels>>
        /\ pc[w] = "finalize" /\ initialized[w] = <<>>
    BY DEF Flush, calls
  <1>2. CancelOK(w) /\ ExecTypeOK
    BY <1>1, RunningFacts DEF ExecInv
  <1>3. pc'[w] = "exit"
    BY <1>2 DEF Flush, Goto, ExecTypeOK
  <1>4. BracketOK(w)'
    BY <1>1, <1>3, EndKeeps
  <1>5. CancelOK(w)'
    BY <1>1, <1>2, <1>3 DEF CancelOK, LogicalTasks, IsCancelled, IsFinished
  <1> QED BY <1>4, <1>5

LEMMA CaughtFinalizeKeeps ==
  ASSUME ExecInv, NEW w \in Workers, CaughtFinalize(w)
  PROVE  CancelOK(w)' /\ BracketOK(w)'
  <1> USE ExecConstants
  <1>1. /\ UNCHANGED <<ctx, tasks, inits, cancels>> /\ pc[w] = "caught_finalize"
    BY DEF CaughtFinalize
  <1>2. CancelOK(w) /\ ExecTypeOK
    BY <1>1, RunningFacts DEF ExecInv
  <1>3. IsCancelled'
    <2>1. \/ exception' = exception
          \/ exception' = IF exception = None THEN Exception ELSE exception
      BY DEF CaughtFinalize, NotifyException
    <2> QED BY <1>1, <1>2, <2>1, Notified DEF CancelOK, IsCancelled
  <1>4. pc'[w] \in {"caught_finalize", "exit"}
    BY <1>1, <1>2 DEF CaughtFinalize, Goto, NextTurn, ExecTypeOK
  <1>5. CancelOK(w)'
    BY <1>1, <1>2, <1>3, <1>4 DEF CancelOK, LogicalTasks
  <1>6. CASE initialized[w] # <<>>
    <2>1. /\ initialized' = [initialized EXCEPT ![w] = Front(@)]
          /\ finals' = [finals EXCEPT ![w] = Append(@, Last(initialized[w]))]
          /\ pc' = pc
      BY <1>6 DEF CaughtFinalize, NextTurn
    <2>2. BracketOK(w)'
      BY <1>1, <1>6, <2>1, PopKeeps
    <2> QED BY <1>5, <2>2
  <1>7. CASE initialized[w] = <<>>
    <2>1. pc'[w] = "exit" /\ UNCHANGED <<initialized, finals>>
      BY <1>2, <1>7 DEF CaughtFinalize, Goto, ExecTypeOK
    <2>2. BracketOK(w)'
      BY <1>1, <1>7, <2>1, EndKeeps
    <2> QED BY <1>5, <2>2
  <1> QED BY <1>6, <1>7

LEMMA WorkerStepKeeps ==
  ASSUME ExecInv, NEW w \in Workers, WorkerStep(w)
  PROVE  ExecInv'
  <1>1. WorkerMoves(w) /\ ExecTypeOK'
    BY WorkerStepMoves DEF ExecInv
  <1>2. CancelOK(w)' /\ BracketOK(w)'
    BY OnInitializeKeeps, LoopKeeps, TaskKeeps, ThreadLocalCancelKeeps, OnFinalizeKeeps,
       FlushKeeps, ThrowKeeps, CaughtThrowKeeps, CaughtFinalizeKeeps DEF WorkerStep
  <1> QED BY <1>1, <1>2, OwnKept

-----------------------------------------------------------------------------
(* The steps of the executor thread and of the user.                       *)

\* A step that leaves the workers, their context, their tasks and the
\* exception alone.
LEMMA WorkersKept ==
  ASSUME ExecInv,
         UNCHANGED <<ctx, tasks, exception, initialized, inits, finals>>,
         \A v \in Workers : pc'[v] = pc[v] /\ idx'[v] = idx[v] /\ cancels'[v] = cancels[v],
         Started' = Started, Joined' => \A v \in Workers : pc[v] = "exit"
  PROVE  \A v \in Workers : WorkerOK(v)'
  <1> SUFFICES ASSUME NEW v \in Workers PROVE WorkerOK(v)'
    OBVIOUS
  <1>1. WorkerOK(v)
    BY DEF ExecInv
  <1>2. pc'[v] = pc[v] /\ idx'[v] = idx[v] /\ cancels'[v] = cancels[v]
    OBVIOUS
  <1>3. BracketOK(v)'
    BY <1>1, <1>2 DEF WorkerOK, BracketOK
  <1>4. CancelOK(v) => CancelOK(v)'
    BY <1>2 DEF CancelOK, LogicalTasks, IsCancelled, IsFinished
  <1> QED BY <1>1, <1>2, <1>3, <1>4 DEF WorkerOK

\* What holds of the executor thread alone.
LEMMA MainFacts ==
  ASSUME ExecInv
  PROVE  /\ ExecTypeOK /\ MainOK
         /\ Joined => \A v \in Workers : pc[v] = "exit"
         /\ pc[Main] \notin {"construct", "exit"} =>
              joinable /\ ctx = settings /\ ctx.graph.logical_tasks \in Nat
         /\ ctx.workers \in 1 .. MaxWorkers /\ ctx.observers \in Nat
  <1>1. ExecTypeOK /\ MainOK /\ \A v \in Workers : WorkerOK(v)
    BY DEF ExecInv
  <1>2. Joined => \A v \in Workers : pc[v] = "exit"
    BY <1>1 DEF WorkerOK
  <1>3. pc[Main] \notin {"construct", "exit"} => joinable /\ ctx = settings /\ ctx.graph \in Graphs
    BY <1>1 DEF MainOK, ExecTypeOK, Settings
  <1>4. ctx.workers \in 1 .. MaxWorkers /\ ctx.observers \in Nat
    BY <1>1 DEF ExecTypeOK, Settings
  <1> QED BY <1>1, <1>2, <1>3, <1>4, ExecConstants

\* Before the executor thread starts them no worker has done anything.
LEMMA UnstartedFacts ==
  ASSUME ExecInv, NEW v \in Workers, v \notin Started
  PROVE  /\ pc[v] = "exit" /\ inits[v] = <<>> /\ finals[v] = <<>> /\ cancels[v] = {}
         /\ initialized[v] = <<>>
  <1>1. WorkerOK(v)
    BY DEF ExecInv
  <1>2. pc[v] = "exit" /\ inits[v] = <<>> /\ finals[v] = <<>> /\ cancels[v] = {} /\ BracketOK(v)
    BY <1>1 DEF WorkerOK
  <1>3. PICK k \in Nat : initialized[v] = Up(k - k)
    BY <1>2 DEF BracketOK
  <1>4. Up(0) = <<>>
    BY UpFacts
  <1>5. k - k = 0
    OBVIOUS
  <1> QED BY <1>2, <1>3, <1>4, <1>5

\* And an idle worker is in order whatever the context is.
LEMMA IdleBracket ==
  ASSUME NEW v \in Workers, ctx'.observers \in Nat,
         inits'[v] = <<>>, finals'[v] = <<>>, initialized'[v] = <<>>,
         pc'[v] = "exit" \/ (pc'[v] = "initialize" /\ idx'[v] = 1)
  PROVE  BracketOK(v)'
  <1>1. Up(0) = <<>> /\ Down(0, 0) = <<>>
    BY UpFacts, DownNone
  <1>2. 0 \in Nat /\ 0 <= 0 /\ 0 - 0 = 0 /\ 0 <= ctx'.observers /\ 1 - 1 = 0
    OBVIOUS
  <1> QED BY <1>1, <1>2 DEF BracketOK

LEMMA ConstructKeeps ==
  ASSUME ExecInv, Construct
  PROVE  ExecInv'
  <1> USE ExecConstants
  <1>1. /\ UNCHANGED <<settings, joinable, thrown, waiting, executions, exception, tasks,
                       initialized, inits, finals, cancels, throws>>
        /\ pc[Main] = "construct" /\ ctx' = settings
        /\ pc' = [pc EXCEPT ![Main] = "create"] /\ idx' = [idx EXCEPT ![Main] = 1]
    BY DEF Construct, user, calls, Goto
  <1>2. ExecTypeOK /\ MainOK
    BY MainFacts
  <1>3. ExecTypeOK'
    BY <1>1, <1>2 DEF ExecTypeOK, MainPlaces
  <1>4. /\ pc'[Main] = "create"
        /\ \A v \in Workers : pc'[v] = pc[v] /\ idx'[v] = idx[v] /\ cancels'[v] = cancels[v]
    BY <1>1, <1>2 DEF ExecTypeOK
  <1>5. MainOK'
    BY <1>1, <1>2, <1>4 DEF MainOK, MainPlaces, IsCancelled
  <1>6. Started = {} /\ Started' = {} /\ ~Joined'
    BY <1>1, <1>4 DEF Started, Joined
  <1>7. ctx'.observers \in Nat
    BY <1>1, <1>2 DEF ExecTypeOK, Settings
  <1>8. ASSUME NEW v \in Workers PROVE WorkerOK(v)'
    <2>1. /\ pc'[v] = "exit" /\ inits'[v] = <<>> /\ finals'[v] = <<>> /\ cancels'[v] = {}
          /\ initialized'[v] = <<>>
      BY <1>1, <1>4, <1>6, UnstartedFacts
    <2>2. BracketOK(v)'
      BY <1>7, <2>1, IdleBracket
    <2> QED BY <1>6, <2>1, <2>2 DEF WorkerOK, WorkerPlaces
  <1> QED BY <1>3, <1>5, <1>8 DEF ExecInv

LEMMA CreateKeeps ==
  ASSUME ExecInv, CreatePhysicalTasks
  PROVE  ExecInv'
  <1> USE ExecConstants
  <1>1. /\ UNCHANGED <<settings, joinable, thrown, waiting, executions, ctx, exception,
                       initialized, inits, finals, cancels, throws>>
        /\ pc[Main] = "create"
        /\ pc' = [pc EXCEPT ![Main] = "start"] /\ idx' = [idx EXCEPT ![Main] = 1]
    BY DEF CreatePhysicalTasks, user, calls, Goto
  <1>2. ExecTypeOK /\ MainOK /\ ctx.workers \in 1 .. MaxWorkers /\ ctx.observers \in Nat
    BY MainFacts
  <1>3. ExecTypeOK'
    BY <1>1, <1>2 DEF ExecTypeOK, MainPlaces
  <1>4. /\ pc'[Main] = "start" /\ idx'[Main] = 1
        /\ \A v \in Workers : pc'[v] = pc[v] /\ idx'[v] = idx[v] /\ cancels'[v] = cancels[v]
    BY <1>1, <1>2 DEF ExecTypeOK
  <1>5. MainOK'
    BY <1>1, <1>2, <1>4 DEF MainOK, MainPlaces, IsCancelled
  <1>6. Started = {} /\ Started' = {} /\ ~Joined'
    <2>1. \A v \in Workers : ~(v < idx'[Main] - 1)
      BY <1>4
    <2> QED BY <1>1, <1>4, <2>1 DEF Started, Joined
  <1>7. ASSUME NEW v \in Workers PROVE WorkerOK(v)'
    <2>1. /\ pc'[v] = "exit" /\ inits'[v] = <<>> /\ finals'[v] = <<>> /\ cancels'[v] = {}
          /\ initialized'[v] = <<>>
      BY <1>1, <1>4, <1>6, UnstartedFacts
    <2>2. BracketOK(v)'
      BY <1>1, <1>2, <2>1, IdleBracket
    <2> QED BY <1>6, <2>1, <2>2 DEF WorkerOK, WorkerPlaces
  <1> QED BY <1>3, <1>5, <1>7 DEF ExecInv

LEMMA StartWorkerKeeps ==
  ASSUME ExecInv, StartWorker
  PROVE  ExecInv'
  <1> USE ExecConstants
  <1>1. /\ UNCHANGED <<settings, joinable, thrown, waiting, executions, ctx, exception, tasks,
                       inits, finals, cancels, throws>>
        /\ pc[Main] = "start"
    BY DEF StartWorker, user, calls
  <1>2. /\ ExecTypeOK /\ MainOK /\ ctx.workers \in 1 .. MaxWorkers /\ ctx.observers \in Nat
        /\ joinable /\ ctx.graph.logical_tasks \in Nat
    BY <1>1, MainFacts
  <1>3. PICK w \in Nat : w = idx[Main] - 1 /\ idx[Main] = w + 1 /\ w <= ctx.workers
    <2>1. idx[Main] \in Nat \ {0} /\ idx[Main] <= ctx.workers + 1
      BY <1>1, <1>2 DEF ExecTypeOK, MainOK
    <2> QED BY <1>2, <2>1
  <1>4. CASE w < ctx.workers
    <2>1. w \in Workers /\ w # Main
      BY <1>2, <1>3, <1>4 DEF Workers
    <2>2. /\ pc' = [pc EXCEPT ![w] = "initialize"]
          /\ idx' = [idx EXCEPT ![Main] = @ + 1, ![w] = 1]
          /\ initialized' = [initialized EXCEPT ![w] = <<>>]
      BY <1>3, <1>4 DEF StartWorker
    <2>3. /\ pc'[Main] = "start" /\ pc'[w] = "initialize"
          /\ idx'[Main] = idx[Main] + 1 /\ idx'[w] = 1
          /\ initialized'[w] = <<>>
          /\ \A v \in Workers \ {w} :
               pc'[v] = pc[v] /\ idx'[v] = idx[v] /\ initialized'[v] = initialized[v]
      BY <1>1, <1>2, <2>1, <2>2 DEF ExecTypeOK
    <2>4. ExecTypeOK'
      <3>1. pc' \in [Actors -> MainPlaces \cup WorkerPlaces]
        BY <1>2, <2>2 DEF ExecTypeOK, WorkerPlaces
      <3>2. idx' \in [Actors -> Nat \ {0}]
        <4>1. idx \in [Actors -> Nat \ {0}] /\ idx[Main] + 1 \in Nat \ {0} /\ 1 \in Nat \ {0}
          BY <1>2 DEF ExecTypeOK
        <4> QED BY <2>2, <4>1
      <3>3. initialized' \in [Workers -> Seq(Nat)]
        <4>1. initialized \in [Workers -> Seq(Nat)] /\ <<>> \in Seq(Nat)
          BY <1>2 DEF ExecTypeOK
        <4> QED BY <2>2, <4>1
      <3> QED BY <1>1, <1>2, <3>1, <3>2, <3>3 DEF ExecTypeOK
    <2>5. MainOK'
      <3>1. idx'[Main] <= ctx'.workers + 1
        BY <1>1, <1>2, <1>3, <1>4, <2>3
      <3> QED BY <1>1, <1>2, <2>3, <3>1 DEF MainOK, IsCancelled
    <2>6. Started' = Started \cup {w} /\ w \notin Started /\ ~Joined'
      <3>1. \A v \in Workers : v < idx'[Main] - 1 <=> v < idx[Main] - 1 \/ v = w
        <4>1. idx'[Main] - 1 = w + 1 /\ idx[Main] - 1 = w
          BY <1>3, <2>3
        <4>2. \A v \in Nat : v < w + 1 <=> v < w \/ v = w
          BY <1>3
        <4> QED BY <4>1, <4>2
      <3>2. ~(w < idx[Main] - 1)
        BY <1>3
      <3> QED BY <1>1, <2>1, <2>3, <3>1, <3>2 DEF Started, Joined
    <2>7. WorkerOK(w)'
      <3>1. inits'[w] = <<>> /\ finals'[w] = <<>> /\ cancels'[w] = {}
        BY <1>1, <2>1, <2>6, UnstartedFacts
      <3>2. BracketOK(w)'
        BY <1>1, <1>2, <2>1, <2>3, <3>1, IdleBracket
      <3>3. CancelOK(w)'
        BY <2>3, <3>1 DEF CancelOK
      <3> QED BY <2>3, <2>6, <3>2, <3>3 DEF WorkerOK, WorkerPlaces
    <2>8. ASSUME NEW v \in Workers \ {w} PROVE WorkerOK(v)'
      <3>1. WorkerOK(v)
        BY DEF ExecInv
      <3>2. BracketOK(v)'
        BY <1>1, <2>3, <3>1 DEF WorkerOK, BracketOK
      <3>3. CancelOK(v) => CancelOK(v)'
        BY <1>1, <2>3 DEF CancelOK, LogicalTasks, IsCancelled, IsFinished
      <3> QED BY <1>1, <2>3, <2>6, <3>1, <3>2, <3>3 DEF WorkerOK
    <2> QED BY <2>4, <2>5, <2>7, <2>8 DEF ExecInv
  <1>5. CASE ~(w < ctx.workers)
    <2>1. /\ pc' = [pc EXCEPT ![Main] = "join"] /\ idx' = [idx EXCEPT ![Main] = 1]
          /\ initialized' = initialized
      BY <1>3, <1>5 DEF StartWorker, Goto
    <2>2. /\ pc'[Main] = "join"
          /\ \A v \in Workers : pc'[v] = pc[v] /\ idx'[v] = idx[v] /\ cancels'[v] = cancels[v]
      BY <1>1, <1>2, <2>1 DEF ExecTypeOK
    <2>3. ExecTypeOK'
      BY <1>1, <1>2, <2>1 DEF ExecTypeOK, MainPlaces
    <2>4. MainOK'
      BY <1>1, <1>2, <2>2 DEF MainOK, MainPlaces, IsCancelled
    <2>5. Started' = Started /\ ~Joined'
      <3>1. w = ctx.workers
        BY <1>2, <1>3, <1>5
      <3>2. idx[Main] - 1 = ctx.workers
        BY <1>3, <3>1
      <3> QED BY <1>1, <2>2, <3>2 DEF Started, Joined
    <2>6. \A v \in Workers : WorkerOK(v)'
      BY <1>1, <2>1, <2>2, <2>5, WorkersKept
    <2> QED BY <2>3, <2>4, <2>6 DEF ExecInv
  <1> QED BY <1>4, <1>5

LEMMA JoinKeeps ==
  ASSUME ExecInv, Join
  PROVE  ExecInv'
  <1> USE ExecConstants
  <1>1. /\ UNCHANGED <<settings, joinable, thrown, waiting, executions, ctx, exception, tasks,
                       initialized, inits, finals, cancels, throws>>
        /\ pc[Main] = "join" /\ \A v \in Workers : pc[v] = "exit"
    BY DEF Join, user, calls
  <1>2. ExecTypeOK /\ MainOK /\ joinable /\ ctx.graph.logical_tasks \in Nat
    BY <1>1, MainFacts
  <1>3. PICK place_ \in {"global_cancel", "profile"} :
          /\ pc' = [pc EXCEPT ![Main] = place_] /\ idx' = [idx EXCEPT ![Main] = 1]
          /\ place_ = "global_cancel" <=> IsCancelled
    BY DEF Join, Goto
  <1>4. /\ pc'[Main] = place_ /\ idx'[Main] = 1
        /\ \A v \in Workers : pc'[v] = pc[v] /\ idx'[v] = idx[v] /\ cancels'[v] = cancels[v]
    BY <1>1, <1>2, <1>3 DEF ExecTypeOK
  <1>5. ExecTypeOK'
    BY <1>1, <1>2, <1>3 DEF ExecTypeOK, MainPlaces
  <1>6. MainOK'
    <2>1. IsCancelled' = IsCancelled /\ 1 .. idx'[Main] - 1 = {} /\ 1 <= ctx'.graph.logical_tasks + 1
      BY <1>1, <1>2, <1>4 DEF IsCancelled
    <2>2. cancels'[Main] = {} /\ thrown' = None /\ ctx' = settings'
      BY <1>1, <1>2 DEF MainOK
    <2> QED BY <1>1, <1>2, <1>3, <1>4, <2>1, <2>2 DEF MainOK, MainPlaces
  <1>7. Started' = Started
    BY <1>1, <1>3, <1>4 DEF Started
  <1>8. \A v \in Workers : WorkerOK(v)'
    BY <1>1, <1>4, <1>7, WorkersKept
  <1> QED BY <1>5, <1>6, <1>8 DEF ExecInv

LEMMA GlobalCancelKeeps ==
  ASSUME ExecInv, GlobalCancel
  PROVE  ExecInv'
  <1> USE ExecConstants
  <1>1. /\ UNCHANGED <<settings, joinable, waiting, executions, ctx, tasks, initialized, inits,
                       finals>>
        /\ pc[Main] = "global_cancel"
    BY DEF GlobalCancel
  <1>2. ExecTypeOK /\ MainOK /\ joinable /\ ctx.graph.logical_tasks \in Nat
    BY <1>1, MainFacts
  <1>3. \A v \in Workers : pc[v] = "exit"
    BY <1>1, MainFacts DEF Joined
  <1>4. IsCancelled /\ exception' = exception
    <2>1. exception' = exception \/ exception' = IF exception = None THEN Exception ELSE exception
      BY DEF GlobalCancel, NotifyException
    <2> QED BY <1>1, <1>2, <2>1 DEF MainOK, IsCancelled
  <1>5. IsCancelled'
    BY <1>4 DEF IsCancelled
  <1>6. /\ idx[Main] \in Nat \ {0} /\ idx[Main] <= ctx.graph.logical_tasks + 1
        /\ cancels[Main] = 1 .. idx[Main] - 1
    BY <1>1, <1>2 DEF MainOK, ExecTypeOK
  <1>7. CASE idx[Main] <= ctx.graph.logical_tasks
    <2>1. /\ cancels' = [cancels EXCEPT ![Main] = @ \cup {idx[Main]}]
          /\ idx' = [idx EXCEPT ![Main] = @ + 1] /\ pc' = pc /\ thrown' = thrown
          /\ throws' = throws \/ throws' = throws + 1
      BY <1>7 DEF GlobalCancel, NextTurn, MayThrow
    <2>2. ExecTypeOK'
      <3>1. idx' \in [Actors -> Nat \ {0}] /\ cancels' \in [Actors -> SUBSET Nat] /\ throws' \in Nat
        BY <1>2, <2>1, Typed DEF ExecTypeOK
      <3> QED BY <1>1, <1>2, <2>1, <3>1 DEF ExecTypeOK
    <2>3. /\ idx'[Main] = idx[Main] + 1 /\ cancels'[Main] = cancels[Main] \cup {idx[Main]}
          /\ \A v \in Workers : pc'[v] = pc[v] /\ idx'[v] = idx[v] /\ cancels'[v] = cancels[v]
      BY <1>2, <2>1 DEF ExecTypeOK
    <2>4. cancels'[Main] = 1 .. idx'[Main] - 1 /\ idx'[Main] <= ctx'.graph.logical_tasks + 1
      BY <1>1, <1>2, <1>6, <1>7, <2>3
    <2>5. MainOK'
      BY <1>1, <1>2, <1>4, <1>5, <2>1, <2>4 DEF MainOK
    <2>6. Started' = Started
      BY <1>1, <2>1 DEF Started
    <2>7. \A v \in Workers : WorkerOK(v)'
      BY <1>1, <1>3, <1>4, <2>3, <2>6, WorkersKept
    <2> QED BY <2>2, <2>5, <2>7 DEF ExecInv
  <1>8. CASE ~(idx[Main] <= ctx.graph.logical_tasks)
    <2>1. /\ thrown' = exception /\ cancels' = cancels /\ throws' = throws
          /\ pc' = [pc EXCEPT ![Main] = "exit"] /\ idx' = [idx EXCEPT ![Main] = 1]
      BY <1>8 DEF GlobalCancel, Goto
    <2>2. ExecTypeOK'
      BY <1>1, <1>2, <2>1 DEF ExecTypeOK, MainPlaces
    <2>3. /\ pc'[Main] = "exit"
          /\ \A v \in Workers : pc'[v] = pc[v] /\ idx'[v] = idx[v] /\ cancels'[v] = cancels[v]
      BY <1>2, <2>1 DEF ExecTypeOK
    <2>4. cancels'[Main] = LogicalTasks'
      <3>1. idx[Main] - 1 = ctx.graph.logical_tasks
        BY <1>2, <1>6, <1>8
      <3> QED BY <1>1, <1>6, <2>1, <3>1 DEF LogicalTasks
    <2>5. MainOK'
      BY <1>1, <1>2, <1>4, <1>5, <2>1, <2>3, <2>4 DEF MainOK, MainPlaces
    <2>6. Started' = Started
      BY <1>1, <1>2, <2>3 DEF Started
    <2>7. \A v \in Workers : WorkerOK(v)'
      BY <1>1, <1>3, <1>4, <2>3, <2>6, WorkersKept
    <2> QED BY <2>2, <2>5, <2>7 DEF ExecInv
  <1> QED BY <1>7, <1>8

LEMMA DumpProfileKeeps ==
  ASSUME ExecInv, DumpProfile
  PROVE  ExecInv'
  <1> USE ExecConstants
  <1>1. /\ UNCHANGED <<settings, joinable, thrown, waiting, executions, ctx, exception, tasks,
                       initialized, inits, finals, cancels, throws>>
        /\ pc[Main] = "profile"
        /\ pc' = [pc EXCEPT ![Main] = "exit"] /\ idx' = [idx EXCEPT ![Main] = 1]
    BY DEF DumpProfile, user, calls, Goto
  <1>2. ExecTypeOK /\ MainOK /\ joinable
    BY <1>1, MainFacts
  <1>3. \A v \in Workers : pc[v] = "exit"
    BY <1>1, MainFacts DEF Joined
  <1>4. /\ pc'[Main] = "exit"
        /\ \A v \in Workers : pc'[v] = pc[v] /\ idx'[v] = idx[v] /\ cancels'[v] = cancels[v]
    BY <1>1, <1>2 DEF ExecTypeOK
  <1>5. ExecTypeOK'
    BY <1>1, <1>2 DEF ExecTypeOK, MainPlaces
  <1>6. MainOK'
    BY <1>1, <1>2, <1>4 DEF MainOK, MainPlaces, IsCancelled
  <1>7. Started' = Started
    BY <1>1, <1>2, <1>4 DEF Started
  <1>8. \A v \in Workers : WorkerOK(v)'
    BY <1>1, <1>3, <1>4, <1>7, WorkersKept
  <1> QED BY <1>5, <1>6, <1>8 DEF ExecInv

LEMMA SettingsKeep ==
  ASSUME ExecInv, SetFlowGraph \/ SetConfiguration \/ AddThreadObserver
  PROVE  ExecInv'
  <1> USE ExecConstants
  <1>1. /\ UNCHANGED <<joinable, thrown, waiting, executions, ctx, exception, tasks, pc, idx,
                       initialized, inits, finals, cancels, throws>>
        /\ ~joinable
    BY DEF SetFlowGraph, SetConfiguration, AddThreadObserver, place, calls
  <1>2. ExecTypeOK /\ MainOK
    BY MainFacts
  <1>3. settings' \in Settings
    <2>1. CASE SetFlowGraph
      BY <1>2, <2>1 DEF SetFlowGraph, ExecTypeOK, Settings
    <2>2. CASE SetConfiguration
      <3>1. PICK c \in Configurations :
              settings' = [settings EXCEPT !.workers = c[1], !.profiling = c[2]]
        BY <2>2 DEF SetConfiguration
      <3>2. c[1] \in 1 .. MaxWorkers /\ c[2] \in BOOLEAN
        BY ExecutorAssumption
      <3> QED BY <1>2, <3>1, <3>2 DEF ExecTypeOK, Settings
    <2>3. CASE AddThreadObserver
      <3>1. settings \in Settings /\ settings.observers + 1 \in Nat
        BY <1>2 DEF ExecTypeOK, Settings
      <3>2. settings' = [settings EXCEPT !.observers = @ + 1]
        BY <2>3 DEF AddThreadObserver
      <3> QED BY <3>1, <3>2 DEF Settings
    <2> QED BY <2>1, <2>2, <2>3
  <1>4. ExecTypeOK'
    BY <1>1, <1>2, <1>3 DEF ExecTypeOK
  <1>5. MainOK'
    BY <1>1, <1>2 DEF MainOK, IsCancelled
  <1>6. Started' = Started /\ Joined' = Joined
    BY <1>1 DEF Started, Joined
  <1>7. \A v \in Workers : WorkerOK(v)'
    BY <1>1, <1>6, WorkersKept, MainFacts
  <1> QED BY <1>4, <1>5, <1>7 DEF ExecInv

LEMMA ExecuteKeeps ==
  ASSUME ExecInv, Execute
  PROVE  ExecInv'
  <1> USE ExecConstants
  <1>1. /\ UNCHANGED <<settings, waiting, ctx, exception, tasks, initialized, inits, finals,
                       cancels, throws>>
        /\ ~joinable /\ joinable' = TRUE /\ thrown' = None /\ executions' = executions + 1
        /\ settings.graph # None
        /\ pc' = [pc EXCEPT ![Main] = "construct"] /\ idx' = [idx EXCEPT ![Main] = 1]
    BY DEF Execute, calls, Goto
  <1>2. ExecTypeOK /\ MainOK
    BY MainFacts
  <1>3. pc[Main] = "exit" /\ ~IsCancelled /\ cancels[Main] = {}
    BY <1>1, <1>2 DEF MainOK
  <1>4. /\ pc'[Main] = "construct"
        /\ \A v \in Workers : pc'[v] = pc[v] /\ idx'[v] = idx[v] /\ cancels'[v] = cancels[v]
    BY <1>1, <1>2 DEF ExecTypeOK
  <1>5. ExecTypeOK'
    BY <1>1, <1>2 DEF ExecTypeOK, MainPlaces
  <1>6. MainOK'
    BY <1>1, <1>2, <1>3, <1>4 DEF MainOK, MainPlaces, IsCancelled
  <1>7. Started' = Started /\ ~Joined'
    BY <1>1, <1>3, <1>4 DEF Started, Joined
  <1>8. \A v \in Workers : WorkerOK(v)'
    BY <1>1, <1>4, <1>7, WorkersKept
  <1> QED BY <1>5, <1>6, <1>8 DEF ExecInv

LEMMA WaitKeeps ==
  ASSUME ExecInv, Wait
  PROVE  ExecInv'
  <1>1. /\ UNCHANGED <<settings, joinable, thrown, executions, ctx, exception, tasks, pc, idx,
                       initialized, inits, finals, cancels, throws>>
        /\ joinable /\ waiting' = TRUE
    BY DEF Wait, place, calls
  <1>2. ExecTypeOK /\ MainOK
    BY MainFacts
  <1>3. ExecTypeOK'
    BY <1>1, <1>2 DEF ExecTypeOK
  <1>4. MainOK'
    BY <1>1, <1>2 DEF MainOK, IsCancelled, LogicalTasks
  <1>5. Started' = Started /\ Joined' = Joined
    BY <1>1 DEF Started, Joined
  <1>6. \A v \in Workers : WorkerOK(v)'
    BY <1>1, <1>5, WorkersKept, MainFacts
  <1> QED BY <1>3, <1>4, <1>6 DEF ExecInv

LEMMA DefaultsTyped == Defaults \in Settings /\ Defaults.observers = 0
  BY ExecutorAssumption DEF Defaults, Settings

LEMMA WaitReturnKeeps ==
  ASSUME ExecInv, WaitReturn
  PROVE  ExecInv'
  <1> USE ExecConstants
  <1>1. /\ UNCHANGED <<settings, thrown, executions, pc, idx, initialized, throws>>
        /\ pc[Main] = "exit" /\ waiting' = FALSE /\ joinable' = FALSE
        /\ ctx' = Defaults /\ exception' = None
        /\ inits' = [v \in Workers |-> <<>>] /\ finals' = [v \in Workers |-> <<>>]
        /\ cancels' = [a \in Actors |-> {}]
    BY DEF WaitReturn, Fresh
  <1>2. ExecTypeOK /\ MainOK /\ \A v \in Workers : pc[v] = "exit"
    BY <1>1, MainFacts DEF Joined
  <1>3. ExecTypeOK'
    <2>1. /\ inits' \in [Workers -> Seq(Nat)] /\ finals' \in [Workers -> Seq(Nat)]
          /\ cancels' \in [Actors -> SUBSET Nat]
      BY <1>1
    <2> QED BY <1>1, <1>2, <2>1, DefaultsTyped DEF ExecTypeOK
  <1>4. MainOK'
    BY <1>1, <1>2 DEF MainOK, IsCancelled
  <1>5. Started' = {}
    BY <1>1 DEF Started
  <1>6. ASSUME NEW v \in Workers PROVE WorkerOK(v)'
    <2>1. initialized'[v] = <<>>
      <3>1. BracketOK(v)
        BY DEF ExecInv, WorkerOK
      <3>2. PICK k \in Nat : initialized[v] = Up(k - k)
        BY <1>2, <3>1 DEF BracketOK
      <3>3. Up(0) = <<>> /\ k - k = 0
        BY UpFacts
      <3> QED BY <1>1, <3>2, <3>3
    <2>2. pc'[v] = "exit" /\ inits'[v] = <<>> /\ finals'[v] = <<>> /\ cancels'[v] = {}
      BY <1>1, <1>2
    <2>3. BracketOK(v)'
      BY <1>1, <2>1, <2>2, DefaultsTyped, IdleBracket
    <2> QED BY <1>5, <2>2, <2>3 DEF WorkerOK, WorkerPlaces
  <1> QED BY <1>3, <1>4, <1>6 DEF ExecInv

-----------------------------------------------------------------------------
(* The inductive invariant, and what it is for.                            *)

LEMMA ExecInit == Init => ExecInv
  <1> SUFFICES ASSUME Init PROVE ExecInv
    OBVIOUS
  <1> USE ExecConstants
  <1>1. /\ ctx = Defaults /\ settings = Defaults /\ exception = None
        /\ inits = [v \in Workers |-> <<>>] /\ finals = [v \in Workers |-> <<>>]
        /\ initialized = [v \in Workers |-> <<>>] /\ cancels = [a \in Actors |-> {}]
        /\ joinable = FALSE /\ thrown = None /\ waiting = FALSE
        /\ pc = [a \in Actors |-> "exit"] /\ idx = [a \in Actors |-> 1]
        /\ executions = 0 /\ throws = 0
    BY DEF Init, Fresh
  <1>2. ExecTypeOK
    BY <1>1, DefaultsTyped DEF ExecTypeOK, MainPlaces
  <1>3. MainOK
    BY <1>1 DEF MainOK, MainPlaces, IsCancelled
  <1>4. Started = {}
    BY <1>1 DEF Started
  <1>5. ASSUME NEW v \in Workers PROVE WorkerOK(v)
    <2>1. /\ pc[v] = "exit" /\ inits[v] = <<>> /\ finals[v] = <<>> /\ cancels[v] = {}
          /\ initialized[v] = <<>>
      BY <1>1
    <2>2. Up(0) = <<>> /\ Down(0, 0) = <<>> /\ 0 - 0 = 0 /\ 0 <= ctx.observers
      BY <1>1, UpFacts, DownNone, DefaultsTyped
    <2>3. BracketOK(v)
      BY <2>1, <2>2 DEF BracketOK
    <2> QED BY <1>4, <2>1, <2>3 DEF WorkerOK, WorkerPlaces
  <1> QED BY <1>2, <1>3, <1>5 DEF ExecInv

LEMMA ExecStep == ExecInv /\ [Next]_vars => ExecInv'
  <1> SUFFICES ASSUME ExecInv, [Next]_vars PROVE ExecInv'
    OBVIOUS
  <1>1. CASE Next
    BY <1>1, SettingsKeep, ExecuteKeeps, WaitKeeps, WaitReturnKeeps, ConstructKeeps, CreateKeeps,
       StartWorkerKeeps, JoinKeeps, GlobalCancelKeeps, DumpProfileKeeps, WorkerStepKeeps
       DEF Next, ExecutorStep
  <1>2. CASE UNCHANGED vars
    <2>1. UNCHANGED <<settings, joinable, thrown, waiting, executions, ctx, exception, tasks, pc,
                      idx, initialized, inits, finals, cancels, throws>>
      BY <1>2 DEF vars, user, place, calls
    <2>2. ExecTypeOK /\ MainOK
      BY DEF ExecInv
    <2>3. ExecTypeOK' /\ MainOK'
      BY <2>1, <2>2 DEF ExecTypeOK, MainOK, IsCancelled, LogicalTasks
    <2>4. Started' = Started /\ Joined' = Joined
      BY <2>1 DEF Started, Joined
    <2>5. \A v \in Workers : WorkerOK(v)'
      BY <2>1, <2>4, WorkersKept, MainFacts
    <2> QED BY <2>3, <2>5 DEF ExecInv
  <1> QED BY <1>1, <1>2

\* Executor::execute and the worker threads stay in step: how far Main has
\* come bounds what each worker was told, what it has run and what it reported.
THEOREM ExecInvariant == Spec => []ExecInv
  BY ExecInit, ExecStep, PTL DEF Spec

\* On every worker thread the observers that were initialized are finalized
\* exactly once, in reverse order, before the thread ends, whatever throws;
\* and tasks run only between (WorkerThread::thread_main).
THEOREM ObserversAreBracketed == Spec => []ObserversBracketed
  <1>1. ExecInv => ObserversBracketed
    <2> SUFFICES ASSUME ExecInv, NEW w \in Workers
                 PROVE  /\ IsPrefix(inits[w], [i \in 1 .. ctx.observers |-> i])
                        /\ IsPrefix(finals[w], Reverse(inits[w]))
                        /\ pc[w] = "exit" => Len(finals[w]) = Len(inits[w])
                        /\ pc[w] \in {"loop", "take", "prepare", "run"} =>
                             Len(inits[w]) = ctx.observers /\ finals[w] = <<>>
      BY DEF ObserversBracketed
    <2>1. ctx.observers \in Nat
      BY MainFacts
    <2>2. PICK k \in Nat, m \in Nat :
            /\ m <= k /\ k <= ctx.observers
            /\ inits[w] = Up(k) /\ finals[w] = Down(k, m)
            /\ pc[w] \in {"loop", "take", "prepare", "run"} => m = 0 /\ k = ctx.observers
            /\ pc[w] = "exit" => m = k
      BY DEF ExecInv, WorkerOK, BracketOK
    <2>3. IsPrefix(inits[w], [i \in 1 .. ctx.observers |-> i])
      <3>1. IsPrefix(Up(k), Up(ctx.observers))
        BY <2>1, <2>2, UpPrefix
      <3> QED BY <2>2, <3>1 DEF Up
    <2>4. IsPrefix(finals[w], Reverse(inits[w]))
      BY <2>2, DownPrefix
    <2>5. Len(inits[w]) = k /\ Len(finals[w]) = m
      <3>1. Len(Up(k)) = k /\ Len(Down(k, m)) = m
        BY <2>2, UpFacts, DownFacts
      <3> QED BY <2>2, <3>1
    <2>6. m = 0 => finals[w] = <<>>
      BY <2>2, DownNone
    <2> QED BY <2>2, <2>3, <2>4, <2>5, <2>6
  <1> QED BY <1>1, ExecInvariant, PTL

\* When the executor thread has ended every worker has; wait() rethrows an
\* exception if and only if a callback of this execution threw, and otherwise
\* every task was done (Executor::execute).
THEOREM OutcomeIsTrue == Spec => []OutcomeTrue
  <1>1. ExecInv => OutcomeTrue
    <2> SUFFICES ASSUME ExecInv, joinable, pc[Main] = "exit"
                 PROVE  /\ \A w \in Workers : pc[w] = "exit"
                        /\ thrown = exception
                        /\ thrown # None => thrown[1] = executions
                        /\ thrown = None => IsFinished
      BY DEF OutcomeTrue
    <2>1. MainOK /\ \A w \in Workers : pc[w] = "exit"
      BY MainFacts DEF Joined
    <2>2. thrown = exception /\ (thrown # None => thrown[1] = executions)
      BY <2>1 DEF MainOK, IsCancelled
    <2>3. 0 \in Workers /\ 0 < ctx.workers
      BY ExecConstants, MainFacts
    <2>4. 0 \in Started
      BY <2>3 DEF Started
    <2>5. CancelOK(0) /\ pc[0] = "exit"
      BY <2>1, <2>3, <2>4 DEF ExecInv, WorkerOK
    <2>6. thrown = None => IsFinished
      BY <2>2, <2>5 DEF CancelOK, IsCancelled
    <2> QED BY <2>1, <2>2, <2>6
  <1> QED BY <1>1, ExecInvariant, PTL

\* After an exception every logical task was cancelled globally, and on every
\* worker unless all tasks were done (Executor::execute, thread_main).
THEOREM CancelIsComplete == Spec => []CancelReachesAll
  <1>1. ExecInv => CancelReachesAll
    <2> SUFFICES ASSUME ExecInv, joinable, pc[Main] = "exit", thrown # None
                 PROVE  /\ cancels[Main] = 1 .. ctx.graph.logical_tasks
                        /\ ~IsFinished => \A w \in 0 .. ctx.workers - 1 : cancels[w] = cancels[Main]
      BY DEF CancelReachesAll
    <2>1. MainOK /\ \A w \in Workers : pc[w] = "exit"
      BY MainFacts DEF Joined
    <2>2. cancels[Main] = LogicalTasks
      BY <2>1 DEF MainOK, IsCancelled
    <2>3. ASSUME ~IsFinished, NEW w \in 0 .. ctx.workers - 1
          PROVE  cancels[w] = LogicalTasks
      <3>1. w \in Workers /\ w < ctx.workers
        BY MainFacts, ExecConstants DEF Workers
      <3>2. w \in Started
        BY <3>1 DEF Started
      <3>3. CancelOK(w) /\ pc[w] = "exit"
        BY <2>1, <3>1, <3>2 DEF ExecInv, WorkerOK
      <3> QED BY <2>3, <3>3 DEF CancelOK
    <2> QED BY <2>2, <2>3 DEF LogicalTasks
  <1> QED BY <1>1, ExecInvariant, PTL

\* The first exception of an execution is kept until the execution is over
\* (CancellationManager::notify_exception).
THEOREM FirstExceptionIsKept == Spec => FirstExceptionKept
  <1>1. ASSUME [Next]_vars
        PROVE  [exception # None => exception' = exception \/ ~joinable']_vars
    <2>1. CASE UNCHANGED vars
      BY <2>1
    <2>2. CASE SetFlowGraph \/ SetConfiguration \/ AddThreadObserver \/ Execute \/ Wait
      BY <2>2 DEF SetFlowGraph, SetConfiguration, AddThreadObserver, Execute, Wait
    <2>3. CASE WaitReturn
      BY <2>3 DEF WaitReturn
    <2>4. CASE ExecutorStep
      BY <2>4 DEF ExecutorStep, Construct, CreatePhysicalTasks, StartWorker, Join, GlobalCancel,
                  DumpProfile, NotifyException
    <2>5. ASSUME NEW w \in Workers, WorkerStep(w)
          PROVE  exception # None => exception' = exception
      <3>1. CASE OnInitialize(w) \/ Loop(w) \/ TakeRunnableTask(w) \/ Prepare(w) \/ Complete(w)
        BY <3>1 DEF OnInitialize, Loop, TakeRunnableTask, Prepare, Complete
      <3>2. CASE ThreadLocalCancel(w) \/ Flush(w)
        BY <3>2 DEF ThreadLocalCancel, Flush
      <3>3. CASE OnFinalize(w) \/ Throw(w) \/ CaughtThrow(w) \/ CaughtFinalize(w)
        BY <3>3 DEF OnFinalize, Throw, CaughtThrow, CaughtFinalize, NotifyException
      <3> QED BY <2>5, <3>1, <3>2, <3>3 DEF WorkerStep
    <2> QED BY <1>1, <2>1, <2>2, <2>3, <2>4, <2>5 DEF Next
  <1> QED BY <1>1, PTL DEF Spec, FirstExceptionKept

-----------------------------------------------------------------------------
(* The profile log.  First what is needed of numbers and sequences.  A     *)
(* sequence is taken as a function on the first numbers: so one needs no   *)
(* set of all events.                                                      *)

\* A set of natural numbers has a least element.
LEMMA NatMin ==
  ASSUME NEW T, T \subseteq Nat, T # {}
  PROVE  \E m \in T : \A n \in T : m <= n
<1>1. PICK R : R = OpToRel(<, Nat)
  OBVIOUS
<1>2. \A x, y \in Nat : x < y => <<x, y>> \in R
  BY <1>1 DEF OpToRel
<1>3. IsWellFoundedOn(R, Nat)
  BY <1>1, NatLessThanWellFounded
<1>4. PICK x \in T : \A y \in T : ~(<<y, x>> \in R)
  BY <1>3, WFMin
<1>5. ASSUME NEW y \in T PROVE x <= y
  <2>1. x \in Nat /\ y \in Nat
    OBVIOUS
  <2>2. ~(y < x)
    BY <1>2, <1>4, <2>1
  <2> QED BY <2>1, <2>2
<1> QED
  BY <1>5

\* Induction on the natural numbers, for the set of those with a property.
LEMMA NatInduct ==
  ASSUME NEW T, 0 \in T, \A n \in Nat : n \in T => n + 1 \in T
  PROVE  Nat \subseteq T
  <1> DEFINE U == Nat \ T
  <1>1. SUFFICES ASSUME U # {} PROVE FALSE
    OBVIOUS
  <1>2. PICK m \in U : \A n \in U : m <= n
    BY <1>1, NatMin
  <1>3. m # 0 /\ m \in Nat
    OBVIOUS
  <1>4. m - 1 \in Nat /\ ~(m <= m - 1)
    BY <1>3
  <1>5. m - 1 \in T
    BY <1>2, <1>4
  <1>6. (m - 1) + 1 \in T
    BY <1>4, <1>5
  <1>7. (m - 1) + 1 = m
    BY <1>3
  <1> QED BY <1>6, <1>7

\* A set of numbers up to k has a greatest one.
LEMMA MaxIs ==
  ASSUME NEW k \in Nat, NEW r \in SUBSET (1 .. k), r # {}
  PROVE  Max(r) \in r /\ \A y \in r : Max(r) >= y
  <1> DEFINE T == {k - x : x \in r}
  <1>1. T \subseteq Nat /\ T # {}
    <2>1. \A x \in r : x \in 1 .. k /\ k - x \in Nat
      OBVIOUS
    <2> QED BY <2>1
  <1>2. PICK m \in T : \A n \in T : m <= n
    BY <1>1, NatMin
  <1>3. PICK x \in r : m = k - x
    OBVIOUS
  <1>4. ASSUME NEW y \in r PROVE x >= y
    <2>1. k - y \in T /\ x \in 1 .. k /\ y \in 1 .. k
      OBVIOUS
    <2>2. k - x <= k - y
      BY <1>2, <1>3, <2>1
    <2> QED BY <2>1, <2>2
  <1>5. \E z \in r : \A y \in r : z >= y
    BY <1>4
  <1> QED BY <1>5 DEF Max

-----------------------------------------------------------------------------
(* Sequences of anything: events have fields of several types.             *)

IsSeq(s) == Len(s) \in Nat /\ s = [i \in 1 .. Len(s) |-> s[i]]

\* A sequence is one of its own elements.
LEMMA SeqOfOwn ==
  ASSUME NEW s, IsSeq(s), NEW S, \A i \in 1 .. Len(s) : s[i] \in S
  PROVE  s \in Seq(S)
  <1>1. s \in [1 .. Len(s) -> S]
    BY DEF IsSeq
  <1> QED BY <1>1, SeqDef DEF IsSeq

\* The sequences over a set are such functions.
LEMMA IsOwnSeq ==
  ASSUME NEW S, NEW s \in Seq(S)
  PROVE  IsSeq(s)
  BY LenProperties DEF IsSeq

\* A function on the first numbers is a sequence.
LEMMA FunctionIsSeq ==
  ASSUME NEW n \in Nat, NEW f, f = [i \in 1 .. n |-> f[i]]
  PROVE  IsSeq(f) /\ Len(f) = n /\ DOMAIN f = 1 .. n
  <1> DEFINE S == {f[i] : i \in 1 .. n}
  <1>1. f \in [1 .. n -> S]
    OBVIOUS
  <1> HIDE DEF S
  <1>2. f \in Seq(S)
    BY <1>1, SeqDef
  <1>3. DOMAIN f = 1 .. n /\ DOMAIN f = 1 .. Len(f) /\ Len(f) \in Nat
    BY <1>1, <1>2, LenProperties
  <1>4. Len(f) = n
    BY <1>3
  <1> QED BY <1>2, <1>3, <1>4, IsOwnSeq

\* Two sequences have a set in common.
LEMMA CommonSet ==
  ASSUME NEW a, IsSeq(a), NEW b, IsSeq(b), NEW c, IsSeq(c)
  PROVE  \E S : a \in Seq(S) /\ b \in Seq(S) /\ c \in Seq(S)
  <1> DEFINE A == {a[i] : i \in 1 .. Len(a)}
             B == {b[i] : i \in 1 .. Len(b)}
             C == {c[i] : i \in 1 .. Len(c)}
             S == A \cup B \cup C
  <1>1. /\ \A i \in 1 .. Len(a) : a[i] \in S
        /\ \A i \in 1 .. Len(b) : b[i] \in S
        /\ \A i \in 1 .. Len(c) : c[i] \in S
    OBVIOUS
  <1> HIDE DEF S
  <1> QED BY <1>1, SeqOfOwn

\* Two sequences of the same elements are equal.
LEMMA SeqsEqual ==
  ASSUME NEW a, IsSeq(a), NEW b, IsSeq(b), Len(a) = Len(b), \A i \in 1 .. Len(a) : a[i] = b[i]
  PROVE  a = b
  BY DEF IsSeq

\* The elements of a concatenation.
LEMMA JoinedFacts ==
  ASSUME NEW a, IsSeq(a), NEW b, IsSeq(b)
  PROVE  /\ IsSeq(a \o b) /\ Len(a \o b) = Len(a) + Len(b)
         /\ \A i \in 1 .. Len(a) : (a \o b)[i] = a[i]
         /\ \A i \in 1 .. Len(b) : (a \o b)[Len(a) + i] = b[i]
  <1>1. PICK S : a \in Seq(S) /\ b \in Seq(S)
    BY CommonSet
  <1> DEFINE c == a \o b
  <1>2. /\ c \in Seq(S) /\ Len(c) = Len(a) + Len(b) /\ Len(a) \in Nat /\ Len(b) \in Nat
        /\ \A i \in 1 .. Len(a) + Len(b) : c[i] = IF i <= Len(a) THEN a[i] ELSE b[i - Len(a)]
    BY <1>1, ConcatProperties, LenProperties
  <1> HIDE DEF c
  <1>3. IsSeq(c)
    BY <1>2, IsOwnSeq
  <1>4. ASSUME NEW i \in 1 .. Len(a) PROVE c[i] = a[i]
    BY <1>2
  <1>5. ASSUME NEW i \in 1 .. Len(b) PROVE c[Len(a) + i] = b[i]
    <2>1. Len(a) + i \in 1 .. Len(a) + Len(b) /\ ~(Len(a) + i <= Len(a)) /\ (Len(a) + i) - Len(a) = i
      BY <1>2
    <2> QED BY <1>2, <2>1
  <1> QED BY <1>2, <1>3, <1>4, <1>5 DEF c

\* Concatenation is associative.
LEMMA JoinAssociates ==
  ASSUME NEW a, IsSeq(a), NEW b, IsSeq(b), NEW c, IsSeq(c)
  PROVE  (a \o b) \o c = a \o (b \o c)
  <1>1. PICK S : a \in Seq(S) /\ b \in Seq(S) /\ c \in Seq(S)
    BY CommonSet
  <1> QED BY <1>1, ConcatAssociative

\* The empty sequence is neutral.
LEMMA JoinEmpty ==
  ASSUME NEW a, IsSeq(a)
  PROVE  a \o << >> = a /\ << >> \o a = a /\ IsSeq(<< >>) /\ Len(<< >>) = 0
  <1>1. << >> \in Seq({}) /\ Len(<< >>) = 0
    BY EmptySeq
  <1>2. IsSeq(<< >>)
    BY <1>1, IsOwnSeq
  <1>3. PICK S : a \in Seq(S)
    BY CommonSet
  <1> QED BY <1>1, <1>2, <1>3, ConcatEmptySeq

\* A sequence of one element.
LEMMA SingleIsSeq ==
  ASSUME NEW e
  PROVE  IsSeq(<<e>>) /\ Len(<<e>>) = 1 /\ <<e>>[1] = e
  <1>1. <<e>> \in Seq({e}) /\ Len(<<e>>) = 1
    OBVIOUS
  <1> QED BY <1>1, IsOwnSeq

\* Append is to join one element.
LEMMA AppendJoins ==
  ASSUME NEW a, IsSeq(a), NEW e
  PROVE  /\ IsSeq(Append(a, e)) /\ Len(Append(a, e)) = Len(a) + 1
         /\ \A i \in 1 .. Len(a) : Append(a, e)[i] = a[i]
         /\ Append(a, e)[Len(a) + 1] = e
         /\ Append(a, e) = a \o <<e>>
  <1>1. PICK S : a \in Seq(S) /\ <<e>> \in Seq(S)
    BY CommonSet, SingleIsSeq
  <1>2. e \in S
    <2>1. 1 \in 1 .. Len(<<e>>) /\ <<e>>[1] = e
      BY SingleIsSeq
    <2> QED BY <1>1, <2>1, ElementOfSeq
  <1> DEFINE p == Append(a, e)
             q == a \o <<e>>
  <1>3. /\ p \in Seq(S) /\ Len(p) = Len(a) + 1 /\ Len(a) \in Nat
        /\ \A i \in 1 .. Len(a) : p[i] = a[i]
        /\ p[Len(a) + 1] = e
    BY <1>1, <1>2, AppendProperties, LenProperties
  <1>4. /\ IsSeq(q) /\ Len(q) = Len(a) + 1
        /\ \A i \in 1 .. Len(a) : q[i] = a[i]
        /\ q[Len(a) + 1] = e
    <2>1. IsSeq(<<e>>) /\ Len(<<e>>) = 1 /\ <<e>>[1] = e
      BY SingleIsSeq
    <2> DEFINE b == <<e>>
    <2> HIDE DEF b
    <2>2. /\ IsSeq(a \o b) /\ Len(a \o b) = Len(a) + Len(b)
          /\ \A i \in 1 .. Len(a) : (a \o b)[i] = a[i]
          /\ \A i \in 1 .. Len(b) : (a \o b)[Len(a) + i] = b[i]
      BY <2>1, JoinedFacts DEF b
    <2> QED BY <2>1, <2>2 DEF b
  <1> HIDE DEF p, q
  <1>5. IsSeq(p)
    BY <1>3, IsOwnSeq
  <1>6. \A i \in 1 .. Len(p) : p[i] = q[i]
    <2> SUFFICES ASSUME NEW i \in 1 .. Len(p) PROVE p[i] = q[i]
      OBVIOUS
    <2>1. i \in 1 .. Len(a) \/ i = Len(a) + 1
      BY <1>3
    <2> QED BY <1>3, <1>4, <2>1
  <1>7. p = q
    BY <1>3, <1>4, <1>5, <1>6, SeqsEqual
  <1> QED BY <1>3, <1>5, <1>7 DEF p, q

\* The first elements of a sequence.
Upto(es, i) == [j \in 1 .. i |-> es[j]]

\* The first elements of a sequence, one by one.
LEMMA UptoFacts ==
  ASSUME NEW es, NEW i \in Nat
  PROVE  /\ IsSeq(Upto(es, i))
         /\ Append(Upto(es, i), es[i + 1]) = Upto(es, i + 1)
         /\ Upto(es, 0) = <<>>
  <1> DEFINE f == Upto(es, i)
             g == Upto(es, i + 1)
             x == es[i + 1]
             h == Append(f, x)
  <1>1. f = [j \in 1 .. i |-> f[j]] /\ g = [j \in 1 .. i + 1 |-> g[j]]
    BY DEF Upto
  <1>2. /\ \A j \in 1 .. i : f[j] = es[j]
        /\ \A j \in 1 .. i + 1 : g[j] = es[j]
    BY DEF Upto
  <1>3. Upto(es, 0) = <<>>
    BY DEF Upto
  <1>4. i + 1 \in Nat
    OBVIOUS
  <1> HIDE DEF f, g, x
  <1>5. IsSeq(f) /\ Len(f) = i /\ IsSeq(g) /\ Len(g) = i + 1
    BY <1>1, <1>4, FunctionIsSeq
  <1>6. /\ IsSeq(h) /\ Len(h) = Len(f) + 1
        /\ \A j \in 1 .. Len(f) : h[j] = f[j]
        /\ h[Len(f) + 1] = x
    BY <1>5, AppendJoins
  <1> HIDE DEF h
  <1>7. ASSUME NEW j \in 1 .. i + 1 PROVE h[j] = g[j]
    <2>1. j \in 1 .. i \/ j = i + 1
      OBVIOUS
    <2> QED BY <1>2, <1>5, <1>6, <2>1 DEF x
  <1>8. h = g
    BY <1>5, <1>6, <1>7, SeqsEqual
  <1> QED BY <1>3, <1>5, <1>8 DEF f, g, h, x

\* A sequence behind one element.
LEMMA Behind ==
  ASSUME NEW x, NEW v, IsSeq(v)
  PROVE  /\ IsSeq(<<x>> \o v) /\ Len(<<x>> \o v) = Len(v) + 1
         /\ (<<x>> \o v)[1] = x
         /\ \A i \in 1 .. Len(v) : (<<x>> \o v)[1 + i] = v[i]
  <1>1. IsSeq(<<x>>) /\ Len(<<x>>) = 1 /\ <<x>>[1] = x
    BY SingleIsSeq
  <1>2. PICK u : u = <<x>>
    OBVIOUS
  <1>3. IsSeq(u) /\ Len(u) = 1 /\ u[1] = x
    BY <1>1, <1>2
  <1>isSeq. IsSeq(u)
    BY <1>3
  <1>4. PICK c : c = u \o v
    OBVIOUS
  <1>5. /\ IsSeq(u \o v) /\ Len(u \o v) = Len(u) + Len(v)
        /\ \A i \in 1 .. Len(u) : (u \o v)[i] = u[i]
        /\ \A i \in 1 .. Len(v) : (u \o v)[Len(u) + i] = v[i]
    BY <1>isSeq, JoinedFacts
  <1>6. /\ IsSeq(c) /\ Len(c) = 1 + Len(v)
        /\ c[1] = x
        /\ \A i \in 1 .. Len(v) : c[1 + i] = v[i]
    <2>1. /\ IsSeq(c) /\ Len(c) = Len(u) + Len(v)
          /\ \A i \in 1 .. Len(u) : c[i] = u[i]
          /\ \A i \in 1 .. Len(v) : c[Len(u) + i] = v[i]
      BY <1>4, <1>5, Zenon
    <2>2. 1 \in 1 .. 1
      OBVIOUS
    <2> QED BY <1>3, <2>1, <2>2
  <1>7. Len(v) + 1 = 1 + Len(v)
    BY DEF IsSeq
  <1>8. c = <<x>> \o v
    BY <1>2, <1>4, Zenon
  <1> QED BY <1>6, <1>7, <1>8, Zenon

-----------------------------------------------------------------------------
(* One event.                                                              *)

\* An event is its kind and the fields of the kind.
IsEvent(e) ==
  /\ e[1] \in DOMAIN FieldCount
  /\ e = [i \in 1 .. 1 + FieldCount[e[1]] |-> e[i]]

\* What is known of every kind of event.
LEMMA Sizes ==
  ASSUME NEW kind \in DOMAIN FieldCount
  PROVE  FieldCount[kind] \in 2 .. 4 /\ SizeOf(kind) \in Nat /\ SizeOf(kind) >= 20
         /\ SizeOf(kind) = 4 + 8 * FieldCount[kind]
  <1>1. FieldCount[kind] \in {2, 3, 4}
    BY DEF FieldCount
  <1> DEFINE n == FieldCount[kind]
  <1>2. n \in 2 .. 4
    BY <1>1
  <1> HIDE DEF n
  <1>3. 4 + 8 * n \in Nat /\ 4 + 8 * n >= 20
    BY <1>2
  <1> QED BY <1>2, <1>3 DEF n, SizeOf

\* The timestamp makes a message an event.
LEMMA Stamped ==
  ASSUME NEW m, IsMessage(m), NEW t
  PROVE  IsEvent(<<m[1], t>> \o Tail(m))
  <1> DEFINE n == FieldCount[m[1]]
             h == <<m[1], t>>
             r == Tail(m)
             e == h \o r
  <1>1. n \in Nat /\ n >= 2 /\ m = [i \in 1 .. n |-> m[i]] /\ m[1] \in DOMAIN FieldCount
    BY Sizes DEF IsMessage
  <1> HIDE DEF n
  <1>2. IsSeq(m) /\ Len(m) = n
    BY <1>1, FunctionIsSeq
  <1>3. IsSeq(h) /\ Len(h) = 2 /\ h[1] = m[1]
    <2>1. h \in Seq({m[1], t}) /\ Len(h) = 2 /\ h[1] = m[1]
      OBVIOUS
    <2> QED BY <2>1, IsOwnSeq
  <1>4. IsSeq(r) /\ Len(r) = n - 1
    <2>1. PICK S : m \in Seq(S)
      BY <1>2, CommonSet
    <2>2. m # << >>
      BY <1>1, <1>2
    <2>3. r \in Seq(S) /\ Len(r) = Len(m) - 1
      BY <2>1, <2>2, HeadTailProperties
    <2> QED BY <1>2, <2>3, IsOwnSeq
  <1> HIDE DEF h, r
  <1>5. IsSeq(e) /\ Len(e) = n + 1 /\ e[1] = m[1]
    <2>1. /\ IsSeq(e) /\ Len(e) = Len(h) + Len(r)
          /\ \A i \in 1 .. Len(h) : e[i] = h[i]
      BY <1>3, <1>4, JoinedFacts
    <2> HIDE DEF e
    <2>2. 1 \in 1 .. Len(h) /\ Len(h) + Len(r) = n + 1
      BY <1>1, <1>3, <1>4
    <2> QED BY <1>3, <2>1, <2>2
  <1> HIDE DEF e
  <1>6. e = [i \in 1 .. 1 + n |-> e[i]]
    <2>1. n + 1 = 1 + n
      BY <1>1
    <2> QED BY <1>5, <2>1 DEF IsSeq
  <1> QED BY <1>1, <1>5, <1>6 DEF e, h, r, n, IsEvent

-----------------------------------------------------------------------------
(* One block.                                                              *)

\* The word at a multiple of 4, and the event there.
LEMMA EventIs ==
  ASSUME NEW b, NEW k \in Nat, b.data[k + 1] \in DOMAIN FieldCount
  PROVE  /\ WordAt(b, 4 * k) = b.data[k + 1]
         /\ EventAt(b, 4 * k) =
              [i \in 1 .. 1 + FieldCount[b.data[k + 1]] |->
                 b.data[IF i = 1 THEN k + 1 ELSE k + 2 * i - 2]]
  <1> DEFINE n == FieldCount[b.data[k + 1]]
  <1>1. n \in 2 .. 4
    BY Sizes
  <1>2. (4 * k) \div 4 + 1 = k + 1
    OBVIOUS
  <1>3. WordAt(b, 4 * k) = b.data[k + 1]
    BY <1>2 DEF WordAt
  <1> HIDE DEF n
  <1>4. ASSUME NEW i \in 1 .. 1 + n
        PROVE  WordAt(b, IF i = 1 THEN 4 * k ELSE 4 * k + 4 + 8 * (i - 2)) =
               b.data[IF i = 1 THEN k + 1 ELSE k + 2 * i - 2]
    <2>1. CASE i = 1
      BY <1>3, <2>1
    <2>2. CASE i # 1
      <3> DEFINE j == k + 2 * i - 3
      <3>1. i \in Int /\ i >= 2
        BY <1>1, <2>2
      <3>2. j \in Nat /\ 4 * k + 4 + 8 * (i - 2) = 4 * j /\ j + 1 = k + 2 * i - 2
        BY <3>1
      <3> HIDE DEF j
      <3>3. (4 * j) \div 4 + 1 = j + 1
        BY <3>2
      <3>4. WordAt(b, 4 * j) = b.data[j + 1]
        BY <3>3 DEF WordAt
      <3> QED BY <2>2, <3>2, <3>4
    <2> QED BY <2>1, <2>2
  <1>5. EventAt(b, 4 * k) = [i \in 1 .. 1 + n |-> WordAt(b, IF i = 1 THEN 4 * k ELSE 4 * k + 4 + 8 * (i - 2))]
    BY <1>3 DEF EventAt, n
  <1> QED BY <1>3, <1>4, <1>5 DEF n

\* The events es are in a block, the next one behind ws[i] words.
Holds(b, es, ws) ==
  /\ IsSeq(b.data) /\ b.written = 4 * Len(b.data)
  /\ IsSeq(es)
  /\ ws[0] = 0 /\ ws[Len(es)] = Len(b.data)
  /\ \A i \in 1 .. Len(es) :
       /\ ws[i - 1] \in Nat
       /\ b.data[ws[i - 1] + 1] \in DOMAIN FieldCount
       /\ ws[i] = ws[i - 1] + 1 + 2 * FieldCount[b.data[ws[i - 1] + 1]]
       /\ ws[i] <= Len(b.data)
       /\ es[i] = EventAt(b, 4 * ws[i - 1])

\* The loop of to_json.
Reads(b, m, after) ==
  after = [n \in 0 .. m |->
    IF n = 0 THEN [p |-> 0, jsons |-> <<>>]
    ELSE IF after[n - 1].p >= b.written THEN after[n - 1]
    ELSE [p     |-> after[n - 1].p + SizeOf(WordAt(b, after[n - 1].p)),
          jsons |-> Append(after[n - 1].jsons, EventAt(b, after[n - 1].p))]]

\* The loop over a block is well-defined for every number of turns.
LEMMA ReadsExist ==
  ASSUME NEW b, NEW m \in Nat
  PROVE  \E after : Reads(b, m, after)
  <1> DEFINE T == {k \in Nat : \E after : Reads(b, k, after)}
  <1>1. 0 \in T
    <2> DEFINE after == [n \in 0 .. 0 |-> [p |-> 0, jsons |-> <<>>]]
    <2>1. Reads(b, 0, after)
      BY DEF Reads
    <2> HIDE DEF after
    <2> QED BY <2>1
  <1>2. ASSUME NEW k \in Nat, k \in T PROVE k + 1 \in T
    <2>1. PICK after : Reads(b, k, after)
      BY <1>2
    <2> DEFINE turn(f, n) == IF n = 0 THEN [p |-> 0, jsons |-> <<>>]
                 ELSE IF f[n - 1].p >= b.written THEN f[n - 1]
                 ELSE [p     |-> f[n - 1].p + SizeOf(WordAt(b, f[n - 1].p)),
                       jsons |-> Append(f[n - 1].jsons, EventAt(b, f[n - 1].p))]
               new == [n \in 0 .. k + 1 |-> turn(after, n)]
    <2>2. \A n \in 0 .. k : after[n] = turn(after, n)
      BY <2>1 DEF Reads
    <2>3. \A n \in 0 .. k + 1 : new[n] = turn(after, n)
      <3> HIDE DEF turn
      <3> QED OBVIOUS
    <2>4. \A n \in 0 .. k : new[n] = after[n]
      <3> HIDE DEF turn, new
      <3> QED BY <2>2, <2>3
    <2>5. \A n \in 0 .. k + 1 : turn(new, n) = turn(after, n)
      <3> SUFFICES ASSUME NEW n \in 0 .. k + 1, n # 0 PROVE turn(new, n) = turn(after, n)
        BY DEF turn
      <3>1. n - 1 \in 0 .. k
        OBVIOUS
      <3>2. new[n - 1] = after[n - 1]
        <4> HIDE DEF new, turn
        <4> QED BY <2>4, <3>1
      <3> HIDE DEF new
      <3> QED BY <3>2 DEF turn
    <2>6. new = [n \in 0 .. k + 1 |-> turn(new, n)]
      <3>1. new = [n \in 0 .. k + 1 |-> new[n]]
        <4> HIDE DEF turn
        <4> QED OBVIOUS
      <3>2. \A n \in 0 .. k + 1 : new[n] = turn(new, n)
        <4> HIDE DEF turn, new
        <4> QED BY <2>3, <2>5
      <3> HIDE DEF turn, new
      <3> QED BY <3>1, <3>2
    <2>7. Reads(b, k + 1, new)
      <3> HIDE DEF new
      <3> QED BY <2>6 DEF Reads, turn
    <2> HIDE DEF new
    <2> QED BY <2>7
  <1>3. Nat \subseteq T
    <2> HIDE DEF T
    <2> QED BY <1>1, <1>2, NatInduct
  <1> QED BY <1>3

\* What the loop prints of a block are the events that the block holds.
LEMMA BlockIsRead ==
  ASSUME NEW b, NEW es, NEW ws, Holds(b, es, ws)
  PROVE  BlockToJson(b) = es
  <1> DEFINE n == Len(es)
             w == b.written
             k == w \div 20
             ps == [i \in 0 .. n |-> 4 * ws[i]]
             after == CHOOSE f : Reads(b, k, f)
  <1>1. n \in Nat /\ w \in Nat /\ k \in Nat /\ es = Upto(es, n)
    <2>1. n \in Nat /\ es = Upto(es, n)
      BY DEF Holds, IsSeq, Upto
    <2>2. w \in Nat
      <3> DEFINE l == Len(b.data)
      <3>1. l \in Nat /\ w = 4 * l
        BY DEF Holds, IsSeq
      <3> HIDE DEF l
      <3> QED BY <3>1
    <2> HIDE DEF n, w
    <2>3. w \div 20 \in Nat
      BY <2>2
    <2> QED BY <2>1, <2>2, <2>3
  <1>2. Reads(b, k, after)
    BY <1>1, ReadsExist
  <1>3. BlockToJson(b) = after[k].jsons
    <2>1. SizeOf("begin_execution") = 20
      BY DEF SizeOf, FieldCount
    <2> QED BY <2>1 DEF BlockToJson, Reads
  <1>4. ps[0] = 0 /\ ps[n] = w
    BY <1>1 DEF Holds
  <1>5. ASSUME NEW i \in 1 .. n
        PROVE  /\ ps[i - 1] \in Nat /\ ps[i - 1] < w
               /\ ps[i] = ps[i - 1] + SizeOf(WordAt(b, ps[i - 1]))
               /\ SizeOf(WordAt(b, ps[i - 1])) \in Nat /\ SizeOf(WordAt(b, ps[i - 1])) >= 20
               /\ es[i] = EventAt(b, ps[i - 1])
    <2> DEFINE u == ws[i - 1]
               kind == b.data[u + 1]
    <2>1. /\ u \in Nat /\ kind \in DOMAIN FieldCount /\ ws[i] = u + 1 + 2 * FieldCount[kind]
          /\ ws[i] <= Len(b.data) /\ es[i] = EventAt(b, 4 * u)
          /\ w = 4 * Len(b.data) /\ Len(b.data) \in Nat
      BY DEF Holds, IsSeq
    <2>2. i - 1 \in 0 .. n /\ i \in 0 .. n
      BY <1>1
    <2>3. ps[i - 1] = 4 * u /\ ps[i] = 4 * ws[i]
      BY <2>2
    <2> HIDE DEF u, kind, w, n, ps
    <2>4. FieldCount[kind] \in 2 .. 4 /\ SizeOf(kind) = 4 + 8 * FieldCount[kind] /\ SizeOf(kind) >= 20 /\ SizeOf(kind) \in Nat
      BY <2>1, Sizes
    <2>5. WordAt(b, 4 * u) = kind
      BY <2>1, EventIs DEF kind
    <2>6. 4 * u \in Nat /\ 4 * u < w /\ 4 * ws[i] = 4 * u + SizeOf(kind)
      <3> DEFINE c == FieldCount[kind]
                 l == Len(b.data)
                 z == SizeOf(kind)
      <3>1. c \in 2 .. 4 /\ z = 4 + 8 * c /\ u \in Nat /\ ws[i] = u + 1 + 2 * c /\ ws[i] <= l /\ w = 4 * l /\ l \in Nat
        BY <2>1, <2>4
      <3> HIDE DEF c, l, z
      <3>2. 4 * u \in Nat /\ 4 * u < w /\ 4 * ws[i] = 4 * u + z
        BY <3>1
      <3> QED BY <3>2 DEF z
    <2> QED BY <2>1, <2>3, <2>4, <2>5, <2>6
  <1> HIDE DEF after, n, w, ps
  <1>6. n <= k
    <2> DEFINE T == {i \in Nat : i <= n => ps[i] \in Nat /\ 20 * i <= ps[i]}
    <2>1. 0 \in T
      BY <1>4
    <2>2. ASSUME NEW i \in Nat, i \in T PROVE i + 1 \in T
      <3> SUFFICES ASSUME i + 1 <= n PROVE ps[i + 1] \in Nat /\ 20 * (i + 1) <= ps[i + 1]
        OBVIOUS
      <3>1. i + 1 \in 1 .. n /\ (i + 1) - 1 = i /\ ps[i] \in Nat /\ 20 * i <= ps[i]
        BY <1>1, <2>2
      <3> DEFINE z == SizeOf(WordAt(b, ps[i]))
      <3>2. ps[i + 1] = ps[i] + z /\ z \in Nat /\ z >= 20
        BY <1>5, <3>1
      <3> HIDE DEF z
      <3> QED BY <3>1, <3>2
    <2>3. Nat \subseteq T
      <3> HIDE DEF T
      <3> QED BY <2>1, <2>2, NatInduct
    <2>4. 20 * n <= w
      BY <1>1, <1>4, <2>3
    <2> QED BY <1>1, <2>4
  <1> HIDE DEF k
  <1>7. \A i \in 0 .. k : after[i] =
          IF i = 0 THEN [p |-> 0, jsons |-> <<>>]
          ELSE IF after[i - 1].p >= w THEN after[i - 1]
          ELSE [p     |-> after[i - 1].p + SizeOf(WordAt(b, after[i - 1].p)),
                jsons |-> Append(after[i - 1].jsons, EventAt(b, after[i - 1].p))]
    BY <1>2 DEF Reads, w
  <1>8. \A i \in 0 .. n : after[i] = [p |-> ps[i], jsons |-> Upto(es, i)]
    <2> DEFINE T == {i \in Nat : i <= n => after[i] = [p |-> ps[i], jsons |-> Upto(es, i)]}
    <2>1. 0 \in T
      <3>1. 0 \in 0 .. k
        BY <1>1
      <3>2. after[0] = [p |-> 0, jsons |-> <<>>]
        BY <1>7, <3>1
      <3>3. Upto(es, 0) = <<>>
        BY UptoFacts
      <3> QED BY <1>4, <3>2, <3>3
    <2>2. ASSUME NEW i \in Nat, i \in T PROVE i + 1 \in T
      <3> SUFFICES ASSUME i + 1 <= n PROVE after[i + 1] = [p |-> ps[i + 1], jsons |-> Upto(es, i + 1)]
        OBVIOUS
      <3>1. i + 1 \in 1 .. n /\ (i + 1) - 1 = i /\ i + 1 # 0 /\ i + 1 \in 0 .. k
        BY <1>1, <1>6
      <3> DEFINE last == after[i]
      <3>2. last = [p |-> ps[i], jsons |-> Upto(es, i)]
        BY <1>1, <2>2
      <3>3. after[i + 1] = IF last.p >= w THEN last
                           ELSE [p     |-> last.p + SizeOf(WordAt(b, last.p)),
                                 jsons |-> Append(last.jsons, EventAt(b, last.p))]
        BY <1>7, <3>1
      <3>4. /\ ps[i] \in Nat /\ ps[i] < w /\ ps[i + 1] = ps[i] + SizeOf(WordAt(b, ps[i]))
            /\ es[i + 1] = EventAt(b, ps[i])
        BY <1>5, <3>1
      <3>5. Append(Upto(es, i), es[i + 1]) = Upto(es, i + 1)
        BY UptoFacts
      <3> HIDE DEF last
      <3>6. last.p = ps[i] /\ last.jsons = Upto(es, i)
        BY <3>2
      <3>7. ~(ps[i] >= w)
        BY <1>1, <3>4
      <3>8. after[i + 1] = [p     |-> ps[i] + SizeOf(WordAt(b, ps[i])),
                            jsons |-> Append(Upto(es, i), EventAt(b, ps[i]))]
        BY <3>3, <3>6, <3>7
      <3> QED BY <3>4, <3>5, <3>8
    <2>3. Nat \subseteq T
      <3> HIDE DEF T
      <3> QED BY <2>1, <2>2, NatInduct
    <2> SUFFICES ASSUME NEW i \in 0 .. n PROVE after[i] = [p |-> ps[i], jsons |-> Upto(es, i)]
      OBVIOUS
    <2>4. i \in Nat /\ i <= n
      BY <1>1
    <2>5. i \in T
      <3> HIDE DEF T
      <3> QED BY <2>3, <2>4
    <2> QED BY <2>4, <2>5
  <1>9. \A i \in n .. k : after[i] = [p |-> w, jsons |-> es]
    <2> DEFINE T == {i \in Nat : n + i <= k => after[n + i] = [p |-> w, jsons |-> es]}
    <2>1. 0 \in T
      <3>1. n \in 0 .. n /\ n + 0 = n
        BY <1>1
      <3>2. after[n] = [p |-> w, jsons |-> es]
        BY <1>1, <1>4, <1>8, <3>1
      <3> QED BY <3>1, <3>2
    <2>2. ASSUME NEW i \in Nat, i \in T PROVE i + 1 \in T
      <3> SUFFICES ASSUME n + (i + 1) <= k PROVE after[n + (i + 1)] = [p |-> w, jsons |-> es]
        OBVIOUS
      <3> DEFINE j == n + (i + 1)
      <3>1. j \in 0 .. k /\ j # 0 /\ j - 1 = n + i /\ n + i <= k
        BY <1>1
      <3>2. after[n + i] = [p |-> w, jsons |-> es]
        BY <2>2, <3>1
      <3> HIDE DEF j
      <3>3. after[j - 1].p >= w /\ after[j - 1] = [p |-> w, jsons |-> es]
        BY <1>1, <3>1, <3>2
      <3>4. after[j] = after[j - 1]
        BY <1>7, <3>1, <3>3
      <3> QED BY <3>3, <3>4 DEF j
    <2>3. Nat \subseteq T
      <3> HIDE DEF T
      <3> QED BY <2>1, <2>2, NatInduct
    <2> SUFFICES ASSUME NEW i \in n .. k PROVE after[i] = [p |-> w, jsons |-> es]
      OBVIOUS
    <2>4. i - n \in Nat /\ n + (i - n) = i /\ i <= k
      BY <1>1
    <2>5. i - n \in T
      <3> HIDE DEF T
      <3> QED BY <2>3, <2>4
    <2> QED BY <2>4, <2>5
  <1>10. after[k].jsons = es
    <2>1. k \in n .. k
      BY <1>1, <1>6
    <2> QED BY <1>9, <2>1
  <1> QED BY <1>3, <1>10

\* Nothing is in a block that nothing was written to.
LEMMA EmptyHolds ==
  Holds(LogBlock, <<>>, [i \in {0} |-> 0]) /\ LogBlock.written <= LOG_BLOCK_SIZE
  <1>1. IsSeq(<<>>) /\ Len(<<>>) = 0
    <2>1. << >> \in Seq({}) /\ Len(<< >>) = 0
      BY EmptySeq
    <2> QED BY <2>1, IsOwnSeq
  <1>2. LogBlock.written = 0 /\ LogBlock.data = <<>>
    BY DEF LogBlock
  <1>3. 0 <= LOG_BLOCK_SIZE
    BY BlockAssumption
  <1> QED BY <1>1, <1>2, <1>3 DEF Holds

\* The next event goes behind the ones in the block, which stay as they are.
LEMMA WriteHolds ==
  ASSUME NEW b, NEW es, NEW ws, Holds(b, es, ws), NEW e, IsEvent(e)
  PROVE  \E us : Holds(Write(b, e), Append(es, e), us)
  <1> DEFINE n == Len(es)
             l == Len(b.data)
             kind == e[1]
             f == FieldCount[kind]
             m == 1 + 2 * f
             c == Write(b, e)
             us == [i \in 0 .. n + 1 |-> IF i <= n THEN ws[i] ELSE l + m]
             new == Append(es, e)
             bs == Bytes(e)
  <1>1. /\ n \in Nat /\ l \in Nat /\ IsSeq(es) /\ IsSeq(b.data) /\ b.written = 4 * l
        /\ ws[0] = 0 /\ ws[n] = l
    BY DEF Holds, IsSeq
  <1>2. kind \in DOMAIN FieldCount /\ f \in 2 .. 4 /\ SizeOf(kind) = 4 + 8 * f
    BY Sizes DEF IsEvent
  <1>3. c.written = 4 * l + (4 + 8 * f) /\ c.data = b.data \o bs
    BY <1>1, <1>2 DEF Write
  <1>4. IsSeq(bs) /\ Len(bs) = m /\ \A i \in 1 .. m : bs[i] = e[i \div 2 + 1]
    <2>1. /\ bs = [i \in 1 .. m |-> bs[i]]
          /\ \A i \in 1 .. m : bs[i] = e[i \div 2 + 1]
      BY DEF Bytes
    <2> HIDE DEF bs, f
    <2>2. m \in Nat
      BY <1>2
    <2> HIDE DEF m
    <2> QED BY <2>1, <2>2, FunctionIsSeq
  <1>5. /\ IsSeq(new) /\ Len(new) = n + 1
        /\ \A i \in 1 .. n : new[i] = es[i]
        /\ new[n + 1] = e
    <2>1. IsSeq(es)
      BY <1>1
    <2>2. /\ IsSeq(Append(es, e)) /\ Len(Append(es, e)) = Len(es) + 1
          /\ \A i \in 1 .. Len(es) : Append(es, e)[i] = es[i]
          /\ Append(es, e)[Len(es) + 1] = e
      BY <2>1, AppendJoins
    <2> QED BY <2>2, Zenon
  <1> HIDE DEF c, bs, new
  <1>6. /\ IsSeq(c.data) /\ Len(c.data) = l + m
        /\ \A i \in 1 .. l : c.data[i] = b.data[i]
        /\ \A i \in 1 .. m : c.data[l + i] = bs[i]
    <2>1. IsSeq(b.data) /\ IsSeq(bs)
      BY <1>1, <1>4
    <2>2. /\ IsSeq(b.data \o bs) /\ Len(b.data \o bs) = Len(b.data) + Len(bs)
          /\ \A i \in 1 .. Len(b.data) : (b.data \o bs)[i] = b.data[i]
          /\ \A i \in 1 .. Len(bs) : (b.data \o bs)[Len(b.data) + i] = bs[i]
      BY <2>1, JoinedFacts
    <2> QED BY <1>3, <1>4, <2>2
  <1>7. c.written = 4 * Len(c.data)
    <2> HIDE DEF l, f
    <2>1. 4 * l + (4 + 8 * f) = 4 * (l + m)
      BY <1>1, <1>2
    <2> QED BY <1>3, <1>6, <2>1
  <1>8. us[0] = 0 /\ us[n + 1] = Len(c.data) /\ \A i \in 0 .. n : us[i] = ws[i]
    <2> HIDE DEF n, l, f, m
    <2> QED BY <1>1, <1>6
  <1> HIDE DEF us
  <1>9. ASSUME NEW i \in 1 .. n
        PROVE  /\ us[i - 1] \in Nat
               /\ c.data[us[i - 1] + 1] \in DOMAIN FieldCount
               /\ us[i] = us[i - 1] + 1 + 2 * FieldCount[c.data[us[i - 1] + 1]]
               /\ us[i] <= Len(c.data)
               /\ new[i] = EventAt(c, 4 * us[i - 1])
    <2> DEFINE u == ws[i - 1]
               k == b.data[u + 1]
               g == FieldCount[k]
    <2>1. u \in Nat /\ k \in DOMAIN FieldCount /\ ws[i] = u + 1 + 2 * g /\ ws[i] <= l /\ es[i] = EventAt(b, 4 * u)
      BY DEF Holds
    <2>2. us[i - 1] = u /\ us[i] = ws[i]
      <3>1. i - 1 \in 0 .. n /\ i \in 0 .. n
        BY <1>1
      <3> QED BY <1>8, <3>1
    <2>3. g \in 2 .. 4
      BY <2>1, Sizes
    <2>4. EventAt(b, 4 * u) = [j \in 1 .. 1 + g |-> b.data[IF j = 1 THEN u + 1 ELSE u + 2 * j - 2]]
      BY <2>1, EventIs
    <2> HIDE DEF n, l, m, f, u, g
    <2>5. u + 1 \in 1 .. l /\ ws[i] <= l + m
      BY <1>1, <1>2, <2>1, <2>3 DEF m
    <2>6. c.data[u + 1] = k
      BY <1>6, <2>5
    <2> HIDE DEF k
    <2>7. EventAt(c, 4 * u) = [j \in 1 .. 1 + g |-> c.data[IF j = 1 THEN u + 1 ELSE u + 2 * j - 2]]
      BY <2>1, <2>6, EventIs DEF g
    <2>8. ASSUME NEW j \in 1 .. 1 + g
          PROVE  c.data[IF j = 1 THEN u + 1 ELSE u + 2 * j - 2] = b.data[IF j = 1 THEN u + 1 ELSE u + 2 * j - 2]
      <3> DEFINE q == IF j = 1 THEN u + 1 ELSE u + 2 * j - 2
      <3>1. q \in 1 .. l
        BY <1>1, <2>1, <2>3, <2>5
      <3> HIDE DEF q
      <3> QED BY <1>6, <3>1 DEF q
    <2>9. EventAt(c, 4 * u) = EventAt(b, 4 * u)
      BY <2>4, <2>7, <2>8
    <2>10. new[i] = es[i]
      BY <1>5
    <2> QED BY <1>6, <2>1, <2>2, <2>5, <2>6, <2>9, <2>10 DEF g
  <1>10. /\ us[n] \in Nat
         /\ c.data[us[n] + 1] \in DOMAIN FieldCount
         /\ us[n + 1] = us[n] + 1 + 2 * FieldCount[c.data[us[n] + 1]]
         /\ us[n + 1] <= Len(c.data)
         /\ new[n + 1] = EventAt(c, 4 * us[n])
    <2>1. us[n] = l /\ us[n + 1] = l + m
      <3> HIDE DEF n, l, m
      <3>1. n \in 0 .. n
        BY <1>1
      <3> QED BY <1>1, <1>6, <1>8, <3>1
    <2> HIDE DEF n, l
    <2>2. c.data[l + 1] = kind
      <3> HIDE DEF f, kind
      <3>1. 1 \in 1 .. m /\ 1 \div 2 + 1 = 1
        BY <1>2
      <3> QED BY <1>4, <1>6, <3>1 DEF kind
    <2>3. EventAt(c, 4 * l) = [j \in 1 .. 1 + f |-> c.data[IF j = 1 THEN l + 1 ELSE l + 2 * j - 2]]
      <3>1. l \in Nat /\ c.data[l + 1] \in DOMAIN FieldCount /\ FieldCount[c.data[l + 1]] = f
        BY <1>1, <1>2, <2>2
      <3> HIDE DEF f
      <3> QED BY <3>1, EventIs
    <2> HIDE DEF f, m
    <2>4. ASSUME NEW j \in 1 .. 1 + f
          PROVE  c.data[IF j = 1 THEN l + 1 ELSE l + 2 * j - 2] = e[j]
      <3>1. CASE j = 1
        BY <2>2, <3>1
      <3>2. CASE j # 1
        <4> DEFINE q == 2 * j - 2
        <4>1. j \in Int /\ j >= 2 /\ j <= 1 + f
          BY <1>2, <3>2
        <4>2. q \in 1 .. m /\ l + 2 * j - 2 = l + q /\ q \div 2 + 1 = j
          BY <1>1, <1>2, <4>1 DEF m
        <4> HIDE DEF q
        <4>3. c.data[l + q] = e[q \div 2 + 1]
          BY <1>4, <1>6, <4>2
        <4> QED BY <3>2, <4>2, <4>3
      <3> QED BY <3>1, <3>2
    <2>5. EventAt(c, 4 * l) = e
      <3>1. e = [j \in 1 .. 1 + f |-> e[j]]
        BY DEF IsEvent, f
      <3> QED BY <2>3, <2>4, <3>1
    <2>6. l + m = l + 1 + 2 * FieldCount[c.data[l + 1]]
      <3>1. FieldCount[c.data[l + 1]] = f
        BY <2>2 DEF f
      <3> QED BY <1>1, <1>2, <3>1 DEF m
    <2>7. l \in Nat /\ us[n + 1] <= Len(c.data)
      BY <1>1, <1>2, <1>6, <2>1 DEF m
    <2> QED BY <1>2, <1>5, <2>1, <2>2, <2>5, <2>6, <2>7
  <1>11. Holds(c, new, us)
    <2> HIDE DEF n, l, m, f, kind
    <2> SUFFICES ASSUME NEW i \in 1 .. Len(new)
                 PROVE  /\ us[i - 1] \in Nat
                        /\ c.data[us[i - 1] + 1] \in DOMAIN FieldCount
                        /\ us[i] = us[i - 1] + 1 + 2 * FieldCount[c.data[us[i - 1] + 1]]
                        /\ us[i] <= Len(c.data)
                        /\ new[i] = EventAt(c, 4 * us[i - 1])
      BY <1>5, <1>6, <1>7, <1>8 DEF Holds
    <2>1. i \in 1 .. n \/ (i = n + 1 /\ i - 1 = n)
      BY <1>1, <1>5
    <2> QED BY <1>9, <1>10, <2>1
  <1> QED BY <1>11 DEF c, new

-----------------------------------------------------------------------------
(* The blocks of a log.                                                    *)

\* What to_json has printed of the first blocks of a log.
Printed(blocks, m, up) ==
  up = [n \in 0 .. m |-> IF n = 0 THEN <<>> ELSE BlockToJson(blocks[n]) \o up[n - 1]]

\* The concatenation of the blocks is well-defined for every number of them.
LEMMA PrintedExists ==
  ASSUME NEW blocks, NEW m \in Nat
  PROVE  \E up : Printed(blocks, m, up)
  <1> DEFINE T == {k \in Nat : \E up : Printed(blocks, k, up)}
  <1>1. 0 \in T
    <2> DEFINE up == [n \in 0 .. 0 |-> <<>>]
    <2>1. Printed(blocks, 0, up)
      BY DEF Printed
    <2> HIDE DEF up
    <2> QED BY <2>1
  <1>2. ASSUME NEW k \in Nat, k \in T PROVE k + 1 \in T
    <2>1. PICK up : Printed(blocks, k, up)
      BY <1>2
    <2> DEFINE turn(f, n) == IF n = 0 THEN <<>> ELSE BlockToJson(blocks[n]) \o f[n - 1]
               new == [n \in 0 .. k + 1 |-> turn(up, n)]
    <2>2. \A n \in 0 .. k : up[n] = turn(up, n)
      BY <2>1 DEF Printed
    <2>3. \A n \in 0 .. k + 1 : new[n] = turn(up, n)
      <3> HIDE DEF turn
      <3> QED OBVIOUS
    <2>4. \A n \in 0 .. k : new[n] = up[n]
      <3> HIDE DEF turn, new
      <3> QED BY <2>2, <2>3
    <2>5. \A n \in 0 .. k + 1 : turn(new, n) = turn(up, n)
      <3> SUFFICES ASSUME NEW n \in 0 .. k + 1, n # 0 PROVE turn(new, n) = turn(up, n)
        BY DEF turn
      <3>1. n - 1 \in 0 .. k
        OBVIOUS
      <3>2. new[n - 1] = up[n - 1]
        <4> HIDE DEF new, turn
        <4> QED BY <2>4, <3>1
      <3> HIDE DEF new
      <3> QED BY <3>2 DEF turn
    <2>6. new = [n \in 0 .. k + 1 |-> turn(new, n)]
      <3>1. new = [n \in 0 .. k + 1 |-> new[n]]
        <4> HIDE DEF turn
        <4> QED OBVIOUS
      <3>2. \A n \in 0 .. k + 1 : new[n] = turn(new, n)
        <4> HIDE DEF turn, new
        <4> QED BY <2>3, <2>5
      <3> HIDE DEF turn, new
      <3> QED BY <3>1, <3>2
    <2>7. Printed(blocks, k + 1, new)
      <3> HIDE DEF new
      <3> QED BY <2>6 DEF Printed, turn
    <2> HIDE DEF new
    <2> QED BY <2>7
  <1>3. Nat \subseteq T
    <2> HIDE DEF T
    <2> QED BY <1>1, <1>2, NatInduct
  <1> QED BY <1>3

Prints(blocks, m, up) ==
  up[0] = <<>> /\ \A n \in 1 .. m : up[n] = BlockToJson(blocks[n]) \o up[n - 1]

\* What is printed of a log goes through such a table.
LEMMA JsonIsPrinted ==
  ASSUME NEW blocks, NEW m, m \in Nat, Len(blocks) = m
  PROVE  \E up : Prints(blocks, m, up) /\ ToJson(blocks) = up[m]
  <1> DEFINE up == CHOOSE f : Printed(blocks, Len(blocks), f)
  <1>1. Printed(blocks, m, up)
    BY PrintedExists
  <1>2. ToJson(blocks) = up[m]
    <2>1. ToJson(blocks) = up[Len(blocks)]
      BY DEF ToJson, Printed
    <2> QED BY <2>1
  <1> HIDE DEF up
  <1>3. up[0] = <<>>
    <2>1. 0 \in 0 .. m
      OBVIOUS
    <2> QED BY <1>1, <2>1 DEF Printed
  <1>4. ASSUME NEW n \in 1 .. m PROVE up[n] = BlockToJson(blocks[n]) \o up[n - 1]
    <2>1. n \in 0 .. m /\ n # 0
      OBVIOUS
    <2> QED BY <1>1, <2>1 DEF Printed
  <1>5. Prints(blocks, m, up)
    BY <1>3, <1>4 DEF Prints
  <1> QED BY <1>2, <1>5

\* To print sequences is to print a sequence.
LEMMA PrintedIsSeq ==
  ASSUME NEW blocks, NEW m \in Nat, \A n \in 1 .. m : IsSeq(BlockToJson(blocks[n])),
         NEW up, Prints(blocks, m, up)
  PROVE  \A n \in 0 .. m : IsSeq(up[n])
  <1>printed. up[0] = <<>> /\ \A n \in 1 .. m : up[n] = BlockToJson(blocks[n]) \o up[n - 1]
    BY DEF Prints
  <1> DEFINE T == {n \in Nat : n <= m => IsSeq(up[n])}
  <1>1. 0 \in T
    <2>1. IsSeq(<<>>)
      BY SingleIsSeq, JoinEmpty
    <2> QED BY <1>printed, <2>1
  <1>2. ASSUME NEW n \in Nat, n \in T PROVE n + 1 \in T
    <2> SUFFICES ASSUME n + 1 <= m PROVE IsSeq(up[n + 1])
      OBVIOUS
    <2>1. n + 1 \in 1 .. m /\ (n + 1) - 1 = n /\ n <= m
      OBVIOUS
    <2>2. IsSeq(up[n]) /\ IsSeq(BlockToJson(blocks[n + 1]))
      BY <1>2, <2>1
    <2>3. IsSeq(BlockToJson(blocks[n + 1]) \o up[n])
      BY <2>2, JoinedFacts
    <2> QED BY <1>printed, <2>1, <2>3
  <1>3. Nat \subseteq T
    <2> HIDE DEF T
    <2> QED BY <1>1, <1>2, NatInduct
  <1> QED BY <1>3

\* To append to a concatenation is to append to its second part.
LEMMA JoinAppend ==
  ASSUME NEW a, IsSeq(a), NEW b, IsSeq(b), NEW e
  PROVE  a \o Append(b, e) = Append(a \o b, e)
  <1>1. IsSeq(<<e>>) /\ IsSeq(a \o b)
    BY SingleIsSeq, JoinedFacts
  <1>2. Append(b, e) = b \o <<e>> /\ Append(a \o b, e) = (a \o b) \o <<e>>
    BY <1>1, AppendJoins
  <1>3. (a \o b) \o <<e>> = a \o (b \o <<e>>)
    BY <1>1, JoinAssociates
  <1> QED BY <1>2, <1>3, Zenon

PrintsSeqs(blocks, m) == \A n \in 1 .. m : IsSeq(BlockToJson(blocks[n]))

OneMore(a, b, e) == a = Append(b, e)

Shifted(p, q, m, s) == \A n \in 2 - s .. m : q[n + s] = p[n]

\* q has the blocks of p, behind s new ones, and prints one more event at the
\* first block: so it does at the last.
LEMMA PrintedAppends ==
  ASSUME NEW p, NEW q, NEW m, m \in Nat, m > 0, NEW s, s \in {0, 1}, NEW e, NEW k, k = m + s,
         PrintsSeqs(p, m), NEW up, Prints(p, m, up), NEW vp, Prints(q, k, vp),
         NEW u, u = up[1 - s], OneMore(vp[1], u, e), Shifted(p, q, m, s)
  PROVE  OneMore(vp[k], up[m], e)
  <1>first. vp[1] = Append(u, e)
    BY DEF OneMore
  <1> SUFFICES vp[k] = Append(up[m], e)
    BY DEF OneMore
  <1>seqs. \A n \in 1 .. m : IsSeq(BlockToJson(p[n]))
    BY DEF PrintsSeqs
  <1>shift. \A n \in 2 - s .. m : q[n + s] = p[n]
    BY DEF Shifted
  <1> DEFINE T == {i \in Nat : (1 - s) + i <= m => vp[1 + i] = Append(up[(1 - s) + i], e)}
  <1>1. 0 \in T
    BY <1>first
  <1>2. ASSUME NEW i \in Nat, i \in T PROVE i + 1 \in T
    <2> DEFINE n == (1 - s) + i
    <2>1. n \in Nat
      OBVIOUS
    <2> SUFFICES ASSUME n + 1 <= m PROVE vp[1 + (i + 1)] = Append(up[n + 1], e)
      <3>1. (1 - s) + (i + 1) = n + 1
        OBVIOUS
      <3> QED BY <3>1
    <2>2. vp[1 + i] = Append(up[n], e)
      BY <1>2
    <2>3. /\ n + 1 \in 1 .. m /\ n \in 0 .. m /\ n + 1 \in 2 - s .. m
          /\ 1 + (i + 1) \in 1 .. m + s /\ (1 + (i + 1)) - 1 = 1 + i
          /\ (n + 1) + s = 1 + (i + 1) /\ (n + 1) - 1 = n
      OBVIOUS
    <2> HIDE DEF n
    <2>4. IsSeq(up[n])
      BY <1>seqs, <2>3, PrintedIsSeq
    <2>next. IsSeq(BlockToJson(p[n + 1]))
      BY <1>seqs, <2>3
    <2>5. up[n + 1] = BlockToJson(p[n + 1]) \o up[n]
      BY <2>3 DEF Prints
    <2>6. q[1 + (i + 1)] = p[n + 1]
      BY <1>shift, <2>3
    <2>7. vp[1 + (i + 1)] = BlockToJson(p[n + 1]) \o vp[1 + i]
      <3> DEFINE x == 1 + (i + 1)
      <3>1. x \in 1 .. m + s /\ x - 1 = 1 + i /\ q[x] = p[n + 1]
        BY <2>3, <2>6
      <3> HIDE DEF x
      <3>2. vp[x] = BlockToJson(q[x]) \o vp[x - 1]
        BY <3>1 DEF Prints
      <3>3. vp[x] = BlockToJson(p[n + 1]) \o vp[1 + i]
        BY <3>1, <3>2, Zenon
      <3> QED BY <3>3 DEF x
    <2>8. vp[1 + (i + 1)] = BlockToJson(p[n + 1]) \o Append(up[n], e)
      BY <2>2, <2>7, Zenon
    <2>9. BlockToJson(p[n + 1]) \o Append(up[n], e) = Append(BlockToJson(p[n + 1]) \o up[n], e)
      <3> DEFINE a == BlockToJson(p[n + 1])
                 b == up[n]
      <3>1. IsSeq(a) /\ IsSeq(b)
        BY <2>4, <2>next
      <3> HIDE DEF a, b
      <3>2. a \o Append(b, e) = Append(a \o b, e)
        BY ONLY <3>1, JoinAppend
      <3> QED BY <3>2 DEF a, b
    <2> QED BY <2>5, <2>8, <2>9, Zenon
  <1>3. Nat \subseteq T
    <2> HIDE DEF T
    <2> QED BY <1>1, <1>2, NatInduct
  <1> DEFINE i == m - (1 - s)
  <1>4. i \in Nat /\ (1 - s) + i = m /\ 1 + i = m + s
    OBVIOUS
  <1> HIDE DEF i
  <1>5. i \in T
    <2> HIDE DEF T
    <2> QED BY <1>3, <1>4
  <1>6. m <= m
    OBVIOUS
  <1>7. vp[1 + i] = Append(up[(1 - s) + i], e)
    BY <1>4, <1>5, <1>6
  <1> HIDE DEF T
  <1> QED BY <1>4, <1>7, Zenon

\* A log whose blocks hold, one after the other, the events evs.
LogHolds(blocks, evs) ==
  /\ IsSeq(blocks) /\ Len(blocks) > 0
  /\ \A n \in 1 .. Len(blocks) :
       /\ \E es, ws : Holds(blocks[n], es, ws)
       /\ blocks[n].written <= LOG_BLOCK_SIZE
  /\ ToJson(blocks) = evs /\ IsSeq(evs)

\* A new log holds no event.
LEMMA EnabledHolds == LogHolds(Enabled, <<>>)
  <1> DEFINE none == [i \in {0} |-> 0]
  <1>1. Holds(LogBlock, <<>>, none) /\ LogBlock.written <= LOG_BLOCK_SIZE
    BY EmptyHolds
  <1>2. BlockToJson(LogBlock) = <<>>
    BY <1>1, BlockIsRead
  <1> DEFINE blocks == Enabled
  <1>3. IsSeq(blocks) /\ Len(blocks) = 1 /\ blocks[1] = LogBlock
    BY SingleIsSeq DEF Enabled
  <1> HIDE DEF blocks, none
  <1>4. PICK up : Prints(blocks, 1, up) /\ ToJson(blocks) = up[1]
    <2>1. 1 \in Nat /\ Len(blocks) = 1
      BY <1>3
    <2> QED BY ONLY <2>1, JsonIsPrinted
  <1>5. up[1] = <<>> \o <<>>
    <2>1. 1 \in 1 .. 1 /\ 1 - 1 = 0
      OBVIOUS
    <2> QED BY <1>2, <1>3, <1>4, <2>1 DEF Prints
  <1>6. <<>> \o <<>> = <<>> /\ IsSeq(<<>>)
    BY SingleIsSeq, JoinEmpty
  <1>7. ToJson(blocks) = <<>>
    BY <1>4, <1>5, <1>6, Zenon
  <1>8. \A n \in 1 .. Len(blocks) :
          /\ \E es, ws : Holds(blocks[n], es, ws)
          /\ blocks[n].written <= LOG_BLOCK_SIZE
    <2>1. \A n \in 1 .. 1 : n = 1
      OBVIOUS
    <2> QED BY <1>1, <1>3, <2>1
  <1>9. Len(blocks) > 0
    BY <1>3
  <1> QED BY <1>3, <1>6, <1>7, <1>8, <1>9 DEF LogHolds, blocks

\* The elements of a tail.
LEMMA TailFacts ==
  ASSUME NEW s, IsSeq(s), Len(s) > 0
  PROVE  /\ IsSeq(Tail(s)) /\ Len(Tail(s)) = Len(s) - 1
         /\ Head(s) = s[1]
         /\ \A i \in 1 .. Len(s) - 1 : Tail(s)[i] = s[i + 1]
  <1>1. PICK S : s \in Seq(S)
    BY CommonSet
  <1>2. s # << >>
    <2>1. Len(<<>>) = 0
      BY SingleIsSeq, JoinEmpty
    <2> QED BY <2>1
  <1>3. Tail(s) \in Seq(S) /\ Len(Tail(s)) = Len(s) - 1 /\ \A i \in 1 .. Len(Tail(s)) : Tail(s)[i] = s[i + 1]
    BY <1>1, <1>2, HeadTailProperties
  <1>4. IsSeq(Tail(s))
    BY <1>3, IsOwnSeq
  <1>5. Head(s) = s[1]
    BY <1>1, <1>2, HeadTailProperties
  <1> QED BY <1>3, <1>4, <1>5

\* A block behind the others, or in the place of the first: what write_binary
\* does when the event does not fit, and when it does.
LEMMA WriteBinaryHolds ==
  ASSUME NEW blocks, NEW evs, LogHolds(blocks, evs), NEW e, IsEvent(e)
  PROVE  LogHolds(WriteBinary(blocks, e), Append(evs, e))
  <1> DEFINE m == Len(blocks)
  <1>1. IsSeq(blocks) /\ m \in Nat /\ m > 0 /\ ToJson(blocks) = evs /\ IsSeq(evs)
    BY DEF LogHolds, IsSeq
  <1>2. ASSUME NEW n \in 1 .. m
        PROVE  /\ \E es, ws : Holds(blocks[n], es, ws) /\ BlockToJson(blocks[n]) = es /\ IsSeq(es)
               /\ blocks[n].written <= LOG_BLOCK_SIZE
    <2>1. PICK es, ws : Holds(blocks[n], es, ws)
      BY DEF LogHolds
    <2>2. BlockToJson(blocks[n]) = es
      BY <2>1, BlockIsRead
    <2>3. IsSeq(es)
      BY <2>1 DEF Holds
    <2> QED BY <2>1, <2>2, <2>3 DEF LogHolds
  <1>3. IsSeq(Append(evs, e))
    BY <1>1, AppendJoins
  \* What is left to show of the blocks that are written.
  <1>4. ASSUME NEW q, NEW s \in {0, 1}, IsSeq(q), Len(q) = m + s,
               NEW old, NEW ows, Holds(q[1], Append(old, e), ows), IsSeq(old),
               q[1].written <= LOG_BLOCK_SIZE,
               IF s = 0 THEN BlockToJson(blocks[1]) = old ELSE old = <<>>,
               \A n \in 2 - s .. m : q[n + s] = blocks[n]
        PROVE  LogHolds(q, Append(evs, e))
    <2>1. PICK up : Prints(blocks, m, up) /\ ToJson(blocks) = up[m]
      <3>1. m \in Nat /\ Len(blocks) = m
        BY <1>1
      <3> HIDE DEF m
      <3> QED BY ONLY <3>1, JsonIsPrinted
    <2> DEFINE k == m + s
    <2>2. k \in Nat /\ k > 0
      BY <1>1
    <2>3. PICK vp : Prints(q, k, vp) /\ ToJson(q) = vp[k]
      <3>1. k \in Nat /\ Len(q) = k
        BY <1>4, <2>2
      <3> HIDE DEF k
      <3> QED BY ONLY <3>1, JsonIsPrinted
    <2>4. BlockToJson(q[1]) = Append(old, e)
      BY <1>4, BlockIsRead
    <2>5. vp[1] = Append(old, e)
      <3>1. 1 \in 1 .. k /\ 1 - 1 = 0
        BY <2>2
      <3>2. vp[1] = Append(old, e) \o <<>>
        BY <2>3, <2>4, <3>1 DEF Prints
      <3>3. IsSeq(Append(old, e))
        BY <1>4, AppendJoins
      <3>4. Append(old, e) \o <<>> = Append(old, e)
        BY <3>3, JoinEmpty
      <3> QED BY <3>2, <3>4, Zenon
    <2>6. up[1 - s] = old
      <3>1. CASE s = 0
        <4>1. 1 \in 1 .. m /\ 1 - 1 = 0 /\ 1 - s = 1
          BY <1>1, <3>1
        <4>2. up[1] = old \o <<>>
          BY <1>4, <2>1, <3>1, <4>1 DEF Prints
        <4>3. old \o <<>> = old
          BY <1>4, JoinEmpty
        <4> QED BY <4>1, <4>2, <4>3, Zenon
      <3>2. CASE s = 1
        BY <1>4, <2>1, <3>2 DEF Prints
      <3> QED BY <3>1, <3>2
    <2>7. PrintsSeqs(blocks, m)
      BY <1>2 DEF PrintsSeqs
    <2>8. vp[m + s] = Append(up[m], e)
      <3>1. m \in Nat /\ m > 0 /\ s \in {0, 1} /\ Prints(blocks, m, up)
        BY <1>1, <2>1
      <3>2. Prints(q, k, vp) /\ k = m + s
        BY <2>3
      <3>3. old = up[1 - s] /\ OneMore(vp[1], old, e)
        BY <2>5, <2>6 DEF OneMore
      <3>4. Shifted(blocks, q, m, s)
        BY <1>4 DEF Shifted
      <3> HIDE DEF m, k
      <3>5. OneMore(vp[k], up[m], e)
        BY ONLY <2>7, <3>1, <3>2, <3>3, <3>4, PrintedAppends
      <3> QED BY <3>5 DEF k, OneMore
    <2>9. ToJson(q) = Append(evs, e)
      BY <1>1, <2>1, <2>3, <2>8
    <2>10. ASSUME NEW n \in 1 .. Len(q)
           PROVE  (\E es, ws : Holds(q[n], es, ws)) /\ q[n].written <= LOG_BLOCK_SIZE
      <3>1. CASE n = 1
        BY <1>4, <3>1
      <3>2. CASE n # 1
        <4> DEFINE j == n - s
        <4>1. j \in 2 - s .. m /\ j \in 1 .. m /\ j + s = n
          BY <1>1, <1>4, <3>2
        <4> HIDE DEF j
        <4>2. q[n] = blocks[j]
          BY <1>4, <4>1
        <4> QED BY <1>2, <4>1, <4>2
      <3> QED BY <3>1, <3>2
    <2> QED BY <1>1, <1>3, <1>4, <2>2, <2>9, <2>10 DEF LogHolds
  <1>5. CASE Fits(Head(blocks), e)
    <2> DEFINE c == Write(blocks[1], e)
               q == <<c>> \o Tail(blocks)
    <2>1. /\ IsSeq(Tail(blocks)) /\ Len(Tail(blocks)) = m - 1 /\ Head(blocks) = blocks[1]
          /\ \A i \in 1 .. m - 1 : Tail(blocks)[i] = blocks[i + 1]
      BY <1>1, TailFacts
    <2>2. WriteBinary(blocks, e) = q
      <3>1. blocks # Disabled
        <4>1. Len(<<>>) = 0
          BY SingleIsSeq, JoinEmpty
        <4> QED BY <1>1, <4>1 DEF Disabled
      <3> QED BY <1>5, <2>1, <3>1 DEF WriteBinary
    <2>3. 1 \in 1 .. m
      BY <1>1
    <2>4. PICK es, ws : Holds(blocks[1], es, ws) /\ BlockToJson(blocks[1]) = es /\ IsSeq(es)
      BY <1>2, <2>3
    <2>5. PICK us : Holds(c, Append(es, e), us)
      BY <2>4, WriteHolds
    <2>6. c.written <= LOG_BLOCK_SIZE
      <3>1. c.written = blocks[1].written + SizeOf(e[1])
        BY DEF Write
      <3>2. LOG_BLOCK_SIZE - blocks[1].written >= SizeOf(e[1])
        BY <1>5, <2>1 DEF Fits
      <3>3. blocks[1].written \in Nat /\ SizeOf(e[1]) \in Nat
        <4> DEFINE l == Len(blocks[1].data)
        <4>1. l \in Nat /\ blocks[1].written = 4 * l
          BY <2>4 DEF Holds, IsSeq
        <4> HIDE DEF l
        <4> QED BY <4>1, Sizes DEF IsEvent
      <3> DEFINE x == blocks[1].written
                 y == SizeOf(e[1])
      <3> HIDE DEF x, y, c
      <3> QED BY <3>1, <3>2, <3>3, BlockAssumption DEF x, y
    <2> HIDE DEF c
    <2>7. /\ IsSeq(q) /\ Len(q) = m + 0 /\ q[1] = c
          /\ \A n \in 2 .. m : q[n + 0] = blocks[n]
      <3> DEFINE v == Tail(blocks)
      <3>1. IsSeq(v)
        BY <2>1
      <3>2. /\ IsSeq(q) /\ Len(q) = Len(v) + 1 /\ q[1] = c
            /\ \A i \in 1 .. Len(v) : q[1 + i] = v[i]
        <4> HIDE DEF v
        <4> QED BY ONLY <3>1, Behind DEF q, v
      <3> HIDE DEF q
      <3>3. Len(q) = m + 0
        BY <1>1, <2>1, <3>2
      <3>4. ASSUME NEW n \in 2 .. m PROVE q[n + 0] = blocks[n]
        <4> DEFINE i == n - 1
        <4>1. i \in 1 .. m - 1 /\ i \in 1 .. Len(v) /\ n + 0 = 1 + i /\ n = i + 1
          BY <1>1, <2>1
        <4> HIDE DEF i
        <4>2. q[1 + i] = v[i]
          BY <3>2, <4>1
        <4>3. v[i] = blocks[i + 1]
          BY <2>1, <4>1
        <4> QED BY <4>1, <4>2, <4>3
      <3> QED BY <3>2, <3>3, <3>4
    <2> HIDE DEF q, m
    <2>8. LogHolds(q, Append(evs, e))
      <3>1. 0 \in {0, 1} /\ 2 - 0 = 2
        OBVIOUS
      <3> QED BY <1>4, <2>4, <2>5, <2>6, <2>7, <3>1
    <2> QED BY <2>2, <2>8
  <1>6. CASE ~Fits(Head(blocks), e)
    <2> DEFINE c == Write(LogBlock, e)
               q == <<c>> \o blocks
               none == [i \in {0} |-> 0]
    <2>1. WriteBinary(blocks, e) = q
      <3>1. blocks # Disabled
        <4>1. Len(<<>>) = 0
          BY SingleIsSeq, JoinEmpty
        <4> QED BY <1>1, <4>1 DEF Disabled
      <3> QED BY <1>6, <3>1 DEF WriteBinary
    <2>2. Holds(LogBlock, <<>>, none)
      BY EmptyHolds
    <2> HIDE DEF none
    <2>3. PICK us : Holds(c, Append(<<>>, e), us)
      BY <2>2, WriteHolds
    <2>4. c.written <= LOG_BLOCK_SIZE
      <3>1. c.written = 0 + SizeOf(e[1])
        BY DEF Write, LogBlock
      <3>2. SizeOf(e[1]) \in Nat /\ SizeOf(e[1]) <= LOG_BLOCK_SIZE
        BY Sizes, BlockAssumption DEF IsEvent
      <3> HIDE DEF c
      <3> QED BY <3>1, <3>2
    <2> HIDE DEF c
    <2>5. /\ IsSeq(q) /\ Len(q) = m + 1 /\ q[1] = c
          /\ \A n \in 1 .. m : q[n + 1] = blocks[n]
      <3>1. /\ IsSeq(q) /\ Len(q) = m + 1 /\ q[1] = c
            /\ \A i \in 1 .. m : q[1 + i] = blocks[i]
        <4>1. IsSeq(blocks)
          BY <1>1
        <4> QED BY ONLY <4>1, Behind DEF q, m
      <3> HIDE DEF q
      <3>2. ASSUME NEW n \in 1 .. m PROVE q[n + 1] = blocks[n]
        <4>1. n + 1 = 1 + n
          OBVIOUS
        <4> QED BY <3>1, <4>1
      <3> QED BY <3>1, <3>2
    <2> HIDE DEF q, m
    <2>6. IsSeq(<<>>)
      BY SingleIsSeq, JoinEmpty
    <2>7. LogHolds(q, Append(evs, e))
      <3>1. 1 \in {0, 1} /\ 2 - 1 = 1 /\ 1 # 0
        OBVIOUS
      <3> QED BY <1>4, <2>3, <2>4, <2>5, <2>6, <3>1
    <2> QED BY <2>1, <2>7
  <1> QED BY <1>5, <1>6

-----------------------------------------------------------------------------
(* Several events.                                                         *)

\* The function it folds the first elements of vs: the sets of their positions in D.
Iterates(s, vs, D, it) ==
  it = [r \in D |-> IF r = {} THEN s ELSE WriteBinary(it[r \ {Max(r)}], vs[Max(r)])]

\* The function that folds a sequence is well-defined for every length.
LEMMA IteratesExist ==
  ASSUME NEW n \in Nat, NEW vs, NEW s
  PROVE  \E it : Iterates(s, vs, SUBSET (1 .. n), it)
  <1> DEFINE T == {k \in Nat : \E it : Iterates(s, vs, SUBSET (1 .. k), it)}
  <1>1. 0 \in T
    <2> DEFINE it == [r \in SUBSET (1 .. 0) |-> s]
    <2>1. \A r \in SUBSET (1 .. 0) : r = {}
      OBVIOUS
    <2>2. Iterates(s, vs, SUBSET (1 .. 0), it)
      BY <2>1 DEF Iterates
    <2> QED BY <2>2
  <1>2. ASSUME NEW k \in Nat, k \in T PROVE k + 1 \in T
    <2>1. PICK it : Iterates(s, vs, SUBSET (1 .. k), it)
      BY <1>2
    <2> DEFINE D == SUBSET (1 .. k + 1)
               new == [r \in D |-> IF r = {} THEN s ELSE WriteBinary(it[r \ {Max(r)}], vs[Max(r)])]
    <2>2. SUBSET (1 .. k) \subseteq D
      OBVIOUS
    <2>3. \A r \in SUBSET (1 .. k) : new[r] = it[r]
      BY <2>1, <2>2 DEF Iterates
    <2>4. ASSUME NEW r \in D, r # {} PROVE r \ {Max(r)} \in SUBSET (1 .. k)
      <3>1. k + 1 \in Nat
        OBVIOUS
      <3>2. Max(r) \in r /\ \A y \in r : Max(r) >= y
        BY <2>4, <3>1, MaxIs
      <3>3. ASSUME NEW y \in r, y # Max(r) PROVE y \in 1 .. k
        <4>1. y \in 1 .. k + 1 /\ Max(r) \in 1 .. k + 1
          BY <3>2
        <4>2. Max(r) >= y
          BY <3>2
        <4> QED BY <3>3, <4>1, <4>2
      <3> QED BY <3>3
    <2>5. Iterates(s, vs, D, new)
      <3>1. \A r \in D : r # {} => new[r \ {Max(r)}] = it[r \ {Max(r)}]
        BY <2>3, <2>4
      <3> HIDE DEF D
      <3> QED BY <3>1 DEF Iterates
    <2>6. \E x : Iterates(s, vs, D, x)
      <3> HIDE DEF new
      <3> QED BY <2>5
    <2> QED BY <2>6
  <1>3. n \in T
    <2> HIDE DEF T
    <2> QED BY <1>1, <1>2, NatInduct
  <1> QED BY <1>3

\* The log after each event: the fold goes through this table.
LEMMA FoldTable ==
  ASSUME NEW n \in Nat, NEW vs, DOMAIN vs = 1 .. n, NEW s
  PROVE  \E h : /\ h[0] = s /\ \A i \in 1 .. n : h[i] = WriteBinary(h[i - 1], vs[i])
                /\ WriteAll(s, vs) = h[n]
  <1>1. WriteAll(s, vs) =
          LET iter[r \in SUBSET (1 .. n)] ==
                IF r = {} THEN s ELSE LET x == Max(r) IN WriteBinary(iter[r \ {x}], vs[x])
          IN  iter[1 .. n]
    BY DEF WriteAll, FoldLeft, MapThenFoldSet
  <1> DEFINE it == CHOOSE it : Iterates(s, vs, SUBSET (1 .. n), it)
             h == [i \in 0 .. n |-> it[1 .. i]]
  <1>2. Iterates(s, vs, SUBSET (1 .. n), it)
    BY IteratesExist
  <1>3. WriteAll(s, vs) = it[1 .. n]
    BY <1>1 DEF Iterates
  <1> HIDE DEF it
  <1>4. it[1 .. 0] = s
    BY <1>2 DEF Iterates
  <1>5. ASSUME NEW i \in 1 .. n PROVE it[1 .. i] = WriteBinary(it[1 .. i - 1], vs[i])
    <2>1. 1 .. i \in SUBSET (1 .. n) /\ 1 .. i # {}
      OBVIOUS
    <2>2. Max(1 .. i) \in 1 .. i /\ \A y \in 1 .. i : Max(1 .. i) >= y
      BY <2>1, MaxIs
    <2>3. Max(1 .. i) = i
      BY <2>2
    <2>4. (1 .. i) \ {i} = 1 .. i - 1
      OBVIOUS
    <2> QED BY <1>2, <2>1, <2>3, <2>4 DEF Iterates
  <1>6. /\ h[0] = s /\ h[n] = it[1 .. n]
        /\ \A i \in 1 .. n : h[i] = WriteBinary(h[i - 1], vs[i])
    <2>1. 0 \in 0 .. n /\ n \in 0 .. n
      OBVIOUS
    <2>2. ASSUME NEW i \in 1 .. n PROVE h[i] = WriteBinary(h[i - 1], vs[i])
      <3>1. i \in 0 .. n /\ i - 1 \in 0 .. n
        OBVIOUS
      <3> QED BY <1>5, <3>1
    <2> QED BY <1>4, <2>1, <2>2
  <1> HIDE DEF h
  <1> QED BY <1>3, <1>6

AreEvents(es) == IsSeq(es) /\ \A i \in 1 .. Len(es) : IsEvent(es[i])

\* A log that is enabled gets the events, at the end of what it has.
LEMMA FoldHolds ==
  ASSUME NEW blocks, NEW evs, LogHolds(blocks, evs), NEW es, AreEvents(es)
  PROVE  LogHolds(WriteAll(blocks, es), evs \o es)
  <1> DEFINE n == Len(es)
  <1>1. n \in Nat /\ IsSeq(es) /\ DOMAIN es = 1 .. n /\ IsSeq(evs) /\ es = Upto(es, n)
    <2>1. IsSeq(es) /\ IsSeq(evs)
      BY DEF AreEvents, LogHolds
    <2> QED BY <2>1 DEF IsSeq, Upto
  <1>2. PICK h : /\ h[0] = blocks /\ \A i \in 1 .. n : h[i] = WriteBinary(h[i - 1], es[i])
                 /\ WriteAll(blocks, es) = h[n]
    BY <1>1, FoldTable
  <1> DEFINE T == {i \in Nat : i <= n => LogHolds(h[i], evs \o Upto(es, i))}
  <1>3. 0 \in T
    <2>1. evs \o <<>> = evs
      BY <1>1, JoinEmpty
    <2>2. Upto(es, 0) = <<>>
      BY UptoFacts
    <2>3. evs \o Upto(es, 0) = evs
      BY <2>1, <2>2, Zenon
    <2> QED BY <1>2, <2>3
  <1>4. ASSUME NEW i \in Nat, i \in T PROVE i + 1 \in T
    <2> SUFFICES ASSUME i + 1 <= n PROVE LogHolds(h[i + 1], evs \o Upto(es, i + 1))
      OBVIOUS
    <2>1. i + 1 \in 1 .. n /\ (i + 1) - 1 = i /\ i <= n
      BY <1>1
    <2> DEFINE u == evs \o Upto(es, i)
               e == es[i + 1]
    <2>2. LogHolds(h[i], u)
      BY <1>4, <2>1
    <2>3. IsEvent(e)
      BY <2>1 DEF AreEvents
    <2>4. h[i + 1] = WriteBinary(h[i], e)
      BY <1>2, <2>1
    <2> HIDE DEF u, e
    <2>5. LogHolds(h[i + 1], Append(u, e))
      BY <2>2, <2>3, <2>4, WriteBinaryHolds
    <2>6. Append(u, e) = evs \o Upto(es, i + 1)
      <3> DEFINE v == Upto(es, i)
      <3>1. IsSeq(v) /\ Append(v, e) = Upto(es, i + 1)
        BY UptoFacts DEF e
      <3>2. IsSeq(v) /\ IsSeq(evs)
        BY <1>1, <3>1
      <3> HIDE DEF v
      <3>3. evs \o Append(v, e) = Append(evs \o v, e)
        BY ONLY <3>2, JoinAppend
      <3> QED BY <3>1, <3>3, Zenon DEF u, v
    <2> QED BY <2>5, <2>6
  <1>5. Nat \subseteq T
    <2> HIDE DEF T
    <2> QED BY <1>3, <1>4, NatInduct
  <1>6. LogHolds(h[n], evs \o Upto(es, n))
    BY <1>1, <1>5
  <1> QED BY <1>1, <1>2, <1>6

\* A log that is disabled stays so.
LEMMA FoldDisabled ==
  ASSUME NEW es, AreEvents(es)
  PROVE  WriteAll(Disabled, es) = Disabled
  <1> DEFINE n == Len(es)
  <1>1. n \in Nat /\ DOMAIN es = 1 .. n
    <2>1. IsSeq(es)
      BY DEF AreEvents
    <2> QED BY <2>1 DEF IsSeq
  <1>2. PICK h : /\ h[0] = Disabled /\ \A i \in 1 .. n : h[i] = WriteBinary(h[i - 1], es[i])
                 /\ WriteAll(Disabled, es) = h[n]
    BY <1>1, FoldTable
  <1> DEFINE T == {i \in Nat : i <= n => h[i] = Disabled}
  <1>3. 0 \in T
    BY <1>2
  <1>4. ASSUME NEW i \in Nat, i \in T PROVE i + 1 \in T
    <2> SUFFICES ASSUME i + 1 <= n PROVE h[i + 1] = Disabled
      OBVIOUS
    <2>1. i + 1 \in 1 .. n /\ (i + 1) - 1 = i /\ i <= n
      BY <1>1
    <2>2. h[i] = Disabled /\ h[i + 1] = WriteBinary(h[i], es[i + 1])
      BY <1>2, <1>4, <2>1
    <2> QED BY <2>2 DEF WriteBinary
  <1>5. Nat \subseteq T
    <2> HIDE DEF T
    <2> QED BY <1>3, <1>4, NatInduct
  <1> QED BY <1>1, <1>2, <1>5

\* What an action logs: events, of the thread's messages.
AreMessages(es) == IsSeq(es) /\ \A i \in 1 .. Len(es) : IsMessage(es[i])

\* The timestamps make a sequence of messages a sequence of events.
LEMMA StampedAll ==
  ASSUME NEW es, AreMessages(es), NEW k \in Nat
  PROVE  AreEvents([i \in 1 .. Len(es) |-> <<es[i][1], k + i>> \o Tail(es[i])])
  <1> DEFINE n == Len(es)
             f == [i \in 1 .. n |-> <<es[i][1], k + i>> \o Tail(es[i])]
  <1>1. n \in Nat
    BY DEF AreMessages, IsSeq
  <1>2. ASSUME NEW i \in 1 .. n PROVE IsEvent(f[i])
    <2>1. IsMessage(es[i])
      BY DEF AreMessages
    <2> DEFINE m == es[i]
               t == k + i
    <2>2. f[i] = <<m[1], t>> \o Tail(m)
      OBVIOUS
    <2>3. IsMessage(m)
      BY <2>1
    <2> HIDE DEF m, t, f
    <2>4. IsEvent(<<m[1], t>> \o Tail(m))
      BY ONLY <2>3, Stamped
    <2> QED BY <2>2, <2>4, Zenon
  <1>3. f = [i \in 1 .. n |-> f[i]]
    OBVIOUS
  <1> HIDE DEF f
  <1>4. IsSeq(f) /\ Len(f) = n
    <2> HIDE DEF n
    <2> QED BY <1>1, <1>3, FunctionIsSeq
  <1> QED BY <1>2, <1>4 DEF AreEvents, f

-----------------------------------------------------------------------------
(* The profile of an execution.                                            *)

\* The log of a thread is disabled, or has what the thread has logged.
LogOK(a) ==
  IsSeq(events[a]) /\ (log[a] = Disabled \/ LogHolds(log[a], events[a]))

LogsOK ==
  /\ log = [a \in Actors |-> log[a]] /\ events = [a \in Actors |-> events[a]]
  /\ \A a \in Actors : LogOK(a)

\* Nothing was logged before a thread got its log, and with a profile every
\* thread has one.
BegunOK ==
  /\ \A w \in Workers \ Started : events[w] = <<>>
  /\ pc[Main] = "construct" \/ ~joinable => events[Main] = <<>>
  /\ ctx.profiling /\ joinable /\ pc[Main] # "construct" => log[Main] # Disabled
  /\ ctx.profiling => \A w \in Started : log[w] # Disabled

\* What was flushed is all that the thread will have logged; without an
\* exception every worker that has ended has flushed.
FlushedOK ==
  /\ \A v \in DOMAIN event_jsons :
       /\ event_jsons[v] = events[v]
       /\ v \in Workers => v \in Started /\ pc[v] = "exit"
       /\ v \notin Workers => v = Main /\ joinable /\ pc[Main] = "exit"
  /\ ctx.profiling /\ ~IsCancelled =>
       \A w \in Started : pc[w] = "exit" => w \in DOMAIN event_jsons
  /\ dump # None =>
       /\ joinable /\ pc[Main] = "exit" /\ dump = event_jsons
       /\ DOMAIN dump = {Main} \cup 0 .. ctx.workers - 1

ProfileInv == LogsOK /\ BegunOK /\ FlushedOK

\* What a step keeps of the logs and of the threads that are behind it.
LEMMA LogAllKeeps ==
  ASSUME LogsOK, NEW a \in Actors, NEW es, AreMessages(es), LogAll(a, es)
  PROVE  /\ LogsOK'
         /\ \A b \in Actors \ {a} : log'[b] = log[b] /\ events'[b] = events[b]
         /\ log[a] # Disabled => log'[a] # Disabled
         /\ UNCHANGED <<event_jsons, dump>>
  <1> DEFINE n == Len(events[a])
             stamped == [i \in 1 .. Len(es) |-> <<es[i][1], n + i>> \o Tail(es[i])]
             l == WriteAll(log[a], stamped)
             e == events[a] \o stamped
  <1>1. /\ log' = [log EXCEPT ![a] = l] /\ events' = [events EXCEPT ![a] = e]
        /\ UNCHANGED <<event_jsons, dump>>
    BY DEF LogAll
  <1>2. /\ log = [b \in Actors |-> log[b]] /\ events = [b \in Actors |-> events[b]]
        /\ IsSeq(events[a]) /\ (log[a] = Disabled \/ LogHolds(log[a], events[a]))
    BY DEF LogsOK, LogOK
  <1>3. n \in Nat
    BY <1>2 DEF IsSeq
  <1> HIDE DEF n
  <1>4. AreEvents(stamped)
    BY <1>3, StampedAll
  <1> HIDE DEF stamped
  <1>5. IsSeq(e)
    <2>1. IsSeq(stamped)
      BY <1>4 DEF AreEvents
    <2> QED BY <1>2, <2>1, JoinedFacts
  <1>6. /\ log[a] = Disabled => l = Disabled
        /\ log[a] # Disabled => LogHolds(l, e)
    <2>1. CASE log[a] = Disabled
      BY <1>4, <2>1, FoldDisabled
    <2>2. CASE log[a] # Disabled
      <3>1. PICK blocks : blocks = log[a]
        OBVIOUS
      <3>2. PICK evs : evs = events[a]
        OBVIOUS
      <3>3. LogHolds(blocks, evs)
        BY <1>2, <2>2, <3>1, <3>2, Zenon
      <3>4. LogHolds(WriteAll(blocks, stamped), evs \o stamped)
        BY ONLY <1>4, <3>3, FoldHolds
      <3> QED BY <2>2, <3>1, <3>2, <3>4, Zenon
    <2> QED BY <2>1, <2>2
  <1> HIDE DEF l, e
  <1>7. LogHolds(l, e) => l # Disabled
    <2>1. Len(Disabled) = 0
      BY DEF Disabled
    <2> QED BY <2>1 DEF LogHolds
  <1>8. /\ log'[a] = l /\ events'[a] = e
        /\ \A b \in Actors \ {a} : log'[b] = log[b] /\ events'[b] = events[b]
        /\ log' = [b \in Actors |-> log'[b]] /\ events' = [b \in Actors |-> events'[b]]
    BY <1>1, <1>2
  <1>9. ASSUME NEW b \in Actors PROVE LogOK(b)'
    <2>1. CASE b = a
      BY <1>5, <1>6, <1>8, <2>1 DEF LogOK
    <2>2. CASE b # a
      <3>1. log'[b] = log[b] /\ events'[b] = events[b] /\ LogOK(b)
        BY <1>8, <2>2 DEF LogsOK
      <3> QED BY <3>1 DEF LogOK
    <2> QED BY <2>1, <2>2
  <1>10. LogsOK'
    BY <1>8, <1>9 DEF LogsOK
  <1> QED BY <1>1, <1>6, <1>7, <1>8, <1>10

\* A step of a worker that leaves the profile alone; if the worker ends, then
\* after an exception.
LEMMA QuietKeeps ==
  ASSUME ExecInv, ProfileInv, NEW w \in Workers, WorkerMoves(w), UNCHANGED profile,
         pc'[w] = "exit" => IsCancelled'
  PROVE  ProfileInv'
  <1>1. UNCHANGED <<log, event_jsons, dump, events>>
    BY DEF profile
  <1>2. Started' = Started /\ joinable' = joinable /\ ctx' = ctx /\ pc'[Main] = pc[Main]
    BY OthersKept, ExecConstants DEF WorkerMoves
  <1>3. LogsOK'
    BY <1>1 DEF ProfileInv, LogsOK, LogOK
  <1>4. BegunOK'
    BY <1>1, <1>2 DEF ProfileInv, BegunOK
  <1>5. FlushedOK /\ ~IsCancelled' => ~IsCancelled
    <2>1. exception' = exception \/ exception = None
      BY DEF WorkerMoves
    <2> QED BY <2>1 DEF IsCancelled, ProfileInv
  <1>6. pc[w] # "exit" /\ \A v \in Workers \ {w} : pc'[v] = pc[v]
    BY ExecConstants DEF WorkerMoves
  <1>7. FlushedOK
    BY DEF ProfileInv
  <1>8. \A v \in DOMAIN event_jsons : v \in Workers => v # w
    BY <1>6, <1>7 DEF FlushedOK
  <1>9. /\ \A v \in DOMAIN event_jsons' :
             /\ event_jsons'[v] = events'[v]
             /\ v \in Workers => v \in Started' /\ pc'[v] = "exit"
             /\ v \notin Workers => v = Main /\ joinable' /\ pc'[Main] = "exit"
    <2> SUFFICES ASSUME NEW v \in DOMAIN event_jsons
                 PROVE  /\ event_jsons[v] = events[v]
                        /\ v \in Workers => v \in Started /\ pc'[v] = "exit"
                        /\ v \notin Workers => v = Main /\ joinable /\ pc[Main] = "exit"
      BY <1>1, <1>2
    <2>1. /\ event_jsons[v] = events[v]
          /\ v \in Workers => v \in Started /\ pc[v] = "exit"
          /\ v \notin Workers => v = Main /\ joinable /\ pc[Main] = "exit"
      BY <1>7 DEF FlushedOK
    <2> QED BY <1>6, <1>8, <2>1
  <1>10. ASSUME ctx'.profiling, ~IsCancelled', NEW v \in Started', pc'[v] = "exit"
         PROVE  v \in DOMAIN event_jsons'
    <2>1. v \in Started /\ v \in Workers /\ v # w
      BY <1>2, <1>10 DEF Started
    <2>2. pc[v] = "exit"
      BY <1>6, <1>10, <2>1
    <2> QED BY <1>1, <1>2, <1>5, <1>7, <1>10, <2>1, <2>2 DEF FlushedOK
  <1>11. dump' # None =>
           /\ joinable' /\ pc'[Main] = "exit" /\ dump' = event_jsons'
           /\ DOMAIN dump' = {Main} \cup 0 .. ctx'.workers - 1
    BY <1>1, <1>2, <1>7 DEF FlushedOK
  <1>12. FlushedOK'
    BY <1>9, <1>10, <1>11 DEF FlushedOK
  <1> QED BY <1>3, <1>4, <1>12 DEF ProfileInv

\* A step in which a worker logs events.
LEMMA WorkerLogKeeps ==
  ASSUME ExecInv, ProfileInv, NEW w \in Workers, WorkerMoves(w),
         NEW es, AreMessages(es), LogAll(w, es), pc'[w] # "exit"
  PROVE  ProfileInv'
  <1>1. w \in Started /\ pc[Main] \in {"start", "join"} /\ joinable /\ w \in Actors /\ w # Main
    BY RunningFacts, ExecConstants DEF WorkerMoves
  <1>2. /\ LogsOK'
        /\ \A b \in Actors \ {w} : log'[b] = log[b] /\ events'[b] = events[b]
        /\ log[w] # Disabled => log'[w] # Disabled
        /\ UNCHANGED <<event_jsons, dump>>
    BY <1>1, LogAllKeeps DEF ProfileInv
  <1>3. Started' = Started /\ joinable' = joinable /\ ctx' = ctx /\ pc'[Main] = pc[Main]
    BY OthersKept, ExecConstants DEF WorkerMoves
  <1>4. BegunOK /\ FlushedOK
    BY DEF ProfileInv
  <1>5. BegunOK'
    <2>1. \A v \in Workers \ Started' : events'[v] = <<>>
      BY <1>1, <1>2, <1>3, <1>4, ExecConstants DEF BegunOK
    <2>2. pc'[Main] = "construct" \/ ~joinable' => events'[Main] = <<>>
      BY <1>1, <1>3
    <2>3. ctx'.profiling /\ joinable' /\ pc'[Main] # "construct" => log'[Main] # Disabled
      BY <1>1, <1>2, <1>3, <1>4, ExecConstants DEF BegunOK
    <2>4. ASSUME ctx'.profiling, NEW v \in Started' PROVE log'[v] # Disabled
      <3>1. v \in Started /\ v \in Actors /\ log[v] # Disabled
        BY <1>3, <1>4, <2>4, ExecConstants DEF BegunOK, Started
      <3> QED BY <1>2, <3>1
    <2> QED BY <2>1, <2>2, <2>3, <2>4 DEF BegunOK
  <1>6. pc[w] # "exit" /\ \A v \in Workers \ {w} : pc'[v] = pc[v]
    BY ExecConstants DEF WorkerMoves
  <1>7. ~IsCancelled' => ~IsCancelled
    <2>1. exception' = exception \/ exception = None
      BY DEF WorkerMoves
    <2> QED BY <2>1 DEF IsCancelled
  <1>8. ASSUME NEW v \in DOMAIN event_jsons'
        PROVE  /\ event_jsons'[v] = events'[v]
               /\ v \in Workers => v \in Started' /\ pc'[v] = "exit"
               /\ v \notin Workers => v = Main /\ joinable' /\ pc'[Main] = "exit"
    <2>1. /\ event_jsons[v] = events[v]
          /\ v \in Workers => v \in Started /\ pc[v] = "exit"
          /\ v \notin Workers => v = Main /\ joinable /\ pc[Main] = "exit"
      BY <1>2, <1>4, <1>8 DEF FlushedOK
    <2>2. v \in Workers /\ v # w /\ v \in Actors
      BY <1>1, <1>6, <2>1, ExecConstants
    <2> QED BY <1>2, <1>3, <1>6, <2>1, <2>2
  <1>9. ASSUME ctx'.profiling, ~IsCancelled', NEW v \in Started', pc'[v] = "exit"
        PROVE  v \in DOMAIN event_jsons'
    <2>1. v \in Started /\ v \in Workers /\ v # w
      BY <1>3, <1>9 DEF Started
    <2>2. pc[v] = "exit"
      BY <1>6, <1>9, <2>1
    <2> QED BY <1>2, <1>3, <1>4, <1>7, <1>9, <2>1, <2>2 DEF FlushedOK
  <1>10. dump' # None =>
           /\ joinable' /\ pc'[Main] = "exit" /\ dump' = event_jsons'
           /\ DOMAIN dump' = {Main} \cup 0 .. ctx'.workers - 1
    BY <1>2, <1>3, <1>4 DEF FlushedOK
  <1>11. FlushedOK'
    BY <1>8, <1>9, <1>10 DEF FlushedOK
  <1> QED BY <1>2, <1>5, <1>11 DEF ProfileInv

\* What a log that is enabled prints are the events of its thread.
LEMMA FlushedIs ==
  ASSUME ProfileInv, NEW a \in Actors, log[a] # Disabled
  PROVE  /\ DOMAIN Flushed(a) = {a} \cup DOMAIN event_jsons
         /\ Flushed(a)[a] = events[a]
         /\ \A v \in DOMAIN event_jsons : Flushed(a)[v] = events[v]
  <1>1. ToJson(log[a]) = events[a]
    <2>1. LogHolds(log[a], events[a])
      BY DEF ProfileInv, LogsOK, LogOK
    <2> QED BY <2>1 DEF LogHolds
  <1>2. \A v \in DOMAIN event_jsons : event_jsons[v] = events[v]
    BY DEF ProfileInv, FlushedOK
  <1> QED BY <1>1, <1>2 DEF Flushed

\* A worker ends in order, and flushes.
LEMMA FlushKeepsProfile ==
  ASSUME ExecInv, ProfileInv, NEW w \in Workers, WorkerMoves(w), Flush(w)
  PROVE  ProfileInv'
  <1>1. /\ pc[w] = "finalize" /\ UNCHANGED <<log, dump, events>>
        /\ event_jsons' = IF ctx.profiling /\ w \notin DOMAIN event_jsons
                            THEN Flushed(w) ELSE event_jsons
    BY DEF Flush
  <1>2. pc'[w] = "exit"
    BY ExecConstants DEF Flush, Goto, ExecInv, ExecTypeOK
  <1>3. /\ w \in Started /\ pc[Main] \in {"start", "join"} /\ joinable /\ w \in Actors
        /\ w # Main
    BY <1>1, RunningFacts, ExecConstants
  <1>4. Started' = Started /\ joinable' = joinable /\ ctx' = ctx /\ pc'[Main] = pc[Main]
    BY OthersKept, ExecConstants DEF WorkerMoves
  <1>5. LogsOK' /\ BegunOK'
    BY <1>1, <1>4 DEF ProfileInv, LogsOK, LogOK, BegunOK
  <1>6. FlushedOK /\ BegunOK
    BY DEF ProfileInv
  <1>7. \A v \in Workers \ {w} : pc'[v] = pc[v]
    BY ExecConstants DEF WorkerMoves
  <1>8. w \notin DOMAIN event_jsons
    BY <1>1, <1>6 DEF FlushedOK
  <1>9. /\ \A v \in DOMAIN event_jsons' : event_jsons'[v] = events[v]
        /\ DOMAIN event_jsons' \subseteq {w} \cup DOMAIN event_jsons
        /\ DOMAIN event_jsons \subseteq DOMAIN event_jsons'
        /\ ctx.profiling => w \in DOMAIN event_jsons'
    <2>1. CASE ctx.profiling
      <3>1. log[w] # Disabled
        BY <1>3, <1>6, <2>1 DEF BegunOK
      <3>2. /\ DOMAIN Flushed(w) = {w} \cup DOMAIN event_jsons
            /\ Flushed(w)[w] = events[w]
            /\ \A v \in DOMAIN event_jsons : Flushed(w)[v] = events[v]
        BY <1>3, <3>1, FlushedIs
      <3>3. event_jsons' = Flushed(w)
        BY <1>1, <1>8, <2>1
      <3> QED BY <3>2, <3>3
    <2>2. CASE ~ctx.profiling
      BY <1>1, <1>6, <2>2 DEF FlushedOK
    <2> QED BY <2>1, <2>2
  <1>10. ASSUME NEW v \in DOMAIN event_jsons'
         PROVE  /\ event_jsons'[v] = events'[v]
                /\ v \in Workers => v \in Started' /\ pc'[v] = "exit"
                /\ v \notin Workers => v = Main /\ joinable' /\ pc'[Main] = "exit"
    <2>1. event_jsons'[v] = events'[v]
      BY <1>1, <1>9, <1>10
    <2>2. CASE v = w
      BY <1>2, <1>3, <1>4, <2>1, <2>2
    <2>3. CASE v # w
      <3>1. v \in DOMAIN event_jsons
        BY <1>9, <1>10, <2>3
      <3>2. /\ v \in Workers => v \in Started /\ pc[v] = "exit"
            /\ v \notin Workers => v = Main /\ joinable /\ pc[Main] = "exit"
        BY <1>6, <3>1 DEF FlushedOK
      <3> QED BY <1>4, <1>7, <2>1, <2>3, <3>2
    <2> QED BY <2>2, <2>3
  <1>11. ASSUME ctx'.profiling, ~IsCancelled', NEW v \in Started', pc'[v] = "exit"
         PROVE  v \in DOMAIN event_jsons'
    <2>1. CASE v = w
      BY <1>4, <1>9, <1>11, <2>1
    <2>2. CASE v # w
      <3>1. v \in Started /\ v \in Workers /\ pc[v] = "exit"
        BY <1>4, <1>7, <1>11, <2>2 DEF Started
      <3>2. ~IsCancelled
        BY <1>11 DEF IsCancelled, Flush
      <3> QED BY <1>4, <1>6, <1>9, <1>11, <3>1, <3>2 DEF FlushedOK
    <2> QED BY <2>1, <2>2
  <1>12. dump' = None
    BY <1>1, <1>3, <1>6 DEF FlushedOK
  <1>13. FlushedOK'
    BY <1>10, <1>11, <1>12 DEF FlushedOK
  <1> QED BY <1>5, <1>13 DEF ProfileInv

\* The messages of a task: of its preparation, and of its run.
LEMMA PrepareMessages ==
  ASSUME NEW t
  PROVE  AreMessages(<<<<"begin_preparation", t>>, <<"end_preparation", t>>,
                       <<"begin_execution", t>>>>)
  <1> DEFINE a == <<"begin_preparation", t>>
             b == <<"end_preparation", t>>
             c == <<"begin_execution", t>>
             es == <<a, b, c>>
  <1>1. IsMessage(a) /\ IsMessage(b) /\ IsMessage(c)
    BY DEF IsMessage, FieldCount
  <1>2. es \in Seq({a, b, c}) /\ Len(es) = 3 /\ es[1] = a /\ es[2] = b /\ es[3] = c
    OBVIOUS
  <1> HIDE DEF es
  <1>3. IsSeq(es)
    BY <1>2, IsOwnSeq
  <1> HIDE DEF a, b, c
  <1>4. ASSUME NEW i \in 1 .. Len(es) PROVE IsMessage(es[i])
    <2>1. i = 1 \/ i = 2 \/ i = 3
      BY <1>2
    <2> QED BY <1>1, <1>2, <2>1
  <1>5. AreMessages(es)
    BY <1>3, <1>4 DEF AreMessages
  <1> QED BY <1>5 DEF es, a, b, c

\* A task logs its memory events and then its end.
LEMMA CompleteMessages ==
  ASSUME NEW es \in MemoryEvents, NEW t
  PROVE  AreMessages(es \o <<<<"end_execution", t>>>>)
  <1> DEFINE m == <<"end_execution", t>>
             one == <<m>>
             all == es \o one
  <1>1. IsMessage(m)
    BY DEF IsMessage, FieldCount
  <1>2. IsSeq(one) /\ Len(one) = 1 /\ one[1] = m
    BY SingleIsSeq
  <1>3. IsSeq(es) /\ \A i \in 1 .. Len(es) : IsMessage(es[i])
    BY ExecutorAssumption DEF IsSeq
  <1> HIDE DEF m, one
  <1>4. /\ IsSeq(es \o one) /\ Len(es \o one) = Len(es) + Len(one)
        /\ \A i \in 1 .. Len(es) : (es \o one)[i] = es[i]
        /\ \A i \in 1 .. Len(one) : (es \o one)[Len(es) + i] = one[i]
    <2>1. IsSeq(es) /\ IsSeq(one)
      BY <1>2, <1>3
    <2> QED BY ONLY <2>1, JoinedFacts
  <1> HIDE DEF all
  <1>5. /\ IsSeq(all) /\ Len(all) = Len(es) + 1
        /\ \A i \in 1 .. Len(es) : all[i] = es[i]
        /\ all[Len(es) + 1] = m
    BY <1>2, <1>4 DEF all
  <1>6. ASSUME NEW i \in 1 .. Len(all) PROVE IsMessage(all[i])
    <2>1. Len(es) \in Nat
      BY <1>3 DEF IsSeq
    <2>2. i \in 1 .. Len(es) \/ i = Len(es) + 1
      BY <1>5, <2>1
    <2> QED BY <1>1, <1>3, <1>5, <2>2
  <1>7. AreMessages(all)
    BY <1>5, <1>6 DEF AreMessages
  <1> QED BY <1>7 DEF all, one, m

\* Every step of a worker.
LEMMA WorkerKeepsProfile ==
  ASSUME ExecInv, ProfileInv, NEW w \in Workers, WorkerStep(w)
  PROVE  ProfileInv'
  <1>1. ExecTypeOK
    BY DEF ExecInv
  <1>2. WorkerMoves(w)
    BY <1>1, WorkerStepMoves
  <1>3. /\ pc \in [Actors -> MainPlaces \cup WorkerPlaces] /\ w \in Actors
    BY <1>1, ExecConstants DEF ExecTypeOK
  <1>4. CASE OnInitialize(w) \/ Loop(w) \/ TakeRunnableTask(w)
    <2>1. UNCHANGED profile /\ pc'[w] # "exit"
      BY <1>3, <1>4 DEF OnInitialize, Loop, TakeRunnableTask, Goto, NextTurn
    <2> QED BY <1>2, <2>1, QuietKeeps
  <1>5. CASE ThreadLocalCancel(w) \/ OnFinalize(w) \/ Throw(w) \/ CaughtThrow(w)
    <2>1. UNCHANGED profile /\ pc'[w] # "exit"
      BY <1>3, <1>5 DEF ThreadLocalCancel, OnFinalize, Throw, CaughtThrow, Goto, NextTurn
    <2> QED BY <1>2, <2>1, QuietKeeps
  <1>6. CASE CaughtFinalize(w)
    <2>1. UNCHANGED profile /\ pc[w] = "caught_finalize"
      BY <1>6 DEF CaughtFinalize
    <2>2. IsCancelled
      BY <2>1, RunningFacts DEF CancelOK
    <2>3. IsCancelled'
      BY <1>1, <1>2, <2>2, Notified DEF WorkerMoves, IsCancelled
    <2> QED BY <1>2, <2>1, <2>3, QuietKeeps
  <1>7. CASE Prepare(w)
    <2>1. /\ LogAll(w, <<<<"begin_preparation", task[w]>>, <<"end_preparation", task[w]>>,
                         <<"begin_execution", task[w]>>>>)
          /\ pc'[w] # "exit"
      BY <1>3, <1>7 DEF Prepare, Goto
    <2> QED BY <1>2, <2>1, PrepareMessages, WorkerLogKeeps
  <1>8. CASE Complete(w)
    <2>1. /\ \E es \in MemoryEvents : LogAll(w, es \o <<<<"end_execution", task[w]>>>>)
          /\ pc'[w] # "exit"
      BY <1>3, <1>8 DEF Complete, Goto
    <2>2. PICK es \in MemoryEvents : LogAll(w, es \o <<<<"end_execution", task[w]>>>>)
      BY <2>1
    <2> QED BY <1>2, <2>1, <2>2, CompleteMessages, WorkerLogKeeps
  <1>9. CASE Flush(w)
    BY <1>2, <1>9, FlushKeepsProfile
  <1> QED BY <1>4, <1>5, <1>6, <1>7, <1>8, <1>9 DEF WorkerStep

-----------------------------------------------------------------------------
(* The executor thread and the user keep the profile.                      *)

\* While the executor thread is on its way it has not flushed.
LEMMA MainOnItsWay ==
  ASSUME ExecInv, ProfileInv, pc[Main] # "exit"
  PROVE  dump = None /\ DOMAIN event_jsons \subseteq Started
  <1>1. FlushedOK
    BY DEF ProfileInv
  <1> QED BY <1>1 DEF FlushedOK

\* A step of the executor thread that leaves the profile alone.
LEMMA MainQuietKeeps ==
  ASSUME ExecInv, ProfileInv, pc[Main] \notin {"construct", "exit"}, pc'[Main] # "construct",
         UNCHANGED profile, joinable' = joinable, ctx' = ctx, Started' = Started,
         \A v \in Workers : pc'[v] = pc[v], IsCancelled => IsCancelled'
  PROVE  ProfileInv'
  <1>1. UNCHANGED <<log, event_jsons, dump, events>> /\ joinable
    BY MainFacts DEF profile
  <1>2. LogsOK'
    BY <1>1 DEF ProfileInv, LogsOK, LogOK
  <1>3. BegunOK'
    BY <1>1 DEF ProfileInv, BegunOK
  <1>4. dump = None /\ DOMAIN event_jsons \subseteq Started /\ Started \subseteq Workers
    BY MainOnItsWay DEF Started
  <1>5. FlushedOK
    BY DEF ProfileInv
  <1>6. \A v \in DOMAIN event_jsons : event_jsons[v] = events[v] /\ pc[v] = "exit" /\ v \in Workers
    BY <1>4, <1>5 DEF FlushedOK
  <1>7. ctx.profiling /\ ~IsCancelled => \A w \in Started : pc[w] = "exit" => w \in DOMAIN event_jsons
    BY <1>5 DEF FlushedOK
  <1>8. FlushedOK'
    <2>1. ASSUME NEW v \in DOMAIN event_jsons'
          PROVE  /\ event_jsons'[v] = events'[v]
                 /\ v \in Workers => v \in Started' /\ pc'[v] = "exit"
                 /\ v \notin Workers => v = Main /\ joinable' /\ pc'[Main] = "exit"
      BY <1>1, <1>4, <1>6, <2>1
    <2>2. ctx'.profiling /\ ~IsCancelled' =>
            \A w \in Started' : pc'[w] = "exit" => w \in DOMAIN event_jsons'
      BY <1>1, <1>4, <1>7
    <2> QED BY <1>1, <1>4, <2>1, <2>2 DEF FlushedOK
  <1> QED BY <1>2, <1>3, <1>8 DEF ProfileInv

\* A thread that has logged nothing gets its log.
LEMMA NewLogKeeps ==
  ASSUME LogsOK, NEW a \in Actors, events[a] = <<>>, events' = events,
         NEW l, l \in {Enabled, Disabled}, log' = [log EXCEPT ![a] = l]
  PROVE  LogsOK' /\ log'[a] = l /\ \A b \in Actors \ {a} : log'[b] = log[b]
  <1>1. log = [b \in Actors |-> log[b]]
    BY DEF LogsOK
  <1>2. log'[a] = l /\ \A b \in Actors \ {a} : log'[b] = log[b]
    BY <1>1
  <1>3. log' = [b \in Actors |-> log'[b]]
    BY <1>1
  <1>4. ASSUME NEW b \in Actors PROVE LogOK(b)'
    <2>1. LogOK(b)
      BY DEF LogsOK
    <2>2. CASE b = a
      <3>1. IsSeq(events[a])
        BY <2>1, <2>2 DEF LogOK
      <3> QED BY <1>2, <2>2, <3>1, EnabledHolds DEF LogOK
    <2>3. CASE b # a
      BY <1>2, <2>1, <2>3 DEF LogOK
    <2> QED BY <2>2, <2>3
  <1> QED BY <1>2, <1>3, <1>4 DEF LogsOK

\* A log that is enabled has a block.
LEMMA EnabledNotDisabled == Enabled # Disabled
  <1>1. Len(Enabled) = 1 /\ Len(Disabled) = 0
    BY DEF Enabled, Disabled
  <1> QED BY <1>1

\* The executor thread gets its log with the execution context.
LEMMA ConstructKeepsProfile ==
  ASSUME ExecInv, ProfileInv, Construct
  PROVE  ProfileInv'
  <1> USE ExecConstants
  <1>1. /\ pc[Main] = "construct" /\ pc' = [pc EXCEPT ![Main] = "create"]
        /\ log' = [log EXCEPT ![Main] = IF settings.profiling THEN Enabled ELSE Disabled]
        /\ ctx' = settings /\ UNCHANGED <<event_jsons, dump, events, joinable>>
    BY DEF Construct, Goto, user
  <1>2. ExecTypeOK
    BY MainFacts
  <1>3. pc'[Main] = "create" /\ \A v \in Workers : pc'[v] = pc[v]
    BY <1>1, <1>2 DEF ExecTypeOK
  <1>4. Started = {} /\ Started' = {}
    BY <1>1, <1>3 DEF Started
  <1>5. BegunOK /\ LogsOK
    BY DEF ProfileInv
  <1>6. events[Main] = <<>>
    BY <1>1, <1>5 DEF BegunOK
  <1>7. LogsOK' /\ log'[Main] = IF settings.profiling THEN Enabled ELSE Disabled
    BY <1>1, <1>5, <1>6, NewLogKeeps
  <1>8. BegunOK'
    BY <1>1, <1>4, <1>5, <1>6, <1>7, EnabledNotDisabled DEF BegunOK
  <1>9. dump' = None /\ DOMAIN event_jsons' = {}
    BY <1>1, <1>4, MainOnItsWay
  <1>10. FlushedOK'
    BY <1>4, <1>9 DEF FlushedOK
  <1> QED BY <1>7, <1>8, <1>10 DEF ProfileInv

\* The messages of the executor thread: its tasks and the edges between them.
LEMMA CreateMessages ==
  ASSUME NEW n \in Nat
  PROVE  AreMessages([t \in 1 .. n |-> <<"create_physical_task", t, 1>>]
                       \o [t \in 1 .. n - 1 |-> <<"physical_dependency", t, t + 1>>])
  <1> DEFINE f == [t \in 1 .. n |-> <<"create_physical_task", t, 1>>]
             g == [t \in 1 .. n - 1 |-> <<"physical_dependency", t, t + 1>>]
  <1>1. \A t : IsMessage(<<"create_physical_task", t, 1>>)
    BY DEF IsMessage, FieldCount
  <1>2. \A t : IsMessage(<<"physical_dependency", t, t + 1>>)
    BY DEF IsMessage, FieldCount
  <1>3. f = [t \in 1 .. n |-> f[t]] /\ \A t \in 1 .. n : IsMessage(f[t])
    BY <1>1
  <1>4. PICK k \in Nat : 1 .. k = 1 .. n - 1
    <2>1. CASE n = 0
      <3>1. 1 .. 0 = 1 .. n - 1
        BY <2>1
      <3> QED BY <3>1
    <2>2. CASE n # 0
      <3>1. n - 1 \in Nat
        BY <2>2
      <3> QED BY <3>1
    <2> QED BY <2>1, <2>2
  <1>5. g = [t \in 1 .. k |-> g[t]] /\ \A t \in 1 .. k : IsMessage(g[t])
    BY <1>2, <1>4
  <1> HIDE DEF f, g
  <1>6. IsSeq(f) /\ Len(f) = n
    BY <1>3, FunctionIsSeq
  <1>7. IsSeq(g) /\ Len(g) = k
    BY <1>5, FunctionIsSeq
  <1> DEFINE all == f \o g
  <1>8. /\ IsSeq(all) /\ Len(all) = Len(f) + Len(g)
        /\ \A i \in 1 .. Len(f) : all[i] = f[i]
        /\ \A i \in 1 .. Len(g) : all[Len(f) + i] = g[i]
    <2>1. IsSeq(f) /\ IsSeq(g)
      BY <1>6, <1>7
    <2> QED BY ONLY <2>1, JoinedFacts
  <1> HIDE DEF all
  <1>9. ASSUME NEW i \in 1 .. Len(all) PROVE IsMessage(all[i])
    <2>1. CASE i \in 1 .. n
      BY <1>3, <1>6, <1>8, <2>1
    <2>2. CASE i \notin 1 .. n
      <3>1. i - n \in 1 .. k /\ n + (i - n) = i
        BY <1>6, <1>7, <1>8, <2>2
      <3> QED BY <1>5, <1>6, <1>7, <1>8, <3>1
    <2> QED BY <2>1, <2>2
  <1>10. AreMessages(all)
    BY <1>8, <1>9 DEF AreMessages
  <1> QED BY <1>10 DEF all, f, g

\* It logs the physical tasks and their dependencies.
LEMMA CreateKeepsProfile ==
  ASSUME ExecInv, ProfileInv, CreatePhysicalTasks
  PROVE  ProfileInv'
  <1> USE ExecConstants
  <1> DEFINE n == ctx.graph.tasks
             es == [t \in 1 .. n |-> <<"create_physical_task", t, 1>>]
                     \o [t \in 1 .. n - 1 |-> <<"physical_dependency", t, t + 1>>]
  <1>1. /\ pc[Main] = "create" /\ pc' = [pc EXCEPT ![Main] = "start"]
        /\ idx' = [idx EXCEPT ![Main] = 1] /\ UNCHANGED <<joinable, ctx, exception>>
        /\ LogAll(Main, es)
    BY DEF CreatePhysicalTasks, Goto, user
  <1>2. ExecTypeOK /\ MainOK /\ joinable /\ ctx = settings
    BY <1>1, MainFacts
  <1>3. n \in Nat
    <2>1. ctx.graph \in Graphs
      BY <1>2 DEF MainOK, ExecTypeOK, Settings
    <2> QED BY <2>1, ExecutorAssumption
  <1>4. AreMessages(es)
    BY <1>3, CreateMessages
  <1> HIDE DEF n, es
  <1>5. pc'[Main] = "start" /\ idx'[Main] = 1
    BY <1>1, <1>2 DEF ExecTypeOK
  <1>6. Started = {} /\ Started' = {}
    <2>1. \A v \in Workers : ~(v < idx'[Main] - 1)
      BY <1>5
    <2> QED BY <1>1, <1>5, <2>1 DEF Started
  <1>7. BegunOK /\ LogsOK
    BY DEF ProfileInv
  <1>8. /\ LogsOK'
        /\ \A b \in Actors \ {Main} : log'[b] = log[b] /\ events'[b] = events[b]
        /\ log[Main] # Disabled => log'[Main] # Disabled
        /\ UNCHANGED <<event_jsons, dump>>
    BY <1>1, <1>4, <1>7, LogAllKeeps
  <1>9. BegunOK'
    <2>1. \A v \in Workers \ Started' : events'[v] = <<>>
      BY <1>6, <1>7, <1>8 DEF BegunOK
    <2>2. ctx'.profiling => log'[Main] # Disabled
      BY <1>1, <1>2, <1>7, <1>8 DEF BegunOK
    <2> QED BY <1>1, <1>2, <1>5, <1>6, <2>1, <2>2 DEF BegunOK
  <1>10. dump' = None /\ DOMAIN event_jsons' = {}
    BY <1>1, <1>6, <1>8, MainOnItsWay
  <1>11. FlushedOK'
    BY <1>6, <1>10 DEF FlushedOK
  <1> QED BY <1>8, <1>9, <1>11 DEF ProfileInv

\* The next worker thread starts, with a log of its own.
LEMMA StartWorkerKeepsProfile ==
  ASSUME ExecInv, ProfileInv, StartWorker
  PROVE  ProfileInv'
  <1> USE ExecConstants
  <1> DEFINE w == idx[Main] - 1
  <1>1. /\ pc[Main] = "start"
        /\ UNCHANGED <<joinable, ctx, exception, event_jsons, dump, events>>
    BY DEF StartWorker, user
  <1>2. /\ ExecTypeOK /\ MainOK /\ joinable /\ ctx.workers \in 1 .. MaxWorkers
        /\ idx[Main] \in Nat \ {0} /\ idx[Main] <= ctx.workers + 1
    BY <1>1, MainFacts DEF MainOK, ExecTypeOK
  <1>3. CASE w < ctx.workers
    <2>1. /\ pc' = [pc EXCEPT ![w] = "initialize"]
          /\ idx' = [idx EXCEPT ![Main] = @ + 1, ![w] = 1]
          /\ log' = [log EXCEPT ![w] = IF ctx.profiling THEN Enabled ELSE Disabled]
      BY <1>3 DEF StartWorker
    <2>2. w \in Workers /\ w # Main /\ w \in Actors
      BY <1>2, <1>3 DEF Workers
    <2>3. w \notin Started
      <3>1. ~(w < w)
        BY <1>2
      <3> QED BY <1>1, <3>1 DEF Started
    <2>4. /\ pc'[Main] = "start" /\ idx'[Main] = idx[Main] + 1
          /\ pc'[w] = "initialize" /\ \A u \in Workers \ {w} : pc'[u] = pc[u]
      <3>1. pc \in [Actors -> MainPlaces \cup WorkerPlaces] /\ idx \in [Actors -> Nat \ {0}]
        BY <1>2 DEF ExecTypeOK
      <3> HIDE DEF w
      <3>2. pc'[Main] = "start" /\ pc'[w] = "initialize" /\ \A u \in Workers \ {w} : pc'[u] = pc[u]
        BY <1>1, <2>1, <2>2, <3>1
      <3>3. idx'[Main] = idx[Main] + 1
        BY <2>1, <2>2, <3>1
      <3> QED BY <3>2, <3>3
    <2>5. Started' = Started \cup {w}
      <3>1. \A u \in Workers : u \in Started <=> u < w
        BY <1>1 DEF Started
      <3>2. \A u \in Workers : u \in Started' <=> u < idx'[Main] - 1
        BY <2>4 DEF Started
      <3>3. \A u \in Workers : u < idx'[Main] - 1 <=> u < w \/ u = w
        BY <1>2, <2>2, <2>4
      <3>4. Started \subseteq Workers /\ Started' \subseteq Workers
        BY DEF Started
      <3> QED BY <2>2, <3>1, <3>2, <3>3, <3>4
    <2> HIDE DEF w
    <2>6. LogsOK /\ BegunOK /\ FlushedOK
      BY DEF ProfileInv
    <2>7. events[w] = <<>>
      BY <2>2, <2>3, <2>6 DEF BegunOK
    <2>8. /\ LogsOK' /\ log'[w] = IF ctx.profiling THEN Enabled ELSE Disabled
          /\ \A b \in Actors \ {w} : log'[b] = log[b]
      BY <1>1, <2>1, <2>2, <2>6, <2>7, NewLogKeeps
    <2>9. BegunOK'
      <3>1. \A u \in Workers \ Started' : events'[u] = <<>>
        BY <1>1, <2>5, <2>6 DEF BegunOK
      <3>2. ctx'.profiling => log'[Main] # Disabled
        BY <1>1, <1>2, <2>2, <2>6, <2>8 DEF BegunOK
      <3>3. ASSUME ctx'.profiling, NEW u \in Started' PROVE log'[u] # Disabled
        <4>1. CASE u = w
          BY <1>1, <2>8, <3>3, <4>1, EnabledNotDisabled
        <4>2. CASE u # w
          <5>1. u \in Started /\ u \in Actors
            BY <2>5, <3>3, <4>2 DEF Started
          <5> QED BY <1>1, <2>6, <2>8, <3>3, <4>2, <5>1 DEF BegunOK
        <4> QED BY <4>1, <4>2
      <3> QED BY <1>1, <1>2, <2>4, <3>1, <3>2, <3>3 DEF BegunOK
    <2>10. dump = None /\ DOMAIN event_jsons \subseteq Started /\ Started \subseteq Workers
      BY <1>1, MainOnItsWay DEF Started
    <2>11. ASSUME NEW u \in DOMAIN event_jsons'
           PROVE  /\ event_jsons'[u] = events'[u]
                  /\ u \in Workers => u \in Started' /\ pc'[u] = "exit"
                  /\ u \notin Workers => u = Main /\ joinable' /\ pc'[Main] = "exit"
      <3>1. u \in DOMAIN event_jsons /\ u \in Started /\ u \in Workers /\ u # w
        BY <1>1, <2>3, <2>10, <2>11
      <3>2. event_jsons[u] = events[u] /\ pc[u] = "exit"
        BY <2>6, <3>1 DEF FlushedOK
      <3> QED BY <1>1, <2>4, <2>5, <3>1, <3>2
    <2>12. ASSUME ctx'.profiling, ~IsCancelled', NEW u \in Started', pc'[u] = "exit"
           PROVE  u \in DOMAIN event_jsons'
      <3>1. u # w
        BY <2>4, <2>12
      <3>2. u \in Started /\ u \in Workers /\ pc[u] = "exit"
        BY <2>4, <2>5, <2>10, <2>12, <3>1
      <3>3. ~IsCancelled
        BY <1>1, <2>12 DEF IsCancelled
      <3> QED BY <1>1, <2>6, <2>12, <3>2, <3>3 DEF FlushedOK
    <2>13. FlushedOK'
      BY <1>1, <2>10, <2>11, <2>12 DEF FlushedOK
    <2> QED BY <2>8, <2>9, <2>13 DEF ProfileInv
  <1>4. CASE ~(w < ctx.workers)
    <2>1. pc' = [pc EXCEPT ![Main] = "join"] /\ UNCHANGED log
      BY <1>4 DEF StartWorker, Goto
    <2>2. pc'[Main] = "join" /\ \A v \in Workers : pc'[v] = pc[v]
      BY <1>2, <2>1 DEF ExecTypeOK
    <2>3. w = ctx.workers
      BY <1>2, <1>4
    <2>4. Started' = Started
      <3>1. Started = {v \in Workers : v < w}
        BY <1>1 DEF Started
      <3>2. Started' = {v \in Workers : v < ctx.workers}
        BY <1>1, <2>2 DEF Started
      <3> QED BY <2>3, <3>1, <3>2
    <2>5. UNCHANGED profile
      BY <1>1, <2>1 DEF profile
    <2>6. IsCancelled => IsCancelled'
      BY <1>1 DEF IsCancelled
    <2> QED BY <1>1, <2>2, <2>4, <2>5, <2>6, MainQuietKeeps
  <1> QED BY <1>3, <1>4

\* The join touches no log.
LEMMA JoinKeepsProfile ==
  ASSUME ExecInv, ProfileInv, Join
  PROVE  ProfileInv'
  <1> USE ExecConstants
  <1>1. pc[Main] = "join" /\ UNCHANGED <<profile, joinable, ctx, exception>>
    BY DEF Join, user
  <1>2. PICK place_ \in {"global_cancel", "profile"} : pc' = [pc EXCEPT ![Main] = place_]
    BY DEF Join, Goto
  <1>3. /\ pc'[Main] \in {"global_cancel", "profile"}
        /\ \A v \in Workers : pc'[v] = pc[v]
    BY <1>2 DEF ExecInv, ExecTypeOK
  <1>4. Started' = Started
    BY <1>1, <1>3 DEF Started
  <1>5. IsCancelled => IsCancelled'
    BY <1>1 DEF IsCancelled
  <1> QED BY <1>1, <1>3, <1>4, <1>5, MainQuietKeeps

\* Nor does global_cancel of a logical task.
LEMMA GlobalCancelKeepsProfile ==
  ASSUME ExecInv, ProfileInv, GlobalCancel
  PROVE  ProfileInv'
  <1> USE ExecConstants
  <1>1. pc[Main] = "global_cancel" /\ UNCHANGED <<profile, joinable, ctx>>
    BY DEF GlobalCancel
  <1>2. joinable /\ ExecTypeOK
    BY <1>1, MainFacts
  <1>3. pc' = pc \/ pc' = [pc EXCEPT ![Main] = "exit"]
    BY DEF GlobalCancel, Goto, NextTurn
  <1>4. /\ pc'[Main] \in {"global_cancel", "exit"}
        /\ \A v \in Workers : pc'[v] = pc[v]
    BY <1>1, <1>2, <1>3 DEF ExecTypeOK
  <1>5. Started' = Started
    BY <1>1, <1>2, <1>4 DEF Started
  <1>6. exception' = exception \/ exception' = IF exception = None THEN Exception ELSE exception
    BY DEF GlobalCancel, NotifyException
  <1>7. IsCancelled => IsCancelled'
    BY <1>6 DEF IsCancelled
  <1> QED BY <1>1, <1>4, <1>5, <1>7, MainQuietKeeps

\* The profile of the executor thread joins those of the workers.
LEMMA DumpKeepsProfile ==
  ASSUME ExecInv, ProfileInv, DumpProfile
  PROVE  ProfileInv'
  <1> USE ExecConstants
  <1>1. /\ pc[Main] = "profile" /\ pc' = [pc EXCEPT ![Main] = "exit"]
        /\ UNCHANGED <<joinable, ctx, exception, log, events>>
    BY DEF DumpProfile, Goto, user
  <1>2. ExecTypeOK /\ MainOK /\ joinable /\ ctx.workers \in 1 .. MaxWorkers
    BY <1>1, MainFacts
  <1>3. pc'[Main] = "exit" /\ \A v \in Workers : pc'[v] = pc[v] /\ pc[v] = "exit"
    BY <1>1, <1>2, MainFacts DEF ExecTypeOK, Joined
  <1>4. ~IsCancelled
    BY <1>1, <1>2 DEF MainOK
  <1>5. Started = 0 .. ctx.workers - 1 /\ Started' = Started
    <2>1. Started = {v \in Workers : v < ctx.workers}
      BY <1>1 DEF Started
    <2>2. Started' = {v \in Workers : v < ctx.workers}
      BY <1>1, <1>2, <1>3 DEF Started
    <2>3. {v \in Workers : v < ctx.workers} = 0 .. ctx.workers - 1
      BY <1>2 DEF Workers
    <2> QED BY <2>1, <2>2, <2>3
  <1>6. LogsOK' /\ BegunOK'
    <2>1. LogsOK'
      BY <1>1 DEF ProfileInv, LogsOK, LogOK
    <2>2. BegunOK'
      BY <1>1, <1>2, <1>3, <1>5 DEF ProfileInv, BegunOK
    <2> QED BY <2>1, <2>2
  <1>7. FlushedOK /\ BegunOK
    BY DEF ProfileInv
  <1>8. dump = None /\ DOMAIN event_jsons \subseteq Started /\ Started \subseteq Workers
    BY <1>1, MainOnItsWay DEF Started
  <1>9. /\ \A v \in DOMAIN event_jsons' : event_jsons'[v] = events[v]
        /\ DOMAIN event_jsons' \subseteq {Main} \cup Started
        /\ ctx.profiling => DOMAIN event_jsons' = {Main} \cup Started
        /\ dump' # None => dump' = event_jsons' /\ DOMAIN dump' = {Main} \cup Started
    <2>1. CASE ctx.profiling
      <3>1. log[Main] # Disabled
        BY <1>1, <1>2, <1>7, <2>1 DEF BegunOK
      <3>2. DOMAIN event_jsons = Started
        BY <1>3, <1>4, <1>7, <1>8, <2>1 DEF FlushedOK
      <3>3. /\ DOMAIN Flushed(Main) = {Main} \cup DOMAIN event_jsons
            /\ Flushed(Main)[Main] = events[Main]
            /\ \A v \in DOMAIN event_jsons : Flushed(Main)[v] = events[v]
        BY <3>1, FlushedIs
      <3>4. event_jsons' = Flushed(Main) /\ dump' = Flushed(Main)
        BY <2>1 DEF DumpProfile
      <3> QED BY <3>2, <3>3, <3>4
    <2>2. CASE ~ctx.profiling
      <3>1. UNCHANGED <<event_jsons, dump>>
        BY <2>2 DEF DumpProfile
      <3> QED BY <1>7, <1>8, <2>2, <3>1 DEF FlushedOK
    <2> QED BY <2>1, <2>2
  <1>10. FlushedOK'
    <2>1. ASSUME NEW v \in DOMAIN event_jsons'
          PROVE  /\ event_jsons'[v] = events'[v]
                 /\ v \in Workers => v \in Started' /\ pc'[v] = "exit"
                 /\ v \notin Workers => v = Main /\ joinable' /\ pc'[Main] = "exit"
      <3>1. v \in Started \/ v = Main
        BY <1>9
      <3> QED BY <1>1, <1>2, <1>3, <1>5, <1>8, <1>9, <3>1
    <2>2. ctx'.profiling => \A v \in Started' : v \in DOMAIN event_jsons'
      BY <1>1, <1>5, <1>9
    <2>3. dump' # None =>
            /\ joinable' /\ pc'[Main] = "exit" /\ dump' = event_jsons'
            /\ DOMAIN dump' = {Main} \cup 0 .. ctx'.workers - 1
      BY <1>1, <1>2, <1>3, <1>5, <1>9
    <2> QED BY <2>1, <2>2, <2>3 DEF FlushedOK
  <1> QED BY <1>6, <1>10 DEF ProfileInv

\* Nothing is logged while no execution runs.
LEMMA UserKeepsProfile ==
  ASSUME ExecInv, ProfileInv,
         SetFlowGraph \/ SetConfiguration \/ AddThreadObserver \/ Execute \/ Wait
  PROVE  ProfileInv'
  <1> USE ExecConstants
  <1>1. UNCHANGED <<log, event_jsons, dump, events, ctx, exception>>
    BY DEF SetFlowGraph, SetConfiguration, AddThreadObserver, Execute, Wait, profile
  <1>2. LogsOK /\ BegunOK /\ FlushedOK
    BY DEF ProfileInv
  <1>3. LogsOK'
    BY <1>1, <1>2 DEF LogsOK, LogOK
  <1>4. CASE SetFlowGraph \/ SetConfiguration \/ AddThreadObserver \/ Wait
    <2>1. UNCHANGED <<pc, idx, joinable>>
      BY <1>4 DEF SetFlowGraph, SetConfiguration, AddThreadObserver, Wait, place
    <2>2. Started' = Started
      BY <1>1, <2>1 DEF Started
    <2>3. BegunOK'
      BY <1>1, <1>2, <2>1, <2>2 DEF BegunOK
    <2>4. FlushedOK'
      BY <1>1, <1>2, <2>1, <2>2 DEF FlushedOK, IsCancelled
    <2> QED BY <1>3, <2>3, <2>4 DEF ProfileInv
  <1>5. CASE Execute
    <2>1. ~joinable /\ joinable' /\ pc' = [pc EXCEPT ![Main] = "construct"]
      BY <1>5 DEF Execute, Goto
    <2>2. ExecTypeOK /\ MainOK
      BY MainFacts
    <2>3. pc[Main] = "exit" /\ pc'[Main] = "construct"
      BY <2>1, <2>2 DEF MainOK, ExecTypeOK
    <2>4. Started = {} /\ Started' = {}
      BY <2>1, <2>3 DEF Started
    <2>5. BegunOK'
      BY <1>1, <1>2, <2>1, <2>3, <2>4 DEF BegunOK
    <2>6. dump = None /\ DOMAIN event_jsons = {}
      BY <1>2, <2>1, <2>4 DEF FlushedOK
    <2>7. FlushedOK'
      BY <1>1, <2>4, <2>6 DEF FlushedOK
    <2> QED BY <1>3, <2>5, <2>7 DEF ProfileInv
  <1> QED BY <1>4, <1>5

\* The profile of an execution that has not begun.
NoProfile ==
  /\ log = [a \in Actors |-> Disabled] /\ events = [a \in Actors |-> <<>>]
  /\ event_jsons = <<>> /\ dump = None
  /\ Started = {} /\ ~joinable

\* Without a profile the invariant holds,
LEMMA NoProfileOK == NoProfile => ProfileInv
  <1> SUFFICES ASSUME NoProfile PROVE ProfileInv
    OBVIOUS
  <1>1. \A a \in Actors : log[a] = Disabled /\ events[a] = <<>>
    BY DEF NoProfile
  <1>2. IsSeq(<<>>)
    BY DEF IsSeq
  <1>3. LogsOK
    <2>1. \A a \in Actors : LogOK(a)
      BY <1>1, <1>2 DEF LogOK
    <2>2. log = [a \in Actors |-> log[a]] /\ events = [a \in Actors |-> events[a]]
      BY DEF NoProfile
    <2> QED BY <2>1, <2>2 DEF LogsOK
  <1>4. BegunOK
    BY <1>1, ExecConstants DEF BegunOK, NoProfile
  <1>5. DOMAIN event_jsons = {}
    <2>1. DOMAIN <<>> = {}
      OBVIOUS
    <2> QED BY <2>1 DEF NoProfile
  <1>6. FlushedOK
    BY <1>5 DEF FlushedOK, NoProfile
  <1> QED BY <1>3, <1>4, <1>6 DEF ProfileInv

\* so it does after wait() has joined the executor thread,
LEMMA WaitReturnKeepsProfile ==
  ASSUME ExecInv, WaitReturn
  PROVE  ProfileInv'
  <1>1. joinable' = FALSE /\ UNCHANGED <<pc, idx>> /\ pc[Main] = "exit"
    BY DEF WaitReturn
  <1>2. /\ log' = [a \in Actors |-> Disabled] /\ events' = [a \in Actors |-> <<>>]
        /\ event_jsons' = <<>> /\ dump' = None
    BY DEF WaitReturn, Fresh
  <1>3. Started' = {}
    BY <1>1 DEF Started
  <1>4. NoProfile'
    BY <1>1, <1>2, <1>3 DEF NoProfile
  <1> QED BY <1>4, NoProfileOK, PTL

\* and before the first execution.
LEMMA ProfileInit == Init => ProfileInv
  <1> SUFFICES ASSUME Init PROVE ProfileInv
    OBVIOUS
  <1>1. pc[Main] = "exit" /\ ~joinable
    BY ExecConstants DEF Init
  <1>2. Started = {}
    BY <1>1 DEF Started
  <1>3. NoProfile
    BY <1>1, <1>2 DEF Init, Fresh, NoProfile
  <1> QED BY <1>3, NoProfileOK

\* Every step keeps the profile.
LEMMA ProfileStep == ExecInv /\ ProfileInv /\ [Next]_vars => ProfileInv'
  <1> SUFFICES ASSUME ExecInv, ProfileInv, [Next]_vars PROVE ProfileInv'
    OBVIOUS
  <1>1. CASE UNCHANGED vars
    <2>1. UNCHANGED <<log, event_jsons, dump, events, ctx, exception, pc, idx, joinable>>
      BY <1>1 DEF vars, profile, place, user
    <2>2. Started' = Started
      BY <2>1 DEF Started
    <2>3. LogsOK'
      BY <2>1 DEF ProfileInv, LogsOK, LogOK
    <2>4. BegunOK' /\ FlushedOK'
      BY <2>1, <2>2 DEF ProfileInv, BegunOK, FlushedOK, IsCancelled
    <2> QED BY <2>3, <2>4 DEF ProfileInv
  <1>2. CASE SetFlowGraph \/ SetConfiguration \/ AddThreadObserver \/ Execute \/ Wait
    BY <1>2, UserKeepsProfile
  <1>3. CASE WaitReturn
    BY <1>3, WaitReturnKeepsProfile
  <1>4. CASE ExecutorStep
    BY <1>4, ConstructKeepsProfile, CreateKeepsProfile, StartWorkerKeepsProfile,
       JoinKeepsProfile, GlobalCancelKeepsProfile, DumpKeepsProfile DEF ExecutorStep
  <1>5. ASSUME NEW w \in Workers, WorkerStep(w) PROVE ProfileInv'
    BY <1>5, WorkerKeepsProfile
  <1> QED BY <1>1, <1>2, <1>3, <1>4, <1>5 DEF Next

\* The dump of an execution without exceptions has exactly the events that
\* every thread has logged, however many blocks they fill, and no block is
\* written past its end (ProfileEventLogger, ProfileLogger, Executor::execute).
THEOREM ProfileIsComplete == Spec => []ProfileComplete
  <1>1. ProfileInv => ProfileComplete
    <2> SUFFICES ASSUME ProfileInv PROVE ProfileComplete
      OBVIOUS
    <2>1. LogsOK /\ FlushedOK
      BY DEF ProfileInv
    <2>2. ASSUME dump # None
          PROVE  /\ DOMAIN dump = {Main} \cup 0 .. ctx.workers - 1
                 /\ \A a \in DOMAIN dump : dump[a] = events[a]
      BY <2>1, <2>2 DEF FlushedOK
    <2>3. ASSUME NEW a \in Actors, NEW i \in DOMAIN log[a]
          PROVE  log[a][i].written <= LOG_BLOCK_SIZE
      <3>1. log[a] # Disabled
        <4>1. DOMAIN <<>> = {}
          OBVIOUS
        <4> QED BY <2>3, <4>1 DEF Disabled
      <3>2. LogHolds(log[a], events[a])
        BY <2>1, <3>1 DEF LogsOK, LogOK
      <3>3. PICK l : l = log[a]
        OBVIOUS
      <3>4. IsSeq(l) /\ \A n \in 1 .. Len(l) : l[n].written <= LOG_BLOCK_SIZE
        BY <3>2, <3>3 DEF LogHolds
      <3>5. i \in 1 .. Len(l)
        BY <2>3, <3>3, <3>4 DEF IsSeq
      <3> QED BY <3>3, <3>4, <3>5
    <2> QED BY <2>2, <2>3 DEF ProfileComplete
  <1> QED BY <1>1, ProfileInit, ProfileStep, ExecInvariant, PTL DEF Spec

=============================================================================
