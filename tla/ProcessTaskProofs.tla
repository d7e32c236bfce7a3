------------------------- MODULE ProcessTaskProofs --------------------------
(***************************************************************************)
(* First the scripts, and the graph they build: what every step does to    *)
(* what is left of the threads' scripts, who runs which task, which        *)
(* dependencies are in place, and that every command is made once.  Then   *)
(* the slots of a processor, its inputs and the brackets of its callbacks, *)
(* for any number of workers, runs and ports, any processor and any limit, *)
(* and for callbacks that throw.                                           *)
(***************************************************************************)
EXTENDS ProcessTaskInvariant, FiniteSetTheorems, FunctionTheorems, SequenceTheorems, TLAPS

-----------------------------------------------------------------------------
(* Names, and sequences of operations.                                     *)

\* What the assumptions say of the constants.
LEMMA Constants ==
  /\ WorkerCount \in Nat \ {0} /\ RunCount \in Nat
  /\ Workers \subseteq Nat /\ Runs \subseteq Nat /\ 0 \in Workers
  /\ Main \notin Workers /\ Main \in Actors /\ Workers \subseteq Actors
  /\ \A w \in Workers : w + 1 \in 1 .. WorkerCount
  /\ \A k \in 1 .. WorkerCount : k - 1 \in Workers
  BY ShapeAssumption, MainAssumption DEF Workers, Runs, Actors

\* Distinct tasks have distinct names.
LEMMA Names ==
  /\ {Entry, Barrier, Terminal, Foreign} \subseteq Tasks
  /\ Entry # Barrier /\ Entry # Terminal /\ Entry # Foreign
  /\ Barrier # Terminal /\ Barrier # Foreign /\ Terminal # Foreign
  /\ Commands \subseteq Tasks
  /\ {Entry, Barrier, Terminal, Foreign} \cap Commands = {}
  /\ \A r \in Runs : Run(r) \in Commands
  /\ \A v \in Workers : Finalizer(v) \in Commands
  /\ \A r, v : Run(r) # Finalizer(v)
  /\ \A r, q : Run(r) = Run(q) => r = q
  /\ \A v, u : Finalizer(v) = Finalizer(u) => v = u
  /\ \A i, j : Producer(i) = Producer(j) => i = j
  /\ \A j : Producer(j) \notin {Entry, Barrier, Terminal, Foreign} \cup Commands
  /\ \A j \in Ports \cup BroadcastPorts : Producer(j) \in Tasks
  BY DEF Tasks, Commands, Entry, Barrier, Terminal, Foreign, Run, Finalizer, Producer

\* What is known of the ports of a processor.
LEMMA ShapeFacts ==
  ASSUME shape \in Shapes
  PROVE  /\ shape.broadcasts \subseteq BroadcastPorts
         /\ \A r \in Runs : Needs(r) \subseteq Ports /\ Needs(r) \subseteq DataPorts
         /\ \A r \in Runs : IsFiniteSet(Needs(r))
         /\ DataPorts \subseteq Ports /\ Ports \cap BroadcastPorts = {}
         /\ (\A r \in Runs : Needs(r) = {}) \/ (\A r \in Runs : Needs(r) # {})
         /\ \A j \in DataPorts : \E r \in Runs : j \in Needs(r)
  <1>1. shape \in [needs : [Runs -> SUBSET Ports], broadcasts : SUBSET BroadcastPorts]
    BY ShapeAssumption
  <1>2. shape.needs \in [Runs -> SUBSET Ports] /\ shape.broadcasts \in SUBSET BroadcastPorts
    BY <1>1
  <1>3. \A r \in Runs : Needs(r) \in SUBSET Ports
    BY <1>2 DEF Needs
  <1>4. \A r \in Runs : Needs(r) \subseteq DataPorts
    BY DEF DataPorts
  <1>5. DataPorts \subseteq Ports
    BY <1>3 DEF DataPorts
  <1>6. (\A r \in Runs : Needs(r) = {}) \/ (\A r \in Runs : Needs(r) # {})
    BY ShapeAssumption DEF Needs
  <1>7. \A r \in Runs : IsFiniteSet(Needs(r))
    BY <1>3, FS_Subset, ShapeAssumption
  <1>8. \A j \in DataPorts : \E r \in Runs : j \in Needs(r)
    BY DEF DataPorts
  <1> QED BY <1>2, <1>3, <1>4, <1>5, <1>6, <1>7, <1>8, ShapeAssumption

\* Putting an operation before a script.
LEMMA Cons ==
  ASSUME NEW S, NEW x \in S, NEW s \in Seq(S)
  PROVE  /\ <<x>> \o s \in Seq(S)
         /\ <<x>> \o s # <<>>
         /\ Head(<<x>> \o s) = x
         /\ Tail(<<x>> \o s) = s
         /\ Elements(<<x>> \o s) = {x} \cup Elements(s)
  <1>1. <<x>> \o s \in Seq(S) /\ Len(<<x>> \o s) = Len(s) + 1
    OBVIOUS
  <1>2. Head(<<x>> \o s) = x
    OBVIOUS
  <1>3. Tail(<<x>> \o s) = s
    OBVIOUS
  <1>4. Elements(<<x>> \o s) = {x} \cup Elements(s)
    <2>1. ASSUME NEW y \in Elements(<<x>> \o s)
          PROVE  y \in {x} \cup Elements(s)
      BY <1>1 DEF Elements
    <2>2. ASSUME NEW y \in Elements(s)
          PROVE  y \in Elements(<<x>> \o s)
      <3>1. PICK i \in 1 .. Len(s) : y = s[i]
        BY DEF Elements
      <3>2. (<<x>> \o s)[i + 1] = s[i] /\ i + 1 \in 1 .. Len(s) + 1
        BY <3>1
      <3>3. DOMAIN (<<x>> \o s) = 1 .. Len(s) + 1
        BY <1>1
      <3> QED BY <3>1, <3>2, <3>3 DEF Elements
    <2>3. x \in Elements(<<x>> \o s)
      <3>1. (<<x>> \o s)[1] = x
        OBVIOUS
      <3> QED BY <3>1, <1>1 DEF Elements
    <2> QED BY <2>1, <2>2, <2>3
  <1>5. <<x>> \o s # <<>>
    BY <1>1
  <1> QED BY <1>1, <1>2, <1>3, <1>4, <1>5

\* Scripts written out: their heads, tails and elements.
LEMMA Literals ==
  /\ Elements(<<>>) = {}
  /\ \A a : /\ Head(<<a>>) = a /\ Tail(<<a>>) = <<>> /\ Elements(<<a>>) = {a} /\ <<a>> # <<>>
  /\ \A a, b : /\ Head(<<a, b>>) = a /\ Tail(<<a, b>>) = <<b>> /\ <<a, b>> # <<>>
               /\ Elements(<<a, b>>) = {a, b}
  /\ \A a, b, c : /\ Head(<<a, b, c>>) = a /\ Tail(<<a, b, c>>) = <<b, c>>
                  /\ Elements(<<a, b, c>>) = {a, b, c} /\ <<a, b, c>> # <<>>
  /\ \A a, b, c, d : /\ Head(<<a, b, c, d>>) = a /\ Tail(<<a, b, c, d>>) = <<b, c, d>>
                     /\ Elements(<<a, b, c, d>>) = {a, b, c, d} /\ <<a, b, c, d>> # <<>>
  /\ \A a, b, c, d, e :
       /\ Head(<<a, b, c, d, e>>) = a /\ Tail(<<a, b, c, d, e>>) = <<b, c, d, e>>
       /\ Elements(<<a, b, c, d, e>>) = {a, b, c, d, e} /\ <<a, b, c, d, e>> # <<>>
  <1>1. Elements(<<>>) = {}
    BY DEF Elements
  <1>2. \A a : Head(<<a>>) = a /\ Tail(<<a>>) = <<>> /\ Elements(<<a>>) = {a} /\ <<a>> # <<>>
    BY DEF Elements
  <1>3. \A a, b : /\ Head(<<a, b>>) = a /\ Tail(<<a, b>>) = <<b>> /\ <<a, b>> # <<>>
                  /\ Elements(<<a, b>>) = {a, b}
    BY DEF Elements
  <1>4. \A a, b, c : /\ Head(<<a, b, c>>) = a /\ Tail(<<a, b, c>>) = <<b, c>>
                     /\ Elements(<<a, b, c>>) = {a, b, c} /\ <<a, b, c>> # <<>>
    BY DEF Elements
  <1>5. \A a, b, c, d : /\ Head(<<a, b, c, d>>) = a /\ Tail(<<a, b, c, d>>) = <<b, c, d>>
                        /\ Elements(<<a, b, c, d>>) = {a, b, c, d} /\ <<a, b, c, d>> # <<>>
    BY DEF Elements
  <1>6. \A a, b, c, d, e :
          /\ Head(<<a, b, c, d, e>>) = a /\ Tail(<<a, b, c, d, e>>) = <<b, c, d, e>>
          /\ Elements(<<a, b, c, d, e>>) = {a, b, c, d, e} /\ <<a, b, c, d, e>> # <<>>
    BY DEF Elements
  <1> QED BY <1>1, <1>2, <1>3, <1>4, <1>5, <1>6

LEMMA Literal3 ==
  \A a, b, c : Head(<<a, b, c>>) = a /\ Elements(<<a, b, c>>) = {a, b, c}
  BY DEF Elements

LEMMA Literal4 ==
  \A a, b, c, d : Head(<<a, b, c, d>>) = a /\ Elements(<<a, b, c, d>>) = {a, b, c, d}
  BY DEF Elements

LEMMA Literal5 ==
  \A a, b, c, d, e : Head(<<a, b, c, d, e>>) = a /\ Elements(<<a, b, c, d, e>>) = {a, b, c, d, e}
  BY DEF Elements

\* The operations of a loop are distinct, and so are the commands they make.
LEMMA LoopNames ==
  ASSUME shape \in Shapes, NEW t \in Loops
  PROVE  /\ t \in Tasks /\ Turns(t) \in Nat
         /\ \A i \in 1 .. Turns(t) : Turn(t, i) \in Ops /\ Made(t, i) \in Commands
         /\ \A i, k \in Nat : Turn(t, i) = Turn(t, k) => i = k
         /\ \A i : Turn(t, i)[1] \in {"spawn", "finalizer", "store"}
         /\ <<"complete">> \in Ops
  <1>1. t \in {Entry, Barrier} \/ \E j \in Ports : t = Producer(j)
    BY ShapeFacts DEF Loops
  <1>2. t \in Tasks /\ Turns(t) \in Nat
    BY <1>1, Names, Constants DEF Turns
  <1>3. \A i : Turn(t, i)[1] \in {"spawn", "finalizer", "store"}
    BY DEF Turn
  <1>4. \A i, k \in Nat : Turn(t, i) = Turn(t, k) => i = k
    BY DEF Turn
  <1>5. ASSUME NEW i \in 1 .. Turns(t)
        PROVE  Turn(t, i) \in Ops /\ Made(t, i) \in Commands
    <2>1. CASE t = Barrier
      <3>1. i - 1 \in Workers
        BY <2>1, Constants DEF Turns
      <3> QED BY <3>1, <2>1, Names DEF Turn, Made, Ops
    <2>2. CASE t # Barrier
      <3>1. i \in Runs
        BY <2>2 DEF Turns, Runs
      <3>2. t # Entry => t[2] \in Ports
        BY <1>1, <2>2 DEF Producer
      <3> QED BY <3>1, <3>2, <2>2, Names DEF Turn, Made, Ops
    <2> QED BY <2>1, <2>2
  <1>6. <<"complete">> \in Ops
    BY DEF Ops
  <1> QED BY <1>2, <1>3, <1>4, <1>5, <1>6

\* An agenda is the next turn followed by the rest of the agenda.
LEMMA AgendaFacts ==
  ASSUME shape \in Shapes, NEW t \in Loops, NEW k \in 0 .. Turns(t)
  PROVE  /\ Agenda(t, k) \in Seq(Ops)
         /\ k = Turns(t) => Agenda(t, k) = <<<<"complete">>>>
         /\ k < Turns(t) => Agenda(t, k) = <<Turn(t, k + 1)>> \o Agenda(t, k + 1)
         /\ Elements(Agenda(t, k)) = {Turn(t, i) : i \in k + 1 .. Turns(t)} \cup {<<"complete">>}
  <1> DEFINE n == Turns(t) - k
             F == [i \in 1 .. n |-> Turn(t, k + i)]
             A == Agenda(t, k)
  <1>1. n \in Nat /\ Turns(t) \in Nat /\ \A i \in 1 .. n : k + i \in 1 .. Turns(t)
    BY LoopNames
  <1>2. F \in Seq(Ops) /\ Len(F) = n
    BY <1>1, LoopNames
  <1>3. A \in Seq(Ops) /\ Len(A) = n + 1 /\ A[n + 1] = <<"complete">>
    BY <1>1, <1>2, LoopNames DEF Agenda
  <1>4. \A i \in 1 .. n : A[i] = Turn(t, k + i)
    BY <1>1, <1>2, LoopNames DEF Agenda
  <1>5. k = Turns(t) => A = <<<<"complete">>>>
    <2> SUFFICES ASSUME k = Turns(t)
                 PROVE  A = <<<<"complete">>>>
      OBVIOUS
    <2>0. n + 1 = 1
      BY <1>1
    <2> HIDE DEF A, n
    <2>1. Len(A) = 1 /\ A[1] = <<"complete">> /\ A \in Seq(Ops)
      BY <1>3, <2>0
    <2> QED BY <2>1
  <1>6. ASSUME k < Turns(t)
        PROVE  A = <<Turn(t, k + 1)>> \o Agenda(t, k + 1)
    <2> DEFINE G == [i \in 1 .. Turns(t) - (k + 1) |-> Turn(t, k + 1 + i)]
               B == Agenda(t, k + 1)
    <2>1. G \in Seq(Ops) /\ Len(G) = n - 1
      BY <1>1, <1>6, LoopNames
    <2>2. B \in Seq(Ops) /\ Len(B) = n /\ B[n] = <<"complete">>
      BY <1>1, <1>6, <2>1, LoopNames DEF Agenda
    <2>3. \A i \in 1 .. n - 1 : B[i] = Turn(t, k + 1 + i)
      BY <1>1, <1>6, <2>1, LoopNames DEF Agenda
    <2>4. Turn(t, k + 1) \in Ops
      BY <1>1, <1>6, LoopNames
    <2> DEFINE C == <<Turn(t, k + 1)>> \o B
    <2>5. C \in Seq(Ops) /\ Len(C) = n + 1 /\ C[1] = Turn(t, k + 1)
          /\ \A i \in 2 .. n + 1 : C[i] = B[i - 1]
      BY <2>2, <2>4, <1>1
    <2> HIDE DEF C, B, A, n, F, G
    <2>6. ASSUME NEW i \in 1 .. n + 1
          PROVE  A[i] = C[i]
      <3>1. CASE i = 1
        BY <3>1, <2>5, <1>4, <1>1, <1>6 DEF n
      <3>2. CASE i \in 2 .. n
        BY <3>2, <2>5, <2>3, <1>4, <1>1
      <3>3. CASE i = n + 1
        <4>1. n >= 1
          BY <1>1, <1>6 DEF n
        <4> QED BY <3>3, <4>1, <2>5, <2>2, <1>3, <1>1
      <3> QED BY <3>1, <3>2, <3>3, <1>1
    <2>7. A = C
      BY <2>5, <2>6, <1>3, <1>1, SeqEqual
    <2> QED BY <2>7 DEF A, B, C
  <1>7. Elements(A) = {Turn(t, i) : i \in k + 1 .. Turns(t)} \cup {<<"complete">>}
    <2>1. DOMAIN A = 1 .. n + 1
      BY <1>3, <1>1
    <2> HIDE DEF A
    <2>2. ASSUME NEW x \in Elements(A)
          PROVE  x \in {Turn(t, i) : i \in k + 1 .. Turns(t)} \cup {<<"complete">>}
      <3>1. PICK i \in 1 .. n + 1 : x = A[i]
        BY <2>1 DEF Elements
      <3>2. CASE i = n + 1
        BY <3>1, <3>2, <1>3
      <3>3. CASE i \in 1 .. n
        <4>1. x = Turn(t, k + i) /\ k + i \in k + 1 .. Turns(t)
          BY <3>1, <3>3, <1>4, <1>1
        <4> QED BY <4>1
      <3> QED BY <3>2, <3>3, <1>1
    <2>3. ASSUME NEW i \in k + 1 .. Turns(t)
          PROVE  Turn(t, i) \in Elements(A)
      <3>1. i - k \in 1 .. n /\ k + (i - k) = i
        BY <1>1
      <3>2. A[i - k] = Turn(t, i)
        BY <3>1, <1>4
      <3>3. i - k \in DOMAIN A
        BY <3>1, <2>1, <1>1
      <3> QED BY <3>2, <3>3 DEF Elements
    <2>4. <<"complete">> \in Elements(A)
      BY <2>1, <1>3, <1>1 DEF Elements
    <2> QED BY <2>2, <2>3, <2>4
  <1> QED BY <1>3, <1>5, <1>6, <1>7

\* What is left of the making of a command loses its first operation.
LEMMA MakingSteps ==
  ASSUME NEW c \in Commands, NEW m \in Makings(c)
  PROVE  /\ m \in Seq(Ops) /\ m # <<>> /\ Head(m) \in Ops /\ Tail(m) \in Seq(Ops)
         /\ m = <<Head(m)>> \o Tail(m)
         /\ Tail(m) \in Makings(c) \cup {<<>>}
         /\ Elements(m) = {Head(m)} \cup Elements(Tail(m)) /\ Head(m) \notin Elements(Tail(m))
         /\ \A x \in Elements(m) : x[1] \in {"create", "depend", "commit"}
  <1>1. /\ <<"create", c>> \in Ops /\ <<"depend", Entry, c>> \in Ops
        /\ <<"depend", c, Barrier>> \in Ops /\ <<"depend", c, Terminal>> \in Ops
        /\ <<"commit", c>> \in Ops /\ c # Entry /\ c # Barrier /\ c # Terminal
    BY Names DEF Ops
  <1> DEFINE a == <<"create", c>>
             b == <<"depend", Entry, c>>
             d == <<"depend", c, Barrier>>
             e == <<"depend", c, Terminal>>
             f == <<"commit", c>>
  <1>2. /\ {a, b, d, e, f} \subseteq Ops
        /\ a # b /\ a # d /\ a # e /\ a # f /\ b # d /\ b # f /\ d # f /\ e # f
        /\ \A x \in {a, b, d, e, f} : x[1] \in {"create", "depend", "commit"}
    BY <1>1, Names
  <1>3. m \in {<<a, b, d, f>>, <<b, d, f>>, <<d, f>>, <<f>>, <<a, e, f>>, <<e, f>>}
    BY DEF Makings, Spawn
  <1>4. /\ c[1] = "run" => Makings(c) = {<<a, b, d, f>>, <<b, d, f>>, <<d, f>>, <<f>>}
        /\ c[1] # "run" => Makings(c) = {<<a, e, f>>, <<e, f>>, <<f>>}
    BY DEF Makings, Spawn
  <1> HIDE DEF a, b, d, e, f
  <1>5. m \in Seq(Ops)
    <2>1. <<a, b, d, f>> \in Seq(Ops) /\ <<b, d, f>> \in Seq(Ops) /\ <<d, f>> \in Seq(Ops)
      BY <1>2
    <2>2. <<f>> \in Seq(Ops) /\ <<a, e, f>> \in Seq(Ops) /\ <<e, f>> \in Seq(Ops)
      BY <1>2
    <2> QED BY <2>1, <2>2, <1>3
  <1>6. m # <<>> /\ Head(m) \in Ops /\ Tail(m) \in Seq(Ops) /\ m = <<Head(m)>> \o Tail(m)
    <2>1. m # <<>>
      BY <1>3, Literals
    <2>2. Head(m) \in Ops /\ Tail(m) \in Seq(Ops)
      BY <2>1, <1>5
    <2>3. m = <<Head(m)>> \o Tail(m)
      BY <2>1, <1>5
    <2> QED BY <2>1, <2>2, <2>3
  <1>7. Tail(m) \in Makings(c) \cup {<<>>}
    <2>1. Tail(<<a, b, d, f>>) = <<b, d, f>> /\ Tail(<<b, d, f>>) = <<d, f>> /\ Tail(<<d, f>>) = <<f>>
          /\ Tail(<<f>>) = <<>> /\ Tail(<<a, e, f>>) = <<e, f>> /\ Tail(<<e, f>>) = <<f>>
      BY Literals
    <2> QED BY <2>1, <1>4
  <1>8. /\ Elements(m) = {Head(m)} \cup Elements(Tail(m)) /\ Head(m) \notin Elements(Tail(m))
        /\ Elements(m) \subseteq {a, b, d, e, f}
    <2>1. CASE m = <<a, b, d, f>>
      BY <2>1, <1>2, Literals
    <2>2. CASE m = <<b, d, f>>
      BY <2>2, <1>2, Literals
    <2>3. CASE m = <<d, f>>
      BY <2>3, <1>2, Literals
    <2>4. CASE m = <<f>>
      BY <2>4, <1>2, Literals
    <2>5. CASE m = <<a, e, f>>
      BY <2>5, <1>2, Literals
    <2>6. CASE m = <<e, f>>
      BY <2>6, <1>2, Literals
    <2> QED BY <1>3, <2>1, <2>2, <2>3, <2>4, <2>5, <2>6
  <1> QED BY <1>2, <1>5, <1>6, <1>7, <1>8

\* A script of operations before another one.
LEMMA Before ==
  ASSUME NEW m \in Seq(Ops), NEW A \in Seq(Ops)
  PROVE  /\ m \o A \in Seq(Ops) /\ Elements(m \o A) = Elements(m) \cup Elements(A)
         /\ m = <<>> => m \o A = A
         /\ m # <<>> => m \o A # <<>> /\ Head(m \o A) = Head(m) /\ Tail(m \o A) = Tail(m) \o A
  <1>1. m \o A \in Seq(Ops) /\ Len(m \o A) = Len(m) + Len(A)
    OBVIOUS
  <1>2. Elements(m \o A) = Elements(m) \cup Elements(A)
    <2>1. DOMAIN (m \o A) = 1 .. Len(m) + Len(A) /\ DOMAIN m = 1 .. Len(m) /\ DOMAIN A = 1 .. Len(A)
          /\ Len(m) \in Nat /\ Len(A) \in Nat
      BY <1>1
    <2>2. \A i \in 1 .. Len(m) + Len(A) :
            (m \o A)[i] = IF i <= Len(m) THEN m[i] ELSE A[i - Len(m)]
      OBVIOUS
    <2>3. ASSUME NEW x \in Elements(m \o A)
          PROVE  x \in Elements(m) \cup Elements(A)
      <3>1. PICK i \in 1 .. Len(m) + Len(A) : x = (m \o A)[i]
        BY <2>1 DEF Elements
      <3>2. CASE i <= Len(m)
        <4>1. x = m[i] /\ i \in 1 .. Len(m)
          BY <3>1, <3>2, <2>2, <2>1
        <4> QED BY <4>1, <2>1 DEF Elements
      <3>3. CASE ~(i <= Len(m))
        <4>1. x = A[i - Len(m)] /\ i - Len(m) \in 1 .. Len(A)
          BY <3>1, <3>3, <2>2, <2>1
        <4> QED BY <4>1, <2>1 DEF Elements
      <3> QED BY <3>2, <3>3
    <2>4. ASSUME NEW x \in Elements(m)
          PROVE  x \in Elements(m \o A)
      <3>1. PICK i \in 1 .. Len(m) : x = m[i]
        BY <2>1 DEF Elements
      <3>2. x = (m \o A)[i] /\ i \in DOMAIN (m \o A)
        BY <3>1, <2>1, <2>2
      <3> QED BY <3>2 DEF Elements
    <2>5. ASSUME NEW x \in Elements(A)
          PROVE  x \in Elements(m \o A)
      <3>1. PICK i \in 1 .. Len(A) : x = A[i]
        BY <2>1 DEF Elements
      <3>2. i + Len(m) \in 1 .. Len(m) + Len(A) /\ ~(i + Len(m) <= Len(m)) /\ (i + Len(m)) - Len(m) = i
        BY <2>1
      <3>3. x = (m \o A)[i + Len(m)]
        BY <3>1, <3>2, <2>2
      <3> QED BY <3>2, <3>3, <2>1 DEF Elements
    <2> QED BY <2>3, <2>4, <2>5
  <1>3. m = <<>> => m \o A = A
    BY ConcatEmptySeq
  <1>4. m # <<>> => m \o A # <<>> /\ Head(m \o A) = Head(m) /\ Tail(m \o A) = Tail(m) \o A
    <2> SUFFICES ASSUME m # <<>>
                 PROVE  m \o A # <<>> /\ Head(m \o A) = Head(m) /\ Tail(m \o A) = Tail(m) \o A
      OBVIOUS
    <2>1. Len(m) > 0
      OBVIOUS
    <2>2. m \o A # <<>> /\ Head(m \o A) = Head(m)
      BY <2>1
    <2>3. Tail(m \o A) = Tail(m) \o A
      BY <2>1, ConcatProperties, HeadTailProperties
    <2> QED BY <2>2, <2>3
  <1> QED BY <1>1, <1>2, <1>3, <1>4

Form(t, s) == InLoop(t, s) \/ Straight(t, s)

\* What a script of a task in its loop can be: done, at the start of a turn,
\* about to count, or making a command.
LEMMA LoopForms ==
  ASSUME shape \in Shapes, NEW t, NEW s, InLoop(t, s)
  PROVE  /\ t \in Loops
         /\ \/ s = <<<<"complete">>>>
            \/ \E k \in 1 .. Turns(t) :
                 /\ t = Entry => \A r \in Runs : Needs(r) = {}
                 /\ \/ s = <<Turn(t, k)>> \o Agenda(t, k)
                    \/ t \notin {Entry, Barrier} /\ Makes(t, k) /\ s = <<<<"count", k>>>> \o Agenda(t, k)
                    \/ Makes(t, k) /\ \E m \in Makings(Made(t, k)) : s = m \o Agenda(t, k)
  <1>0. PICK k \in 0 .. Turns(t) :
          /\ t = Entry => k = Turns(t) \/ \A r \in Runs : Needs(r) = {}
          /\ \E p \in Prefixes(t, k) : s = p \o Agenda(t, k)
    BY DEF InLoop
  <1>1. t \in Loops
    BY DEF InLoop
  <1>2. PICK p \in Prefixes(t, k) : s = p \o Agenda(t, k)
    BY <1>0
  <1>3. Turns(t) \in Nat
    BY <1>1, LoopNames
  <1>4. Agenda(t, k) \in Seq(Ops)
    BY <1>1, AgendaFacts
  <1>5. CASE p = <<>>
    <2>1. s = Agenda(t, k)
      BY <1>2, <1>5, <1>4, ConcatEmptySeq
    <2>2. CASE k = Turns(t)
      BY <2>1, <2>2, <1>1, AgendaFacts
    <2>3. CASE k < Turns(t)
      <3>0. PICK n \in 1 .. Turns(t) : n = k + 1
        BY <2>3, <1>3
      <3>1. s = <<Turn(t, n)>> \o Agenda(t, n)
        BY <2>1, <2>3, <3>0, <1>1, <1>3, AgendaFacts
      <3>2. t = Entry => \A r \in Runs : Needs(r) = {}
        BY <1>0, <2>3, <1>3
      <3> QED BY <3>1, <3>2, <1>1
    <2>4. k = Turns(t) \/ k < Turns(t)
      BY <1>3
    <2> QED BY <2>2, <2>3, <2>4
  <1>6. CASE p # <<>>
    <2>1. k \in 1 .. Turns(t) /\ Makes(t, k)
      BY <1>6, <1>2, <1>3 DEF Prefixes
    <2>2. t = Entry => \A r \in Runs : Needs(r) = {}
      <3> SUFFICES ASSUME t = Entry
                   PROVE  \A r \in Runs : Needs(r) = {}
        OBVIOUS
      <3>1. k \in Runs /\ Needs(k) = {}
        BY <2>1, Names DEF Makes, Turns, Runs
      <3> QED BY <3>1, ShapeFacts
    <2>3. \/ p \in Makings(Made(t, k))
          \/ t \notin {Entry, Barrier} /\ p = <<<<"count", k>>>>
      BY <1>6, <1>2, <2>1 DEF Prefixes
    <2> QED BY <2>1, <2>2, <2>3, <1>1, <1>2
  <1> QED BY <1>5, <1>6

\* Conversely.
LEMMA LoopScripts ==
  ASSUME shape \in Shapes, NEW t \in Loops, NEW k \in 0 .. Turns(t),
         t = Entry => k = Turns(t) \/ \A r \in Runs : Needs(r) = {}
  PROVE  /\ InLoop(t, Agenda(t, k))
         /\ k > 0 /\ Makes(t, k) =>
              /\ t \notin {Entry, Barrier} => InLoop(t, <<<<"count", k>>>> \o Agenda(t, k))
              /\ \A m \in Makings(Made(t, k)) : InLoop(t, m \o Agenda(t, k))
  <1>1. InLoop(t, <<>> \o Agenda(t, k))
    <2>1. <<>> \in Prefixes(t, k)
      BY DEF Prefixes
    <2> QED BY <2>1 DEF InLoop
  <1>2. <<>> \o Agenda(t, k) = Agenda(t, k)
    BY AgendaFacts, ConcatEmptySeq
  <1>3. ASSUME k > 0, Makes(t, k)
        PROVE  /\ t \notin {Entry, Barrier} => InLoop(t, <<<<"count", k>>>> \o Agenda(t, k))
               /\ \A m \in Makings(Made(t, k)) : InLoop(t, m \o Agenda(t, k))
    <2>1. t \notin {Entry, Barrier} => <<<<"count", k>>>> \in Prefixes(t, k)
      BY <1>3 DEF Prefixes
    <2>2. Makings(Made(t, k)) \subseteq Prefixes(t, k)
      BY <1>3 DEF Prefixes
    <2> QED BY <2>1, <2>2 DEF InLoop
  <1> QED BY <1>1, <1>2, <1>3

\* A script that is not done loses its first operation.
LEMMA PopLoop ==
  ASSUME shape \in Shapes, NEW t, NEW s, InLoop(t, s)
  PROVE  /\ s \in Seq(Ops) /\ s # <<>> /\ Head(s) \in Elements(s)
         /\ s = <<<<"complete">>>> \/ Head(s)[1] # "complete"
         /\ s # <<<<"complete">>>> =>
              /\ InLoop(t, Tail(s))
              /\ Elements(Tail(s)) = Elements(s) \ {Head(s)}
  <1>1. t \in Loops /\ Turns(t) \in Nat
    BY LoopForms, LoopNames
  <1>2. CASE s = <<<<"complete">>>>
    <2>1. s \in Seq(Ops)
      BY <1>2 DEF Ops
    <2> QED BY <2>1, <1>2, Literals
  <1>3. ASSUME NEW k \in 1 .. Turns(t), t = Entry => \A r \in Runs : Needs(r) = {},
               NEW m \in Seq(Ops), m # <<>>, s = m \o Agenda(t, k),
               Elements(m) = {Head(m)} \cup Elements(Tail(m)),
               Head(m) \notin Elements(Tail(m)) \cup Elements(Agenda(t, k)),
               Head(m)[1] # "complete",
               InLoop(t, Tail(m) \o Agenda(t, k))
        PROVE  /\ s \in Seq(Ops) /\ s # <<>> /\ Head(s) \in Elements(s)
               /\ Head(s)[1] # "complete"
               /\ InLoop(t, Tail(s)) /\ Elements(Tail(s)) = Elements(s) \ {Head(s)}
    <2>0. k \in 0 .. Turns(t)
      BY <1>1
    <2>1. Agenda(t, k) \in Seq(Ops)
      BY <2>0, <1>1, AgendaFacts
    <2>2. Tail(m) \in Seq(Ops)
      BY <1>3
    <2>3. s \in Seq(Ops) /\ s # <<>> /\ Head(s) = Head(m) /\ Tail(s) = Tail(m) \o Agenda(t, k)
          /\ Elements(s) = Elements(m) \cup Elements(Agenda(t, k))
      BY <2>1, <1>3, Before
    <2>4. Elements(Tail(m) \o Agenda(t, k)) = Elements(Tail(m)) \cup Elements(Agenda(t, k))
      BY <2>1, <2>2, Before
    <2> QED BY <2>3, <2>4, <1>3
  <1>4. ASSUME NEW k \in 1 .. Turns(t), t = Entry => \A r \in Runs : Needs(r) = {},
               NEW x \in Ops, s = <<x>> \o Agenda(t, k),
               x = Turn(t, k) \/ x[1] = "count"
        PROVE  /\ s \in Seq(Ops) /\ s # <<>> /\ Head(s) \in Elements(s)
               /\ Head(s)[1] # "complete"
               /\ InLoop(t, Tail(s)) /\ Elements(Tail(s)) = Elements(s) \ {Head(s)}
    <2>0. k \in 0 .. Turns(t)
      BY <1>1
    <2>1. Agenda(t, k) \in Seq(Ops)
          /\ Elements(Agenda(t, k)) = {Turn(t, i) : i \in k + 1 .. Turns(t)} \cup {<<"complete">>}
      BY <2>0, <1>1, AgendaFacts
    <2>2. x[1] # "complete"
      BY <1>4, <1>1, LoopNames
    <2>3. \A i \in k + 1 .. Turns(t) : Turn(t, i) # x
      <3> SUFFICES ASSUME NEW i \in k + 1 .. Turns(t), Turn(t, i) = x
                   PROVE  FALSE
        OBVIOUS
      <3>1. x[1] # "count"
        BY <1>1, LoopNames
      <3>2. Turn(t, i) = Turn(t, k) /\ i \in Nat /\ k \in Nat /\ i # k
        BY <3>1, <1>1, <1>4
      <3> QED BY <3>2, <1>1, LoopNames
    <2>4. x \notin Elements(Agenda(t, k))
      BY <2>1, <2>2, <2>3
    <2>5. InLoop(t, Agenda(t, k))
      BY <2>0, <1>1, <1>4, LoopScripts
    <2>6. s \in Seq(Ops) /\ s # <<>> /\ Head(s) = x /\ Tail(s) = Agenda(t, k)
          /\ Elements(s) = {x} \cup Elements(Agenda(t, k))
      BY <2>1, <1>4, Cons
    <2> QED BY <2>2, <2>4, <2>5, <2>6
  <1>5. ASSUME NEW k \in 1 .. Turns(t), t = Entry => \A r \in Runs : Needs(r) = {},
               Makes(t, k), NEW m \in Makings(Made(t, k)), s = m \o Agenda(t, k)
        PROVE  /\ s \in Seq(Ops) /\ s # <<>> /\ Head(s) \in Elements(s)
               /\ Head(s)[1] # "complete"
               /\ InLoop(t, Tail(s)) /\ Elements(Tail(s)) = Elements(s) \ {Head(s)}
    <2>0. k \in 0 .. Turns(t) /\ k > 0
      BY <1>1
    <2>1. Made(t, k) \in Commands
      BY <1>1, LoopNames
    <2>2. /\ m \in Seq(Ops) /\ m # <<>>
          /\ Tail(m) \in Makings(Made(t, k)) \cup {<<>>}
          /\ Elements(m) = {Head(m)} \cup Elements(Tail(m)) /\ Head(m) \notin Elements(Tail(m))
          /\ Head(m)[1] \in {"create", "depend", "commit"}
      BY <2>1, MakingSteps
    <2>3. Elements(Agenda(t, k)) = {Turn(t, i) : i \in k + 1 .. Turns(t)} \cup {<<"complete">>}
          /\ Agenda(t, k) \in Seq(Ops)
      BY <2>0, <1>1, AgendaFacts
    <2>4. \A i : Turn(t, i)[1] \in {"spawn", "finalizer", "store"}
      BY <1>1, LoopNames
    <2>5. Head(m) \notin Elements(Agenda(t, k))
      BY <2>2, <2>3, <2>4
    <2>6. <<>> \o Agenda(t, k) = Agenda(t, k)
      BY <2>3, ConcatEmptySeq
    <2>7. InLoop(t, Tail(m) \o Agenda(t, k))
      <3>1. InLoop(t, Agenda(t, k)) /\ \A n \in Makings(Made(t, k)) : InLoop(t, n \o Agenda(t, k))
        BY <2>0, <1>1, <1>5, LoopScripts
      <3> QED BY <3>1, <2>2, <2>6
    <2> QED BY <2>2, <2>5, <2>7, <1>3, <1>5
  <1>6. ASSUME NEW k \in 1 .. Turns(t)
        PROVE  Turn(t, k) \in Ops /\ (t \notin {Entry, Barrier} => <<"count", k>> \in Ops)
    BY <1>1, LoopNames DEF Ops, Turns, Runs
  <1>7. CASE s # <<<<"complete">>>>
    <2>1. PICK k \in 1 .. Turns(t) :
            /\ t = Entry => \A r \in Runs : Needs(r) = {}
            /\ \/ s = <<Turn(t, k)>> \o Agenda(t, k)
               \/ t \notin {Entry, Barrier} /\ Makes(t, k) /\ s = <<<<"count", k>>>> \o Agenda(t, k)
               \/ Makes(t, k) /\ \E m \in Makings(Made(t, k)) : s = m \o Agenda(t, k)
      BY <1>7, LoopForms
    <2>2. CASE s = <<Turn(t, k)>> \o Agenda(t, k)
      BY <2>1, <2>2, <1>4, <1>6
    <2>3. CASE t \notin {Entry, Barrier} /\ s = <<<<"count", k>>>> \o Agenda(t, k)
      BY <2>1, <2>3, <1>4, <1>6
    <2>4. CASE Makes(t, k) /\ \E m \in Makings(Made(t, k)) : s = m \o Agenda(t, k)
      BY <2>1, <2>4, <1>5
    <2> QED BY <2>1, <2>2, <2>3, <2>4
  <1> QED BY <1>2, <1>7

\* Body, task by task.
LEMMA Bodies ==
  /\ Body(Entry) = <<<<"prepare">>, <<"global_init">>, <<"complete">>>>
  /\ Body(Terminal) = <<<<"prepare">>, <<"global_finalize">>, <<"complete">>>>
  /\ Body(Foreign) = <<<<"foreign">>, <<"complete">>>>
  /\ \A r : Body(Run(r)) = <<<<"prepare">>, <<"tl_init">>, <<"run">>, <<"notify">>, <<"complete">>>>
  /\ \A v : Body(Finalizer(v)) = <<<<"prepare">>, <<"tl_finalize">>, <<"notify">>, <<"complete">>>>
  /\ \A j \in BroadcastPorts : Body(Producer(j)) = <<<<"broadcast", j>>, <<"complete">>>>
  <1>1. Body(Entry) = <<<<"prepare">>, <<"global_init">>, <<"complete">>>>
    BY DEF Body, Entry
  <1>2. Body(Terminal) = <<<<"prepare">>, <<"global_finalize">>, <<"complete">>>>
    BY DEF Body, Terminal
  <1>3. Body(Foreign) = <<<<"foreign">>, <<"complete">>>>
    BY DEF Body, Foreign
  <1>4. \A r : Body(Run(r)) =
          <<<<"prepare">>, <<"tl_init">>, <<"run">>, <<"notify">>, <<"complete">>>>
    BY DEF Body, Run
  <1>5. \A v : Body(Finalizer(v)) =
          <<<<"prepare">>, <<"tl_finalize">>, <<"notify">>, <<"complete">>>>
    BY DEF Body, Finalizer
  <1>6. \A j \in BroadcastPorts : Body(Producer(j)) = <<<<"broadcast", j>>, <<"complete">>>>
    BY DEF Body, Producer
  <1> QED BY <1>1, <1>2, <1>3, <1>4, <1>5, <1>6

\* The body of a loop is its agenda before the first turn.
LEMMA LoopBodies ==
  ASSUME shape \in Shapes
  PROVE  /\ Body(Barrier) = Agenda(Barrier, 0)
         /\ \A j \in DataPorts : Body(Producer(j)) = Agenda(Producer(j), 0)
  <1>1. Body(Barrier) = Agenda(Barrier, 0)
    <2>1. Body(Barrier) = [i \in 1 .. WorkerCount |-> <<"finalizer", i - 1>>] \o <<<<"complete">>>>
      BY DEF Body, Barrier
    <2>2. \A i : Turn(Barrier, 0 + i) = <<"finalizer", (0 + i) - 1>>
      BY Names DEF Turn
    <2>3. \A i \in 1 .. WorkerCount : Turn(Barrier, 0 + i) = <<"finalizer", i - 1>>
      BY <2>2, Constants
    <2>4. Turns(Barrier) - 0 = WorkerCount
      BY Constants DEF Turns
    <2>5. [i \in 1 .. Turns(Barrier) - 0 |-> Turn(Barrier, 0 + i)] =
            [i \in 1 .. WorkerCount |-> <<"finalizer", i - 1>>]
      BY <2>3, <2>4
    <2> QED BY <2>1, <2>5 DEF Agenda
  <1>2. ASSUME NEW j \in DataPorts
        PROVE  Body(Producer(j)) = Agenda(Producer(j), 0)
    <2>1. j \notin BroadcastPorts
      BY ShapeFacts
    <2>2. Body(Producer(j)) = [r \in Runs |-> <<"store", r, j>>] \o <<<<"complete">>>>
      BY <2>1 DEF Body, Producer
    <2>3. \A i : Turn(Producer(j), 0 + i) = <<"store", 0 + i, j>>
      BY Names DEF Turn, Producer
    <2>4. \A i \in Runs : Turn(Producer(j), 0 + i) = <<"store", i, j>>
      BY <2>3, Constants
    <2>5. 1 .. Turns(Producer(j)) - 0 = Runs
      BY Constants, Names DEF Turns, Runs
    <2>6. [i \in 1 .. Turns(Producer(j)) - 0 |-> Turn(Producer(j), 0 + i)] =
            [r \in Runs |-> <<"store", r, j>>]
      BY <2>4, <2>5
    <2> QED BY <2>2, <2>6 DEF Agenda
  <1> QED BY <1>1, <1>2

\* A loop that has run out is left with its completion.
LEMMA CompleteForm ==
  ASSUME shape \in Shapes, NEW t \in Loops
  PROVE  InLoop(t, <<<<"complete">>>>)
  <1>1. Turns(t) \in 0 .. Turns(t)
    BY LoopNames
  <1>2. Agenda(t, Turns(t)) = <<<<"complete">>>>
    BY <1>1, AgendaFacts
  <1> QED BY <1>1, <1>2, LoopScripts

\* The scripts of tasks without a loop.
LEMMA StraightForms ==
  ASSUME shape \in Shapes, NEW t, NEW s, Straight(t, s)
  PROVE  \/ t = Entry /\ s \in {<<<<"prepare">>, <<"global_init">>, <<"complete">>>>,
                                <<<<"global_init">>, <<"complete">>>>}
         \/ t = Terminal /\ s \in {<<<<"prepare">>, <<"global_finalize">>, <<"complete">>>>,
                                   <<<<"global_finalize">>, <<"complete">>>>,
                                   <<<<"user_global_finalize">>, <<"complete">>>>,
                                   <<<<"complete">>>>}
         \/ t = Foreign /\ s \in {<<<<"foreign">>, <<"complete">>>>, <<<<"complete">>>>}
         \/ \E j \in shape.broadcasts :
              t = Producer(j) /\ s \in {<<<<"broadcast", j>>, <<"complete">>>>, <<<<"complete">>>>}
         \/ \E r \in Runs :
              t = Run(r) /\ s \in {<<<<"prepare">>, <<"tl_init">>, <<"run">>, <<"notify">>, <<"complete">>>>,
                                   <<<<"tl_init">>, <<"run">>, <<"notify">>, <<"complete">>>>,
                                   <<<<"run">>, <<"notify">>, <<"complete">>>>,
                                   <<<<"notify">>, <<"complete">>>>, <<<<"complete">>>>}
         \/ \E v \in Workers :
              t = Finalizer(v) /\ s \in {<<<<"prepare">>, <<"tl_finalize">>, <<"notify">>, <<"complete">>>>,
                                         <<<<"tl_finalize">>, <<"notify">>, <<"complete">>>>,
                                         <<<<"user_tl_finalize">>, <<"notify">>, <<"complete">>>>,
                                         <<<<"notify">>, <<"complete">>>>, <<<<"complete">>>>}
  <1>1. shape.broadcasts \subseteq BroadcastPorts
    BY ShapeFacts
  <1> QED BY <1>1, Bodies DEF Straight

\* A script that ends with "complete" loses its first operation.
Pops(s) ==
  /\ s \in Seq(Ops) /\ s # <<>> /\ Head(s) \in Elements(s)
  /\ s = <<<<"complete">>>> \/ Head(s)[1] # "complete"
  /\ s # <<<<"complete">>>> => Elements(Tail(s)) = Elements(s) \ {Head(s)}

\* Scripts written out are popped one operation at a time, none of them twice.
LEMMA LiteralPops ==
  /\ Pops(<<<<"complete">>>>)
  /\ \A a \in Ops : a[1] # "complete" => Pops(<<a, <<"complete">>>>)
  /\ \A a, b \in Ops : a[1] # "complete" /\ a # b => Pops(<<a, b, <<"complete">>>>)
  /\ \A a, b, c \in Ops :
       a[1] # "complete" /\ a \notin {b, c} => Pops(<<a, b, c, <<"complete">>>>)
  /\ \A a, b, c, d \in Ops :
       a[1] # "complete" /\ a \notin {b, c, d} => Pops(<<a, b, c, d, <<"complete">>>>)
  <1> DEFINE z == <<"complete">>
  <1>1. z \in Ops /\ z[1] = "complete"
    BY DEF Ops
  <1> HIDE DEF z
  <1>2. Pops(<<z>>)
    BY <1>1, Literals DEF Pops, z
  <1>3. ASSUME NEW a \in Ops, a[1] # "complete"
        PROVE  Pops(<<a, z>>)
    <2>1. <<a, z>> \in Seq(Ops)
      BY <1>1
    <2> QED BY <2>1, <1>1, <1>3, Literals DEF Pops
  <1>4. ASSUME NEW a \in Ops, NEW b \in Ops, a[1] # "complete", a # b
        PROVE  Pops(<<a, b, z>>)
    <2>1. <<a, b, z>> \in Seq(Ops)
      BY <1>1
    <2> QED BY <2>1, <1>1, <1>4, Literals DEF Pops
  <1>5. ASSUME NEW a \in Ops, NEW b \in Ops, NEW c \in Ops, a[1] # "complete", a \notin {b, c}
        PROVE  Pops(<<a, b, c, z>>)
    <2>1. <<a, b, c, z>> \in Seq(Ops)
      BY <1>1
    <2> QED BY <2>1, <1>1, <1>5, Literals DEF Pops
  <1>6. ASSUME NEW a \in Ops, NEW b \in Ops, NEW c \in Ops, NEW d \in Ops,
               a[1] # "complete", a \notin {b, c, d}
        PROVE  Pops(<<a, b, c, d, z>>)
    <2>1. <<a, b, c, d, z>> \in Seq(Ops)
      BY <1>1
    <2> QED BY <2>1, <1>1, <1>6, Literals DEF Pops
  <1> QED BY <1>2, <1>3, <1>4, <1>5, <1>6 DEF z

\* What a task without a loop is left with after its next operation.
LEMMA PopStraight ==
  ASSUME shape \in Shapes, NEW t, NEW s, Straight(t, s)
  PROVE  Pops(s) /\ (s # <<<<"complete">>>> => Form(t, Tail(s)))
  <1>1. /\ {<<"prepare">>, <<"global_init">>, <<"tl_init">>, <<"run">>, <<"notify">>, <<"complete">>,
            <<"tl_finalize">>, <<"user_tl_finalize">>, <<"global_finalize">>,
            <<"user_global_finalize">>, <<"foreign">>} \subseteq Ops
        /\ \A j \in shape.broadcasts : <<"broadcast", j>> \in Ops
    BY ShapeFacts DEF Ops
  <1>0. /\ Tail(<<<<"prepare">>, <<"global_init">>, <<"complete">>>>) = <<<<"global_init">>, <<"complete">>>>
        /\ Tail(<<<<"prepare">>, <<"global_finalize">>, <<"complete">>>>) =
             <<<<"global_finalize">>, <<"complete">>>>
        /\ Tail(<<<<"prepare">>, <<"tl_finalize">>, <<"notify">>, <<"complete">>>>) =
             <<<<"tl_finalize">>, <<"notify">>, <<"complete">>>>
        /\ Tail(<<<<"prepare">>, <<"tl_init">>, <<"run">>, <<"notify">>, <<"complete">>>>) =
             <<<<"tl_init">>, <<"run">>, <<"notify">>, <<"complete">>>>
        /\ Tail(<<<<"tl_init">>, <<"run">>, <<"notify">>, <<"complete">>>>) =
             <<<<"run">>, <<"notify">>, <<"complete">>>>
        /\ \A x : Tail(<<x, <<"notify">>, <<"complete">>>>) = <<<<"notify">>, <<"complete">>>>
        /\ \A x : Tail(<<x, <<"complete">>>>) = <<<<"complete">>>>
    BY Literals
  <1> DEFINE c == <<<<"complete">>>>
  <1>2. CASE t = Entry /\ s \in {<<<<"prepare">>, <<"global_init">>, <<"complete">>>>,
                                 <<<<"global_init">>, <<"complete">>>>}
    <2>1. InLoop(t, c) /\ Straight(t, <<<<"global_init">>, <<"complete">>>>)
      BY <1>2, CompleteForm DEF Loops, Straight
    <2>2. Form(t, Tail(s))
      BY <1>2, <2>1, <1>0, Zenon DEF Form
    <2> QED BY <1>1, <1>2, <2>2, LiteralPops
  <1>3. CASE t = Terminal /\ s \in {<<<<"prepare">>, <<"global_finalize">>, <<"complete">>>>,
                                    <<<<"global_finalize">>, <<"complete">>>>,
                                    <<<<"user_global_finalize">>, <<"complete">>>>, <<<<"complete">>>>}
    <2>1. Straight(t, <<<<"global_finalize">>, <<"complete">>>>) /\ Straight(t, c)
      BY <1>3 DEF Straight
    <2>2. s # c => Form(t, Tail(s))
      BY <1>3, <2>1, <1>0, Zenon DEF Form
    <2> QED BY <1>1, <1>3, <2>2, LiteralPops
  <1>4. CASE t = Foreign /\ s \in {<<<<"foreign">>, <<"complete">>>>, <<<<"complete">>>>}
    <2>1. Straight(t, c)
      BY <1>4 DEF Straight
    <2>2. s # c => Form(t, Tail(s))
      BY <1>4, <2>1, <1>0, Zenon DEF Form
    <2> QED BY <1>1, <1>4, <2>2, LiteralPops
  <1>5. ASSUME NEW j \in shape.broadcasts, t = Producer(j),
               s \in {<<<<"broadcast", j>>, <<"complete">>>>, <<<<"complete">>>>}
        PROVE  Pops(s) /\ (s # c => Form(t, Tail(s)))
    <2>1. Straight(t, c)
      BY <1>5 DEF Straight
    <2>2. s # c => Form(t, Tail(s))
      BY <1>5, <2>1, <1>0, Zenon DEF Form
    <2>3. <<"broadcast", j>> \in Ops /\ <<"broadcast", j>>[1] # "complete"
      BY <1>1
    <2> QED BY <1>5, <2>2, <2>3, LiteralPops
  <1>6. ASSUME NEW r \in Runs, t = Run(r),
               s \in {<<<<"prepare">>, <<"tl_init">>, <<"run">>, <<"notify">>, <<"complete">>>>,
                      <<<<"tl_init">>, <<"run">>, <<"notify">>, <<"complete">>>>,
                      <<<<"run">>, <<"notify">>, <<"complete">>>>,
                      <<<<"notify">>, <<"complete">>>>, <<<<"complete">>>>}
        PROVE  Pops(s) /\ (s # c => Form(t, Tail(s)))
    <2>1. /\ Straight(t, <<<<"tl_init">>, <<"run">>, <<"notify">>, <<"complete">>>>)
          /\ Straight(t, <<<<"run">>, <<"notify">>, <<"complete">>>>)
          /\ Straight(t, <<<<"notify">>, <<"complete">>>>) /\ Straight(t, c)
      BY <1>6 DEF Straight
    <2>2. s # c => Form(t, Tail(s))
      <3>1. CASE s = <<<<"prepare">>, <<"tl_init">>, <<"run">>, <<"notify">>, <<"complete">>>>
        BY <3>1, <2>1, <1>0, Zenon DEF Form
      <3>2. CASE s = <<<<"tl_init">>, <<"run">>, <<"notify">>, <<"complete">>>>
        BY <3>2, <2>1, <1>0, Zenon DEF Form
      <3>3. CASE s \in {<<<<"run">>, <<"notify">>, <<"complete">>>>, <<<<"notify">>, <<"complete">>>>, c}
        BY <3>3, <2>1, <1>0, Zenon DEF Form
      <3> QED BY <1>6, <3>1, <3>2, <3>3
    <2>3. Pops(s)
      BY <1>1, <1>6, LiteralPops
    <2> QED BY <2>2, <2>3
  <1>7. ASSUME NEW v \in Workers, t = Finalizer(v),
               s \in {<<<<"prepare">>, <<"tl_finalize">>, <<"notify">>, <<"complete">>>>,
                      <<<<"tl_finalize">>, <<"notify">>, <<"complete">>>>,
                      <<<<"user_tl_finalize">>, <<"notify">>, <<"complete">>>>,
                      <<<<"notify">>, <<"complete">>>>, <<<<"complete">>>>}
        PROVE  Pops(s) /\ (s # c => Form(t, Tail(s)))
    <2>1. /\ Straight(t, <<<<"tl_finalize">>, <<"notify">>, <<"complete">>>>)
          /\ Straight(t, <<<<"notify">>, <<"complete">>>>) /\ Straight(t, c)
      BY <1>7 DEF Straight
    <2>2. s # c => Form(t, Tail(s))
      <3>1. CASE s = <<<<"prepare">>, <<"tl_finalize">>, <<"notify">>, <<"complete">>>>
        BY <3>1, <2>1, <1>0, Zenon DEF Form
      <3>2. CASE s \in {<<<<"tl_finalize">>, <<"notify">>, <<"complete">>>>,
                        <<<<"user_tl_finalize">>, <<"notify">>, <<"complete">>>>}
        BY <3>2, <2>1, <1>0, Zenon DEF Form
      <3>3. CASE s \in {<<<<"notify">>, <<"complete">>>>, c}
        BY <3>3, <2>1, <1>0, Zenon DEF Form
      <3> QED BY <1>7, <3>1, <3>2, <3>3
    <2>3. Pops(s)
      BY <1>1, <1>7, LiteralPops
    <2> QED BY <2>2, <2>3
  <1> QED BY <1>2, <1>3, <1>4, <1>5, <1>6, <1>7, StraightForms

\* Likewise for every task.
LEMMA PopForm ==
  ASSUME shape \in Shapes, NEW t, NEW s, Form(t, s)
  PROVE  Pops(s) /\ (s # <<<<"complete">>>> => Form(t, Tail(s)))
  BY PopLoop, PopStraight DEF Form, Pops

\* What the first operation h of a script with the operations E says about the
\* task t and about what is left.
LoopHeads(t, h, E) ==
  /\ h[1] = "complete" => E = {<<"complete">>}
  /\ h[1] = "create" => \E c \in Commands :
       /\ h = <<"create", c>> /\ <<"commit", c>> \in E
       /\ \A r \in Runs : c = Run(r) =>
            <<"depend", Entry, c>> \in E /\ <<"depend", c, Barrier>> \in E
       /\ \A v \in Workers : c = Finalizer(v) => <<"depend", c, Terminal>> \in E
  /\ h[1] = "depend" => \E c \in Commands :
       /\ <<"commit", c>> \in E /\ <<"create", c>> \notin E
       /\ \/ \E r \in Runs : c = Run(r) /\ h = <<"depend", Entry, c>>
          \/ \E r \in Runs : c = Run(r) /\ h = <<"depend", c, Barrier>> /\ t \in Loops \ {Barrier}
          \/ \E v \in Workers : c = Finalizer(v) /\ h = <<"depend", c, Terminal>> /\ t = Barrier
  /\ h[1] = "commit" => \E c \in Commands :
       h = <<"commit", c>> /\ <<"create", c>> \notin E
  /\ h[1] = "spawn" => \E r \in Runs :
       /\ h = <<"spawn", r>> /\ t = Entry /\ Needs(r) = {}
       /\ \A x \in E : x[1] \in {"spawn", "complete"}
  /\ h[1] = "finalizer" => \E v \in Workers :
       /\ h = <<"finalizer", v>> /\ t = Barrier
       /\ \A x \in E : x[1] \in {"finalizer", "complete"}
  /\ h[1] = "store" => \E r \in Runs, j \in DataPorts :
       /\ h = <<"store", r, j>> /\ t = Producer(j)
       /\ \A x \in E : x[1] \in {"store", "complete"}
  /\ h[1] = "count" => \E r \in Runs : \E j \in Needs(r) :
       /\ h = <<"count", r>> /\ t = Producer(j) /\ <<"store", r, j>> \notin E
       /\ \A x \in E : x = h \/ x[1] \in {"store", "complete"}

StraightHeads(t, h, E) ==
  /\ h[1] = "prepare" =>
       \/ t = Entry /\ E = {<<"prepare">>, <<"global_init">>, <<"complete">>}
       \/ t = Terminal /\ E = {<<"prepare">>, <<"global_finalize">>, <<"complete">>}
       \/ \E r \in Runs :
            /\ t = Run(r)
            /\ E = {<<"prepare">>, <<"tl_init">>, <<"run">>, <<"notify">>, <<"complete">>}
       \/ \E v \in Workers :
            t = Finalizer(v) /\ E = {<<"prepare">>, <<"tl_finalize">>, <<"notify">>, <<"complete">>}
  /\ h[1] = "global_init" => t = Entry /\ E = {<<"global_init">>, <<"complete">>}
  /\ h[1] = "global_finalize" => t = Terminal /\ E = {<<"global_finalize">>, <<"complete">>}
  /\ h[1] = "user_global_finalize" =>
       t = Terminal /\ E = {<<"user_global_finalize">>, <<"complete">>}
  /\ h[1] = "foreign" => t = Foreign /\ E = {<<"foreign">>, <<"complete">>}
  /\ h[1] = "broadcast" => \E j \in shape.broadcasts :
       t = Producer(j) /\ h = <<"broadcast", j>> /\ E = {h, <<"complete">>}
  /\ h[1] = "tl_init" => \E r \in Runs :
       t = Run(r) /\ E = {<<"tl_init">>, <<"run">>, <<"notify">>, <<"complete">>}
  /\ h[1] = "run" => \E r \in Runs : t = Run(r) /\ E = {<<"run">>, <<"notify">>, <<"complete">>}
  /\ h[1] = "notify" => t \in Commands /\ E = {<<"notify">>, <<"complete">>}
  /\ h[1] = "tl_finalize" => \E v \in Workers :
       t = Finalizer(v) /\ E = {<<"tl_finalize">>, <<"notify">>, <<"complete">>}
  /\ h[1] = "user_tl_finalize" => \E v \in Workers :
       t = Finalizer(v) /\ E = {<<"user_tl_finalize">>, <<"notify">>, <<"complete">>}

Heads(t, h, E) == LoopHeads(t, h, E) /\ StraightHeads(t, h, E)

\* The next operation of a command in the making.
LEMMA MakingHeads ==
  ASSUME shape \in Shapes, NEW t \in Loops, NEW k \in 1 .. Turns(t), Makes(t, k),
         NEW m \in Makings(Made(t, k)), NEW E,
         \A x \in E \ Elements(m) : x[1] \notin {"create", "commit", "depend"},
         Elements(m) \subseteq E
  PROVE  Heads(t, Head(m), E)
  <1> DEFINE c == Made(t, k)
  <1>1. c \in Commands /\ Turns(t) \in Nat
    BY LoopNames
  <1>2. CASE t = Barrier
    <2>1. k - 1 \in Workers /\ c = Finalizer(k - 1)
      BY <1>2, Constants DEF Turns, Made
    <2>2. Makings(c) = {<<<<"create", c>>, <<"depend", c, Terminal>>, <<"commit", c>>>>,
                        <<<<"depend", c, Terminal>>, <<"commit", c>>>>, <<<<"commit", c>>>>}
      BY <2>1 DEF Makings, Spawn, Finalizer
    <2> HIDE DEF c
    <2>3. \A r \in Runs : c # Run(r)
      BY <2>1, Names
    <2>4. CASE m = <<<<"create", c>>, <<"depend", c, Terminal>>, <<"commit", c>>>>
      <3>1. Head(m) = <<"create", c>>
            /\ Elements(m) = {<<"create", c>>, <<"depend", c, Terminal>>, <<"commit", c>>}
        BY <2>4, Literal3, Zenon
      <3> QED BY <3>1, <2>3, <1>1 DEF Heads, LoopHeads, StraightHeads
    <2>5. CASE m = <<<<"depend", c, Terminal>>, <<"commit", c>>>>
      <3>1. Head(m) = <<"depend", c, Terminal>>
            /\ Elements(m) = {<<"depend", c, Terminal>>, <<"commit", c>>}
        BY <2>5, Literals, Zenon
      <3>2. <<"create", c>> \notin E
        BY <3>1
      <3> QED BY <3>1, <3>2, <2>1, <1>1, <1>2 DEF Heads, LoopHeads, StraightHeads
    <2>6. CASE m = <<<<"commit", c>>>>
      <3>1. Head(m) = <<"commit", c>> /\ Elements(m) = {<<"commit", c>>}
        BY <2>6, Literals, Zenon
      <3>2. <<"create", c>> \notin E
        BY <3>1
      <3> QED BY <3>1, <3>2, <1>1 DEF Heads, LoopHeads, StraightHeads
    <2>7. m \in Makings(c)
      BY DEF c
    <2> QED BY <2>2, <2>4, <2>5, <2>6, <2>7
  <1>3. CASE t # Barrier
    <2>1. k \in Runs /\ c = Run(k)
      BY <1>3 DEF Turns, Made, Runs
    <2>2. Makings(c) = {<<<<"create", c>>, <<"depend", Entry, c>>, <<"depend", c, Barrier>>, <<"commit", c>>>>,
                        <<<<"depend", Entry, c>>, <<"depend", c, Barrier>>, <<"commit", c>>>>,
                        <<<<"depend", c, Barrier>>, <<"commit", c>>>>, <<<<"commit", c>>>>}
      BY <2>1 DEF Makings, Spawn, Run
    <2> HIDE DEF c
    <2>3. \A v \in Workers : c # Finalizer(v)
      BY <2>1, Names
    <2>4. CASE m = <<<<"create", c>>, <<"depend", Entry, c>>, <<"depend", c, Barrier>>, <<"commit", c>>>>
      <3>1. Head(m) = <<"create", c>>
            /\ Elements(m) = {<<"create", c>>, <<"depend", Entry, c>>, <<"depend", c, Barrier>>, <<"commit", c>>}
        BY <2>4, Literal4, Zenon
      <3> QED BY <3>1, <2>3, <1>1 DEF Heads, LoopHeads, StraightHeads
    <2>5. CASE m = <<<<"depend", Entry, c>>, <<"depend", c, Barrier>>, <<"commit", c>>>>
      <3>1. Head(m) = <<"depend", Entry, c>>
            /\ Elements(m) = {<<"depend", Entry, c>>, <<"depend", c, Barrier>>, <<"commit", c>>}
        BY <2>5, Literal3, Zenon
      <3>2. <<"create", c>> \notin E
        BY <3>1
      <3> QED BY <3>1, <3>2, <2>1, <1>1 DEF Heads, LoopHeads, StraightHeads
    <2>6. CASE m = <<<<"depend", c, Barrier>>, <<"commit", c>>>>
      <3>1. Head(m) = <<"depend", c, Barrier>>
            /\ Elements(m) = {<<"depend", c, Barrier>>, <<"commit", c>>}
        BY <2>6, Literals, Zenon
      <3>2. <<"create", c>> \notin E
        BY <3>1
      <3> QED BY <3>1, <3>2, <2>1, <1>1, <1>3 DEF Heads, LoopHeads, StraightHeads
    <2>7. CASE m = <<<<"commit", c>>>>
      <3>1. Head(m) = <<"commit", c>> /\ Elements(m) = {<<"commit", c>>}
        BY <2>7, Literals, Zenon
      <3>2. <<"create", c>> \notin E
        BY <3>1
      <3> QED BY <3>1, <3>2, <1>1 DEF Heads, LoopHeads, StraightHeads
    <2>8. m \in Makings(c)
      BY DEF c
    <2> QED BY <2>2, <2>4, <2>5, <2>6, <2>7, <2>8
  <1> QED BY <1>2, <1>3

\* What the next operation of a script says about the rest, for a loop, ...
LEMMA HeadsOfLoop ==
  ASSUME shape \in Shapes, NEW t, NEW s, InLoop(t, s)
  PROVE  Heads(t, Head(s), Elements(s))
  <1>1. t \in Loops /\ Turns(t) \in Nat
    BY LoopForms, LoopNames
  <1>2. CASE s = <<<<"complete">>>>
    <2>1. Head(s) = <<"complete">> /\ Elements(s) = {<<"complete">>}
      BY <1>2, Literals, Zenon
    <2> QED BY <2>1 DEF Heads, LoopHeads, StraightHeads
  <1>3. CASE s # <<<<"complete">>>>
    <2>1. PICK k \in 1 .. Turns(t) :
            /\ t = Entry => \A r \in Runs : Needs(r) = {}
            /\ \/ s = <<Turn(t, k)>> \o Agenda(t, k)
               \/ t \notin {Entry, Barrier} /\ Makes(t, k) /\ s = <<<<"count", k>>>> \o Agenda(t, k)
               \/ Makes(t, k) /\ \E m \in Makings(Made(t, k)) : s = m \o Agenda(t, k)
      BY <1>3, LoopForms
    <2>2. k \in 0 .. Turns(t)
      BY <1>1
    <2>3. /\ Agenda(t, k) \in Seq(Ops)
          /\ Elements(Agenda(t, k)) = {Turn(t, i) : i \in k + 1 .. Turns(t)} \cup {<<"complete">>}
      BY <1>1, <2>2, AgendaFacts
    <2>4. Turn(t, k) \in Ops
      BY <1>1, LoopNames
    <2>5. \A i : Turn(t, i)[1] = IF t = Entry THEN "spawn" ELSE IF t = Barrier THEN "finalizer" ELSE "store"
      BY DEF Turn
    <2>6. CASE s = <<Turn(t, k)>> \o Agenda(t, k)
      <3>1. Head(s) = Turn(t, k) /\ Elements(s) = {Turn(t, k)} \cup Elements(Agenda(t, k))
        BY <2>3, <2>4, <2>6, Cons
      <3>2. \A x \in Elements(s) : x = <<"complete">> \/ \E i : x = Turn(t, i)
        BY <3>1, <2>3
      <3>3. CASE t = Entry
        <4>1. k \in Runs /\ Head(s) = <<"spawn", k>> /\ Needs(k) = {}
          BY <3>1, <3>3, <2>1, Names DEF Turn, Turns, Runs
        <4>2. \A x \in Elements(s) : x[1] \in {"spawn", "complete"}
          BY <3>2, <3>3, <2>5
        <4> QED BY <4>1, <4>2, <3>3 DEF Heads, LoopHeads, StraightHeads
      <3>4. CASE t = Barrier
        <4>1. k - 1 \in Workers /\ Head(s) = <<"finalizer", k - 1>>
          BY <3>1, <3>4, Constants, Names DEF Turn, Turns
        <4>2. \A x \in Elements(s) : x[1] \in {"finalizer", "complete"}
          BY <3>2, <3>4, <2>5, Names
        <4> QED BY <4>1, <4>2, <3>4 DEF Heads, LoopHeads, StraightHeads
      <3>5. CASE t \notin {Entry, Barrier}
        <4>1. PICK j \in DataPorts : t = Producer(j)
          BY <3>5, <1>1 DEF Loops
        <4>2. k \in Runs /\ Head(s) = <<"store", k, j>>
          BY <3>1, <3>5, <4>1 DEF Turn, Turns, Runs, Producer
        <4>3. \A x \in Elements(s) : x[1] \in {"store", "complete"}
          BY <3>2, <3>5, <2>5
        <4> QED BY <4>1, <4>2, <4>3 DEF Heads, LoopHeads, StraightHeads
      <3> QED BY <3>3, <3>4, <3>5
    <2>7. CASE t \notin {Entry, Barrier} /\ Makes(t, k) /\ s = <<<<"count", k>>>> \o Agenda(t, k)
      <3>1. k \in Runs
        BY <2>7 DEF Turns, Runs
      <3>2. PICK j \in Needs(k) : t = Producer(j)
        BY <2>7 DEF Makes
      <3>3. Head(s) = <<"count", k>> /\ Elements(s) = {<<"count", k>>} \cup Elements(Agenda(t, k))
        <4>1. <<"count", k>> \in Ops
          BY <3>1 DEF Ops
        <4> QED BY <4>1, <2>3, <2>7, Cons
      <3>4. \A x \in Elements(s) : x = Head(s) \/ x[1] \in {"store", "complete"}
        BY <3>3, <2>3, <2>5, <2>7
      <3>5. <<"store", k, j>> \notin Elements(s)
        <4>1. \A i : Turn(t, i) = <<"store", i, j>>
          BY <2>7, <3>2 DEF Turn, Producer
        <4> QED BY <4>1, <3>3, <2>3, <1>1
      <3> QED BY <3>1, <3>2, <3>3, <3>4, <3>5 DEF Heads, LoopHeads, StraightHeads
    <2>8. CASE Makes(t, k) /\ \E m \in Makings(Made(t, k)) : s = m \o Agenda(t, k)
      <3>1. PICK m \in Makings(Made(t, k)) : s = m \o Agenda(t, k)
        BY <2>8
      <3>2. m \in Seq(Ops) /\ m # <<>>
        BY <1>1, LoopNames, MakingSteps
      <3>3. Head(s) = Head(m) /\ Elements(s) = Elements(m) \cup Elements(Agenda(t, k))
        BY <3>1, <3>2, <2>3, Before
      <3>4. \A x \in Elements(Agenda(t, k)) : x[1] \notin {"create", "commit", "depend"}
        BY <2>3, <2>5
      <3> QED BY <3>3, <3>4, <1>1, <2>8, MakingHeads
    <2> QED BY <2>1, <2>6, <2>7, <2>8
  <1> QED BY <1>2, <1>3

\* ... for a task without a loop, ...
LEMMA HeadsOfStraight ==
  ASSUME shape \in Shapes, NEW t, NEW s, Straight(t, s)
  PROVE  Heads(t, Head(s), Elements(s))
  <1>1. CASE s = <<<<"complete">>>>
    <2>1. Head(s) = <<"complete">> /\ Elements(s) = {<<"complete">>}
      BY <1>1, Literals, Zenon
    <2> QED BY <2>1 DEF Heads, LoopHeads, StraightHeads
  <1>2. CASE t = Entry /\ s = <<<<"prepare">>, <<"global_init">>, <<"complete">>>>
    <2>1. Head(s) = <<"prepare">> /\ Elements(s) = {<<"prepare">>, <<"global_init">>, <<"complete">>}
      BY <1>2, Literal3, Zenon
    <2> QED BY <2>1, <1>2 DEF Heads, LoopHeads, StraightHeads
  <1>3. CASE t = Entry /\ s = <<<<"global_init">>, <<"complete">>>>
    <2>1. Head(s) = <<"global_init">> /\ Elements(s) = {<<"global_init">>, <<"complete">>}
      BY <1>3, Literals, Zenon
    <2> QED BY <2>1, <1>3 DEF Heads, LoopHeads, StraightHeads
  <1>4. CASE t = Terminal /\ s = <<<<"prepare">>, <<"global_finalize">>, <<"complete">>>>
    <2>1. Head(s) = <<"prepare">> /\ Elements(s) = {<<"prepare">>, <<"global_finalize">>, <<"complete">>}
      BY <1>4, Literal3, Zenon
    <2> QED BY <2>1, <1>4 DEF Heads, LoopHeads, StraightHeads
  <1>5. CASE t = Terminal /\ s = <<<<"global_finalize">>, <<"complete">>>>
    <2>1. Head(s) = <<"global_finalize">> /\ Elements(s) = {<<"global_finalize">>, <<"complete">>}
      BY <1>5, Literals, Zenon
    <2> QED BY <2>1, <1>5 DEF Heads, LoopHeads, StraightHeads
  <1>6. CASE t = Terminal /\ s = <<<<"user_global_finalize">>, <<"complete">>>>
    <2>1. Head(s) = <<"user_global_finalize">> /\ Elements(s) = {<<"user_global_finalize">>, <<"complete">>}
      BY <1>6, Literals, Zenon
    <2> QED BY <2>1, <1>6 DEF Heads, LoopHeads, StraightHeads
  <1>7. CASE t = Foreign /\ s = <<<<"foreign">>, <<"complete">>>>
    <2>1. Head(s) = <<"foreign">> /\ Elements(s) = {<<"foreign">>, <<"complete">>}
      BY <1>7, Literals, Zenon
    <2> QED BY <2>1, <1>7 DEF Heads, LoopHeads, StraightHeads
  <1>8. ASSUME NEW j \in shape.broadcasts, t = Producer(j), s = <<<<"broadcast", j>>, <<"complete">>>>
        PROVE  Heads(t, Head(s), Elements(s))
    <2>1. Head(s) = <<"broadcast", j>> /\ Elements(s) = {<<"broadcast", j>>, <<"complete">>}
      BY <1>8, Literals, Zenon
    <2> QED BY <2>1, <1>8 DEF Heads, LoopHeads, StraightHeads
  <1>9. ASSUME NEW r \in Runs, t = Run(r),
               s = <<<<"prepare">>, <<"tl_init">>, <<"run">>, <<"notify">>, <<"complete">>>>
        PROVE  Heads(t, Head(s), Elements(s))
    <2>1. Head(s) = <<"prepare">>
          /\ Elements(s) = {<<"prepare">>, <<"tl_init">>, <<"run">>, <<"notify">>, <<"complete">>}
      BY <1>9, Literal5
    <2> QED BY <2>1, <1>9 DEF Heads, LoopHeads, StraightHeads
  <1>10. ASSUME NEW r \in Runs, t = Run(r),
                s = <<<<"tl_init">>, <<"run">>, <<"notify">>, <<"complete">>>>
         PROVE  Heads(t, Head(s), Elements(s))
    <2>1. Head(s) = <<"tl_init">>
          /\ Elements(s) = {<<"tl_init">>, <<"run">>, <<"notify">>, <<"complete">>}
      BY <1>10, Literal4, Zenon
    <2> QED BY <2>1, <1>10 DEF Heads, LoopHeads, StraightHeads
  <1>11. ASSUME NEW r \in Runs, t = Run(r), s = <<<<"run">>, <<"notify">>, <<"complete">>>>
         PROVE  Heads(t, Head(s), Elements(s))
    <2>1. Head(s) = <<"run">> /\ Elements(s) = {<<"run">>, <<"notify">>, <<"complete">>}
      BY <1>11, Literal3, Zenon
    <2> QED BY <2>1, <1>11 DEF Heads, LoopHeads, StraightHeads
  <1>12. ASSUME t \in Commands, s = <<<<"notify">>, <<"complete">>>>
         PROVE  Heads(t, Head(s), Elements(s))
    <2>1. Head(s) = <<"notify">> /\ Elements(s) = {<<"notify">>, <<"complete">>}
      BY <1>12, Literals, Zenon
    <2> QED BY <2>1, <1>12 DEF Heads, LoopHeads, StraightHeads
  <1>13. ASSUME NEW v \in Workers, t = Finalizer(v),
                s = <<<<"prepare">>, <<"tl_finalize">>, <<"notify">>, <<"complete">>>>
         PROVE  Heads(t, Head(s), Elements(s))
    <2>1. Head(s) = <<"prepare">>
          /\ Elements(s) = {<<"prepare">>, <<"tl_finalize">>, <<"notify">>, <<"complete">>}
      BY <1>13, Literal4, Zenon
    <2> QED BY <2>1, <1>13 DEF Heads, LoopHeads, StraightHeads
  <1>14. ASSUME NEW v \in Workers, t = Finalizer(v),
                s = <<<<"tl_finalize">>, <<"notify">>, <<"complete">>>>
         PROVE  Heads(t, Head(s), Elements(s))
    <2>1. Head(s) = <<"tl_finalize">> /\ Elements(s) = {<<"tl_finalize">>, <<"notify">>, <<"complete">>}
      BY <1>14, Literal3, Zenon
    <2> QED BY <2>1, <1>14 DEF Heads, LoopHeads, StraightHeads
  <1>15. ASSUME NEW v \in Workers, t = Finalizer(v),
                s = <<<<"user_tl_finalize">>, <<"notify">>, <<"complete">>>>
         PROVE  Heads(t, Head(s), Elements(s))
    <2>1. Head(s) = <<"user_tl_finalize">>
          /\ Elements(s) = {<<"user_tl_finalize">>, <<"notify">>, <<"complete">>}
      BY <1>15, Literal3, Zenon
    <2> QED BY <2>1, <1>15 DEF Heads, LoopHeads, StraightHeads
  <1>16. \A r \in Runs, v \in Workers : Run(r) \in Commands /\ Finalizer(v) \in Commands
    BY Names
  <1>17. /\ \A r \in Runs : Run(r) \in Commands
         /\ \A v \in Workers : Finalizer(v) \in Commands
    BY Names
  <1> QED
    BY <1>1, <1>2, <1>3, <1>4, <1>5, <1>6, <1>7, <1>8, <1>9, <1>10, <1>11, <1>12, <1>13, <1>14,
       <1>15, <1>17, StraightForms

\* ... and for every task.
LEMMA HeadsOfForm ==
  ASSUME shape \in Shapes, NEW t, NEW s, Form(t, s)
  PROVE  Heads(t, Head(s), Elements(s))
  BY HeadsOfLoop, HeadsOfStraight DEF Form

\* A task without a loop makes no command.
LEMMA StraightHeadNames ==
  ASSUME shape \in Shapes, NEW t, NEW s, Straight(t, s)
  PROVE  Head(s)[1] \notin {"spawn", "finalizer", "store", "count", "create", "depend", "commit"}
  <1> DEFINE Named(z) == Head(z)[1] \in
        {"prepare", "global_init", "tl_init", "run", "notify", "complete", "tl_finalize",
         "user_tl_finalize", "global_finalize", "user_global_finalize", "foreign", "broadcast"}
  <1>1. /\ Named(<<<<"complete">>>>)
        /\ Named(<<<<"global_init">>, <<"complete">>>>)
        /\ Named(<<<<"global_finalize">>, <<"complete">>>>)
        /\ Named(<<<<"user_global_finalize">>, <<"complete">>>>)
        /\ Named(<<<<"foreign">>, <<"complete">>>>)
        /\ Named(<<<<"notify">>, <<"complete">>>>)
        /\ \A j : Named(<<<<"broadcast", j>>, <<"complete">>>>)
    OBVIOUS
  <1>2. /\ Named(<<<<"prepare">>, <<"global_init">>, <<"complete">>>>)
        /\ Named(<<<<"prepare">>, <<"global_finalize">>, <<"complete">>>>)
        /\ Named(<<<<"run">>, <<"notify">>, <<"complete">>>>)
        /\ Named(<<<<"tl_finalize">>, <<"notify">>, <<"complete">>>>)
        /\ Named(<<<<"user_tl_finalize">>, <<"notify">>, <<"complete">>>>)
    OBVIOUS
  <1>3. /\ Named(<<<<"tl_init">>, <<"run">>, <<"notify">>, <<"complete">>>>)
        /\ Named(<<<<"prepare">>, <<"tl_finalize">>, <<"notify">>, <<"complete">>>>)
        /\ Named(<<<<"prepare">>, <<"tl_init">>, <<"run">>, <<"notify">>, <<"complete">>>>)
    OBVIOUS
  <1>4. Named(s)
    <2> HIDE DEF Named
    <2>1. CASE t = Entry /\ s \in {<<<<"prepare">>, <<"global_init">>, <<"complete">>>>,
                                   <<<<"global_init">>, <<"complete">>>>}
      BY <2>1, <1>1, <1>2, Zenon
    <2>2. CASE t = Terminal /\ s \in {<<<<"prepare">>, <<"global_finalize">>, <<"complete">>>>,
                                      <<<<"global_finalize">>, <<"complete">>>>,
                                      <<<<"user_global_finalize">>, <<"complete">>>>, <<<<"complete">>>>}
      BY <2>2, <1>1, <1>2, Zenon
    <2>3. CASE t = Foreign /\ s \in {<<<<"foreign">>, <<"complete">>>>, <<<<"complete">>>>}
      BY <2>3, <1>1, Zenon
    <2>4. ASSUME NEW j \in shape.broadcasts,
                 s \in {<<<<"broadcast", j>>, <<"complete">>>>, <<<<"complete">>>>}
          PROVE  Named(s)
      BY <2>4, <1>1, Zenon
    <2>5. CASE s \in {<<<<"prepare">>, <<"tl_init">>, <<"run">>, <<"notify">>, <<"complete">>>>,
                      <<<<"tl_init">>, <<"run">>, <<"notify">>, <<"complete">>>>,
                      <<<<"run">>, <<"notify">>, <<"complete">>>>,
                      <<<<"notify">>, <<"complete">>>>, <<<<"complete">>>>}
      BY <2>5, <1>1, <1>2, <1>3, Zenon
    <2>6. CASE s \in {<<<<"prepare">>, <<"tl_finalize">>, <<"notify">>, <<"complete">>>>,
                      <<<<"tl_finalize">>, <<"notify">>, <<"complete">>>>,
                      <<<<"user_tl_finalize">>, <<"notify">>, <<"complete">>>>,
                      <<<<"notify">>, <<"complete">>>>, <<<<"complete">>>>}
      BY <2>6, <1>1, <1>2, <1>3, Zenon
    <2> QED BY <2>1, <2>2, <2>3, <2>4, <2>5, <2>6, StraightForms
  <1> QED BY <1>4

\* A turn that begins, or that counts: what is left after it.
LEMMA TurnForms ==
  ASSUME shape \in Shapes, NEW t, NEW s, Form(t, s),
         Head(s)[1] \in {"spawn", "finalizer", "store", "count"}
  PROVE  /\ t \in Loops
         /\ \E k \in 1 .. Turns(t) :
              /\ t = Entry => \A r \in Runs : Needs(r) = {}
              /\ Tail(s) = Agenda(t, k)
              /\ \/ Head(s) = Turn(t, k)
                 \/ Head(s) = <<"count", k>> /\ t \notin {Entry, Barrier} /\ Makes(t, k)
  <1>1. InLoop(t, s)
    BY StraightHeadNames DEF Form
  <1>2. t \in Loops /\ Turns(t) \in Nat
    BY <1>1, LoopForms, LoopNames
  <1>3. s # <<<<"complete">>>>
    <2> SUFFICES ASSUME s = <<<<"complete">>>>
                 PROVE  FALSE
      OBVIOUS
    <2>1. Head(s) = <<"complete">>
      BY Literals, Zenon
    <2> QED BY <2>1
  <1>4. PICK k \in 1 .. Turns(t) :
          /\ t = Entry => \A r \in Runs : Needs(r) = {}
          /\ \/ s = <<Turn(t, k)>> \o Agenda(t, k)
             \/ t \notin {Entry, Barrier} /\ Makes(t, k) /\ s = <<<<"count", k>>>> \o Agenda(t, k)
             \/ Makes(t, k) /\ \E m \in Makings(Made(t, k)) : s = m \o Agenda(t, k)
    BY <1>1, <1>3, LoopForms
  <1>5. k \in 0 .. Turns(t)
    BY <1>2
  <1>6. Agenda(t, k) \in Seq(Ops) /\ Turn(t, k) \in Ops
        /\ (t \notin {Entry, Barrier} => <<"count", k>> \in Ops)
    <2>1. Agenda(t, k) \in Seq(Ops)
      BY <1>2, <1>5, AgendaFacts
    <2>2. Turn(t, k) \in Ops
      BY <1>2, LoopNames
    <2>3. t \notin {Entry, Barrier} => <<"count", k>> \in Ops
      BY DEF Ops, Turns, Runs
    <2> QED BY <2>1, <2>2, <2>3
  <1>7. CASE s = <<Turn(t, k)>> \o Agenda(t, k)
    <2>1. Head(s) = Turn(t, k) /\ Tail(s) = Agenda(t, k)
      BY <1>6, <1>7, Cons
    <2> QED BY <2>1, <1>2, <1>4
  <1>8. CASE t \notin {Entry, Barrier} /\ Makes(t, k) /\ s = <<<<"count", k>>>> \o Agenda(t, k)
    <2>1. Head(s) = <<"count", k>> /\ Tail(s) = Agenda(t, k)
      BY <1>6, <1>8, Cons
    <2> QED BY <2>1, <1>2, <1>4, <1>8
  <1>9. ASSUME NEW m \in Makings(Made(t, k)), s = m \o Agenda(t, k)
        PROVE  FALSE
    <2>1. Made(t, k) \in Commands
      BY <1>2, LoopNames
    <2>2. m \in Seq(Ops) /\ m # <<>> /\ Head(m)[1] \in {"create", "depend", "commit"}
      BY <2>1, MakingSteps
    <2>3. Head(s) = Head(m)
      BY <1>6, <1>9, <2>2, Before
    <2> QED BY <2>2, <2>3
  <1> QED BY <1>4, <1>7, <1>8, <1>9

\* A producer that has stored a fragment counts it.
LEMMA PushCount ==
  ASSUME shape \in Shapes, NEW t, NEW s, Form(t, s), NEW r \in Runs, NEW j \in Needs(r),
         Head(s) = <<"store", r, j>>
  PROVE  /\ Form(t, <<<<"count", r>>>> \o Tail(s))
         /\ <<<<"count", r>>>> \o Tail(s) \in Seq(Ops)
         /\ Elements(<<<<"count", r>>>> \o Tail(s)) = {<<"count", r>>} \cup Elements(Tail(s))
  <1>1. Head(s)[1] = "store"
    OBVIOUS
  <1>2. t \in Loops
    BY <1>1, TurnForms
  <1>3. PICK k \in 1 .. Turns(t) :
          /\ t = Entry => \A q \in Runs : Needs(q) = {}
          /\ Tail(s) = Agenda(t, k)
          /\ \/ Head(s) = Turn(t, k)
             \/ Head(s) = <<"count", k>> /\ t \notin {Entry, Barrier} /\ Makes(t, k)
    BY <1>1, TurnForms
  <1>4. Head(s) = Turn(t, k)
    BY <1>1, <1>3
  <1>5. t \notin {Entry, Barrier}
    BY <1>1, <1>4, Names DEF Turn
  <1>6. PICK i \in DataPorts : t = Producer(i)
    BY <1>2, <1>5 DEF Loops
  <1>7. k = r /\ i = j
    BY <1>4, <1>5, <1>6 DEF Turn, Producer
  <1>8. Makes(t, k) /\ k \in 0 .. Turns(t) /\ k > 0
    BY <1>2, <1>6, <1>7, LoopNames DEF Makes
  <1>9. InLoop(t, <<<<"count", k>>>> \o Agenda(t, k))
    BY <1>2, <1>3, <1>5, <1>8, LoopScripts
  <1>10. Agenda(t, k) \in Seq(Ops) /\ <<"count", r>> \in Ops
    <2>1. Agenda(t, k) \in Seq(Ops)
      BY <1>2, <1>8, AgendaFacts
    <2>2. <<"count", r>> \in Ops
      BY DEF Ops
    <2> QED BY <2>1, <2>2
  <1>11. Form(t, <<<<"count", r>>>> \o Tail(s))
    BY <1>3, <1>7, <1>9 DEF Form
  <1>12. Tail(s) \in Seq(Ops) /\ <<"count", r>> \in Ops
    BY <1>3, <1>10
  <1>13. \A x \in Ops : \A z \in Seq(Ops) :
           <<x>> \o z \in Seq(Ops) /\ Elements(<<x>> \o z) = {x} \cup Elements(z)
    BY Cons
  <1> QED BY <1>11, <1>12, <1>13, Zenon

\* A turn makes its command.
LEMMA PushMaking ==
  ASSUME shape \in Shapes, NEW t \in Loops, NEW k \in 1 .. Turns(t), Makes(t, k),
         t = Entry => \A r \in Runs : Needs(r) = {}, NEW c \in Commands, c = Made(t, k)
  PROVE  /\ Form(t, Spawn(c) \o Agenda(t, k)) /\ Spawn(c) \o Agenda(t, k) \in Seq(Ops)
         /\ Elements(Spawn(c) \o Agenda(t, k)) = Elements(Spawn(c)) \cup Elements(Agenda(t, k))
  <1>1. k \in 0 .. Turns(t) /\ k > 0
    BY LoopNames
  <1>2. Spawn(c) \in Makings(c)
    BY DEF Makings
  <1>3. Spawn(c) \in Seq(Ops)
    BY <1>2, MakingSteps
  <1>4. Agenda(t, k) \in Seq(Ops)
    BY <1>1, AgendaFacts
  <1>5. InLoop(t, Spawn(c) \o Agenda(t, k))
    BY <1>1, <1>2, LoopScripts
  <1> QED BY <1>3, <1>4, <1>5, Before DEF Form

SpawnOps(c) ==
  {<<"create", c>>, <<"commit", c>>} \cup
  (IF c[1] = "run" THEN {<<"depend", Entry, c>>, <<"depend", c, Barrier>>}
   ELSE {<<"depend", c, Terminal>>})

\* What spawn_command does, in this order.
LEMMA SpawnElements ==
  ASSUME NEW c
  PROVE  Elements(Spawn(c)) = SpawnOps(c)
  <1>1. CASE c[1] = "run"
    <2>1. Spawn(c) = <<<<"create", c>>, <<"depend", Entry, c>>, <<"depend", c, Barrier>>, <<"commit", c>>>>
      BY <1>1 DEF Spawn
    <2>2. Elements(Spawn(c)) = {<<"create", c>>, <<"depend", Entry, c>>, <<"depend", c, Barrier>>, <<"commit", c>>}
      BY <2>1, Literal4
    <2> QED BY <2>2, <1>1 DEF SpawnOps
  <1>2. CASE c[1] # "run"
    <2>1. Spawn(c) = <<<<"create", c>>, <<"depend", c, Terminal>>, <<"commit", c>>>>
      BY <1>2 DEF Spawn
    <2>2. Elements(Spawn(c)) = {<<"create", c>>, <<"depend", c, Terminal>>, <<"commit", c>>}
      BY <2>1, Literal3, Zenon
    <2> QED BY <2>2, <1>2 DEF SpawnOps
  <1> QED BY <1>1, <1>2

\* A turn that makes a run leaves a script of the same form.
LEMMA PushRun ==
  ASSUME shape \in Shapes, NEW t, NEW s, Form(t, s), NEW r \in Runs,
         Head(s) = <<"spawn", r>> \/ Head(s) = <<"count", r>>
  PROVE  /\ Form(t, Spawn(Run(r)) \o Tail(s)) /\ Spawn(Run(r)) \o Tail(s) \in Seq(Ops)
         /\ Elements(Spawn(Run(r)) \o Tail(s)) = SpawnOps(Run(r)) \cup Elements(Tail(s))
  <1>1. Head(s)[1] \in {"spawn", "count"}
    OBVIOUS
  <1>2. t \in Loops
    BY <1>1, TurnForms
  <1>3. PICK k \in 1 .. Turns(t) :
          /\ t = Entry => \A q \in Runs : Needs(q) = {}
          /\ Tail(s) = Agenda(t, k)
          /\ \/ Head(s) = Turn(t, k)
             \/ Head(s) = <<"count", k>> /\ t \notin {Entry, Barrier} /\ Makes(t, k)
    BY <1>1, TurnForms
  <1>4. k = r /\ t # Barrier /\ Makes(t, k)
    <2>1. CASE Head(s) = <<"spawn", r>>
      <3>1. Head(s) = Turn(t, k) /\ t = Entry
        BY <2>1, <1>3, Names DEF Turn
      <3>2. k = r /\ Needs(r) = {}
        BY <2>1, <3>1, <1>3 DEF Turn
      <3> QED BY <3>1, <3>2, Names DEF Makes
    <2>2. CASE Head(s) = <<"count", r>>
      <3>1. Head(s) # Turn(t, k)
        BY <2>2 DEF Turn
      <3> QED BY <3>1, <2>2, <1>3
    <2> QED BY <2>1, <2>2
  <1>5. Run(r) = Made(t, k) /\ Run(r) \in Commands
    BY <1>4, Names DEF Made
  <1> QED BY <1>2, <1>3, <1>4, <1>5, PushMaking, SpawnElements

\* So does a turn of the barrier that makes a thread local finalizer.
LEMMA PushFinalizer ==
  ASSUME shape \in Shapes, NEW t, NEW s, Form(t, s), NEW v \in Workers,
         Head(s) = <<"finalizer", v>>
  PROVE  /\ Form(t, Spawn(Finalizer(v)) \o Tail(s)) /\ Spawn(Finalizer(v)) \o Tail(s) \in Seq(Ops)
         /\ Elements(Spawn(Finalizer(v)) \o Tail(s)) = SpawnOps(Finalizer(v)) \cup Elements(Tail(s))
  <1>1. Head(s)[1] = "finalizer"
    OBVIOUS
  <1>2. t \in Loops
    BY <1>1, TurnForms
  <1>3. PICK k \in 1 .. Turns(t) :
          /\ t = Entry => \A q \in Runs : Needs(q) = {}
          /\ Tail(s) = Agenda(t, k)
          /\ \/ Head(s) = Turn(t, k)
             \/ Head(s) = <<"count", k>> /\ t \notin {Entry, Barrier} /\ Makes(t, k)
    BY <1>1, TurnForms
  <1>4. t = Barrier /\ v = k - 1 /\ Makes(t, k)
    <2>1. Head(s) = Turn(t, k)
      BY <1>1, <1>3
    <2>2. t = Barrier
      BY <1>1, <2>1 DEF Turn
    <2> QED BY <2>1, <2>2, Names DEF Turn, Makes
  <1>5. Finalizer(v) = Made(t, k) /\ Finalizer(v) \in Commands
    BY <1>4, Names DEF Made
  <1>6. /\ Form(t, Spawn(Finalizer(v)) \o Agenda(t, k))
        /\ Spawn(Finalizer(v)) \o Agenda(t, k) \in Seq(Ops)
        /\ Elements(Spawn(Finalizer(v)) \o Agenda(t, k)) =
             Elements(Spawn(Finalizer(v))) \cup Elements(Agenda(t, k))
    BY <1>2, <1>3, <1>4, <1>5, PushMaking
  <1> QED BY <1>3, <1>6, SpawnElements

\* Forms depend on the shape of the processor only.
LEMMA FormStable ==
  ASSUME NEW w, shape' = shape, Form(task'[w], script'[w])
  PROVE  Form(task[w], script[w])'
  <1>1. /\ \A r : Needs(r)' = Needs(r)
        /\ DataPorts' = DataPorts
    BY DEF Needs, DataPorts
  <1>2. Loops' = Loops /\ \A t, k : Makes(t, k)' = Makes(t, k)
    BY <1>1 DEF Loops, Makes
  <1>3. \A t, k : Prefixes(t, k)' = Prefixes(t, k)
    BY <1>2 DEF Prefixes
  <1> QED BY <1>1, <1>2, <1>3 DEF Form, InLoop, Straight
\* Until it is committed, a command has its commit ahead of it.
LEMMA MakingMembers ==
  ASSUME NEW c \in Commands, NEW m \in Makings(c)
  PROVE  <<"commit", c>> \in Elements(m) /\ Elements(m) \subseteq SpawnOps(c)
  <1> DEFINE a == <<"create", c>>
             b == <<"depend", Entry, c>>
             d == <<"depend", c, Barrier>>
             e == <<"depend", c, Terminal>>
             f == <<"commit", c>>
  <1>1. c[1] = "run" => m \in {<<a, b, d, f>>, <<b, d, f>>, <<d, f>>, <<f>>}
    BY DEF Makings, Spawn
  <1>2. c[1] # "run" => m \in {<<a, e, f>>, <<e, f>>, <<f>>}
    BY DEF Makings, Spawn
  <1>3. SpawnOps(c) = IF c[1] = "run" THEN {a, f, b, d} ELSE {a, f, e}
    BY DEF SpawnOps
  <1> HIDE DEF a, b, d, e, f
  <1>4. f \in Elements(m) /\ Elements(m) \subseteq SpawnOps(c)
    BY <1>1, <1>2, <1>3, Literals
  <1> QED BY <1>4 DEF f

\* What the operations left to a task say about it.
Members(t, E) ==
  /\ \A c \in Commands :
       {<<"create", c>>, <<"depend", Entry, c>>, <<"depend", c, Barrier>>,
        <<"depend", c, Terminal>>} \cap E # {} => <<"commit", c>> \in E
  /\ \A v \in Workers : <<"commit", Finalizer(v)>> \in E => t = Barrier
  /\ <<"user_tl_finalize">> \in E \/ <<"tl_finalize">> \in E => \E v \in Workers : t = Finalizer(v)
  /\ <<"user_global_finalize">> \in E \/ <<"global_finalize">> \in E => t = Terminal
  /\ <<"notify">> \in E => t \in Commands
  /\ <<"global_init">> \in E => t = Entry

\* Which operations a script may hold, for a loop, ...
LEMMA MembersOfLoop ==
  ASSUME shape \in Shapes, NEW t, NEW s, InLoop(t, s)
  PROVE  Members(t, Elements(s))
  <1> DEFINE Loopy == {"spawn", "finalizer", "store", "count", "complete"}
  <1>1. t \in Loops /\ Turns(t) \in Nat
    BY LoopForms, LoopNames
  <1>2. ASSUME \A x \in Elements(s) : x[1] \in Loopy
        PROVE  Members(t, Elements(s))
    BY <1>2 DEF Members
  <1>3. CASE s = <<<<"complete">>>>
    <2>1. Elements(s) = {<<"complete">>}
      BY <1>3, Literals, Zenon
    <2> QED BY <2>1, <1>2
  <1>4. CASE s # <<<<"complete">>>>
    <2>1. PICK k \in 1 .. Turns(t) :
            \/ s = <<Turn(t, k)>> \o Agenda(t, k)
            \/ t \notin {Entry, Barrier} /\ Makes(t, k) /\ s = <<<<"count", k>>>> \o Agenda(t, k)
            \/ Makes(t, k) /\ \E m \in Makings(Made(t, k)) : s = m \o Agenda(t, k)
      BY <1>4, LoopForms
    <2>2. k \in 0 .. Turns(t)
      BY <1>1
    <2>3. Agenda(t, k) \in Seq(Ops) /\ Turn(t, k) \in Ops /\ Turn(t, k)[1] \in Loopy
      BY <1>1, <2>2, AgendaFacts, LoopNames
    <2>4. \A x \in Elements(Agenda(t, k)) : x[1] \in Loopy
      <3>1. Elements(Agenda(t, k)) = {Turn(t, i) : i \in k + 1 .. Turns(t)} \cup {<<"complete">>}
        BY <1>1, <2>2, AgendaFacts
      <3> QED BY <3>1, <1>1, LoopNames
    <2>5. CASE s = <<Turn(t, k)>> \o Agenda(t, k)
      <3>1. Elements(s) = {Turn(t, k)} \cup Elements(Agenda(t, k))
        BY <2>3, <2>5, Cons
      <3> QED BY <3>1, <2>3, <2>4, <1>2
    <2>6. CASE t \notin {Entry, Barrier} /\ s = <<<<"count", k>>>> \o Agenda(t, k)
      <3>1. <<"count", k>> \in Ops
        BY <2>6 DEF Ops, Turns, Runs
      <3>2. Elements(s) = {<<"count", k>>} \cup Elements(Agenda(t, k))
        BY <2>3, <2>6, <3>1, Cons
      <3> QED BY <3>2, <2>4, <1>2
    <2>7. CASE \E m \in Makings(Made(t, k)) : s = m \o Agenda(t, k)
      <3> DEFINE c == Made(t, k)
      <3>1. PICK m \in Makings(c) : s = m \o Agenda(t, k)
        BY <2>7
      <3>2. c \in Commands
        BY <1>1, LoopNames
      <3>3. m \in Seq(Ops) /\ <<"commit", c>> \in Elements(m) /\ Elements(m) \subseteq SpawnOps(c)
        BY <3>2, MakingSteps, MakingMembers
      <3>4. Elements(s) = Elements(m) \cup Elements(Agenda(t, k))
        BY <3>1, <3>3, <2>3, Before
      <3>5. \A x \in Elements(s) : x \in SpawnOps(c) \/ x[1] \in Loopy
        BY <3>3, <3>4, <2>4
      <3>6. \A v \in Workers : c = Finalizer(v) => t = Barrier
        BY Names DEF Made
      <3> HIDE DEF c
      <3>7. \A d \in Commands :
              {<<"create", d>>, <<"depend", Entry, d>>, <<"depend", d, Barrier>>,
               <<"depend", d, Terminal>>} \cap SpawnOps(c) # {} => d = c
        BY <3>2, Names DEF SpawnOps
      <3>8. \A d \in Commands : <<"commit", d>> \in SpawnOps(c) => d = c
        BY DEF SpawnOps
      <3>9. \A x \in SpawnOps(c) : x[1] \in {"create", "commit", "depend"}
        BY DEF SpawnOps
      <3>10. \A d \in Commands :
              {<<"create", d>>, <<"depend", Entry, d>>, <<"depend", d, Barrier>>,
               <<"depend", d, Terminal>>} \cap Elements(s) # {} => <<"commit", d>> \in Elements(s)
        BY <3>3, <3>4, <3>5, <3>7
      <3>11. \A v \in Workers : <<"commit", Finalizer(v)>> \in Elements(s) => t = Barrier
        BY <3>5, <3>6, <3>8, Names
      <3>12. \A x \in Elements(s) : x[1] \notin {"user_tl_finalize", "tl_finalize",
               "user_global_finalize", "global_finalize", "notify", "global_init"}
        BY <3>5, <3>9
      <3> QED BY <3>10, <3>11, <3>12 DEF Members
    <2> QED BY <2>1, <2>5, <2>6, <2>7
  <1> QED BY <1>3, <1>4

\* ... for a task without a loop, ...
LEMMA MembersOfStraight ==
  ASSUME shape \in Shapes, NEW t, NEW s, Straight(t, s)
  PROVE  Members(t, Elements(s))
  <1>1. Head(s) \in Ops /\ Heads(t, Head(s), Elements(s))
    BY PopStraight, HeadsOfStraight DEF Pops
  <1>2. Head(s)[1] \in
        {"prepare", "global_init", "tl_init", "run", "notify", "complete", "tl_finalize",
         "user_tl_finalize", "global_finalize", "user_global_finalize", "foreign", "broadcast"}
    BY <1>1, StraightHeadNames DEF Ops
  <1>3. /\ \A r \in Runs : Run(r) \in Commands
        /\ \A v \in Workers : Finalizer(v) \in Commands
    BY Names
  <1>4. \A x \in Elements(s) : x[1] \notin {"create", "depend", "commit"}
    BY <1>1, <1>2 DEF Heads, LoopHeads, StraightHeads
  <1>5. /\ \A c \in Commands :
             {<<"create", c>>, <<"depend", Entry, c>>, <<"depend", c, Barrier>>,
              <<"depend", c, Terminal>>} \cap Elements(s) # {} => <<"commit", c>> \in Elements(s)
        /\ \A v \in Workers : <<"commit", Finalizer(v)>> \in Elements(s) => t = Barrier
    BY <1>4
  <1>6. <<"user_tl_finalize">> \in Elements(s) \/ <<"tl_finalize">> \in Elements(s) =>
          \E v \in Workers : t = Finalizer(v)
    BY <1>1, <1>2 DEF Heads, LoopHeads, StraightHeads
  <1>7. <<"user_global_finalize">> \in Elements(s) \/ <<"global_finalize">> \in Elements(s) => t = Terminal
    BY <1>1, <1>2 DEF Heads, LoopHeads, StraightHeads
  <1>8. <<"notify">> \in Elements(s) => t \in Commands
    BY <1>1, <1>2, <1>3 DEF Heads, LoopHeads, StraightHeads
  <1>9. <<"global_init">> \in Elements(s) => t = Entry
    BY <1>1, <1>2 DEF Heads, LoopHeads, StraightHeads
  <1> QED BY <1>5, <1>6, <1>7, <1>8, <1>9 DEF Members

\* ... and for every task.
LEMMA MembersOfForm ==
  ASSUME shape \in Shapes, NEW t, NEW s, Form(t, s)
  PROVE  Members(t, Elements(s))
  BY MembersOfLoop, MembersOfStraight DEF Form

\* Short scripts joined.
LEMMA Joins ==
  /\ \A a : <<>> \o <<a>> = <<a>>
  /\ \A a, b : <<a>> \o <<b>> = <<a, b>>
  /\ \A a, b, c : <<a>> \o <<b, c>> = <<a, b, c>> /\ Tail(<<a, b, c>>) = <<b, c>>
  <1>1. \A a : <<>> \o <<a>> = <<a>>
    OBVIOUS
  <1>2. \A S : \A m \in Seq(S) : m # <<>> => m = <<Head(m)>> \o Tail(m)
    OBVIOUS
  <1>3. \A a, b : <<a>> \o <<b>> = <<a, b>>
    <2> TAKE a, b
    <2>1. <<a, b>> \in Seq({a, b})
      OBVIOUS
    <2>2. <<a, b>> # <<>> /\ Head(<<a, b>>) = a /\ Tail(<<a, b>>) = <<b>>
      BY Literals
    <2> DEFINE m == <<a, b>>
    <2>3. m \in Seq({a, b}) /\ m # <<>> /\ Head(m) = a /\ Tail(m) = <<b>>
      BY <2>1, <2>2
    <2> HIDE DEF m
    <2>4. m = <<a>> \o <<b>>
      BY <2>3, <1>2, Zenon
    <2> QED BY <2>4 DEF m
  <1>4. \A a, b, c : Tail(<<a, b, c>>) = <<b, c>>
    BY Literals
  <1>5. \A a, b, c : <<a>> \o <<b, c>> = <<a, b, c>>
    <2> TAKE a, b, c
    <2>1. <<a, b, c>> \in Seq({a, b, c})
      OBVIOUS
    <2>2. <<a, b, c>> # <<>> /\ Head(<<a, b, c>>) = a
      BY Literals
    <2> DEFINE m == <<a, b, c>>
    <2>3. m \in Seq({a, b, c}) /\ m # <<>> /\ Head(m) = a /\ Tail(m) = <<b, c>>
      BY <2>1, <2>2, <1>4
    <2> HIDE DEF m
    <2>4. m = <<a>> \o <<b, c>>
      BY <2>3, <1>2, Zenon
    <2> QED BY <2>4 DEF m
  <1> QED BY <1>1, <1>3, <1>4, <1>5

\* The scripts of the finalizers.
LEMMA FinalizeForms ==
  ASSUME shape \in Shapes, NEW t, NEW s, Form(t, s)
  PROVE  /\ Head(s) = <<"tl_finalize">> =>
              s = <<<<"tl_finalize">>, <<"notify">>, <<"complete">>>>
         /\ Head(s) = <<"global_finalize">> => s = <<<<"global_finalize">>, <<"complete">>>>
         /\ Head(s) = <<"global_init">> => s = <<<<"global_init">>, <<"complete">>>>
  <1> SUFFICES ASSUME Head(s)[1] \in {"tl_finalize", "global_finalize", "global_init"}
               PROVE  s \in {<<<<"tl_finalize">>, <<"notify">>, <<"complete">>>>,
                             <<<<"global_finalize">>, <<"complete">>>>,
                             <<<<"global_init">>, <<"complete">>>>}
    <2>1. /\ Head(<<<<"tl_finalize">>, <<"notify">>, <<"complete">>>>) = <<"tl_finalize">>
          /\ Head(<<<<"global_finalize">>, <<"complete">>>>) = <<"global_finalize">>
          /\ Head(<<<<"global_init">>, <<"complete">>>>) = <<"global_init">>
      OBVIOUS
    <2> QED BY <2>1
  <1>1. Straight(t, s)
    <2>1. ASSUME InLoop(t, s) PROVE FALSE
      <3>1. t \in Loops /\ Heads(t, Head(s), Elements(s))
        BY <2>1, LoopForms, HeadsOfLoop
      <3>2. t = Entry /\ <<"global_init">> \in Elements(s) /\ Head(s) = <<"global_init">>
        <4>1. Head(s) \in Ops
          <5>1. s \in Seq(Ops) /\ s # <<>>
            BY <2>1, PopLoop
          <5> QED BY <5>1
        <4>2. t # Terminal /\ \A v \in Workers : t # Finalizer(v)
          BY <3>1, Names DEF Loops
        <4>3. Head(s)[1] = "global_init"
          BY <3>1, <4>2 DEF Heads, StraightHeads
        <4> QED BY <3>1, <4>1, <4>3 DEF Heads, StraightHeads, Ops
      <3>3. s # <<<<"complete">>>>
        <4>1. s = <<<<"complete">>>> => Head(s) = <<"complete">>
          BY Literals, Zenon
        <4> QED BY <4>1, <3>2
      <3>4. PICK k \in 1 .. Turns(t) :
            /\ \/ s = <<Turn(t, k)>> \o Agenda(t, k)
               \/ t \notin {Entry, Barrier} /\ Makes(t, k) /\ s = <<<<"count", k>>>> \o Agenda(t, k)
               \/ Makes(t, k) /\ \E m \in Makings(Made(t, k)) : s = m \o Agenda(t, k)
        BY <2>1, <3>3, LoopForms
      <3>5. k \in 0 .. Turns(t) /\ Turn(t, k) \in Ops /\ Turn(t, k)[1] # "global_init"
        BY <3>1, LoopNames
      <3>6. Agenda(t, k) \in Seq(Ops)
        BY <3>1, <3>5, AgendaFacts
      <3>7. CASE s = <<Turn(t, k)>> \o Agenda(t, k)
        BY <3>2, <3>5, <3>6, <3>7, Cons
      <3>8. CASE \E m \in Makings(Made(t, k)) : s = m \o Agenda(t, k)
        <4>1. PICK m \in Makings(Made(t, k)) : s = m \o Agenda(t, k)
          BY <3>8
        <4>2. Made(t, k) \in Commands
          BY <3>1, LoopNames
        <4>3. m \in Seq(Ops) /\ m # <<>> /\ Head(m)[1] \in {"create", "depend", "commit"}
          BY <4>2, MakingSteps
        <4>4. Head(s) = Head(m)
          BY <4>1, <4>3, <3>6, Before
        <4> QED BY <4>3, <4>4, <3>2
      <3> QED BY <3>2, <3>4, <3>7, <3>8
    <2> QED BY <2>1 DEF Form
  <1>2. /\ Head(<<<<"complete">>>>)[1] = "complete"
        /\ Head(<<<<"notify">>, <<"complete">>>>)[1] = "notify"
        /\ Head(<<<<"run">>, <<"notify">>, <<"complete">>>>)[1] = "run"
        /\ Head(<<<<"tl_init">>, <<"run">>, <<"notify">>, <<"complete">>>>)[1] = "tl_init"
        /\ Head(<<<<"prepare">>, <<"tl_init">>, <<"run">>, <<"notify">>, <<"complete">>>>)[1] = "prepare"
        /\ Head(<<<<"prepare">>, <<"tl_finalize">>, <<"notify">>, <<"complete">>>>)[1] = "prepare"
        /\ Head(<<<<"user_tl_finalize">>, <<"notify">>, <<"complete">>>>)[1] = "user_tl_finalize"
        /\ Head(<<<<"prepare">>, <<"global_init">>, <<"complete">>>>)[1] = "prepare"
        /\ Head(<<<<"prepare">>, <<"global_finalize">>, <<"complete">>>>)[1] = "prepare"
        /\ Head(<<<<"user_global_finalize">>, <<"complete">>>>)[1] = "user_global_finalize"
        /\ Head(<<<<"foreign">>, <<"complete">>>>)[1] = "foreign"
        /\ \A j : Head(<<<<"broadcast", j>>, <<"complete">>>>)[1] = "broadcast"
    OBVIOUS
  <1> QED BY <1>1, <1>2, StraightForms

\* The callbacks that finalizers push.
LEMMA PushUser ==
  ASSUME shape \in Shapes, NEW t, NEW s, Form(t, s)
  PROVE  /\ Head(s) = <<"tl_finalize">> =>
              /\ Form(t, <<<<"user_tl_finalize">>>> \o Tail(s))
              /\ <<<<"user_tl_finalize">>>> \o Tail(s) \in Seq(Ops)
              /\ Elements(<<<<"user_tl_finalize">>>> \o Tail(s)) =
                   {<<"user_tl_finalize">>} \cup Elements(Tail(s))
         /\ Head(s) = <<"global_finalize">> =>
              /\ Form(t, <<<<"user_global_finalize">>>> \o Tail(s))
              /\ <<<<"user_global_finalize">>>> \o Tail(s) \in Seq(Ops)
              /\ Elements(<<<<"user_global_finalize">>>> \o Tail(s)) =
                   {<<"user_global_finalize">>} \cup Elements(Tail(s))
  <1>1. s \in Seq(Ops) /\ s # <<>> /\ Heads(t, Head(s), Elements(s))
    BY PopForm, HeadsOfForm DEF Pops
  <1>2. Tail(s) \in Seq(Ops)
    BY <1>1
  <1>3. <<"user_tl_finalize">> \in Ops /\ <<"user_global_finalize">> \in Ops
    BY DEF Ops
  <1>4. \A x \in Ops : <<x>> \o Tail(s) \in Seq(Ops)
                       /\ Elements(<<x>> \o Tail(s)) = {x} \cup Elements(Tail(s))
    BY <1>2, Cons
  <1>5. ASSUME Head(s) = <<"tl_finalize">>
        PROVE  Form(t, <<<<"user_tl_finalize">>>> \o Tail(s))
    <2>1. s = <<<<"tl_finalize">>, <<"notify">>, <<"complete">>>>
      BY <1>5, FinalizeForms
    <2>2. <<<<"user_tl_finalize">>>> \o Tail(s) = <<<<"user_tl_finalize">>, <<"notify">>, <<"complete">>>>
      <3> DEFINE a == <<"tl_finalize">>
                 b == <<"notify">>
                 c == <<"complete">>
                 u == <<"user_tl_finalize">>
      <3>1. s = <<a, b, c>>
        BY <2>1
      <3> HIDE DEF a, b, c, u
      <3>2. <<u>> \o Tail(s) = <<u, b, c>>
        BY <3>1, Joins
      <3> QED BY <3>2 DEF u, b, c
    <2>3. \E v \in Workers : t = Finalizer(v)
      BY <1>1, <1>5 DEF Heads, StraightHeads
    <2> QED BY <2>2, <2>3 DEF Form, Straight
  <1>6. ASSUME Head(s) = <<"global_finalize">>
        PROVE  Form(t, <<<<"user_global_finalize">>>> \o Tail(s))
    <2>1. s = <<<<"global_finalize">>, <<"complete">>>>
      BY <1>6, FinalizeForms
    <2>2. <<<<"user_global_finalize">>>> \o Tail(s) = <<<<"user_global_finalize">>, <<"complete">>>>
      <3>1. Tail(s) = <<<<"complete">>>>
        BY <2>1, Literals, Zenon
      <3> QED BY <3>1, Joins, Zenon
    <2>3. t = Terminal
      BY <1>1, <1>6 DEF Heads, StraightHeads
    <2> QED BY <2>2, <2>3 DEF Form, Straight
  <1> QED BY <1>3, <1>4, <1>5, <1>6

\* The entry task goes on with the commands of an input processor.
LEMMA PushEntry ==
  ASSUME shape \in Shapes, NEW t, NEW s, Form(t, s), Head(s) = <<"global_init">>
  PROVE  LET z == [r \in {q \in Runs : Needs(q) = {}} |-> <<"spawn", r>>] \o Tail(s) IN
         /\ Form(t, z) /\ z \in Seq(Ops)
         /\ Elements(z) = {<<"spawn", r>> : r \in {q \in Runs : Needs(q) = {}}} \cup {<<"complete">>}
  <1>1. t = Entry
    BY HeadsOfForm DEF Heads, StraightHeads
  <1>2. Tail(s) = <<<<"complete">>>>
    <2>1. s = <<<<"global_init">>, <<"complete">>>>
      BY FinalizeForms
    <2> QED BY <2>1
  <1>3. Turns(t) = RunCount /\ t \in Loops /\ RunCount \in Nat /\ 0 \in 0 .. Turns(t)
        /\ RunCount \in 0 .. Turns(t)
    BY <1>1, Constants, Names DEF Turns, Loops
  <1>4. CASE \A r \in Runs : Needs(r) = {}
    <2>1. {q \in Runs : Needs(q) = {}} = 1 .. Turns(t)
      BY <1>3, <1>4 DEF Runs
    <2>2. Agenda(t, 0) = [r \in {q \in Runs : Needs(q) = {}} |-> <<"spawn", r>>] \o Tail(s)
      <3>1. [i \in 1 .. Turns(t) - 0 |-> Turn(t, 0 + i)] =
              [r \in {q \in Runs : Needs(q) = {}} |-> <<"spawn", r>>]
        BY <1>1, <1>3, <2>1 DEF Turn
      <3> QED BY <3>1, <1>2 DEF Agenda
    <2>3. InLoop(t, Agenda(t, 0))
      BY <1>3, <1>4, LoopScripts
    <2>4. Agenda(t, 0) \in Seq(Ops)
          /\ Elements(Agenda(t, 0)) = {Turn(t, i) : i \in 0 + 1 .. Turns(t)} \cup {<<"complete">>}
      BY <1>3, AgendaFacts
    <2>5. {Turn(t, i) : i \in 0 + 1 .. Turns(t)} =
            {<<"spawn", r>> : r \in {q \in Runs : Needs(q) = {}}}
      BY <1>1, <2>1 DEF Turn
    <2> QED BY <2>2, <2>3, <2>4, <2>5 DEF Form
  <1>5. CASE \A r \in Runs : Needs(r) # {}
    <2>1. {q \in Runs : Needs(q) = {}} = {}
      BY <1>5
    <2>2. [r \in {q \in Runs : Needs(q) = {}} |-> <<"spawn", r>>] \o Tail(s) = <<<<"complete">>>>
      <3>1. [r \in {q \in Runs : Needs(q) = {}} |-> <<"spawn", r>>] = <<>>
        BY <2>1
      <3> QED BY <3>1, <1>2, Joins, Zenon
    <2>3. Form(t, <<<<"complete">>>>)
      BY <1>3, CompleteForm DEF Form
    <2>4. <<<<"complete">>>> \in Seq(Ops) /\ Elements(<<<<"complete">>>>) = {<<"complete">>}
      <3>1. <<"complete">> \in Ops
        BY DEF Ops
      <3>2. Elements(<<<<"complete">>>>) = {<<"complete">>}
        BY Literals, Zenon
      <3> QED BY <3>1, <3>2
    <2> QED BY <2>1, <2>2, <2>3, <2>4
  <1> QED BY <1>4, <1>5, ShapeFacts

\* The elements of a pair.
LEMMA Literal2 ==
  \A a, b : Elements(<<a, b>>) = {a, b}
  BY Literals

\* What a task that starts has to do.
Fresh(t, E) ==
  /\ \A x \in E : x[1] \notin {"create", "depend", "commit", "count", "user_tl_finalize",
                              "user_global_finalize"}
  /\ t = Entry => <<"global_init">> \in E
  /\ t = Barrier => \A v \in Workers : <<"finalizer", v>> \in E
  /\ t = Terminal => <<"global_finalize">> \in E
  /\ \A j \in DataPorts : t = Producer(j) => \A r \in Runs : <<"store", r, j>> \in E
  /\ \A j \in shape.broadcasts : t = Producer(j) => <<"broadcast", j>> \in E
  /\ \A r \in Runs : t = Run(r) => <<"tl_init">> \in E
  /\ \A v \in Workers : t = Finalizer(v) => <<"tl_finalize">> \in E
  /\ t \in Commands => <<"notify">> \in E

\* Every task starts with a script of its form.
LEMMA BodyForms ==
  ASSUME shape \in Shapes, NEW t \in Initial \cup Commands
  PROVE  Form(t, Body(t)) /\ Body(t) \in Seq(Ops) /\ Fresh(t, Elements(Body(t)))
  <1> USE Names, ShapeFacts
  <1>1. Form(t, Body(t))
    <2>1. CASE t \in Loops \ {Entry}
      <3>1. Turns(t) \in Nat
        BY <2>1, LoopNames
      <3>2. 0 \in 0 .. Turns(t) /\ t # Entry
        BY <3>1, <2>1
      <3>3. InLoop(t, Agenda(t, 0))
        BY <3>2, <2>1, LoopScripts
      <3>4. Body(t) = Agenda(t, 0)
        BY <2>1, LoopBodies DEF Loops
      <3> QED BY <3>3, <3>4 DEF Form
    <2>2. CASE t \in {Entry, Terminal, Foreign} \cup Commands \cup {Producer(j) : j \in shape.broadcasts}
      <3>1. Straight(t, Body(t))
        BY <2>2 DEF Straight, Commands
      <3> QED BY <3>1 DEF Form
    <2> QED BY <2>1, <2>2 DEF Initial, Loops
  <1>2. Body(t) \in Seq(Ops)
    BY <1>1, PopForm DEF Pops
  <1>3. CASE t \in Loops \ {Entry}
    <2>1. Turns(t) \in Nat
      BY <1>3, LoopNames
    <2>2. 0 \in 0 .. Turns(t)
      BY <2>1
    <2>3. Body(t) = Agenda(t, 0)
      BY <1>3, LoopBodies DEF Loops
    <2>4. Elements(Body(t)) = {Turn(t, i) : i \in 0 + 1 .. Turns(t)} \cup {<<"complete">>}
      BY <1>3, <2>2, <2>3, AgendaFacts
    <2>5. \A x \in Elements(Body(t)) : x[1] \in {"spawn", "finalizer", "store", "complete"}
      BY <2>4, <1>3, LoopNames
    <2>6. CASE t = Barrier
      <3>1. ASSUME NEW v \in Workers PROVE <<"finalizer", v>> \in Elements(Body(t))
        <4>1. v + 1 \in 0 + 1 .. Turns(t) /\ Turn(t, v + 1) = <<"finalizer", v + 1 - 1>>
          BY <2>6, Constants DEF Turn, Turns
        <4>2. v + 1 - 1 = v
          BY Constants
        <4> QED BY <4>1, <4>2, <2>4
      <3>2. /\ \A j : t # Producer(j)
            /\ \A r : t # Run(r)
            /\ \A v : t # Finalizer(v)
            /\ t # Entry /\ t # Terminal /\ t \notin Commands
        BY <2>6 DEF Run, Finalizer, Barrier
      <3> QED BY <2>5, <3>1, <3>2, <1>2, <1>1 DEF Fresh
    <2>7. CASE t # Barrier
      <3>1. PICK j \in DataPorts : t = Producer(j)
        BY <2>7, <1>3 DEF Loops
      <3>2. \A r \in Runs : <<"store", r, j>> \in Elements(Body(t))
        <4>1. \A i : Turn(t, i) = <<"store", i, j>>
          BY <3>1 DEF Turn, Producer, Entry, Barrier
        <4>2. 0 + 1 .. Turns(t) = Runs
          BY <2>7, Constants DEF Turns, Runs
        <4> QED BY <4>1, <4>2, <2>4
      <3>3. /\ \A r : t # Run(r)
            /\ \A v : t # Finalizer(v)
            /\ t # Entry /\ t # Terminal /\ t \notin Commands
            /\ \A i \in shape.broadcasts : t # Producer(i)
        BY <3>1 DEF Run, Finalizer, Producer
      <3> QED BY <2>5, <3>1, <3>2, <3>3, <2>7, <1>2, <1>1 DEF Fresh
    <2> QED BY <2>6, <2>7
  <1>4. CASE t = Entry
    <2>1. Elements(Body(t)) = {<<"prepare">>, <<"global_init">>, <<"complete">>}
      BY <1>4, Bodies, Literal3, Zenon
    <2>2. (\A j : t # Producer(j)) /\ (\A r : t # Run(r)) /\ (\A v : t # Finalizer(v))
          /\ t # Barrier /\ t # Terminal /\ t \notin Commands
      BY <1>4 DEF Run, Finalizer, Entry
    <2> QED BY <2>1, <2>2, <1>1, <1>2 DEF Fresh
  <1>5. CASE t = Terminal
    <2>1. Elements(Body(t)) = {<<"prepare">>, <<"global_finalize">>, <<"complete">>}
      BY <1>5, Bodies, Literal3, Zenon
    <2>2. (\A j : t # Producer(j)) /\ (\A r : t # Run(r)) /\ (\A v : t # Finalizer(v))
          /\ t # Barrier /\ t # Entry /\ t \notin Commands
      BY <1>5 DEF Run, Finalizer, Terminal
    <2> QED BY <2>1, <2>2, <1>1, <1>2 DEF Fresh
  <1>6. CASE t = Foreign
    <2>1. Elements(Body(t)) = {<<"foreign">>, <<"complete">>}
      BY <1>6, Bodies, Literal2, Zenon
    <2>2. (\A j : t # Producer(j)) /\ (\A r : t # Run(r)) /\ (\A v : t # Finalizer(v))
          /\ t # Barrier /\ t # Entry /\ t # Terminal /\ t \notin Commands
      BY <1>6 DEF Run, Finalizer, Foreign
    <2> QED BY <2>1, <2>2, <1>1, <1>2 DEF Fresh
  <1>7. ASSUME NEW j \in shape.broadcasts, t = Producer(j)
        PROVE  Fresh(t, Elements(Body(t)))
    <2>1. Elements(Body(t)) = {<<"broadcast", j>>, <<"complete">>}
      <3>1. Body(t) = <<<<"broadcast", j>>, <<"complete">>>>
        BY <1>7, Bodies
      <3> QED BY <3>1, Literal2, Zenon
    <2>2. (\A i : t = Producer(i) => i = j) /\ (\A r : t # Run(r)) /\ (\A v : t # Finalizer(v))
          /\ t # Barrier /\ t # Entry /\ t # Terminal /\ t \notin Commands
      BY <1>7 DEF Run, Finalizer, Producer
    <2>3. j \notin DataPorts
      BY <1>7
    <2> QED BY <2>1, <2>2, <2>3, <1>1, <1>2 DEF Fresh
  <1>8. ASSUME NEW r \in Runs, t = Run(r)
        PROVE  Fresh(t, Elements(Body(t)))
    <2>1. Elements(Body(t)) = {<<"prepare">>, <<"tl_init">>, <<"run">>, <<"notify">>, <<"complete">>}
      <3>1. Body(t) = <<<<"prepare">>, <<"tl_init">>, <<"run">>, <<"notify">>, <<"complete">>>>
        BY <1>8, Bodies, Zenon
      <3> QED BY <3>1, Literal5, SMT
    <2>2. (\A i : t # Producer(i)) /\ (\A v : t # Finalizer(v))
          /\ t # Barrier /\ t # Entry /\ t # Terminal
      BY <1>8 DEF Run, Finalizer
    <2> QED BY <2>1, <2>2, <1>1, <1>2 DEF Fresh
  <1>9. ASSUME NEW u \in Workers, t = Finalizer(u)
        PROVE  Fresh(t, Elements(Body(t)))
    <2>1. Elements(Body(t)) = {<<"prepare">>, <<"tl_finalize">>, <<"notify">>, <<"complete">>}
      <3>1. Body(t) = <<<<"prepare">>, <<"tl_finalize">>, <<"notify">>, <<"complete">>>>
        BY <1>9, Bodies, Zenon
      <3> QED BY <3>1, Literal4, Zenon
    <2>2. (\A i : t # Producer(i)) /\ (\A r : t # Run(r))
          /\ t # Barrier /\ t # Entry /\ t # Terminal
      BY <1>9 DEF Run, Finalizer
    <2> QED BY <2>1, <2>2, <1>1, <1>2 DEF Fresh
  <1>10. \/ t \in Loops \ {Entry} \/ t \in {Entry, Terminal, Foreign}
         \/ \E j \in shape.broadcasts : t = Producer(j)
         \/ \E r \in Runs : t = Run(r)
         \/ \E u \in Workers : t = Finalizer(u)
    BY DEF Initial, Commands, Loops
  <1> QED BY <1>1, <1>2, <1>3, <1>4, <1>5, <1>6, <1>7, <1>8, <1>9, <1>10

-----------------------------------------------------------------------------
(* What the steps do to the scripts.                                       *)

\* What is known of a worker in the middle of a script.
LEMMA OpFacts ==
  ASSUME ProcessTypeOK, ScriptOK, NEW w \in Workers, script[w] # <<>>
  PROVE  /\ Op(w) \in Left(w) /\ Op(w) = Head(script[w]) /\ Op(w) \in Ops
         /\ \/ /\ pc[w] = "run" /\ Form(task[w], script[w])
               /\ Heads(task[w], Op(w), Left(w)) /\ Members(task[w], Left(w))
            \/ /\ pc[w] = "leave" /\ Left(w) = {Op(w)} /\ Rest(w) = <<>>
               /\ Op(w) \in {<<"tl_finalize">>, <<"user_tl_finalize">>} /\ cancelled
  <1>1. /\ pc[w] = "run" \/ pc[w] = "leave"
        /\ pc[w] = "run" => Form(task[w], script[w])
        /\ pc[w] = "leave" => script[w] \in {<<<<"tl_finalize">>>>, <<<<"user_tl_finalize">>>>}
                              /\ cancelled
    BY DEF ScriptOK, Form
  <1>2. Op(w) = Head(script[w]) /\ shape \in Shapes
    BY DEF Op, ProcessTypeOK
  <1>3. CASE pc[w] = "run"
    <2>1. script[w] \in Seq(Ops) /\ Head(script[w]) \in Elements(script[w])
      BY <1>1, <1>2, <1>3, PopForm DEF Pops
    <2>2. Heads(task[w], Head(script[w]), Elements(script[w])) /\ Members(task[w], Elements(script[w]))
      BY <1>1, <1>2, <1>3, HeadsOfForm, MembersOfForm
    <2>3. Head(script[w]) \in Ops
      BY <2>1
    <2> QED BY <1>1, <1>2, <1>3, <2>1, <2>2, <2>3 DEF Left
  <1>4. CASE pc[w] = "leave"
    <2>1. \A x : script[w] = <<x>> => Op(w) = x /\ Left(w) = {x} /\ Rest(w) = <<>>
      BY <1>2, Literals DEF Left, Rest
    <2>2. PICK x \in {<<"tl_finalize">>, <<"user_tl_finalize">>} : script[w] = <<x>>
      BY <1>1, <1>4
    <2>3. Op(w) = x /\ Left(w) = {x} /\ Rest(w) = <<>>
      BY <2>1, <2>2
    <2>4. {<<"tl_finalize">>, <<"user_tl_finalize">>} \subseteq Ops
      BY DEF Ops
    <2> QED BY <1>1, <1>2, <1>4, <2>3, <2>4
  <1> QED BY <1>1, <1>3, <1>4

\* A worker that is about to do something.
LEMMA AtFacts ==
  ASSUME NEW a, NEW n, At(a, n), n # "none"
  PROVE  script[a] # <<>> /\ Op(a)[1] = n
  BY DEF At, Op

Steady == UNCHANGED <<pc, task, shape, limit, cancelled>>

\* A step of worker w within its script that leaves it with the operations E.
Effect(w, E) ==
  /\ Steady
  /\ script' \in [Actors -> Seq(Ops)] /\ ScriptOK'
  /\ Left(w)' = E
  /\ \A v \in Actors \ {w} : Left(v)' = Left(v)

\* A step of one worker inside its script preserves ScriptOK.
LEMMA ScriptStep ==
  ASSUME ProcessTypeOK, ScriptOK, NEW w \in Workers, NEW s \in Seq(Ops), Become(w, s), Steady,
         \/ pc[w] = "run" /\ Form(task[w], s)
         \/ pc[w] = "leave" /\ script[w] # <<>>
            /\ s \in {<<>>, <<<<"tl_finalize">>>>, <<<<"user_tl_finalize">>>>}
  PROVE  Effect(w, Elements(s))
  <1>1. /\ script' \in [Actors -> Seq(Ops)] /\ script'[w] = s
        /\ \A v \in Actors \ {w} : script'[v] = script[v]
    BY Constants DEF ProcessTypeOK, Become
  <1>2. Left(w)' = Elements(s) /\ \A v \in Actors \ {w} : Left(v)' = Left(v)
    BY <1>1 DEF Left, Elements
  <1>3. pc' = pc /\ task' = task /\ shape' = shape /\ cancelled' = cancelled
    BY DEF Steady
  <1>4. ASSUME NEW v \in Workers
        PROVE  /\ (pc[v] # "join")'
               /\ (pc[v] = "run" => InLoop(task[v], script[v]) \/ Straight(task[v], script[v]))'
               /\ (pc[v] = "leave" => script[v] \in {<<>>, <<<<"tl_finalize">>>>, <<<<"user_tl_finalize">>>>})'
               /\ (pc[v] = "leave" /\ script[v] # <<>> => cancelled)'
               /\ (pc[v] \notin {"run", "leave"} => script[v] = <<>>)'
    <2>1. pc[v] = "run" => Form(task'[v], script'[v])
      BY <1>1, <1>3, Constants DEF ScriptOK, Form
    <2>2. pc[v] = "run" => Form(task[v], script[v])'
      BY <2>1, <1>3, FormStable
    <2> QED BY <2>2, <1>1, <1>3, Constants DEF ScriptOK, Form
  <1>5. script'[Main] = script[Main]
    BY <1>1, Constants
  <1>6. ScriptOK'
    BY <1>3, <1>4, <1>5 DEF ScriptOK
  <1> QED BY <1>1, <1>2, <1>6 DEF Effect

\* The operation at the head is done.
LEMMA PopStep ==
  ASSUME ProcessTypeOK, ScriptOK, NEW w \in Workers, Become(w, Rest(w)), Steady,
         Op(w)[1] \notin {"none", "complete"}
  PROVE  Effect(w, Left(w) \ {Op(w)})
  <1>1. script[w] # <<>>
    BY DEF Op
  <1>2. CASE pc[w] = "run"
    <2>1. Form(task[w], script[w]) /\ Op(w) = Head(script[w]) /\ shape \in Shapes
      BY <1>1, <1>2, OpFacts DEF ProcessTypeOK
    <2>2. script[w] # <<<<"complete">>>>
      <3>1. Head(<<<<"complete">>>>) = <<"complete">>
        BY Literals, Zenon
      <3> QED BY <3>1, <2>1
    <2>3. /\ script[w] \in Seq(Ops) /\ Form(task[w], Tail(script[w]))
          /\ Elements(Tail(script[w])) = Elements(script[w]) \ {Head(script[w])}
      BY <2>1, <2>2, PopForm DEF Pops
    <2>4. Tail(script[w]) \in Seq(Ops)
      BY <1>1, <2>3
    <2>5. Effect(w, Elements(Tail(script[w])))
      BY <1>2, <2>3, <2>4, ScriptStep DEF Rest
    <2> QED BY <2>1, <2>3, <2>5 DEF Left
  <1>3. CASE pc[w] # "run"
    <2>1. pc[w] = "leave" /\ Left(w) = {Op(w)} /\ Rest(w) = <<>>
      BY <1>1, <1>3, OpFacts
    <2>2. Rest(w) \in Seq(Ops) /\ Elements(Rest(w)) = {}
      BY <2>1, Literals
    <2>3. Effect(w, Elements(Rest(w)))
      BY <1>1, <2>1, <2>2, ScriptStep
    <2>4. Left(w) \ {Op(w)} = {}
      BY <2>1
    <2> QED BY <2>2, <2>3, <2>4
  <1> QED BY <1>2, <1>3

\* The elements of the tail.
LEMMA RestFacts ==
  ASSUME ProcessTypeOK, ScriptOK, NEW w \in Workers, pc[w] = "run",
         Op(w)[1] \notin {"none", "complete"}
  PROVE  /\ script[w] # <<>> /\ Form(task[w], script[w]) /\ Op(w) = Head(script[w])
         /\ Elements(Rest(w)) = Left(w) \ {Op(w)} /\ shape \in Shapes /\ Rest(w) = Tail(script[w])
         /\ Heads(task[w], Op(w), Left(w)) /\ Members(task[w], Left(w)) /\ Op(w) \in Left(w)
  <1>1. script[w] # <<>>
    BY DEF Op
  <1>2. /\ Form(task[w], script[w]) /\ Op(w) = Head(script[w]) /\ shape \in Shapes
        /\ Heads(task[w], Op(w), Left(w)) /\ Members(task[w], Left(w)) /\ Op(w) \in Left(w)
    BY <1>1, OpFacts DEF ProcessTypeOK
  <1>3. script[w] # <<<<"complete">>>>
    <2>1. Head(<<<<"complete">>>>) = <<"complete">>
      BY Literals, Zenon
    <2> QED BY <2>1, <1>2
  <1>4. Elements(Tail(script[w])) = Elements(script[w]) \ {Head(script[w])}
    BY <1>2, <1>3, PopForm DEF Pops
  <1> QED BY <1>1, <1>2, <1>4 DEF Left, Rest

\* Who does what is named.
LEMMA Busy ==
  ASSUME ProcessTypeOK, ScriptOK, NEW w \in Workers, NEW n, At(w, n),
         n \notin {"none", "complete", "tl_finalize", "user_tl_finalize"}
  PROVE  /\ pc[w] = "run" /\ Op(w)[1] = n
         /\ script[w] # <<>> /\ Form(task[w], script[w]) /\ Op(w) = Head(script[w])
         /\ Elements(Rest(w)) = Left(w) \ {Op(w)} /\ shape \in Shapes /\ Rest(w) = Tail(script[w])
         /\ Heads(task[w], Op(w), Left(w)) /\ Members(task[w], Left(w)) /\ Op(w) \in Left(w)
  <1>1. script[w] # <<>> /\ Op(w)[1] = n
    BY AtFacts
  <1>2. pc[w] = "run"
    BY <1>1, OpFacts
  <1> QED BY <1>1, <1>2, RestFacts

\* The steps that only pass on to the next operation.
LEMMA PopActions ==
  ASSUME ProcessTypeOK, ScriptOK, NEW w \in Workers,
         \/ Create(w) \/ Depend(w) \/ CommitProcessCommand(w) \/ NotifyCompletion(w)
         \/ ReceiveBroadcast(w) \/ Prepare(w) \/ ThreadLocalInitialize(w) \/ Return(w)
         \/ GlobalFinalized(w) \/ ThreadLocalFinalized(w)
  PROVE  Effect(w, Left(w) \ {Op(w)})
  <1>1. Become(w, Rest(w))
    BY DEF Create, Depend, CommitProcessCommand, NotifyCompletion, ReceiveBroadcast, Prepare,
           ThreadLocalInitialize, Return, GlobalFinalized, ThreadLocalFinalized
  <1>2. Steady
    BY DEF Create, Depend, CommitProcessCommand, NotifyCompletion, ReceiveBroadcast, Prepare,
           ThreadLocalInitialize, Return, GlobalFinalized, ThreadLocalFinalized, Steady, setup
  <1>3. Op(w)[1] \notin {"none", "complete"}
    BY DEF Create, Depend, CommitProcessCommand, NotifyCompletion, ReceiveBroadcast, Prepare,
           ThreadLocalInitialize, Return, GlobalFinalized, ThreadLocalFinalized, At
  <1> QED BY <1>1, <1>2, <1>3, PopStep

\* receive_fragment: the first operation of a turn of a producer.
LEMMA EffectReceive ==
  ASSUME ProcessTypeOK, ScriptOK, NEW w \in Workers, ReceiveFragment(w)
  PROVE  \E r \in Runs, j \in DataPorts :
           /\ pc[w] = "run" /\ Op(w) = <<"store", r, j>> /\ task[w] = Producer(j)
           /\ Op(w) \in Left(w) /\ \A x \in Left(w) : x[1] \in {"store", "complete"}
           /\ Effect(w, (Left(w) \ {Op(w)}) \cup (IF j \in Needs(r) THEN {<<"count", r>>} ELSE {}))
  <1>1. At(w, "store") /\ Steady
    BY DEF ReceiveFragment, Steady, setup
  <1>2. /\ pc[w] = "run" /\ Op(w)[1] = "store"
        /\ script[w] # <<>> /\ Form(task[w], script[w]) /\ Op(w) = Head(script[w])
        /\ Elements(Rest(w)) = Left(w) \ {Op(w)} /\ shape \in Shapes /\ Rest(w) = Tail(script[w])
        /\ Heads(task[w], Op(w), Left(w)) /\ Op(w) \in Left(w)
    BY <1>1, Busy
  <1>3. PICK r \in Runs, j \in DataPorts :
          /\ Op(w) = <<"store", r, j>> /\ task[w] = Producer(j)
          /\ \A x \in Left(w) : x[1] \in {"store", "complete"}
    BY <1>2 DEF Heads, LoopHeads
  <1>4. CASE j \in Needs(r)
    <2>1. Become(w, <<<<"count", r>>>> \o Rest(w))
      BY <1>3, <1>4 DEF ReceiveFragment
    <2>2. /\ Form(task[w], <<<<"count", r>>>> \o Rest(w)) /\ <<<<"count", r>>>> \o Rest(w) \in Seq(Ops)
          /\ Elements(<<<<"count", r>>>> \o Rest(w)) = {<<"count", r>>} \cup Elements(Rest(w))
      BY <1>2, <1>3, <1>4, PushCount
    <2>3. Effect(w, Elements(<<<<"count", r>>>> \o Rest(w)))
      BY <1>1, <1>2, <2>1, <2>2, ScriptStep
    <2> DEFINE X == (Left(w) \ {Op(w)}) \cup (IF j \in Needs(r) THEN {<<"count", r>>} ELSE {})
    <2>4. Elements(<<<<"count", r>>>> \o Rest(w)) = X
      BY <2>2, <1>2, <1>4
    <2>5. Effect(w, X)
      BY <2>3, <2>4
    <2> QED BY <2>5, <1>2, <1>3
  <1>5. CASE j \notin Needs(r)
    <2>1. Become(w, Rest(w))
      BY <1>3, <1>5 DEF ReceiveFragment
    <2>2. Effect(w, Left(w) \ {Op(w)})
      BY <1>1, <1>2, <2>1, PopStep
    <2> DEFINE X == (Left(w) \ {Op(w)}) \cup (IF j \in Needs(r) THEN {<<"count", r>>} ELSE {})
    <2>3. X = Left(w) \ {Op(w)}
      BY <1>5
    <2>4. Effect(w, X)
      BY <2>2, <2>3
    <2> QED BY <2>4, <1>2, <1>3
  <1> QED BY <1>4, <1>5

\* The count of a fragment: the last one makes the run.
LEMMA EffectCount ==
  ASSUME ProcessTypeOK, ScriptOK, NEW w \in Workers, CountFragment(w)
  PROVE  \E r \in Runs : \E j \in Needs(r) :
           /\ pc[w] = "run" /\ Op(w) = <<"count", r>> /\ task[w] = Producer(j)
           /\ Op(w) \in Left(w) /\ <<"store", r, j>> \notin Left(w)
           /\ \A x \in Left(w) : x = Op(w) \/ x[1] \in {"store", "complete"}
           /\ Effect(w, (Left(w) \ {Op(w)})
                          \cup (IF waiting_counters[r] = 1 THEN SpawnOps(Run(r)) ELSE {}))
  <1>1. At(w, "count") /\ Steady
    BY DEF CountFragment, Steady, setup
  <1>2. /\ pc[w] = "run" /\ Op(w)[1] = "count"
        /\ script[w] # <<>> /\ Form(task[w], script[w]) /\ Op(w) = Head(script[w])
        /\ Elements(Rest(w)) = Left(w) \ {Op(w)} /\ shape \in Shapes /\ Rest(w) = Tail(script[w])
        /\ Heads(task[w], Op(w), Left(w)) /\ Op(w) \in Left(w)
    BY <1>1, Busy
  <1>3. PICK r \in Runs : \E j \in Needs(r) :
          /\ Op(w) = <<"count", r>> /\ task[w] = Producer(j) /\ <<"store", r, j>> \notin Left(w)
          /\ \A x \in Left(w) : x = Op(w) \/ x[1] \in {"store", "complete"}
    BY <1>2 DEF Heads, LoopHeads
  <1>4. PICK j \in Needs(r) :
          /\ Op(w) = <<"count", r>> /\ task[w] = Producer(j) /\ <<"store", r, j>> \notin Left(w)
          /\ \A x \in Left(w) : x = Op(w) \/ x[1] \in {"store", "complete"}
    BY <1>3
  <1> DEFINE X == (Left(w) \ {Op(w)})
                          \cup (IF waiting_counters[r] = 1 THEN SpawnOps(Run(r)) ELSE {})
  <1>5. CASE waiting_counters[r] = 1
    <2>1. Become(w, Spawn(Run(r)) \o Rest(w))
      BY <1>4, <1>5 DEF CountFragment
    <2>2. /\ Form(task[w], Spawn(Run(r)) \o Rest(w)) /\ Spawn(Run(r)) \o Rest(w) \in Seq(Ops)
          /\ Elements(Spawn(Run(r)) \o Rest(w)) = SpawnOps(Run(r)) \cup Elements(Rest(w))
      BY <1>2, <1>4, PushRun
    <2>3. Effect(w, Elements(Spawn(Run(r)) \o Rest(w)))
      BY <1>1, <1>2, <2>1, <2>2, ScriptStep
    <2>4. Elements(Spawn(Run(r)) \o Rest(w)) = X
      BY <2>2, <1>2, <1>5
    <2>5. Effect(w, X)
      BY <2>3, <2>4
    <2> QED BY <2>5, <1>2, <1>4
  <1>6. CASE waiting_counters[r] # 1
    <2>1. Become(w, Rest(w))
      BY <1>4, <1>6 DEF CountFragment
    <2>2. Effect(w, Left(w) \ {Op(w)})
      BY <1>1, <1>2, <2>1, PopStep
    <2>3. X = Left(w) \ {Op(w)}
      BY <1>6
    <2>4. Effect(w, X)
      BY <2>2, <2>3
    <2> QED BY <2>4, <1>2, <1>4
  <1> QED BY <1>5, <1>6

\* A turn of the entry task makes a run that needs no fragment.
LEMMA EffectSpawn ==
  ASSUME ProcessTypeOK, ScriptOK, NEW w \in Workers, SpawnRun(w)
  PROVE  \E r \in Runs :
           /\ pc[w] = "run" /\ Op(w) = <<"spawn", r>> /\ task[w] = Entry /\ Needs(r) = {}
           /\ Op(w) \in Left(w) /\ \A x \in Left(w) : x[1] \in {"spawn", "complete"}
           /\ Effect(w, (Left(w) \ {Op(w)}) \cup SpawnOps(Run(r)))
  <1>1. At(w, "spawn") /\ Steady
    BY DEF SpawnRun, Steady, setup
  <1>2. /\ pc[w] = "run" /\ Op(w)[1] = "spawn"
        /\ script[w] # <<>> /\ Form(task[w], script[w]) /\ Op(w) = Head(script[w])
        /\ Elements(Rest(w)) = Left(w) \ {Op(w)} /\ shape \in Shapes /\ Rest(w) = Tail(script[w])
        /\ Heads(task[w], Op(w), Left(w)) /\ Op(w) \in Left(w)
    BY <1>1, Busy
  <1>3. PICK r \in Runs :
          /\ Op(w) = <<"spawn", r>> /\ task[w] = Entry /\ Needs(r) = {}
          /\ \A x \in Left(w) : x[1] \in {"spawn", "complete"}
    BY <1>2 DEF Heads, LoopHeads
  <1>4. Become(w, Spawn(Run(r)) \o Rest(w))
    BY <1>3 DEF SpawnRun
  <1>5. /\ Form(task[w], Spawn(Run(r)) \o Rest(w)) /\ Spawn(Run(r)) \o Rest(w) \in Seq(Ops)
        /\ Elements(Spawn(Run(r)) \o Rest(w)) = SpawnOps(Run(r)) \cup Elements(Rest(w))
    BY <1>2, <1>3, PushRun
  <1>6. Effect(w, Elements(Spawn(Run(r)) \o Rest(w)))
    BY <1>1, <1>2, <1>4, <1>5, ScriptStep
  <1>7. Elements(Spawn(Run(r)) \o Rest(w)) = (Left(w) \ {Op(w)}) \cup SpawnOps(Run(r))
    BY <1>5, <1>2
  <1>8. Effect(w, (Left(w) \ {Op(w)}) \cup SpawnOps(Run(r)))
    BY <1>6, <1>7
  <1> QED BY <1>8, <1>2, <1>3

\* A turn of the barrier makes a finalizer for a worker that was initialized.
LEMMA EffectFinalizer ==
  ASSUME ProcessTypeOK, ScriptOK, NEW w \in Workers, CreateThreadLocalFinalizer(w)
  PROVE  \E v \in Workers :
           /\ pc[w] = "run" /\ Op(w) = <<"finalizer", v>> /\ task[w] = Barrier
           /\ Op(w) \in Left(w) /\ \A x \in Left(w) : x[1] \in {"finalizer", "complete"}
           /\ Effect(w, (Left(w) \ {Op(w)}) \cup
                (IF v \in thread_local_initialized THEN SpawnOps(Finalizer(v)) ELSE {}))
  <1>1. At(w, "finalizer") /\ Steady
    BY DEF CreateThreadLocalFinalizer, Steady, setup
  <1>2. /\ pc[w] = "run" /\ Op(w)[1] = "finalizer"
        /\ script[w] # <<>> /\ Form(task[w], script[w]) /\ Op(w) = Head(script[w])
        /\ Elements(Rest(w)) = Left(w) \ {Op(w)} /\ shape \in Shapes /\ Rest(w) = Tail(script[w])
        /\ Heads(task[w], Op(w), Left(w)) /\ Op(w) \in Left(w)
    BY <1>1, Busy
  <1>3. PICK v \in Workers :
          /\ Op(w) = <<"finalizer", v>> /\ task[w] = Barrier
          /\ \A x \in Left(w) : x[1] \in {"finalizer", "complete"}
    BY <1>2 DEF Heads, LoopHeads
  <1> DEFINE X == (Left(w) \ {Op(w)}) \cup
                (IF v \in thread_local_initialized THEN SpawnOps(Finalizer(v)) ELSE {})
  <1>4. CASE v \in thread_local_initialized
    <2>1. Become(w, Spawn(Finalizer(v)) \o Rest(w))
      BY <1>3, <1>4 DEF CreateThreadLocalFinalizer
    <2>2. /\ Form(task[w], Spawn(Finalizer(v)) \o Rest(w)) /\ Spawn(Finalizer(v)) \o Rest(w) \in Seq(Ops)
          /\ Elements(Spawn(Finalizer(v)) \o Rest(w)) = SpawnOps(Finalizer(v)) \cup Elements(Rest(w))
      BY <1>2, <1>3, PushFinalizer
    <2>3. Effect(w, Elements(Spawn(Finalizer(v)) \o Rest(w)))
      BY <1>1, <1>2, <2>1, <2>2, ScriptStep
    <2>4. Elements(Spawn(Finalizer(v)) \o Rest(w)) = X
      BY <2>2, <1>2, <1>4
    <2>5. Effect(w, X)
      BY <2>3, <2>4
    <2> QED BY <2>5, <1>2, <1>3
  <1>5. CASE v \notin thread_local_initialized
    <2>1. Become(w, <<>> \o Rest(w))
      BY <1>3, <1>5 DEF CreateThreadLocalFinalizer
    <2>2. <<>> \o Rest(w) = Rest(w)
      <3>1. script[w] \in Seq(Ops)
        BY Constants DEF ProcessTypeOK
      <3>2. Rest(w) \in Seq(Ops)
        BY <3>1, <1>2
      <3> QED BY <3>2
    <2>3. Effect(w, Left(w) \ {Op(w)})
      BY <1>1, <1>2, <2>1, <2>2, PopStep
    <2>4. X = Left(w) \ {Op(w)}
      BY <1>5
    <2>5. Effect(w, X)
      BY <2>3, <2>4
    <2> QED BY <2>5, <1>2, <1>3
  <1> QED BY <1>4, <1>5

\* global_initialize: what the entry task is left with.
LEMMA EffectInitialize ==
  ASSUME ProcessTypeOK, ScriptOK, NEW w \in Workers, GlobalInitialize(w)
  PROVE  /\ pc[w] = "run" /\ Op(w) = <<"global_init">> /\ task[w] = Entry
         /\ Left(w) = {<<"global_init">>, <<"complete">>}
         /\ Effect(w, {<<"spawn", r>> : r \in {q \in Runs : Needs(q) = {}}} \cup {<<"complete">>})
  <1>1. At(w, "global_init") /\ Steady
    BY DEF GlobalInitialize, Steady, setup
  <1>2. /\ pc[w] = "run" /\ Op(w)[1] = "global_init"
        /\ script[w] # <<>> /\ Form(task[w], script[w]) /\ Op(w) = Head(script[w])
        /\ shape \in Shapes /\ Rest(w) = Tail(script[w])
        /\ Heads(task[w], Op(w), Left(w)) /\ Op(w) \in Left(w)
    BY <1>1, Busy
  <1>3. task[w] = Entry /\ Left(w) = {<<"global_init">>, <<"complete">>}
    BY <1>2 DEF Heads, StraightHeads
  <1>4. Op(w) = <<"global_init">>
    BY <1>2, <1>3
  <1> DEFINE z == [r \in {q \in Runs : Needs(q) = {}} |-> <<"spawn", r>>] \o Rest(w)
             X == {<<"spawn", r>> : r \in {q \in Runs : Needs(q) = {}}} \cup {<<"complete">>}
  <1>5. Become(w, z)
    BY DEF GlobalInitialize
  <1>6. Form(task[w], z) /\ z \in Seq(Ops) /\ Elements(z) = X
    BY <1>2, <1>4, PushEntry
  <1> HIDE DEF z, X
  <1>7. Effect(w, X)
    BY <1>1, <1>2, <1>5, <1>6, ScriptStep
  <1> QED BY <1>2, <1>3, <1>4, <1>7 DEF X

\* thread_local_finalize, by a finalizer or by the worker that leaves.
LEMMA EffectFinalize ==
  ASSUME ProcessTypeOK, ScriptOK, NEW w \in Workers, ThreadLocalFinalize(w)
  PROVE  /\ pc[w] \in {"run", "leave"} /\ Op(w) = <<"tl_finalize">> /\ Op(w) \in Left(w)
         /\ pc[w] = "run" => \E v \in Workers : task[w] = Finalizer(v)
                             /\ Left(w) = {<<"tl_finalize">>, <<"notify">>, <<"complete">>}
         /\ pc[w] = "leave" => Left(w) = {Op(w)}
         /\ Effect(w, (Left(w) \ {Op(w)}) \cup
              (IF w \in thread_local_initialized THEN {<<"user_tl_finalize">>} ELSE {}))
  <1>1. At(w, "tl_finalize") /\ Steady
    BY DEF ThreadLocalFinalize, Steady, setup
  <1>2. script[w] # <<>> /\ Op(w)[1] = "tl_finalize"
    BY <1>1, AtFacts
  <1> DEFINE X == (Left(w) \ {Op(w)}) \cup
              (IF w \in thread_local_initialized THEN {<<"user_tl_finalize">>} ELSE {})
  <1>3. script[w] \in Seq(Ops) /\ Rest(w) \in Seq(Ops)
    BY <1>2, Constants DEF ProcessTypeOK, Rest
  <1>4. Op(w) = <<"tl_finalize">> /\ Op(w) \in Left(w)
    BY <1>2, OpFacts DEF Ops
  <1>5. w \notin thread_local_initialized => Effect(w, X)
    <2>1. <<>> \o Rest(w) = Rest(w)
      BY <1>3
    <2>2. w \notin thread_local_initialized => Become(w, Rest(w)) /\ X = Left(w) \ {Op(w)}
      BY <2>1 DEF ThreadLocalFinalize
    <2>3. w \notin thread_local_initialized => Effect(w, Left(w) \ {Op(w)})
      BY <1>1, <1>2, <2>2, PopStep
    <2> QED BY <2>2, <2>3
  <1> DEFINE z == <<<<"user_tl_finalize">>>> \o Rest(w)
  <1>6. w \in thread_local_initialized => Become(w, z)
    BY DEF ThreadLocalFinalize
  <1>7. CASE pc[w] = "run"
    <2>1. /\ Form(task[w], script[w]) /\ Op(w) = Head(script[w]) /\ Heads(task[w], Op(w), Left(w))
          /\ Elements(Rest(w)) = Left(w) \ {Op(w)} /\ shape \in Shapes /\ Rest(w) = Tail(script[w])
      BY <1>2, <1>7, RestFacts
    <2>2. /\ Form(task[w], z) /\ z \in Seq(Ops)
          /\ Elements(z) = {<<"user_tl_finalize">>} \cup Elements(Rest(w))
      BY <2>1, <1>4, PushUser
    <2> HIDE DEF z
    <2>3. w \in thread_local_initialized => Effect(w, Elements(z))
      BY <1>1, <1>6, <1>7, <2>2, ScriptStep
    <2>4. w \in thread_local_initialized => Elements(z) = X
      BY <2>1, <2>2
    <2>5. Effect(w, X)
      BY <1>5, <2>3, <2>4
    <2>6. \E v \in Workers : task[w] = Finalizer(v)
                             /\ Left(w) = {<<"tl_finalize">>, <<"notify">>, <<"complete">>}
      BY <2>1, <1>2 DEF Heads, StraightHeads
    <2> QED BY <2>5, <2>6, <1>4, <1>7
  <1>8. CASE pc[w] # "run"
    <2>1. pc[w] = "leave" /\ Left(w) = {Op(w)} /\ Rest(w) = <<>>
      BY <1>2, <1>8, OpFacts
    <2>2. z = <<<<"user_tl_finalize">>>>
      BY <2>1
    <2>3. z \in Seq(Ops)
      <3>1. <<"user_tl_finalize">> \in Ops
        BY DEF Ops
      <3>2. \A u \in Ops : <<u>> \in Seq(Ops)
        OBVIOUS
      <3>3. <<<<"user_tl_finalize">>>> \in Seq(Ops)
        BY <3>1, <3>2, Zenon
      <3> HIDE DEF z
      <3> QED BY <2>2, <3>3, Zenon
    <2>4. Elements(z) = {<<"user_tl_finalize">>}
      BY <2>2, Literals, Zenon
    <2> HIDE DEF z
    <2>5. w \in thread_local_initialized => Effect(w, Elements(z))
      BY <1>1, <1>2, <1>6, <2>1, <2>2, <2>3, ScriptStep
    <2>6. w \in thread_local_initialized => Elements(z) = X
      BY <2>1, <2>4
    <2>7. Effect(w, X)
      BY <1>5, <2>5, <2>6
    <2> QED BY <2>1, <2>7, <1>4
  <1> QED BY <1>7, <1>8

\* global_finalize by the terminal task.
LEMMA EffectGlobal ==
  ASSUME ProcessTypeOK, ScriptOK, NEW w \in Workers, GlobalFinalize(w)
  PROVE  /\ pc[w] = "run" /\ Op(w) = <<"global_finalize">> /\ task[w] = Terminal
         /\ Left(w) = {<<"global_finalize">>, <<"complete">>}
         /\ Effect(w, {<<"complete">>} \cup
              (IF global_initialized THEN {<<"user_global_finalize">>} ELSE {}))
  <1>1. At(w, "global_finalize") /\ Steady
    BY DEF GlobalFinalize, Steady, setup
  <1>2. /\ pc[w] = "run" /\ Op(w)[1] = "global_finalize"
        /\ script[w] # <<>> /\ Form(task[w], script[w]) /\ Op(w) = Head(script[w])
        /\ Elements(Rest(w)) = Left(w) \ {Op(w)} /\ shape \in Shapes /\ Rest(w) = Tail(script[w])
        /\ Heads(task[w], Op(w), Left(w)) /\ Op(w) \in Left(w)
    BY <1>1, Busy
  <1>3. task[w] = Terminal /\ Left(w) = {<<"global_finalize">>, <<"complete">>}
    BY <1>2 DEF Heads, StraightHeads
  <1>4. Op(w) = <<"global_finalize">> /\ Left(w) \ {Op(w)} = {<<"complete">>}
    BY <1>2, <1>3
  <1> DEFINE z == <<<<"user_global_finalize">>>> \o Rest(w)
             X == {<<"complete">>} \cup
              (IF global_initialized THEN {<<"user_global_finalize">>} ELSE {})
  <1>5. CASE global_initialized
    <2>1. Become(w, z)
      BY <1>5 DEF GlobalFinalize
    <2>2. /\ Form(task[w], z) /\ z \in Seq(Ops)
          /\ Elements(z) = {<<"user_global_finalize">>} \cup Elements(Rest(w))
      BY <1>2, <1>4, PushUser
    <2> HIDE DEF z
    <2>3. Effect(w, Elements(z))
      BY <1>1, <1>2, <2>1, <2>2, ScriptStep
    <2>4. Elements(z) = X
      BY <1>2, <1>4, <1>5, <2>2
    <2>5. Effect(w, X)
      BY <2>3, <2>4
    <2> QED BY <1>2, <1>3, <1>4, <2>5
  <1>6. CASE ~global_initialized
    <2>1. script[w] \in Seq(Ops) /\ Rest(w) \in Seq(Ops)
      BY <1>2, Constants DEF ProcessTypeOK
    <2>2. <<>> \o Rest(w) = Rest(w)
      BY <2>1
    <2>3. Become(w, Rest(w)) /\ X = {<<"complete">>}
      BY <1>6, <2>2 DEF GlobalFinalize
    <2>4. Effect(w, Left(w) \ {Op(w)})
      BY <1>1, <1>2, <2>3, PopStep
    <2>5. Effect(w, X)
      BY <1>4, <2>3, <2>4
    <2> QED BY <1>2, <1>3, <1>4, <2>5
  <1> QED BY <1>5, <1>6

\* Worker w goes to place p with script s.
Moves(w, p, s) ==
  /\ pc' = [pc EXCEPT ![w] = p] /\ script' = [script EXCEPT ![w] = s]
  /\ script' \in [Actors -> Seq(Ops)] /\ pc' \in [Actors -> Places] /\ ScriptOK'
  /\ Left(w)' = Elements(s)
  /\ \A v \in Actors \ {w} : Left(v)' = Left(v)

\* A step of one worker between scripts preserves ScriptOK.
LEMMA ThreadStep ==
  ASSUME ProcessTypeOK, ScriptOK, NEW w \in Workers, NEW s \in Seq(Ops), NEW p \in Places,
         pc' = [pc EXCEPT ![w] = p], script' = [script EXCEPT ![w] = s],
         \A v \in Workers \ {w} : task'[v] = task[v],
         shape' = shape, cancelled => cancelled', pc[w] # "exit",
         \/ p = "run" /\ Form(task'[w], s)
         \/ /\ p = "leave" /\ s \in {<<>>, <<<<"tl_finalize">>>>, <<<<"user_tl_finalize">>>>}
            /\ s # <<>> => cancelled'
         \/ p \in {"loop", "take", "left", "exit"} /\ s = <<>>
  PROVE  Moves(w, p, s)
  <1>1. /\ script' \in [Actors -> Seq(Ops)] /\ script'[w] = s
        /\ \A v \in Actors \ {w} : script'[v] = script[v]
        /\ pc' \in [Actors -> Places] /\ pc'[w] = p
        /\ \A v \in Actors \ {w} : pc'[v] = pc[v]
    BY Constants DEF ProcessTypeOK
  <1>2. Left(w)' = Elements(s) /\ \A v \in Actors \ {w} : Left(v)' = Left(v)
    BY <1>1 DEF Left, Elements
  <1>3. pc[Main] = "join" /\ script[Main] = <<>> /\ pc'[Main] = "join" /\ script'[Main] = <<>>
    BY <1>1, Constants DEF ScriptOK
  <1>4. ASSUME NEW v \in Workers
        PROVE  /\ (pc[v] # "join")'
               /\ (pc[v] = "run" => InLoop(task[v], script[v]) \/ Straight(task[v], script[v]))'
               /\ (pc[v] = "leave" => script[v] \in {<<>>, <<<<"tl_finalize">>>>, <<<<"user_tl_finalize">>>>})'
               /\ (pc[v] = "leave" /\ script[v] # <<>> => cancelled)'
               /\ (pc[v] \notin {"run", "leave"} => script[v] = <<>>)'
    <2>1. CASE v = w
      <3>1. p = "run" => Form(task[v], script[v])'
        BY <2>1, <1>1, FormStable
      <3> QED BY <3>1, <2>1, <1>1 DEF Form
    <2>2. CASE v # w
      <3>1. pc'[v] = pc[v] /\ script'[v] = script[v] /\ task'[v] = task[v]
        BY <2>2, <1>1, Constants
      <3>2. pc[v] = "run" => Form(task'[v], script'[v])
        BY <3>1 DEF ScriptOK, Form
      <3>3. pc[v] = "run" => Form(task[v], script[v])'
        BY <3>2, FormStable
      <3> QED BY <3>1, <3>3 DEF ScriptOK, Form
    <2> QED BY <2>1, <2>2
  <1>5. ScriptOK'
    BY <1>3, <1>4 DEF ScriptOK
  <1> QED BY <1>1, <1>2, <1>5 DEF Moves

\* A step of the caller of execute() preserves ScriptOK.
LEMMA MainStep ==
  ASSUME ProcessTypeOK, ScriptOK, NEW s \in Seq(Ops), NEW p,
         pc' = [pc EXCEPT ![Main] = p], script' = [script EXCEPT ![Main] = s],
         \A v \in Workers : pc[v] = "exit",
         cancelled => cancelled', s # <<>> => cancelled',
         \/ p = "leave" /\ s \in {<<>>, <<<<"global_finalize">>>>, <<<<"user_global_finalize">>>>}
         \/ p = "exit" /\ s = <<>>
  PROVE  Moves(Main, p, s)
  <1>1. /\ script' \in [Actors -> Seq(Ops)] /\ script'[Main] = s
        /\ \A v \in Actors \ {Main} : script'[v] = script[v]
        /\ pc' \in [Actors -> Places] /\ pc'[Main] = p
        /\ \A v \in Actors \ {Main} : pc'[v] = pc[v]
    BY Constants DEF ProcessTypeOK, Places
  <1>2. Left(Main)' = Elements(s) /\ \A v \in Actors \ {Main} : Left(v)' = Left(v)
    BY <1>1 DEF Left, Elements
  <1>3. \A v \in Workers : pc'[v] = "exit" /\ script'[v] = <<>>
    BY <1>1, Constants DEF ScriptOK
  <1>4. ScriptOK'
    BY <1>1, <1>3 DEF ScriptOK
  <1> QED BY <1>1, <1>2, <1>4 DEF Moves

\* What Main is about to do.
LEMMA MainFacts ==
  ASSUME ProcessTypeOK, ScriptOK
  PROVE  /\ script[Main] # <<>> =>
              /\ pc[Main] = "leave" /\ cancelled /\ Left(Main) = {Op(Main)} /\ Rest(Main) = <<>>
              /\ Op(Main) \in {<<"global_finalize">>, <<"user_global_finalize">>}
         /\ script[Main] = <<>> => Left(Main) = {}
         /\ pc[Main] # "join" => \A w \in Workers : pc[w] = "exit"
  <1>1. script[Main] # <<>> =>
          /\ pc[Main] = "leave" /\ cancelled
          /\ script[Main] \in {<<<<"global_finalize">>>>, <<<<"user_global_finalize">>>>}
    BY DEF ScriptOK
  <1>2. \A x : script[Main] = <<x>> => Op(Main) = x /\ Left(Main) = {x} /\ Rest(Main) = <<>>
    BY Literals DEF Left, Rest, Op
  <1>3. script[Main] = <<>> => Left(Main) = {}
    BY Literals DEF Left
  <1> QED BY <1>1, <1>2, <1>3 DEF ScriptOK

\* Idle workers have nothing left.
LEMMA IdleFacts ==
  ASSUME ScriptOK, NEW w \in Workers
  PROVE  /\ script[w] = <<>> => Left(w) = {}
         /\ pc[w] \notin {"run", "leave"} => script[w] = <<>> /\ Left(w) = {}
         /\ pc[w] = "leave" => Left(w) \subseteq {<<"tl_finalize">>, <<"user_tl_finalize">>}
         /\ pc[w] # "exit" => pc[Main] = "join" /\ script[Main] = <<>> /\ Left(Main) = {}
  <1>1. script[w] = <<>> => Left(w) = {}
    BY Literals DEF Left
  <1>2. pc[w] = "leave" => Left(w) \subseteq {<<"tl_finalize">>, <<"user_tl_finalize">>}
    <2>1. \A x : script[w] = <<x>> => Left(w) = {x}
      BY Literals DEF Left
    <2> QED BY <1>1, <2>1 DEF ScriptOK
  <1>3. script[Main] = <<>> => Left(Main) = {}
    BY Literals DEF Left
  <1> QED BY <1>1, <1>2, <1>3 DEF ScriptOK

\* A task completes with nothing else left.
LEMMA EffectComplete ==
  ASSUME ProcessTypeOK, ScriptOK, NEW w \in Workers, Complete(w)
  PROVE  pc[w] = "run" /\ Left(w) = {<<"complete">>} /\ Moves(w, "loop", <<>>)
  <1>1. script[w] # <<>> /\ Op(w)[1] = "complete"
    BY AtFacts DEF Complete
  <1>2. pc[w] = "run" /\ Heads(task[w], Op(w), Left(w))
    BY <1>1, OpFacts
  <1>3. Left(w) = {<<"complete">>}
    BY <1>1, <1>2 DEF Heads, LoopHeads
  <1>4. /\ pc' = [pc EXCEPT ![w] = "loop"] /\ script' = [script EXCEPT ![w] = <<>>]
        /\ task' = task /\ shape' = shape /\ cancelled' = cancelled
    BY DEF Complete, Become, setup
  <1>5. <<>> \in Seq(Ops) /\ "loop" \in Places
    BY DEF Places
  <1>6. Moves(w, "loop", <<>>)
    BY <1>2, <1>4, <1>5, ThreadStep
  <1> QED BY <1>2, <1>3, <1>6

\* The steps of a worker that has no script.
LEMMA EffectIdle ==
  ASSUME ProcessTypeOK, ScriptOK, NEW w \in Workers,
         Loop(w) \/ TakeNothing(w) \/ Exit(w) \/ Leave(w)
  PROVE  /\ script[w] = <<>> /\ Left(w) = {} /\ pc[w] # "exit"
         /\ Loop(w) => Moves(w, IF cancelled \/ IsFinished THEN "left" ELSE "take", <<>>)
         /\ TakeNothing(w) => Moves(w, "loop", <<>>)
         /\ Exit(w) => Moves(w, "exit", <<>>)
         /\ Leave(w) => Moves(w, "leave", IF cancelled THEN <<<<"tl_finalize">>>> ELSE <<>>)
         /\ task' = task /\ shape' = shape /\ cancelled' = cancelled
  <1>1. script[w] = <<>> /\ pc[w] # "exit"
    BY DEF ScriptOK, Loop, TakeNothing, Exit, Leave
  <1>2. Left(w) = {}
    BY <1>1, Literals DEF Left
  <1>3. task' = task /\ shape' = shape /\ cancelled' = cancelled
    BY DEF Loop, TakeNothing, Exit, Leave, setup
  <1>4. script' = script => script' = [script EXCEPT ![w] = <<>>]
    BY <1>1, Constants DEF ProcessTypeOK
  <1>5. <<>> \in Seq(Ops) /\ {"left", "take", "loop", "exit", "leave"} \subseteq Places
    BY DEF Places
  <1>6. <<<<"tl_finalize">>>> \in Seq(Ops)
    <2>1. <<"tl_finalize">> \in Ops
      BY DEF Ops
    <2> QED BY <2>1
  <1>7. ASSUME Loop(w) PROVE Moves(w, IF cancelled \/ IsFinished THEN "left" ELSE "take", <<>>)
    <2> DEFINE p == IF cancelled \/ IsFinished THEN "left" ELSE "take"
    <2>1. p \in {"left", "take"} /\ pc' = [pc EXCEPT ![w] = p] /\ script' = script
      BY <1>7 DEF Loop
    <2> HIDE DEF p
    <2>2. Moves(w, p, <<>>)
      BY <1>1, <1>3, <1>4, <1>5, <2>1, ThreadStep
    <2> QED BY <2>2 DEF p
  <1>8. ASSUME TakeNothing(w) PROVE Moves(w, "loop", <<>>)
    <2>1. pc' = [pc EXCEPT ![w] = "loop"] /\ script' = script
      BY <1>8 DEF TakeNothing
    <2> QED BY <1>1, <1>3, <1>4, <1>5, <2>1, ThreadStep
  <1>9. ASSUME Exit(w) PROVE Moves(w, "exit", <<>>)
    <2>1. pc' = [pc EXCEPT ![w] = "exit"] /\ script' = script
      BY <1>9 DEF Exit
    <2> QED BY <1>1, <1>3, <1>4, <1>5, <2>1, ThreadStep
  <1>10. ASSUME Leave(w)
         PROVE  Moves(w, "leave", IF cancelled THEN <<<<"tl_finalize">>>> ELSE <<>>)
    <2> DEFINE s == IF cancelled THEN <<<<"tl_finalize">>>> ELSE <<>>
    <2>1. pc' = [pc EXCEPT ![w] = "leave"] /\ script' = [script EXCEPT ![w] = s]
      BY <1>10 DEF Leave, Become
    <2>2. /\ s \in Seq(Ops) /\ s \in {<<>>, <<<<"tl_finalize">>>>, <<<<"user_tl_finalize">>>>}
          /\ s # <<>> => cancelled
      BY <1>5, <1>6
    <2> HIDE DEF s
    <2>3. Moves(w, "leave", s)
      BY <1>1, <1>3, <1>5, <2>1, <2>2, ThreadStep
    <2> QED BY <2>3 DEF s
  <1> QED BY <1>1, <1>2, <1>3, <1>7, <1>8, <1>9, <1>10

\* A task that is taken is committed, and all its predecessors are done.
LEMMA EffectTake ==
  ASSUME ProcessTypeOK, ScriptOK, GraphOK, NEW w \in Workers, TakeTask(w)
  PROVE  \E t \in Initial \cup Commands :
           /\ pc[w] = "take" /\ Left(w) = {}
           /\ \A v \in Workers : t = Finalizer(v) => v = w
           /\ status[t] = "committed" /\ status' = [status EXCEPT ![t] = "running"]
           /\ \A p \in preds[t] : status[p] = "done"
           /\ task' = [task EXCEPT ![w] = t]
           /\ preds' = preds /\ shape' = shape /\ cancelled' = cancelled
           /\ Moves(w, "run", Body(t)) /\ Fresh(t, Left(w)')
  <1>1. PICK t \in Tasks :
          /\ t[1] = "finalize" => t[2] = w
          /\ TG!Start(t)
          /\ task' = [task EXCEPT ![w] = t]
          /\ Become(w, Body(t))
    BY DEF TakeTask
  <1>2. /\ status[t] = "committed" /\ status' = [status EXCEPT ![t] = "running"]
        /\ preds' = preds /\ \A p \in preds[t] : status[p] = "done"
    BY <1>1 DEF TG!Start, TG!Move
  <1>3. t \in Initial \cup Commands
    BY <1>2 DEF GraphOK
  <1>4. shape \in Shapes /\ shape' = shape /\ cancelled' = cancelled /\ pc[w] = "take"
        /\ pc' = [pc EXCEPT ![w] = "run"]
    BY DEF ProcessTypeOK, TakeTask, setup
  <1>5. Left(w) = {}
    BY <1>4, IdleFacts
  <1>6. Form(t, Body(t)) /\ Body(t) \in Seq(Ops) /\ Fresh(t, Elements(Body(t)))
    BY <1>3, <1>4, BodyForms
  <1>7. task'[w] = t /\ \A v \in Workers \ {w} : task'[v] = task[v]
    BY <1>1, Constants DEF ProcessTypeOK
  <1>8. script' = [script EXCEPT ![w] = Body(t)] /\ "run" \in Places
    BY <1>1 DEF Become, Places
  <1>9. Moves(w, "run", Body(t))
    BY <1>4, <1>6, <1>7, <1>8, ThreadStep
  <1>10. Left(w)' = Elements(Body(t))
    BY <1>9 DEF Moves
  <1>11. \A v \in Workers : t = Finalizer(v) => v = w
    BY <1>1 DEF Finalizer
  <1> QED BY <1>1, <1>2, <1>3, <1>4, <1>5, <1>6, <1>9, <1>10, <1>11

\* A worker is thrown out of a callback.
LEMMA EffectThrow ==
  ASSUME ProcessTypeOK, ScriptOK, NEW w \in Workers, Throw(w)
  PROVE  /\ script[w] # <<>>
         /\ task' = task /\ shape' = shape /\ cancelled' = TRUE
         /\ \/ /\ pc[w] = "run" /\ Op(w) \in Left(w) /\ Moves(w, "leave", <<<<"tl_finalize">>>>)
               /\ Left(w)' = {<<"tl_finalize">>}
               /\ Heads(task[w], Op(w), Left(w))
               /\ Op(w) \in {<<"foreign">>, <<"global_init">>, <<"run">>, <<"tl_init">>,
                             <<"user_tl_finalize">>, <<"user_global_finalize">>}
            \/ /\ pc[w] = "leave" /\ Op(w) = <<"user_tl_finalize">> /\ Left(w) = {Op(w)}
               /\ Moves(w, "leave", <<>>) /\ Left(w)' = {}
         /\ live' = live \ (IF Op(w) = <<"user_tl_finalize">> THEN {w}
                            ELSE IF Op(w) = <<"user_global_finalize">> THEN {Main} ELSE {})
  <1>1. Op(w)[1] \in {"foreign", "global_init", "run", "tl_init", "user_tl_finalize",
                      "user_global_finalize"}
    BY DEF Throw, At
  <1>2. script[w] # <<>>
    BY <1>1 DEF Op
  <1>3. /\ Op(w) \in Ops /\ Op(w) \in Left(w)
        /\ \/ pc[w] = "run" /\ Heads(task[w], Op(w), Left(w))
           \/ pc[w] = "leave" /\ Left(w) = {Op(w)} /\ Op(w) \in {<<"tl_finalize">>, <<"user_tl_finalize">>}
    BY <1>2, OpFacts
  <1>4. Op(w) \in {<<"foreign">>, <<"global_init">>, <<"run">>, <<"tl_init">>,
                   <<"user_tl_finalize">>, <<"user_global_finalize">>}
    BY <1>1, <1>3 DEF Ops
  <1>5. live' = live \ (IF Op(w) = <<"user_tl_finalize">> THEN {w}
                        ELSE IF Op(w) = <<"user_global_finalize">> THEN {Main} ELSE {})
    <2>1. /\ At(w, "user_tl_finalize") <=> Op(w) = <<"user_tl_finalize">>
          /\ At(w, "user_global_finalize") <=> Op(w) = <<"user_global_finalize">>
      BY <1>4 DEF At
    <2> QED BY <2>1 DEF Throw
  <1>6. task' = task /\ shape' = shape /\ cancelled' = TRUE /\ pc' = [pc EXCEPT ![w] = "leave"]
        /\ script' = [script EXCEPT ![w] = IF pc[w] = "run" THEN <<<<"tl_finalize">>>> ELSE <<>>]
        /\ "leave" \in Places
    BY DEF Throw, setup, Become, Places
  <1>7. CASE pc[w] = "run"
    <2> DEFINE s == <<<<"tl_finalize">>>>
    <2>1. s \in Seq(Ops)
      <3>1. <<"tl_finalize">> \in Ops
        BY DEF Ops
      <3> QED BY <3>1
    <2>2. Elements(s) = {<<"tl_finalize">>}
      BY Literals, Zenon
    <2>3. script' = [script EXCEPT ![w] = s] /\ s \in {<<>>, <<<<"tl_finalize">>>>, <<<<"user_tl_finalize">>>>}
      BY <1>6, <1>7
    <2> HIDE DEF s
    <2>4. Moves(w, "leave", s)
      BY <1>6, <1>7, <2>1, <2>3, ThreadStep
    <2>5. Left(w)' = {<<"tl_finalize">>}
      BY <2>2, <2>4 DEF Moves
    <2> QED BY <1>2, <1>3, <1>4, <1>5, <1>6, <1>7, <2>4, <2>5 DEF s
  <1>8. CASE pc[w] # "run"
    <2>1. pc[w] = "leave" /\ Left(w) = {Op(w)} /\ Op(w) = <<"user_tl_finalize">>
      BY <1>1, <1>3, <1>8
    <2>2. <<>> \in Seq(Ops) /\ script' = [script EXCEPT ![w] = <<>>]
      BY <1>6, <1>8
    <2>3. Moves(w, "leave", <<>>)
      BY <1>6, <2>1, <2>2, ThreadStep
    <2>4. Left(w)' = {}
      BY <2>3, Literals DEF Moves
    <2> QED BY <1>2, <1>5, <1>6, <2>1, <2>3, <2>4
  <1> QED BY <1>7, <1>8

\* The steps of the thread that called execute.
LEMMA EffectMain ==
  ASSUME ProcessTypeOK, ScriptOK,
         Join \/ Exit(Main) \/ GlobalFinalize(Main) \/ GlobalFinalized(Main) \/ Throw(Main)
  PROVE  /\ \A w \in Workers : pc[w] = "exit"
         /\ task' = task /\ shape' = shape /\ (cancelled => cancelled')
         /\ Join => /\ pc[Main] = "join" /\ Left(Main) = {}
                    /\ Moves(Main, "leave", IF cancelled THEN <<<<"global_finalize">>>> ELSE <<>>)
                    /\ Left(Main)' = IF cancelled THEN {<<"global_finalize">>} ELSE {}
         /\ Exit(Main) => /\ pc[Main] = "leave" /\ Left(Main) = {} /\ Moves(Main, "exit", <<>>)
                          /\ Left(Main)' = {}
         /\ GlobalFinalize(Main) =>
              /\ pc[Main] = "leave" /\ Left(Main) = {<<"global_finalize">>}
              /\ pc' = pc /\ Moves(Main, "leave", IF global_initialized THEN <<<<"user_global_finalize">>>> ELSE <<>>)
              /\ Left(Main)' = IF global_initialized THEN {<<"user_global_finalize">>} ELSE {}
         /\ GlobalFinalized(Main) =>
              /\ pc[Main] = "leave" /\ Left(Main) = {<<"user_global_finalize">>}
              /\ pc' = pc /\ Moves(Main, "leave", <<>>) /\ Left(Main)' = {}
         /\ Throw(Main) =>
              /\ pc[Main] = "leave" /\ Left(Main) = {<<"user_global_finalize">>}
              /\ Moves(Main, "leave", <<>>) /\ Left(Main)' = {}
              /\ live' = live \ {Main} /\ cancelled
  <1>1. task' = task /\ shape' = shape /\ (cancelled => cancelled')
    BY DEF Join, Exit, GlobalFinalize, GlobalFinalized, Throw, setup
  <1>2. \A w \in Workers : pc[w] = "exit"
    <2>1. CASE Join
      BY <2>1 DEF Join
    <2>2. CASE Exit(Main)
      BY <2>2, MainFacts DEF Exit
    <2>3. CASE GlobalFinalize(Main) \/ GlobalFinalized(Main) \/ Throw(Main)
      <3>1. script[Main] # <<>>
        BY <2>3 DEF GlobalFinalize, GlobalFinalized, Throw, At, Op
      <3> QED BY <3>1, MainFacts
    <2> QED BY <2>1, <2>2, <2>3
  <1>3. /\ <<>> \in Seq(Ops) /\ <<<<"global_finalize">>>> \in Seq(Ops)
        /\ <<<<"user_global_finalize">>>> \in Seq(Ops)
    <2>1. {<<"global_finalize">>, <<"user_global_finalize">>} \subseteq Ops
      BY DEF Ops
    <2> QED BY <2>1
  <1>4. Elements(<<>>) = {} /\ Elements(<<<<"global_finalize">>>>) = {<<"global_finalize">>}
        /\ Elements(<<<<"user_global_finalize">>>>) = {<<"user_global_finalize">>}
    BY Literals, Zenon
  <1>5. \A p \in Places : pc[Main] = p => pc = [pc EXCEPT ![Main] = p]
    BY Constants DEF ProcessTypeOK
  <1>6. ASSUME Join
        PROVE  /\ pc[Main] = "join" /\ Left(Main) = {}
               /\ Moves(Main, "leave", IF cancelled THEN <<<<"global_finalize">>>> ELSE <<>>)
               /\ Left(Main)' = IF cancelled THEN {<<"global_finalize">>} ELSE {}
    <2> DEFINE s == IF cancelled THEN <<<<"global_finalize">>>> ELSE <<>>
    <2>1. /\ pc' = [pc EXCEPT ![Main] = "leave"] /\ script' = [script EXCEPT ![Main] = s]
          /\ pc[Main] = "join" /\ cancelled' = cancelled
      BY <1>6 DEF Join, Become
    <2>2. Left(Main) = {}
      BY <2>1, MainFacts
    <2>3. /\ s \in Seq(Ops) /\ (s # <<>> => cancelled)
          /\ s \in {<<>>, <<<<"global_finalize">>>>, <<<<"user_global_finalize">>>>}
      BY <1>3
    <2>4. Elements(s) = IF cancelled THEN {<<"global_finalize">>} ELSE {}
      BY <1>4
    <2> HIDE DEF s
    <2>5. Moves(Main, "leave", s)
      BY <1>2, <2>1, <2>3, MainStep
    <2>6. Left(Main)' = Elements(s)
      BY <2>5 DEF Moves
    <2> QED BY <2>1, <2>2, <2>4, <2>5, <2>6 DEF s
  <1>7. ASSUME Exit(Main)
        PROVE  pc[Main] = "leave" /\ Left(Main) = {} /\ Moves(Main, "exit", <<>>) /\ Left(Main)' = {}
    <2>1. pc' = [pc EXCEPT ![Main] = "exit"] /\ script' = script /\ pc[Main] = "leave"
          /\ script[Main] = <<>>
      BY <1>7 DEF Exit
    <2>2. script' = [script EXCEPT ![Main] = <<>>] /\ Left(Main) = {}
      BY <2>1, MainFacts, Constants DEF ProcessTypeOK
    <2>3. Moves(Main, "exit", <<>>)
      BY <1>1, <1>2, <1>3, <2>1, <2>2, MainStep
    <2>4. Left(Main)' = {}
      BY <2>3, <1>4 DEF Moves
    <2> QED BY <2>1, <2>2, <2>3, <2>4
  <1>8. ASSUME GlobalFinalize(Main)
        PROVE /\ pc[Main] = "leave" /\ Left(Main) = {<<"global_finalize">>}
              /\ pc' = pc /\ Moves(Main, "leave", IF global_initialized THEN <<<<"user_global_finalize">>>> ELSE <<>>)
              /\ Left(Main)' = IF global_initialized THEN {<<"user_global_finalize">>} ELSE {}
    <2> DEFINE s == IF global_initialized THEN <<<<"user_global_finalize">>>> ELSE <<>>
    <2>1. Op(Main)[1] = "global_finalize" /\ pc' = pc /\ cancelled' = cancelled
      BY <1>8 DEF GlobalFinalize, At
    <2>2. script[Main] # <<>>
      BY <2>1 DEF Op
    <2>3. /\ pc[Main] = "leave" /\ Left(Main) = {<<"global_finalize">>} /\ Rest(Main) = <<>>
          /\ cancelled
      BY <2>1, <2>2, MainFacts
    <2>4. script' = [script EXCEPT ![Main] = s \o <<>>]
      BY <1>8, <2>3 DEF GlobalFinalize, Become
    <2>5. /\ s \in Seq(Ops) /\ s \in {<<>>, <<<<"global_finalize">>>>, <<<<"user_global_finalize">>>>}
      BY <1>3
    <2>6. Elements(s) = IF global_initialized THEN {<<"user_global_finalize">>} ELSE {}
      BY <1>4
    <2> HIDE DEF s
    <2>7. s \o <<>> = s
      BY <2>5
    <2>8. pc' = [pc EXCEPT ![Main] = "leave"]
      BY <1>5, <2>1, <2>3 DEF Places
    <2>9. Moves(Main, "leave", s)
      BY <1>1, <1>2, <2>1, <2>3, <2>4, <2>5, <2>7, <2>8, MainStep
    <2>10. Left(Main)' = Elements(s)
      BY <2>9 DEF Moves
    <2> QED BY <2>1, <2>3, <2>6, <2>9, <2>10 DEF s
  <1>9. ASSUME GlobalFinalized(Main) \/ Throw(Main)
        PROVE /\ pc[Main] = "leave" /\ Left(Main) = {<<"user_global_finalize">>}
              /\ Moves(Main, "leave", <<>>) /\ Left(Main)' = {} /\ cancelled
              /\ GlobalFinalized(Main) => pc' = pc
              /\ Throw(Main) => live' = live \ {Main}
    <2>1. Op(Main)[1] \in {"foreign", "global_init", "run", "tl_init", "user_tl_finalize",
                      "user_global_finalize"}
      BY <1>9 DEF GlobalFinalized, Throw, At
    <2>2. script[Main] # <<>>
      BY <2>1 DEF Op
    <2>3. /\ pc[Main] = "leave" /\ Left(Main) = {<<"user_global_finalize">>} /\ Rest(Main) = <<>>
          /\ cancelled /\ Op(Main) = <<"user_global_finalize">>
      BY <2>1, <2>2, MainFacts
    <2>4. script' = [script EXCEPT ![Main] = <<>>] /\ cancelled'
      BY <1>9, <2>3 DEF GlobalFinalized, Throw, Become
    <2>5. pc' = [pc EXCEPT ![Main] = "leave"] /\ (GlobalFinalized(Main) => pc' = pc)
      BY <1>5, <1>9, <2>3 DEF Places, GlobalFinalized, Throw
    <2>6. Moves(Main, "leave", <<>>)
      BY <1>2, <1>3, <2>4, <2>5, MainStep
    <2>7. Left(Main)' = {}
      BY <2>6, <1>4 DEF Moves
    <2>8. Throw(Main) => live' = live \ {Main}
      <3>1. ~At(Main, "user_tl_finalize") /\ At(Main, "user_global_finalize")
        BY <2>3 DEF At
      <3> QED BY <3>1 DEF Throw
    <2> QED BY <2>3, <2>5, <2>6, <2>7, <2>8
  <1> QED BY <1>1, <1>2, <1>6, <1>7, <1>8, <1>9

-----------------------------------------------------------------------------
(* What follows from the invariant.                                        *)

\* A task other than the foreign one has one runner.
LEMMA OneRunner ==
  ASSUME OwnOK, NEW w \in Workers, NEW t, Runner(w, t), t # Foreign
  PROVE  status[t] = "running" /\ \A v \in Workers : Runner(v, t) => v = w
  BY DEF OwnOK, Runner

\* A command that is being made has not been committed.
LEMMA MakerFacts ==
  ASSUME ProcessTypeOK, ScriptOK, OwnOK, SpawnOK, NEW c \in Commands, NEW v \in Workers,
         \/ <<"commit", c>> \in Left(v) \/ <<"create", c>> \in Left(v)
         \/ <<"depend", Entry, c>> \in Left(v) \/ <<"depend", c, Barrier>> \in Left(v)
         \/ <<"depend", c, Terminal>> \in Left(v)
  PROVE  /\ pc[v] = "run" /\ <<"commit", c>> \in Left(v)
         /\ status[c] \in {"none", "created"}
         /\ \A u \in Workers : c = Finalizer(u) => Runner(v, Barrier) /\ status[Barrier] = "running"
  <1>1. pc[v] = "run"
    <2>1. pc[v] # "leave"
      BY IdleFacts
    <2> QED BY <2>1, IdleFacts
  <1>2. Members(task[v], Left(v))
    <2>1. script[v] # <<>>
      BY IdleFacts
    <2> QED BY <1>1, <2>1, OpFacts
  <1>3. <<"commit", c>> \in Left(v)
    BY <1>2 DEF Members
  <1>4. status[c] \in {"none", "created"}
    BY <1>3 DEF SpawnOK
  <1>5. \A u \in Workers : c = Finalizer(u) => task[v] = Barrier
    BY <1>2, <1>3 DEF Members
  <1> QED BY <1>1, <1>3, <1>4, <1>5 DEF OwnOK, Runner

\* The order of the tasks of a processor.
LEMMA OrderFacts ==
  ASSUME ProcessTypeOK, ScriptOK, OwnOK, GraphOK, SpawnOK
  PROVE  /\ \A r \in Runs : Started(Run(r)) => status[Entry] = "done"
         /\ \A r \in Runs : Started(Barrier) /\ status[Run(r)] # "none" =>
              status[Run(r)] = "done" \/ Doing(<<"depend", Run(r), Barrier>>)
         /\ \A r \in Runs : status[Run(r)] = "running" => ~Started(Barrier)
         /\ \A v \in Workers : Started(Terminal) => status[Finalizer(v)] \in {"none", "done"}
         /\ Started(Terminal) => status[Barrier] = "done"
         /\ Started(Barrier) => status[Entry] = "done"
         /\ \A j \in DataPorts : Started(Barrier) => status[Producer(j)] = "done"
         /\ \A j \in shape.broadcasts : Started(Entry) => status[Producer(j)] = "done"
  <1> USE Names
  <1>1. Started(Terminal) => status[Barrier] = "done"
    <2>1. Barrier \in preds[Terminal]
      BY DEF GraphOK, Initial, InitialPreds
    <2> QED BY <2>1 DEF GraphOK
  <1>2. Started(Barrier) => status[Entry] = "done"
    <2>1. Entry \in preds[Barrier]
      BY DEF GraphOK, Initial, InitialPreds
    <2> QED BY <2>1 DEF GraphOK
  <1>3. \A j \in DataPorts : Started(Barrier) => status[Producer(j)] = "done"
    <2>1. \A j \in DataPorts : Producer(j) \in preds[Barrier]
      BY DEF GraphOK, Initial, InitialPreds
    <2> QED BY <2>1 DEF GraphOK
  <1>4. \A j \in shape.broadcasts : Started(Entry) => status[Producer(j)] = "done"
    <2>1. \A j \in shape.broadcasts : Producer(j) \in preds[Entry]
      BY DEF GraphOK, Initial, InitialPreds
    <2> QED BY <2>1 DEF GraphOK
  <1>5. ASSUME NEW r \in Runs
        PROVE  /\ Started(Run(r)) => status[Entry] = "done"
               /\ Started(Barrier) /\ status[Run(r)] # "none" =>
                    status[Run(r)] = "done" \/ Doing(<<"depend", Run(r), Barrier>>)
               /\ status[Run(r)] = "running" => ~Started(Barrier)
    <2>1. Run(r) \in Commands /\ Run(r) \in Tasks
      OBVIOUS
    <2>2. Doing(<<"depend", Entry, Run(r)>>) \/ Doing(<<"depend", Run(r), Barrier>>) =>
            status[Run(r)] \in {"none", "created"}
      BY <2>1, MakerFacts DEF Doing
    <2>3. status[Run(r)] # "none" =>
            /\ Entry \in preds[Run(r)] \/ status[Entry] = "done" \/ Doing(<<"depend", Entry, Run(r)>>)
            /\ Run(r) \in preds[Barrier] \/ Doing(<<"depend", Run(r), Barrier>>)
      BY DEF GraphOK
    <2>4. Started(Run(r)) /\ Entry \in preds[Run(r)] => status[Entry] = "done"
      BY <2>1 DEF GraphOK
    <2>5. Started(Barrier) /\ Run(r) \in preds[Barrier] => status[Run(r)] = "done"
      BY DEF GraphOK
    <2> QED BY <2>2, <2>3, <2>4, <2>5 DEF Started
  <1>6. ASSUME NEW v \in Workers, Started(Terminal)
        PROVE  status[Finalizer(v)] \in {"none", "done"}
    <2>1. Finalizer(v) \in Commands
      OBVIOUS
    <2>2. ~Doing(<<"depend", Finalizer(v), Terminal>>)
      BY <1>1, <1>6, <2>1, MakerFacts DEF Doing
    <2>3. status[Finalizer(v)] # "none" => Finalizer(v) \in preds[Terminal]
      BY <2>2 DEF GraphOK
    <2>4. Finalizer(v) \in preds[Terminal] => status[Finalizer(v)] = "done"
      BY <1>6 DEF GraphOK
    <2> QED BY <2>3, <2>4
  <1> QED BY <1>1, <1>2, <1>3, <1>4, <1>5, <1>6

\* No worker is initialized once the terminal task has started.
LEMMA TerminalFacts ==
  ASSUME ProcessInv, Started(Terminal)
  PROVE  thread_local_initialized = {}
  <1>1. SUFFICES ASSUME NEW v \in thread_local_initialized PROVE FALSE
    OBVIOUS
  <1>2. v \in Workers /\ Finalizer(v) \in Commands
    BY Names DEF ProcessInv, ProcessTypeOK
  <1>3. status[Barrier] = "done" /\ status[Finalizer(v)] \in {"none", "done"}
    BY <1>2, OrderFacts DEF ProcessInv
  <1>4. IsMade(Finalizer(v)) /\ status[Finalizer(v)] # "done"
    BY <1>2, <1>3 DEF ProcessInv, CountOK, Begun
  <1>5. ~Doing(<<"create", Finalizer(v)>>)
    BY <1>2, <1>3, MakerFacts DEF Doing, ProcessInv
  <1> QED BY <1>3, <1>4, <1>5 DEF IsMade

\* A task that runs a loop has not begun the turn that it is about to begin.
LEMMA NotBegun ==
  ASSUME OwnOK, NEW w \in Workers, NEW t, Runner(w, t), t # Foreign, NEW op,
         op \in Left(w) \/ <<"global_init">> \in Left(w)
  PROVE  ~Begun(t, op)
  BY OneRunner DEF Begun

-----------------------------------------------------------------------------
(* The calls into the scheduler, in terms of the graph.                    *)

\* create_logical_task, from the script of whoever makes the command.
LEMMA CreateFacts ==
  ASSUME ProcessTypeOK, ScriptOK, NEW w \in Workers, Create(w)
  PROVE  \E c \in Commands :
           /\ pc[w] = "run" /\ Op(w) = <<"create", c>> /\ Op(w) \in Left(w) /\ <<"commit", c>> \in Left(w)
           /\ \A r \in Runs : c = Run(r) =>
                <<"depend", Entry, c>> \in Left(w) /\ <<"depend", c, Barrier>> \in Left(w)
           /\ \A v \in Workers : c = Finalizer(v) => <<"depend", c, Terminal>> \in Left(w)
           /\ status[c] = "none" /\ status' = [status EXCEPT ![c] = "created"]
           /\ preds' = preds /\ UNCHANGED <<slots, flags, data, setup>>
           /\ Effect(w, Left(w) \ {<<"create", c>>})
  <1>1. At(w, "create") /\ TG!Create(Op(w)[2]) /\ UNCHANGED <<slots, flags, data, setup>>
    BY DEF Create
  <1>2. pc[w] = "run" /\ Op(w)[1] = "create" /\ Heads(task[w], Op(w), Left(w)) /\ Op(w) \in Left(w)
    BY <1>1, Busy
  <1>3. PICK c \in Commands :
           /\ Op(w) = <<"create", c>> /\ <<"commit", c>> \in Left(w)
           /\ \A r \in Runs : c = Run(r) =>
                <<"depend", Entry, c>> \in Left(w) /\ <<"depend", c, Barrier>> \in Left(w)
           /\ \A v \in Workers : c = Finalizer(v) => <<"depend", c, Terminal>> \in Left(w)
    BY <1>2 DEF Heads, LoopHeads
  <1>4. status[c] = "none" /\ status' = [status EXCEPT ![c] = "created"] /\ preds' = preds
    BY <1>1, <1>3 DEF TG!Create, TG!Move
  <1>5. Effect(w, Left(w) \ {<<"create", c>>})
    BY <1>3, PopActions
  <1> QED BY <1>1, <1>2, <1>3, <1>4, <1>5

\* add_dependency, from the script of whoever makes the command.
LEMMA DependFacts ==
  ASSUME ProcessTypeOK, ScriptOK, SpawnOK, NEW w \in Workers, Depend(w)
  PROVE  \E c \in Commands :
           /\ pc[w] = "run" /\ Op(w) \in Left(w) /\ <<"commit", c>> \in Left(w) /\ <<"create", c>> \notin Left(w)
           /\ status[c] = "created" /\ status' = status
           /\ \/ \E r \in Runs : /\ c = Run(r) /\ Op(w) = <<"depend", Entry, c>>
                                 /\ \/ status[Entry] = "done" /\ preds' = preds
                                    \/ preds' = [preds EXCEPT ![c] = @ \cup {Entry}]
              \/ \E r \in Runs : /\ c = Run(r) /\ Op(w) = <<"depend", c, Barrier>>
                                 /\ status[Barrier] \in {"created", "committed"}
                                 /\ preds' = [preds EXCEPT ![Barrier] = @ \cup {c}]
              \/ \E v \in Workers : /\ c = Finalizer(v) /\ Op(w) = <<"depend", c, Terminal>>
                                    /\ status[Terminal] \in {"created", "committed"}
                                    /\ preds' = [preds EXCEPT ![Terminal] = @ \cup {c}]
           /\ UNCHANGED <<slots, flags, data, setup>>
           /\ Effect(w, Left(w) \ {Op(w)})
  <1>1. /\ At(w, "depend") /\ UNCHANGED <<slots, flags, data, setup>>
        /\ IF status[Op(w)[2]] = "done" THEN UNCHANGED sched
           ELSE TG!AddDependency(Op(w)[2], Op(w)[3])
    BY DEF Depend
  <1>2. pc[w] = "run" /\ Op(w)[1] = "depend" /\ Heads(task[w], Op(w), Left(w)) /\ Op(w) \in Left(w)
    BY <1>1, Busy
  <1>3. PICK c \in Commands :
          /\ <<"commit", c>> \in Left(w) /\ <<"create", c>> \notin Left(w)
          /\ \/ \E r \in Runs : c = Run(r) /\ Op(w) = <<"depend", Entry, c>>
             \/ \E r \in Runs : c = Run(r) /\ Op(w) = <<"depend", c, Barrier>>
             \/ \E v \in Workers : c = Finalizer(v) /\ Op(w) = <<"depend", c, Terminal>>
    BY <1>2 DEF Heads, LoopHeads
  <1>4. status[c] = "created"
    BY <1>3 DEF SpawnOK
  <1>5. Effect(w, Left(w) \ {Op(w)})
    BY PopActions
  <1>6. ASSUME NEW p, NEW s, Op(w) = <<"depend", p, s>>
        PROVE  /\ status' = status
               /\ \/ status[p] = "done" /\ preds' = preds
                  \/ /\ preds' = [preds EXCEPT ![s] = @ \cup {p}]
                     /\ status[s] \in {"created", "committed"} /\ status[p] # "done"
    BY <1>1, <1>6 DEF sched, TG!AddDependency
  <1>7. status' = status
    BY <1>3, <1>6
  <1>8. CASE \E r \in Runs : c = Run(r) /\ Op(w) = <<"depend", Entry, c>>
    <2>1. (status[Entry] = "done" /\ preds' = preds) \/ preds' = [preds EXCEPT ![c] = @ \cup {Entry}]
      BY <1>6, <1>8
    <2> QED BY <1>1, <1>2, <1>3, <1>4, <1>5, <1>7, <1>8, <2>1
  <1>9. CASE \E r \in Runs : c = Run(r) /\ Op(w) = <<"depend", c, Barrier>>
    <2>1. preds' = [preds EXCEPT ![Barrier] = @ \cup {c}] /\ status[Barrier] \in {"created", "committed"}
      BY <1>4, <1>6, <1>9
    <2> QED BY <1>1, <1>2, <1>3, <1>4, <1>5, <1>7, <1>9, <2>1
  <1>10. CASE \E v \in Workers : c = Finalizer(v) /\ Op(w) = <<"depend", c, Terminal>>
    <2>1. preds' = [preds EXCEPT ![Terminal] = @ \cup {c}] /\ status[Terminal] \in {"created", "committed"}
      BY <1>4, <1>6, <1>10
    <2> QED BY <1>1, <1>2, <1>3, <1>4, <1>5, <1>7, <1>10, <2>1
  <1> QED BY <1>3, <1>8, <1>9, <1>10

\* commit_process_command, from the script of whoever made the command.
LEMMA CommitFacts ==
  ASSUME ProcessTypeOK, ScriptOK, SpawnOK, NEW w \in Workers, CommitProcessCommand(w)
  PROVE  \E c \in Commands :
           /\ pc[w] = "run" /\ Op(w) = <<"commit", c>> /\ Op(w) \in Left(w) /\ <<"create", c>> \notin Left(w)
           /\ status[c] = "created" /\ ~QueueHas(c) /\ preds' = preds
           /\ \/ /\ remaining = 0 /\ remaining' = 0 /\ task_queue' = Append(task_queue, c)
                 /\ status' = status
              \/ /\ remaining # 0 /\ remaining' = remaining - 1 /\ task_queue' = task_queue
                 /\ status' = [status EXCEPT ![c] = "committed"]
           /\ UNCHANGED <<flags, data, setup>>
           /\ Effect(w, Left(w) \ {<<"commit", c>>})
  <1>1. /\ At(w, "commit") /\ UNCHANGED <<flags, data, setup>>
        /\ IF remaining = 0
             THEN task_queue' = Append(task_queue, Op(w)[2]) /\ UNCHANGED <<remaining, sched>>
             ELSE remaining' = remaining - 1 /\ TG!Commit(Op(w)[2]) /\ UNCHANGED task_queue
    BY DEF CommitProcessCommand
  <1>2. pc[w] = "run" /\ Op(w)[1] = "commit" /\ Heads(task[w], Op(w), Left(w)) /\ Op(w) \in Left(w)
    BY <1>1, Busy
  <1>3. PICK c \in Commands : Op(w) = <<"commit", c>> /\ <<"create", c>> \notin Left(w)
    BY <1>2 DEF Heads, LoopHeads
  <1>4. status[c] = "created" /\ ~QueueHas(c)
    BY <1>2, <1>3 DEF SpawnOK
  <1>5. Effect(w, Left(w) \ {<<"commit", c>>})
    BY <1>3, PopActions
  <1>6. /\ preds' = preds
        /\ \/ /\ remaining = 0 /\ remaining' = 0 /\ task_queue' = Append(task_queue, c)
              /\ status' = status
           \/ /\ remaining # 0 /\ remaining' = remaining - 1 /\ task_queue' = task_queue
              /\ status' = [status EXCEPT ![c] = "committed"]
    BY <1>1, <1>3 DEF sched, TG!Commit, TG!Move
  <1> QED BY <1>1, <1>2, <1>3, <1>4, <1>5, <1>6

\* notify_completion commits the first n commands of the queue.
LEMMA NotifyFacts ==
  ASSUME ProcessTypeOK, ScriptOK, SpawnOK, NEW w \in Workers, NotifyCompletion(w)
  PROVE  \E n \in 0 .. Len(task_queue) :
           /\ pc[w] = "run" /\ Op(w) = <<"notify">> /\ task[w] \in Commands
           /\ Left(w) = {<<"notify">>, <<"complete">>}
           /\ n <= remaining + 1 /\ (n = remaining + 1 \/ n = Len(task_queue))
           /\ remaining' = remaining + 1 - n
           /\ status' = [t \in Tasks |-> IF \E i \in 1 .. n : task_queue[i] = t
                                           THEN "committed" ELSE status[t]]
           /\ \A i \in 1 .. n : status[task_queue[i]] = "created"
           /\ task_queue' = SubSeq(task_queue, n + 1, Len(task_queue))
           /\ preds' = preds /\ UNCHANGED <<flags, data, setup>>
           /\ Effect(w, {<<"complete">>})
  <1> DEFINE n == IF remaining + 1 < Len(task_queue) THEN remaining + 1 ELSE Len(task_queue)
  <1>1. /\ At(w, "notify") /\ UNCHANGED <<preds, flags, data, setup>>
        /\ remaining' = remaining + 1 - n
        /\ status' = [t \in Tasks |-> IF \E i \in 1 .. n : task_queue[i] = t
                                        THEN "committed" ELSE status[t]]
        /\ task_queue' = SubSeq(task_queue, n + 1, Len(task_queue))
    BY DEF NotifyCompletion
  <1>2. pc[w] = "run" /\ Op(w)[1] = "notify" /\ Heads(task[w], Op(w), Left(w)) /\ Op(w) \in Left(w)
    BY <1>1, Busy
  <1>3. task[w] \in Commands /\ Left(w) = {<<"notify">>, <<"complete">>} /\ Op(w) = <<"notify">>
    BY <1>2 DEF Heads, StraightHeads
  <1>4. Left(w) \ {Op(w)} = {<<"complete">>}
    BY <1>3
  <1>5. Effect(w, {<<"complete">>})
    BY <1>4, PopActions
  <1>6. Len(task_queue) \in Nat /\ remaining \in Nat
    BY DEF ProcessTypeOK
  <1>7. n \in 0 .. Len(task_queue) /\ n <= remaining + 1 /\ (n = remaining + 1 \/ n = Len(task_queue))
    BY <1>6
  <1>8. \A i \in 1 .. n : status[task_queue[i]] = "created"
    BY <1>6, <1>7 DEF SpawnOK
  <1> HIDE DEF n
  <1> QED BY <1>1, <1>2, <1>3, <1>5, <1>7, <1>8

-----------------------------------------------------------------------------
(* Who runs what.                                                          *)

\* A step that starts and completes no task preserves OwnOK.
LEMMA OwnQuiet ==
  ASSUME OwnOK, shape' = shape, cancelled => cancelled',
         \A w \in Workers : pc'[w] = pc[w] /\ task'[w] = task[w],
         \A t \in Tasks : /\ status'[t] = "running" <=> status[t] = "running"
                          /\ status'[t] = "done" <=> status[t] = "done",
         \A w \in Workers : task[w] \in Tasks
  PROVE  OwnOK'
  <1>1. Initial' = Initial
    BY DEF Initial, DataPorts, Needs
  <1>2. \A t \in Tasks : Started(t)' <=> Started(t)
    BY DEF Started
  <1>3. Terminal \in Tasks
    BY Names
  <1> QED BY <1>1, <1>2, <1>3 DEF OwnOK

\* So does a completion, ...
LEMMA OwnComplete ==
  ASSUME ProcessInv, NEW w \in Workers, Complete(w)
  PROVE  OwnOK' /\ pc[w] = "run" /\ status[task[w]] = "running"
         /\ status' = [status EXCEPT ![task[w]] = "done"] /\ preds' = preds
  <1>1. pc[w] = "run" /\ pc' = [pc EXCEPT ![w] = "loop"]
    BY EffectComplete DEF ProcessInv, Moves
  <1>2. /\ status' = [status EXCEPT ![task[w]] = "done"] /\ task' = task /\ shape' = shape
        /\ cancelled' = cancelled /\ status[task[w]] = "running" /\ preds' = preds
    BY DEF Complete, TG!Complete, TG!Move, setup
  <1>3. /\ task \in [Actors -> Tasks] /\ pc \in [Actors -> Places]
        /\ status \in [Tasks -> {"none", "created", "committed", "running", "done"}]
        /\ Workers \subseteq Actors /\ OwnOK /\ Terminal \in Tasks /\ Foreign \in Tasks
    BY Constants, Names DEF ProcessInv, ProcessTypeOK
  <1>4. /\ pc'[w] = "loop" /\ \A v \in Workers : v # w => pc'[v] = pc[v]
        /\ task[w] \in Tasks /\ status'[task[w]] = "done"
        /\ \A t \in Tasks : t # task[w] => status'[t] = status[t]
    BY <1>1, <1>2, <1>3
  <1>5. \A t \in Tasks : Started(t)' <=> Started(t)
    BY <1>2, <1>4 DEF Started
  <1>6. Initial' = Initial
    BY <1>2 DEF Initial, DataPorts, Needs
  <1>7. ASSUME NEW v \in Workers
        PROVE  /\ (pc[v] = "run" => status[task[v]] = "running")'
               /\ (task[v] # Foreign => Started(task[v]))'
               /\ (task[v] # Foreign /\ pc[v] \in {"loop", "take", "left"} => status[task[v]] = "done")'
               /\ \A u \in Workers :
                    (v # u /\ task[v] = task[u] => task[v] = Foreign /\ ~(pc[v] = "run" /\ pc[u] = "run"))'
               /\ \A u \in Workers : (task[v] = Finalizer(u) => u = v)'
               /\ (pc[v] \in {"left", "leave", "exit"} => cancelled \/ status[Terminal] = "done")'
               /\ (task[v] \in Initial \cup Commands)'
    <2>1. task[v] \in Tasks
      BY <1>3
    <2>2. (pc[v] = "run" => status[task[v]] = "running")'
      <3>1. v # w /\ task[v] = task[w] => pc[v] # "run"
        BY <1>1, <1>3 DEF OwnOK
      <3> QED BY <3>1, <2>1, <1>2, <1>3, <1>4 DEF OwnOK
    <2>3. (task[v] # Foreign => Started(task[v]))'
      BY <2>1, <1>2, <1>3, <1>5 DEF OwnOK
    <2>4. (task[v] # Foreign /\ pc[v] \in {"loop", "take", "left"} => status[task[v]] = "done")'
      BY <2>1, <1>2, <1>3, <1>4 DEF OwnOK
    <2>5. \A u \in Workers :
            (v # u /\ task[v] = task[u] => task[v] = Foreign /\ ~(pc[v] = "run" /\ pc[u] = "run"))'
      BY <1>2, <1>3, <1>4 DEF OwnOK
    <2>6. (pc[v] \in {"left", "leave", "exit"} => cancelled \/ status[Terminal] = "done")'
      BY <1>2, <1>3, <1>4 DEF OwnOK
    <2> QED BY <2>2, <2>3, <2>4, <2>5, <2>6, <1>2, <1>3, <1>6 DEF OwnOK
  <1>8. ASSUME NEW t \in Tasks, status'[t] = "running"
        PROVE  \E v \in Workers : task'[v] = t /\ pc'[v] \in {"run", "leave", "exit"}
    <2>1. t # task[w] /\ status[t] = "running"
      BY <1>4, <1>8
    <2>2. PICK v \in Workers : task[v] = t /\ pc[v] \in {"run", "leave", "exit"}
      BY <2>1, <1>3 DEF OwnOK
    <2> QED BY <2>1, <2>2, <1>2, <1>4
  <1> QED BY <1>1, <1>2, <1>7, <1>8 DEF OwnOK

\* A worker goes on without a task being started or completed.
LEMMA OwnMove ==
  ASSUME ProcessInv, NEW w \in Workers, NEW p \in Places, pc' = [pc EXCEPT ![w] = p],
         status' = status, task' = task, shape' = shape, cancelled => cancelled',
         \/ pc[w] = "loop" /\ p = "take"
         \/ pc[w] = "loop" /\ p = "left" /\ (cancelled \/ status[Terminal] = "done")
         \/ pc[w] = "take" /\ p = "loop"
         \/ pc[w] = "left" /\ p = "leave"
         \/ pc[w] = "leave" /\ p = "exit"
         \/ pc[w] \in {"run", "leave"} /\ p = "leave" /\ cancelled'
  PROVE  OwnOK'
  <1>1. /\ pc'[w] = p /\ \A v \in Workers : v # w => pc'[v] = pc[v]
        /\ OwnOK
    BY Constants DEF ProcessInv, ProcessTypeOK
  <1>2. Initial' = Initial /\ \A t : Started(t)' <=> Started(t)
    BY DEF Initial, DataPorts, Needs, Started
  <1>3. ASSUME NEW t \in Tasks, status'[t] = "running"
        PROVE  \E v \in Workers : task'[v] = t /\ pc'[v] \in {"run", "leave", "exit"}
    <2>1. PICK v \in Workers : task[v] = t /\ pc[v] \in {"run", "leave", "exit"}
      BY <1>1, <1>3 DEF OwnOK
    <2> QED BY <2>1, <1>1
  <1>4. ASSUME NEW v \in Workers
        PROVE  /\ (pc[v] = "run" => status[task[v]] = "running")'
               /\ (task[v] # Foreign => Started(task[v]))'
               /\ (task[v] # Foreign /\ pc[v] \in {"loop", "take", "left"} => status[task[v]] = "done")'
               /\ \A u \in Workers :
                    (v # u /\ task[v] = task[u] => task[v] = Foreign /\ ~(pc[v] = "run" /\ pc[u] = "run"))'
               /\ \A u \in Workers : (task[v] = Finalizer(u) => u = v)'
               /\ (pc[v] \in {"left", "leave", "exit"} => cancelled \/ status[Terminal] = "done")'
               /\ (task[v] \in Initial \cup Commands)'
    <2>1. CASE v = w
      BY <2>1, <1>1, <1>2 DEF OwnOK
    <2>2. CASE v # w
      BY <2>2, <1>1, <1>2 DEF OwnOK
    <2> QED BY <2>1, <2>2
  <1> QED BY <1>3, <1>4 DEF OwnOK

\* ... and the start of a task.
LEMMA OwnTake ==
  ASSUME ProcessInv, NEW w \in Workers, TakeTask(w)
  PROVE  OwnOK'
  <1>1. PICK t \in Initial \cup Commands :
           /\ pc[w] = "take"
           /\ \A v \in Workers : t = Finalizer(v) => v = w
           /\ status[t] = "committed" /\ status' = [status EXCEPT ![t] = "running"]
           /\ task' = [task EXCEPT ![w] = t] /\ shape' = shape /\ cancelled' = cancelled
           /\ Moves(w, "run", Body(t))
    BY EffectTake DEF ProcessInv
  <1>2. pc' = [pc EXCEPT ![w] = "run"]
    BY <1>1 DEF Moves
  <1>3. /\ task \in [Actors -> Tasks] /\ pc \in [Actors -> Places]
        /\ status \in [Tasks -> {"none", "created", "committed", "running", "done"}]
        /\ Workers \subseteq Actors /\ OwnOK /\ Terminal \in Tasks /\ Foreign \in Tasks /\ t \in Tasks
    <2>1. Initial \subseteq Tasks /\ Commands \subseteq Tasks
      BY Names, ShapeFacts DEF ProcessInv, ProcessTypeOK, Initial, Tasks
    <2> QED BY <2>1, Constants, Names DEF ProcessInv, ProcessTypeOK
  <1>4. /\ pc'[w] = "run" /\ task'[w] = t /\ status'[t] = "running"
        /\ \A v \in Workers : v # w => pc'[v] = pc[v] /\ task'[v] = task[v]
        /\ \A s \in Tasks : s # t => status'[s] = status[s]
    BY <1>1, <1>2, <1>3
  <1>5. \A s \in Tasks : Started(s) => Started(s)'
    BY <1>4 DEF Started
  <1>6. Initial' = Initial
    BY <1>1 DEF Initial, DataPorts, Needs
  <1>7. \A v \in Workers : task[v] = t => t = Foreign /\ pc[v] # "run"
    BY <1>1, <1>3 DEF OwnOK, Started
  <1>8. ASSUME NEW v \in Workers
        PROVE  /\ (pc[v] = "run" => status[task[v]] = "running")'
               /\ (task[v] # Foreign => Started(task[v]))'
               /\ (task[v] # Foreign /\ pc[v] \in {"loop", "take", "left"} => status[task[v]] = "done")'
               /\ \A u \in Workers :
                    (v # u /\ task[v] = task[u] => task[v] = Foreign /\ ~(pc[v] = "run" /\ pc[u] = "run"))'
               /\ \A u \in Workers : (task[v] = Finalizer(u) => u = v)'
               /\ (pc[v] \in {"left", "leave", "exit"} => cancelled \/ status[Terminal] = "done")'
               /\ (task[v] \in Initial \cup Commands)'
    <2>1. CASE v = w
      <3>1. Started(t)'
        BY <1>4 DEF Started
      <3> QED BY <2>1, <3>1, <1>1, <1>3, <1>4, <1>6, <1>7
    <2>2. CASE v # w
      <3>1. task[v] \in Tasks /\ pc'[v] = pc[v] /\ task'[v] = task[v]
        BY <2>2, <1>3, <1>4
      <3>2. (pc[v] = "run" => status[task[v]] = "running")'
        BY <3>1, <1>3, <1>4, <1>7 DEF OwnOK
      <3>3. (task[v] # Foreign => Started(task[v]))'
        BY <3>1, <1>3, <1>5 DEF OwnOK
      <3>4. (task[v] # Foreign /\ pc[v] \in {"loop", "take", "left"} => status[task[v]] = "done")'
        BY <3>1, <1>3, <1>4, <1>7 DEF OwnOK
      <3>5. \A u \in Workers :
              (v # u /\ task[v] = task[u] => task[v] = Foreign /\ ~(pc[v] = "run" /\ pc[u] = "run"))'
        BY <3>1, <1>3, <1>4, <1>7 DEF OwnOK
      <3>6. (pc[v] \in {"left", "leave", "exit"} => cancelled \/ status[Terminal] = "done")'
        BY <3>1, <1>1, <1>3, <1>4 DEF OwnOK
      <3> QED BY <3>1, <3>2, <3>3, <3>4, <3>5, <3>6, <1>3, <1>6 DEF OwnOK
    <2> QED BY <2>1, <2>2
  <1>9. ASSUME NEW s \in Tasks, status'[s] = "running"
        PROVE  \E v \in Workers : task'[v] = s /\ pc'[v] \in {"run", "leave", "exit"}
    <2>1. CASE s = t
      BY <2>1, <1>4
    <2>2. CASE s # t
      <3>1. PICK v \in Workers : task[v] = s /\ pc[v] \in {"run", "leave", "exit"}
        BY <2>2, <1>3, <1>4, <1>9 DEF OwnOK
      <3>2. v # w
        BY <3>1, <1>1
      <3> QED BY <3>1, <3>2, <1>4
    <2> QED BY <2>1, <2>2
  <1> QED BY <1>8, <1>9 DEF OwnOK

-----------------------------------------------------------------------------
(* What a step leaves alone.                                               *)

\* No worker gains or loses an operation of this name.
Keeps(n) == \A v \in Workers : \A x : x[1] = n => (x \in Left(v)' <=> x \in Left(v))

\* Which steps keep the operations of a name: one that pops another name, ...
LEMMA KeepsPop ==
  ASSUME NEW w \in Workers, Effect(w, Left(w) \ {Op(w)}), NEW n, n # Op(w)[1]
  PROVE  Keeps(n)
  BY Constants DEF Effect, Keeps

\* ... one that pops another name and pushes others, ...
LEMMA KeepsPush ==
  ASSUME NEW w \in Workers, NEW A, Effect(w, (Left(w) \ {Op(w)}) \cup A), NEW n, n # Op(w)[1],
         \A x \in A : x[1] # n
  PROVE  Keeps(n)
  BY Constants DEF Effect, Keeps

\* ... one that changes scripts without the name, ...
LEMMA KeepsMove ==
  ASSUME NEW w \in Workers, NEW p, NEW s, Moves(w, p, s), NEW n,
         \A x \in Left(w) : x[1] # n, \A x \in Left(w)' : x[1] # n
  PROVE  Keeps(n)
  BY Constants DEF Moves, Keeps

\* ... and every step of the caller of execute().
LEMMA KeepsMain ==
  ASSUME NEW p, NEW s, Moves(Main, p, s), NEW n
  PROVE  Keeps(n)
  BY Constants DEF Moves, Keeps

\* An operation of a command is left to somebody who runs.
LEMMA DoingLeft ==
  ASSUME ScriptOK, ScriptOK', NEW x, x[1] \notin {"tl_finalize", "user_tl_finalize"}
  PROVE  /\ Doing(x) <=> \E v \in Workers : x \in Left(v)
         /\ Doing(x)' <=> \E v \in Workers : x \in Left(v)'
  <1>1. Elements(<<>>) = {} /\ \A a : Elements(<<a>>) = {a}
    BY Literals
  <1>2. \A v \in Workers : pc[v] # "run" => x \notin Left(v)
    BY <1>1 DEF ScriptOK, Left
  <1>3. \A v \in Workers : pc'[v] # "run" => x \notin Left(v)'
    <2> SUFFICES ASSUME NEW v \in Workers, pc'[v] # "run" PROVE x \notin Left(v)'
      OBVIOUS
    <2>1. script'[v] \in {<<>>, <<<<"tl_finalize">>>>, <<<<"user_tl_finalize">>>>}
      BY DEF ScriptOK
    <2>2. Left(v)' = Elements(script'[v])
      BY DEF Left, Elements
    <2> QED BY <1>1, <2>1, <2>2
  <1> QED BY <1>2, <1>3 DEF Doing

-----------------------------------------------------------------------------
(* The graph.                                                              *)

\* A command that is created or waits may be committed, tasks go on.
LEMMA GraphKept ==
  ASSUME ScriptOK, ScriptOK', GraphOK, preds \in [Tasks -> SUBSET Tasks], preds' = preds,
         shape' = shape, shape \in Shapes,
         \A v \in Workers : \A x \in Left(v) : x[1] = "depend" => x \in Left(v)',
         \A t \in Tasks :
           /\ status'[t] = "none" <=> status[t] = "none"
           /\ status[t] = "done" => status'[t] = "done"
           /\ status[t] \in {"committed", "running", "done"} =>
                status'[t] \in {"committed", "running", "done"}
           /\ Started(t)' => Started(t) \/ \A p \in preds[t] : status[p] = "done"
  PROVE  GraphOK'
  <1>1. Initial' = Initial /\ \A t : InitialPreds(t)' = InitialPreds(t)
    BY DEF Initial, InitialPreds, DataPorts, Needs
  <1>2. Initial \subseteq Tasks /\ Commands \subseteq Tasks
    BY Names, ShapeFacts DEF Initial, Tasks
  <1>3. \A p, t : Doing(<<"depend", p, t>>) => Doing(<<"depend", p, t>>)'
    <2> TAKE p, t
    <2>1. \A v \in Workers : <<"depend", p, t>> \in Left(v) => <<"depend", p, t>> \in Left(v)'
      OBVIOUS
    <2> QED BY <2>1, DoingLeft
  <1>4. (\A t \in Initial : status[t] \in {"committed", "running", "done"})'
    BY <1>1, <1>2 DEF GraphOK
  <1>5. (\A t \in Tasks : status[t] # "none" => t \in Initial \cup Commands)'
    BY <1>1 DEF GraphOK
  <1>6. (\A t \in Tasks : Started(t) => \A p \in preds[t] : status[p] = "done")'
    BY DEF GraphOK
  <1>7. (\A t \in Initial : InitialPreds(t) \subseteq preds[t])'
    BY <1>1 DEF GraphOK
  <1>8. (\A r \in Runs : status[Run(r)] # "none" =>
       /\ Entry \in preds[Run(r)] \/ status[Entry] = "done" \/ Doing(<<"depend", Entry, Run(r)>>)
       /\ Run(r) \in preds[Barrier] \/ Doing(<<"depend", Run(r), Barrier>>))'
    <2> SUFFICES ASSUME NEW r \in Runs, status'[Run(r)] # "none"
                 PROVE  /\ Entry \in preds[Run(r)] \/ status'[Entry] = "done" \/ Doing(<<"depend", Entry, Run(r)>>)'
                        /\ Run(r) \in preds[Barrier] \/ Doing(<<"depend", Run(r), Barrier>>)'
      OBVIOUS
    <2>1. Run(r) \in Tasks /\ Entry \in Tasks
      BY Names
    <2>2. status[Run(r)] # "none"
      BY <2>1
    <2> QED BY <2>1, <2>2, <1>3 DEF GraphOK
  <1>9. (\A v \in Workers : status[Finalizer(v)] # "none" =>
       Finalizer(v) \in preds[Terminal] \/ Doing(<<"depend", Finalizer(v), Terminal>>))'
    <2> SUFFICES ASSUME NEW v \in Workers, status'[Finalizer(v)] # "none"
                 PROVE  Finalizer(v) \in preds[Terminal] \/ Doing(<<"depend", Finalizer(v), Terminal>>)'
      OBVIOUS
    <2>1. Finalizer(v) \in Tasks
      BY Names
    <2> QED BY <2>1, <1>3 DEF GraphOK
  <1> QED BY <1>4, <1>5, <1>6, <1>7, <1>8, <1>9 DEF GraphOK

\* A new command owes its dependencies to the script that makes it.
LEMMA GraphCreate ==
  ASSUME ProcessInv, NEW w \in Workers, Create(w)
  PROVE  GraphOK'
  <1>1. ProcessTypeOK /\ ScriptOK /\ GraphOK /\ shape \in Shapes /\ Workers \subseteq Actors
    BY Constants DEF ProcessInv, ProcessTypeOK
  <1>2. PICK c \in Commands :
           /\ pc[w] = "run" /\ Op(w) = <<"create", c>>
           /\ \A r \in Runs : c = Run(r) =>
                <<"depend", Entry, c>> \in Left(w) /\ <<"depend", c, Barrier>> \in Left(w)
           /\ \A v \in Workers : c = Finalizer(v) => <<"depend", c, Terminal>> \in Left(w)
           /\ status[c] = "none" /\ status' = [status EXCEPT ![c] = "created"]
           /\ preds' = preds /\ UNCHANGED setup
           /\ Effect(w, Left(w) \ {<<"create", c>>})
    BY <1>1, CreateFacts
  <1>3. ScriptOK' /\ pc' = pc /\ shape' = shape /\ Left(w)' = Left(w) \ {<<"create", c>>}
        /\ Keeps("depend")
    <2>1. Effect(w, Left(w) \ {Op(w)}) /\ Op(w)[1] = "create"
      BY <1>2
    <2> QED BY <2>1, <1>2, KeepsPop DEF Effect, Steady
  <1>4. /\ status \in [Tasks -> {"none", "created", "committed", "running", "done"}]
        /\ preds \in [Tasks -> SUBSET Tasks] /\ c \in Tasks /\ Commands \subseteq Tasks
    BY <1>1, Names DEF ProcessTypeOK
  <1>5. status'[c] = "created" /\ \A t \in Tasks : t # c => status'[t] = status[t]
    BY <1>2, <1>4
  <1>6. Initial' = Initial /\ \A t : InitialPreds(t)' = InitialPreds(t)
    BY <1>3 DEF Initial, InitialPreds, DataPorts, Needs
  <1>7. Initial \subseteq Tasks /\ c \notin Initial
    BY Names, ShapeFacts, <1>1 DEF Initial, Tasks
  <1>8. \A p, t : Doing(<<"depend", p, t>>)' <=> Doing(<<"depend", p, t>>)
    <2> TAKE p, t
    <2>1. \A v \in Workers : <<"depend", p, t>> \in Left(v)' <=> <<"depend", p, t>> \in Left(v)
      BY <1>3 DEF Keeps
    <2> QED BY <2>1, <1>1, <1>3, DoingLeft
  <1>9. (\A t \in Initial : status[t] \in {"committed", "running", "done"})'
    BY <1>1, <1>5, <1>6, <1>7 DEF GraphOK
  <1>10. (\A t \in Tasks : status[t] # "none" => t \in Initial \cup Commands)'
    BY <1>1, <1>5, <1>6 DEF GraphOK
  <1>11. (\A t \in Tasks : Started(t) => \A p \in preds[t] : status[p] = "done")'
    BY <1>1, <1>2, <1>4, <1>5 DEF GraphOK, Started
  <1>12. (\A t \in Initial : InitialPreds(t) \subseteq preds[t])'
    BY <1>1, <1>2, <1>6 DEF GraphOK
  <1>13. (\A r \in Runs : status[Run(r)] # "none" =>
       /\ Entry \in preds[Run(r)] \/ status[Entry] = "done" \/ Doing(<<"depend", Entry, Run(r)>>)
       /\ Run(r) \in preds[Barrier] \/ Doing(<<"depend", Run(r), Barrier>>))'
    <2> SUFFICES ASSUME NEW r \in Runs, status'[Run(r)] # "none"
                 PROVE  /\ Entry \in preds[Run(r)] \/ status'[Entry] = "done" \/ Doing(<<"depend", Entry, Run(r)>>)'
                        /\ Run(r) \in preds[Barrier] \/ Doing(<<"depend", Run(r), Barrier>>)'
      BY <1>2
    <2>1. Run(r) \in Tasks /\ Entry \in Tasks /\ Entry # c
      BY Names
    <2>2. CASE c = Run(r)
      <3>1. Doing(<<"depend", Entry, c>>) /\ Doing(<<"depend", c, Barrier>>)
        BY <1>2, <2>2 DEF Doing
      <3> QED BY <3>1, <2>2, <1>8
    <2>3. CASE c # Run(r)
      BY <2>1, <2>3, <1>1, <1>5, <1>8 DEF GraphOK
    <2> QED BY <2>2, <2>3
  <1>14. (\A v \in Workers : status[Finalizer(v)] # "none" =>
       Finalizer(v) \in preds[Terminal] \/ Doing(<<"depend", Finalizer(v), Terminal>>))'
    <2> SUFFICES ASSUME NEW v \in Workers, status'[Finalizer(v)] # "none"
                 PROVE  Finalizer(v) \in preds[Terminal] \/ Doing(<<"depend", Finalizer(v), Terminal>>)'
      BY <1>2
    <2>1. Finalizer(v) \in Tasks
      BY Names
    <2>2. CASE c = Finalizer(v)
      <3>1. Doing(<<"depend", c, Terminal>>)
        BY <1>2, <2>2 DEF Doing
      <3> QED BY <3>1, <2>2, <1>8
    <2>3. CASE c # Finalizer(v)
      BY <2>1, <2>3, <1>1, <1>5, <1>8 DEF GraphOK
    <2> QED BY <2>2, <2>3
  <1> QED BY <1>9, <1>10, <1>11, <1>12, <1>13, <1>14 DEF GraphOK

\* A dependency that is added is no longer owed.
LEMMA GraphDepend ==
  ASSUME ProcessInv, NEW w \in Workers, Depend(w)
  PROVE  GraphOK'
  <1>1. ProcessTypeOK /\ ScriptOK /\ GraphOK /\ SpawnOK /\ shape \in Shapes
    BY DEF ProcessInv, ProcessTypeOK
  <1>2. PICK c \in Commands :
           /\ pc[w] = "run" /\ Op(w) \in Left(w) /\ status[c] = "created" /\ status' = status
           /\ \/ \E r \in Runs : /\ c = Run(r) /\ Op(w) = <<"depend", Entry, c>>
                                 /\ \/ status[Entry] = "done" /\ preds' = preds
                                    \/ preds' = [preds EXCEPT ![c] = @ \cup {Entry}]
              \/ \E r \in Runs : /\ c = Run(r) /\ Op(w) = <<"depend", c, Barrier>>
                                 /\ status[Barrier] \in {"created", "committed"}
                                 /\ preds' = [preds EXCEPT ![Barrier] = @ \cup {c}]
              \/ \E v \in Workers : /\ c = Finalizer(v) /\ Op(w) = <<"depend", c, Terminal>>
                                    /\ status[Terminal] \in {"created", "committed"}
                                    /\ preds' = [preds EXCEPT ![Terminal] = @ \cup {c}]
           /\ UNCHANGED setup
           /\ Effect(w, Left(w) \ {Op(w)})
    BY <1>1, DependFacts
  <1>3. ScriptOK' /\ pc' = pc /\ shape' = shape /\ Left(w)' = Left(w) \ {Op(w)}
        /\ \A v \in Workers \ {w} : Left(v)' = Left(v)
    BY <1>2, Constants DEF Effect, Steady
  <1>4. /\ preds \in [Tasks -> SUBSET Tasks] /\ c \in Tasks /\ Commands \subseteq Tasks
        /\ {Entry, Barrier, Terminal} \subseteq Tasks
    BY <1>1, Names DEF ProcessTypeOK
  <1>5. Initial' = Initial /\ (\A t : InitialPreds(t)' = InitialPreds(t)) /\ Initial \subseteq Tasks
    BY <1>1, <1>3, Names, ShapeFacts DEF Initial, InitialPreds, DataPorts, Needs, Tasks
  <1>6. \A x : x[1] = "depend" /\ x # Op(w) => (Doing(x)' <=> Doing(x))
    <2> SUFFICES ASSUME NEW x, x[1] = "depend", x # Op(w) PROVE Doing(x)' <=> Doing(x)
      OBVIOUS
    <2>1. \A v \in Workers : x \in Left(v)' <=> x \in Left(v)
      BY <1>3
    <2> QED BY <2>1, <1>1, <1>3, DoingLeft
  <1>7. \A t \in Tasks : preds[t] \subseteq preds'[t]
    BY <1>2, <1>4
  <1>8. ASSUME NEW t \in Tasks, Started(t) PROVE preds'[t] = preds[t]
    <2>1. /\ t # c
          /\ status[Barrier] \in {"created", "committed"} => t # Barrier
          /\ status[Terminal] \in {"created", "committed"} => t # Terminal
      BY <1>2, <1>8 DEF Started
    <2> QED BY <1>2, <1>4, <2>1
  <1>9. \A t : Started(t)' <=> Started(t)
    BY <1>2 DEF Started
  <1>10. (\A t \in Initial : status[t] \in {"committed", "running", "done"})'
    BY <1>1, <1>2, <1>5 DEF GraphOK
  <1>11. (\A t \in Tasks : status[t] # "none" => t \in Initial \cup Commands)'
    BY <1>1, <1>2, <1>5 DEF GraphOK
  <1>12. (\A t \in Tasks : Started(t) => \A p \in preds[t] : status[p] = "done")'
    BY <1>1, <1>2, <1>8, <1>9 DEF GraphOK
  <1>13. (\A t \in Initial : InitialPreds(t) \subseteq preds[t])'
    BY <1>1, <1>5, <1>7 DEF GraphOK
  <1>14. (\A r \in Runs : status[Run(r)] # "none" =>
       /\ Entry \in preds[Run(r)] \/ status[Entry] = "done" \/ Doing(<<"depend", Entry, Run(r)>>)
       /\ Run(r) \in preds[Barrier] \/ Doing(<<"depend", Run(r), Barrier>>))'
    <2> SUFFICES ASSUME NEW r \in Runs, status[Run(r)] # "none"
                 PROVE  /\ Entry \in preds'[Run(r)] \/ status[Entry] = "done" \/ Doing(<<"depend", Entry, Run(r)>>)'
                        /\ Run(r) \in preds'[Barrier] \/ Doing(<<"depend", Run(r), Barrier>>)'
      BY <1>2
    <2>1. Run(r) \in Tasks /\ Run(r) # Entry
      BY Names
    <2>2. Entry \in preds'[Run(r)] \/ status[Entry] = "done" \/ Doing(<<"depend", Entry, Run(r)>>)'
      <3>1. CASE Op(w) = <<"depend", Entry, Run(r)>>
        <4>1. c = Run(r) /\ (status[Entry] = "done" \/ preds' = [preds EXCEPT ![c] = @ \cup {Entry}])
          BY <3>1, <1>2, Names
        <4> QED BY <4>1, <1>4
      <3>2. CASE Op(w) # <<"depend", Entry, Run(r)>>
        BY <3>2, <1>1, <1>6, <1>7, <2>1 DEF GraphOK
      <3> QED BY <3>1, <3>2
    <2>3. Run(r) \in preds'[Barrier] \/ Doing(<<"depend", Run(r), Barrier>>)'
      <3>1. CASE Op(w) = <<"depend", Run(r), Barrier>>
        <4>1. c = Run(r) /\ preds' = [preds EXCEPT ![Barrier] = @ \cup {c}]
          BY <3>1, <1>2, Names
        <4> QED BY <4>1, <1>4
      <3>2. CASE Op(w) # <<"depend", Run(r), Barrier>>
        BY <3>2, <1>1, <1>4, <1>6, <1>7, <2>1 DEF GraphOK
      <3> QED BY <3>1, <3>2
    <2> QED BY <2>2, <2>3
  <1>15. (\A v \in Workers : status[Finalizer(v)] # "none" =>
       Finalizer(v) \in preds[Terminal] \/ Doing(<<"depend", Finalizer(v), Terminal>>))'
    <2> SUFFICES ASSUME NEW v \in Workers, status[Finalizer(v)] # "none"
                 PROVE  Finalizer(v) \in preds'[Terminal] \/ Doing(<<"depend", Finalizer(v), Terminal>>)'
      BY <1>2
    <2>1. CASE Op(w) = <<"depend", Finalizer(v), Terminal>>
      <3>1. c = Finalizer(v) /\ preds' = [preds EXCEPT ![Terminal] = @ \cup {c}]
        BY <2>1, <1>2, Names
      <3> QED BY <3>1, <1>4
    <2>2. CASE Op(w) # <<"depend", Finalizer(v), Terminal>>
      BY <2>2, <1>1, <1>4, <1>6, <1>7 DEF GraphOK
    <2> QED BY <2>1, <2>2
  <1> QED BY <1>10, <1>11, <1>12, <1>13, <1>14, <1>15 DEF GraphOK

-----------------------------------------------------------------------------
(* Commands are made once.                                                 *)

\* A step that makes nothing preserves SpawnOK.
LEMMA SpawnKept ==
  ASSUME SpawnOK, Keeps("create"), Keeps("commit"), task_queue' = task_queue,
         task_queue \in Seq(Commands),
         \A t \in Commands : /\ status'[t] = "none" <=> status[t] = "none"
                             /\ status'[t] = "created" <=> status[t] = "created"
  PROVE  SpawnOK'
  <1>1. \A w \in Workers : \A t \in Commands :
          /\ <<"create", t>> \in Left(w)' <=> <<"create", t>> \in Left(w)
          /\ <<"commit", t>> \in Left(w)' <=> <<"commit", t>> \in Left(w)
    BY DEF Keeps
  <1>2. \A t : QueueHas(t)' <=> QueueHas(t)
    BY DEF QueueHas
  <1>3. \A i \in 1 .. Len(task_queue) : task_queue[i] \in Commands
    OBVIOUS
  <1>4. (\A i \in 1 .. Len(task_queue) : status[task_queue[i]] = "created")'
    BY <1>3 DEF SpawnOK
  <1>5. (\A i, k \in 1 .. Len(task_queue) : task_queue[i] = task_queue[k] => i = k)'
    BY DEF SpawnOK
  <1>6. ASSUME NEW w \in Workers, NEW t \in Commands
        PROVE  /\ (<<"create", t>> \in Left(w) => status[t] = "none")'
               /\ (<<"commit", t>> \in Left(w) /\ <<"create", t>> \notin Left(w) =>
                     status[t] = "created" /\ ~QueueHas(t))'
               /\ (\A v \in Workers :
                     <<"commit", t>> \in Left(w) /\ <<"commit", t>> \in Left(v) => w = v)'
    BY <1>1, <1>2 DEF SpawnOK
  <1> QED BY <1>4, <1>5, <1>6 DEF SpawnOK

\* A command that was not made yet is made.
LEMMA SpawnPush ==
  ASSUME ProcessTypeOK, ScriptOK, OwnOK, SpawnOK, NEW w \in Workers, NEW c \in Commands, ~IsMade(c),
         \A x \in Left(w) : x[1] \notin {"create", "commit", "depend"},
         Effect(w, (Left(w) \ {Op(w)}) \cup SpawnOps(c)),
         status' = status, task_queue' = task_queue
  PROVE  SpawnOK'
  <1>1. /\ Left(w)' = (Left(w) \ {Op(w)}) \cup SpawnOps(c)
        /\ \A v \in Workers \ {w} : Left(v)' = Left(v)
    BY Constants DEF Effect
  <1>2. \A t \in Commands : /\ <<"create", t>> \in Left(w)' => t = c
                            /\ <<"commit", t>> \in Left(w)' => t = c
                            /\ <<"create", t>> \notin Left(w) /\ <<"commit", t>> \notin Left(w)
    BY <1>1 DEF SpawnOps
  <1>3. <<"create", c>> \in Left(w)'
    BY <1>1 DEF SpawnOps
  <1>4. status[c] = "none" /\ \A v \in Workers : <<"create", c>> \notin Left(v)
    <2>1. status[c] = "none" /\ ~Doing(<<"create", c>>)
      BY DEF IsMade
    <2>2. \A v \in Workers : <<"create", c>> \in Left(v) => pc[v] = "run"
      BY MakerFacts
    <2> QED BY <2>1, <2>2 DEF Doing
  <1>5. \A v \in Workers : <<"commit", c>> \notin Left(v)
    BY <1>4 DEF SpawnOK
  <1>6. \A t : QueueHas(t)' <=> QueueHas(t)
    BY DEF QueueHas
  <1>7. (\A i \in 1 .. Len(task_queue) : status[task_queue[i]] = "created")'
    BY DEF SpawnOK
  <1>8. (\A i, k \in 1 .. Len(task_queue) : task_queue[i] = task_queue[k] => i = k)'
    BY DEF SpawnOK
  <1>9. ASSUME NEW u \in Workers, NEW t \in Commands
        PROVE  /\ (<<"create", t>> \in Left(u) => status[t] = "none")'
               /\ (<<"commit", t>> \in Left(u) /\ <<"create", t>> \notin Left(u) =>
                     status[t] = "created" /\ ~QueueHas(t))'
               /\ (\A v \in Workers :
                     <<"commit", t>> \in Left(u) /\ <<"commit", t>> \in Left(v) => u = v)'
    <2>1. CASE u = w
      BY <2>1, <1>1, <1>2, <1>3, <1>4, <1>5
    <2>2. CASE u # w
      <3>1. Left(u)' = Left(u)
        BY <2>2, <1>1
      <3> QED BY <3>1, <2>2, <1>1, <1>2, <1>4, <1>5, <1>6 DEF SpawnOK
    <2> QED BY <2>1, <2>2
  <1> QED BY <1>7, <1>8, <1>9 DEF SpawnOK

\* So does the creation of a command, ...
LEMMA SpawnCreate ==
  ASSUME ProcessInv, NEW w \in Workers, Create(w)
  PROVE  SpawnOK'
  <1>1. ProcessTypeOK /\ ScriptOK /\ OwnOK /\ SpawnOK
    BY DEF ProcessInv
  <1>2. PICK c \in Commands :
           /\ Op(w) \in Left(w) /\ <<"commit", c>> \in Left(w) /\ Op(w) = <<"create", c>>
           /\ status[c] = "none" /\ status' = [status EXCEPT ![c] = "created"]
           /\ UNCHANGED slots
           /\ Effect(w, Left(w) \ {<<"create", c>>})
    BY <1>1, CreateFacts
  <1>3. /\ Left(w)' = Left(w) \ {<<"create", c>>} /\ task_queue' = task_queue
        /\ \A v \in Workers \ {w} : Left(v)' = Left(v)
    BY <1>2, Constants DEF Effect, slots
  <1>4. status'[c] = "created" /\ \A t \in Commands : t # c => status'[t] = status[t]
    BY <1>1, <1>2, Names DEF ProcessTypeOK
  <1>5. \A i \in 1 .. Len(task_queue) : task_queue[i] \in Commands /\ task_queue[i] # c
    <2>1. task_queue \in Seq(Commands)
      BY <1>1 DEF ProcessTypeOK
    <2>2. \A i \in 1 .. Len(task_queue) : status[task_queue[i]] = "created"
      BY <1>1 DEF SpawnOK
    <2> QED BY <2>1, <2>2, <1>2
  <1>6. (\A t : QueueHas(t)' <=> QueueHas(t)) /\ ~QueueHas(c)
    BY <1>3, <1>5 DEF QueueHas
  <1>7. (\A i \in 1 .. Len(task_queue) : status[task_queue[i]] = "created")'
    BY <1>1, <1>3, <1>4, <1>5 DEF SpawnOK
  <1>8. (\A i, k \in 1 .. Len(task_queue) : task_queue[i] = task_queue[k] => i = k)'
    BY <1>1, <1>3 DEF SpawnOK
  <1>9. \A v \in Workers : v # w => <<"commit", c>> \notin Left(v)
    BY <1>1, <1>2 DEF SpawnOK
  <1>10. \A v \in Workers : v # w => <<"create", c>> \notin Left(v)
    <2>1. \A v \in Workers : <<"create", c>> \in Left(v) => <<"commit", c>> \in Left(v)
      BY <1>1, MakerFacts
    <2> QED BY <2>1, <1>9
  <1>11. ASSUME NEW u \in Workers, NEW t \in Commands
        PROVE  /\ (<<"create", t>> \in Left(u) => status[t] = "none")'
               /\ (<<"commit", t>> \in Left(u) /\ <<"create", t>> \notin Left(u) =>
                     status[t] = "created" /\ ~QueueHas(t))'
               /\ (\A v \in Workers :
                     <<"commit", t>> \in Left(u) /\ <<"commit", t>> \in Left(v) => u = v)'
    <2>1. CASE t = c
      BY <2>1, <1>3, <1>4, <1>6, <1>9, <1>10
    <2>2. CASE t # c
      <3>1. \A v \in Workers :
              /\ <<"create", t>> \in Left(v)' <=> <<"create", t>> \in Left(v)
              /\ <<"commit", t>> \in Left(v)' <=> <<"commit", t>> \in Left(v)
        BY <2>2, <1>3
      <3> QED BY <3>1, <2>2, <1>1, <1>4, <1>6 DEF SpawnOK
    <2> QED BY <2>1, <2>2
  <1> QED BY <1>7, <1>8, <1>11 DEF SpawnOK

\* ... its commit, at once or by way of the local queue, ...
LEMMA SpawnCommit ==
  ASSUME ProcessInv, NEW w \in Workers, CommitProcessCommand(w)
  PROVE  SpawnOK'
  <1>1. ProcessTypeOK /\ ScriptOK /\ SpawnOK /\ OwnOK
    BY DEF ProcessInv
  <1>2. PICK c \in Commands :
           /\ Op(w) = <<"commit", c>> /\ Op(w) \in Left(w) /\ <<"create", c>> \notin Left(w)
           /\ status[c] = "created" /\ ~QueueHas(c)
           /\ \/ /\ remaining = 0 /\ remaining' = 0 /\ task_queue' = Append(task_queue, c)
                 /\ status' = status
              \/ /\ remaining # 0 /\ remaining' = remaining - 1 /\ task_queue' = task_queue
                 /\ status' = [status EXCEPT ![c] = "committed"]
           /\ Effect(w, Left(w) \ {<<"commit", c>>})
    BY <1>1, CommitFacts
  <1>3. /\ Left(w)' = Left(w) \ {<<"commit", c>>}
        /\ \A v \in Workers \ {w} : Left(v)' = Left(v)
    BY <1>2, Constants DEF Effect
  <1>4. \A t \in Commands : t # c => status'[t] = status[t]
    BY <1>1, <1>2, Names DEF ProcessTypeOK
  <1>5. task_queue \in Seq(Commands) /\ Len(task_queue) \in Nat
        /\ \A i \in 1 .. Len(task_queue) : task_queue[i] \in Commands /\ task_queue[i] # c
    <2>1. task_queue \in Seq(Commands)
      BY <1>1 DEF ProcessTypeOK
    <2>2. \A i \in 1 .. Len(task_queue) : task_queue[i] # c
      BY <1>2 DEF QueueHas
    <2> QED BY <2>1, <2>2
  <1>6. \A t : t # c => (QueueHas(t)' <=> QueueHas(t))
    <2>1. CASE task_queue' = task_queue
      BY <2>1 DEF QueueHas
    <2>2. CASE task_queue' = Append(task_queue, c)
      <3>1. /\ Len(task_queue') = Len(task_queue) + 1 /\ task_queue'[Len(task_queue) + 1] = c
            /\ \A i \in 1 .. Len(task_queue) : task_queue'[i] = task_queue[i]
        BY <2>2, <1>5
      <3>2. \A i \in 1 .. Len(task_queue') : i \in 1 .. Len(task_queue) \/ i = Len(task_queue) + 1
        BY <3>1, <1>5
      <3>3. \A i \in 1 .. Len(task_queue) : i \in 1 .. Len(task_queue')
        BY <3>1, <1>5
      <3> QED BY <3>1, <3>2, <3>3 DEF QueueHas
    <2> QED BY <2>1, <2>2, <1>2
  <1>7. (\A i \in 1 .. Len(task_queue) : status[task_queue[i]] = "created")'
        /\ (\A i, k \in 1 .. Len(task_queue) : task_queue[i] = task_queue[k] => i = k)'
    <2>1. CASE task_queue' = task_queue
      BY <2>1, <1>1, <1>4, <1>5 DEF SpawnOK
    <2>2. CASE task_queue' = Append(task_queue, c) /\ status' = status
      <3>1. /\ Len(task_queue') = Len(task_queue) + 1 /\ task_queue'[Len(task_queue) + 1] = c
            /\ \A i \in 1 .. Len(task_queue) : task_queue'[i] = task_queue[i]
        BY <2>2, <1>5
      <3>2. \A i \in 1 .. Len(task_queue') : i \in 1 .. Len(task_queue) \/ i = Len(task_queue) + 1
        BY <3>1, <1>5
      <3> QED BY <3>1, <3>2, <2>2, <1>1, <1>2, <1>5 DEF SpawnOK
    <2> QED BY <2>1, <2>2, <1>2
  <1>8. \A v \in Workers : <<"commit", c>> \notin Left(v)' /\ <<"create", c>> \notin Left(v)'
    <2>1. \A v \in Workers : <<"create", c>> \in Left(v) => <<"commit", c>> \in Left(v)
      BY <1>1, MakerFacts
    <2>2. \A v \in Workers : v # w => <<"commit", c>> \notin Left(v)
      BY <1>1, <1>2 DEF SpawnOK
    <2> QED BY <2>1, <2>2, <1>2, <1>3
  <1>9. ASSUME NEW u \in Workers, NEW t \in Commands
        PROVE  /\ (<<"create", t>> \in Left(u) => status[t] = "none")'
               /\ (<<"commit", t>> \in Left(u) /\ <<"create", t>> \notin Left(u) =>
                     status[t] = "created" /\ ~QueueHas(t))'
               /\ (\A v \in Workers :
                     <<"commit", t>> \in Left(u) /\ <<"commit", t>> \in Left(v) => u = v)'
    <2>1. CASE t = c
      BY <2>1, <1>8
    <2>2. CASE t # c
      <3>1. \A v \in Workers :
              /\ <<"create", t>> \in Left(v)' <=> <<"create", t>> \in Left(v)
              /\ <<"commit", t>> \in Left(v)' <=> <<"commit", t>> \in Left(v)
        BY <2>2, <1>3
      <3> QED BY <3>1, <2>2, <1>1, <1>4, <1>6 DEF SpawnOK
    <2> QED BY <2>1, <2>2
  <1> QED BY <1>7, <1>9 DEF SpawnOK

\* The queue without its first n commands.
LEMMA QueueRest ==
  ASSUME ProcessTypeOK, NEW n \in 0 .. Len(task_queue),
         task_queue' = SubSeq(task_queue, n + 1, Len(task_queue))
  PROVE  /\ task_queue' \in Seq(Commands) /\ Len(task_queue') = Len(task_queue) - n
         /\ \A i \in 1 .. Len(task_queue') :
              n + i \in 1 .. Len(task_queue) /\ task_queue'[i] = task_queue[n + i]
  <1>1. task_queue \in Seq(Commands) /\ Len(task_queue) \in Nat /\ n \in Nat /\ n <= Len(task_queue)
    BY DEF ProcessTypeOK
  <1>2. n + 1 \in Int /\ Len(task_queue) \in Int
        /\ \A i \in n + 1 .. Len(task_queue) : task_queue[i] \in Commands
    BY <1>1
  <1>3. /\ SubSeq(task_queue, n + 1, Len(task_queue)) \in Seq(Commands)
        /\ Len(SubSeq(task_queue, n + 1, Len(task_queue))) =
             IF n + 1 <= Len(task_queue) THEN Len(task_queue) - (n + 1) + 1 ELSE 0
        /\ \A i \in 1 .. Len(task_queue) - (n + 1) + 1 :
             SubSeq(task_queue, n + 1, Len(task_queue))[i] = task_queue[(n + 1) + i - 1]
    BY <1>2, SubSeqProperties
  <1>4. Len(task_queue') = Len(task_queue) - n
    BY <1>1, <1>3
  <1>5. ASSUME NEW i \in 1 .. Len(task_queue')
        PROVE  n + i \in 1 .. Len(task_queue) /\ task_queue'[i] = task_queue[n + i]
    <2>1. i \in 1 .. Len(task_queue) - (n + 1) + 1 /\ (n + 1) + i - 1 = n + i
          /\ n + i \in 1 .. Len(task_queue)
      BY <1>1, <1>4
    <2>2. SubSeq(task_queue, n + 1, Len(task_queue))[i] = task_queue[(n + 1) + i - 1]
      BY <1>3, <2>1
    <2> QED BY <2>1, <2>2
  <1> QED BY <1>3, <1>4, <1>5

\* ... and the completion of a command, which commits the head of the queue.
LEMMA SpawnNotify ==
  ASSUME ProcessInv, NEW w \in Workers, NotifyCompletion(w)
  PROVE  SpawnOK'
  <1>1. ProcessTypeOK /\ ScriptOK /\ SpawnOK
    BY DEF ProcessInv
  <1>2. PICK n \in 0 .. Len(task_queue) :
           /\ Left(w) = {<<"notify">>, <<"complete">>}
           /\ status' = [t \in Tasks |-> IF \E i \in 1 .. n : task_queue[i] = t
                                           THEN "committed" ELSE status[t]]
           /\ task_queue' = SubSeq(task_queue, n + 1, Len(task_queue))
           /\ Effect(w, {<<"complete">>})
    BY <1>1, NotifyFacts
  <1>3. /\ task_queue' \in Seq(Commands) /\ Len(task_queue') = Len(task_queue) - n
        /\ \A i \in 1 .. Len(task_queue') :
             n + i \in 1 .. Len(task_queue) /\ task_queue'[i] = task_queue[n + i]
    BY <1>1, <1>2, QueueRest
  <1>4. Len(task_queue) \in Nat /\ n \in Nat /\ n <= Len(task_queue)
        /\ \A i \in 1 .. Len(task_queue) : task_queue[i] \in Commands /\ task_queue[i] \in Tasks
    BY <1>1, Names DEF ProcessTypeOK
  <1>5. \A i \in 1 .. n : i \in 1 .. Len(task_queue)
    BY <1>4
  <1>6. \A t \in Commands :
          /\ ~QueueHas(t) => status'[t] = status[t]
          /\ status[t] = "none" => status'[t] = "none"
    <2>1. \A t \in Commands : (\E i \in 1 .. n : task_queue[i] = t) => QueueHas(t) /\ status[t] = "created"
      BY <1>1, <1>5 DEF QueueHas, SpawnOK
    <2>2. Commands \subseteq Tasks
      BY Names
    <2> QED BY <2>1, <2>2, <1>2
  <1>7. \A t \in Commands : QueueHas(t)' => QueueHas(t)
    BY <1>3 DEF QueueHas
  <1>8. (\A i, k \in 1 .. Len(task_queue) : task_queue[i] = task_queue[k] => i = k)'
    <2> SUFFICES ASSUME NEW i \in 1 .. Len(task_queue'), NEW k \in 1 .. Len(task_queue'),
                        task_queue'[i] = task_queue'[k]
                 PROVE  i = k
      OBVIOUS
    <2>1. n + i = n + k
      BY <1>1, <1>3 DEF SpawnOK
    <2> QED BY <2>1, <1>3, <1>4
  <1>9. (\A i \in 1 .. Len(task_queue) : status[task_queue[i]] = "created")'
    <2> SUFFICES ASSUME NEW i \in 1 .. Len(task_queue') PROVE status'[task_queue'[i]] = "created"
      OBVIOUS
    <2>1. n + i \in 1 .. Len(task_queue) /\ task_queue'[i] = task_queue[n + i] /\ i \in Nat /\ i > 0
      BY <1>3, <1>4
    <2>2. ~\E k \in 1 .. n : task_queue[k] = task_queue[n + i]
      <3> SUFFICES ASSUME NEW k \in 1 .. n, task_queue[k] = task_queue[n + i] PROVE FALSE
        OBVIOUS
      <3>1. k = n + i
        BY <1>1, <1>5, <2>1 DEF SpawnOK
      <3> QED BY <3>1, <1>4, <2>1
    <2>3. status'[task_queue[n + i]] = status[task_queue[n + i]]
      BY <1>2, <1>4, <2>1, <2>2
    <2> QED BY <2>1, <2>3, <1>1 DEF SpawnOK
  <1>10. /\ \A v \in Workers : v # w => Left(v)' = Left(v)
         /\ \A t : <<"create", t>> \notin Left(w)' /\ <<"commit", t>> \notin Left(w)'
    BY <1>2, Constants DEF Effect
  <1>11. ASSUME NEW u \in Workers, NEW t \in Commands
        PROVE  /\ (<<"create", t>> \in Left(u) => status[t] = "none")'
               /\ (<<"commit", t>> \in Left(u) /\ <<"create", t>> \notin Left(u) =>
                     status[t] = "created" /\ ~QueueHas(t))'
               /\ (\A v \in Workers :
                     <<"commit", t>> \in Left(u) /\ <<"commit", t>> \in Left(v) => u = v)'
    <2>1. CASE u = w
      BY <2>1, <1>10
    <2>2. CASE u # w
      BY <2>2, <1>1, <1>6, <1>7, <1>10 DEF SpawnOK
    <2> QED BY <2>1, <2>2
  <1> QED BY <1>8, <1>9, <1>11 DEF SpawnOK

-----------------------------------------------------------------------------
(* Slots.                                                                  *)

\* The commands that hold a slot can be counted.
LEMMA CommandsFinite == IsFiniteSet(Commands)
  <1> DEFINE R == {Run(r) : r \in Runs}
             V == {Finalizer(w) : w \in Workers}
  <1>1. IsFiniteSet(Runs) /\ IsFiniteSet(Workers)
    <2>1. 1 \in Int /\ RunCount \in Int /\ 0 \in Int /\ WorkerCount - 1 \in Int
      BY Constants
    <2> QED BY <2>1, FS_Interval DEF Runs, Workers
  <1>2. [r \in Runs |-> Run(r)] \in Surjection(Runs, R)
    BY DEF Surjection
  <1>3. [w \in Workers |-> Finalizer(w)] \in Surjection(Workers, V)
    BY DEF Surjection
  <1>4. IsFiniteSet(R) /\ IsFiniteSet(V)
    <2> HIDE DEF R, V
    <2> QED BY <1>1, <1>2, <1>3, FS_Surjection
  <1> HIDE DEF R, V
  <1>5. IsFiniteSet(R \cup V)
    BY <1>4, FS_Union
  <1> QED BY <1>5 DEF Commands, R, V

\* HoldsSlot in terms of what is left.
Holding(t) ==
  \/ status[t] = "committed"
  \/ status[t] = "running" /\ \E w \in Workers :
       task[w] = t /\ (pc[w] \in {"leave", "exit"} \/ <<"notify">> \in Left(w))

Holders == {t \in Commands : Holding(t)}

\* HoldsSlot by what is left of the command.
LEMMA HoldsLeft ==
  /\ {t \in Commands : HoldsSlot(t)} = Holders
  /\ {t \in Commands : HoldsSlot(t)}' = Holders'
  /\ IsFiniteSet(Holders) /\ IsFiniteSet(Holders')
  /\ Cardinality(Holders) \in Nat /\ Cardinality(Holders') \in Nat
  <1>1. \A t \in Commands : HoldsSlot(t) <=> Holding(t)
    BY DEF HoldsSlot, Holding, Left, Elements
  <1>2. \A t \in Commands : HoldsSlot(t)' <=> Holding(t)'
    BY DEF HoldsSlot, Holding, Left, Elements
  <1>3. Holders \in SUBSET Commands /\ Holders' \in SUBSET Commands
    BY DEF Holders
  <1>4. IsFiniteSet(Holders) /\ IsFiniteSet(Holders')
    BY <1>3, CommandsFinite, FS_Subset
  <1> QED BY <1>1, <1>2, <1>4, FS_CardinalityType DEF Holders

\* A step that moves no slot preserves SlotsOK.
LEMMA SlotsKept ==
  ASSUME SlotsOK, remaining' = remaining, task_queue' = task_queue, limit' = limit,
         \A t \in Commands : Holding(t)' <=> Holding(t)
  PROVE  SlotsOK'
  <1>1. Holders' = Holders
    BY DEF Holders
  <1> QED BY <1>1, HoldsLeft DEF SlotsOK

\* A command keeps its slot while its status and its notification stay.
LEMMA HoldingKept ==
  ASSUME Keeps("notify"),
         \A v \in Workers : task'[v] = task[v] /\ pc'[v] = pc[v],
         NEW t, status'[t] = "committed" <=> status[t] = "committed",
         status'[t] = "running" <=> status[t] = "running"
  PROVE  Holding(t)' <=> Holding(t)
  <1>1. \A v \in Workers : <<"notify">> \in Left(v)' <=> <<"notify">> \in Left(v)
    BY DEF Keeps
  <1> QED BY <1>1 DEF Holding

\* A step within a script that commits and completes nothing.
LEMMA SlotsQuiet ==
  ASSUME SlotsOK, Steady, Keeps("notify"), remaining' = remaining, task_queue' = task_queue,
         \A t \in Commands : /\ status'[t] = "committed" <=> status[t] = "committed"
                             /\ status'[t] = "running" <=> status[t] = "running"
  PROVE  SlotsOK'
  <1>1. \A t \in Commands : Holding(t)' <=> Holding(t)
    BY HoldingKept DEF Steady
  <1> QED BY <1>1, SlotsKept DEF Steady

\* A commit takes a slot or, when none is free, queues the command.
LEMMA SlotsCommit ==
  ASSUME ProcessInv, NEW w \in Workers, CommitProcessCommand(w)
  PROVE  SlotsOK'
  <1>1. ProcessTypeOK /\ ScriptOK /\ SpawnOK /\ SlotsOK
    BY DEF ProcessInv
  <1>2. PICK c \in Commands :
           /\ Op(w) = <<"commit", c>> /\ status[c] = "created"
           /\ \/ /\ remaining = 0 /\ remaining' = 0 /\ task_queue' = Append(task_queue, c)
                 /\ status' = status
              \/ /\ remaining # 0 /\ remaining' = remaining - 1 /\ task_queue' = task_queue
                 /\ status' = [status EXCEPT ![c] = "committed"]
           /\ UNCHANGED setup
           /\ Effect(w, Left(w) \ {<<"commit", c>>})
    BY <1>1, CommitFacts
  <1>3. Effect(w, Left(w) \ {Op(w)}) /\ Op(w)[1] = "commit"
    BY <1>2
  <1>4. Keeps("notify")
    BY <1>3, KeepsPop
  <1>5. \A v \in Workers : task'[v] = task[v] /\ pc'[v] = pc[v]
    BY <1>2 DEF Effect, Steady
  <1>6. \A t \in Commands : t # c => (Holding(t)' <=> Holding(t))
    <2>1. \A t \in Commands : t # c => status'[t] = status[t]
      BY <1>1, <1>2, Names DEF ProcessTypeOK
    <2> QED BY <2>1, <1>4, <1>5, HoldingKept
  <1>7. ~Holding(c)
    BY <1>2 DEF Holding
  <1>8. limit' = limit /\ remaining \in Nat
    BY <1>1, <1>2 DEF setup, ProcessTypeOK
  <1>9. CASE remaining = 0 /\ remaining' = 0 /\ status' = status
    <2>1. ~Holding(c)'
      BY <1>2, <1>9 DEF Holding
    <2>2. Holders' = Holders
      BY <2>1, <1>6, <1>7 DEF Holders
    <2> QED BY <2>2, <1>1, <1>8, <1>9, HoldsLeft DEF SlotsOK
  <1>10. CASE remaining # 0 /\ remaining' = remaining - 1 /\ task_queue' = task_queue
              /\ status' = [status EXCEPT ![c] = "committed"]
    <2>1. Holding(c)'
      BY <1>1, <1>10, Names DEF Holding, ProcessTypeOK
    <2>2. Holders' = Holders \cup {c} /\ c \notin Holders
      BY <2>1, <1>6, <1>7 DEF Holders
    <2>3. Cardinality(Holders') = Cardinality(Holders) + 1
      BY <2>2, HoldsLeft, FS_AddElement
    <2>4. remaining + Cardinality(Holders) = limit /\ task_queue = <<>>
      BY <1>1, <1>10, HoldsLeft DEF SlotsOK
    <2>5. remaining' + Cardinality(Holders') = limit'
      BY <2>3, <2>4, <1>8, <1>10, HoldsLeft
    <2> QED BY <2>4, <2>5, <1>10, HoldsLeft DEF SlotsOK
  <1> QED BY <1>2, <1>9, <1>10

\* The commands that leave the queue.
LEMMA FirstOfQueue ==
  ASSUME ProcessTypeOK, SpawnOK, NEW n \in 0 .. Len(task_queue)
  PROVE  LET Q == {task_queue[i] : i \in 1 .. n} IN
         IsFiniteSet(Q) /\ Cardinality(Q) = n /\ Q \subseteq Commands
  <1> DEFINE Q == {task_queue[i] : i \in 1 .. n}
             f == [i \in 1 .. n |-> task_queue[i]]
  <1>1. task_queue \in Seq(Commands) /\ n \in Nat /\ n <= Len(task_queue) /\ Len(task_queue) \in Nat
    BY DEF ProcessTypeOK
  <1>2. \A i \in 1 .. n : i \in 1 .. Len(task_queue)
    BY <1>1
  <1>3. \A i, k \in 1 .. n : task_queue[i] = task_queue[k] => i = k
    BY <1>2 DEF SpawnOK
  <1>4. f \in Bijection(1 .. n, Q)
    <2>1. f \in [1 .. n -> Q] /\ \A i \in 1 .. n : f[i] = task_queue[i]
      OBVIOUS
    <2>2. \A t \in Q : \E i \in 1 .. n : f[i] = t
      BY <2>1
    <2>3. \A i, k \in 1 .. n : f[i] = f[k] => i = k
      BY <2>1, <1>3
    <2> HIDE DEF f, Q
    <2>4. f \in Injection(1 .. n, Q)
      BY <2>1, <2>3, Fun_IsInj
    <2> QED BY <2>1, <2>2, <2>4, Fun_IsBij
  <1>5. Q \subseteq Commands
    BY <1>1, <1>2
  <1> HIDE DEF Q, f
  <1>6. ExistsBijection(1 .. n, Q)
    BY <1>4 DEF ExistsBijection
  <1>7. IsFiniteSet(Q)
    BY <1>1, <1>6, FS_NatBijection
  <1>8. Cardinality(Q) = n
    BY <1>1, <1>6, FS_CountingElements
  <1> QED BY <1>5, <1>7, <1>8 DEF Q

\* A completion frees its slot or hands it to the head of the queue.
LEMMA SlotsNotify ==
  ASSUME ProcessInv, NEW w \in Workers, NotifyCompletion(w)
  PROVE  SlotsOK'
  <1>1. ProcessTypeOK /\ ScriptOK /\ OwnOK /\ SpawnOK /\ SlotsOK
    BY DEF ProcessInv
  <1>2. PICK n \in 0 .. Len(task_queue) :
           /\ pc[w] = "run" /\ task[w] \in Commands
           /\ Left(w) = {<<"notify">>, <<"complete">>}
           /\ n <= remaining + 1 /\ (n = remaining + 1 \/ n = Len(task_queue))
           /\ remaining' = remaining + 1 - n
           /\ status' = [t \in Tasks |-> IF \E i \in 1 .. n : task_queue[i] = t
                                           THEN "committed" ELSE status[t]]
           /\ \A i \in 1 .. n : status[task_queue[i]] = "created"
           /\ task_queue' = SubSeq(task_queue, n + 1, Len(task_queue))
           /\ UNCHANGED setup
           /\ Effect(w, {<<"complete">>})
    BY <1>1, NotifyFacts
  <1> DEFINE Q == {task_queue[i] : i \in 1 .. n}
  <1>17. PICK c \in Commands : c = task[w]
    BY <1>2
  <1>3. IsFiniteSet(Q) /\ Cardinality(Q) = n /\ Q \subseteq Commands
    BY <1>1, FirstOfQueue
  <1>4. \A t \in Q : status[t] = "created"
    BY <1>2
  <1>5. \A t \in Commands : status'[t] = IF t \in Q THEN "committed" ELSE status[t]
    BY <1>2, Names
  <1>6. /\ \A v \in Workers : task'[v] = task[v] /\ pc'[v] = pc[v]
        /\ Left(w)' = {<<"complete">>} /\ \A v \in Workers \ {w} : Left(v)' = Left(v)
    BY <1>2, Constants DEF Effect, Steady
  <1>7. c \in Commands /\ status[c] = "running" /\ \A v \in Workers : task[v] = c => v = w
    BY <1>1, <1>2, <1>17, Names DEF OwnOK
  <1>8. Holding(c) /\ ~Holding(c)'
    <2>1. Holding(c)
      BY <1>2, <1>7, <1>17 DEF Holding
    <2>2. status'[c] = "running"
      BY <1>4, <1>5, <1>7
    <2>3. ~Holding(c)'
      <3>1. ASSUME NEW v \in Workers, task'[v] = c
            PROVE  pc'[v] \notin {"leave", "exit"} /\ <<"notify">> \notin Left(v)'
        BY <3>1, <1>2, <1>6, <1>7
      <3>2. ~\E v \in Workers : task'[v] = c /\ (pc'[v] \in {"leave", "exit"} \/ <<"notify">> \in Left(v)')
        BY <3>1
      <3> QED BY <2>2, <3>2 DEF Holding
    <2> QED BY <2>1, <2>3
  <1>9. \A t \in Q : Holding(t)' /\ ~Holding(t)
    BY <1>3, <1>4, <1>5 DEF Holding
  <1>10. ASSUME NEW t \in Commands, t \notin Q, t # c PROVE Holding(t)' <=> Holding(t)
    <2>1. status'[t] = status[t]
      BY <1>5, <1>10
    <2>2. \A v \in Workers : task[v] = t =>
            (<<"notify">> \in Left(v)' <=> <<"notify">> \in Left(v))
      BY <1>6, <1>10, <1>17
    <2> QED BY <2>1, <2>2, <1>6 DEF Holding
  <1> HIDE DEF Q
  <1>11. Holders' = (Holders \ {c}) \cup Q /\ c \in Holders /\ (Holders \ {c}) \cap Q = {}
    <2>1. c \in Holders /\ c \notin Holders' /\ c \notin Q
      <3>1. c \notin Q
        BY <1>4, <1>7
      <3> QED BY <3>1, <1>7, <1>8 DEF Holders
    <2>2. \A t \in Q : t \in Holders' /\ t \notin Holders
      BY <1>3, <1>9 DEF Holders
    <2>3. \A t : t \notin Q /\ t # c => (t \in Holders' <=> t \in Holders)
      BY <1>10 DEF Holders
    <2> QED BY <2>1, <2>2, <2>3
  <1>12. IsFiniteSet(Holders \ {c}) /\ Cardinality(Holders \ {c}) = Cardinality(Holders) - 1
    BY <1>11, HoldsLeft, FS_RemoveElement
  <1>13. Cardinality(Holders') = Cardinality(Holders) - 1 + n
    <2>1. Cardinality(Holders') =
            Cardinality(Holders \ {c}) + Cardinality(Q) - Cardinality((Holders \ {c}) \cap Q)
      BY <1>3, <1>11, <1>12, FS_Union
    <2>2. Cardinality((Holders \ {c}) \cap Q) = 0
      BY <1>11, FS_EmptySet
    <2> QED BY <2>1, <2>2, <1>3, <1>12, HoldsLeft
  <1>14. remaining + Cardinality(Holders) = limit /\ remaining \in Nat /\ limit' = limit /\ n \in Nat
    <2>1. remaining \in Nat /\ n \in Nat
      BY <1>1 DEF ProcessTypeOK
    <2> QED BY <2>1, <1>1, <1>2, HoldsLeft DEF SlotsOK, setup
  <1>15. remaining' + Cardinality(Holders') = limit'
    BY <1>2, <1>13, <1>14, HoldsLeft
  <1>16. task_queue' # <<>> => remaining' = 0
    <2>1. task_queue' \in Seq(Commands) /\ Len(task_queue') = Len(task_queue) - n
      BY <1>1, <1>2, QueueRest
    <2>2. n = Len(task_queue) => Len(task_queue') = 0
      BY <2>1, <1>14
    <2>3. n = Len(task_queue) => task_queue' = <<>>
      BY <2>1, <2>2
    <2> QED BY <2>3, <1>2, <1>14
  <1> QED BY <1>15, <1>16, HoldsLeft DEF SlotsOK

\* A command that completes has given its slot back before.
LEMMA SlotsComplete ==
  ASSUME ProcessInv, NEW w \in Workers, Complete(w)
  PROVE  SlotsOK'
  <1>1. ProcessTypeOK /\ ScriptOK /\ OwnOK /\ SlotsOK
    BY DEF ProcessInv
  <1>2. pc[w] = "run" /\ Left(w) = {<<"complete">>} /\ Moves(w, "loop", <<>>)
    BY <1>1, EffectComplete
  <1>3. status[task[w]] = "running" /\ status' = [status EXCEPT ![task[w]] = "done"]
    BY OwnComplete
  <1>4. remaining' = remaining /\ task_queue' = task_queue /\ limit' = limit /\ task' = task
    BY DEF Complete, slots, setup
  <1>5. /\ Left(w)' = {} /\ \A v \in Workers \ {w} : Left(v)' = Left(v)
        /\ pc'[w] = "loop" /\ \A v \in Workers \ {w} : pc'[v] = pc[v]
    BY <1>1, <1>2, Literals, Constants DEF Moves, ProcessTypeOK
  <1>6. \A t \in Commands : Holding(t)' <=> Holding(t)
    <2> SUFFICES ASSUME NEW t \in Commands PROVE Holding(t)' <=> Holding(t)
      OBVIOUS
    <2>1. t \in Tasks /\ t # Foreign
      BY Names
    <2>4. task[w] \in Tasks
      BY <1>1, Constants DEF ProcessTypeOK
    <2>2. CASE t = task[w]
      <3>1. status'[t] = "done" /\ status[t] = "running"
        BY <1>1, <1>3, <2>1, <2>2, <2>4 DEF ProcessTypeOK
      <3>2. \A v \in Workers : task[v] = t => v = w
        BY <1>1, <2>1, <2>2 DEF OwnOK
      <3> QED BY <3>1, <3>2, <1>2 DEF Holding
    <2>3. CASE t # task[w]
      <3>1. status'[t] = status[t]
        BY <1>1, <1>3, <2>1, <2>3, <2>4 DEF ProcessTypeOK
      <3>2. \A v \in Workers : task[v] = t => Left(v)' = Left(v) /\ pc'[v] = pc[v]
        BY <1>5, <2>3
      <3> QED BY <3>1, <3>2, <1>4 DEF Holding
    <2> QED BY <2>2, <2>3
  <1> QED BY <1>1, <1>4, <1>6, SlotsKept

\* A command that starts keeps the slot of its commit.
LEMMA SlotsTake ==
  ASSUME ProcessInv, NEW w \in Workers, TakeTask(w)
  PROVE  SlotsOK'
  <1>1. ProcessTypeOK /\ ScriptOK /\ OwnOK /\ GraphOK /\ SlotsOK
    BY DEF ProcessInv
  <1>2. PICK t \in Initial \cup Commands :
           /\ pc[w] = "take" /\ Left(w) = {}
           /\ status[t] = "committed" /\ status' = [status EXCEPT ![t] = "running"]
           /\ task' = [task EXCEPT ![w] = t] /\ shape' = shape
           /\ Moves(w, "run", Body(t)) /\ Fresh(t, Left(w)')
    BY <1>1, EffectTake
  <1>3. remaining' = remaining /\ task_queue' = task_queue /\ limit' = limit
    BY DEF TakeTask, slots, setup
  <1>4. /\ \A v \in Workers \ {w} : Left(v)' = Left(v) /\ pc'[v] = pc[v] /\ task'[v] = task[v]
        /\ pc'[w] = "run" /\ task'[w] = t
    BY <1>1, <1>2, Constants DEF Moves, ProcessTypeOK
  <1>5. t \in Tasks
    BY <1>1, Names, ShapeFacts DEF Initial, Tasks, ProcessTypeOK
  <1>6. \A c \in Commands : Holding(c)' <=> Holding(c)
    <2> SUFFICES ASSUME NEW c \in Commands PROVE Holding(c)' <=> Holding(c)
      OBVIOUS
    <2>1. c \in Tasks /\ c # Foreign
      BY Names
    <2>2. CASE c = t
      <3>1. status'[c] = "running" /\ <<"notify">> \in Left(w)'
        BY <1>1, <1>2, <1>5, <2>2 DEF ProcessTypeOK, Fresh
      <3> QED BY <3>1, <1>2, <1>4, <2>2 DEF Holding
    <2>3. CASE c # t
      <3>1. status'[c] = status[c]
        BY <1>1, <1>2, <1>5, <2>1, <2>3 DEF ProcessTypeOK
      <3>2. task[w] = c => status[c] = "done"
        BY <1>1, <1>2, <2>1 DEF OwnOK
      <3> QED BY <3>1, <3>2, <1>4, <2>3 DEF Holding
    <2> QED BY <2>2, <2>3
  <1> QED BY <1>1, <1>3, <1>6, SlotsKept

\* A worker that stops working holds the slot of its command for ever.
LEMMA SlotsMove ==
  ASSUME ProcessInv, NEW w \in Workers,
         Loop(w) \/ TakeNothing(w) \/ Exit(w) \/ Leave(w) \/ Throw(w)
  PROVE  SlotsOK'
  <1>1. ProcessTypeOK /\ ScriptOK /\ OwnOK /\ SlotsOK
    BY DEF ProcessInv
  <1>2. /\ remaining' = remaining /\ task_queue' = task_queue /\ limit' = limit /\ task' = task
        /\ status' = status
    BY DEF Loop, TakeNothing, Exit, Leave, Throw, slots, setup, sched
  <1>3. SUFFICES ASSUME NEW t \in Commands PROVE Holding(t)' <=> Holding(t)
    BY <1>1, <1>2, SlotsKept
  <1>4. t # Foreign
    BY Names
  <1>5. CASE Loop(w) \/ TakeNothing(w) \/ Exit(w) \/ Leave(w)
    <2>1. PICK p, s : Moves(w, p, s) /\ s \in {<<>>, <<<<"tl_finalize">>>>}
                      /\ (p \in {"loop", "take", "left"} \/ (p = "exit" /\ pc[w] = "leave")
                          \/ (p = "leave" /\ pc[w] = "left"))
                      /\ Left(w) = {} /\ pc[w] \in {"loop", "take", "left", "leave"}
                      /\ (p \in {"loop", "take", "left"} => pc[w] \in {"loop", "take"})
      <3>1. Left(w) = {} /\ pc[w] \in {"loop", "take", "left", "leave"}
        BY <1>1, <1>5, EffectIdle DEF Loop, TakeNothing, Exit, Leave
      <3>2. CASE Loop(w)
        BY <3>1, <3>2, <1>1, EffectIdle DEF Loop
      <3>3. CASE TakeNothing(w)
        BY <3>1, <3>3, <1>1, EffectIdle DEF TakeNothing
      <3>4. CASE Exit(w)
        <4>1. pc[w] = "leave" /\ Moves(w, "exit", <<>>)
          BY <3>4, <1>1, EffectIdle DEF Exit
        <4> QED BY <3>1, <4>1
      <3>5. CASE Leave(w)
        <4>1. pc[w] = "left" /\ Moves(w, "leave", IF cancelled THEN <<<<"tl_finalize">>>> ELSE <<>>)
          BY <3>5, <1>1, EffectIdle DEF Leave
        <4> QED BY <3>1, <4>1
      <3> QED BY <1>5, <3>2, <3>3, <3>4, <3>5
    <2>2. /\ pc'[w] = p /\ \A v \in Workers \ {w} : pc'[v] = pc[v]
          /\ <<"notify">> \notin Left(w)' /\ \A v \in Workers \ {w} : Left(v)' = Left(v)
      BY <1>1, <2>1, Literals, Constants DEF Moves, ProcessTypeOK
    <2>3. task[w] = t /\ status[t] = "running" => pc[w] = "leave"
      BY <1>1, <1>4, <2>1 DEF OwnOK
    <2> QED BY <1>2, <2>1, <2>2, <2>3 DEF Holding
  <1>6. CASE Throw(w)
    <2>1. /\ pc[w] \in {"run", "leave"}
          /\ \E s : Moves(w, "leave", s)
          /\ pc[w] = "run" /\ task[w] \in Commands => <<"notify">> \in Left(w)
      <3>1. CASE pc[w] = "leave"
        BY <3>1, <1>1, <1>6, EffectThrow
      <3>2. CASE pc[w] # "leave"
        <4>1. /\ pc[w] = "run" /\ Op(w) \in Left(w) /\ Moves(w, "leave", <<<<"tl_finalize">>>>)
              /\ Heads(task[w], Op(w), Left(w))
              /\ Op(w) \in {<<"foreign">>, <<"global_init">>, <<"run">>, <<"tl_init">>,
                            <<"user_tl_finalize">>, <<"user_global_finalize">>}
          BY <3>2, <1>1, <1>6, EffectThrow
        <4>2. task[w] \in Commands => <<"notify">> \in Left(w)
          BY <4>1, Names DEF Heads, StraightHeads
        <4> QED BY <4>1, <4>2
      <3> QED BY <3>1, <3>2
    <2>2. /\ pc'[w] = "leave" /\ \A v \in Workers \ {w} : pc'[v] = pc[v]
          /\ \A v \in Workers \ {w} : Left(v)' = Left(v)
      BY <1>1, <2>1, Constants DEF Moves, ProcessTypeOK
    <2> QED BY <1>2, <2>1, <2>2 DEF Holding
  <1> QED BY <1>5, <1>6

\* The thread that called execute holds no slot.
LEMMA SlotsMain ==
  ASSUME SlotsOK, remaining' = remaining, task_queue' = task_queue, limit' = limit,
         status' = status, NEW p, NEW s, Moves(Main, p, s), task' = task, ProcessTypeOK
  PROVE  SlotsOK'
  <1>1. \A v \in Workers : Left(v)' = Left(v) /\ pc'[v] = pc[v]
    BY Constants DEF Moves, ProcessTypeOK
  <1> QED BY <1>1, SlotsKept DEF Holding

-----------------------------------------------------------------------------
(* Fragments and the making of commands.                                   *)

\* No turn of a loop is begun and no fragment counted.
BegunKept ==
  /\ \A r \in Runs : \A j \in Needs(r) :
       /\ Counted(j, r)' <=> Counted(j, r)
       /\ Begun(Producer(j), <<"store", r, j>>)' <=> Begun(Producer(j), <<"store", r, j>>)
  /\ \A r \in Runs : Needs(r) = {} =>
       (Begun(Entry, <<"spawn", r>>)' <=> Begun(Entry, <<"spawn", r>>))
  /\ \A v \in Workers :
       Begun(Barrier, <<"finalizer", v>>)' <=> Begun(Barrier, <<"finalizer", v>>)

MadeKept == \A c \in Commands : IsMade(c)' <=> IsMade(c)

\* A step that begins no turn and makes no command preserves CountOK.
LEMMA CountKept ==
  ASSUME CountOK, BegunKept, MadeKept, shape' = shape,
         UNCHANGED <<waiting_counters, partitioned_pool, given>>,
         \A v \in Workers : v \in thread_local_initialized' =>
           /\ Begun(Barrier, <<"finalizer", v>>) => v \in thread_local_initialized
           /\ status'[Finalizer(v)] = "done" => status[Finalizer(v)] = "done"
  PROVE  CountOK'
  <1>1. \A r : Needs(r)' = Needs(r)
    BY DEF Needs
  <1>2. ASSUME NEW r \in Runs
        PROVE  /\ (waiting_counters[r] = Cardinality({j \in Needs(r) : ~Counted(j, r)}))'
               /\ (waiting_counters[r] > 0 =>
                     /\ partitioned_pool[r] = {j \in Needs(r) : Begun(Producer(j), <<"store", r, j>>)}
                     /\ ~IsMade(Run(r)))'
               /\ (waiting_counters[r] = 0 => given[r] = Needs(r))'
               /\ (Needs(r) # {} /\ waiting_counters[r] = 0 => IsMade(Run(r)))'
               /\ (Needs(r) = {} => (IsMade(Run(r)) <=> Begun(Entry, <<"spawn", r>>)))'
    <2>1. {j \in Needs(r) : ~Counted(j, r)}' = {j \in Needs(r) : ~Counted(j, r)}
      BY <1>1 DEF BegunKept
    <2>2. {j \in Needs(r) : Begun(Producer(j), <<"store", r, j>>)}'
            = {j \in Needs(r) : Begun(Producer(j), <<"store", r, j>>)}
      BY <1>1 DEF BegunKept
    <2>3. IsMade(Run(r))' <=> IsMade(Run(r))
      BY Names DEF MadeKept
    <2>4. Needs(r) = {} => (Begun(Entry, <<"spawn", r>>)' <=> Begun(Entry, <<"spawn", r>>))
      BY DEF BegunKept
    <2> QED BY <1>1, <2>1, <2>2, <2>3, <2>4 DEF CountOK
  <1>3. ASSUME NEW v \in Workers
        PROVE  /\ (IsMade(Finalizer(v)) => Begun(Barrier, <<"finalizer", v>>))'
               /\ (Begun(Barrier, <<"finalizer", v>>) /\ v \in thread_local_initialized =>
                     IsMade(Finalizer(v)) /\ status[Finalizer(v)] # "done")'
    <2>1. IsMade(Finalizer(v))' <=> IsMade(Finalizer(v))
      BY Names DEF MadeKept
    <2>2. Begun(Barrier, <<"finalizer", v>>)' <=> Begun(Barrier, <<"finalizer", v>>)
      BY DEF BegunKept
    <2> QED BY <2>1, <2>2 DEF CountOK
  <1> QED BY <1>2, <1>3 DEF CountOK

\* A step that creates nothing, nor anything to be created, makes no command.
LEMMA MadeQuiet ==
  ASSUME ScriptOK, ScriptOK', Keeps("create"),
         \A t \in Commands : status'[t] = "none" <=> status[t] = "none"
  PROVE  MadeKept
  <1> SUFFICES ASSUME NEW c \in Commands PROVE IsMade(c)' <=> IsMade(c)
    BY DEF MadeKept
  <1>1. \A v \in Workers : <<"create", c>> \in Left(v)' <=> <<"create", c>> \in Left(v)
    BY DEF Keeps
  <1>2. Doing(<<"create", c>>)' <=> Doing(<<"create", c>>)
    BY <1>1, DoingLeft
  <1> QED BY <1>2 DEF IsMade

\* A step that touches no loop begins no turn.
LEMMA BegunQuiet ==
  ASSUME shape \in Shapes, \A v \in Workers : \A t : Runner(v, t)' <=> Runner(v, t),
         \A t \in Tasks : status'[t] = "done" <=> status[t] = "done",
         Keeps("store"), Keeps("count"), Keeps("spawn"), Keeps("finalizer"), Keeps("global_init")
  PROVE  BegunKept
  <1>1. ASSUME NEW v \in Workers
        PROVE  /\ <<"global_init">> \in Left(v)' <=> <<"global_init">> \in Left(v)
               /\ \A r : /\ <<"count", r>> \in Left(v)' <=> <<"count", r>> \in Left(v)
                         /\ <<"spawn", r>> \in Left(v)' <=> <<"spawn", r>> \in Left(v)
                         /\ <<"finalizer", r>> \in Left(v)' <=> <<"finalizer", r>> \in Left(v)
               /\ \A r, j : <<"store", r, j>> \in Left(v)' <=> <<"store", r, j>> \in Left(v)
    BY DEF Keeps
  <1>2. Entry \in Tasks /\ Barrier \in Tasks /\ \A r \in Runs : \A j \in Needs(r) : Producer(j) \in Tasks
    BY Names, ShapeFacts
  <1>3. ASSUME NEW r \in Runs, NEW j \in Needs(r)
        PROVE  /\ Counted(j, r)' <=> Counted(j, r)
               /\ Begun(Producer(j), <<"store", r, j>>)' <=> Begun(Producer(j), <<"store", r, j>>)
    <2>1. Counted(j, r)' <=> Counted(j, r)
      BY <1>1, <1>2 DEF Counted
    <2>2. Begun(Producer(j), <<"store", r, j>>)' <=> Begun(Producer(j), <<"store", r, j>>)
      BY <1>1, <1>2 DEF Begun
    <2> QED BY <2>1, <2>2
  <1>4. ASSUME NEW r \in Runs
        PROVE  Begun(Entry, <<"spawn", r>>)' <=> Begun(Entry, <<"spawn", r>>)
    BY <1>1, <1>2 DEF Begun
  <1>5. ASSUME NEW v \in Workers
        PROVE  Begun(Barrier, <<"finalizer", v>>)' <=> Begun(Barrier, <<"finalizer", v>>)
    BY <1>1, <1>2 DEF Begun
  <1> QED BY <1>3, <1>4, <1>5 DEF BegunKept

\* A step of a script that has to do with neither.
LEMMA CountQuiet ==
  ASSUME ProcessInv, ScriptOK', shape' = shape,
         \A v \in Workers : \A t : Runner(v, t)' <=> Runner(v, t),
         Keeps("store"), Keeps("count"), Keeps("spawn"), Keeps("finalizer"), Keeps("global_init"),
         Keeps("create"),
         \A t \in Tasks : /\ status'[t] = "none" <=> status[t] = "none"
                          /\ status'[t] = "done" <=> status[t] = "done",
         UNCHANGED <<waiting_counters, partitioned_pool, given>>,
         thread_local_initialized' \subseteq thread_local_initialized
  PROVE  CountOK'
  <1>1. ScriptOK /\ CountOK /\ shape \in Shapes
    BY DEF ProcessInv, ProcessTypeOK
  <1>2. MadeKept
    BY <1>1, MadeQuiet, Names
  <1>3. BegunKept
    BY <1>1, BegunQuiet
  <1>4. \A v \in Workers : status'[Finalizer(v)] = "done" => status[Finalizer(v)] = "done"
    BY Names
  <1> QED BY <1>1, <1>2, <1>3, <1>4, CountKept

\* The steps that pass on to the next operation.
LEMMA CountPop ==
  ASSUME ProcessInv, NEW w \in Workers, Effect(w, Left(w) \ {Op(w)}),
         Op(w)[1] \notin {"store", "count", "spawn", "finalizer", "global_init", "create"},
         \A t \in Tasks : /\ status'[t] = "none" <=> status[t] = "none"
                          /\ status'[t] = "done" <=> status[t] = "done",
         UNCHANGED <<waiting_counters, partitioned_pool, given>>,
         thread_local_initialized' \subseteq thread_local_initialized
  PROVE  CountOK'
  <1>1. /\ Keeps("store") /\ Keeps("count") /\ Keeps("spawn") /\ Keeps("finalizer")
        /\ Keeps("global_init") /\ Keeps("create")
    BY KeepsPop
  <1>2. ScriptOK' /\ shape' = shape /\ \A v \in Workers : \A t : Runner(v, t)' <=> Runner(v, t)
    BY DEF Effect, Steady, Runner
  <1> QED BY <1>1, <1>2, CountQuiet

\* A command counts as made before and after its creation.
LEMMA CountCreate ==
  ASSUME ProcessInv, NEW w \in Workers, Create(w)
  PROVE  CountOK'
  <1>1. ProcessTypeOK /\ ScriptOK /\ CountOK /\ shape \in Shapes
    BY DEF ProcessInv, ProcessTypeOK
  <1>2. PICK c \in Commands :
           /\ pc[w] = "run" /\ Op(w) = <<"create", c>> /\ Op(w) \in Left(w)
           /\ status[c] = "none" /\ status' = [status EXCEPT ![c] = "created"]
           /\ UNCHANGED <<flags, data>>
           /\ Effect(w, Left(w) \ {<<"create", c>>})
    BY <1>1, CreateFacts
  <1>3. Effect(w, Left(w) \ {Op(w)}) /\ Op(w)[1] = "create"
    BY <1>2
  <1>4. /\ Keeps("store") /\ Keeps("count") /\ Keeps("spawn") /\ Keeps("finalizer")
        /\ Keeps("global_init")
    BY <1>3, KeepsPop
  <1>5. ScriptOK' /\ shape' = shape /\ pc' = pc /\ \A v \in Workers : \A t : Runner(v, t)' <=> Runner(v, t)
    BY <1>3 DEF Effect, Steady, Runner
  <1>6. status'[c] = "created" /\ \A t \in Tasks : t # c => status'[t] = status[t]
    BY <1>1, <1>2, Names DEF ProcessTypeOK
  <1>7. BegunKept
    <2>1. \A t \in Tasks : status'[t] = "done" <=> status[t] = "done"
      BY <1>2, <1>6
    <2> QED BY <2>1, <1>1, <1>4, <1>5, BegunQuiet
  <1>8. MadeKept
    <2> SUFFICES ASSUME NEW d \in Commands PROVE IsMade(d)' <=> IsMade(d)
      BY DEF MadeKept
    <2>1. CASE d = c
      BY <2>1, <1>2, <1>6 DEF IsMade, Doing
    <2>2. CASE d # c
      <3>1. \A v \in Workers : <<"create", d>> \in Left(v)' <=> <<"create", d>> \in Left(v)
        BY <2>2, <1>2, Constants DEF Effect
      <3>2. Doing(<<"create", d>>)' <=> Doing(<<"create", d>>)
        BY <3>1, <1>1, <1>5, DoingLeft
      <3>3. status'[d] = status[d]
        BY <1>6, <2>2, Names
      <3> QED BY <3>2, <3>3 DEF IsMade
    <2> QED BY <2>1, <2>2
  <1>9. UNCHANGED <<waiting_counters, partitioned_pool, given, thread_local_initialized>>
    BY <1>2 DEF flags, data
  <1>10. \A v \in Workers : status'[Finalizer(v)] = "done" => status[Finalizer(v)] = "done"
    BY <1>6, Names
  <1> QED BY <1>1, <1>5, <1>7, <1>8, <1>9, <1>10, CountKept

\* A fragment that is received is stored but not yet counted.
LEMMA CountReceive ==
  ASSUME ProcessInv, NEW w \in Workers, ReceiveFragment(w)
  PROVE  CountOK'
  <1>1. ProcessTypeOK /\ ScriptOK /\ OwnOK /\ CountOK /\ shape \in Shapes
    BY DEF ProcessInv, ProcessTypeOK
  <1>2. PICK r \in Runs, j \in DataPorts :
           /\ pc[w] = "run" /\ Op(w) = <<"store", r, j>> /\ task[w] = Producer(j)
           /\ Op(w) \in Left(w) /\ \A x \in Left(w) : x[1] \in {"store", "complete"}
           /\ Effect(w, (Left(w) \ {Op(w)}) \cup (IF j \in Needs(r) THEN {<<"count", r>>} ELSE {}))
    BY <1>1, EffectReceive
  <1>3. /\ Keeps("spawn") /\ Keeps("finalizer") /\ Keeps("global_init") /\ Keeps("create")
    <2>1. \A x \in (IF j \in Needs(r) THEN {<<"count", r>>} ELSE {}) : x[1] = "count"
      OBVIOUS
    <2>2. Op(w)[1] = "store"
      BY <1>2
    <2> QED BY <1>2, <2>1, <2>2, KeepsPush
  <1>4. /\ ScriptOK' /\ shape' = shape /\ pc' = pc /\ task' = task
        /\ \A v \in Workers \ {w} : Left(v)' = Left(v)
        /\ Left(w)' = (Left(w) \ {<<"store", r, j>>}) \cup (IF j \in Needs(r) THEN {<<"count", r>>} ELSE {})
    BY <1>2, Constants DEF Effect, Steady
  <1>5. /\ status' = status /\ UNCHANGED <<waiting_counters, given, thread_local_initialized>>
        /\ partitioned_pool' = IF j \in Needs(r) THEN [partitioned_pool EXCEPT ![r] = @ \cup {j}]
                               ELSE partitioned_pool
    BY <1>2 DEF ReceiveFragment, sched, flags
  <1>6. MadeKept
    BY <1>1, <1>3, <1>4, <1>5, MadeQuiet
  <1>7. Runner(w, Producer(j)) /\ Producer(j) # Foreign /\ status[Producer(j)] = "running"
        /\ \A v \in Workers : Runner(v, Producer(j)) => v = w
    <2>1. Runner(w, Producer(j)) /\ Producer(j) # Foreign
      BY <1>2, Names DEF Runner
    <2> QED BY <2>1, <1>1, OneRunner
  <1>8. \A q \in Runs : \A i \in Needs(q) : Counted(i, q)' <=> Counted(i, q)
    <2> SUFFICES ASSUME NEW q \in Runs, NEW i \in Needs(q) PROVE Counted(i, q)' <=> Counted(i, q)
      OBVIOUS
    <2>1. CASE i # j
      <3>1. \A v \in Workers : Runner(v, Producer(i)) => v # w
        BY <2>1, <1>2, Names DEF Runner
      <3>2. \A v \in Workers : Runner(v, Producer(i))' <=> Runner(v, Producer(i))
        BY <1>4 DEF Runner
      <3> QED BY <3>1, <3>2, <1>4, <1>5 DEF Counted
    <2>2. CASE i = j /\ q # r
      <3>1. /\ <<"store", q, i>> \in Left(w)' <=> <<"store", q, i>> \in Left(w)
            /\ <<"count", q>> \in Left(w)' <=> <<"count", q>> \in Left(w)
        BY <2>2, <1>4
      <3>2. \A v \in Workers : Runner(v, Producer(i))' <=> Runner(v, Producer(i))
        BY <1>4 DEF Runner
      <3> QED BY <3>1, <3>2, <2>2, <1>4, <1>5, <1>7 DEF Counted
    <2>3. CASE i = j /\ q = r
      <3>1. <<"store", r, j>> \in Left(w) /\ <<"count", r>> \in Left(w)'
        BY <2>3, <1>2, <1>4
      <3>2. \A v \in Workers : Runner(v, Producer(i))' => v = w
        BY <2>3, <1>4, <1>7 DEF Runner
      <3> QED BY <3>1, <3>2, <2>3, <1>5, <1>7 DEF Counted
    <2> QED BY <2>1, <2>2, <2>3
  <1>9. ASSUME NEW q \in Runs, NEW i \in Needs(q)
        PROVE  Begun(Producer(i), <<"store", q, i>>)' <=>
                 Begun(Producer(i), <<"store", q, i>>) \/ (i = j /\ q = r)
    <2>1. \A v \in Workers : Runner(v, Producer(i))' <=> Runner(v, Producer(i))
      BY <1>4 DEF Runner
    <2>2. \A v \in Workers : <<"global_init">> \in Left(v)' <=> <<"global_init">> \in Left(v)
      BY <1>3 DEF Keeps
    <2>3. CASE i # j
      <3>1. \A v \in Workers : Runner(v, Producer(i)) => v # w
        BY <2>3, <1>2, Names DEF Runner
      <3> QED BY <2>1, <3>1, <2>3, <1>4, <1>5 DEF Begun
    <2>4. CASE i = j /\ q # r
      <3>1. <<"store", q, i>> \in Left(w)' <=> <<"store", q, i>> \in Left(w)
        BY <2>4, <1>4
      <3> QED BY <2>1, <2>2, <2>4, <3>1, <1>4, <1>5, <1>7 DEF Begun
    <2>5. CASE i = j /\ q = r
      <3>1. <<"store", r, j>> \notin Left(w)' /\ <<"global_init">> \notin Left(w)'
        BY <1>2, <1>4
      <3> QED BY <2>1, <2>5, <3>1, <1>7 DEF Begun
    <2> QED BY <2>3, <2>4, <2>5
  <1>10. \A q \in Runs : Begun(Entry, <<"spawn", q>>)' <=> Begun(Entry, <<"spawn", q>>)
    <2>1. \A v \in Workers : \A q : /\ <<"global_init">> \in Left(v)' <=> <<"global_init">> \in Left(v)
                                    /\ <<"spawn", q>> \in Left(v)' <=> <<"spawn", q>> \in Left(v)
      BY <1>3 DEF Keeps
    <2> QED BY <2>1, <1>4, <1>5 DEF Begun, Runner
  <1>11. \A v \in Workers : Begun(Barrier, <<"finalizer", v>>)' <=> Begun(Barrier, <<"finalizer", v>>)
    <2>1. \A v \in Workers : \A q : /\ <<"global_init">> \in Left(v)' <=> <<"global_init">> \in Left(v)
                                    /\ <<"finalizer", q>> \in Left(v)' <=> <<"finalizer", q>> \in Left(v)
      BY <1>3 DEF Keeps
    <2> QED BY <2>1, <1>4, <1>5 DEF Begun, Runner
  <1>12. ASSUME NEW q \in Runs
        PROVE  /\ (waiting_counters[q] = Cardinality({i \in Needs(q) : ~Counted(i, q)}))'
               /\ (waiting_counters[q] > 0 =>
                     /\ partitioned_pool[q] = {i \in Needs(q) : Begun(Producer(i), <<"store", q, i>>)}
                     /\ ~IsMade(Run(q)))'
               /\ (waiting_counters[q] = 0 => given[q] = Needs(q))'
               /\ (Needs(q) # {} /\ waiting_counters[q] = 0 => IsMade(Run(q)))'
               /\ (Needs(q) = {} => (IsMade(Run(q)) <=> Begun(Entry, <<"spawn", q>>)))'
    <2>1. Needs(q)' = Needs(q)
      BY <1>4 DEF Needs
    <2>2. {i \in Needs(q) : ~Counted(i, q)}' = {i \in Needs(q) : ~Counted(i, q)}
      BY <2>1, <1>8
    <2>3. IsMade(Run(q))' <=> IsMade(Run(q))
      BY <1>6, Names DEF MadeKept
    <2>4. waiting_counters[q] > 0 =>
            partitioned_pool'[q] = {i \in Needs(q) : Begun(Producer(i), <<"store", q, i>>)}'
      <3>1. partitioned_pool \in [Runs -> SUBSET Ports]
        BY <1>1 DEF ProcessTypeOK
      <3>2. {i \in Needs(q) : Begun(Producer(i), <<"store", q, i>>)}'
              = {i \in Needs(q) : Begun(Producer(i), <<"store", q, i>>) \/ (i = j /\ q = r)}
        BY <1>9, <2>1
      <3>3. waiting_counters[q] > 0 =>
              partitioned_pool[q] = {i \in Needs(q) : Begun(Producer(i), <<"store", q, i>>)}
        BY <1>1 DEF CountOK
      <3>4. CASE q = r /\ j \in Needs(r)
        <4>1. partitioned_pool'[q] = partitioned_pool[q] \cup {j}
          BY <3>1, <3>4, <1>5
        <4> QED BY <4>1, <3>2, <3>3, <3>4
      <3>5. CASE ~(q = r /\ j \in Needs(r))
        <4>1. partitioned_pool'[q] = partitioned_pool[q]
          BY <3>1, <3>5, <1>5
        <4> QED BY <4>1, <3>2, <3>3, <3>5
      <3> QED BY <3>4, <3>5
    <2> QED BY <2>1, <2>2, <2>3, <2>4, <1>1, <1>5, <1>10 DEF CountOK
  <1>13. ASSUME NEW v \in Workers
        PROVE  /\ (IsMade(Finalizer(v)) => Begun(Barrier, <<"finalizer", v>>))'
               /\ (Begun(Barrier, <<"finalizer", v>>) /\ v \in thread_local_initialized =>
                     IsMade(Finalizer(v)) /\ status[Finalizer(v)] # "done")'
    <2>1. IsMade(Finalizer(v))' <=> IsMade(Finalizer(v))
      BY <1>6, Names DEF MadeKept
    <2> QED BY <2>1, <1>1, <1>5, <1>11 DEF CountOK
  <1> QED BY <1>12, <1>13 DEF CountOK

\* A producer that counted a fragment has stored it.
LEMMA CountedBegun ==
  ASSUME ProcessTypeOK, ScriptOK, NEW r \in Runs, NEW j \in Needs(r), Counted(j, r)
  PROVE  Begun(Producer(j), <<"store", r, j>>)
  <1>1. CASE status[Producer(j)] = "done"
    BY <1>1 DEF Begun
  <1>2. CASE status[Producer(j)] # "done"
    <2>1. PICK w \in Workers : Runner(w, Producer(j)) /\ <<"store", r, j>> \notin Left(w)
      BY <1>2 DEF Counted
    <2>2. Form(task[w], script[w]) /\ shape \in Shapes
      BY <2>1 DEF ScriptOK, Runner, Form, ProcessTypeOK
    <2>3. Members(task[w], Left(w))
      BY <2>2, MembersOfForm DEF Left
    <2>4. task[w] # Entry
      BY <2>1, Names DEF Runner
    <2>5. <<"global_init">> \notin Left(w)
      BY <2>3, <2>4 DEF Members
    <2> QED BY <2>1, <2>5 DEF Begun
  <1> QED BY <1>1, <1>2

\* The count of a fragment decrements the counter; the last one makes the run.
LEMMA CountCount ==
  ASSUME ProcessInv, NEW w \in Workers, CountFragment(w)
  PROVE  CountOK' /\ SpawnOK'
  <1>1. ProcessTypeOK /\ ScriptOK /\ OwnOK /\ SpawnOK /\ CountOK /\ shape \in Shapes
    BY DEF ProcessInv, ProcessTypeOK
  <1>2. PICK r \in Runs : \E j \in Needs(r) :
           /\ pc[w] = "run" /\ Op(w) = <<"count", r>> /\ task[w] = Producer(j)
           /\ Op(w) \in Left(w) /\ <<"store", r, j>> \notin Left(w)
           /\ \A x \in Left(w) : x = Op(w) \/ x[1] \in {"store", "complete"}
           /\ Effect(w, (Left(w) \ {Op(w)})
                          \cup (IF waiting_counters[r] = 1 THEN SpawnOps(Run(r)) ELSE {}))
    BY <1>1, EffectCount
  <1>3. PICK j \in Needs(r) :
           /\ pc[w] = "run" /\ Op(w) = <<"count", r>> /\ task[w] = Producer(j)
           /\ Op(w) \in Left(w) /\ <<"store", r, j>> \notin Left(w)
           /\ \A x \in Left(w) : x = Op(w) \/ x[1] \in {"store", "complete"}
           /\ Effect(w, (Left(w) \ {Op(w)})
                          \cup (IF waiting_counters[r] = 1 THEN SpawnOps(Run(r)) ELSE {}))
    BY <1>2
  <1> DEFINE A == IF waiting_counters[r] = 1 THEN SpawnOps(Run(r)) ELSE {}
  <1>4. \A x \in A : x[1] \in {"create", "depend", "commit"}
    BY DEF SpawnOps
  <1>5. /\ Keeps("store") /\ Keeps("spawn") /\ Keeps("finalizer") /\ Keeps("global_init")
    <2>1. Op(w)[1] = "count" /\ Effect(w, (Left(w) \ {Op(w)}) \cup A)
      BY <1>3
    <2> HIDE DEF A
    <2> QED BY <2>1, <1>4, KeepsPush
  <1>6. /\ ScriptOK' /\ shape' = shape /\ pc' = pc /\ task' = task
        /\ \A v \in Workers \ {w} : Left(v)' = Left(v)
        /\ Left(w)' = (Left(w) \ {<<"count", r>>}) \cup A
    BY <1>3, Constants DEF Effect, Steady
  <1>7. /\ status' = status /\ thread_local_initialized' = thread_local_initialized
        /\ task_queue' = task_queue
        /\ waiting_counters' = [waiting_counters EXCEPT ![r] = @ - 1]
        /\ waiting_counters[r] = 1 => /\ given' = [given EXCEPT ![r] = partitioned_pool[r]]
                                      /\ partitioned_pool' = [partitioned_pool EXCEPT ![r] = {}]
        /\ waiting_counters[r] # 1 => given' = given /\ partitioned_pool' = partitioned_pool
    BY <1>3 DEF CountFragment, sched, flags, slots
  <1>8. Runner(w, Producer(j)) /\ Producer(j) # Foreign /\ status[Producer(j)] = "running"
        /\ \A v \in Workers : Runner(v, Producer(j)) => v = w
    <2>1. Runner(w, Producer(j)) /\ Producer(j) # Foreign
      BY <1>3, Names DEF Runner
    <2> QED BY <2>1, <1>1, OneRunner
  <1>9. \A v \in Workers : \A t : Runner(v, t)' <=> Runner(v, t)
    BY <1>6 DEF Runner
  <1>10. ASSUME NEW q \in Runs, NEW i \in Needs(q)
         PROVE  Counted(i, q)' <=> Counted(i, q) \/ (i = j /\ q = r)
    <2>1. CASE i # j
      <3>1. \A v \in Workers : Runner(v, Producer(i)) => v # w
        BY <2>1, <1>3, Names DEF Runner
      <3> QED BY <3>1, <2>1, <1>6, <1>7, <1>9 DEF Counted
    <2>2. CASE i = j /\ q # r
      <3>1. /\ <<"store", q, i>> \in Left(w)' <=> <<"store", q, i>> \in Left(w)
            /\ <<"count", q>> \in Left(w)' <=> <<"count", q>> \in Left(w)
        BY <2>2, <1>4, <1>6
      <3> QED BY <3>1, <2>2, <1>6, <1>7, <1>8, <1>9 DEF Counted
    <2>3. CASE i = j /\ q = r
      <3>1. <<"store", r, j>> \notin Left(w)' /\ <<"count", r>> \notin Left(w)'
        BY <1>3, <1>4, <1>6
      <3> QED BY <3>1, <2>3, <1>8, <1>9 DEF Counted
    <2> QED BY <2>1, <2>2, <2>3
  <1>11. ~Counted(j, r)
    BY <1>3, <1>8 DEF Counted
  <1>12. ASSUME NEW q \in Runs, NEW i \in Needs(q)
         PROVE  Begun(Producer(i), <<"store", q, i>>)' <=> Begun(Producer(i), <<"store", q, i>>)
    <2>1. \A v \in Workers : /\ <<"global_init">> \in Left(v)' <=> <<"global_init">> \in Left(v)
                             /\ <<"store", q, i>> \in Left(v)' <=> <<"store", q, i>> \in Left(v)
      BY <1>5 DEF Keeps
    <2> QED BY <2>1, <1>7, <1>9 DEF Begun
  <1>13. \A q \in Runs : Begun(Entry, <<"spawn", q>>)' <=> Begun(Entry, <<"spawn", q>>)
    <2>1. \A v \in Workers : \A q : /\ <<"global_init">> \in Left(v)' <=> <<"global_init">> \in Left(v)
                                    /\ <<"spawn", q>> \in Left(v)' <=> <<"spawn", q>> \in Left(v)
      BY <1>5 DEF Keeps
    <2> QED BY <2>1, <1>7, <1>9 DEF Begun
  <1>14. \A v \in Workers : Begun(Barrier, <<"finalizer", v>>)' <=> Begun(Barrier, <<"finalizer", v>>)
    <2>1. \A v \in Workers : \A q : /\ <<"global_init">> \in Left(v)' <=> <<"global_init">> \in Left(v)
                                    /\ <<"finalizer", q>> \in Left(v)' <=> <<"finalizer", q>> \in Left(v)
      BY <1>5 DEF Keeps
    <2> QED BY <2>1, <1>7, <1>9 DEF Begun
  <1>15. \A c \in Commands : c # Run(r) \/ waiting_counters[r] # 1 => (IsMade(c)' <=> IsMade(c))
    <2> SUFFICES ASSUME NEW c \in Commands, c # Run(r) \/ waiting_counters[r] # 1
                 PROVE  IsMade(c)' <=> IsMade(c)
      OBVIOUS
    <2>1. <<"create", c>> \in Left(w)' <=> <<"create", c>> \in Left(w)
      BY <1>6 DEF SpawnOps
    <2>2. \A v \in Workers : <<"create", c>> \in Left(v)' <=> <<"create", c>> \in Left(v)
      BY <2>1, <1>6
    <2>3. Doing(<<"create", c>>)' <=> Doing(<<"create", c>>)
      BY <2>2, <1>1, <1>6, DoingLeft
    <2> QED BY <2>3, <1>7 DEF IsMade
  <1>16. waiting_counters[r] = 1 => IsMade(Run(r))'
    <2>1. waiting_counters[r] = 1 => <<"create", Run(r)>> \in Left(w)'
      BY <1>6 DEF SpawnOps
    <2> QED BY <2>1, <1>3, <1>6 DEF IsMade, Doing
  <1> DEFINE S(q) == {i \in Needs(q) : ~Counted(i, q)}
  <1>17. \A q : Needs(q)' = Needs(q)
    BY <1>6 DEF Needs
  <1>18. \A q \in Runs : waiting_counters[q] = Cardinality(S(q)) /\ IsFiniteSet(S(q))
                         /\ Cardinality(S(q)) \in Nat
    <2> SUFFICES ASSUME NEW q \in Runs
                 PROVE  waiting_counters[q] = Cardinality(S(q)) /\ IsFiniteSet(S(q))
                        /\ Cardinality(S(q)) \in Nat
      OBVIOUS
    <2>1. waiting_counters[q] = Cardinality(S(q))
      BY <1>1 DEF CountOK
    <2>2. IsFiniteSet(Needs(q)) /\ S(q) \in SUBSET Needs(q)
      BY <1>1, ShapeFacts
    <2> HIDE DEF S
    <2>3. IsFiniteSet(S(q))
      BY <2>2, FS_Subset
    <2> QED BY <2>1, <2>3, FS_CardinalityType
  <1>19. \A q \in Runs : q # r => S(q)' = S(q)
    BY <1>10, <1>17
  <1>20. S(r)' = S(r) \ {j} /\ j \in S(r)
    BY <1>10, <1>11, <1>17
  <1>21. Cardinality(S(r) \ {j}) = waiting_counters[r] - 1 /\ waiting_counters[r] > 0
    <2>1. Cardinality(S(r) \ {j}) = Cardinality(S(r)) - 1 /\ IsFiniteSet(S(r) \ {j})
      BY <1>18, <1>20, FS_RemoveElement
    <2>2. S(r) # {}
      BY <1>20
    <2>3. Cardinality(S(r)) # 0
      BY <1>18, <2>2, FS_EmptySet
    <2> QED BY <2>1, <2>3, <1>18
  <1>22. waiting_counters \in [Runs -> Nat] /\ partitioned_pool \in [Runs -> SUBSET Ports]
         /\ given \in [Runs -> SUBSET Ports]
    BY <1>1 DEF ProcessTypeOK
  <1>23. ~IsMade(Run(r)) /\ partitioned_pool[r] = {i \in Needs(r) : Begun(Producer(i), <<"store", r, i>>)}
    BY <1>1, <1>21 DEF CountOK
  <1>24. waiting_counters[r] = 1 => partitioned_pool[r] = Needs(r)
    <2> SUFFICES ASSUME waiting_counters[r] = 1, NEW i \in Needs(r)
                 PROVE  Begun(Producer(i), <<"store", r, i>>)
      BY <1>23
    <2>1. Cardinality(S(r)) = 1
      BY <1>18
    <2>2. \E x : S(r) = {x}
      BY <2>1, <1>18, FS_Singleton
    <2>3. S(r) = {j}
      BY <2>2, <1>20
    <2>4. CASE i = j
      <3>1. <<"global_init">> \notin Left(w)
        BY <1>3
      <3> QED BY <2>4, <3>1, <1>3, <1>8 DEF Begun
    <2>5. CASE i # j
      <3>1. Counted(i, r)
        BY <2>3, <2>5
      <3> QED BY <3>1, <1>1, CountedBegun
    <2> QED BY <2>4, <2>5
  <1>25. ASSUME NEW q \in Runs
        PROVE  /\ (waiting_counters[q] = Cardinality({i \in Needs(q) : ~Counted(i, q)}))'
               /\ (waiting_counters[q] > 0 =>
                     /\ partitioned_pool[q] = {i \in Needs(q) : Begun(Producer(i), <<"store", q, i>>)}
                     /\ ~IsMade(Run(q)))'
               /\ (waiting_counters[q] = 0 => given[q] = Needs(q))'
               /\ (Needs(q) # {} /\ waiting_counters[q] = 0 => IsMade(Run(q)))'
               /\ (Needs(q) = {} => (IsMade(Run(q)) <=> Begun(Entry, <<"spawn", q>>)))'
    <2>1. {i \in Needs(q) : Begun(Producer(i), <<"store", q, i>>)}'
            = {i \in Needs(q) : Begun(Producer(i), <<"store", q, i>>)}
      BY <1>12, <1>17
    <2>2. Run(q) \in Commands /\ (q # r => Run(q) # Run(r))
      BY Names
    <2>3. CASE q # r
      <3>1. waiting_counters'[q] = waiting_counters[q] /\ partitioned_pool'[q] = partitioned_pool[q]
            /\ given'[q] = given[q]
        BY <2>3, <1>7, <1>22
      <3>2. IsMade(Run(q))' <=> IsMade(Run(q))
        BY <2>2, <2>3, <1>15
      <3>3. {i \in Needs(q) : ~Counted(i, q)}' = {i \in Needs(q) : ~Counted(i, q)}
        BY <2>3, <1>19
      <3> QED BY <2>1, <3>1, <3>2, <3>3, <1>1, <1>13, <1>17 DEF CountOK
    <2>4. CASE q = r
      <3>1. waiting_counters'[r] = waiting_counters[r] - 1 /\ waiting_counters[r] \in Nat
        BY <1>7, <1>22
      <3>2. {i \in Needs(r) : ~Counted(i, r)}' = S(r) \ {j}
        BY <1>20
      <3>3. Needs(r) # {}
        BY <1>3
      <3>4. waiting_counters'[r] = Cardinality({i \in Needs(r) : ~Counted(i, r)}')
        BY <3>1, <3>2, <1>21
      <3>5. CASE waiting_counters[r] = 1
        <4>1. given'[r] = Needs(r)
          BY <3>5, <1>7, <1>22, <1>24
        <4> QED BY <2>4, <3>1, <3>3, <3>4, <3>5, <4>1, <1>16, <1>17
      <3>6. CASE waiting_counters[r] # 1
        <4>1. partitioned_pool'[r] = partitioned_pool[r] /\ waiting_counters'[r] > 0
          BY <3>1, <3>6, <1>7, <1>21
        <4>2. ~IsMade(Run(r))'
          <5>1. Run(r) \in Commands
            BY Names
          <5> QED BY <3>6, <5>1, <1>15, <1>23
        <4> QED BY <2>4, <2>1, <3>1, <3>3, <3>4, <4>1, <4>2, <1>17, <1>23
      <3> QED BY <3>5, <3>6
    <2> QED BY <2>3, <2>4
  <1>26. ASSUME NEW v \in Workers
        PROVE  /\ (IsMade(Finalizer(v)) => Begun(Barrier, <<"finalizer", v>>))'
               /\ (Begun(Barrier, <<"finalizer", v>>) /\ v \in thread_local_initialized =>
                     IsMade(Finalizer(v)) /\ status[Finalizer(v)] # "done")'
    <2>1. IsMade(Finalizer(v))' <=> IsMade(Finalizer(v))
      BY <1>15, Names
    <2> QED BY <2>1, <1>1, <1>7, <1>14 DEF CountOK
  <1>27. CountOK'
    BY <1>25, <1>26 DEF CountOK
  <1>28. SpawnOK'
    <2>1. Run(r) \in Commands
      BY Names
    <2>2. CASE waiting_counters[r] = 1
      <3>1. Effect(w, (Left(w) \ {Op(w)}) \cup SpawnOps(Run(r)))
        BY <2>2, <1>3
      <3>2. \A x \in Left(w) : x[1] \notin {"create", "commit", "depend"}
        BY <1>3
      <3> QED BY <2>1, <3>1, <3>2, <1>1, <1>7, <1>23, SpawnPush
    <2>3. CASE waiting_counters[r] # 1
      <3>1. Effect(w, Left(w) \ {Op(w)}) /\ Op(w)[1] = "count"
        BY <2>3, <1>3
      <3>2. Keeps("create") /\ Keeps("commit")
        BY <3>1, KeepsPop
      <3>3. task_queue \in Seq(Commands)
        BY <1>1 DEF ProcessTypeOK
      <3> QED BY <3>2, <3>3, <1>1, <1>7, SpawnKept
    <2> QED BY <2>2, <2>3
  <1> QED BY <1>27, <1>28

\* A command is made by a turn of a loop: the turn was not begun before, and
\* the command not made.
LEMMA CountSpawn ==
  ASSUME ProcessInv, NEW w \in Workers, SpawnRun(w)
  PROVE  CountOK' /\ SpawnOK'
  <1>1. ProcessTypeOK /\ ScriptOK /\ OwnOK /\ SpawnOK /\ CountOK /\ shape \in Shapes
    BY DEF ProcessInv, ProcessTypeOK
  <1>2. PICK r \in Runs :
           /\ pc[w] = "run" /\ Op(w) = <<"spawn", r>> /\ task[w] = Entry /\ Needs(r) = {}
           /\ Op(w) \in Left(w) /\ \A x \in Left(w) : x[1] \in {"spawn", "complete"}
           /\ Effect(w, (Left(w) \ {Op(w)}) \cup SpawnOps(Run(r)))
    BY <1>1, EffectSpawn
  <1>3. \A x \in SpawnOps(Run(r)) : x[1] \in {"create", "depend", "commit"}
    BY DEF SpawnOps
  <1>4. Keeps("store") /\ Keeps("count") /\ Keeps("finalizer") /\ Keeps("global_init")
    <2>1. Op(w)[1] = "spawn"
      BY <1>2
    <2> QED BY <2>1, <1>2, <1>3, KeepsPush
  <1>5. /\ ScriptOK' /\ shape' = shape /\ pc' = pc /\ task' = task
        /\ \A v \in Workers \ {w} : Left(v)' = Left(v)
        /\ Left(w)' = (Left(w) \ {<<"spawn", r>>}) \cup SpawnOps(Run(r))
    BY <1>2, Constants DEF Effect, Steady
  <1>6. /\ status' = status /\ task_queue' = task_queue
        /\ UNCHANGED <<waiting_counters, given, partitioned_pool, thread_local_initialized>>
    BY DEF SpawnRun, sched, flags, slots, data
  <1>7. Runner(w, Entry) /\ Entry # Foreign /\ status[Entry] = "running"
        /\ \A v \in Workers : Runner(v, Entry) => v = w
    <2>1. Runner(w, Entry) /\ Entry # Foreign
      BY <1>2, Names DEF Runner
    <2> QED BY <2>1, <1>1, OneRunner
  <1>8. \A v \in Workers : \A t : Runner(v, t)' <=> Runner(v, t)
    BY <1>5 DEF Runner
  <1>9. ASSUME NEW v \in Workers
        PROVE  /\ <<"global_init">> \in Left(v)' <=> <<"global_init">> \in Left(v)
               /\ \A q : /\ <<"count", q>> \in Left(v)' <=> <<"count", q>> \in Left(v)
                         /\ <<"finalizer", q>> \in Left(v)' <=> <<"finalizer", q>> \in Left(v)
                         /\ \A j : <<"store", q, j>> \in Left(v)' <=> <<"store", q, j>> \in Left(v)
    BY <1>4 DEF Keeps
  <1>10. \A q \in Runs : \A i \in Needs(q) :
           /\ Counted(i, q)' <=> Counted(i, q)
           /\ Begun(Producer(i), <<"store", q, i>>)' <=> Begun(Producer(i), <<"store", q, i>>)
    BY <1>6, <1>8, <1>9 DEF Counted, Begun
  <1>11. \A v \in Workers : Begun(Barrier, <<"finalizer", v>>)' <=> Begun(Barrier, <<"finalizer", v>>)
    BY <1>6, <1>8, <1>9 DEF Begun
  <1>12. ASSUME NEW q \in Runs
         PROVE  Begun(Entry, <<"spawn", q>>)' <=> Begun(Entry, <<"spawn", q>>) \/ q = r
    <2>1. CASE q # r
      <3>1. <<"spawn", q>> \in Left(w)' <=> <<"spawn", q>> \in Left(w)
        BY <2>1, <1>3, <1>5
      <3> QED BY <2>1, <3>1, <1>6, <1>7, <1>8, <1>9 DEF Begun
    <2>2. CASE q = r
      <3>1. <<"spawn", r>> \notin Left(w)' /\ <<"global_init">> \notin Left(w)'
        BY <1>2, <1>3, <1>5
      <3> QED BY <2>2, <3>1, <1>7, <1>8 DEF Begun
    <2> QED BY <2>1, <2>2
  <1>13. ~IsMade(Run(r)) /\ waiting_counters[r] = 0
    <2>1. ~Begun(Entry, <<"spawn", r>>)
      BY <1>1, <1>2, <1>7, NotBegun
    <2>2. {j \in Needs(r) : ~Counted(j, r)} = {}
      BY <1>2
    <2> QED BY <2>1, <2>2, <1>1, <1>2, FS_EmptySet DEF CountOK
  <1>14. IsMade(Run(r))'
    <2>1. <<"create", Run(r)>> \in Left(w)'
      BY <1>5 DEF SpawnOps
    <2> QED BY <2>1, <1>2, <1>5 DEF IsMade, Doing
  <1>15. \A c \in Commands : c # Run(r) => (IsMade(c)' <=> IsMade(c))
    <2> SUFFICES ASSUME NEW c \in Commands, c # Run(r) PROVE IsMade(c)' <=> IsMade(c)
      OBVIOUS
    <2>1. <<"create", c>> \in Left(w)' <=> <<"create", c>> \in Left(w)
      BY <1>5 DEF SpawnOps
    <2>2. \A v \in Workers : <<"create", c>> \in Left(v)' <=> <<"create", c>> \in Left(v)
      BY <2>1, <1>5
    <2>3. Doing(<<"create", c>>)' <=> Doing(<<"create", c>>)
      BY <2>2, <1>1, <1>5, DoingLeft
    <2> QED BY <2>3, <1>6 DEF IsMade
  <1>16. ASSUME NEW q \in Runs
        PROVE  /\ (waiting_counters[q] = Cardinality({i \in Needs(q) : ~Counted(i, q)}))'
               /\ (waiting_counters[q] > 0 =>
                     /\ partitioned_pool[q] = {i \in Needs(q) : Begun(Producer(i), <<"store", q, i>>)}
                     /\ ~IsMade(Run(q)))'
               /\ (waiting_counters[q] = 0 => given[q] = Needs(q))'
               /\ (Needs(q) # {} /\ waiting_counters[q] = 0 => IsMade(Run(q)))'
               /\ (Needs(q) = {} => (IsMade(Run(q)) <=> Begun(Entry, <<"spawn", q>>)))'
    <2>1. Needs(q)' = Needs(q)
      BY <1>5 DEF Needs
    <2>2. {i \in Needs(q) : ~Counted(i, q)}' = {i \in Needs(q) : ~Counted(i, q)}
      BY <2>1, <1>10
    <2>3. {i \in Needs(q) : Begun(Producer(i), <<"store", q, i>>)}'
            = {i \in Needs(q) : Begun(Producer(i), <<"store", q, i>>)}
      BY <2>1, <1>10
    <2>4. q # r => (IsMade(Run(q))' <=> IsMade(Run(q)))
      BY <1>15, Names
    <2>5. CASE q # r
      BY <2>1, <2>2, <2>3, <2>4, <2>5, <1>1, <1>6, <1>12 DEF CountOK
    <2>6. CASE q = r
      BY <2>1, <2>2, <2>3, <2>6, <1>1, <1>2, <1>6, <1>12, <1>13, <1>14 DEF CountOK
    <2> QED BY <2>5, <2>6
  <1>17. ASSUME NEW v \in Workers
        PROVE  /\ (IsMade(Finalizer(v)) => Begun(Barrier, <<"finalizer", v>>))'
               /\ (Begun(Barrier, <<"finalizer", v>>) /\ v \in thread_local_initialized =>
                     IsMade(Finalizer(v)) /\ status[Finalizer(v)] # "done")'
    <2>1. IsMade(Finalizer(v))' <=> IsMade(Finalizer(v))
      BY <1>15, Names
    <2> QED BY <2>1, <1>1, <1>6, <1>11 DEF CountOK
  <1>18. CountOK'
    BY <1>16, <1>17 DEF CountOK
  <1>19. SpawnOK'
    <2>1. Run(r) \in Commands /\ \A x \in Left(w) : x[1] \notin {"create", "commit", "depend"}
      BY <1>2, Names
    <2> QED BY <2>1, <1>1, <1>2, <1>6, <1>13, SpawnPush
  <1> QED BY <1>18, <1>19

\* A finalizer is made once for a worker that was initialized.
LEMMA CountFinalizer ==
  ASSUME ProcessInv, NEW w \in Workers, CreateThreadLocalFinalizer(w)
  PROVE  CountOK' /\ SpawnOK'
  <1>1. ProcessTypeOK /\ ScriptOK /\ OwnOK /\ SpawnOK /\ CountOK /\ shape \in Shapes
    BY DEF ProcessInv, ProcessTypeOK
  <1>2. PICK v \in Workers :
           /\ pc[w] = "run" /\ Op(w) = <<"finalizer", v>> /\ task[w] = Barrier
           /\ Op(w) \in Left(w) /\ \A x \in Left(w) : x[1] \in {"finalizer", "complete"}
           /\ Effect(w, (Left(w) \ {Op(w)}) \cup
                (IF v \in thread_local_initialized THEN SpawnOps(Finalizer(v)) ELSE {}))
    BY <1>1, EffectFinalizer
  <1> DEFINE A == IF v \in thread_local_initialized THEN SpawnOps(Finalizer(v)) ELSE {}
  <1>3. \A x \in A : x[1] \in {"create", "depend", "commit"}
    BY DEF SpawnOps
  <1>4. Keeps("store") /\ Keeps("count") /\ Keeps("spawn") /\ Keeps("global_init")
    <2>1. Op(w)[1] = "finalizer" /\ Effect(w, (Left(w) \ {Op(w)}) \cup A)
      BY <1>2
    <2> HIDE DEF A
    <2> QED BY <2>1, <1>3, KeepsPush
  <1>5. /\ ScriptOK' /\ shape' = shape /\ pc' = pc /\ task' = task
        /\ \A u \in Workers \ {w} : Left(u)' = Left(u)
        /\ Left(w)' = (Left(w) \ {<<"finalizer", v>>}) \cup A
    BY <1>2, Constants DEF Effect, Steady
  <1>6. /\ status' = status /\ task_queue' = task_queue
        /\ UNCHANGED <<waiting_counters, given, partitioned_pool, thread_local_initialized>>
    BY DEF CreateThreadLocalFinalizer, sched, flags, slots, data
  <1>7. Runner(w, Barrier) /\ Barrier # Foreign /\ status[Barrier] = "running"
        /\ \A u \in Workers : Runner(u, Barrier) => u = w
    <2>1. Runner(w, Barrier) /\ Barrier # Foreign
      BY <1>2, Names DEF Runner
    <2> QED BY <2>1, <1>1, OneRunner
  <1>8. \A u \in Workers : \A t : Runner(u, t)' <=> Runner(u, t)
    BY <1>5 DEF Runner
  <1>9. ASSUME NEW u \in Workers
        PROVE  /\ <<"global_init">> \in Left(u)' <=> <<"global_init">> \in Left(u)
               /\ \A q : /\ <<"count", q>> \in Left(u)' <=> <<"count", q>> \in Left(u)
                         /\ <<"spawn", q>> \in Left(u)' <=> <<"spawn", q>> \in Left(u)
                         /\ \A j : <<"store", q, j>> \in Left(u)' <=> <<"store", q, j>> \in Left(u)
    BY <1>4 DEF Keeps
  <1>10. \A q \in Runs : \A i \in Needs(q) :
           /\ Counted(i, q)' <=> Counted(i, q)
           /\ Begun(Producer(i), <<"store", q, i>>)' <=> Begun(Producer(i), <<"store", q, i>>)
    BY <1>6, <1>8, <1>9 DEF Counted, Begun
  <1>11. \A q \in Runs : Begun(Entry, <<"spawn", q>>)' <=> Begun(Entry, <<"spawn", q>>)
    BY <1>6, <1>8, <1>9 DEF Begun
  <1>12. ASSUME NEW u \in Workers
         PROVE  Begun(Barrier, <<"finalizer", u>>)' <=> Begun(Barrier, <<"finalizer", u>>) \/ u = v
    <2>1. CASE u # v
      <3>1. <<"finalizer", u>> \in Left(w)' <=> <<"finalizer", u>> \in Left(w)
        BY <2>1, <1>3, <1>5
      <3> QED BY <2>1, <3>1, <1>6, <1>7, <1>8, <1>9 DEF Begun
    <2>2. CASE u = v
      <3>1. <<"finalizer", v>> \notin Left(w)' /\ <<"global_init">> \notin Left(w)'
        BY <1>2, <1>3, <1>5
      <3> QED BY <2>2, <3>1, <1>7, <1>8 DEF Begun
    <2> QED BY <2>1, <2>2
  <1>13. ~IsMade(Finalizer(v))
    <2>1. ~Begun(Barrier, <<"finalizer", v>>)
      BY <1>1, <1>2, <1>7, NotBegun
    <2> QED BY <2>1, <1>1 DEF CountOK
  <1>14. v \in thread_local_initialized => IsMade(Finalizer(v))'
    <2>1. v \in thread_local_initialized => <<"create", Finalizer(v)>> \in Left(w)'
      BY <1>5 DEF SpawnOps
    <2> QED BY <2>1, <1>2, <1>5 DEF IsMade, Doing
  <1>15. \A c \in Commands : c # Finalizer(v) => (IsMade(c)' <=> IsMade(c))
    <2> SUFFICES ASSUME NEW c \in Commands, c # Finalizer(v) PROVE IsMade(c)' <=> IsMade(c)
      OBVIOUS
    <2>1. <<"create", c>> \in Left(w)' <=> <<"create", c>> \in Left(w)
      BY <1>5 DEF SpawnOps
    <2>2. \A u \in Workers : <<"create", c>> \in Left(u)' <=> <<"create", c>> \in Left(u)
      BY <2>1, <1>5
    <2>3. Doing(<<"create", c>>)' <=> Doing(<<"create", c>>)
      BY <2>2, <1>1, <1>5, DoingLeft
    <2> QED BY <2>3, <1>6 DEF IsMade
  <1>16. ASSUME NEW q \in Runs
        PROVE  /\ (waiting_counters[q] = Cardinality({i \in Needs(q) : ~Counted(i, q)}))'
               /\ (waiting_counters[q] > 0 =>
                     /\ partitioned_pool[q] = {i \in Needs(q) : Begun(Producer(i), <<"store", q, i>>)}
                     /\ ~IsMade(Run(q)))'
               /\ (waiting_counters[q] = 0 => given[q] = Needs(q))'
               /\ (Needs(q) # {} /\ waiting_counters[q] = 0 => IsMade(Run(q)))'
               /\ (Needs(q) = {} => (IsMade(Run(q)) <=> Begun(Entry, <<"spawn", q>>)))'
    <2>1. Needs(q)' = Needs(q)
      BY <1>5 DEF Needs
    <2>2. {i \in Needs(q) : ~Counted(i, q)}' = {i \in Needs(q) : ~Counted(i, q)}
      BY <2>1, <1>10
    <2>3. {i \in Needs(q) : Begun(Producer(i), <<"store", q, i>>)}'
            = {i \in Needs(q) : Begun(Producer(i), <<"store", q, i>>)}
      BY <2>1, <1>10
    <2>4. IsMade(Run(q))' <=> IsMade(Run(q))
      BY <1>15, Names
    <2> QED BY <2>1, <2>2, <2>3, <2>4, <1>1, <1>6, <1>11 DEF CountOK
  <1>17. ASSUME NEW u \in Workers
        PROVE  /\ (IsMade(Finalizer(u)) => Begun(Barrier, <<"finalizer", u>>))'
               /\ (Begun(Barrier, <<"finalizer", u>>) /\ u \in thread_local_initialized =>
                     IsMade(Finalizer(u)) /\ status[Finalizer(u)] # "done")'
    <2>1. CASE u = v
      <3>1. status[Finalizer(v)] # "done"
        BY <1>13 DEF IsMade
      <3> QED BY <2>1, <3>1, <1>6, <1>12, <1>14
    <2>2. CASE u # v
      <3>1. IsMade(Finalizer(u))' <=> IsMade(Finalizer(u))
        BY <2>2, <1>15, Names
      <3> QED BY <2>2, <3>1, <1>1, <1>6, <1>12 DEF CountOK
    <2> QED BY <2>1, <2>2
  <1>18. CountOK'
    BY <1>16, <1>17 DEF CountOK
  <1>19. SpawnOK'
    <2>1. Finalizer(v) \in Commands /\ \A x \in Left(w) : x[1] \notin {"create", "commit", "depend"}
      BY <1>2, Names
    <2>2. CASE v \in thread_local_initialized
      <3>1. Effect(w, (Left(w) \ {Op(w)}) \cup SpawnOps(Finalizer(v)))
        BY <2>2, <1>2
      <3> QED BY <2>1, <3>1, <1>1, <1>6, <1>13, SpawnPush
    <2>3. CASE v \notin thread_local_initialized
      <3>1. Effect(w, Left(w) \ {Op(w)}) /\ Op(w)[1] = "finalizer"
        BY <2>3, <1>2
      <3>2. Keeps("create") /\ Keeps("commit")
        BY <3>1, KeepsPop
      <3>3. task_queue \in Seq(Commands)
        BY <1>1 DEF ProcessTypeOK
      <3> QED BY <3>2, <3>3, <1>1, <1>6, SpawnKept
    <2> QED BY <2>2, <2>3
  <1> QED BY <1>18, <1>19

\* global_initialize makes the runs of a processor without inputs due.
LEMMA CountInitialize ==
  ASSUME ProcessInv, NEW w \in Workers, GlobalInitialize(w)
  PROVE  CountOK' /\ SpawnOK'
  <1>1. ProcessTypeOK /\ ScriptOK /\ OwnOK /\ SpawnOK /\ CountOK /\ shape \in Shapes
    BY DEF ProcessInv, ProcessTypeOK
  <1> DEFINE E == {<<"spawn", r>> : r \in {q \in Runs : Needs(q) = {}}} \cup {<<"complete">>}
  <1>2. /\ pc[w] = "run" /\ task[w] = Entry
        /\ Left(w) = {<<"global_init">>, <<"complete">>}
        /\ Effect(w, E)
    BY <1>1, EffectInitialize
  <1>3. \A x \in E : x[1] \in {"spawn", "complete"}
    OBVIOUS
  <1>4. /\ ScriptOK' /\ shape' = shape /\ pc' = pc /\ task' = task
        /\ \A v \in Workers \ {w} : Left(v)' = Left(v)
        /\ Left(w)' = E
    BY <1>2, Constants DEF Effect, Steady
  <1>5. /\ status' = status /\ task_queue' = task_queue
        /\ UNCHANGED <<waiting_counters, given, partitioned_pool, thread_local_initialized>>
    BY DEF GlobalInitialize, sched, slots, data
  <1>6. Runner(w, Entry) /\ Entry # Foreign /\ status[Entry] = "running"
        /\ \A v \in Workers : Runner(v, Entry) => v = w
    <2>1. Runner(w, Entry) /\ Entry # Foreign
      BY <1>2, Names DEF Runner
    <2> QED BY <2>1, <1>1, OneRunner
  <1>7. \A v \in Workers : \A t : Runner(v, t)' <=> Runner(v, t)
    BY <1>4 DEF Runner
  <1>8. \A v \in Workers : \A t : Runner(v, t) /\ t # Entry => Left(v)' = Left(v)
    BY <1>2, <1>4 DEF Runner
  <1>9. \A r \in Runs : Needs(r) = {} => <<"spawn", r>> \in Left(w)'
    BY <1>4
  <1>10. Keeps("create") /\ Keeps("commit")
    BY <1>2, <1>3, <1>4 DEF Keeps
  <1> HIDE DEF E
  <1>11. BegunKept
    <2>1. ASSUME NEW r \in Runs, NEW j \in Needs(r)
          PROVE  /\ Counted(j, r)' <=> Counted(j, r)
                 /\ Begun(Producer(j), <<"store", r, j>>)' <=> Begun(Producer(j), <<"store", r, j>>)
      <3>1. Producer(j) # Entry
        BY Names
      <3> QED BY <3>1, <1>5, <1>7, <1>8 DEF Counted, Begun
    <2>2. ASSUME NEW r \in Runs, Needs(r) = {}
          PROVE  Begun(Entry, <<"spawn", r>>)' <=> Begun(Entry, <<"spawn", r>>)
      <3>1. ~Begun(Entry, <<"spawn", r>>)
        BY <1>2, <1>6 DEF Begun
      <3>2. ~Begun(Entry, <<"spawn", r>>)'
        BY <2>2, <1>5, <1>6, <1>7, <1>9 DEF Begun
      <3> QED BY <3>1, <3>2
    <2>3. ASSUME NEW v \in Workers
          PROVE  Begun(Barrier, <<"finalizer", v>>)' <=> Begun(Barrier, <<"finalizer", v>>)
      <3>1. Barrier # Entry
        BY Names
      <3> QED BY <3>1, <1>5, <1>7, <1>8 DEF Begun
    <2> QED BY <2>1, <2>2, <2>3 DEF BegunKept
  <1>12. MadeKept
    BY <1>1, <1>4, <1>5, <1>10, MadeQuiet
  <1>13. CountOK'
    BY <1>1, <1>4, <1>5, <1>11, <1>12, CountKept
  <1>14. task_queue \in Seq(Commands)
    BY <1>1 DEF ProcessTypeOK
  <1>15. SpawnOK'
    BY <1>1, <1>5, <1>10, <1>14, SpawnKept
  <1> QED BY <1>13, <1>15

\* A worker is initialized by a run, before the barrier starts.
LEMMA CountThreadLocal ==
  ASSUME ProcessInv, NEW w \in Workers, ThreadLocalInitialize(w)
  PROVE  CountOK'
  <1>1. ProcessTypeOK /\ ScriptOK /\ OwnOK /\ GraphOK /\ SpawnOK /\ CountOK /\ shape \in Shapes
    BY DEF ProcessInv, ProcessTypeOK
  <1>2. At(w, "tl_init") /\ Effect(w, Left(w) \ {Op(w)})
    BY <1>1, PopActions DEF ThreadLocalInitialize
  <1>3. pc[w] = "run" /\ Op(w)[1] = "tl_init" /\ Heads(task[w], Op(w), Left(w))
    BY <1>1, <1>2, Busy
  <1>4. PICK r \in Runs : task[w] = Run(r)
    BY <1>3 DEF Heads, StraightHeads
  <1>5. ~Started(Barrier)
    <2>1. status[Run(r)] = "running"
      BY <1>1, <1>3, <1>4 DEF OwnOK
    <2> QED BY <2>1, <1>1, OrderFacts
  <1>6. \A v \in Workers : ~Begun(Barrier, <<"finalizer", v>>)
    BY <1>1, <1>5 DEF Begun, Runner, OwnOK, Started
  <1>7. /\ Keeps("store") /\ Keeps("count") /\ Keeps("spawn") /\ Keeps("finalizer")
        /\ Keeps("global_init") /\ Keeps("create")
    BY <1>2, <1>3, KeepsPop
  <1>8. ScriptOK' /\ shape' = shape /\ \A v \in Workers : \A t : Runner(v, t)' <=> Runner(v, t)
    BY <1>2 DEF Effect, Steady, Runner
  <1>9. status' = status /\ UNCHANGED <<waiting_counters, given, partitioned_pool>>
    BY DEF ThreadLocalInitialize, sched, data
  <1>10. MadeKept
    BY <1>1, <1>7, <1>8, <1>9, MadeQuiet
  <1>11. BegunKept
    BY <1>1, <1>7, <1>8, <1>9, BegunQuiet
  <1> QED BY <1>1, <1>6, <1>8, <1>9, <1>10, <1>11, CountKept

\* A finalizer that completes has finalized its worker.
LEMMA CountComplete ==
  ASSUME ProcessInv, NEW w \in Workers, Complete(w)
  PROVE  CountOK'
  <1>1. ProcessTypeOK /\ ScriptOK /\ OwnOK /\ CountOK /\ LiveOK /\ shape \in Shapes
    BY DEF ProcessInv, ProcessTypeOK
  <1>2. pc[w] = "run" /\ Left(w) = {<<"complete">>} /\ Moves(w, "loop", <<>>)
    BY <1>1, EffectComplete
  <1>3. status[task[w]] = "running" /\ status' = [status EXCEPT ![task[w]] = "done"]
    BY OwnComplete
  <1>4. /\ task' = task /\ shape' = shape
        /\ UNCHANGED <<waiting_counters, given, partitioned_pool, thread_local_initialized>>
    BY DEF Complete, data, flags, setup
  <1>5. /\ Left(w)' = {} /\ \A v \in Workers \ {w} : Left(v)' = Left(v)
        /\ pc'[w] = "loop" /\ \A v \in Workers \ {w} : pc'[v] = pc[v]
        /\ ScriptOK'
    BY <1>1, <1>2, Literals, Constants DEF Moves, ProcessTypeOK
  <1>6. task[w] \in Tasks
    BY <1>1, Constants DEF ProcessTypeOK
  <1>7. status'[task[w]] = "done" /\ \A t \in Tasks : t # task[w] => status'[t] = status[t]
    BY <1>1, <1>3, <1>6 DEF ProcessTypeOK
  <1>8. Keeps("create")
    BY <1>2, <1>5 DEF Keeps
  <1>9. MadeKept
    <2>1. \A t \in Commands : status'[t] = "none" <=> status[t] = "none"
      BY <1>3, <1>7, Names
    <2> QED BY <2>1, <1>1, <1>5, <1>8, MadeQuiet
  <1>10. ASSUME NEW t \in Tasks, t # task[w], NEW v \in Workers
         PROVE  /\ Runner(v, t)' <=> Runner(v, t)
                /\ Runner(v, t) => Left(v)' = Left(v)
    BY <1>4, <1>5, <1>10 DEF Runner
  <1>11. ASSUME NEW t \in Tasks, NEW op, op # <<"complete">> PROVE Begun(t, op)' <=> Begun(t, op)
    <2>1. CASE t = task[w]
      <3>1. Runner(w, t) /\ op \notin Left(w) /\ <<"global_init">> \notin Left(w)
        BY <2>1, <1>2, <1>11 DEF Runner
      <3> QED BY <3>1, <2>1, <1>7 DEF Begun
    <2>2. CASE t # task[w]
      BY <2>2, <1>7, <1>10 DEF Begun
    <2> QED BY <2>1, <2>2
  <1>12. ASSUME NEW r \in Runs, NEW j \in Needs(r) PROVE Counted(j, r)' <=> Counted(j, r)
    <2>1. Producer(j) \in Tasks
      BY <1>1, Names, ShapeFacts
    <2>2. CASE Producer(j) = task[w]
      <3>1. /\ Runner(w, Producer(j)) /\ <<"store", r, j>> \notin Left(w)
            /\ <<"count", r>> \notin Left(w)
        BY <2>2, <1>2 DEF Runner
      <3> QED BY <3>1, <2>2, <1>7 DEF Counted
    <2>3. CASE Producer(j) # task[w]
      BY <2>1, <2>3, <1>7, <1>10 DEF Counted
    <2> QED BY <2>2, <2>3
  <1>13. BegunKept
    <2>1. Entry \in Tasks /\ Barrier \in Tasks /\ \A r \in Runs : \A j \in Needs(r) : Producer(j) \in Tasks
      BY <1>1, Names, ShapeFacts
    <2> QED BY <2>1, <1>11, <1>12 DEF BegunKept
  <1>14. \A v \in Workers : v \in thread_local_initialized' =>
           (status'[Finalizer(v)] = "done" => status[Finalizer(v)] = "done")
    <2> SUFFICES ASSUME NEW v \in Workers, v \in thread_local_initialized, task[w] = Finalizer(v)
                 PROVE  FALSE
      BY <1>4, <1>7, Names
    <2>1. v = w
      BY <1>1 DEF OwnOK
    <2>2. Runner(w, Finalizer(w)) /\ <<"tl_finalize">> \notin Left(w)
      BY <2>1, <1>2 DEF Runner
    <2> QED BY <2>1, <2>2, <1>1 DEF LiveOK
  <1> QED BY <1>1, <1>4, <1>9, <1>13, <1>14, CountKept

\* A task that starts has begun no turn.
LEMMA CountTake ==
  ASSUME ProcessInv, NEW w \in Workers, TakeTask(w)
  PROVE  CountOK'
  <1>1. ProcessTypeOK /\ ScriptOK /\ OwnOK /\ GraphOK /\ CountOK /\ shape \in Shapes
    BY DEF ProcessInv, ProcessTypeOK
  <1>2. PICK t \in Initial \cup Commands :
           /\ pc[w] = "take" /\ Left(w) = {}
           /\ status[t] = "committed" /\ status' = [status EXCEPT ![t] = "running"]
           /\ task' = [task EXCEPT ![w] = t] /\ shape' = shape
           /\ Moves(w, "run", Body(t)) /\ Fresh(t, Left(w)')
    BY <1>1, EffectTake
  <1>3. UNCHANGED <<waiting_counters, given, partitioned_pool, thread_local_initialized>>
    BY DEF TakeTask, data, flags
  <1>4. /\ \A v \in Workers \ {w} : Left(v)' = Left(v) /\ pc'[v] = pc[v] /\ task'[v] = task[v]
        /\ pc'[w] = "run" /\ task'[w] = t /\ ScriptOK'
    BY <1>1, <1>2, Constants DEF Moves, ProcessTypeOK
  <1>5. t \in Tasks
    BY <1>1, Names, ShapeFacts DEF Initial, Tasks
  <1>6. status'[t] = "running" /\ \A u \in Tasks : u # t => status'[u] = status[u]
    BY <1>1, <1>2, <1>5 DEF ProcessTypeOK
  <1>7. \A v \in Workers : ~Runner(v, t)
    BY <1>1, <1>2 DEF OwnOK, Runner
  <1>8. \A v \in Workers : Runner(v, t)' => v = w
    BY <1>4, <1>7 DEF Runner
  <1>9. ASSUME NEW u \in Tasks, u # t, NEW v \in Workers
         PROVE  /\ Runner(v, u)' <=> Runner(v, u)
                /\ Runner(v, u) => Left(v)' = Left(v)
    BY <1>2, <1>4, <1>9 DEF Runner
  <1>10. Keeps("create")
    BY <1>2, <1>4 DEF Keeps, Fresh
  <1>11. MadeKept
    <2>1. \A u \in Commands : status'[u] = "none" <=> status[u] = "none"
      BY <1>2, <1>6, Names
    <2> QED BY <2>1, <1>1, <1>4, <1>10, MadeQuiet
  <1>12. ASSUME NEW u \in Tasks, NEW op,
                u = t => op \in Left(w)' \/ <<"global_init">> \in Left(w)'
         PROVE  Begun(u, op)' <=> Begun(u, op)
    <2>1. CASE u = t
      BY <2>1, <1>2, <1>6, <1>7, <1>8, <1>12 DEF Begun
    <2>2. CASE u # t
      BY <2>2, <1>6, <1>9 DEF Begun
    <2> QED BY <2>1, <2>2
  <1>13. ASSUME NEW r \in Runs, NEW j \in Needs(r)
         PROVE  Counted(j, r)' <=> Counted(j, r)
    <2>1. Producer(j) \in Tasks /\ j \in DataPorts
      BY <1>1, Names, ShapeFacts
    <2>2. CASE Producer(j) = t
      <3>1. <<"store", r, j>> \in Left(w)'
        BY <2>1, <2>2, <1>2 DEF Fresh
      <3> QED BY <3>1, <2>2, <1>2, <1>6, <1>7, <1>8 DEF Counted
    <2>3. CASE Producer(j) # t
      BY <2>1, <2>3, <1>6, <1>9 DEF Counted
    <2> QED BY <2>2, <2>3
  <1>14. BegunKept
    <2>1. Entry \in Tasks /\ Barrier \in Tasks
          /\ \A r \in Runs : \A j \in Needs(r) : Producer(j) \in Tasks /\ j \in DataPorts
      BY <1>1, Names, ShapeFacts
    <2>2. ASSUME NEW r \in Runs, NEW j \in Needs(r)
          PROVE  Begun(Producer(j), <<"store", r, j>>)' <=> Begun(Producer(j), <<"store", r, j>>)
      <3>1. Producer(j) = t => <<"store", r, j>> \in Left(w)'
        BY <2>1, <1>2 DEF Fresh
      <3> QED BY <2>1, <3>1, <1>12
    <2>3. ASSUME NEW r \in Runs
          PROVE  Begun(Entry, <<"spawn", r>>)' <=> Begun(Entry, <<"spawn", r>>)
      <3>1. Entry = t => <<"global_init">> \in Left(w)'
        BY <1>2 DEF Fresh
      <3> QED BY <2>1, <3>1, <1>12
    <2>4. ASSUME NEW v \in Workers
          PROVE  Begun(Barrier, <<"finalizer", v>>)' <=> Begun(Barrier, <<"finalizer", v>>)
      <3>1. Barrier = t => <<"finalizer", v>> \in Left(w)'
        BY <1>2 DEF Fresh
      <3> QED BY <2>1, <3>1, <1>12
    <2> QED BY <2>2, <2>3, <2>4, <1>13 DEF BegunKept
  <1>15. \A v \in Workers : status'[Finalizer(v)] = "done" => status[Finalizer(v)] = "done"
    BY <1>6, Names
  <1> QED BY <1>1, <1>2, <1>3, <1>11, <1>14, <1>15, CountKept

\* A worker is thrown out of a task only before its loop or in a task without
\* one.
LEMMA CountThrow ==
  ASSUME ProcessInv, NEW w \in Workers, Throw(w)
  PROVE  CountOK'
  <1>1. ProcessTypeOK /\ ScriptOK /\ OwnOK /\ CountOK /\ shape \in Shapes
    BY DEF ProcessInv, ProcessTypeOK
  <1>2. /\ status' = status /\ task' = task /\ shape' = shape
        /\ UNCHANGED <<waiting_counters, given, partitioned_pool, thread_local_initialized>>
    BY DEF Throw, data, sched, setup
  <1>3. CASE pc[w] = "leave"
    <2>1. Moves(w, "leave", <<>>) /\ Left(w) = {<<"user_tl_finalize">>} /\ Left(w)' = {}
      BY <1>1, <1>3, EffectThrow
    <2>2. ScriptOK' /\ \A v \in Workers : \A t : Runner(v, t)' <=> Runner(v, t)
      BY <2>1, <1>1, <1>2, <1>3, Constants DEF Moves, Runner, ProcessTypeOK
    <2>3. /\ Keeps("store") /\ Keeps("count") /\ Keeps("spawn") /\ Keeps("finalizer")
          /\ Keeps("global_init") /\ Keeps("create")
      BY <2>1, KeepsMove
    <2> QED BY <2>2, <2>3, <1>2, CountQuiet
  <1>4. CASE pc[w] # "leave"
    <2>1. /\ pc[w] = "run" /\ Op(w) \in Left(w) /\ Moves(w, "leave", <<<<"tl_finalize">>>>)
          /\ Left(w)' = {<<"tl_finalize">>} /\ Heads(task[w], Op(w), Left(w))
          /\ Op(w) \in {<<"foreign">>, <<"global_init">>, <<"run">>, <<"tl_init">>,
                        <<"user_tl_finalize">>, <<"user_global_finalize">>}
      BY <1>1, <1>4, EffectThrow
    <2>2. /\ \A v \in Workers \ {w} : Left(v)' = Left(v) /\ pc'[v] = pc[v] /\ task'[v] = task[v]
          /\ pc'[w] = "leave" /\ ScriptOK'
      BY <2>1, <1>1, <1>2, Constants DEF Moves, ProcessTypeOK
    <2>3. \A x \in Left(w) : x[1] # "create"
      BY <2>1 DEF Heads, StraightHeads
    <2>4. MadeKept
      <3>1. Keeps("create")
        BY <2>1, <2>2, <2>3 DEF Keeps
      <3> QED BY <3>1, <1>1, <1>2, <2>2, MadeQuiet
    <2>5. task[w] # Barrier /\ (\A j : task[w] # Producer(j)) /\ (task[w] = Entry => <<"global_init">> \in Left(w))
      BY <2>1, Names DEF Heads, StraightHeads
    <2>6. ASSUME NEW t, t # task[w], NEW v \in Workers
          PROVE  /\ Runner(v, t)' <=> Runner(v, t)
                 /\ Runner(v, t) => Left(v)' = Left(v)
      BY <2>2, <2>6, <1>2 DEF Runner
    <2>7. BegunKept
      <3>1. ASSUME NEW r \in Runs, NEW j \in Needs(r)
            PROVE  /\ Counted(j, r)' <=> Counted(j, r)
                   /\ Begun(Producer(j), <<"store", r, j>>)' <=> Begun(Producer(j), <<"store", r, j>>)
        BY <2>5, <2>6, <1>2 DEF Counted, Begun
      <3>2. ASSUME NEW v \in Workers
            PROVE  Begun(Barrier, <<"finalizer", v>>)' <=> Begun(Barrier, <<"finalizer", v>>)
        BY <2>5, <2>6, <1>2 DEF Begun
      <3>3. ASSUME NEW r \in Runs
            PROVE  Begun(Entry, <<"spawn", r>>)' <=> Begun(Entry, <<"spawn", r>>)
        <4>1. CASE task[w] # Entry
          BY <4>1, <2>6, <1>2 DEF Begun
        <4>2. CASE task[w] = Entry
          <5>1. Runner(w, Entry) /\ Entry # Foreign
            BY <4>2, <2>1, Names DEF Runner
          <5>2. status[Entry] = "running" /\ \A v \in Workers : Runner(v, Entry) => v = w
            BY <5>1, <1>1, OneRunner
          <5>3. \A v \in Workers : ~Runner(v, Entry)'
            BY <5>2, <2>2, <1>2 DEF Runner
          <5> QED BY <5>1, <5>2, <5>3, <4>2, <2>5, <1>2 DEF Begun
        <4> QED BY <4>1, <4>2
      <3> QED BY <3>1, <3>2, <3>3 DEF BegunKept
    <2> QED BY <2>4, <2>7, <1>1, <1>2, CountKept
  <1> QED BY <1>3, <1>4

\* The steps of workers without a script and of the thread that called execute.
LEMMA CountIdle ==
  ASSUME ProcessInv, NEW a, NEW p, NEW s, Moves(a, p, s), task' = task, shape' = shape,
         status' = status,
         UNCHANGED <<waiting_counters, given, partitioned_pool, thread_local_initialized>>,
         \/ a = Main
         \/ /\ a \in Workers /\ pc[a] # "run" /\ p # "run" /\ Left(a) = {}
            /\ \A x \in Left(a)' : x[1] = "tl_finalize"
  PROVE  CountOK'
  <1>1. ScriptOK' /\ \A v \in Workers : \A t : Runner(v, t)' <=> Runner(v, t)
    <2>1. pc \in [Actors -> Places]
      BY DEF ProcessInv, ProcessTypeOK
    <2> QED BY <2>1, Constants DEF Moves, Runner
  <1>2. \A n : n # "tl_finalize" => Keeps(n)
    BY KeepsMove, KeepsMain
  <1> QED BY <1>1, <1>2, CountQuiet

-----------------------------------------------------------------------------
(* Callbacks and broadcasts.                                               *)

\* What LiveOK says of one worker.
LiveOf(w) ==
  /\ w \in live <=> w \in thread_local_initialized \/ <<"user_tl_finalize">> \in Left(w)
  /\ <<"user_tl_finalize">> \in Left(w) => w \notin thread_local_initialized
  /\ w \in live => status[Entry] = "done"
  /\ \A r \in Runs : Runner(w, Run(r)) /\ <<"tl_init">> \notin Left(w) =>
       w \in thread_local_initialized
  /\ Runner(w, Finalizer(w)) /\ <<"tl_finalize">> \notin Left(w) =>
       w \notin thread_local_initialized
  /\ status[Finalizer(w)] = "done" => w \notin live
  /\ pc[w] \in {"leave", "exit"} /\ w \in thread_local_initialized =>
       <<"tl_finalize">> \in Left(w)

\* LiveOK, worker by worker.
LEMMA LiveParts ==
  /\ LiveOK <=> \A w \in Workers : LiveOf(w)
  /\ LiveOK' <=> \A w \in Workers : LiveOf(w)'
  BY DEF LiveOK, LiveOf

\* A worker that a step leaves alone.
LEMMA LiveKept ==
  ASSUME NEW v \in Workers, LiveOf(v),
         v \in live' <=> v \in live,
         v \in thread_local_initialized' <=> v \in thread_local_initialized,
         status[Entry] = "done" => status'[Entry] = "done",
         status'[Finalizer(v)] = "done" => status[Finalizer(v)] = "done",
         \A t : Runner(v, t)' => Runner(v, t),
         pc'[v] \in {"leave", "exit"} => pc[v] \in {"leave", "exit"},
         <<"tl_init">> \in Left(v)' <=> <<"tl_init">> \in Left(v),
         <<"tl_finalize">> \in Left(v)' <=> <<"tl_finalize">> \in Left(v),
         <<"user_tl_finalize">> \in Left(v)' <=> <<"user_tl_finalize">> \in Left(v)
  PROVE  LiveOf(v)'
  BY DEF LiveOf

\* A step that leaves the global callbacks alone preserves GlobalOK.
LEMMA GlobalKept ==
  ASSUME GlobalOK, Main \in live' <=> Main \in live, global_initialized' = global_initialized,
         Initialized' <=> Initialized, pc'[Main] = pc[Main],
         Started(Terminal)' <=> Started(Terminal),
         \A a \in Actors : <<"user_global_finalize">> \in Left(a)' <=> <<"user_global_finalize">> \in Left(a),
         \A w \in Workers : Runner(w, Terminal)' /\ <<"global_finalize">> \in Left(w)'
                              <=> Runner(w, Terminal) /\ <<"global_finalize">> \in Left(w),
         <<"global_finalize">> \in Left(Main)' <=> <<"global_finalize">> \in Left(Main)
  PROVE  GlobalOK'
  BY DEF GlobalOK

\* The producer of broadcast j has delivered it.
Sent(j) ==
  \/ status[Producer(j)] = "done"
  \/ \E w \in Workers : Runner(w, Producer(j)) /\ <<"broadcast", j>> \notin Left(w)

\* InputOK, input by input.
LEMMA InputParts ==
  /\ InputOK <=> \A j \in shape.broadcasts : Sent(j) /\ (Initialized => Main \in live) => j \in broadcast_inputs
  /\ InputOK' <=> \A j \in shape'.broadcasts : Sent(j)' /\ (Initialized' => Main \in live') => j \in broadcast_inputs'
  BY DEF InputOK, Sent

\* A step that sends no broadcast and initializes nothing preserves InputOK.
LEMMA InputKept ==
  ASSUME InputOK, shape' = shape, broadcast_inputs' = broadcast_inputs,
         \A j \in shape.broadcasts : Sent(j)' => Sent(j),
         Initialized /\ Main \notin live => Initialized' /\ Main \notin live'
  PROVE  InputOK'
  BY InputParts

\* A step that touches no producer of a broadcast sends none.
LEMMA SentQuiet ==
  ASSUME shape \in Shapes, \A v \in Workers : \A t : Runner(v, t)' => Runner(v, t),
         \A t \in Tasks : status'[t] = "done" => status[t] = "done", Keeps("broadcast"),
         NEW j \in shape.broadcasts, Sent(j)'
  PROVE  Sent(j)
  <1>1. Producer(j) \in Tasks
    BY Names, ShapeFacts
  <1>2. \A v \in Workers : <<"broadcast", j>> \in Left(v)' <=> <<"broadcast", j>> \in Left(v)
    BY DEF Keeps
  <1> QED BY <1>1, <1>2 DEF Sent

\* A step that leaves the entry task alone initializes nothing.
LEMMA InitializedQuiet ==
  ASSUME \A v \in Workers : Runner(v, Entry)' <=> Runner(v, Entry),
         status'[Entry] = "done" <=> status[Entry] = "done", Keeps("global_init")
  PROVE  Initialized' <=> Initialized
  <1>1. \A v \in Workers : <<"global_init">> \in Left(v)' <=> <<"global_init">> \in Left(v)
    BY DEF Keeps
  <1> QED BY <1>1 DEF Initialized

\* The steps that make no callback.
LEMMA CallsQuiet ==
  ASSUME ProcessInv, shape' = shape, UNCHANGED <<flags, broadcast_inputs>>,
         \A v \in Workers : \A t : Runner(v, t)' <=> Runner(v, t),
         \A v \in Workers : pc'[v] \in {"leave", "exit"} => pc[v] \in {"leave", "exit"},
         pc'[Main] = pc[Main], Left(Main)' = Left(Main),
         Keeps("tl_init"), Keeps("tl_finalize"), Keeps("user_tl_finalize"), Keeps("global_init"),
         Keeps("global_finalize"), Keeps("user_global_finalize"), Keeps("broadcast"),
         \A t \in Tasks : status'[t] = "done" <=> status[t] = "done",
         Started(Terminal)' <=> Started(Terminal)
  PROVE  LiveOK' /\ GlobalOK' /\ InputOK'
  <1>1. LiveOK /\ GlobalOK /\ InputOK /\ shape \in Shapes
    BY DEF ProcessInv, ProcessTypeOK
  <1>2. UNCHANGED <<global_initialized, thread_local_initialized, live, broadcast_inputs>>
    BY DEF flags
  <1>3. Entry \in Tasks /\ \A v \in Workers : Finalizer(v) \in Tasks
    BY Names
  <1>4. LiveOK'
    <2> SUFFICES ASSUME NEW v \in Workers PROVE LiveOf(v)'
      BY LiveParts
    <2>1. LiveOf(v)
      BY <1>1, LiveParts
    <2>2. /\ <<"tl_init">> \in Left(v)' <=> <<"tl_init">> \in Left(v)
          /\ <<"tl_finalize">> \in Left(v)' <=> <<"tl_finalize">> \in Left(v)
          /\ <<"user_tl_finalize">> \in Left(v)' <=> <<"user_tl_finalize">> \in Left(v)
      BY DEF Keeps
    <2> QED BY <2>1, <2>2, <1>2, <1>3, LiveKept
  <1>5. Initialized' <=> Initialized
    BY <1>3, InitializedQuiet
  <1>6. GlobalOK'
    <2>1. \A v \in Workers :
            /\ <<"global_finalize">> \in Left(v)' <=> <<"global_finalize">> \in Left(v)
            /\ <<"user_global_finalize">> \in Left(v)' <=> <<"user_global_finalize">> \in Left(v)
      BY DEF Keeps
    <2>2. \A a \in Actors : <<"user_global_finalize">> \in Left(a)' <=> <<"user_global_finalize">> \in Left(a)
      BY <2>1 DEF Actors
    <2> QED BY <2>1, <2>2, <1>1, <1>2, <1>5, GlobalKept
  <1>7. \A j \in shape.broadcasts : Sent(j)' => Sent(j)
    BY <1>1, SentQuiet
  <1>8. InputOK'
    BY <1>1, <1>2, <1>5, <1>7, InputKept
  <1> QED BY <1>4, <1>6, <1>8

\* A step of a script that makes no callback.
LEMMA CallsEffect ==
  ASSUME ProcessInv, NEW w \in Workers, NEW A, Effect(w, (Left(w) \ {Op(w)}) \cup A),
         UNCHANGED <<flags, broadcast_inputs>>,
         \A x \in A : x[1] \in {"create", "depend", "commit", "count"},
         Op(w)[1] \in {"create", "depend", "commit", "notify", "store", "count", "prepare", "spawn",
                       "run", "foreign", "finalizer"},
         \A t \in Tasks : /\ status'[t] = "done" <=> status[t] = "done"
                          /\ status'[t] = "running" <=> status[t] = "running"
  PROVE  LiveOK' /\ GlobalOK' /\ InputOK'
  <1>1. /\ Keeps("tl_init") /\ Keeps("tl_finalize") /\ Keeps("user_tl_finalize") /\ Keeps("global_init")
        /\ Keeps("global_finalize") /\ Keeps("user_global_finalize") /\ Keeps("broadcast")
    BY KeepsPush
  <1>2. /\ shape' = shape /\ pc' = pc /\ task' = task /\ Left(Main)' = Left(Main)
    BY Constants DEF Effect, Steady
  <1>3. \A v \in Workers : \A t : Runner(v, t)' <=> Runner(v, t)
    BY <1>2 DEF Runner
  <1>4. Started(Terminal)' <=> Started(Terminal)
    BY Names DEF Started
  <1> QED BY <1>1, <1>2, <1>3, <1>4, CallsQuiet

\* The operations that finalize belong to the terminal task.
LEMMA GlobalOps ==
  ASSUME ProcessInv, NEW w \in Workers,
         <<"user_global_finalize">> \in Left(w) \/ <<"global_finalize">> \in Left(w)
  PROVE  Runner(w, Terminal) /\ status[Terminal] = "running" /\ Left(Main) = {} /\ pc[Main] = "join"
         /\ \A v \in Workers : Runner(v, Terminal) => v = w
  <1>1. ProcessTypeOK /\ ScriptOK /\ OwnOK
    BY DEF ProcessInv
  <1>2. script[w] # <<>>
    BY <1>1, IdleFacts
  <1>3. pc[w] = "run" /\ Members(task[w], Left(w))
    BY <1>1, <1>2, OpFacts
  <1>4. Runner(w, Terminal) /\ Terminal # Foreign
    BY <1>3, Names DEF Members, Runner
  <1>5. Left(Main) = {} /\ pc[Main] = "join"
    BY <1>1, <1>3, IdleFacts
  <1> QED BY <1>1, <1>4, <1>5, OneRunner

\* The terminal task starts with the processor initialized.
LEMMA BeforeTerminal ==
  ASSUME ProcessInv, ~Started(Terminal), Initialized, pc[Main] = "join"
  PROVE  global_initialized /\ \A a \in Actors : <<"user_global_finalize">> \notin Left(a)
  <1>1. GlobalOK /\ ScriptOK
    BY DEF ProcessInv
  <1>2. \A a \in Actors : <<"user_global_finalize">> \notin Left(a)
    <2>1. \A w \in Workers : <<"user_global_finalize">> \notin Left(w)
      BY GlobalOps DEF Started
    <2>2. <<"user_global_finalize">> \notin Left(Main)
      <3>1. script[Main] = <<>>
        BY <1>1 DEF ScriptOK
      <3> QED BY <3>1, Literals DEF Left
    <2> QED BY <2>1, <2>2 DEF Actors
  <1> QED BY <1>1, <1>2 DEF GlobalOK

\* global_initialize opens the bracket of the processor.
LEMMA CallsInitialize ==
  ASSUME ProcessInv, NEW w \in Workers, GlobalInitialize(w)
  PROVE  LiveOK' /\ GlobalOK' /\ InputOK'
  <1>1. /\ ProcessTypeOK /\ ScriptOK /\ OwnOK /\ GraphOK /\ SpawnOK /\ shape \in Shapes
        /\ LiveOK /\ GlobalOK /\ InputOK
    BY DEF ProcessInv, ProcessTypeOK
  <1> DEFINE E == {<<"spawn", r>> : r \in {q \in Runs : Needs(q) = {}}} \cup {<<"complete">>}
  <1>2. /\ pc[w] = "run" /\ task[w] = Entry
        /\ Left(w) = {<<"global_init">>, <<"complete">>}
        /\ Effect(w, E)
    BY <1>1, EffectInitialize
  <1>3. \A x \in E : x[1] \in {"spawn", "complete"}
    OBVIOUS
  <1>4. /\ shape' = shape /\ pc' = pc /\ task' = task
        /\ \A v \in Workers \ {w} : Left(v)' = Left(v)
        /\ Left(w)' = E /\ Left(Main)' = Left(Main)
    BY <1>2, Constants DEF Effect, Steady
  <1>5. /\ status' = status /\ UNCHANGED <<broadcast_inputs, thread_local_initialized>>
        /\ global_initialized' = TRUE /\ live' = live \cup {Main}
    BY DEF GlobalInitialize, sched, data
  <1> HIDE DEF E
  <1>6. Runner(w, Entry) /\ Entry # Foreign /\ status[Entry] = "running"
        /\ \A v \in Workers : Runner(v, Entry) => v = w
    <2>1. Runner(w, Entry) /\ Entry # Foreign
      BY <1>2, Names DEF Runner
    <2> QED BY <2>1, <1>1, OneRunner
  <1>7. \A v \in Workers : \A t : Runner(v, t)' <=> Runner(v, t)
    BY <1>4 DEF Runner
  <1>8. ~Initialized /\ Initialized'
    <2>1. ~Initialized
      BY <1>2, <1>6 DEF Initialized
    <2>2. <<"global_init">> \notin Left(w)'
      BY <1>3, <1>4
    <2> QED BY <2>1, <2>2, <1>6, <1>7 DEF Initialized
  <1>9. Main \notin live /\ ~global_initialized /\ \A a \in Actors : <<"user_global_finalize">> \notin Left(a)
    BY <1>1, <1>8 DEF GlobalOK
  <1>10. ~Started(Terminal) /\ pc[Main] = "join"
    <2>1. Started(Terminal) => Started(Barrier)
      BY <1>1, OrderFacts DEF Started
    <2>2. ~Started(Terminal)
      BY <2>1, <1>1, <1>6, OrderFacts
    <2> QED BY <2>2, <1>1, <1>2, IdleFacts
  <1>11. LiveOK'
    <2> SUFFICES ASSUME NEW v \in Workers PROVE LiveOf(v)'
      BY LiveParts
    <2>1. LiveOf(v)
      BY <1>1, LiveParts
    <2>2. /\ <<"tl_init">> \in Left(v)' <=> <<"tl_init">> \in Left(v)
          /\ <<"tl_finalize">> \in Left(v)' <=> <<"tl_finalize">> \in Left(v)
          /\ <<"user_tl_finalize">> \in Left(v)' <=> <<"user_tl_finalize">> \in Left(v)
      BY <1>2, <1>3, <1>4
    <2>3. v \in live' <=> v \in live
      BY <1>5, Constants
    <2> QED BY <2>1, <2>2, <2>3, <1>4, <1>5, <1>7, LiveKept
  <1>12. GlobalOK'
    <2>1. \A a \in Actors : <<"user_global_finalize">> \notin Left(a)'
      BY <1>3, <1>4, <1>9 DEF Actors
    <2>2. ~Started(Terminal)'
      BY <1>5, <1>10 DEF Started
    <2> QED BY <2>1, <2>2, <1>4, <1>5, <1>8, <1>10 DEF GlobalOK
  <1>13. InputOK'
    <2>1. Keeps("broadcast")
      BY <1>2, <1>3, <1>4 DEF Keeps
    <2>2. \A j \in shape.broadcasts : Sent(j)' => Sent(j)
      BY <2>1, <1>1, <1>5, <1>7, SentQuiet
    <2> QED BY <2>2, <1>1, <1>4, <1>5, <1>8, InputKept
  <1> QED BY <1>11, <1>12, <1>13

\* thread_local_initialize opens the bracket of its worker.
LEMMA CallsThreadLocal ==
  ASSUME ProcessInv, NEW w \in Workers, ThreadLocalInitialize(w)
  PROVE  LiveOK' /\ GlobalOK' /\ InputOK'
  <1>1. /\ ProcessTypeOK /\ ScriptOK /\ OwnOK /\ GraphOK /\ SpawnOK /\ shape \in Shapes
        /\ CountOK /\ LiveOK /\ GlobalOK /\ InputOK
    BY DEF ProcessInv, ProcessTypeOK
  <1>2. At(w, "tl_init") /\ Effect(w, Left(w) \ {Op(w)})
    BY <1>1, PopActions DEF ThreadLocalInitialize
  <1>3. pc[w] = "run" /\ Op(w)[1] = "tl_init" /\ Heads(task[w], Op(w), Left(w))
    BY <1>1, <1>2, Busy
  <1>4. PICK r \in Runs : task[w] = Run(r) /\ Left(w) = {<<"tl_init">>, <<"run">>, <<"notify">>, <<"complete">>}
    BY <1>3 DEF Heads, StraightHeads
  <1>5. /\ shape' = shape /\ pc' = pc /\ task' = task
        /\ \A v \in Workers \ {w} : Left(v)' = Left(v)
        /\ Left(w)' = Left(w) \ {Op(w)} /\ Left(Main)' = Left(Main)
    BY <1>2, Constants DEF Effect, Steady
  <1>6. /\ status' = status /\ UNCHANGED <<broadcast_inputs, global_initialized>>
        /\ thread_local_initialized' = thread_local_initialized \cup {w} /\ live' = live \cup {w}
    BY DEF ThreadLocalInitialize, sched, data
  <1>7. \A v \in Workers : \A t : Runner(v, t)' <=> Runner(v, t)
    BY <1>5 DEF Runner
  <1>8. status[Run(r)] = "running"
    BY <1>1, <1>3, <1>4 DEF OwnOK
  <1>9. status[Entry] = "done" /\ ~Started(Barrier)
    BY <1>1, <1>8, OrderFacts DEF Started
  <1>10. status[Finalizer(w)] # "done"
    <2>1. ~Begun(Barrier, <<"finalizer", w>>)
      BY <1>1, <1>9 DEF Begun, Runner, OwnOK, Started
    <2>2. ~IsMade(Finalizer(w))
      BY <2>1, <1>1 DEF CountOK
    <2> QED BY <2>2 DEF IsMade
  <1>11. LiveOf(w)'
    <2>1. <<"user_tl_finalize">> \notin Left(w)'
      BY <1>4, <1>5
    <2>2. task'[w] # Finalizer(w) /\ pc'[w] = "run"
      BY <1>3, <1>4, <1>5, Names
    <2> QED BY <2>1, <2>2, <1>6, <1>9, <1>10 DEF LiveOf, Runner
  <1>12. LiveOK'
    <2> SUFFICES ASSUME NEW v \in Workers, v # w PROVE LiveOf(v)'
      BY <1>11, LiveParts
    <2>1. LiveOf(v) /\ Left(v)' = Left(v)
      BY <1>1, <1>5, LiveParts
    <2> QED BY <2>1, <1>5, <1>6, <1>7, LiveKept
  <1>13. Keeps("global_init") /\ Keeps("global_finalize") /\ Keeps("user_global_finalize") /\ Keeps("broadcast")
    BY <1>2, <1>3, KeepsPop
  <1>14. Initialized' <=> Initialized
    BY <1>6, <1>7, <1>13, InitializedQuiet
  <1>15. Main \in live' <=> Main \in live
    BY <1>6, Constants
  <1>16. GlobalOK'
    <2>1. \A v \in Workers :
            /\ <<"global_finalize">> \in Left(v)' <=> <<"global_finalize">> \in Left(v)
            /\ <<"user_global_finalize">> \in Left(v)' <=> <<"user_global_finalize">> \in Left(v)
      BY <1>13 DEF Keeps
    <2>2. \A a \in Actors : <<"user_global_finalize">> \in Left(a)' <=> <<"user_global_finalize">> \in Left(a)
      BY <2>1, <1>5 DEF Actors
    <2>3. Started(Terminal)' <=> Started(Terminal)
      BY <1>6 DEF Started
    <2> QED BY <2>1, <2>2, <2>3, <1>1, <1>5, <1>6, <1>7, <1>14, <1>15, GlobalKept
  <1>17. InputOK'
    <2>1. \A j \in shape.broadcasts : Sent(j)' => Sent(j)
      BY <1>1, <1>6, <1>7, <1>13, SentQuiet
    <2> QED BY <2>1, <1>1, <1>5, <1>6, <1>14, <1>15, InputKept
  <1> QED BY <1>12, <1>16, <1>17

\* The operations of thread local finalizers do not touch the rest.
LEMMA CallsFinalize ==
  ASSUME ProcessInv, NEW w \in Workers, ThreadLocalFinalize(w) \/ ThreadLocalFinalized(w)
  PROVE  LiveOK' /\ GlobalOK' /\ InputOK'
  <1>1. /\ ProcessTypeOK /\ ScriptOK /\ OwnOK /\ shape \in Shapes
        /\ LiveOK /\ GlobalOK /\ InputOK
    BY DEF ProcessInv, ProcessTypeOK
  <1>2. /\ status' = status /\ UNCHANGED <<broadcast_inputs, global_initialized>>
        /\ \A v \in Workers : v # w =>
             /\ v \in thread_local_initialized' <=> v \in thread_local_initialized
             /\ v \in live' <=> v \in live
        /\ Main \in live' <=> Main \in live
    BY Constants DEF ThreadLocalFinalize, ThreadLocalFinalized, sched, data
  <1>3. /\ \E E : Effect(w, E)
        /\ \A x : x \notin {<<"tl_finalize">>, <<"user_tl_finalize">>} => (x \in Left(w)' <=> x \in Left(w))
        /\ \A r \in Runs : ~Runner(w, Run(r))
        /\ LiveOf(w)'
    <2>1. LiveOf(w) /\ (\A v : Finalizer(v) = Finalizer(w) => v = w)
      BY <1>1, LiveParts, Names
    <2>2. CASE ThreadLocalFinalize(w)
      <3>1. /\ pc[w] \in {"run", "leave"} /\ Op(w) = <<"tl_finalize">> /\ Op(w) \in Left(w)
            /\ pc[w] = "run" => \E v \in Workers : task[w] = Finalizer(v)
                                /\ Left(w) = {<<"tl_finalize">>, <<"notify">>, <<"complete">>}
            /\ pc[w] = "leave" => Left(w) = {Op(w)}
            /\ Effect(w, (Left(w) \ {Op(w)}) \cup
                 (IF w \in thread_local_initialized THEN {<<"user_tl_finalize">>} ELSE {}))
        BY <1>1, <2>2, EffectFinalize
      <3>2. Left(w)' = (Left(w) \ {<<"tl_finalize">>}) \cup
                 (IF w \in thread_local_initialized THEN {<<"user_tl_finalize">>} ELSE {})
            /\ pc' = pc /\ task' = task
        BY <3>1 DEF Effect, Steady
      <3>3. <<"user_tl_finalize">> \notin Left(w)
        BY <3>1
      <3>4. \A r \in Runs : ~Runner(w, Run(r))
        BY <3>1, Names DEF Runner
      <3>5. thread_local_initialized' = thread_local_initialized \ {w} /\ live' = live
        BY <2>2 DEF ThreadLocalFinalize
      <3>6. LiveOf(w)'
        <4>1. \A r \in Runs : ~Runner(w, Run(r))'
          BY <3>2, <3>4 DEF Runner
        <4> QED BY <4>1, <2>1, <3>2, <3>3, <3>5, <1>2 DEF LiveOf
      <3>7. \A x : x \notin {<<"tl_finalize">>, <<"user_tl_finalize">>} => (x \in Left(w)' <=> x \in Left(w))
        BY <3>2
      <3> QED BY <3>1, <3>4, <3>6, <3>7
    <2>3. CASE ThreadLocalFinalized(w)
      <3>1. At(w, "user_tl_finalize") /\ Effect(w, Left(w) \ {Op(w)})
        BY <1>1, <2>3, PopActions DEF ThreadLocalFinalized
      <3>2. script[w] # <<>> /\ Op(w)[1] = "user_tl_finalize"
        BY <3>1, AtFacts
      <3>3. Op(w) = <<"user_tl_finalize">> /\ Op(w) \in Left(w) /\ \A r \in Runs : ~Runner(w, Run(r))
        <4>1. CASE pc[w] = "run"
          <5>1. Heads(task[w], Op(w), Left(w)) /\ Op(w) \in Left(w)
            BY <4>1, <3>2, <1>1, OpFacts
          <5>2. (\E v \in Workers : task[w] = Finalizer(v))
                /\ Left(w) = {<<"user_tl_finalize">>, <<"notify">>, <<"complete">>}
            BY <5>1, <3>2 DEF Heads, StraightHeads
          <5>3. Op(w) = <<"user_tl_finalize">>
            BY <5>1, <5>2, <3>2
          <5> QED BY <5>1, <5>2, <5>3, Names DEF Runner
        <4>2. CASE pc[w] # "run"
          BY <4>2, <3>2, <1>1, OpFacts DEF Runner
        <4> QED BY <4>1, <4>2
      <3>4. Left(w)' = Left(w) \ {<<"user_tl_finalize">>} /\ pc' = pc /\ task' = task
        BY <3>1, <3>3 DEF Effect, Steady
      <3>5. thread_local_initialized' = thread_local_initialized /\ live' = live \ {w}
        BY <2>3 DEF ThreadLocalFinalized
      <3>6. LiveOf(w)'
        <4>1. \A r \in Runs : ~Runner(w, Run(r))'
          BY <3>3, <3>4 DEF Runner
        <4> QED BY <4>1, <2>1, <3>3, <3>4, <3>5, <1>2 DEF LiveOf
      <3>7. \A x : x \notin {<<"tl_finalize">>, <<"user_tl_finalize">>} => (x \in Left(w)' <=> x \in Left(w))
        BY <3>4
      <3> QED BY <3>1, <3>3, <3>6, <3>7
    <2> QED BY <2>2, <2>3
  <1>4. /\ shape' = shape /\ pc' = pc /\ task' = task
        /\ (\A v \in Workers \ {w} : Left(v)' = Left(v)) /\ Left(Main)' = Left(Main)
    BY <1>3, Constants DEF Effect, Steady
  <1>5. \A v \in Workers : \A t : Runner(v, t)' <=> Runner(v, t)
    BY <1>4 DEF Runner
  <1>6. LiveOK'
    <2> SUFFICES ASSUME NEW v \in Workers, v # w PROVE LiveOf(v)'
      BY <1>3, LiveParts
    <2>1. LiveOf(v) /\ Left(v)' = Left(v)
      BY <1>1, <1>4, LiveParts
    <2> QED BY <2>1, <1>2, <1>4, <1>5, LiveKept
  <1>7. Keeps("global_init") /\ Keeps("global_finalize") /\ Keeps("user_global_finalize") /\ Keeps("broadcast")
    BY <1>3, <1>4 DEF Keeps
  <1>8. Initialized' <=> Initialized
    BY <1>2, <1>5, <1>7, InitializedQuiet
  <1>9. GlobalOK'
    <2>1. \A v \in Workers :
            /\ <<"global_finalize">> \in Left(v)' <=> <<"global_finalize">> \in Left(v)
            /\ <<"user_global_finalize">> \in Left(v)' <=> <<"user_global_finalize">> \in Left(v)
      BY <1>7 DEF Keeps
    <2>2. \A a \in Actors : <<"user_global_finalize">> \in Left(a)' <=> <<"user_global_finalize">> \in Left(a)
      BY <2>1, <1>4 DEF Actors
    <2>3. Started(Terminal)' <=> Started(Terminal)
      BY <1>2 DEF Started
    <2> QED BY <2>1, <2>2, <2>3, <1>1, <1>2, <1>4, <1>5, <1>8, GlobalKept
  <1>10. InputOK'
    <2>1. \A j \in shape.broadcasts : Sent(j)' => Sent(j)
      BY <1>1, <1>2, <1>5, <1>7, SentQuiet
    <2> QED BY <2>1, <1>1, <1>2, <1>4, <1>8, InputKept
  <1> QED BY <1>6, <1>9, <1>10

\* A step without a thread local callback preserves LiveOK.
LEMMA LiveQuiet ==
  ASSUME LiveOK, thread_local_initialized' = thread_local_initialized,
         \A v \in Workers : v \in live' <=> v \in live,
         \A v \in Workers : \A t : Runner(v, t)' => Runner(v, t),
         \A v \in Workers : pc'[v] \in {"leave", "exit"} => pc[v] \in {"leave", "exit"},
         Keeps("tl_init"), Keeps("tl_finalize"), Keeps("user_tl_finalize"),
         status[Entry] = "done" => status'[Entry] = "done",
         \A v \in Workers : status'[Finalizer(v)] = "done" => status[Finalizer(v)] = "done"
  PROVE  LiveOK'
  <1> SUFFICES ASSUME NEW v \in Workers PROVE LiveOf(v)'
    BY LiveParts
  <1>1. LiveOf(v)
    BY LiveParts
  <1>2. /\ <<"tl_init">> \in Left(v)' <=> <<"tl_init">> \in Left(v)
        /\ <<"tl_finalize">> \in Left(v)' <=> <<"tl_finalize">> \in Left(v)
        /\ <<"user_tl_finalize">> \in Left(v)' <=> <<"user_tl_finalize">> \in Left(v)
    BY DEF Keeps
  <1> QED BY <1>1, <1>2, LiveKept

\* A step without a global callback preserves GlobalOK.
LEMMA GlobalQuiet ==
  ASSUME GlobalOK, Main \in live' <=> Main \in live, global_initialized' = global_initialized,
         Initialized' <=> Initialized, pc'[Main] = pc[Main], Left(Main)' = Left(Main),
         Started(Terminal)' <=> Started(Terminal),
         \A v \in Workers : Runner(v, Terminal)' <=> Runner(v, Terminal),
         Keeps("global_finalize"), Keeps("user_global_finalize")
  PROVE  GlobalOK'
  <1>1. \A v \in Workers :
          /\ <<"global_finalize">> \in Left(v)' <=> <<"global_finalize">> \in Left(v)
          /\ <<"user_global_finalize">> \in Left(v)' <=> <<"user_global_finalize">> \in Left(v)
    BY DEF Keeps
  <1>2. \A a \in Actors : <<"user_global_finalize">> \in Left(a)' <=> <<"user_global_finalize">> \in Left(a)
    BY <1>1 DEF Actors
  <1> QED BY <1>1, <1>2, GlobalKept

\* A broadcast is received before the processor is initialized.
LEMMA CallsBroadcast ==
  ASSUME ProcessInv, NEW w \in Workers, ReceiveBroadcast(w)
  PROVE  LiveOK' /\ GlobalOK' /\ InputOK'
  <1>1. /\ ProcessTypeOK /\ ScriptOK /\ OwnOK /\ shape \in Shapes /\ LiveOK /\ GlobalOK /\ InputOK
    BY DEF ProcessInv, ProcessTypeOK
  <1>2. At(w, "broadcast") /\ Effect(w, Left(w) \ {Op(w)})
    BY <1>1, PopActions DEF ReceiveBroadcast
  <1>3. pc[w] = "run" /\ Op(w)[1] = "broadcast" /\ Heads(task[w], Op(w), Left(w))
    BY <1>1, <1>2, Busy
  <1>4. PICK j \in shape.broadcasts : task[w] = Producer(j) /\ Op(w) = <<"broadcast", j>>
                                      /\ Left(w) = {Op(w), <<"complete">>}
    BY <1>3 DEF Heads, StraightHeads
  <1>5. /\ shape' = shape /\ pc' = pc /\ task' = task
        /\ (\A v \in Workers \ {w} : Left(v)' = Left(v)) /\ Left(Main)' = Left(Main)
    BY <1>2, Constants DEF Effect, Steady
  <1>6. /\ status' = status /\ UNCHANGED <<thread_local_initialized, live, global_initialized>>
        /\ broadcast_inputs' = broadcast_inputs \cup {j}
    BY <1>4 DEF ReceiveBroadcast, sched, flags
  <1>7. \A v \in Workers : \A t : Runner(v, t)' <=> Runner(v, t)
    BY <1>5 DEF Runner
  <1>8. /\ Keeps("tl_init") /\ Keeps("tl_finalize") /\ Keeps("user_tl_finalize") /\ Keeps("global_init")
        /\ Keeps("global_finalize") /\ Keeps("user_global_finalize")
    BY <1>2, <1>3, KeepsPop
  <1>9. Initialized' <=> Initialized
    BY <1>6, <1>7, <1>8, InitializedQuiet
  <1>10. Started(Terminal)' <=> Started(Terminal)
    BY <1>6 DEF Started
  <1>11. LiveOK' /\ GlobalOK'
    BY <1>1, <1>5, <1>6, <1>7, <1>8, <1>9, <1>10, LiveQuiet, GlobalQuiet
  <1>12. ASSUME NEW i \in shape.broadcasts, i # j, Sent(i)'
         PROVE  Sent(i)
    <2>1. \A v \in Workers : Runner(v, Producer(i)) => v # w
      BY <1>4, <1>12, Names DEF Runner
    <2> QED BY <2>1, <1>5, <1>6, <1>7, <1>12 DEF Sent
  <1>13. InputOK'
    BY <1>1, <1>5, <1>6, <1>9, <1>12, InputParts
  <1> QED BY <1>11, <1>13

\* global_finalize of the terminal task.
LEMMA CallsGlobal ==
  ASSUME ProcessInv, NEW w \in Workers, GlobalFinalize(w)
  PROVE  LiveOK' /\ GlobalOK' /\ InputOK'
  <1>1. /\ ProcessTypeOK /\ ScriptOK /\ OwnOK /\ shape \in Shapes /\ LiveOK /\ GlobalOK /\ InputOK
    BY DEF ProcessInv, ProcessTypeOK
  <1> DEFINE E == {<<"complete">>} \cup
                  (IF global_initialized THEN {<<"user_global_finalize">>} ELSE {})
  <1>2. /\ pc[w] = "run" /\ Op(w) = <<"global_finalize">> /\ task[w] = Terminal
        /\ Left(w) = {<<"global_finalize">>, <<"complete">>} /\ Effect(w, E)
    BY <1>1, EffectGlobal
  <1>3. Runner(w, Terminal) /\ <<"global_finalize">> \in Left(w)
    BY <1>2 DEF Runner
  <1>4. global_initialized
    BY <1>1, <1>3 DEF GlobalOK
  <1>5. /\ shape' = shape /\ pc' = pc /\ task' = task /\ Left(w)' = {<<"complete">>, <<"user_global_finalize">>}
        /\ (\A v \in Workers \ {w} : Left(v)' = Left(v)) /\ Left(Main)' = Left(Main)
    BY <1>2, <1>4, Constants DEF Effect, Steady
  <1>6. /\ status' = status /\ UNCHANGED <<thread_local_initialized, live, broadcast_inputs>>
        /\ global_initialized' = FALSE
    BY DEF GlobalFinalize, sched, data
  <1>7. \A v \in Workers : \A t : Runner(v, t)' <=> Runner(v, t)
    BY <1>5 DEF Runner
  <1>8. /\ Keeps("tl_init") /\ Keeps("tl_finalize") /\ Keeps("user_tl_finalize") /\ Keeps("global_init")
        /\ Keeps("broadcast")
    BY <1>2, <1>5 DEF Keeps
  <1>9. Initialized' <=> Initialized
    BY <1>6, <1>7, <1>8, InitializedQuiet
  <1>10. LiveOK'
    BY <1>1, <1>5, <1>6, <1>7, <1>8, LiveQuiet
  <1>11. GlobalOK'
    <2>1. Runner(w, Terminal) /\ pc[Main] = "join" /\ \A v \in Workers : Runner(v, Terminal) => v = w
      BY <1>3, GlobalOps
    <2>2. Main \in live /\ Initialized
      BY <1>1, <1>4 DEF GlobalOK
    <2>3. w \in Actors
      BY Constants
    <2> QED BY <2>1, <2>2, <2>3, <1>5, <1>6, <1>7, <1>9 DEF GlobalOK
  <1>12. InputOK'
    <2>1. \A j \in shape.broadcasts : Sent(j)' => Sent(j)
      BY <1>1, <1>6, <1>7, <1>8, SentQuiet
    <2> QED BY <2>1, <1>1, <1>5, <1>6, <1>9, InputKept
  <1> QED BY <1>10, <1>11, <1>12

\* The return of global_finalize closes the bracket of the processor.
LEMMA CallsGlobalDone ==
  ASSUME ProcessInv, NEW w \in Workers, GlobalFinalized(w)
  PROVE  LiveOK' /\ GlobalOK' /\ InputOK'
  <1>1. /\ ProcessTypeOK /\ ScriptOK /\ OwnOK /\ shape \in Shapes /\ LiveOK /\ GlobalOK /\ InputOK
    BY DEF ProcessInv, ProcessTypeOK
  <1>2. At(w, "user_global_finalize") /\ Effect(w, Left(w) \ {Op(w)})
    BY <1>1, PopActions DEF GlobalFinalized
  <1>3. pc[w] = "run" /\ Op(w)[1] = "user_global_finalize" /\ Heads(task[w], Op(w), Left(w)) /\ Op(w) \in Left(w)
    BY <1>1, <1>2, Busy
  <1>4. task[w] = Terminal /\ Left(w) = {<<"user_global_finalize">>, <<"complete">>}
    BY <1>3 DEF Heads, StraightHeads
  <1>5. /\ shape' = shape /\ pc' = pc /\ task' = task /\ Left(w)' = {<<"complete">>}
        /\ (\A v \in Workers \ {w} : Left(v)' = Left(v)) /\ Left(Main)' = Left(Main)
    <2>1. Op(w) = <<"user_global_finalize">>
      BY <1>3, <1>4
    <2> QED BY <2>1, <1>2, <1>4, Constants DEF Effect, Steady
  <1>6. /\ status' = status /\ UNCHANGED <<thread_local_initialized, global_initialized>>
        /\ live' = live \ {Main}
    BY DEF GlobalFinalized, sched
  <1>7. \A v \in Workers : \A t : Runner(v, t)' <=> Runner(v, t)
    BY <1>5 DEF Runner
  <1>8. Keeps("tl_init") /\ Keeps("tl_finalize") /\ Keeps("user_tl_finalize") /\ Keeps("global_init")
    BY <1>2, <1>3, KeepsPop
  <1>9. Initialized' <=> Initialized
    BY <1>6, <1>7, <1>8, InitializedQuiet
  <1>10. LiveOK'
    <2>1. \A v \in Workers : v \in live' <=> v \in live
      BY <1>6, Constants
    <2> QED BY <2>1, <1>1, <1>5, <1>6, <1>7, <1>8, LiveQuiet
  <1>11. /\ Runner(w, Terminal) /\ pc[Main] = "join" /\ status[Terminal] = "running" /\ Left(Main) = {}
         /\ \A v \in Workers : Runner(v, Terminal) => v = w
    BY <1>4, GlobalOps
  <1>12. w \in Actors /\ ~global_initialized /\ Main \in live /\ Initialized
    <2>1. w \in Actors
      BY Constants
    <2> QED BY <2>1, <1>1, <1>4 DEF GlobalOK
  <1>13. \A a \in Actors : <<"user_global_finalize">> \notin Left(a)'
    <2>1. \A v \in Workers : <<"user_global_finalize">> \in Left(v) => v = w
      BY <1>11, GlobalOps
    <2> QED BY <2>1, <1>5, <1>11 DEF Actors
  <1>14. GlobalOK'
    <2>1. Started(Terminal)'
      BY <1>6, <1>11 DEF Started
    <2> QED BY <2>1, <1>5, <1>6, <1>12, <1>13, <1>7, <1>11 DEF GlobalOK
  <1>15. InputOK'
    BY <1>6, <1>9, <1>12, InputParts
  <1> QED BY <1>10, <1>14, <1>15

\* Workers between tasks.
LEMMA CallsIdle ==
  ASSUME ProcessInv, NEW w \in Workers, Loop(w) \/ TakeNothing(w) \/ Exit(w)
  PROVE  LiveOK' /\ GlobalOK' /\ InputOK'
  <1>1. /\ ProcessTypeOK /\ ScriptOK /\ pc \in [Actors -> Places] /\ w \in Actors
    BY Constants DEF ProcessInv, ProcessTypeOK
  <1>2. /\ script[w] = <<>> /\ Left(w) = {} /\ pc[w] # "exit"
        /\ Loop(w) => Moves(w, IF cancelled \/ IsFinished THEN "left" ELSE "take", <<>>)
        /\ TakeNothing(w) => Moves(w, "loop", <<>>)
        /\ Exit(w) => Moves(w, "exit", <<>>)
        /\ task' = task /\ shape' = shape
    BY <1>1, EffectIdle
  <1>3. PICK p : /\ Moves(w, p, <<>>) /\ p # "run" /\ pc[w] # "run"
                 /\ p \in {"leave", "exit"} => pc[w] \in {"leave", "exit"}
    BY <1>2 DEF Loop, TakeNothing, Exit
  <1>4. /\ status' = status /\ UNCHANGED <<flags, broadcast_inputs>>
    BY DEF Loop, TakeNothing, Exit, sched, data
  <1>5. /\ Left(w)' = {} /\ Left(Main)' = Left(Main) /\ pc' = [pc EXCEPT ![w] = p]
    BY <1>3, Literals, Constants DEF Moves
  <1>6. \A n : Keeps(n)
    BY <1>2, <1>3, <1>5, KeepsMove
  <1>7. /\ pc'[Main] = pc[Main] /\ pc'[w] = p /\ \A v \in Workers \ {w} : pc'[v] = pc[v]
    BY <1>1, <1>5, Constants
  <1>8. \A v \in Workers : \A t : Runner(v, t)' <=> Runner(v, t)
    BY <1>2, <1>3, <1>7 DEF Runner
  <1>9. \A v \in Workers : pc'[v] \in {"leave", "exit"} => pc[v] \in {"leave", "exit"}
    BY <1>3, <1>7
  <1>10. Started(Terminal)' <=> Started(Terminal)
    BY <1>4 DEF Started
  <1>11. \A t \in Tasks : status'[t] = "done" <=> status[t] = "done"
    BY <1>4
  <1> QED BY <1>2, <1>4, <1>5, <1>6, <1>7, <1>8, <1>9, <1>10, <1>11, CallsQuiet

\* thread_local_cancel is called by every worker that is initialized when it leaves.
LEMMA CallsLeave ==
  ASSUME ProcessInv, NEW w \in Workers, Leave(w)
  PROVE  LiveOK' /\ GlobalOK' /\ InputOK'
  <1>1. /\ ProcessTypeOK /\ ScriptOK /\ OwnOK /\ pc \in [Actors -> Places] /\ w \in Actors /\ shape \in Shapes
        /\ LiveOK /\ GlobalOK /\ InputOK
    BY Constants DEF ProcessInv, ProcessTypeOK
  <1>2. /\ Left(w) = {} /\ Moves(w, "leave", IF cancelled THEN <<<<"tl_finalize">>>> ELSE <<>>)
        /\ task' = task /\ shape' = shape
    BY <1>1, EffectIdle
  <1>3. /\ status' = status /\ UNCHANGED <<global_initialized, thread_local_initialized, live, broadcast_inputs>>
        /\ pc[w] = "left"
    BY DEF Leave, sched, data, flags
  <1>4. /\ Left(w)' = IF cancelled THEN {<<"tl_finalize">>} ELSE {}
        /\ Left(Main)' = Left(Main) /\ pc' = [pc EXCEPT ![w] = "leave"]
        /\ \A v \in Workers \ {w} : Left(v)' = Left(v)
    BY <1>2, Literals, Constants DEF Moves
  <1>5. /\ pc'[Main] = pc[Main] /\ pc'[w] = "leave" /\ \A v \in Workers \ {w} : pc'[v] = pc[v]
    BY <1>1, <1>4, Constants
  <1>6. \A v \in Workers : \A t : Runner(v, t)' <=> Runner(v, t)
    BY <1>2, <1>3, <1>5 DEF Runner
  <1>7. LiveOf(w)'
    <2>1. LiveOf(w) /\ \A t : ~Runner(w, t)'
      BY <1>1, <1>5, LiveParts DEF Runner
    <2>2. ~cancelled => thread_local_initialized = {}
      BY <1>1, <1>3, TerminalFacts DEF OwnOK, Started
    <2> QED BY <2>1, <2>2, <1>2, <1>3, <1>4 DEF LiveOf
  <1>8. LiveOK'
    <2> SUFFICES ASSUME NEW v \in Workers, v # w PROVE LiveOf(v)'
      BY <1>7, LiveParts
    <2>1. LiveOf(v) /\ Left(v)' = Left(v)
      BY <1>1, <1>4, LiveParts
    <2> QED BY <2>1, <1>3, <1>5, <1>6, LiveKept
  <1>9. Keeps("global_init") /\ Keeps("global_finalize") /\ Keeps("user_global_finalize") /\ Keeps("broadcast")
    BY <1>2, <1>4 DEF Keeps
  <1>10. Initialized' <=> Initialized
    BY <1>3, <1>6, <1>9, InitializedQuiet
  <1>11. Started(Terminal)' <=> Started(Terminal)
    BY <1>3 DEF Started
  <1>12. GlobalOK'
    BY <1>1, <1>3, <1>4, <1>5, <1>6, <1>9, <1>10, <1>11, GlobalQuiet
  <1>13. InputOK'
    <2>1. \A j \in shape.broadcasts : Sent(j)' => Sent(j)
      BY <1>1, <1>3, <1>6, <1>9, SentQuiet
    <2> QED BY <2>1, <1>1, <1>2, <1>3, <1>10, InputKept
  <1> QED BY <1>8, <1>12, <1>13

\* The terminal task starts after every finalizer is done.
LEMMA CallsTake ==
  ASSUME ProcessInv, NEW w \in Workers, TakeTask(w)
  PROVE  LiveOK' /\ GlobalOK' /\ InputOK'
  <1>1. /\ ProcessTypeOK /\ ScriptOK /\ OwnOK /\ GraphOK /\ SpawnOK /\ shape \in Shapes
        /\ LiveOK /\ GlobalOK /\ InputOK
        /\ pc \in [Actors -> Places] /\ task \in [Actors -> Tasks] /\ w \in Actors
        /\ status \in [Tasks -> {"none", "created", "committed", "running", "done"}]
    BY Constants DEF ProcessInv, ProcessTypeOK
  <1>2. PICK t \in Initial \cup Commands :
           /\ pc[w] = "take" /\ Left(w) = {}
           /\ status[t] = "committed" /\ status' = [status EXCEPT ![t] = "running"]
           /\ \A p \in preds[t] : status[p] = "done"
           /\ task' = [task EXCEPT ![w] = t]
           /\ preds' = preds /\ shape' = shape /\ cancelled' = cancelled
           /\ Moves(w, "run", Body(t)) /\ Fresh(t, Left(w)')
    BY <1>1, EffectTake
  <1>3. /\ UNCHANGED <<global_initialized, thread_local_initialized, live, broadcast_inputs>>
    BY DEF TakeTask, data, flags
  <1>4. /\ pc' = [pc EXCEPT ![w] = "run"] /\ Left(Main)' = Left(Main)
        /\ \A v \in Workers \ {w} : Left(v)' = Left(v)
    BY <1>2, Constants DEF Moves
  <1>5. t \in Tasks
    BY <1>1, Names, ShapeFacts DEF Initial
  <1>6. /\ pc'[Main] = pc[Main] /\ pc'[w] = "run" /\ task'[w] = t
        /\ \A v \in Workers \ {w} : pc'[v] = pc[v] /\ task'[v] = task[v]
    BY <1>1, <1>2, <1>4, Constants
  <1>7. /\ status'[t] = "running" /\ \A s \in Tasks \ {t} : status'[s] = status[s]
    BY <1>1, <1>2, <1>5
  <1>8. \A s \in Tasks : status'[s] = "done" <=> status[s] = "done"
    BY <1>2, <1>7
  <1>9. /\ \A s : ~Runner(w, s)
        /\ \A s : Runner(w, s)' <=> s = t
        /\ \A v \in Workers \ {w} : \A s : Runner(v, s)' <=> Runner(v, s)
    BY <1>2, <1>6 DEF Runner
  <1>10. \A v \in Workers : ~Runner(v, t)
    BY <1>1, <1>2 DEF OwnOK, Runner
  <1>11. Entry \in Tasks /\ Terminal \in Tasks /\ (\A v \in Workers : Finalizer(v) \in Tasks)
    BY Names
  <1>12. LiveOf(w)'
    <2>1. LiveOf(w)
      BY <1>1, LiveParts
    <2>2. <<"user_tl_finalize">> \notin Left(w)'
      BY <1>2 DEF Fresh
    <2>3. \A r \in Runs : Runner(w, Run(r))' => <<"tl_init">> \in Left(w)'
      BY <1>2, <1>9 DEF Fresh
    <2>4. Runner(w, Finalizer(w))' => <<"tl_finalize">> \in Left(w)'
      BY <1>2, <1>9 DEF Fresh
    <2> QED BY <2>1, <2>2, <2>3, <2>4, <1>2, <1>3, <1>6, <1>8, <1>11 DEF LiveOf
  <1>13. LiveOK'
    <2> SUFFICES ASSUME NEW v \in Workers, v # w PROVE LiveOf(v)'
      BY <1>12, LiveParts
    <2>1. LiveOf(v) /\ Left(v)' = Left(v)
      BY <1>1, <1>4, LiveParts
    <2> QED BY <2>1, <1>3, <1>6, <1>8, <1>9, <1>11, LiveKept
  <1>14. Initialized' <=> Initialized
    <2>1. CASE t = Entry
      <3>1. ~Initialized
        BY <1>2, <1>10, <2>1 DEF Initialized
      <3>2. <<"global_init">> \in Left(w)'
        BY <1>2, <2>1 DEF Fresh
      <3>3. ~Initialized'
        BY <3>2, <1>7, <1>9, <1>10, <2>1 DEF Initialized
      <3> QED BY <3>1, <3>3
    <2>2. CASE t # Entry
      BY <2>2, <1>4, <1>8, <1>9, <1>11 DEF Initialized
    <2> QED BY <2>1, <2>2
  <1>15. \A a \in Actors : <<"user_global_finalize">> \in Left(a)' <=> <<"user_global_finalize">> \in Left(a)
    <2>1. <<"user_global_finalize">> \notin Left(w)' /\ <<"user_global_finalize">> \notin Left(w)
      BY <1>2 DEF Fresh
    <2> QED BY <2>1, <1>4 DEF Actors
  <1>16. GlobalOK'
    <2>1. CASE t = Terminal
      <3>1. Barrier \in preds[Terminal]
        BY <1>1, Names DEF GraphOK, Initial, InitialPreds
      <3>2. status[Entry] = "done"
        BY <3>1, <2>1, <1>1, <1>2, OrderFacts DEF Started
      <3>3. Initialized /\ ~Started(Terminal) /\ pc[Main] = "join"
        BY <3>2, <2>1, <1>1, <1>2, IdleFacts DEF Initialized, Started
      <3>4. global_initialized
        BY <3>3, BeforeTerminal
      <3>5. Started(Terminal)' /\ Runner(w, Terminal)' /\ <<"global_finalize">> \in Left(w)'
        BY <2>1, <1>2, <1>7, <1>9 DEF Started, Fresh
      <3> QED BY <3>3, <3>4, <3>5, <1>1, <1>3, <1>6, <1>14, <1>15 DEF GlobalOK
    <2>2. CASE t # Terminal
      <3>1. Started(Terminal)' <=> Started(Terminal)
        BY <2>2, <1>7, <1>11 DEF Started
      <3>2. \A v \in Workers : Runner(v, Terminal)' /\ <<"global_finalize">> \in Left(v)'
                              <=> Runner(v, Terminal) /\ <<"global_finalize">> \in Left(v)
        BY <2>2, <1>4, <1>9
      <3> QED BY <3>1, <3>2, <1>1, <1>3, <1>4, <1>6, <1>14, <1>15, GlobalKept
    <2> QED BY <2>1, <2>2
  <1>17. InputOK'
    <2>1. ASSUME NEW j \in shape.broadcasts, Sent(j)' PROVE Sent(j)
      <3>1. Producer(j) \in Tasks
        BY <1>1, Names, ShapeFacts
      <3>2. t = Producer(j) => <<"broadcast", j>> \in Left(w)'
        BY <1>2 DEF Fresh
      <3> QED BY <2>1, <3>1, <3>2, <1>4, <1>8, <1>9 DEF Sent
    <2> QED BY <2>1, <1>1, <1>2, <1>3, <1>14, InputKept
  <1> QED BY <1>13, <1>16, <1>17

\* The barrier completes after it made a finalizer for every live worker.
LEMMA CallsComplete ==
  ASSUME ProcessInv, NEW w \in Workers, Complete(w)
  PROVE  LiveOK' /\ GlobalOK' /\ InputOK'
  <1>1. /\ ProcessTypeOK /\ ScriptOK /\ OwnOK /\ shape \in Shapes
        /\ LiveOK /\ GlobalOK /\ InputOK
        /\ pc \in [Actors -> Places] /\ task \in [Actors -> Tasks] /\ w \in Actors
        /\ status \in [Tasks -> {"none", "created", "committed", "running", "done"}]
    BY Constants DEF ProcessInv, ProcessTypeOK
  <1>2. pc[w] = "run" /\ Left(w) = {<<"complete">>} /\ Moves(w, "loop", <<>>)
    BY <1>1, EffectComplete
  <1>3. PICK t \in Tasks : t = task[w]
    BY <1>1
  <1>4. status[t] = "running" /\ status' = [status EXCEPT ![t] = "done"]
    BY <1>3, OwnComplete
  <1>5. /\ UNCHANGED <<global_initialized, thread_local_initialized, live, broadcast_inputs>>
        /\ task' = task /\ shape' = shape
    BY DEF Complete, data, flags, setup
  <1>6. /\ pc' = [pc EXCEPT ![w] = "loop"] /\ Left(Main)' = Left(Main) /\ Left(w)' = {}
        /\ \A v \in Workers \ {w} : Left(v)' = Left(v)
    BY <1>2, Constants, Literals DEF Moves
  <1>7. /\ pc'[Main] = pc[Main] /\ pc'[w] = "loop" /\ \A v \in Workers \ {w} : pc'[v] = pc[v]
    BY <1>1, <1>6, Constants
  <1>8. /\ status'[t] = "done" /\ \A s \in Tasks \ {t} : status'[s] = status[s]
    BY <1>1, <1>4
  <1>9. /\ \A s : Runner(w, s) <=> s = t
        /\ \A s : ~Runner(w, s)'
        /\ \A v \in Workers \ {w} : \A s : Runner(v, s)' <=> Runner(v, s)
    BY <1>2, <1>3, <1>5, <1>7 DEF Runner
  <1>10. Entry \in Tasks /\ Terminal \in Tasks /\ (\A v \in Workers : Finalizer(v) \in Tasks)
    BY Names
  <1>11. LiveOf(w)'
    <2>1. LiveOf(w) /\ (status[Entry] = "done" => status'[Entry] = "done")
      BY <1>1, <1>4, <1>8, <1>10, LiveParts
    <2>2. status'[Finalizer(w)] = "done" => w \notin live
      BY <2>1, <1>2, <1>8, <1>9, <1>10 DEF LiveOf
    <2> QED BY <2>1, <2>2, <1>2, <1>5, <1>6, <1>7, <1>9 DEF LiveOf
  <1>12. LiveOK'
    <2> SUFFICES ASSUME NEW v \in Workers, v # w PROVE LiveOf(v)'
      BY <1>11, LiveParts
    <2>1. LiveOf(v) /\ Left(v)' = Left(v)
      BY <1>1, <1>6, LiveParts
    <2>2. t # Finalizer(v)
      BY <1>1, <1>3 DEF OwnOK
    <2>3. status[Entry] = "done" => status'[Entry] = "done"
      BY <1>4, <1>8, <1>10
    <2> QED BY <2>1, <2>2, <2>3, <1>5, <1>7, <1>8, <1>9, <1>10, LiveKept
  <1>13. Initialized' <=> Initialized
    <2>1. CASE t = Entry
      BY <2>1, <1>2, <1>8, <1>9 DEF Initialized
    <2>2. CASE t # Entry
      BY <2>2, <1>6, <1>8, <1>9, <1>10 DEF Initialized
    <2> QED BY <2>1, <2>2
  <1>14. \A a \in Actors : <<"user_global_finalize">> \in Left(a)' <=> <<"user_global_finalize">> \in Left(a)
    BY <1>2, <1>6 DEF Actors
  <1>15. GlobalOK'
    <2>1. CASE t = Terminal
      <3>1. Started(Terminal) /\ Started(Terminal)'
        BY <2>1, <1>4, <1>8 DEF Started
      <3>2. \A v \in Workers : Runner(v, Terminal) => v = w
        BY <2>1, <1>1, <1>9, OneRunner, Names
      <3>3. ~global_initialized
        BY <3>1, <3>2, <1>1, <1>2 DEF GlobalOK
      <3>4. \A v \in Workers : ~Runner(v, Terminal)'
        BY <3>2, <1>9
      <3> QED BY <3>1, <3>3, <3>4, <1>1, <1>5, <1>6, <1>7, <1>13, <1>14 DEF GlobalOK
    <2>2. CASE t # Terminal
      <3>1. Started(Terminal)' <=> Started(Terminal)
        BY <2>2, <1>8, <1>10 DEF Started
      <3>2. \A v \in Workers : Runner(v, Terminal)' /\ <<"global_finalize">> \in Left(v)'
                              <=> Runner(v, Terminal) /\ <<"global_finalize">> \in Left(v)
        BY <2>2, <1>6, <1>9
      <3> QED BY <3>1, <3>2, <1>1, <1>5, <1>6, <1>7, <1>13, <1>14, GlobalKept
    <2> QED BY <2>1, <2>2
  <1>16. InputOK'
    <2>1. ASSUME NEW j \in shape.broadcasts, Sent(j)' PROVE Sent(j)
      <3>1. Producer(j) \in Tasks
        BY <1>1, Names, ShapeFacts
      <3>2. t = Producer(j) => Sent(j)
        BY <1>2, <1>9 DEF Sent
      <3> QED BY <2>1, <3>1, <3>2, <1>6, <1>8, <1>9 DEF Sent
    <2> QED BY <2>1, <1>1, <1>5, <1>13, InputKept
  <1> QED BY <1>12, <1>15, <1>16

\* A callback that throws cancels, and its worker will leave.
LEMMA CallsThrow ==
  ASSUME ProcessInv, NEW w \in Workers, Throw(w)
  PROVE  LiveOK' /\ GlobalOK' /\ InputOK'
  <1>1. /\ ProcessTypeOK /\ ScriptOK /\ OwnOK /\ shape \in Shapes
        /\ LiveOK /\ GlobalOK /\ InputOK /\ pc \in [Actors -> Places] /\ w \in Actors
    BY Constants DEF ProcessInv, ProcessTypeOK
  <1>2. /\ task' = task /\ shape' = shape
        /\ \/ /\ pc[w] = "run" /\ Op(w) \in Left(w) /\ Moves(w, "leave", <<<<"tl_finalize">>>>)
              /\ Left(w)' = {<<"tl_finalize">>}
              /\ Heads(task[w], Op(w), Left(w))
              /\ Op(w) \in {<<"foreign">>, <<"global_init">>, <<"run">>, <<"tl_init">>,
                            <<"user_tl_finalize">>, <<"user_global_finalize">>}
           \/ /\ pc[w] = "leave" /\ Op(w) = <<"user_tl_finalize">> /\ Left(w) = {Op(w)}
              /\ Moves(w, "leave", <<>>) /\ Left(w)' = {}
        /\ live' = live \ (IF Op(w) = <<"user_tl_finalize">> THEN {w}
                           ELSE IF Op(w) = <<"user_global_finalize">> THEN {Main} ELSE {})
    BY <1>1, EffectThrow
  <1>3. /\ status' = status /\ UNCHANGED <<global_initialized, thread_local_initialized, broadcast_inputs>>
    BY DEF Throw, sched, data
  <1>4. /\ pc' = [pc EXCEPT ![w] = "leave"] /\ Left(Main)' = Left(Main)
        /\ \A v \in Workers \ {w} : Left(v)' = Left(v)
    BY <1>2, Constants DEF Moves
  <1>5. /\ pc'[Main] = pc[Main] /\ pc'[w] = "leave" /\ \A v \in Workers \ {w} : pc'[v] = pc[v]
    BY <1>1, <1>4, Constants
  <1>6. /\ \A t : ~Runner(w, t)'
        /\ \A v \in Workers \ {w} : \A t : Runner(v, t)' <=> Runner(v, t)
    BY <1>2, <1>5 DEF Runner
  \* What the operation says about the task.
  <1>7. /\ pc[w] = "run" /\ Op(w) = <<"foreign">> => task[w] = Foreign
        /\ pc[w] = "run" /\ Op(w) = <<"global_init">> => task[w] = Entry
        /\ pc[w] = "run" /\ Op(w) \in {<<"run">>, <<"tl_init">>, <<"user_tl_finalize">>} =>
             task[w] \in Commands
        /\ Op(w) = <<"user_global_finalize">> =>
             pc[w] = "run" /\ task[w] = Terminal
        /\ <<"user_tl_finalize">> \in Left(w) => Op(w) = <<"user_tl_finalize">>
        /\ <<"user_global_finalize">> \in Left(w) => Op(w) = <<"user_global_finalize">>
        /\ <<"global_finalize">> \notin Left(w)
        /\ <<"global_init">> \in Left(w) <=> Op(w) = <<"global_init">>
        /\ \A x \in Left(w) : x[1] # "broadcast"
        /\ Op(w) \in Left(w)
    <2>1. CASE pc[w] = "run"
      <3>1. StraightHeads(task[w], Op(w), Left(w)) /\ Op(w) \in Left(w)
        BY <2>1, <1>2 DEF Heads
      <3>2. CASE Op(w) = <<"foreign">>
        <4>1. task[w] = Foreign /\ Left(w) = {<<"foreign">>, <<"complete">>}
          BY <3>1, <3>2 DEF StraightHeads
        <4> QED BY <4>1, <3>1, <3>2
      <3>3. CASE Op(w) = <<"global_init">>
        <4>1. task[w] = Entry /\ Left(w) = {<<"global_init">>, <<"complete">>}
          BY <3>1, <3>3 DEF StraightHeads
        <4> QED BY <4>1, <3>1, <3>3
      <3>4. CASE Op(w) = <<"run">>
        <4>1. task[w] \in Commands /\ Left(w) = {<<"run">>, <<"notify">>, <<"complete">>}
          BY <3>1, <3>4, Names DEF StraightHeads
        <4> QED BY <4>1, <3>1, <3>4
      <3>5. CASE Op(w) = <<"tl_init">>
        <4>1. task[w] \in Commands /\ Left(w) = {<<"tl_init">>, <<"run">>, <<"notify">>, <<"complete">>}
          BY <3>1, <3>5, Names DEF StraightHeads
        <4> QED BY <4>1, <3>1, <3>5
      <3>6. CASE Op(w) = <<"user_tl_finalize">>
        <4>1. task[w] \in Commands /\ Left(w) = {<<"user_tl_finalize">>, <<"notify">>, <<"complete">>}
          BY <3>1, <3>6, Names DEF StraightHeads
        <4> QED BY <4>1, <3>1, <3>6
      <3>7. CASE Op(w) = <<"user_global_finalize">>
        <4>1. task[w] = Terminal /\ Left(w) = {<<"user_global_finalize">>, <<"complete">>}
          BY <3>1, <3>7 DEF StraightHeads
        <4> QED BY <4>1, <3>1, <3>7, <2>1
      <3> QED BY <3>2, <3>3, <3>4, <3>5, <3>6, <3>7, <2>1, <1>2
    <2>2. CASE pc[w] # "run"
      <3>1. Op(w) = <<"user_tl_finalize">> /\ Left(w) = {Op(w)} /\ pc[w] = "leave"
        BY <2>2, <1>2
      <3> QED BY <3>1
    <2> QED BY <2>1, <2>2
  <1>8. LiveOf(w)'
    <2>1. LiveOf(w)
      BY <1>1, LiveParts
    <2>2. w # Main /\ (<<"user_tl_finalize">> \notin Left(w)')
      BY <1>2, Constants
    <2>3. w \in live' <=> w \in thread_local_initialized
      BY <2>1, <2>2, <1>2, <1>7 DEF LiveOf
    <2>4. w \in thread_local_initialized => <<"tl_finalize">> \in Left(w)'
      BY <2>1, <1>2 DEF LiveOf
    <2>5. live' \subseteq live
      BY <1>2
    <2> QED BY <2>1, <2>2, <2>3, <2>4, <2>5, <1>3, <1>6 DEF LiveOf
  <1>9. LiveOK'
    <2> SUFFICES ASSUME NEW v \in Workers, v # w PROVE LiveOf(v)'
      BY <1>8, LiveParts
    <2>1. LiveOf(v) /\ Left(v)' = Left(v)
      BY <1>1, <1>4, LiveParts
    <2>2. v \in live' <=> v \in live
      BY <1>2, Constants
    <2> QED BY <2>1, <2>2, <1>3, <1>5, <1>6, LiveKept
  <1>10. Initialized' <=> Initialized
    <2>1. CASE Runner(w, Entry)
      <3>1. Op(w) = <<"global_init">>
        BY <2>1, <1>2, <1>7, Names DEF Runner
      <3>2. status[Entry] = "running" /\ \A v \in Workers : Runner(v, Entry) => v = w
        BY <2>1, <1>1, OneRunner, Names
      <3> QED BY <3>1, <3>2, <1>3, <1>6, <1>7 DEF Initialized
    <2>2. CASE ~Runner(w, Entry)
      BY <2>2, <1>3, <1>4, <1>6 DEF Initialized
    <2> QED BY <2>1, <2>2
  <1>11. Started(Terminal)' <=> Started(Terminal)
    BY <1>3 DEF Started
  <1>12. \A v \in Workers : Runner(v, Terminal)' /\ <<"global_finalize">> \in Left(v)'
                         <=> Runner(v, Terminal) /\ <<"global_finalize">> \in Left(v)
    BY <1>4, <1>6, <1>7
  <1>13. GlobalOK'
    <2>1. CASE Op(w) = <<"user_global_finalize">>
      <3>1. /\ Runner(w, Terminal) /\ status[Terminal] = "running" /\ Left(Main) = {} /\ pc[Main] = "join"
            /\ \A v \in Workers : Runner(v, Terminal) => v = w
        BY <2>1, <1>7, GlobalOps
      <3>2. ~global_initialized /\ Main \in live /\ Initialized
        BY <2>1, <1>1, <1>7 DEF GlobalOK
      <3>3. \A a \in Actors : <<"user_global_finalize">> \notin Left(a)'
        <4>1. \A v \in Workers : <<"user_global_finalize">> \in Left(v) => v = w
          BY <3>1, GlobalOps
        <4> QED BY <4>1, <3>1, <1>2, <1>4 DEF Actors
      <3>4. Main \notin live' /\ Started(Terminal)'
        BY <2>1, <3>1, <1>2, <1>11 DEF Started
      <3> QED BY <3>1, <3>2, <3>3, <3>4, <1>1, <1>3, <1>5, <1>10, <1>12 DEF GlobalOK
    <2>2. CASE Op(w) # <<"user_global_finalize">>
      <3>1. Main \in live' <=> Main \in live
        BY <2>2, <1>2, Constants
      <3>2. <<"user_global_finalize">> \notin Left(w) /\ <<"user_global_finalize">> \notin Left(w)'
        BY <2>2, <1>2, <1>7
      <3>3. \A a \in Actors : <<"user_global_finalize">> \in Left(a)' <=> <<"user_global_finalize">> \in Left(a)
        BY <3>2, <1>4 DEF Actors
      <3> QED BY <3>1, <3>3, <1>1, <1>3, <1>4, <1>5, <1>10, <1>11, <1>12, GlobalKept
    <2> QED BY <2>1, <2>2
  <1>14. InputOK'
    <2>1. ASSUME NEW j \in shape.broadcasts, Sent(j)' PROVE Sent(j)
      BY <2>1, <1>3, <1>4, <1>6 DEF Sent
    <2>2. live' \subseteq live
      BY <1>2
    <2> QED BY <2>1, <2>2, <1>1, <1>2, <1>3, <1>10, InputKept
  <1> QED BY <1>9, <1>13, <1>14

\* The caller of execute() finalizes what the workers have left.
LEMMA CallsMain ==
  ASSUME ProcessInv,
         Join \/ Exit(Main) \/ GlobalFinalize(Main) \/ GlobalFinalized(Main) \/ Throw(Main)
  PROVE  LiveOK' /\ GlobalOK' /\ InputOK'
  <1>1. /\ ProcessTypeOK /\ ScriptOK /\ OwnOK /\ shape \in Shapes
        /\ LiveOK /\ GlobalOK /\ InputOK /\ pc \in [Actors -> Places] /\ Main \in Actors
    BY Constants DEF ProcessInv, ProcessTypeOK
  <1>2. /\ \A w \in Workers : pc[w] = "exit"
        /\ task' = task /\ shape' = shape /\ (cancelled => cancelled')
        /\ Join => /\ pc[Main] = "join" /\ Left(Main) = {}
                   /\ Moves(Main, "leave", IF cancelled THEN <<<<"global_finalize">>>> ELSE <<>>)
                   /\ Left(Main)' = IF cancelled THEN {<<"global_finalize">>} ELSE {}
        /\ Exit(Main) => /\ pc[Main] = "leave" /\ Left(Main) = {} /\ Moves(Main, "exit", <<>>)
                         /\ Left(Main)' = {}
        /\ GlobalFinalize(Main) =>
             /\ pc[Main] = "leave" /\ Left(Main) = {<<"global_finalize">>}
             /\ pc' = pc /\ Moves(Main, "leave", IF global_initialized THEN <<<<"user_global_finalize">>>> ELSE <<>>)
             /\ Left(Main)' = IF global_initialized THEN {<<"user_global_finalize">>} ELSE {}
        /\ GlobalFinalized(Main) =>
             /\ pc[Main] = "leave" /\ Left(Main) = {<<"user_global_finalize">>}
             /\ pc' = pc /\ Moves(Main, "leave", <<>>) /\ Left(Main)' = {}
        /\ Throw(Main) =>
             /\ pc[Main] = "leave" /\ Left(Main) = {<<"user_global_finalize">>}
             /\ Moves(Main, "leave", <<>>) /\ Left(Main)' = {}
             /\ live' = live \ {Main} /\ cancelled
    BY <1>1, EffectMain
  <1>3. PICK p \in {"leave", "exit"} : \E s : Moves(Main, p, s)
    BY <1>2
  <1>4. status' = status /\ thread_local_initialized' = thread_local_initialized
    BY DEF Join, Exit, GlobalFinalize, GlobalFinalized, Throw, sched, flags
  <1>5. /\ pc' = [pc EXCEPT ![Main] = p] /\ \A v \in Workers : Left(v)' = Left(v)
    BY <1>3, Constants DEF Moves
  <1>6. /\ pc'[Main] = p /\ \A v \in Workers : pc'[v] = pc[v]
    BY <1>1, <1>5, Constants
  <1>7. \A v \in Workers : \A t : ~Runner(v, t) /\ ~Runner(v, t)'
    BY <1>2, <1>6 DEF Runner
  <1>8. \A n : Keeps(n)
    BY <1>3, KeepsMain
  <1>9. Initialized' <=> Initialized
    BY <1>4, <1>7, <1>8, InitializedQuiet
  <1>10. Started(Terminal)' <=> Started(Terminal)
    BY <1>4 DEF Started
  <1>11. \A v \in Workers : v \in live' <=> v \in live
    BY <1>2, Constants DEF Join, Exit, GlobalFinalize, GlobalFinalized, flags
  <1>12. LiveOK'
    BY <1>1, <1>4, <1>6, <1>7, <1>8, <1>11, LiveQuiet
  <1>13. \A v \in Workers : <<"user_global_finalize">> \notin Left(v)
    BY <1>1, <1>2, IdleFacts
  <1>14. Main \in live <=> global_initialized \/ <<"user_global_finalize">> \in Left(Main)
    BY <1>1, <1>13 DEF GlobalOK, Actors
  <1>15. <<"user_global_finalize">> \in Left(Main) => ~global_initialized
    BY <1>1 DEF GlobalOK
  \* What is left to show: the flag, the callback in progress and the history agree.
  <1>16. ASSUME Main \in live' <=> global_initialized' \/ <<"user_global_finalize">> \in Left(Main)',
                <<"user_global_finalize">> \in Left(Main)' => ~global_initialized',
                global_initialized' => <<"global_finalize">> \in Left(Main)',
                Main \in live' => Main \in live, global_initialized' => global_initialized
         PROVE  GlobalOK'
    <2>1. \A a \in Actors : <<"user_global_finalize">> \in Left(a)' => a = Main
      BY <1>5, <1>13 DEF Actors
    <2>2. Started(Terminal) /\ global_initialized => FALSE
      BY <1>1, <1>7 DEF GlobalOK
    <2>3. Main \in live' => Initialized'
      BY <1>1, <1>9, <1>16 DEF GlobalOK
    <2> QED BY <2>1, <2>2, <2>3, <1>1, <1>3, <1>6, <1>7, <1>10, <1>16 DEF GlobalOK
  <1>17. \A j \in shape.broadcasts : Sent(j)' => Sent(j)
    BY <1>4, <1>7 DEF Sent
  <1>18. CASE Join
    <2>1. UNCHANGED <<global_initialized, live, broadcast_inputs>>
      BY <1>18 DEF Join, flags, data
    <2>2. ~cancelled => ~global_initialized
      <3>1. ~cancelled => status[Terminal] = "done"
        BY <1>1, <1>2, Constants DEF OwnOK
      <3> QED BY <3>1, <1>1, <1>7 DEF GlobalOK, Started
    <2>3. GlobalOK'
      BY <2>1, <2>2, <1>2, <1>14, <1>16, <1>18
    <2>4. InputOK'
      BY <2>1, <1>1, <1>2, <1>9, <1>17, InputKept
    <2> QED BY <2>3, <2>4, <1>12
  <1>19. CASE Exit(Main)
    <2>1. UNCHANGED <<global_initialized, live, broadcast_inputs>>
      BY <1>19 DEF Exit, flags, data
    <2>2. ~global_initialized
      BY <1>1, <1>2, <1>19 DEF GlobalOK
    <2>3. GlobalOK'
      BY <2>1, <2>2, <1>2, <1>14, <1>16, <1>19
    <2>4. InputOK'
      BY <2>1, <1>1, <1>2, <1>9, <1>17, InputKept
    <2> QED BY <2>3, <2>4, <1>12
  <1>20. CASE GlobalFinalize(Main)
    <2>1. UNCHANGED <<live, broadcast_inputs>> /\ global_initialized' = FALSE
      BY <1>20 DEF GlobalFinalize, data
    <2>2. GlobalOK'
      BY <2>1, <1>2, <1>14, <1>16, <1>20
    <2>3. InputOK'
      BY <2>1, <1>1, <1>2, <1>9, <1>17, InputKept
    <2> QED BY <2>2, <2>3, <1>12
  <1>21. CASE GlobalFinalized(Main) \/ Throw(Main)
    <2>1. live' = live \ {Main} /\ global_initialized' = global_initialized
      BY <1>2, <1>21 DEF GlobalFinalized, Throw
    <2>2. Left(Main)' = {} /\ <<"user_global_finalize">> \in Left(Main)
      BY <1>2, <1>21
    <2>3. GlobalOK'
      BY <2>1, <2>2, <1>14, <1>15, <1>16
    <2>4. Initialized
      BY <2>2, <1>1, <1>14 DEF GlobalOK
    <2>5. InputOK'
      BY <2>1, <2>4, <1>9, InputParts
    <2> QED BY <2>3, <2>5, <1>12
  <1> QED BY <1>18, <1>19, <1>20, <1>21

-----------------------------------------------------------------------------
(* The steps.                                                              *)

\* The counters stay natural numbers.
LEMMA WaitingType ==
  ASSUME ProcessTypeOK, shape' = shape, CountOK',
         waiting_counters' = [q \in Runs |-> waiting_counters'[q]]
  PROVE  waiting_counters' \in [Runs -> Nat]
  <1>1. shape \in Shapes
    BY DEF ProcessTypeOK
  <1> SUFFICES ASSUME NEW r \in Runs PROVE waiting_counters'[r] \in Nat
    OBVIOUS
  <1>2. waiting_counters'[r] = Cardinality({j \in Needs(r) : ~Counted(j, r)}')
    BY DEF CountOK
  <1>3. {j \in Needs(r) : ~Counted(j, r)}' \in SUBSET Needs(r) /\ IsFiniteSet(Needs(r))
    BY <1>1, ShapeFacts DEF Needs
  <1>4. IsFiniteSet({j \in Needs(r) : ~Counted(j, r)}')
    BY <1>3, FS_Subset
  <1> QED BY <1>2, <1>4, FS_CardinalityType

\* A step inside a script that leaves the graph and the slots alone.
LEMMA StepQuiet ==
  ASSUME ProcessInv, NEW w \in Workers, NEW A, Effect(w, (Left(w) \ {Op(w)}) \cup A),
         UNCHANGED <<sched, slots>>, Op(w)[1] \notin {"depend", "notify"},
         \A x \in A : x[1] # "notify",
         SpawnOK', CountOK', LiveOK' /\ GlobalOK' /\ InputOK',
         global_initialized' \in BOOLEAN, thread_local_initialized' \subseteq Workers,
         live' \subseteq Actors, broadcast_inputs' \subseteq shape.broadcasts,
         partitioned_pool' \in [Runs -> SUBSET Ports], given' \in [Runs -> SUBSET Ports],
         waiting_counters' \in [Runs -> Nat]
  PROVE  ProcessInv'
  <1>1. ProcessTypeOK /\ ScriptOK /\ OwnOK /\ GraphOK /\ SlotsOK
    BY DEF ProcessInv
  <1>2. /\ pc' = pc /\ task' = task /\ shape' = shape /\ limit' = limit /\ cancelled' = cancelled
        /\ script' \in [Actors -> Seq(Ops)] /\ ScriptOK'
        /\ Left(w)' = (Left(w) \ {Op(w)}) \cup A
        /\ \A v \in Workers \ {w} : Left(v)' = Left(v)
    BY Constants DEF Effect, Steady
  <1>3. status' = status /\ preds' = preds /\ remaining' = remaining /\ task_queue' = task_queue
    BY DEF sched, slots
  <1>4. ProcessTypeOK'
    BY <1>1, <1>2, <1>3 DEF ProcessTypeOK
  <1>5. \A v \in Workers : task[v] \in Tasks
    BY <1>1, Constants DEF ProcessTypeOK
  <1>6. OwnOK'
    BY <1>1, <1>2, <1>3, <1>5, OwnQuiet
  <1>7. GraphOK'
    <2>1. \A v \in Workers : \A x \in Left(v) : x[1] = "depend" => x \in Left(v)'
      BY <1>2
    <2>2. preds \in [Tasks -> SUBSET Tasks] /\ shape \in Shapes
      BY <1>1 DEF ProcessTypeOK
    <2>3. \A t : Started(t)' => Started(t)
      BY <1>3 DEF Started
    <2> QED BY <2>1, <2>2, <2>3, <1>1, <1>2, <1>3, GraphKept
  <1>8. SlotsOK'
    <2>1. Keeps("notify")
      BY KeepsPush
    <2>2. Steady
      BY DEF Effect
    <2> QED BY <2>1, <2>2, <1>1, <1>3, SlotsQuiet
  <1> QED BY <1>2, <1>4, <1>6, <1>7, <1>8 DEF ProcessInv

\* A step that neither creates nor commits preserves SpawnOK.
LEMMA SpawnQuiet ==
  ASSUME ProcessInv, NEW w \in Workers, NEW A, Effect(w, (Left(w) \ {Op(w)}) \cup A),
         UNCHANGED <<sched, slots>>, Op(w)[1] \notin {"create", "commit"},
         \A x \in A : x[1] \notin {"create", "commit"}
  PROVE  SpawnOK'
  <1>1. SpawnOK /\ task_queue \in Seq(Commands)
    BY DEF ProcessInv, ProcessTypeOK
  <1>2. Keeps("create") /\ Keeps("commit")
    BY KeepsPush
  <1> QED BY <1>1, <1>2, SpawnKept DEF sched, slots

\* The parts of the type invariant.
LEMMA DataTypes ==
  ASSUME ProcessInv
  PROVE  /\ global_initialized \in BOOLEAN /\ thread_local_initialized \subseteq Workers
         /\ live \subseteq Actors /\ broadcast_inputs \subseteq shape.broadcasts
         /\ partitioned_pool \in [Runs -> SUBSET Ports] /\ given \in [Runs -> SUBSET Ports]
         /\ waiting_counters \in [Runs -> Nat] /\ shape \in Shapes
         /\ ProcessTypeOK /\ ScriptOK /\ OwnOK /\ SpawnOK
  BY DEF ProcessInv, ProcessTypeOK

\* Every step of a worker preserves the invariant, ...
LEMMA StepPlain ==
  ASSUME ProcessInv, NEW w \in Workers, Prepare(w) \/ Return(w)
  PROVE  ProcessInv'
  <1>1. Effect(w, Left(w) \ {Op(w)}) /\ Op(w)[1] \in {"prepare", "run", "foreign"}
    BY DataTypes, PopActions, AtFacts DEF Prepare, Return
  <1>2. UNCHANGED <<sched, slots, flags, data>>
    BY DEF Prepare, Return
  <1>3. /\ status' = status
        /\ UNCHANGED <<global_initialized, thread_local_initialized, live, broadcast_inputs,
                       partitioned_pool, waiting_counters, given>>
    BY <1>2 DEF flags, data, sched
  <1> DEFINE A == {}
  <1>4. Effect(w, (Left(w) \ {Op(w)}) \cup A) /\ \A x \in A : x[1] = "count"
    BY <1>1
  <1> HIDE DEF A
  <1>5. CountOK'
    BY <1>1, <1>3, CountPop
  <1>6. LiveOK' /\ GlobalOK' /\ InputOK'
    BY <1>1, <1>2, <1>3, <1>4, CallsEffect
  <1>7. SpawnOK'
    BY <1>1, <1>2, <1>4, SpawnQuiet
  <1> QED BY <1>1, <1>2, <1>3, <1>4, <1>5, <1>6, <1>7, DataTypes, StepQuiet

LEMMA StepBroadcast ==
  ASSUME ProcessInv, NEW w \in Workers, ReceiveBroadcast(w)
  PROVE  ProcessInv'
  <1>1. At(w, "broadcast") /\ Effect(w, Left(w) \ {Op(w)})
    BY DataTypes, PopActions DEF ReceiveBroadcast
  <1>2. Op(w)[1] = "broadcast" /\ Heads(task[w], Op(w), Left(w))
    BY <1>1, DataTypes, Busy
  <1>3. PICK j \in shape.broadcasts : Op(w) = <<"broadcast", j>>
    BY <1>2 DEF Heads, StraightHeads
  <1>4. /\ UNCHANGED <<sched, slots>> /\ status' = status
        /\ UNCHANGED <<global_initialized, thread_local_initialized, live,
                       partitioned_pool, waiting_counters, given>>
        /\ broadcast_inputs' = broadcast_inputs \cup {j}
    BY <1>3 DEF ReceiveBroadcast, flags, sched
  <1> DEFINE A == {}
  <1>5. Effect(w, (Left(w) \ {Op(w)}) \cup A) /\ \A x \in A : x[1] = "count"
    BY <1>1
  <1> HIDE DEF A
  <1>6. CountOK'
    BY <1>1, <1>2, <1>4, CountPop
  <1>7. LiveOK' /\ GlobalOK' /\ InputOK'
    BY CallsBroadcast
  <1>8. SpawnOK'
    BY <1>2, <1>4, <1>5, SpawnQuiet
  <1> QED BY <1>2, <1>4, <1>5, <1>6, <1>7, <1>8, DataTypes, StepQuiet

LEMMA StepReceive ==
  ASSUME ProcessInv, NEW w \in Workers, ReceiveFragment(w)
  PROVE  ProcessInv'
  <1>1. PICK r \in Runs, j \in DataPorts :
          /\ Op(w) = <<"store", r, j>>
          /\ Effect(w, (Left(w) \ {Op(w)}) \cup (IF j \in Needs(r) THEN {<<"count", r>>} ELSE {}))
    BY DataTypes, EffectReceive
  <1> DEFINE A == IF j \in Needs(r) THEN {<<"count", r>>} ELSE {}
  <1>2. Effect(w, (Left(w) \ {Op(w)}) \cup A) /\ \A x \in A : x[1] = "count"
    <2>1. \A x \in A : x[1] = "count"
      OBVIOUS
    <2> QED BY <1>1, <2>1
  <1> HIDE DEF A
  <1>3. /\ UNCHANGED <<sched, slots, flags, broadcast_inputs>> /\ status' = status
        /\ UNCHANGED <<global_initialized, thread_local_initialized, live,
                       broadcast_inputs, waiting_counters, given>>
    BY DEF ReceiveFragment, flags, sched
  <1>4. partitioned_pool' \in [Runs -> SUBSET Ports]
    <2>1. j \in Ports /\ partitioned_pool \in [Runs -> SUBSET Ports]
      BY DataTypes, ShapeFacts
    <2>2. partitioned_pool' = partitioned_pool
            \/ partitioned_pool' = [partitioned_pool EXCEPT ![r] = @ \cup {j}]
      BY <1>1 DEF ReceiveFragment
    <2> QED BY <2>1, <2>2
  <1>5. CountOK'
    BY CountReceive
  <1>6. Op(w)[1] = "store"
    BY <1>1
  <1>7. LiveOK' /\ GlobalOK' /\ InputOK'
    BY <1>2, <1>3, <1>6, CallsEffect
  <1>8. SpawnOK'
    BY <1>2, <1>3, <1>6, SpawnQuiet
  <1> QED BY <1>2, <1>3, <1>4, <1>5, <1>6, <1>7, <1>8, DataTypes, StepQuiet

LEMMA StepCount ==
  ASSUME ProcessInv, NEW w \in Workers, CountFragment(w)
  PROVE  ProcessInv'
  <1>1. PICK r \in Runs :
          /\ Op(w) = <<"count", r>>
          /\ Effect(w, (Left(w) \ {Op(w)})
                         \cup (IF waiting_counters[r] = 1 THEN SpawnOps(Run(r)) ELSE {}))
    BY DataTypes, EffectCount
  <1> DEFINE A == IF waiting_counters[r] = 1 THEN SpawnOps(Run(r)) ELSE {}
  <1>2. Effect(w, (Left(w) \ {Op(w)}) \cup A) /\ \A x \in A : x[1] \in {"create", "depend", "commit"}
    <2>1. \A x \in A : x[1] \in {"create", "depend", "commit"}
      BY DEF SpawnOps
    <2> QED BY <1>1, <2>1
  <1> HIDE DEF A
  <1>3. /\ UNCHANGED <<sched, slots, flags, broadcast_inputs>> /\ status' = status
        /\ UNCHANGED <<global_initialized, thread_local_initialized, live, broadcast_inputs>>
    BY DEF CountFragment, flags, sched
  <1>4. partitioned_pool' \in [Runs -> SUBSET Ports] /\ given' \in [Runs -> SUBSET Ports]
        /\ waiting_counters' = [waiting_counters EXCEPT ![r] = @ - 1]
    BY <1>1, DataTypes DEF CountFragment
  <1>5. CountOK' /\ SpawnOK'
    BY CountCount
  <1>6. waiting_counters' \in [Runs -> Nat]
    <2>1. waiting_counters' = [q \in Runs |-> waiting_counters'[q]] /\ shape' = shape
      BY <1>2, <1>4, DataTypes DEF Effect, Steady
    <2> QED BY <2>1, <1>5, DataTypes, WaitingType
  <1>7. Op(w)[1] = "count"
    BY <1>1
  <1>8. LiveOK' /\ GlobalOK' /\ InputOK'
    BY <1>2, <1>3, <1>7, CallsEffect
  <1> QED BY <1>2, <1>3, <1>4, <1>5, <1>6, <1>7, <1>8, DataTypes, StepQuiet

LEMMA StepSpawn ==
  ASSUME ProcessInv, NEW w \in Workers, SpawnRun(w) \/ CreateThreadLocalFinalizer(w),
         NEW A, Effect(w, (Left(w) \ {Op(w)}) \cup A),
         \A x \in A : x[1] \in {"create", "depend", "commit"},
         Op(w)[1] \in {"spawn", "finalizer"}
  PROVE  ProcessInv'
  <1>1. /\ UNCHANGED <<sched, slots, flags, data>> /\ status' = status
        /\ UNCHANGED <<global_initialized, thread_local_initialized, live, broadcast_inputs,
                       partitioned_pool, waiting_counters, given>>
    BY DEF SpawnRun, CreateThreadLocalFinalizer, flags, sched, data
  <1>2. CountOK' /\ SpawnOK'
    BY CountSpawn, CountFinalizer
  <1>3. LiveOK' /\ GlobalOK' /\ InputOK'
    BY <1>1, CallsEffect
  <1> QED BY <1>1, <1>2, <1>3, DataTypes, StepQuiet

LEMMA StepSpawnRun ==
  ASSUME ProcessInv, NEW w \in Workers, SpawnRun(w)
  PROVE  ProcessInv'
  <1>1. PICK r \in Runs : Op(w) = <<"spawn", r>> /\ Effect(w, (Left(w) \ {Op(w)}) \cup SpawnOps(Run(r)))
    BY DataTypes, EffectSpawn
  <1>2. \A x \in SpawnOps(Run(r)) : x[1] \in {"create", "depend", "commit"}
    BY DEF SpawnOps
  <1>3. Op(w)[1] = "spawn"
    BY <1>1
  <1> QED BY <1>1, <1>2, <1>3, StepSpawn

LEMMA StepSpawnFinalizer ==
  ASSUME ProcessInv, NEW w \in Workers, CreateThreadLocalFinalizer(w)
  PROVE  ProcessInv'
  <1>1. PICK v \in Workers :
          /\ Op(w) = <<"finalizer", v>>
          /\ Effect(w, (Left(w) \ {Op(w)}) \cup
               (IF v \in thread_local_initialized THEN SpawnOps(Finalizer(v)) ELSE {}))
    BY DataTypes, EffectFinalizer
  <1> DEFINE A == IF v \in thread_local_initialized THEN SpawnOps(Finalizer(v)) ELSE {}
  <1>2. Effect(w, (Left(w) \ {Op(w)}) \cup A) /\ \A x \in A : x[1] \in {"create", "depend", "commit"}
    <2>1. \A x \in A : x[1] \in {"create", "depend", "commit"}
      BY DEF SpawnOps
    <2> QED BY <1>1, <2>1
  <1> HIDE DEF A
  <1>3. Op(w)[1] = "finalizer"
    BY <1>1
  <1> QED BY <1>2, <1>3, StepSpawn

LEMMA StepInitialize ==
  ASSUME ProcessInv, NEW w \in Workers, GlobalInitialize(w)
  PROVE  ProcessInv'
  <1> DEFINE A == {<<"spawn", r>> : r \in {q \in Runs : Needs(q) = {}}} \cup {<<"complete">>}
  <1>1. Op(w) = <<"global_init">> /\ Effect(w, A) /\ Left(w) = {<<"global_init">>, <<"complete">>}
    BY DataTypes, EffectInitialize
  <1>2. Effect(w, (Left(w) \ {Op(w)}) \cup A) /\ \A x \in A : x[1] \in {"spawn", "complete"}
    <2>1. (Left(w) \ {Op(w)}) \cup A = A
      BY <1>1
    <2>2. \A x \in A : x[1] \in {"spawn", "complete"}
      OBVIOUS
    <2> HIDE DEF A
    <2> QED BY <1>1, <2>1, <2>2
  <1> HIDE DEF A
  <1>3. /\ UNCHANGED <<sched, slots>>
        /\ UNCHANGED <<thread_local_initialized, broadcast_inputs, partitioned_pool, waiting_counters, given>>
        /\ global_initialized' \in BOOLEAN /\ live' \subseteq Actors
    BY DataTypes, Constants DEF GlobalInitialize, data
  <1>4. CountOK' /\ SpawnOK'
    BY CountInitialize
  <1>5. LiveOK' /\ GlobalOK' /\ InputOK'
    BY CallsInitialize
  <1>6. Op(w)[1] = "global_init"
    BY <1>1
  <1> QED BY <1>2, <1>3, <1>4, <1>5, <1>6, DataTypes, StepQuiet

LEMMA StepThreadLocal ==
  ASSUME ProcessInv, NEW w \in Workers, ThreadLocalInitialize(w)
  PROVE  ProcessInv'
  <1> DEFINE A == {}
  <1>1. /\ Effect(w, (Left(w) \ {Op(w)}) \cup A) /\ \A x \in A : x[1] = "count"
        /\ Op(w)[1] = "tl_init"
    BY DataTypes, PopActions, AtFacts DEF ThreadLocalInitialize
  <1> HIDE DEF A
  <1>2. /\ UNCHANGED <<sched, slots>>
        /\ UNCHANGED <<global_initialized, broadcast_inputs, partitioned_pool, waiting_counters, given>>
        /\ thread_local_initialized' \subseteq Workers /\ live' \subseteq Actors
    BY DataTypes, Constants DEF ThreadLocalInitialize, data
  <1>3. CountOK'
    BY CountThreadLocal
  <1>4. LiveOK' /\ GlobalOK' /\ InputOK'
    BY CallsThreadLocal
  <1>5. SpawnOK'
    BY <1>1, <1>2, SpawnQuiet
  <1> QED BY <1>1, <1>2, <1>3, <1>4, <1>5, DataTypes, StepQuiet

LEMMA StepFinalize ==
  ASSUME ProcessInv, NEW w \in Workers, ThreadLocalFinalize(w)
  PROVE  ProcessInv'
  <1> DEFINE A == IF w \in thread_local_initialized THEN {<<"user_tl_finalize">>} ELSE {}
  <1>1. Op(w) = <<"tl_finalize">> /\ Effect(w, (Left(w) \ {Op(w)}) \cup A)
    BY DataTypes, EffectFinalize
  <1>2. \A x \in A : x[1] = "user_tl_finalize"
    OBVIOUS
  <1> HIDE DEF A
  <1>3. /\ UNCHANGED <<sched, slots>> /\ status' = status
        /\ UNCHANGED <<live, global_initialized, broadcast_inputs, partitioned_pool, waiting_counters, given>>
        /\ thread_local_initialized' \subseteq thread_local_initialized
    BY DEF ThreadLocalFinalize, data, sched
  <1>4. Op(w)[1] = "tl_finalize"
    BY <1>1
  <1>5. CountOK'
    <2>1. /\ Keeps("store") /\ Keeps("count") /\ Keeps("spawn") /\ Keeps("finalizer")
          /\ Keeps("global_init") /\ Keeps("create")
      BY <1>1, <1>2, <1>4, KeepsPush
    <2>2. ScriptOK' /\ shape' = shape /\ pc' = pc /\ task' = task
      BY <1>1 DEF Effect, Steady
    <2>3. \A v \in Workers : \A t : Runner(v, t)' <=> Runner(v, t)
      BY <2>2 DEF Runner
    <2> QED BY <2>1, <2>2, <2>3, <1>3, CountQuiet
  <1>6. LiveOK' /\ GlobalOK' /\ InputOK'
    BY CallsFinalize
  <1>7. SpawnOK'
    BY <1>1, <1>2, <1>3, <1>4, SpawnQuiet
  <1>8. thread_local_initialized' \subseteq Workers
    BY <1>3, DataTypes
  <1> QED BY <1>1, <1>2, <1>3, <1>4, <1>5, <1>6, <1>7, <1>8, DataTypes, StepQuiet

LEMMA StepFinalized ==
  ASSUME ProcessInv, NEW w \in Workers, ThreadLocalFinalized(w) \/ GlobalFinalized(w)
  PROVE  ProcessInv'
  <1> DEFINE A == {}
  <1>1. /\ Effect(w, (Left(w) \ {Op(w)}) \cup A) /\ \A x \in A : x[1] = "count"
        /\ Effect(w, Left(w) \ {Op(w)})
        /\ Op(w)[1] \in {"user_tl_finalize", "user_global_finalize"}
    BY DataTypes, PopActions, AtFacts DEF ThreadLocalFinalized, GlobalFinalized
  <1> HIDE DEF A
  <1>2. /\ UNCHANGED <<sched, slots>> /\ status' = status
        /\ UNCHANGED <<global_initialized, thread_local_initialized, partitioned_pool, waiting_counters, given>>
        /\ broadcast_inputs' \subseteq shape.broadcasts /\ live' \subseteq Actors
    BY DataTypes DEF ThreadLocalFinalized, GlobalFinalized, data, sched
  <1>3. CountOK'
    BY <1>1, <1>2, CountPop
  <1>4. LiveOK' /\ GlobalOK' /\ InputOK'
    BY CallsFinalize, CallsGlobalDone
  <1>5. SpawnOK'
    BY <1>1, <1>2, SpawnQuiet
  <1> QED BY <1>1, <1>2, <1>3, <1>4, <1>5, DataTypes, StepQuiet

LEMMA StepGlobal ==
  ASSUME ProcessInv, NEW w \in Workers, GlobalFinalize(w)
  PROVE  ProcessInv'
  <1> DEFINE A == {<<"complete">>} \cup
                  (IF global_initialized THEN {<<"user_global_finalize">>} ELSE {})
  <1>1. /\ Op(w) = <<"global_finalize">> /\ Left(w) = {<<"global_finalize">>, <<"complete">>}
        /\ Effect(w, A)
    BY DataTypes, EffectGlobal
  <1>2. \A x \in A : x[1] \in {"complete", "user_global_finalize"}
    OBVIOUS
  <1>3. (Left(w) \ {Op(w)}) \cup A = A
    BY <1>1
  <1> HIDE DEF A
  <1>4. /\ UNCHANGED <<sched, slots>> /\ status' = status
        /\ UNCHANGED <<live, thread_local_initialized, broadcast_inputs, partitioned_pool,
                       waiting_counters, given>>
        /\ global_initialized' \in BOOLEAN
    BY DEF GlobalFinalize, data, sched
  <1>5. Effect(w, (Left(w) \ {Op(w)}) \cup A) /\ Op(w)[1] = "global_finalize"
    BY <1>1, <1>3
  <1>6. CountOK'
    <2>1. /\ Keeps("store") /\ Keeps("count") /\ Keeps("spawn") /\ Keeps("finalizer")
          /\ Keeps("global_init") /\ Keeps("create")
      BY <1>2, <1>5, KeepsPush
    <2>2. ScriptOK' /\ shape' = shape /\ pc' = pc /\ task' = task
      BY <1>1 DEF Effect, Steady
    <2>3. \A v \in Workers : \A t : Runner(v, t)' <=> Runner(v, t)
      BY <2>2 DEF Runner
    <2> QED BY <2>1, <2>2, <2>3, <1>4, CountQuiet
  <1>7. LiveOK' /\ GlobalOK' /\ InputOK'
    BY CallsGlobal
  <1>8. SpawnOK'
    BY <1>2, <1>4, <1>5, SpawnQuiet
  <1> QED BY <1>2, <1>4, <1>5, <1>6, <1>7, <1>8, DataTypes, StepQuiet

LEMMA StepCreate ==
  ASSUME ProcessInv, NEW w \in Workers, Create(w)
  PROVE  ProcessInv'
  <1>1. /\ ProcessTypeOK /\ ScriptOK /\ OwnOK /\ SlotsOK /\ shape \in Shapes
        /\ status \in [Tasks -> {"none", "created", "committed", "running", "done"}]
    BY DEF ProcessInv, ProcessTypeOK
  <1>2. PICK c \in Commands :
          /\ Op(w) = <<"create", c>> /\ status[c] = "none" /\ status' = [status EXCEPT ![c] = "created"]
          /\ preds' = preds /\ UNCHANGED <<slots, flags, data, setup>>
          /\ Effect(w, Left(w) \ {<<"create", c>>})
    BY <1>1, CreateFacts
  <1> DEFINE A == {}
  <1>3. /\ Effect(w, (Left(w) \ {Op(w)}) \cup A) /\ \A x \in A : x[1] = "count"
        /\ Effect(w, Left(w) \ {Op(w)}) /\ Op(w)[1] = "create"
    BY <1>2
  <1> HIDE DEF A
  <1>4. c \in Tasks
    BY Names
  <1>5. /\ status'[c] = "created" /\ (\A t \in Tasks \ {c} : status'[t] = status[t])
        /\ status' \in [Tasks -> {"none", "created", "committed", "running", "done"}]
    BY <1>1, <1>2, <1>4
  <1>6. \A t \in Tasks : /\ status'[t] = "done" <=> status[t] = "done"
                         /\ status'[t] = "running" <=> status[t] = "running"
                         /\ status'[t] = "committed" <=> status[t] = "committed"
    BY <1>2, <1>5
  <1>7. /\ UNCHANGED <<remaining, task_queue, global_initialized, thread_local_initialized, live,
                       broadcast_inputs, partitioned_pool, waiting_counters, given>>
        /\ UNCHANGED <<flags, broadcast_inputs>>
    BY <1>2 DEF slots, flags, data
  <1>8. /\ pc' = pc /\ task' = task /\ shape' = shape /\ limit' = limit /\ cancelled' = cancelled
        /\ script' \in [Actors -> Seq(Ops)] /\ ScriptOK' /\ Steady
    BY <1>3 DEF Effect, Steady
  <1>9. ProcessTypeOK'
    BY <1>1, <1>2, <1>5, <1>7, <1>8 DEF ProcessTypeOK
  <1>10. \A v \in Workers : task[v] \in Tasks
    BY <1>1, Constants DEF ProcessTypeOK
  <1>11. OwnOK'
    BY <1>1, <1>6, <1>8, <1>10, OwnQuiet
  <1>12. SlotsOK'
    <2>1. Keeps("notify")
      BY <1>3, KeepsPop
    <2> QED BY <2>1, <1>1, <1>6, <1>7, <1>8, Names, SlotsQuiet
  <1>13. LiveOK' /\ GlobalOK' /\ InputOK'
    BY <1>3, <1>6, <1>7, CallsEffect
  <1> QED BY <1>8, <1>9, <1>11, <1>12, <1>13, GraphCreate, SpawnCreate, CountCreate DEF ProcessInv

LEMMA StepDepend ==
  ASSUME ProcessInv, NEW w \in Workers, Depend(w)
  PROVE  ProcessInv'
  <1>1. /\ ProcessTypeOK /\ ScriptOK /\ OwnOK /\ SlotsOK /\ SpawnOK /\ shape \in Shapes
        /\ preds \in [Tasks -> SUBSET Tasks] /\ task_queue \in Seq(Commands)
    BY DEF ProcessInv, ProcessTypeOK
  <1>2. PICK c \in Commands :
          /\ status' = status /\ UNCHANGED <<slots, flags, data, setup>>
          /\ \/ preds' = preds
             \/ preds' = [preds EXCEPT ![c] = @ \cup {Entry}]
             \/ preds' = [preds EXCEPT ![Barrier] = @ \cup {c}]
             \/ preds' = [preds EXCEPT ![Terminal] = @ \cup {c}]
    BY <1>1, DependFacts
  <1> DEFINE A == {}
  <1>3. /\ Effect(w, (Left(w) \ {Op(w)}) \cup A) /\ \A x \in A : x[1] = "count"
        /\ Effect(w, Left(w) \ {Op(w)}) /\ Op(w)[1] = "depend"
    BY <1>1, PopActions, AtFacts DEF Depend
  <1> HIDE DEF A
  <1>4. preds' \in [Tasks -> SUBSET Tasks]
    <2>1. {c, Entry, Barrier, Terminal} \subseteq Tasks
      BY Names
    <2> QED BY <2>1, <1>1, <1>2
  <1>5. /\ UNCHANGED <<remaining, task_queue, global_initialized, thread_local_initialized, live,
                       broadcast_inputs, partitioned_pool, waiting_counters, given>>
        /\ UNCHANGED <<flags, broadcast_inputs>>
    BY <1>2 DEF slots, flags, data
  <1>6. /\ pc' = pc /\ task' = task /\ shape' = shape /\ limit' = limit /\ cancelled' = cancelled
        /\ script' \in [Actors -> Seq(Ops)] /\ ScriptOK' /\ Steady
    BY <1>3 DEF Effect, Steady
  <1>7. ProcessTypeOK'
    BY <1>1, <1>2, <1>4, <1>5, <1>6 DEF ProcessTypeOK
  <1>8. \A v \in Workers : task[v] \in Tasks
    BY <1>1, Constants DEF ProcessTypeOK
  <1>9. OwnOK'
    BY <1>1, <1>2, <1>6, <1>8, OwnQuiet
  <1>10. Keeps("notify") /\ Keeps("create") /\ Keeps("commit")
    BY <1>3, KeepsPop
  <1>11. SlotsOK'
    BY <1>10, <1>1, <1>2, <1>5, <1>6, SlotsQuiet
  <1>12. SpawnOK'
    BY <1>10, <1>1, <1>2, <1>5, SpawnKept
  <1>13. CountOK'
    BY <1>2, <1>3, <1>5, CountPop
  <1>14. LiveOK' /\ GlobalOK' /\ InputOK'
    BY <1>2, <1>3, <1>5, CallsEffect
  <1> QED BY <1>6, <1>7, <1>9, <1>11, <1>12, <1>13, <1>14, GraphDepend DEF ProcessInv

\* What a step of the slots does to the rest.
LEMMA StepSlots ==
  ASSUME ProcessInv, NEW w \in Workers, Effect(w, Left(w) \ {Op(w)}),
         Op(w)[1] \in {"commit", "notify"}, preds' = preds, UNCHANGED <<flags, data, setup>>,
         status' \in [Tasks -> {"none", "created", "committed", "running", "done"}],
         \A t \in Tasks : status'[t] = status[t] \/ (status[t] = "created" /\ status'[t] = "committed"),
         remaining' \in Nat, task_queue' \in Seq(Commands), SpawnOK', SlotsOK'
  PROVE  ProcessInv'
  <1>1. /\ ProcessTypeOK /\ ScriptOK /\ OwnOK /\ GraphOK /\ shape \in Shapes
        /\ preds \in [Tasks -> SUBSET Tasks]
        /\ status \in [Tasks -> {"none", "created", "committed", "running", "done"}]
    BY DEF ProcessInv, ProcessTypeOK
  <1> DEFINE A == {}
  <1>2. Effect(w, (Left(w) \ {Op(w)}) \cup A) /\ \A x \in A : x[1] = "count"
    OBVIOUS
  <1> HIDE DEF A
  <1>3. /\ UNCHANGED <<global_initialized, thread_local_initialized, live,
                       broadcast_inputs, partitioned_pool, waiting_counters, given>>
        /\ UNCHANGED <<flags, broadcast_inputs>>
    BY DEF flags, data
  <1>4. /\ pc' = pc /\ task' = task /\ shape' = shape /\ limit' = limit /\ cancelled' = cancelled
        /\ script' \in [Actors -> Seq(Ops)] /\ ScriptOK'
        /\ Left(w)' = Left(w) \ {Op(w)} /\ \A v \in Workers \ {w} : Left(v)' = Left(v)
    BY Constants DEF Effect, Steady
  <1>5. ProcessTypeOK'
    BY <1>1, <1>3, <1>4 DEF ProcessTypeOK
  <1>6. \A v \in Workers : task[v] \in Tasks
    BY <1>1, Constants DEF ProcessTypeOK
  <1>7. \A t \in Tasks : /\ status'[t] = "done" <=> status[t] = "done"
                         /\ status'[t] = "running" <=> status[t] = "running"
                         /\ status'[t] = "none" <=> status[t] = "none"
    OBVIOUS
  <1>8. OwnOK'
    BY <1>1, <1>4, <1>6, <1>7, OwnQuiet
  <1>9. GraphOK'
    <2>1. \A v \in Workers : \A x \in Left(v) : x[1] = "depend" => x \in Left(v)'
      BY <1>4
    <2>2. \A t \in Tasks : Started(t)' => Started(t)
      BY <1>7 DEF Started
    <2>3. \A t \in Tasks : status[t] \in {"committed", "running", "done"} =>
                             status'[t] \in {"committed", "running", "done"}
      OBVIOUS
    <2> QED BY <2>1, <2>2, <2>3, <1>1, <1>4, <1>7, GraphKept
  <1>10. CountOK'
    BY <1>3, <1>7, CountPop
  <1>11. LiveOK' /\ GlobalOK' /\ InputOK'
    BY <1>2, <1>3, <1>7, CallsEffect
  <1> QED BY <1>4, <1>5, <1>8, <1>9, <1>10, <1>11 DEF ProcessInv

LEMMA StepCommit ==
  ASSUME ProcessInv, NEW w \in Workers, CommitProcessCommand(w)
  PROVE  ProcessInv'
  <1>1. /\ ProcessTypeOK /\ ScriptOK /\ SpawnOK /\ remaining \in Nat
        /\ status \in [Tasks -> {"none", "created", "committed", "running", "done"}]
    BY DEF ProcessInv, ProcessTypeOK
  <1>2. PICK c \in Commands :
          /\ Op(w) = <<"commit", c>> /\ status[c] = "created" /\ preds' = preds
          /\ \/ /\ remaining = 0 /\ remaining' = 0 /\ task_queue' = Append(task_queue, c)
                /\ status' = status
             \/ /\ remaining # 0 /\ remaining' = remaining - 1 /\ task_queue' = task_queue
                /\ status' = [status EXCEPT ![c] = "committed"]
          /\ UNCHANGED <<flags, data, setup>>
          /\ Effect(w, Left(w) \ {<<"commit", c>>})
    BY <1>1, CommitFacts
  <1>3. c \in Tasks
    BY Names
  <1>4. Effect(w, Left(w) \ {Op(w)}) /\ Op(w)[1] = "commit"
    BY <1>2
  <1>5. /\ status' \in [Tasks -> {"none", "created", "committed", "running", "done"}]
        /\ \A t \in Tasks : status'[t] = status[t] \/ (status[t] = "created" /\ status'[t] = "committed")
    BY <1>1, <1>2, <1>3
  <1>6. remaining' \in Nat
    BY <1>1, <1>2
  <1>7. task_queue' \in Seq(Commands)
    <2>1. task_queue \in Seq(Commands)
      BY <1>1 DEF ProcessTypeOK
    <2> QED BY <2>1, <1>2
  <1> QED BY <1>2, <1>4, <1>5, <1>6, <1>7, SpawnCommit, SlotsCommit, StepSlots

LEMMA StepNotify ==
  ASSUME ProcessInv, NEW w \in Workers, NotifyCompletion(w)
  PROVE  ProcessInv'
  <1>1. /\ ProcessTypeOK /\ ScriptOK /\ SpawnOK /\ remaining \in Nat
        /\ status \in [Tasks -> {"none", "created", "committed", "running", "done"}]
    BY DEF ProcessInv, ProcessTypeOK
  <1>2. PICK n \in 0 .. Len(task_queue) :
          /\ Op(w) = <<"notify">> /\ Left(w) = {<<"notify">>, <<"complete">>}
          /\ n <= remaining + 1
          /\ remaining' = remaining + 1 - n
          /\ status' = [t \in Tasks |-> IF \E i \in 1 .. n : task_queue[i] = t
                                          THEN "committed" ELSE status[t]]
          /\ \A i \in 1 .. n : status[task_queue[i]] = "created"
          /\ task_queue' = SubSeq(task_queue, n + 1, Len(task_queue))
          /\ preds' = preds /\ UNCHANGED <<flags, data, setup>>
          /\ Effect(w, {<<"complete">>})
    BY <1>1, NotifyFacts
  <1>3. Effect(w, Left(w) \ {Op(w)}) /\ Op(w)[1] = "notify"
    <2> DEFINE B == {<<"complete">>}
    <2>1. Left(w) \ {Op(w)} = B /\ Effect(w, B) /\ Op(w)[1] = "notify"
      BY <1>2
    <2> HIDE DEF B
    <2> QED BY <2>1
  <1>4. /\ status' \in [Tasks -> {"none", "created", "committed", "running", "done"}]
        /\ \A t \in Tasks : status'[t] = status[t] \/ (status[t] = "created" /\ status'[t] = "committed")
    BY <1>1, <1>2
  <1>5. remaining' \in Nat
    <2>1. n \in Nat
      <3>1. task_queue \in Seq(Commands)
        BY <1>1 DEF ProcessTypeOK
      <3>2. Len(task_queue) \in Nat
        BY <3>1
      <3> QED BY <3>2
    <2> QED BY <2>1, <1>1, <1>2
  <1>6. task_queue' \in Seq(Commands)
    BY <1>1, <1>2, QueueRest
  <1> QED BY <1>2, <1>3, <1>4, <1>5, <1>6, SpawnNotify, SlotsNotify, StepSlots

LEMMA StepComplete ==
  ASSUME ProcessInv, NEW w \in Workers, Complete(w)
  PROVE  ProcessInv'
  <1>1. /\ ProcessTypeOK /\ ScriptOK /\ OwnOK /\ GraphOK /\ SpawnOK /\ shape \in Shapes
        /\ preds \in [Tasks -> SUBSET Tasks] /\ task \in [Actors -> Tasks] /\ w \in Actors
        /\ task_queue \in Seq(Commands)
        /\ status \in [Tasks -> {"none", "created", "committed", "running", "done"}]
    BY Constants DEF ProcessInv, ProcessTypeOK
  <1>2. Left(w) = {<<"complete">>} /\ Moves(w, "loop", <<>>)
    BY <1>1, EffectComplete
  <1>3. PICK t \in Tasks : t = task[w]
    BY <1>1
  <1>4. /\ OwnOK' /\ status[t] = "running" /\ status' = [status EXCEPT ![t] = "done"] /\ preds' = preds
    BY <1>3, OwnComplete
  <1>5. /\ UNCHANGED <<remaining, task_queue, global_initialized, thread_local_initialized, live,
                       broadcast_inputs, partitioned_pool, waiting_counters, given>>
        /\ task' = task /\ shape' = shape /\ limit' = limit /\ cancelled' = cancelled
    BY DEF Complete, slots, flags, data, setup
  <1>6. /\ status'[t] = "done" /\ (\A s \in Tasks \ {t} : status'[s] = status[s])
        /\ status' \in [Tasks -> {"none", "created", "committed", "running", "done"}]
    BY <1>1, <1>4
  <1>7. /\ script' \in [Actors -> Seq(Ops)] /\ pc' \in [Actors -> Places] /\ ScriptOK' /\ Left(w)' = {}
        /\ \A v \in Workers \ {w} : Left(v)' = Left(v)
    BY <1>2, Constants, Literals DEF Moves
  <1>8. ProcessTypeOK'
    BY <1>1, <1>4, <1>5, <1>6, <1>7 DEF ProcessTypeOK
  <1>9. GraphOK'
    <2>1. \A v \in Workers : \A x \in Left(v) : x[1] = "depend" => x \in Left(v)'
      BY <1>2, <1>7
    <2>2. \A s \in Tasks : Started(s)' => Started(s)
      BY <1>4, <1>6 DEF Started
    <2>3. \A s \in Tasks :
            /\ status'[s] = "none" <=> status[s] = "none"
            /\ status[s] = "done" => status'[s] = "done"
            /\ status[s] \in {"committed", "running", "done"} => status'[s] \in {"committed", "running", "done"}
      BY <1>4, <1>6
    <2> QED BY <2>1, <2>2, <2>3, <1>1, <1>4, <1>5, <1>7, GraphKept
  <1>10. SpawnOK'
    <2>1. Keeps("create") /\ Keeps("commit")
      BY <1>2, <1>7 DEF Keeps
    <2>2. \A c \in Commands : /\ status'[c] = "none" <=> status[c] = "none"
                              /\ status'[c] = "created" <=> status[c] = "created"
      BY <1>4, <1>6, Names
    <2> QED BY <2>1, <2>2, <1>1, <1>5, SpawnKept
  <1> QED BY <1>4, <1>7, <1>8, <1>9, <1>10, CountComplete, SlotsComplete, CallsComplete DEF ProcessInv

LEMMA StepTake ==
  ASSUME ProcessInv, NEW w \in Workers, TakeTask(w)
  PROVE  ProcessInv'
  <1>1. /\ ProcessTypeOK /\ ScriptOK /\ OwnOK /\ GraphOK /\ SpawnOK /\ shape \in Shapes
        /\ preds \in [Tasks -> SUBSET Tasks] /\ task \in [Actors -> Tasks] /\ w \in Actors
        /\ task_queue \in Seq(Commands)
        /\ status \in [Tasks -> {"none", "created", "committed", "running", "done"}]
    BY Constants DEF ProcessInv, ProcessTypeOK
  <1>2. PICK t \in Initial \cup Commands :
           /\ Left(w) = {}
           /\ status[t] = "committed" /\ status' = [status EXCEPT ![t] = "running"]
           /\ \A p \in preds[t] : status[p] = "done"
           /\ task' = [task EXCEPT ![w] = t]
           /\ preds' = preds /\ shape' = shape /\ cancelled' = cancelled
           /\ Moves(w, "run", Body(t)) /\ Fresh(t, Left(w)')
    BY <1>1, EffectTake
  <1>3. t \in Tasks
    BY <1>1, Names, ShapeFacts DEF Initial
  <1>4. /\ UNCHANGED <<remaining, task_queue, global_initialized, thread_local_initialized, live,
                       broadcast_inputs, partitioned_pool, waiting_counters, given>>
        /\ limit' = limit
    BY DEF TakeTask, slots, flags, data, setup
  <1>5. /\ status'[t] = "running" /\ (\A s \in Tasks \ {t} : status'[s] = status[s])
        /\ status' \in [Tasks -> {"none", "created", "committed", "running", "done"}]
        /\ task' \in [Actors -> Tasks]
    BY <1>1, <1>2, <1>3
  <1>6. /\ script' \in [Actors -> Seq(Ops)] /\ pc' \in [Actors -> Places] /\ ScriptOK'
        /\ \A v \in Workers \ {w} : Left(v)' = Left(v)
    BY <1>2, Constants DEF Moves
  <1>7. ProcessTypeOK'
    BY <1>1, <1>2, <1>4, <1>5, <1>6 DEF ProcessTypeOK
  <1>8. GraphOK'
    <2>1. \A v \in Workers : \A x \in Left(v) : x[1] = "depend" => x \in Left(v)'
      BY <1>2, <1>6
    <2>2. \A s \in Tasks : Started(s)' => Started(s) \/ \A p \in preds[s] : status[p] = "done"
      BY <1>2, <1>5 DEF Started
    <2>3. \A s \in Tasks :
            /\ status'[s] = "none" <=> status[s] = "none"
            /\ status[s] = "done" => status'[s] = "done"
            /\ status[s] \in {"committed", "running", "done"} => status'[s] \in {"committed", "running", "done"}
      BY <1>2, <1>5
    <2> QED BY <2>1, <2>2, <2>3, <1>1, <1>2, <1>6, GraphKept
  <1>9. SpawnOK'
    <2>1. \A x \in Left(w)' : x[1] \notin {"create", "commit"}
      BY <1>2 DEF Fresh
    <2>2. Keeps("create") /\ Keeps("commit")
      BY <2>1, <1>2, <1>6 DEF Keeps
    <2>3. \A c \in Commands : /\ status'[c] = "none" <=> status[c] = "none"
                              /\ status'[c] = "created" <=> status[c] = "created"
      BY <1>2, <1>5, Names
    <2> QED BY <2>2, <2>3, <1>1, <1>4, SpawnKept
  <1> QED BY <1>6, <1>7, <1>8, <1>9, OwnTake, CountTake, SlotsTake, CallsTake DEF ProcessInv

\* What the steps outside the scripts do to the graph.
LEMMA StepMove ==
  ASSUME ProcessInv, NEW a, NEW p, NEW s, Moves(a, p, s), UNCHANGED <<sched, slots, setup, data>>,
         task' = task, cancelled' \in BOOLEAN, live' \subseteq live, global_initialized' \in BOOLEAN,
         thread_local_initialized' = thread_local_initialized,
         \/ a = Main
         \/ a \in Workers /\ \A x \in Left(a) \cup Left(a)' : x[1] \notin {"create", "depend", "commit"},
         OwnOK', CountOK', SlotsOK', LiveOK' /\ GlobalOK' /\ InputOK'
  PROVE  ProcessInv'
  <1>1. /\ ProcessTypeOK /\ ScriptOK /\ GraphOK /\ SpawnOK /\ shape \in Shapes
        /\ preds \in [Tasks -> SUBSET Tasks] /\ task_queue \in Seq(Commands)
    BY DEF ProcessInv, ProcessTypeOK
  <1>2. /\ UNCHANGED <<status, preds, remaining, task_queue, shape, limit,
                       broadcast_inputs, partitioned_pool, waiting_counters, given>>
    BY DEF sched, slots, setup, data
  <1>3. /\ script' \in [Actors -> Seq(Ops)] /\ pc' \in [Actors -> Places] /\ ScriptOK'
        /\ \A v \in Actors \ {a} : Left(v)' = Left(v)
    BY DEF Moves
  <1>4. ProcessTypeOK'
    BY <1>1, <1>2, <1>3 DEF ProcessTypeOK
  <1>5. Keeps("create") /\ Keeps("commit") /\ Keeps("depend")
    BY <1>3, Constants DEF Keeps
  <1>6. GraphOK'
    <2>1. \A v \in Workers : \A x \in Left(v) : x[1] = "depend" => x \in Left(v)'
      BY <1>5 DEF Keeps
    <2>2. \A t \in Tasks : Started(t)' => Started(t)
      BY <1>2 DEF Started
    <2> QED BY <2>1, <2>2, <1>1, <1>2, <1>3, GraphKept
  <1>7. SpawnOK'
    BY <1>1, <1>2, <1>5, SpawnKept
  <1> QED BY <1>3, <1>4, <1>6, <1>7 DEF ProcessInv

LEMMA StepIdle ==
  ASSUME ProcessInv, NEW w \in Workers, Loop(w) \/ TakeNothing(w) \/ Exit(w) \/ Leave(w)
  PROVE  ProcessInv'
  <1>1. ProcessTypeOK /\ ScriptOK /\ GraphOK
    BY DEF ProcessInv
  <1>2. /\ Left(w) = {} /\ pc[w] # "run"
        /\ Loop(w) => Moves(w, IF cancelled \/ IsFinished THEN "left" ELSE "take", <<>>)
        /\ TakeNothing(w) => Moves(w, "loop", <<>>)
        /\ Exit(w) => Moves(w, "exit", <<>>)
        /\ Leave(w) => Moves(w, "leave", IF cancelled THEN <<<<"tl_finalize">>>> ELSE <<>>)
        /\ task' = task /\ shape' = shape /\ cancelled' = cancelled
    BY <1>1, EffectIdle DEF Loop, TakeNothing, Exit, Leave
  <1>3. IsFinished => status[Terminal] = "done"
    <2>1. Terminal \in Tasks /\ Terminal \in Initial
      BY Names DEF Initial
    <2>2. status[Terminal] \in {"committed", "running", "done"}
      BY <2>1, <1>1 DEF GraphOK
    <2> QED BY <2>1, <2>2 DEF IsFinished
  <1>4. PICK p \in Places : \E s :
          /\ Moves(w, p, s)
          /\ \A x \in Elements(s) : x[1] = "tl_finalize"
          /\ \/ pc[w] = "loop" /\ p = "take"
             \/ pc[w] = "loop" /\ p = "left" /\ (cancelled \/ status[Terminal] = "done")
             \/ pc[w] = "take" /\ p = "loop"
             \/ pc[w] = "left" /\ p = "leave"
             \/ pc[w] = "leave" /\ p = "exit"
    <2> DEFINE q == IF cancelled \/ IsFinished THEN "left" ELSE "take"
               s == IF cancelled THEN <<<<"tl_finalize">>>> ELSE <<>>
    <2>1. (\A x \in Elements(<<>>) : x[1] = "tl_finalize") /\ \A x \in Elements(s) : x[1] = "tl_finalize"
      BY Literals
    <2>2. CASE Loop(w)
      <3>1. Moves(w, q, <<>>)
        BY <2>2, <1>2
      <3>2. pc[w] = "loop"
        BY <2>2 DEF Loop
      <3>3. q \in Places /\ (q = "take" \/ (q = "left" /\ (cancelled \/ status[Terminal] = "done")))
        BY <1>3 DEF Places
      <3> HIDE DEF q
      <3> QED BY <3>1, <3>2, <3>3, <2>1
    <2>3. CASE TakeNothing(w)
      BY <2>1, <2>3, <1>2 DEF TakeNothing, Places
    <2>4. CASE Exit(w)
      BY <2>1, <2>4, <1>2 DEF Exit, Places
    <2>5. CASE Leave(w)
      <3>1. Moves(w, "leave", s) /\ pc[w] = "left" /\ "leave" \in Places
        BY <2>5, <1>2 DEF Leave, Places
      <3> HIDE DEF s
      <3> QED BY <3>1, <2>1
    <2> QED BY <2>2, <2>3, <2>4, <2>5
  <1>5. PICK s : Moves(w, p, s) /\ \A x \in Elements(s) : x[1] = "tl_finalize"
    BY <1>4
  <1>6. /\ UNCHANGED <<sched, slots, setup, data>> /\ status' = status
        /\ UNCHANGED <<live, global_initialized, thread_local_initialized,
                       waiting_counters, given, partitioned_pool>>
    BY DEF Loop, TakeNothing, Exit, Leave, flags, sched, data
  <1>7. pc' = [pc EXCEPT ![w] = p] /\ \A x \in Left(w)' : x[1] = "tl_finalize"
    BY <1>5 DEF Moves
  <1>8. OwnOK'
    BY <1>2, <1>4, <1>6, <1>7, OwnMove
  <1>9. CountOK'
    BY <1>2, <1>4, <1>5, <1>6, <1>7, CountIdle
  <1>10. SlotsOK'
    BY SlotsMove
  <1>11. LiveOK' /\ GlobalOK' /\ InputOK'
    BY CallsIdle, CallsLeave
  <1>12. /\ global_initialized' \in BOOLEAN /\ cancelled' \in BOOLEAN /\ live' \subseteq live
         /\ \A x \in Left(w) \cup Left(w)' : x[1] \notin {"create", "depend", "commit"}
    BY <1>1, <1>2, <1>6, <1>7 DEF ProcessTypeOK
  <1> QED BY <1>2, <1>5, <1>6, <1>8, <1>9, <1>10, <1>11, <1>12, StepMove

\* ... one that throws, ...
LEMMA StepThrow ==
  ASSUME ProcessInv, NEW w \in Workers, Throw(w)
  PROVE  ProcessInv'
  <1>1. ProcessTypeOK /\ ScriptOK
    BY DEF ProcessInv
  <1>2. /\ task' = task /\ shape' = shape /\ cancelled' = TRUE
        /\ \/ /\ pc[w] = "run" /\ Op(w) \in Left(w) /\ Moves(w, "leave", <<<<"tl_finalize">>>>)
              /\ Left(w)' = {<<"tl_finalize">>}
              /\ Heads(task[w], Op(w), Left(w))
              /\ Op(w) \in {<<"foreign">>, <<"global_init">>, <<"run">>, <<"tl_init">>,
                            <<"user_tl_finalize">>, <<"user_global_finalize">>}
           \/ /\ pc[w] = "leave" /\ Op(w) = <<"user_tl_finalize">> /\ Left(w) = {Op(w)}
              /\ Moves(w, "leave", <<>>) /\ Left(w)' = {}
        /\ live' = live \ (IF Op(w) = <<"user_tl_finalize">> THEN {w}
                           ELSE IF Op(w) = <<"user_global_finalize">> THEN {Main} ELSE {})
    BY <1>1, EffectThrow
  <1>3. \E s : Moves(w, "leave", s)
    BY <1>2
  <1>4. PICK s : Moves(w, "leave", s)
    BY <1>3
  <1>5. \A x \in Left(w) : x[1] \notin {"create", "depend", "commit"}
    <2>1. CASE pc[w] = "run"
      <3>1. StraightHeads(task[w], Op(w), Left(w))
        BY <2>1, <1>2 DEF Heads
      <3>2. CASE Op(w) = <<"foreign">>
        BY <3>1, <3>2 DEF StraightHeads
      <3>3. CASE Op(w) = <<"global_init">>
        BY <3>1, <3>3 DEF StraightHeads
      <3>4. CASE Op(w) = <<"run">>
        BY <3>1, <3>4 DEF StraightHeads
      <3>5. CASE Op(w) = <<"tl_init">>
        BY <3>1, <3>5 DEF StraightHeads
      <3>6. CASE Op(w) = <<"user_tl_finalize">>
        BY <3>1, <3>6 DEF StraightHeads
      <3>7. CASE Op(w) = <<"user_global_finalize">>
        BY <3>1, <3>7 DEF StraightHeads
      <3> QED BY <3>2, <3>3, <3>4, <3>5, <3>6, <3>7, <2>1, <1>2
    <2>2. CASE pc[w] # "run"
      BY <2>2, <1>2
    <2> QED BY <2>1, <2>2
  <1>6. \A x \in Left(w) \cup Left(w)' : x[1] \notin {"create", "depend", "commit"}
    BY <1>2, <1>5
  <1>7. /\ UNCHANGED <<sched, slots, setup, data>> /\ status' = status
        /\ UNCHANGED <<global_initialized, thread_local_initialized>>
    BY DEF Throw, sched
  <1>8. OwnOK'
    <2>1. pc' = [pc EXCEPT ![w] = "leave"] /\ "leave" \in Places
      BY <1>4 DEF Moves, Places
    <2> QED BY <2>1, <1>2, <1>7, OwnMove
  <1>9. live' \subseteq live /\ cancelled' \in BOOLEAN /\ global_initialized' \in BOOLEAN
    BY <1>1, <1>2, <1>7 DEF ProcessTypeOK
  <1>10. CountOK' /\ SlotsOK' /\ LiveOK' /\ GlobalOK' /\ InputOK'
    BY CountThrow, SlotsMove, CallsThrow
  <1> QED BY <1>2, <1>4, <1>6, <1>7, <1>8, <1>9, <1>10, StepMove

\* ... and every step of the caller of execute().
LEMMA StepMain ==
  ASSUME ProcessInv,
         Join \/ Exit(Main) \/ GlobalFinalize(Main) \/ GlobalFinalized(Main) \/ Throw(Main)
  PROVE  ProcessInv'
  <1>1. /\ ProcessTypeOK /\ ScriptOK /\ OwnOK /\ SlotsOK /\ pc \in [Actors -> Places]
        /\ shape \in Shapes /\ broadcast_inputs \subseteq shape.broadcasts
    BY DEF ProcessInv, ProcessTypeOK
  <1>2. /\ task' = task /\ shape' = shape /\ (cancelled => cancelled')
        /\ \E p, s : Moves(Main, p, s)
    BY <1>1, EffectMain
  <1>3. PICK p, s : Moves(Main, p, s)
    BY <1>2
  <1>4. /\ UNCHANGED <<sched, slots, setup>> /\ UNCHANGED <<status, preds>>
        /\ UNCHANGED <<remaining, task_queue, limit>>
        /\ UNCHANGED <<thread_local_initialized, partitioned_pool, waiting_counters, given>>
        /\ live' \subseteq live /\ cancelled' \in BOOLEAN /\ global_initialized' \in BOOLEAN
        /\ broadcast_inputs' \subseteq shape.broadcasts
    BY <1>1 DEF Join, Exit, GlobalFinalize, GlobalFinalized, Throw, sched, slots, setup, flags, data, ProcessTypeOK
  <1>5. \A v \in Workers : pc'[v] = pc[v] /\ v # Main
    <2>1. pc' = [pc EXCEPT ![Main] = p]
      BY <1>3 DEF Moves
    <2> QED BY <2>1, <1>1, Constants
  <1>6. \A v \in Workers : task[v] \in Tasks
    BY <1>1, Constants DEF ProcessTypeOK
  <1>7. OwnOK'
    BY <1>1, <1>2, <1>4, <1>5, <1>6, OwnQuiet
  <1>8. CountOK'
    BY <1>2, <1>3, <1>4, CountIdle
  <1>9. SlotsOK'
    BY <1>1, <1>2, <1>3, <1>4, SlotsMain
  <1>10. LiveOK' /\ GlobalOK' /\ InputOK'
    BY CallsMain
  <1>11. /\ script' \in [Actors -> Seq(Ops)] /\ pc' \in [Actors -> Places] /\ ScriptOK'
    BY <1>3 DEF Moves
  <1>12. ProcessTypeOK'
    BY <1>1, <1>2, <1>4, <1>11 DEF ProcessTypeOK
  <1>13. \A n : Keeps(n)
    BY <1>3, KeepsMain
  <1>14. GraphOK'
    <2>1. \A v \in Workers : \A x \in Left(v) : x[1] = "depend" => x \in Left(v)'
      BY <1>13 DEF Keeps
    <2>2. \A t \in Tasks : Started(t)' => Started(t)
      BY <1>4 DEF Started
    <2>3. GraphOK /\ preds \in [Tasks -> SUBSET Tasks]
      BY DEF ProcessInv, ProcessTypeOK
    <2> QED BY <2>1, <2>2, <2>3, <1>1, <1>2, <1>4, <1>11, GraphKept
  <1>15. SpawnOK'
    <2>1. SpawnOK /\ task_queue \in Seq(Commands)
      BY DEF ProcessInv, ProcessTypeOK
    <2> QED BY <2>1, <1>4, <1>13, SpawnKept
  <1> QED BY <1>7, <1>8, <1>9, <1>10, <1>11, <1>12, <1>14, <1>15 DEF ProcessInv

\* The state after the constructor.
LEMMA InitType ==
  ASSUME Init
  PROVE  ProcessTypeOK /\ ScriptOK
  <1>1. shape \in Shapes /\ limit \in Limits
    BY DEF Init
  <1>2. status \in [Tasks -> {"none", "created", "committed", "running", "done"}]
    BY DEF Init
  <1>3. preds \in [Tasks -> SUBSET Tasks]
    <2>1. \A t \in Tasks : InitialPreds(t) \subseteq Tasks
      BY <1>1, Names, ShapeFacts DEF InitialPreds
    <2> QED BY <2>1 DEF Init
  <1>4. remaining \in Nat
    BY <1>1, LimitAssumption DEF Init
  <1>5. task_queue \in Seq(Commands)
    BY DEF Init
  <1>6. waiting_counters \in [Runs -> Nat]
    <2>1. \A r \in Runs : Cardinality(Needs(r)) \in Nat
      BY <1>1, ShapeFacts, FS_CardinalityType
    <2> QED BY <2>1 DEF Init
  <1>7. script \in [Actors -> Seq(Ops)]
    <2>1. <<>> \in Seq(Ops)
      OBVIOUS
    <2> QED BY <2>1 DEF Init
  <1>8. pc \in [Actors -> Places] /\ task \in [Actors -> Tasks]
    BY Names DEF Init, Places
  <1>9. /\ global_initialized \in BOOLEAN /\ cancelled \in BOOLEAN
        /\ thread_local_initialized \subseteq Workers /\ live \subseteq Actors
        /\ broadcast_inputs \subseteq shape.broadcasts
        /\ partitioned_pool \in [Runs -> SUBSET Ports] /\ given \in [Runs -> SUBSET Ports]
    BY DEF Init
  <1>10. ScriptOK
    <2>1. \A w \in Workers : pc[w] = "loop" /\ script[w] = <<>>
      BY Constants DEF Init
    <2>2. pc[Main] = "join" /\ script[Main] = <<>>
      BY Constants DEF Init
    <2> QED BY <2>1, <2>2 DEF ScriptOK
  <1> QED BY <1>1, <1>2, <1>3, <1>4, <1>5, <1>6, <1>7, <1>8, <1>9, <1>10 DEF ProcessTypeOK

\* It satisfies the invariant.
LEMMA InitInv ==
  ASSUME Init
  PROVE  ProcessInv
  <1>1. ProcessTypeOK /\ ScriptOK /\ shape \in Shapes
    BY InitType DEF ProcessTypeOK
  <1>2. \A t \in Tasks : status[t] = IF t \in Initial THEN "committed" ELSE "none"
    BY DEF Init
  <1>3. /\ \A w \in Workers : pc[w] = "loop" /\ script[w] = <<>> /\ task[w] = Foreign
        /\ pc[Main] = "join" /\ script[Main] = <<>>
    BY Constants DEF Init
  <1>4. \A a \in Actors : Left(a) = {}
    BY <1>3, Literals DEF Left, Actors
  <1>5. /\ \A w \in Workers : \A t : ~Runner(w, t)
        /\ \A x : ~Doing(x)
    BY <1>3 DEF Runner, Doing
  <1>6. Initial \subseteq Tasks /\ Initial \cap Commands = {} /\ Commands \subseteq Tasks
        /\ Entry \in Initial /\ Terminal \in Initial /\ Foreign \in Initial
    BY <1>1, Names, ShapeFacts DEF Initial
  <1>7. \A t \in Tasks : ~Started(t) /\ status[t] # "done" /\ status[t] # "running"
    BY <1>2 DEF Started
  <1>8. \A c \in Commands : status[c] = "none"
    BY <1>2, <1>6
  <1>9. OwnOK
    BY <1>3, <1>6, <1>7, Names DEF OwnOK
  <1>10. GraphOK
    <2>1. \A t \in Initial : InitialPreds(t) \subseteq preds[t]
      BY <1>6 DEF Init
    <2>2. \A t \in Tasks : status[t] # "none" => t \in Initial \cup Commands
      BY <1>2
    <2>3. \A t \in Initial : status[t] \in {"committed", "running", "done"}
      BY <1>2, <1>6
    <2>4. (\A r \in Runs : status[Run(r)] = "none") /\ (\A v \in Workers : status[Finalizer(v)] = "none")
      BY <1>8, Names
    <2> QED BY <2>1, <2>2, <2>3, <2>4, <1>7 DEF GraphOK
  <1>11. SpawnOK
    <2>1. Len(task_queue) = 0
      BY DEF Init
    <2>2. \A w \in Workers : Left(w) = {}
      BY <1>4, Constants
    <2> QED BY <2>1, <2>2 DEF SpawnOK
  <1>12. \A t \in Tasks : \A op : ~Begun(t, op)
    BY <1>5, <1>7 DEF Begun
  <1>13. \A c \in Commands : ~IsMade(c)
    BY <1>5, <1>8 DEF IsMade
  <1>14. CountOK
    <2>1. ASSUME NEW r \in Runs
          PROVE  /\ waiting_counters[r] = Cardinality({j \in Needs(r) : ~Counted(j, r)})
                 /\ waiting_counters[r] > 0 =>
                      /\ partitioned_pool[r] = {j \in Needs(r) : Begun(Producer(j), <<"store", r, j>>)}
                      /\ ~IsMade(Run(r))
                 /\ waiting_counters[r] = 0 => given[r] = Needs(r)
                 /\ Needs(r) # {} /\ waiting_counters[r] = 0 => IsMade(Run(r))
                 /\ Needs(r) = {} => (IsMade(Run(r)) <=> Begun(Entry, <<"spawn", r>>))
      <3>1. \A j \in Needs(r) : Producer(j) \in Tasks
        BY <1>1, Names, ShapeFacts
      <3>2. \A j \in Needs(r) : ~Counted(j, r) /\ ~Begun(Producer(j), <<"store", r, j>>)
        BY <3>1, <1>5, <1>7, <1>12 DEF Counted
      <3>3. {j \in Needs(r) : ~Counted(j, r)} = Needs(r)
            /\ {j \in Needs(r) : Begun(Producer(j), <<"store", r, j>>)} = {}
        BY <3>2
      <3>4. waiting_counters[r] = Cardinality(Needs(r)) /\ partitioned_pool[r] = {} /\ given[r] = {}
        BY DEF Init
      <3>5. waiting_counters[r] = 0 <=> Needs(r) = {}
        BY <3>4, <1>1, ShapeFacts, FS_EmptySet
      <3>6. ~IsMade(Run(r)) /\ ~Begun(Entry, <<"spawn", r>>)
        BY <1>6, <1>12, <1>13, Names
      <3> QED BY <3>3, <3>4, <3>5, <3>6
    <2>2. ASSUME NEW v \in Workers
          PROVE  ~IsMade(Finalizer(v)) /\ ~Begun(Barrier, <<"finalizer", v>>)
      BY <1>12, <1>13, Names
    <2> QED BY <2>1, <2>2 DEF CountOK
  <1>15. SlotsOK
    <2>1. Holders = {}
      BY <1>8 DEF Holders, Holding
    <2>2. Cardinality({t \in Commands : HoldsSlot(t)}) = 0
      BY <2>1, HoldsLeft, FS_EmptySet
    <2>3. limit \in Nat
      BY LimitAssumption DEF Init
    <2> QED BY <2>2, <2>3 DEF SlotsOK, Init
  <1>16. ~Initialized
    BY <1>5, <1>6, <1>7 DEF Initialized
  <1>17. global_initialized = FALSE /\ thread_local_initialized = {} /\ live = {}
    BY DEF Init
  <1>18. LiveOK
    <2>1. \A v \in Workers : status[Finalizer(v)] = "none" /\ Left(v) = {}
      BY <1>4, <1>8, Names, Constants
    <2> QED BY <2>1, <1>5, <1>17 DEF LiveOK
  <1>19. GlobalOK
    BY <1>3, <1>4, <1>5, <1>16, <1>17 DEF GlobalOK
  <1>20. InputOK
    <2>1. \A j \in shape.broadcasts : ~Sent(j)
      BY <1>1, <1>5, <1>7, Names, ShapeFacts DEF Sent
    <2> QED BY <2>1, InputParts
  <1> QED BY <1>1, <1>9, <1>10, <1>11, <1>14, <1>15, <1>18, <1>19, <1>20 DEF ProcessInv

\* A step that changes nothing preserves the invariant.
LEMMA Unchanged ==
  ASSUME ProcessInv, UNCHANGED vars
  PROVE  ProcessInv'
  <1>1. UNCHANGED <<shape, limit, status, preds, remaining, task_queue, global_initialized,
                    thread_local_initialized, live, broadcast_inputs, partitioned_pool,
                    waiting_counters, given, cancelled, pc, task, script>>
    BY DEF vars, setup, sched, slots, flags, data
  <1>2. ProcessTypeOK' <=> ProcessTypeOK
    BY <1>1 DEF ProcessTypeOK
  <1>3. ScriptOK' <=> ScriptOK
    BY <1>1 DEF ScriptOK, InLoop, Straight, Loops, Prefixes, Makes, DataPorts, Needs
  <1>4. OwnOK' <=> OwnOK
    BY <1>1 DEF OwnOK, Initial, DataPorts, Needs, Started
  <1>5. GraphOK' <=> GraphOK
    BY <1>1 DEF GraphOK, Initial, InitialPreds, DataPorts, Needs, Started, Doing, Left
  <1>6. SpawnOK' <=> SpawnOK
    BY <1>1 DEF SpawnOK, QueueHas, Left
  <1>7. CountOK' <=> CountOK
    BY <1>1 DEF CountOK, Counted, Begun, IsMade, Doing, Runner, Left, Needs
  <1>8. SlotsOK' <=> SlotsOK
    BY <1>1 DEF SlotsOK, HoldsSlot
  <1>9. LiveOK' <=> LiveOK
    BY <1>1 DEF LiveOK, Runner, Left
  <1>10. GlobalOK' <=> GlobalOK
    BY <1>1 DEF GlobalOK, Initialized, Started, Runner, Left
  <1>11. InputOK' <=> InputOK
    BY <1>1 DEF InputOK, Initialized, Runner, Left
  <1> QED BY <1>2, <1>3, <1>4, <1>5, <1>6, <1>7, <1>8, <1>9, <1>10, <1>11 DEF ProcessInv

\* Every step preserves the invariant.
LEMMA ProcessStep ==
  ASSUME ProcessInv, [Next]_vars
  PROVE  ProcessInv'
  <1>1. ASSUME NEW w \in Workers, WorkerStep(w)
        PROVE  ProcessInv'
    <2>1. CASE Create(w) \/ Depend(w) \/ CommitProcessCommand(w) \/ NotifyCompletion(w)
      BY <2>1, StepCreate, StepDepend, StepCommit, StepNotify
    <2>2. CASE Complete(w) \/ TakeTask(w)
      BY <2>2, StepComplete, StepTake
    <2>3. CASE ReceiveBroadcast(w) \/ ReceiveFragment(w) \/ CountFragment(w)
      BY <2>3, StepBroadcast, StepReceive, StepCount
    <2>4. CASE Prepare(w) \/ Return(w)
      BY <2>4, StepPlain
    <2>5. CASE GlobalInitialize(w) \/ ThreadLocalInitialize(w)
      BY <2>5, StepInitialize, StepThreadLocal
    <2>6. CASE SpawnRun(w) \/ CreateThreadLocalFinalizer(w)
      BY <2>6, StepSpawnRun, StepSpawnFinalizer
    <2>7. CASE ThreadLocalFinalize(w) \/ ThreadLocalFinalized(w)
      BY <2>7, StepFinalize, StepFinalized
    <2>8. CASE Loop(w) \/ TakeNothing(w) \/ Leave(w)
      BY <2>8, StepIdle
    <2> QED BY <1>1, <2>1, <2>2, <2>3, <2>4, <2>5, <2>6, <2>7, <2>8 DEF WorkerStep
  <1>2. ASSUME NEW a \in Actors, AnyStep(a)
        PROVE  ProcessInv'
    <2>1. CASE a \in Workers
      BY <2>1, <1>2, StepGlobal, StepFinalized, StepIdle, StepThrow DEF AnyStep
    <2>2. CASE a = Main
      BY <2>2, <1>2, StepMain DEF AnyStep
    <2> QED BY <2>1, <2>2 DEF Actors
  <1>3. CASE Join
    BY <1>3, StepMain
  <1>4. CASE Terminated \/ UNCHANGED vars
    BY <1>4, Unchanged DEF Terminated
  <1> QED BY <1>1, <1>2, <1>3, <1>4 DEF Next

\* The inductive invariant: at every moment the scripts of the workers, the
\* graph, the counters of fragments, the slots and the callbacks in progress
\* fit together, for any number of workers, runs, inputs and slots.
THEOREM ProcessInvariant == Spec => []ProcessInv
  <1>1. Init => ProcessInv
    BY InitInv
  <1>2. ProcessInv /\ [Next]_vars => ProcessInv'
    BY ProcessStep
  <1> QED BY <1>1, <1>2, PTL DEF Spec

-----------------------------------------------------------------------------
(* What follows from it.                                                   *)

\* Callbacks in progress, and what the task of the worker is.
LEMMA CommandFacts ==
  ASSUME ProcessInv, NEW w \in Workers, InCommand(w)
  PROVE  /\ pc[w] = "run" /\ task[w] \in Commands /\ status[task[w]] = "running"
         /\ <<"notify">> \in Left(w)
  <1>1. ProcessTypeOK /\ ScriptOK /\ OwnOK
    BY DEF ProcessInv
  <1>2. pc[w] = "run" /\ Heads(task[w], Op(w), Left(w)) /\ Op(w)[1] \in {"run", "tl_init", "user_tl_finalize"}
    <2>1. CASE At(w, "run")
      BY <2>1, <1>1, Busy
    <2>2. CASE At(w, "tl_init")
      BY <2>2, <1>1, Busy
    <2>3. CASE At(w, "user_tl_finalize") /\ pc[w] = "run"
      BY <2>3, <1>1, AtFacts, OpFacts
    <2> QED BY <2>1, <2>2, <2>3 DEF InCommand
  <1>3. task[w] \in Commands /\ <<"notify">> \in Left(w)
    <2>1. CASE Op(w)[1] = "run"
      BY <2>1, <1>2, Names DEF Heads, StraightHeads
    <2>2. CASE Op(w)[1] = "tl_init"
      BY <2>2, <1>2, Names DEF Heads, StraightHeads
    <2>3. CASE Op(w)[1] = "user_tl_finalize"
      BY <2>3, <1>2, Names DEF Heads, StraightHeads
    <2> QED BY <2>1, <2>2, <2>3, <1>2
  <1> QED BY <1>1, <1>2, <1>3 DEF OwnOK

\* What the invariant implies: the slots are exact, ...
LEMMA SlotsInv ==
  ASSUME ProcessInv
  PROVE  SlotsExact
  <1>1. ProcessTypeOK /\ OwnOK /\ SlotsOK /\ remaining \in Nat /\ limit \in Nat
    BY LimitAssumption DEF ProcessInv, ProcessTypeOK
  <1>2. /\ {t \in Commands : HoldsSlot(t)} = Holders
        /\ IsFiniteSet(Holders) /\ Cardinality(Holders) \in Nat
    BY HoldsLeft
  <1>3. remaining + Cardinality(Holders) = limit
    BY <1>1, <1>2 DEF SlotsOK
  <1> DEFINE I == {w \in Workers : InCommand(w)}
             f == [w \in I |-> task[w]]
  <1>4. \A w \in I : task[w] \in Holders
    <2> SUFFICES ASSUME NEW w \in I PROVE task[w] \in Holders
      OBVIOUS
    <2>1. /\ task[w] \in Commands /\ status[task[w]] = "running" /\ <<"notify">> \in Left(w)
      BY CommandFacts
    <2> QED BY <2>1 DEF Holders, Holding
  <1>5. \A w, v \in I : task[w] = task[v] => w = v
    <2> SUFFICES ASSUME NEW w \in I, NEW v \in I, task[w] = task[v], w # v PROVE FALSE
      OBVIOUS
    <2>1. task[w] \in Commands
      BY CommandFacts
    <2> QED BY <2>1, <1>1, Names DEF OwnOK
  <1>6. f \in [I -> Holders] /\ \A w, v \in I : f[w] = f[v] => w = v
    BY <1>4, <1>5
  <1> HIDE DEF f
  <1>7. IsFiniteSet(I) /\ Cardinality(I) <= Cardinality(Holders)
    BY <1>2, <1>6, Fun_IsInj, FS_Injection
  <1>8. Cardinality(I) \in Nat
    BY <1>7, FS_CardinalityType
  <1>9. Cardinality({w \in Workers : InCommand(w)}) <= limit
    BY <1>1, <1>2, <1>3, <1>7, <1>8
  <1> QED BY <1>1, <1>2, <1>3, <1>9 DEF SlotsExact, SlotsOK

\* ... dependencies are added to tasks that have not started, ...
LEMMA ContractInv ==
  ASSUME ProcessInv
  PROVE  ContractRespected
  <1>1. /\ ProcessTypeOK /\ ScriptOK /\ OwnOK /\ GraphOK /\ SpawnOK /\ shape \in Shapes
        /\ status \in [Tasks -> {"none", "created", "committed", "running", "done"}]
    BY DEF ProcessInv, ProcessTypeOK
  <1> SUFFICES ASSUME NEW w \in Workers, At(w, "depend")
               PROVE  \/ status[Op(w)[2]] = "done"
                      \/ status[Op(w)[2]] # "none" /\ status[Op(w)[3]] \in {"created", "committed"}
    BY DEF ContractRespected
  <1>2. pc[w] = "run" /\ Op(w)[1] = "depend" /\ Heads(task[w], Op(w), Left(w))
    BY <1>1, Busy
  <1>3. PICK c \in Commands :
       /\ <<"commit", c>> \in Left(w) /\ <<"create", c>> \notin Left(w)
       /\ \/ \E r \in Runs : c = Run(r) /\ Op(w) = <<"depend", Entry, c>>
          \/ \E r \in Runs : c = Run(r) /\ Op(w) = <<"depend", c, Barrier>> /\ task[w] \in Loops \ {Barrier}
          \/ \E v \in Workers : c = Finalizer(v) /\ Op(w) = <<"depend", c, Terminal>> /\ task[w] = Barrier
    BY <1>2 DEF Heads, LoopHeads
  <1>4. status[c] = "created"
    BY <1>1, <1>3 DEF SpawnOK
  <1>5. {Entry, Barrier, Terminal} \subseteq Initial \cap Tasks
    BY Names DEF Initial
  <1>6. \A t \in Initial : status[t] \in {"committed", "running", "done"}
    BY <1>1 DEF GraphOK
  <1>7. status[task[w]] = "running"
    BY <1>1, <1>2 DEF OwnOK
  <1>8. CASE Op(w) = <<"depend", Entry, c>>
    BY <1>4, <1>5, <1>6, <1>8
  <1>9. CASE Op(w) = <<"depend", c, Barrier>> /\ task[w] \in Loops \ {Barrier}
    <2>1. ~Started(Barrier)
      BY <1>1, <1>7, <1>9, OrderFacts DEF Loops
    <2>2. status[Barrier] = "committed"
      BY <2>1, <1>5, <1>6 DEF Started
    <2> QED BY <2>2, <1>4, <1>9
  <1>10. CASE Op(w) = <<"depend", c, Terminal>> /\ task[w] = Barrier
    <2>1. ~Started(Terminal)
      BY <1>1, <1>7, <1>10, OrderFacts
    <2>2. status[Terminal] = "committed"
      BY <2>1, <1>5, <1>6 DEF Started
    <2> QED BY <2>2, <1>4, <1>10
  <1> QED BY <1>3, <1>8, <1>9, <1>10

\* While a command runs the processor is initialized.
LEMMA CommandInitialized ==
  ASSUME ProcessInv, NEW w \in Workers, pc[w] = "run", task[w] \in Commands
  PROVE  status[Entry] = "done" /\ Main \in live /\ Started(Entry)
  <1>1. ProcessTypeOK /\ ScriptOK /\ OwnOK /\ GraphOK /\ SpawnOK /\ CountOK /\ GlobalOK
    BY DEF ProcessInv
  <1>2. status[task[w]] = "running"
    BY <1>1 DEF OwnOK
  <1>3. pc[Main] = "join"
    BY <1>1, IdleFacts
  <1>4. status[Entry] = "done" /\ ~Started(Terminal)
    <2>1. CASE \E r \in Runs : task[w] = Run(r)
      <3>1. PICK r \in Runs : task[w] = Run(r)
        BY <2>1
      <3>2. status[Entry] = "done" /\ ~Started(Barrier)
        BY <3>1, <1>1, <1>2, OrderFacts DEF Started
      <3>3. Started(Terminal) => Started(Barrier)
        BY <1>1, OrderFacts DEF Started
      <3> QED BY <3>2, <3>3
    <2>2. CASE \E v \in Workers : task[w] = Finalizer(v)
      <3>1. PICK v \in Workers : task[w] = Finalizer(v)
        BY <2>2
      <3>2. IsMade(Finalizer(v))
        BY <3>1, <1>2 DEF IsMade
      <3>3. Begun(Barrier, <<"finalizer", v>>)
        BY <3>2, <1>1 DEF CountOK
      <3>4. Started(Barrier)
        BY <3>3, <1>1 DEF Begun, Runner, OwnOK, Started
      <3>5. status[Entry] = "done"
        BY <3>4, <1>1, OrderFacts
      <3>6. ~Started(Terminal)
        BY <3>1, <1>1, <1>2, OrderFacts
      <3> QED BY <3>5, <3>6
    <2> QED BY <2>1, <2>2 DEF Commands
  <1>5. Initialized /\ Started(Entry)
    BY <1>4 DEF Initialized, Started
  <1> QED BY <1>1, <1>3, <1>4, <1>5 DEF GlobalOK

\* ... a run has all its inputs, ...
LEMMA InputsInv ==
  ASSUME ProcessInv
  PROVE  InputsComplete
  <1>1. /\ ProcessTypeOK /\ ScriptOK /\ OwnOK /\ GraphOK /\ SpawnOK /\ CountOK /\ GlobalOK /\ InputOK
        /\ shape \in Shapes /\ broadcast_inputs \subseteq shape.broadcasts
        /\ waiting_counters \in [Runs -> Nat]
    BY DEF ProcessInv, ProcessTypeOK
  <1>2. ASSUME NEW r \in Runs, status[Run(r)] # "none"
        PROVE  waiting_counters[r] = 0 /\ given[r] = Needs(r)
    <2>1. IsMade(Run(r))
      BY <1>2 DEF IsMade
    <2>2. waiting_counters[r] \in Nat
      BY <1>1
    <2>3. waiting_counters[r] > 0 => ~IsMade(Run(r))
      BY <1>1 DEF CountOK
    <2>4. waiting_counters[r] = 0
      BY <2>1, <2>2, <2>3
    <2>5. waiting_counters[r] = 0 => given[r] = Needs(r)
      BY <1>1 DEF CountOK
    <2> QED BY <2>4, <2>5
  <1>3. ASSUME NEW w \in Workers, At(w, "prepare")
        PROVE  broadcast_inputs = shape.broadcasts
    <2>1. pc[w] = "run" /\ Op(w)[1] = "prepare" /\ Heads(task[w], Op(w), Left(w))
      BY <1>1, <1>3, Busy
    <2>2. status[task[w]] = "running"
      BY <1>1, <2>1 DEF OwnOK
    <2>3. Started(Entry) /\ (Initialized => Main \in live)
      <3>1. CASE task[w] = Entry /\ Left(w) = {<<"prepare">>, <<"global_init">>, <<"complete">>}
        <4>1. Runner(w, Entry) /\ Entry # Foreign /\ <<"global_init">> \in Left(w)
          BY <3>1, <2>1, Names DEF Runner
        <4>2. status[Entry] = "running" /\ \A v \in Workers : Runner(v, Entry) => v = w
          BY <4>1, <1>1, OneRunner
        <4> QED BY <4>1, <4>2 DEF Initialized, Started
      <3>2. CASE task[w] = Terminal /\ Left(w) = {<<"prepare">>, <<"global_finalize">>, <<"complete">>}
        <4>1. Runner(w, Terminal) /\ <<"global_finalize">> \in Left(w)
          BY <3>2, <2>1 DEF Runner
        <4>2. Main \in live
          BY <4>1, <1>1 DEF GlobalOK
        <4>3. Started(Terminal)
          BY <3>2, <2>2 DEF Started
        <4>4. Started(Barrier)
          BY <4>3, <1>1, OrderFacts DEF Started
        <4>5. Started(Entry)
          BY <4>4, <1>1, OrderFacts DEF Started
        <4> QED BY <4>2, <4>5
      <3>3. CASE task[w] \in Commands
        BY <3>3, <2>1, CommandInitialized
      <3>4. \/ task[w] = Entry /\ Left(w) = {<<"prepare">>, <<"global_init">>, <<"complete">>}
            \/ task[w] = Terminal /\ Left(w) = {<<"prepare">>, <<"global_finalize">>, <<"complete">>}
            \/ task[w] \in Commands
        BY <2>1, Names DEF Heads, StraightHeads
      <3> QED BY <3>1, <3>2, <3>3, <3>4
    <2>4. ASSUME NEW j \in shape.broadcasts
          PROVE  j \in broadcast_inputs
      <3>1. Sent(j)
        BY <2>3, <1>1, OrderFacts DEF Sent
      <3> QED BY <3>1, <2>3, <1>1, InputParts
    <2> QED BY <2>4, <1>1
  <1>4. ASSUME NEW w \in Workers, At(w, "run")
        PROVE  given[task[w][2]] = Needs(task[w][2])
    <2>1. pc[w] = "run" /\ Op(w)[1] = "run" /\ Heads(task[w], Op(w), Left(w))
      BY <1>1, <1>4, Busy
    <2>2. PICK r \in Runs : task[w] = Run(r)
      BY <2>1 DEF Heads, StraightHeads
    <2>3. status[Run(r)] = "running" /\ Run(r)[2] = r
      BY <1>1, <2>1, <2>2 DEF OwnOK, Run
    <2> QED BY <2>2, <2>3, <1>2
  <1>5. ASSUME NEW w \in Workers, At(w, "broadcast")
        PROVE  ~global_initialized
    <2>1. pc[w] = "run" /\ Op(w)[1] = "broadcast" /\ Heads(task[w], Op(w), Left(w))
      BY <1>1, <1>5, Busy
    <2>2. PICK j \in shape.broadcasts : task[w] = Producer(j)
      BY <2>1 DEF Heads, StraightHeads
    <2>3. status[Producer(j)] = "running"
      BY <1>1, <2>1, <2>2 DEF OwnOK
    <2>4. ~Started(Entry)
      BY <2>3, <1>1, OrderFacts
    <2>5. ~Initialized
      BY <2>4, <1>1 DEF Initialized, Started, Runner, OwnOK
    <2> QED BY <2>5, <1>1 DEF GlobalOK
  <1> QED BY <1>2, <1>3, <1>4, <1>5 DEF InputsComplete

\* ... callbacks are bracketed, ...
LEMMA CallbacksInv ==
  ASSUME ProcessInv
  PROVE  CallbacksBracketed
  <1>1. /\ ProcessTypeOK /\ ScriptOK /\ OwnOK /\ GraphOK /\ SpawnOK /\ LiveOK /\ GlobalOK
        /\ live \subseteq Actors
    BY DEF ProcessInv, ProcessTypeOK
  <1>2. ASSUME NEW w \in Workers, At(w, "run")
        PROVE  w \in live /\ Main \in live
    <2>1. pc[w] = "run" /\ Op(w)[1] = "run" /\ Heads(task[w], Op(w), Left(w))
      BY <1>1, <1>2, Busy
    <2>2. PICK r \in Runs : task[w] = Run(r) /\ Left(w) = {<<"run">>, <<"notify">>, <<"complete">>}
      BY <2>1 DEF Heads, StraightHeads
    <2>3. Runner(w, Run(r)) /\ <<"tl_init">> \notin Left(w) /\ task[w] \in Commands
      BY <2>1, <2>2, Names DEF Runner
    <2>4. w \in thread_local_initialized
      BY <2>3, <1>1 DEF LiveOK
    <2>5. w \in live
      BY <2>4, <1>1 DEF LiveOK
    <2> QED BY <2>1, <2>3, <2>5, CommandInitialized
  <1>3. ASSUME NEW w \in Workers, InCommand(w), At(w, "tl_init")
        PROVE  w \notin live /\ Main \in live
    <2>1. pc[w] = "run" /\ Op(w)[1] = "tl_init" /\ Heads(task[w], Op(w), Left(w))
      BY <1>1, <1>3, Busy
    <2>2. Left(w) = {<<"tl_init">>, <<"run">>, <<"notify">>, <<"complete">>} /\ task[w] \in Commands
      BY <2>1, Names DEF Heads, StraightHeads
    <2>3. w \notin thread_local_initialized
      BY <2>1, <1>3 DEF InCommand, At
    <2>4. w \notin live
      BY <2>2, <2>3, <1>1 DEF LiveOK
    <2> QED BY <2>1, <2>2, <2>4, CommandInitialized
  <1>4. ASSUME NEW w \in Workers, At(w, "user_tl_finalize")
        PROVE  w \in live
    <2>1. script[w] # <<>> /\ Op(w)[1] = "user_tl_finalize"
      BY <1>4, AtFacts
    <2>2. Op(w) = <<"user_tl_finalize">> /\ Op(w) \in Left(w)
      <3>1. CASE pc[w] = "run"
        <4>1. Heads(task[w], Op(w), Left(w)) /\ Op(w) \in Left(w)
          BY <3>1, <2>1, <1>1, OpFacts
        <4>2. Left(w) = {<<"user_tl_finalize">>, <<"notify">>, <<"complete">>}
          BY <4>1, <2>1 DEF Heads, StraightHeads
        <4> QED BY <4>1, <4>2, <2>1
      <3>2. CASE pc[w] # "run"
        BY <3>2, <2>1, <1>1, OpFacts
      <3> QED BY <3>1, <3>2
    <2> QED BY <2>2, <1>1 DEF LiveOK
  <1>5. ASSUME NEW w \in Workers, At(w, "global_init")
        PROVE  live = {}
    <2>1. pc[w] = "run" /\ Op(w)[1] = "global_init" /\ Heads(task[w], Op(w), Left(w))
      BY <1>1, <1>5, Busy
    <2>2. task[w] = Entry /\ Left(w) = {<<"global_init">>, <<"complete">>}
      BY <2>1 DEF Heads, StraightHeads
    <2>3. Runner(w, Entry) /\ Entry # Foreign
      BY <2>1, <2>2, Names DEF Runner
    <2>4. status[Entry] = "running" /\ \A v \in Workers : Runner(v, Entry) => v = w
      BY <2>3, <1>1, OneRunner
    <2>5. ~Initialized
      BY <2>2, <2>4 DEF Initialized
    <2>6. Main \notin live
      BY <2>5, <1>1 DEF GlobalOK
    <2>7. \A v \in Workers : v \notin live
      BY <2>4, <1>1 DEF LiveOK
    <2> QED BY <2>6, <2>7, <1>1 DEF Actors
  <1>6. ASSUME NEW a \in Actors, At(a, "user_global_finalize")
        PROVE  Op(a) = <<"user_global_finalize">> /\ Op(a) \in Left(a)
    <2>1. script[a] # <<>> /\ Op(a)[1] = "user_global_finalize"
      BY <1>6, AtFacts
    <2>2. CASE a = Main
      <3>1. Left(Main) = {Op(Main)} /\ Op(Main) \in {<<"global_finalize">>, <<"user_global_finalize">>}
        BY <2>1, <2>2, <1>1, MainFacts
      <3> QED BY <3>1, <2>1, <2>2
    <2>3. CASE a \in Workers
      <3>1. Heads(task[a], Op(a), Left(a)) /\ Op(a) \in Left(a)
        BY <2>3, <1>6, <1>1, Busy
      <3>2. Left(a) = {<<"user_global_finalize">>, <<"complete">>}
        BY <3>1, <2>1 DEF Heads, StraightHeads
      <3> QED BY <3>1, <3>2, <2>1
    <2> QED BY <2>2, <2>3 DEF Actors
  <1>7. ASSUME NEW a \in Actors, At(a, "user_global_finalize")
        PROVE  Main \in live
    BY <1>1, <1>6, <1>7 DEF GlobalOK
  <1>8. ASSUME ~cancelled, NEW a \in Actors, At(a, "user_global_finalize")
        PROVE  live = {Main}
    <2>1. a # Main
      BY <1>1, <1>8, AtFacts DEF ScriptOK
    <2>2. a \in Workers /\ <<"user_global_finalize">> \in Left(a)
      BY <2>1, <1>6, <1>8 DEF Actors
    <2>3. Started(Terminal)
      BY <2>2, GlobalOps DEF Started
    <2>4. thread_local_initialized = {}
      BY <2>3, TerminalFacts
    <2>5. ASSUME NEW w \in Workers, w \in live
          PROVE  FALSE
      <3>1. <<"user_tl_finalize">> \in Left(w)
        BY <2>4, <2>5, <1>1 DEF LiveOK
      <3>2. script[w] # <<>>
        BY <3>1, <1>1, IdleFacts
      <3>3. pc[w] = "run" /\ Members(task[w], Left(w))
        BY <3>2, <1>1, <1>8, OpFacts
      <3>4. \E v \in Workers : task[w] = Finalizer(v)
        BY <3>1, <3>3 DEF Members
      <3>5. status[task[w]] = "running"
        BY <3>3, <1>1 DEF OwnOK
      <3> QED BY <3>4, <3>5, <2>3, <1>1, OrderFacts
    <2> QED BY <2>5, <1>1, <1>7, <1>8 DEF Actors
  <1> QED BY <1>2, <1>3, <1>4, <1>5, <1>7, <1>8 DEF CallbacksBracketed, GlobalFinalizeLast

\* ... and at the end everything is finalized.
LEMMA FinalizedInv ==
  ASSUME ProcessInv
  PROVE  AllFinalized
  <1>1. /\ ProcessTypeOK /\ ScriptOK /\ OwnOK /\ GraphOK /\ SpawnOK /\ CountOK /\ LiveOK /\ GlobalOK
        /\ live \subseteq Actors /\ shape \in Shapes /\ waiting_counters \in [Runs -> Nat]
    BY DEF ProcessInv, ProcessTypeOK
  <1> SUFFICES ASSUME pc[Main] = "exit"
               PROVE  live = {} /\ (~cancelled => \A r \in Runs : status[Run(r)] = "done")
    BY DEF AllFinalized
  <1>2. \A w \in Workers : pc[w] = "exit" /\ Left(w) = {}
    <2>1. \A w \in Workers : pc[w] = "exit"
      BY <1>1 DEF ScriptOK
    <2> QED BY <2>1, <1>1, IdleFacts
  <1>3. Left(Main) = {}
    <2>1. script[Main] = <<>>
      BY <1>1 DEF ScriptOK
    <2> QED BY <2>1, <1>1, MainFacts
  <1>4. \A w \in Workers : w \notin live
    BY <1>1, <1>2 DEF LiveOK
  <1>5. Main \notin live
    BY <1>1, <1>2, <1>3 DEF GlobalOK, Actors
  <1>6. ASSUME ~cancelled, NEW r \in Runs
        PROVE  status[Run(r)] = "done"
    <2>1. status[Terminal] = "done"
      BY <1>1, <1>2, <1>6, Constants DEF OwnOK
    <2>2. Started(Barrier)
      BY <2>1, <1>1, OrderFacts DEF Started
    <2>3. status[Entry] = "done" /\ \A j \in DataPorts : status[Producer(j)] = "done"
      BY <2>2, <1>1, OrderFacts
    <2>4. \A x : ~Doing(x)
      BY <1>2 DEF Doing
    <2>5. IsMade(Run(r))
      <3>1. CASE Needs(r) = {}
        BY <3>1, <2>3, <1>1 DEF Begun, CountOK
      <3>2. CASE Needs(r) # {}
        <4>1. \A j \in Needs(r) : Counted(j, r)
          BY <2>3, <1>1, ShapeFacts DEF Counted
        <4>2. {j \in Needs(r) : ~Counted(j, r)} = {}
          BY <4>1
        <4>3. waiting_counters[r] = 0
          BY <4>2, <1>1, FS_EmptySet DEF CountOK
        <4> QED BY <3>2, <4>3, <1>1 DEF CountOK
      <3> QED BY <3>1, <3>2
    <2>6. status[Run(r)] # "none"
      BY <2>4, <2>5 DEF IsMade
    <2> QED BY <2>2, <2>4, <2>6, <1>1, OrderFacts
  <1> QED BY <1>1, <1>4, <1>5, <1>6 DEF Actors

\* commit_process_command and notify_completion keep the count of slots: the
\* free ones and the commands that hold one add up to max_concurrency, and no
\* command waits in the local queue while one is free, whatever the number of
\* workers, of runs and of slots, and whoever throws.
THEOREM SlotsAreExact == Spec => []SlotsExact
  <1>1. ProcessInv => SlotsExact
    BY SlotsInv
  <1> QED BY <1>1, ProcessInvariant, PTL

\* Every dependency that process tasks add while they execute is added to a
\* task that has not started, as the scheduler's add_dependency requires.
THEOREM ContractIsRespected == Spec => []ContractRespected
  <1>1. ProcessInv => ContractRespected
    BY ContractInv
  <1> QED BY <1>1, ProcessInvariant, PTL

\* receive_fragment, the waiting counters and receive_broadcast together: a run
\* is made with every fragment of its inputs, no earlier and no later, and
\* every broadcast is in place when prepare() reads the inputs and before the
\* processor is initialized.
THEOREM InputsAreComplete == Spec => []InputsComplete
  <1>1. ProcessInv => InputsComplete
    BY InputsInv
  <1> QED BY <1>1, ProcessInvariant, PTL

\* run comes inside the thread local bracket of its worker, and that one inside
\* the global bracket; each is opened and closed once, on every path, the ones
\* where a callback throws included.
THEOREM CallbacksAreBracketed == Spec => []CallbacksBracketed
  <1>1. ProcessInv => CallbacksBracketed
    BY CallbacksInv
  <1> QED BY <1>1, ProcessInvariant, PTL

\* When execute() ends, whatever was initialized has been finalized, by the
\* finalizer tasks or by the threads as they leave; and unless it was cancelled
\* every run has completed.
THEOREM AllIsFinalized == Spec => []AllFinalized
  <1>1. ProcessInv => AllFinalized
    BY FinalizedInv
  <1> QED BY <1>1, ProcessInvariant, PTL
=============================================================================
