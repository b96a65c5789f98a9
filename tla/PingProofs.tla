----------------------------- MODULE PingProofs -----------------------------
(* Proofs about Ping, for any number of POPs and threads: no answer is     *)
(* given twice, the loop of the caller ends only when all of them were     *)
(* given, and a caller that leaves stops the pool.                         *)
EXTENDS Ping, SequenceTheorems, FiniteSetTheorems, TLAPS

----------------------------------------------------------------------------
(* Sequences as queues of different values.                                *)

LEMMA AppendSet ==
  ASSUME NEW S, NEW s \in Seq(S), NEW e \in S
  PROVE  /\ ToSet(Append(s, e)) = ToSet(s) \cup {e}
         /\ IsInjective(s) /\ e \notin ToSet(s) => IsInjective(Append(s, e))
<1>1. /\ Append(s, e) \in Seq(S) /\ Len(Append(s, e)) = Len(s) + 1
      /\ \A i \in 1 .. Len(s) : Append(s, e)[i] = s[i]
      /\ Append(s, e)[Len(s) + 1] = e
  BY AppendProperties
<1>2. /\ Len(s) \in Nat /\ DOMAIN s = 1 .. Len(s)
      /\ DOMAIN Append(s, e) = 1 .. Len(s) + 1
  BY <1>1, LenProperties
<1> QED BY <1>1, <1>2 DEF ToSet, IsInjective

LEMMA TailSet ==
  ASSUME NEW S, NEW s \in Seq(S), s # <<>>
  PROVE  /\ ToSet(s) = ToSet(Tail(s)) \cup {Head(s)}
         /\ IsInjective(s) =>
              IsInjective(Tail(s)) /\ Head(s) \notin ToSet(Tail(s))
<1>1. /\ Tail(s) \in Seq(S) /\ Len(Tail(s)) = Len(s) - 1
      /\ \A i \in 1 .. Len(Tail(s)) : Tail(s)[i] = s[i + 1]
  BY HeadTailProperties
<1>2. /\ Len(s) \in Nat \ {0} /\ DOMAIN s = 1 .. Len(s)
      /\ DOMAIN Tail(s) = 1 .. Len(s) - 1
  BY <1>1, LenProperties, EmptySeq
<1>3. Head(s) = s[1]
  OBVIOUS
<1>4. ToSet(s) = ToSet(Tail(s)) \cup {Head(s)}
  <2>1. ASSUME NEW i \in DOMAIN s PROVE s[i] \in ToSet(Tail(s)) \cup {Head(s)}
    <3>1. CASE i = 1
      BY <1>3, <3>1
    <3>2. CASE i # 1
      <4>1. i - 1 \in DOMAIN Tail(s) /\ Tail(s)[i - 1] = s[i]
        BY <1>1, <1>2, <3>2
      <4> QED BY <4>1 DEF ToSet
    <3> QED BY <3>1, <3>2
  <2>2. ASSUME NEW i \in DOMAIN Tail(s) PROVE Tail(s)[i] \in ToSet(s)
    BY <1>1, <1>2 DEF ToSet
  <2> QED BY <1>2, <1>3, <2>1, <2>2 DEF ToSet
<1>5. ASSUME IsInjective(s), NEW i \in DOMAIN Tail(s)
      PROVE  Tail(s)[i] # Head(s)
  BY <1>1, <1>2, <1>3, <1>5 DEF IsInjective
<1>6. ASSUME IsInjective(s), NEW i \in DOMAIN Tail(s),
             NEW j \in DOMAIN Tail(s), Tail(s)[i] = Tail(s)[j]
      PROVE  i = j
  <2>1. /\ s[i + 1] = s[j + 1] /\ i + 1 \in DOMAIN s /\ j + 1 \in DOMAIN s
        /\ i \in Nat /\ j \in Nat
    BY <1>1, <1>2, <1>6
  <2>2. i + 1 = j + 1
    BY <1>6, <2>1 DEF IsInjective
  <2> QED BY <2>1, <2>2
<1>7. IsInjective(s) => IsInjective(Tail(s))
  BY <1>6 DEF IsInjective
<1>8. IsInjective(s) => Head(s) \notin ToSet(Tail(s))
  BY <1>5 DEF ToSet
<1> QED BY <1>4, <1>7, <1>8

LEMMA QueueOfSet ==
  ASSUME NEW S, IsFiniteSet(S)
  PROVE  /\ SetToSeq(S) \in Seq(S)
         /\ IsInjective(SetToSeq(S)) /\ ToSet(SetToSeq(S)) = S
<1> DEFINE n == Cardinality(S)
<1>1. n \in Nat /\ ExistsBijection(1 .. n, S)
  BY FS_CardinalityType
<1>2. PICK g : g \in [1 .. n -> S] /\ IsInjective(g)
  BY <1>1 DEF ExistsBijection, Bijection, Injection
<1>3. SetToSeq(S) \in [1 .. n -> S] /\ IsInjective(SetToSeq(S))
  BY <1>2 DEF SetToSeq
<1>4. SetToSeq(S) \in Injection(1 .. n, S)
  BY <1>3 DEF Injection
<1>5. Cardinality(1 .. n) = n
  BY <1>1, FS_Interval
<1>6. SetToSeq(S) \in Surjection(1 .. n, S)
  BY <1>4, <1>5, FS_Injection
<1>7. SetToSeq(S) \in Seq(S)
  BY <1>1, <1>3, SeqDef
<1>8. ToSet(SetToSeq(S)) = S
  BY <1>3, <1>6 DEF ToSet, Surjection
<1> QED BY <1>3, <1>7, <1>8

----------------------------------------------------------------------------
(* Types.                                                                  *)

(* The threads are known by their numbers.                                 *)
LEMMA PoolBasics ==
  /\ Pool \in Nat \ {0} /\ 0 \notin Threads
  /\ IsFiniteSet(Threads) /\ Cardinality(Threads) = Pool
BY ConstantsAssumption, FS_Interval DEF Threads

(* What the types leave open: who holds the receiver of the work channel,  *)
(* and when a thread has a target.                                         *)
Shape ==
  /\ IsFiniteSet(targets) /\ targets \subseteq Pops
  /\ \A w \in Threads : job[w] # NoPop <=> pc[w] \in {"probe", "send"}
  /\ \A w \in Threads : pc[w] # "none" => usable /\ main # "start"
  /\ main \in {"spawn", "receive", "quit"} => usable
  /\ main = "start" => results = <<>> /\ (usable => printed = <<>>)
  /\ ~usable => results = <<>>

TypeInv == TypeOK /\ Shape

LEMMA TypeMain == ASSUME TypeInv, Main \/ Quit PROVE TypeInv'
<1> USE DEF TypeInv, TypeOK, Shape, asked, work
<1>0. NoPop \notin targets
  BY ConstantsAssumption
<1>1. CASE Feed
  <2>1. queue' \in Seq(targets)
    BY <1>1, QueueOfSet DEF Feed
  <2> QED BY <1>1, <2>1 DEF Feed
<1>2. CASE Spawn
  <2>1. PICK w \in 1 .. WorkerCount :
          /\ pc[w] = "none" /\ pc' = [pc EXCEPT ![w] = "wait"]
          /\ senders' = senders \cup {w}
    BY <1>2 DEF Spawn
  <2>2. w \in Threads
    BY PoolBasics, FS_CardinalityType DEF WorkerCount, Threads
  <2> QED BY <1>2, <2>1, <2>2 DEF Spawn
<1>3. CASE DropSender
  BY <1>3 DEF DropSender
<1>4. CASE Receive
  <2>1. Head(results) \in targets /\ Tail(results) \in Seq(targets)
    BY <1>4, HeadTailProperties DEF Receive
  <2>2. printed' \in Seq(targets)
    BY <1>4, <2>1, AppendProperties DEF Receive
  <2> QED BY <1>4, <2>1, <2>2 DEF Receive
<1>5. CASE End \/ Quit
  BY <1>5 DEF End, Quit
<1>6. CASE Estimate
  <2>1. printed' \in Seq(targets)
    BY <1>6, AppendProperties DEF Estimate
  <2> QED BY <1>6, <2>1 DEF Estimate
<1> QED BY <1>1, <1>2, <1>3, <1>4, <1>5, <1>6 DEF Main

LEMMA TypeThread ==
  ASSUME TypeInv, NEW w \in Threads, Thread(w)
  PROVE  TypeInv'
<1> USE DEF TypeInv, TypeOK, Shape, asked, work, Goto
<1>0. NoPop \notin targets
  BY ConstantsAssumption
<1>1. CASE Lock(w)
  BY <1>1 DEF Lock
<1>2. CASE Take(w)
  <2>1. Head(queue) \in targets /\ Tail(queue) \in Seq(targets)
    BY <1>2, HeadTailProperties DEF Take
  <2> QED BY <1>0, <1>2, <2>1 DEF Take
<1>3. CASE Drained(w)
  BY <1>3 DEF Drained, Leave
<1>4. CASE Probe(w)
  BY <1>4 DEF Probe
<1>5. CASE Send(w)
  <2>1. pc[w] = "send" /\ job[w] \in targets
    BY <1>5 DEF Send
  <2>2. results' \in Seq(targets)
    <3>1. Append(results, job[w]) \in Seq(targets)
      BY <2>1, AppendProperties
    <3> QED BY <1>5, <3>1 DEF Send
  <2>3. pc' \in [Threads -> {"none", "wait", "recv", "probe", "send", "gone"}]
          /\ senders' \subseteq {0} \cup Threads
    BY <1>5 DEF Send, Leave
  <2>4. \A v \in Threads : job'[v] # NoPop <=> pc'[v] \in {"probe", "send"}
    BY <1>5 DEF Send, Leave
  <2> QED BY <1>5, <2>1, <2>2, <2>3, <2>4 DEF Send, Leave
<1> QED BY <1>1, <1>2, <1>3, <1>4, <1>5 DEF Thread

LEMMA TypeStep == ASSUME TypeInv, [Next]_vars PROVE TypeInv'
<1>1. CASE UNCHANGED vars
  BY <1>1 DEF TypeInv, TypeOK, Shape, vars, asked, work
<1> QED BY <1>1, TypeMain, TypeThread DEF Next

LEMMA TypeInitially == Init => TypeInv
<1> SUFFICES ASSUME Init PROVE TypeInv
  OBVIOUS
<1>1. IsFiniteSet(targets)
  BY ConstantsAssumption, FS_Subset DEF Init
<1> QED BY <1>1, PoolBasics, EmptySeq DEF Init, TypeInv, TypeOK, Shape

LEMMA Types == Spec => []TypeInv
BY TypeInitially, TypeStep, PTL DEF Spec

(* Both channels carry targets only, and no thread sends a result that it  *)
(* does not have.                                                          *)
THEOREM PingTypeCorrect == Spec => []TypeOK
BY Types, PTL DEF TypeInv

----------------------------------------------------------------------------
(* Who started a probe last, or is gone, starts none any more once the     *)
(* caller has left: so there are at least as many as were started late.    *)
Started == {w \in Threads : pc[w] \in {"probe", "send", "gone"}}

Bounded == (main # "quit" => late = 0) /\ late <= Cardinality(Started)

QuitInv == TypeInv /\ Bounded

LEMMA StartedBasics == IsFiniteSet(Started) /\ Cardinality(Started) \in Nat
<1>1. Started \in SUBSET Threads
  BY DEF Started
<1> QED BY <1>1, PoolBasics, FS_Subset, FS_CardinalityType

LEMMA BoundedStep == ASSUME QuitInv, [Next]_vars PROVE Bounded'
<1>0. TypeOK /\ late \in Nat /\ late <= Cardinality(Started)
        /\ (main # "quit" => late = 0)
  BY DEF QuitInv, Bounded, TypeInv, TypeOK
<1>a. IsFiniteSet(Started) /\ IsFiniteSet(Started')
        /\ Cardinality(Started) \in Nat /\ Cardinality(Started') \in Nat
  <2>1. Started' \in SUBSET Threads
    BY DEF Started
  <2> QED BY <2>1, StartedBasics, PoolBasics, FS_Subset, FS_CardinalityType
<1>b. ASSUME Started \subseteq Started', UNCHANGED late,
             main' # "quit" => main # "quit"
      PROVE  Bounded'
  <2>1. Cardinality(Started) <= Cardinality(Started')
    BY <1>a, <1>b, FS_Subset
  <2> QED BY <1>0, <1>a, <1>b, <2>1 DEF Bounded
<1>1. CASE Main \/ Quit
  <2>1. UNCHANGED late /\ (main' # "quit" => main # "quit")
    BY <1>1 DEF Main, Feed, Spawn, DropSender, Receive, End, Estimate, Quit
  <2>2. Started \subseteq Started'
    BY <1>0, <1>1 DEF Main, Feed, Spawn, DropSender, Receive, End, Estimate,
       Quit, TypeOK, Started
  <2> QED BY <1>b, <2>1, <2>2
<1>2. ASSUME NEW w \in Threads, Thread(w) PROVE Bounded'
  <2>1. CASE Take(w)
    <3>1. w \notin Started /\ Started' = Started \cup {w} /\ UNCHANGED main
      BY <1>0, <2>1 DEF Take, Goto, Started, TypeOK
    <3>2. Cardinality(Started') = Cardinality(Started) + 1
      BY <1>a, <3>1, FS_AddElement
    <3>3. late' = IF main = "quit" THEN late + 1 ELSE late
      BY <2>1 DEF Take
    <3> QED BY <1>0, <1>a, <3>1, <3>2, <3>3 DEF Bounded
  <2>2. CASE Send(w) /\ main # "quit"
    BY <1>0, <1>a, <2>2 DEF Send, Bounded
  <2>3. CASE Lock(w) \/ Drained(w) \/ Probe(w) \/ (Send(w) /\ main = "quit")
    <3>1. UNCHANGED <<late, main>>
      BY <2>3 DEF Lock, Drained, Probe, Send
    <3>2. Started \subseteq Started'
      BY <1>0, <2>3 DEF Lock, Drained, Probe, Send, Leave, Goto, Started,
         TypeOK
    <3> QED BY <1>b, <3>1, <3>2
  <2> QED BY <1>2, <2>1, <2>2, <2>3 DEF Thread
<1>3. CASE UNCHANGED vars
  BY <1>3, <1>b DEF vars, Started
<1> QED BY <1>1, <1>2, <1>3 DEF Next

(* However many targets are queued, a caller that leaves is not followed   *)
(* by more probes than there are threads.                                  *)
THEOREM QuitStopsHolds == Spec => []QuitStops
<1>1. Init => QuitInv
  BY TypeInitially, StartedBasics DEF Init, QuitInv, Bounded
<1>2. QuitInv /\ [Next]_vars => QuitInv'
  BY TypeStep, BoundedStep DEF QuitInv
<1>3. QuitInv => QuitStops
  <2>1. Started \in SUBSET Threads
    BY DEF Started
  <2>2. Cardinality(Started) <= Pool
    BY <2>1, PoolBasics, FS_Subset
  <2> QED
    BY <2>2, StartedBasics, PoolBasics
       DEF QuitInv, Bounded, QuitStops, TypeInv, TypeOK
<1> QED BY <1>1, <1>2, <1>3, PTL DEF Spec

----------------------------------------------------------------------------
(* The threads: the main thread's sender is gone when it receives, the     *)
(* others live as long as their threads, and a thread only ends when the   *)
(* queue is empty.                                                         *)
Staffed ==
  /\ main = "receive" =>
       0 \notin senders /\ \A w \in 1 .. WorkerCount : pc[w] # "none"
  /\ \A w \in Threads : w \in senders <=> pc[w] \notin {"none", "gone"}
  /\ main # "quit" => \A w \in Threads : pc[w] = "gone" => queue = <<>>

(* Where a target is: in at most one place, and once it was queued         *)
(* somewhere.                                                              *)
Queued(p)  == p \in ToSet(queue)
Working(p) == \E w \in Threads : job[w] = p
Sent(p)    == p \in ToSet(results)
Said(p)    == p \in ToSet(printed)

Apart ==
  /\ IsInjective(queue) /\ IsInjective(results)
  /\ \A v, w \in Threads : job[v] = job[w] /\ job[v] # NoPop => v = w
  /\ \A p \in targets :
       /\ Queued(p) => ~Working(p) /\ ~Sent(p) /\ ~Said(p)
       /\ Working(p) => ~Sent(p) /\ ~Said(p)
       /\ Sent(p) => ~Said(p)

Account ==
  /\ main = "start" => queue = <<>>
  /\ usable /\ main # "quit" =>
       /\ Apart
       /\ main # "start" =>
            \A p \in targets : Queued(p) \/ Working(p) \/ Sent(p) \/ Said(p)

PoolInv == TypeInv /\ Staffed /\ Account

LEMMA StaffedStep == ASSUME PoolInv, [Next]_vars PROVE Staffed'
<1> USE DEF Staffed
<1>0. TypeOK /\ Shape /\ Staffed /\ (main = "start" => queue = <<>>)
  BY DEF PoolInv, TypeInv, Account
<1>1. CASE Feed
  <2>1. \A w \in Threads : pc[w] = "none"
    BY <1>0, <1>1 DEF Feed, Shape
  <2> QED BY <1>0, <1>1, <2>1 DEF Feed
<1>2. CASE Spawn
  <2>1. PICK w \in 1 .. WorkerCount :
          /\ pc[w] = "none" /\ pc' = [pc EXCEPT ![w] = "wait"]
          /\ senders' = senders \cup {w}
    BY <1>2 DEF Spawn
  <2>2. main' = "spawn" /\ UNCHANGED <<main, queue>>
    BY <1>2 DEF Spawn, work
  <2> QED BY <1>0, <2>1, <2>2 DEF TypeOK
<1>3. CASE DropSender
  <2>1. \A w \in Threads : w \in senders' <=> w \in senders
    BY <1>3, PoolBasics DEF DropSender
  <2>2. UNCHANGED WorkerCount
    BY <1>3 DEF DropSender, WorkerCount, asked
  <2> QED BY <1>0, <1>3, <2>1, <2>2 DEF DropSender, work
<1>4. CASE Receive \/ End \/ Quit \/ Estimate
  <2>1. UNCHANGED <<pc, senders, queue, targets>>
    BY <1>4 DEF Receive, End, Quit, Estimate, work, asked
  <2>2. UNCHANGED WorkerCount
    BY <2>1 DEF WorkerCount
  <2>3. (main' = "receive" => main = "receive")
          /\ (main' # "quit" => main # "quit")
    BY <1>4 DEF Receive, End, Quit, Estimate
  <2> QED BY <1>0, <2>1, <2>2, <2>3
<1>5. ASSUME NEW w \in Threads, Thread(w) PROVE Staffed'
  <2>1. /\ UNCHANGED main /\ UNCHANGED WorkerCount
        /\ \A v \in Threads : v # w => UNCHANGED pc[v]
        /\ pc[w] # "none" /\ pc'[w] # "none"
    BY <1>0, <1>5 DEF Thread, Lock, Take, Drained, Probe, Send, Leave, Goto,
       asked, WorkerCount, TypeOK
  <2>2. /\ \/ pc'[w] # "gone" /\ pc[w] # "gone" /\ UNCHANGED senders
           \/ pc'[w] = "gone" /\ pc[w] # "gone" /\ senders' = senders \ {w}
        /\ main # "quit" /\ pc'[w] = "gone" => queue' = <<>>
    BY <1>0, <1>5 DEF Thread, Lock, Take, Drained, Probe, Send, Leave, Goto,
       work, TypeOK
  <2>3. \/ UNCHANGED queue
        \/ queue # <<>>
    BY <1>5 DEF Thread, Lock, Take, Drained, Probe, Send, work
  <2>4. main = "receive" =>
          0 \notin senders' /\ \A v \in 1 .. WorkerCount : pc'[v] # "none"
    <3>1. WorkerCount \in Nat /\ 1 .. WorkerCount \subseteq Threads
      BY <1>0, FS_CardinalityType, PoolBasics DEF WorkerCount, Threads, Shape
    <3> QED BY <1>0, <2>1, <2>2, <3>1
  <2> QED BY <1>0, <2>1, <2>2, <2>3, <2>4
<1>6. CASE UNCHANGED vars
  <2>1. UNCHANGED <<main, senders, pc, queue, targets>>
    BY <1>6 DEF vars, work, asked
  <2> QED BY <1>0, <2>1 DEF WorkerCount
<1> QED BY <1>1, <1>2, <1>3, <1>4, <1>5, <1>6 DEF Next, Main

LEMMA AccountMain == ASSUME PoolInv, Main \/ Quit PROVE Account'
<1> USE DEF Account
<1>0. TypeOK /\ Shape /\ Account
  BY DEF PoolInv, TypeInv
<1>a. NoPop \notin targets
  BY <1>0, ConstantsAssumption DEF Shape
<1>1. CASE Feed
  <2>1. /\ IsInjective(queue') /\ ToSet(queue') = targets
        /\ results' = <<>> /\ printed' = <<>> /\ main' = "spawn"
        /\ UNCHANGED <<targets, usable, job>>
    BY <1>0, <1>1, QueueOfSet DEF Feed, Shape, asked
  <2>2. \A w \in Threads : job[w] = NoPop
    BY <1>0, <1>1 DEF Feed, Shape
  <2>3. ToSet(<<>>) = {} /\ IsInjective(<<>>)
    BY DEF ToSet, IsInjective
  <2> QED
    BY <1>a, <2>1, <2>2, <2>3 DEF Apart, Queued, Working, Sent, Said
<1>2. CASE Receive
  <2>1. /\ Head(results) \in targets /\ main = "receive" /\ main' = main
        /\ ToSet(printed') = ToSet(printed) \cup {Head(results)}
        /\ ToSet(results) = ToSet(results') \cup {Head(results)}
        /\ IsInjective(results) => /\ IsInjective(results')
                                   /\ Head(results) \notin ToSet(results')
        /\ UNCHANGED <<targets, usable, job, queue>>
    BY <1>0, <1>2, HeadTailProperties, AppendSet, TailSet
       DEF Receive, TypeOK, asked, work
  <2>2. usable => Apart
    BY <1>0, <2>1
  <2> QED BY <1>0, <2>1, <2>2 DEF Apart, Queued, Working, Sent, Said
<1>3. CASE Spawn \/ DropSender \/ End \/ Quit
  <2>1. /\ UNCHANGED <<targets, usable, job, queue, results, printed>>
        /\ main # "start" /\ main' # "start"
        /\ main' # "quit" => main # "quit"
    BY <1>3 DEF Spawn, DropSender, End, Quit, asked, work
  <2> QED BY <1>0, <2>1 DEF Apart, Queued, Working, Sent, Said
<1>4. CASE Estimate
  <2>1. ~usable /\ UNCHANGED <<usable, queue>> /\ main = "start"
    BY <1>4 DEF Estimate, asked, work
  <2> QED BY <1>0, <2>1
<1> QED BY <1>1, <1>2, <1>3, <1>4 DEF Main

LEMMA AccountThread ==
  ASSUME PoolInv, NEW w \in Threads, Thread(w)
  PROVE  Account'
<1> USE DEF Account
<1>0. TypeOK /\ Shape /\ Account /\ NoPop \notin targets
  BY ConstantsAssumption DEF PoolInv, TypeInv, Shape
<1>1. /\ UNCHANGED <<targets, usable, printed, main>>
      /\ usable /\ main # "start"
  <2>1. pc[w] # "none"
    BY DEF Thread, Lock, Take, Drained, Probe, Send
  <2> QED
    BY <1>0, <2>1 DEF Shape, Thread, Lock, Take, Drained, Probe, Send, asked
<1>2. CASE Lock(w) \/ Drained(w) \/ Probe(w)
  <2>1. UNCHANGED <<job, queue, results>>
    BY <1>2 DEF Lock, Drained, Probe, work
  <2> QED BY <1>0, <1>1, <2>1 DEF Apart, Queued, Working, Sent, Said
<1>3. CASE Take(w) /\ main # "quit"
  <2>1. /\ Head(queue) \in targets /\ job[w] = NoPop
        /\ job' = [job EXCEPT ![w] = Head(queue)] /\ UNCHANGED results
        /\ ToSet(queue) = ToSet(queue') \cup {Head(queue)}
        /\ IsInjective(queue) => /\ IsInjective(queue')
                                 /\ Head(queue) \notin ToSet(queue')
    BY <1>0, <1>3, HeadTailProperties, TailSet DEF Take, TypeOK, Shape
  <2>2. /\ job'[w] = Head(queue)
        /\ \A v \in Threads \ {w} : job'[v] = job[v]
    BY <1>0, <2>1 DEF TypeOK
  <2>3. Apart
    BY <1>0, <1>1, <1>3
  <2>4. \A p \in targets : /\ Working(p)' <=> Working(p) \/ p = Head(queue)
                           /\ Queued(p) <=> Queued(p)' \/ p = Head(queue)
                           /\ (Sent(p)' <=> Sent(p)) /\ (Said(p)' <=> Said(p))
    BY <1>0, <1>1, <2>1, <2>2 DEF Working, Queued, Sent, Said
  <2>5. \A u, v \in Threads : job'[u] = job'[v] /\ job'[u] # NoPop => u = v
    <3>1. \A v \in Threads : job[v] # Head(queue)
      BY <2>1, <2>3 DEF Apart, Queued, Working
    <3> QED BY <2>2, <2>3, <3>1 DEF Apart
  <2>6. Apart'
    BY <1>1, <2>1, <2>3, <2>4, <2>5 DEF Apart, Queued
  <2> QED BY <1>0, <1>1, <1>3, <2>4, <2>6
<1>4. CASE Send(w) /\ main # "quit"
  <2>1. /\ job[w] \in targets /\ pc[w] = "send"
        /\ job' = [job EXCEPT ![w] = NoPop] /\ UNCHANGED queue
        /\ results' = Append(results, job[w])
    BY <1>0, <1>4 DEF Send, TypeOK, Shape, work
  <2>2. Apart
    BY <1>0, <1>1, <1>4
  <2>3. ~Sent(job[w]) /\ job[w] \notin ToSet(results)
    BY <2>1, <2>2 DEF Apart, Working, Sent
  <2>4. ToSet(results') = ToSet(results) \cup {job[w]} /\ IsInjective(results')
    BY <1>0, <2>1, <2>2, <2>3, AppendSet DEF TypeOK, Apart
  <2>5. /\ job'[w] = NoPop
        /\ \A v \in Threads \ {w} : job'[v] = job[v] /\ job[v] # job[w]
    BY <1>0, <2>1, <2>2 DEF TypeOK, Apart
  <2>6. \A p \in targets : /\ Working(p) <=> Working(p)' \/ p = job[w]
                           /\ p = job[w] => ~Working(p)'
                           /\ Sent(p)' <=> Sent(p) \/ p = job[w]
                           /\ (Queued(p)' <=> Queued(p))
                           /\ (Said(p)' <=> Said(p))
    BY <1>0, <1>1, <2>1, <2>4, <2>5 DEF Working, Queued, Sent, Said
  <2>7. \A u, v \in Threads : job'[u] = job'[v] /\ job'[u] # NoPop => u = v
    BY <2>2, <2>5 DEF Apart
  <2>8. Apart'
    BY <1>1, <2>1, <2>2, <2>4, <2>6, <2>7 DEF Apart
  <2> QED BY <1>0, <1>1, <1>4, <2>6, <2>8
<1>5. CASE main = "quit"
  BY <1>1, <1>5
<1> QED BY <1>2, <1>3, <1>4, <1>5 DEF Thread

LEMMA Pools == Spec => []PoolInv
<1>1. Init => PoolInv
  <2> SUFFICES ASSUME Init PROVE Staffed /\ Account
    BY TypeInitially DEF PoolInv
  <2>1. Staffed
    BY PoolBasics DEF Init, Staffed
  <2>2. ToSet(<<>>) = {} /\ IsInjective(<<>>)
    BY DEF ToSet, IsInjective
  <2>3. \A p \in targets : p # NoPop
    BY ConstantsAssumption DEF Init
  <2> QED
    BY <2>1, <2>2, <2>3 DEF Init, Account, Apart, Queued, Working, Sent, Said
<1>2. PoolInv /\ [Next]_vars => PoolInv'
  <2> SUFFICES ASSUME PoolInv, [Next]_vars PROVE Account'
    BY TypeStep, StaffedStep DEF PoolInv
  <2>1. CASE UNCHANGED vars
    <3>1. UNCHANGED <<targets, usable, job, queue, results, printed, main>>
      BY <2>1 DEF vars, asked, work
    <3> QED
      BY <3>1 DEF PoolInv, Account, Apart, Queued, Working, Sent, Said
  <2> QED BY <2>1, AccountMain, AccountThread DEF Next
<1> QED BY <1>1, <1>2, PTL DEF Spec

----------------------------------------------------------------------------
(* The refinement: every step is an answer, the end, the caller's leaving, *)
(* or changes nothing that it can see.                                     *)
LEMMA Answering ==
  ASSUME PoolInv, [Next]_vars
  PROVE  [Promise!Next]_(Promise!answers)
<1>0. TypeOK /\ Shape /\ Staffed /\ Account
  BY DEF PoolInv, TypeInv
<1> DEFINE Left == targets \ ToSet(printed)
           Over == IF main \in {"ended", "quit"} THEN main ELSE "no"
           Hung == IF usable THEN hung ELSE {}
<1>a. ASSUME UNCHANGED <<targets, usable, hung, printed, Over>>
      PROVE  UNCHANGED Promise!answers
  BY <1>a DEF Promise!answers
<1>b. ASSUME NEW p \in Left, Over = "no", printed' = Append(printed, p),
             UNCHANGED <<targets, usable, hung, Over>>
      PROVE  Promise!Next
  <2>1. ToSet(printed') = ToSet(printed) \cup {p}
    BY <1>0, <1>b, AppendSet DEF TypeOK
  <2>2. Left' = Left \ {p}
    BY <1>b, <2>1
  <2>3. p \in Pops
    BY <1>0 DEF TypeOK
  <2> QED BY <1>b, <2>2, <2>3 DEF Promise!Next, Promise!Answer
<1>c. ASSUME Left = {}, Over = "no", main' = "ended",
             UNCHANGED <<targets, usable, hung, printed>>
      PROVE  Promise!Next
  BY <1>c DEF Promise!Next, Promise!End
<1>1. CASE Feed \/ Spawn \/ DropSender
  <2>1. UNCHANGED <<targets, usable, hung, printed, Over>>
    BY <1>1 DEF Feed, Spawn, DropSender, asked
  <2> QED BY <1>a, <2>1
<1>2. CASE Receive
  <2>1. main = "receive" /\ Sent(Head(results)) /\ Head(results) \in targets
    BY <1>0, <1>2, HeadTailProperties, TailSet DEF Receive, TypeOK, Sent
  <2>2. Head(results) \in Left
    BY <1>0, <2>1 DEF Shape, Account, Apart, Said
  <2> QED BY <1>2, <1>b, <2>1, <2>2 DEF Receive, asked
<1>3. CASE End
  <2>1. /\ main = "receive" /\ usable /\ results = <<>> /\ senders = {}
    BY <1>0, <1>3 DEF End, Shape
  <2>2. \A w \in Threads : pc[w] \in {"none", "gone"} /\ job[w] = NoPop
    BY <1>0, <2>1 DEF Staffed, Shape
  <2>3. ASSUME NEW p \in targets PROVE queue = <<>>
    <3>1. Cardinality(targets) \in Nat \ {0}
      BY <1>0, <2>3, FS_CardinalityType, FS_EmptySet DEF Shape
    <3>2. 1 \in Threads /\ 1 \in 1 .. WorkerCount
      BY <3>1, PoolBasics DEF Threads, WorkerCount
    <3> QED BY <1>0, <2>1, <2>2, <3>2 DEF Staffed
  <2>4. \A p \in targets : Said(p)
    <3>1. ToSet(<<>>) = {}
      BY DEF ToSet
    <3>2. \A p \in targets : p # NoPop
      BY <1>0, ConstantsAssumption DEF Shape
    <3> QED
      BY <1>0, <2>1, <2>2, <2>3, <3>1, <3>2
         DEF Account, Queued, Working, Sent
  <2> QED BY <1>3, <1>c, <2>1, <2>4 DEF End, Said, asked
<1>4. CASE Quit
  BY <1>4 DEF Quit, asked, Promise!Next, Promise!Quit
<1>5. CASE Estimate
  <2>1. CASE \E p \in targets \ ToSet(printed) :
               printed' = Append(printed, p) /\ UNCHANGED main
    BY <1>5, <1>b, <2>1 DEF Estimate, asked
  <2>2. CASE targets \subseteq ToSet(printed) /\ main' = "ended"
               /\ UNCHANGED printed
    BY <1>5, <1>c, <2>2 DEF Estimate, asked
  <2> QED BY <1>5, <2>1, <2>2 DEF Estimate
<1>6. CASE \E w \in Threads : Thread(w)
  <2>1. UNCHANGED <<targets, usable, hung, printed, Over>>
    BY <1>6 DEF Thread, Lock, Take, Drained, Probe, Send, asked
  <2> QED BY <1>a, <2>1
<1>7. CASE UNCHANGED vars
  <2>1. UNCHANGED <<targets, usable, hung, printed, Over>>
    BY <1>7 DEF vars, asked
  <2> QED BY <1>a, <2>1
<1> QED BY <1>1, <1>2, <1>3, <1>4, <1>5, <1>6, <1>7 DEF Next, Main

(* The safety of KeepsPromise: however the threads interleave, no target   *)
(* is answered twice, and the answers end only after the last one.         *)
THEOREM AnswersOnce ==
  Spec => Promise!Init /\ [][Promise!Next]_(Promise!answers)
<1>1. Init => Promise!Init
  <2>1. ToSet(<<>>) = {}
    BY DEF ToSet
  <2> QED BY <2>1 DEF Init, Promise!Init
<1>2. PoolInv /\ [Next]_vars => [Promise!Next]_(Promise!answers)
  BY Answering
<1> QED BY <1>1, <1>2, Pools, PTL DEF Spec

----------------------------------------------------------------------------
(* The lock: a thread has the receiver exactly while it is in recv, and    *)
(* the channel is closed before there is a thread.                         *)
Locked ==
  /\ \A w \in Threads : pc[w] = "recv" <=> mutex = w
  /\ main # "start" /\ usable => ~open

LockInv == TypeInv /\ Locked

LEMMA LockedStep == ASSUME LockInv, [Next]_vars PROVE Locked'
<1>0. TypeOK /\ Shape /\ Locked /\ 0 \notin Threads
  BY PoolBasics DEF LockInv, TypeInv
<1>1. CASE Feed
  BY <1>0, <1>1 DEF Feed, Locked, asked
<1>2. CASE Spawn
  <2>1. PICK w \in Threads : pc[w] = "none" /\ pc' = [pc EXCEPT ![w] = "wait"]
    <3>1. WorkerCount \in Nat /\ 1 .. WorkerCount \subseteq Threads
      BY <1>0, FS_CardinalityType, PoolBasics DEF WorkerCount, Threads, Shape
    <3> QED BY <1>2, <3>1 DEF Spawn
  <2>2. UNCHANGED <<main, usable, open, mutex>>
    BY <1>2 DEF Spawn, asked, work
  <2> QED BY <1>0, <2>1, <2>2 DEF Locked, TypeOK
<1>3. CASE DropSender \/ Receive \/ End \/ Quit \/ Estimate
  <2>1. /\ UNCHANGED <<usable, open, mutex, pc>>
        /\ main' # "start" /\ usable => main # "start"
    BY <1>3 DEF DropSender, Receive, End, Quit, Estimate, asked, work
  <2> QED BY <1>0, <2>1 DEF Locked
<1>4. ASSUME NEW w \in Threads, Thread(w) PROVE Locked'
  <2>1. UNCHANGED <<main, usable, open>>
    BY <1>4 DEF Thread, Lock, Take, Drained, Probe, Send, asked, work
  <2>2. /\ \A v \in Threads \ {w} : pc'[v] = pc[v]
        /\ \/ pc'[w] = "recv" /\ mutex = 0 /\ mutex' = w
           \/ pc'[w] # "recv" /\ mutex = w /\ mutex' = 0
           \/ pc'[w] # "recv" /\ mutex # w /\ mutex' = mutex
    BY <1>0, <1>4 DEF Thread, Lock, Take, Drained, Probe, Send, Leave, Goto,
                      work, TypeOK, Locked
  <2> QED BY <1>0, <2>1, <2>2 DEF Locked
<1>5. CASE UNCHANGED vars
  BY <1>0, <1>5 DEF vars, asked, work, Locked
<1> QED BY <1>1, <1>2, <1>3, <1>4, <1>5 DEF Next, Main

(* The pool never locks up: whichever thread has the receiver can take a   *)
(* target or leave, and so gives the receiver back, for any number of      *)
(* threads and POPs and whichever `ping` hangs.                            *)
THEOREM NeverStuckHolds == Spec => []NeverStuck
<1>1. Init => LockInv
  BY TypeInitially, PoolBasics DEF Init, LockInv, Locked
<1>2. LockInv /\ [Next]_vars => LockInv'
  BY TypeStep, LockedStep DEF LockInv
<1>3. LockInv => NeverStuck
  <2> SUFFICES ASSUME LockInv, NEW w \in Threads
               PROVE  /\ pc[w] = "recv" =>
                           mutex = w /\ (queue # <<>> \/ ~open)
                      /\ pc[w] = "wait" => mutex = 0 \/ pc[mutex] = "recv"
    BY DEF NeverStuck
  <2>1. mutex \in {0} \cup Threads
    BY DEF LockInv, TypeInv, TypeOK
  <2>2. pc[w] # "none" => usable /\ main # "start"
    BY DEF LockInv, TypeInv, Shape
  <2> QED BY <2>1, <2>2 DEF LockInv, Locked
<1> QED BY <1>1, <1>2, <1>3, PTL DEF Spec
=============================================================================
