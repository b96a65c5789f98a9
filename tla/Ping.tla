-------------------------------- MODULE Ping --------------------------------
(***************************************************************************)
(* ping::probe and its caller, `regionlock ping`: a pool of threads that   *)
(* take targets from a shared queue, run one `ping` process each and send  *)
(* the answer over a channel whose receiver the main thread reads.  Both   *)
(* channels end by reference counting: recv fails, and so a loop ends,     *)
(* when the last sender is dropped and nothing is left in the channel.     *)
(*                                                                         *)
(* A measurement is known by its POP: whether `ping` answered or not only  *)
(* decides what is printed for it.                                         *)
(***************************************************************************)
EXTENDS Naturals, Sequences, FiniteSets, SequencesExt

CONSTANTS Pops,   \* blockable POPs a feed may have
          Pool,   \* the largest number of threads, 8 in the code
          Silent, \* POPs whose `ping` process may never exit
          NoPop   \* no target

ASSUME ConstantsAssumption ==
  /\ IsFiniteSet(Pops) /\ NoPop \notin Pops
  /\ Pool \in Nat \ {0}
  /\ Silent \subseteq Pops /\ Cardinality(Silent) < Pool

VARIABLES
  targets,   \* the POPs asked about
  usable,    \* ping_available: `ping` runs and may send
  hung,      \* the POPs among Silent whose `ping` never exits this time
  queue,     \* the work channel
  open,      \* work_tx is alive
  mutex,     \* the thread that has the receiver of the work channel, or 0
  pc,        \* pc[w]: the next step of thread w, "none" before the spawn
  job,       \* job[w]: the target it works on
  results,   \* the result channel
  senders,   \* who holds a clone of results_tx; 0 is the main thread
  main,      \* the next step of the main thread
  printed,   \* the answers it gave
  late       \* history: probes started after the caller left

asked == <<targets, usable, hung>>
work  == <<queue, open, mutex>>
vars  == <<asked, work, pc, job, results, senders, main, printed, late>>

Threads == 1 .. Pool

Init ==
  /\ targets \in SUBSET Pops
  /\ usable \in BOOLEAN
  /\ hung \in SUBSET (targets \cap Silent)
  /\ queue = <<>> /\ open = TRUE /\ mutex = 0
  /\ pc = [w \in Threads |-> "none"]
  /\ job = [w \in Threads |-> NoPop]
  /\ results = <<>> /\ senders = {0}
  /\ main = "start"
  /\ printed = <<>>
  /\ late = 0

----------------------------------------------------------------------------
(* The main thread.                                                        *)

(* targets.len().min(8) *)
WorkerCount ==
  IF Cardinality(targets) < Pool THEN Cardinality(targets) ELSE Pool

(* Mutated form of Feed: work_tx stays alive. *)
FeedKeepsOpen ==
  /\ main = "start" /\ usable
  /\ queue' = SetToSeq(targets)
  /\ main' = "spawn"
  /\ UNCHANGED <<asked, open, mutex, pc, job, results, senders,
                 printed, late>>

(* Every target is queued and work_tx dropped before a thread exists. *)
Feed ==
  /\ main = "start" /\ usable
  /\ queue' = SetToSeq(targets)
  /\ open' = FALSE
  /\ main' = "spawn"
  /\ UNCHANGED <<asked, mutex, pc, job, results, senders, printed,
                 late>>

Spawn ==
  /\ main = "spawn"
  /\ \E w \in 1 .. WorkerCount :
       /\ pc[w] = "none"
       /\ \A v \in 1 .. w - 1 : pc[v] # "none"
       /\ pc' = [pc EXCEPT ![w] = "wait"]
       /\ senders' = senders \cup {w}
  /\ UNCHANGED <<asked, work, job, results, main, printed, late>>

(* drop(results_tx), and probe returns the receiver. *)
DropSender ==
  /\ main = "spawn"
  /\ \A w \in 1 .. WorkerCount : pc[w] # "none"
  /\ senders' = senders \ {0}
  /\ main' = "receive"
  /\ UNCHANGED <<asked, work, pc, job, results, printed, late>>

Receive ==
  /\ main = "receive"
  /\ results # <<>>
  /\ printed' = Append(printed, Head(results))
  /\ results' = Tail(results)
  /\ UNCHANGED <<asked, work, pc, job, senders, main, late>>

(* The iterator ends: nothing to receive, and nobody left to send. *)
End ==
  /\ main = "receive"
  /\ results = <<>> /\ senders = {}
  /\ main' = "ended"
  /\ UNCHANGED <<asked, work, pc, job, results, senders, printed,
                 late>>

(* The caller drops the receiver: `println!` panicked. *)
Quit ==
  /\ main = "receive"
  /\ main' = "quit"
  /\ UNCHANGED <<asked, work, pc, job, results, senders, printed,
                 late>>

(* No usable `ping`: one estimate, or "unknown", for each target in turn. *)
Estimate ==
  /\ main = "start" /\ ~usable
  /\ \/ \E p \in targets \ ToSet(printed) :
          printed' = Append(printed, p) /\ UNCHANGED main
     \/ /\ targets \subseteq ToSet(printed)
        /\ main' = "ended"
        /\ UNCHANGED printed
  /\ UNCHANGED <<asked, work, pc, job, results, senders, late>>

----------------------------------------------------------------------------
(* A thread of the pool.                                                   *)

Goto(w, step) == pc' = [pc EXCEPT ![w] = step]

Lock(w) ==
  /\ pc[w] = "wait"
  /\ mutex = 0
  /\ mutex' = w
  /\ Goto(w, "recv")
  /\ UNCHANGED <<asked, queue, open, job, results, senders, main,
                 printed, late>>

(* Mutated form of Take: the guard lives as long as the loop body. *)
TakeHoldsLock(w) ==
  /\ pc[w] = "recv" /\ queue # <<>>
  /\ job' = [job EXCEPT ![w] = Head(queue)]
  /\ queue' = Tail(queue)
  /\ late' = late
  /\ Goto(w, "probe")
  /\ UNCHANGED <<asked, open, mutex, results, senders, main, printed>>

(* recv under the lock, which is released before the probe starts. *)
Take(w) ==
  /\ pc[w] = "recv" /\ queue # <<>>
  /\ job' = [job EXCEPT ![w] = Head(queue)]
  /\ queue' = Tail(queue)
  /\ mutex' = 0
  /\ late' = IF main = "quit" THEN late + 1 ELSE late
  /\ Goto(w, "probe")
  /\ UNCHANGED <<asked, open, results, senders, main, printed>>

(* The closure ends and its clone of results_tx is dropped. *)
Leave(w) ==
  /\ senders' = senders \ {w}
  /\ Goto(w, "gone")

(* The queue is empty and closed; empty and open, recv would block. *)
Drained(w) ==
  /\ pc[w] = "recv" /\ queue = <<>> /\ ~open
  /\ mutex' = 0
  /\ Leave(w)
  /\ UNCHANGED <<asked, queue, open, job, results, main, printed,
                 late>>

(* probe_one: the `ping` process exits, or could not be started. *)
Probe(w) ==
  /\ pc[w] = "probe"
  /\ job[w] \notin hung
  /\ Goto(w, "send")
  /\ UNCHANGED <<asked, work, job, results, senders, main, printed,
                 late>>

(* Mutated form of Send: a thread goes on when nobody listens. *)
SendIgnoresError(w) ==
  /\ pc[w] = "send"
  /\ results' = IF main = "quit" THEN results ELSE Append(results, job[w])
  /\ job' = [job EXCEPT ![w] = NoPop]
  /\ Goto(w, "wait")
  /\ UNCHANGED <<asked, work, senders, main, printed, late>>

(* Mutated form of Send: the target is taken out before it is sent. *)
SendTaken(w) ==
  /\ pc[w] = "send"
  /\ job' = [job EXCEPT ![w] = NoPop]
  /\ results' = Append(results, job'[w])
  /\ Goto(w, "wait")
  /\ UNCHANGED <<asked, work, senders, main, printed, late>>

(* send fails when the receiver is gone, and the thread ends. *)
Send(w) ==
  /\ pc[w] = "send"
  /\ job' = [job EXCEPT ![w] = NoPop]
  /\ \/ /\ main # "quit"
        /\ results' = Append(results, job[w])
        /\ Goto(w, "wait")
        /\ UNCHANGED senders
     \/ /\ main = "quit"
        /\ Leave(w)
        /\ UNCHANGED results
  /\ UNCHANGED <<asked, work, main, printed, late>>

----------------------------------------------------------------------------
Main == Feed \/ Spawn \/ DropSender \/ Receive \/ End \/ Estimate
Thread(w) == Lock(w) \/ Take(w) \/ Drained(w) \/ Probe(w) \/ Send(w)

Next == Main \/ Quit \/ \E w \in Threads : Thread(w)

(* The scheduler runs every thread that can run; `ping` exits by itself,   *)
(* as its -W bounds the wait, unless it is one of hung.                    *)
Spec ==
  /\ Init /\ [][Next]_vars
  /\ WF_vars(Main)
  /\ \A w \in Threads : WF_vars(Thread(w))

----------------------------------------------------------------------------
(* Properties.                                                             *)

TypeOK ==
  /\ targets \in SUBSET Pops /\ usable \in BOOLEAN /\ hung \in SUBSET targets
  /\ queue \in Seq(targets) /\ results \in Seq(targets)
  /\ printed \in Seq(targets)
  /\ open \in BOOLEAN /\ mutex \in {0} \cup Threads
  /\ pc \in [Threads -> {"none", "wait", "recv", "probe", "send", "gone"}]
  /\ job \in [Threads -> targets \cup {NoPop}]
  /\ senders \subseteq {0} \cup Threads
  /\ main \in {"start", "spawn", "receive", "ended", "quit"}
  /\ late \in Nat

(* Measured or estimated, every target is answered exactly once and then   *)
(* the loop of the caller ends: it neither waits for a sender that nobody  *)
(* drops nor stops before the last thread has sent.  A `ping` that never   *)
(* exits keeps the loop from ending, but delays no other answer.           *)
Promise == INSTANCE Answers WITH
             left   <- targets \ ToSet(printed),
             silent <- IF usable THEN hung ELSE {},
             out    <- printed,
             over   <- IF main \in {"ended", "quit"} THEN main ELSE "no"

KeepsPromise == Promise!Spec

(* When the caller ends or leaves early no thread is left behind, waiting  *)
(* for the lock or in recv; only one whose `ping` never exits is.          *)
ThreadsEnd ==
  main \in {"ended", "quit"} ~>
    \A w \in Threads : pc[w] \in {"none", "gone"} \/ job[w] \in hung

(* A caller that left is noticed: each thread starts at most one more      *)
(* probe, however long the queue is. *)
QuitStops == late <= Pool

(* No thread waits for what nobody gives: the receiver is held only by a   *)
(* thread that is in recv, where there is a target to take or the channel  *)
(* is closed, and so it is free again at that thread's next step.          *)
NeverStuck ==
  \A w \in Threads :
    /\ pc[w] = "recv" => mutex = w /\ (queue # <<>> \/ ~open)
    /\ pc[w] = "wait" => mutex = 0 \/ pc[mutex] = "recv"
=============================================================================
