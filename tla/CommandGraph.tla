---------------------------- MODULE CommandGraph ----------------------------
(***************************************************************************)
(* sg-gpu/src/graph.rs: command graphs recorded once and submitted many    *)
(* times, and what the GPU may do with them.  A recorded dispatch reads    *)
(* and writes buffers; a pipeline barrier orders everything before it, in  *)
(* submission order, before everything after it, and nothing else orders   *)
(* two dispatches.  The host submits one graph and blocks on its fence.    *)
(***************************************************************************)
EXTENDS Naturals, Sequences

CONSTANTS
  Buffer,  \* device buffers
  Graphs   \* what the program records: by name, a sequence of dispatch calls

(* A dispatch call, and whether it was made with `dispatch` (auto) or with  *)
(* `dispatch_overlapping`.                                                  *)
Accesses(d) == d.reads \cup d.writes

Conflicting(d, e) ==
  \/ d.writes \cap Accesses(e) # {}
  \/ e.writes \cap Accesses(d) # {}

(* The contract of dispatch_overlapping: "independent dispatches that may   *)
(* legitimately overlap".                                                   *)
OverlapSafe(g) ==
  \A i, j \in 1 .. Len(g) :
    (j < i /\ Conflicting(g[j], g[i])) => \E k \in j + 1 .. i : g[k].auto

ASSUME GraphsAssumption ==
  \A n \in DOMAIN Graphs :
    LET g == Graphs[n]
    IN  /\ Len(g) \in Nat /\ DOMAIN g = 1 .. Len(g)
        /\ \A i \in 1 .. Len(g) :
             /\ g[i].reads \subseteq Buffer /\ g[i].writes \subseteq Buffer
             /\ g[i].auto \in BOOLEAN
        /\ OverlapSafe(g)

VARIABLES
  queue,     \* the recorded dispatches submitted last, in submission order
  started,   \* those the GPU has begun
  finished,  \* those it has finished
  host,      \* "ready", or "waiting" for the fence of a submission
  overrun    \* history variable: the host has touched a buffer or submitted
             \* again while the GPU was still running an earlier submission

queueVars == <<queue, started, finished, host, overrun>>

Init ==
  /\ queue = <<>> /\ started = {} /\ finished = {}
  /\ host = "ready"
  /\ overrun = FALSE

Indices == 1 .. Len(queue)
Drained == finished = Indices

(* Mutant: the barrier is left out before the second dispatch, too. *)
BarrierAfterTwo(g, i) == g[i].auto /\ i > 2

(* record_dispatch: auto_barrier && self.dispatched > 0. *)
BarrierBefore(g, i) == g[i].auto /\ i > 1

Recorded(n) ==
  [i \in 1 .. Len(Graphs[n]) |->
     [graph |-> n, at |-> i, barrier |-> BarrierBefore(Graphs[n], i)]]

(* The dispatch call behind entry i of the queue.                           *)
CallAt(i) == Graphs[queue[i].graph][queue[i].at]

-----------------------------------------------------------------------------
(* submit_and_wait: queue the command buffer ...                            *)
Submit(n) ==
  /\ host = "ready"
  /\ host' = "waiting"
  /\ IF Drained
       THEN /\ queue' = Recorded(n)
            /\ started' = {} /\ finished' = {}
            /\ UNCHANGED overrun
       ELSE /\ queue' = queue \o Recorded(n)
            /\ overrun' = TRUE
            /\ UNCHANGED <<started, finished>>

(* ... and block until the fence is signalled ...                           *)
WaitReturns ==
  /\ host = "waiting"
  /\ Drained
  /\ host' = "ready"
  /\ UNCHANGED <<queue, started, finished, overrun>>

(* ... or until wait_for_fences fails, which does not stop the GPU.         *)
WaitFails ==
  /\ host = "waiting"
  /\ host' = "ready"
  /\ UNCHANGED <<queue, started, finished, overrun>>

(* Buffer::write between submissions: nothing asks whether the buffer is    *)
(* still in use.                                                            *)
HostWrite ==
  /\ host = "ready"
  /\ overrun' = (overrun \/ ~Drained)
  /\ UNCHANGED <<queue, started, finished, host>>

-----------------------------------------------------------------------------
(* The GPU. *)

Ordered(j, i) == \E k \in j + 1 .. i : queue[k].barrier

Start(i) ==
  /\ i \notin started
  /\ \A j \in (1 .. i - 1) \ finished : ~Ordered(j, i)
  /\ started' = started \cup {i}
  /\ UNCHANGED <<queue, finished, host, overrun>>

Finish(i) ==
  /\ i \in started \ finished
  /\ finished' = finished \cup {i}
  /\ UNCHANGED <<queue, started, host, overrun>>

Next ==
  \/ \E n \in DOMAIN Graphs : Submit(n)
  \/ WaitReturns
  \/ WaitFails
  \/ HostWrite
  \/ \E i \in Indices : Start(i) \/ Finish(i)

Spec == Init /\ [][Next]_queueVars

-----------------------------------------------------------------------------
(* Two dispatches that touch the same data run in submission order, one     *)
(* after the other, as long as the host leaves a running submission alone:  *)
(* recorded barriers are enough, across graphs too.                         *)
ConflictsOrdered ==
  ~overrun =>
    \A i \in started : \A j \in (1 .. i - 1) \ finished : ~Conflicting(CallAt(j), CallAt(i))
=============================================================================
