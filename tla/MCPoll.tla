------------------------------- MODULE MCPoll -------------------------------
(* Instances of Poll for TLC: one boot thread, one spawned thread, and the *)
(* objects a run is about.                                                 *)
EXTENDS Poll

CONSTANTS main, worker, p1, p2, ch, timer, irq

(* A channel, a timer and the worker thread.  No handle names the          *)
(* interrupt: it only gets the CPU out of arch::idle().                    *)
MCObject == [i \in Ids |-> CASE i = 1 -> ch [] i = 2 -> timer [] i = 3 -> worker]

(* As EventLoop is used: every thread has a poll of its own. *)
OwnPolls == {<<main, p1>>, <<worker, p2>>}

(* Only main polls; the worker emits, exits and is closed. *)
MainPoll == {<<main, p1>>}

(* Both threads wait on the same poll. *)
SharedPoll == {main, worker} \X {p1}

(* add_channel's mask, and the WRITABLE of the documented way to wait for  *)
(* room in the peer's queue.                                               *)
MCMasks == {{"READABLE", "PEER_CLOSED"}, {"WRITABLE"}}

(* The bit of add_timer and the bit of add_thread; neither object raises   *)
(* the other one's.                                                        *)
WaitMasks == {{"READABLE", "PEER_CLOSED"}}

(* The state without event and removed, which no action reads: enough for  *)
(* invariants that do not mention them.                                    *)
ThreadView == <<handles, latest, listeners, polls, state, promise, runqueue,
                current, mode, halted>>
=============================================================================
