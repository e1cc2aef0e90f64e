------------------------------- MODULE Duplex -------------------------------
(***************************************************************************)
(* What an FTL channel promises its two users, without handles, readiness  *)
(* or processes: a pair of ends, each with a bounded FIFO inbox.  What one *)
(* end sends is appended to the inbox of the other end, in order, exactly  *)
(* once, while the pair is open.  Closing is final and takes nothing out   *)
(* of an inbox: what was sent before can still be received.                *)
(* (docs/learn/channel.md, and the comments of ftl1/kernel/src/channel.rs) *)
(***************************************************************************)
EXTENDS Naturals, Sequences

CONSTANTS Ends, Other, Data, QUEUE_LEN_MAX

VARIABLES
  inbox,  \* end -> the data it has not received yet
  open    \* the ends that are connected to their peer

dvars == <<inbox, open>>

DInit ==
  /\ inbox = [e \in Ends |-> <<>>]
  /\ open \in SUBSET Ends
  /\ \A e \in open : Other[e] \in open

DCreate(e) ==
  /\ e \notin open
  /\ Other[e] \notin open
  /\ inbox[e] = <<>>
  /\ inbox[Other[e]] = <<>>
  /\ open' = open \cup {e, Other[e]}
  /\ UNCHANGED inbox

DSend(e, d) ==
  /\ e \in open
  /\ Len(inbox[Other[e]]) < QUEUE_LEN_MAX
  /\ inbox' = [inbox EXCEPT ![Other[e]] = Append(@, d)]
  /\ UNCHANGED open

DRecv(e) ==
  /\ inbox[e] # <<>>
  /\ inbox' = [inbox EXCEPT ![e] = Tail(@)]
  /\ UNCHANGED open

DClose(e) ==
  /\ e \in open
  /\ open' = open \ {e, Other[e]}
  /\ UNCHANGED inbox

DNext ==
  \E e \in Ends : \/ DCreate(e)
                  \/ \E d \in Data : DSend(e, d)
                  \/ DRecv(e)
                  \/ DClose(e)

DSpec == DInit /\ [][DNext]_dvars
=============================================================================
