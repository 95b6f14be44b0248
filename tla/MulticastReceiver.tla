-------------------------- MODULE MulticastReceiver --------------------------
(***************************************************************************)
(* subscriber/MulticastReceiver: the receivers of one feed of a channel,   *)
(* snapshota and snapshotb for instance.  Each keeps itself going by a     *)
(* chain of asynchronous receives: the handler of one starts the next.     *)
(* ChannelImpl joins and leaves the receivers of a feed together, from     *)
(* inside a handler of this or of another feed.                            *)
(*                                                                         *)
(* boost::asio is external.  A receive fills data_ when a datagram is      *)
(* there, and its handler runs later on the io_service's one thread;       *)
(* other handlers may come in between.  close() cancels the receives that  *)
(* wait, but not the handlers that are due.  The handler of a cancelled    *)
(* receive, or of one started on a closed socket, gets an error and does   *)
(* nothing: it has no step here.                                           *)
(*                                                                         *)
(* Join and Leave throw when the system refuses what they ask of it, and   *)
(* nothing in the program catches that: the process ends, and the system   *)
(* closes its sockets.                                                     *)
(***************************************************************************)
EXTENDS Integers, Sequences

CONSTANTS
  Receivers,     \* the receivers of the feed
  MaxDatagrams   \* bound: how many datagrams reach each of them

ASSUME ReceiverAssumption == MaxDatagrams \in Nat

VARIABLES
  joined,      \* MulticastReceiver::joined_; the socket is open just then
  data,        \* data_, as the number of the datagram in it, 0 at first
  arrived,     \* how many datagrams have reached the receiver
  inbox,       \* those waiting in the socket
  receiving,   \* how many receives wait on the socket
  ready,       \* how many handlers of completed receives are due
  terminated,  \* std::terminate was called
  handed,      \* history variable: the datagrams passed to callback_
  failed,      \* history variable: a receive ended in an error of its own
  overlapped   \* history variable: Join met a handler due from before Leave

socketVars   == <<arrived, inbox, receiving, ready, data>>
historyVars  == <<handed, failed, overlapped>>
receiverVars == <<joined, socketVars, terminated, historyVars>>

All(value) == [r \in Receivers |-> value]
-----------------------------------------------------------------------------
(* MulticastReceiver.                                                      *)

\* Mutants: no receive is started, or two are.
ReceiveNext_Never(r) == UNCHANGED receiving

ReceiveNext_Twice(r) ==
  receiving' = IF joined[r] THEN [receiving EXCEPT ![r] = @ + 2] ELSE receiving

\* async_receive_from, which comes to nothing on a closed socket.
ReceiveNext(r) ==
  receiving' = IF joined[r] THEN [receiving EXCEPT ![r] = @ + 1] ELSE receiving

\* Mutant: the socket stays open.
Leave_Open ==
  /\ joined' = All(FALSE)
  /\ UNCHANGED <<inbox, receiving>>

\* Leave, of all receivers of the feed.
Leave ==
  /\ joined' = All(FALSE)
  /\ inbox' = All(<< >>)
  /\ receiving' = All(0)

\* Mutant: no receive is started.
Join_NoReceive ==
  /\ joined' = All(TRUE)
  /\ failed' = [r \in Receivers |-> failed[r] /\ joined[r]]
  /\ UNCHANGED <<socketVars, handed, overlapped>>

\* Join, of all receivers of the feed.
Join ==
  /\ joined' = All(TRUE)
  /\ receiving' = [r \in Receivers |-> IF joined[r] THEN receiving[r]
                                                    ELSE receiving[r] + 1]
  /\ overlapped' = [r \in Receivers |->
                      overlapped[r] \/ (~joined[r] /\ ready[r] > 0)]
  /\ failed' = [r \in Receivers |-> failed[r] /\ joined[r]]
  /\ UNCHANGED <<data, arrived, inbox, ready, handed>>

\* HandleReceiveFrom without an error.  What the packet makes ChannelImpl do
\* to its own feed is nothing, or leave it: then the next receive is started
\* on a closed socket.
Receive(r) ==
  /\ ready[r] > 0
  /\ ready' = [ready EXCEPT ![r] = @ - 1]
  /\ handed' = [handed EXCEPT ![r] = Append(@, data[r])]
  /\ UNCHANGED <<data, arrived, terminated, failed, overlapped>>

HandleReceiveFrom(r) ==
  /\ Receive(r)
  /\ ReceiveNext(r)
  /\ UNCHANGED <<joined, inbox>>

HandleReceiveFromAndLeave(r) ==
  /\ Receive(r)
  /\ Leave

\* Mutant: the error is not looked at.
HandleError_Ignored(r) ==
  /\ receiving[r] > 0
  /\ handed' = [handed EXCEPT ![r] = Append(@, data[r])]
  /\ UNCHANGED <<joined, socketVars, terminated, failed, overlapped>>

\* HandleReceiveFrom with an error that is not of Leave's making: neither
\* the packet is handed on nor a receive started.
HandleError(r) ==
  /\ receiving[r] > 0
  /\ receiving' = [receiving EXCEPT ![r] = @ - 1]
  /\ failed' = [failed EXCEPT ![r] = TRUE]
  /\ UNCHANGED <<joined, arrived, inbox, ready, data, terminated, handed,
                 overlapped>>

\* A handler of another feed joins or leaves this one.
StartFeed == ~terminated /\ Join /\ UNCHANGED terminated
StopFeed  == Leave /\ UNCHANGED <<data, arrived, ready, terminated, historyVars>>

\* open, set_option, bind or close throws, in a Join or Leave of this feed or
\* of another one that the same process has, and std::terminate is called.
Terminate ==
  /\ ~terminated
  /\ terminated' = TRUE
  /\ Leave
  /\ ready' = All(0)
  /\ UNCHANGED <<data, arrived, historyVars>>
-----------------------------------------------------------------------------
(* The socket.                                                             *)

Arrive(r) ==
  /\ joined[r] /\ arrived[r] < MaxDatagrams
  /\ arrived' = [arrived EXCEPT ![r] = @ + 1]
  /\ inbox' = [inbox EXCEPT ![r] = Append(@, arrived[r] + 1)]
  /\ UNCHANGED <<joined, receiving, ready, data, terminated, historyVars>>

Complete(r) ==
  /\ receiving[r] > 0 /\ inbox[r] # << >>
  /\ data' = [data EXCEPT ![r] = Head(inbox[r])]
  /\ inbox' = [inbox EXCEPT ![r] = Tail(@)]
  /\ receiving' = [receiving EXCEPT ![r] = @ - 1]
  /\ ready' = [ready EXCEPT ![r] = @ + 1]
  /\ UNCHANGED <<joined, arrived, terminated, historyVars>>
-----------------------------------------------------------------------------
ReceiverInit ==
  /\ joined = All(FALSE)
  /\ data = All(0)
  /\ arrived = All(0)
  /\ inbox = All(<< >>)
  /\ receiving = All(0)
  /\ ready = All(0)
  /\ terminated = FALSE
  /\ handed = All(<< >>)
  /\ failed = All(FALSE)
  /\ overlapped = All(FALSE)

ReceiverNext ==
  \/ StartFeed
  \/ StopFeed
  \/ Terminate
  \/ \E r \in Receivers :
       \/ HandleReceiveFrom(r)
       \/ HandleReceiveFromAndLeave(r)
       \/ Arrive(r)
       \/ Complete(r)
       \/ HandleError(r)

(* io_service::run calls the handlers that are due, and completes a        *)
(* receive that has a datagram to take.                                    *)
Fairness ==
  \A r \in Receivers :
    /\ WF_receiverVars(HandleReceiveFrom(r) \/ HandleReceiveFromAndLeave(r))
    /\ WF_receiverVars(Complete(r))

ReceiverSpec == ReceiverInit /\ [][ReceiverNext]_receiverVars /\ Fairness
-----------------------------------------------------------------------------
(* Properties.                                                             *)

(* The type of every variable; what is handed on is a datagram, never the  *)
(* buffer as it was before the first receive.                              *)
ReceiverTypeOK ==
  /\ joined     \in [Receivers -> BOOLEAN]
  /\ data       \in [Receivers -> Nat]
  /\ arrived    \in [Receivers -> Nat]
  /\ inbox      \in [Receivers -> Seq(Nat)]
  /\ receiving  \in [Receivers -> Nat]
  /\ ready      \in [Receivers -> Nat]
  /\ terminated \in BOOLEAN
  /\ handed     \in [Receivers -> Seq(Nat \ {0})]
  /\ failed     \in [Receivers -> BOOLEAN]
  /\ overlapped \in [Receivers -> BOOLEAN]

(* A receiver that says it is active is: unless a receive failed since it  *)
(* joined, one is waiting or a handler is due that will start the next,    *)
(* whatever was joined and left in between, also from inside the handler   *)
(* itself.  What ChannelImpl takes IsSnapshotFeedActive to mean.           *)
ActiveReceives ==
  \A r \in Receivers : joined[r] /\ ~failed[r] => receiving[r] + ready[r] > 0

(* A receiver has one chain of receives and not two, unless it was joined  *)
(* again while a handler was still due from before it was left: then that  *)
(* handler starts a second chain, which shares data_ with the first.       *)
OneChain ==
  \A r \in Receivers : ~overlapped[r] => receiving[r] + ready[r] <= 1

(* With one chain no datagram is handed on twice or after a later one:     *)
(* data_ is never filled again between a receive and its handler.          *)
HandedInOrder ==
  \A r \in Receivers : ~overlapped[r] =>
    \A m, n \in 1 .. Len(handed[r]) : m < n => handed[r][m] < handed[r][n]

(* A datagram that is in a socket is taken out of it, by a handler or by   *)
(* leaving the feed, unless a receive failed.                              *)
InboxIsEmptied ==
  \A r \in Receivers : inbox[r] # << >> ~> inbox[r] = << >> \/ failed[r]
=============================================================================
