----------------------- MODULE MulticastReceiverProofs -----------------------
(***************************************************************************)
(* MulticastReceiver keeps its promises for any set of receivers and any   *)
(* number of datagrams.                                                    *)
(***************************************************************************)
EXTENDS MulticastReceiver, SequenceTheorems, TLAPS

Due(r) == ready[r] > 0

Increasing(s) == \A m, n \in 1 .. Len(s) : m < n => s[m] < s[n]

(* The inductive invariant.  Nothing waits on a closed socket; the         *)
(* datagrams in a socket are younger than the one in data_, and those      *)
(* handed on are older, or as old once the handler has run.                *)
ClosedIsIdle ==
  \A r \in Receivers : ~joined[r] => receiving[r] = 0

SocketOrdered ==
  \A r \in Receivers :
    /\ data[r] <= arrived[r]
    /\ Increasing(inbox[r])
    /\ \A k \in 1 .. Len(inbox[r]) : data[r] < inbox[r][k] /\ inbox[r][k] <= arrived[r]

DataIsYoungest ==
  \A r \in Receivers :
    /\ Due(r) => data[r] > 0
    /\ \A k \in 1 .. Len(handed[r]) : handed[r][k] <= data[r]
    /\ ~overlapped[r] /\ Due(r) =>
         \A k \in 1 .. Len(handed[r]) : handed[r][k] < data[r]

HandedIncreasing ==
  \A r \in Receivers : ~overlapped[r] => Increasing(handed[r])

Inv ==
  /\ ReceiverTypeOK
  /\ ClosedIsIdle
  /\ ActiveReceives
  /\ OneChain
  /\ SocketOrdered
  /\ DataIsYoungest
  /\ HandedIncreasing

(* Appending to, and taking the head from, a sequence of numbers.          *)
LEMMA AppendIncreasing ==
  ASSUME NEW s \in Seq(Nat), NEW x \in Nat, Increasing(s),
         \A k \in 1 .. Len(s) : s[k] < x
  PROVE  Increasing(Append(s, x))
  BY DEF Increasing

LEMMA AppendBounded ==
  ASSUME NEW s \in Seq(Nat), NEW x \in Nat, NEW low \in Nat, NEW high \in Nat,
         \A k \in 1 .. Len(s) : low <= s[k] /\ s[k] <= high,
         low <= x, x <= high
  PROVE  \A k \in 1 .. Len(Append(s, x)) :
           low <= Append(s, x)[k] /\ Append(s, x)[k] <= high
  OBVIOUS

LEMMA TailIncreasing ==
  ASSUME NEW s \in Seq(Nat), s # << >>, Increasing(s)
  PROVE  /\ Head(s) \in Nat /\ Tail(s) \in Seq(Nat)
         /\ Increasing(Tail(s))
         /\ \A k \in 1 .. Len(Tail(s)) : Head(s) < Tail(s)[k]
         /\ \A k \in 1 .. Len(Tail(s)) : Tail(s)[k] = s[k + 1]
         /\ Head(s) = s[1] /\ 1 \in 1 .. Len(s)
  BY DEF Increasing

(* Nothing has happened at first.                                          *)
LEMMA Start == ReceiverInit => Inv
  <1> SUFFICES ASSUME ReceiverInit PROVE Inv
    OBVIOUS
  <1>1. terminated \in BOOLEAN
    BY DEF ReceiverInit
  <1>2. /\ joined = [r \in Receivers |-> FALSE] /\ failed = joined /\ overlapped = joined
        /\ data = [r \in Receivers |-> 0] /\ arrived = data /\ receiving = data
        /\ ready = data
        /\ inbox = [r \in Receivers |-> << >>] /\ handed = inbox
    BY DEF ReceiverInit, All
  <1>3. ReceiverTypeOK
    BY <1>1, <1>2 DEF ReceiverTypeOK
  <1>4. ClosedIsIdle /\ ActiveReceives /\ OneChain
    BY <1>2 DEF ClosedIsIdle, ActiveReceives, OneChain
  <1>5. SocketOrdered /\ DataIsYoungest /\ HandedIncreasing
    <2>1. \A r \in Receivers : /\ data[r] = 0 /\ arrived[r] = 0 /\ ready[r] = 0
                               /\ Len(inbox[r]) = 0 /\ Len(handed[r]) = 0
      BY <1>2
    <2> QED
      BY <2>1 DEF SocketOrdered, DataIsYoungest, HandedIncreasing, Increasing, Due
  <1> QED
    BY <1>3, <1>4, <1>5 DEF Inv

(* Joining starts a receive on every socket it opens.                      *)
LEMMA StartFeedKeeps == Inv /\ StartFeed => Inv'
  <1> SUFFICES ASSUME Inv, StartFeed PROVE Inv'
    OBVIOUS
  <1> USE DEF Inv, ReceiverTypeOK, StartFeed, Join, All
  <1>1. ReceiverTypeOK'
    OBVIOUS
  <1>2. ClosedIsIdle' /\ ActiveReceives' /\ OneChain'
    <2>1. ClosedIsIdle'
      BY DEF ClosedIsIdle
    <2>2. ActiveReceives'
      BY DEF ActiveReceives
    <2>3. ASSUME NEW r \in Receivers, ~overlapped'[r]
          PROVE  receiving'[r] + ready'[r] <= 1
      <3>1. ~overlapped[r] /\ ready'[r] = ready[r]
        BY <2>3
      <3>2. CASE joined[r]
        BY <3>1, <3>2 DEF OneChain
      <3>3. CASE ~joined[r]
        <4>1. overlapped'[r] = (overlapped[r] \/ (~joined[r] /\ ready[r] > 0))
          OBVIOUS
        <4>2. receiving[r] = 0
          BY <3>3 DEF ClosedIsIdle
        <4>3. ready[r] = 0
          <5>1. ~(ready[r] > 0)
            BY <2>3, <3>3, <4>1, Zenon
          <5> QED
            BY <5>1
        <4> QED
          BY <3>1, <3>3, <4>2, <4>3
      <3> QED
        BY <3>2, <3>3
    <2> QED
      BY <2>1, <2>2, <2>3 DEF OneChain
  <1>3. SocketOrdered'
    BY DEF SocketOrdered
  <1>4. DataIsYoungest'
    BY DEF DataIsYoungest, Due
  <1>5. HandedIncreasing'
    BY DEF HandedIncreasing
  <1> QED
    BY <1>1, <1>2, <1>3, <1>4, <1>5

(* Leaving closes every socket, and the handlers that are due stay due.    *)
LEMMA StopFeedKeeps == Inv /\ StopFeed => Inv'
  <1> SUFFICES ASSUME Inv, StopFeed PROVE Inv'
    OBVIOUS
  <1> USE DEF Inv, ReceiverTypeOK, StopFeed, Leave, All, historyVars
  <1>1. ReceiverTypeOK'
    OBVIOUS
  <1>2. ClosedIsIdle' /\ ActiveReceives' /\ OneChain'
    BY DEF ClosedIsIdle, ActiveReceives, OneChain
  <1>3. SocketOrdered'
    BY DEF SocketOrdered, Increasing
  <1>4. DataIsYoungest'
    BY DEF DataIsYoungest, Due
  <1>5. HandedIncreasing'
    BY DEF HandedIncreasing
  <1> QED
    BY <1>1, <1>2, <1>3, <1>4, <1>5

(* The process that ends leaves nothing behind.                            *)
LEMMA TerminateKeeps == Inv /\ Terminate => Inv'
  <1> SUFFICES ASSUME Inv, Terminate PROVE Inv'
    OBVIOUS
  <1> USE DEF Inv, ReceiverTypeOK, Terminate, Leave, All, historyVars
  <1>1. ReceiverTypeOK'
    OBVIOUS
  <1>2. ClosedIsIdle' /\ ActiveReceives' /\ OneChain'
    BY DEF ClosedIsIdle, ActiveReceives, OneChain
  <1>3. SocketOrdered'
    BY DEF SocketOrdered, Increasing
  <1>4. DataIsYoungest'
    BY DEF DataIsYoungest, Due
  <1>5. HandedIncreasing'
    BY DEF HandedIncreasing
  <1> QED
    BY <1>1, <1>2, <1>3, <1>4, <1>5

(* What is handed on is what data_ holds, and with one chain no handler is *)
(* due after that.                                                         *)
LEMMA ReceiveKeeps ==
  ASSUME Inv, NEW r \in Receivers, Receive(r)
  PROVE  /\ handed' \in [Receivers -> Seq(Nat \ {0})]
         /\ ready' \in [Receivers -> Nat]
         /\ DataIsYoungest'
         /\ HandedIncreasing'
  <1> USE DEF Inv, ReceiverTypeOK, Receive
  <1>1. data[r] \in Nat \ {0}
    BY DEF DataIsYoungest, Due
  <1>2. handed' \in [Receivers -> Seq(Nat \ {0})] /\ ready' \in [Receivers -> Nat]
    BY <1>1
  <1>3. ASSUME NEW q \in Receivers
        PROVE  /\ Due(q)' => data'[q] > 0
               /\ \A k \in 1 .. Len(handed'[q]) : handed'[q][k] <= data'[q]
               /\ ~overlapped'[q] /\ Due(q)' =>
                    \A k \in 1 .. Len(handed'[q]) : handed'[q][k] < data'[q]
               /\ ~overlapped'[q] => Increasing(handed'[q])
    <2>1. CASE q # r
      <3>1. /\ handed'[q] = handed[q] /\ ready'[q] = ready[q]
            /\ data'[q] = data[q] /\ overlapped'[q] = overlapped[q]
        BY <2>1
      <3>2. /\ Due(q) => data[q] > 0
            /\ \A k \in 1 .. Len(handed[q]) : handed[q][k] <= data[q]
            /\ ~overlapped[q] /\ Due(q) =>
                 \A k \in 1 .. Len(handed[q]) : handed[q][k] < data[q]
            /\ ~overlapped[q] => Increasing(handed[q])
        BY DEF DataIsYoungest, HandedIncreasing
      <3> HIDE DEF Inv, ReceiverTypeOK, Receive
      <3> QED
        BY <3>1, <3>2 DEF Due, Increasing
    <2>2. CASE q = r
      <3>1. handed'[r] = Append(handed[r], data[r]) /\ handed[r] \in Seq(Nat)
        <4>1. /\ handed \in [Receivers -> Seq(Nat \ {0})]
              /\ handed' = [handed EXCEPT ![r] = Append(@, data[r])]
          OBVIOUS
        <4> HIDE DEF Inv, ReceiverTypeOK, Receive
        <4> QED
          BY <4>1
      <3>2. \A k \in 1 .. Len(handed[r]) : handed[r][k] <= data[r]
        BY DEF DataIsYoungest
      <3>3. \A k \in 1 .. Len(handed'[r]) : handed'[r][k] <= data[r]
        <4> HIDE DEF Inv, ReceiverTypeOK, Receive
        <4>1. \A k \in 1 .. Len(handed[r]) : 0 <= handed[r][k] /\ handed[r][k] <= data[r]
          BY <3>1, <3>2
        <4> QED
          BY <1>1, <3>1, <4>1, AppendBounded
      <3>4. ASSUME ~overlapped[r] PROVE ~Due(r)' /\ Increasing(handed'[r])
        <4>1. ready'[r] = 0
          BY <3>4 DEF OneChain
        <4>2. /\ Increasing(handed[r])
              /\ \A k \in 1 .. Len(handed[r]) : handed[r][k] < data[r]
          BY <3>4 DEF HandedIncreasing, DataIsYoungest, Due
        <4>3. Increasing(Append(handed[r], data[r]))
          BY <1>1, <3>1, <4>2, AppendIncreasing
        <4> QED
          BY <3>1, <4>1, <4>3 DEF Due
      <3> QED
        BY <1>1, <2>2, <3>3, <3>4
    <2> QED
      BY <2>1, <2>2
  <1> QED
    BY <1>2, <1>3 DEF DataIsYoungest, HandedIncreasing

LEMMA HandleReceiveFromKeeps ==
  ASSUME Inv, NEW r \in Receivers, HandleReceiveFrom(r)
  PROVE  Inv'
  <1> USE DEF HandleReceiveFrom
  <1>1. DataIsYoungest' /\ HandedIncreasing'
    BY ReceiveKeeps
  <1>2. /\ ready' = [ready EXCEPT ![r] = @ - 1] /\ ready[r] > 0
        /\ receiving' = IF joined[r] THEN [receiving EXCEPT ![r] = @ + 1] ELSE receiving
        /\ UNCHANGED <<joined, data, arrived, inbox, terminated, failed, overlapped>>
    BY DEF Receive, ReceiveNext
  <1>3. receiving' \in [Receivers -> Nat] /\ ready' \in [Receivers -> Nat]
    BY <1>2 DEF Inv, ReceiverTypeOK
  <1>4. ReceiverTypeOK'
    <2>1. handed' \in [Receivers -> Seq(Nat \ {0})]
      BY ReceiveKeeps
    <2> QED
      BY <1>2, <1>3, <2>1 DEF Inv, ReceiverTypeOK
  <1>5. ClosedIsIdle'
    BY <1>2 DEF Inv, ReceiverTypeOK, ClosedIsIdle
  <1>6. ActiveReceives'
    BY <1>2 DEF Inv, ReceiverTypeOK, ActiveReceives
  <1>7. OneChain'
    BY <1>2 DEF Inv, ReceiverTypeOK, OneChain
  <1>8. SocketOrdered'
    BY <1>2 DEF Inv, SocketOrdered
  <1> QED
    BY <1>1, <1>4, <1>5, <1>6, <1>7, <1>8 DEF Inv

LEMMA HandleReceiveFromAndLeaveKeeps ==
  ASSUME Inv, NEW r \in Receivers, HandleReceiveFromAndLeave(r)
  PROVE  Inv'
  <1> USE DEF HandleReceiveFromAndLeave
  <1>1. DataIsYoungest' /\ HandedIncreasing'
    BY ReceiveKeeps
  <1>2. ReceiverTypeOK'
    <2>1. /\ handed' \in [Receivers -> Seq(Nat \ {0})]
          /\ ready' \in [Receivers -> Nat]
      BY ReceiveKeeps
    <2> QED
      BY <2>1 DEF Inv, ReceiverTypeOK, Receive, Leave, All
  <1>3. ClosedIsIdle' /\ ActiveReceives' /\ OneChain'
    BY DEF Inv, ReceiverTypeOK, Receive, Leave, All, ClosedIsIdle,
           ActiveReceives, OneChain
  <1>4. SocketOrdered'
    BY DEF Inv, Receive, Leave, All, SocketOrdered, Increasing
  <1> QED
    BY <1>1, <1>2, <1>3, <1>4 DEF Inv

LEMMA HandleErrorKeeps ==
  ASSUME Inv, NEW r \in Receivers, HandleError(r)
  PROVE  Inv'
  <1> USE DEF HandleError, Inv, ReceiverTypeOK
  <1>1. ReceiverTypeOK'
    OBVIOUS
  <1>2. ClosedIsIdle' /\ ActiveReceives' /\ OneChain'
    BY DEF ClosedIsIdle, ActiveReceives, OneChain
  <1>3. SocketOrdered' /\ DataIsYoungest' /\ HandedIncreasing'
    BY DEF SocketOrdered, DataIsYoungest, HandedIncreasing, Due
  <1> QED
    BY <1>1, <1>2, <1>3

LEMMA ArriveKeeps ==
  ASSUME Inv, NEW r \in Receivers, Arrive(r)
  PROVE  Inv'
  <1> USE DEF Arrive, Inv, ReceiverTypeOK, historyVars
  <1>1. ReceiverTypeOK'
    OBVIOUS
  <1>2. ClosedIsIdle' /\ ActiveReceives' /\ OneChain'
    BY DEF ClosedIsIdle, ActiveReceives, OneChain
  <1>3. DataIsYoungest' /\ HandedIncreasing'
    BY DEF DataIsYoungest, HandedIncreasing, Due
  <1>4. ASSUME NEW q \in Receivers
        PROVE  /\ data'[q] <= arrived'[q]
               /\ Increasing(inbox'[q])
               /\ \A k \in 1 .. Len(inbox'[q]) :
                    data'[q] < inbox'[q][k] /\ inbox'[q][k] <= arrived'[q]
    <2>1. CASE q # r
      BY <2>1 DEF SocketOrdered
    <2>2. CASE q = r
      <3>1. /\ inbox'[r] = Append(inbox[r], arrived[r] + 1)
            /\ arrived'[r] = arrived[r] + 1 /\ data'[r] = data[r]
            /\ inbox[r] \in Seq(Nat) /\ arrived[r] \in Nat /\ data[r] \in Nat
        OBVIOUS
      <3>2. /\ Increasing(inbox[r]) /\ data[r] <= arrived[r]
            /\ \A k \in 1 .. Len(inbox[r]) : data[r] < inbox[r][k] /\ inbox[r][k] <= arrived[r]
        BY DEF SocketOrdered
      <3> HIDE DEF Arrive, Inv, ReceiverTypeOK
      <3>3. \A k \in 1 .. Len(inbox[r]) : inbox[r][k] < arrived[r] + 1
        BY <3>1, <3>2
      <3>4. Increasing(Append(inbox[r], arrived[r] + 1))
        <4>1. arrived[r] + 1 \in Nat
          BY <3>1
        <4> QED
          BY <3>1, <3>2, <3>3, <4>1, AppendIncreasing
      <3>5. \A k \in 1 .. Len(inbox'[r]) :
              data'[r] < inbox'[r][k] /\ inbox'[r][k] <= arrived'[r]
        BY <3>1, <3>2
      <3> QED
        BY <2>2, <3>1, <3>2, <3>4, <3>5
    <2> QED
      BY <2>1, <2>2
  <1> QED
    BY <1>1, <1>2, <1>3, <1>4 DEF SocketOrdered

(* The datagram that moves from the socket to data_ is younger than what   *)
(* data_ held, and than everything handed on.                              *)
LEMMA CompleteKeeps ==
  ASSUME Inv, NEW r \in Receivers, Complete(r)
  PROVE  Inv'
  <1> USE DEF Complete, Inv, ReceiverTypeOK, historyVars
  <1>1. /\ Head(inbox[r]) \in Nat /\ Tail(inbox[r]) \in Seq(Nat)
        /\ Increasing(Tail(inbox[r]))
        /\ \A k \in 1 .. Len(Tail(inbox[r])) :
             /\ Head(inbox[r]) < Tail(inbox[r])[k]
             /\ Tail(inbox[r])[k] <= arrived[r]
        /\ data[r] < Head(inbox[r]) /\ Head(inbox[r]) <= arrived[r]
    BY TailIncreasing DEF SocketOrdered
  <1>2. ReceiverTypeOK'
    <2>1. data' \in [Receivers -> Nat] /\ inbox' \in [Receivers -> Seq(Nat)]
      BY <1>1
    <2>2. receiving' \in [Receivers -> Nat] /\ ready' \in [Receivers -> Nat]
      <3>1. /\ receiving \in [Receivers -> Nat] /\ receiving[r] > 0
            /\ receiving' = [receiving EXCEPT ![r] = @ - 1]
            /\ ready \in [Receivers -> Nat]
            /\ ready' = [ready EXCEPT ![r] = @ + 1]
        OBVIOUS
      <3> HIDE DEF Complete, Inv, ReceiverTypeOK
      <3>2. receiving[r] - 1 \in Nat /\ ready[r] + 1 \in Nat
        BY <3>1
      <3> QED
        BY <3>1, <3>2
    <2>3. UNCHANGED <<joined, arrived, terminated, handed, failed, overlapped>>
      OBVIOUS
    <2> QED
      BY <2>1, <2>2, <2>3
  <1>3. ClosedIsIdle' /\ ActiveReceives' /\ OneChain'
    BY DEF ClosedIsIdle, ActiveReceives, OneChain
  <1>4. SocketOrdered'
    BY <1>1 DEF SocketOrdered
  <1>5. HandedIncreasing'
    BY DEF HandedIncreasing
  <1>6. ASSUME NEW q \in Receivers
        PROVE  /\ Due(q)' => data'[q] > 0
               /\ \A k \in 1 .. Len(handed'[q]) : handed'[q][k] <= data'[q]
               /\ ~overlapped'[q] /\ Due(q)' =>
                    \A k \in 1 .. Len(handed'[q]) : handed'[q][k] < data'[q]
    <2>1. CASE q # r
      BY <2>1 DEF DataIsYoungest, Due
    <2>2. CASE q = r
      <3>1. /\ data'[r] = Head(inbox[r]) /\ data[r] \in Nat /\ data'[r] \in Nat
            /\ handed' = handed /\ handed[r] \in Seq(Nat \ {0})
        BY <1>1
      <3>2. \A k \in 1 .. Len(handed[r]) : handed[r][k] <= data[r]
        BY DEF DataIsYoungest
      <3> HIDE DEF Complete, Inv, ReceiverTypeOK
      <3>3. \A k \in 1 .. Len(handed[r]) : handed[r][k] \in Nat
        BY <3>1
      <3>4. data[r] < data'[r]
        BY <1>1, <3>1
      <3>5. ASSUME NEW k \in 1 .. Len(handed[r])
            PROVE  handed[r][k] < data'[r]
        <4>1. handed[r][k] \in Nat /\ handed[r][k] <= data[r]
          BY <3>2, <3>3
        <4>2. data[r] \in Nat /\ data'[r] \in Nat
          BY <3>1
        <4> QED
          BY <3>4, <4>1, <4>2
      <3> QED
        BY <1>1, <2>2, <3>1, <3>3, <3>5
    <2> QED
      BY <2>1, <2>2
  <1> QED
    BY <1>2, <1>3, <1>4, <1>5, <1>6 DEF DataIsYoungest

LEMMA StutterKeeps == Inv /\ UNCHANGED receiverVars => Inv'
  BY DEF Inv, receiverVars, socketVars, historyVars, ReceiverTypeOK, ClosedIsIdle,
         ActiveReceives, OneChain, SocketOrdered, DataIsYoungest, HandedIncreasing,
         Due

LEMMA Invariance == ReceiverSpec => []Inv
  <1>1. Inv /\ [ReceiverNext]_receiverVars => Inv'
    BY StartFeedKeeps, StopFeedKeeps, TerminateKeeps, HandleReceiveFromKeeps,
       HandleReceiveFromAndLeaveKeeps, HandleErrorKeeps, ArriveKeeps,
       CompleteKeeps, StutterKeeps DEF ReceiverNext
  <1> QED
    BY <1>1, Start, PTL DEF ReceiverSpec
-----------------------------------------------------------------------------
(* Every variable has its type, and no handler sees data_ unfilled.        *)
THEOREM ReceiverTypeCorrect == ReceiverSpec => []ReceiverTypeOK
  <1>1. Inv => ReceiverTypeOK
    BY DEF Inv
  <1> QED
    BY <1>1, Invariance, PTL

(* A receiver whose IsActive says TRUE goes on receiving, unless a receive *)
(* failed: the snapshot feed that ChannelImpl takes for joined is.         *)
THEOREM ActiveMeansReceiving == ReceiverSpec => []ActiveReceives
  <1>1. Inv => ActiveReceives
    BY DEF Inv
  <1> QED
    BY <1>1, Invariance, PTL

(* Joining again while a handler is due is the only way to a second chain  *)
(* of receives.                                                            *)
THEOREM NoSecondChain == ReceiverSpec => []OneChain
  <1>1. Inv => OneChain
    BY DEF Inv
  <1> QED
    BY <1>1, Invariance, PTL

(* Without that, HandleReceiveFrom passes every datagram on at most once,  *)
(* and in the order in which the datagrams arrived.                        *)
THEOREM DatagramsInOrder == ReceiverSpec => []HandedInOrder
  <1>1. Inv => HandedInOrder
    BY DEF Inv, HandedIncreasing, HandedInOrder, Increasing
  <1> QED
    BY <1>1, Invariance, PTL
=============================================================================
