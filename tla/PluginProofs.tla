---------------------------- MODULE PluginProofs ----------------------------
(***************************************************************************)
(* The life of the plugin's thread, for any receivers and any number of    *)
(* switches between feeds.                                                 *)
(***************************************************************************)
EXTENDS Plugin, TLAPS

Busy(r) == receiving[r] > 0 \/ ready[r] > 0 \/ r \in handling

(* The inductive invariant.  While the thread lives, the instrument feed   *)
(* or the incremental feed is joined, and every receiver that is joined    *)
(* and has not failed has a receive or a handler under way.                *)
StoppedWhenTold == stopped = told

LateWhenTold == late = 0 \/ (late = 1 /\ told /\ handling = {})

HandlesInRun ==
  /\ handling # {} => pc = "running"
  /\ pc = "make" => joined = {} /\ \A r \in Receivers : ready[r] = 0
  /\ pc = "none" => joined = {} /\ \A r \in Receivers : ready[r] = 0

OnAir ==
  pc \in {"run", "running"} =>
    /\ Instrument \subseteq joined \/ Incremental \subseteq joined
    /\ \A r \in joined \ failed : Busy(r)

Inv ==
  /\ PluginTypeOK
  /\ StoppedWhenTold
  /\ LateWhenTold
  /\ HandlesInRun
  /\ OnAir

(* Whatever a handler makes of the feeds, the receivers joined afterwards  *)
(* receive, unless they failed before and were kept.                       *)
LEMMA SwitchKeepsReceiving ==
  ASSUME PluginTypeOK, NEW r \in Receivers, handling = {r}, handling' = {},
         NEW left \in SUBSET Receivers, NEW new \in SUBSET Receivers,
         \A q \in joined \ failed : Busy(q), ready' = ready,
         Switch(r, left, new)
  PROVE  /\ joined' \subseteq Receivers
         /\ receiving' \in [Receivers -> Nat]
         /\ \A q \in Receivers : receiving'[q] > 0 => q \in joined'
         /\ failed' \subseteq joined'
         /\ \A q \in joined' \ failed' : Busy(q)'
<1>1. joined' = (joined \ left) \cup new /\ joined' \subseteq Receivers
  BY DEF Switch, PluginTypeOK
<1>2. failed' \subseteq joined'
  BY DEF Switch, PluginTypeOK
<1>3. \A q \in Receivers :
        receiving'[q] = (IF q \in left THEN 0 ELSE receiving[q])
                          + (IF q \in new \ (joined \ left) THEN 1 ELSE 0)
                          + (IF q = r /\ q \in joined' THEN 1 ELSE 0)
  BY DEF Switch
<1>4. receiving \in [Receivers -> Nat] /\ ready \in [Receivers -> Nat]
  BY DEF PluginTypeOK
<1>5. receiving' \in [Receivers -> Nat]
  <2>1. receiving' = [q \in Receivers |-> receiving'[q]]
    BY DEF Switch
  <2>2. \A q \in Receivers : receiving'[q] \in Nat
    BY <1>3, <1>4
  <2> QED BY <2>1, <2>2
<1>6. ASSUME NEW q \in Receivers, receiving'[q] > 0
      PROVE  q \in joined'
  <2>1. receiving[q] > 0 => q \in joined
    BY DEF PluginTypeOK
  <2> QED BY <1>1, <1>3, <1>4, <1>6, <2>1
<1>7. ASSUME NEW q \in joined' \ failed'
      PROVE  Busy(q)'
  <2>0. q \in Receivers
    BY <1>1
  <2>1. CASE q = r
    BY <1>3, <1>4, <1>7, <2>0, <2>1 DEF Busy
  <2>2. CASE q \in new \ (joined \ left)
    BY <1>3, <1>4, <2>0, <2>2 DEF Busy
  <2>3. CASE q # r /\ q \notin new \ (joined \ left)
    <3>1. q \in joined \ left /\ q \notin failed
      BY <1>1, <1>7, <2>3 DEF Switch
    <3>2. receiving[q] > 0 \/ ready[q] > 0
      BY <2>3, <3>1 DEF Busy
    <3>3. receiving'[q] = receiving[q]
      BY <1>3, <1>4, <2>0, <2>3, <3>1
    <3> QED BY <3>2, <3>3 DEF Busy
  <2> QED BY <2>1, <2>2, <2>3
<1> QED BY <1>1, <1>2, <1>5, <1>6, <1>7

LEMMA HandlerEndsKeeps ==
  ASSUME Inv, NEW r \in Receivers, HandlerEnds(r)
  PROVE  Inv'
<1> USE DEF Inv
<1>1. /\ pc = "running" /\ pc' = pc /\ stopped' = stopped /\ told' = told
      /\ handling = {r} /\ handling' = {} /\ ready' = ready
  BY DEF HandlerEnds, HandlesInRun
<1>2. PICK left \in SUBSET Receivers, new \in SUBSET Receivers :
        /\ Switch(r, left, new)
        /\ Instrument \subseteq joined' \/ Incremental \subseteq joined'
        /\ rejoins' \in 0 .. MaxRejoins
  <2>1. rejoins \in 0 .. MaxRejoins /\ MaxRejoins \in Nat
    BY PluginAssumption DEF PluginTypeOK
  <2>2. Instrument \subseteq joined \/ Incremental \subseteq joined
    BY <1>1 DEF OnAir
  <2>3. CASE FinishDownload(r)
    <3>1. Switch(r, Instrument, Incremental \cup Snapshot) /\ rejoins' = rejoins
      BY <2>3 DEF FinishDownload
    <3>2. Incremental \subseteq joined'
      BY <3>1 DEF Switch
    <3> QED BY <2>1, <3>1, <3>2 DEF Receivers
  <2>4. CASE EndRecovery(r)
    <3>1. Switch(r, Snapshot, {}) /\ rejoins' = rejoins
      BY <2>4 DEF EndRecovery
    <3>2. Instrument \subseteq joined' \/ Incremental \subseteq joined'
      BY <2>2, <3>1, PluginAssumption DEF Switch
    <3> QED BY <2>1, <3>1, <3>2 DEF Receivers
  <2>5. CASE StartRecovery(r)
    <3>1. /\ Switch(r, Snapshot, Snapshot)
          /\ rejoins < MaxRejoins /\ rejoins' = rejoins + 1
      BY <2>5 DEF StartRecovery
    <3>2. Instrument \subseteq joined' \/ Incremental \subseteq joined'
      BY <2>2, <3>1, PluginAssumption DEF Switch
    <3>3. rejoins' \in 0 .. MaxRejoins
      BY <2>1, <3>1
    <3> QED BY <3>1, <3>2, <3>3 DEF Receivers
  <2>6. CASE KeepFeeds(r)
    <3>1. Switch(r, {}, {}) /\ rejoins' = rejoins
      BY <2>6 DEF KeepFeeds
    <3>2. Instrument \subseteq joined' \/ Incremental \subseteq joined'
      BY <2>2, <3>1 DEF Switch
    <3> QED BY <2>1, <3>1, <3>2
  <2> QED BY <2>3, <2>4, <2>5, <2>6 DEF HandlerEnds
<1>3. /\ joined' \subseteq Receivers
      /\ receiving' \in [Receivers -> Nat]
      /\ \A q \in Receivers : receiving'[q] > 0 => q \in joined'
      /\ failed' \subseteq joined'
      /\ \A q \in joined' \ failed' : Busy(q)'
  BY <1>1, <1>2, SwitchKeepsReceiving DEF OnAir
<1>4. late' \in Nat /\ LateWhenTold'
  BY <1>1 DEF HandlerEnds, LateWhenTold, PluginTypeOK
<1>5. PluginTypeOK'
  BY <1>1, <1>2, <1>3, <1>4 DEF PluginTypeOK
<1>6. HandlesInRun' /\ StoppedWhenTold'
  BY <1>1 DEF HandlesInRun, StoppedWhenTold
<1>7. OnAir'
  BY <1>1, <1>2, <1>3 DEF OnAir
<1> QED BY <1>4, <1>5, <1>6, <1>7

(* The process that ends leaves no receiver behind.                        *)
LEMMA TerminateKeeps ==
  ASSUME Inv, Terminate, late' \in Nat, LateWhenTold'
  PROVE  Inv'
<1>1. Nothing \in [Receivers -> Nat] /\ \A r \in Receivers : ~(Nothing[r] > 0)
  BY DEF Nothing
<1>2. PluginTypeOK'
  BY <1>1 DEF Inv, Terminate, PluginTypeOK
<1>3. StoppedWhenTold' /\ HandlesInRun' /\ OnAir'
  BY DEF Inv, Terminate, StoppedWhenTold, HandlesInRun, OnAir
<1> QED BY <1>2, <1>3 DEF Inv

LEMMA InvInit == PluginInit => Inv
<1> SUFFICES ASSUME PluginInit PROVE Inv
  OBVIOUS
<1>1. /\ Nothing \in [Receivers -> Nat]
      /\ \A r \in Receivers : Nothing[r] = 0
  BY DEF Nothing
<1>2. PluginTypeOK
  <2>1. rejoins \in 0 .. MaxRejoins /\ late \in Nat
    BY PluginAssumption DEF PluginInit
  <2>2. stopped \in BOOLEAN /\ told \in BOOLEAN
    BY DEF PluginInit
  <2>3. /\ receiving \in [Receivers -> Nat] /\ ready \in [Receivers -> Nat]
        /\ \A r \in Receivers : ~(receiving[r] > 0)
    BY <1>1 DEF PluginInit
  <2>4. joined = {} /\ failed = {} /\ handling = {} /\ pc = "none"
    BY DEF PluginInit
  <2> QED BY <2>1, <2>2, <2>3, <2>4 DEF PluginTypeOK
<1>3. StoppedWhenTold /\ LateWhenTold
  BY DEF PluginInit, StoppedWhenTold, LateWhenTold
<1>4. HandlesInRun /\ OnAir
  BY <1>1 DEF PluginInit, HandlesInRun, OnAir
<1> QED BY <1>2, <1>3, <1>4 DEF Inv

LEMMA InvStep == Inv /\ [PluginNext]_pluginVars => Inv'
<1> SUFFICES ASSUME Inv, [PluginNext]_pluginVars PROVE Inv'
  OBVIOUS
<1> USE DEF Inv
<1>1. CASE HostReady
  BY <1>1 DEF HostReady, workVars, PluginTypeOK, StoppedWhenTold,
     LateWhenTold, HandlesInRun, OnAir, Busy
<1>2. CASE Shutdown
  BY <1>2 DEF Shutdown, workVars, PluginTypeOK, StoppedWhenTold,
     LateWhenTold, HandlesInRun, OnAir, Busy
<1>3. CASE MakeChannel
  <2>1. PluginTypeOK'
    BY <1>3 DEF MakeChannel, PluginTypeOK, Receivers, HandlesInRun
  <2>2. StoppedWhenTold' /\ LateWhenTold' /\ HandlesInRun'
    BY <1>3 DEF MakeChannel, StoppedWhenTold, LateWhenTold, HandlesInRun
  <2>3. OnAir'
    BY <1>3 DEF MakeChannel, OnAir, Busy, Receivers
  <2> QED BY <2>1, <2>2, <2>3
<1>4. CASE Run
  BY <1>4 DEF Run, workVars, PluginTypeOK, StoppedWhenTold,
     LateWhenTold, HandlesInRun, OnAir, Busy
<1>5. CASE RunReturns
  <2>1. pc' \notin {"none", "make", "run", "running"}
    BY <1>5 DEF RunReturns
  <2>2. PluginTypeOK'
    BY <1>5 DEF RunReturns, Nothing, PluginTypeOK
  <2>3. StoppedWhenTold' /\ LateWhenTold'
    BY <1>5 DEF RunReturns, StoppedWhenTold, LateWhenTold
  <2>4. HandlesInRun' /\ OnAir'
    BY <1>5, <2>1 DEF RunReturns, HandlesInRun, OnAir
  <2> QED BY <2>2, <2>3, <2>4
<1>6. ASSUME NEW r \in Receivers, Handler(r)
      PROVE  Inv'
  <2>1. PluginTypeOK'
    BY <1>6 DEF Handler, PluginTypeOK
  <2>2. StoppedWhenTold' /\ LateWhenTold' /\ HandlesInRun'
    BY <1>6 DEF Handler, StoppedWhenTold, LateWhenTold, HandlesInRun
  <2>3. OnAir'
    BY <1>6 DEF Handler, OnAir, Busy, PluginTypeOK
  <2> QED BY <2>1, <2>2, <2>3
<1>7. ASSUME NEW r \in Receivers, HandlerEnds(r)
      PROVE  Inv'
  BY <1>7, HandlerEndsKeeps
<1>8. ASSUME NEW r \in Receivers, Complete(r)
      PROVE  Inv'
  <2>1. PluginTypeOK'
    BY <1>8 DEF Complete, PluginTypeOK
  <2>2. StoppedWhenTold' /\ LateWhenTold' /\ HandlesInRun'
    BY <1>8 DEF Complete, StoppedWhenTold, LateWhenTold, HandlesInRun,
       PluginTypeOK
  <2>3. OnAir'
    BY <1>8 DEF Complete, OnAir, Busy, PluginTypeOK
  <2> QED BY <2>1, <2>2, <2>3
<1>9. ASSUME NEW r \in Receivers, Fail(r)
      PROVE  Inv'
  <2>1. PluginTypeOK'
    BY <1>9 DEF Fail, PluginTypeOK
  <2>2. StoppedWhenTold' /\ LateWhenTold' /\ HandlesInRun'
    BY <1>9 DEF Fail, StoppedWhenTold, LateWhenTold, HandlesInRun
  <2>3. OnAir'
    BY <1>9 DEF Fail, OnAir, Busy, PluginTypeOK
  <2> QED BY <2>1, <2>2, <2>3
<1>10. CASE UNCHANGED pluginVars
  BY <1>10 DEF pluginVars, workVars, PluginTypeOK, StoppedWhenTold,
     LateWhenTold, HandlesInRun, OnAir, Busy
<1>11. CASE MakeThrows
  <2>1. handling = {}
    BY <1>11 DEF MakeThrows, HandlesInRun
  <2>2. late' \in Nat /\ LateWhenTold'
    BY <1>11, <2>1 DEF MakeThrows, Terminate, LateWhenTold, PluginTypeOK
  <2> QED BY <1>11, <2>2, TerminateKeeps DEF MakeThrows
<1>12. ASSUME NEW r \in Receivers, HandlerThrows(r)
       PROVE  Inv'
  <2>1. late' \in Nat /\ LateWhenTold'
    BY <1>12 DEF HandlerThrows, Terminate, LateWhenTold, PluginTypeOK
  <2> QED BY <1>12, <2>1, TerminateKeeps DEF HandlerThrows
<1> QED BY <1>1, <1>2, <1>3, <1>4, <1>5, <1>6, <1>7, <1>8, <1>9, <1>10, <1>11,
           <1>12
        DEF PluginNext, Thread

LEMMA InvHolds == PluginSpec => []Inv
<1> QED BY InvInit, InvStep, PTL DEF PluginSpec

(* Every variable of Plugin has its type, and a receiver that is not       *)
(* joined does not receive.                                                *)
THEOREM PluginTypeCorrect == PluginSpec => []PluginTypeOK
<1>1. Inv => PluginTypeOK
  BY DEF Inv
<1> QED BY <1>1, InvHolds, PTL

(* After shutdown the host hears of one more packet at most.               *)
THEOREM LateAtMostOnce == PluginSpec => []OnePacketAfterShutdown
<1>1. Inv => OnePacketAfterShutdown
  BY DEF Inv, LateWhenTold, OnePacketAfterShutdown
<1> QED BY <1>1, InvHolds, PTL

(* The thread leaves run only when it was told to, when a handler threw,   *)
(* or when every receiver it has joined, and it has, failed.               *)
LEMMA EndStep ==
  Inv /\ [PluginNext]_pluginVars =>
    [pc = "running" /\ pc' # pc =>
       \/ told
       \/ joined # {} /\ joined \subseteq failed
       \/ pc' = "terminated" /\ handling # {}]_pluginVars
<1> SUFFICES ASSUME Inv, PluginNext, pc = "running", pc' # pc,
                    ~(pc' = "terminated" /\ handling # {})
             PROVE  told \/ (joined # {} /\ joined \subseteq failed)
  OBVIOUS
<1>0. ~\E r \in Receivers : HandlerThrows(r)
  BY DEF HandlerThrows, Terminate
<1>1. RunReturns
  BY <1>0 DEF PluginNext, Thread, HostReady, Shutdown, MakeChannel, MakeThrows,
     Run, Handler, HandlerEnds, Complete, Fail
<1>2. CASE stopped
  BY <1>2 DEF Inv, StoppedWhenTold
<1>3. CASE ~HasWork
  <2>1. \A r \in Receivers : ~Busy(r)
    BY <1>3 DEF HasWork, Busy, Inv, PluginTypeOK
  <2>2. joined \subseteq failed
    BY <2>1 DEF Inv, OnAir, PluginTypeOK
  <2>3. joined # {}
    BY PluginAssumption DEF Inv, OnAir
  <2> QED BY <2>2, <2>3
<1> QED BY <1>1, <1>2, <1>3 DEF RunReturns

THEOREM EndsOnlyForAReason == PluginSpec => EndsToldDeafOrThrown
<1> QED BY EndStep, InvHolds, PTL DEF PluginSpec, EndsToldDeafOrThrown
=============================================================================
