------------------------------- MODULE Plugin -------------------------------
(***************************************************************************)
(* connectivity_plugin.cpp: the life of the thread that receives.  The     *)
(* host calls the plugin from a thread of its own: hostReady starts the    *)
(* receiving thread and lets go of it, shutdown stops its io_service and   *)
(* returns at once.  The receiving thread makes the channel, subscribes    *)
(* to a symbol and lives in io_service::run until that returns; then the   *)
(* channel, a local of the thread, is destroyed and leaves its feeds.      *)
(*                                                                         *)
(* run returns when the io_service was stopped or when it has no work.     *)
(* Work is a receive that waits, a handler that is due or one that runs:   *)
(* only the chains of receives described in MulticastReceiver keep the     *)
(* thread alive, through every switch from one feed to another.  Handlers  *)
(* of cancelled receives do nothing and are left out.                      *)
(*                                                                         *)
(* Config::load, Join and Leave throw when a file is missing or the system *)
(* refuses a socket, and so may the decoders and the host.  Nothing in     *)
(* the program catches that: std::terminate ends the process, and with it  *)
(* the host's thread and every socket.                                     *)
(***************************************************************************)
EXTENDS Integers, FiniteSets

CONSTANTS
  Instrument, Incremental, Snapshot,   \* the receivers of the three feeds
  MaxRejoins                           \* bound: joins of the snapshot feed

ASSUME PluginAssumption ==
  /\ Instrument # {} /\ Incremental # {}
  /\ Instrument \cap (Incremental \cup Snapshot) = {}
  /\ Incremental \cap Snapshot = {}
  /\ MaxRejoins \in Nat

VARIABLES
  pc,          \* where the receiving thread is in the function Subscribe, or
               \* "terminated" when the process is gone
  stopped,     \* io_service was stopped
  joined,      \* the receivers whose joined_ is TRUE
  receiving,   \* how many receives wait on the socket of each receiver
  ready,       \* how many handlers of completed receives are due
  handling,    \* the receiver whose handler runs, or none
  failed,      \* history variable: a receive failed since Join
  rejoins,     \* counts towards MaxRejoins
  told,        \* history variable: the host called shutdown
  late         \* history variable: handlers that ended after that

workVars   == <<joined, receiving, ready, handling, failed>>
pluginVars == <<pc, stopped, workVars, rejoins, told, late>>

Receivers == Instrument \cup Incremental \cup Snapshot
Nothing   == [r \in Receivers |-> 0]
-----------------------------------------------------------------------------
(* The end of the process.                                                 *)

Terminate ==
  /\ pc' = "terminated"
  /\ joined' = {} /\ failed' = {} /\ handling' = {}
  /\ receiving' = Nothing /\ ready' = Nothing
  /\ UNCHANGED <<stopped, rejoins, told>>
-----------------------------------------------------------------------------
(* The host's thread.                                                      *)

HostReady ==
  /\ pc = "none"
  /\ pc' = "make"
  /\ UNCHANGED <<stopped, workVars, rejoins, told, late>>

\* Mutant: the io_service is left to itself.
Shutdown_NoStop ==
  /\ ~told /\ pc # "terminated"
  /\ told' = TRUE
  /\ UNCHANGED <<pc, stopped, workVars, rejoins, late>>

Shutdown ==
  /\ ~told /\ pc # "terminated"
  /\ told' = TRUE
  /\ stopped' = TRUE
  /\ UNCHANGED <<pc, workVars, rejoins, late>>
-----------------------------------------------------------------------------
(* The receiving thread.                                                   *)

\* make_channel: the SymbolController joins the instrument feed.  Subscribe
\* notes a symbol; nothing that the host does can come of it before run.
MakeChannel ==
  /\ pc = "make"
  /\ pc' = "run"
  /\ joined' = Instrument
  /\ receiving' = [r \in Receivers |-> IF r \in Instrument THEN 1 ELSE 0]
  /\ UNCHANGED <<stopped, ready, handling, failed, rejoins, told, late>>

\* The configuration cannot be read or the feed not be joined.
MakeThrows ==
  /\ pc = "make"
  /\ Terminate
  /\ UNCHANGED late

Run ==
  /\ pc = "run"
  /\ pc' = "running"
  /\ UNCHANGED <<stopped, workVars, rejoins, told, late>>

Handler(r) ==
  /\ pc = "running" /\ ~stopped
  /\ handling = {} /\ ready[r] > 0
  /\ handling' = {r}
  /\ ready' = [ready EXCEPT ![r] = @ - 1]
  /\ UNCHANGED <<pc, stopped, joined, receiving, failed, rejoins, told, late>>

\* Mutant: the sockets of the receivers that are left stay open.
Switch_Open(r, left, new) ==
  /\ joined' = (joined \ left) \cup new
  /\ receiving' = [q \in Receivers |->
       receiving[q] + (IF q \in new \ joined THEN 1 ELSE 0)
                    + (IF q = r /\ q \in joined' THEN 1 ELSE 0)]
  /\ failed' = failed \cap joined'

\* The handler of r leaves some receivers, joins others that are not joined
\* by then, and ends with the next receive on its own socket.
Switch(r, left, new) ==
  /\ joined' = (joined \ left) \cup new
  /\ receiving' = [q \in Receivers |->
       (IF q \in left THEN 0 ELSE receiving[q])
         + (IF q \in new \ (joined \ left) THEN 1 ELSE 0)
         + (IF q = r /\ q \in joined' THEN 1 ELSE 0)]
  /\ failed' = failed \cap (joined \ left)

\* The last definition came: the instrument feed is left, and the pending
\* symbol makes a controller, which waits for its snapshot.  Mutant: no
\* symbol is pending.
FinishDownload_NoSymbol(r) ==
  /\ r \in Instrument \cap joined
  /\ Switch(r, Instrument, {})
  /\ UNCHANGED rejoins

FinishDownload(r) ==
  /\ r \in Instrument \cap joined
  /\ Switch(r, Instrument, Incremental \cup Snapshot)
  /\ UNCHANGED rejoins

\* The instrument is in sync: the snapshot feed is left, by a snapshot or by
\* the entry that was missing.
EndRecovery(r) ==
  /\ r \in Incremental \cup Snapshot
  /\ Snapshot \subseteq joined
  /\ Switch(r, Snapshot, {})
  /\ UNCHANGED rejoins

\* A gap: the snapshot feed is joined.  The same packet may have ended
\* another recovery before.
StartRecovery(r) ==
  /\ r \in Incremental
  /\ rejoins < MaxRejoins
  /\ Switch(r, Snapshot, Snapshot)
  /\ rejoins' = rejoins + 1

\* Most packets leave the feeds as they are.
KeepFeeds(r) ==
  /\ Switch(r, {}, {})
  /\ UNCHANGED rejoins

HandlerEnds(r) ==
  /\ handling = {r}
  /\ handling' = {}
  /\ late' = IF told THEN late + 1 ELSE late
  /\ \/ FinishDownload(r)
     \/ EndRecovery(r)
     \/ StartRecovery(r)
     \/ KeepFeeds(r)
  /\ UNCHANGED <<pc, stopped, ready, told>>

\* An exception leaves the handler, and io_service::run with it: a feed could
\* not be joined or left, the packet not be decoded, or the host not be told.
HandlerThrows(r) ==
  /\ handling = {r}
  /\ Terminate
  /\ late' = IF told THEN late + 1 ELSE late

HasWork == handling # {} \/ \E r \in Receivers : receiving[r] + ready[r] > 0

\* Mutant: the destructors leave no feed.
RunReturns_Joined ==
  /\ pc = "running" /\ handling = {}
  /\ stopped \/ ~HasWork
  /\ pc' = "ended"
  /\ UNCHANGED <<stopped, workVars, rejoins, told, late>>

\* run returns and the channel is destroyed, its receivers with it.  What
\* their destructors throw ends the process as well.
RunReturns ==
  /\ pc = "running" /\ handling = {}
  /\ stopped \/ ~HasWork
  /\ pc' \in {"ended", "terminated"}
  /\ joined' = {} /\ failed' = {} /\ receiving' = Nothing
  /\ UNCHANGED <<stopped, ready, handling, rejoins, told, late>>
-----------------------------------------------------------------------------
(* The sockets.                                                            *)

Complete(r) ==
  /\ receiving[r] > 0
  /\ receiving' = [receiving EXCEPT ![r] = @ - 1]
  /\ ready' = [ready EXCEPT ![r] = @ + 1]
  /\ UNCHANGED <<pc, stopped, joined, handling, failed, rejoins, told, late>>

\* A receive ends in an error, and no other is started.
Fail(r) ==
  /\ receiving[r] > 0
  /\ receiving' = [receiving EXCEPT ![r] = @ - 1]
  /\ failed' = failed \cup {r}
  /\ UNCHANGED <<pc, stopped, joined, ready, handling, rejoins, told, late>>
-----------------------------------------------------------------------------
PluginInit ==
  /\ pc = "none"
  /\ stopped = FALSE /\ told = FALSE
  /\ joined = {} /\ failed = {} /\ handling = {}
  /\ receiving = Nothing /\ ready = Nothing
  /\ rejoins = 0 /\ late = 0

Thread ==
  \/ MakeChannel \/ MakeThrows
  \/ Run
  \/ RunReturns
  \/ \E r \in Receivers : Handler(r) \/ HandlerEnds(r) \/ HandlerThrows(r)

PluginNext ==
  \/ HostReady
  \/ Shutdown
  \/ Thread
  \/ \E r \in Receivers : Complete(r) \/ Fail(r)

\* The operating system runs the thread.
PluginFairness == WF_pluginVars(Thread)

PluginSpec     == PluginInit /\ [][PluginNext]_pluginVars
FairPluginSpec == PluginSpec /\ PluginFairness
-----------------------------------------------------------------------------
(* Properties.                                                             *)

\* Every variable has its type; only the receivers that are joined receive,
\* and one handler runs at a time.
PluginTypeOK ==
  /\ pc \in {"none", "make", "run", "running", "ended", "terminated"}
  /\ stopped \in BOOLEAN /\ told \in BOOLEAN
  /\ joined \subseteq Receivers
  /\ receiving \in [Receivers -> Nat]
  /\ ready \in [Receivers -> Nat]
  /\ \A r \in Receivers : receiving[r] > 0 => r \in joined
  /\ handling = {} \/ \E r \in Receivers : handling = {r}
  /\ failed \subseteq joined
  /\ rejoins \in 0 .. MaxRejoins
  /\ late \in Nat

\* The thread leaves io_service::run because the host said so, because a
\* handler threw, which takes the whole process along, or because it is deaf:
\* every receiver of the feeds it has joined, and there are some, had an
\* error.  The io_service never runs out of work where the code leaves one
\* feed for another.
EndsToldDeafOrThrown ==
  [][pc = "running" /\ pc' # pc =>
       \/ told
       \/ joined # {} /\ joined \subseteq failed
       \/ pc' = "terminated" /\ handling # {}]_pluginVars

\* However long the thread was busy, the host hears of one packet at most
\* once it has called shutdown: that whose handler was running.
OnePacketAfterShutdown == late <= 1

\* Whenever the host calls shutdown: before hostReady, while the thread
\* makes the channel, or in the middle of a packet that joins a feed, the
\* thread comes to its end if it was started, or the process to its own, and
\* no feed stays joined.
ShutdownReleasesFeeds ==
  told ~> [](joined = {} /\ pc \in {"none", "ended", "terminated"})
=============================================================================
