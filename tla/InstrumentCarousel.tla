------------------------- MODULE InstrumentCarousel -------------------------
(***************************************************************************)
(* The instrument feed of a channel, external to the repository: the       *)
(* packets of a cycle are sent in order and again from the first, each on  *)
(* feeds A and B, which SymbolController joins both, in the middle of a    *)
(* cycle as a rule.  What is sent at one time arrives in either order or   *)
(* gets lost before anything else is sent.  B may run a packet behind A,   *)
(* and one of the two may fall silent for good, when its line fails or     *)
(* its receiver gave up after an error (MulticastReceiver).                *)
(***************************************************************************)
EXTENDS SymbolController

CONSTANTS
  Lags,        \* how many packets B may be behind A: 0, 1 or either
  MaxLosses,   \* bound: how many copies of packets get lost
  MaxFailures  \* bound: how many feeds fail, 0 or 1

ASSUME CarouselAssumption ==
  /\ Packets # 0
  /\ Lags \subseteq {0, 1}
  /\ MaxLosses \in Nat
  /\ MaxFailures \in {0, 1}

VARIABLES
  lag,       \* how many packets B is behind A
  current,   \* the packet being sent on A
  onwire,    \* the feeds on which what is sent has not arrived yet
  losses,    \* how many copies were lost
  failed     \* the feeds that have failed

feedVars     == <<lag, current, onwire, losses, failed>>
carouselVars == <<symbolVars, feedVars>>

Feeds == {"A", "B"}

Before(n) == IF n = 1 THEN Packets ELSE n - 1
After(n)  == IF n = Packets THEN 1 ELSE n + 1

Carried(feed) == IF feed = "B" /\ lag = 1 THEN Before(current) ELSE current

Transmit ==
  /\ onwire = {}
  /\ current' = After(current)
  /\ onwire' = Feeds \ failed
  /\ UNCHANGED <<symbolVars, lag, losses, failed>>

Deliver(feed) ==
  /\ feed \in onwire
  /\ OnInstrumentPacket(Carried(feed))
  /\ onwire' = onwire \ {feed}
  /\ UNCHANGED <<lag, current, losses, failed>>

Lose(feed) ==
  /\ feed \in onwire /\ losses < MaxLosses
  /\ onwire' = onwire \ {feed}
  /\ losses' = losses + 1
  /\ UNCHANGED <<symbolVars, lag, current, failed>>

Fail(feed) ==
  /\ failed = {} /\ MaxFailures = 1
  /\ failed' = {feed}
  /\ onwire' = onwire \ {feed}
  /\ UNCHANGED <<symbolVars, lag, current, losses>>

Handle == OnInstrument /\ UNCHANGED feedVars

Request(symbol) == Subscribe(symbol) /\ UNCHANGED feedVars

CarouselInit ==
  /\ SymbolInit
  /\ lag \in Lags
  /\ current \in 1 .. Packets
  /\ onwire = {}
  /\ losses = 0
  /\ failed = {}

CarouselNext ==
  \/ Transmit
  \/ \E feed \in Feeds : Deliver(feed) \/ Lose(feed) \/ Fail(feed)
  \/ Handle
  \/ \E symbol \in Symbols : Request(symbol)

(* The exchange keeps sending, a copy that is not lost arrives, and the    *)
(* loop over a packet runs to its end.                                     *)
Fairness ==
  /\ WF_carouselVars(Transmit)
  /\ \A feed \in Feeds : WF_carouselVars(Deliver(feed))
  /\ WF_carouselVars(Handle)

CarouselSpec == CarouselInit /\ [][CarouselNext]_carouselVars /\ Fairness
-----------------------------------------------------------------------------
(* Properties.                                                             *)

(* After finitely many losses the directory is complete, and a symbol that *)
(* was asked for meanwhile has its controller: a gap throws the download   *)
(* back to the first packet but never wedges it, whichever copies were     *)
(* lost, wherever in the cycle it began, and if a feed fails half-way.     *)
(* The exception is two feeds that stay alive and apart: packet N on B,    *)
(* arriving after packet 1 on A, looks like a gap in every cycle.  (For    *)
(* two definitions and more: with one the code does not ask whether the    *)
(* download is complete.)                                                  *)
DownloadCompletes ==
  <>(lag = 0 \/ failed # {}) =>
    /\ <>(state = "DOWNLOADED")
    /\ \A s \in Symbols : s \in requested ~> instruments[s] \in subscribed
=============================================================================
