----------------------------- MODULE DockMirror -----------------------------
(***************************************************************************)
(* Whether the commander is docked, twice: the server's DockState, moved by*)
(* the handlers and ticks of module Commander, and the client's `docked`,  *)
(* which picks its screens, the menu button (Launch or Dock) and which     *)
(* requests it sends.  Requests and outcomes cross on the reliable Gameplay*)
(* lane, in order both ways (module ReliableFifo).                         *)
(*                                                                         *)
(* Server steps are the actions of Commander, each with the message its    *)
(* handler sends; only messages that move either flag are kept: refusals   *)
(* and the outcome of Undock move neither.                                 *)
(***************************************************************************)
EXTENDS Commander, SequencesExt

CONSTANT MaxFlight   \* bound: messages under way when another is provoked

VARIABLES screen,    \* s_state: "intro", "flight" or "over"
          shown,     \* the client's docked
          over,      \* game_over: our own death has been reported
          live,      \* the session has its ship
          up,        \* requests on the way to the server
          down,      \* outcomes on the way to the client
          race       \* history: what last set the two apart, "none" since a clean launch

client == <<screen, shown, over>>
mirrorVars == <<vars, client, live, up, down, race>>

Requests == {"dock", "undock", "jump", "eject", "order"}
Outcomes == {"docked", "arrived", "death", "ejected"}
Room == Len(up) + Len(down) < MaxFlight

\* start_new_game asks for a dock before the first intro screen.
MirrorInit ==
  /\ Init
  /\ screen = "intro" /\ shown = TRUE /\ over = FALSE
  /\ live = FALSE
  /\ up = <<"dock">> /\ down = <<>>
  /\ race = "none"

-----------------------------------------------------------------------------
(* Client                                                                  *)

\* dock_player: docked at once, and the server is asked to be of one mind.
DockPlayer ==
  /\ shown' = TRUE
  /\ up' = Append(up, "dock")

\* enter_flight: the intros are over, the game begins in the station.
EnterFlight ==
  /\ screen = "intro"
  /\ screen' = "flight"
  /\ DockPlayer
  /\ UNCHANGED <<vars, over, live, down, race>>

\* Mutants: the client's handlers miss the answer to a Dock, or the arrival of a jump.
HandledDeaf(c, m) ==
  CASE m = "docked"  -> c
    [] m = "arrived" -> [c EXCEPT !.shown = FALSE]
    [] m = "death"   -> [c EXCEPT !.over = TRUE]
    [] m = "ejected" -> [c EXCEPT !.shown = TRUE, !.out = Append(@, "dock")]
HandledParked(c, m) ==
  CASE m = "docked"  -> [c EXCEPT !.shown = TRUE]
    [] m = "arrived" -> c
    [] m = "death"   -> [c EXCEPT !.over = TRUE]
    [] m = "ejected" -> [c EXCEPT !.shown = TRUE, !.out = Append(@, "dock")]

\* What the handlers of the client bus do with one outcome to c, the client's
\* [shown, over, out], where out is what it sends meanwhile.  Deaths and pods of other
\* ships, which the handlers tell by LocalPlayer, are not among the outcomes modelled.
Handled(c, m) ==
  CASE m = "docked"  -> [c EXCEPT !.shown = TRUE]
    [] m = "arrived" -> [c EXCEPT !.shown = FALSE]
    [] m = "death"   -> [c EXCEPT !.over = TRUE]
    [] m = "ejected" -> [c EXCEPT !.shown = TRUE, !.out = Append(@, "dock")]

\* Pump and process_server_events: whatever has arrived, in one frame.
Frame ==
  /\ screen = "flight" /\ ~over
  /\ \E n \in 1 .. Len(down) :
       LET c == FoldLeft(Handled, [shown |-> shown, over |-> over, out |-> <<>>], SubSeq(down, 1, n))
       IN /\ shown' = c.shown
          /\ over' = c.over
          /\ up' = up \o c.out
          /\ down' = SubSeq(down, n + 1, Len(down))
  /\ UNCHANGED <<vars, screen, live, race>>

\* launch_player: in space at once, and the server is asked to undock.
LaunchPlayer ==
  /\ screen = "flight" /\ shown /\ Room
  /\ shown' = FALSE
  /\ up' = Append(up, "undock")
  /\ race' = CASE ~live -> "early"
               [] live /\ (over \/ Contains(up, "dock") \/ ToSet(down) \ {"arrived"} # {}) -> "crossed"
               [] OTHER -> "none"
  /\ UNCHANGED <<vars, screen, over, live, down>>

\* request_dock, a Dock order, the escape pod: only in space; and the chart's
\* HYPERSPACE, docked or not.  None moves the mirror.
Ask ==
  /\ screen = "flight" /\ Room
  /\ \E r \in IF shown THEN {"jump"} ELSE {"dock", "order", "eject", "jump"} : up' = Append(up, r)
  /\ UNCHANGED <<vars, client, live, down, race>>

\* enter_game_over: for a hundred frames nothing is read or sent.
EnterGameOver ==
  /\ screen = "flight" /\ over
  /\ screen' = "over"
  /\ UNCHANGED <<vars, shown, over, live, up, down, race>>

RespawnAfterDeath ==
  /\ screen = "over"
  /\ screen' = "flight" /\ over' = FALSE
  /\ DockPlayer
  /\ race' = IF ~docked \/ ToSet(up) \cap {"undock", "jump"} # {} THEN "crossed" ELSE race
  /\ UNCHANGED <<vars, live, down>>

-----------------------------------------------------------------------------
(* Server                                                                  *)

\* A docking told while an Undock is still on its way has crossed with it.
Tell(m) ==
  /\ down' = Append(down, m)
  /\ race' = IF m # "arrived" /\ Contains(up, "undock") THEN "crossed" ELSE race
Silent == UNCHANGED <<down, race>>

\* The hello is through; what comes before it is drained and dropped.
Connect ==
  /\ screen # "intro" /\ ~live
  /\ live' = TRUE
  /\ UNCHANGED <<vars, client, up, down, race>>

Refuse == UNCHANGED vars /\ Silent
Handle(r) ==
  \/ r = "dock" /\ MayDock /\ DockRequest /\ Tell("docked")
  \/ r = "dock" /\ ~MayDock /\ Refuse
  \/ r = "undock" /\ Undock /\ Silent
  \/ r = "order" /\ Order /\ Silent
  \/ r = "eject" /\ UseEscapePod /\ Tell("ejected")
  \/ r = "eject" /\ ~(pod /\ ~docked /\ ~witchspace) /\ Refuse
  \/ r = "jump" /\ Jump /\ Tell("arrived")
  \/ r \in {"order", "jump"} /\ Refuse

ProcessReliableRequests ==
  /\ up # <<>> /\ screen # "intro"
  /\ IF live THEN Handle(Head(up)) ELSE UNCHANGED <<vars, down, race>>
  /\ up' = Tail(up)
  /\ UNCHANGED <<client, live>>

\* Mutant: the order docks the ship and nobody tells the client.
TickUntold(crossing) ==
  /\ live
  /\ Advance(crossing)
  /\ Silent
  /\ UNCHANGED <<client, live, up>>

\* A tick: a Dock order that arrives is answered as if the client had asked.
Tick(crossing) ==
  /\ live
  /\ Advance(crossing)
  /\ IF Docking /\ pos'.dist <= Lane /\ wanted < Fugitive THEN Room /\ Tell("docked") ELSE Silent
  /\ UNCHANGED <<client, live, up>>

Die ==
  /\ live /\ Room
  /\ Killed /\ Tell("death")
  /\ UNCHANGED <<client, live, up>>

\* What moves neither flag: the drive, the market, crimes and the sun.
Otherwise ==
  /\ live
  /\ InSystemJump \/ PoiJump \/ Refuel \/ BuyPod \/ Scoop \/ Offend \/ DecayWanted
  /\ UNCHANGED <<client, live, up, down, race>>

MirrorNext ==
  \/ EnterFlight \/ Frame \/ LaunchPlayer \/ Ask \/ EnterGameOver \/ RespawnAfterDeath
  \/ Connect \/ ProcessReliableRequests \/ (\E crossing \in BOOLEAN : Tick(crossing)) \/ Die \/ Otherwise

\* Both loops run and the lane delivers: the server handles what is sent, the
\* client reads what has come and leaves the wreck behind.
MirrorSpec ==
  /\ MirrorInit /\ [][MirrorNext]_mirrorVars
  /\ WF_mirrorVars(ProcessReliableRequests)
  /\ WF_mirrorVars(Frame) /\ WF_mirrorVars(EnterGameOver) /\ WF_mirrorVars(RespawnAfterDeath)

-----------------------------------------------------------------------------
(* Properties                                                              *)

AtRest == live /\ up = <<>> /\ down = <<>> /\ screen = "flight" /\ ~over

\* With nothing under way a docked commander has the station's screens, whatever
\* crossed before: jumps, pods, deaths and Dock orders.  Only a launch pressed
\* before the commander was loaded, whose Undock was dropped, is lost for good.
DockedIsShown == AtRest /\ docked /\ ~shown => race = "early"

\* With nothing under way a ship in space is shown in space, unless the launch
\* that put it there overtook a Dock, or it jumped after a death still unseen.
SpaceIsShown == AtRest /\ shown /\ ~docked => race \in {"early", "crossed"}

\* A commander the server has docked - by request, order, pod or death - sees the
\* station in the end, or leaves it.
DockingShows == (docked /\ live) ~> (shown \/ ~docked \/ race = "early")

\* What dock_player's comment says: the client shows the station only where the
\* server has docked it, or is about to.
StationShownRightly == AtRest /\ shown => docked
=============================================================================
