----------------------------- MODULE AdminMirror -----------------------------
(***************************************************************************)
(* The management channel and the mirror a server manager keeps of it:     *)
(* NeuronServer/AdminChannel.h, GameServer::PublishAdmin and               *)
(* NeuronClient/AdminClient.cpp.                                           *)
(*                                                                         *)
(* A lane towards the manager is the list of messages the server's session *)
(* has sent on it; the manager takes them one by one in order, which is    *)
(* what ReliableChannel implements, and lanes are not ordered among each   *)
(* other.  Its count of what it took outlives the server's session, whose  *)
(* successor starts every lane over.  The silence that reaps a session or  *)
(* times a manager out is a network that loses everything for as long.     *)
(* Rate limits and mutes are datagrams that do not arrive; health samples  *)
(* are left out, the next one replaces them.                               *)
(***************************************************************************)
EXTENDS Integers, Sequences, FiniteSets, SequencesExt

CONSTANTS Endpoint,     \* addresses of the manager, each used once
          Player,       \* ids of the game's players
          Row,          \* what a roster row may show
          RingSize,     \* ADMIN_EVENT_RING
          LogSize,      \* MAX_EVENTS
          MaxSessions,  \* MAX_ADMIN_SESSIONS
          MaxEvents,    \* bound on the events pushed
          MaxPushed,    \* bound on what is pushed to one session
          MaxTokens     \* bound on the sessions authenticated

ASSUME AdminAssumption == /\ RingSize \in Nat \ {0} /\ LogSize \in Nat \ {0}
                          /\ MaxSessions \in Nat
                          /\ MaxEvents \in Nat /\ MaxPushed \in Nat
                          /\ MaxTokens \in Nat
                          /\ IsFiniteSet(Endpoint) /\ IsFiniteSet(Player)

Lane == {"control", "gameplay", "bulk"}

VARIABLES roster,    \* m_roster: id -> row, as PublishAdmin last pushed it
          left,      \* ids that have left; the server never reuses an id
          ring,      \* m_ring: sequences of the recent events
          eventSeq,  \* m_eventSeq
          sessions,  \* m_sessions: endpoint -> shell or live session
          byToken,   \* m_byToken: token -> endpoint
          tokens,    \* tokens minted so far
          manager    \* the AdminClient

vars == <<roster, left, ring, eventSeq, sessions, byToken, tokens, manager>>

Put(f, x, v) == [y \in DOMAIN f \cup {x} |-> IF y = x THEN v ELSE f[y]]

EachLane(v) == [l \in Lane |-> v]
Shell(fresh) == [token |-> 0, heard |-> FALSE, sent |-> EachLane(<<>>),
                 fresh |-> fresh, replayed |-> <<>>]
Off == [state |-> "disconnected", at |-> {}, used |-> {}, hello |-> "none", token |-> 0,
        got |-> EachLane(0), roster |-> <<>>, log |-> <<>>, taken |-> <<>>]

IsLive(s) == s.token # 0
Live == {e \in DOMAIN sessions : IsLive(sessions[e])}

Event(n) == [kind |-> "event", seq |-> n]
RowMsg(p, row) == [kind |-> "row", id |-> p, row |-> row]
Gone(p) == [kind |-> "gone", id |-> p]

Init == /\ roster = <<>> /\ left = {} /\ ring = <<>> /\ eventSeq = 0
        /\ sessions = <<>> /\ byToken = <<>> /\ tokens = 0
        /\ manager = Off

-----------------------------------------------------------------------------
(* The server's feed points.                                               *)
Push(s, msgs) == [s EXCEPT !.sent.gameplay = @ \o msgs]

Pushed(msgs) ==
  [e \in DOMAIN sessions |-> IF IsLive(sessions[e]) THEN Push(sessions[e], msgs)
                             ELSE sessions[e]]

(* Faulty variant: the ring drops its newest events.                       *)
RingedOldest(last) == [i \in 1..(IF last > RingSize THEN RingSize ELSE last) |-> i]

(* PushEvent's ring: the latest RingSize of the events up to last.         *)
Ringed(last) == LET first == IF last > RingSize THEN last - RingSize + 1 ELSE 1
                IN [i \in 1..(last - first + 1) |-> first + i - 1]

(* Two messages in turn for each of a list.                                *)
Paired(a, b) == [k \in 1..(2 * Len(a)) |-> IF k % 2 = 1 THEN a[(k + 1) \div 2] ELSE b[k \div 2]]

(* PublishAdmin: joins and changed rows, then those who have left; a join  *)
(* and a leave are also events.  The players now in the game are any.      *)
PublishAdmin(now) ==
  LET joined == DOMAIN now \ DOMAIN roster
      quit == DOMAIN roster \ DOMAIN now
      changed == joined \cup {p \in DOMAIN now \cap DOMAIN roster : now[p] # roster[p]}
      js == SetToSeq(joined)
      cs == SetToSeq(changed \ joined)
      qs == SetToSeq(quit)
      n == Len(js) + Len(qs)
      joins == Paired([i \in 1..Len(js) |-> Event(eventSeq + i)],
                      [i \in 1..Len(js) |-> RowMsg(js[i], now[js[i]])])
      rows == [i \in 1..Len(cs) |-> RowMsg(cs[i], now[cs[i]])]
      leaves == Paired([i \in 1..Len(qs) |-> Gone(qs[i])],
                       [i \in 1..Len(qs) |-> Event(eventSeq + Len(js) + i)])
  IN /\ now # roster
     /\ DOMAIN now \cap left = {}
     /\ eventSeq + n <= MaxEvents
     /\ sessions' = Pushed(joins \o rows \o leaves)
     /\ \A e \in Live : Len(sessions'[e].sent.gameplay) <= MaxPushed
     /\ roster' = now
     /\ left' = left \cup quit
     /\ ring' = Ringed(eventSeq + n)
     /\ eventSeq' = eventSeq + n
     /\ UNCHANGED <<byToken, tokens, manager>>

(* AdminNote: a kill, a chat line, a crime.                                *)
PushEvent ==
  /\ eventSeq < MaxEvents
  /\ sessions' = Pushed(<<Event(eventSeq + 1)>>)
  /\ ring' = Ringed(eventSeq + 1)
  /\ eventSeq' = eventSeq + 1
  /\ UNCHANGED <<roster, left, byToken, tokens, manager>>

(* WriteDatagrams drops a session that has been silent for its timeout.    *)
Reap(e) ==
  /\ sessions' = Restrict(sessions, DOMAIN sessions \ {e})
  /\ byToken' = Restrict(byToken, DOMAIN byToken \ {sessions[e].token})
  /\ UNCHANGED <<roster, left, ring, eventSeq, tokens, manager>>

-----------------------------------------------------------------------------
(* A datagram of the manager reaches the server.                           *)
Reply(s, msg) == [s EXCEPT !.sent.control = Append(@, msg)]

(* AckAndReplay: the ack on Control; the ring and the roster on Bulk.      *)
AckAndReplay(s, token) ==
  LET ids == SetToSeq(DOMAIN roster)
      rows == [i \in 1..Len(ids) |-> RowMsg(ids[i], roster[ids[i]])]
  IN [Reply(s, [kind |-> "ack", token |-> token]) EXCEPT
        !.token = token,
        !.replayed = roster,
        !.sent.bulk = @ \o [i \in 1..Len(ring) |-> Event(ring[i])] \o rows]

(* Without a token: a shell, and its hello the first time it comes.        *)
FrontDoor ==
  \E e \in manager.at :
    /\ manager.token = 0
    /\ e \notin Live
    /\ tokens < MaxTokens
    /\ LET s == [(IF e \in DOMAIN sessions THEN sessions[e]
                  ELSE Shell(manager.got = EachLane(0))) EXCEPT
                   !.heard = @ \/ manager.hello # "none"]
           isNew == s.heard /\ (e \in DOMAIN sessions => ~sessions[e].heard)
           accepted == isNew /\ manager.hello = "good" /\ Cardinality(Live) < MaxSessions
       IN IF accepted
          THEN /\ tokens' = tokens + 1
               /\ byToken' = Put(byToken, tokens + 1, e)
               /\ sessions' = Put(sessions, e, AckAndReplay(s, tokens + 1))
          ELSE /\ sessions' = Put(sessions, e, IF isNew THEN Reply(s, [kind |-> "reject"]) ELSE s)
               /\ UNCHANGED <<tokens, byToken>>
  /\ UNCHANGED <<roster, left, ring, eventSeq, manager>>

(* Faulty variant: the token keeps pointing at the old address.            *)
AuthenticatedStaleIndex ==
  \E e \in manager.at :
    /\ manager.token \in DOMAIN byToken
    /\ LET old == byToken[manager.token]
       IN /\ old # e /\ e \notin DOMAIN sessions /\ old \in DOMAIN sessions
          /\ sessions' = Put(Restrict(sessions, DOMAIN sessions \ {old}), e, sessions[old])
    /\ UNCHANGED <<roster, left, ring, eventSeq, byToken, tokens, manager>>

(* With a token: its session moves to the address the datagram came from.  *)
Authenticated ==
  \E e \in manager.at :
    /\ manager.token \in DOMAIN byToken
    /\ LET old == byToken[manager.token]
       IN /\ old # e /\ e \notin DOMAIN sessions
          /\ sessions' = Put(Restrict(sessions, DOMAIN sessions \ {old}), e, sessions[old])
    /\ byToken' = [byToken EXCEPT ![manager.token] = e]
    /\ UNCHANGED <<roster, left, ring, eventSeq, tokens, manager>>

-----------------------------------------------------------------------------
(* The manager.  Connect opens a new socket and forgets everything; the    *)
(* key typed is right or wrong.                                            *)
Connect(e, key) ==
  /\ e \notin manager.used
  /\ manager' = [Off EXCEPT !.state = "connecting", !.at = {e}, !.hello = key,
                            !.used = manager.used \cup {e}]
  /\ UNCHANGED <<roster, left, ring, eventSeq, sessions, byToken, tokens>>

Disconnect ==
  /\ manager.state # "disconnected"
  /\ manager' = [Off EXCEPT !.used = manager.used]
  /\ UNCHANGED <<roster, left, ring, eventSeq, sessions, byToken, tokens>>

(* The manager's datagrams come from another address from now on.          *)
Readdress(e) ==
  /\ manager.at # {} /\ e \notin manager.used
  /\ manager' = [manager EXCEPT !.at = {e}, !.used = @ \cup {e}]
  /\ UNCHANGED <<roster, left, ring, eventSeq, sessions, byToken, tokens>>

TimeOut ==
  /\ manager.state \in {"connecting", "connected"}
  /\ manager' = [manager EXCEPT !.state = "timedOut"]
  /\ UNCHANGED <<roster, left, ring, eventSeq, sessions, byToken, tokens>>

(* The event log takes an event at the back and, past its size, gives up   *)
(* the one at the front, whatever their sequences.  taken, of which the    *)
(* code keeps nothing, is every event this connection has taken.           *)
Kept(log) == IF Len(log) > LogSize THEN Tail(log) ELSE log
Logged(c, n) == [c EXCEPT !.taken = Append(@, n), !.log = Kept(Append(@, n))]

(* Faulty variant: a row of somebody already shown is not taken over.      *)
AppliedFirstRow(c, m) ==
  CASE m.kind = "ack"    -> [c EXCEPT !.state = "connected", !.token = m.token, !.hello = "none"]
    [] m.kind = "reject" -> [c EXCEPT !.state = "rejected", !.hello = "none"]
    [] m.kind = "row"    -> [c EXCEPT !.roster = IF m.id \in DOMAIN @ THEN @
                                                 ELSE Put(@, m.id, m.row)]
    [] m.kind = "gone"   -> [c EXCEPT !.roster = Restrict(@, DOMAIN @ \ {m.id})]
    [] m.kind = "event"  -> Logged(c, m.seq)

(* Service: one message into the mirror; a control message acknowledges    *)
(* the hello as well.                                                      *)
Applied(c, m) ==
  CASE m.kind = "ack"    -> [c EXCEPT !.state = "connected", !.token = m.token, !.hello = "none"]
    [] m.kind = "reject" -> [c EXCEPT !.state = "rejected", !.hello = "none"]
    [] m.kind = "row"    -> [c EXCEPT !.roster = Put(@, m.id, m.row)]
    [] m.kind = "gone"   -> [c EXCEPT !.roster = Restrict(@, DOMAIN @ \ {m.id})]
    [] m.kind = "event"  -> Logged(c, m.seq)

Service(l) ==
  \E e \in manager.at \cap DOMAIN sessions :
    LET next == manager.got[l] + 1
    IN /\ next <= Len(sessions[e].sent[l])
       /\ manager' = Applied([manager EXCEPT !.got[l] = next], sessions[e].sent[l][next])
       /\ UNCHANGED <<roster, left, ring, eventSeq, sessions, byToken, tokens>>

Rosters == UNION {[ids -> Row] : ids \in SUBSET Player}

Next == \/ \E now \in Rosters : PublishAdmin(now)
        \/ PushEvent
        \/ \E e \in DOMAIN sessions : Reap(e)
        \/ FrontDoor \/ Authenticated
        \/ \E e \in Endpoint : (\E key \in {"good", "bad"} : Connect(e, key)) \/ Readdress(e)
        \/ Disconnect \/ TimeOut
        \/ \E l \in Lane : Service(l)

Spec == Init /\ [][Next]_vars

-----------------------------------------------------------------------------
(* The session that feeds the manager, from its first message on.          *)
Feeds(e) == /\ e \in manager.at \cap Live
            /\ sessions[e].fresh
            /\ manager.token \in {0, sessions[e].token}

Waiting(e, l) == SubSeq(sessions[e].sent[l], manager.got[l] + 1, Len(sessions[e].sent[l]))
EventsAt(msgs) == {i \in DOMAIN msgs : msgs[i].kind = "event"}
Seqs(msgs) == {msgs[i].seq : i \in EventsAt(msgs)}
Once(msgs) == \A i, j \in EventsAt(msgs) : msgs[i].seq = msgs[j].seq => i = j

(* What was taken and what waits live and for replay are the latest events *)
(* up to last, the recent ones among them, each at one place.              *)
FeedOf(taken, live, replay, last, recent) ==
  LET known == Range(taken) \cup Seqs(live) \cup Seqs(replay)
  IN /\ \E first \in 1..(last + 1) : known = first..last
     /\ recent \subseteq known
     /\ IsInjective(taken) /\ Once(live) /\ Once(replay)
     /\ Range(taken) \cap Seqs(live) = {} /\ Range(taken) \cap Seqs(replay) = {}
     /\ Seqs(live) \cap Seqs(replay) = {}

(* The last LogSize of a list.                                             *)
Newest(q) == SubSeq(q, (IF Len(q) > LogSize THEN Len(q) - LogSize ELSE 0) + 1, Len(q))

(* The event feed has no gap and no repetition at the seam of replay and   *)
(* live events (sm.md:252-253): what the manager has ever taken and what   *)
(* waits on the two lanes are the latest events, each once.  Its log is    *)
(* what it took last, in the order of arrival, which need not be that of   *)
(* the events.                                                             *)
FeedWhole ==
  /\ \A e \in Endpoint : Feeds(e) =>
       FeedOf(manager.taken, Waiting(e, "gameplay"), Waiting(e, "bulk"), eventSeq, Range(ring))
  /\ manager.log = Newest(manager.taken)

Quiet(e) == Feeds(e) /\ \A l \in Lane : Waiting(e, l) = <<>>

(* Once all is delivered the mirror shows every player on the roster, and  *)
(* what it shows wrongly, of a player who has left or changed, is exactly  *)
(* a row of the replay that came after the live message it contradicts.    *)
MirrorTrueButForReplay ==
  \A e \in Endpoint : Quiet(e) =>
    /\ DOMAIN roster \subseteq DOMAIN manager.roster
    /\ \A p \in DOMAIN manager.roster :
         \/ p \in DOMAIN roster /\ manager.roster[p] = roster[p]
         \/ /\ p \in DOMAIN sessions[e].replayed
            /\ manager.roster[p] = sessions[e].replayed[p]

(* "... replay-then-live is race-free" (sm.md:293-294): once all is        *)
(* delivered, the mirror is the roster.                                    *)
ReplayRaceFree == \A e \in Endpoint : Quiet(e) => manager.roster = roster

(* The log is "the tail of the feed" (AdminClient.h:43): once all is       *)
(* delivered, the latest events without a gap.                             *)
LogIsTail ==
  \A e \in Endpoint : Quiet(e) =>
    \E first \in 1..(eventSeq + 1) : Range(manager.log) = first..eventSeq

(* The token index names exactly the live sessions, a manager that moves   *)
(* takes its session along, and there are never more than the cap.         *)
AdminTokensExact ==
  /\ \A t \in DOMAIN byToken : /\ byToken[t] \in Live
                               /\ sessions[byToken[t]].token = t
  /\ \A e \in Live : sessions[e].token \in DOMAIN byToken
  /\ Cardinality(Live) <= MaxSessions
=============================================================================
