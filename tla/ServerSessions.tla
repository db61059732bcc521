---------------------------- MODULE ServerSessions ----------------------------
(***************************************************************************)
(* The server's session table: GameLogic/ServerSessions.h, with the        *)
(* callers in Server/GameServer.cpp that drive it (the hello drain, the    *)
(* completed loads, the escort purchase and death, the reap).              *)
(*                                                                         *)
(* A session is keyed by the endpoint its client now speaks from.  It is   *)
(* born a SHELL by a token-less datagram, may be LOADING while its         *)
(* commander is fetched, and is LIVE once its ship is spawned; then a      *)
(* token index and an ownership index refer to it from the outside, and    *)
(* every path that moves or drops a session must keep the three together.  *)
(*                                                                         *)
(* Time is the age of a session: ticks since lastSeenTick.  Muting by the  *)
(* token-less rate limit is a datagram that does not arrive.  The token    *)
(* source never repeats itself, so the n-th player gets the n-th token.    *)
(* An entity handle is <<index, generation>>; only entities that a player  *)
(* owns are modelled, and any unused index may be the next one allocated.  *)
(***************************************************************************)
EXTENDS Integers, Sequences, FiniteSets, Functions

CONSTANTS Endpoint,     \* address and port pairs
          Index,        \* entity indices of the registry
          Name,         \* sanitized commander names that clients type
          MaxPlayers,   \* bound on the players ever spawned
          MaxEscorts,   \* Cfg::MAX_ESCORTS
          ShellTicks,   \* Cfg::SESSION_TIMEOUT_TICKS
          GraceTicks    \* Cfg::SESSION_GRACE_TICKS

(* A name is a sequence of numbers, so that de-duplication can append one: *)
(* <<b>> for a word b, <<b, 2>> for that word with the suffix -2.  A blank *)
(* name is <<>>, and the word of the default names, Commander, is 0.       *)
Blank == <<>>
DefaultName(index) == <<0, index>>

ASSUME SessionAssumption == /\ IsFiniteSet(Endpoint)
                            /\ Index \subseteq Nat \ {0}
                            /\ Name \subseteq Seq(Nat)
                            /\ MaxPlayers \in Nat /\ MaxEscorts \in Nat
                            /\ ShellTicks \in Nat /\ GraceTicks \in Nat
                            /\ ShellTicks <= GraceTicks

NoEntity == <<0, 0>>
Token(n) == <<"token", n>>
NoToken == Token(0)
Hello == [current : BOOLEAN, name : Name]   \* current: our protocolVersion

VARIABLES persisting,    \* m_persist # nullptr: spawns wait for a load
          sessions,      \* m_sessions: endpoint -> session
          byToken,       \* m_byToken: token -> endpoint
          owned,         \* m_ownership: player -> handles, stale ones too
          world,         \* valid handles -> the player in their Owner
          generation,    \* the registry's generation of each index
          nextPlayerId   \* m_nextPlayerId

vars == <<persisting, sessions, byToken, owned, world, generation, nextPlayerId>>

Shell == [entity |-> NoEntity, playerId |-> 0, token |-> NoToken, name |-> Blank,
          loading |-> FALSE, age |-> 0, inbox |-> <<>>]

IsLive(s) == s.entity # NoEntity
Live == {e \in DOMAIN sessions : IsLive(sessions[e])}

Put(f, x, v) == [y \in DOMAIN f \cup {x} |-> IF y = x THEN v ELSE f[y]]

Init == /\ persisting \in BOOLEAN
        /\ sessions = <<>> /\ byToken = <<>> /\ owned = <<>> /\ world = <<>>
        /\ generation = [i \in Index |-> 0]
        /\ nextPlayerId = 1

-----------------------------------------------------------------------------
(* UniqueName: the base, or the base with the least free suffix.           *)
Taken(n, self) == \E e \in DOMAIN sessions \ {self} : sessions[e].name = n

(* Faulty variant: takes the name as it was typed.                         *)
UniqueNameAsTyped(base, self) == base

UniqueName(base, self) ==
  IF ~Taken(base, self) THEN base
  ELSE LET free == {i \in 2..(Cardinality(Endpoint) + 2) : ~Taken(Append(base, i), self)}
       IN Append(base, CHOOSE i \in free : \A j \in free : i <= j)

(* SpawnPlayer and the rest of the accept path: identity, ship, name and   *)
(* token.  The name is the one parked or carried by the hello.             *)
Spawn(e, s, name) ==
  \E i \in Index \ {h[1] : h \in DOMAIN world} :
    LET ship == <<i, generation[i]>>
        given == IF name = Blank THEN DefaultName(i) ELSE UniqueName(name, e)
    IN /\ sessions' = Put(sessions, e,
                        [s EXCEPT !.entity = ship, !.playerId = nextPlayerId,
                                  !.token = Token(nextPlayerId), !.name = given,
                                  !.loading = FALSE, !.age = 0])
       /\ byToken' = Put(byToken, Token(nextPlayerId), e)
       /\ owned' = Put(owned, nextPlayerId, {ship})
       /\ world' = Put(world, ship, nextPlayerId)
       /\ nextPlayerId' = nextPlayerId + 1
       /\ UNCHANGED <<persisting, generation>>

-----------------------------------------------------------------------------
(* The players that hellos already received may still spawn.               *)
Newcomers == {e \in DOMAIN sessions \ Live : sessions[e].loading \/ sessions[e].inbox # <<>>}

Received(s, msgs) == [s EXCEPT !.age = 0, !.inbox = @ \o msgs]

(* OnReliable without a token: the front door, closed to a live session.   *)
FrontDoor(e, msgs) ==
  /\ e \notin Live
  /\ msgs # <<>> => nextPlayerId + Cardinality(Newcomers \ {e}) <= MaxPlayers
  /\ LET s == IF e \in DOMAIN sessions THEN sessions[e] ELSE Shell
     IN /\ Len(s.inbox \o msgs) <= 1
        /\ sessions' = Put(sessions, e, Received(s, msgs))
  /\ UNCHANGED <<persisting, byToken, owned, world, generation, nextPlayerId>>

(* Faulty variant: a rebind drops the session that holds the new address.  *)
AuthenticatedClobbering(e, token, msgs) ==
  /\ token \in DOMAIN byToken
  /\ LET old == byToken[token]
     IN /\ Len(sessions[old].inbox \o msgs) <= 1
        /\ sessions' = Put(Restrict(sessions, DOMAIN sessions \ {old}), e,
                           Received(sessions[old], msgs))
  /\ byToken' = [byToken EXCEPT ![token] = e]
  /\ UNCHANGED <<persisting, owned, world, generation, nextPlayerId>>

(* Faulty variant: a rebind forgets to point the token at the new address. *)
AuthenticatedStaleIndex(e, token, msgs) ==
  /\ token \in DOMAIN byToken
  /\ LET old == byToken[token]
     IN /\ old \in DOMAIN sessions
        /\ old # e => e \notin DOMAIN sessions
        /\ Len(sessions[old].inbox \o msgs) <= 1
        /\ sessions' = Put(Restrict(sessions, DOMAIN sessions \ {old}), e,
                           Received(sessions[old], msgs))
  /\ UNCHANGED <<persisting, byToken, owned, world, generation, nextPlayerId>>

(* OnReliable or OnInput with a token the index knows: the session, moved  *)
(* to the address it came from unless another session holds that one.      *)
Authenticated(e, token, msgs) ==
  /\ token \in DOMAIN byToken
  /\ LET old == byToken[token]
     IN /\ old # e => e \notin DOMAIN sessions
        /\ Len(sessions[old].inbox \o msgs) <= 1
        /\ sessions' = Put(Restrict(sessions, DOMAIN sessions \ {old}), e,
                           Received(sessions[old], msgs))
  /\ byToken' = [byToken EXCEPT ![token] = e]
  /\ UNCHANGED <<persisting, owned, world, generation, nextPlayerId>>

-----------------------------------------------------------------------------
(* ProcessReliableRequests takes a hello from e's Control lane: OnHello,   *)
(* and, for a blank name that has no account, FinishLoadedSpawn at once.   *)
OnHello(e) ==
  /\ sessions[e].inbox # <<>>
  /\ LET hello == Head(sessions[e].inbox)
         s == [sessions[e] EXCEPT !.inbox = Tail(@), !.age = 0]
         Stay(t) == /\ sessions' = [sessions EXCEPT ![e] = t]
                    /\ UNCHANGED <<persisting, byToken, owned, world, generation, nextPlayerId>>
     IN \/ ~hello.current /\ Stay(s)                                \* Rejected
        \/ /\ hello.current /\ IsLive(s)                             \* Resumed
           /\ Stay([s EXCEPT !.name = IF hello.name = Blank THEN @
                                      ELSE UniqueName(hello.name, e)])
        \/ /\ hello.current /\ ~IsLive(s) /\ persisting              \* Loading
           /\ hello.name # Blank
           /\ Stay([s EXCEPT !.loading = TRUE, !.name = hello.name])
        \/ /\ hello.current /\ ~IsLive(s) /\ persisting /\ hello.name = Blank
           /\ Spawn(e, s, Blank)
        \/ /\ hello.current /\ ~IsLive(s) /\ ~persisting             \* Accepted
           /\ Spawn(e, s, hello.name)

Drained == \A e \in DOMAIN sessions : sessions[e].inbox = <<>>

(* ApplyCompletedLoads: the load of a parked name is in, SpawnLoaded.      *)
SpawnLoaded(e) ==
  /\ Drained
  /\ sessions[e].loading
  /\ Spawn(e, sessions[e], sessions[e].name)

(* HandleBuyEscort, docking and credits granted: GrantOwnership, while the *)
(* owned entities less the primary ship are below the cap.                 *)
BuyEscort(e) ==
  /\ e \in Live
  /\ LET p == sessions[e].playerId
     IN /\ Cardinality(owned[p]) - 1 < MaxEscorts
        /\ \E i \in Index \ {h[1] : h \in DOMAIN world} :
             LET escort == <<i, generation[i]>>
             IN /\ world' = Put(world, escort, p)
                /\ owned' = [owned EXCEPT ![p] = @ \cup {escort}]
  /\ UNCHANGED <<persisting, sessions, byToken, generation, nextPlayerId>>

Destroyed(handles) ==
  /\ world' = Restrict(world, DOMAIN world \ handles)
  /\ generation' = [i \in Index |-> IF \E h \in handles : h[1] = i
                                    THEN generation[i] + 1 ELSE generation[i]]

(* OnEntityKilled of an escort: destroyed, and left in the ownership index *)
(* (a player's ship respawns instead and keeps its handle).                *)
EscortKilled(h) ==
  /\ \A e \in Live : sessions[e].entity # h
  /\ Destroyed({h})
  /\ UNCHANGED <<persisting, sessions, byToken, owned, nextPlayerId>>

Timeout(s) == IF IsLive(s) \/ s.loading THEN GraceTicks ELSE ShellTicks

Expired == {e \in DOMAIN sessions : sessions[e].age > Timeout(sessions[e])}

(* Faulty variant: drops the primary ship only.                            *)
ReapPrimaryOnly ==
  LET gone == {sessions[e] : e \in Expired}
      ids == {s.playerId : s \in gone}
  IN /\ Destroyed({s.entity : s \in gone} \cap DOMAIN world)
     /\ owned' = Restrict(owned, DOMAIN owned \ ids)
     /\ byToken' = Restrict(byToken, DOMAIN byToken \ {s.token : s \in gone})

(* Faulty variant: forgets nothing in the ownership index.                 *)
ReapKeepOwned ==
  LET gone == {sessions[e] : e \in Expired}
      ids == {s.playerId : s \in gone}
  IN /\ Destroyed((UNION {owned[p] : p \in ids \cap DOMAIN owned}) \cap DOMAIN world)
     /\ byToken' = Restrict(byToken, DOMAIN byToken \ {s.token : s \in gone})
     /\ UNCHANGED owned

(* Reap: everything an expired player owns that is still valid, with its   *)
(* entries in both indices.                                                *)
Reap ==
  LET gone == {sessions[e] : e \in Expired}
      ids == {s.playerId : s \in gone}
  IN /\ Destroyed(((UNION {owned[p] : p \in ids \cap DOMAIN owned})
                     \cup {s.entity : s \in gone}) \cap DOMAIN world)
     /\ owned' = Restrict(owned, DOMAIN owned \ ids)
     /\ byToken' = Restrict(byToken, DOMAIN byToken \ {s.token : s \in gone})

(* The end of a tick, whose requests were drained: reap, and time goes on. *)
Tick ==
  /\ Drained
  /\ Reap
  /\ sessions' = [e \in DOMAIN sessions \ Expired |-> [sessions[e] EXCEPT !.age = @ + 1]]
  /\ UNCHANGED <<persisting, nextPlayerId>>

Messages == {<<>>} \cup {<<h>> : h \in Hello}

Traffic == \E e \in Endpoint, msgs \in Messages :
             \/ FrontDoor(e, msgs)
             \/ \E token \in DOMAIN byToken : Authenticated(e, token, msgs)

Next == \/ Traffic
        \/ \E e \in DOMAIN sessions : OnHello(e) \/ SpawnLoaded(e) \/ BuyEscort(e)
        \/ \E h \in DOMAIN world : EscortKilled(h)
        \/ Tick

Spec == Init /\ [][Next]_vars

(* The server ticks, and each tick drains what it received.                *)
Fairness == /\ WF_vars(Tick)
            /\ \A e \in Endpoint : WF_vars(e \in DOMAIN sessions /\ OnHello(e))
FairSpec == Spec /\ Fairness

-----------------------------------------------------------------------------
Handle == Index \X Nat
SessionType == [entity : Handle \cup {NoEntity}, playerId : 0..MaxPlayers,
                token : {Token(n) : n \in 0..MaxPlayers}, name : Seq(Nat),
                loading : BOOLEAN, age : 0..(GraceTicks + 1), inbox : Seq(Hello)]

(* Types, and no session outlives the tick after its timeout.              *)
TypeOK == /\ persisting \in BOOLEAN
          /\ DOMAIN sessions \subseteq Endpoint
          /\ \A e \in DOMAIN sessions : sessions[e] \in SessionType
          /\ \A t \in DOMAIN byToken : byToken[t] \in Endpoint
          /\ \A p \in DOMAIN owned : p \in 1..MaxPlayers /\ owned[p] \subseteq Handle
          /\ \A h \in DOMAIN world : h \in Handle /\ world[h] \in 1..MaxPlayers
          /\ generation \in [Index -> Nat]
          /\ nextPlayerId \in 1..(MaxPlayers + 1)

(* The token index and the session table agree in both directions, so the  *)
(* branches of Authenticate that "heal" the index are dead code: a rebind  *)
(* or a reap in any order leaves no token that leads nowhere or to another *)
(* player, and exactly the live sessions hold tokens.                      *)
TokenIndexExact ==
  /\ \A t \in DOMAIN byToken : /\ byToken[t] \in Live
                               /\ sessions[byToken[t]].token = t
  /\ \A e \in DOMAIN sessions :
       IF e \in Live THEN sessions[e].token \in DOMAIN byToken
                     ELSE sessions[e].token = NoToken /\ sessions[e].playerId = 0

(* No orphans: an entity with an Owner is indexed under a player who has a *)
(* live session, and every live session flies a ship of its own.           *)
NoOrphans ==
  /\ \A h \in DOMAIN world : /\ \E e \in Live : sessions[e].playerId = world[h]
                             /\ h \in owned[world[h]]
  /\ \A e \in Live : /\ sessions[e].entity \in DOMAIN world
                     /\ world[sessions[e].entity] = sessions[e].playerId

(* Two live commanders share a name, the key of their account, only if one *)
(* of them was nameless and got the default name of its ship, which        *)
(* SpawnLoaded and OnHello do not compare with what others have typed.     *)
HasDefaultName(e) == sessions[e].name = DefaultName(sessions[e].entity[1])
NamesUnique ==
  \A e, f \in Live :
    sessions[e].name = sessions[f].name => e = f \/ HasDefaultName(e) \/ HasDefaultName(f)

(* The escort cap counts the escorts a player has: the owned entities less *)
(* the primary ship that HandleBuyEscort counts are those in the world.    *)
CapCountsEscorts ==
  \A e \in Live : LET p == sessions[e].playerId
                  IN Cardinality(owned[p]) = Cardinality({h \in DOMAIN world : world[h] = p})

(* A player who connected, or whose commander is being loaded, is dropped  *)
(* only after the grace time of silence; until then no step, of any other  *)
(* endpoint either, ends the session or changes who it is.                 *)
KeptWhole(s, t) == /\ IsLive(s) => /\ t.playerId = s.playerId
                                   /\ t.token = s.token
                                   /\ t.entity = s.entity
                   /\ s.loading => t.loading \/ IsLive(t)
SessionsKept ==
  [][\A e \in DOMAIN sessions :
       IsLive(sessions[e]) \/ sessions[e].loading =>
         \/ sessions[e].age > GraceTicks
         \/ \E f \in DOMAIN sessions' : KeptWhole(sessions[e], sessions'[f])]_vars

(* Once the datagrams stop, everything they brought is gone for good: the  *)
(* sessions, their tokens, their ships and escorts, their index entries.   *)
AllGone == /\ DOMAIN sessions = {} /\ DOMAIN byToken = {}
           /\ DOMAIN owned = {} /\ DOMAIN world = {}
SilenceReapsAll == <>[][~Traffic]_vars => <>[]AllGone
=============================================================================
