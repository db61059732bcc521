------------------------- MODULE ServerSessionsProofs -------------------------
(***************************************************************************)
(* Proofs about ServerSessions, for any endpoints, entity indices, names,  *)
(* caps and timeouts; and, at the end, about the MessageEndpoint that each *)
(* session holds, for any lanes, messages and bounds of the network.       *)
(***************************************************************************)
EXTENDS ServerSessions, MessageEndpoint, FiniteSetTheorems, WellFoundedInduction, TLAPS

Record == [entity : Handle \cup {NoEntity}, playerId : Nat, token : {Token(n) : n \in Nat},
           name : Seq(Nat), loading : BOOLEAN, age : Nat, inbox : Seq(Hello)]

Typed ==
  /\ DOMAIN sessions \subseteq Endpoint
  /\ sessions \in [DOMAIN sessions -> Record]
  /\ byToken = [t \in DOMAIN byToken |-> byToken[t]]
  /\ owned = [p \in DOMAIN owned |-> owned[p]]
  /\ world = [h \in DOMAIN world |-> world[h]]
  /\ \A p \in DOMAIN owned : owned[p] \subseteq Handle
  /\ DOMAIN world \subseteq Handle
  /\ generation \in [Index -> Nat]
  /\ nextPlayerId \in Nat \ {0}
  /\ persisting \in BOOLEAN

(* A live session has an identity of its own, a shell has none.            *)
Identities ==
  /\ \A e \in Live : /\ sessions[e].playerId \in 1..(nextPlayerId - 1)
                     /\ sessions[e].token = Token(sessions[e].playerId)
                     /\ ~sessions[e].loading
  /\ \A e \in DOMAIN sessions \ Live : sessions[e].token = NoToken /\ sessions[e].playerId = 0
  /\ \A e, f \in Live : sessions[e].playerId = sessions[f].playerId => e = f

(* The token index inverts the tokens of the live sessions.                *)
TokensExact ==
  /\ \A e \in Live : /\ sessions[e].token \in DOMAIN byToken
                     /\ byToken[sessions[e].token] = e
  /\ \A t \in DOMAIN byToken : byToken[t] \in Live /\ sessions[byToken[t]].token = t

(* The ownership index covers the world.  What it holds beyond it are      *)
(* handles of a generation that will not come again, so that the reap of   *)
(* their player cannot hit what has the index now.                         *)
Ownership ==
  /\ \A p \in DOMAIN owned : \E e \in Live : sessions[e].playerId = p
  /\ \A e \in Live : /\ sessions[e].playerId \in DOMAIN owned
                     /\ sessions[e].entity \in DOMAIN world
                     /\ world[sessions[e].entity] = sessions[e].playerId
  /\ \A h \in DOMAIN world : /\ world[h] \in DOMAIN owned
                             /\ h \in owned[world[h]]
                             /\ h[2] = generation[h[1]]
  /\ \A p \in DOMAIN owned : \A h \in owned[p] :
       \/ h \in DOMAIN world /\ world[h] = p
       \/ h[2] < generation[h[1]]

Inv == Typed /\ Identities /\ TokensExact /\ Ownership /\ NamesUnique

-----------------------------------------------------------------------------
LEMMA TokenInjective == \A m, n \in Nat : Token(m) = Token(n) => m = n
BY DEF Token

LEMMA HandleLive ==
  ASSUME NEW h \in Handle
  PROVE  /\ h # NoEntity
         /\ h[1] \in Index /\ h[2] \in Nat /\ h = <<h[1], h[2]>>
BY SessionAssumption DEF Handle, NoEntity

(* Every nonempty set of numbers has a least one.                          *)
LEMMA Least ==
  ASSUME NEW S \in SUBSET Nat, S # {}
  PROVE  \E n \in S : \A m \in S : n <= m
<1> DEFINE R == OpToRel(<, Nat)
<1>1. IsWellFoundedOn(R, Nat)
  BY NatLessThanWellFounded
<1> HIDE DEF R
<1>2. PICK n \in S : \A m \in S : ~(<<m, n>> \in R)
  BY <1>1, WFMin
<1>3. \A m \in S : ~(m < n)
  BY <1>2 DEF R, OpToRel
<1> QED BY <1>3

(* De-duplication ends with a name that no other session has: there are    *)
(* more suffixes to try than sessions.                                     *)
LEMMA UniqueNameFree ==
  ASSUME Typed, NEW base \in Seq(Nat), NEW self
  PROVE  /\ UniqueName(base, self) \in Seq(Nat)
         /\ ~Taken(UniqueName(base, self), self)
<1> DEFINE n == Cardinality(Endpoint)
           suffixes == 2..(n + 2)
           free == {i \in suffixes : ~Taken(Append(base, i), self)}
<1>1. n \in Nat /\ IsFiniteSet(Endpoint)
  BY SessionAssumption, FS_CardinalityType
<1>2. \A i \in Nat : Append(base, i) \in Seq(Nat)
  OBVIOUS
<1>3. \A i, j \in Nat : Append(base, i) = Append(base, j) => i = j
  <2> SUFFICES ASSUME NEW i \in Nat, NEW j \in Nat, Append(base, i) = Append(base, j)
               PROVE  i = j
    OBVIOUS
  <2>1. Append(base, i)[Len(base) + 1] = i /\ Append(base, j)[Len(base) + 1] = j
    OBVIOUS
  <2> QED BY <2>1
<1>4. free # {}
  <2> SUFFICES ASSUME \A i \in suffixes : Taken(Append(base, i), self) PROVE FALSE
    OBVIOUS
  <2> DEFINE holder == [i \in suffixes |->
                          CHOOSE e \in DOMAIN sessions \ {self} : sessions[e].name = Append(base, i)]
  <2>1. \A i \in suffixes : holder[i] \in Endpoint /\ sessions[holder[i]].name = Append(base, i)
    BY DEF Taken, Typed
  <2>2. holder \in [suffixes -> Endpoint]
    BY <2>1
  <2>3. IsFiniteSet(suffixes) /\ Cardinality(suffixes) = n + 1
    <3> DEFINE last == n + 2
    <3>1. last \in Int /\ 2 <= last /\ last - 2 + 1 = n + 1
      BY <1>1
    <3> HIDE DEF last, n
    <3>2. IsFiniteSet(2..last) /\ Cardinality(2..last) = last - 2 + 1
      BY <3>1, FS_Interval
    <3> QED BY <3>1, <3>2 DEF last
  <2> HIDE DEF holder
  <2>4. PICK i \in suffixes, j \in suffixes : i # j /\ holder[i] = holder[j]
    <3> HIDE DEF suffixes, n
    <3>1. Cardinality(Endpoint) < Cardinality(suffixes)
      BY <1>1, <2>3 DEF n
    <3> QED BY <1>1, <2>2, <2>3, <3>1, FS_PigeonHole
  <2> QED BY <1>1, <1>3, <2>1, <2>4
<1>5. \E i \in free : \A j \in free : i <= j
  <2>1. free \in SUBSET Nat
    BY <1>1
  <2> HIDE DEF free
  <2> QED BY <1>4, <2>1, Least
<1>6. CASE Taken(base, self)
  <2> DEFINE i == CHOOSE i \in free : \A j \in free : i <= j
  <2>1. i \in free
    BY <1>5
  <2>2. UniqueName(base, self) = Append(base, i)
    BY <1>6 DEF UniqueName
  <2> QED BY <1>1, <1>2, <2>1, <2>2
<1>7. CASE ~Taken(base, self)
  BY <1>7 DEF UniqueName
<1> QED BY <1>6, <1>7

-----------------------------------------------------------------------------
(* A datagram or a hello that changes no identity: of a session that is    *)
(* there, or of the shell it opens.                                        *)
SameIdentity(s, t) == t.entity = s.entity /\ t.playerId = s.playerId /\ t.token = s.token
Before(e) == IF e \in DOMAIN sessions THEN sessions[e] ELSE Shell

LEMMA ShellTyped == Shell \in Record /\ ~IsLive(Shell)
BY DEF Shell, Record, IsLive, Blank, NoToken, Handle

LEMMA TouchKeeps ==
  ASSUME Inv, NEW e \in Endpoint, NEW t \in Record, SameIdentity(Before(e), t),
         IsLive(t) => ~t.loading,
         IsLive(t) => t.name = sessions[e].name \/ ~Taken(t.name, e),
         sessions' = Put(sessions, e, t),
         UNCHANGED <<persisting, byToken, owned, world, generation, nextPlayerId>>
  PROVE  Inv'
<1>1. /\ DOMAIN sessions' = DOMAIN sessions \cup {e}
      /\ sessions'[e] = t
      /\ \A f \in DOMAIN sessions \ {e} : sessions'[f] = sessions[f]
  BY DEF Put
<1>2. Typed'
  <2>1. sessions' \in [DOMAIN sessions' -> Record]
    BY <1>1 DEF Put, Inv, Typed
  <2> QED BY <1>1, <2>1 DEF Inv, Typed
<1>3. \A f \in DOMAIN sessions : SameIdentity(sessions[f], sessions'[f])
  BY <1>1 DEF SameIdentity, Before
<1>4. e \notin DOMAIN sessions => ~IsLive(t) /\ t.token = NoToken /\ t.playerId = 0
  BY DEF SameIdentity, Before, Shell, IsLive
<1>5. Live' = Live
  BY <1>1, <1>3, <1>4 DEF Live, IsLive, SameIdentity
<1>6. \A f \in Live : f \in DOMAIN sessions
  BY DEF Live
<1>7. Identities'
  <2>1. \A f \in Live : ~sessions'[f].loading
    <3>1. ~sessions'[e].loading \/ e \notin Live
      BY <1>1, <1>5 DEF Live
    <3> QED BY <1>1, <1>6, <3>1 DEF Inv, Identities
  <2>2. \A f \in DOMAIN sessions' \ Live : sessions'[f].token = NoToken /\ sessions'[f].playerId = 0
    BY <1>1, <1>3, <1>4 DEF Inv, Identities, SameIdentity
  <2> QED BY <1>3, <1>5, <1>6, <2>1, <2>2 DEF Inv, Identities, SameIdentity
<1>8. TokensExact'
  BY <1>3, <1>5, <1>6 DEF Inv, TokensExact, SameIdentity
<1>9. Ownership'
  BY <1>3, <1>5, <1>6 DEF Inv, Ownership, SameIdentity
<1>10. NamesUnique'
  <2> SUFFICES ASSUME NEW f \in Live, NEW g \in Live, sessions'[f].name = sessions'[g].name, f # g
               PROVE  HasDefaultName(f)' \/ HasDefaultName(g)'
    BY <1>5 DEF NamesUnique
  <2>1. f \in DOMAIN sessions /\ g \in DOMAIN sessions
    BY <1>6
  <2>2. sessions'[f].entity = sessions[f].entity /\ sessions'[g].entity = sessions[g].entity
    BY <1>3, <2>1 DEF SameIdentity
  <2>3. CASE sessions'[f].name = sessions[f].name /\ sessions'[g].name = sessions[g].name
    BY <2>2, <2>3 DEF Inv, NamesUnique, HasDefaultName
  <2>4. CASE f = e /\ ~Taken(t.name, e)
    BY <1>1, <2>1, <2>4 DEF Taken
  <2>5. CASE g = e /\ ~Taken(t.name, e)
    BY <1>1, <2>1, <2>5 DEF Taken
  <2>6. e \in Live => IsLive(t)
    BY <1>1, <1>5 DEF Live
  <2> QED BY <1>1, <2>1, <2>3, <2>4, <2>5, <2>6
<1> QED BY <1>2, <1>7, <1>8, <1>9, <1>10 DEF Inv

LEMMA MessagesType == Messages \subseteq Seq(Hello)
<1>1. \A S : \A h \in S : <<h>> \in Seq(S)
  OBVIOUS
<1>2. \A S : <<>> \in Seq(S)
  OBVIOUS
<1> QED BY <1>1, <1>2 DEF Messages

LEMMA FrontDoorKeeps ==
  ASSUME Inv, NEW e \in Endpoint, NEW msgs \in Messages, FrontDoor(e, msgs)
  PROVE  Inv'
<1> DEFINE t == Received(Before(e), msgs)
<1>1. Before(e) \in Record /\ ~IsLive(Before(e))
  BY ShellTyped DEF FrontDoor, Before, Inv, Typed, Live
<1>2. msgs \in Seq(Hello)
  BY MessagesType
<1>3. t \in Record /\ SameIdentity(Before(e), t) /\ ~IsLive(t)
  <2>1. Before(e).inbox \o msgs \in Seq(Hello)
    BY <1>1, <1>2 DEF Record
  <2> QED BY <1>1, <2>1 DEF Received, Record, SameIdentity, IsLive
<1>4. /\ sessions' = Put(sessions, e, t)
      /\ UNCHANGED <<persisting, byToken, owned, world, generation, nextPlayerId>>
  BY DEF FrontDoor, Before
<1> HIDE DEF t
<1> QED BY <1>3, <1>4, TouchKeeps

(* A rebind moves a live session to an address that holds none.            *)
LEMMA AuthenticatedKeeps ==
  ASSUME Inv, NEW e \in Endpoint, NEW token \in DOMAIN byToken, NEW msgs \in Messages,
         Authenticated(e, token, msgs)
  PROVE  Inv'
<1> DEFINE old == byToken[token]
           t == Received(sessions[old], msgs)
<1>1. /\ old \in Live /\ old \in DOMAIN sessions /\ sessions[old] \in Record
      /\ sessions[old].token = token
      /\ old # e => e \notin DOMAIN sessions
  BY DEF Inv, TokensExact, Live, Typed, Authenticated
<1>2. /\ t \in Record /\ SameIdentity(sessions[old], t) /\ IsLive(t)
      /\ t.name = sessions[old].name /\ t.loading = sessions[old].loading
  <2>1. msgs \in Seq(Hello)
    BY MessagesType
  <2>2. sessions[old].inbox \o msgs \in Seq(Hello)
    BY <1>1, <2>1 DEF Record
  <2> QED BY <1>1, <2>2 DEF Received, Record, SameIdentity, IsLive, Live
<1>3. /\ sessions' = Put(Restrict(sessions, DOMAIN sessions \ {old}), e, t)
      /\ byToken' = [byToken EXCEPT ![token] = e]
      /\ UNCHANGED <<persisting, owned, world, generation, nextPlayerId>>
  BY DEF Authenticated
<1> HIDE DEF t
<1>4. /\ DOMAIN sessions' = (DOMAIN sessions \ {old}) \cup {e}
      /\ sessions'[e] = t
      /\ \A f \in DOMAIN sessions \ {old} : f # e /\ sessions'[f] = sessions[f]
  BY <1>1, <1>3 DEF Put, Restrict
<1>5. Live' = (Live \ {old}) \cup {e}
  BY <1>1, <1>2, <1>4 DEF Live, IsLive
<1>6. \A f \in Live \ {old} : f \in DOMAIN sessions /\ f # e /\ sessions'[f] = sessions[f]
  BY <1>4 DEF Live
<1>7. Typed'
  <2>1. sessions' \in [DOMAIN sessions' -> Record]
    BY <1>2, <1>3, <1>4 DEF Put, Restrict, Inv, Typed
  <2> QED BY <1>3, <1>4, <2>1 DEF Inv, Typed
<1> DEFINE was(f) == IF f = e THEN old ELSE f
<1>12. /\ \A f \in Live' : was(f) \in Live /\ SameIdentity(sessions[was(f)], sessions'[f])
       /\ \A f, g \in Live' : was(f) = was(g) => f = g
       /\ \A f \in Live : \E g \in Live' : was(g) = f
  BY <1>1, <1>2, <1>4, <1>5, <1>6 DEF SameIdentity
<1> HIDE DEF was
<1>8. Identities'
  <2>1. \A f \in Live' : ~sessions'[f].loading
    BY <1>1, <1>2, <1>4, <1>5, <1>6 DEF Inv, Identities
  <2>2. \A f \in DOMAIN sessions' \ Live' : f \in DOMAIN sessions \ Live /\ sessions'[f] = sessions[f]
    BY <1>1, <1>4, <1>5
  <2>3. \A f \in Live' : /\ sessions'[f].playerId \in 1..(nextPlayerId' - 1)
                         /\ sessions'[f].token = Token(sessions'[f].playerId)
    BY <1>3, <1>12 DEF Inv, Identities, SameIdentity
  <2>4. \A f, g \in Live' : sessions'[f].playerId = sessions'[g].playerId => f = g
    BY <1>12 DEF Inv, Identities, SameIdentity
  <2>5. \A f \in DOMAIN sessions' \ Live' : sessions'[f].token = NoToken /\ sessions'[f].playerId = 0
    BY <2>2 DEF Inv, Identities
  <2> QED BY <2>1, <2>3, <2>4, <2>5 DEF Identities
<1>9. TokensExact'
  <2>1. DOMAIN byToken' = DOMAIN byToken /\ byToken'[token] = e
        /\ \A u \in DOMAIN byToken \ {token} : byToken'[u] = byToken[u]
    BY <1>3 DEF Inv, Typed
  <2>2. \A f \in Live \ {old} : sessions[f].token # token
    BY DEF Inv, TokensExact
  <2>3. \A u \in DOMAIN byToken \ {token} : byToken[u] # old
    BY <1>1 DEF Inv, TokensExact
  <2> QED BY <1>1, <1>2, <1>4, <1>5, <1>6, <2>1, <2>2, <2>3 DEF Inv, TokensExact, SameIdentity
<1>10. Ownership'
  <2>1. \A p \in DOMAIN owned' : \E f \in Live' : sessions'[f].playerId = p
    <3> SUFFICES ASSUME NEW p \in DOMAIN owned PROVE \E f \in Live' : sessions'[f].playerId = p
      BY <1>3
    <3>1. PICK g \in Live : sessions[g].playerId = p
      BY DEF Inv, Ownership
    <3>2. PICK f \in Live' : was(f) = g
      BY <1>12
    <3> QED BY <1>12, <3>1, <3>2 DEF SameIdentity
  <2>2. \A f \in Live' : /\ sessions'[f].playerId \in DOMAIN owned'
                         /\ sessions'[f].entity \in DOMAIN world'
                         /\ world'[sessions'[f].entity] = sessions'[f].playerId
    <3> SUFFICES ASSUME NEW f \in Live'
                 PROVE  /\ sessions'[f].playerId \in DOMAIN owned
                        /\ sessions'[f].entity \in DOMAIN world
                        /\ world[sessions'[f].entity] = sessions'[f].playerId
      BY <1>3
    <3>1. was(f) \in Live /\ SameIdentity(sessions[was(f)], sessions'[f])
      BY <1>12
    <3> QED BY <3>1 DEF Inv, Ownership, SameIdentity
  <2> QED BY <1>3, <2>1, <2>2 DEF Inv, Ownership
<1>11. NamesUnique'
  BY <1>1, <1>2, <1>4, <1>5, <1>6 DEF Inv, NamesUnique, HasDefaultName, SameIdentity
<1> QED BY <1>7, <1>8, <1>9, <1>10, <1>11 DEF Inv

-----------------------------------------------------------------------------
(* A spawn: a player id, a token and an index that nobody has.             *)
LEMMA SpawnKeeps ==
  ASSUME Inv, NEW e \in DOMAIN sessions, e \notin Live,
         NEW s \in Record, ~IsLive(s), NEW name \in Seq(Nat), Spawn(e, s, name)
  PROVE  Inv'
<1> DEFINE p == nextPlayerId
<1>1. PICK i \in Index \ {h[1] : h \in DOMAIN world} :
        LET ship == <<i, generation[i]>>
            given == IF name = Blank THEN DefaultName(i) ELSE UniqueName(name, e)
        IN /\ sessions' = Put(sessions, e,
                            [s EXCEPT !.entity = ship, !.playerId = nextPlayerId,
                                      !.token = Token(nextPlayerId), !.name = given,
                                      !.loading = FALSE, !.age = 0])
           /\ byToken' = Put(byToken, Token(nextPlayerId), e)
           /\ owned' = Put(owned, nextPlayerId, {ship})
           /\ world' = Put(world, ship, nextPlayerId)
           /\ nextPlayerId' = nextPlayerId + 1
           /\ UNCHANGED <<persisting, generation>>
  BY DEF Spawn
<1> DEFINE ship == <<i, generation[i]>>
           given == IF name = Blank THEN DefaultName(i) ELSE UniqueName(name, e)
           t == [s EXCEPT !.entity = ship, !.playerId = p, !.token = Token(p),
                          !.name = given, !.loading = FALSE, !.age = 0]
<1>2. Typed /\ Identities /\ TokensExact /\ Ownership /\ NamesUnique
  BY DEF Inv
<1>3. /\ ship \in Handle /\ ship # NoEntity /\ ship \notin DOMAIN world
      /\ ship[1] = i /\ ship[2] = generation[i] /\ p \in Nat \ {0}
  BY <1>2, HandleLive DEF Typed, Handle
<1>4. given \in Seq(Nat) /\ (given = DefaultName(i) \/ ~Taken(given, e))
  <2>1. DefaultName(i) \in Seq(Nat)
    <3>1. i \in Nat
      BY SessionAssumption
    <3> QED BY <3>1 DEF DefaultName
  <2> QED BY <1>2, <2>1, UniqueNameFree
<1>5. /\ t \in Record /\ t.entity = ship /\ t.playerId = p /\ t.token = Token(p)
      /\ t.name = given /\ t.loading = FALSE
  BY <1>3, <1>4 DEF Record
<1>6. /\ sessions' = Put(sessions, e, t) /\ byToken' = Put(byToken, Token(p), e)
      /\ owned' = Put(owned, p, {ship}) /\ world' = Put(world, ship, p)
      /\ nextPlayerId' = p + 1 /\ UNCHANGED <<persisting, generation>>
  BY <1>1
<1> HIDE DEF t, given, ship, p
<1>7. /\ DOMAIN sessions' = DOMAIN sessions /\ sessions'[e] = t
      /\ \A f \in DOMAIN sessions \ {e} : sessions'[f] = sessions[f]
  BY <1>6 DEF Put
<1>8. /\ Live' = Live \cup {e}
      /\ \A f \in Live : f \in DOMAIN sessions /\ f # e /\ sessions'[f] = sessions[f]
  BY <1>3, <1>5, <1>7 DEF Live, IsLive
<1>9. /\ DOMAIN world' = DOMAIN world \cup {ship} /\ world'[ship] = p
      /\ \A h \in DOMAIN world : h # ship /\ world'[h] = world[h]
  BY <1>3, <1>6 DEF Put
<1>10. p \notin DOMAIN owned /\ p = nextPlayerId
  <2>1. \A q \in DOMAIN owned : q # p
    BY <1>2, <1>3 DEF Identities, Ownership, p
  <2> QED BY <2>1 DEF p
<1>11. /\ DOMAIN owned' = DOMAIN owned \cup {p} /\ owned'[p] = {ship}
       /\ \A q \in DOMAIN owned : q # p /\ owned'[q] = owned[q]
  BY <1>6, <1>10 DEF Put
<1>12. /\ DOMAIN byToken' = DOMAIN byToken \cup {Token(p)} /\ byToken'[Token(p)] = e
       /\ \A u \in DOMAIN byToken \ {Token(p)} : byToken'[u] = byToken[u]
  BY <1>6 DEF Put
<1>13. Typed'
  <2>1. sessions' \in [DOMAIN sessions' -> Record]
    BY <1>2, <1>5, <1>6, <1>7 DEF Put, Typed
  <2>2. /\ byToken' = [u \in DOMAIN byToken' |-> byToken'[u]]
        /\ owned' = [q \in DOMAIN owned' |-> owned'[q]]
        /\ world' = [h \in DOMAIN world' |-> world'[h]]
    BY <1>6 DEF Put
  <2>3. \A q \in DOMAIN owned' : owned'[q] \subseteq Handle
    BY <1>2, <1>3, <1>11 DEF Typed
  <2>4. DOMAIN world' \subseteq Handle /\ nextPlayerId' \in Nat \ {0}
    BY <1>2, <1>3, <1>6, <1>9 DEF Typed
  <2>5. /\ DOMAIN sessions' \subseteq Endpoint
        /\ generation' \in [Index -> Nat] /\ persisting' \in BOOLEAN
    BY <1>2, <1>6, <1>7 DEF Typed
  <2> QED BY <2>1, <2>2, <2>3, <2>4, <2>5 DEF Typed
<1>14. Identities'
  <2>1. \A f \in Live' : /\ sessions'[f].playerId \in 1..(nextPlayerId' - 1)
                         /\ sessions'[f].token = Token(sessions'[f].playerId)
                         /\ ~sessions'[f].loading
    BY <1>2, <1>3, <1>5, <1>6, <1>7, <1>8, <1>10 DEF Identities
  <2>2. \A f \in DOMAIN sessions' \ Live' : sessions'[f].token = NoToken /\ sessions'[f].playerId = 0
    BY <1>2, <1>7, <1>8 DEF Identities
  <2>3. \A f \in Live : sessions'[f].playerId # p
    BY <1>2, <1>3, <1>8, <1>10 DEF Identities
  <2>4. \A f, g \in Live' : sessions'[f].playerId = sessions'[g].playerId => f = g
    BY <1>2, <1>5, <1>7, <1>8, <2>3 DEF Identities
  <2> QED BY <2>1, <2>2, <2>4 DEF Identities
<1>15. TokensExact'
  <2>1. \A f \in Live : sessions[f].token # Token(p)
    BY <1>2, <1>3, <1>10, TokenInjective DEF Identities
  <2>2. Token(p) \notin DOMAIN byToken
    BY <1>2, <2>1 DEF TokensExact
  <2> QED BY <1>2, <1>5, <1>7, <1>8, <1>12, <2>1, <2>2 DEF TokensExact
<1>16. Ownership'
  <2>1. \A q \in DOMAIN owned' : \E f \in Live' : sessions'[f].playerId = q
    BY <1>2, <1>5, <1>7, <1>8, <1>11 DEF Ownership
  <2>2. \A f \in Live' : /\ sessions'[f].playerId \in DOMAIN owned'
                         /\ sessions'[f].entity \in DOMAIN world'
                         /\ world'[sessions'[f].entity] = sessions'[f].playerId
    BY <1>2, <1>5, <1>7, <1>8, <1>9, <1>11 DEF Ownership
  <2>3. \A h \in DOMAIN world' : /\ world'[h] \in DOMAIN owned'
                                 /\ h \in owned'[world'[h]]
                                 /\ h[2] = generation'[h[1]]
    <3> SUFFICES ASSUME NEW h \in DOMAIN world'
                 PROVE  world'[h] \in DOMAIN owned' /\ h \in owned'[world'[h]] /\ h[2] = generation[h[1]]
      BY <1>6
    <3>1. CASE h = ship
      BY <1>3, <1>9, <1>11, <3>1
    <3>2. CASE h \in DOMAIN world
      BY <1>2, <1>9, <1>11, <3>2 DEF Ownership
    <3> QED BY <1>9, <3>1, <3>2
  <2>4. \A q \in DOMAIN owned' : \A h \in owned'[q] :
          \/ h \in DOMAIN world' /\ world'[h] = q
          \/ h[2] < generation'[h[1]]
    <3> SUFFICES ASSUME NEW q \in DOMAIN owned', NEW h \in owned'[q]
                 PROVE  (h \in DOMAIN world' /\ world'[h] = q) \/ h[2] < generation[h[1]]
      BY <1>6
    <3>1. CASE q = p
      BY <1>9, <1>11, <3>1
    <3>2. CASE q \in DOMAIN owned
      BY <1>2, <1>9, <1>11, <3>2 DEF Ownership
    <3> QED BY <1>11, <3>1, <3>2
  <2> QED BY <2>1, <2>2, <2>3, <2>4 DEF Ownership
<1>17. NamesUnique'
  <2> SUFFICES ASSUME NEW f \in Live', NEW g \in Live', sessions'[f].name = sessions'[g].name, f # g
               PROVE  HasDefaultName(f)' \/ HasDefaultName(g)'
    BY DEF NamesUnique
  <2>1. CASE f # e /\ g # e
    BY <1>2, <1>8, <2>1 DEF NamesUnique, HasDefaultName
  <2>2. given = DefaultName(i) => HasDefaultName(e)'
    BY <1>3, <1>5, <1>7 DEF HasDefaultName
  <2>3. ~Taken(given, e) => \A h \in Live : sessions[h].name # given
    BY <1>8 DEF Taken
  <2> QED BY <1>4, <1>5, <1>7, <1>8, <2>1, <2>2, <2>3
<1> QED BY <1>13, <1>14, <1>15, <1>16, <1>17 DEF Inv

-----------------------------------------------------------------------------
LEMMA BuyEscortKeeps ==
  ASSUME Inv, NEW e \in DOMAIN sessions, BuyEscort(e)
  PROVE  Inv'
<1> DEFINE p == sessions[e].playerId
<1>1. PICK i \in Index \ {h[1] : h \in DOMAIN world} :
        /\ world' = Put(world, <<i, generation[i]>>, p)
        /\ owned' = [owned EXCEPT ![p] = @ \cup {<<i, generation[i]>>}]
  BY DEF BuyEscort
<1> DEFINE escort == <<i, generation[i]>>
<1>2. /\ e \in Live
      /\ UNCHANGED <<persisting, sessions, byToken, generation, nextPlayerId>>
  BY DEF BuyEscort
<1>3. Typed /\ Identities /\ TokensExact /\ Ownership /\ NamesUnique
  BY DEF Inv
<1>4. /\ escort \in Handle /\ escort \notin DOMAIN world
      /\ escort[1] = i /\ escort[2] = generation[i]
  BY <1>3 DEF Typed, Handle
<1>5. p \in DOMAIN owned
  BY <1>2, <1>3 DEF Ownership
<1>6. world' = Put(world, escort, p) /\ owned' = [owned EXCEPT ![p] = @ \cup {escort}]
  BY <1>1
<1> HIDE DEF escort
<1>7. /\ DOMAIN world' = DOMAIN world \cup {escort} /\ world'[escort] = p
      /\ \A h \in DOMAIN world : h # escort /\ world'[h] = world[h]
  BY <1>4, <1>6 DEF Put
<1>8. /\ DOMAIN owned' = DOMAIN owned /\ owned'[p] = owned[p] \cup {escort}
      /\ \A q \in DOMAIN owned \ {p} : owned'[q] = owned[q]
  BY <1>3, <1>5, <1>6 DEF Typed
<1>9. Live' = Live
  BY <1>2 DEF Live
<1>10. Typed'
  <2>1. /\ owned' = [q \in DOMAIN owned' |-> owned'[q]]
        /\ world' = [h \in DOMAIN world' |-> world'[h]]
    BY <1>3, <1>6 DEF Put, Typed
  <2>2. \A q \in DOMAIN owned' : owned'[q] \subseteq Handle
    BY <1>3, <1>4, <1>8 DEF Typed
  <2>3. DOMAIN world' \subseteq Handle
    BY <1>3, <1>4, <1>7 DEF Typed
  <2> QED BY <1>2, <1>3, <2>1, <2>2, <2>3 DEF Typed
<1>11. Identities' /\ TokensExact' /\ NamesUnique'
  BY <1>2, <1>3, <1>9 DEF Identities, TokensExact, NamesUnique, HasDefaultName
<1>12. Ownership'
  <2>1. \A q \in DOMAIN owned' : \E f \in Live' : sessions'[f].playerId = q
    BY <1>2, <1>3, <1>8, <1>9 DEF Ownership
  <2>2. \A f \in Live' : /\ sessions'[f].playerId \in DOMAIN owned'
                         /\ sessions'[f].entity \in DOMAIN world'
                         /\ world'[sessions'[f].entity] = sessions'[f].playerId
    BY <1>2, <1>3, <1>7, <1>8, <1>9 DEF Ownership
  <2>3. ASSUME NEW h \in DOMAIN world'
        PROVE  world'[h] \in DOMAIN owned' /\ h \in owned'[world'[h]] /\ h[2] = generation[h[1]]
    <3>1. CASE h = escort
      BY <1>4, <1>5, <1>7, <1>8, <3>1
    <3>2. CASE h \in DOMAIN world
      <4>1. /\ world'[h] = world[h] /\ world[h] \in DOMAIN owned
            /\ h \in owned[world[h]] /\ h[2] = generation[h[1]]
        BY <1>3, <1>7, <3>2 DEF Ownership
      <4> QED BY <1>8, <4>1
    <3> QED BY <1>7, <3>1, <3>2
  <2>4. ASSUME NEW q \in DOMAIN owned', NEW h \in owned'[q]
        PROVE  (h \in DOMAIN world' /\ world'[h] = q) \/ h[2] < generation[h[1]]
    <3>1. CASE q = p /\ h = escort
      BY <1>7, <3>1
    <3>2. CASE h \in owned[q]
      <4>1. (h \in DOMAIN world /\ world[h] = q) \/ h[2] < generation[h[1]]
        BY <1>3, <1>8, <3>2 DEF Ownership
      <4> QED BY <1>7, <4>1
    <3> QED BY <1>8, <3>1, <3>2
  <2> QED BY <1>2, <2>1, <2>2, <2>3, <2>4 DEF Ownership
<1> QED BY <1>10, <1>11, <1>12 DEF Inv

(* Destroying takes entities out of the world and makes the handles that   *)
(* are still kept of them stale, and no others.                            *)
LEMMA DestroyedStale ==
  ASSUME Typed, Ownership, NEW handles \in SUBSET DOMAIN world, Destroyed(handles)
  PROVE  /\ DOMAIN world' = DOMAIN world \ handles
         /\ world' = [h \in DOMAIN world' |-> world'[h]]
         /\ \A h \in DOMAIN world' : world'[h] = world[h] /\ generation'[h[1]] = generation[h[1]]
         /\ generation' \in [Index -> Nat]
         /\ \A i \in Index : generation'[i] >= generation[i]
         /\ \A h \in handles : h[2] < generation'[h[1]]
<1>1. /\ world' = [h \in DOMAIN world \ handles |-> world[h]]
      /\ generation' = [i \in Index |-> IF \E h \in handles : h[1] = i
                                        THEN generation[i] + 1 ELSE generation[i]]
  BY DEF Destroyed, Restrict
<1>2. \A h \in DOMAIN world : /\ h[1] \in Index /\ h = <<h[1], h[2]>>
                              /\ h[2] = generation[h[1]] /\ generation[h[1]] \in Nat
  BY HandleLive DEF Typed, Ownership
<1>3. \A h \in DOMAIN world \ handles : generation'[h[1]] = generation[h[1]]
  <2> SUFFICES ASSUME NEW h \in DOMAIN world \ handles, NEW g \in handles, g[1] = h[1]
               PROVE  FALSE
    BY <1>1, <1>2
  <2> QED BY <1>2
<1>4. \A h \in handles : h[2] < generation'[h[1]]
  BY <1>1, <1>2
<1>5. generation' \in [Index -> Nat] /\ \A i \in Index : generation'[i] >= generation[i]
  BY <1>1 DEF Typed
<1> QED BY <1>1, <1>3, <1>4, <1>5

LEMMA EscortKilledKeeps ==
  ASSUME Inv, NEW h \in DOMAIN world, EscortKilled(h)
  PROVE  Inv'
<1>1. /\ \A e \in Live : sessions[e].entity # h
      /\ UNCHANGED <<persisting, sessions, byToken, owned, nextPlayerId>>
  BY DEF EscortKilled
<1>2. Typed /\ Identities /\ TokensExact /\ Ownership /\ NamesUnique
  BY DEF Inv
<1>3. /\ DOMAIN world' = DOMAIN world \ {h}
      /\ world' = [g \in DOMAIN world' |-> world'[g]]
      /\ \A g \in DOMAIN world' : world'[g] = world[g] /\ generation'[g[1]] = generation[g[1]]
      /\ generation' \in [Index -> Nat]
      /\ \A i \in Index : generation'[i] >= generation[i]
      /\ h[2] < generation'[h[1]]
  BY <1>2, DestroyedStale DEF EscortKilled
<1>4. Live' = Live
  BY <1>1 DEF Live
<1>5. Typed'
  BY <1>1, <1>2, <1>3 DEF Typed
<1>6. Identities' /\ TokensExact' /\ NamesUnique'
  BY <1>1, <1>2, <1>4 DEF Identities, TokensExact, NamesUnique, HasDefaultName
<1>7. Ownership'
  <2>1. \A q \in DOMAIN owned' : \E f \in Live' : sessions'[f].playerId = q
    BY <1>1, <1>2, <1>4 DEF Ownership
  <2>2. \A f \in Live' : /\ sessions'[f].playerId \in DOMAIN owned'
                         /\ sessions'[f].entity \in DOMAIN world'
                         /\ world'[sessions'[f].entity] = sessions'[f].playerId
    BY <1>1, <1>2, <1>3, <1>4 DEF Ownership
  <2>3. \A g \in DOMAIN world' : /\ world'[g] \in DOMAIN owned'
                                 /\ g \in owned'[world'[g]]
                                 /\ g[2] = generation'[g[1]]
    BY <1>1, <1>2, <1>3 DEF Ownership
  <2>4. ASSUME NEW q \in DOMAIN owned, NEW g \in owned[q]
        PROVE  (g \in DOMAIN world' /\ world'[g] = q) \/ g[2] < generation'[g[1]]
    <3>1. g[1] \in Index /\ g[2] \in Nat
      BY <1>2, HandleLive DEF Typed
    <3>2. (g \in DOMAIN world /\ world[g] = q) \/ g[2] < generation[g[1]]
      BY <1>2 DEF Ownership
    <3>3. CASE g[2] < generation[g[1]]
      BY <1>2, <1>3, <3>1, <3>3 DEF Typed
    <3>4. CASE g \in DOMAIN world /\ world[g] = q
      BY <1>3, <3>4
    <3> QED BY <3>2, <3>3, <3>4
  <2> QED BY <1>1, <2>1, <2>2, <2>3, <2>4 DEF Ownership
<1> QED BY <1>5, <1>6, <1>7 DEF Inv

LEMMA AgedRecord ==
  ASSUME NEW s \in Record
  PROVE  LET t == [s EXCEPT !.age = @ + 1]
         IN  t \in Record /\ SameIdentity(s, t) /\ t.name = s.name /\ t.loading = s.loading
<1>1. s.age \in Nat /\ s.age + 1 \in Nat
  BY DEF Record
<1>2. [s EXCEPT !.age = s.age + 1] \in Record
  BY <1>1 DEF Record
<1> QED BY <1>2 DEF Record, SameIdentity

(* The reap destroys what belongs to the players who are dropped, and      *)
(* nothing of anybody else's.                                              *)
LEMMA TickKeeps ==
  ASSUME Inv, Tick
  PROVE  Inv'
<1> DEFINE gone == {sessions[e] : e \in Expired}
           ids == {s.playerId : s \in gone}
           handles == ((UNION {owned[p] : p \in ids \cap DOMAIN owned})
                         \cup {s.entity : s \in gone}) \cap DOMAIN world
           kept == DOMAIN sessions \ Expired
<1>1. /\ Destroyed(handles)
      /\ owned' = [p \in DOMAIN owned \ ids |-> owned[p]]
      /\ byToken' = [u \in DOMAIN byToken \ {s.token : s \in gone} |-> byToken[u]]
      /\ sessions' = [e \in kept |-> [sessions[e] EXCEPT !.age = @ + 1]]
      /\ UNCHANGED <<persisting, nextPlayerId>>
  BY DEF Tick, Reap, Restrict
<1>2. Typed /\ Identities /\ TokensExact /\ Ownership /\ NamesUnique
  BY DEF Inv
<1>3. Expired \subseteq DOMAIN sessions
  BY DEF Expired
<1>4. /\ DOMAIN sessions' = kept
      /\ \A e \in kept : /\ sessions'[e] \in Record /\ SameIdentity(sessions[e], sessions'[e])
                         /\ sessions'[e].name = sessions[e].name
                         /\ sessions'[e].loading = sessions[e].loading
  <2> SUFFICES ASSUME NEW e \in kept
               PROVE  /\ sessions'[e] \in Record /\ SameIdentity(sessions[e], sessions'[e])
                      /\ sessions'[e].name = sessions[e].name
                      /\ sessions'[e].loading = sessions[e].loading
    BY <1>1
  <2>1. sessions'[e] = [sessions[e] EXCEPT !.age = @ + 1] /\ sessions[e] \in Record
    BY <1>1, <1>2 DEF Typed
  <2> HIDE DEF kept, handles, ids, gone
  <2> QED BY <2>1, AgedRecord
<1>5. Live' = Live \ Expired
  BY <1>3, <1>4 DEF Live, IsLive, SameIdentity
<1>6. \A e \in Live' : e \in Live /\ e \in kept
  BY <1>5 DEF Live
<1>7. /\ \A e \in Live' : sessions[e].playerId \notin ids
      /\ \A p \in DOMAIN owned \ ids : \E e \in Live' : sessions[e].playerId = p
  <2>1. ASSUME NEW e \in Live', NEW f \in Expired, sessions[f].playerId = sessions[e].playerId
        PROVE  FALSE
    <3>1. sessions[f].playerId # 0
      BY <1>2, <1>6, <2>1 DEF Identities, Typed
    <3>2. f \in Live
      BY <1>2, <1>3, <3>1 DEF Identities
    <3> QED BY <1>2, <1>5, <1>6, <2>1, <3>2 DEF Identities
  <2>2. ASSUME NEW p \in DOMAIN owned \ ids PROVE \E e \in Live' : sessions[e].playerId = p
    <3>1. PICK e \in Live : sessions[e].playerId = p
      BY <1>2 DEF Ownership
    <3> QED BY <1>5, <3>1
  <2> QED BY <2>1, <2>2
<1>8. \A h \in DOMAIN world : h \in handles <=> world[h] \in ids
  <2> SUFFICES ASSUME NEW h \in DOMAIN world PROVE h \in handles <=> world[h] \in ids
    OBVIOUS
  <2>1. /\ h \in Handle /\ h # NoEntity /\ world[h] \in DOMAIN owned /\ h \in owned[world[h]]
        /\ ~(h[2] < generation[h[1]])
    BY <1>2, HandleLive DEF Typed, Ownership
  <2>2. \A p \in DOMAIN owned : h \in owned[p] => world[h] = p
    BY <1>2, <2>1 DEF Ownership
  <2>3. ASSUME NEW e \in Expired, sessions[e].entity = h PROVE world[h] \in ids
    <3>1. e \in Live
      BY <1>3, <2>1, <2>3 DEF Live, IsLive
    <3> QED BY <1>2, <2>3, <3>1 DEF Ownership
  <2>4. h \in handles <=> \/ \E p \in ids \cap DOMAIN owned : h \in owned[p]
                          \/ \E e \in Expired : sessions[e].entity = h
    <3>1. h \in {s.entity : s \in gone} <=> \E e \in Expired : sessions[e].entity = h
      OBVIOUS
    <3> HIDE DEF ids, gone
    <3>2. h \in UNION {owned[p] : p \in ids \cap DOMAIN owned}
            <=> \E p \in ids \cap DOMAIN owned : h \in owned[p]
      OBVIOUS
    <3>3. h \in handles <=> \/ h \in UNION {owned[p] : p \in ids \cap DOMAIN owned}
                            \/ h \in {s.entity : s \in gone}
      OBVIOUS
    <3> HIDE DEF handles
    <3> QED BY <3>1, <3>2, <3>3
  <2> HIDE DEF handles, ids
  <2> QED BY <2>1, <2>2, <2>3, <2>4
<1>9. handles \in SUBSET DOMAIN world
  OBVIOUS
<1> HIDE DEF handles
<1>10. /\ DOMAIN world' = DOMAIN world \ handles
       /\ world' = [h \in DOMAIN world' |-> world'[h]]
       /\ \A h \in DOMAIN world' : world'[h] = world[h] /\ generation'[h[1]] = generation[h[1]]
       /\ generation' \in [Index -> Nat]
       /\ \A i \in Index : generation'[i] >= generation[i]
       /\ \A h \in handles : h[2] < generation'[h[1]]
  BY <1>1, <1>2, <1>9, DestroyedStale
<1> HIDE DEF ids
<1>11. DOMAIN owned' = DOMAIN owned \ ids /\ \A p \in DOMAIN owned' : owned'[p] = owned[p]
  BY <1>1
<1>12. Typed'
  <2>1. /\ sessions' \in [DOMAIN sessions' -> Record] /\ DOMAIN sessions' \subseteq Endpoint
        /\ byToken' = [u \in DOMAIN byToken' |-> byToken'[u]]
        /\ owned' = [q \in DOMAIN owned' |-> owned'[q]]
    BY <1>1, <1>2, <1>4 DEF Typed
  <2>2. \A q \in DOMAIN owned' : owned'[q] \subseteq Handle
    BY <1>2, <1>11 DEF Typed
  <2> QED BY <1>1, <1>2, <1>10, <2>1, <2>2 DEF Typed
<1>13. Identities'
  <2>1. \A e \in DOMAIN sessions' \ Live' : e \in DOMAIN sessions \ Live
    BY <1>4, <1>5
  <2> QED BY <1>1, <1>2, <1>4, <1>6, <2>1 DEF Identities, SameIdentity
<1>14. TokensExact'
  <2> DEFINE dropped == {s.token : s \in gone}
  <2>1. \A u \in DOMAIN byToken : u \in dropped <=> byToken[u] \in Expired
    <3> SUFFICES ASSUME NEW u \in DOMAIN byToken PROVE u \in dropped <=> byToken[u] \in Expired
      OBVIOUS
    <3>1. byToken[u] \in Live /\ sessions[byToken[u]].token = u
      BY <1>2 DEF TokensExact
    <3>2. ASSUME NEW e \in Expired, sessions[e].token = u PROVE e = byToken[u]
      <4>1. u # NoToken
        <5>1. sessions[byToken[u]].playerId \in Nat /\ sessions[byToken[u]].playerId # 0
          BY <1>2, <3>1 DEF Identities, Typed
        <5> QED BY <1>2, <3>1, <5>1, TokenInjective DEF Identities, NoToken
      <4>2. e \in Live
        BY <1>2, <1>3, <3>2, <4>1 DEF Identities
      <4> QED BY <1>2, <3>2, <4>2 DEF TokensExact
    <3> QED BY <3>1, <3>2
  <2>2. /\ DOMAIN byToken' = DOMAIN byToken \ dropped
        /\ \A u \in DOMAIN byToken' : byToken'[u] = byToken[u]
    BY <1>1
  <2> HIDE DEF dropped
  <2>3. \A e \in Live' : sessions'[e].token \in DOMAIN byToken' /\ byToken'[sessions'[e].token] = e
    BY <1>2, <1>4, <1>5, <1>6, <2>1, <2>2 DEF TokensExact, SameIdentity
  <2>4. \A u \in DOMAIN byToken' : byToken'[u] \in Live' /\ sessions'[byToken'[u]].token = u
    BY <1>2, <1>4, <1>5, <1>6, <2>1, <2>2 DEF TokensExact, SameIdentity
  <2> QED BY <2>3, <2>4 DEF TokensExact
<1>15. Ownership'
  <2>1. \A p \in DOMAIN owned' : \E e \in Live' : sessions'[e].playerId = p
    <3> SUFFICES ASSUME NEW p \in DOMAIN owned \ ids PROVE \E e \in Live' : sessions'[e].playerId = p
      BY <1>11
    <3>1. PICK e \in Live' : sessions[e].playerId = p
      BY <1>7
    <3> QED BY <1>4, <1>6, <3>1 DEF SameIdentity
  <2>2. ASSUME NEW e \in Live'
        PROVE  /\ sessions'[e].playerId \in DOMAIN owned'
               /\ sessions'[e].entity \in DOMAIN world'
               /\ world'[sessions'[e].entity] = sessions'[e].playerId
    <3>1. SameIdentity(sessions[e], sessions'[e]) /\ e \in Live /\ sessions[e].playerId \notin ids
      BY <1>4, <1>6, <1>7
    <3>2. /\ sessions[e].playerId \in DOMAIN owned /\ sessions[e].entity \in DOMAIN world
          /\ world[sessions[e].entity] = sessions[e].playerId
      BY <1>2, <3>1 DEF Ownership
    <3> QED BY <1>8, <1>10, <1>11, <3>1, <3>2 DEF SameIdentity
  <2>3. \A h \in DOMAIN world' : /\ world'[h] \in DOMAIN owned'
                                 /\ h \in owned'[world'[h]]
                                 /\ h[2] = generation'[h[1]]
    BY <1>2, <1>8, <1>10, <1>11 DEF Ownership
  <2>4. ASSUME NEW q \in DOMAIN owned', NEW g \in owned'[q]
        PROVE  (g \in DOMAIN world' /\ world'[g] = q) \/ g[2] < generation'[g[1]]
    <3>1. q \in DOMAIN owned /\ q \notin ids /\ g \in owned[q]
      BY <1>11
    <3>2. g[1] \in Index /\ g[2] \in Nat
      BY <1>2, <3>1, HandleLive DEF Typed
    <3>3. (g \in DOMAIN world /\ world[g] = q) \/ g[2] < generation[g[1]]
      BY <1>2, <3>1 DEF Ownership
    <3>4. CASE g[2] < generation[g[1]]
      BY <1>2, <1>10, <3>2, <3>4 DEF Typed
    <3>5. CASE g \in DOMAIN world /\ world[g] = q
      BY <1>8, <1>10, <3>1, <3>5
    <3> QED BY <3>3, <3>4, <3>5
  <2> QED BY <2>1, <2>2, <2>3, <2>4 DEF Ownership
<1>16. NamesUnique'
  BY <1>2, <1>4, <1>6 DEF NamesUnique, HasDefaultName, SameIdentity
<1> QED BY <1>12, <1>13, <1>14, <1>15, <1>16 DEF Inv

-----------------------------------------------------------------------------
(* A hello is rejected, resumes a live session, parks one or spawns.       *)
HelloStays(e, t) ==
  /\ t \in Record /\ SameIdentity(sessions[e], t)
  /\ IsLive(t) => ~t.loading /\ (t.name = sessions[e].name \/ ~Taken(t.name, e))
  /\ sessions[e].loading => t.loading
  /\ sessions' = Put(sessions, e, t)
  /\ UNCHANGED <<persisting, byToken, owned, world, generation, nextPlayerId>>
HelloSpawns(e, s, name) ==
  /\ e \notin Live /\ s \in Record /\ ~IsLive(s) /\ name \in Seq(Nat)
  /\ Spawn(e, s, name)

LEMMA HelloCases ==
  ASSUME Inv, NEW e \in DOMAIN sessions, OnHello(e)
  PROVE  \/ \E t : HelloStays(e, t)
         \/ \E s, name : HelloSpawns(e, s, name)
<1> DEFINE hello == Head(sessions[e].inbox)
           s == [sessions[e] EXCEPT !.inbox = Tail(@), !.age = 0]
<1>1. sessions[e] \in Record /\ sessions[e].inbox \in Seq(Hello) /\ sessions[e].inbox # <<>>
  BY DEF Inv, Typed, Record, OnHello
<1>2. hello \in Hello /\ Tail(sessions[e].inbox) \in Seq(Hello)
  BY <1>1
<1>3. hello.name \in Seq(Nat)
  BY <1>2, SessionAssumption DEF Hello
<1>4. /\ s \in Record /\ SameIdentity(sessions[e], s)
      /\ s.name = sessions[e].name /\ s.loading = sessions[e].loading
      /\ IsLive(s) <=> e \in Live
      /\ IsLive(s) => ~s.loading
  BY <1>1, <1>2 DEF Record, SameIdentity, IsLive, Live, Inv, Identities
<1>5. ASSUME NEW t, t \in Record, SameIdentity(sessions[e], t),
             IsLive(t) => ~t.loading /\ (t.name = sessions[e].name \/ ~Taken(t.name, e)),
             sessions[e].loading => t.loading,
             sessions' = [sessions EXCEPT ![e] = t],
             UNCHANGED <<persisting, byToken, owned, world, generation, nextPlayerId>>
      PROVE  HelloStays(e, t)
  <2>1. sessions' = Put(sessions, e, t)
    BY <1>5 DEF Put, Inv, Typed
  <2> QED BY <1>5, <2>1 DEF HelloStays
<1> DEFINE Stay(t) == /\ sessions' = [sessions EXCEPT ![e] = t]
                      /\ UNCHANGED <<persisting, byToken, owned, world, generation, nextPlayerId>>
           resumed == [s EXCEPT !.name = IF hello.name = Blank THEN @ ELSE UniqueName(hello.name, e)]
           parked == [s EXCEPT !.loading = TRUE, !.name = hello.name]
<1>6. \/ Stay(s)
      \/ IsLive(s) /\ Stay(resumed)
      \/ ~IsLive(s) /\ Stay(parked)
      \/ ~IsLive(s) /\ (Spawn(e, s, Blank) \/ Spawn(e, s, hello.name))
  BY DEF OnHello
<1>7. CASE Stay(s)
  BY <1>4, <1>5, <1>7
<1>8. CASE IsLive(s) /\ Stay(resumed)
  <2>1. UniqueName(hello.name, e) \in Seq(Nat) /\ ~Taken(UniqueName(hello.name, e), e)
    BY <1>3, UniqueNameFree DEF Inv
  <2> HIDE DEF s, hello
  <2>2. /\ resumed \in Record /\ SameIdentity(s, resumed) /\ resumed.loading = s.loading
        /\ resumed.name = s.name \/ ~Taken(resumed.name, e)
    BY <1>4, <2>1 DEF Record, SameIdentity
  <2>3. SameIdentity(sessions[e], resumed) /\ IsLive(resumed)
    BY <1>4, <1>8, <2>2 DEF SameIdentity, IsLive
  <2> HIDE DEF resumed
  <2> QED BY <1>4, <1>5, <1>8, <2>2, <2>3
<1>9. CASE ~IsLive(s) /\ Stay(parked)
  <2> HIDE DEF s, hello
  <2>1. parked \in Record /\ SameIdentity(s, parked) /\ parked.loading
    BY <1>3, <1>4 DEF Record, SameIdentity
  <2>2. SameIdentity(sessions[e], parked) /\ ~IsLive(parked)
    BY <1>4, <1>9, <2>1 DEF SameIdentity, IsLive
  <2> HIDE DEF parked
  <2> QED BY <1>5, <1>9, <2>1, <2>2
<1>10. CASE ~IsLive(s) /\ (Spawn(e, s, Blank) \/ Spawn(e, s, hello.name))
  <2>1. Blank \in Seq(Nat)
    BY DEF Blank
  <2> HIDE DEF s, hello
  <2> QED BY <1>3, <1>4, <1>10, <2>1 DEF HelloSpawns
<1> QED BY <1>6, <1>7, <1>8, <1>9, <1>10

LEMMA OnHelloKeeps ==
  ASSUME Inv, NEW e \in DOMAIN sessions, OnHello(e)
  PROVE  Inv'
<1>1. e \in Endpoint
  BY DEF Inv, Typed
<1>2. ASSUME NEW t, HelloStays(e, t) PROVE Inv'
  <2>1. SameIdentity(Before(e), t)
    BY <1>2 DEF HelloStays, Before
  <2> QED BY <1>1, <1>2, <2>1, TouchKeeps DEF HelloStays
<1>3. ASSUME NEW s, NEW name, HelloSpawns(e, s, name) PROVE Inv'
  BY <1>3, SpawnKeeps DEF HelloSpawns
<1> QED BY <1>2, <1>3, HelloCases

LEMMA LoadedSpawns ==
  ASSUME Inv, NEW e \in DOMAIN sessions, SpawnLoaded(e)
  PROVE  HelloSpawns(e, sessions[e], sessions[e].name)
<1>1. sessions[e] \in Record /\ sessions[e].loading
  BY DEF Inv, Typed, SpawnLoaded
<1>2. e \notin Live
  BY <1>1 DEF Inv, Identities
<1> QED BY <1>1, <1>2 DEF HelloSpawns, SpawnLoaded, Record, Live

LEMMA InvInit == Init => Inv
<1> SUFFICES ASSUME Init PROVE Inv
  OBVIOUS
<1>1. /\ sessions = <<>> /\ byToken = <<>> /\ owned = <<>> /\ world = <<>>
      /\ generation = [i \in Index |-> 0] /\ nextPlayerId = 1 /\ persisting \in BOOLEAN
  BY DEF Init
<1>2. DOMAIN <<>> = {} /\ <<>> = [x \in {} |-> x]
  OBVIOUS
<1>3. Live = {}
  BY <1>1, <1>2 DEF Live
<1>4. Typed
  <2>1. sessions \in [{} -> Record]
    BY <1>1
  <2>2. \A f : f = <<>> => f = [x \in DOMAIN f |-> f[x]]
    OBVIOUS
  <2> QED BY <1>1, <1>2, <2>1, <2>2 DEF Typed
<1> QED BY <1>1, <1>2, <1>3, <1>4 DEF Inv, Identities, TokensExact, Ownership, NamesUnique

LEMMA InvStep == Inv /\ [Next]_vars => Inv'
<1> SUFFICES ASSUME Inv, [Next]_vars PROVE Inv'
  OBVIOUS
<1>1. ASSUME NEW e \in Endpoint, NEW msgs \in Messages, FrontDoor(e, msgs) PROVE Inv'
  BY <1>1, FrontDoorKeeps
<1>2. ASSUME NEW e \in Endpoint, NEW msgs \in Messages, NEW token \in DOMAIN byToken,
             Authenticated(e, token, msgs)
      PROVE  Inv'
  BY <1>2, AuthenticatedKeeps
<1>3. ASSUME NEW e \in DOMAIN sessions, OnHello(e) PROVE Inv'
  BY <1>3, OnHelloKeeps
<1>4. ASSUME NEW e \in DOMAIN sessions, SpawnLoaded(e) PROVE Inv'
  BY <1>4, LoadedSpawns, SpawnKeeps DEF HelloSpawns
<1>5. ASSUME NEW e \in DOMAIN sessions, BuyEscort(e) PROVE Inv'
  BY <1>5, BuyEscortKeeps
<1>6. ASSUME NEW h \in DOMAIN world, EscortKilled(h) PROVE Inv'
  BY <1>6, EscortKilledKeeps
<1>7. CASE Tick
  BY <1>7, TickKeeps
<1>8. CASE UNCHANGED vars
  BY <1>8 DEF vars, Inv, Typed, Identities, TokensExact, Ownership, NamesUnique, Live,
              HasDefaultName
<1> QED BY <1>1, <1>2, <1>3, <1>4, <1>5, <1>6, <1>7, <1>8 DEF Next, Traffic

(* The table, both indices and the world keep agreeing, whatever rebinds,  *)
(* hellos, loads, purchases, deaths and reaps there are and in any order.  *)
THEOREM SessionsInvariant == Spec => []Inv
BY InvInit, InvStep, PTL DEF Spec

(* The token index names exactly the live sessions, each at the address it *)
(* speaks from now (ServerSessions.h Authenticate, Rebind, Reap).          *)
THEOREM TokensLeadHome == Spec => []TokenIndexExact
<1>1. Inv => TokenIndexExact
  BY DEF Inv, TokensExact, Identities, TokenIndexExact, Live
<1> QED BY <1>1, SessionsInvariant, PTL

(* No entity with an owner outlives its player's session, and no reap takes *)
(* the ship of another, though dead escorts stay in the ownership index and *)
(* their slots are used again (ServerSessions.h Reap, OwnershipIndex.h).    *)
THEOREM NobodyOrphaned == Spec => []NoOrphans
<1>1. Inv => NoOrphans
  BY DEF Inv, Ownership, NoOrphans
<1> QED BY <1>1, SessionsInvariant, PTL

(* Commanders who typed a name never share one, whenever each of them      *)
(* typed, was loaded or renamed (ServerSessions.h UniqueName).             *)
THEOREM TypedNamesDiffer == Spec => []NamesUnique
<1>1. Inv => NamesUnique
  BY DEF Inv
<1> QED BY <1>1, SessionsInvariant, PTL

-----------------------------------------------------------------------------
Keeps(e) == \E f \in DOMAIN sessions' : KeptWhole(sessions[e], sessions'[f])

LEMMA KeptByItself ==
  ASSUME NEW s, NEW t, SameIdentity(s, t), s.loading => t.loading
  PROVE  KeptWhole(s, t)
BY DEF SameIdentity, KeptWhole

(* No step loses or changes a session before its grace time is over.       *)
LEMMA KeepStep ==
  ASSUME Inv, [Next]_vars, NEW d \in DOMAIN sessions,
         IsLive(sessions[d]) \/ sessions[d].loading, ~(sessions[d].age > GraceTicks)
  PROVE  Keeps(d)
<1>1. \A s : KeptWhole(s, s)
  BY DEF KeptWhole
<1>2. ASSUME NEW e \in Endpoint, NEW msgs \in Messages, FrontDoor(e, msgs) PROVE Keeps(d)
  <2> DEFINE t == Received(Before(e), msgs)
  <2>1. sessions' = Put(sessions, e, t)
    BY <1>2 DEF FrontDoor, Before
  <2>2. Before(e) \in Record
    BY ShellTyped DEF Before, Inv, Typed
  <2>3. SameIdentity(Before(e), t) /\ t.loading = Before(e).loading
    BY <2>2 DEF Received, Record, SameIdentity
  <2> HIDE DEF t
  <2>4. d \in DOMAIN sessions' /\ sessions'[d] = IF d = e THEN t ELSE sessions[d]
    BY <2>1 DEF Put
  <2> QED BY <1>1, <2>3, <2>4, KeptByItself DEF Keeps, Before
<1>3. ASSUME NEW e \in Endpoint, NEW msgs \in Messages, NEW token \in DOMAIN byToken,
             Authenticated(e, token, msgs)
      PROVE  Keeps(d)
  <2> DEFINE old == byToken[token]
             t == Received(sessions[old], msgs)
  <2>1. /\ old \in DOMAIN sessions /\ sessions[old] \in Record
        /\ old # e => e \notin DOMAIN sessions
        /\ sessions' = Put(Restrict(sessions, DOMAIN sessions \ {old}), e, t)
    BY <1>3 DEF Inv, TokensExact, Live, Typed, Authenticated
  <2>2. SameIdentity(sessions[old], t) /\ t.loading = sessions[old].loading
    BY <2>1 DEF Received, Record, SameIdentity
  <2> HIDE DEF t
  <2>3. e \in DOMAIN sessions' /\ sessions'[e] = t
    BY <2>1 DEF Put
  <2>4. d # old => d \in DOMAIN sessions' /\ sessions'[d] = sessions[d]
    BY <2>1 DEF Put, Restrict
  <2> QED BY <1>1, <2>2, <2>3, <2>4, KeptByItself DEF Keeps
<1>4. ASSUME NEW e \in DOMAIN sessions, NEW t, HelloStays(e, t) PROVE Keeps(d)
  <2>1. d \in DOMAIN sessions' /\ sessions'[d] = IF d = e THEN t ELSE sessions[d]
    BY <1>4 DEF Put, HelloStays
  <2> QED BY <1>1, <1>4, <2>1, KeptByItself DEF Keeps, HelloStays
<1>5. ASSUME NEW e \in DOMAIN sessions, NEW s, NEW name, HelloSpawns(e, s, name) PROVE Keeps(d)
  <2>0. \E i \in Index : \E t : sessions' = Put(sessions, e, t) /\ t.entity = <<i, generation[i]>>
    <3>1. s \in Record /\ Spawn(e, s, name)
      BY <1>5 DEF HelloSpawns
    <3> DEFINE T(i, given) == [s EXCEPT !.entity = <<i, generation[i]>>, !.playerId = nextPlayerId,
                                        !.token = Token(nextPlayerId), !.name = given,
                                        !.loading = FALSE, !.age = 0]
    <3>2. PICK i \in Index : \E given : sessions' = Put(sessions, e, T(i, given))
      BY <3>1 DEF Spawn
    <3>3. PICK given : sessions' = Put(sessions, e, T(i, given))
      BY <3>2
    <3>4. T(i, given).entity = <<i, generation[i]>>
      BY <3>1 DEF Record
    <3> HIDE DEF T
    <3> QED BY <3>3, <3>4
  <2>5. PICK i \in Index : \E t : sessions' = Put(sessions, e, t) /\ t.entity = <<i, generation[i]>>
    BY <2>0
  <2>1. PICK t : sessions' = Put(sessions, e, t) /\ t.entity = <<i, generation[i]>>
    BY <2>5
  <2>2. IsLive(t)
    BY <2>1, SessionAssumption DEF IsLive, NoEntity
  <2>3. d \in DOMAIN sessions' /\ sessions'[d] = IF d = e THEN t ELSE sessions[d]
    BY <2>1 DEF Put
  <2>4. d = e => KeptWhole(sessions[d], t)
    BY <1>5, <2>2 DEF KeptWhole, Live, HelloSpawns
  <2> QED BY <1>1, <2>3, <2>4 DEF Keeps
<1>6. ASSUME sessions' = sessions PROVE Keeps(d)
  BY <1>1, <1>6 DEF Keeps
<1>7. CASE Tick
  <2>1. d \notin Expired
    BY DEF Expired, Timeout, Inv, Typed, Record
  <2>2. /\ sessions' = [e \in DOMAIN sessions \ Expired |-> [sessions[e] EXCEPT !.age = @ + 1]]
        /\ sessions[d] \in Record
    BY <1>7 DEF Tick, Inv, Typed
  <2>3. d \in DOMAIN sessions' /\ sessions'[d] = [sessions[d] EXCEPT !.age = @ + 1]
    BY <2>1, <2>2
  <2> QED BY <2>2, <2>3, AgedRecord, KeptByItself DEF Keeps
<1>8. ASSUME NEW e \in DOMAIN sessions, OnHello(e) PROVE Keeps(d)
  BY <1>4, <1>5, <1>8, HelloCases
<1>9. ASSUME NEW e \in DOMAIN sessions, SpawnLoaded(e) PROVE Keeps(d)
  BY <1>5, <1>9, LoadedSpawns
<1> QED BY <1>2, <1>3, <1>6, <1>7, <1>8, <1>9
        DEF Next, Traffic, BuyEscort, EscortKilled, vars

(* A player's session ends only by silence, and keeps its player, token and *)
(* ship through every rebind and hello; one that waits for its commander is *)
(* kept as long (ServerSessions.h Rebind, OnHello, Reap).                   *)
THEOREM SessionsAreKept == Spec => SessionsKept
<1> DEFINE A == \A e \in DOMAIN sessions :
                  IsLive(sessions[e]) \/ sessions[e].loading =>
                    \/ sessions[e].age > GraceTicks
                    \/ \E f \in DOMAIN sessions' : KeptWhole(sessions[e], sessions'[f])
<1>1. Inv /\ [Next]_vars => [A]_vars
  BY KeepStep DEF Keeps
<1> HIDE DEF A
<1>2. Spec => [][A]_vars
  BY <1>1, SessionsInvariant, PTL DEF Spec
<1> QED BY <1>2 DEF SessionsKept, A
-----------------------------------------------------------------------------
(* The endpoint: a lane taken by itself.                                   *)

\* What a lane's channel has of a field that is kept per peer and lane, and the
\* datagrams of a lane.
At(v, l) == [p \in Peer |-> v[p][l]]
OfLane(n, p, l) == {d \in n[p] : d.lane = l}
Nets(n, l) == [p \in Peer |-> {d.packet : d \in OfLane(n, p, l)}]

Grid(f) == f = [p \in Peer |-> [l \in Lane |-> f[p][l]]]
Grids ==
  /\ Grid(nextSeq) /\ Grid(unacked) /\ Grid(nextExpected) /\ Grid(buffered)
  /\ Grid(ready) /\ Grid(sent) /\ Grid(got)

\* The network holds datagrams of the lanes, finitely many of each.
InFlightOK(n) ==
  /\ n = [p \in Peer |-> n[p]]
  /\ \A p \in Peer : \A d \in n[p] : d.lane \in Lane /\ d = [lane |-> d.lane, packet |-> d.packet]
  /\ \A p \in Peer, l \in Lane : IsFiniteSet(OfLane(n, p, l))

EndpointInv == Grids /\ InFlightOK(net)

\* The other peer is one, and another.
LEMMA OtherIs ==
  ASSUME NEW p \in Peer
  PROVE  Other(p) \in Peer /\ Other(p) # p
<1>1. \E q \in Peer : q # p
  BY EndpointAssumption
<1> QED BY <1>1 DEF Other

\* x is written to one lane of one peer.
Puts(g, f, p, l, x) == g = [f EXCEPT ![p][l] = x]

Written(g, f, p, l, x) ==
  /\ Grid(g)
  /\ At(g, l) = [At(f, l) EXCEPT ![p] = x]
  /\ \A k \in Lane \ {l} : At(g, k) = At(f, k)

\* Writing one lane of one peer leaves every other lane as it was.
LEMMA OneCell ==
  ASSUME NEW f, Grid(f), NEW p \in Peer, NEW l \in Lane, NEW x, NEW g, Puts(g, f, p, l, x)
  PROVE  Written(g, f, p, l, x)
<1>1. g = [f EXCEPT ![p] = [f[p] EXCEPT ![l] = x]]
  BY DEF Puts
<1>2. DOMAIN f = Peer /\ \A q \in Peer : f[q] = [k \in Lane |-> f[q][k]]
  BY DEF Grid
<1>3. \A q \in Peer : g[q] = IF q = p THEN [f[p] EXCEPT ![l] = x] ELSE f[q]
  BY <1>1, <1>2 DEF Grid
<1>4. g[p] = [k \in Lane |-> IF k = l THEN x ELSE f[p][k]]
  BY <1>2, <1>3
<1>5. \A q \in Peer \ {p} : g[q] = f[q]
  BY <1>3
<1>6. \A q \in Peer, k \in Lane : g[q][k] = IF q = p /\ k = l THEN x ELSE f[q][k]
  BY <1>4, <1>5
<1>7. \A q \in Peer : g[q] = [k \in Lane |-> g[q][k]]
  <2>1. ASSUME NEW q \in Peer PROVE g[q] = [k \in Lane |-> g[q][k]]
    <3>1. CASE q = p
      BY <1>4, <3>1
    <3>2. CASE q # p
      BY <1>2, <1>5, <3>2
    <3> QED BY <3>1, <3>2
  <2> QED BY <2>1
<1>8. g = [q \in Peer |-> g[q]]
  BY <1>1, <1>2 DEF Grid
<1>9. Grid(g)
  BY <1>7, <1>8 DEF Grid
<1> HIDE DEF Grid
<1> QED BY <1>6, <1>9 DEF At, Written

\* A lane nothing happens to.
LEMMA LaneStands ==
  ASSUME NEW l \in Lane,
         At(nextSeq', l) = At(nextSeq, l), At(unacked', l) = At(unacked, l),
         At(nextExpected', l) = At(nextExpected, l), At(buffered', l) = At(buffered, l),
         At(ready', l) = At(ready, l), At(sent', l) = At(sent, l), At(got', l) = At(got, l),
         Nets(net', l) = Nets(net, l)
  PROVE  UNCHANGED Channel(l)!vars
BY DEF Channel!vars, At, Nets, OfLane

-----------------------------------------------------------------------------
(* The steps, lane by lane.                                                *)

LaneStep == \A l \in Lane : Channel(l)!Next \/ UNCHANGED Channel(l)!vars

\* At the start every lane is a fresh channel.
LEMMA LanesStart == EndpointInit => EndpointInv /\ \A l \in Lane : Channel(l)!Init
<1> SUFFICES ASSUME EndpointInit PROVE EndpointInv /\ \A l \in Lane : Channel(l)!Init
  OBVIOUS
<1> USE DEF EndpointInit, EachLane
<1>1. Grids
  BY DEF Grids, Grid
<1>2. \A p \in Peer, l \in Lane : OfLane(net, p, l) = {}
  BY DEF OfLane
<1>3. InFlightOK(net)
  BY <1>2, FS_EmptySet DEF InFlightOK
<1>4. ASSUME NEW l \in Lane PROVE Channel(l)!Init
  BY DEF Channel!Init, Channel!EmptyMap, EmptyMap
<1> QED BY <1>1, <1>3, <1>4 DEF EndpointInv

LEMMA SendStep ==
  ASSUME EndpointInv, NEW p \in Peer, NEW l \in Lane, NEW m \in Msg, Send(p, l, m)
  PROVE  EndpointInv' /\ LaneStep
<1>1. /\ nextSeq[p][l] <= MaxSent[l]
      /\ Puts(unacked', unacked, p, l, Insert(unacked[p][l], nextSeq[p][l], m))
      /\ Puts(nextSeq', nextSeq, p, l, nextSeq[p][l] + 1)
      /\ Puts(sent', sent, p, l, Append(sent[p][l], m))
      /\ UNCHANGED <<nextExpected, buffered, ready, net, got>>
  BY DEF Send, Puts
<1>2. Grid(unacked) /\ Grid(nextSeq) /\ Grid(sent)
  BY DEF EndpointInv, Grids
<1>3. Written(unacked', unacked, p, l, Insert(unacked[p][l], nextSeq[p][l], m))
  BY <1>1, <1>2, OneCell
<1>4. Written(nextSeq', nextSeq, p, l, nextSeq[p][l] + 1)
  <2> DEFINE n == nextSeq[p][l] + 1
  <2>1. Puts(nextSeq', nextSeq, p, l, n)
    BY <1>1
  <2> HIDE DEF n
  <2> QED BY <1>2, <2>1, OneCell DEF n
<1>5. Written(sent', sent, p, l, Append(sent[p][l], m))
  BY <1>1, <1>2, OneCell
<1>6. EndpointInv'
  BY <1>1, <1>3, <1>4, <1>5 DEF EndpointInv, Grids, Written
<1>7. /\ At(nextExpected', l) = At(nextExpected, l) /\ At(buffered', l) = At(buffered, l)
      /\ At(ready', l) = At(ready, l) /\ At(got', l) = At(got, l) /\ Nets(net', l) = Nets(net, l)
  BY <1>1
<1>8. Channel(l)!Send(p, m)
  BY <1>1, <1>3, <1>4, <1>5, <1>7 DEF Channel!Send, Channel!Insert, Insert, At, Nets, OfLane, Written
<1>9. Channel(l)!Next
  BY <1>8 DEF Channel!Next
<1>10. ASSUME NEW k \in Lane \ {l} PROVE UNCHANGED Channel(k)!vars
  BY <1>1, <1>3, <1>4, <1>5, LaneStands DEF Written
<1> QED BY <1>6, <1>9, <1>10 DEF LaneStep

\* Datagrams of one lane differ in their packets.
LEMMA PacketsFew ==
  ASSUME NEW D, IsFiniteSet(D)
  PROVE  LET P == {d.packet : d \in D} IN IsFiniteSet(P) /\ Cardinality(P) <= Cardinality(D)
<1> DEFINE P == {d.packet : d \in D}
           f == [d \in D |-> d.packet]
<1>1. f \in Surjection(D, P)
  BY DEF Surjection
<1> HIDE DEF f, P
<1>2. IsFiniteSet(P) /\ Cardinality(P) <= Cardinality(D)
  BY <1>1, FS_Surjection
<1> QED BY <1>2 DEF P

\* A lane that writes.
LEMMA LaneWrites ==
  ASSUME NEW l \in Lane, NEW p \in Peer, NEW c, IsChosen(c, unacked[p][l]),
         UNCHANGED <<laneVars, sent, got>>,
         Nets(net', l) = [Nets(net, l) EXCEPT ![Other(p)] =
                            @ \cup {Datagram(nextExpected[p][l], unacked[p][l], c)}],
         Cardinality(Nets(net', l)[Other(p)]) <= MaxInFlight
  PROVE  Channel(l)!WritePacket(p)
<1>1. Channel(l)!Other(p) = Other(p)
  BY DEF Channel!Other, Other
<1>2. Channel(l)!IsChosen(c, unacked[p][l]) /\ c \in SUBSET DOMAIN unacked[p][l]
  BY DEF Channel!IsChosen, IsChosen
<1>3. Channel(l)!Datagram(nextExpected[p][l], unacked[p][l], c) = Datagram(nextExpected[p][l], unacked[p][l], c)
  BY DEF Channel!Datagram, Datagram
<1>4. Channel(l)!Cardinality(Nets(net', l)[Other(p)]) <= MaxInFlight
  BY DEF Channel!Cardinality, Cardinality
<1>5. At(unacked, l)[p] = unacked[p][l] /\ At(nextExpected, l)[p] = nextExpected[p][l]
  BY DEF At
<1> QED BY <1>1, <1>2, <1>3, <1>4, <1>5 DEF Channel!WritePacket, At, Nets, OfLane, laneVars

LEMMA WriteDatagramsStep ==
  ASSUME EndpointInv, NEW p \in Peer, WriteDatagrams(p)
  PROVE  EndpointInv' /\ LaneStep
<1> DEFINE q == Other(p)
           Writing == {k \in Active(p) : HasRoom(q, k)}
<1>1. PICK chosen \in [Active(p) -> SUBSET UNION {DOMAIN unacked[p][l] : l \in Lane}] :
        /\ \A l \in Active(p) : IsChosen(chosen[l], unacked[p][l])
        /\ net' = [net EXCEPT ![q] = net[q] \cup
             {[lane |-> l, packet |-> Datagram(nextExpected[p][l], unacked[p][l], chosen[l])] : l \in Writing}]
  BY DEF WriteDatagrams
<1> DEFINE pkt(l) == Datagram(nextExpected[p][l], unacked[p][l], chosen[l])
           dg(l) == [lane |-> l, packet |-> pkt(l)]
           D == {dg(l) : l \in Writing}
<1>2. UNCHANGED <<laneVars, sent, got>> /\ Grids /\ InFlightOK(net) /\ q \in Peer /\ q # p
  BY OtherIs DEF WriteDatagrams, EndpointInv
<1>3. /\ net'[q] = net[q] \cup D /\ \A r \in Peer \ {q} : net'[r] = net[r]
      /\ net' = [r \in Peer |-> net'[r]]
  BY <1>1, <1>2 DEF InFlightOK
<1>4. Writing \subseteq Lane /\ \A l \in Writing : l \in Active(p) /\ HasRoom(q, l)
  BY DEF Active
<1>5. \A l \in Lane : dg(l).lane = l /\ dg(l).packet = pkt(l)
  OBVIOUS
<1> HIDE DEF pkt, dg, Writing, q
<1>6. ASSUME NEW l \in Writing PROVE OfLane(net', q, l) = OfLane(net, q, l) \cup {dg(l)}
  BY <1>2, <1>3, <1>4, <1>5 DEF OfLane
<1>7. ASSUME NEW l \in Lane \ Writing PROVE OfLane(net', q, l) = OfLane(net, q, l)
  BY <1>2, <1>3, <1>4, <1>5 DEF OfLane
<1>8. ASSUME NEW l \in Lane, NEW r \in Peer \ {q} PROVE OfLane(net', r, l) = OfLane(net, r, l)
  BY <1>3 DEF OfLane
<1>9. EndpointInv'
  <2>1. Grids'
    BY <1>2 DEF Grids, laneVars
  <2>2. ASSUME NEW r \in Peer, NEW l \in Lane PROVE IsFiniteSet(OfLane(net', r, l))
    <3>1. IsFiniteSet(OfLane(net, r, l))
      BY <1>2 DEF InFlightOK
    <3> QED BY <1>6, <1>7, <1>8, <3>1, FS_AddElement
  <2>3. ASSUME NEW r \in Peer, NEW d \in net'[r]
        PROVE  d.lane \in Lane /\ d = [lane |-> d.lane, packet |-> d.packet]
    <3>1. CASE d \in net[r]
      BY <1>2, <3>1 DEF InFlightOK
    <3>2. CASE d \notin net[r]
      <4>1. PICK l \in Writing : d = dg(l)
        BY <1>3, <2>3, <3>2
      <4> QED BY <1>4, <4>1 DEF dg
    <3> QED BY <3>1, <3>2
  <2>4. InFlightOK(net')
    BY <1>3, <2>2, <2>3 DEF InFlightOK
  <2> QED BY <2>1, <2>4 DEF EndpointInv
<1>10. ASSUME NEW l \in Writing PROVE Channel(l)!Next
  <2>1. l \in Lane /\ HasRoom(q, l) /\ IsChosen(chosen[l], unacked[p][l])
    BY <1>1, <1>4
  <2>2. Nets(net', l)[q] = Nets(net, l)[q] \cup {pkt(l)}
    BY <1>2, <1>5, <1>6, <2>1 DEF Nets
  <2>3. \A r \in Peer \ {q} : Nets(net', l)[r] = Nets(net, l)[r]
    BY <1>8, <2>1 DEF Nets
  <2>4. Nets(net', l) = [Nets(net, l) EXCEPT ![q] = Nets(net, l)[q] \cup {pkt(l)}]
    <3>1. /\ Nets(net', l) = [r \in Peer |-> Nets(net', l)[r]]
          /\ Nets(net, l) = [r \in Peer |-> Nets(net, l)[r]]
      BY DEF Nets
    <3> QED BY <1>2, <2>2, <2>3, <3>1
  <2>5. Cardinality(Nets(net', l)[q]) <= MaxInFlight
    <3> DEFINE S == OfLane(net, q, l)
               P == {d.packet : d \in S}
    <3>1. IsFiniteSet(S)
      BY <1>2, <2>1 DEF InFlightOK
    <3>2. Cardinality(S) < MaxInFlight
      BY <2>1 DEF HasRoom, OfLane
    <3>3. Nets(net, l)[q] = P
      BY <1>2 DEF Nets
    <3>4. IsFiniteSet(P) /\ Cardinality(P) <= Cardinality(S)
      <4> HIDE DEF S
      <4> QED BY <3>1, PacketsFew
    <3> HIDE DEF S, P
    <3>5. /\ Cardinality(P \cup {pkt(l)}) = IF pkt(l) \in P THEN Cardinality(P) ELSE Cardinality(P) + 1
      BY <3>4, FS_AddElement
    <3>6. Cardinality(P) \in Nat /\ Cardinality(S) \in Nat /\ MaxInFlight \in Nat
      BY <3>1, <3>4, FS_CardinalityType, EndpointAssumption
    <3> QED BY <2>2, <3>2, <3>3, <3>4, <3>5, <3>6
  <2>6. Channel(l)!WritePacket(p)
    BY <1>2, <2>1, <2>4, <2>5, LaneWrites DEF q, pkt
  <2> QED BY <2>6 DEF Channel!Next
<1>11. ASSUME NEW l \in Lane \ Writing PROVE UNCHANGED Channel(l)!vars
  <2>1. Nets(net', l) = Nets(net, l)
    BY <1>7, <1>8 DEF Nets
  <2> QED BY <1>2, <2>1, LaneStands DEF laneVars
<1> QED BY <1>9, <1>10, <1>11 DEF LaneStep

\* A datagram leaves the network, and with it its lane's.
Without(w, n, p, d) == w = [n EXCEPT ![p] = n[p] \ {d}]
TakenOff(w, n, p, d) ==
  /\ InFlightOK(w)
  /\ d.lane \in Lane
  /\ Nets(w, d.lane) = [Nets(n, d.lane) EXCEPT ![p] = @ \ {d.packet}]
  /\ \A k \in Lane \ {d.lane} : Nets(w, k) = Nets(n, k)

LEMMA Removed ==
  ASSUME NEW n, InFlightOK(n), NEW p \in Peer, NEW d \in n[p], NEW w, Without(w, n, p, d)
  PROVE  TakenOff(w, n, p, d)
<1>1. /\ n = [q \in Peer |-> n[q]]
      /\ \A q \in Peer : \A e \in n[q] : e.lane \in Lane /\ e = [lane |-> e.lane, packet |-> e.packet]
      /\ \A q \in Peer, l \in Lane : IsFiniteSet(OfLane(n, q, l))
  BY DEF InFlightOK
<1>2. d.lane \in Lane
  BY <1>1
<1>3. /\ w[p] = n[p] \ {d}
      /\ \A q \in Peer \ {p} : w[q] = n[q]
      /\ w = [q \in Peer |-> w[q]]
  BY <1>1 DEF Without
<1>4. ASSUME NEW q \in Peer, NEW l \in Lane PROVE IsFiniteSet(OfLane(w, q, l))
  <2>1. OfLane(w, q, l) \subseteq OfLane(n, q, l)
    BY <1>3 DEF OfLane
  <2> QED BY <1>1, <2>1, FS_Subset
<1>5. InFlightOK(w)
  BY <1>1, <1>3, <1>4 DEF InFlightOK
<1>8. ASSUME NEW q \in Peer \ {p}, NEW l \in Lane PROVE Nets(w, l)[q] = Nets(n, l)[q]
  BY <1>3 DEF Nets, OfLane
<1>9. ASSUME NEW k \in Lane \ {d.lane} PROVE Nets(w, k)[p] = Nets(n, k)[p]
  <2>1. OfLane(w, p, k) = OfLane(n, p, k)
    BY <1>3 DEF OfLane
  <2> QED BY <2>1 DEF Nets
<1>10. Nets(w, d.lane)[p] = Nets(n, d.lane)[p] \ {d.packet}
  <2>1. OfLane(w, p, d.lane) = OfLane(n, p, d.lane) \ {d}
    BY <1>3 DEF OfLane
  <2>2. \A e \in OfLane(n, p, d.lane) : e.packet = d.packet => e = d
    <3>1. ASSUME NEW e \in OfLane(n, p, d.lane), e.packet = d.packet PROVE e = d
      <4>1. e \in n[p] /\ e.lane = d.lane
        BY DEF OfLane
      <4>2. e = [lane |-> e.lane, packet |-> e.packet] /\ d = [lane |-> d.lane, packet |-> d.packet]
        BY <1>1, <4>1
      <4> QED BY <3>1, <4>1, <4>2
    <3> QED BY <3>1
  <2> QED BY <2>1, <2>2 DEF Nets
<1>11. \A k \in Lane : /\ Nets(w, k) = [q \in Peer |-> Nets(w, k)[q]]
                       /\ Nets(n, k) = [q \in Peer |-> Nets(n, k)[q]]
  BY DEF Nets
<1>12. Nets(w, d.lane) = [Nets(n, d.lane) EXCEPT ![p] = @ \ {d.packet}]
  BY <1>2, <1>8, <1>10, <1>11
<1>13. \A k \in Lane \ {d.lane} : Nets(w, k) = Nets(n, k)
  <2>1. ASSUME NEW k \in Lane \ {d.lane} PROVE Nets(w, k) = Nets(n, k)
    <3>1. \A q \in Peer : Nets(w, k)[q] = Nets(n, k)[q]
      BY <1>8, <1>9
    <3> QED BY <1>11, <3>1
  <2> QED BY <2>1
<1> QED BY <1>2, <1>5, <1>12, <1>13 DEF TakenOff

LEMMA LoseStep ==
  ASSUME EndpointInv, NEW p \in Peer, NEW d \in net[p], Lose(p, d)
  PROVE  EndpointInv' /\ LaneStep
<1>1. Without(net', net, p, d) /\ UNCHANGED <<laneVars, dirty, sent, got>>
  BY DEF Lose, Without
<1>2. /\ InFlightOK(net')
      /\ d.lane \in Lane
      /\ Nets(net', d.lane) = [Nets(net, d.lane) EXCEPT ![p] = @ \ {d.packet}]
      /\ \A k \in Lane \ {d.lane} : Nets(net', k) = Nets(net, k)
  BY <1>1, Removed DEF EndpointInv, TakenOff
<1>3. EndpointInv'
  BY <1>1, <1>2 DEF EndpointInv, Grids, laneVars
<1>4. Channel(d.lane)!Lose(p, d.packet)
  BY <1>1, <1>2 DEF Channel!Lose, laneVars, Nets, OfLane
<1>5. d.packet \in {e.packet : e \in {f \in net[p] : f.lane = d.lane}}
  OBVIOUS
<1>6. Channel(d.lane)!Next
  BY <1>4, <1>5 DEF Channel!Next
<1>7. ASSUME NEW k \in Lane \ {d.lane} PROVE UNCHANGED Channel(k)!vars
  BY <1>1, <1>2, LaneStands DEF laneVars
<1> QED BY <1>3, <1>6, <1>7 DEF LaneStep

LEMMA ReceiveStep ==
  ASSUME EndpointInv, NEW p \in Peer, Receive(p)
  PROVE  EndpointInv' /\ LaneStep
<1>1. PICK l \in Lane :
        /\ ready[p][l] # <<>>
        /\ Puts(got', got, p, l, Append(got[p][l], Head(ready[p][l])))
        /\ Puts(ready', ready, p, l, Tail(ready[p][l]))
        /\ UNCHANGED <<nextSeq, unacked, nextExpected, buffered, dirty, net, sent>>
  BY DEF Receive, Puts
<1>2. Grid(got) /\ Grid(ready)
  BY DEF EndpointInv, Grids, Written
<1>3. Written(got', got, p, l, Append(got[p][l], Head(ready[p][l])))
  BY <1>1, <1>2, OneCell
<1>4. Written(ready', ready, p, l, Tail(ready[p][l]))
  BY <1>1, <1>2, OneCell
<1>5. EndpointInv'
  BY <1>1, <1>3, <1>4 DEF EndpointInv, Grids, Written
<1>6. Channel(l)!Receive(p)
  BY <1>1, <1>3, <1>4 DEF Channel!Receive, At, Written
<1>7. Channel(l)!Next
  BY <1>6 DEF Channel!Next
<1>8. ASSUME NEW k \in Lane \ {l} PROVE UNCHANGED Channel(k)!vars
  BY <1>1, <1>3, <1>4, LaneStands DEF Written
<1> QED BY <1>5, <1>7, <1>8 DEF LaneStep

LEMMA DeliverStep ==
  ASSUME EndpointInv, NEW p \in Peer, NEW d \in net[p], Deliver(p, d)
  PROVE  EndpointInv' /\ LaneStep
<1> DEFINE l == d.lane
           packet == d.packet
           msgs == packet.msgs
           expected == nextExpected[p][l]
<1>1. l \in Lane /\ InFlightOK(net) /\ Grids
  BY DEF EndpointInv, InFlightOK
<1>2. PICK next \in 1..(MaxSent[l] + 1) :
        /\ Puts(unacked', unacked, p, l, DropAcked(unacked[p][l], packet.ack))
        /\ IsNextGap(next, expected, InHand(expected, buffered[p][l], msgs))
        /\ Puts(nextExpected', nextExpected, p, l, next)
        /\ Puts(ready', ready, p, l, ready[p][l] \o Delivered(next, expected, buffered[p][l], msgs))
        /\ Puts(buffered', buffered, p, l, StillBuffered(next, expected, buffered[p][l], msgs))
        /\ UNCHANGED <<nextSeq, sent, got>>
  BY DEF Deliver, OnDatagram, ReadPacket, Puts
<1>3. /\ InFlightOK(net')
      /\ \/ Nets(net', l) = [Nets(net, l) EXCEPT ![p] = @ \ {packet}]
         \/ Nets(net', l) = Nets(net, l)
      /\ \A k \in Lane \ {l} : Nets(net', k) = Nets(net, k)
  <2>1. CASE Without(net', net, p, d)
    BY <1>1, <2>1, Removed DEF TakenOff
  <2>2. CASE UNCHANGED net
    BY <1>1, <2>2
  <2> QED BY <2>1, <2>2 DEF Deliver, Without
<1>4. packet \in {e.packet : e \in {f \in net[p] : f.lane = l}}
  OBVIOUS
<1> HIDE DEF l, packet, msgs
<1>5. Grid(unacked) /\ Grid(nextExpected) /\ Grid(ready) /\ Grid(buffered)
  BY <1>1 DEF Grids
<1>6. Written(unacked', unacked, p, l, DropAcked(unacked[p][l], packet.ack))
  BY ONLY <1>1, <1>2, <1>5, OneCell, p \in Peer
<1>7. Written(nextExpected', nextExpected, p, l, next)
  BY ONLY <1>1, <1>2, <1>5, OneCell, p \in Peer
<1>8. Written(ready', ready, p, l, ready[p][l] \o Delivered(next, expected, buffered[p][l], msgs))
  BY ONLY <1>1, <1>2, <1>5, OneCell, p \in Peer
<1>9. Written(buffered', buffered, p, l, StillBuffered(next, expected, buffered[p][l], msgs))
  BY ONLY <1>1, <1>2, <1>5, OneCell, p \in Peer
<1>10. EndpointInv'
  BY <1>1, <1>2, <1>3, <1>6, <1>7, <1>8, <1>9 DEF EndpointInv, Grids, Written
<1>11. /\ At(unacked, l)[p] = unacked[p][l] /\ At(nextExpected, l)[p] = expected
       /\ At(ready, l)[p] = ready[p][l] /\ At(buffered, l)[p] = buffered[p][l]
  BY DEF At
<1>12. Channel(l)!ReadPacket(p, packet)
  <2>1. At(unacked', l) = [At(unacked, l) EXCEPT ![p] = Channel(l)!DropAcked(unacked[p][l], packet.ack)]
    BY <1>6 DEF Channel!DropAcked, DropAcked, Written
  <2>2. Channel(l)!IsNextGap(next, expected, Channel(l)!InHand(expected, buffered[p][l], msgs))
    BY <1>2 DEF Channel!IsNextGap, IsNextGap, Channel!InHand, InHand
  <2>3. Channel(l)!Delivered(next, expected, buffered[p][l], msgs)
          = Delivered(next, expected, buffered[p][l], msgs)
    BY DEF Channel!Delivered, Delivered, Channel!Copy, Copy
  <2>4. Channel(l)!StillBuffered(next, expected, buffered[p][l], msgs)
          = StillBuffered(next, expected, buffered[p][l], msgs)
    BY DEF Channel!StillBuffered, StillBuffered, Channel!Copy, Copy, Channel!InHand, InHand
  <2>5. At(nextSeq', l) = At(nextSeq, l) /\ At(sent', l) = At(sent, l) /\ At(got', l) = At(got, l)
    BY <1>2
  <2> QED BY <1>7, <1>8, <1>9, <1>11, <2>1, <2>2, <2>3, <2>4, <2>5 DEF Channel!ReadPacket, At, msgs, Written
<1>13. Channel(l)!Deliver(p, packet)
  BY <1>3, <1>12 DEF Channel!Deliver, Nets, OfLane
<1>14. Channel(l)!Next
  BY <1>4, <1>13 DEF Channel!Next
<1>15. ASSUME NEW k \in Lane \ {l} PROVE UNCHANGED Channel(k)!vars
  BY <1>2, <1>3, <1>6, <1>7, <1>8, <1>9, LaneStands DEF Written
<1> QED BY <1>10, <1>14, <1>15 DEF LaneStep

-----------------------------------------------------------------------------
LEMMA EndpointSteps ==
  ASSUME EndpointInv, [EndpointNext]_endpointVars
  PROVE  EndpointInv' /\ LaneStep
<1>1. CASE UNCHANGED endpointVars
  <2>1. EndpointInv'
    BY <1>1 DEF endpointVars, laneVars, EndpointInv, Grids
  <2>2. ASSUME NEW l \in Lane PROVE UNCHANGED Channel(l)!vars
    BY <1>1, LaneStands DEF endpointVars, laneVars
  <2> QED BY <2>1, <2>2 DEF LaneStep
<1>2. ASSUME NEW p \in Peer, NEW l \in Lane, NEW m \in Msg, Send(p, l, m)
      PROVE  EndpointInv' /\ LaneStep
  BY <1>2, SendStep
<1>3. ASSUME NEW p \in Peer, WriteDatagrams(p) PROVE EndpointInv' /\ LaneStep
  BY <1>3, WriteDatagramsStep
<1>4. ASSUME NEW p \in Peer, NEW d \in net[p], Deliver(p, d) PROVE EndpointInv' /\ LaneStep
  BY <1>4, DeliverStep
<1>5. ASSUME NEW p \in Peer, NEW d \in net[p], Lose(p, d) PROVE EndpointInv' /\ LaneStep
  BY <1>5, LoseStep
<1>6. ASSUME NEW p \in Peer, Receive(p) PROVE EndpointInv' /\ LaneStep
  BY <1>6, ReceiveStep
<1> QED BY <1>1, <1>2, <1>3, <1>4, <1>5, <1>6 DEF EndpointNext

(* Every lane of an endpoint is a reliable channel of its own, whatever the *)
(* other lanes carry: no write, datagram or loss of one lane is a step of   *)
(* another's channel (MessageEndpoint.h:5-8).                               *)
THEOREM LanesStayApart == EndpointSpec => LanesAreChannels
<1>1. EndpointInit => EndpointInv /\ \A l \in Lane : Channel(l)!Init
  BY LanesStart
<1>2. EndpointInv /\ [EndpointNext]_endpointVars => EndpointInv' /\ LaneStep
  BY EndpointSteps
<1> QED BY <1>1, <1>2, PTL DEF EndpointSpec, LanesAreChannels, LaneStep
=============================================================================
