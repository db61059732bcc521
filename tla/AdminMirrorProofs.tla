--------------------------- MODULE AdminMirrorProofs ---------------------------
(***************************************************************************)
(* The token index of the management channel, the event feed and the       *)
(* mirror, for any addresses, players, rows, ring, log, session cap and    *)
(* number of tokens and events.                                            *)
(*                                                                         *)
(* A feed is whole because what the manager has taken and what waits for   *)
(* it on the two lanes always are the latest events, each at one place     *)
(* (FeedOf): a push adds the next ones to the live lane, the replay starts *)
(* from the ring, and taking a message moves it from a lane to the taken   *)
(* ones.  Appending at the back and dropping at the front keeps the log    *)
(* the last of them (KeptNewest).                                          *)
(* The mirror is true because the last live message that waits about a     *)
(* player says what the roster says (MirrorOf).                            *)
(***************************************************************************)
EXTENDS AdminMirror, FiniteSetTheorems, WellFoundedInduction, TLAPS

-----------------------------------------------------------------------------
(* The token index.                                                        *)

(* The index and the live sessions point at each other, tokens are never   *)
(* minted twice, and the live sessions are finitely many.                  *)
TokenInv ==
  /\ tokens \in Nat
  /\ \A e \in DOMAIN sessions : "token" \in DOMAIN sessions[e] /\ sessions[e].token \in Nat
  /\ \A t \in DOMAIN byToken : /\ t \in 1..tokens /\ byToken[t] \in Live
                               /\ sessions[byToken[t]].token = t
  /\ \A e \in Live : /\ sessions[e].token \in DOMAIN byToken
                     /\ byToken[sessions[e].token] = e
  /\ IsFiniteSet(Live) /\ Cardinality(Live) <= MaxSessions

LEMMA TokenInit == Init => TokenInv
<1> SUFFICES ASSUME Init PROVE TokenInv
  OBVIOUS
<1>1. DOMAIN sessions = {} /\ DOMAIN byToken = {} /\ tokens = 0
  BY DEF Init
<1>2. Live = {}
  BY <1>1 DEF Live
<1> QED BY <1>1, <1>2, FS_EmptySet, AdminAssumption DEF TokenInv

(* Steps that leave the index alone and every session its token.           *)
LEMMA TokensStay ==
  ASSUME TokenInv, UNCHANGED <<byToken, tokens>>,
         \A e \in DOMAIN sessions : /\ e \in DOMAIN sessions'
                                    /\ sessions'[e].token = sessions[e].token,
         \A e \in DOMAIN sessions' : "token" \in DOMAIN sessions'[e],
         \A e \in DOMAIN sessions' \ DOMAIN sessions : sessions'[e].token = 0
  PROVE  TokenInv'
<1>1. Live' = Live
  BY DEF Live, IsLive
<1>2. \A e \in Live : e \in DOMAIN sessions
  BY DEF Live
<1>3. \A e \in DOMAIN sessions' : sessions'[e].token \in Nat
  BY DEF TokenInv
<1> QED BY <1>1, <1>2, <1>3 DEF TokenInv

LEMMA PushedStay ==
  ASSUME TokenInv, NEW msgs, sessions' = Pushed(msgs), UNCHANGED <<byToken, tokens>>
  PROVE  TokenInv'
<1>1. DOMAIN sessions' = DOMAIN sessions
  BY DEF Pushed
<1>2. ASSUME NEW e \in DOMAIN sessions
      PROVE  "token" \in DOMAIN sessions'[e] /\ sessions'[e].token = sessions[e].token
  <2>1. sessions'[e] = IF IsLive(sessions[e]) THEN Push(sessions[e], msgs) ELSE sessions[e]
    BY DEF Pushed
  <2>2. "token" \in DOMAIN sessions[e]
    BY DEF TokenInv
  <2>3. /\ "token" \in DOMAIN Push(sessions[e], msgs)
        /\ Push(sessions[e], msgs).token = sessions[e].token
    BY <2>2 DEF Push
  <2> QED BY <2>1, <2>2, <2>3
<1> QED BY <1>1, <1>2, TokensStay

LEMMA ReapTokens ==
  ASSUME TokenInv, NEW e \in DOMAIN sessions, Reap(e)
  PROVE  TokenInv'
<1> DEFINE t == sessions[e].token
<1>1. /\ DOMAIN sessions' = DOMAIN sessions \ {e}
      /\ \A x \in DOMAIN sessions' : sessions'[x] = sessions[x]
      /\ DOMAIN byToken' = DOMAIN byToken \ {t}
      /\ \A u \in DOMAIN byToken' : byToken'[u] = byToken[u]
      /\ UNCHANGED tokens
  BY DEF Reap, Restrict
<1>2. Live' = Live \ {e}
  BY <1>1 DEF Live, IsLive
<1>3. IsFiniteSet(Live') /\ Cardinality(Live') <= Cardinality(Live)
  BY <1>2, FS_Subset, FS_CardinalityType DEF TokenInv
<1>4. Cardinality(Live') <= MaxSessions
  BY <1>2, <1>3, FS_CardinalityType, AdminAssumption DEF TokenInv
<1>5. ASSUME NEW u \in DOMAIN byToken'
      PROVE  u \in 1..tokens /\ byToken'[u] \in Live' /\ sessions'[byToken'[u]].token = u
  <2>1. u # t /\ byToken'[u] = byToken[u] /\ u \in DOMAIN byToken
    BY <1>1
  <2>2. u \in 1..tokens /\ byToken[u] \in Live /\ sessions[byToken[u]].token = u
    BY <2>1 DEF TokenInv
  <2>3. byToken[u] # e
    BY <2>1, <2>2
  <2> QED BY <1>1, <1>2, <2>1, <2>2, <2>3 DEF Live
<1>6. ASSUME NEW x \in Live'
      PROVE  sessions'[x].token \in DOMAIN byToken' /\ byToken'[sessions'[x].token] = x
  <2>1. x \in Live /\ x # e /\ sessions'[x] = sessions[x]
    BY <1>1, <1>2 DEF Live
  <2>2. sessions[x].token \in DOMAIN byToken /\ byToken[sessions[x].token] = x
    BY <2>1 DEF TokenInv
  <2>3. sessions[x].token # t
    <3>1. ASSUME sessions[x].token = t PROVE FALSE
      <4>1. e \in Live
        BY <2>1, <3>1 DEF Live, IsLive
      <4>2. byToken[t] = e
        BY <4>1 DEF TokenInv
      <4> QED BY <2>1, <2>2, <3>1, <4>2
    <3> QED BY <3>1
  <2> QED BY <1>1, <2>1, <2>2, <2>3
<1> QED BY <1>1, <1>3, <1>4, <1>5, <1>6 DEF TokenInv

(* One session more, or one in the place of another.                       *)
LEMMA OneMore ==
  ASSUME NEW S, IsFiniteSet(S), NEW e, e \notin S
  PROVE  IsFiniteSet(S \cup {e}) /\ Cardinality(S \cup {e}) = Cardinality(S) + 1
BY FS_AddElement

LEMMA OneForAnother ==
  ASSUME NEW S, IsFiniteSet(S), NEW old \in S, NEW e, e \notin S
  PROVE  LET T == (S \ {old}) \cup {e}
         IN IsFiniteSet(T) /\ Cardinality(T) = Cardinality(S)
<1>1. IsFiniteSet(S \ {old}) /\ Cardinality(S \ {old}) = Cardinality(S) - 1
  BY FS_RemoveElement
<1>2. Cardinality(S) \in Nat
  BY FS_CardinalityType
<1> QED BY <1>1, <1>2, OneMore

LEMMA AuthenticatedTokens ==
  ASSUME TokenInv, Authenticated
  PROVE  TokenInv'
<1>1. PICK e, old, k :
        /\ k = manager.token /\ k \in DOMAIN byToken /\ old = byToken[k]
        /\ old # e /\ e \notin DOMAIN sessions
        /\ sessions' = Put(Restrict(sessions, DOMAIN sessions \ {old}), e, sessions[old])
        /\ byToken' = [byToken EXCEPT ![k] = e]
        /\ UNCHANGED tokens
  BY DEF Authenticated
<1>2. /\ k \in 1..tokens /\ old \in Live /\ sessions[old].token = k /\ tokens \in Nat
  BY <1>1 DEF TokenInv
<1>3. old \in DOMAIN sessions /\ sessions[old].token # 0 /\ e \notin Live
  BY <1>1, <1>2 DEF Live, IsLive
<1>4. /\ DOMAIN sessions' = (DOMAIN sessions \ {old}) \cup {e}
      /\ sessions'[e] = sessions[old]
      /\ \A x \in DOMAIN sessions \ {old} : sessions'[x] = sessions[x]
  BY <1>1 DEF Put, Restrict
<1>5. /\ DOMAIN byToken' = DOMAIN byToken /\ byToken'[k] = e
      /\ \A u \in DOMAIN byToken \ {k} : byToken'[u] = byToken[u]
  BY <1>1
<1>6. Live' = (Live \ {old}) \cup {e}
  BY <1>3, <1>4 DEF Live, IsLive
<1>7. IsFiniteSet(Live') /\ Cardinality(Live') <= MaxSessions
  BY <1>2, <1>3, <1>6, OneForAnother DEF TokenInv
<1>8. \A x \in DOMAIN sessions' : "token" \in DOMAIN sessions'[x] /\ sessions'[x].token \in Nat
  BY <1>3, <1>4 DEF TokenInv
<1>9. ASSUME NEW u \in DOMAIN byToken'
      PROVE  u \in 1..tokens /\ byToken'[u] \in Live' /\ sessions'[byToken'[u]].token = u
  <2>1. CASE u = k
    BY <1>2, <1>4, <1>5, <1>6, <2>1
  <2>2. CASE u # k
    <3>1. /\ u \in 1..tokens /\ byToken[u] \in Live /\ sessions[byToken[u]].token = u
          /\ byToken'[u] = byToken[u]
      BY <1>5, <1>9, <2>2 DEF TokenInv
    <3>2. byToken[u] # old /\ byToken[u] \in DOMAIN sessions
      BY <1>2, <2>2, <3>1 DEF Live
    <3> QED BY <1>4, <1>6, <3>1, <3>2
  <2> QED BY <2>1, <2>2
<1>10. ASSUME NEW x \in Live'
       PROVE  sessions'[x].token \in DOMAIN byToken' /\ byToken'[sessions'[x].token] = x
  <2>1. CASE x = e
    BY <1>1, <1>2, <1>4, <1>5, <2>1
  <2>2. CASE x # e
    <3>1. x \in Live /\ x # old /\ sessions'[x] = sessions[x]
      BY <1>4, <1>6, <2>2 DEF Live
    <3>2. sessions[x].token \in DOMAIN byToken /\ byToken[sessions[x].token] = x
      BY <3>1 DEF TokenInv
    <3>3. sessions[x].token # k
      BY <1>1, <3>1, <3>2
    <3> QED BY <1>5, <3>1, <3>2, <3>3
  <2> QED BY <2>1, <2>2
<1> QED BY <1>1, <1>7, <1>8, <1>9, <1>10 DEF TokenInv

(* What a reply and the replay change of a session.                        *)
LEMMA ReplyToken ==
  ASSUME NEW s, "token" \in DOMAIN s, NEW m
  PROVE  "token" \in DOMAIN Reply(s, m) /\ Reply(s, m).token = s.token
BY DEF Reply

LEMMA ReplayToken ==
  ASSUME NEW s, "token" \in DOMAIN s, NEW t
  PROVE  "token" \in DOMAIN AckAndReplay(s, t) /\ AckAndReplay(s, t).token = t
<1> DEFINE r == Reply(s, [kind |-> "ack", token |-> t])
<1>1. "token" \in DOMAIN r
  BY ReplyToken
<1> HIDE DEF r
<1> QED BY <1>1 DEF AckAndReplay, r

LEMMA FrontDoorTokens ==
  ASSUME TokenInv, FrontDoor
  PROVE  TokenInv'
<1>1. PICK e : /\ e \notin Live
               /\ LET s == [(IF e \in DOMAIN sessions THEN sessions[e]
                             ELSE Shell(manager.got = EachLane(0))) EXCEPT
                              !.heard = @ \/ manager.hello # "none"]
                      isNew == s.heard /\ (e \in DOMAIN sessions => ~sessions[e].heard)
                      accepted == isNew /\ manager.hello = "good" /\ Cardinality(Live) < MaxSessions
                  IN IF accepted
                     THEN /\ tokens' = tokens + 1
                          /\ byToken' = Put(byToken, tokens + 1, e)
                          /\ sessions' = Put(sessions, e, AckAndReplay(s, tokens + 1))
                     ELSE /\ sessions' = Put(sessions, e, IF isNew THEN Reply(s, [kind |-> "reject"]) ELSE s)
                          /\ UNCHANGED <<tokens, byToken>>
  BY Zenon DEF FrontDoor
<1> DEFINE s == [(IF e \in DOMAIN sessions THEN sessions[e]
                  ELSE Shell(manager.got = EachLane(0))) EXCEPT
                   !.heard = @ \/ manager.hello # "none"]
           isNew == s.heard /\ (e \in DOMAIN sessions => ~sessions[e].heard)
           accepted == isNew /\ manager.hello = "good" /\ Cardinality(Live) < MaxSessions
<1>s. s = [(IF e \in DOMAIN sessions THEN sessions[e]
            ELSE Shell(manager.got = EachLane(0))) EXCEPT
             !.heard = @ \/ manager.hello # "none"]
  OBVIOUS
<1>a. accepted => /\ Cardinality(Live) < MaxSessions
                  /\ tokens' = tokens + 1
                  /\ byToken' = Put(byToken, tokens + 1, e)
                  /\ sessions' = Put(sessions, e, AckAndReplay(s, tokens + 1))
  BY <1>1, Zenon
<1>b. ~accepted => /\ sessions' = Put(sessions, e, IF isNew THEN Reply(s, [kind |-> "reject"]) ELSE s)
                   /\ UNCHANGED <<tokens, byToken>>
  BY <1>1, Zenon
<1> HIDE DEF s, isNew, accepted
<1>2. "token" \in DOMAIN s /\ s.token = 0
  <2>1. CASE e \in DOMAIN sessions
    <3>1. "token" \in DOMAIN sessions[e] /\ sessions[e].token = 0
      BY <1>1, <2>1 DEF Live, IsLive, TokenInv
    <3> QED BY <1>s, <2>1, <3>1
  <2>2. CASE e \notin DOMAIN sessions
    <3> DEFINE sh == Shell(manager.got = EachLane(0))
    <3>1. "token" \in DOMAIN sh /\ sh.token = 0
      BY DEF Shell
    <3> HIDE DEF sh
    <3>2. s = [sh EXCEPT !.heard = @ \/ manager.hello # "none"]
      BY <1>s, <2>2 DEF sh
    <3> QED BY <3>1, <3>2
  <2> QED BY <2>1, <2>2
<1>3. CASE ~accepted
  <2> DEFINE x == IF isNew THEN Reply(s, [kind |-> "reject"]) ELSE s
  <2>1. "token" \in DOMAIN x /\ x.token = 0
    BY <1>2, ReplyToken
  <2> HIDE DEF x
  <2>2. sessions' = Put(sessions, e, x) /\ UNCHANGED <<tokens, byToken>>
    BY <1>b, <1>3 DEF x
  <2>3. /\ DOMAIN sessions' = DOMAIN sessions \cup {e} /\ sessions'[e] = x
        /\ \A y \in DOMAIN sessions \ {e} : sessions'[y] = sessions[y]
    BY <2>2 DEF Put
  <2>4. e \in DOMAIN sessions => sessions[e].token = 0
    BY <1>1 DEF Live, IsLive
  <2>5. \A y \in DOMAIN sessions : /\ y \in DOMAIN sessions'
                                   /\ sessions'[y].token = sessions[y].token
    BY <2>1, <2>3, <2>4
  <2>6. \A y \in DOMAIN sessions' : "token" \in DOMAIN sessions'[y]
    BY <2>1, <2>3 DEF TokenInv
  <2> QED BY <2>1, <2>2, <2>3, <2>5, <2>6, TokensStay
<1>4. CASE accepted
  <2> DEFINE x == AckAndReplay(s, tokens + 1)
             k == tokens + 1
  <2>1. "token" \in DOMAIN x /\ x.token = k
    BY <1>2, ReplayToken
  <2> HIDE DEF x
  <2>2. /\ sessions' = Put(sessions, e, x) /\ tokens' = k /\ byToken' = Put(byToken, k, e)
        /\ tokens \in Nat /\ k \in Nat \ {0} /\ e \notin Live
    BY <1>1, <1>a, <1>4 DEF x, TokenInv
  <2>3. /\ DOMAIN sessions' = DOMAIN sessions \cup {e} /\ sessions'[e] = x
        /\ \A y \in DOMAIN sessions \ {e} : sessions'[y] = sessions[y]
        /\ DOMAIN byToken' = DOMAIN byToken \cup {k} /\ byToken'[k] = e
        /\ \A u \in DOMAIN byToken \ {k} : byToken'[u] = byToken[u]
    BY <2>2 DEF Put
  <2>4. k \notin DOMAIN byToken
    BY <2>2 DEF TokenInv
  <2>5. Live' = Live \cup {e} /\ \A y \in Live : sessions'[y] = sessions[y] /\ y # e
    BY <2>1, <2>2, <2>3 DEF Live, IsLive
  <2>6. IsFiniteSet(Live') /\ Cardinality(Live') <= MaxSessions
    <3>1. Cardinality(Live) < MaxSessions /\ IsFiniteSet(Live) /\ Cardinality(Live) \in Nat
      BY <1>a, <1>4, FS_CardinalityType DEF TokenInv
    <3>2. IsFiniteSet(Live \cup {e}) /\ Cardinality(Live \cup {e}) = Cardinality(Live) + 1
      BY <2>2, <3>1, OneMore
    <3> QED BY <2>5, <3>1, <3>2, AdminAssumption
  <2>7. \A y \in DOMAIN sessions' : "token" \in DOMAIN sessions'[y] /\ sessions'[y].token \in Nat
    BY <2>1, <2>2, <2>3 DEF TokenInv
  <2>8. ASSUME NEW u \in DOMAIN byToken'
        PROVE  u \in 1..tokens' /\ byToken'[u] \in Live' /\ sessions'[byToken'[u]].token = u
    <3>1. CASE u = k
      BY <2>1, <2>2, <2>3, <2>5, <3>1
    <3>2. CASE u # k
      <4>1. /\ u \in 1..tokens /\ byToken[u] \in Live /\ sessions[byToken[u]].token = u
            /\ byToken'[u] = byToken[u]
        BY <2>3, <2>8, <3>2 DEF TokenInv
      <4> QED BY <2>2, <2>5, <4>1
    <3> QED BY <3>1, <3>2
  <2>9. ASSUME NEW y \in Live'
        PROVE  sessions'[y].token \in DOMAIN byToken' /\ byToken'[sessions'[y].token] = y
    <3>1. CASE y = e
      BY <2>1, <2>3, <3>1
    <3>2. CASE y # e
      <4>1. /\ y \in Live /\ sessions[y].token \in DOMAIN byToken
            /\ byToken[sessions[y].token] = y
        BY <2>5, <3>2 DEF TokenInv
      <4> QED BY <2>3, <2>4, <2>5, <4>1
    <3> QED BY <3>1, <3>2
  <2> QED BY <2>2, <2>6, <2>7, <2>8, <2>9 DEF TokenInv
<1> QED BY <1>3, <1>4

LEMMA TokenStep == TokenInv /\ [Next]_vars => TokenInv'
<1> SUFFICES ASSUME TokenInv, [Next]_vars PROVE TokenInv'
  OBVIOUS
<1>1. ASSUME NEW now \in Rosters, PublishAdmin(now) PROVE TokenInv'
  <2>1. \E msgs : sessions' = Pushed(msgs) /\ UNCHANGED <<byToken, tokens>>
    BY <1>1 DEF PublishAdmin
  <2> QED BY <2>1, PushedStay
<1>2. CASE PushEvent
  <2>1. sessions' = Pushed(<<Event(eventSeq + 1)>>) /\ UNCHANGED <<byToken, tokens>>
    BY <1>2 DEF PushEvent
  <2> QED BY <2>1, PushedStay
<1>3. CASE UNCHANGED <<sessions, byToken, tokens>>
  BY <1>3 DEF TokenInv, Live
<1>4. ASSUME NEW e \in Endpoint, (\E key \in {"good", "bad"} : Connect(e, key)) \/ Readdress(e)
      PROVE  UNCHANGED <<sessions, byToken, tokens>>
  BY <1>4 DEF Connect, Readdress
<1>5. Disconnect \/ TimeOut \/ (\E l \in Lane : Service(l)) \/ UNCHANGED vars
        => UNCHANGED <<sessions, byToken, tokens>>
  BY DEF Disconnect, TimeOut, Service, vars
<1> QED BY <1>1, <1>2, <1>3, <1>4, <1>5, ReapTokens, FrontDoorTokens, AuthenticatedTokens DEF Next

(* Every token AdminChannel.h minted leads to one live session and every   *)
(* live session has one, wherever managers move, and there are never more  *)
(* than MAX_ADMIN_SESSIONS of them.                                        *)
THEOREM AdminTokensLeadHome == Spec => []AdminTokensExact
<1>1. TokenInv => AdminTokensExact
  BY DEF TokenInv, AdminTokensExact
<1> QED BY <1>1, TokenInit, TokenStep, PTL DEF Spec

-----------------------------------------------------------------------------
(* Lists of messages.                                                      *)
Message == [kind : {"event"}, seq : Nat] \cup [kind : {"row"}, id : Player, row : Row]
           \cup [kind : {"gone"}, id : Player]

LEMMA MessageIs ==
  /\ \A n \in Nat : Event(n) \in Message /\ Event(n).kind = "event" /\ Event(n).seq = n
  /\ \A p \in Player, r \in Row : /\ RowMsg(p, r) \in Message /\ RowMsg(p, r).kind = "row"
                                  /\ RowMsg(p, r).id = p /\ RowMsg(p, r).row = r
  /\ \A p \in Player : Gone(p) \in Message /\ Gone(p).kind = "gone" /\ Gone(p).id = p
  /\ \A m \in Message : /\ m.kind \in {"event", "row", "gone"}
                        /\ m.kind = "event" => m.seq \in Nat
                        /\ m.kind = "row" => m.id \in Player /\ m.row \in Row
                        /\ m.kind = "row" => m = RowMsg(m.id, m.row)
                        /\ m.kind = "gone" => m.id \in Player /\ m = Gone(m.id)
BY DEF Message, Event, RowMsg, Gone

LEMMA HeadAndTail ==
  ASSUME NEW S, NEW q \in Seq(S), q # <<>>
  PROVE  /\ Head(q) \in S /\ Head(q) = q[1] /\ Tail(q) \in Seq(S)
         /\ DOMAIN q = 1..Len(q) /\ Len(q) \in Nat \ {0} /\ DOMAIN Tail(q) = 1..(Len(q) - 1)
         /\ Len(Tail(q)) = Len(q) - 1
         /\ \A k \in 1..(Len(q) - 1) : k + 1 \in 1..Len(q) /\ Tail(q)[k] = q[k + 1]
         /\ \A k \in 1..Len(q) : k # 1 => k - 1 \in 1..(Len(q) - 1) /\ q[k] = Tail(q)[k - 1]
<1>1. /\ Tail(q) \in Seq(S) /\ Len(Tail(q)) = Len(q) - 1 /\ Len(q) \in Nat \ {0} /\ Head(q) = q[1]
      /\ \A k \in 1..(Len(q) - 1) : Tail(q)[k] = q[k + 1]
      /\ DOMAIN q = 1..Len(q)
  OBVIOUS
<1>2. DOMAIN Tail(q) = 1..(Len(q) - 1)
  BY <1>1
<1>3. \A k \in 1..Len(q) : k # 1 => k - 1 \in 1..(Len(q) - 1) /\ (k - 1) + 1 = k
  BY <1>1
<1>4. \A k \in 1..(Len(q) - 1) : k + 1 \in 1..Len(q)
  BY <1>1
<1> QED BY <1>1, <1>2, <1>3, <1>4

LEMMA Joined ==
  ASSUME NEW S, NEW p \in Seq(S), NEW q \in Seq(S)
  PROVE  /\ p \o q \in Seq(S) /\ Len(p \o q) = Len(p) + Len(q)
         /\ Len(p) \in Nat /\ Len(q) \in Nat
         /\ DOMAIN p = 1..Len(p) /\ DOMAIN q = 1..Len(q)
         /\ DOMAIN (p \o q) = 1..(Len(p) + Len(q))
         /\ \A k \in 1..Len(p) : k \in DOMAIN (p \o q) /\ (p \o q)[k] = p[k]
         /\ \A k \in 1..Len(q) : Len(p) + k \in DOMAIN (p \o q) /\ (p \o q)[Len(p) + k] = q[k]
         /\ \A k \in DOMAIN (p \o q) : k \notin 1..Len(p) =>
              k - Len(p) \in 1..Len(q) /\ (p \o q)[k] = q[k - Len(p)] /\ Len(p) + (k - Len(p)) = k
<1> DEFINE r == p \o q
<1>1. /\ r \in Seq(S) /\ Len(r) = Len(p) + Len(q) /\ Len(p) \in Nat /\ Len(q) \in Nat
      /\ \A k \in 1..Len(p) : r[k] = p[k]
      /\ \A k \in 1..Len(q) : r[Len(p) + k] = q[k]
  OBVIOUS
<1> HIDE DEF r
<1>2. /\ DOMAIN p = 1..Len(p) /\ DOMAIN q = 1..Len(q) /\ DOMAIN r = 1..(Len(p) + Len(q))
  BY <1>1
<1>3. \A k \in DOMAIN r : k \notin 1..Len(p) =>
        k - Len(p) \in 1..Len(q) /\ Len(p) + (k - Len(p)) = k
  BY <1>1, <1>2
<1>4. \A k \in 1..Len(p) : k \in DOMAIN r
  BY <1>1, <1>2
<1>5. \A k \in 1..Len(q) : Len(p) + k \in DOMAIN r
  BY <1>1, <1>2
<1> QED BY <1>1, <1>2, <1>3, <1>4, <1>5 DEF r

-----------------------------------------------------------------------------
(* The events among them.                                                  *)
LEMMA SeqsTail ==
  ASSUME NEW q \in Seq(Message), q # <<>>
  PROVE  /\ Head(q).kind = "event" => Seqs(q) = Seqs(Tail(q)) \cup {Head(q).seq}
         /\ Head(q).kind # "event" => Seqs(q) = Seqs(Tail(q))
         /\ Once(q) => /\ Once(Tail(q))
                       /\ Head(q).kind = "event" => Head(q).seq \notin Seqs(Tail(q))
<1> DEFINE t == Tail(q)
<1>1. /\ Head(q) = q[1] /\ DOMAIN q = 1..Len(q) /\ Len(q) \in Nat \ {0} /\ DOMAIN t = 1..(Len(q) - 1)
      /\ \A k \in 1..(Len(q) - 1) : k + 1 \in 1..Len(q) /\ t[k] = q[k + 1]
      /\ \A k \in 1..Len(q) : k # 1 => k - 1 \in 1..(Len(q) - 1) /\ q[k] = t[k - 1]
  BY HeadAndTail
<1> HIDE DEF t
<1>2. \A n : n \in Seqs(q) <=> \E k \in 1..Len(q) : q[k].kind = "event" /\ q[k].seq = n
  BY <1>1 DEF Seqs, EventsAt
<1>3. \A n : n \in Seqs(t) <=> \E k \in 1..(Len(q) - 1) : t[k].kind = "event" /\ t[k].seq = n
  BY <1>1 DEF Seqs, EventsAt
<1>4. ASSUME NEW n \in Seqs(t) PROVE \E k \in 1..Len(q) : k # 1 /\ q[k].kind = "event" /\ q[k].seq = n
  <2>1. PICK k \in 1..(Len(q) - 1) : t[k].kind = "event" /\ t[k].seq = n
    BY <1>3
  <2>2. k + 1 \in 1..Len(q) /\ k + 1 # 1 /\ q[k + 1] = t[k]
    BY <1>1
  <2> QED BY <2>1, <2>2
<1>5. ASSUME NEW n \in Seqs(q), n \notin Seqs(t) PROVE q[1].kind = "event" /\ q[1].seq = n
  <2>1. PICK k \in 1..Len(q) : q[k].kind = "event" /\ q[k].seq = n
    BY <1>2
  <2> QED BY <1>1, <1>3, <1>5, <2>1
<1>6. 1 \in 1..Len(q)
  BY <1>1
<1>7. /\ q[1].kind = "event" => Seqs(q) = Seqs(t) \cup {q[1].seq}
      /\ q[1].kind # "event" => Seqs(q) = Seqs(t)
  BY <1>2, <1>4, <1>5, <1>6
<1>8. ASSUME Once(q) PROVE Once(t)
  <2>1. SUFFICES ASSUME NEW i \in EventsAt(t), NEW j \in EventsAt(t), t[i].seq = t[j].seq
                 PROVE  i = j
    BY DEF Once
  <2>2. /\ i \in 1..(Len(q) - 1) /\ j \in 1..(Len(q) - 1)
        /\ i + 1 \in EventsAt(q) /\ j + 1 \in EventsAt(q)
        /\ q[i + 1].seq = q[j + 1].seq
    BY <1>1, <2>1 DEF EventsAt
  <2>3. i + 1 = j + 1
    BY <1>8, <2>2 DEF Once
  <2> QED BY <2>2, <2>3
<1>9. ASSUME Once(q), q[1].kind = "event", q[1].seq \in Seqs(t) PROVE FALSE
  <2>1. PICK k \in 1..Len(q) : k # 1 /\ q[k].kind = "event" /\ q[k].seq = q[1].seq
    BY <1>4, <1>9
  <2>2. k \in EventsAt(q) /\ 1 \in EventsAt(q)
    BY <1>1, <1>6, <1>9, <2>1 DEF EventsAt
  <2> QED BY <1>9, <2>1, <2>2 DEF Once
<1> QED BY <1>1, <1>7, <1>8, <1>9 DEF t

LEMMA SeqsJoined ==
  ASSUME NEW p \in Seq(Message), NEW q \in Seq(Message)
  PROVE  /\ Seqs(p \o q) = Seqs(p) \cup Seqs(q)
         /\ Once(p) /\ Once(q) /\ Seqs(p) \cap Seqs(q) = {} => Once(p \o q)
<1> DEFINE r == p \o q
<1>1. /\ Len(p) \in Nat /\ Len(q) \in Nat
      /\ DOMAIN p = 1..Len(p) /\ DOMAIN q = 1..Len(q)
      /\ \A k \in 1..Len(p) : k \in DOMAIN r /\ r[k] = p[k]
      /\ \A k \in 1..Len(q) : Len(p) + k \in DOMAIN r /\ r[Len(p) + k] = q[k]
      /\ \A k \in DOMAIN r : k \notin 1..Len(p) =>
           k - Len(p) \in 1..Len(q) /\ r[k] = q[k - Len(p)] /\ Len(p) + (k - Len(p)) = k
  BY Joined
<1> HIDE DEF r
<1>2. /\ \A k \in EventsAt(r) : IF k \in 1..Len(p)
                                THEN k \in EventsAt(p) /\ r[k].seq = p[k].seq
                                ELSE k - Len(p) \in EventsAt(q) /\ r[k].seq = q[k - Len(p)].seq
      /\ \A k \in EventsAt(p) : k \in EventsAt(r) /\ r[k].seq = p[k].seq
      /\ \A k \in EventsAt(q) : Len(p) + k \in EventsAt(r) /\ r[Len(p) + k].seq = q[k].seq
  BY <1>1 DEF EventsAt
<1>3. Seqs(r) = Seqs(p) \cup Seqs(q)
  <2>1. Seqs(r) \subseteq Seqs(p) \cup Seqs(q)
    BY <1>2 DEF Seqs
  <2>2. Seqs(p) \subseteq Seqs(r)
    BY <1>2 DEF Seqs
  <2>3. Seqs(q) \subseteq Seqs(r)
    BY <1>2 DEF Seqs
  <2> QED BY <2>1, <2>2, <2>3
<1>4. ASSUME Once(p), Once(q), Seqs(p) \cap Seqs(q) = {}, NEW i \in EventsAt(r), NEW j \in EventsAt(r),
             r[i].seq = r[j].seq
      PROVE  i = j
  <2>1. CASE i \in 1..Len(p) /\ j \in 1..Len(p)
    BY <1>2, <1>4, <2>1 DEF Once
  <2>2. CASE i \notin 1..Len(p) /\ j \notin 1..Len(p)
    <3>1. i - Len(p) = j - Len(p)
      BY <1>2, <1>4, <2>2 DEF Once
    <3> QED BY <1>1, <2>2, <3>1 DEF EventsAt
  <2>3. ASSUME NEW x \in EventsAt(r), NEW y \in EventsAt(r), x \in 1..Len(p), y \notin 1..Len(p)
        PROVE  r[x].seq # r[y].seq
    <3>1. r[x].seq \in Seqs(p) /\ r[y].seq \in Seqs(q)
      BY <1>2, <2>3 DEF Seqs
    <3> QED BY <1>4, <3>1
  <2> QED BY <1>4, <2>1, <2>2, <2>3
<1> QED BY <1>3, <1>4 DEF r, Once

-----------------------------------------------------------------------------
(* The feed.                                                               *)

(* One event more.                                                         *)
LEMMA TakenMore ==
  ASSUME NEW taken \in Seq(Nat), NEW n \in Nat
  PROVE  /\ Append(taken, n) \in Seq(Nat)
         /\ Range(Append(taken, n)) = Range(taken) \cup {n}
         /\ IsInjective(taken) /\ n \notin Range(taken) => IsInjective(Append(taken, n))
<1> DEFINE r == Append(taken, n)
<1>1. /\ r \in Seq(Nat) /\ Len(taken) \in Nat /\ DOMAIN taken = 1..Len(taken)
      /\ r[Len(taken) + 1] = n /\ \A k \in 1..Len(taken) : r[k] = taken[k]
      /\ Len(r) = Len(taken) + 1
  OBVIOUS
<1> HIDE DEF r
<1>2. DOMAIN r = 1..(Len(taken) + 1)
  BY <1>1
<1>a. \A k \in DOMAIN r : (k \in DOMAIN taken /\ r[k] = taken[k]) \/ (k = Len(taken) + 1 /\ r[k] = n)
  BY <1>1, <1>2
<1>b. \A k \in DOMAIN taken : k \in DOMAIN r /\ k # Len(taken) + 1
  BY <1>1, <1>2
<1>c. Len(taken) + 1 \in DOMAIN r
  BY <1>1, <1>2
<1>3. /\ \A k \in DOMAIN r : (k \in DOMAIN taken /\ r[k] = taken[k]) \/ (k = Len(taken) + 1 /\ r[k] = n)
      /\ \A k \in DOMAIN taken : k \in DOMAIN r /\ k # Len(taken) + 1
      /\ Len(taken) + 1 \in DOMAIN r
  BY <1>a, <1>b, <1>c
<1>4. Range(r) = Range(taken) \cup {n}
  BY <1>1, <1>3 DEF Range
<1>5. ASSUME IsInjective(taken), n \notin Range(taken), NEW i \in DOMAIN r, NEW j \in DOMAIN r, r[i] = r[j]
      PROVE  i = j
  BY <1>1, <1>3, <1>5 DEF Range, IsInjective
<1> QED BY <1>1, <1>4, <1>5 DEF r, IsInjective

LEMMA FeedSymmetric ==
  ASSUME NEW taken, NEW live, NEW replay, NEW last, NEW recent, FeedOf(taken, live, replay, last, recent)
  PROVE  FeedOf(taken, replay, live, last, recent)
<1>1. /\ Range(taken) \cup Seqs(live) \cup Seqs(replay) = Range(taken) \cup Seqs(replay) \cup Seqs(live)
      /\ Seqs(live) \cap Seqs(replay) = Seqs(replay) \cap Seqs(live)
  OBVIOUS
<1> QED BY <1>1 DEF FeedOf

(* What is taken leaves its lane.                                          *)
LEMMA FeedTaken ==
  ASSUME NEW taken \in Seq(Nat), NEW live \in Seq(Message), NEW replay, NEW last, NEW recent,
         FeedOf(taken, live, replay, last, recent), live # <<>>
  PROVE  FeedOf(IF Head(live).kind = "event" THEN Append(taken, Head(live).seq) ELSE taken,
                Tail(live), replay, last, recent)
<1>1. CASE Head(live).kind = "event"
  <2> DEFINE n == Head(live).seq
             more == Append(taken, n)
  <2>1. n \in Nat
    BY <1>1, HeadAndTail, MessageIs
  <2>2. /\ Seqs(live) = Seqs(Tail(live)) \cup {n} /\ Once(Tail(live)) /\ n \notin Seqs(Tail(live))
    BY <1>1, SeqsTail DEF FeedOf
  <2>3. Range(more) = Range(taken) \cup {n} /\ IsInjective(more)
    BY <2>1, <2>2, TakenMore DEF FeedOf
  <2> HIDE DEF n, more
  <2>4. Range(more) \cup Seqs(Tail(live)) \cup Seqs(replay) = Range(taken) \cup Seqs(live) \cup Seqs(replay)
    BY <2>2, <2>3
  <2>5. /\ Range(more) \cap Seqs(Tail(live)) = {} /\ Range(more) \cap Seqs(replay) = {}
        /\ Seqs(Tail(live)) \cap Seqs(replay) = {}
    BY <2>2, <2>3 DEF FeedOf
  <2>6. FeedOf(more, Tail(live), replay, last, recent)
    BY <2>2, <2>3, <2>4, <2>5 DEF FeedOf
  <2> QED BY <1>1, <2>6 DEF more, n
<1>2. CASE Head(live).kind # "event"
  <2>1. Seqs(live) = Seqs(Tail(live)) /\ Once(Tail(live))
    BY <1>2, SeqsTail DEF FeedOf
  <2> QED BY <1>2, <2>1 DEF FeedOf
<1> QED BY <1>1, <1>2

Recent(last) == IF last > RingSize THEN last - RingSize + 1 ELSE 1

LEMMA RingedIs ==
  ASSUME NEW last \in Nat
  PROVE  /\ Range(Ringed(last)) = Recent(last)..last
         /\ Recent(last) \in 1..(last + 1)
         /\ last > 0 => Recent(last) <= last
         /\ \A n \in Nat : Recent(last) <= Recent(last + n)
         /\ Len(Ringed(last)) \in Nat /\ DOMAIN Ringed(last) = 1..Len(Ringed(last))
         /\ Len(Ringed(last)) = last - Recent(last) + 1
         /\ \A i \in DOMAIN Ringed(last) : Ringed(last)[i] = Recent(last) + i - 1
<1>1. RingSize \in Nat \ {0}
  BY AdminAssumption
<1>2. /\ Recent(last) \in 1..(last + 1)
      /\ last > 0 => Recent(last) <= last
      /\ \A n \in Nat : Recent(last) <= Recent(last + n)
  BY <1>1 DEF Recent
<1> DEFINE f == Recent(last)
           r == Ringed(last)
<1>3. r = [i \in 1..(last - f + 1) |-> f + i - 1]
  BY DEF Ringed, Recent
<1> HIDE DEF f, r
<1>4. f \in Nat /\ last - f + 1 \in Nat
  BY <1>2 DEF f
<1>5. Len(r) = last - f + 1 /\ DOMAIN r = 1..(last - f + 1)
  BY <1>3, <1>4
<1>6. ASSUME NEW n \in f..last PROVE n \in Range(r)
  <2>1. n - f + 1 \in DOMAIN r /\ r[n - f + 1] = n
    BY <1>3, <1>4, <1>5
  <2> QED BY <2>1 DEF Range
<1>7. ASSUME NEW n \in Range(r) PROVE n \in f..last
  BY <1>3, <1>4, <1>5 DEF Range
<1> QED BY <1>2, <1>3, <1>4, <1>5, <1>6, <1>7 DEF f, r

(* New events are pushed.                                                  *)
LEMMA FeedMore ==
  ASSUME NEW taken, NEW live \in Seq(Message), NEW replay, NEW last \in Nat, NEW n \in Nat,
         NEW msgs \in Seq(Message), Seqs(msgs) = (last + 1)..(last + n), Once(msgs),
         FeedOf(taken, live, replay, last, Range(Ringed(last)))
  PROVE  FeedOf(taken, live \o msgs, replay, last + n, Range(Ringed(last + n)))
<1> DEFINE known == Range(taken) \cup Seqs(live) \cup Seqs(replay)
           more == Range(taken) \cup Seqs(live \o msgs) \cup Seqs(replay)
<1>1. PICK first \in 1..(last + 1) : known = first..last
  BY DEF FeedOf
<1>2. Recent(last)..last \subseteq known
  BY RingedIs DEF FeedOf
<1>3. Seqs(live \o msgs) = Seqs(live) \cup Seqs(msgs)
  BY SeqsJoined
<1>4. Seqs(live) \subseteq known /\ Range(taken) \subseteq known /\ Seqs(replay) \subseteq known
  OBVIOUS
<1>5. more = known \cup Seqs(msgs)
  BY <1>3
<1> HIDE DEF known, more
<1>6. first \in 1..(last + n + 1) /\ more = first..(last + n)
  BY <1>1, <1>5
<1>a. /\ last + n \in Nat
      /\ Recent(last) \in 1..(last + 1) /\ (last > 0 => Recent(last) <= last)
      /\ Recent(last) <= Recent(last + n)
  <2>1. last + n \in Nat
    OBVIOUS
  <2>2. Recent(last) \in 1..(last + 1) /\ (last > 0 => Recent(last) <= last)
    BY RingedIs
  <2>3. \A k \in Nat : Recent(last) <= Recent(last + k)
    BY RingedIs
  <2> QED BY <2>1, <2>2, <2>3
<1>b. /\ Recent(last + n) \in 1..(last + n + 1)
      /\ Range(Ringed(last + n)) = Recent(last + n)..(last + n)
  BY <1>a, RingedIs
<1>7. first <= Recent(last + n)
  <2>1. CASE last = 0
    BY <1>1, <1>b, <2>1
  <2>2. CASE last > 0
    <3>1. Recent(last) \in Recent(last)..last
      BY <1>a, <2>2
    <3>2. Recent(last) \in first..last
      BY <1>1, <1>2, <3>1
    <3> QED BY <1>a, <1>b, <3>2
  <2> QED BY <2>1, <2>2
<1>8. Range(Ringed(last + n)) \subseteq more
  BY <1>1, <1>6, <1>7, <1>b
<1>9. Seqs(msgs) \cap known = {}
  BY <1>1
<1>10. Once(live \o msgs)
  <2>1. Once(live) /\ Seqs(live) \cap Seqs(msgs) = {}
    BY <1>4, <1>9 DEF FeedOf
  <2> QED BY <2>1, SeqsJoined
<1>11. /\ Range(taken) \cap Seqs(live \o msgs) = {} /\ Seqs(live \o msgs) \cap Seqs(replay) = {}
  BY <1>3, <1>4, <1>9 DEF FeedOf
<1>12. \E x \in 1..(last + n + 1) : more = x..(last + n)
  BY <1>6
<1> QED BY <1>8, <1>10, <1>11, <1>12 DEF FeedOf, more

(* A replay of the ring, and rows.                                         *)
LEMMA FeedStarts ==
  ASSUME NEW last \in Nat, NEW rows \in Seq(Message), \A k \in DOMAIN rows : rows[k].kind # "event"
  PROVE  LET events == [i \in 1..Len(Ringed(last)) |-> Event(Ringed(last)[i])]
         IN  /\ events \in Seq(Message)
             /\ FeedOf(<<>>, <<>>, events \o rows, last, Range(Ringed(last)))
<1> DEFINE r == Ringed(last)
           events == [i \in 1..Len(r) |-> Event(r[i])]
           f == Recent(last)
<1>1. /\ Range(r) = f..last /\ f \in 1..(last + 1) /\ DOMAIN r = 1..Len(r) /\ Len(r) \in Nat
      /\ \A i \in 1..Len(r) : r[i] = f + i - 1
  BY RingedIs
<1> HIDE DEF r, f
<1>2. \A i \in 1..Len(r) : r[i] \in Nat
  BY <1>1
<1>3. events \in Seq(Message)
  BY <1>1, <1>2, MessageIs
<1>4. DOMAIN events = 1..Len(r) /\ \A i \in 1..Len(r) : events[i].kind = "event" /\ events[i].seq = r[i]
  BY <1>2, MessageIs
<1> HIDE DEF events
<1>5. EventsAt(events) = DOMAIN r
  BY <1>1, <1>4 DEF EventsAt
<1>6. Seqs(events) = Range(r)
  BY <1>1, <1>4, <1>5 DEF Seqs, Range
<1>7. Once(events)
  BY <1>1, <1>4, <1>5 DEF Once
<1>8. EventsAt(rows) = {} /\ Seqs(rows) = {} /\ Once(rows)
  BY DEF EventsAt, Seqs, Once
<1>9. Seqs(events \o rows) = Range(r) /\ Once(events \o rows)
  <2>1. Seqs(events) \cap Seqs(rows) = {} /\ Seqs(events) \cup Seqs(rows) = Range(r)
    BY <1>6, <1>8
  <2> QED BY <1>3, <1>7, <1>8, <2>1, SeqsJoined
<1>10. Range(<<>>) = {} /\ IsInjective(<<>>) /\ Seqs(<<>>) = {} /\ Once(<<>>)
  BY DEF Range, IsInjective, Seqs, EventsAt, Once
<1>11. FeedOf(<<>>, <<>>, events \o rows, last, Range(r))
  <2>1. Range(<<>>) \cup Seqs(<<>>) \cup Seqs(events \o rows) = f..last
    BY <1>1, <1>9, <1>10
  <2>2. \E x \in 1..(last + 1) : Range(<<>>) \cup Seqs(<<>>) \cup Seqs(events \o rows) = x..last
    BY <1>1, <2>1
  <2> QED BY <1>1, <1>9, <1>10, <2>1, <2>2 DEF FeedOf
<1> QED BY <1>3, <1>11 DEF events, r

-----------------------------------------------------------------------------
(* The mirror.                                                             *)

About(m, p) == m.kind \in {"row", "gone"} /\ m.id = p
Silent(q, p) == \A k \in DOMAIN q : ~About(q[k], p)
Truth(p, now) == IF p \in DOMAIN now THEN RowMsg(p, now[p]) ELSE Gone(p)
LastWord(q, p, m) == \E j \in DOMAIN q : q[j] = m /\ \A k \in DOMAIN q : k > j => ~About(q[k], p)

(* The last live message that waits about a player says what the roster    *)
(* says; of whom none waits, the mirror shows what the roster says, or a   *)
(* replayed row has overwritten it or is still to come.                    *)
MirrorOf(shown, live, replay, replayed, now) ==
  /\ \A k \in DOMAIN replay :
       replay[k].kind # "event" => /\ replay[k].kind = "row" /\ replay[k].id \in DOMAIN replayed
                                   /\ replay[k].row = replayed[replay[k].id]
  /\ \A p \in Player : ~Silent(live, p) => LastWord(live, p, Truth(p, now))
  /\ \A p \in Player : Silent(live, p) =>
       /\ p \in DOMAIN now =>
            \/ p \in DOMAIN shown /\ shown[p] = now[p]
            \/ p \in DOMAIN replayed /\ p \in DOMAIN shown /\ shown[p] = replayed[p]
            \/ p \in DOMAIN replayed /\ ~Silent(replay, p)
       /\ p \notin DOMAIN now /\ p \in DOMAIN shown =>
            p \in DOMAIN replayed /\ shown[p] = replayed[p]

(* What one message makes of the mirror.                                   *)
Shown(shown, m) == CASE m.kind = "row"   -> Put(shown, m.id, m.row)
                     [] m.kind = "gone"  -> Restrict(shown, DOMAIN shown \ {m.id})
                     [] m.kind = "event" -> shown

LEMMA RosterIs ==
  ASSUME NEW f
  PROVE  f \in Rosters <=> DOMAIN f \subseteq Player /\ f \in [DOMAIN f -> Row]
BY DEF Rosters

LEMMA ShownIs ==
  ASSUME NEW f \in Rosters, NEW m \in Message
  PROVE  /\ Shown(f, m) \in Rosters
         /\ \A p : ~About(m, p) => /\ p \in DOMAIN Shown(f, m) <=> p \in DOMAIN f
                                   /\ p \in DOMAIN f => Shown(f, m)[p] = f[p]
         /\ m.kind = "row" => m.id \in DOMAIN Shown(f, m) /\ Shown(f, m)[m.id] = m.row
         /\ m.kind = "gone" => m.id \notin DOMAIN Shown(f, m)
<1>0. DOMAIN f \subseteq Player /\ f \in [DOMAIN f -> Row]
  BY RosterIs
<1>1. CASE m.kind = "row"
  <2> DEFINE g == Put(f, m.id, m.row)
  <2>1. m.id \in Player /\ m.row \in Row
    BY <1>1, MessageIs
  <2>2. /\ g = [y \in DOMAIN f \cup {m.id} |-> IF y = m.id THEN m.row ELSE f[y]]
        /\ Shown(f, m) = g
    BY <1>1 DEF Put, Shown
  <2> HIDE DEF g
  <2>3. DOMAIN g \subseteq Player /\ g \in [DOMAIN g -> Row]
    BY <1>0, <2>1, <2>2
  <2>4. g \in Rosters
    BY <2>3, RosterIs
  <2> QED BY <1>1, <2>2, <2>4 DEF About
<1>2. CASE m.kind = "gone"
  <2> DEFINE g == Restrict(f, DOMAIN f \ {m.id})
  <2>1. g = [x \in DOMAIN f \ {m.id} |-> f[x]] /\ Shown(f, m) = g
    BY <1>2 DEF Restrict, Shown
  <2> HIDE DEF g
  <2>2. DOMAIN g \subseteq Player /\ g \in [DOMAIN g -> Row]
    BY <1>0, <2>1
  <2>3. g \in Rosters
    BY <2>2, RosterIs
  <2> QED BY <1>2, <2>1, <2>3 DEF About
<1>3. CASE m.kind = "event"
  BY <1>3 DEF Shown, About
<1> QED BY <1>1, <1>2, <1>3, MessageIs

LEMMA TruthIs ==
  ASSUME NEW p \in Player, NEW now \in Rosters
  PROVE  /\ About(Truth(p, now), p)
         /\ p \in DOMAIN now => Truth(p, now).kind = "row" /\ Truth(p, now).id = p /\ Truth(p, now).row = now[p]
         /\ p \notin DOMAIN now => Truth(p, now).kind = "gone" /\ Truth(p, now).id = p
<1>1. p \in DOMAIN now => now[p] \in Row
  BY RosterIs
<1> QED BY <1>1, MessageIs DEF Truth, About

(* The next live message.                                                  *)
LEMMA MirrorTakesLive ==
  ASSUME NEW shown \in Rosters, NEW live \in Seq(Message), live # <<>>, NEW replay,
         NEW replayed \in Rosters, NEW now \in Rosters,
         MirrorOf(shown, live, replay, replayed, now)
  PROVE  MirrorOf(Shown(shown, Head(live)), Tail(live), replay, replayed, now)
<1> DEFINE t == Tail(live)
           m == Head(live)
           f == Shown(shown, m)
<1>1. /\ m \in Message /\ m = live[1] /\ DOMAIN live = 1..Len(live) /\ Len(live) \in Nat \ {0}
      /\ DOMAIN t = 1..(Len(live) - 1)
      /\ \A k \in 1..(Len(live) - 1) : k + 1 \in 1..Len(live) /\ t[k] = live[k + 1]
      /\ \A k \in 1..Len(live) : k # 1 => k - 1 \in 1..(Len(live) - 1) /\ live[k] = t[k - 1]
  BY HeadAndTail
<1>2. /\ \A p : ~About(m, p) => /\ p \in DOMAIN f <=> p \in DOMAIN shown
                                /\ p \in DOMAIN shown => f[p] = shown[p]
      /\ m.kind = "row" => m.id \in DOMAIN f /\ f[m.id] = m.row
      /\ m.kind = "gone" => m.id \notin DOMAIN f
  BY <1>1, ShownIs
<1> HIDE DEF t, m, f
<1>3. \A p : Silent(live, p) <=> ~About(m, p) /\ Silent(t, p)
  <2>1. ASSUME NEW p, Silent(live, p) PROVE ~About(m, p) /\ Silent(t, p)
    <3>1. 1 \in DOMAIN live /\ \A k \in DOMAIN t : k + 1 \in DOMAIN live /\ t[k] = live[k + 1]
      BY <1>1
    <3> QED BY <1>1, <2>1, <3>1 DEF Silent
  <2>2. ASSUME NEW p, ~About(m, p), Silent(t, p) PROVE Silent(live, p)
    <3>1. \A k \in DOMAIN live : k = 1 \/ (k - 1 \in DOMAIN t /\ live[k] = t[k - 1])
      BY <1>1
    <3> QED BY <1>1, <2>2, <3>1 DEF Silent
  <2> QED BY <2>1, <2>2
<1>4. ASSUME NEW p \in Player, ~Silent(t, p) PROVE LastWord(t, p, Truth(p, now))
  <2>1. ~Silent(live, p)
    BY <1>3, <1>4
  <2>2. PICK j \in DOMAIN live : /\ live[j] = Truth(p, now)
                                 /\ \A k \in DOMAIN live : k > j => ~About(live[k], p)
    BY <2>1 DEF MirrorOf, LastWord
  <2>3. PICK i \in DOMAIN t : About(t[i], p)
    BY <1>4 DEF Silent
  <2>4. j # 1
    <3>1. i + 1 \in DOMAIN live /\ live[i + 1] = t[i] /\ i + 1 > 1
      BY <1>1
    <3> QED BY <2>2, <2>3, <3>1
  <2>5. j - 1 \in DOMAIN t /\ t[j - 1] = Truth(p, now)
    BY <1>1, <2>2, <2>4
  <2>6. ASSUME NEW k \in DOMAIN t, k > j - 1 PROVE ~About(t[k], p)
    <3>1. k + 1 \in DOMAIN live /\ live[k + 1] = t[k] /\ k + 1 > j
      BY <1>1, <2>6
    <3> QED BY <2>2, <3>1
  <2> QED BY <2>5, <2>6 DEF LastWord
<1>5. ASSUME NEW p \in Player, Silent(t, p), About(m, p) PROVE m = Truth(p, now)
  <2>1. ~Silent(live, p)
    BY <1>3, <1>5
  <2>2. PICK j \in DOMAIN live : live[j] = Truth(p, now)
    BY <2>1 DEF MirrorOf, LastWord
  <2>3. About(live[j], p)
    BY <2>2, TruthIs
  <2>4. CASE j # 1
    <3>1. j - 1 \in DOMAIN t /\ live[j] = t[j - 1]
      BY <1>1, <2>4
    <3> QED BY <1>5, <2>3, <3>1 DEF Silent
  <2>5. CASE j = 1
    BY <1>1, <2>2, <2>5
  <2> QED BY <2>4, <2>5
<1>6. ASSUME NEW p \in Player, Silent(t, p)
      PROVE  /\ p \in DOMAIN now =>
                  \/ p \in DOMAIN f /\ f[p] = now[p]
                  \/ p \in DOMAIN replayed /\ p \in DOMAIN f /\ f[p] = replayed[p]
                  \/ p \in DOMAIN replayed /\ ~Silent(replay, p)
             /\ p \notin DOMAIN now /\ p \in DOMAIN f =>
                  p \in DOMAIN replayed /\ f[p] = replayed[p]
  <2>1. CASE About(m, p)
    <3>1. m = Truth(p, now)
      BY <1>5, <1>6, <2>1
    <3>2. p \in DOMAIN now => p \in DOMAIN f /\ f[p] = now[p]
      BY <1>2, <3>1, TruthIs
    <3>3. p \notin DOMAIN now => p \notin DOMAIN f
      BY <1>2, <3>1, TruthIs
    <3> QED BY <3>2, <3>3
  <2>2. CASE ~About(m, p)
    <3>1. Silent(live, p)
      BY <1>3, <1>6, <2>2
    <3> QED BY <1>2, <2>2, <3>1 DEF MirrorOf
  <2> QED BY <2>1, <2>2
<1> QED BY <1>4, <1>6 DEF MirrorOf, f, t, m

(* The next message of the replay.                                         *)
LEMMA MirrorTakesReplay ==
  ASSUME NEW shown \in Rosters, NEW live, NEW replay \in Seq(Message), replay # <<>>,
         NEW replayed \in Rosters, NEW now \in Rosters,
         MirrorOf(shown, live, replay, replayed, now)
  PROVE  MirrorOf(Shown(shown, Head(replay)), live, Tail(replay), replayed, now)
<1> DEFINE t == Tail(replay)
           m == Head(replay)
           f == Shown(shown, m)
<1>1. /\ m \in Message /\ m = replay[1] /\ DOMAIN replay = 1..Len(replay) /\ Len(replay) \in Nat \ {0}
      /\ DOMAIN t = 1..(Len(replay) - 1)
      /\ \A k \in 1..(Len(replay) - 1) : k + 1 \in 1..Len(replay) /\ t[k] = replay[k + 1]
      /\ \A k \in 1..Len(replay) : k # 1 => k - 1 \in 1..(Len(replay) - 1) /\ replay[k] = t[k - 1]
  BY HeadAndTail
<1>2. /\ \A p : ~About(m, p) => /\ p \in DOMAIN f <=> p \in DOMAIN shown
                                /\ p \in DOMAIN shown => f[p] = shown[p]
      /\ m.kind = "row" => m.id \in DOMAIN f /\ f[m.id] = m.row
  BY <1>1, ShownIs
<1> HIDE DEF t, m, f
<1>3. 1 \in DOMAIN replay
  BY <1>1
<1>4. \A p : About(m, p) => /\ p \in DOMAIN replayed /\ m.kind = "row" /\ m.row = replayed[p]
                            /\ m.id = p
  BY <1>1, <1>3 DEF MirrorOf, About
<1>5. \A k \in DOMAIN t : k + 1 \in DOMAIN replay /\ t[k] = replay[k + 1]
  BY <1>1
<1>6. ASSUME NEW p, ~About(m, p), ~Silent(replay, p) PROVE ~Silent(t, p)
  <2>1. PICK k \in DOMAIN replay : About(replay[k], p)
    BY <1>6 DEF Silent
  <2>2. k - 1 \in DOMAIN t /\ t[k - 1] = replay[k]
    BY <1>1, <1>6, <2>1
  <2> QED BY <2>1, <2>2 DEF Silent
<1>7. ASSUME NEW p \in Player, Silent(live, p)
      PROVE  /\ p \in DOMAIN now =>
                  \/ p \in DOMAIN f /\ f[p] = now[p]
                  \/ p \in DOMAIN replayed /\ p \in DOMAIN f /\ f[p] = replayed[p]
                  \/ p \in DOMAIN replayed /\ ~Silent(t, p)
             /\ p \notin DOMAIN now /\ p \in DOMAIN f =>
                  p \in DOMAIN replayed /\ f[p] = replayed[p]
  <2>1. CASE About(m, p)
    BY <1>2, <1>4, <2>1
  <2>2. CASE ~About(m, p)
    BY <1>2, <1>6, <1>7, <2>2 DEF MirrorOf
  <2> QED BY <2>1, <2>2
<1>8. \A k \in DOMAIN t :
        t[k].kind # "event" => /\ t[k].kind = "row" /\ t[k].id \in DOMAIN replayed
                               /\ t[k].row = replayed[t[k].id]
  BY <1>5 DEF MirrorOf
<1>9. \A p \in Player : ~Silent(live, p) => LastWord(live, p, Truth(p, now))
  BY DEF MirrorOf
<1> QED BY <1>7, <1>8, <1>9 DEF MirrorOf, f, t, m

(* Messages of which each says of whom it is about what now holds, and     *)
(* some is about each of P.                                                *)
Speaks(q, P, now) ==
  /\ \A k \in DOMAIN q : \A p \in Player : About(q[k], p) => q[k] = Truth(p, now)
  /\ \A p \in P : ~Silent(q, p)

LEMMA SpeaksJoined ==
  ASSUME NEW a \in Seq(Message), NEW b \in Seq(Message), NEW P, NEW Q, NEW now,
         Speaks(a, P, now), Speaks(b, Q, now)
  PROVE  Speaks(a \o b, P \cup Q, now)
<1> DEFINE r == a \o b
<1>1. /\ DOMAIN a = 1..Len(a) /\ DOMAIN b = 1..Len(b)
      /\ \A k \in 1..Len(a) : k \in DOMAIN r /\ r[k] = a[k]
      /\ \A k \in 1..Len(b) : Len(a) + k \in DOMAIN r /\ r[Len(a) + k] = b[k]
      /\ \A k \in DOMAIN r : k \notin 1..Len(a) =>
           k - Len(a) \in 1..Len(b) /\ r[k] = b[k - Len(a)]
  BY Joined
<1> HIDE DEF r
<1>2. \A k \in DOMAIN r : \A p \in Player : About(r[k], p) => r[k] = Truth(p, now)
  BY <1>1 DEF Speaks
<1>3. ASSUME NEW p \in P PROVE ~Silent(r, p)
  BY <1>1 DEF Speaks, Silent
<1>4. ASSUME NEW p \in Q PROVE ~Silent(r, p)
  BY <1>1 DEF Speaks, Silent
<1> QED BY <1>2, <1>3, <1>4 DEF Speaks, r

(* Every nonempty set of numbers up to n has a greatest one.               *)
LEMMA Greatest ==
  ASSUME NEW n \in Nat, NEW S \in SUBSET (1..n), S # {}
  PROVE  \E k \in S : \A i \in S : i <= k
<1> DEFINE R == OpToRel(<, Nat)
           T == {m \in Nat : \A i \in S : i <= m}
<1>1. IsWellFoundedOn(R, Nat)
  BY NatLessThanWellFounded
<1> HIDE DEF R
<1>2. n \in T
  OBVIOUS
<1>3. T \subseteq Nat /\ T # {}
  BY <1>2
<1> HIDE DEF T
<1>4. PICK m \in T : \A i \in T : ~(<<i, m>> \in R)
  BY <1>1, <1>3, WFMin
<1>5. \A i \in T : ~(i < m)
  BY <1>3, <1>4 DEF R, OpToRel
<1>6. m \in S
  <2>1. ASSUME m \notin S PROVE FALSE
    <3>1. PICK i \in S : i \in 1..n
      OBVIOUS
    <3>2. m \in Nat /\ \A x \in S : x <= m
      BY DEF T
    <3>3. m - 1 \in Nat /\ \A x \in S : x <= m - 1
      BY <2>1, <3>1, <3>2
    <3>4. m - 1 \in T
      BY <3>3 DEF T
    <3> QED BY <1>5, <3>2, <3>4
  <2> QED BY <2>1
<1> QED BY <1>6 DEF T

(* What is pushed of a changed roster.                                     *)
LEMMA MirrorMore ==
  ASSUME NEW shown, NEW live \in Seq(Message), NEW replay, NEW replayed,
         NEW was \in Rosters, NEW now \in Rosters, MirrorOf(shown, live, replay, replayed, was),
         NEW msgs \in Seq(Message), NEW P, Speaks(msgs, P, now),
         \A p \in Player \ P : /\ p \in DOMAIN was <=> p \in DOMAIN now
                               /\ p \in DOMAIN now => was[p] = now[p]
  PROVE  MirrorOf(shown, live \o msgs, replay, replayed, now)
<1> DEFINE r == live \o msgs
<1>1. /\ DOMAIN live = 1..Len(live) /\ DOMAIN msgs = 1..Len(msgs)
      /\ Len(live) \in Nat /\ Len(msgs) \in Nat
      /\ DOMAIN r = 1..(Len(live) + Len(msgs))
      /\ \A k \in 1..Len(live) : k \in DOMAIN r /\ r[k] = live[k]
      /\ \A k \in 1..Len(msgs) : Len(live) + k \in DOMAIN r /\ r[Len(live) + k] = msgs[k]
      /\ \A k \in DOMAIN r : k \notin 1..Len(live) =>
           k - Len(live) \in 1..Len(msgs) /\ r[k] = msgs[k - Len(live)]
  BY Joined
<1> HIDE DEF r
<1>2. \A p : Silent(r, p) <=> Silent(live, p) /\ Silent(msgs, p)
  BY <1>1 DEF Silent
<1>3. ASSUME NEW p \in Player, Silent(msgs, p)
      PROVE  /\ p \in DOMAIN was <=> p \in DOMAIN now
             /\ p \in DOMAIN now => was[p] = now[p]
             /\ Truth(p, was) = Truth(p, now)
  <2>1. p \notin P
    BY <1>3 DEF Speaks
  <2> QED BY <2>1 DEF Truth
<1>4. ASSUME NEW p \in Player, ~Silent(r, p) PROVE LastWord(r, p, Truth(p, now))
  <2>1. CASE Silent(msgs, p)
    <3>1. LastWord(live, p, Truth(p, now))
      BY <1>2, <1>3, <1>4, <2>1 DEF MirrorOf
    <3>2. PICK j \in DOMAIN live : /\ live[j] = Truth(p, now)
                                   /\ \A k \in DOMAIN live : k > j => ~About(live[k], p)
      BY <3>1 DEF LastWord
    <3>3. j \in DOMAIN r /\ r[j] = Truth(p, now)
      BY <1>1, <3>2
    <3>4. ASSUME NEW k \in DOMAIN r, k > j PROVE ~About(r[k], p)
      BY <1>1, <2>1, <3>2, <3>4 DEF Silent
    <3> QED BY <3>3, <3>4 DEF LastWord
  <2>2. CASE ~Silent(msgs, p)
    <3> DEFINE A == {k \in 1..Len(msgs) : About(msgs[k], p)}
    <3>1. A # {} /\ A \in SUBSET (1..Len(msgs))
      BY <1>1, <2>2 DEF Silent
    <3>2. \E k \in A : \A i \in A : i <= k
      <4> HIDE DEF A
      <4> QED BY <1>1, <3>1, Greatest
    <3>3. PICK k \in A : \A i \in A : i <= k
      BY <3>2
    <3>4. k \in 1..Len(msgs) /\ msgs[k] = Truth(p, now)
      BY <1>1, <3>3 DEF Speaks
    <3>5. Len(live) + k \in DOMAIN r /\ r[Len(live) + k] = Truth(p, now)
      BY <1>1, <3>4
    <3>6. ASSUME NEW i \in DOMAIN r, i > Len(live) + k PROVE ~About(r[i], p)
      <4>1. i - Len(live) \in 1..Len(msgs) /\ r[i] = msgs[i - Len(live)] /\ i - Len(live) > k
        BY <1>1, <3>4, <3>6
      <4>2. i - Len(live) \notin A
        BY <3>3, <3>4, <4>1
      <4> QED BY <4>1, <4>2
    <3> QED BY <3>5, <3>6 DEF LastWord
  <2> QED BY <2>1, <2>2
<1>5. ASSUME NEW p \in Player, Silent(r, p)
      PROVE  /\ p \in DOMAIN now =>
                  \/ p \in DOMAIN shown /\ shown[p] = now[p]
                  \/ p \in DOMAIN replayed /\ p \in DOMAIN shown /\ shown[p] = replayed[p]
                  \/ p \in DOMAIN replayed /\ ~Silent(replay, p)
             /\ p \notin DOMAIN now /\ p \in DOMAIN shown =>
                  p \in DOMAIN replayed /\ shown[p] = replayed[p]
  <2>1. Silent(live, p) /\ Silent(msgs, p)
    BY <1>2, <1>5
  <2>2. /\ p \in DOMAIN was <=> p \in DOMAIN now
        /\ p \in DOMAIN now => was[p] = now[p]
    BY <1>3, <2>1
  <2> QED BY <2>1, <2>2 DEF MirrorOf
<1>6. \A k \in DOMAIN replay :
        replay[k].kind # "event" => /\ replay[k].kind = "row" /\ replay[k].id \in DOMAIN replayed
                                    /\ replay[k].row = replayed[replay[k].id]
  BY DEF MirrorOf
<1> QED BY <1>4, <1>5, <1>6 DEF MirrorOf, r

(* A set listed.                                                           *)
LEMMA Listed ==
  ASSUME NEW S, IsFiniteSet(S)
  PROVE  /\ SetToSeq(S) \in Seq(S) /\ Len(SetToSeq(S)) \in Nat
         /\ DOMAIN SetToSeq(S) = 1..Len(SetToSeq(S))
         /\ \A i \in 1..Len(SetToSeq(S)) : SetToSeq(S)[i] \in S
         /\ \A x \in S : \E i \in 1..Len(SetToSeq(S)) : SetToSeq(S)[i] = x
<1> DEFINE n == Cardinality(S)
           g == SetToSeq(S)
<1>1. n \in Nat /\ ExistsBijection(1..n, S)
  BY FS_CardinalityType
<1>2. \E f \in [1..n -> S] : IsInjective(f)
  <2>1. PICK f : f \in Bijection(1..n, S)
    BY <1>1 DEF ExistsBijection
  <2>2. f \in [1..n -> S] /\ IsInjective(f)
    BY <2>1 DEF Bijection, Injection, IsInjective
  <2> QED BY <2>2
<1>3. g \in [1..n -> S] /\ IsInjective(g)
  BY <1>2 DEF SetToSeq
<1> HIDE DEF g
<1>4. IsFiniteSet(1..n) /\ Cardinality(1..n) = n
  BY <1>1, FS_Interval
<1>5. g \in Injection(1..n, S)
  BY <1>3 DEF Injection, IsInjective
<1>6. g \in Surjection(1..n, S)
  BY <1>4, <1>5, FS_Injection
<1>7. \A x \in S : \E i \in 1..n : g[i] = x
  BY <1>6 DEF Surjection
<1>8. g \in Seq(S) /\ Len(g) = n /\ DOMAIN g = 1..n
  BY <1>1, <1>3
<1> QED BY <1>1, <1>3, <1>7, <1>8 DEF g

-----------------------------------------------------------------------------
(* What is pushed.                                                         *)

(* Two lists in turn.                                                      *)
LEMMA PairedIs ==
  ASSUME NEW a \in Seq(Message), NEW b \in Seq(Message), Len(a) = Len(b)
  PROVE  /\ Paired(a, b) \in Seq(Message)
         /\ DOMAIN Paired(a, b) = 1..(2 * Len(a))
         /\ \A i \in 1..Len(a) : /\ 2 * i - 1 \in 1..(2 * Len(a)) /\ 2 * i \in 1..(2 * Len(a))
                                 /\ Paired(a, b)[2 * i - 1] = a[i] /\ Paired(a, b)[2 * i] = b[i]
         /\ \A k \in 1..(2 * Len(a)) : \E i \in 1..Len(a) : k = 2 * i - 1 \/ k = 2 * i
<1> DEFINE n == Len(a)
           r == Paired(a, b)
<1>1. n \in Nat /\ n = Len(b) /\ (\A i \in 1..n : a[i] \in Message /\ b[i] \in Message)
  OBVIOUS
<1>2. r = [k \in 1..(2 * n) |-> IF k % 2 = 1 THEN a[(k + 1) \div 2] ELSE b[k \div 2]]
  BY DEF Paired
<1> HIDE DEF n, r
<1>3. \A i \in 1..n : /\ 2 * i - 1 \in 1..(2 * n) /\ 2 * i \in 1..(2 * n)
                      /\ (2 * i - 1) % 2 = 1 /\ ((2 * i - 1) + 1) \div 2 = i
                      /\ (2 * i) % 2 = 0 /\ (2 * i) \div 2 = i
  BY <1>1
<1>4. ASSUME NEW i \in 1..n PROVE r[2 * i - 1] = a[i] /\ r[2 * i] = b[i]
  <2> DEFINE j == 2 * i - 1
             k == 2 * i
  <2>1. /\ j \in 1..(2 * n) /\ k \in 1..(2 * n)
        /\ j % 2 = 1 /\ (j + 1) \div 2 = i /\ k % 2 = 0 /\ k \div 2 = i
    BY <1>3
  <2> HIDE DEF j, k
  <2>2. r[j] = a[i] /\ r[k] = b[i]
    BY <1>2, <2>1
  <2> QED BY <2>2 DEF j, k
<1>5. ASSUME NEW k \in 1..(2 * n) PROVE \E i \in 1..n : k = 2 * i - 1 \/ k = 2 * i
  <2>1. CASE k % 2 = 1
    <3>1. (k + 1) \div 2 \in 1..n /\ k = 2 * ((k + 1) \div 2) - 1
      BY <1>1, <2>1
    <3> QED BY <3>1
  <2>2. CASE k % 2 # 1
    <3>1. k \div 2 \in 1..n /\ k = 2 * (k \div 2)
      BY <1>1, <2>2
    <3> QED BY <3>1
  <2> QED BY <2>1, <2>2
<1>6. \A k \in 1..(2 * n) : r[k] \in Message
  BY <1>1, <1>4, <1>5
<1>7. r \in Seq(Message) /\ DOMAIN r = 1..(2 * n)
  BY <1>1, <1>2, <1>6
<1> QED BY <1>3, <1>4, <1>5, <1>7 DEF n, r

(* One of the two lists has the events from first on.                      *)
LEMMA PairedEvents ==
  ASSUME NEW a \in Seq(Message), NEW b \in Seq(Message), Len(a) = Len(b), NEW from \in Nat,
         \/ \A i \in 1..Len(a) : a[i] = Event(from + i) /\ b[i].kind # "event"
         \/ \A i \in 1..Len(a) : b[i] = Event(from + i) /\ a[i].kind # "event"
  PROVE  Seqs(Paired(a, b)) = (from + 1)..(from + Len(a)) /\ Once(Paired(a, b))
<1> DEFINE n == Len(a)
           r == Paired(a, b)
<1>0. n \in Nat
  OBVIOUS
<1>a. /\ DOMAIN r = 1..(2 * n)
      /\ \A i \in 1..n : /\ 2 * i - 1 \in 1..(2 * n) /\ 2 * i \in 1..(2 * n)
                         /\ r[2 * i - 1] = a[i] /\ r[2 * i] = b[i]
      /\ \A k \in 1..(2 * n) : \E i \in 1..n : k = 2 * i - 1 \/ k = 2 * i
  BY PairedIs
<1>1. /\ DOMAIN r = 1..(2 * n) /\ n \in Nat
      /\ \A i \in 1..n : /\ 2 * i - 1 \in DOMAIN r /\ 2 * i \in DOMAIN r
                         /\ r[2 * i - 1] = a[i] /\ r[2 * i] = b[i]
      /\ \A k \in DOMAIN r : \E i \in 1..n : k = 2 * i - 1 \/ k = 2 * i
  BY <1>0, <1>a
<1>2. \A i \in 1..n : Event(from + i).kind = "event" /\ Event(from + i).seq = from + i
  BY DEF Event
<1>3. \/ \A i \in 1..n : a[i] = Event(from + i) /\ b[i].kind # "event"
      \/ \A i \in 1..n : b[i] = Event(from + i) /\ a[i].kind # "event"
  OBVIOUS
<1> HIDE DEF n, r
<1>4. PICK odd \in BOOLEAN :
        /\ \A i \in 1..n : LET k == IF odd THEN 2 * i - 1 ELSE 2 * i
                           IN k \in EventsAt(r) /\ r[k].seq = from + i
        /\ \A k \in EventsAt(r) : \E i \in 1..n : /\ k = IF odd THEN 2 * i - 1 ELSE 2 * i
                                                  /\ r[k].seq = from + i
  <2>1. CASE \A i \in 1..n : a[i] = Event(from + i) /\ b[i].kind # "event"
    <3>1. ASSUME NEW i \in 1..n PROVE 2 * i - 1 \in EventsAt(r) /\ r[2 * i - 1].seq = from + i
      <4>1. 2 * i - 1 \in DOMAIN r /\ r[2 * i - 1] = a[i]
        BY <1>1
      <4> QED BY <1>2, <2>1, <4>1 DEF EventsAt
    <3>2. ASSUME NEW k \in EventsAt(r) PROVE \E i \in 1..n : k = 2 * i - 1 /\ r[k].seq = from + i
      <4>1. PICK i \in 1..n : k = 2 * i - 1 \/ k = 2 * i
        BY <1>1 DEF EventsAt
      <4>2. r[2 * i] = b[i] /\ r[k].kind = "event"
        BY <1>1 DEF EventsAt
      <4>3. k # 2 * i
        BY <2>1, <4>2
      <4> QED BY <3>1, <4>1, <4>3
    <3> QED BY <3>1, <3>2
  <2>2. CASE \A i \in 1..n : b[i] = Event(from + i) /\ a[i].kind # "event"
    <3>1. ASSUME NEW i \in 1..n PROVE 2 * i \in EventsAt(r) /\ r[2 * i].seq = from + i
      <4>1. 2 * i \in DOMAIN r /\ r[2 * i] = b[i]
        BY <1>1
      <4> QED BY <1>2, <2>2, <4>1 DEF EventsAt
    <3>2. ASSUME NEW k \in EventsAt(r) PROVE \E i \in 1..n : k = 2 * i /\ r[k].seq = from + i
      <4>1. PICK i \in 1..n : k = 2 * i - 1 \/ k = 2 * i
        BY <1>1 DEF EventsAt
      <4>2. r[2 * i - 1] = a[i] /\ r[k].kind = "event"
        BY <1>1 DEF EventsAt
      <4>3. k # 2 * i - 1
        BY <2>2, <4>2
      <4> QED BY <3>1, <4>1, <4>3
    <3> QED BY <3>1, <3>2
  <2> QED BY <1>3, <2>1, <2>2
<1>5. Once(r)
  <2>1. SUFFICES ASSUME NEW k \in EventsAt(r), NEW l \in EventsAt(r), r[k].seq = r[l].seq PROVE k = l
    BY DEF Once
  <2>2. PICK i \in 1..n : k = (IF odd THEN 2 * i - 1 ELSE 2 * i) /\ r[k].seq = from + i
    BY <1>4
  <2>3. PICK j \in 1..n : l = (IF odd THEN 2 * j - 1 ELSE 2 * j) /\ r[l].seq = from + j
    BY <1>4
  <2>4. i = j
    BY <2>1, <2>2, <2>3
  <2> QED BY <2>2, <2>3, <2>4
<1>6. ASSUME NEW x \in Seqs(r) PROVE x \in (from + 1)..(from + n)
  <2>1. PICK k \in EventsAt(r) : r[k].seq = x
    BY DEF Seqs
  <2>2. PICK i \in 1..n : r[k].seq = from + i
    BY <1>4
  <2> QED BY <1>1, <2>1, <2>2
<1>7. ASSUME NEW x \in (from + 1)..(from + n) PROVE x \in Seqs(r)
  <2>1. x - from \in 1..n /\ from + (x - from) = x
    BY <1>1
  <2>2. \E k \in EventsAt(r) : r[k].seq = from + (x - from)
    BY <1>4, <2>1
  <2> QED BY <2>1, <2>2 DEF Seqs
<1> QED BY <1>5, <1>6, <1>7 DEF n, r

(* One of the two lists speaks of players, the other of events.            *)
LEMMA PairedSpeaks ==
  ASSUME NEW a \in Seq(Message), NEW b \in Seq(Message), Len(a) = Len(b), NEW P, NEW now,
         \/ Speaks(a, P, now) /\ \A i \in 1..Len(a) : b[i].kind = "event"
         \/ Speaks(b, P, now) /\ \A i \in 1..Len(a) : a[i].kind = "event"
  PROVE  Speaks(Paired(a, b), P, now)
<1> DEFINE n == Len(a)
           r == Paired(a, b)
<1>0. DOMAIN a = 1..n /\ DOMAIN b = 1..n
  OBVIOUS
<1>a. /\ DOMAIN r = 1..(2 * n)
      /\ \A i \in 1..n : /\ 2 * i - 1 \in 1..(2 * n) /\ 2 * i \in 1..(2 * n)
                         /\ r[2 * i - 1] = a[i] /\ r[2 * i] = b[i]
      /\ \A k \in 1..(2 * n) : \E i \in 1..n : k = 2 * i - 1 \/ k = 2 * i
  BY PairedIs
<1>1. /\ DOMAIN a = 1..n /\ DOMAIN b = 1..n
      /\ \A i \in 1..n : /\ 2 * i - 1 \in DOMAIN r /\ 2 * i \in DOMAIN r
                         /\ r[2 * i - 1] = a[i] /\ r[2 * i] = b[i]
      /\ \A k \in DOMAIN r : \E i \in 1..n : k = 2 * i - 1 \/ k = 2 * i
  BY <1>0, <1>a
<1>2. \/ Speaks(a, P, now) /\ \A i \in 1..n : b[i].kind = "event"
      \/ Speaks(b, P, now) /\ \A i \in 1..n : a[i].kind = "event"
  OBVIOUS
<1> HIDE DEF n, r
<1>3. ASSUME NEW k \in DOMAIN r, NEW p \in Player, About(r[k], p) PROVE r[k] = Truth(p, now)
  <2>1. PICK i \in 1..n : k = 2 * i - 1 \/ k = 2 * i
    BY <1>1
  <2>2. r[k] = a[i] \/ r[k] = b[i]
    BY <1>1, <2>1
  <2> QED BY <1>1, <1>2, <1>3, <2>2 DEF Speaks, About
<1>4. ASSUME NEW p \in P PROVE ~Silent(r, p)
  BY <1>1, <1>2 DEF Speaks, Silent
<1> QED BY <1>3, <1>4 DEF Speaks, r

(* A list of rows, and of departures.                                      *)
LEMMA RowsSpeak ==
  ASSUME NEW now \in Rosters, NEW P \in SUBSET (DOMAIN now)
  PROVE  LET s == SetToSeq(P)
             rows == [i \in 1..Len(s) |-> RowMsg(s[i], now[s[i]])]
         IN  /\ rows \in Seq(Message) /\ Len(rows) = Len(s) /\ Len(s) \in Nat
             /\ \A i \in 1..Len(s) : rows[i].kind = "row"
             /\ Speaks(rows, P, now)
<1> DEFINE s == SetToSeq(P)
           rows == [i \in 1..Len(s) |-> RowMsg(s[i], now[s[i]])]
<1>1. DOMAIN now \subseteq Player /\ now \in [DOMAIN now -> Row]
  BY RosterIs
<1>2. IsFiniteSet(P)
  BY <1>1, FS_Subset, AdminAssumption
<1>3. /\ Len(s) \in Nat /\ \A i \in 1..Len(s) : s[i] \in P
      /\ \A x \in P : \E i \in 1..Len(s) : s[i] = x
  BY <1>2, Listed
<1> HIDE DEF s
<1>4. \A i \in 1..Len(s) : /\ RowMsg(s[i], now[s[i]]) \in Message
                           /\ rows[i] = Truth(s[i], now) /\ rows[i].kind = "row" /\ rows[i].id = s[i]
  BY <1>1, <1>3, MessageIs DEF Truth
<1>5. rows \in Seq(Message) /\ Len(rows) = Len(s) /\ DOMAIN rows = 1..Len(s)
  BY <1>3, <1>4
<1> HIDE DEF rows
<1>6. ASSUME NEW k \in DOMAIN rows, NEW p \in Player, About(rows[k], p) PROVE rows[k] = Truth(p, now)
  BY <1>4, <1>5, <1>6 DEF About
<1>7. ASSUME NEW p \in P PROVE ~Silent(rows, p)
  <2>1. PICK i \in 1..Len(s) : s[i] = p
    BY <1>3
  <2> QED BY <1>4, <1>5, <2>1 DEF Silent, About
<1> QED BY <1>3, <1>4, <1>5, <1>6, <1>7 DEF Speaks, rows, s

LEMMA GoneSpeak ==
  ASSUME NEW now \in Rosters, NEW P \in SUBSET Player, P \cap DOMAIN now = {}
  PROVE  LET s == SetToSeq(P)
             gone == [i \in 1..Len(s) |-> Gone(s[i])]
         IN  /\ gone \in Seq(Message) /\ Len(gone) = Len(s) /\ Len(s) \in Nat
             /\ \A i \in 1..Len(s) : gone[i].kind = "gone"
             /\ Speaks(gone, P, now)
<1> DEFINE s == SetToSeq(P)
           gone == [i \in 1..Len(s) |-> Gone(s[i])]
<1>2. IsFiniteSet(P)
  BY FS_Subset, AdminAssumption
<1>3. /\ Len(s) \in Nat /\ \A i \in 1..Len(s) : s[i] \in P
      /\ \A x \in P : \E i \in 1..Len(s) : s[i] = x
  BY <1>2, Listed
<1> HIDE DEF s
<1>4. \A i \in 1..Len(s) : /\ Gone(s[i]) \in Message
                           /\ gone[i] = Truth(s[i], now) /\ gone[i].kind = "gone" /\ gone[i].id = s[i]
  BY <1>3, MessageIs DEF Truth
<1>5. gone \in Seq(Message) /\ Len(gone) = Len(s) /\ DOMAIN gone = 1..Len(s)
  BY <1>3, <1>4
<1> HIDE DEF gone
<1>6. ASSUME NEW k \in DOMAIN gone, NEW p \in Player, About(gone[k], p) PROVE gone[k] = Truth(p, now)
  BY <1>4, <1>5, <1>6 DEF About
<1>7. ASSUME NEW p \in P PROVE ~Silent(gone, p)
  <2>1. PICK i \in 1..Len(s) : s[i] = p
    BY <1>3
  <2> QED BY <1>4, <1>5, <2>1 DEF Silent, About
<1> QED BY <1>3, <1>4, <1>5, <1>6, <1>7 DEF Speaks, gone, s

LEMMA EventList ==
  ASSUME NEW n \in Nat, NEW from \in Nat
  PROVE  LET es == [i \in 1..n |-> Event(from + i)]
         IN  es \in Seq(Message) /\ Len(es) = n /\ \A i \in 1..n : es[i] = Event(from + i) /\ es[i].kind = "event"
<1>1. \A i \in 1..n : Event(from + i) \in Message /\ Event(from + i).kind = "event"
  <2>1. \A i \in 1..n : from + i \in Nat
    OBVIOUS
  <2> QED BY <2>1, MessageIs
<1> QED BY <1>1

-----------------------------------------------------------------------------
(* One session and the manager.                                            *)

Control == [kind : {"ack"}, token : Nat] \cup [kind : {"reject"}]
Lanes == {f \in [Lane -> Seq(Message) \cup Seq(Control)] :
            /\ f["gameplay"] \in Seq(Message) /\ f["bulk"] \in Seq(Message)
            /\ f["control"] \in Seq(Control)}
Session == [token : Nat, heard : BOOLEAN, sent : Lanes, fresh : BOOLEAN, replayed : Rosters]
Manager == [state : {"disconnected", "connecting", "connected", "rejected", "timedOut"},
            at : SUBSET Endpoint, used : SUBSET Endpoint, hello : {"none", "good", "bad"},
            token : Nat, got : [Lane -> Nat], roster : Rosters, log : Seq(Nat),
            taken : Seq(Nat)]

(* What the session has sent on a lane and the manager has yet to take.    *)
Rest(s, c, l) == SubSeq(s.sent[l], c.got[l] + 1, Len(s.sent[l]))

(* What the manager has taken, its mirror and what waits for it tell the   *)
(* feed up to last and the roster now.                                     *)
Carried(s, c, last, now) ==
  /\ c.got["gameplay"] <= Len(s.sent["gameplay"]) /\ c.got["bulk"] <= Len(s.sent["bulk"])
  /\ FeedOf(c.taken, Rest(s, c, "gameplay"), Rest(s, c, "bulk"), last, Range(Ringed(last)))
  /\ MirrorOf(c.roster, Rest(s, c, "gameplay"), Rest(s, c, "bulk"), s.replayed, now)

(* The manager's own: its first session, which it knows by the address or  *)
(* by the token.                                                           *)
Own(e, s, c) == /\ s.token # 0 /\ s.fresh
                /\ (e \in c.at /\ c.token = 0) \/ s.token = c.token

Blank(c) == /\ c.got["gameplay"] = 0 /\ c.got["bulk"] = 0
            /\ c.taken = <<>> /\ c.roster = <<>>

SessionOK(e, s, c, last, now) ==
  /\ s \in Session /\ e \in c.used
  /\ \A k \in DOMAIN s.sent["control"] :
       s.sent["control"][k].kind = "ack" => s.token # 0 /\ s.sent["control"][k].token = s.token
  /\ c.token # 0 /\ e \in c.at => s.token = c.token
  /\ s.token = 0 => /\ s.sent["gameplay"] = <<>> /\ s.sent["bulk"] = <<>>
                    /\ e \in c.at /\ s.fresh => Blank(c)
  /\ Own(e, s, c) => Carried(s, c, last, now)

ManagerOK(c) ==
  /\ c \in Manager /\ c.at \subseteq c.used /\ (\A e, f \in c.at : e = f)
  /\ (\A l \in Lane : c.got[l] = 0) => c.taken = <<>> /\ c.roster = <<>>
  /\ c.log = Newest(c.taken)

FeedInv ==
  /\ roster \in Rosters /\ eventSeq \in Nat /\ ring = Ringed(eventSeq)
  /\ ManagerOK(manager)
  /\ \A e \in DOMAIN sessions : SessionOK(e, sessions[e], manager, eventSeq, roster)

-----------------------------------------------------------------------------
LEMMA NoRoster == <<>> \in Rosters
<1>1. DOMAIN <<>> \subseteq Player /\ <<>> \in [DOMAIN <<>> -> Row]
  OBVIOUS
<1> QED BY <1>1, RosterIs

LEMMA SessionIs ==
  ASSUME NEW s \in Session
  PROVE  /\ s.token \in Nat /\ s.heard \in BOOLEAN /\ s.fresh \in BOOLEAN /\ s.replayed \in Rosters
         /\ s.sent \in Lanes /\ DOMAIN s.sent = Lane
         /\ s.sent["gameplay"] \in Seq(Message) /\ s.sent["bulk"] \in Seq(Message)
         /\ s.sent["control"] \in Seq(Control)
BY DEF Session, Lanes

(* What the server's operators make of a session.                          *)
LEMMA PushIs ==
  ASSUME NEW s \in Session, NEW msgs \in Seq(Message)
  PROVE  LET t == Push(s, msgs)
         IN  /\ t \in Session /\ t.token = s.token /\ t.fresh = s.fresh /\ t.replayed = s.replayed
             /\ t.heard = s.heard
             /\ t.sent["gameplay"] = s.sent["gameplay"] \o msgs
             /\ t.sent["bulk"] = s.sent["bulk"] /\ t.sent["control"] = s.sent["control"]
<1> DEFINE lanes == [s.sent EXCEPT !["gameplay"] = s.sent["gameplay"] \o msgs]
<1>1. Push(s, msgs) = [s EXCEPT !.sent = lanes]
  BY SessionIs DEF Push, Session
<1>2. s.sent["gameplay"] \o msgs \in Seq(Message)
  BY SessionIs
<1>3. lanes \in Lanes /\ lanes["gameplay"] = s.sent["gameplay"] \o msgs
      /\ lanes["bulk"] = s.sent["bulk"] /\ lanes["control"] = s.sent["control"]
  BY <1>2, SessionIs DEF Lanes, Lane
<1> HIDE DEF lanes
<1> QED BY <1>1, <1>3 DEF Session

LEMMA ReplyIs ==
  ASSUME NEW s \in Session, NEW m \in Control
  PROVE  LET t == Reply(s, m)
         IN  /\ t \in Session /\ t.token = s.token /\ t.fresh = s.fresh /\ t.replayed = s.replayed
             /\ t.heard = s.heard
             /\ t.sent["gameplay"] = s.sent["gameplay"] /\ t.sent["bulk"] = s.sent["bulk"]
             /\ t.sent["control"] = Append(s.sent["control"], m)
<1> DEFINE lanes == [s.sent EXCEPT !["control"] = Append(s.sent["control"], m)]
<1>1. Reply(s, m) = [s EXCEPT !.sent = lanes]
  BY SessionIs DEF Reply, Session
<1>2. Append(s.sent["control"], m) \in Seq(Control)
  BY SessionIs
<1>3. lanes \in Lanes /\ lanes["control"] = Append(s.sent["control"], m)
      /\ lanes["bulk"] = s.sent["bulk"] /\ lanes["gameplay"] = s.sent["gameplay"]
  BY <1>2, SessionIs DEF Lanes, Lane
<1> HIDE DEF lanes
<1> QED BY <1>1, <1>3 DEF Session

(* The replay: the ring's events, and a row of each on the roster.         *)
Events(r) == [i \in 1..Len(r) |-> Event(r[i])]
Rows(now) == LET ids == SetToSeq(DOMAIN now)
             IN [i \in 1..Len(ids) |-> RowMsg(ids[i], now[ids[i]])]

LEMMA ReplayIs ==
  ASSUME NEW s \in Session, s.sent["bulk"] = <<>>, NEW k \in Nat, roster \in Rosters,
         Events(ring) \in Seq(Message), Rows(roster) \in Seq(Message)
  PROVE  LET t == AckAndReplay(s, k)
         IN  /\ t \in Session /\ t.token = k /\ t.fresh = s.fresh /\ t.replayed = roster
             /\ t.sent["gameplay"] = s.sent["gameplay"]
             /\ t.sent["bulk"] = Events(ring) \o Rows(roster)
             /\ t.sent["control"] = Append(s.sent["control"], [kind |-> "ack", token |-> k])
<1> DEFINE r == Reply(s, [kind |-> "ack", token |-> k])
           b == r.sent["bulk"] \o Events(ring) \o Rows(roster)
           lanes == [r.sent EXCEPT !["bulk"] = b]
<1>1. [kind |-> "ack", token |-> k] \in Control
  BY DEF Control
<1>2. /\ r \in Session /\ r.fresh = s.fresh /\ r.heard = s.heard
      /\ r.sent["gameplay"] = s.sent["gameplay"] /\ r.sent["bulk"] = s.sent["bulk"]
      /\ r.sent["control"] = Append(s.sent["control"], [kind |-> "ack", token |-> k])
  BY <1>1, ReplyIs
<1>3. AckAndReplay(s, k) = [r EXCEPT !.token = k, !.replayed = roster,
                                     !.sent.bulk = @ \o Events(ring) \o Rows(roster)]
  BY DEF AckAndReplay, Events, Rows
<1> HIDE DEF r
<1>4. AckAndReplay(s, k) = [r EXCEPT !.token = k, !.replayed = roster, !.sent = lanes]
  BY <1>2, <1>3, SessionIs DEF Session
<1>5. b \in Seq(Message) /\ b = Events(ring) \o Rows(roster)
  BY <1>2, SessionIs
<1> HIDE DEF b
<1>6. /\ lanes \in Lanes /\ lanes["bulk"] = b
      /\ lanes["control"] = r.sent["control"] /\ lanes["gameplay"] = r.sent["gameplay"]
  BY <1>2, <1>5, SessionIs DEF Lanes, Lane
<1> HIDE DEF lanes
<1>7. /\ AckAndReplay(s, k) \in Session /\ AckAndReplay(s, k).token = k
      /\ AckAndReplay(s, k).fresh = r.fresh /\ AckAndReplay(s, k).replayed = roster
      /\ AckAndReplay(s, k).sent = lanes
  BY <1>2, <1>4, <1>6 DEF Session
<1> QED BY <1>2, <1>5, <1>6, <1>7

-----------------------------------------------------------------------------
(* What a message makes of the manager.                                    *)
LEMMA ManagerIs ==
  ASSUME NEW c \in Manager
  PROVE  /\ c.at \subseteq Endpoint /\ c.used \subseteq Endpoint /\ c.token \in Nat
         /\ c.got \in [Lane -> Nat] /\ (\A l \in Lane : c.got[l] \in Nat)
         /\ c.roster \in Rosters /\ c.taken \in Seq(Nat) /\ c.log \in Seq(Nat)
BY DEF Manager

Took(c, l, n) == [c EXCEPT !.got[l] = n]

(* What is left of a list without its first a.                             *)
LEMMA SuffixIs ==
  ASSUME NEW S, NEW p \in Seq(S), NEW a \in Nat, a <= Len(p)
  PROVE  LET r == SubSeq(p, a + 1, Len(p))
         IN  /\ r \in Seq(S) /\ Len(r) = Len(p) - a /\ DOMAIN r = 1..(Len(p) - a)
             /\ \A i \in 1..(Len(p) - a) : r[i] = p[a + i]
<1> DEFINE r == SubSeq(p, a + 1, Len(p))
<1>1. Len(p) \in Nat /\ (\A i \in 1..Len(p) : p[i] \in S)
  OBVIOUS
<1>2. r \in Seq(S)
  BY <1>1
<1>3. Len(r) = Len(p) - a
  BY <1>1
<1>4. \A i \in 1..(Len(p) - a) : r[i] = p[a + i]
  BY <1>1
<1>5. DOMAIN r = 1..Len(r)
  BY <1>2
<1> QED BY <1>2, <1>3, <1>4, <1>5

LEMMA AlikeLists ==
  ASSUME NEW S, NEW p \in Seq(S), NEW q \in Seq(S), Len(p) = Len(q),
         \A i \in 1..Len(p) : p[i] = q[i]
  PROVE  p = q
OBVIOUS

(* The log stays the last of what was taken.                               *)
LEMMA KeptNewest ==
  /\ Newest(<<>>) = <<>>
  /\ \A q \in Seq(Nat), n \in Nat : /\ Newest(q) \in Seq(Nat)
                                    /\ Kept(Append(q, n)) \in Seq(Nat)
                                    /\ Kept(Append(Newest(q), n)) = Newest(Append(q, n))
<1>1. LogSize \in Nat \ {0}
  BY AdminAssumption
<1>2. Newest(<<>>) = <<>>
  BY <1>1 DEF Newest
<1>3. ASSUME NEW q \in Seq(Nat), NEW n \in Nat
      PROVE  /\ Newest(q) \in Seq(Nat) /\ Kept(Append(q, n)) \in Seq(Nat)
             /\ Kept(Append(Newest(q), n)) = Newest(Append(q, n))
  <2>1. PICK from \in Nat : /\ from <= Len(q) /\ Newest(q) = SubSeq(q, from + 1, Len(q))
                            /\ Len(q) > LogSize => from = Len(q) - LogSize
                            /\ Len(q) <= LogSize => from = 0
    <3>1. Len(q) \in Nat
      OBVIOUS
    <3>2. CASE Len(q) > LogSize
      <4>1. Len(q) - LogSize \in Nat /\ Len(q) - LogSize <= Len(q)
        BY <1>1, <3>1, <3>2
      <4>2. Newest(q) = SubSeq(q, (Len(q) - LogSize) + 1, Len(q))
        BY <3>2 DEF Newest
      <4>3. ~(Len(q) <= LogSize)
        BY <1>1, <3>1, <3>2
      <4> QED BY <4>1, <4>2, <4>3
    <3>3. CASE ~(Len(q) > LogSize)
      BY <1>1, <3>1, <3>3 DEF Newest
    <3> QED BY <3>2, <3>3
  <2> DEFINE old == Newest(q)
  <2>2. /\ old \in Seq(Nat) /\ Len(old) = Len(q) - from
        /\ \A i \in 1..(Len(q) - from) : old[i] = q[from + i]
    BY <2>1, SuffixIs
  <2> HIDE DEF old
  <2> DEFINE longer == Append(old, n)
             more == Append(q, n)
  <2>3. /\ more \in Seq(Nat) /\ Len(more) = Len(q) + 1 /\ more[Len(q) + 1] = n
        /\ (\A i \in 1..Len(q) : more[i] = q[i]) /\ Len(q) \in Nat
    OBVIOUS
  <2>4. Kept(more) \in Seq(Nat)
    BY <1>1, <2>3 DEF Kept
  <2>5. /\ longer \in Seq(Nat) /\ Len(longer) = Len(old) + 1 /\ longer[Len(old) + 1] = n
        /\ \A i \in 1..Len(old) : longer[i] = old[i]
    BY <2>2
  <2> HIDE DEF more, longer
  <2>6. Len(longer) = Len(more) - from /\ from + Len(longer) = Len(q) + 1
    BY <2>1, <2>2, <2>3, <2>5
  <2>7. ASSUME NEW i \in 1..Len(longer) PROVE longer[i] = more[from + i]
    <3>1. CASE i = Len(longer)
      BY <2>2, <2>3, <2>5, <2>6, <3>1
    <3>2. CASE i # Len(longer)
      <4>1. /\ Len(q) \in Nat /\ Len(longer) \in Nat /\ Len(old) = Len(longer) - 1
            /\ Len(old) = Len(q) - from /\ from <= Len(q)
        BY <2>1, <2>2, <2>3, <2>5, <2>6
      <4>2. i \in 1..Len(old) /\ i \in 1..(Len(q) - from) /\ from + i \in 1..Len(q)
        BY <2>7, <3>2, <4>1
      <4> QED BY <2>2, <2>3, <2>5, <4>2
    <3> QED BY <3>1, <3>2
  <2>8. CASE Len(q) >= LogSize
    <3>1. /\ from = Len(q) - LogSize /\ Len(longer) = LogSize + 1
          /\ from + 1 \in Nat /\ from + 1 <= Len(more) /\ Len(more) > LogSize
          /\ Len(more) - LogSize = from + 1 /\ Len(more) - (from + 1) = LogSize
      <4>1. from = Len(q) - LogSize
        BY <1>1, <2>1, <2>3, <2>8
      <4>2. Len(q) \in Nat /\ Len(more) = Len(q) + 1 /\ Len(longer) = Len(more) - from
        BY <2>3, <2>6
      <4> QED BY <1>1, <2>8, <4>1, <4>2
    <3> DEFINE a == Tail(longer)
               b == SubSeq(more, (from + 1) + 1, Len(more))
    <3>2. longer # <<>>
      BY <1>1, <3>1
    <3>3. a \in Seq(Nat) /\ Len(a) = LogSize /\ (\A i \in 1..LogSize : a[i] = longer[i + 1])
      BY <1>1, <2>5, <3>1, <3>2, HeadAndTail
    <3>4. /\ b \in Seq(Nat) /\ Len(b) = LogSize
          /\ \A i \in 1..LogSize : b[i] = more[(from + 1) + i]
      <4>1. more \in Seq(Nat) /\ from + 1 \in Nat /\ from + 1 <= Len(more)
        BY <2>3, <3>1
      <4>2. /\ b \in Seq(Nat) /\ Len(b) = Len(more) - (from + 1)
            /\ \A i \in 1..(Len(more) - (from + 1)) : b[i] = more[(from + 1) + i]
        BY <4>1, SuffixIs
      <4> HIDE DEF b
      <4> QED BY <3>1, <4>2
    <3>5. Kept(longer) = a
      BY <1>1, <3>1 DEF Kept
    <3>6. Newest(more) = b
      BY <3>1 DEF Newest
    <3> HIDE DEF a, b
    <3>7. ASSUME NEW i \in 1..LogSize PROVE a[i] = b[i]
      <4>1. i + 1 \in 1..Len(longer) /\ from + (i + 1) = (from + 1) + i
        BY <1>1, <3>1
      <4> QED BY <2>7, <3>3, <3>4, <4>1
    <3>8. a = b
      BY <3>3, <3>4, <3>7, AlikeLists
    <3> QED BY <2>2, <2>3, <2>4, <3>5, <3>6, <3>8 DEF longer, more, old
  <2>9. CASE Len(q) < LogSize
    <3>1. from = 0 /\ Len(longer) = Len(more) /\ ~(Len(more) > LogSize)
      BY <1>1, <2>1, <2>3, <2>6, <2>9
    <3>2. Kept(longer) = longer
      BY <3>1 DEF Kept
    <3> DEFINE b == SubSeq(more, 0 + 1, Len(more))
    <3>3. Newest(more) = b
      BY <3>1 DEF Newest
    <3>4. /\ b \in Seq(Nat) /\ Len(b) = Len(more)
          /\ \A i \in 1..Len(more) : b[i] = more[0 + i]
      <4>1. 0 \in Nat /\ 0 <= Len(more) /\ Len(more) - 0 = Len(more)
        BY <2>3
      <4> QED BY <2>3, <4>1, SuffixIs
    <3> HIDE DEF b
    <3>5. longer = b
      BY <2>5, <2>7, <3>1, <3>4, AlikeLists
    <3> QED BY <2>2, <2>4, <3>2, <3>3, <3>5 DEF longer, more, old
  <2> QED BY <1>1, <2>3, <2>8, <2>9
<1> QED BY <1>2, <1>3

LEMMA AppliedFeed ==
  ASSUME NEW c \in Manager, NEW l \in Lane, NEW n \in Nat, NEW m \in Message
  PROVE  LET d == Applied(Took(c, l, n), m)
         IN  /\ d \in Manager /\ d.at = c.at /\ d.used = c.used /\ d.token = c.token
             /\ d.got[l] = n /\ (\A k \in Lane \ {l} : d.got[k] = c.got[k])
             /\ d.taken = IF m.kind = "event" THEN Append(c.taken, m.seq) ELSE c.taken
             /\ d.log = IF m.kind = "event" THEN Kept(Append(c.log, m.seq)) ELSE c.log
             /\ d.roster = Shown(c.roster, m)
<1> DEFINE g == [c.got EXCEPT ![l] = n]
           c1 == Took(c, l, n)
<1>1. c1 = [c EXCEPT !.got = g] /\ g \in [Lane -> Nat] /\ g[l] = n
      /\ (\A k \in Lane \ {l} : g[k] = c.got[k])
  BY ManagerIs DEF Manager, Took
<1> HIDE DEF g
<1>2. /\ c1 \in Manager /\ c1.got = g /\ c1.at = c.at /\ c1.used = c.used /\ c1.token = c.token
      /\ c1.taken = c.taken /\ c1.log = c.log /\ c1.roster = c.roster
  BY <1>1 DEF Manager
<1> HIDE DEF c1
<1>3. Shown(c.roster, m) \in Rosters
  BY ManagerIs, ShownIs
<1>4. CASE m.kind = "event"
  <2> DEFINE more == Append(c.taken, m.seq)
             kept == Kept(Append(c.log, m.seq))
  <2>1. more \in Seq(Nat) /\ kept \in Seq(Nat)
    <3>1. m.seq \in Nat /\ c.taken \in Seq(Nat) /\ c.log \in Seq(Nat)
      BY <1>4, ManagerIs, MessageIs
    <3>2. kept \in Seq(Nat)
      BY <3>1, KeptNewest
    <3> QED BY <3>1, <3>2
  <2>2. Applied(c1, m) = [c1 EXCEPT !.taken = more, !.log = kept] /\ Shown(c.roster, m) = c.roster
    BY <1>2, <1>4 DEF Applied, Shown, Logged
  <2> HIDE DEF more, kept
  <2>3. LET d == Applied(c1, m)
        IN  /\ d \in Manager /\ d.at = c.at /\ d.used = c.used /\ d.token = c.token
            /\ d.got = g /\ d.taken = more /\ d.log = kept /\ d.roster = c.roster
    BY <1>2, <2>1, <2>2 DEF Manager
  <2> QED BY <1>1, <1>4, <2>2, <2>3 DEF more, kept, c1
<1>5. CASE m.kind # "event"
  <2> DEFINE shown == Shown(c.roster, m)
  <2>1. Applied(c1, m) = [c1 EXCEPT !.roster = shown]
    BY <1>2, <1>5, MessageIs DEF Applied, Shown
  <2> HIDE DEF shown
  <2>2. LET d == Applied(c1, m)
        IN  /\ d \in Manager /\ d.at = c.at /\ d.used = c.used /\ d.token = c.token
            /\ d.got = g /\ d.taken = c.taken /\ d.log = c.log /\ d.roster = shown
    BY <1>2, <1>3, <2>1 DEF Manager, shown
  <2> QED BY <1>1, <1>5, <2>2 DEF shown, c1
<1> QED BY <1>4, <1>5

LEMMA AppliedControl ==
  ASSUME NEW c \in Manager, NEW n \in Nat, NEW m \in Control
  PROVE  LET d == Applied(Took(c, "control", n), m)
         IN  /\ d \in Manager /\ d.at = c.at /\ d.used = c.used
             /\ d.token = IF m.kind = "ack" THEN m.token ELSE c.token
             /\ d.got["control"] = n
             /\ d.got["gameplay"] = c.got["gameplay"] /\ d.got["bulk"] = c.got["bulk"]
             /\ d.taken = c.taken /\ d.log = c.log /\ d.roster = c.roster
<1> DEFINE g == [c.got EXCEPT !["control"] = n]
           c1 == Took(c, "control", n)
<1>1. c1 = [c EXCEPT !.got = g] /\ g \in [Lane -> Nat] /\ g["control"] = n
      /\ g["gameplay"] = c.got["gameplay"] /\ g["bulk"] = c.got["bulk"]
  BY ManagerIs DEF Manager, Lane, Took
<1> HIDE DEF g
<1>2. /\ c1 \in Manager /\ c1.got = g /\ c1.at = c.at /\ c1.used = c.used /\ c1.token = c.token
      /\ c1.taken = c.taken /\ c1.log = c.log /\ c1.roster = c.roster
  BY <1>1 DEF Manager
<1> HIDE DEF c1
<1>3. CASE m.kind = "ack"
  <2>1. m.token \in Nat
    BY <1>3 DEF Control
  <2>2. Applied(c1, m) = [c1 EXCEPT !.state = "connected", !.token = m.token, !.hello = "none"]
    BY <1>3 DEF Applied
  <2>3. LET d == Applied(c1, m)
        IN  /\ d \in Manager /\ d.at = c.at /\ d.used = c.used /\ d.token = m.token
            /\ d.got = g /\ d.taken = c.taken /\ d.log = c.log /\ d.roster = c.roster
    BY <1>2, <2>1, <2>2 DEF Manager
  <2> QED BY <1>1, <1>3, <2>3 DEF c1
<1>4. CASE m.kind # "ack"
  <2>1. Applied(c1, m) = [c1 EXCEPT !.state = "rejected", !.hello = "none"]
    BY <1>4 DEF Applied, Control
  <2>2. LET d == Applied(c1, m)
        IN  /\ d \in Manager /\ d.at = c.at /\ d.used = c.used /\ d.token = c.token
            /\ d.got = g /\ d.taken = c.taken /\ d.log = c.log /\ d.roster = c.roster
    BY <1>2, <2>1 DEF Manager
  <2> QED BY <1>1, <1>4, <2>2 DEF c1
<1> QED BY <1>3, <1>4

-----------------------------------------------------------------------------
(* What waits on a lane.                                                   *)

LEMMA SubSeqIs ==
  ASSUME NEW p \in Seq(Message), NEW a \in Nat, a <= Len(p)
  PROVE  LET r == SubSeq(p, a + 1, Len(p))
         IN  /\ r \in Seq(Message) /\ Len(r) = Len(p) - a /\ DOMAIN r = 1..(Len(p) - a)
             /\ \A i \in 1..(Len(p) - a) : r[i] = p[a + i]
BY SuffixIs

LEMMA SameLists ==
  ASSUME NEW p \in Seq(Message), NEW q \in Seq(Message), Len(p) = Len(q),
         \A i \in 1..Len(p) : p[i] = q[i]
  PROVE  p = q
OBVIOUS

LEMMA SubSeqMore ==
  ASSUME NEW p \in Seq(Message), NEW q \in Seq(Message), NEW a \in Nat, a <= Len(p)
  PROVE  a <= Len(p \o q) /\ SubSeq(p \o q, a + 1, Len(p \o q)) = SubSeq(p, a + 1, Len(p)) \o q
<1> DEFINE w == p \o q
           r == SubSeq(p, a + 1, Len(p))
           x == SubSeq(w, a + 1, Len(w))
           y == r \o q
<1>1. /\ w \in Seq(Message) /\ Len(w) = Len(p) + Len(q) /\ Len(p) \in Nat /\ Len(q) \in Nat
      /\ \A k \in 1..Len(p) : w[k] = p[k]
      /\ \A k \in 1..Len(q) : w[Len(p) + k] = q[k]
  BY Joined
<1> HIDE DEF w
<1>2. a <= Len(w)
  BY <1>1
<1>3. /\ r \in Seq(Message) /\ Len(r) = Len(p) - a
      /\ \A i \in 1..(Len(p) - a) : r[i] = p[a + i]
  BY SubSeqIs
<1>4. /\ x \in Seq(Message) /\ Len(x) = Len(w) - a
      /\ \A i \in 1..(Len(w) - a) : x[i] = w[a + i]
  BY <1>1, <1>2, SubSeqIs
<1> HIDE DEF r, x
<1>a. r \in Seq(Message)
  BY <1>3
<1>5. /\ y \in Seq(Message) /\ Len(y) = Len(r) + Len(q)
      /\ \A k \in 1..Len(r) : y[k] = r[k]
      /\ \A k \in 1..Len(q) : y[Len(r) + k] = q[k]
  BY <1>a, Joined
<1> HIDE DEF y
<1>6. Len(x) = Len(y)
  BY <1>1, <1>3, <1>4, <1>5
<1>7. ASSUME NEW i \in 1..Len(x) PROVE x[i] = y[i]
  <2>1. i \in 1..(Len(w) - a) /\ x[i] = w[a + i]
    BY <1>1, <1>4
  <2>2. CASE i \in 1..Len(r)
    <3>1. a + i \in 1..Len(p) /\ i \in 1..(Len(p) - a)
      BY <1>1, <1>3, <2>2
    <3> QED BY <1>1, <1>3, <1>5, <2>1, <2>2, <3>1
  <2>3. CASE i \notin 1..Len(r)
    <3>1. i - Len(r) \in 1..Len(q) /\ Len(r) + (i - Len(r)) = i /\ Len(p) + (i - Len(r)) = a + i
      BY <1>1, <1>3, <2>1, <2>3
    <3>2. y[i] = q[i - Len(r)] /\ w[a + i] = q[i - Len(r)]
      BY <1>1, <1>5, <3>1
    <3> QED BY <2>1, <3>2
  <2> QED BY <2>2, <2>3
<1>8. x = y
  BY <1>4, <1>5, <1>6, <1>7, SameLists
<1> QED BY <1>2, <1>8 DEF w, r, x, y

LEMMA SubSeqNext ==
  ASSUME NEW p \in Seq(Message), NEW a \in Nat, a + 1 <= Len(p)
  PROVE  LET r == SubSeq(p, a + 1, Len(p))
         IN  r # <<>> /\ Head(r) = p[a + 1] /\ Tail(r) = SubSeq(p, (a + 1) + 1, Len(p))
<1> DEFINE r == SubSeq(p, a + 1, Len(p))
           t == Tail(r)
           x == SubSeq(p, (a + 1) + 1, Len(p))
<1>0. Len(p) \in Nat /\ a + 1 \in Nat /\ a <= Len(p)
  OBVIOUS
<1>1. /\ r \in Seq(Message) /\ Len(r) = Len(p) - a
      /\ \A i \in 1..(Len(p) - a) : r[i] = p[a + i]
  BY <1>0, SubSeqIs
<1>2. /\ x \in Seq(Message) /\ Len(x) = Len(p) - (a + 1)
      /\ \A i \in 1..(Len(p) - (a + 1)) : x[i] = p[(a + 1) + i]
  BY <1>0, SubSeqIs
<1> HIDE DEF r, x
<1>3. r # <<>>
  BY <1>0, <1>1
<1>4. /\ Head(r) = r[1] /\ t \in Seq(Message) /\ Len(t) = Len(r) - 1
      /\ \A k \in 1..(Len(r) - 1) : t[k] = r[k + 1]
  BY <1>1, <1>3, HeadAndTail
<1> HIDE DEF t
<1>5. Len(t) = Len(x)
  BY <1>0, <1>1, <1>2, <1>4
<1>6. ASSUME NEW i \in 1..Len(t) PROVE t[i] = x[i]
  <2>1. i \in 1..(Len(r) - 1) /\ i \in 1..(Len(p) - (a + 1)) /\ i + 1 \in 1..(Len(p) - a)
        /\ a + (i + 1) = (a + 1) + i
    BY <1>0, <1>1, <1>4
  <2>2. t[i] = r[i + 1] /\ r[i + 1] = p[a + (i + 1)] /\ x[i] = p[(a + 1) + i]
    BY <1>1, <1>2, <1>4, <2>1
  <2> QED BY <2>1, <2>2
<1>7. t = x
  BY <1>2, <1>4, <1>5, <1>6, SameLists
<1>8. Head(r) = p[a + 1]
  BY <1>0, <1>1, <1>4
<1> QED BY <1>3, <1>7, <1>8 DEF r, t, x

LEMMA SubSeqAll ==
  ASSUME NEW p \in Seq(Message)
  PROVE  SubSeq(p, 0 + 1, Len(p)) = p
<1>1. 0 \in Nat /\ 0 <= Len(p) /\ Len(p) \in Nat
  OBVIOUS
<1>2. LET r == SubSeq(p, 0 + 1, Len(p))
      IN  /\ r \in Seq(Message) /\ Len(r) = Len(p) - 0
          /\ \A i \in 1..(Len(p) - 0) : r[i] = p[0 + i]
  BY <1>1, SubSeqIs
<1>3. \A i \in 1..Len(p) : SubSeq(p, 0 + 1, Len(p))[i] = p[i]
  BY <1>1, <1>2
<1> QED BY <1>1, <1>2, <1>3, SameLists

LEMMA RestTyped ==
  ASSUME NEW s \in Session, NEW c \in Manager, NEW l \in {"gameplay", "bulk"},
         c.got[l] <= Len(s.sent[l])
  PROVE  Rest(s, c, l) \in Seq(Message)
<1>1. s.sent[l] \in Seq(Message) /\ c.got[l] \in Nat
  BY SessionIs, ManagerIs DEF Lane
<1> QED BY <1>1, SubSeqIs DEF Rest

-----------------------------------------------------------------------------
(* A session under the server's steps.                                     *)

(* Whom the manager does not know, no event and no row concerns.           *)
LEMMA Strangers ==
  ASSUME NEW e, NEW s, NEW c, NEW last, NEW now, SessionOK(e, s, c, last, now), s.token = 0,
         NEW last2, NEW now2
  PROVE  SessionOK(e, s, c, last2, now2)
BY DEF SessionOK, Own

LEMMA PushOne ==
  ASSUME NEW e, NEW s, NEW c \in Manager, NEW last \in Nat, NEW was \in Rosters,
         SessionOK(e, s, c, last, was), s.token # 0,
         NEW n \in Nat, NEW now \in Rosters, NEW msgs \in Seq(Message),
         Seqs(msgs) = (last + 1)..(last + n), Once(msgs), NEW P, Speaks(msgs, P, now),
         \A p \in Player \ P : /\ p \in DOMAIN was <=> p \in DOMAIN now
                               /\ p \in DOMAIN now => was[p] = now[p]
  PROVE  SessionOK(e, Push(s, msgs), c, last + n, now)
<1> DEFINE t == Push(s, msgs)
<1>1. s \in Session
  BY DEF SessionOK
<1>2. /\ t \in Session /\ t.token = s.token /\ t.fresh = s.fresh /\ t.replayed = s.replayed
      /\ t.sent["gameplay"] = s.sent["gameplay"] \o msgs
      /\ t.sent["bulk"] = s.sent["bulk"] /\ t.sent["control"] = s.sent["control"]
  BY <1>1, PushIs
<1> HIDE DEF t
<1>3. ASSUME Own(e, t, c) PROVE Carried(t, c, last + n, now)
  <2>1. Carried(s, c, last, was)
    BY <1>2, <1>3 DEF Own, SessionOK
  <2>2. /\ s.sent["gameplay"] \in Seq(Message) /\ c.got["gameplay"] \in Nat
        /\ c.got["gameplay"] <= Len(s.sent["gameplay"]) /\ c.got["bulk"] <= Len(s.sent["bulk"])
    BY <1>1, <2>1, SessionIs, ManagerIs DEF Carried, Lane
  <2>3. /\ c.got["gameplay"] <= Len(t.sent["gameplay"])
        /\ Rest(t, c, "gameplay") = Rest(s, c, "gameplay") \o msgs
    BY <1>2, <2>2, SubSeqMore DEF Rest
  <2>4. Rest(t, c, "bulk") = Rest(s, c, "bulk") /\ c.got["bulk"] <= Len(t.sent["bulk"])
    BY <1>2, <2>2 DEF Rest
  <2>5. Rest(s, c, "gameplay") \in Seq(Message)
    BY <1>1, <2>2, RestTyped
  <2>6. FeedOf(c.taken, Rest(s, c, "gameplay") \o msgs, Rest(s, c, "bulk"), last + n, Range(Ringed(last + n)))
    <3>1. FeedOf(c.taken, Rest(s, c, "gameplay"), Rest(s, c, "bulk"), last, Range(Ringed(last)))
      BY <2>1 DEF Carried
    <3> QED BY <2>5, <3>1, FeedMore
  <2>7. MirrorOf(c.roster, Rest(s, c, "gameplay") \o msgs, Rest(s, c, "bulk"), s.replayed, now)
    <3>1. MirrorOf(c.roster, Rest(s, c, "gameplay"), Rest(s, c, "bulk"), s.replayed, was)
      BY <2>1 DEF Carried
    <3> QED BY <2>5, <3>1, MirrorMore
  <2> QED BY <1>2, <2>3, <2>4, <2>6, <2>7 DEF Carried
<1> QED BY <1>2, <1>3 DEF SessionOK, t

(* The manager moved, and its session with it.                             *)
LEMMA MovedOne ==
  ASSUME NEW old, NEW s, NEW c, NEW last, NEW now, SessionOK(old, s, c, last, now),
         s.token = c.token, c.token # 0, NEW e \in c.used
  PROVE  SessionOK(e, s, c, last, now)
BY DEF SessionOK, Own

(* A shell, new or heard again, and a refusal.                             *)
LEMMA ShellOne ==
  ASSUME NEW e, NEW s \in Session, NEW c, NEW last, NEW now, s.token = 0, e \in c.used, c.token = 0,
         s.sent["gameplay"] = <<>>, s.sent["bulk"] = <<>>, s.fresh /\ e \in c.at => Blank(c),
         \A k \in DOMAIN s.sent["control"] : s.sent["control"][k].kind # "ack"
  PROVE  SessionOK(e, s, c, last, now)
BY DEF SessionOK, Own

(* What the replay starts with.                                            *)
LEMMA ReplayStarts ==
  ASSUME NEW last \in Nat, NEW now \in Rosters
  PROVE  /\ Events(Ringed(last)) \in Seq(Message) /\ Rows(now) \in Seq(Message)
         /\ FeedOf(<<>>, <<>>, Events(Ringed(last)) \o Rows(now), last, Range(Ringed(last)))
         /\ MirrorOf(<<>>, <<>>, Events(Ringed(last)) \o Rows(now), now, now)
<1> DEFINE es == Events(Ringed(last))
           rows == Rows(now)
           r == es \o rows
<1>1. /\ rows \in Seq(Message) /\ (\A i \in DOMAIN rows : rows[i].kind = "row")
      /\ Speaks(rows, DOMAIN now, now)
  <2>1. DOMAIN now \in SUBSET (DOMAIN now)
    OBVIOUS
  <2>2. LET s == SetToSeq(DOMAIN now)
        IN  /\ rows \in Seq(Message) /\ Len(rows) = Len(s) /\ Len(s) \in Nat
            /\ \A i \in 1..Len(s) : rows[i].kind = "row"
            /\ Speaks(rows, DOMAIN now, now)
    BY <2>1, RowsSpeak DEF Rows
  <2> QED BY <2>2
<1>2. /\ es \in Seq(Message)
      /\ FeedOf(<<>>, <<>>, r, last, Range(Ringed(last)))
  <2>1. \A k \in DOMAIN rows : rows[k].kind # "event"
    BY <1>1
  <2> HIDE DEF rows
  <2> QED BY <1>1, <2>1, FeedStarts DEF Events
<1>3. \A k \in DOMAIN es : es[k].kind = "event"
  <2> DEFINE g == Ringed(last)
             f == Recent(last)
  <2>a. f \in 1..(last + 1) /\ Len(g) \in Nat /\ DOMAIN g = 1..Len(g)
        /\ \A i \in DOMAIN g : g[i] = f + i - 1
    BY RingedIs
  <2> HIDE DEF f, g
  <2>b. ASSUME NEW i \in DOMAIN g PROVE g[i] \in Nat
    BY <2>a
  <2>1. \A i \in DOMAIN Ringed(last) : Ringed(last)[i] \in Nat
    BY <2>b DEF g
  <2>2. Len(Ringed(last)) \in Nat /\ DOMAIN Ringed(last) = 1..Len(Ringed(last))
    BY RingedIs
  <2> QED BY <2>1, <2>2 DEF Events, Event
<1> HIDE DEF es, rows
<1>4. /\ DOMAIN es = 1..Len(es) /\ DOMAIN rows = 1..Len(rows)
      /\ \A k \in 1..Len(es) : k \in DOMAIN r /\ r[k] = es[k]
      /\ \A k \in 1..Len(rows) : Len(es) + k \in DOMAIN r /\ r[Len(es) + k] = rows[k]
      /\ \A k \in DOMAIN r : k \notin 1..Len(es) =>
           k - Len(es) \in 1..Len(rows) /\ r[k] = rows[k - Len(es)]
  BY <1>1, <1>2, Joined
<1> HIDE DEF r
<1>5. ASSUME NEW k \in DOMAIN r, r[k].kind # "event"
      PROVE  r[k].kind = "row" /\ r[k].id \in DOMAIN now /\ r[k].row = now[r[k].id]
  <2>1. PICK i \in DOMAIN rows : r[k] = rows[i]
    BY <1>3, <1>4, <1>5
  <2>2. rows[i].kind = "row" /\ rows[i] \in Message /\ rows[i].id \in Player
    BY <1>1, MessageIs
  <2>3. rows[i] = Truth(rows[i].id, now)
    BY <1>1, <2>2 DEF Speaks, About
  <2>4. rows[i].id \in DOMAIN now
    BY <2>2, <2>3, TruthIs
  <2> QED BY <2>1, <2>2, <2>3, <2>4, TruthIs
<1>6. ASSUME NEW p \in DOMAIN now PROVE ~Silent(r, p)
  <2>1. PICK i \in DOMAIN rows : About(rows[i], p)
    BY <1>1 DEF Speaks, Silent
  <2> QED BY <1>4, <2>1 DEF Silent
<1>7. \A p : Silent(<<>>, p)
  BY DEF Silent
<1>8. MirrorOf(<<>>, <<>>, r, now, now)
  BY <1>5, <1>6, <1>7 DEF MirrorOf
<1> QED BY <1>1, <1>2, <1>8 DEF r, es, rows

(* A shell that is let in.                                                 *)
LEMMA AdmitOne ==
  ASSUME NEW e, NEW s \in Session, NEW c \in Manager, e \in c.used, c.token = 0, e \in c.at,
         s.sent["gameplay"] = <<>>, s.sent["bulk"] = <<>>, s.fresh => Blank(c),
         \A k \in DOMAIN s.sent["control"] : s.sent["control"][k].kind # "ack",
         NEW k \in Nat \ {0}, roster \in Rosters, eventSeq \in Nat, ring = Ringed(eventSeq)
  PROVE  SessionOK(e, AckAndReplay(s, k), c, eventSeq, roster)
<1> DEFINE t == AckAndReplay(s, k)
           m == [kind |-> "ack", token |-> k]
<1>1. Events(ring) \in Seq(Message) /\ Rows(roster) \in Seq(Message)
  BY ReplayStarts
<1>2. /\ t \in Session /\ t.token = k /\ t.fresh = s.fresh /\ t.replayed = roster
      /\ t.sent["gameplay"] = <<>>
      /\ t.sent["bulk"] = Events(ring) \o Rows(roster)
      /\ t.sent["control"] = Append(s.sent["control"], m)
  BY <1>1, ReplayIs
<1> HIDE DEF t
<1>3. ASSUME NEW i \in DOMAIN t.sent["control"], t.sent["control"][i].kind = "ack"
      PROVE  t.sent["control"][i].token = k
  <2> DEFINE q == s.sent["control"]
  <2>1. q \in Seq(Control) /\ m \in Control
    BY SessionIs DEF Control
  <2>2. Append(q, m)[i] = m \/ (i \in DOMAIN q /\ Append(q, m)[i] = q[i])
    BY <1>2, <1>3, <2>1
  <2> QED BY <1>2, <1>3, <2>2
<1>4. ASSUME Own(e, t, c) PROVE Carried(t, c, eventSeq, roster)
  <2>1. Blank(c)
    BY <1>2, <1>4 DEF Own
  <2>2. Events(ring) \o Rows(roster) \in Seq(Message)
    BY <1>1
  <2>3. Rest(t, c, "gameplay") = <<>>
    BY <1>2, <2>1 DEF Rest, Blank
  <2>4. Rest(t, c, "bulk") = Events(ring) \o Rows(roster)
    BY <1>2, <2>1, <2>2, SubSeqAll DEF Rest, Blank
  <2>5. c.got["gameplay"] <= Len(t.sent["gameplay"]) /\ c.got["bulk"] <= Len(t.sent["bulk"])
    BY <1>2, <2>1, <2>2 DEF Blank
  <2> QED BY <1>2, <2>1, <2>3, <2>4, <2>5, ReplayStarts DEF Carried, Blank
<1> QED BY <1>2, <1>3, <1>4 DEF SessionOK, t

-----------------------------------------------------------------------------
(* A session under the manager's steps.                                    *)

(* What is carried depends on how far the manager is, on what it has taken *)
(* and on its mirror.                                                      *)
LEMMA CarriedOn ==
  ASSUME NEW s, NEW c, NEW last, NEW now, Carried(s, c, last, now),
         NEW d, d.taken = c.taken, d.roster = c.roster,
         d.got["gameplay"] = c.got["gameplay"], d.got["bulk"] = c.got["bulk"]
  PROVE  Carried(s, d, last, now)
BY DEF Carried, Rest

(* A new socket, which no session of before is known by, or none.          *)
LEMMA SocketOne ==
  ASSUME NEW e, NEW s, NEW c, NEW last, NEW now, SessionOK(e, s, c, last, now),
         NEW d, d.token = 0, e \notin d.at, c.used \subseteq d.used
  PROVE  SessionOK(e, s, d, last, now)
BY DEF SessionOK, Own

(* A manager that takes nothing, at the same address or at a new one.      *)
LEMMA IdleOne ==
  ASSUME NEW e, NEW s, NEW c, NEW last, NEW now, SessionOK(e, s, c, last, now),
         NEW d, d.token = c.token, d.taken = c.taken, d.roster = c.roster, d.got = c.got,
         c.used \subseteq d.used, e \in d.at => e \in c.at
  PROVE  SessionOK(e, s, d, last, now)
<1>1. Own(e, s, d) => Own(e, s, c)
  BY DEF Own
<1>2. Own(e, s, d) => Carried(s, d, last, now)
  BY <1>1, CarriedOn DEF SessionOK
<1>3. Blank(c) => Blank(d)
  BY DEF Blank
<1> QED BY <1>2, <1>3 DEF SessionOK

(* The next message on a lane.                                             *)
LEMMA TakesControl ==
  ASSUME NEW e, NEW s, NEW c \in Manager, NEW last, NEW now, SessionOK(e, s, c, last, now),
         e \in c.at, NEW d, d = Applied(Took(c, "control", c.got["control"] + 1),
                          s.sent["control"][c.got["control"] + 1]),
         c.got["control"] + 1 <= Len(s.sent["control"])
  PROVE  SessionOK(e, s, d, last, now)
<1> DEFINE n == c.got["control"] + 1
           m == s.sent["control"][n]
<1>1. s \in Session /\ c.got["control"] \in Nat
  BY ManagerIs DEF SessionOK, Lane
<1>2. n \in Nat /\ n \in DOMAIN s.sent["control"] /\ m \in Control
  BY <1>1, SessionIs
<1>3. m.kind = "ack" => s.token # 0 /\ m.token = s.token
  BY <1>2 DEF SessionOK
<1> HIDE DEF m, n
<1>4. d = Applied(Took(c, "control", n), m)
  BY DEF m, n
<1>b. LET x == Applied(Took(c, "control", n), m)
      IN  /\ x \in Manager /\ x.at = c.at /\ x.used = c.used
          /\ x.token = IF m.kind = "ack" THEN m.token ELSE c.token
          /\ x.got["control"] = n
          /\ x.got["gameplay"] = c.got["gameplay"] /\ x.got["bulk"] = c.got["bulk"]
          /\ x.taken = c.taken /\ x.log = c.log /\ x.roster = c.roster
  BY <1>2, AppliedControl
<1>5. /\ d.at = c.at /\ d.used = c.used
      /\ d.token = IF m.kind = "ack" THEN m.token ELSE c.token
      /\ d.got["gameplay"] = c.got["gameplay"] /\ d.got["bulk"] = c.got["bulk"]
      /\ d.taken = c.taken /\ d.roster = c.roster
  BY <1>4, <1>b
<1>6. Own(e, s, d) => Own(e, s, c)
  BY <1>3, <1>5 DEF Own, SessionOK
<1>7. Own(e, s, d) => Carried(s, d, last, now)
  BY <1>5, <1>6, CarriedOn DEF SessionOK
<1>8. Blank(c) => Blank(d)
  BY <1>5 DEF Blank
<1>9. d.token # 0 /\ e \in d.at => s.token = d.token
  BY <1>3, <1>5 DEF SessionOK
<1> QED BY <1>5, <1>7, <1>8, <1>9 DEF SessionOK

LEMMA TakesFeed ==
  ASSUME NEW e, NEW s, NEW c \in Manager, NEW last, NEW now \in Rosters,
         SessionOK(e, s, c, last, now), e \in c.at, NEW l \in {"gameplay", "bulk"},
         NEW d, d = Applied(Took(c, l, c.got[l] + 1), s.sent[l][c.got[l] + 1]),
         c.got[l] + 1 <= Len(s.sent[l])
  PROVE  SessionOK(e, s, d, last, now)
<1> DEFINE n == c.got[l] + 1
           m == s.sent[l][n]
<1>1. s \in Session /\ c.got[l] \in Nat /\ l \in Lane /\ s.sent[l] \in Seq(Message)
  BY ManagerIs, SessionIs DEF SessionOK, Lane
<1>2. n \in Nat /\ n \in DOMAIN s.sent[l] /\ m \in Message /\ s.sent[l] # <<>>
  BY <1>1
<1>3. s.token # 0
  BY <1>2 DEF SessionOK
<1> HIDE DEF m, n
<1>4. d = Applied(Took(c, l, n), m)
  BY DEF m, n
<1>a. l \in Lane
  BY <1>1
<1>b. LET x == Applied(Took(c, l, n), m)
      IN  /\ x \in Manager /\ x.at = c.at /\ x.used = c.used /\ x.token = c.token
          /\ x.got[l] = n /\ (\A k \in Lane \ {l} : x.got[k] = c.got[k])
          /\ x.taken = IF m.kind = "event" THEN Append(c.taken, m.seq) ELSE c.taken
          /\ x.roster = Shown(c.roster, m)
  BY <1>a, <1>2, AppliedFeed
<1>5. /\ d \in Manager /\ d.at = c.at /\ d.used = c.used /\ d.token = c.token
      /\ d.got[l] = n /\ (\A k \in Lane \ {l} : d.got[k] = c.got[k])
      /\ d.taken = IF m.kind = "event" THEN Append(c.taken, m.seq) ELSE c.taken
      /\ d.roster = Shown(c.roster, m)
  BY <1>4, <1>b
<1>6. ASSUME Own(e, s, d) PROVE Carried(s, d, last, now)
  <2>1. Carried(s, c, last, now)
    BY <1>5, <1>6 DEF Own, SessionOK
  <2> DEFINE r == Rest(s, c, l)
  <2>2. r # <<>> /\ Head(r) = m /\ Rest(s, d, l) = Tail(r)
    BY <1>1, <1>5, SubSeqNext DEF Rest, m, n
  <2>3. c.got["gameplay"] <= Len(s.sent["gameplay"]) /\ c.got["bulk"] <= Len(s.sent["bulk"])
    BY <2>1 DEF Carried
  <2>4. Rest(s, c, "gameplay") \in Seq(Message) /\ Rest(s, c, "bulk") \in Seq(Message)
    BY <1>1, <2>3, RestTyped
  <2>5. c.taken \in Seq(Nat) /\ c.roster \in Rosters /\ s.replayed \in Rosters
    BY <1>1, ManagerIs, SessionIs
  <2>6. d.got[l] <= Len(s.sent[l])
    BY <1>5 DEF n
  <2>7. CASE l = "gameplay"
    <3> DEFINE live == Rest(s, c, "gameplay")
               replay == Rest(s, c, "bulk")
    <3>1. d.got["bulk"] = c.got["bulk"] /\ Rest(s, d, "bulk") = replay
      BY <1>5, <2>7 DEF Lane, Rest
    <3>2. live # <<>> /\ Head(live) = m /\ Rest(s, d, "gameplay") = Tail(live)
      BY <2>2, <2>7
    <3>3. FeedOf(c.taken, live, replay, last, Range(Ringed(last)))
          /\ MirrorOf(c.roster, live, replay, s.replayed, now)
      BY <2>1 DEF Carried
    <3>4. live \in Seq(Message)
      BY <2>4
    <3> HIDE DEF live, replay
    <3>5. FeedOf(d.taken, Tail(live), replay, last, Range(Ringed(last)))
      BY <1>5, <2>5, <3>2, <3>3, <3>4, FeedTaken
    <3>6. MirrorOf(d.roster, Tail(live), replay, s.replayed, now)
      BY <1>5, <2>5, <3>2, <3>3, <3>4, MirrorTakesLive
    <3> QED BY <2>3, <2>6, <2>7, <3>1, <3>2, <3>5, <3>6 DEF Carried
  <2>8. CASE l = "bulk"
    <3> DEFINE live == Rest(s, c, "gameplay")
               replay == Rest(s, c, "bulk")
    <3>1. d.got["gameplay"] = c.got["gameplay"] /\ Rest(s, d, "gameplay") = live
      BY <1>5, <2>8 DEF Lane, Rest
    <3>2. replay # <<>> /\ Head(replay) = m /\ Rest(s, d, "bulk") = Tail(replay)
      BY <2>2, <2>8
    <3>3. FeedOf(c.taken, live, replay, last, Range(Ringed(last)))
          /\ MirrorOf(c.roster, live, replay, s.replayed, now)
      BY <2>1 DEF Carried
    <3>4. replay \in Seq(Message)
      BY <2>4
    <3> HIDE DEF live, replay
    <3>5. FeedOf(c.taken, replay, live, last, Range(Ringed(last)))
      BY <3>3, FeedSymmetric
    <3>6. FeedOf(d.taken, Tail(replay), live, last, Range(Ringed(last)))
      BY <1>5, <2>5, <3>2, <3>4, <3>5, FeedTaken
    <3>7. FeedOf(d.taken, live, Tail(replay), last, Range(Ringed(last)))
      BY <3>6, FeedSymmetric
    <3>8. MirrorOf(d.roster, live, Tail(replay), s.replayed, now)
      BY <1>5, <2>5, <3>2, <3>3, <3>4, MirrorTakesReplay
    <3> QED BY <2>3, <2>6, <2>8, <3>1, <3>2, <3>7, <3>8 DEF Carried
  <2> QED BY <2>7, <2>8
<1> QED BY <1>3, <1>5, <1>6 DEF SessionOK

(* Another session than the one whose message is taken.                    *)
LEMMA TakesFromAnother ==
  ASSUME NEW e, NEW s, NEW c \in Manager, NEW last, NEW now, SessionOK(e, s, c, last, now),
         e \in c.at, NEW f, NEW t, SessionOK(f, t, c, last, now), f \notin c.at,
         t.token # 0 => t.token # s.token,
         NEW l \in Lane,
         NEW d, d = Applied(Took(c, l, c.got[l] + 1), s.sent[l][c.got[l] + 1]),
         c.got[l] + 1 <= Len(s.sent[l])
  PROVE  SessionOK(f, t, d, last, now)
<1> DEFINE n == c.got[l] + 1
           m == s.sent[l][n]
<1>1. s \in Session /\ c.got[l] \in Nat
  BY ManagerIs DEF SessionOK
<1>2. CASE l = "control"
  <2>1. n \in Nat /\ n \in DOMAIN s.sent["control"] /\ m \in Control
    BY <1>1, <1>2, SessionIs
  <2>2. m.kind = "ack" => s.token # 0 /\ m.token = s.token
    BY <1>2, <2>1 DEF SessionOK
  <2> HIDE DEF m, n
  <2>3. d = Applied(Took(c, "control", n), m)
    BY <1>2 DEF m, n
  <2>b. LET x == Applied(Took(c, "control", n), m)
        IN  /\ x \in Manager /\ x.at = c.at /\ x.used = c.used
            /\ x.token = IF m.kind = "ack" THEN m.token ELSE c.token
            /\ x.got["control"] = n
            /\ x.got["gameplay"] = c.got["gameplay"] /\ x.got["bulk"] = c.got["bulk"]
            /\ x.taken = c.taken /\ x.roster = c.roster
    BY <2>1, AppliedControl
  <2>4. /\ d.at = c.at /\ d.used = c.used
        /\ d.token = IF m.kind = "ack" THEN m.token ELSE c.token
        /\ d.got["gameplay"] = c.got["gameplay"] /\ d.got["bulk"] = c.got["bulk"]
        /\ d.taken = c.taken /\ d.roster = c.roster
    BY <2>3, <2>b
  <2>5. Own(f, t, d) => Own(f, t, c)
    BY <2>2, <2>4 DEF Own
  <2>6. Own(f, t, d) => Carried(t, d, last, now)
    BY <2>4, <2>5, CarriedOn DEF SessionOK
  <2> QED BY <2>4, <2>6 DEF SessionOK
<1>3. CASE l # "control"
  <2>1. l \in {"gameplay", "bulk"} /\ s.sent[l] \in Seq(Message)
    BY <1>1, <1>3, SessionIs DEF Lane
  <2>2. n \in Nat /\ n \in DOMAIN s.sent[l] /\ m \in Message /\ s.sent[l] # <<>>
    BY <1>1, <2>1
  <2>3. s.token # 0
    BY <2>1, <2>2 DEF SessionOK
  <2> HIDE DEF m, n
  <2>4. d = Applied(Took(c, l, n), m)
    BY DEF m, n
  <2>5. d.at = c.at /\ d.used = c.used /\ d.token = c.token
    BY <2>2, <2>4, AppliedFeed
  <2>6. ~Own(f, t, d)
    BY <2>5 DEF Own, SessionOK
  <2> QED BY <2>5, <2>6 DEF SessionOK
<1> QED BY <1>2, <1>3

LEMMA TakesManager ==
  ASSUME NEW e, NEW s \in Session, NEW c \in Manager, ManagerOK(c), NEW l \in Lane,
         NEW d, d = Applied(Took(c, l, c.got[l] + 1), s.sent[l][c.got[l] + 1]),
         c.got[l] + 1 <= Len(s.sent[l])
  PROVE  ManagerOK(d)
<1> DEFINE n == c.got[l] + 1
           m == s.sent[l][n]
<1>1. c.got[l] \in Nat
  BY ManagerIs
<1>2. /\ d \in Manager /\ d.at = c.at /\ d.used = c.used /\ d.got[l] = n /\ n # 0
      /\ \/ d.log = c.log /\ d.taken = c.taken
         \/ \E k \in Nat : d.log = Kept(Append(c.log, k)) /\ d.taken = Append(c.taken, k)
  <2>1. CASE l = "control"
    <3>1. n \in Nat /\ m \in Control /\ n # 0
      BY <1>1, <2>1, SessionIs
    <3> HIDE DEF n, m
    <3>2. d = Applied(Took(c, "control", n), m)
      BY <2>1 DEF n, m
    <3>3. LET x == Applied(Took(c, "control", n), m)
          IN  /\ x \in Manager /\ x.at = c.at /\ x.used = c.used
              /\ x.token = IF m.kind = "ack" THEN m.token ELSE c.token
              /\ x.got["control"] = n
              /\ x.got["gameplay"] = c.got["gameplay"] /\ x.got["bulk"] = c.got["bulk"]
              /\ x.taken = c.taken /\ x.log = c.log /\ x.roster = c.roster
      BY <3>1, AppliedControl
    <3> QED BY <2>1, <3>1, <3>2, <3>3
  <2>2. CASE l # "control"
    <3>1. l \in {"gameplay", "bulk"} /\ s.sent[l] \in Seq(Message)
      BY <2>2, SessionIs DEF Lane
    <3>2. n \in Nat /\ m \in Message /\ n # 0
      BY <1>1, <3>1
    <3> HIDE DEF n, m
    <3>3. d = Applied(Took(c, l, n), m)
      BY DEF n, m
    <3>4. LET x == Applied(Took(c, l, n), m)
          IN  /\ x \in Manager /\ x.at = c.at /\ x.used = c.used /\ x.got[l] = n
              /\ x.taken = IF m.kind = "event" THEN Append(c.taken, m.seq) ELSE c.taken
              /\ x.log = IF m.kind = "event" THEN Kept(Append(c.log, m.seq)) ELSE c.log
      BY <3>2, AppliedFeed
    <3>5. m.kind = "event" => m.seq \in Nat
      BY <3>2, MessageIs
    <3> QED BY <3>2, <3>3, <3>4, <3>5
  <2> QED BY <2>1, <2>2
<1>3. d.log = Newest(d.taken)
  BY <1>2, ManagerIs, KeptNewest DEF ManagerOK
<1> QED BY <1>2, <1>3 DEF ManagerOK

-----------------------------------------------------------------------------
(* What a step of the server pushes: the next n events, and what now holds *)
(* of all on the roster whose row is another.                              *)
Tells(msgs, n, last, was, now) ==
  /\ msgs \in Seq(Message) /\ n \in Nat
  /\ Seqs(msgs) = (last + 1)..(last + n) /\ Once(msgs)
  /\ \E P : /\ Speaks(msgs, P, now)
            /\ \A p \in Player \ P : /\ p \in DOMAIN was <=> p \in DOMAIN now
                                     /\ p \in DOMAIN now => was[p] = now[p]

LEMMA NoEvents ==
  ASSUME NEW q \in Seq(Message), \A i \in DOMAIN q : q[i].kind # "event"
  PROVE  Seqs(q) = {} /\ Once(q)
BY DEF Seqs, Once, EventsAt

LEMMA JoinsTell ==
  ASSUME NEW now \in Rosters, NEW P \in SUBSET (DOMAIN now), NEW from \in Nat
  PROVE  LET js == SetToSeq(P)
             joins == Paired([i \in 1..Len(js) |-> Event(from + i)],
                             [i \in 1..Len(js) |-> RowMsg(js[i], now[js[i]])])
         IN  /\ joins \in Seq(Message) /\ Len(js) \in Nat
             /\ Seqs(joins) = (from + 1)..(from + Len(js)) /\ Once(joins)
             /\ Speaks(joins, P, now)
<1> DEFINE js == SetToSeq(P)
           n == Len(js)
           es == [i \in 1..n |-> Event(from + i)]
           rows == [i \in 1..n |-> RowMsg(js[i], now[js[i]])]
<1>1. /\ rows \in Seq(Message) /\ Len(rows) = n /\ n \in Nat
      /\ \A i \in 1..n : rows[i].kind = "row"
      /\ Speaks(rows, P, now)
  BY RowsSpeak
<1> HIDE DEF n, rows
<1>a. n \in Nat
  BY <1>1
<1>2. es \in Seq(Message) /\ Len(es) = n /\ (\A i \in 1..n : es[i] = Event(from + i) /\ es[i].kind = "event")
  BY ONLY <1>a, from \in Nat, EventList
<1> HIDE DEF es
<1>3. \A i \in 1..Len(es) : es[i] = Event(from + i) /\ rows[i].kind # "event"
  BY <1>1, <1>2
<1>4. Len(es) = Len(rows)
  BY <1>1, <1>2
<1>5. Seqs(Paired(es, rows)) = (from + 1)..(from + Len(es)) /\ Once(Paired(es, rows))
  BY <1>1, <1>2, <1>3, <1>4, PairedEvents
<1>6. Speaks(Paired(es, rows), P, now)
  BY <1>1, <1>2, <1>4, PairedSpeaks
<1>7. Paired(es, rows) \in Seq(Message)
  BY <1>1, <1>2, <1>4, PairedIs
<1> QED BY <1>1, <1>2, <1>5, <1>6, <1>7 DEF es, rows, n

LEMMA LeavesTell ==
  ASSUME NEW now \in Rosters, NEW P \in SUBSET Player, P \cap DOMAIN now = {}, NEW from \in Nat
  PROVE  LET qs == SetToSeq(P)
             leaves == Paired([i \in 1..Len(qs) |-> Gone(qs[i])],
                              [i \in 1..Len(qs) |-> Event(from + i)])
         IN  /\ leaves \in Seq(Message) /\ Len(qs) \in Nat
             /\ Seqs(leaves) = (from + 1)..(from + Len(qs)) /\ Once(leaves)
             /\ Speaks(leaves, P, now)
<1> DEFINE qs == SetToSeq(P)
           n == Len(qs)
           es == [i \in 1..n |-> Event(from + i)]
           gone == [i \in 1..n |-> Gone(qs[i])]
<1>1. /\ gone \in Seq(Message) /\ Len(gone) = n /\ n \in Nat
      /\ \A i \in 1..n : gone[i].kind = "gone"
      /\ Speaks(gone, P, now)
  BY GoneSpeak
<1> HIDE DEF n, gone
<1>a. n \in Nat
  BY <1>1
<1>2. es \in Seq(Message) /\ Len(es) = n /\ (\A i \in 1..n : es[i] = Event(from + i) /\ es[i].kind = "event")
  BY ONLY <1>a, from \in Nat, EventList
<1> HIDE DEF es
<1>3. \A i \in 1..Len(gone) : es[i] = Event(from + i) /\ gone[i].kind # "event"
  BY <1>1, <1>2
<1>4. Len(es) = Len(gone)
  BY <1>1, <1>2
<1>5. Seqs(Paired(gone, es)) = (from + 1)..(from + Len(gone)) /\ Once(Paired(gone, es))
  BY <1>1, <1>2, <1>3, <1>4, PairedEvents
<1>6. Speaks(Paired(gone, es), P, now)
  BY <1>1, <1>2, <1>4, PairedSpeaks
<1>7. Paired(gone, es) \in Seq(Message)
  BY <1>1, <1>2, <1>4, PairedIs
<1> QED BY <1>1, <1>2, <1>5, <1>6, <1>7 DEF es, gone, n

LEMMA PublishTells ==
  ASSUME roster \in Rosters, eventSeq \in Nat, NEW now \in Rosters, PublishAdmin(now)
  PROVE  \E msgs, n : /\ Tells(msgs, n, eventSeq, roster, now)
                      /\ sessions' = Pushed(msgs) /\ eventSeq' = eventSeq + n
                      /\ ring' = Ringed(eventSeq + n) /\ roster' = now /\ manager' = manager
<1> DEFINE joined == DOMAIN now \ DOMAIN roster
           quit == DOMAIN roster \ DOMAIN now
           changed == joined \cup {p \in DOMAIN now \cap DOMAIN roster : now[p] # roster[p]}
           js == SetToSeq(joined)
           cs == SetToSeq(changed \ joined)
           qs == SetToSeq(quit)
           n == Len(js) + Len(qs)
           joins == Paired([i \in 1..Len(js) |-> Event(eventSeq + i)],
                           [i \in 1..Len(js) |-> RowMsg(js[i], now[js[i]])])
           rows == [i \in 1..Len(cs) |-> RowMsg(cs[i], now[cs[i]])]
           leaves == Paired([i \in 1..Len(qs) |-> Gone(qs[i])],
                            [i \in 1..Len(qs) |-> Event(eventSeq + Len(js) + i)])
           msgs == joins \o rows \o leaves
<1>1. /\ sessions' = Pushed(msgs) /\ eventSeq' = eventSeq + n
      /\ ring' = Ringed(eventSeq + n) /\ roster' = now /\ manager' = manager
  BY Zenon DEF PublishAdmin
<1>2. /\ joins \in Seq(Message) /\ Len(js) \in Nat
      /\ Seqs(joins) = (eventSeq + 1)..(eventSeq + Len(js)) /\ Once(joins)
      /\ Speaks(joins, joined, now)
  <2>1. joined \in SUBSET (DOMAIN now)
    OBVIOUS
  <2> HIDE DEF joined
  <2> QED BY <2>1, JoinsTell
<1>3. rows \in Seq(Message) /\ (\A i \in DOMAIN rows : rows[i].kind # "event")
      /\ Speaks(rows, changed \ joined, now)
  <2>1. changed \ joined \in SUBSET (DOMAIN now)
    OBVIOUS
  <2> DEFINE P == changed \ joined
  <2> HIDE DEF P
  <2>2. LET s == SetToSeq(P)
            rs == [i \in 1..Len(s) |-> RowMsg(s[i], now[s[i]])]
        IN  /\ rs \in Seq(Message) /\ Len(rs) = Len(s) /\ Len(s) \in Nat
            /\ \A i \in 1..Len(s) : rs[i].kind = "row"
            /\ Speaks(rs, P, now)
    BY <2>1, RowsSpeak DEF P
  <2> QED BY <2>2 DEF P
<1>4. /\ leaves \in Seq(Message) /\ Len(qs) \in Nat
      /\ Seqs(leaves) = (eventSeq + Len(js) + 1)..(eventSeq + Len(js) + Len(qs)) /\ Once(leaves)
      /\ Speaks(leaves, quit, now)
  <2>1. quit \in SUBSET Player /\ quit \cap DOMAIN now = {}
    BY RosterIs
  <2> DEFINE from == eventSeq + Len(js)
  <2>2. from \in Nat
    BY <1>2
  <2> HIDE DEF quit, from
  <2>3. LET q == SetToSeq(quit)
            lv == Paired([i \in 1..Len(q) |-> Gone(q[i])],
                         [i \in 1..Len(q) |-> Event(from + i)])
        IN  /\ lv \in Seq(Message) /\ Len(q) \in Nat
            /\ Seqs(lv) = (from + 1)..(from + Len(q)) /\ Once(lv)
            /\ Speaks(lv, quit, now)
    BY <2>1, <2>2, LeavesTell
  <2> QED BY <2>3 DEF from
<1>5. Seqs(rows) = {} /\ Once(rows)
  BY <1>3, NoEvents
<1> DEFINE P == joined \cup (changed \ joined) \cup quit
<1>6. \A p \in Player \ P : /\ p \in DOMAIN roster <=> p \in DOMAIN now
                            /\ p \in DOMAIN now => roster[p] = now[p]
  OBVIOUS
<1> DEFINE a == Len(js)
           b == Len(qs)
           C == changed \ joined
<1> HIDE DEF joins, rows, leaves, js, qs, cs, joined, C, quit
<1>7. joins \o rows \in Seq(Message) /\ msgs \in Seq(Message)
  BY <1>2, <1>3, <1>4
<1>8. Seqs(joins \o rows) = (eventSeq + 1)..(eventSeq + a) /\ Once(joins \o rows)
  BY <1>2, <1>3, <1>5, SeqsJoined
<1>9. Seqs(msgs) = Seqs(joins \o rows) \cup Seqs(leaves)
      /\ (Seqs(joins \o rows) \cap Seqs(leaves) = {} => Once(msgs))
  BY <1>4, <1>7, <1>8, SeqsJoined
<1>10. a \in Nat /\ b \in Nat /\ n = a + b
       /\ Seqs(leaves) = (eventSeq + a + 1)..(eventSeq + a + b)
  BY <1>2, <1>4
<1> HIDE DEF a, b, n, msgs
<1>11. n \in Nat /\ Seqs(msgs) = (eventSeq + 1)..(eventSeq + n) /\ Once(msgs)
  BY <1>8, <1>9, <1>10
<1>12. Speaks(msgs, P, now)
  <2>1. Speaks(joins \o rows, joined \cup C, now)
    BY <1>2, <1>3, SpeaksJoined DEF C
  <2>2. Speaks((joins \o rows) \o leaves, (joined \cup C) \cup quit, now)
    BY <1>4, <1>7, <2>1, SpeaksJoined
  <2> QED BY <2>2 DEF msgs, C
<1> HIDE DEF P
<1>13. Tells(msgs, n, eventSeq, roster, now)
  BY <1>6, <1>7, <1>11, <1>12 DEF Tells
<1> QED BY <1>1, <1>13

LEMMA EventTells ==
  ASSUME roster \in Rosters, eventSeq \in Nat
  PROVE  Tells(<<Event(eventSeq + 1)>>, 1, eventSeq, roster, roster)
<1> DEFINE m == Event(eventSeq + 1)
           q == <<m>>
<1>1. m \in Message /\ m.kind = "event" /\ m.seq = eventSeq + 1
  BY MessageIs
<1> HIDE DEF m
<1>2. q \in Seq(Message) /\ DOMAIN q = {1} /\ q[1] = m
  BY <1>1
<1> HIDE DEF q
<1>3. EventsAt(q) = {1}
  BY <1>1, <1>2 DEF EventsAt
<1>4. Seqs(q) = (eventSeq + 1)..(eventSeq + 1) /\ Once(q)
  BY <1>1, <1>2, <1>3 DEF Seqs, Once
<1>5. Speaks(q, {}, roster)
  BY <1>1, <1>2 DEF Speaks, About
<1> QED BY <1>2, <1>4, <1>5 DEF Tells, q, m

(* Pushed to every live session, and to no shell.                          *)
LEMMA PushFeed ==
  ASSUME FeedInv, NEW msgs, NEW n, NEW now \in Rosters, Tells(msgs, n, eventSeq, roster, now),
         sessions' = Pushed(msgs), eventSeq' = eventSeq + n, ring' = Ringed(eventSeq + n),
         roster' = now, manager' = manager
  PROVE  FeedInv'
<1>1. /\ roster \in Rosters /\ eventSeq \in Nat /\ ManagerOK(manager) /\ manager \in Manager
      /\ \A e \in DOMAIN sessions : SessionOK(e, sessions[e], manager, eventSeq, roster)
  BY DEF FeedInv, ManagerOK
<1>2. msgs \in Seq(Message) /\ n \in Nat /\ Seqs(msgs) = (eventSeq + 1)..(eventSeq + n) /\ Once(msgs)
  BY DEF Tells
<1>3. PICK P : /\ Speaks(msgs, P, now)
               /\ \A p \in Player \ P : /\ p \in DOMAIN roster <=> p \in DOMAIN now
                                        /\ p \in DOMAIN now => roster[p] = now[p]
  BY DEF Tells
<1>4. ASSUME NEW e \in DOMAIN sessions'
      PROVE  SessionOK(e, sessions'[e], manager, eventSeq + n, now)
  <2>1. e \in DOMAIN sessions /\ SessionOK(e, sessions[e], manager, eventSeq, roster)
    BY <1>1 DEF Pushed
  <2>2. CASE IsLive(sessions[e])
    <3>1. sessions'[e] = Push(sessions[e], msgs)
      BY <2>1, <2>2 DEF Pushed
    <3>2. sessions[e].token # 0
      BY <2>2 DEF IsLive
    <3>3. SessionOK(e, Push(sessions[e], msgs), manager, eventSeq + n, now)
      BY <1>1, <1>2, <1>3, <2>1, <3>2, PushOne
    <3> QED BY <3>1, <3>3
  <2>3. CASE ~IsLive(sessions[e])
    <3>1. sessions'[e] = sessions[e] /\ sessions[e].token = 0
      BY <2>1, <2>3 DEF Pushed, IsLive
    <3> QED BY <2>1, <3>1, Strangers
  <2> QED BY <2>2, <2>3
<1>5. eventSeq + n \in Nat
  BY <1>1, <1>2
<1> QED BY <1>1, <1>4, <1>5 DEF FeedInv

LEMMA ShellIs ==
  ASSUME NEW fresh \in BOOLEAN
  PROVE  LET s == Shell(fresh)
         IN  /\ s \in Session /\ s.token = 0 /\ s.fresh = fresh
             /\ s.sent["gameplay"] = <<>> /\ s.sent["bulk"] = <<>> /\ s.sent["control"] = <<>>
<1> DEFINE lanes == EachLane(<<>>)
<1>1. <<>> \in Seq(Message) /\ <<>> \in Seq(Control)
  OBVIOUS
<1>2. /\ lanes \in Lanes
      /\ lanes["gameplay"] = <<>> /\ lanes["bulk"] = <<>> /\ lanes["control"] = <<>>
  BY <1>1 DEF EachLane, Lanes, Lane
<1>3. Shell(fresh) = [token |-> 0, heard |-> FALSE, sent |-> lanes, fresh |-> fresh,
                      replayed |-> <<>>]
  BY DEF Shell
<1> HIDE DEF lanes
<1> QED BY <1>2, <1>3, NoRoster DEF Session

(* What the front door makes of an address: a shell, heard or not, which   *)
(* is either new or was there.                                             *)
AtDoor(e) == [(IF e \in DOMAIN sessions THEN sessions[e]
               ELSE Shell(manager.got = EachLane(0))) EXCEPT
                !.heard = @ \/ manager.hello # "none"]

LEMMA DoorShell ==
  ASSUME FeedInv, NEW e \in manager.at, manager.token = 0, e \notin Live,
         NEW s, s = AtDoor(e)
  PROVE  /\ s \in Session /\ s.token = 0 /\ e \in manager.used
         /\ s.sent["gameplay"] = <<>> /\ s.sent["bulk"] = <<>>
         /\ s.fresh => Blank(manager)
         /\ \A k \in DOMAIN s.sent["control"] : s.sent["control"][k].kind # "ack"
<1>1. ManagerOK(manager) /\ manager \in Manager /\ e \in manager.used
  BY DEF FeedInv, ManagerOK
<1> DEFINE fresh == manager.got = EachLane(0)
           x == IF e \in DOMAIN sessions THEN sessions[e] ELSE Shell(fresh)
           h == x.heard \/ manager.hello # "none"
<1>2. s = [x EXCEPT !.heard = h]
  BY Zenon DEF AtDoor
<1>3. h \in BOOLEAN
  OBVIOUS
<1> HIDE DEF h
<1>4. /\ x \in Session /\ x.token = 0
      /\ x.sent["gameplay"] = <<>> /\ x.sent["bulk"] = <<>>
      /\ x.fresh => Blank(manager)
      /\ \A k \in DOMAIN x.sent["control"] : x.sent["control"][k].kind # "ack"
  <2>1. CASE e \in DOMAIN sessions
    <3>1. x = sessions[e] /\ SessionOK(e, x, manager, eventSeq, roster)
      BY <2>1 DEF FeedInv
    <3>2. x.token = 0
      BY <2>1, <3>1 DEF Live, IsLive
    <3> HIDE DEF x
    <3> QED BY <3>1, <3>2 DEF SessionOK
  <2>2. CASE e \notin DOMAIN sessions
    <3>1. x = Shell(fresh) /\ fresh \in BOOLEAN
      BY <2>2
    <3>2. fresh => Blank(manager)
      BY <1>1 DEF ManagerOK, Blank, EachLane, Lane
    <3> HIDE DEF fresh, x
    <3>3. /\ x \in Session /\ x.token = 0 /\ x.fresh = fresh
          /\ x.sent["gameplay"] = <<>> /\ x.sent["bulk"] = <<>> /\ x.sent["control"] = <<>>
      BY <3>1, ShellIs
    <3> QED BY <3>2, <3>3
  <2> QED BY <2>1, <2>2
<1> HIDE DEF x
<1>5. s \in Session /\ s.token = x.token /\ s.sent = x.sent /\ s.fresh = x.fresh
  BY <1>2, <1>3, <1>4 DEF Session
<1> QED BY <1>1, <1>4, <1>5

LEMMA Refused ==
  ASSUME NEW e, NEW s \in Session, NEW c, NEW last, NEW now, s.token = 0, e \in c.used, c.token = 0,
         s.sent["gameplay"] = <<>>, s.sent["bulk"] = <<>>, s.fresh => Blank(c),
         \A k \in DOMAIN s.sent["control"] : s.sent["control"][k].kind # "ack"
  PROVE  SessionOK(e, Reply(s, [kind |-> "reject"]), c, last, now)
<1> DEFINE m == [kind |-> "reject"]
           t == Reply(s, m)
           q == s.sent["control"]
<1>1. m \in Control /\ m.kind # "ack"
  BY DEF Control
<1> HIDE DEF m
<1>2. /\ t \in Session /\ t.token = s.token /\ t.fresh = s.fresh
      /\ t.sent["gameplay"] = s.sent["gameplay"] /\ t.sent["bulk"] = s.sent["bulk"]
      /\ t.sent["control"] = Append(q, m)
  BY <1>1, ReplyIs
<1>3. q \in Seq(Control)
  BY SessionIs
<1> HIDE DEF t
<1>4. ASSUME NEW k \in DOMAIN t.sent["control"] PROVE t.sent["control"][k].kind # "ack"
  <2>1. k \in DOMAIN Append(q, m)
    BY <1>2, <1>4
  <2>2. Append(q, m)[k] = m \/ (k \in DOMAIN q /\ Append(q, m)[k] = q[k])
    BY <1>1, <1>3, <2>1
  <2> QED BY <1>1, <1>2, <2>2
<1>5. SessionOK(e, t, c, last, now)
  BY <1>2, <1>4, ShellOne
<1> QED BY <1>5 DEF t, m

LEMMA PutFeed ==
  ASSUME FeedInv, NEW e, NEW s, SessionOK(e, s, manager, eventSeq, roster),
         sessions' = Put(sessions, e, s), UNCHANGED <<roster, ring, eventSeq, manager>>
  PROVE  FeedInv'
<1>1. ASSUME NEW f \in DOMAIN sessions'
      PROVE  SessionOK(f, sessions'[f], manager, eventSeq, roster)
  BY DEF FeedInv, Put
<1> QED BY <1>1 DEF FeedInv

LEMMA FrontDoorFeed ==
  ASSUME TokenInv, FeedInv, FrontDoor
  PROVE  FeedInv'
<1>1. PICK e \in manager.at :
               /\ manager.token = 0
               /\ e \notin Live
               /\ LET s == [(IF e \in DOMAIN sessions THEN sessions[e]
                             ELSE Shell(manager.got = EachLane(0))) EXCEPT
                              !.heard = @ \/ manager.hello # "none"]
                      isNew == s.heard /\ (e \in DOMAIN sessions => ~sessions[e].heard)
                      accepted == isNew /\ manager.hello = "good" /\ Cardinality(Live) < MaxSessions
                  IN IF accepted
                     THEN /\ tokens' = tokens + 1
                          /\ byToken' = Put(byToken, tokens + 1, e)
                          /\ sessions' = Put(sessions, e, AckAndReplay(s, tokens + 1))
                     ELSE /\ sessions' = Put(sessions, e, IF isNew THEN Reply(s, [kind |-> "reject"]) ELSE s)
                          /\ UNCHANGED <<tokens, byToken>>
  BY Zenon DEF FrontDoor
<1> DEFINE s == [(IF e \in DOMAIN sessions THEN sessions[e]
                  ELSE Shell(manager.got = EachLane(0))) EXCEPT
                   !.heard = @ \/ manager.hello # "none"]
<1>2. \/ sessions' = Put(sessions, e, AckAndReplay(s, tokens + 1))
      \/ sessions' = Put(sessions, e, Reply(s, [kind |-> "reject"]))
      \/ sessions' = Put(sessions, e, s)
  BY <1>1, Zenon
<1>3. UNCHANGED <<roster, ring, eventSeq, manager>>
  BY DEF FrontDoor
<1>4. s = AtDoor(e)
  BY DEF AtDoor
<1> HIDE DEF s
<1>5. /\ s \in Session /\ s.token = 0 /\ e \in manager.used
      /\ s.sent["gameplay"] = <<>> /\ s.sent["bulk"] = <<>>
      /\ s.fresh => Blank(manager)
      /\ \A k \in DOMAIN s.sent["control"] : s.sent["control"][k].kind # "ack"
  BY <1>1, <1>4, DoorShell
<1>6. SessionOK(e, s, manager, eventSeq, roster)
  BY <1>1, <1>5, ShellOne
<1>7. SessionOK(e, Reply(s, [kind |-> "reject"]), manager, eventSeq, roster)
  BY <1>1, <1>5, Refused
<1>8. SessionOK(e, AckAndReplay(s, tokens + 1), manager, eventSeq, roster)
  <2> DEFINE k == tokens + 1
  <2>1. k \in Nat \ {0}
    BY DEF TokenInv
  <2>2. /\ roster \in Rosters /\ eventSeq \in Nat /\ ring = Ringed(eventSeq) /\ manager \in Manager
    BY DEF FeedInv, ManagerOK
  <2> HIDE DEF k
  <2>3. SessionOK(e, AckAndReplay(s, k), manager, eventSeq, roster)
    BY <1>1, <1>5, <2>1, <2>2, AdmitOne
  <2> QED BY <2>3 DEF k
<1> QED BY <1>2, <1>3, <1>6, <1>7, <1>8, PutFeed

LEMMA AuthenticatedFeed ==
  ASSUME TokenInv, FeedInv, Authenticated
  PROVE  FeedInv'
<1>1. PICK e, old :
        /\ e \in manager.at /\ manager.token \in DOMAIN byToken /\ old = byToken[manager.token]
        /\ sessions' = Put(Restrict(sessions, DOMAIN sessions \ {old}), e, sessions[old])
  BY DEF Authenticated
<1>2. old \in DOMAIN sessions /\ sessions[old].token = manager.token /\ manager.token # 0
  BY <1>1 DEF TokenInv, Live
<1>3. UNCHANGED <<roster, ring, eventSeq, manager>> /\ e \in manager.used
  BY <1>1 DEF Authenticated, FeedInv, ManagerOK
<1>4. SessionOK(e, sessions[old], manager, eventSeq, roster)
  BY <1>2, <1>3, MovedOne DEF FeedInv
<1>5. ASSUME NEW f \in DOMAIN sessions'
      PROVE  SessionOK(f, sessions'[f], manager, eventSeq, roster)
  <2>1. CASE f = e
    BY <1>1, <1>4, <2>1 DEF Put
  <2>2. CASE f # e
    <3>1. f \in DOMAIN sessions /\ sessions'[f] = sessions[f]
      BY <1>1, <1>5, <2>2 DEF Put, Restrict
    <3> QED BY <3>1 DEF FeedInv
  <2> QED BY <2>1, <2>2
<1> QED BY <1>3, <1>5 DEF FeedInv

LEMMA ReapFeed ==
  ASSUME FeedInv, NEW e, Reap(e)
  PROVE  FeedInv'
<1>1. \A f \in DOMAIN sessions' : f \in DOMAIN sessions /\ sessions'[f] = sessions[f]
  BY DEF Reap, Restrict
<1> QED BY <1>1 DEF FeedInv, Reap

(* The manager's steps.                                                    *)
LEMMA ManagerFeed ==
  ASSUME FeedInv, UNCHANGED <<roster, ring, eventSeq, sessions>>, ManagerOK(manager'),
         \A f \in DOMAIN sessions : SessionOK(f, sessions[f], manager', eventSeq, roster)
  PROVE  FeedInv'
BY DEF FeedInv

LEMMA ConnectFeed ==
  ASSUME FeedInv, NEW e \in Endpoint, NEW key \in {"good", "bad"}, Connect(e, key)
  PROVE  FeedInv'
<1>1. manager \in Manager /\ ManagerOK(manager) /\ e \notin manager.used
  BY DEF FeedInv, ManagerOK, Connect
<1> DEFINE used == manager.used \cup {e}
           g == EachLane(0)
<1>2. used \in SUBSET Endpoint /\ g \in [Lane -> Nat] /\ e \in used
  BY <1>1, ManagerIs DEF EachLane
<1>3. manager' = [state |-> "connecting", at |-> {e}, used |-> used, hello |-> key, token |-> 0,
                  got |-> g, roster |-> <<>>, log |-> <<>>, taken |-> <<>>]
  BY DEF Connect, Off
<1> HIDE DEF used, g
<1>4. <<>> \in Seq(Nat)
  OBVIOUS
<1>5. /\ manager' \in Manager /\ manager'.at = {e} /\ manager'.used = used /\ manager'.token = 0
      /\ manager'.taken = <<>> /\ manager'.log = <<>> /\ manager'.roster = <<>>
  BY <1>2, <1>3, <1>4, NoRoster DEF Manager
<1>6. ManagerOK(manager')
  BY <1>2, <1>5, KeptNewest DEF ManagerOK
<1>7. ASSUME NEW f \in DOMAIN sessions
      PROVE  SessionOK(f, sessions[f], manager', eventSeq, roster)
  <2>1. SessionOK(f, sessions[f], manager, eventSeq, roster) /\ f \in manager.used
    BY DEF FeedInv, SessionOK
  <2>2. f \notin manager'.at /\ manager.used \subseteq manager'.used
    BY <1>1, <1>5, <2>1 DEF used
  <2> QED BY <1>5, <2>1, <2>2, SocketOne
<1> QED BY <1>6, <1>7, ManagerFeed DEF Connect

LEMMA DisconnectFeed ==
  ASSUME FeedInv, Disconnect
  PROVE  FeedInv'
<1>1. manager \in Manager /\ ManagerOK(manager)
  BY DEF FeedInv, ManagerOK
<1> DEFINE g == EachLane(0)
<1>2. g \in [Lane -> Nat]
  BY DEF EachLane
<1>3. manager' = [state |-> "disconnected", at |-> {}, used |-> manager.used, hello |-> "none",
                  token |-> 0, got |-> g, roster |-> <<>>, log |-> <<>>, taken |-> <<>>]
  BY DEF Disconnect, Off
<1> HIDE DEF g
<1>4. <<>> \in Seq(Nat)
  OBVIOUS
<1>5. /\ manager' \in Manager /\ manager'.at = {} /\ manager'.used = manager.used
      /\ manager'.token = 0
      /\ manager'.taken = <<>> /\ manager'.log = <<>> /\ manager'.roster = <<>>
  BY <1>1, <1>2, <1>3, <1>4, NoRoster, ManagerIs DEF Manager
<1>6. ManagerOK(manager')
  BY <1>5, KeptNewest DEF ManagerOK
<1>7. ASSUME NEW f \in DOMAIN sessions
      PROVE  SessionOK(f, sessions[f], manager', eventSeq, roster)
  BY <1>5, SocketOne DEF FeedInv
<1> QED BY <1>6, <1>7, ManagerFeed DEF Disconnect

LEMMA ReaddressFeed ==
  ASSUME FeedInv, NEW e \in Endpoint, Readdress(e)
  PROVE  FeedInv'
<1>1. manager \in Manager /\ ManagerOK(manager) /\ e \notin manager.used
  BY DEF FeedInv, ManagerOK, Readdress
<1> DEFINE used == manager.used \cup {e}
<1>2. used \in SUBSET Endpoint /\ e \in used
  BY <1>1, ManagerIs
<1>3. manager' = [manager EXCEPT !.at = {e}, !.used = used]
  BY <1>1 DEF Readdress, Manager
<1> HIDE DEF used
<1>5. /\ manager' \in Manager /\ manager'.at = {e} /\ manager'.used = used
      /\ manager'.token = manager.token /\ manager'.got = manager.got
      /\ manager'.taken = manager.taken /\ manager'.log = manager.log /\ manager'.roster = manager.roster
  BY <1>1, <1>2, <1>3 DEF Manager
<1>6. ManagerOK(manager')
  BY <1>1, <1>2, <1>5 DEF ManagerOK
<1>7. ASSUME NEW f \in DOMAIN sessions
      PROVE  SessionOK(f, sessions[f], manager', eventSeq, roster)
  <2>1. SessionOK(f, sessions[f], manager, eventSeq, roster) /\ f \in manager.used
    BY DEF FeedInv, SessionOK
  <2>2. f \notin manager'.at /\ manager.used \subseteq manager'.used
    BY <1>1, <1>5, <2>1 DEF used
  <2> QED BY <1>5, <2>1, <2>2, IdleOne
<1> QED BY <1>6, <1>7, ManagerFeed DEF Readdress

LEMMA TimeOutFeed ==
  ASSUME FeedInv, TimeOut
  PROVE  FeedInv'
<1>1. manager \in Manager /\ ManagerOK(manager)
  BY DEF FeedInv, ManagerOK
<1>2. manager' = [manager EXCEPT !.state = "timedOut"]
  BY DEF TimeOut
<1>3. /\ manager' \in Manager /\ manager'.at = manager.at /\ manager'.used = manager.used
      /\ manager'.token = manager.token /\ manager'.got = manager.got
      /\ manager'.taken = manager.taken /\ manager'.log = manager.log /\ manager'.roster = manager.roster
  BY <1>1, <1>2 DEF Manager
<1>4. ManagerOK(manager')
  BY <1>1, <1>3 DEF ManagerOK
<1>5. ASSUME NEW f \in DOMAIN sessions
      PROVE  SessionOK(f, sessions[f], manager', eventSeq, roster)
  BY <1>3, IdleOne DEF FeedInv
<1> QED BY <1>4, <1>5, ManagerFeed DEF TimeOut

LEMMA ServiceFeed ==
  ASSUME TokenInv, FeedInv, NEW l \in Lane, Service(l)
  PROVE  FeedInv'
<1>1. PICK e \in manager.at \cap DOMAIN sessions :
        /\ manager.got[l] + 1 <= Len(sessions[e].sent[l])
        /\ manager' = Applied(Took(manager, l, manager.got[l] + 1),
                              sessions[e].sent[l][manager.got[l] + 1])
  BY Zenon DEF Service, Took
<1> DEFINE s == sessions[e]
           d == manager'
<1>2. /\ manager \in Manager /\ ManagerOK(manager) /\ roster \in Rosters
      /\ SessionOK(e, s, manager, eventSeq, roster) /\ s \in Session
  BY DEF FeedInv, ManagerOK, SessionOK
<1>3. UNCHANGED <<roster, ring, eventSeq, sessions>>
  BY DEF Service
<1> HIDE DEF s
<1>4. d = Applied(Took(manager, l, manager.got[l] + 1), s.sent[l][manager.got[l] + 1])
      /\ manager.got[l] + 1 <= Len(s.sent[l])
  BY <1>1 DEF s
<1> HIDE DEF d
<1>5. ManagerOK(d)
  BY <1>2, <1>4, TakesManager
<1>6. SessionOK(e, s, d, eventSeq, roster)
  <2>1. CASE l = "control"
    BY <1>2, <1>4, <2>1, TakesControl
  <2>2. CASE l # "control"
    <3>1. l \in {"gameplay", "bulk"}
      BY <2>2 DEF Lane
    <3> QED BY <1>2, <1>4, <3>1, TakesFeed
  <2> QED BY <2>1, <2>2
<1>7. ASSUME NEW f \in DOMAIN sessions
      PROVE  SessionOK(f, sessions[f], d, eventSeq, roster)
  <2>1. CASE f = e
    BY <1>6, <2>1 DEF s
  <2>2. CASE f # e
    <3> DEFINE t == sessions[f]
    <3>1. f \notin manager.at /\ SessionOK(f, t, manager, eventSeq, roster)
      BY <1>1, <1>2, <2>2 DEF ManagerOK, FeedInv
    <3>2. t.token # 0 => t.token # s.token
      BY <1>1, <2>2 DEF TokenInv, Live, IsLive, s
    <3> HIDE DEF t
    <3>3. SessionOK(f, t, d, eventSeq, roster)
      BY <1>1, <1>2, <1>4, <3>1, <3>2, TakesFromAnother
    <3> QED BY <3>3 DEF t
  <2> QED BY <2>1, <2>2
<1> QED BY <1>3, <1>5, <1>7, ManagerFeed DEF d

-----------------------------------------------------------------------------
LEMMA FeedInit == Init => FeedInv
<1> SUFFICES ASSUME Init PROVE FeedInv
  OBVIOUS
<1>1. DOMAIN sessions = {} /\ eventSeq \in Nat /\ eventSeq = 0 /\ ring = <<>> /\ roster = <<>>
  BY DEF Init
<1>2. ring = Ringed(eventSeq)
  <2>1. Ringed(0) = <<>>
    BY AdminAssumption DEF Ringed
  <2> QED BY <1>1, <2>1
<1>3. manager = Off
  BY DEF Init
<1> DEFINE g == EachLane(0)
<1>4. g \in [Lane -> Nat] /\ <<>> \in Seq(Nat)
  BY DEF EachLane
<1>5. manager = [state |-> "disconnected", at |-> {}, used |-> {}, hello |-> "none", token |-> 0,
                 got |-> g, roster |-> <<>>, log |-> <<>>, taken |-> <<>>]
  BY <1>3 DEF Off
<1> HIDE DEF g
<1>6. manager \in Manager /\ manager.at = {} /\ manager.used = {}
      /\ manager.taken = <<>> /\ manager.log = <<>> /\ manager.roster = <<>>
  BY <1>4, <1>5, NoRoster DEF Manager
<1>7. ManagerOK(manager)
  BY <1>6, KeptNewest DEF ManagerOK
<1> QED BY <1>1, <1>2, <1>7, NoRoster DEF FeedInv

LEMMA FeedStep == TokenInv /\ FeedInv /\ [Next]_vars => FeedInv'
<1> SUFFICES ASSUME TokenInv, FeedInv, [Next]_vars PROVE FeedInv'
  OBVIOUS
<1>1. ASSUME NEW now \in Rosters, PublishAdmin(now) PROVE FeedInv'
  <2>1. roster \in Rosters /\ eventSeq \in Nat
    BY DEF FeedInv
  <2>2. \E msgs, n : /\ Tells(msgs, n, eventSeq, roster, now)
                     /\ sessions' = Pushed(msgs) /\ eventSeq' = eventSeq + n
                     /\ ring' = Ringed(eventSeq + n) /\ roster' = now /\ manager' = manager
    BY <1>1, <2>1, PublishTells
  <2> QED BY <2>2, PushFeed
<1>2. CASE PushEvent
  <2>1. roster \in Rosters /\ eventSeq \in Nat
    BY DEF FeedInv
  <2>2. Tells(<<Event(eventSeq + 1)>>, 1, eventSeq, roster, roster)
    BY <2>1, EventTells
  <2>3. /\ sessions' = Pushed(<<Event(eventSeq + 1)>>) /\ eventSeq' = eventSeq + 1
        /\ ring' = Ringed(eventSeq + 1) /\ roster' = roster /\ manager' = manager
    BY <1>2 DEF PushEvent
  <2> DEFINE q == <<Event(eventSeq + 1)>>
  <2> HIDE DEF q
  <2> QED BY <2>1, <2>2, <2>3, PushFeed DEF q
<1>3. CASE UNCHANGED vars
  BY <1>3 DEF vars, FeedInv
<1> QED BY <1>1, <1>2, <1>3, ReapFeed, FrontDoorFeed, AuthenticatedFeed, ConnectFeed,
           ReaddressFeed, DisconnectFeed, TimeOutFeed, ServiceFeed DEF Next

LEMMA OwnSession ==
  ASSUME FeedInv, NEW e, Feeds(e)
  PROVE  /\ e \in DOMAIN sessions /\ Waiting(e, "gameplay") = Rest(sessions[e], manager, "gameplay")
         /\ Waiting(e, "bulk") = Rest(sessions[e], manager, "bulk")
         /\ Carried(sessions[e], manager, eventSeq, roster)
<1>1. e \in DOMAIN sessions /\ sessions[e].token # 0 /\ SessionOK(e, sessions[e], manager, eventSeq, roster)
  BY DEF Feeds, Live, IsLive, FeedInv
<1>2. Own(e, sessions[e], manager)
  BY <1>1 DEF Own, Feeds
<1> QED BY <1>1, <1>2 DEF SessionOK, Waiting, Rest

LEMMA FeedHolds == FeedInv => FeedWhole
<1> SUFFICES ASSUME FeedInv PROVE FeedWhole
  OBVIOUS
<1>1. ASSUME NEW e \in Endpoint, Feeds(e)
      PROVE  FeedOf(manager.taken, Waiting(e, "gameplay"), Waiting(e, "bulk"), eventSeq, Range(ring))
  BY <1>1, OwnSession DEF Carried, FeedInv
<1>2. manager.log = Newest(manager.taken)
  BY DEF FeedInv, ManagerOK
<1> QED BY <1>1, <1>2 DEF FeedWhole

LEMMA MirrorHolds == FeedInv => MirrorTrueButForReplay
<1> SUFFICES ASSUME FeedInv, NEW e \in Endpoint, Quiet(e)
    PROVE /\ DOMAIN roster \subseteq DOMAIN manager.roster
          /\ \A p \in DOMAIN manager.roster :
               \/ p \in DOMAIN roster /\ manager.roster[p] = roster[p]
               \/ /\ p \in DOMAIN sessions[e].replayed
                  /\ manager.roster[p] = sessions[e].replayed[p]
  BY DEF MirrorTrueButForReplay
<1>1. Feeds(e) /\ Waiting(e, "gameplay") = <<>> /\ Waiting(e, "bulk") = <<>>
  BY DEF Quiet, Lane
<1>2. MirrorOf(manager.roster, <<>>, <<>>, sessions[e].replayed, roster)
  BY <1>1, OwnSession DEF Carried
<1>3. \A p : Silent(<<>>, p)
  BY DEF Silent
<1>4. DOMAIN roster \subseteq Player /\ DOMAIN manager.roster \subseteq Player
  BY RosterIs, ManagerIs DEF FeedInv, ManagerOK
<1>5. \A p \in Player :
       /\ p \in DOMAIN roster =>
            \/ p \in DOMAIN manager.roster /\ manager.roster[p] = roster[p]
            \/ /\ p \in DOMAIN sessions[e].replayed /\ p \in DOMAIN manager.roster
               /\ manager.roster[p] = sessions[e].replayed[p]
       /\ p \notin DOMAIN roster /\ p \in DOMAIN manager.roster =>
            p \in DOMAIN sessions[e].replayed /\ manager.roster[p] = sessions[e].replayed[p]
  BY <1>2, <1>3 DEF MirrorOf
<1> QED BY <1>4, <1>5

(* What AdminClient has ever taken and what AckAndReplay and PushEvent     *)
(* still have under way to it are the server's latest events, each once,   *)
(* with no gap at the seam of replay and live events, wherever the manager *)
(* moves, and its log is the MAX_EVENTS it took last.                      *)
THEOREM FeedIsWhole == Spec => []FeedWhole
BY TokenInit, TokenStep, FeedInit, FeedStep, FeedHolds, PTL DEF Spec

(* A manager that has taken all it was sent shows everybody on the roster, *)
(* and what it shows wrongly is exactly a row AckAndReplay replayed to it. *)
THEOREM MirrorIsTrue == Spec => []MirrorTrueButForReplay
BY TokenInit, TokenStep, FeedInit, FeedStep, MirrorHolds, PTL DEF Spec
=============================================================================
