--------------------------- MODULE SessionProofs ---------------------------
(***************************************************************************)
(* Theorems about Session for every set of users, connections, channels    *)
(* and join numbers, and every number of logins and messages: a user is    *)
(* served over one connection, and the channels' lists and the players'    *)
(* lists agree.                                                            *)
(***************************************************************************)
EXTENDS Session, TLAPS

(* Who holds a player object holds one that exists; the one that is being  *)
(* loaded has no connection yet and is nowhere else.                       *)
HoldersInv ==
  /\ Len(players) + Len(logins) <= MaxLogins
  /\ \A i \in DOMAIN pending : pending[i] \in DOMAIN players
  /\ loading # Idle => /\ loading.id \in DOMAIN players
                       /\ players[loading.id].conn = None
  /\ \A u \in Users : online[u] # None =>
       /\ online[u] \in DOMAIN players /\ players[online[u]].user = u
       /\ online[u] # loading.id

(* A connection points to players that point back, and only the close of   *)
(* its own connection marks a player as lost.                              *)
HookedInv ==
  /\ \A c \in Conns : client[c] # None =>
       client[c] \in DOMAIN players /\ players[client[c]].conn = c
  /\ \A c \in Conns : answered[c] # None => answered[c] \in DOMAIN players
  /\ \A p \in DOMAIN players : players[p].lost =>
       players[p].conn # None /\ sock[players[p].conn] # "open"

IInv == TypeOK /\ HoldersInv /\ HookedInv

(* On its way from the database thread to online_players an object is in   *)
(* no channel, but for a user that acted too early.                        *)
Waiting(p) == p = loading.id \/ p \in ToSet(pending)

NewcomersOut ==
  \A p \in DOMAIN players :
    Waiting(p) /\ players[p].user \notin early => players[p].in = {}

-----------------------------------------------------------------------------
(* The operators *)

LEMMA ClientType ==
  ASSUME TypeOK, NEW c \in Conns
  PROVE  Client(c) \in {client[c], None}
BY DEF Client

LEMMA SocketType ==
  ASSUME TypeOK, NEW p \in DOMAIN players
  PROVE  /\ Socket(p) \in Conns \cup {None}
         /\ Socket(p) # None => Socket(p) = players[p].conn /\ sock[players[p].conn] # "gone"
<1>1. players[p] \in Player
  BY DEF TypeOK
<1> QED BY <1>1 DEF Socket, Player

(* A close marks a player, and changes nothing else about it. *)
LEMMA MarkLostMarks ==
  ASSUME IInv, NEW c \in Conns
  PROVE  /\ MarkLost(players, c) \in Seq(Player)
         /\ Len(MarkLost(players, c)) = Len(players)
         /\ \A p \in DOMAIN players :
              /\ MarkLost(players, c)[p].user = players[p].user
              /\ MarkLost(players, c)[p].conn = players[p].conn
              /\ MarkLost(players, c)[p].in = players[p].in
              /\ MarkLost(players, c)[p].lost => players[p].lost \/ client[c] = p
<1> DEFINE k == Client(c)
<1>1. CASE k = None
  BY <1>1 DEF MarkLost, IInv, TypeOK
<1>2. CASE k # None
  <2>1. k = client[c] /\ k \in DOMAIN players
    BY <1>2, ClientType DEF IInv, HookedInv
  <2>2. players[k] \in Player /\ players \in Seq(Player)
    BY <2>1 DEF IInv, TypeOK
  <2> DEFINE row == [players[k] EXCEPT !.lost = TRUE]
  <2>3. MarkLost(players, c) = [players EXCEPT ![k] = row]
    BY <1>2 DEF MarkLost
  <2>4. /\ row \in Player /\ row.user = players[k].user
        /\ row.conn = players[k].conn /\ row.in = players[k].in
    BY <2>2 DEF Player
  <2> HIDE DEF k, row
  <2>5. MarkLost(players, c) \in Seq(Player) /\ Len(MarkLost(players, c)) = Len(players)
    BY <2>1, <2>2, <2>3, <2>4
  <2>6. \A p \in DOMAIN players :
          MarkLost(players, c)[p] = IF p = k THEN row ELSE players[p]
    BY <2>2, <2>3
  <2> QED BY <2>1, <2>4, <2>5, <2>6
<1> QED BY <1>1, <1>2

LEMMA PendingHead ==
  ASSUME TypeOK, pending # <<>>
  PROVE  /\ Head(pending) = pending[1] /\ Head(pending) \in Pids
         /\ 1 \in DOMAIN pending
         /\ Tail(pending) \in Seq(Pids) /\ IsInjective(Tail(pending))
         /\ ToSet(Tail(pending)) = ToSet(pending) \ {Head(pending)}
         /\ \A i \in DOMAIN Tail(pending) : i + 1 \in DOMAIN pending /\ Tail(pending)[i] = pending[i + 1]
<1>1. pending \in Seq(Pids) /\ IsInjective(pending) /\ Len(pending) > 0
  BY DEF TypeOK
<1>2. /\ Head(pending) = pending[1] /\ Head(pending) \in Pids
      /\ 1 \in DOMAIN pending
      /\ Tail(pending) \in Seq(Pids) /\ Len(Tail(pending)) = Len(pending) - 1
      /\ \A i \in DOMAIN Tail(pending) : i + 1 \in DOMAIN pending /\ Tail(pending)[i] = pending[i + 1]
  BY <1>1
<1>3. IsInjective(Tail(pending))
  BY <1>1, <1>2 DEF IsInjective
<1>4. ToSet(Tail(pending)) = ToSet(pending) \ {Head(pending)}
  <2>1. ASSUME NEW x \in ToSet(Tail(pending)) PROVE x \in ToSet(pending) /\ x # Head(pending)
    <3>1. PICK i \in DOMAIN Tail(pending) : x = Tail(pending)[i]
      BY <2>1 DEF ToSet
    <3> QED BY <1>1, <1>2, <3>1 DEF ToSet, IsInjective
  <2>2. ASSUME NEW x \in ToSet(pending), x # Head(pending) PROVE x \in ToSet(Tail(pending))
    <3>1. PICK i \in DOMAIN pending : x = pending[i]
      BY <2>2 DEF ToSet
    <3>2. i > 1 /\ i - 1 \in DOMAIN Tail(pending)
      BY <1>1, <1>2, <2>2, <3>1
    <3>3. Tail(pending)[i - 1] = x
      BY <1>1, <1>2, <3>1, <3>2
    <3> QED BY <3>2, <3>3 DEF ToSet
  <2> QED BY <2>1, <2>2
<1> QED BY <1>2, <1>3, <1>4

(* The players ps when k is in the channels chs. *)
PutIn(ps, k, chs) == [ps EXCEPT ![k].in = chs]

LEMMA PutInPuts ==
  ASSUME NEW ps \in Seq(Player), NEW k \in DOMAIN ps, NEW chs \in SUBSET Channels
  PROVE  /\ PutIn(ps, k, chs) \in Seq(Player) /\ Len(PutIn(ps, k, chs)) = Len(ps)
         /\ \A p \in DOMAIN ps :
              /\ PutIn(ps, k, chs)[p].user = ps[p].user
              /\ PutIn(ps, k, chs)[p].conn = ps[p].conn
              /\ PutIn(ps, k, chs)[p].lost = ps[p].lost
              /\ PutIn(ps, k, chs)[p].in = IF p = k THEN chs ELSE ps[p].in
<1> DEFINE row == [ps[k] EXCEPT !.in = chs]
           new == [ps EXCEPT ![k] = row]
<1>1. ps[k] \in Player /\ PutIn(ps, k, chs) = new
  BY DEF PutIn
<1>2. /\ row \in Player /\ row.user = ps[k].user
      /\ row.conn = ps[k].conn /\ row.lost = ps[k].lost /\ row.in = chs
  BY <1>1 DEF Player
<1> HIDE DEF row
<1>3. new \in Seq(Player) /\ Len(new) = Len(ps)
  BY <1>1, <1>2
<1>4. \A p \in DOMAIN ps : new[p] = IF p = k THEN row ELSE ps[p]
  BY <1>1
<1> HIDE DEF new
<1> QED BY <1>1, <1>2, <1>3, <1>4

(* Who acts is a player whom the connection points to. *)
LEMMA WhoActs ==
  ASSUME IInv, NEW c \in Conns, NEW p \in Pids, p = Client(c), p # None
  PROVE  /\ p \in DOMAIN players /\ players[p].conn = c
         /\ players[p].user \in Users /\ players[p].in \subseteq Channels
<1>1. p \in DOMAIN players /\ players[p].conn = c
  BY ClientType DEF IInv, HookedInv
<1>2. players[p] \in Player
  BY <1>1 DEF IInv, TypeOK
<1> QED BY <1>1, <1>2 DEF Player

LEMMA ArrivesFacts ==
  ASSUME IInv, NEW p \in Pids, NEW u \in Users, Arrives(p, u)
  PROVE  /\ p \in DOMAIN players /\ players[p].user = u
         /\ p \in ToSet(pending) /\ p # loading.id
         /\ \A v \in Users : online[v] # p
<1>1. p = pending[1] /\ 1 \in DOMAIN pending
  BY PendingHead DEF IInv, Arrives
<1>2. p \in ToSet(pending)
  BY <1>1 DEF ToSet
<1> QED BY <1>1, <1>2 DEF IInv, HoldersInv, TypeOK, Arrives

LEMMA ReloginFacts ==
  ASSUME IInv, NEW p \in Pids, NEW u \in Users, Relogin(p, u)
  PROVE  /\ p \in DOMAIN players /\ online[u] \in DOMAIN players /\ p # online[u]
         /\ players' \in Seq(Player) /\ Len(players') = Len(players)
         /\ \A x \in DOMAIN players :
              /\ players'[x].user = players[x].user
              /\ players'[x].conn = players[x].conn
              /\ players'[x].lost =>
                   players[x].lost \/ \E c \in Conns : client[c] = x /\ sock'[c] # "open"
              /\ x # p => players'[x].in = players[x].in
         /\ players'[p].in = players[p].in \cup players[online[u]].in
<1> DEFINE q == online[u]
           s == Socket(q)
           left == IF s = None \/ sock[s] # "open" THEN players ELSE MarkLost(players, s)
<1>1. p \in DOMAIN players /\ q \in DOMAIN players /\ p # q /\ players \in Seq(Player)
  BY ArrivesFacts DEF IInv, HoldersInv, Relogin, TypeOK
<1>2. players[p] \in Player /\ players[q] \in Player
  BY <1>1
<1>3. s \in Conns \cup {None} /\ Kicked(s)
  BY <1>1, SocketType DEF IInv, Relogin
<1>4. s \in Conns => sock'[s] # "open"
  BY <1>3, SessionAssumption DEF Kicked, IInv, TypeOK, None
<1>5. /\ left \in Seq(Player) /\ Len(left) = Len(players)
      /\ \A x \in DOMAIN players :
           /\ left[x].user = players[x].user /\ left[x].conn = players[x].conn
           /\ left[x].in = players[x].in
           /\ left[x].lost =>
                players[x].lost \/ \E c \in Conns : client[c] = x /\ sock'[c] # "open"
  <2>1. CASE s = None \/ sock[s] # "open"
    BY <2>1, <1>1
  <2>2. CASE s \in Conns /\ sock[s] = "open"
    <3>1. left = MarkLost(players, s)
      BY <2>2, SessionAssumption DEF None
    <3> HIDE DEF left, s
    <3> QED BY <2>2, <3>1, <1>4, MarkLostMarks
  <2> QED BY <2>1, <2>2, <1>3
<1> DEFINE chs == players[p].in \cup players[q].in
<1>6. left[p].in = players[p].in /\ chs \in SUBSET Channels
  BY <1>1, <1>2, <1>5 DEF Player
<1>7. players' = PutIn(left, p, chs)
  <2>1. players' = [left EXCEPT ![p].in = left[p].in \cup players[q].in]
    BY DEF Relogin
  <2> QED BY <2>1, <1>6 DEF PutIn
<1>8. DOMAIN left = DOMAIN players
  BY <1>1, <1>5
<1> HIDE DEF left, chs
<1>9. /\ players' \in Seq(Player) /\ Len(players') = Len(left)
      /\ \A x \in DOMAIN left :
           /\ players'[x].user = left[x].user /\ players'[x].conn = left[x].conn
           /\ players'[x].lost = left[x].lost
           /\ players'[x].in = IF x = p THEN chs ELSE left[x].in
  <2>1. left \in Seq(Player) /\ p \in DOMAIN left /\ chs \in SUBSET Channels
    BY <1>1, <1>5, <1>6, <1>8
  <2>2. PutIn(left, p, chs) \in Seq(Player) /\ Len(PutIn(left, p, chs)) = Len(left)
    BY <2>1, PutInPuts
  <2>3. \A x \in DOMAIN left :
           /\ PutIn(left, p, chs)[x].user = left[x].user
           /\ PutIn(left, p, chs)[x].conn = left[x].conn
           /\ PutIn(left, p, chs)[x].lost = left[x].lost
           /\ PutIn(left, p, chs)[x].in = IF x = p THEN chs ELSE left[x].in
    BY <2>1, PutInPuts
  <2> QED BY <1>7, <2>2, <2>3
<1> QED BY <1>1, <1>5, <1>8, <1>9 DEF chs

(* How a player object may change in a step. *)
PlayerMoves(p) ==
  /\ players'[p].user = players[p].user
  /\ players'[p].conn = players[p].conn \/ (p = loading.id /\ Hook)
  /\ players'[p].lost =>
       players[p].lost \/ \E c \in Conns : client[c] = p /\ sock'[c] # "open"

(* A message of a player only changes the channels that he is in. *)
LEMMA ActsFacts ==
  ASSUME IInv, NEW c \in Conns, NEW p \in Pids, p = Client(c), p # None,
         NEW chs \in SUBSET Channels, players' = PutIn(players, p, chs)
  PROVE  /\ players' \in Seq(Player) /\ Len(players') = Len(players)
         /\ \A x \in DOMAIN players : PlayerMoves(x)
         /\ \A x \in DOMAIN players :
              players'[x].in = IF x = p THEN chs ELSE players[x].in
<1>1. p \in DOMAIN players /\ players \in Seq(Player)
  BY WhoActs DEF IInv, TypeOK
<1>2. PutIn(players, p, chs) \in Seq(Player) /\ Len(PutIn(players, p, chs)) = Len(players)
  BY <1>1, PutInPuts
<1>3. \A x \in DOMAIN players :
        /\ PutIn(players, p, chs)[x].user = players[x].user
        /\ PutIn(players, p, chs)[x].conn = players[x].conn
        /\ PutIn(players, p, chs)[x].lost = players[x].lost
        /\ PutIn(players, p, chs)[x].in = IF x = p THEN chs ELSE players[x].in
  BY <1>1, PutInPuts
<1>4. \A x \in DOMAIN players : PlayerMoves(x)
  BY <1>3 DEF PlayerMoves
<1> QED BY <1>2, <1>3, <1>4

LEMMA JoinFacts ==
  ASSUME IInv, NEW c \in Conns, NEW ch \in Channels, NEW p \in Pids, p = Client(c), p # None,
         players' = [players EXCEPT ![p].in = @ \cup {ch}]
  PROVE  /\ players' \in Seq(Player) /\ Len(players') = Len(players)
         /\ \A x \in DOMAIN players : PlayerMoves(x)
         /\ \A x \in DOMAIN players :
              players'[x].in = IF x = p THEN players[p].in \cup {ch} ELSE players[x].in
<1> DEFINE chs == players[p].in \cup {ch}
<1>1. chs \in SUBSET Channels
  BY WhoActs
<1>2. players' = PutIn(players, p, chs)
  BY DEF PutIn
<1> HIDE DEF chs
<1>3. /\ players' \in Seq(Player) /\ Len(players') = Len(players)
      /\ \A x \in DOMAIN players : PlayerMoves(x)
      /\ \A x \in DOMAIN players :
           players'[x].in = IF x = p THEN chs ELSE players[x].in
  BY <1>1, <1>2, ActsFacts
<1> QED BY <1>3 DEF chs

LEMMA LeaveFacts ==
  ASSUME IInv, NEW c \in Conns, NEW ch \in Channels, NEW p \in Pids, p = Client(c), p # None,
         players' = [players EXCEPT ![p].in = @ \ {ch}]
  PROVE  /\ players' \in Seq(Player) /\ Len(players') = Len(players)
         /\ \A x \in DOMAIN players : PlayerMoves(x)
         /\ \A x \in DOMAIN players :
              players'[x].in = IF x = p THEN players[p].in \ {ch} ELSE players[x].in
<1> DEFINE chs == players[p].in \ {ch}
<1>1. chs \in SUBSET Channels
  BY WhoActs
<1>2. players' = PutIn(players, p, chs)
  BY DEF PutIn
<1> HIDE DEF chs
<1>3. /\ players' \in Seq(Player) /\ Len(players') = Len(players)
      /\ \A x \in DOMAIN players : PlayerMoves(x)
      /\ \A x \in DOMAIN players :
           players'[x].in = IF x = p THEN chs ELSE players[x].in
  BY <1>1, <1>2, ActsFacts
<1> QED BY <1>3 DEF chs

LEMMA RemoveFacts ==
  ASSUME IInv, NEW u \in Users, RemoveLost(u)
  PROVE  /\ online[u] \in DOMAIN players
         /\ players' \in Seq(Player) /\ Len(players') = Len(players)
         /\ \A x \in DOMAIN players : PlayerMoves(x)
         /\ \A x \in DOMAIN players :
              players'[x].in = IF x = online[u] THEN {} ELSE players[x].in
<1> DEFINE p == online[u]
<1>1. p \in DOMAIN players /\ players \in Seq(Player) /\ {} \in SUBSET Channels
  BY DEF IInv, TypeOK, HoldersInv, RemoveLost
<1>2. players' = PutIn(players, p, {})
  BY DEF RemoveLost, PutIn
<1> HIDE DEF p
<1>3. PutIn(players, p, {}) \in Seq(Player) /\ Len(PutIn(players, p, {})) = Len(players)
  BY <1>1, PutInPuts
<1>4. \A x \in DOMAIN players :
        /\ PutIn(players, p, {})[x].user = players[x].user
        /\ PutIn(players, p, {})[x].conn = players[x].conn
        /\ PutIn(players, p, {})[x].lost = players[x].lost
        /\ PutIn(players, p, {})[x].in = IF x = p THEN {} ELSE players[x].in
  BY <1>1, PutInPuts
<1>5. \A x \in DOMAIN players : PlayerMoves(x)
  BY <1>2, <1>4 DEF PlayerMoves
<1> QED BY <1>1, <1>2, <1>3, <1>4, <1>5 DEF p

LEMMA LoadFacts ==
  ASSUME IInv, Load
  PROVE  /\ Len(players') = Len(players) + 1 /\ players' \in Seq(Player)
         /\ loading'.id = Len(players) + 1 /\ loading' \in [id : Pids, conn : Conns]
         /\ logins' \in Seq(Login) /\ Len(logins') = Len(logins) - 1
         /\ \A x \in DOMAIN players : players'[x] = players[x]
         /\ players'[Len(players) + 1].conn = None
         /\ players'[Len(players) + 1].lost = FALSE
         /\ players'[Len(players) + 1].in = {}
         /\ players'[Len(players) + 1].user \in Users
<1> DEFINE row == [user |-> Head(logins).user, conn |-> None, lost |-> FALSE, in |-> {}]
<1>1. /\ logins \in Seq(Login) /\ logins # <<>> /\ players \in Seq(Player)
      /\ Len(players) + Len(logins) <= MaxLogins
  BY DEF IInv, TypeOK, HoldersInv, Load
<1>2. Head(logins) \in Login /\ Tail(logins) \in Seq(Login) /\ Len(Tail(logins)) = Len(logins) - 1
  BY <1>1
<1>3. row \in Player
  BY <1>2 DEF Login, Player
<1>4. /\ row.conn = None /\ row.lost = FALSE /\ row.in = {} /\ row.user \in Users
  BY <1>2 DEF Login
<1>5. players' = Append(players, row) /\ logins' = Tail(logins)
  BY DEF Load
<1> HIDE DEF row
<1>6. /\ Append(players, row) \in Seq(Player) /\ Len(Append(players, row)) = Len(players) + 1
      /\ \A x \in DOMAIN players : Append(players, row)[x] = players[x]
      /\ Append(players, row)[Len(players) + 1] = row
  BY <1>1, <1>3
<1>7. Len(players) + 1 \in Pids
  BY <1>1, SessionAssumption DEF Pids
<1>8. loading'.id = Len(players) + 1 /\ loading' \in [id : Pids, conn : Conns]
  BY <1>2, <1>7 DEF Load, Login
<1> QED BY <1>2, <1>4, <1>5, <1>6, <1>8

LEMMA HookFacts ==
  ASSUME IInv, Hook
  PROVE  /\ loading.id \in DOMAIN players /\ loading.conn \in Conns
         /\ loading \in [id : Pids, conn : Conns]
         /\ players' \in Seq(Player) /\ Len(players') = Len(players)
         /\ \A x \in DOMAIN players :
              /\ players'[x].user = players[x].user
              /\ players'[x].conn = IF x = loading.id THEN loading.conn ELSE players[x].conn
              /\ players'[x].lost = players[x].lost
              /\ players'[x].in = players[x].in
<1> DEFINE p == loading.id
           row == [players[p] EXCEPT !.conn = loading.conn]
<1>1. p \in DOMAIN players /\ players \in Seq(Player) /\ loading \in [id : Pids, conn : Conns]
  BY DEF IInv, TypeOK, HoldersInv, Hook
<1>2. players[p] \in Player /\ loading.conn \in Conns
  BY <1>1
<1>3. players' = [players EXCEPT ![p] = row]
  BY DEF Hook
<1>4. /\ row \in Player /\ row.user = players[p].user /\ row.conn = loading.conn
      /\ row.lost = players[p].lost /\ row.in = players[p].in
  BY <1>2 DEF Player
<1> HIDE DEF p, row
<1>5. players' \in Seq(Player) /\ Len(players') = Len(players)
  BY <1>1, <1>3, <1>4
<1>6. \A x \in DOMAIN players : players'[x] = IF x = p THEN row ELSE players[x]
  BY <1>1, <1>3
<1> QED BY <1>1, <1>2, <1>4, <1>5, <1>6 DEF p

LEMMA CloseFacts ==
  ASSUME IInv, NEW c \in Conns, Close(c)
  PROVE  /\ players' \in Seq(Player) /\ Len(players') = Len(players)
         /\ \A x \in DOMAIN players : PlayerMoves(x)
         /\ \A x \in DOMAIN players : players'[x].in = players[x].in
<1>1. players' = MarkLost(players, c)
  BY DEF Close
<1>2. sock'[c] # "open"
  BY DEF Close, IInv, TypeOK
<1>3. \A x \in DOMAIN players : PlayerMoves(x)
  BY <1>1, <1>2, MarkLostMarks DEF PlayerMoves
<1>4. MarkLost(players, c) \in Seq(Player) /\ Len(MarkLost(players, c)) = Len(players)
  BY MarkLostMarks
<1> QED BY <1>1, <1>3, <1>4, MarkLostMarks

(* The steps that leave the player objects alone. *)
Elsewhere ==
  \/ \E c \in Conns : Free(c)
  \/ \E c \in Conns, u \in Users : LoginChannel(c, u)
  \/ LoadFails
  \/ \E u \in Users, p \in Pids : FirstLogin(p, u) \/ RepeatedLogin(p, u)
  \/ \E c \in Conns, ch \in Channels, sn \in Sns : StaleLeave(c, ch, sn)
  \/ UNCHANGED vars

LEMMA ElsewhereKeeps == Elsewhere => UNCHANGED players
BY DEF Elsewhere, Free, LoginChannel, LoadFails, FirstLogin, RepeatedLogin, StaleLeave,
       vars

(* The steps, with the quantifiers that HandlePending and Next hide. *)
LEMMA NextCases ==
  ASSUME [Next]_vars
  PROVE  \/ Elsewhere \/ Load \/ Hook
         \/ \E c \in Conns : Close(c)
         \/ \E u \in Users, p \in Pids : Relogin(p, u)
         \/ \E c \in Conns, ch \in Channels, sn \in Sns : Join(c, ch, sn) \/ Leave(c, ch, sn)
         \/ \E u \in Users : RemoveLost(u)
BY DEF Next, HandlePending, Elsewhere

LEMMA PlayersMove ==
  ASSUME IInv, [Next]_vars
  PROVE  /\ players' \in Seq(Player) /\ Len(players) <= Len(players')
         /\ \A x \in DOMAIN players : PlayerMoves(x)
         /\ Load \/ Len(players') = Len(players)
<1>0. Len(players) \in Nat /\ players \in Seq(Player)
  BY DEF IInv, TypeOK
<1>1. CASE Elsewhere
  BY <1>0, <1>1, ElsewhereKeeps DEF PlayerMoves
<1>2. CASE Load
  <2>1. \A x \in DOMAIN players : PlayerMoves(x)
    <3>1. \A x \in DOMAIN players : players'[x] = players[x]
      BY <1>2, LoadFacts
    <3> QED BY <3>1 DEF PlayerMoves
  <2>2. players' \in Seq(Player) /\ Len(players') = Len(players) + 1
    BY <1>2, LoadFacts
  <2> QED BY <1>0, <1>2, <2>1, <2>2
<1>3. CASE Hook
  <2>1. \A x \in DOMAIN players : PlayerMoves(x)
    BY <1>3, HookFacts DEF PlayerMoves
  <2> QED BY <1>0, <1>3, <2>1, HookFacts
<1>4. ASSUME NEW c \in Conns, Close(c)
      PROVE  /\ players' \in Seq(Player) /\ Len(players) <= Len(players')
             /\ \A x \in DOMAIN players : PlayerMoves(x)
             /\ Len(players') = Len(players)
  BY <1>0, <1>4, CloseFacts
<1>5. ASSUME NEW u \in Users, NEW p \in Pids, Relogin(p, u)
      PROVE  /\ players' \in Seq(Player) /\ Len(players) <= Len(players')
             /\ \A x \in DOMAIN players : PlayerMoves(x)
             /\ Len(players') = Len(players)
  <2>1. \A x \in DOMAIN players : PlayerMoves(x)
    <3>1. \A x \in DOMAIN players :
            /\ players'[x].user = players[x].user
            /\ players'[x].conn = players[x].conn
            /\ players'[x].lost =>
                 players[x].lost \/ \E c \in Conns : client[c] = x /\ sock'[c] # "open"
      BY <1>5, ReloginFacts
    <3> QED BY <3>1 DEF PlayerMoves
  <2>2. players' \in Seq(Player) /\ Len(players') = Len(players)
    BY <1>5, ReloginFacts
  <2> QED BY <1>0, <2>1, <2>2
<1>6. ASSUME NEW c \in Conns, NEW ch \in Channels, NEW sn \in Sns,
             Join(c, ch, sn) \/ Leave(c, ch, sn)
      PROVE  /\ players' \in Seq(Player) /\ Len(players) <= Len(players')
             /\ \A x \in DOMAIN players : PlayerMoves(x)
             /\ Len(players') = Len(players)
  <2>1. CASE Join(c, ch, sn)
    <3>1. PICK p \in Pids : /\ p = Client(c) /\ p # None
                            /\ players' = [players EXCEPT ![p].in = @ \cup {ch}]
      BY <2>1 DEF Join, Acts
    <3>2. players' \in Seq(Player) /\ Len(players') = Len(players)
      BY <3>1, JoinFacts
    <3>3. \A x \in DOMAIN players : PlayerMoves(x)
      BY <3>1, JoinFacts
    <3> QED BY <1>0, <3>2, <3>3
  <2>2. CASE Leave(c, ch, sn)
    <3>1. PICK p \in Pids : /\ p = Client(c) /\ p # None
                            /\ players' = [players EXCEPT ![p].in = @ \ {ch}]
      BY <2>2 DEF Leave, Acts
    <3>2. players' \in Seq(Player) /\ Len(players') = Len(players)
      BY <3>1, LeaveFacts
    <3>3. \A x \in DOMAIN players : PlayerMoves(x)
      BY <3>1, LeaveFacts
    <3> QED BY <1>0, <3>2, <3>3
  <2> QED BY <1>6, <2>1, <2>2
<1>7. ASSUME NEW u \in Users, RemoveLost(u)
      PROVE  /\ players' \in Seq(Player) /\ Len(players) <= Len(players')
             /\ \A x \in DOMAIN players : PlayerMoves(x)
             /\ Len(players') = Len(players)
  BY <1>0, <1>7, RemoveFacts
<1> QED BY <1>1, <1>2, <1>3, <1>4, <1>5, <1>6, <1>7, NextCases

(* An open connection was open before. *)
LEMMA SockMoves ==
  ASSUME IInv, [Next]_vars
  PROVE  /\ sock' \in [Conns -> {"open", "closed", "gone"}]
         /\ \A c \in Conns : sock'[c] = "open" => sock[c] = "open"
<1> USE DEF IInv, TypeOK
<1>1. CASE UNCHANGED sock
  BY <1>1
<1>2. ASSUME NEW c \in Conns, Close(c) \/ Free(c)
      PROVE  /\ sock' \in [Conns -> {"open", "closed", "gone"}]
             /\ \A d \in Conns : sock'[d] = "open" => sock[d] = "open"
  BY <1>2 DEF Close, Free
<1>3. ASSUME NEW u \in Users, NEW p \in Pids, Relogin(p, u)
      PROVE  /\ sock' \in [Conns -> {"open", "closed", "gone"}]
             /\ \A d \in Conns : sock'[d] = "open" => sock[d] = "open"
  BY <1>3 DEF Relogin, Kicked
<1>4. ASSUME \/ \E c \in Conns, u \in Users : LoginChannel(c, u)
             \/ Load \/ LoadFails \/ Hook
             \/ \E u \in Users, p \in Pids : FirstLogin(p, u) \/ RepeatedLogin(p, u)
             \/ \E c \in Conns, ch \in Channels, sn \in Sns :
                  Join(c, ch, sn) \/ Leave(c, ch, sn) \/ StaleLeave(c, ch, sn)
             \/ \E u \in Users : RemoveLost(u)
             \/ UNCHANGED vars
      PROVE  UNCHANGED sock
  BY <1>4 DEF LoginChannel, Load, LoadFails, Hook, FirstLogin, RepeatedLogin, Join, Leave,
              StaleLeave, RemoveLost, vars, connVars
<1> QED BY <1>1, <1>2, <1>3, <1>4 DEF Next, HandlePending

-----------------------------------------------------------------------------
(* Types and holders *)

LEMMA PlainTypes ==
  ASSUME IInv, [Next]_vars
  PROVE  /\ auth' \subseteq Conns /\ client' \in [Conns -> Pids \cup {None}]
         /\ room' \in [Channels -> [Users -> Sns \cup {0, NoSn}]]
         /\ msgs' \in 0 .. MaxMsgs
<1> USE SessionAssumption DEF IInv, TypeOK
<1>1. CASE UNCHANGED <<auth, client, room, msgs>>
  BY <1>1
<1>2. CASE Hook
  <2>1. loading.id \in Pids /\ loading.conn \in Conns
    BY <1>2, HookFacts
  <2> QED BY <1>2, <2>1 DEF Hook
<1>3. CASE \E c \in Conns, u \in Users : LoginChannel(c, u)
  BY <1>3 DEF LoginChannel, connVars
<1>4. CASE \E u \in Users, p \in Pids : Relogin(p, u)
  <2>1. PICK u \in Users, p \in Pids : Relogin(p, u)
    BY <1>4
  <2>2. room' \in [Channels -> [Users -> Sns \cup {0, NoSn}]]
    BY <2>1 DEF Relogin
  <2> QED BY <2>1, <2>2 DEF Relogin
<1>5. ASSUME NEW c \in Conns, NEW ch \in Channels, NEW sn \in Sns,
             Join(c, ch, sn) \/ Leave(c, ch, sn) \/ StaleLeave(c, ch, sn)
      PROVE  /\ auth' \subseteq Conns /\ client' \in [Conns -> Pids \cup {None}]
             /\ room' \in [Channels -> [Users -> Sns \cup {0, NoSn}]]
             /\ msgs' \in 0 .. MaxMsgs
  <2>1. PICK p \in Pids :
          /\ p = Client(c) /\ p # None /\ msgs < MaxMsgs /\ msgs' = msgs + 1
          /\ \E r \in {sn, NoSn, 0, room[ch][players[p].user]} :
               room' = [room EXCEPT ![ch][players[p].user] = r]
          /\ UNCHANGED connVars
    BY <1>5 DEF Join, Leave, StaleLeave, Acts
  <2>2. players[p].user \in Users
    BY <2>1, WhoActs
  <2>3. room[ch][players[p].user] \in Sns \cup {0, NoSn}
    BY <2>2
  <2>4. PICK r \in Sns \cup {0, NoSn} : room' = [room EXCEPT ![ch][players[p].user] = r]
    BY <2>1, <2>3
  <2>5. room' \in [Channels -> [Users -> Sns \cup {0, NoSn}]]
    BY <2>2, <2>4
  <2> QED BY <2>1, <2>5 DEF connVars
<1>6. CASE \E u \in Users : RemoveLost(u)
  <2>1. PICK u \in Users : RemoveLost(u)
    BY <1>6
  <2>2. room' \in [Channels -> [Users -> Sns \cup {0, NoSn}]]
    BY <2>1 DEF RemoveLost, RoomsWithout
  <2> QED BY <2>1, <2>2 DEF RemoveLost, connVars
<1>7. ASSUME \/ \E c \in Conns : Close(c) \/ Free(c)
             \/ Load \/ LoadFails
             \/ \E u \in Users, p \in Pids : FirstLogin(p, u) \/ RepeatedLogin(p, u)
             \/ UNCHANGED vars
      PROVE  UNCHANGED <<auth, client, room, msgs>>
  BY <1>7 DEF Close, Free, Load, LoadFails, FirstLogin, RepeatedLogin, vars, connVars
<1> QED BY <1>1, <1>2, <1>3, <1>4, <1>5, <1>6, <1>7 DEF Next, HandlePending

(* What TypeOK says about the holders of the objects. *)
HolderTypes ==
  /\ logins \in Seq(Login)
  /\ loading = Idle \/ loading \in [id : Pids, conn : Conns]
  /\ pending \in Seq(Pids) /\ IsInjective(pending)
  /\ online \in [Users -> Pids \cup {None}]
  /\ \A i \in DOMAIN pending : \A u \in Users : pending[i] # online[u]
  /\ \A i \in DOMAIN pending : pending[i] # loading.id

Holders == HolderTypes /\ HoldersInv

LEMMA HoldersNow == ASSUME IInv PROVE Holders
<1>1. \A i \in DOMAIN pending : pending[i] \in ToSet(pending)
  BY DEF ToSet
<1>2. \A u \in Users : online[u] \in {online[v] : v \in Users}
  OBVIOUS
<1>3. ToSet(pending) \cap {online[v] : v \in Users} = {} /\ loading.id \notin ToSet(pending)
  BY DEF IInv, TypeOK
<1>4. \A i \in DOMAIN pending : \A u \in Users : pending[i] # online[u]
  BY <1>1, <1>2, <1>3
<1>5. \A i \in DOMAIN pending : pending[i] # loading.id
  BY <1>1, <1>3
<1> QED BY <1>4, <1>5 DEF IInv, TypeOK, Holders, HolderTypes

LEMMA HoldersSame ==
  ASSUME IInv, [Next]_vars, UNCHANGED <<loading, pending, online>>,
         logins' \in Seq(Login), Len(players') + Len(logins') <= MaxLogins, ~Hook
  PROVE  Holders'
<1>1. /\ \A x \in DOMAIN players : x \in DOMAIN players' /\ players'[x].user = players[x].user
                                   /\ players'[x].conn = players[x].conn
  BY PlayersMove DEF PlayerMoves, IInv, TypeOK
<1>2. HoldersInv'
  BY <1>1 DEF HoldersInv, IInv, Idle
<1>3. HolderTypes'
  BY HoldersNow DEF Holders, HolderTypes, Idle, IsInjective
<1> QED BY <1>2, <1>3 DEF Holders

LEMMA HoldersStep ==
  ASSUME IInv, [Next]_vars
  PROVE  Holders'
<1>0. /\ players \in Seq(Player) /\ Len(players) \in Nat /\ logins \in Seq(Login)
      /\ Len(logins) \in Nat /\ MaxLogins \in Nat
      /\ Len(players) + Len(logins) <= MaxLogins
  BY SessionAssumption DEF IInv, TypeOK, HoldersInv
<1>1. CASE UNCHANGED <<logins, loading, pending, online>> /\ ~Load /\ ~Hook
  <2>1. Len(players') = Len(players)
    BY <1>1, PlayersMove
  <2> QED BY <1>0, <1>1, <2>1, HoldersSame
<1>2. ASSUME NEW c \in Conns, NEW u \in Users, LoginChannel(c, u)
      PROVE  Holders'
  <2>1. /\ UNCHANGED <<loading, pending, online, players>>
        /\ logins' = Append(logins, [conn |-> c, user |-> u])
        /\ Len(players) + Len(logins) < MaxLogins
    BY <1>2 DEF LoginChannel
  <2>2. logins' \in Seq(Login) /\ Len(logins') = Len(logins) + 1
    BY <1>0, <2>1 DEF Login
  <2>3. ~Hook
    BY <1>2, <1>0 DEF LoginChannel, Hook, Idle, IInv, TypeOK, LetGo
  <2> QED BY <1>0, <2>1, <2>2, <2>3, HoldersSame
<1>3. CASE LoadFails
  <2>1. UNCHANGED <<loading, pending, online, players>> /\ logins # <<>> /\ logins' = Tail(logins)
    BY <1>3 DEF LoadFails
  <2>2. logins' \in Seq(Login) /\ Len(logins') = Len(logins) - 1
    BY <1>0, <2>1
  <2>3. ~Hook
    BY <1>3 DEF LoadFails, Hook
  <2> QED BY <1>0, <2>1, <2>2, <2>3, HoldersSame
<1>4. CASE Load
  <2>1. /\ UNCHANGED <<pending, online>> /\ loading = Idle
        /\ logins' \in Seq(Login) /\ Len(logins') = Len(logins) - 1
        /\ players' \in Seq(Player) /\ Len(players') = Len(players) + 1
        /\ loading' \in [id : Pids, conn : Conns] /\ loading'.id = Len(players) + 1
        /\ players'[Len(players) + 1].conn = None
        /\ \A x \in DOMAIN players : players'[x] = players[x]
    BY <1>4, LoadFacts DEF Load
  <2>2. Len(players') + Len(logins') <= MaxLogins
    BY <1>0, <2>1
  <2>3. loading'.id \in DOMAIN players' /\ loading'.id \notin DOMAIN players
        /\ DOMAIN players \subseteq DOMAIN players'
    BY <1>0, <2>1
  <2>4. \A i \in DOMAIN pending : pending[i] # loading'.id
    BY <2>3 DEF IInv, HoldersInv
  <2>5. \A u \in Users : online[u] # None => online[u] # loading'.id
    BY <2>3 DEF IInv, HoldersInv
  <2>6. HoldersInv'
    BY <2>1, <2>2, <2>3, <2>5 DEF IInv, HoldersInv
  <2>7. HolderTypes'
    BY <2>1, <2>4, HoldersNow DEF Holders, HolderTypes, IsInjective
  <2> QED BY <2>6, <2>7 DEF Holders
<1>5. CASE Hook
  <2>1. /\ UNCHANGED <<online, logins>> /\ loading' = Idle /\ pending' = Append(pending, loading.id)
        /\ loading.id \in DOMAIN players /\ loading.id \in Pids /\ loading # Idle
        /\ Len(players') = Len(players)
        /\ \A x \in DOMAIN players : players'[x].user = players[x].user
    BY <1>5, HookFacts DEF Hook, LetGo
  <2>2. Holders /\ pending \in Seq(Pids)
    BY HoldersNow DEF Holders, HolderTypes
  <2>3. DOMAIN players' = DOMAIN players /\ players' \in Seq(Player)
    BY <1>0, <1>5, <2>1, HookFacts
  <2>4. /\ pending' \in Seq(Pids) /\ Len(pending') = Len(pending) + 1
        /\ \A i \in DOMAIN pending : pending'[i] = pending[i]
        /\ pending'[Len(pending) + 1] = loading.id
        /\ \A i \in DOMAIN pending' : i \in DOMAIN pending \/ i = Len(pending) + 1
    BY <2>1, <2>2
  <2>5. IsInjective(pending')
    BY <2>2, <2>4 DEF IsInjective, Holders, HolderTypes
  <2>6. loading.id # None
    BY <2>1 DEF Pids, None
  <2>7. \A i \in DOMAIN pending' : pending'[i] \in DOMAIN players' /\ pending'[i] # None
    BY <2>1, <2>2, <2>3, <2>4, <2>6 DEF Holders, HoldersInv, Pids, None
  <2>8. \A i \in DOMAIN pending' : \A u \in Users : pending'[i] # online'[u]
    BY <2>1, <2>2, <2>4, <2>6 DEF Holders, HolderTypes, HoldersInv
  <2>9. HolderTypes'
    BY <1>0, <2>1, <2>2, <2>4, <2>5, <2>7, <2>8 DEF HolderTypes, Holders, Idle
  <2>10. HoldersInv'
    BY <1>0, <2>1, <2>2, <2>3, <2>7 DEF Holders, HoldersInv, Idle
  <2> QED BY <2>9, <2>10 DEF Holders
<1>6. ASSUME NEW u \in Users, NEW p \in Pids,
             FirstLogin(p, u) \/ RepeatedLogin(p, u) \/ Relogin(p, u)
      PROVE  Holders'
  <2>1. /\ UNCHANGED <<logins, loading>> /\ pending' = Tail(pending) /\ Arrives(p, u)
        /\ online' = online \/ online' = [online EXCEPT ![u] = p]
    BY <1>6 DEF FirstLogin, RepeatedLogin, Relogin
  <2>2. /\ p \in DOMAIN players /\ players[p].user = u /\ p # loading.id
        /\ p = Head(pending) /\ pending # <<>>
    BY <2>1, ArrivesFacts DEF Arrives
  <2>3. /\ pending' \in Seq(Pids) /\ IsInjective(pending')
        /\ \A i \in DOMAIN pending' : i + 1 \in DOMAIN pending /\ pending'[i] = pending[i + 1]
        /\ p = pending[1] /\ 1 \in DOMAIN pending
    BY <2>1, <2>2, PendingHead DEF IInv
  <2>4. Holders /\ pending \in Seq(Pids) /\ pending' \in Seq(Pids)
    BY <2>3, HoldersNow DEF Holders, HolderTypes
  <2>5. \A i \in DOMAIN pending' : pending'[i] # p
    BY <2>3, <2>4 DEF IsInjective, Holders, HolderTypes
  <2>6. /\ online' \in [Users -> Pids \cup {None}]
        /\ \A v \in Users : online'[v] = online[v] \/ (v = u /\ online'[v] = p)
    BY <2>1, <2>4 DEF Holders, HolderTypes
  <2>7. /\ \A i \in DOMAIN pending' : \A v \in Users : pending'[i] # online'[v]
        /\ \A i \in DOMAIN pending' : pending'[i] # loading.id
    BY <2>3, <2>4, <2>5, <2>6 DEF Holders, HolderTypes
  <2>8. HolderTypes'
    BY <2>1, <2>3, <2>4, <2>6, <2>7 DEF HolderTypes, Holders
  <2>9. ~Load /\ ~Hook
    <3>1. Len(pending') = Len(pending) - 1 /\ Len(pending) \in Nat
      BY <2>1, <2>2, <2>4
    <3>2. Load => Len(pending') = Len(pending)
      BY DEF Load
    <3>3. Hook => Len(pending') = Len(pending) + 1
      BY <2>4 DEF Hook
    <3> QED BY <3>1, <3>2, <3>3
  <2>10. /\ Len(players') = Len(players) /\ players' \in Seq(Player)
         /\ DOMAIN players' = DOMAIN players
         /\ \A x \in DOMAIN players : /\ players'[x].user = players[x].user
                                      /\ players'[x].conn = players[x].conn
    BY <1>0, <2>9, PlayersMove DEF PlayerMoves
  <2>11. HoldersInv'
    <3>1. HoldersInv /\ UNCHANGED loading
      BY <2>1, <2>4 DEF Holders
    <3>2. Len(players') + Len(logins') <= MaxLogins
      BY <2>1, <2>10, <3>1 DEF HoldersInv
    <3>3. \A i \in DOMAIN pending' : pending'[i] \in DOMAIN players'
      BY <2>3, <2>10, <3>1 DEF HoldersInv
    <3>4. loading # Idle => /\ loading.id \in DOMAIN players'
                            /\ players'[loading.id].conn = None
      BY <2>10, <3>1 DEF HoldersInv
    <3>5. ASSUME NEW v \in Users, online'[v] # None
          PROVE  /\ online'[v] \in DOMAIN players' /\ players'[online'[v]].user = v
                 /\ online'[v] # loading.id
      BY <2>2, <2>6, <2>10, <3>1, <3>5 DEF HoldersInv
    <3> QED BY <3>1, <3>2, <3>3, <3>4, <3>5 DEF HoldersInv
  <2> QED BY <2>8, <2>11 DEF Holders
<1>7. ASSUME NEW u \in Users, RemoveLost(u)
      PROVE  Holders'
  <2>1. /\ UNCHANGED <<logins, loading, pending>> /\ online' = [online EXCEPT ![u] = None]
        /\ Len(players') = Len(players) /\ players' \in Seq(Player)
        /\ \A x \in DOMAIN players : players'[x].user = players[x].user
    <3>1. \A x \in DOMAIN players : PlayerMoves(x)
      BY <1>7, RemoveFacts
    <3>2. Len(players') = Len(players) /\ players' \in Seq(Player)
      BY <1>7, RemoveFacts
    <3> QED BY <1>7, <3>1, <3>2 DEF RemoveLost, listVars, PlayerMoves
  <2>2. Holders
    BY HoldersNow
  <2>3. /\ online' \in [Users -> Pids \cup {None}]
        /\ \A v \in Users : online'[v] \in {online[v], None}
    BY <2>1, <2>2 DEF Holders, HolderTypes
  <2>4. \A i \in DOMAIN pending : pending[i] # None
    <3>1. \A i \in DOMAIN pending : pending[i] \in Pids
      BY <2>2 DEF Holders, HolderTypes
    <3> QED BY <3>1, SessionAssumption DEF Pids, None
  <2>5. ~Hook
    BY <2>1 DEF Hook, LetGo
  <2>6. \A x \in DOMAIN players : players'[x].conn = players[x].conn
    BY <2>5, PlayersMove DEF PlayerMoves
  <2>7. HolderTypes'
    BY <2>1, <2>2, <2>3, <2>4 DEF HolderTypes, Holders
  <2>8. HoldersInv'
    <3>1. HoldersInv /\ UNCHANGED <<loading, pending, logins>>
      BY <2>1, <2>2 DEF Holders
    <3>2. DOMAIN players' = DOMAIN players
      BY <1>0, <2>1
    <3>3. Len(players') + Len(logins') <= MaxLogins
      BY <2>1, <3>1 DEF HoldersInv
    <3>4. \A i \in DOMAIN pending' : pending'[i] \in DOMAIN players'
      BY <3>1, <3>2 DEF HoldersInv
    <3>5. loading # Idle => /\ loading.id \in DOMAIN players'
                            /\ players'[loading.id].conn = None
      BY <2>6, <3>1, <3>2 DEF HoldersInv
    <3>6. ASSUME NEW v \in Users, online'[v] # None
          PROVE  /\ online'[v] \in DOMAIN players' /\ players'[online'[v]].user = v
                 /\ online'[v] # loading.id
      BY <2>1, <2>3, <3>1, <3>2, <3>6 DEF HoldersInv
    <3> QED BY <3>1, <3>3, <3>4, <3>5, <3>6 DEF HoldersInv
  <2> QED BY <2>7, <2>8 DEF Holders
<1>8. ASSUME \/ \E c \in Conns : Close(c) \/ Free(c)
             \/ \E c \in Conns, ch \in Channels, sn \in Sns :
                  Join(c, ch, sn) \/ Leave(c, ch, sn) \/ StaleLeave(c, ch, sn)
             \/ UNCHANGED vars
      PROVE  UNCHANGED <<logins, loading, pending, online>> /\ ~Load /\ ~Hook
  <2>1. UNCHANGED <<logins, loading, pending, online>>
    BY <1>8 DEF Close, Free, Join, Leave, StaleLeave, vars, listVars
  <2>2. ~Load
    <3>1. SUFFICES ASSUME Load PROVE FALSE
      OBVIOUS
    <3>2. Len(logins') = Len(logins) - 1
      BY <3>1, LoadFacts
    <3> QED BY <1>0, <2>1, <3>2
  <2>3. ~Hook
    BY <2>1 DEF Hook, LetGo
  <2> QED BY <2>1, <2>2, <2>3
<1> QED BY <1>1, <1>2, <1>3, <1>4, <1>5, <1>6, <1>7, <1>8 DEF Next, HandlePending

-----------------------------------------------------------------------------
(* Connections and players *)

(* Only the database thread makes a connection point to a player, and only *)
(* a handled login is answered.                                            *)
LEMMA ClientMoves ==
  ASSUME [Next]_vars
  PROVE  \/ UNCHANGED client
         \/ Hook /\ client' = [client EXCEPT ![loading.conn] = loading.id]
BY DEF Next, HandlePending, Close, Free, LoginChannel, Load, LoadFails, Hook, FirstLogin,
       RepeatedLogin, Relogin, Join, Leave, StaleLeave, RemoveLost, vars, connVars

LEMMA AnswerMoves ==
  ASSUME [Next]_vars
  PROVE  \/ UNCHANGED answered
         \/ \E u \in Users, p \in Pids : Arrives(p, u) /\ answered' = Told(p)
<1>1. ASSUME \/ \E c \in Conns : Close(c) \/ Free(c)
             \/ \E c \in Conns, u \in Users : LoginChannel(c, u)
             \/ Load \/ LoadFails \/ Hook
             \/ \E u \in Users, p \in Pids : RepeatedLogin(p, u)
             \/ \E c \in Conns, ch \in Channels, sn \in Sns :
                  Join(c, ch, sn) \/ Leave(c, ch, sn) \/ StaleLeave(c, ch, sn)
             \/ \E u \in Users : RemoveLost(u)
             \/ UNCHANGED vars
      PROVE  UNCHANGED answered
  BY <1>1 DEF Close, Free, LoginChannel, Load, LoadFails, Hook, RepeatedLogin, Join, Leave,
              StaleLeave, RemoveLost, vars, history
<1>2. ASSUME NEW u \in Users, NEW p \in Pids, FirstLogin(p, u) \/ Relogin(p, u)
      PROVE  Arrives(p, u) /\ answered' = Told(p)
  BY <1>2 DEF FirstLogin, Relogin
<1> QED BY <1>1, <1>2 DEF Next, HandlePending

(* A player keeps the connection that he was given. *)
LEMMA ConnKept ==
  ASSUME IInv, [Next]_vars, NEW p \in DOMAIN players, players[p].conn # None
  PROVE  p \in DOMAIN players' /\ players'[p].conn = players[p].conn
<1>1. p \in DOMAIN players' /\ PlayerMoves(p)
  BY PlayersMove DEF IInv, TypeOK
<1>2. ~(p = loading.id /\ Hook)
  BY DEF Hook, IInv, HoldersInv
<1> QED BY <1>1, <1>2 DEF PlayerMoves

LEMMA NewObject ==
  ASSUME IInv, [Next]_vars, NEW p \in DOMAIN players', p \notin DOMAIN players
  PROVE  /\ Load /\ p = loading'.id /\ players'[p].conn = None
         /\ players'[p].lost = FALSE /\ players'[p].in = {}
<1>1. players \in Seq(Player) /\ players' \in Seq(Player)
  BY PlayersMove DEF IInv, TypeOK
<1>2. Load
  BY <1>1, PlayersMove
<1>3. p = Len(players) + 1
  BY <1>1, <1>2, LoadFacts
<1> QED BY <1>2, <1>3, LoadFacts

LEMMA HookedStep ==
  ASSUME IInv, [Next]_vars
  PROVE  HookedInv'
<1>1. players \in Seq(Player) /\ players' \in Seq(Player) /\ DOMAIN players \subseteq DOMAIN players'
  BY PlayersMove DEF IInv, TypeOK
<1>2. ASSUME NEW c \in Conns, client[c] # None
      PROVE  client[c] \in DOMAIN players' /\ players'[client[c]].conn = c
  <2>1. client[c] \in DOMAIN players /\ players[client[c]].conn = c /\ c # None
    BY <1>2, SessionAssumption DEF IInv, HookedInv
  <2> QED BY <2>1, ConnKept
<1>3. ASSUME NEW c \in Conns, client'[c] # None
      PROVE  client'[c] \in DOMAIN players' /\ players'[client'[c]].conn = c
  <2>1. CASE client'[c] = client[c]
    BY <2>1, <1>2, <1>3
  <2>2. CASE client'[c] # client[c]
    <3>1. Hook /\ client' = [client EXCEPT ![loading.conn] = loading.id]
      BY <2>2, ClientMoves
    <3>2. c = loading.conn /\ client'[c] = loading.id
      BY <2>2, <3>1 DEF IInv, TypeOK
    <3> QED BY <1>1, <3>1, <3>2, HookFacts
  <2> QED BY <2>1, <2>2
<1>4. ASSUME NEW c \in Conns, answered'[c] # None
      PROVE  answered'[c] \in DOMAIN players'
  <2>1. CASE UNCHANGED answered
    BY <1>1, <1>4, <2>1 DEF IInv, HookedInv
  <2>2. ASSUME NEW u \in Users, NEW p \in Pids, Arrives(p, u), answered' = Told(p)
        PROVE  answered'[c] \in DOMAIN players'
    BY <1>1, <1>4, <2>2, ArrivesFacts DEF Told, IInv, HookedInv
  <2> QED BY <2>1, <2>2, AnswerMoves
<1>5. ASSUME NEW p \in DOMAIN players', players'[p].lost
      PROVE  players'[p].conn # None /\ sock'[players'[p].conn] # "open"
  <2>1. p \in DOMAIN players
    BY <1>5, NewObject
  <2>2. players[p] \in Player
    BY <1>1, <2>1
  <2>3. players[p].lost \/ \E c \in Conns : client[c] = p /\ sock'[c] # "open"
    BY <1>5, <2>1, PlayersMove DEF PlayerMoves
  <2>4. CASE players[p].lost
    <3>1. players[p].conn # None /\ sock[players[p].conn] # "open"
      BY <2>1, <2>4 DEF IInv, HookedInv
    <3>2. players'[p].conn = players[p].conn
      BY <2>1, <3>1, ConnKept
    <3>3. players[p].conn \in Conns
      BY <2>2, <3>1 DEF Player
    <3> QED BY <3>1, <3>2, <3>3, SockMoves
  <2>5. ASSUME NEW c \in Conns, client[c] = p, sock'[c] # "open"
        PROVE  players'[p].conn # None /\ sock'[players'[p].conn] # "open"
    <3>1. p # None
      BY <1>1, <2>1 DEF None
    <3>2. players'[p].conn = c
      BY <1>2, <2>5, <3>1
    <3> QED BY <2>5, <3>2, SessionAssumption
  <2> QED BY <2>3, <2>4, <2>5
<1> QED BY <1>3, <1>4, <1>5 DEF HookedInv

-----------------------------------------------------------------------------
(* The invariant *)

LEMMA IInvInit == Init => IInv
<1> SUFFICES ASSUME Init PROVE IInv
  OBVIOUS
<1> USE SessionAssumption DEF Init
<1>1. players = <<>> /\ logins = <<>> /\ pending = <<>> /\ loading = Idle
  OBVIOUS
<1>2. \A u \in Users : online[u] = None
  OBVIOUS
<1>3. HoldersInv
  BY <1>1, <1>2 DEF HoldersInv
<1>4. HookedInv
  BY <1>1 DEF HookedInv
<1>5. ToSet(pending) = {}
  BY <1>1 DEF ToSet
<1>6. TypeOK
  BY <1>1, <1>5 DEF TypeOK, Pids, None, Idle, IsInjective
<1> QED BY <1>3, <1>4, <1>6 DEF IInv

LEMMA IInvStep ==
  ASSUME IInv, [Next]_vars
  PROVE  IInv'
<1>1. Holders' /\ HookedInv'
  BY HoldersStep, HookedStep
<1>2. players' \in Seq(Player) /\ Len(players') <= MaxLogins
  <2>1. players' \in Seq(Player) /\ logins' \in Seq(Login)
    BY <1>1, PlayersMove DEF Holders, HolderTypes
  <2>2. Len(players') + Len(logins') <= MaxLogins
    BY <1>1 DEF Holders, HoldersInv
  <2> QED BY <2>1, <2>2, SessionAssumption
<1>3. ToSet(pending') \cap {online'[u] : u \in Users} = {} /\ loading'.id \notin ToSet(pending')
  BY <1>1 DEF Holders, HolderTypes, ToSet
<1>4. TypeOK'
  BY <1>1, <1>2, <1>3, SockMoves, PlainTypes DEF TypeOK, Holders, HolderTypes
<1> QED BY <1>1, <1>4 DEF IInv, Holders

THEOREM TypeCorrect == Spec => []IInv
<1>1. Init => IInv
  BY IInvInit
<1>2. IInv /\ [Next]_vars => IInv'
  BY IInvStep
<1> QED BY <1>1, <1>2, PTL DEF Spec

-----------------------------------------------------------------------------
(* One connection per user *)

LEMMA OnlineMoves ==
  ASSUME [Next]_vars
  PROVE  \/ UNCHANGED online
         \/ \E u \in Users, p \in Pids :
              (FirstLogin(p, u) \/ Relogin(p, u)) /\ online' = [online EXCEPT ![u] = p]
         \/ \E u \in Users : RemoveLost(u) /\ online' = [online EXCEPT ![u] = None]
<1>1. ASSUME \/ \E c \in Conns : Close(c) \/ Free(c)
             \/ \E c \in Conns, u \in Users : LoginChannel(c, u)
             \/ Load \/ LoadFails \/ Hook
             \/ \E u \in Users, p \in Pids : RepeatedLogin(p, u)
             \/ \E c \in Conns, ch \in Channels, sn \in Sns :
                  Join(c, ch, sn) \/ Leave(c, ch, sn) \/ StaleLeave(c, ch, sn)
             \/ UNCHANGED vars
      PROVE  UNCHANGED online
  BY <1>1 DEF Close, Free, LoginChannel, Load, LoadFails, Hook, RepeatedLogin, Join, Leave,
              StaleLeave, vars
<1>2. ASSUME NEW u \in Users, NEW p \in Pids, FirstLogin(p, u) \/ Relogin(p, u)
      PROVE  online' = [online EXCEPT ![u] = p]
  BY <1>2 DEF FirstLogin, Relogin
<1>3. ASSUME NEW u \in Users, RemoveLost(u)
      PROVE  online' = [online EXCEPT ![u] = None]
  BY <1>3 DEF RemoveLost
<1> QED BY <1>1, <1>2, <1>3 DEF Next, HandlePending

(* Who is served over an open connection stays online as long as that      *)
(* connection is open: a relogin closes it, a removal needs its close.     *)
LEMMA ServedStays ==
  ASSUME IInv, [Next]_vars, NEW c \in Conns, NEW p \in DOMAIN players, sock'[c] = "open",
         players[p].conn = c, online[players[p].user] = p
  PROVE  online'[players[p].user] = p
<1> DEFINE v == players[p].user
<1>1. sock[c] = "open" /\ c # None /\ p # None /\ v \in Users
  <2>1. players[p] \in Player /\ p # None
    BY DEF IInv, TypeOK, None
  <2> QED BY <2>1, SockMoves, SessionAssumption DEF Player
<1>2. ASSUME UNCHANGED online
      PROVE  online'[v] = p
  BY <1>2
<1>3. ASSUME NEW u \in Users, NEW q \in Pids, FirstLogin(q, u)
      PROVE  online'[v] = p
  BY <1>1, <1>3 DEF FirstLogin, IInv, TypeOK
<1>4. ASSUME NEW u \in Users, NEW q \in Pids, Relogin(q, u)
      PROVE  online'[v] = p
  <2>1. CASE u = v
    <3>1. Socket(p) = c
      BY <1>1 DEF Socket
    <3>2. sock'[c] = "closed"
      BY <1>1, <1>4, <2>1, <3>1 DEF Relogin, Kicked, IInv, TypeOK
    <3> QED BY <3>2
  <2>2. CASE u # v
    BY <1>1, <1>4, <2>2 DEF Relogin, IInv, TypeOK
  <2> QED BY <2>1, <2>2
<1>5. ASSUME NEW u \in Users, RemoveLost(u)
      PROVE  online'[v] = p
  <2>1. CASE u = v
    BY <1>1, <1>5, <2>1 DEF RemoveLost, Expired, IInv, HookedInv
  <2>2. CASE u # v
    BY <1>1, <1>5, <2>2 DEF RemoveLost, IInv, TypeOK
  <2> QED BY <2>1, <2>2
<1>6. \/ UNCHANGED online
      \/ \E u \in Users, q \in Pids : FirstLogin(q, u) \/ Relogin(q, u)
      \/ \E u \in Users : RemoveLost(u)
  BY OnlineMoves
<1> HIDE DEF v
<1>7. online'[v] = p
  BY <1>2, <1>3, <1>4, <1>5, <1>6
<1> QED BY <1>7 DEF v

LEMMA OneConnectionStep ==
  ASSUME IInv, OneConnection, [Next]_vars
  PROVE  OneConnection'
<1> SUFFICES ASSUME NEW c \in Conns, sock'[c] = "open", answered'[c] # None
             PROVE  /\ online'[players'[answered'[c]].user] = answered'[c]
                    /\ players'[answered'[c]].conn = c
  BY DEF OneConnection
<1>1. sock[c] = "open" /\ c # None
  BY SockMoves, SessionAssumption
<1>2. CASE answered'[c] = answered[c]
  <2> DEFINE p == answered[c]
  <2>1. /\ p \in DOMAIN players /\ online[players[p].user] = p /\ players[p].conn = c
        /\ answered'[c] = p
    BY <1>1, <1>2 DEF OneConnection, IInv, HookedInv
  <2> HIDE DEF p
  <2>2. online'[players[p].user] = p
    BY <2>1, ServedStays
  <2>3. players'[p].conn = c
    BY <1>1, <2>1, ConnKept
  <2>4. players'[p].user = players[p].user
    BY <2>1, PlayersMove DEF PlayerMoves
  <2> QED BY <2>1, <2>2, <2>3, <2>4
<1>3. CASE answered'[c] # answered[c]
  <2>1. PICK u \in Users, p \in Pids : (FirstLogin(p, u) \/ Relogin(p, u)) /\ answered' = Told(p)
    <3>1. ASSUME \/ \E d \in Conns : Close(d) \/ Free(d)
                 \/ \E d \in Conns, u \in Users : LoginChannel(d, u)
                 \/ Load \/ LoadFails \/ Hook
                 \/ \E u \in Users, p \in Pids : RepeatedLogin(p, u)
                 \/ \E d \in Conns, ch \in Channels, sn \in Sns :
                      Join(d, ch, sn) \/ Leave(d, ch, sn) \/ StaleLeave(d, ch, sn)
                 \/ \E u \in Users : RemoveLost(u)
                 \/ UNCHANGED vars
          PROVE  UNCHANGED answered
      BY <3>1 DEF Close, Free, LoginChannel, Load, LoadFails, Hook, RepeatedLogin, Join, Leave,
                  StaleLeave, RemoveLost, vars, history
    <3>2. ASSUME NEW u \in Users, NEW p \in Pids, FirstLogin(p, u) \/ Relogin(p, u)
          PROVE  answered' = Told(p)
      BY <3>2 DEF FirstLogin, Relogin
    <3> QED BY <1>3, <3>1, <3>2 DEF Next, HandlePending
  <2>2. c = Socket(p) /\ answered'[c] = p
    BY <1>3, <2>1 DEF Told
  <2>3. p \in DOMAIN players /\ players[p].user = u
    BY <2>1, ArrivesFacts DEF FirstLogin, Relogin
  <2>4. players[p].conn = c
    BY <1>1, <2>2, <2>3, SocketType DEF IInv
  <2>5. players'[p].conn = c
    BY <1>1, <2>3, <2>4, ConnKept
  <2>6. players'[p].user = u
    BY <2>3, PlayersMove DEF PlayerMoves
  <2>7. online'[u] = p
    BY <2>1 DEF FirstLogin, Relogin, IInv, TypeOK
  <2> QED BY <2>2, <2>5, <2>6, <2>7
<1> QED BY <1>2, <1>3

(* However logins, closes, kicks and removals of any number of connections *)
(* interleave, a user is served over one connection, the one of the player *)
(* object in online_players; and the variables keep their types.           *)
THEOREM OneConnectionServes == Spec => []SessionInv
<1>1. Init => IInv /\ OneConnection
  BY IInvInit DEF Init, OneConnection
<1>2. IInv /\ OneConnection /\ [Next]_vars => (IInv /\ OneConnection)'
  BY IInvStep, OneConnectionStep
<1>3. IInv /\ OneConnection => SessionInv
  BY DEF IInv, SessionInv
<1> QED BY <1>1, <1>2, <1>3, PTL DEF Spec

-----------------------------------------------------------------------------
(* Channels *)

(* Who changes the channels that a player is in. *)
LEMMA InMoves ==
  ASSUME IInv, [Next]_vars, NEW p \in DOMAIN players
  PROVE  \/ players'[p].in = players[p].in
         \/ \E c \in Conns, ch \in Channels, sn \in Sns :
              (Join(c, ch, sn) \/ Leave(c, ch, sn)) /\ p = Client(c)
         \/ \E u \in Users : Relogin(p, u) \/ (RemoveLost(u) /\ online[u] = p)
<1>1. CASE Elsewhere
  BY <1>1, ElsewhereKeeps
<1>2. CASE Load \/ Hook
  BY <1>2, LoadFacts, HookFacts
<1>3. ASSUME NEW c \in Conns, Close(c)
      PROVE  players'[p].in = players[p].in
  BY <1>3, CloseFacts
<1>4. ASSUME NEW u \in Users, NEW q \in Pids, Relogin(q, u)
      PROVE  players'[p].in = players[p].in \/ p = q
  <2>1. \A x \in DOMAIN players : x # q => players'[x].in = players[x].in
    BY <1>4, ReloginFacts
  <2> QED BY <2>1
<1>5. ASSUME NEW c \in Conns, NEW ch \in Channels, NEW sn \in Sns,
             Join(c, ch, sn) \/ Leave(c, ch, sn)
      PROVE  players'[p].in = players[p].in \/ p = Client(c)
  <2>1. CASE Join(c, ch, sn)
    <3>1. PICK q \in Pids : /\ q = Client(c) /\ q # None
                            /\ players' = [players EXCEPT ![q].in = @ \cup {ch}]
      BY <2>1 DEF Join, Acts
    <3> QED BY <3>1, JoinFacts
  <2>2. CASE Leave(c, ch, sn)
    <3>1. PICK q \in Pids : /\ q = Client(c) /\ q # None
                            /\ players' = [players EXCEPT ![q].in = @ \ {ch}]
      BY <2>2 DEF Leave, Acts
    <3> QED BY <3>1, LeaveFacts
  <2> QED BY <1>5, <2>1, <2>2
<1>6. ASSUME NEW u \in Users, RemoveLost(u)
      PROVE  players'[p].in = players[p].in \/ online[u] = p
  BY <1>6, RemoveFacts
<1> QED BY <1>1, <1>2, <1>3, <1>4, <1>5, <1>6, NextCases

LEMMA ListMoves ==
  ASSUME [Next]_vars
  PROVE  \/ UNCHANGED <<loading, pending>>
         \/ Load /\ UNCHANGED pending
         \/ Hook /\ loading' = Idle /\ pending' = Append(pending, loading.id)
         \/ pending # <<>> /\ pending' = Tail(pending) /\ UNCHANGED loading
<1>1. ASSUME \/ \E c \in Conns : Close(c) \/ Free(c)
             \/ \E c \in Conns, u \in Users : LoginChannel(c, u)
             \/ LoadFails
             \/ \E c \in Conns, ch \in Channels, sn \in Sns :
                  Join(c, ch, sn) \/ Leave(c, ch, sn) \/ StaleLeave(c, ch, sn)
             \/ \E u \in Users : RemoveLost(u)
             \/ UNCHANGED vars
      PROVE  UNCHANGED <<loading, pending>>
  BY <1>1 DEF Close, Free, LoginChannel, LoadFails, Join, Leave, StaleLeave, RemoveLost,
              vars, listVars
<1>2. ASSUME NEW u \in Users, NEW p \in Pids,
             FirstLogin(p, u) \/ RepeatedLogin(p, u) \/ Relogin(p, u)
      PROVE  pending # <<>> /\ pending' = Tail(pending) /\ UNCHANGED loading
  BY <1>2 DEF FirstLogin, RepeatedLogin, Relogin, Arrives
<1>3. Load => UNCHANGED pending
  BY DEF Load
<1>4. Hook => loading' = Idle /\ pending' = Append(pending, loading.id)
  BY DEF Hook, LetGo
<1> QED BY <1>1, <1>2, <1>3, <1>4 DEF Next, HandlePending

LEMMA WaitingBefore ==
  ASSUME IInv, [Next]_vars, NEW p \in DOMAIN players, Waiting(p)'
  PROVE  Waiting(p) /\ \A u \in Users : online'[u] # p
<1>1. p # None /\ players \in Seq(Player)
  BY DEF IInv, TypeOK, None
<1>2. p = loading'.id \/ \E i \in DOMAIN pending' : p = pending'[i]
  BY DEF Waiting, ToSet
<1>3. \A u \in Users : online'[u] # p
  BY <1>1, <1>2, HoldersStep DEF Holders, HolderTypes, HoldersInv
<1>4. ToSet(pending) \subseteq {x \in Pids : Waiting(x)} /\ pending \in Seq(Pids)
  BY DEF Waiting, ToSet, IInv, TypeOK
<1>5. ASSUME UNCHANGED <<loading, pending>>
      PROVE  Waiting(p)
  BY <1>2, <1>5 DEF Waiting, ToSet
<1>6. ASSUME Load /\ UNCHANGED pending
      PROVE  Waiting(p)
  BY <1>1, <1>2, <1>6, LoadFacts DEF Waiting, ToSet
<1>7. ASSUME Hook /\ loading' = Idle /\ pending' = Append(pending, loading.id)
      PROVE  Waiting(p)
  <2>1. PICK i \in DOMAIN pending' : p = pending'[i]
    BY <1>1, <1>2, <1>7 DEF Idle
  <2>2. loading.id \in Pids
    BY <1>7, HookFacts
  <2>3. i \in DOMAIN pending \/ p = loading.id
    BY <1>4, <1>7, <2>1, <2>2
  <2>4. i \in DOMAIN pending => p = pending[i]
    BY <1>4, <1>7, <2>1, <2>2
  <2> QED BY <2>3, <2>4 DEF Waiting, ToSet
<1>8. ASSUME pending # <<>> /\ pending' = Tail(pending) /\ UNCHANGED loading
      PROVE  Waiting(p)
  <2>1. ASSUME NEW i \in DOMAIN pending', p = pending'[i] PROVE p \in ToSet(pending)
    BY <1>8, <2>1, PendingHead DEF IInv, ToSet
  <2> QED BY <1>2, <1>8, <2>1 DEF Waiting
<1> QED BY <1>3, <1>5, <1>6, <1>7, <1>8, ListMoves

(* A user stays among those that acted early. *)
LEMMA EarlyMoves ==
  ASSUME [Next]_vars
  PROVE  early \subseteq early'
<1>1. ASSUME \/ \E c \in Conns : Close(c) \/ Free(c)
             \/ \E c \in Conns, u \in Users : LoginChannel(c, u)
             \/ Load \/ LoadFails \/ Hook
             \/ \E u \in Users, p \in Pids : FirstLogin(p, u) \/ RepeatedLogin(p, u) \/ Relogin(p, u)
             \/ \E u \in Users : RemoveLost(u)
             \/ UNCHANGED vars
      PROVE  UNCHANGED early
  BY <1>1 DEF Close, Free, LoginChannel, Load, LoadFails, Hook, FirstLogin, RepeatedLogin,
              Relogin, RemoveLost, vars, history
<1>2. ASSUME NEW c \in Conns, NEW ch \in Channels, NEW sn \in Sns,
             Join(c, ch, sn) \/ Leave(c, ch, sn) \/ StaleLeave(c, ch, sn)
      PROVE  early \subseteq early'
  BY <1>2 DEF Join, Leave, StaleLeave, Acts
<1> QED BY <1>1, <1>2 DEF Next, HandlePending

LEMMA NewcomersStep ==
  ASSUME IInv, NewcomersOut, [Next]_vars
  PROVE  NewcomersOut'
<1> SUFFICES ASSUME NEW p \in DOMAIN players', Waiting(p)', players'[p].user \notin early'
             PROVE  players'[p].in = {}
  BY DEF NewcomersOut
<1>1. CASE p \notin DOMAIN players
  BY <1>1, NewObject
<1>2. CASE p \in DOMAIN players
  <2>1. Waiting(p) /\ \A u \in Users : online'[u] # p
    BY <1>2, WaitingBefore
  <2>2. players'[p].user = players[p].user
    BY <1>2, PlayersMove DEF PlayerMoves
  <2>3. players[p].user \notin early
    BY <2>2, EarlyMoves
  <2>4. players[p].in = {}
    BY <1>2, <2>1, <2>3 DEF NewcomersOut
  <2>5. players[p].user \in Users /\ p # None
    <3>1. players[p] \in Player /\ p # None
      BY <1>2 DEF IInv, TypeOK, None
    <3> QED BY <3>1 DEF Player
  <2>6. \A u \in Users : online[u] # p
    BY <2>1, <2>5, HoldersNow DEF Waiting, Holders, HolderTypes, HoldersInv, ToSet
  <2>7. ASSUME NEW c \in Conns, NEW ch \in Channels, NEW sn \in Sns,
               Join(c, ch, sn) \/ Leave(c, ch, sn), p = Client(c)
        PROVE  FALSE
    <3>1. players[p].user \in early'
      BY <2>5, <2>6, <2>7 DEF Join, Leave, Acts
    <3> QED BY <2>2, <3>1
  <2>8. ASSUME NEW u \in Users, Relogin(p, u) PROVE FALSE
    BY <2>1, <2>8 DEF Relogin, IInv, TypeOK
  <2>9. players'[p].in = players[p].in
    BY <1>2, <2>6, <2>7, <2>8, InMoves
  <2> QED BY <2>4, <2>9
<1> QED BY <1>1, <1>2

(* The channels' lists of one user. *)
Agrees(ch, u) ==
  room[ch][u] # NoSn <=> online[u] # None /\ ch \in players[online[u]].in

(* A step that touches neither the user's entries nor the channels of the  *)
(* one who is online.                                                      *)
LEMMA AgreesSame ==
  ASSUME IInv, NEW ch \in Channels, NEW u \in Users, Agrees(ch, u),
         room'[ch][u] = room[ch][u], online'[u] = online[u],
         online[u] # None => players'[online[u]].in = players[online[u]].in
  PROVE  Agrees(ch, u)'
BY DEF Agrees

LEMMA AgreesStep ==
  ASSUME IInv, NewcomersOut, [Next]_vars, NEW ch \in Channels, NEW u \in Users,
         u \notin early', <<ch, u>> \notin stray',
         u \notin early /\ <<ch, u>> \notin stray => Agrees(ch, u)
  PROVE  Agrees(ch, u)'
<1> DEFINE o == online[u]
<1>0. /\ u \notin early /\ players \in Seq(Player)
      /\ o # None => o \in DOMAIN players /\ players[o].user = u
  BY EarlyMoves DEF IInv, TypeOK, HoldersInv
<1>1. ASSUME Elsewhere, ~ \E c \in Conns, d \in Channels, sn \in Sns : StaleLeave(c, d, sn),
             ~ \E v \in Users, p \in Pids : FirstLogin(p, v)
      PROVE  UNCHANGED <<room, online, players, stray>>
  BY <1>1 DEF Elsewhere, Free, LoginChannel, LoadFails, RepeatedLogin, vars, history
<1>2. ASSUME NEW v \in Users, NEW p \in Pids, FirstLogin(p, v)
      PROVE  Agrees(ch, u)'
  <2>1. /\ UNCHANGED <<room, players, stray>> /\ online[v] = None
        /\ online' = [online EXCEPT ![v] = p] /\ Arrives(p, v)
    BY <1>2 DEF FirstLogin
  <2>2. Agrees(ch, u)
    BY <1>0, <2>1
  <2>3. CASE u # v
    BY <2>1, <2>2, <2>3, AgreesSame DEF IInv, TypeOK
  <2>4. CASE u = v
    <3>1. p \in DOMAIN players /\ players[p].user = u /\ Waiting(p)
      BY <2>1, <2>4, ArrivesFacts DEF Waiting
    <3>2. players[p].in = {}
      BY <1>0, <3>1 DEF NewcomersOut
    <3>3. online'[u] = p /\ room[ch][u] = NoSn
      BY <2>1, <2>2, <2>4 DEF Agrees, IInv, TypeOK
    <3> QED BY <2>1, <3>2, <3>3 DEF Agrees
  <2> QED BY <2>3, <2>4
<1>3. ASSUME NEW c \in Conns, NEW d \in Channels, NEW sn \in Sns, StaleLeave(c, d, sn)
      PROVE  Agrees(ch, u)'
  <2>1. PICK p \in Pids :
          /\ p = Client(c) /\ p # None /\ UNCHANGED <<players, online>>
          /\ room' = [room EXCEPT ![d][players[p].user] =
                        IF room[d][players[p].user] = NoSn THEN 0 ELSE @]
          /\ stray' = stray \cup (IF room[d][players[p].user] = NoSn
                                  THEN {<<d, players[p].user>>} ELSE {})
    BY <1>3 DEF StaleLeave, Acts, listVars
  <2>2. players[p].user \in Users
    BY <2>1, WhoActs
  <2>3. Agrees(ch, u)
    BY <1>0, <2>1
  <2>4. room'[ch][u] = room[ch][u]
    <3>1. CASE ch = d /\ u = players[p].user
      <4>1. room[d][players[p].user] # NoSn
        BY <2>1, <3>1
      <4> QED BY <2>1, <2>2, <3>1, <4>1 DEF IInv, TypeOK
    <3>2. CASE ~(ch = d /\ u = players[p].user)
      BY <2>1, <2>2, <3>2 DEF IInv, TypeOK
    <3> QED BY <3>1, <3>2
  <2> QED BY <2>1, <2>3, <2>4, AgreesSame
<1>4. CASE Load
  <2>1. UNCHANGED <<room, online, stray>>
    BY <1>4 DEF Load, history
  <2>2. o # None => players'[o].in = players[o].in
    BY <1>0, <1>4, LoadFacts
  <2> QED BY <1>0, <2>1, <2>2, AgreesSame
<1>5. CASE Hook
  <2>1. UNCHANGED <<room, online, stray>>
    BY <1>5 DEF Hook
  <2>2. o # None => players'[o].in = players[o].in
    BY <1>0, <1>5, HookFacts
  <2> QED BY <1>0, <2>1, <2>2, AgreesSame
<1>6. ASSUME NEW c \in Conns, Close(c)
      PROVE  Agrees(ch, u)'
  <2>1. UNCHANGED <<room, online, stray>>
    BY <1>6 DEF Close, history
  <2>2. o # None => players'[o].in = players[o].in
    BY <1>0, <1>6, CloseFacts
  <2> QED BY <1>0, <2>1, <2>2, AgreesSame
<1>7. ASSUME NEW v \in Users, NEW p \in Pids, Relogin(p, v)
      PROVE  Agrees(ch, u)'
  <2>1. /\ UNCHANGED stray /\ online' = [online EXCEPT ![v] = p] /\ Arrives(p, v)
        /\ online[v] # None
        /\ room' = [x \in Channels |-> IF x \in players[online[v]].in
                                       THEN [room[x] EXCEPT ![v] = 0] ELSE room[x]]
    BY <1>7 DEF Relogin
  <2>2. Agrees(ch, u)
    BY <1>0, <2>1
  <2>3. p \in DOMAIN players /\ players[p].user = v /\ Waiting(p) /\ \A w \in Users : online[w] # p
    BY <2>1, ArrivesFacts DEF Waiting
  <2>4. CASE u # v
    <3>1. room'[ch][u] = room[ch][u] /\ online'[u] = online[u]
      BY <2>1, <2>4 DEF IInv, TypeOK
    <3>2. o # None => players'[o].in = players[o].in
      BY <1>0, <1>7, <2>3, ReloginFacts
    <3> QED BY <2>2, <3>1, <3>2, AgreesSame
  <2>5. CASE u = v
    <3>1. players[p].in = {}
      BY <1>0, <2>3, <2>5 DEF NewcomersOut
    <3>2. players'[p].in = players[p].in \cup players[o].in
      BY <1>7, <2>5, ReloginFacts
    <3>3. online'[u] = p /\ p # None /\ o # None
      BY <1>0, <2>1, <2>3, <2>5 DEF IInv, TypeOK, None
    <3>4. CASE ch \in players[o].in
      <4>1. room'[ch][u] = 0 /\ 0 # NoSn
        BY <2>1, <2>5, <3>4, SessionAssumption DEF IInv, TypeOK
      <4> QED BY <3>2, <3>3, <3>4, <4>1 DEF Agrees
    <3>5. CASE ch \notin players[o].in
      <4>1. room[ch][u] = NoSn
        BY <2>2, <3>5 DEF Agrees
      <4>2. room'[ch][u] = NoSn
        BY <2>1, <2>5, <3>5, <4>1
      <4> QED BY <3>1, <3>2, <3>3, <3>5, <4>2 DEF Agrees
    <3> QED BY <3>4, <3>5
  <2> QED BY <2>4, <2>5
<1>8. ASSUME NEW c \in Conns, NEW d \in Channels, NEW sn \in Sns, Join(c, d, sn)
      PROVE  Agrees(ch, u)'
  <2>1. PICK p \in Pids :
          /\ p = Client(c) /\ p # None /\ UNCHANGED online
          /\ players' = [players EXCEPT ![p].in = @ \cup {d}]
          /\ room' = [room EXCEPT ![d][players[p].user] = sn]
          /\ stray' = stray \ {<<d, players[p].user>>}
          /\ early' = early \cup (IF online[players[p].user] = p THEN {}
                                  ELSE {players[p].user})
    BY <1>8 DEF Join, Acts, listVars
  <2>2. players[p].user \in Users /\ p \in DOMAIN players
    BY <2>1, WhoActs
  <2>3. \A x \in DOMAIN players :
          players'[x].in = IF x = p THEN players[p].in \cup {d} ELSE players[x].in
    BY <2>1, JoinFacts
  <2>4. CASE u = players[p].user /\ ch = d
    <3>1. o = p /\ online'[u] = p
      BY <2>1, <2>4
    <3>2. room'[ch][u] = sn /\ sn # NoSn
      BY <2>1, <2>2, <2>4, SessionAssumption DEF IInv, TypeOK
    <3>3. ch \in players'[p].in
      BY <2>2, <2>3, <2>4
    <3> QED BY <2>1, <3>1, <3>2, <3>3 DEF Agrees
  <2>5. CASE ~(u = players[p].user /\ ch = d)
    <3>1. Agrees(ch, u)
      BY <1>0, <2>1, <2>5
    <3>2. room'[ch][u] = room[ch][u] /\ online'[u] = online[u]
      BY <2>1, <2>2, <2>5 DEF IInv, TypeOK
    <3>3. o # None => (ch \in players'[o].in <=> ch \in players[o].in)
      BY <1>0, <2>2, <2>3, <2>5
    <3> QED BY <3>1, <3>2, <3>3 DEF Agrees
  <2> QED BY <2>4, <2>5
<1>9. ASSUME NEW c \in Conns, NEW d \in Channels, NEW sn \in Sns, Leave(c, d, sn)
      PROVE  Agrees(ch, u)'
  <2>1. PICK p \in Pids :
          /\ p = Client(c) /\ p # None /\ UNCHANGED online
          /\ players' = [players EXCEPT ![p].in = @ \ {d}]
          /\ room' = [room EXCEPT ![d][players[p].user] = NoSn]
          /\ stray' = stray \ {<<d, players[p].user>>}
          /\ early' = early \cup (IF online[players[p].user] = p THEN {}
                                  ELSE {players[p].user})
    BY <1>9 DEF Leave, Acts, listVars
  <2>2. players[p].user \in Users /\ p \in DOMAIN players
    BY <2>1, WhoActs
  <2>3. \A x \in DOMAIN players :
          players'[x].in = IF x = p THEN players[p].in \ {d} ELSE players[x].in
    BY <2>1, LeaveFacts
  <2>4. CASE u = players[p].user /\ ch = d
    <3>1. o = p /\ online'[u] = p
      BY <2>1, <2>4
    <3>2. room'[ch][u] = NoSn
      BY <2>1, <2>2, <2>4 DEF IInv, TypeOK
    <3>3. ch \notin players'[p].in
      BY <2>2, <2>3, <2>4
    <3> QED BY <2>1, <3>1, <3>2, <3>3 DEF Agrees
  <2>5. CASE ~(u = players[p].user /\ ch = d)
    <3>1. Agrees(ch, u)
      BY <1>0, <2>1, <2>5
    <3>2. room'[ch][u] = room[ch][u] /\ online'[u] = online[u]
      BY <2>1, <2>2, <2>5 DEF IInv, TypeOK
    <3>3. o # None => (ch \in players'[o].in <=> ch \in players[o].in)
      BY <1>0, <2>2, <2>3, <2>5
    <3> QED BY <3>1, <3>2, <3>3 DEF Agrees
  <2> QED BY <2>4, <2>5
<1>10. ASSUME NEW v \in Users, RemoveLost(v)
       PROVE  Agrees(ch, u)'
  <2>1. /\ online[v] # None /\ online' = [online EXCEPT ![v] = None]
        /\ room' = [x \in Channels |-> IF x \in players[online[v]].in
                                       THEN [room[x] EXCEPT ![v] = NoSn] ELSE room[x]]
        /\ stray' = stray \ ({x \in Channels : x \in players[online[v]].in} \X {v})
    BY <1>10 DEF RemoveLost, RoomsWithout
  <2>2. CASE u # v
    <3>1. Agrees(ch, u)
      BY <1>0, <2>1, <2>2
    <3>2. room'[ch][u] = room[ch][u] /\ online'[u] = online[u]
      BY <2>1, <2>2 DEF IInv, TypeOK
    <3>3. o # None => o # online[v]
      BY <2>1, <2>2 DEF IInv, HoldersInv
    <3>4. o # None => players'[o].in = players[o].in
      BY <1>0, <1>10, <3>3, RemoveFacts
    <3> QED BY <3>1, <3>2, <3>4, AgreesSame
  <2>3. CASE u = v
    <3>1. online'[u] = None
      BY <2>1, <2>3 DEF IInv, TypeOK
    <3>2. room'[ch][u] = NoSn
      <4>1. CASE ch \in players[o].in
        BY <2>1, <2>3, <4>1 DEF IInv, TypeOK
      <4>2. CASE ch \notin players[o].in
        <5>1. Agrees(ch, u)
          BY <1>0, <2>1, <2>3, <4>2
        <5>2. room[ch][u] = NoSn
          BY <4>2, <5>1 DEF Agrees
        <5> QED BY <2>1, <2>3, <4>2, <5>2
      <4> QED BY <4>1, <4>2
    <3> QED BY <3>1, <3>2 DEF Agrees
  <2> QED BY <2>2, <2>3
<1>11. ASSUME UNCHANGED <<room, online, players, stray>>
       PROVE  Agrees(ch, u)'
  BY <1>0, <1>11, AgreesSame
<1> QED
  BY <1>1, <1>2, <1>3, <1>4, <1>5, <1>6, <1>7, <1>8, <1>9, <1>10, <1>11, NextCases

LEMMA ChannelsAgreeStep ==
  ASSUME IInv, NewcomersOut, ChannelsAgree, [Next]_vars
  PROVE  ChannelsAgree'
<1> SUFFICES ASSUME NEW ch \in Channels, NEW u \in Users, u \notin early',
                    <<ch, u>> \notin stray'
             PROVE  Agrees(ch, u)'
  BY DEF ChannelsAgree, Agrees
<1>1. u \notin early /\ <<ch, u>> \notin stray => Agrees(ch, u)
  BY DEF ChannelsAgree, Agrees
<1> QED BY <1>1, AgreesStep

(* Through relogins, drops and removals, and for any number of channels,   *)
(* a channel's list and the players' lists agree about every user but      *)
(* those that acted before their login was handled, and but the entries a  *)
(* stale leave made.                                                       *)
THEOREM ListsAgree == Spec => []ChannelsAgree
<1>1. Init => NewcomersOut /\ ChannelsAgree
  BY SessionAssumption DEF Init, NewcomersOut, ChannelsAgree
<1>2. IInv /\ NewcomersOut /\ ChannelsAgree /\ [Next]_vars => (NewcomersOut /\ ChannelsAgree)'
  BY NewcomersStep, ChannelsAgreeStep
<1> QED BY <1>1, <1>2, TypeCorrect, PTL DEF Spec

=============================================================================
