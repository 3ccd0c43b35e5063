------------------------------ MODULE ApiProofs ------------------------------
(***************************************************************************)
(* Users, sessions and keys keep their rules for any number of them, any   *)
(* requests in flight and any setting of the limits (first part).  No      *)
(* request of the HTTP API shows a scoped credential what it was not       *)
(* granted, changes a row outside its scope or does what the published     *)
(* table does not allow it, whatever the rows, the requests in flight and  *)
(* the jobs behind them (second part, from "A list of writes").            *)
(***************************************************************************)
EXTENDS MCApi, TLAPS, FiniteSetTheorems, NaturalsInduction, WellFoundedInduction

Account1 == [id : User, role : Roles, active : BOOLEAN, pw : Nat, fails : Nat, until : Nat]
Session1 == [id : Sid, user : User, pw : Nat, created : Nat, expires : Nat, used : Nat, last : Nat,
             lost : BOOLEAN]
Key1 == [id : ApiKey, caps : {"role", "events", "plain"}, scope : {"all", "cameras"},
         active : BOOLEAN, revoked : BOOLEAN]

Scopable(k) == k.scope = "cameras" => k.caps = "plain"

(* What a request in flight will write has its type, is about the row it was
   read from, and was validated. *)
AskSound(ask) ==
  /\ ask.op \in {"login", "fail", "update", "delete", "key"}
  /\ ask.op \in {"login", "fail", "update", "delete"} => ask.u \in User /\ ask.row \in Account1
  /\ ask.op = "update" => ask.new \in Account1 /\ ask.new.id = ask.u
  /\ ask.op = "key" => ask.new \in Key1 /\ Scopable(ask.new)

AcctTypeOK ==
  /\ users \subseteq Account1 /\ sessions \subseteq Session1
  /\ seen \subseteq [sid : Sid, at : Nat] /\ keys \subseteq Key1
  /\ \A ask \in asks : AskSound(ask)
  /\ clock \in Nat /\ clock > 0
  /\ wrong \in [User -> Nat]

(* A session's stamps are in order, its end is within a lifetime of its
   login, and the last request it let in is the stamp's, give or take the
   debounce, unless its stamp failed. *)
SessionTrue(x) ==
  /\ x.created <= x.used /\ x.used <= x.last /\ x.last <= clock
  /\ x.expires <= x.created + TTL \/ x.expires <= x.created + MAX_LIFETIME
  /\ x.lost \/ x.last <= x.used + 1

SessionsTrue ==
  /\ \A x \in sessions : SessionTrue(x)
  /\ \A x, y \in sessions : x.id = y.id => x = y

(* What the process remembers of a session is its last request, or older than
   its stamp: the memory of an earlier session of that id is. *)
SeenTrue ==
  /\ \A m \in seen : m.at <= clock
  /\ \A m \in seen, x \in sessions : m.sid = x.id => m.at <= x.used \/ m.at = x.last

(* No wrong password is missing from the count of its row, and a row that has
   counted to the limit is locked. *)
CountsTrue ==
  \A r \in users : wrong[r.id] <= r.fails /\ (r.fails >= MaxFailures => r.until # Never)

OutcomeTrue == GrantsTimely /\ InUseStays /\ ServedAsNamed

AcctInv == AcctTypeOK /\ SessionsTrue /\ SeenTrue /\ CountsTrue /\ OutcomeTrue /\ GrantsScopable

-----------------------------------------------------------------------------
LEMMA Constants ==
  /\ MAX_LIFETIME \in Nat /\ LOCKOUT \in Nat /\ IDLE \in Nat
  /\ TTL \in Nat /\ TTL > 0 /\ MaxFailures \in Nat /\ MaxFailures > 0
BY AccountsAssumption, SMTT(60)

LEMMA AcctInvInit == AcctInit => AcctInv
<1> SUFFICES ASSUME AcctInit PROVE AcctInv
  OBVIOUS
<1>1. ASSUME NEW r \in users PROVE \E u \in User, role \in Roles : r = Blank(u, role)
  <2>1. CASE users \in {{Blank(u, q) : u \in User} : q \in {"admin"}}
    BY <2>1 DEF Roles
  <2>2. CASE users \in {{Blank(u, IF u = v THEN "admin" ELSE "manager") : u \in User} : v \in User}
    BY <2>2 DEF Roles
  <2> QED BY <2>1, <2>2 DEF AcctInit
<1>2. ASSUME NEW r \in users PROVE r \in Account1 /\ r.fails = 0 /\ r.id \in User
  <2>1. PICK u \in User, role \in Roles : r = Blank(u, role)
    BY <1>1
  <2> QED BY <2>1 DEF Blank, Account1, Never
<1>3. sessions = {} /\ seen = {} /\ keys = {} /\ asks = {} /\ clock = 1 /\ outcome = {}
      /\ wrong = [u \in User |-> 0]
  BY DEF AcctInit
<1>4. AcctTypeOK
  BY <1>2, <1>3 DEF AcctTypeOK
<1>5. CountsTrue
  BY <1>2, <1>3, Constants DEF CountsTrue
<1> QED BY <1>3, <1>4, <1>5 DEF AcctInv, SessionsTrue, SeenTrue, OutcomeTrue, GrantsTimely, InUseStays,
             ServedAsNamed, GrantsScopable

(* What an UPDATE of some columns leaves in the row. *)
CountedRow(r, n, until) == [r EXCEPT !.fails = n, !.until = until]
PatchedRow(r, role, active, pw) == [r EXCEPT !.role = role, !.active = active, !.pw = pw]
TouchedRow(x, last, lost) == [x EXCEPT !.last = last, !.lost = lost]
SlidRow(x, used, expires) == [x EXCEPT !.used = used, !.expires = expires]

(* The columns an UPDATE names change and no other. *)
LEMMA Counted ==
  ASSUME NEW r \in Account1, NEW n \in Nat, NEW until \in Nat, NEW y, y = CountedRow(r, n, until)
  PROVE  y \in Account1 /\ y.id = r.id /\ y.fails = n /\ y.until = until
BY DEF Account1, CountedRow

LEMMA PatchedIs ==
  ASSUME NEW r \in Account1, NEW role \in Roles, NEW active \in BOOLEAN, NEW pw \in Nat,
         NEW y, y = PatchedRow(r, role, active, pw)
  PROVE  y \in Account1 /\ y.id = r.id
BY DEF Account1, PatchedRow

LEMMA Touched ==
  ASSUME NEW x \in Session1, NEW last \in Nat, NEW lost \in BOOLEAN, NEW y, y = TouchedRow(x, last, lost)
  PROVE  /\ y \in Session1 /\ y.last = last /\ y.lost = lost
         /\ y.id = x.id /\ y.created = x.created /\ y.expires = x.expires /\ y.used = x.used
BY DEF Session1, TouchedRow

-----------------------------------------------------------------------------
(* Users.                                                                  *)

RestOf == <<sessions, seen, keys, clock, outcome>>

(* What an action leaves alone of the sessions and the keys stays true. *)
LEMMA OthersStay ==
  ASSUME AcctInv, UNCHANGED <<seen, keys, clock, outcome>>, sessions' \subseteq sessions
  PROVE  /\ sessions' \subseteq Session1 /\ seen' \subseteq [sid : Sid, at : Nat] /\ keys' \subseteq Key1
         /\ clock' \in Nat /\ clock' > 0
         /\ SessionsTrue' /\ SeenTrue' /\ OutcomeTrue' /\ GrantsScopable'
BY DEF AcctInv, AcctTypeOK, SessionsTrue, SessionTrue, SeenTrue, OutcomeTrue, GrantsTimely, InUseStays,
   ServedAsNamed, GrantsScopable

(* A request in flight answers for nothing that is shared. *)
LEMMA AskKeeps ==
  ASSUME AcctInv, NEW ask, AskSound(ask), Ask(ask),
         UNCHANGED <<users, sessions, seen, keys, clock, wrong, outcome>>
  PROVE  AcctInv'
<1>1. AcctTypeOK'
  BY DEF AcctInv, AcctTypeOK, Ask, AskSound
<1>2. CountsTrue'
  BY DEF AcctInv, CountsTrue
<1> QED BY <1>1, <1>2, OthersStay DEF AcctInv

LEMMA LoginKeeps ==
  ASSUME AcctInv, NEW u \in User, NEW pw, Login(u, pw)
  PROVE  AcctInv'
<1>1. PICK r \in Account(u) : Ask([op |-> IF pw = r.pw THEN "login" ELSE "fail", u |-> u, row |-> r])
  BY DEF Login
<1>2. AskSound([op |-> IF pw = r.pw THEN "login" ELSE "fail", u |-> u, row |-> r])
  BY DEF AskSound, AcctInv, AcctTypeOK, Account
<1> QED BY <1>1, <1>2, AskKeeps DEF Login

LEMMA LoginFailsKeeps ==
  ASSUME AcctInv, NEW ask \in asks, LoginFails(ask)
  PROVE  AcctInv'
<1> DEFINE F(r) == [r EXCEPT !.fails = @ + 1,
                             !.until = IF r.fails + 1 >= MaxFailures THEN clock + LOCKOUT ELSE @]
<1>1. ask.u \in User
  BY DEF AcctInv, AcctTypeOK, AskSound, LoginFails
<1>2. users' = {IF r.id = ask.u THEN F(r) ELSE r : r \in users}
  BY DEF LoginFails, register_login_failure, Rewrite
<1>3. ASSUME NEW r \in Account1
      PROVE  /\ F(r) \in Account1 /\ F(r).id = r.id /\ F(r).fails = r.fails + 1
             /\ F(r).fails >= MaxFailures => F(r).until # Never
  <2>1. clock \in Nat /\ clock > 0
    BY DEF AcctInv, AcctTypeOK
  <2> DEFINE n == r.fails + 1
             until == IF r.fails + 1 >= MaxFailures THEN clock + LOCKOUT ELSE r.until
  <2>2. n \in Nat /\ until \in Nat /\ (n >= MaxFailures => until # Never)
    BY <2>1, Constants DEF Account1, Never
  <2>3. F(r) = CountedRow(r, n, until)
    BY DEF CountedRow
  <2>4. n = r.fails + 1
    OBVIOUS
  <2> HIDE DEF F, n, until
  <2>5. F(r) \in Account1 /\ F(r).id = r.id /\ F(r).fails = n /\ F(r).until = until
    BY <2>2, <2>3, Counted
  <2> QED BY <2>2, <2>4, <2>5
<1>4. wrong' \in [User -> Nat]
  BY <1>1 DEF LoginFails, AcctInv, AcctTypeOK
<1>5. AcctTypeOK'
  BY <1>2, <1>3, <1>4, OthersStay, ZenonT(60) DEF AcctInv, AcctTypeOK, LoginFails, AskSound
<1>6. CountsTrue'
  <2> SUFFICES ASSUME NEW y \in users' PROVE wrong'[y.id] <= y.fails /\ (y.fails >= MaxFailures => y.until # Never)
    BY DEF CountsTrue
  <2>1. PICK r \in users : y = IF r.id = ask.u THEN F(r) ELSE r
    BY <1>2
  <2>2. r \in Account1 /\ wrong[r.id] <= r.fails /\ (r.fails >= MaxFailures => r.until # Never)
        /\ wrong[r.id] \in Nat /\ r.fails \in Nat /\ wrong \in [User -> Nat] /\ r.id \in User
    BY DEF AcctInv, AcctTypeOK, CountsTrue, Account1
  <2>3. CASE r.id = ask.u
    <3>1. wrong'[r.id] <= wrong[r.id] + 1
      BY <2>2, <2>3 DEF LoginFails
    <3>2. y = F(r) /\ y.id = r.id /\ y.fails = r.fails + 1 /\ (y.fails >= MaxFailures => y.until # Never)
      BY <2>1, <2>2, <2>3, <1>3
    <3>3. wrong'[r.id] \in Nat
      BY <1>4, <2>2
    <3> HIDE DEF F
    <3> QED BY <2>2, <3>1, <3>2, <3>3
  <2>4. CASE r.id # ask.u
    <3>1. wrong'[r.id] = wrong[r.id]
      BY <2>2, <2>4 DEF LoginFails
    <3> QED BY <2>1, <2>2, <2>4, <3>1
  <2> QED BY <2>3, <2>4
<1> QED BY <1>5, <1>6, OthersStay DEF AcctInv, LoginFails

(* A row whose count and lock are reset, with the count of wrong answers. *)
LEMMA ForgivenKeeps ==
  ASSUME AcctInv, NEW u \in User, Forgive({u}),
         \A y \in users' : \/ y \in users /\ y.id # u
                           \/ y \in Account1 /\ y.id = u /\ y.fails = 0
  PROVE  users' \subseteq Account1 /\ wrong' \in [User -> Nat] /\ CountsTrue'
<1>1. wrong' = [v \in User |-> IF v \in {u} THEN 0 ELSE wrong[v]]
  BY DEF Forgive
<1>2. \A r \in users : r \in Account1 /\ wrong[r.id] <= r.fails /\ (r.fails >= MaxFailures => r.until # Never)
        /\ r.id \in User
  BY DEF AcctInv, AcctTypeOK, CountsTrue, Account1
<1>3. wrong' \in [User -> Nat]
  BY <1>1 DEF AcctInv, AcctTypeOK
<1>4. CountsTrue'
  BY <1>1, <1>2, Constants DEF CountsTrue
<1> QED BY <1>2, <1>3, <1>4

LEMMA UnlockedIs == \A r \in Account1 : Unlocked(r) \in Account1 /\ Unlocked(r).id = r.id /\ Unlocked(r).fails = 0
BY DEF Unlocked, Account1, Never

LEMMA LoginSucceedsKeeps ==
  ASSUME AcctInv, NEW ask \in asks, NEW s \in Sid, LoginSucceeds(ask, s)
  PROVE  AcctInv'
<1>1. ask.u \in User /\ ask.row \in Account1
  BY DEF AcctInv, AcctTypeOK, AskSound, LoginSucceeds
<1>2. users' \subseteq Account1 /\ wrong' \in [User -> Nat] /\ CountsTrue'
  <2>1. CASE ask.row.fails # 0 \/ ask.row.until # Never
    <3>1. users' = Rewrite(ask.u, Unlocked) /\ Forgive({ask.u})
      BY <2>1 DEF LoginSucceeds
    <3>2. users' = {IF r.id = ask.u THEN Unlocked(r) ELSE r : r \in users}
      BY <3>1 DEF Rewrite
    <3>3. users \subseteq Account1
      BY DEF AcctInv, AcctTypeOK
    <3> QED BY <1>1, <3>1, <3>2, <3>3, UnlockedIs, ForgivenKeeps
  <2>2. CASE ~ (ask.row.fails # 0 \/ ask.row.until # Never)
    <3>1. users' = users /\ wrong' = [v \in User |-> wrong[v]]
      BY <2>2 DEF LoginSucceeds, Forgive
    <3>2. wrong' = wrong
      BY <3>1 DEF AcctInv, AcctTypeOK
    <3> QED BY <3>1, <3>2 DEF AcctInv, AcctTypeOK, CountsTrue
  <2> QED BY <2>1, <2>2
<1> DEFINE n == NewSession(s, ask.u, ask.row.pw)
<1>3. clock \in Nat /\ TTL \in Nat
  BY Constants DEF AcctInv, AcctTypeOK
<1>4. /\ n \in Session1 /\ n.id = s /\ n.used = clock /\ SessionTrue(n)
  BY <1>1, <1>3, Constants DEF NewSession, Session1, Account1, SessionTrue
<1>5. sessions' = sessions \/ sessions' = sessions \cup {n}
  BY DEF LoginSucceeds
<1>6. s \in Sid \ {x.id : x \in sessions} /\ clock' = clock
  BY DEF LoginSucceeds
<1> HIDE DEF n
<1>7. SessionsTrue'
  <2>1. \A x : SessionTrue(x) => SessionTrue(x)'
    BY <1>6 DEF SessionTrue
  <2> QED BY <1>4, <1>5, <1>6, <2>1 DEF AcctInv, SessionsTrue
<1>8. SeenTrue'
  BY <1>4, <1>5, <1>6 DEF AcctInv, SeenTrue, LoginSucceeds
<1>9. AcctTypeOK'
  BY <1>2, <1>4, <1>5, <1>6 DEF AcctInv, AcctTypeOK, LoginSucceeds, AskSound
<1> QED BY <1>2, <1>7, <1>8, <1>9 DEF AcctInv, LoginSucceeds, OutcomeTrue, GrantsTimely, InUseStays,
             ServedAsNamed, GrantsScopable

LEMMA CreateKeeps ==
  ASSUME AcctInv, NEW u \in User, NEW role \in Roles, create_user(u, role)
  PROVE  AcctInv'
<1>1. Blank(u, role) \in Account1 /\ Blank(u, role).fails = 0 /\ Blank(u, role).id = u
  BY DEF Blank, Account1, Never
<1>2. users' = users \cup {Blank(u, role)} /\ wrong' = [v \in User |-> IF v \in {u} THEN 0 ELSE wrong[v]]
      /\ Account(u) = {}
  BY DEF create_user, Forgive
<1>3. AcctTypeOK'
  BY <1>1, <1>2 DEF AcctInv, AcctTypeOK, create_user, AskSound
<1>4. CountsTrue'
  <2> SUFFICES ASSUME NEW y \in users' PROVE wrong'[y.id] <= y.fails /\ (y.fails >= MaxFailures => y.until # Never)
    BY DEF CountsTrue
  <2>1. CASE y = Blank(u, role)
    BY <1>1, <1>2, <2>1, Constants
  <2>2. CASE y \in users
    <3>1. y.id \in User /\ y.id # u
      BY <1>2, <2>2 DEF Account, AcctInv, AcctTypeOK, Account1
    <3> QED BY <1>2, <2>2, <3>1 DEF AcctInv, CountsTrue
  <2> QED BY <1>2, <2>1, <2>2
<1> QED BY <1>3, <1>4, OthersStay DEF AcctInv, create_user

LEMMA UpdateAskKeeps ==
  ASSUME AcctInv, NEW u \in User, NEW role \in Roles, NEW active \in BOOLEAN, NEW pw \in {0, 1},
         update_user(u, role, active, pw)
  PROVE  AcctInv'
<1>1. PICK cur \in Account(u) :
        Ask([op |-> "update", u |-> u, row |-> cur,
             new |-> [cur EXCEPT !.role = role, !.active = active, !.pw = pw]])
  BY DEF update_user
<1>2. cur \in Account1 /\ cur.id = u
  BY DEF AcctInv, AcctTypeOK, Account
<1>3. [cur EXCEPT !.role = role, !.active = active, !.pw = pw] \in Account1
      /\ [cur EXCEPT !.role = role, !.active = active, !.pw = pw].id = u
  <2>1. pw \in Nat
    OBVIOUS
  <2>2. PatchedRow(cur, role, active, pw) \in Account1 /\ PatchedRow(cur, role, active, pw).id = u
    BY <1>2, <2>1, PatchedIs
  <2> QED BY <2>2 DEF PatchedRow
<1>4. AskSound([op |-> "update", u |-> u, row |-> cur,
             new |-> [cur EXCEPT !.role = role, !.active = active, !.pw = pw]])
  BY <1>2, <1>3 DEF AskSound
<1> QED BY <1>1, <1>4, AskKeeps DEF update_user

LEMMA UpdateUserKeeps ==
  ASSUME AcctInv, NEW ask \in asks, UpdateUser(ask)
  PROVE  AcctInv'
<1>1. ask.u \in User /\ ask.new \in Account1 /\ ask.new.id = ask.u
  BY DEF AcctInv, AcctTypeOK, AskSound, UpdateUser
<1>2. users' \subseteq Account1 /\ wrong' \in [User -> Nat] /\ CountsTrue'
  <2>1. CASE Guarded(ask)
    <3>1. users' = {IF r.id = ask.u THEN Unlocked(ask.new) ELSE r : r \in users} /\ Forgive({ask.u})
      BY <2>1 DEF UpdateUser, Rewrite
    <3>2. Unlocked(ask.new) \in Account1 /\ Unlocked(ask.new).id = ask.u /\ Unlocked(ask.new).fails = 0
      BY <1>1, UnlockedIs
    <3> QED BY <1>1, <3>1, <3>2, ForgivenKeeps
  <2>2. CASE ~ Guarded(ask)
    <3>1. users' = users /\ wrong' = [v \in User |-> wrong[v]]
      BY <2>2 DEF UpdateUser, Forgive
    <3>2. wrong' = wrong
      BY <3>1 DEF AcctInv, AcctTypeOK
    <3> QED BY <3>1, <3>2 DEF AcctInv, AcctTypeOK, CountsTrue
  <2> QED BY <2>1, <2>2
<1>3. UNCHANGED <<seen, keys, clock, outcome>> /\ sessions' \subseteq sessions /\ asks' \subseteq asks
  BY DEF UpdateUser
<1>4. AcctTypeOK'
  BY <1>2, <1>3, OthersStay DEF AcctInv, AcctTypeOK, AskSound
<1> QED BY <1>2, <1>3, <1>4, OthersStay DEF AcctInv

LEMMA UnlockKeeps ==
  ASSUME AcctInv, NEW u \in User, unlock_user(u)
  PROVE  AcctInv'
<1>1. users' \subseteq Account1 /\ wrong' \in [User -> Nat] /\ CountsTrue'
  <2>1. users' = {IF r.id = u THEN Unlocked(r) ELSE r : r \in users} /\ Forgive({u})
    BY DEF unlock_user, Rewrite
  <2>2. users \subseteq Account1
    BY DEF AcctInv, AcctTypeOK
  <2> QED BY <2>1, <2>2, UnlockedIs, ForgivenKeeps
<1>2. UNCHANGED <<sessions, seen, keys, clock, outcome, asks>>
  BY DEF unlock_user
<1>3. AcctTypeOK'
  BY <1>1, <1>2 DEF AcctInv, AcctTypeOK, AskSound
<1> QED BY <1>1, <1>2, <1>3, OthersStay DEF AcctInv

LEMMA DeleteKeeps ==
  ASSUME AcctInv, NEW u \in User, delete_user(u)
  PROVE  AcctInv'
<1>1. PICK cur \in Account(u) : Ask([op |-> "delete", u |-> u, row |-> cur])
  BY DEF delete_user
<1>2. AskSound([op |-> "delete", u |-> u, row |-> cur])
  BY DEF AskSound, AcctInv, AcctTypeOK, Account
<1> QED BY <1>1, <1>2, AskKeeps DEF delete_user

LEMMA DeleteUserKeeps ==
  ASSUME AcctInv, NEW ask \in asks, DeleteUser(ask)
  PROVE  AcctInv'
<1>1. users' \subseteq users /\ sessions' \subseteq sessions /\ asks' \subseteq asks
      /\ UNCHANGED <<seen, keys, clock, wrong, outcome>>
  BY DEF DeleteUser
<1>2. AcctTypeOK' /\ CountsTrue'
  BY <1>1, OthersStay DEF AcctInv, AcctTypeOK, CountsTrue, AskSound
<1> QED BY <1>1, <1>2, OthersStay DEF AcctInv

-----------------------------------------------------------------------------
(* Sessions.                                                               *)

LEMMA LogoutKeeps ==
  ASSUME AcctInv, NEW s, Logout(s)
  PROVE  AcctInv'
<1>1. sessions' \subseteq sessions /\ UNCHANGED <<users, seen, keys, asks, clock, wrong, outcome>>
  BY DEF Logout
<1>2. AcctTypeOK' /\ CountsTrue'
  BY <1>1, OthersStay DEF AcctInv, AcctTypeOK, CountsTrue, AskSound
<1> QED BY <1>1, <1>2, OthersStay DEF AcctInv

(* The session is remembered to have been used last, or its stamp says. *)
LEMMA LastActiveIs ==
  ASSUME AcctInv, NEW x \in sessions
  PROVE  /\ LastSeen(x) # {} => LastActive(x) = x.last
         /\ LastSeen(x) = {} => LastActive(x) = x.used
<1>1. ASSUME LastSeen(x) # {} PROVE LastActive(x) = x.last
  <2>1. PICK m \in LastSeen(x) : LastActive(x) = m.at
    BY <1>1 DEF LastActive
  <2>2. m \in seen /\ m.sid = x.id /\ m.at > x.used /\ m.at \in Nat /\ x.used \in Nat
    BY <2>1 DEF LastSeen, AcctInv, AcctTypeOK, Session1
  <2> QED BY <2>1, <2>2 DEF AcctInv, SeenTrue
<1> QED BY <1>1 DEF LastActive

LEMMA StampIs ==
  ASSUME AcctInv, NEW x \in sessions, NEW fails \in BOOLEAN
  PROVE  /\ Stamp(x, fails) \in Session1 /\ Stamp(x, fails).id = x.id /\ Stamp(x, fails).last = clock
         /\ SessionTrue(Stamp(x, fails))
<1>1. x \in Session1 /\ clock \in Nat /\ SessionTrue(x)
  BY DEF AcctInv, AcctTypeOK, SessionsTrue
<1>2. slide_to(x) \in Nat /\ (slide_to(x) = x.expires \/ slide_to(x) <= x.created + MAX_LIFETIME)
  BY <1>1, Constants DEF slide_to, Session1
<1> DEFINE lost == x.used + 1 < clock /\ fails
           y == TouchedRow(x, clock, lost)
<1>3. /\ y \in Session1 /\ y.last = clock /\ y.lost = lost
      /\ y.id = x.id /\ y.created = x.created /\ y.expires = x.expires /\ y.used = x.used
  <2>1. lost \in BOOLEAN
    OBVIOUS
  <2> HIDE DEF lost
  <2> QED BY <1>1, <2>1, Touched
<1>4. CASE x.used + 1 < clock /\ ~ fails
  <2>1. Stamp(x, fails) = SlidRow(y, clock, slide_to(x))
    BY <1>4 DEF Stamp, SlidRow, TouchedRow
  <2> HIDE DEF y
  <2>2. /\ Stamp(x, fails) \in Session1 /\ Stamp(x, fails).used = clock /\ Stamp(x, fails).expires = slide_to(x)
        /\ Stamp(x, fails).id = x.id /\ Stamp(x, fails).created = x.created /\ Stamp(x, fails).last = clock
    <3>1. y \in Session1 /\ clock \in Nat /\ slide_to(x) \in Nat
      BY <1>1, <1>2, <1>3
    <3> HIDE DEF lost
    <3>2. /\ Stamp(x, fails) \in Session1 /\ Stamp(x, fails).used = clock
          /\ Stamp(x, fails).expires = slide_to(x)
          /\ Stamp(x, fails).id = y.id /\ Stamp(x, fails).created = y.created
          /\ Stamp(x, fails).last = y.last /\ Stamp(x, fails).lost = y.lost
      <4>1. PICK e \in Nat, z \in {Stamp(x, fails)} : e = slide_to(x)
        BY <3>1
      <4>2. z = SlidRow(y, clock, e)
        BY <2>1, <4>1
      <4>3. /\ z \in Session1 /\ z.used = clock /\ z.expires = e
            /\ z.id = y.id /\ z.created = y.created /\ z.last = y.last /\ z.lost = y.lost
        <5>1. PICK w \in Session1, c \in Nat : w = y /\ c = clock
          BY <3>1
        <5>2. z = SlidRow(w, c, e)
          BY <4>2, <5>1
        <5>3. /\ z \in Session1 /\ z.used = c /\ z.expires = e
              /\ z.id = w.id /\ z.created = w.created /\ z.last = w.last /\ z.lost = w.lost
          BY ONLY <5>2 DEF Session1, SlidRow
        <5> QED BY <5>1, <5>3
      <4> QED BY <4>1, <4>3
    <3> QED BY <1>3, <3>2
  <2> QED BY <1>1, <1>2, <2>2, Constants DEF Session1, SessionTrue
<1>5. CASE ~ (x.used + 1 < clock /\ ~ fails)
  <2>1. Stamp(x, fails) = y
    BY <1>5 DEF Stamp, TouchedRow
  <2>2. lost \/ clock <= x.used + 1
    BY <1>1, <1>5 DEF Session1
  <2> HIDE DEF lost, y
  <2> QED BY <1>1, <1>3, <2>1, <2>2, Constants DEF Session1, SessionTrue
<1> QED BY <1>4, <1>5

(* What is said of a request that was judged. *)
LEMMA VerdictTrue ==
  ASSUME AcctInv, NEW x \in sessions, NEW named, named \in {Bare, x.id}, NEW what,
         what = "in" => ~ (x.expires <= clock) /\ ~ (IDLE > 0 /\ LastActive(x) + IDLE < clock),
         what = "idle" => LastActive(x) + IDLE < clock,
         outcome' = Judged(x, what, named)
  PROVE  OutcomeTrue'
<1> DEFINE o == [what |-> what, age |-> clock - x.created, rest |-> clock - x.last,
                 lost |-> x.lost /\ LastSeen(x) = {}, by |-> x.id, named |-> named]
<1>1. outcome' = {o}
  BY DEF Judged
<1>2. x \in Session1 /\ clock \in Nat /\ SessionTrue(x)
  BY DEF AcctInv, AcctTypeOK, SessionsTrue
<1>3. /\ x.created \in Nat /\ x.expires \in Nat /\ x.used \in Nat /\ x.last \in Nat
      /\ IDLE \in Nat /\ TTL \in Nat /\ MAX_LIFETIME \in Nat
  BY <1>2, Constants DEF Session1
<1>4. what = "in" => o.age < TTL \/ o.age < MAX_LIFETIME
  BY <1>2, <1>3 DEF SessionTrue
<1>5. what = "in" /\ IDLE > 0 => o.rest <= IDLE
  BY <1>2, <1>3, LastActiveIs DEF SessionTrue
<1>6. what = "idle" => o.rest >= IDLE \/ o.lost
  <2> SUFFICES ASSUME what = "idle", ~ o.lost PROVE clock - x.last >= IDLE
    OBVIOUS
  <2>1. CASE LastSeen(x) # {}
    BY <1>2, <1>3, <2>1, LastActiveIs DEF SessionTrue
  <2>2. CASE LastSeen(x) = {}
    <3>1. ~ x.lost
      BY <2>2
    <3> QED BY <1>2, <1>3, <2>2, <3>1, LastActiveIs DEF SessionTrue
  <2> QED BY <2>1, <2>2
<1>7. o.named \in {Bare, o.by}
  OBVIOUS
<1>8. o.what = what
  OBVIOUS
<1> HIDE DEF o
<1> QED BY <1>1, <1>4, <1>5, <1>6, <1>7, <1>8 DEF OutcomeTrue, GrantsTimely, InUseStays, ServedAsNamed

LEMMA NoVerdict ==
  ASSUME outcome' = {}
  PROVE  OutcomeTrue'
BY DEF OutcomeTrue, GrantsTimely, InUseStays, ServedAsNamed

LEMMA ResolveKeeps ==
  ASSUME AcctInv, NEW s, NEW named, named \in {Bare, s}, NEW full \in BOOLEAN, NEW fails \in BOOLEAN,
         Resolve(s, named, full, fails)
  PROVE  AcctInv'
<1> DEFINE idle(x) == IDLE > 0 /\ LastActive(x) + IDLE < clock
           old(x) == x.expires <= clock
<1>1. PICK x \in sessions, r \in users :
        /\ x.id = s /\ r.id = x.user
        /\ \/ /\ old(x) \/ idle(x)
              /\ sessions' = sessions \ {x}
              /\ seen' = {m \in seen : m.sid # s}
              /\ outcome' = Judged(x, IF old(x) THEN "old" ELSE "idle", named)
           \/ /\ ~ (old(x) \/ idle(x)) /\ ~ r.active
              /\ UNCHANGED <<sessions, seen>>
              /\ outcome' = {}
           \/ /\ ~ (old(x) \/ idle(x)) /\ r.active
              /\ seen' = mark_session_seen(s, full)
              /\ sessions' = (sessions \ {x}) \cup {Stamp(x, fails)}
              /\ outcome' = Judged(x, "in", named)
        /\ UNCHANGED <<users, keys, asks, clock, wrong>>
  BY DEF Resolve
<1>2. UNCHANGED <<users, keys, asks, clock, wrong>>
  BY <1>1
<1>3. /\ CountsTrue' /\ GrantsScopable' /\ users' \subseteq Account1 /\ keys' \subseteq Key1
      /\ (\A ask \in asks : AskSound(ask))' /\ clock' \in Nat /\ clock' > 0 /\ wrong' \in [User -> Nat]
  BY <1>2 DEF AcctInv, AcctTypeOK, CountsTrue, GrantsScopable, AskSound
<1>4. s \in Sid
  BY <1>1 DEF AcctInv, AcctTypeOK, Session1
<1>5. ASSUME old(x) \/ idle(x), sessions' = sessions \ {x}, seen' = {m \in seen : m.sid # s},
             outcome' = Judged(x, IF old(x) THEN "old" ELSE "idle", named)
      PROVE  AcctInv'
  <2>1. OutcomeTrue'
    <3>1. (IF old(x) THEN "old" ELSE "idle") # "in"
      OBVIOUS
    <3>2. (IF old(x) THEN "old" ELSE "idle") = "idle" => LastActive(x) + IDLE < clock
      BY <1>5
    <3> HIDE DEF old, idle
    <3> QED BY <1>1, <1>5, <3>1, <3>2, VerdictTrue
  <2>2. SessionsTrue' /\ SeenTrue' /\ sessions' \subseteq Session1 /\ seen' \subseteq [sid : Sid, at : Nat]
    BY <1>2, <1>5 DEF AcctInv, AcctTypeOK, SessionsTrue, SessionTrue, SeenTrue
  <2> QED BY <1>3, <2>1, <2>2 DEF AcctInv, AcctTypeOK
<1>6. ASSUME UNCHANGED <<sessions, seen>>, outcome' = {} PROVE AcctInv'
  <2>1. SessionsTrue' /\ SeenTrue' /\ sessions' \subseteq Session1 /\ seen' \subseteq [sid : Sid, at : Nat]
    BY <1>2, <1>6 DEF AcctInv, AcctTypeOK, SessionsTrue, SessionTrue, SeenTrue
  <2> QED BY <1>3, <1>6, <2>1, NoVerdict DEF AcctInv, AcctTypeOK
<1>7. ASSUME ~ (old(x) \/ idle(x)), seen' = mark_session_seen(s, full),
             sessions' = (sessions \ {x}) \cup {Stamp(x, fails)}, outcome' = Judged(x, "in", named)
      PROVE  AcctInv'
  <2>1. OutcomeTrue'
    <3>1. ~ (x.expires <= clock) /\ ~ (IDLE > 0 /\ LastActive(x) + IDLE < clock)
      BY <1>7
    <3> HIDE DEF old, idle
    <3> QED BY <1>1, <1>7, <3>1, VerdictTrue
  <2> DEFINE y == Stamp(x, fails)
  <2>2. y \in Session1 /\ y.id = s /\ y.last = clock /\ SessionTrue(y)
    BY <1>1, StampIs
  <2>3. \A z \in sessions : z.id = s => z = x
    BY <1>1 DEF AcctInv, SessionsTrue
  <2>4. \A z \in sessions' : z = y \/ (z \in sessions /\ z.id # s)
    BY <1>7, <2>3
  <2> HIDE DEF y
  <2>5. SessionsTrue' /\ sessions' \subseteq Session1
    <3>1. \A z : SessionTrue(z) => SessionTrue(z)'
      BY <1>2 DEF SessionTrue
    <3> QED BY <2>2, <2>4, <3>1 DEF AcctInv, AcctTypeOK, SessionsTrue
  <2>6. \A m \in seen' : m = [sid |-> s, at |-> clock] \/ (m \in seen /\ m.sid # s)
    BY <1>7 DEF mark_session_seen
  <2>7. seen' \subseteq [sid : Sid, at : Nat]
    BY <1>4, <2>6 DEF AcctInv, AcctTypeOK
  <2>8. SeenTrue'
    BY <1>2, <2>2, <2>4, <2>6 DEF AcctInv, AcctTypeOK, SeenTrue
  <2> QED BY <1>3, <2>1, <2>5, <2>7, <2>8 DEF AcctInv, AcctTypeOK
<1> QED BY <1>1, <1>5, <1>6, <1>7

LEMMA RequestKeeps ==
  ASSUME AcctInv, NEW named, NEW cookie, NEW full \in BOOLEAN, NEW fails \in BOOLEAN,
         require_api_auth(named, cookie, full, fails)
  PROVE  AcctInv'
<1> DEFINE token == token_from_headers(named, cookie)
<1>1. CASE Resolve(token, named, full, fails)
  <2>1. named \in {Bare, token}
    BY DEF token_from_headers
  <2> HIDE DEF token
  <2> QED BY <1>1, <2>1, ResolveKeeps
<1>2. CASE Reject
  <2>1. UNCHANGED <<users, sessions, seen, keys, asks, clock, wrong>> /\ outcome' = {}
    BY <1>2 DEF Reject
  <2> QED BY <2>1, NoVerdict DEF AcctInv, AcctTypeOK, AskSound, SessionsTrue, SessionTrue, SeenTrue, CountsTrue,
        GrantsScopable
<1> QED BY <1>1, <1>2 DEF require_api_auth

-----------------------------------------------------------------------------
(* API keys, the clock, and a new process.                                 *)

LEMMA KeyStepKeeps ==
  ASSUME AcctInv, UNCHANGED <<users, sessions, seen, clock, wrong, outcome>>, asks' \subseteq asks,
         keys' \subseteq Key1, \A k \in keys' : Scopable(k)
  PROVE  AcctInv'
BY DEF AcctInv, AcctTypeOK, AskSound, SessionsTrue, SessionTrue, SeenTrue, CountsTrue, OutcomeTrue, GrantsTimely,
   InUseStays, ServedAsNamed, GrantsScopable, Scopable

LEMMA CreateKeyKeeps ==
  ASSUME AcctInv, NEW k \in ApiKey, NEW caps \in {"role", "events", "plain"}, NEW scope \in {"all", "cameras"},
         create_api_key(k, caps, scope)
  PROVE  AcctInv'
<1> DEFINE new == [id |-> k, caps |-> caps, scope |-> scope, active |-> TRUE, revoked |-> FALSE]
<1>1. new \in Key1 /\ Scopable(new)
  BY DEF Key1, Scopable, create_api_key, validate_grant
<1>2. keys' = keys \cup {new} /\ UNCHANGED <<users, sessions, seen, asks, clock, wrong, outcome>>
  BY DEF create_api_key
<1>3. keys \subseteq Key1 /\ \A x \in keys : Scopable(x)
  BY DEF AcctInv, AcctTypeOK, GrantsScopable, Scopable
<1> HIDE DEF new
<1> QED BY <1>1, <1>2, <1>3, KeyStepKeeps

LEMMA KeyAskKeeps ==
  ASSUME AcctInv, NEW k \in ApiKey, NEW caps \in {"events", "plain", "keep"}, NEW scope \in {"all", "cameras", "keep"},
         NEW active \in BOOLEAN, NEW revoke \in BOOLEAN, update_api_key(k, caps, scope, active, revoke)
  PROVE  AcctInv'
<1> DEFINE c(cur) == IF caps = "keep" THEN cur.caps ELSE caps
           s(cur) == IF scope = "keep" THEN cur.scope ELSE scope
           new(cur) == [cur EXCEPT !.caps = c(cur), !.scope = s(cur), !.active = active, !.revoked = @ \/ revoke]
           ask(cur) == [op |-> "key", u |-> k, caps |-> caps, scope |-> scope, new |-> new(cur)]
<1>1. PICK cur \in keys : /\ (caps = "keep" /\ scope = "keep") \/ validate_grant(c(cur), s(cur))
                          /\ Ask(ask(cur))
  BY DEF update_api_key
<1>2. cur \in Key1 /\ Scopable(cur)
  BY DEF AcctInv, AcctTypeOK, GrantsScopable, Scopable
<1>3. c(cur) \in {"role", "events", "plain"} /\ s(cur) \in {"all", "cameras"}
      /\ (s(cur) = "cameras" => c(cur) = "plain")
  BY <1>1, <1>2 DEF Key1, Scopable, validate_grant
<1>4. new(cur) \in Key1 /\ Scopable(new(cur))
  BY <1>2, <1>3, ZenonT(60) DEF Key1, Scopable
<1>5. AskSound(ask(cur))
  BY <1>4 DEF AskSound
<1> HIDE DEF ask
<1> QED BY <1>1, <1>5, AskKeeps DEF update_api_key

LEMMA UpdateApiKeyKeeps ==
  ASSUME AcctInv, NEW ask \in asks, UpdateApiKey(ask)
  PROVE  AcctInv'
<1>1. ask.new \in Key1 /\ Scopable(ask.new)
  BY DEF AcctInv, AcctTypeOK, AskSound, UpdateApiKey
<1>2. keys' = {IF x.id = ask.u THEN ask.new ELSE x : x \in keys}
      /\ UNCHANGED <<users, sessions, seen, clock, wrong, outcome>> /\ asks' \subseteq asks
  BY DEF UpdateApiKey, Amended
<1>3. keys \subseteq Key1 /\ \A x \in keys : Scopable(x)
  BY DEF AcctInv, AcctTypeOK, GrantsScopable, Scopable
<1>4. \A x \in keys' : x = ask.new \/ x \in keys
  BY <1>2
<1> QED BY <1>1, <1>2, <1>3, <1>4, KeyStepKeeps

LEMMA DeleteKeyKeeps ==
  ASSUME AcctInv, NEW k, delete_api_key(k)
  PROVE  AcctInv'
<1>1. keys' \subseteq keys /\ UNCHANGED <<users, sessions, seen, asks, clock, wrong, outcome>>
  BY DEF delete_api_key
<1>2. keys \subseteq Key1 /\ \A x \in keys : Scopable(x)
  BY DEF AcctInv, AcctTypeOK, GrantsScopable, Scopable
<1> QED BY <1>1, <1>2, KeyStepKeeps

LEMMA TickKeeps ==
  ASSUME AcctInv, Tick
  PROVE  AcctInv'
<1>1. clock \in Nat /\ clock > 0 /\ clock' = clock + 1 /\ UNCHANGED <<users, sessions, seen, keys, asks, wrong, outcome>>
  BY DEF AcctInv, AcctTypeOK, Tick
<1>2. AcctTypeOK'
  BY <1>1 DEF AcctInv, AcctTypeOK, AskSound
<1>3. SessionsTrue'
  <2>1. ASSUME NEW x \in sessions PROVE SessionTrue(x)'
    <3>1. SessionTrue(x) /\ x \in Session1
      BY DEF AcctInv, AcctTypeOK, SessionsTrue
    <3> QED BY <1>1, <3>1 DEF SessionTrue, Session1
  <2> QED BY <1>1, <2>1 DEF AcctInv, SessionsTrue
<1>4. SeenTrue'
  <2>1. \A m \in seen : m.at \in Nat /\ m.at <= clock
    BY DEF AcctInv, AcctTypeOK, SeenTrue
  <2> QED BY <1>1, <2>1 DEF AcctInv, SeenTrue
<1> QED BY <1>1, <1>2, <1>3, <1>4 DEF AcctInv, CountsTrue, OutcomeTrue, GrantsTimely, InUseStays, ServedAsNamed,
             GrantsScopable

LEMMA RestartKeeps ==
  ASSUME AcctInv, Restart
  PROVE  AcctInv'
<1>1. PICK u \in User : /\ users' = IF users = {} THEN {Blank(u, "admin")} ELSE users
                        /\ Forgive(IF users = {} THEN {u} ELSE {})
  BY DEF Restart
<1>2. seen' = {} /\ asks' = {} /\ UNCHANGED <<sessions, keys, clock, outcome>>
  BY DEF Restart
<1>3. users' \subseteq Account1 /\ wrong' \in [User -> Nat] /\ CountsTrue'
  <2>1. CASE users = {}
    <3>1. Blank(u, "admin") \in Account1 /\ Blank(u, "admin").id = u /\ Blank(u, "admin").fails = 0
      BY DEF Blank, Account1, Never, Roles
    <3> QED BY <1>1, <2>1, <3>1, ForgivenKeeps
  <2>2. CASE users # {}
    <3>1. users' = users /\ wrong' = [v \in User |-> wrong[v]]
      BY <1>1, <2>2 DEF Forgive
    <3>2. wrong' = wrong
      BY <3>1 DEF AcctInv, AcctTypeOK
    <3> QED BY <3>1, <3>2 DEF AcctInv, AcctTypeOK, CountsTrue
  <2> QED BY <2>1, <2>2
<1>4. AcctTypeOK'
  BY <1>2, <1>3 DEF AcctInv, AcctTypeOK
<1>5. SessionsTrue' /\ SeenTrue'
  BY <1>2 DEF AcctInv, SessionsTrue, SessionTrue, SeenTrue
<1> QED BY <1>2, <1>3, <1>4, <1>5 DEF AcctInv, OutcomeTrue, GrantsTimely, InUseStays, ServedAsNamed, GrantsScopable

-----------------------------------------------------------------------------
LEMMA AccountStepKeeps ==
  ASSUME AcctInv, AccountStep
  PROVE  AcctInv'
<1>1. CASE UserStep
  BY <1>1, LoginKeeps, CreateKeeps, UpdateAskKeeps, UnlockKeeps, DeleteKeeps, LoginFailsKeeps, UpdateUserKeeps,
     DeleteUserKeeps, LoginSucceedsKeeps DEF UserStep
<1>2. CASE SessionStep
  BY <1>2, LoginKeeps, LoginSucceedsKeeps, LogoutKeeps, RequestKeeps DEF SessionStep
<1>3. CASE KeyStep
  BY <1>3, CreateKeyKeeps, KeyAskKeeps, UpdateApiKeyKeeps, DeleteKeyKeeps DEF KeyStep
<1> QED BY <1>1, <1>2, <1>3, TickKeeps, RestartKeeps DEF AccountStep

(* However logins, amendments, failed stamps and restarts interleave: a session ends with its lifetime
   and its idle time and not before, a caller is served as the credential it named, wrong passwords
   lock, and no key pairs a camera scope with a capability that reads across cameras (auth.rs:
   resolve_token, slide_to; routes/auth.rs: register_login_failure, update_api_key). *)
THEOREM AccountsAlwaysHold == MCSpec => []AccountsHold
<1>1. MCInit => AcctInv
  BY AcctInvInit DEF MCInit
<1>2. ASSUME AcctInv, [MCNext]_<<apiVars, acctVars, area>> PROVE AcctInv'
  <2>1. CASE UNCHANGED acctVars
    BY <1>2, <2>1 DEF acctVars, AcctInv, AcctTypeOK, AskSound, SessionsTrue, SessionTrue, SeenTrue, CountsTrue, OutcomeTrue,
       GrantsTimely, InUseStays, ServedAsNamed, GrantsScopable
  <2>2. CASE AccountStep
    BY <1>2, <2>2, AccountStepKeeps
  <2> QED BY <1>2, <2>1, <2>2 DEF MCNext
<1>3. AcctInv => AccountsHold
  <2> SUFFICES ASSUME AcctInv PROVE LockoutCounts
    BY DEF AcctInv, OutcomeTrue, AccountsHold
  <2> SUFFICES ASSUME NEW r \in users, wrong[r.id] >= MaxFailures PROVE r.until # Never
    BY DEF LockoutCounts
  <2>1. wrong[r.id] \in Nat /\ r.fails \in Nat /\ wrong[r.id] <= r.fails
    BY DEF AcctInv, AcctTypeOK, CountsTrue, Account1
  <2> QED BY <2>1, Constants DEF AcctInv, CountsTrue
<1> QED BY <1>1, <1>2, <1>3, PTL DEF MCSpec

-----------------------------------------------------------------------------
(* Induction on the natural numbers, as a statement about sets of them: every
   set that is not empty has a least element. *)
LEMMA Least ==
  ASSUME NEW T \in SUBSET Nat, T # {}
  PROVE  \E n \in T : \A m \in T : n <= m
<1> DEFINE Less == {p \in Nat \X Nat : p[1] < p[2]}
<1>1. IsWellFoundedOn(Less, Nat)
  BY NatLessThanWellFounded DEF OpToRel
<1>2. PICK n \in T : \A m \in T : ~ (<<m, n>> \in Less)
  BY <1>1, WFMin
<1>3. ASSUME NEW m \in T PROVE n <= m
  <2>1. m \in Nat /\ n \in Nat /\ ~ (m < n)
    BY <1>2
  <2> QED BY <2>1
<1> QED BY <1>3

LEMMA Induction ==
  ASSUME NEW N \in Nat, NEW T, 0 \in T, \A n \in 0..N : n \in T /\ n < N => n + 1 \in T
  PROVE  0..N \subseteq T
<1> SUFFICES ASSUME ~ (0..N \subseteq T) PROVE FALSE
  OBVIOUS
<1> DEFINE Out == (0..N) \ T
<1>1. Out \in SUBSET Nat /\ Out # {}
  OBVIOUS
<1>2. PICK n \in Out : \A m \in Out : n <= m
  BY <1>1, Least
<1>3. n # 0 /\ n - 1 \in 0..N /\ n - 1 < N /\ (n - 1) + 1 = n /\ n - 1 < n
  OBVIOUS
<1>4. n - 1 \notin Out
  BY <1>2, <1>3
<1> QED BY <1>3, <1>4

-----------------------------------------------------------------------------
(* A list of writes is performed one after the other.                      *)

IsRun(f, d, ws, n) == f = [k \in 0..n |-> IF k = 0 THEN d ELSE Write(f[k - 1], ws[k])]

LEMMA RunsLonger ==
  ASSUME NEW d, NEW ws, NEW n \in Nat, NEW f, IsRun(f, d, ws, n)
  PROVE  \E g : IsRun(g, d, ws, n + 1)
<1> DEFINE g == [k \in 0..(n + 1) |-> IF k = n + 1 THEN Write(f[n], ws[n + 1]) ELSE f[k]]
<1>1. ASSUME NEW k \in 0..(n + 1) PROVE g[k] = IF k = 0 THEN d ELSE Write(g[k - 1], ws[k])
  <2>1. CASE k = n + 1
    <3>1. n \in 0..(n + 1) /\ n # n + 1 /\ k # 0 /\ k - 1 = n
      BY <2>1
    <3>2. g[n] = f[n] /\ g[k] = Write(f[n], ws[n + 1])
      BY <2>1, <3>1
    <3> QED BY <2>1, <3>1, <3>2
  <2>2. CASE k # n + 1 /\ k # 0
    <3>1. k \in 0..n /\ k - 1 \in 0..n /\ k - 1 \in 0..(n + 1) /\ k - 1 # n + 1
      BY <2>2
    <3>2. g[k] = f[k] /\ g[k - 1] = f[k - 1]
      BY <2>2, <3>1
    <3>3. f[k] = Write(f[k - 1], ws[k])
      BY <2>2, <3>1 DEF IsRun
    <3> QED BY <2>2, <3>2, <3>3
  <2>3. CASE k = 0
    <3>1. g[k] = f[0] /\ 0 \in 0..n
      BY <2>3
    <3> QED BY <2>3, <3>1 DEF IsRun
  <2> QED BY <2>1, <2>2, <2>3
<1>2. g = [k \in 0..(n + 1) |-> g[k]]
  OBVIOUS
<1> HIDE DEF g
<1>3. IsRun(g, d, ws, n + 1)
  BY <1>1, <1>2 DEF IsRun
<1> QED BY <1>3

LEMMA Runs ==
  ASSUME NEW d, NEW ws, NEW N \in Nat
  PROVE  \E f : IsRun(f, d, ws, N)
<1> DEFINE T == {n \in 0..N : \E f : IsRun(f, d, ws, n)}
<1>1. 0 \in T
  <2> DEFINE f == [k \in 0..0 |-> d]
  <2>1. IsRun(f, d, ws, 0)
    BY DEF IsRun
  <2> HIDE DEF f
  <2> QED BY <2>1
<1>2. ASSUME NEW n \in 0..N, n \in T, n < N PROVE n + 1 \in T
  BY <1>2, RunsLonger
<1> HIDE DEF T
<1>3. N \in T
  BY <1>1, <1>2, Induction
<1> QED BY <1>3 DEF T

LEMMA ApplyIs ==
  ASSUME NEW d, NEW ws, Len(ws) \in Nat
  PROVE  \E f : IsRun(f, d, ws, Len(ws)) /\ f[Len(ws)] = Apply(d, ws)
<1> DEFINE f == CHOOSE f : IsRun(f, d, ws, Len(ws))
<1>1. IsRun(f, d, ws, Len(ws))
  BY Runs
<1>2. Apply(d, ws) = f[Len(ws)]
  BY DEF Apply, IsRun
<1> QED BY <1>1, <1>2

-----------------------------------------------------------------------------
(* What the schema says of a row, table by table: the tables that keep one    *)
(* row per camera under its id, the ones that belong to no camera, and the    *)
(* ones whose rows name one.  A lease is its holder's: the camera is in the   *)
(* holder's scope.                                                            *)

OwnTable == {"cameras", "camera_status", "device", "capabilities", "camera_isapi", "camera_onvif", "presets",
             "gate_policies"}

FleetTable == {"sites", "settings", "workers", "modules", "api_keys", "webhooks", "vehicles", "watchlist",
               "visitor_passes", "gate_settings", "backup_destinations", "webhook_deliveries", "box_alerts", "outbox"}

OneCamera == {"segments", "recording_gaps", "zones", "zone_events", "zone_occupancy", "ai_tasks", "ai_leases",
              "camera_schedules", "snapshot_schedules", "snapshots", "detections", "embeddings", "evidence_bundles"}

RowOk(r) ==
  /\ r = [t |-> r.t, id |-> r.id, cams |-> r.cams, ref |-> r.ref, v |-> r.v]
  /\ r.t \in OwnTable => r.cams = {r.id}
  /\ r.t \in FleetTable => r.cams = {}
  /\ r.t \in OneCamera => \E c \in r.cams : r.cams = {c}
  /\ r.t = "events" /\ r.id \in Camera => r.cams = {r.id}
  /\ r.t = "ai_leases" => \A p \in Credential : p.id = r.ref => Holds(p, r)

(* A table has at most one row of an id; the companions of a module are only
   ever read as a set. *)
Issued == {"api_keys", "webhooks"}

Keyed(d) == \A x, y \in d : x.t = y.t /\ x.id = y.id /\ x.t \notin Issued => x = y

DbOk(d) == IsFiniteSet(d) /\ (\A r \in d : RowOk(r)) /\ Keyed(d)

(* A lease has the camera of its task, a breach the one of its zone event; an
   archive's file shows no camera that its job does not name. *)
Fit(x, y) ==
  /\ x.id = y.id /\ <<x.t, y.t>> \in {<<"ai_leases", "ai_tasks">>, <<"breach_alerts", "zone_events">>} => x.cams = y.cams
  /\ x.id = y.id /\ x.t = "media_artifacts" /\ x.ref = "archives" /\ y.t = "backup_jobs" =>
        x.cams # {} /\ (y.cams = {} \/ x.cams \subseteq y.cams)

(* The rows of a table under one id are of the same cameras, before and after;
   the selection of a backup policy is the exception. *)
Near(x, y) == x.t = y.t /\ x.id = y.id /\ x.t # "backup_policies" => x.cams = y.cams

Written(eff) == {eff[k].row : k \in DOMAIN eff}
PendRows(P) == UNION {Written(q.eff) : q \in P}

(* What is true of a write whatever the database it meets: a scoped
   credential's is about a row of its own. *)
OwnedRow(p, r) == Holds(p, r) \/ (r.t = "workers" /\ r.ref = p.id)

WriteOk(op, p, w) ==
  /\ w.act \in {"ins", "upd", "put", "del"} /\ RowOk(w.row)
  /\ w.act = "upd" => w.row.t \notin {"media_artifacts", "ai_leases", "workers"}
  /\ (w.act = "del" /\ w.row.t = "sites") <=> op = "delete_site"
  /\ Scoped(p) =>
       /\ OwnedRow(p, w.row) /\ w.row.t # "modules"
       /\ w.act = "del" => w.row.t \notin {"cameras", "sites"}
       /\ w.row.t = "workers" => w.act = "put"
       /\ w.row.t = "backup_policies" /\ w.act # "ins" => op \in Reselected

Listed(op, p, ws) ==
  /\ Len(ws) \in Nat /\ DOMAIN ws = 1..Len(ws)
  /\ \A k \in DOMAIN ws : WriteOk(op, p, ws[k])

PendOk(P) == \A q \in P : q.p \in Credential /\ P = {q} /\ Listed(q.op, q.p, q.eff)

BlameOk == NonInterference /\ Confined /\ RevokedStays /\ AsPublished

StateOk(d, P) ==
  /\ DbOk(d) /\ PendOk(P)
  /\ \A x \in d, y \in PendRows(P) : Near(x, y)
  /\ \A x, y \in d \cup PendRows(P) : Fit(x, y)

ApiInv == StateOk(db, pend) /\ BlameOk
-----------------------------------------------------------------------------
(* One write.                                                              *)

(* Two rows that are the same as far as the rules about pairs of rows go. *)
Twin(x, y) ==
  /\ x.t = y.t /\ x.id = y.id /\ x.cams = y.cams
  /\ x.t \in {"media_artifacts", "ai_leases"} => x.ref = y.ref

LEMMA ImageFinite ==
  ASSUME NEW S, IsFiniteSet(S), NEW f
  PROVE  IsFiniteSet({f[x] : x \in S})
<1> DEFINE T == {f[x] : x \in S}
           g == [x \in S |-> f[x]]
<1>1. g \in Surjection(S, T)
  BY DEF Surjection
<1> QED BY <1>1, FS_Surjection

LEMMA GetFinite ==
  ASSUME NEW d, IsFiniteSet(d), NEW t, NEW i
  PROVE  IsFiniteSet(Get(d, t, i))
BY FS_Subset DEF Get

LEMMA CompanionsAre ==
  ASSUME NEW r
  PROVE  IsFiniteSet(Companions(r)) /\ \A x \in Companions(r) : RowOk(x) /\ x.t \in Issued
<1>1. IsFiniteSet({}) /\ \A x : IsFiniteSet({x})
  BY FS_EmptySet, FS_Singleton
<1>2. \A x, y : IsFiniteSet({x, y})
  <2> TAKE x, y
  <2>1. {x, y} = {x} \cup {y}
    OBVIOUS
  <2> QED BY <1>1, <2>1, FS_AddElement, ZenonT(60)
<1>3. \A x \in Companions(r) : RowOk(x) /\ x.t \in Issued
  BY DEF Companions, Row, RowOk, Issued, FleetTable, OwnTable, OneCamera
<1> QED BY <1>1, <1>2, <1>3 DEF Companions

LEMMA DeletedIs ==
  ASSUME NEW d, NEW w, w.act = "del"
  PROVE  Write(d, w) \subseteq d
BY DEF Write, DeleteCamera, DeleteSite

LEMMA SubsetKeeps ==
  ASSUME NEW d, DbOk(d), NEW e, e \subseteq d
  PROVE  DbOk(e)
BY FS_Subset DEF DbOk, Keyed

(* A write leaves a well-formed database well-formed, and every row it leaves
   is one that was there, or the one it writes. *)
LEMMA WriteKeeps ==
  ASSUME NEW d, DbOk(d), NEW op, NEW p, NEW w, WriteOk(op, p, w)
  PROVE  /\ DbOk(Write(d, w))
         /\ \A x \in Write(d, w) : x.t \in Issued \/ Twin(x, w.row) \/ \E y \in d : Twin(x, y)
<1> DEFINE r == w.row
<1>0. RowOk(r) /\ IsFiniteSet(d) /\ \A x \in d : RowOk(x)
  BY DEF WriteOk, DbOk
<1>1. CASE w.act = "ins"
  <2>1. CASE ~ (Sound(d, r) /\ ~ Exists(d, r.t, r.id))
    BY <1>1, <2>1 DEF Write, Twin
  <2>2. CASE ~ Exists(d, r.t, r.id)
    <3>1. Write(d, w) = d \/ Write(d, w) = d \cup {r} \cup Companions(r)
      BY <1>1 DEF Write
    <3>2. IsFiniteSet(d \cup {r} \cup Companions(r))
      <4>1. IsFiniteSet(d \cup {r})
        BY <1>0, FS_AddElement
      <4> QED BY <4>1, CompanionsAre, FS_Union
    <3>3. Keyed(d \cup {r} \cup Companions(r))
      BY <2>2, CompanionsAre DEF DbOk, Keyed, Exists, Get
    <3> QED BY <1>0, <3>1, <3>2, <3>3, CompanionsAre DEF DbOk, Twin
  <2> QED BY <2>1, <2>2
<1>2. CASE w.act = "upd"
  <2> DEFINE new == {Left(x, w) : x \in Get(d, r.t, r.id)}
  <2>1. Write(d, w) = d \/ Write(d, w) = (d \ Get(d, r.t, r.id)) \cup new
    BY <1>2 DEF Write, Columns
  <2>2. IsFiniteSet((d \ Get(d, r.t, r.id)) \cup new)
    <3>1. IsFiniteSet(Get(d, r.t, r.id)) /\ IsFiniteSet(d \ Get(d, r.t, r.id))
      BY <1>0, GetFinite, FS_Subset
    <3> DEFINE f == [x \in Get(d, r.t, r.id) |-> Left(x, w)]
    <3>2. new = {f[x] : x \in Get(d, r.t, r.id)}
      OBVIOUS
    <3> HIDE DEF f
    <3>3. IsFiniteSet(new)
      BY <3>1, <3>2, ImageFinite
    <3> HIDE DEF new
    <3> QED BY <3>1, <3>3, FS_Union
  <2>3. ASSUME NEW x \in Get(d, r.t, r.id)
        PROVE  /\ Left(x, w).t = r.t /\ Left(x, w).id = r.id
               /\ RowOk(Left(x, w)) /\ (Twin(Left(x, w), r) \/ Twin(Left(x, w), x))
    <3>1. x \in d /\ x.t = r.t /\ x.id = r.id /\ RowOk(x) /\ RowOk(r)
      BY <1>0 DEF Get
    <3>2. r.t \notin {"media_artifacts", "ai_leases", "workers"}
      BY <1>2 DEF WriteOk
    <3>3. Left(x, w).t = r.t /\ Left(x, w).id = r.id /\ (Left(x, w).cams = r.cams \/ Left(x, w).cams = x.cams)
      BY <3>1 DEF Left, Row
    <3>4. Left(x, w) = [t |-> Left(x, w).t, id |-> Left(x, w).id, cams |-> Left(x, w).cams, ref |-> Left(x, w).ref, v |-> Left(x, w).v]
      BY DEF Left, Row
    <3> DEFINE z == Left(x, w)
    <3> HIDE DEF z
    <3> QED BY <3>1, <3>2, <3>3, <3>4 DEF RowOk, Twin
  <2>4. Keyed((d \ Get(d, r.t, r.id)) \cup new)
    <3> SUFFICES ASSUME NEW x \in (d \ Get(d, r.t, r.id)) \cup new, NEW y \in (d \ Get(d, r.t, r.id)) \cup new,
                        x.t = y.t, x.id = y.id, x.t \notin Issued
                 PROVE  x = y
      BY DEF Keyed
    <3>1. CASE x \in new /\ y \in new
      <4>1. PICK a \in Get(d, r.t, r.id), b \in Get(d, r.t, r.id) : x = Left(a, w) /\ y = Left(b, w)
        BY <3>1
      <4>2. a \in d /\ b \in d /\ a.t = r.t /\ b.t = r.t /\ a.id = r.id /\ b.id = r.id /\ x.t = r.t
        BY <2>3, <4>1 DEF Get
      <4>3. a = b
        BY <4>2 DEF Keyed, DbOk
      <4> QED BY <4>1, <4>3
    <3>2. CASE x \notin new /\ y \notin new
      BY <3>2 DEF Keyed, DbOk
    <3>3. \A z \in new : z.t = r.t /\ z.id = r.id
      BY <2>3
    <3>4. \A z \in d \ Get(d, r.t, r.id) : ~ (z.t = r.t /\ z.id = r.id)
      BY DEF Get
    <3> QED BY <3>1, <3>2, <3>3, <3>4
  <2>5. CASE Write(d, w) = d
    BY <2>5 DEF Twin
  <2>6. CASE Write(d, w) = (d \ Get(d, r.t, r.id)) \cup new
    <3>1. \A x \in Write(d, w) : RowOk(x) /\ (Twin(x, r) \/ \E y \in d : Twin(x, y))
      <4> TAKE x \in Write(d, w)
      <4>1. CASE x \in new
        BY <2>3, <4>1 DEF Get
      <4>2. CASE x \in d
        BY <1>0, <4>2 DEF Twin
      <4> QED BY <2>6, <4>1, <4>2
    <3> HIDE DEF new
    <3>2. DbOk(Write(d, w))
      BY <2>2, <2>4, <2>6, <3>1 DEF DbOk
    <3> QED BY <3>1, <3>2
  <2> QED BY <2>1, <2>5, <2>6
<1>3. CASE w.act = "put"
  <2>1. Write(d, w) = d \/ Write(d, w) = (d \ Get(d, r.t, r.id)) \cup {r}
    BY <1>3 DEF Write, Replace
  <2>2. IsFiniteSet((d \ Get(d, r.t, r.id)) \cup {r})
    <3>1. IsFiniteSet(d \ Get(d, r.t, r.id))
      BY <1>0, FS_Subset
    <3> QED BY <3>1, FS_AddElement
  <2>3. Keyed((d \ Get(d, r.t, r.id)) \cup {r})
    BY DEF DbOk, Keyed, Get
  <2>4. RowOk(r)
    BY <1>0
  <2> QED BY <1>0, <2>1, <2>2, <2>3, <2>4 DEF DbOk, Twin
<1>4. CASE w.act = "del"
  BY <1>4, DeletedIs, SubsetKeeps DEF Twin
<1> QED BY <1>1, <1>2, <1>3, <1>4 DEF WriteOk
-----------------------------------------------------------------------------
(* What one write, and then a list of them, may do to the sites, to the rows   *)
(* that are not the credential's, and to the passes that are revoked.          *)

SitesKept(op, d, e) ==
  /\ op # "delete_site" => \A s \in Rows(d, "sites") : Exists(e, "sites", s.id)
  /\ op = "delete_site" =>
       /\ Rows(e, "cameras") = Rows(d, "cameras")
       /\ \A s \in Rows(d, "sites") : Exists(e, "sites", s.id) \/ \A c \in Rows(d, "cameras") : c.ref # s.id

LEMMA WriteSites ==
  ASSUME NEW d, DbOk(d), NEW op, NEW p, NEW w, WriteOk(op, p, w)
  PROVE  SitesKept(op, d, Write(d, w))
<1> DEFINE r == w.row
<1>1. CASE op = "delete_site"
  <2>1. w.act = "del" /\ r.t = "sites"
    BY <1>1 DEF WriteOk
  <2>2. Write(d, w) = DeleteSite(d, r.id)
    BY <2>1 DEF Write
  <2>3. Rows(DeleteSite(d, r.id), "cameras") = Rows(d, "cameras")
    BY DEF DeleteSite, Rows, Get
  <2>4. ASSUME NEW s \in Rows(d, "sites")
        PROVE  Exists(DeleteSite(d, r.id), "sites", s.id) \/ \A c \in Rows(d, "cameras") : c.ref # s.id
    BY <2>4 DEF DeleteSite, Rows, Get, Exists
  <2> QED BY <1>1, <2>2, <2>3, <2>4 DEF SitesKept
<1>2. CASE op # "delete_site"
  <2> SUFFICES ASSUME NEW s \in Rows(d, "sites") PROVE Exists(Write(d, w), "sites", s.id)
    BY <1>2 DEF SitesKept
  <2>1. s \in d /\ s.t = "sites" /\ s.cams = {}
    BY DEF Rows, DbOk, RowOk, FleetTable
  <2>2. CASE w.act = "ins"
    BY <2>1, <2>2 DEF Write, Exists, Get
  <2>3. CASE w.act = "upd"
    <3>1. CASE r.t = "sites" /\ r.id = s.id
      <4>1. Left(s, w) \in Columns(d, w)
        BY <2>1, <3>1 DEF Columns, Get
      <4>2. Left(s, w).t = "sites" /\ Left(s, w).id = s.id
        BY <2>1 DEF Left, Row
      <4>3. s \in Write(d, w) \/ Left(s, w) \in Write(d, w)
        BY <2>1, <2>3, <4>1 DEF Write
      <4> QED BY <2>1, <4>2, <4>3 DEF Exists, Get
    <3>2. CASE ~ (r.t = "sites" /\ r.id = s.id)
      <4>1. s \in Write(d, w)
        BY <2>1, <2>3, <3>2 DEF Write, Get
      <4> QED BY <2>1, <4>1 DEF Exists, Get
    <3> QED BY <3>1, <3>2
  <2>4. CASE w.act = "put"
    BY <2>1, <2>4 DEF Write, Exists, Get, Replace
  <2>5. CASE w.act = "del"
    <3>1. r.t # "sites"
      BY <1>2, <2>5 DEF WriteOk
    <3>2. s \in Write(d, w)
      <4>1. CASE r.t = "cameras"
        BY <2>1, <2>5, <4>1 DEF Write, DeleteCamera
      <4>2. CASE r.t # "cameras"
        <5>1. \A y \in Companions(r) : y.t # "sites"
          BY CompanionsAre DEF Issued
        <5> QED BY <2>1, <2>5, <3>1, <4>2, <5>1 DEF Write, Get
      <4> QED BY <4>1, <4>2
    <3> QED BY <2>1, <3>2 DEF Exists, Get
  <2> QED BY <2>2, <2>3, <2>4, <2>5 DEF WriteOk
<1> QED BY <1>1, <1>2

LEMMA SitesOn ==
  ASSUME NEW op, NEW a, NEW b, NEW c, SitesKept(op, a, b), SitesKept(op, b, c)
  PROVE  SitesKept(op, a, c)
BY DEF SitesKept, Exists, Rows, Get

(* The rows of a database that are not the credential's. *)
Others(d, p) == {r \in d : ~ OwnedRow(p, r)}

LEMMA OthersIs ==
  ASSUME NEW d, NEW p
  PROVE  d \ Owned(d, p) = Others(d, p)
BY DEF Owned, Others, OwnedRow

(* A write that meets no row but the credential's, on the database d that its
   request has read, meets none on one with the same rows of others. *)
Meets(d, p, w) == w.act # "ins" /\ w.row.t # "workers" => \A x \in Get(d, w.row.t, w.row.id) : Holds(p, x)

LEMMA WriteConfined ==
  ASSUME NEW d, NEW e, DbOk(e), NEW op, NEW p, NEW w, WriteOk(op, p, w), Scoped(p), Meets(d, p, w),
         Others(e, p) = Others(d, p)
  PROVE  Others(Write(e, w), p) = Others(d, p)
<1> DEFINE r == w.row
<1>1. RowOk(r) /\ OwnedRow(p, r) /\ r.t # "modules" /\ (w.act = "del" => r.t \notin {"cameras", "sites"})
      /\ (r.t = "workers" => w.act = "put")
  BY DEF WriteOk
<1>2. ASSUME w.act # "ins", r.t # "workers", NEW x \in Get(e, r.t, r.id) PROVE Holds(p, x)
  <2>1. SUFFICES ASSUME ~ OwnedRow(p, x) PROVE Holds(p, x)
    BY <1>2 DEF OwnedRow, Get
  <2>2. x \in d
    BY <2>1 DEF Others, Get
  <2> QED BY <1>2, <2>2 DEF Meets, Get
<1>3. CASE w.act = "ins"
  <2>1. Companions(r) = {}
    BY <1>1 DEF Companions
  <2>2. Write(e, w) = e \/ Write(e, w) = e \cup {r}
    BY <1>3, <2>1 DEF Write
  <2> QED BY <1>1, <2>2 DEF Others
<1>4. CASE w.act = "upd"
  <2>1. r.t # "workers" /\ Holds(p, r)
    BY <1>1, <1>4 DEF OwnedRow
  <2>2. ASSUME NEW x \in Get(e, r.t, r.id) PROVE OwnedRow(p, x) /\ OwnedRow(p, Left(x, w))
    <3>1. Holds(p, x)
      BY <1>2, <1>4, <2>1
    <3>2. Left(x, w).cams = x.cams \/ Left(x, w).cams = r.cams
      BY DEF Left, Row
    <3> QED BY <2>1, <3>1, <3>2 DEF OwnedRow, Holds
  <2>3. Write(e, w) = e \/ Write(e, w) = (e \ Get(e, r.t, r.id)) \cup Columns(e, w)
    BY <1>4 DEF Write
  <2>4. \A x \in Columns(e, w) : OwnedRow(p, x)
    BY <2>2 DEF Columns
  <2> QED BY <2>2, <2>3, <2>4 DEF Others
<1>5. CASE w.act = "put"
  <2>1. Write(e, w) = e \/ (Free(e, r) /\ Write(e, w) = (e \ Get(e, r.t, r.id)) \cup {r})
    BY <1>5 DEF Write, Replace
  <2>2. ASSUME Free(e, r), NEW x \in Get(e, r.t, r.id) PROVE OwnedRow(p, x)
    <3>1. CASE r.t = "workers"
      <4>1. r.cams = {} /\ x.t = "workers" /\ x.ref = r.ref
        BY <1>1, <2>2, <3>1 DEF RowOk, FleetTable, Free, Get
      <4> QED BY <1>1, <4>1 DEF OwnedRow, Holds
    <3>2. CASE r.t # "workers"
      BY <1>2, <1>5, <3>2 DEF OwnedRow
    <3> QED BY <3>1, <3>2
  <2> QED BY <1>1, <2>1, <2>2 DEF Others
<1>6. CASE w.act = "del"
  <2>1. Companions(r) = {} /\ r.t # "workers"
    BY <1>1, <1>6 DEF Companions
  <2>2. Write(e, w) = e \ Get(e, r.t, r.id)
    BY <1>1, <1>6, <2>1 DEF Write
  <2>3. \A x \in Get(e, r.t, r.id) : OwnedRow(p, x)
    BY <1>2, <1>6, <2>1 DEF OwnedRow
  <2> QED BY <2>2, <2>3 DEF Others
<1> QED BY <1>3, <1>4, <1>5, <1>6 DEF WriteOk

(* A pass that is revoked in d is in e, if it is there. *)
RevokedKept(d, e) ==
  \A r \in Rows(d, "visitor_passes"), x \in e :
     r.ref = "revoked" /\ x.t = "visitor_passes" /\ x.id = r.id => x.ref = "revoked"

(* A write that reinstates no pass of the database d. *)
Reinstates(d, w) ==
  w.row.t = "visitor_passes" =>
    \/ w.act = "ins" /\ \A x \in d : x.id # w.row.id
    \/ /\ w.act = "upd"
       /\ "ref" \in w.cols => \A x \in Get(d, "visitor_passes", w.row.id) : x.ref = "revoked" => w.row.ref = "revoked"

LEMMA WriteRevoked ==
  ASSUME NEW d, NEW e, NEW op, NEW p, NEW w, WriteOk(op, p, w), Reinstates(d, w), RevokedKept(d, e)
  PROVE  RevokedKept(d, Write(e, w))
<1> DEFINE r == w.row
<1> SUFFICES ASSUME NEW v \in Rows(d, "visitor_passes"), NEW x \in Write(e, w),
                    v.ref = "revoked", x.t = "visitor_passes", x.id = v.id
             PROVE  x.ref = "revoked"
  BY DEF RevokedKept
<1>0. v \in d /\ v.t = "visitor_passes"
  BY DEF Rows
<1>1. CASE x \in e
  BY <1>1 DEF RevokedKept
<1>2. CASE x \notin e
  <2>1. CASE w.act = "ins"
    <3>1. x = r \/ x \in Companions(r)
      BY <1>2, <2>1 DEF Write
    <3>2. x = r
      BY <3>1, CompanionsAre DEF Issued
    <3> QED BY <1>0, <2>1, <3>2 DEF Reinstates
  <2>2. CASE w.act = "upd"
    <3>1. PICK y \in Get(e, r.t, r.id) : x = Left(y, w)
      BY <1>2, <2>2 DEF Write, Columns
    <3>2. y \in e /\ y.t = r.t /\ y.id = r.id /\ x.t = y.t /\ x.id = y.id
          /\ (x.ref = y.ref \/ ("ref" \in w.cols /\ x.ref = r.ref))
      BY <3>1 DEF Left, Row, Get
    <3>3. y.ref = "revoked"
      BY <3>2 DEF RevokedKept
    <3>4. "ref" \in w.cols => r.ref = "revoked"
      BY <1>0, <2>2, <3>2 DEF Reinstates, Get
    <3> QED BY <3>2, <3>3, <3>4
  <2>3. CASE w.act = "put"
    <3>1. x = r
      BY <1>2, <2>3 DEF Write, Replace
    <3> QED BY <2>3, <3>1 DEF Reinstates
  <2>4. CASE w.act = "del"
    BY <1>2, <2>4, DeletedIs
  <2> QED BY <2>1, <2>2, <2>3, <2>4 DEF WriteOk
<1> QED BY <1>1, <1>2
-----------------------------------------------------------------------------
(* A list of writes.                                                       *)

Known(d, ws, x) == x.t \in Issued \/ (\E k \in DOMAIN ws : Twin(x, ws[k].row)) \/ \E y \in d : Twin(x, y)

LEMMA TwinOn ==
  ASSUME NEW x, NEW y, NEW z, Twin(x, y), Twin(y, z)
  PROVE  Twin(x, z)
BY DEF Twin

LEMMA TwinSelf ==
  ASSUME NEW x
  PROVE  Twin(x, x)
BY DEF Twin

LEMMA SitesSelf ==
  ASSUME NEW op, NEW d
  PROVE  SitesKept(op, d, d)
BY DEF SitesKept, Exists, Rows, Get

Kept(op, d, ws, e) == DbOk(e) /\ SitesKept(op, d, e) /\ \A x \in e : Known(d, ws, x)

LEMMA ApplyKeeps ==
  ASSUME NEW d, DbOk(d), NEW op, NEW p, NEW ws, Listed(op, p, ws)
  PROVE  Kept(op, d, ws, Apply(d, ws))
<1>0. Len(ws) \in Nat /\ DOMAIN ws = 1..Len(ws)
  BY DEF Listed
<1>1. PICK f : IsRun(f, d, ws, Len(ws)) /\ f[Len(ws)] = Apply(d, ws)
  BY <1>0, ApplyIs
<1> DEFINE T == {n \in 0..Len(ws) : Kept(op, d, ws, f[n])}
<1>2. 0 \in T
  <2>1. f[0] = d
    BY <1>0, <1>1 DEF IsRun
  <2>2. Kept(op, d, ws, d)
    BY TwinSelf, SitesSelf DEF Kept, Known
  <2> QED BY <1>0, <2>1, <2>2
<1>3. ASSUME NEW n \in 0..Len(ws), n \in T, n < Len(ws) PROVE n + 1 \in T
  <2>1. n + 1 \in 1..Len(ws) /\ n + 1 \in 0..Len(ws) /\ n + 1 # 0 /\ (n + 1) - 1 = n
    BY <1>0, <1>3
  <2>2. f[n + 1] = Write(f[n], ws[n + 1])
    BY <1>1, <2>1 DEF IsRun
  <2>3. WriteOk(op, p, ws[n + 1])
    BY <1>0, <2>1 DEF Listed
  <2>4. DbOk(f[n]) /\ SitesKept(op, d, f[n]) /\ \A x \in f[n] : Known(d, ws, x)
    BY <1>3 DEF Kept
  <2> DEFINE e == f[n]  w == ws[n + 1]
  <2>5. DbOk(Write(e, w)) /\ \A x \in Write(e, w) : x.t \in Issued \/ Twin(x, w.row) \/ \E y \in e : Twin(x, y)
    BY <2>3, <2>4, WriteKeeps
  <2>6. SitesKept(op, d, Write(e, w))
    BY <2>3, <2>4, WriteSites, SitesOn
  <2>7. ASSUME NEW x \in Write(e, w) PROVE Known(d, ws, x)
    <3>1. CASE x.t \in Issued
      BY <3>1 DEF Known
    <3>2. CASE Twin(x, w.row)
      BY <1>0, <2>1, <3>2 DEF Known
    <3>3. CASE \E y \in e : Twin(x, y)
      <4>1. PICK y \in e : Twin(x, y)
        BY <3>3
      <4>2. Known(d, ws, y) /\ x.t = y.t
        BY <2>4, <4>1 DEF Twin
      <4> QED BY <4>1, <4>2, TwinOn DEF Known
    <3> QED BY <2>5, <3>1, <3>2, <3>3
  <2> HIDE DEF e, w
  <2>8. Kept(op, d, ws, Write(e, w))
    BY <2>5, <2>6, <2>7 DEF Kept
  <2> QED BY <2>1, <2>2, <2>8 DEF e, w
<1> HIDE DEF T
<1>4. \A n \in 0..Len(ws) : n \in T /\ n < Len(ws) => n + 1 \in T
  BY <1>3
<1>5. 0..Len(ws) \subseteq T
  BY <1>0, <1>2, <1>4, Induction
<1>6. Len(ws) \in T
  BY <1>0, <1>5
<1> QED BY <1>1, <1>6 DEF T

LEMMA ApplyConfined ==
  ASSUME NEW d, DbOk(d), NEW op, NEW p, NEW ws, Listed(op, p, ws), Scoped(p),
         \A k \in DOMAIN ws : Meets(d, p, ws[k])
  PROVE  Others(Apply(d, ws), p) = Others(d, p)
<1>0. Len(ws) \in Nat /\ DOMAIN ws = 1..Len(ws)
  BY DEF Listed
<1>1. PICK f : IsRun(f, d, ws, Len(ws)) /\ f[Len(ws)] = Apply(d, ws)
  BY <1>0, ApplyIs
<1> DEFINE T == {n \in 0..Len(ws) : DbOk(f[n]) /\ Others(f[n], p) = Others(d, p)}
<1>2. 0 \in T
  BY <1>0, <1>1 DEF IsRun
<1>3. ASSUME NEW n \in 0..Len(ws), n \in T, n < Len(ws) PROVE n + 1 \in T
  <2>1. n + 1 \in 1..Len(ws) /\ n + 1 \in 0..Len(ws) /\ n + 1 # 0 /\ (n + 1) - 1 = n
    BY <1>0, <1>3
  <2>2. f[n + 1] = Write(f[n], ws[n + 1])
    BY <1>1, <2>1 DEF IsRun
  <2>3. WriteOk(op, p, ws[n + 1]) /\ Meets(d, p, ws[n + 1])
    BY <1>0, <2>1 DEF Listed
  <2>4. DbOk(Write(f[n], ws[n + 1])) /\ Others(Write(f[n], ws[n + 1]), p) = Others(d, p)
    BY <1>3, <2>3, WriteKeeps, WriteConfined
  <2> QED BY <2>1, <2>2, <2>4
<1> HIDE DEF T
<1>4. \A n \in 0..Len(ws) : n \in T /\ n < Len(ws) => n + 1 \in T
  BY <1>3
<1>5. 0..Len(ws) \subseteq T
  BY <1>0, <1>2, <1>4, Induction
<1>6. Len(ws) \in T
  BY <1>0, <1>5
<1> QED BY <1>1, <1>6 DEF T

LEMMA ApplyRevoked ==
  ASSUME NEW d, DbOk(d), NEW op, NEW p, NEW ws, Listed(op, p, ws), \A k \in DOMAIN ws : Reinstates(d, ws[k])
  PROVE  RevokedKept(d, Apply(d, ws))
<1>0. Len(ws) \in Nat /\ DOMAIN ws = 1..Len(ws)
  BY DEF Listed
<1>1. PICK f : IsRun(f, d, ws, Len(ws)) /\ f[Len(ws)] = Apply(d, ws)
  BY <1>0, ApplyIs
<1> DEFINE T == {n \in 0..Len(ws) : RevokedKept(d, f[n])}
<1>2. 0 \in T
  <2>1. RevokedKept(d, d)
    BY DEF RevokedKept, Rows, DbOk, Keyed, Issued
  <2> QED BY <1>0, <1>1, <2>1 DEF IsRun
<1>3. ASSUME NEW n \in 0..Len(ws), n \in T, n < Len(ws) PROVE n + 1 \in T
  <2>1. n + 1 \in 1..Len(ws) /\ n + 1 \in 0..Len(ws) /\ n + 1 # 0 /\ (n + 1) - 1 = n
    BY <1>0, <1>3
  <2>2. f[n + 1] = Write(f[n], ws[n + 1])
    BY <1>1, <2>1 DEF IsRun
  <2>3. WriteOk(op, p, ws[n + 1]) /\ Reinstates(d, ws[n + 1])
    BY <1>0, <2>1 DEF Listed
  <2>4. RevokedKept(d, Write(f[n], ws[n + 1]))
    BY <1>3, <2>3, WriteRevoked
  <2> QED BY <2>1, <2>2, <2>4
<1> HIDE DEF T
<1>4. \A n \in 0..Len(ws) : n \in T /\ n < Len(ws) => n + 1 \in T
  BY <1>3
<1>5. 0..Len(ws) \subseteq T
  BY <1>0, <1>2, <1>4, Induction
<1>6. Len(ws) \in T
  BY <1>0, <1>5
<1> QED BY <1>1, <1>6 DEF T

-----------------------------------------------------------------------------
(* The writes of an answer: to rows of the database it was computed from, or   *)
(* to new ones.                                                               *)

Sourced(y) ==
  \/ y.t \in OwnTable \cup FleetTable \cup {"backup_policies"}
  \/ y.t = "events" /\ y.id \in Camera
  \/ \E x \in db : Twin(y, x)
  \/ y.t = "ai_leases" /\ \E x \in Get(db, "ai_tasks", y.id) : x.cams = y.cams
  \/ y.t = "breach_alerts" /\ \E x \in Get(db, "zone_events", y.id) : x.cams = y.cams
  \/ y.id \in Unused

WriteNow(op, p, w) ==
  /\ WriteOk(op, p, w) /\ Sourced(w.row)
  /\ Scoped(p) => Meets(db, p, w)
  /\ ~ Has(p, "RegistryManage") => Reinstates(db, w)

WritesIn(op, p, eff, S) ==
  /\ eff \in Seq(S)
  /\ \A w \in S : WriteNow(op, p, w)
  /\ \A u, w \in S : Fit(u.row, w.row)

WritesOk(op, p, eff) == \E S : WritesIn(op, p, eff, S)

Answers(op, p, a, b) ==
  /\ Scoped(p) /\ op \notin Spanning => a.st = b.st /\ a.body = b.body
  /\ Scoped(p) /\ Declaration(op).scoping = "FleetOnly" /\ op \notin Misdeclared => ~ (a.st < 300)
  /\ ~ Scoped(p) /\ Declaration(op).scoping # None => ~ (b.st < 300)
  /\ WritesOk(op, p, a.eff)

LEMMA WritesAre ==
  ASSUME NEW op, NEW p, NEW eff, WritesOk(op, p, eff)
  PROVE  /\ Listed(op, p, eff)
         /\ \A k \in DOMAIN eff : WriteNow(op, p, eff[k])
         /\ \A j, k \in DOMAIN eff : Fit(eff[j].row, eff[k].row)
<1>1. PICK S : WritesIn(op, p, eff, S)
  BY DEF WritesOk
<1>2. Len(eff) \in Nat /\ DOMAIN eff = 1..Len(eff) /\ \A k \in DOMAIN eff : eff[k] \in S
  <2>1. eff \in Seq(S)
    BY <1>1 DEF WritesIn
  <2> QED BY <2>1
<1> QED BY <1>1, <1>2 DEF WritesIn, Listed, WriteNow

LEMMA PendRowsOk ==
  ASSUME ApiInv, NEW y \in PendRows(pend)
  PROVE  RowOk(y)
BY DEF ApiInv, StateOk, PendOk, Listed, PendRows, Written, WriteOk

(* A written row goes with every row there is and every row to come. *)
LEMMA SourcedNear ==
  ASSUME ApiInv, NEW y, RowOk(y), Sourced(y), NEW x \in db \cup PendRows(pend)
  PROVE  Near(x, y)
<1> SUFFICES ASSUME x.t = y.t, x.id = y.id, x.t # "backup_policies" PROVE x.cams = y.cams
  BY DEF Near
<1>1. RowOk(x)
  BY PendRowsOk DEF ApiInv, StateOk, DbOk
<1>2. CASE y.t \in OwnTable \cup FleetTable \cup {"backup_policies"} \/ (y.t = "events" /\ y.id \in Camera)
  BY <1>1, <1>2 DEF RowOk
<1>3. CASE \E z \in db : Twin(y, z)
  <2>1. PICK z \in db : Twin(y, z)
    BY <1>3
  <2>2. z.t = x.t /\ z.id = x.id /\ z.cams = y.cams
    BY <2>1 DEF Twin
  <2>3. CASE x \in PendRows(pend)
    BY <2>2, <2>3 DEF ApiInv, StateOk, Near
  <2>4. CASE x \in db /\ x.t \notin Issued
    BY <2>2, <2>4 DEF ApiInv, StateOk, DbOk, Keyed
  <2>5. CASE x.t \in Issued
    BY <1>1, <2>5 DEF RowOk, Issued, FleetTable
  <2> QED BY <2>3, <2>4, <2>5
<1>4. CASE y.t = "ai_leases" /\ \E z \in Get(db, "ai_tasks", y.id) : z.cams = y.cams
  <2>1. PICK z \in db : z.t = "ai_tasks" /\ z.id = x.id /\ z.cams = y.cams
    BY <1>4 DEF Get
  <2>2. Fit(x, z)
    BY DEF ApiInv, StateOk
  <2> QED BY <1>4, <2>1, <2>2 DEF Fit
<1>5. CASE y.t = "breach_alerts" /\ \E z \in Get(db, "zone_events", y.id) : z.cams = y.cams
  <2>1. PICK z \in db : z.t = "zone_events" /\ z.id = x.id /\ z.cams = y.cams
    BY <1>5 DEF Get
  <2>2. Fit(x, z)
    BY DEF ApiInv, StateOk
  <2> QED BY <1>5, <2>1, <2>2 DEF Fit
<1>6. CASE y.id \in Unused
  BY <1>6 DEF Unused, PendRows, Written
<1> QED BY <1>2, <1>3, <1>4, <1>5, <1>6 DEF Sourced

LEMMA SourcedFit ==
  ASSUME ApiInv, NEW y, RowOk(y), Sourced(y), NEW x \in db \cup PendRows(pend)
  PROVE  Fit(x, y) /\ Fit(y, x)
<1>1. CASE y.t \in OwnTable \cup FleetTable \cup {"backup_policies"} \/ y.t = "events"
  BY <1>1 DEF Fit, OwnTable, FleetTable
<1>2. CASE \E z \in db : Twin(y, z)
  <2>1. PICK z \in db : Twin(y, z)
    BY <1>2
  <2>2. Fit(x, z) /\ Fit(z, x)
    BY DEF ApiInv, StateOk
  <2> QED BY <2>1, <2>2 DEF Fit, Twin
<1>3. CASE y.t = "ai_leases" /\ \E z \in Get(db, "ai_tasks", y.id) : z.cams = y.cams
  <2>1. PICK z \in db : z.t = "ai_tasks" /\ z.id = y.id /\ z.cams = y.cams
    BY <1>3 DEF Get
  <2>2. x.t = "ai_tasks" /\ x.id = y.id => x.cams = z.cams
    BY <2>1 DEF ApiInv, StateOk, Near, DbOk, Keyed, Issued
  <2> QED BY <1>3, <2>1, <2>2 DEF Fit
<1>4. CASE y.t = "breach_alerts" /\ \E z \in Get(db, "zone_events", y.id) : z.cams = y.cams
  <2>1. PICK z \in db : z.t = "zone_events" /\ z.id = y.id /\ z.cams = y.cams
    BY <1>4 DEF Get
  <2>2. x.t = "zone_events" /\ x.id = y.id => x.cams = z.cams
    BY <2>1 DEF ApiInv, StateOk, Near, DbOk, Keyed, Issued
  <2> QED BY <1>4, <2>1, <2>2 DEF Fit
<1>5. CASE y.id \in Unused
  BY <1>5 DEF Unused, PendRows, Written, Fit
<1> QED BY <1>1, <1>2, <1>3, <1>4, <1>5 DEF Sourced
-----------------------------------------------------------------------------
(* Requests keep the invariant, whatever their handlers, as long as these     *)
(* answer as they must.                                                       *)

LEMMA TwinNear ==
  ASSUME NEW x, NEW y, NEW z, Twin(x, z), Near(z, y)
  PROVE  Near(x, y)
BY DEF Twin, Near

LEMMA TwinFit ==
  ASSUME NEW x, NEW y, NEW u, NEW v, Twin(x, u), Twin(y, v), Fit(u, v)
  PROVE  Fit(x, y)
BY DEF Twin, Fit

LEMMA IssuedFit ==
  ASSUME NEW x, NEW y, x.t \in Issued \/ y.t \in Issued
  PROVE  Fit(x, y)
BY DEF Fit, Issued

(* After the writes ws: the rows of P are the ones still to come. *)
LEMMA AppliedOk ==
  ASSUME NEW d, NEW P, NEW op, NEW p, NEW ws, DbOk(d), PendOk(P), Listed(op, p, ws),
         \A y \in PendRows(P) : RowOk(y),
         \A x \in d \cup Written(ws), y \in PendRows(P) : Near(x, y),
         \A x, y \in d \cup Written(ws) \cup PendRows(P) : Fit(x, y)
  PROVE  StateOk(Apply(d, ws), P) /\ SitesKept(op, d, Apply(d, ws))
<1> DEFINE e == Apply(d, ws)
<1>1. DbOk(e) /\ SitesKept(op, d, e) /\ \A x \in e : Known(d, ws, x)
  BY ApplyKeeps DEF Kept
<1> HIDE DEF e
<1>2. ASSUME NEW x \in e PROVE x.t \in Issued \/ \E z \in d \cup Written(ws) : Twin(x, z)
  BY <1>1 DEF Known, Written
<1>3. ASSUME NEW x \in e, NEW y \in PendRows(P) PROVE Near(x, y)
  <2>1. CASE x.t \in Issued
    <3>1. RowOk(x) /\ RowOk(y)
      BY <1>1 DEF DbOk
    <3> QED BY <2>1, <3>1 DEF RowOk, Near, Issued, FleetTable
  <2>2. CASE x.t \notin Issued
    <3>1. PICK z \in d \cup Written(ws) : Twin(x, z)
      BY <1>2, <2>2
    <3> QED BY <3>1, TwinNear
  <2> QED BY <2>1, <2>2
<1>4. ASSUME NEW x \in e \cup PendRows(P)
      PROVE  x.t \in Issued \/ \E z \in d \cup Written(ws) \cup PendRows(P) : Twin(x, z)
  BY <1>2, TwinSelf
<1>5. ASSUME NEW x \in e \cup PendRows(P), NEW y \in e \cup PendRows(P) PROVE Fit(x, y)
  <2>1. CASE x.t \in Issued \/ y.t \in Issued
    BY <2>1, IssuedFit
  <2>2. CASE x.t \notin Issued /\ y.t \notin Issued
    <3>1. PICK u \in d \cup Written(ws) \cup PendRows(P) : Twin(x, u)
      BY <1>4, <2>2
    <3>2. PICK v \in d \cup Written(ws) \cup PendRows(P) : Twin(y, v)
      BY <1>4, <2>2
    <3>3. Fit(u, v)
      OBVIOUS
    <3> QED BY <3>1, <3>2, <3>3, TwinFit
  <2> QED BY <2>1, <2>2
<1> QED BY <1>1, <1>3, <1>5 DEF StateOk, e

(* What is wrong with an answer. *)
Excused(b) ==
  /\ b[1] = "interferes" => b[2] \in Spanning
  /\ b[1] = "strays" => b[3] /\ b[2] \in Reselected
  /\ b[1] = "reinstates" => b[3]
  /\ b[1] # "ungated"
  /\ b[1] = "fleet" => b[2] \in Misdeclared

LEMMA BlameIs ==
  BlameOk <=> \A b \in blame : Excused(b)
BY DEF BlameOk, Excused, NonInterference, Confined, RevokedStays, AsPublished

LEMMA ToldExcused ==
  ASSUME NEW op, NEW p, NEW a, NEW b, Answers(op, p, a, b), NEW f \in Told(op, p, Declaration(op), a, b)
  PROVE  Excused(f)
<1> DEFINE Wrong(g) ==
             \/ g = "interferes" /\ Scoped(p) /\ <<a.st, a.body>> # <<b.st, b.body>>
             \/ g = "fleet" /\ Scoped(p) /\ Declaration(op).scoping = "FleetOnly" /\ a.st < 300
             \/ g = "forbids" /\ Scoped(p) /\ Declaration(op).scoping = "CameraKeyed" /\ Has(p, CapOf(Declaration(op))) /\ a.st = 403
             \/ g = "ungated" /\ ~ Scoped(p) /\ Declaration(op).scoping # None /\ b.st < 300
<1>0. Told(op, p, Declaration(op), a, b) = {<<g, op, FALSE>> : g \in {g \in Claims \cup {"interferes"} : Wrong(g)}}
  BY DEF Told
<1> HIDE DEF Wrong
<1>1. PICK g : f = <<g, op, FALSE>> /\ Wrong(g)
  BY <1>0
<1>2. f[1] = g /\ f[2] = op
  BY <1>1
<1> QED BY <1>1, <1>2 DEF Excused, Answers, Wrong

LEMMA FaultsExcused ==
  ASSUME NEW op, NEW p, NEW d, NEW ws, NEW late \in BOOLEAN,
         Scoped(p) => Others(Apply(d, ws), p) = Others(d, p) \/ (late /\ op \in Reselected),
         ~ Has(p, "RegistryManage") => RevokedKept(d, Apply(d, ws)) \/ late,
         NEW f \in Faults(op, p, d, ws, late)
  PROVE  Excused(f)
<1> DEFINE e == Apply(d, ws)
<1>1. PICK g \in {"strays", "relocates", "reinstates"} :
         /\ f = <<g, op, late>>
         /\ \/ g = "strays" /\ Scoped(p) /\ d \ Owned(d, p) # e \ Owned(e, p)
            \/ g = "relocates" /\ Scoped(p)
            \/ g = "reinstates" /\ ~ Has(p, "RegistryManage") /\ Reinstated(d, e) # {}
  BY DEF Faults
<1>2. f[1] = g /\ f[2] = op /\ f[3] = late
  BY <1>1
<1>3. d \ Owned(d, p) = Others(d, p) /\ e \ Owned(e, p) = Others(e, p)
  BY OthersIs
<1>4. RevokedKept(d, e) => Reinstated(d, e) = {}
  BY DEF RevokedKept, Reinstated, Get, Rows
<1> QED BY <1>1, <1>2, <1>3, <1>4 DEF Excused

(* A site that goes has no camera. *)
NoneDetached(d, e) == \A s \in Rows(d, "sites") : ~ Exists(e, "sites", s.id) => \A c \in Rows(d, "cameras") : c.ref # s.id

LEMMA KeptDetaches ==
  ASSUME NEW op, NEW d, NEW e, SitesKept(op, d, e)
  PROVE  NoneDetached(d, e)
BY DEF SitesKept, NoneDetached

LEMMA SameDetaches ==
  ASSUME NEW d
  PROVE  NoneDetached(d, d)
BY DEF NoneDetached, Exists, Get, Rows

Served(p) == \E op, a, b : Answers(op, p, a, b) /\ Answered(op, p, a, b)

LEMMA BlamedNext ==
  ASSUME BlameOk, \A b \in blame' \ blame : Excused(b)
  PROVE  BlameOk'
<1>1. \A b \in blame' : Excused(b)
  BY BlameIs
<1> QED BY <1>1 DEF BlameOk, Excused, NonInterference, Confined, RevokedStays, AsPublished

LEMMA ServedKeeps ==
  ASSUME ApiInv, NEW p \in Credential, Served(p)
  PROVE  ApiInv' /\ NoneDetached(db, db')
<1>1. PICK op, a, b : Answers(op, p, a, b) /\ Answered(op, p, a, b)
  BY DEF Served
<1> DEFINE ws == a.eff
<1>2. WritesOk(op, p, ws)
  BY <1>1 DEF Answers
<1> HIDE DEF ws
<1>3. Listed(op, p, ws)
  BY <1>2, WritesAre
<1>4. \A k \in DOMAIN ws : WriteNow(op, p, ws[k])
  BY <1>2, WritesAre
<1>5. \A x, y \in Written(ws) : Fit(x, y)
  <2>1. \A j, k \in DOMAIN ws : Fit(ws[j].row, ws[k].row)
    BY <1>2, WritesAre
  <2> QED BY <2>1 DEF Written
<1>6. \A y \in Written(ws) : RowOk(y) /\ Sourced(y)
  BY <1>4 DEF Written, WriteNow, WriteOk
<1>7. DbOk(db) /\ PendOk(pend) /\ BlameOk
  BY DEF ApiInv, StateOk
<1>8. \A x \in db \cup PendRows(pend), y \in Written(ws) : Near(x, y) /\ Near(y, x) /\ Fit(x, y) /\ Fit(y, x)
  <2>1. ASSUME NEW x \in db \cup PendRows(pend), NEW y \in Written(ws) PROVE Near(x, y) /\ Fit(x, y) /\ Fit(y, x)
    BY <1>6, SourcedNear, SourcedFit
  <2>2. \A x, y : Near(x, y) => Near(y, x)
    BY DEF Near
  <2> QED BY <2>1, <2>2
<1>9. \A x, y \in db \cup PendRows(pend) : Fit(x, y)
  BY DEF ApiInv, StateOk
<1>10. \A x \in db, y \in PendRows(pend) : Near(x, y)
  BY DEF ApiInv, StateOk
<1>11. CASE /\ db' = Apply(db, ws) /\ pend' = pend
            /\ blame' = blame \cup Told(op, p, Declaration(op), a, b) \cup Faults(op, p, db, ws, FALSE)
  <2>1. \A x \in db \cup Written(ws), y \in PendRows(pend) : Near(x, y)
    BY <1>8, <1>10
  <2>2. \A x, y \in db \cup Written(ws) \cup PendRows(pend) : Fit(x, y)
    BY <1>5, <1>8, <1>9
  <2>3. \A y \in PendRows(pend) : RowOk(y)
    BY PendRowsOk
  <2>4. StateOk(db', pend') /\ SitesKept(op, db, db')
    BY <1>3, <1>7, <1>11, <2>1, <2>2, <2>3, AppliedOk
  <2>5. ASSUME NEW f \in Faults(op, p, db, ws, FALSE) PROVE Excused(f)
    <3>1. Scoped(p) => Others(Apply(db, ws), p) = Others(db, p)
      BY <1>3, <1>4, <1>7, ApplyConfined DEF WriteNow
    <3>2. ~ Has(p, "RegistryManage") => RevokedKept(db, Apply(db, ws))
      BY <1>3, <1>4, <1>7, ApplyRevoked DEF WriteNow
    <3> QED BY <3>1, <3>2, FaultsExcused
  <2>6. BlameOk'
    BY <1>1, <1>7, <1>11, <2>5, ToldExcused, BlamedNext
  <2> QED BY <2>4, <2>6, KeptDetaches DEF ApiInv
<1>12. CASE /\ pend = {} /\ pend' = {[op |-> op, p |-> p, eff |-> ws]}
            /\ blame' = blame \cup Told(op, p, Declaration(op), a, b) /\ db' = db
  <2> DEFINE q == [op |-> op, p |-> p, eff |-> ws]
  <2>1. PendRows({q}) = Written(ws)
    BY DEF PendRows
  <2>2. PendOk({q})
    BY <1>3 DEF PendOk
  <2>3. \A x, y \in db \cup Written(ws) : Fit(x, y)
    BY <1>5, <1>8, <1>9
  <2>4. StateOk(db, {q})
    BY <1>7, <1>8, <2>1, <2>2, <2>3 DEF StateOk
  <2>5. BlameOk'
    BY <1>1, <1>7, <1>12, ToldExcused, BlamedNext
  <2> QED BY <1>12, <2>4, <2>5, SameDetaches DEF ApiInv
<1>13. Answered(op, p, a, b)
  BY <1>1
<1> QED BY <1>11, <1>12, <1>13 DEF Answered, ws

LEMMA FinishKeeps ==
  ASSUME ApiInv, Finish
  PROVE  ApiInv' /\ NoneDetached(db, db')
<1>1. PICK q \in pend : /\ db' = Apply(db, q.eff) /\ pend' = {}
                        /\ blame' = blame \cup Faults(q.op, q.p, db, q.eff, TRUE)
  BY DEF Finish
<1> DEFINE op == q.op  p == q.p  ws == q.eff
<1>2. pend = {q} /\ Listed(op, p, ws) /\ DbOk(db) /\ BlameOk
  BY DEF ApiInv, StateOk, PendOk
<1> HIDE DEF op, p, ws
<1>3. PendRows(pend) = Written(ws)
  BY <1>2 DEF PendRows, ws
<1>4. PendOk({}) /\ PendRows({}) = {}
  BY DEF PendOk, PendRows
<1>5. \A x, y \in db \cup Written(ws) : Fit(x, y)
  BY <1>3 DEF ApiInv, StateOk
<1>6. StateOk(db', pend') /\ SitesKept(op, db, db')
  BY <1>1, <1>2, <1>4, <1>5, AppliedOk DEF ws
<1>7. ASSUME NEW f \in Faults(op, p, db, ws, TRUE) PROVE Excused(f)
  <2>1. ASSUME Scoped(p), op \notin Reselected, NEW k \in DOMAIN ws PROVE Meets(db, p, ws[k])
    <3> DEFINE w == ws[k]
    <3>1. WriteOk(op, p, w) /\ w.row \in Written(ws)
      BY <1>2 DEF Listed, Written
    <3> HIDE DEF w
    <3>2. SUFFICES ASSUME w.act # "ins", w.row.t # "workers", NEW x \in Get(db, w.row.t, w.row.id)
                   PROVE  Holds(p, x)
      BY DEF Meets, w
    <3>3. Near(x, w.row)
      BY <1>3, <3>1 DEF ApiInv, StateOk, Get
    <3>4. w.row.t # "backup_policies" /\ Holds(p, w.row)
      BY <2>1, <3>1, <3>2 DEF WriteOk, OwnedRow
    <3> QED BY <3>3, <3>4 DEF Near, Get, Holds
  <2>2. Scoped(p) => Others(Apply(db, ws), p) = Others(db, p) \/ op \in Reselected
    BY <1>2, <2>1, ApplyConfined
  <2> QED BY <2>2, FaultsExcused
<1>8. BlameOk'
  BY <1>1, <1>2, <1>7, BlamedNext DEF op, p, ws
<1> QED BY <1>6, <1>8, KeptDetaches DEF ApiInv
-----------------------------------------------------------------------------
(* Who asks, and of which rows.                                            *)

LEMMA ScopedLacks ==
  ASSUME NEW p \in Credential, Scoped(p)
  PROVE  ~ Has(p, "EventsRead") /\ ~ Has(p, "IdentityRead") /\ ~ Has(p, "Admin") /\ "Admin" \notin p.caps
<1>1. PICK k \in Key : KeyStands(k) /\ p = principal(k)
  BY DEF Credential
<1>2. p.caps = resolve_key_caps(k) /\ p.scope = k.scope
  BY <1>1 DEF principal
<1>3. ~ \E u \in Unscopable : Allows(p.caps, u)
  BY <1>1, <1>2 DEF KeyStands, Scoped
<1> QED BY <1>3 DEF Has, Allows, Unscopable

Asks(op, cap) == Declaration(op).scoping = None \/ CapOf(Declaration(op)) = cap
Closed(op) == Declaration(op).scoping = "FleetOnly" /\ op \notin Misdeclared

LEMMA ScopedAsks ==
  ASSUME NEW p, Scoped(p), NEW op
  PROVE  Asking(op, p) = p
BY DEF Asking

LEMMA UnscopedAsks ==
  ASSUME NEW p \in Credential, ~ Scoped(p), NEW op
  PROVE  /\ ~ Scoped(Asking(op, p)) /\ Shown(p) = db
         /\ ~ Has(Asking(op, p), CapOf(Declaration(op))) /\ "Admin" \notin Asking(op, p).caps
<1>1. PICK k \in Key : p = principal(k)
  BY DEF Credential
<1> DEFINE cap == CapOf(Declaration(op))
<1> HIDE DEF cap
<1>2. Asking(op, p) = [p EXCEPT !.caps = AllCaps \ {cap, "Admin"}]
  BY DEF Asking, Without, cap
<1>3. Asking(op, p).caps = AllCaps \ {cap, "Admin"} /\ Asking(op, p).scope = p.scope
  BY <1>1, <1>2 DEF principal
<1> QED BY <1>3 DEF Scoped, Has, Allows, Shown, cap

LEMMA ScopeSame ==
  ASSUME NEW p \in Credential, NEW op
  PROVE  /\ Scoped(Asking(op, p)) <=> Scoped(p)
         /\ \A c : CameraAllowed(Asking(op, p), c) <=> CameraAllowed(p, c)
         /\ \A r : Holds(Asking(op, p), r) <=> Holds(p, r)
BY ScopedAsks, UnscopedAsks DEF CameraAllowed, Holds

LEMMA ShownIs ==
  ASSUME NEW p
  PROVE  Shown(p) \subseteq db /\ \A r \in db : Holds(p, r) \/ r.t \in Open => r \in Shown(p)
BY DEF Shown, Visible

LEMMA ShownOfCamera ==
  ASSUME DbOk(db), NEW p, NEW t, t \in OwnTable \cup OneCamera, NEW c, CameraAllowed(p, c)
  PROVE  OfCamera(Shown(p), t, c) = OfCamera(db, t, c)
<1>1. ASSUME NEW r \in db, r.t = t, c \in r.cams PROVE r \in Shown(p)
  <2>1. r.cams = {c}
    BY <1>1 DEF DbOk, RowOk
  <2> QED BY <2>1, ShownIs DEF Holds, CameraAllowed
<1> QED BY <1>1, ShownIs DEF OfCamera

LEMMA ShownGet ==
  ASSUME DbOk(db), NEW p, NEW t, t \in OwnTable, NEW c, CameraAllowed(p, c)
  PROVE  Get(Shown(p), t, c) = Get(db, t, c)
<1>1. ASSUME NEW r \in db, r.t = t, r.id = c PROVE r \in Shown(p)
  <2>1. r.cams = {c}
    BY <1>1 DEF DbOk, RowOk
  <2> QED BY <2>1, ShownIs DEF Holds, CameraAllowed
<1> QED BY <1>1, ShownIs DEF Get

LEMMA ShownHeld ==
  ASSUME NEW p \in Credential, NEW op, NEW t
  PROVE  Held(Shown(p), t, Asking(op, p)) = Held(db, t, p)
BY ShownIs, ScopeSame DEF Held, Rows

LEMMA ShownOpen ==
  ASSUME NEW p, NEW t \in Open
  PROVE  Rows(Shown(p), t) = Rows(db, t) /\ \A i : Get(Shown(p), t, i) = Get(db, t, i)
BY ShownIs DEF Rows, Get

LEMMA ShownOne ==
  ASSUME DbOk(db), NEW p \in Credential, NEW op, NEW t, NEW i
  PROVE  /\ (\E r \in Get(Shown(p), t, i) : Holds(Asking(op, p), r)) <=> \E r \in Get(db, t, i) : Holds(p, r)
         /\ t \notin Issued /\ (\E r \in Get(db, t, i) : Holds(p, r)) => Get(Shown(p), t, i) = Get(db, t, i)
<1>1. (\E r \in Get(Shown(p), t, i) : Holds(Asking(op, p), r)) <=> \E r \in Get(db, t, i) : Holds(p, r)
  BY ShownIs, ScopeSame DEF Get
<1>2. ASSUME t \notin Issued, NEW r \in Get(db, t, i), Holds(p, r) PROVE Get(Shown(p), t, i) = Get(db, t, i)
  <2>1. \A x \in Get(db, t, i) : x = r
    BY <1>2 DEF DbOk, Keyed, Get
  <2>2. r \in Get(Shown(p), t, i)
    BY <1>2, ShownIs DEF Get
  <2> QED BY <2>1, <2>2, ShownIs DEF Get
<1> QED BY <1>1, <1>2

-----------------------------------------------------------------------------
(* Answers, check by check.                                                *)

Good(op, p, x, y) ==
  /\ Scoped(p) /\ op \notin Spanning => x.st = y.st /\ x.body = y.body
  /\ Scoped(p) /\ Closed(op) => ~ (x.st < 300)
  /\ WritesOk(op, p, x.eff)

LEMMA NoWrites ==
  ASSUME NEW op, NEW p
  PROVE  WritesOk(op, p, <<>>)
<1>1. WritesIn(op, p, <<>>, {})
  BY DEF WritesIn
<1> QED BY <1>1 DEF WritesOk

LEMMA RefuseWrites ==
  ASSUME NEW op, NEW p, NEW code
  PROVE  WritesOk(op, p, Refuse(code).eff)
BY NoWrites DEF Refuse

LEMMA GiveWrites ==
  ASSUME NEW op, NEW p, NEW X
  PROVE  WritesOk(op, p, Give(X).eff)
BY NoWrites DEF Give

LEMMA DoWrites ==
  ASSUME NEW op, NEW p, NEW code, NEW X, NEW eff, WritesOk(op, p, eff)
  PROVE  WritesOk(op, p, Do(code, X, eff).eff)
BY DEF Do

LEMMA ValidWrites ==
  ASSUME NEW op, NEW p, NEW ok, NEW x, ok => WritesOk(op, p, x.eff)
  PROVE  WritesOk(op, p, Valid(ok, x).eff)
BY RefuseWrites DEF Valid

LEMMA FoundWrites ==
  ASSUME NEW op, NEW p, NEW X, NEW x, X # {} => WritesOk(op, p, x.eff)
  PROVE  WritesOk(op, p, Found(X, x).eff)
BY RefuseWrites DEF Found

LEMMA FleetWrites ==
  ASSUME NEW op, NEW p, NEW x, ~ Scoped(p) => WritesOk(op, p, x.eff)
  PROVE  WritesOk(op, p, require_fleet_scope(p, x).eff)
BY RefuseWrites DEF require_fleet_scope

LEMMA CapWrites ==
  ASSUME NEW op, NEW p, NEW cap, NEW x, Has(p, cap) => WritesOk(op, p, x.eff)
  PROVE  WritesOk(op, p, NeedCap(p, cap, x).eff)
BY RefuseWrites DEF NeedCap

LEMMA ScopeWrites ==
  ASSUME NEW op, NEW p, NEW c, NEW x, CameraAllowed(p, c) => WritesOk(op, p, x.eff)
  PROVE  WritesOk(op, p, camera_scope_check(p, c, x).eff)
BY RefuseWrites DEF camera_scope_check

LEMMA CameraWrites ==
  ASSUME NEW op, NEW p, NEW c, NEW x, CameraAllowed(p, c) => WritesOk(op, p, x.eff)
  PROVE  WritesOk(op, p, camera_for(db, p, c, x).eff)
BY ScopeWrites, FoundWrites DEF camera_for

LEMMA ResourceWrites ==
  ASSUME NEW op, NEW p, NEW t, NEW i, NEW x,
         (\E r \in Get(db, t, i) : Holds(p, r)) => WritesOk(op, p, x.eff)
  PROVE  WritesOk(op, p, resource_camera(db, p, t, i, x).eff)
BY RefuseWrites DEF resource_camera

(* The outermost check: the declared capability. *)
LEMMA CapAnswers ==
  ASSUME NEW p \in Credential, NEW op, NEW cap, Asks(op, cap), NEW x, NEW y, Has(p, cap) => Good(op, p, x, y)
  PROVE  Answers(op, p, NeedCap(p, cap, x), NeedCap(Asking(op, p), cap, y))
<1>1. Refuse(403).st = 403 /\ ~ (403 < 300) /\ WritesOk(op, p, Refuse(403).eff)
  BY RefuseWrites DEF Refuse
<1>2. CASE Scoped(p)
  BY <1>1, <1>2, ScopedAsks DEF NeedCap, Answers, Good, Closed
<1>3. CASE ~ Scoped(p)
  <2>1. Declaration(op).scoping # None => ~ Has(Asking(op, p), cap)
    BY <1>3, UnscopedAsks DEF Asks
  <2> QED BY <1>1, <1>3, <2>1 DEF NeedCap, Answers, Good
<1> QED BY <1>2, <1>3

(* A camera-scoped credential never holds these capabilities. *)
LEMMA EventsAnswers ==
  ASSUME NEW p \in Credential, NEW op, NEW cap \in {"EventsRead", "IdentityRead"}, Asks(op, cap), NEW x, NEW y,
         ~ Scoped(p) => WritesOk(op, p, x.eff)
  PROVE  Answers(op, p, NeedCap(p, cap, x), NeedCap(Asking(op, p), cap, y))
<1>1. Has(p, cap) => Good(op, p, x, y)
  BY ScopedLacks DEF Good
<1> QED BY <1>1, CapAnswers

LEMMA AdminAnswers ==
  ASSUME NEW p \in Credential, NEW op, Asks(op, "Admin"), NEW x, NEW y, ~ Scoped(p) => WritesOk(op, p, x.eff)
  PROVE  Answers(op, p, NeedAdmin(p, x), NeedAdmin(Asking(op, p), y))
<1>1. Refuse(403).st = 403 /\ ~ (403 < 300) /\ WritesOk(op, p, Refuse(403).eff)
  BY RefuseWrites DEF Refuse
<1>2. CASE Scoped(p)
  BY <1>1, <1>2, ScopedAsks, ScopedLacks DEF NeedAdmin, Answers
<1>3. CASE ~ Scoped(p)
  BY <1>1, <1>3, UnscopedAsks DEF NeedAdmin, Answers
<1> QED BY <1>2, <1>3

LEMMA RefuseGood ==
  ASSUME NEW op, NEW p, NEW code, ~ (code < 300)
  PROVE  Good(op, p, Refuse(code), Refuse(code))
<1>1. Refuse(code).st = code /\ WritesOk(op, p, Refuse(code).eff)
  BY RefuseWrites DEF Refuse
<1> QED BY <1>1 DEF Good

LEMMA GiveGood ==
  ASSUME NEW op, NEW p, ~ Closed(op), NEW X, NEW Y, Scoped(p) => X = Y
  PROVE  Good(op, p, Give(X), Give(Y))
<1>1. Give(X).st = Give(Y).st /\ Give(X).body = X /\ Give(Y).body = Y /\ WritesOk(op, p, Give(X).eff)
  BY GiveWrites DEF Give
<1> QED BY <1>1 DEF Good

LEMMA DoGood ==
  ASSUME NEW op, NEW p, ~ Closed(op), NEW X, NEW Y, Scoped(p) /\ op \notin Spanning => X = Y,
         NEW code, NEW eff, NEW other, WritesOk(op, p, eff)
  PROVE  Good(op, p, Do(code, X, eff), Do(code, Y, other))
BY DEF Do, Good

LEMMA FleetGood ==
  ASSUME NEW p \in Credential, NEW op, NEW x, NEW y, ~ Scoped(p) => WritesOk(op, p, x.eff)
  PROVE  Good(op, p, require_fleet_scope(p, x), require_fleet_scope(Asking(op, p), y))
<1>1. Good(op, p, Refuse(403), Refuse(403))
  BY RefuseGood
<1> QED BY <1>1, ScopeSame DEF require_fleet_scope, Good

LEMMA ValidGood ==
  ASSUME NEW op, NEW p, NEW ok, NEW also, Scoped(p) => (ok <=> also), NEW x, NEW y, ok => Good(op, p, x, y)
  PROVE  Good(op, p, Valid(ok, x), Valid(also, y))
<1>1. Good(op, p, Refuse(400), Refuse(400))
  BY RefuseGood
<1> QED BY <1>1 DEF Valid, Good

LEMMA FoundGood ==
  ASSUME NEW op, NEW p, NEW X, NEW Y, Scoped(p) => (X = {} <=> Y = {}), NEW x, NEW y, X # {} => Good(op, p, x, y)
  PROVE  Good(op, p, Found(X, x), Found(Y, y))
<1>1. Good(op, p, Refuse(404), Refuse(404))
  BY RefuseGood
<1> QED BY <1>1 DEF Found, Good

LEMMA ScopeGood ==
  ASSUME NEW p \in Credential, NEW op, NEW c, NEW x, NEW y, CameraAllowed(p, c) => Good(op, p, x, y)
  PROVE  Good(op, p, camera_scope_check(p, c, x), camera_scope_check(Asking(op, p), c, y))
<1>1. Good(op, p, Refuse(403), Refuse(403))
  BY RefuseGood
<1> QED BY <1>1, ScopeSame DEF camera_scope_check, Good

LEMMA CameraGood ==
  ASSUME DbOk(db), NEW p \in Credential, NEW op, NEW c, NEW x, NEW y,
         CameraAllowed(p, c) => Good(op, p, x, y)
  PROVE  Good(op, p, camera_for(db, p, c, x), camera_for(Shown(p), Asking(op, p), c, y))
<1>1. CameraAllowed(p, c) => Get(Shown(p), "cameras", c) = Get(db, "cameras", c)
  BY ShownGet DEF OwnTable
<1>2. CameraAllowed(p, c) => Good(op, p, Found(Get(db, "cameras", c), x), Found(Get(Shown(p), "cameras", c), y))
  BY <1>1, FoundGood
<1> QED BY <1>2, ScopeGood DEF camera_for

LEMMA ResourceGood ==
  ASSUME DbOk(db), NEW p \in Credential, NEW op, NEW t, NEW i, NEW x, NEW y,
         (\E r \in Get(db, t, i) : Holds(p, r)) => Good(op, p, x, y)
  PROVE  Good(op, p, resource_camera(db, p, t, i, x), resource_camera(Shown(p), Asking(op, p), t, i, y))
<1>1. Good(op, p, Refuse(403), Refuse(403)) /\ Good(op, p, Refuse(404), Refuse(404))
  BY RefuseGood
<1>2. (\E r \in Get(Shown(p), t, i) : Holds(Asking(op, p), r)) <=> \E r \in Get(db, t, i) : Holds(p, r)
  BY ShownOne
<1> QED BY <1>1, <1>2, ScopeSame DEF resource_camera, Good
-----------------------------------------------------------------------------
(* Rows that are made and writes that may be done.                         *)

LEMMA RowFields ==
  ASSUME NEW t, NEW i, NEW cams, NEW ref, NEW v
  PROVE  /\ Row(t, i, cams, ref, v).t = t /\ Row(t, i, cams, ref, v).id = i
         /\ Row(t, i, cams, ref, v).cams = cams /\ Row(t, i, cams, ref, v).ref = ref
BY DEF Row

LEMMA RowIs ==
  ASSUME NEW r, RowOk(r)
  PROVE  r = Row(r.t, r.id, r.cams, r.ref, r.v)
BY Zenon DEF RowOk, Row

LEMMA AmendedV ==
  ASSUME NEW r, r = Row(r.t, r.id, r.cams, r.ref, r.v), NEW x
  PROVE  [r EXCEPT !.v = x] = Row(r.t, r.id, r.cams, r.ref, x)
BY DEF Row

LEMMA AmendedRef ==
  ASSUME NEW r, r = Row(r.t, r.id, r.cams, r.ref, r.v), NEW y
  PROVE  [r EXCEPT !.ref = y] = Row(r.t, r.id, r.cams, y, r.v)
BY DEF Row

LEMMA AmendedCams ==
  ASSUME NEW r, r = Row(r.t, r.id, r.cams, r.ref, r.v), NEW z
  PROVE  [r EXCEPT !.cams = z] = Row(r.t, r.id, z, r.ref, r.v)
BY DEF Row

LEMMA AmendedBoth ==
  ASSUME NEW r, r = Row(r.t, r.id, r.cams, r.ref, r.v), NEW x, NEW y
  PROVE  [r EXCEPT !.v = x, !.ref = y] = Row(r.t, r.id, r.cams, y, x)
<1>1. [r EXCEPT !.v = x, !.ref = y] = [[r EXCEPT !.v = x] EXCEPT !.ref = y]
  BY DEF Row
<1> DEFINE s == [r EXCEPT !.v = x]
<1>2. s = Row(r.t, r.id, r.cams, r.ref, x)
  BY AmendedV
<1> HIDE DEF s
<1>3. s.t = r.t /\ s.id = r.id /\ s.cams = r.cams /\ s.ref = r.ref /\ s.v = x
  BY <1>2 DEF Row
<1>4. [s EXCEPT !.ref = y] = Row(r.t, r.id, r.cams, y, x)
  BY <1>2, <1>3, AmendedRef
<1> QED BY <1>1, <1>4 DEF s

LEMMA RowMade ==
  ASSUME NEW t, NEW i, NEW c, NEW ref, NEW v
  PROVE  /\ t \in OwnTable => RowOk(Row(t, i, {i}, ref, v))
         /\ t \in OneCamera \ {"ai_leases"} => RowOk(Row(t, i, {c}, ref, v))
         /\ t \in FleetTable => RowOk(Row(t, i, {}, ref, v))
<1> DEFINE x == Row(t, i, {i}, ref, v)  y == Row(t, i, {c}, ref, v)  z == Row(t, i, {}, ref, v)
<1>1. /\ x = [t |-> x.t, id |-> x.id, cams |-> x.cams, ref |-> x.ref, v |-> x.v]
      /\ y = [t |-> y.t, id |-> y.id, cams |-> y.cams, ref |-> y.ref, v |-> y.v]
      /\ z = [t |-> z.t, id |-> z.id, cams |-> z.cams, ref |-> z.ref, v |-> z.v]
  BY DEF Row
<1>2. /\ x.t = t /\ x.id = i /\ x.cams = {i} /\ y.t = t /\ y.id = i /\ y.cams = {c}
      /\ z.t = t /\ z.id = i /\ z.cams = {}
  BY DEF Row
<1> HIDE DEF x, y, z
<1>3. t \in OwnTable => RowOk(x)
  BY <1>1, <1>2 DEF RowOk, OwnTable, FleetTable, OneCamera
<1>4. t \in OneCamera \ {"ai_leases"} => RowOk(y)
  BY <1>1, <1>2 DEF RowOk, OwnTable, FleetTable, OneCamera
<1>5. t \in FleetTable => RowOk(z)
  BY <1>1, <1>2 DEF RowOk, OwnTable, FleetTable, OneCamera
<1> QED BY <1>3, <1>4, <1>5 DEF x, y, z

LEMMA WriteFields ==
  ASSUME NEW r, NEW cols
  PROVE  /\ Ins(r).act = "ins" /\ Ins(r).row = r
         /\ Put(r).act = "put" /\ Put(r).row = r
         /\ Del(r).act = "del" /\ Del(r).row = r
         /\ Upd(r, cols).act = "upd" /\ Upd(r, cols).row = r /\ Upd(r, cols).cols = cols
BY DEF Ins, Put, Del, Upd

(* A scoped credential's row is not a fleet-wide one. *)
LEMMA HeldRow ==
  ASSUME NEW p, Scoped(p), NEW r, RowOk(r), Holds(p, r)
  PROVE  r.t \notin FleetTable
BY DEF Holds, RowOk

LEMMA InsNow ==
  ASSUME NEW op, op # "delete_site", NEW p, NEW r, RowOk(r), Scoped(p) => Holds(p, r),
         \/ r.id \in Unused
         \/ Sourced(r) /\ r.t # "visitor_passes"
  PROVE  WriteNow(op, p, Ins(r))
<1>1. Sourced(r)
  BY DEF Sourced
<1>2. WriteOk(op, p, Ins(r))
  BY WriteFields, HeldRow DEF WriteOk, OwnedRow, FleetTable
<1>3. Meets(db, p, Ins(r)) /\ Reinstates(db, Ins(r))
  BY WriteFields DEF Meets, Reinstates, Unused
<1> QED BY <1>1, <1>2, <1>3, WriteFields DEF WriteNow

(* The row a table keeps of a camera under its id. *)
LEMMA PutNow ==
  ASSUME NEW op, op # "delete_site", NEW p, NEW r, RowOk(r), DbOk(db), Scoped(p) => Holds(p, r),
         r.t \in OwnTable \/ (r.t = "events" /\ r.id \in Camera) \/ (r.t \in FleetTable /\ r.t # "visitor_passes")
  PROVE  WriteNow(op, p, Put(r))
<1>1. Sourced(r) /\ r.t \notin {"visitor_passes", "backup_policies"}
  BY DEF Sourced, OwnTable, FleetTable
<1>2. WriteOk(op, p, Put(r))
  BY <1>1, WriteFields, HeldRow DEF WriteOk, OwnedRow, FleetTable
<1>3. Scoped(p) => Meets(db, p, Put(r))
  <2>1. ASSUME Scoped(p), NEW x \in Get(db, r.t, r.id) PROVE Holds(p, x)
    <3>1. RowOk(x) /\ x.t = r.t /\ x.id = r.id
      BY DEF DbOk, Get
    <3>2. r.t \notin FleetTable
      BY <2>1, HeldRow
    <3>3. x.cams = r.cams
      BY <3>1, <3>2 DEF RowOk
    <3> QED BY <2>1, <3>3 DEF Holds
  <2> QED BY <2>1, WriteFields DEF Meets
<1>4. Reinstates(db, Put(r))
  BY <1>1, WriteFields DEF Reinstates
<1> QED BY <1>1, <1>2, <1>3, <1>4, WriteFields DEF WriteNow

(* The rows under one id are of the same cameras. *)
LEMMA HeldAll ==
  ASSUME DbOk(db), NEW p, NEW r \in db, Scoped(p) => Holds(p, r), NEW x \in Get(db, r.t, r.id), Scoped(p)
  PROVE  Holds(p, x)
<1>1. CASE r.t \notin Issued
  BY <1>1 DEF DbOk, Keyed, Get
<1>2. CASE r.t \in Issued
  BY <1>2, HeldRow DEF DbOk, Issued, FleetTable
<1> QED BY <1>1, <1>2

LEMMA AmendedOk ==
  ASSUME NEW r, RowOk(r), r.t # "ai_leases", NEW ref, NEW v
  PROVE  RowOk(Row(r.t, r.id, r.cams, ref, v))
<1> DEFINE x == Row(r.t, r.id, r.cams, ref, v)
<1>1. x = [t |-> x.t, id |-> x.id, cams |-> x.cams, ref |-> x.ref, v |-> x.v]
  BY DEF Row
<1>2. x.t = r.t /\ x.id = r.id /\ x.cams = r.cams
  BY DEF Row
<1> HIDE DEF x
<1>3. RowOk(x)
  BY <1>1, <1>2 DEF RowOk
<1> QED BY <1>3 DEF x

Plain == {"media_artifacts", "ai_leases", "workers", "visitor_passes", "backup_policies"}

LEMMA UpdNow ==
  ASSUME NEW op, op # "delete_site", NEW p, DbOk(db), NEW r \in db, Scoped(p) => Holds(p, r),
         r.t \notin Plain \/ (r.t = "visitor_passes" /\ ~ Scoped(p) /\ Has(p, "RegistryManage")),
         NEW ref, NEW v, NEW cols
  PROVE  WriteNow(op, p, Upd(Row(r.t, r.id, r.cams, ref, v), cols))
<1> DEFINE x == Row(r.t, r.id, r.cams, ref, v)
<1>0. x.t = r.t /\ x.id = r.id /\ x.cams = r.cams /\ RowOk(r) /\ r.t \notin {"media_artifacts", "ai_leases", "workers"}
  BY DEF Row, DbOk, Plain
<1>1. Sourced(x)
  BY <1>0 DEF Sourced, Twin
<1>2. RowOk(x)
  BY <1>0, AmendedOk
<1> HIDE DEF x
<1>3. Scoped(p) => Holds(p, x) /\ x.t \notin FleetTable
  BY <1>0, HeldRow DEF Holds
<1>4. WriteOk(op, p, Upd(x, cols))
  BY <1>0, <1>2, <1>3, WriteFields DEF WriteOk, OwnedRow, FleetTable, Plain
<1>5. Scoped(p) => Meets(db, p, Upd(x, cols))
  BY <1>0, HeldAll, WriteFields DEF Meets
<1>6. ~ Has(p, "RegistryManage") => Reinstates(db, Upd(x, cols))
  BY <1>0, WriteFields DEF Reinstates, Plain
<1>7. WriteNow(op, p, Upd(x, cols))
  BY <1>1, <1>4, <1>5, <1>6, WriteFields DEF WriteNow
<1> QED BY <1>7 DEF x

LEMMA DelNow ==
  ASSUME NEW op, op # "delete_site", NEW p, DbOk(db), NEW r \in db, Scoped(p) => Holds(p, r), r.t # "sites",
         Scoped(p) => r.t # "cameras", r.t = "visitor_passes" => Has(p, "RegistryManage"),
         r.t = "backup_policies" => op \in Reselected
  PROVE  WriteNow(op, p, Del(r))
<1>1. Sourced(r) /\ RowOk(r)
  BY TwinSelf DEF Sourced, DbOk
<1>2. WriteOk(op, p, Del(r))
  BY <1>1, HeldRow, WriteFields DEF WriteOk, OwnedRow, FleetTable
<1>3. Scoped(p) => Meets(db, p, Del(r))
  BY HeldAll, WriteFields DEF Meets
<1>4. ~ Has(p, "RegistryManage") => Reinstates(db, Del(r))
  BY WriteFields DEF Reinstates
<1> QED BY <1>1, <1>2, <1>3, <1>4, WriteFields DEF WriteNow

-----------------------------------------------------------------------------
(* Lists of writes.                                                        *)

LEMMA OneWrite ==
  ASSUME NEW op, NEW p, NEW w, WriteNow(op, p, w)
  PROVE  WritesOk(op, p, <<w>>)
<1>1. WritesIn(op, p, <<w>>, {w})
  BY DEF WritesIn, Fit
<1> QED BY <1>1 DEF WritesOk

LEMMA TwoWrites ==
  ASSUME NEW op, NEW p, NEW u, NEW w, WriteNow(op, p, u), WriteNow(op, p, w),
         Fit(u.row, w.row), Fit(w.row, u.row)
  PROVE  WritesOk(op, p, <<u, w>>)
<1>1. Fit(u.row, u.row) /\ Fit(w.row, w.row)
  BY DEF Fit
<1>2. WritesIn(op, p, <<u, w>>, {u, w})
  BY <1>1 DEF WritesIn
<1> QED BY <1>2 DEF WritesOk

LEMMA SeqOfSet ==
  ASSUME NEW S, IsFiniteSet(S)
  PROVE  SetToSeq(S) \in Seq(S)
<1>1. Cardinality(S) \in Nat /\ ExistsBijection(1..Cardinality(S), S)
  BY FS_CardinalityType
<1>2. PICK f : f \in Bijection(1..Cardinality(S), S)
  BY <1>1 DEF ExistsBijection
<1>3. f \in [1..Cardinality(S) -> S] /\ IsInjective(f)
  BY <1>2 DEF Bijection, Injection, IsInjective
<1>4. SetToSeq(S) \in [1..Cardinality(S) -> S]
  BY <1>3 DEF SetToSeq
<1> QED BY <1>1, <1>4

LEMMA SetWrites ==
  ASSUME NEW op, NEW p, NEW S, IsFiniteSet(S), NEW t,
         \A w \in S : WriteNow(op, p, w) /\ w.row.t = t
  PROVE  WritesIn(op, p, SetToSeq(S), S) /\ WritesOk(op, p, SetToSeq(S))
<1>1. WritesIn(op, p, SetToSeq(S), S)
  BY SeqOfSet DEF WritesIn, Fit
<1> QED BY <1>1 DEF WritesOk

LEMMA MoreWrites ==
  ASSUME NEW op, NEW p, NEW e, NEW S, WritesIn(op, p, e, S), NEW f, NEW T, WritesIn(op, p, f, T),
         \A u \in S, w \in T : Fit(u.row, w.row) /\ Fit(w.row, u.row)
  PROVE  WritesOk(op, p, e \o f)
<1>1. e \o f \in Seq(S \cup T)
  <2>1. e \in Seq(S \cup T) /\ f \in Seq(S \cup T)
    BY DEF WritesIn
  <2> QED BY <2>1
<1>2. WritesIn(op, p, e \o f, S \cup T)
  BY <1>1 DEF WritesIn
<1> QED BY <1>2 DEF WritesOk
-----------------------------------------------------------------------------
(* What the published table says of the handlers, capability by capability.   *)

CameraReadOps ==
  {"list_cameras", "list_status", "list_sites", "get_camera", "camera_status", "test_camera", "get_site",
   "list_schedules", "list_snapshot_schedules", "get_day_night", "get_image", "get_line_crossing", "get_intrusion",
   "get_motion", "list_outputs", "get_capabilities", "get_video_list", "get_video", "get_time", "get_ntp",
   "get_onvif_settings", "get_osd", "get_device_info", "get_onvif", "list_presets"}
PlaybackOps ==
  {"list_snapshots", "list_segments", "timeline", "gaps", "list_gaps", "snapshot_handler", "incident_segments",
   "create_session", "delete_session"}
ExportOps == {"export_clip", "create_evidence", "list_evidence", "get_evidence"}
EventsOps ==
  {"list_zones", "list_zone_events", "zone_event_aggregates", "zone_occupancy", "list_incidents", "list_events",
   "list_detections", "list_webhooks", "event_types", "list_deliveries", "list_entry_events", "report_entry_log",
   "report_exceptions", "get_entry_event", "list_links", "list_candidates", "list_breaches", "search_plate",
   "search_person", "search_events", "search_nl", "plan_only", "search_semantic_scoped"}
IdentityOps == {"list_vehicles", "list_watchlist", "get_vehicle", "list_passes", "get_pass", "get_gate_state"}
GateOps ==
  {"create_pass", "update_pass", "checkin_pass", "checkout_pass", "confirm_event", "reject_event", "gate_open",
   "confirm_candidate", "reject_candidate", "ack_breach", "resolve_breach"}
RegistryOps ==
  {"create_zone", "update_zone", "delete_zone", "create_schedule", "update_schedule", "delete_schedule",
   "create_snapshot_schedule", "update_snapshot_schedule", "delete_snapshot_schedule", "put_image",
   "put_detection", "put_line_crossing", "put_intrusion", "put_motion", "pulse_output", "put_day_night",
   "probe_control", "put_video", "put_time", "put_ntp", "sync_now", "put_onvif_settings", "put_osd",
   "ensure_onvif_user", "reboot", "bulk_config", "probe_onvif", "refresh_presets", "continuous_move", "ptz_stop",
   "goto_preset", "discover", "record_trigger", "retry_gap", "lock_evidence", "tag_incident", "unlock_evidence",
   "create_task", "update_task", "delete_task", "create_webhook", "update_webhook", "delete_webhook",
   "test_webhook", "create_destination", "update_destination", "delete_destination", "test_destination",
   "create_policy", "delete_policy", "trigger_policy", "update_policy", "delete_job", "archive_export",
   "create_vehicle", "create_watch", "update_vehicle", "update_watch", "delete_vehicle", "delete_watch",
   "delete_pass", "list_audit", "put_gate_settings", "put_gate_policy", "delete_gate_policy", "trigger_run",
   "create_link", "delete_link"}
SystemOps ==
  {"get_timezone", "get_retention", "get_transcode", "get_db_status", "system_info", "site_info", "list_modules",
   "list_registry", "list_destinations", "list_policies", "list_jobs", "list_archive_exports", "get_job"}
TaskOps == {"list_camera_tasks", "release_lease", "list_all_tasks", "acquire_lease", "sampler_status"}
IngestOps == {"ingest", "ingest_embeddings"}
AdminOps ==
  {"delete_camera", "create_site", "update_site", "delete_site", "post_db_convert", "get_posture",
   "get_provenance_readiness", "list_outbox", "put_timezone", "put_transcode", "put_retention", "put_db_limit",
   "refresh_registry", "register_module", "module_detail", "unregister_module"}

FleetOps ==
  {"create_site", "update_site", "delete_site", "discover", "discover_handler", "list_events", "create_webhook",
   "update_webhook", "delete_webhook", "test_webhook", "get_db_status", "post_db_convert", "get_posture",
   "get_provenance_readiness", "list_outbox", "put_timezone", "put_transcode", "put_retention", "put_db_limit",
   "refresh_registry", "register_module", "list_destinations", "create_destination", "update_destination",
   "delete_destination", "test_destination", "create_vehicle", "create_watch", "update_vehicle", "update_watch",
   "delete_vehicle", "delete_watch", "create_pass", "update_pass", "delete_pass", "checkin_pass", "checkout_pass",
   "put_gate_settings", "trigger_run"}

(* Handlers the table does not name. *)
Undocumented == {"create_camera", "update_camera", "guard", "metrics", "forward"}

Caps(op) ==
  /\ op \in CameraReadOps => Asks(op, "CameraRead")
  /\ op \in PlaybackOps => Asks(op, "VideoPlayback")
  /\ op \in ExportOps => Asks(op, "VideoExport")
  /\ op \in EventsOps => Asks(op, "EventsRead")
  /\ op \in IdentityOps => Asks(op, "IdentityRead")
  /\ op \in GateOps => Asks(op, "GateOperate")
  /\ op \in RegistryOps => Asks(op, "RegistryManage")
  /\ op \in SystemOps => Asks(op, "SystemRead")
  /\ op \in TaskOps => Asks(op, "AiTasks")
  /\ op \in IngestOps => Asks(op, "AiIngest")
  /\ op \in AdminOps => Asks(op, "Admin")
  /\ op = "liveview" => Asks(op, "VideoLive")
  /\ op = "latest_frame" => Asks(op, "AiFrames")
  /\ op = "discover_handler" => Asks(op, "NetScan")
  /\ op \in Undocumented => (\A cap : Asks(op, cap)) /\ ~ Closed(op)
  /\ op \notin FleetOps => ~ Closed(op)

Says(r) ==
  /\ r.op \in CameraReadOps => CapOf(r) = "CameraRead"
  /\ r.op \in PlaybackOps => CapOf(r) = "VideoPlayback"
  /\ r.op \in ExportOps => CapOf(r) = "VideoExport"
  /\ r.op \in EventsOps => CapOf(r) = "EventsRead"
  /\ r.op \in IdentityOps => CapOf(r) = "IdentityRead"
  /\ r.op \in GateOps => CapOf(r) = "GateOperate"
  /\ r.op \in RegistryOps => CapOf(r) = "RegistryManage"
  /\ r.op \in SystemOps => CapOf(r) = "SystemRead"
  /\ r.op \in TaskOps => CapOf(r) = "AiTasks"
  /\ r.op \in IngestOps => CapOf(r) = "AiIngest"
  /\ r.op \in AdminOps => CapOf(r) = "Admin"
  /\ r.op = "liveview" => CapOf(r) = "VideoLive"
  /\ r.op = "latest_frame" => CapOf(r) = "AiFrames"
  /\ r.op = "discover_handler" => CapOf(r) = "NetScan"
  /\ r.op \notin Undocumented
  /\ r.scoping = "FleetOnly" => r.op \in FleetOps \cup Misdeclared

LEMMA TableSays ==
  \A r \in REQUIREMENTS : Says(r)
<1> USE DEF CapOf, Declare, CameraReadOps, PlaybackOps, ExportOps, EventsOps, IdentityOps, GateOps, RegistryOps,
            SystemOps, TaskOps, IngestOps, AdminOps, FleetOps, Misdeclared, Undocumented
<1>1. \A r \in CoreRoutes : Says(r)
  BY DEF CoreRoutes, Says
<1>2. \A r \in ConfigRoutes : Says(r)
  BY DEF ConfigRoutes, Says
<1>3. \A r \in BackupRoutes : Says(r)
  BY DEF BackupRoutes, Says
<1>4. \A r \in MovementRoutes : Says(r)
  BY DEF MovementRoutes, Says
<1>5. \A r \in ControlRoutes : Says(r)
  BY DEF ControlRoutes, Says
<1>6. \A r \in AiRoutes : Says(r)
  BY DEF AiRoutes, Says
<1>7. \A r \in OnvifRoutes : Says(r)
  BY DEF OnvifRoutes, Says
<1>8. \A r \in RegisterRoutes : Says(r)
  BY DEF RegisterRoutes, Says
<1>9. \A r \in EntryRoutes : Says(r)
  BY DEF EntryRoutes, Says
<1>10. \A r \in ZoneRoutes : Says(r)
  BY DEF ZoneRoutes, Says
<1>11. \A r \in SystemRoutes : Says(r)
  BY DEF SystemRoutes, Says
<1>12. \A r \in RecordRoutes : Says(r)
  BY DEF RecordRoutes, Says
<1>13. \A r \in ScheduleRoutes : Says(r)
  BY DEF ScheduleRoutes, Says
<1> QED BY <1>1, <1>2, <1>3, <1>4, <1>5, <1>6, <1>7, <1>8, <1>9, <1>10, <1>11, <1>12, <1>13 DEF REQUIREMENTS

LEMMA DeclaredSays ==
  ASSUME NEW op
  PROVE  Caps(op)
<1>1. Declaration(op).scoping = None \/ (Declaration(op) \in REQUIREMENTS /\ Declaration(op).op = op)
  <2>1. CASE op \in {r.op : r \in REQUIREMENTS}
    <3>1. \E r \in REQUIREMENTS : r.op = op
      BY <2>1
    <3>2. (CHOOSE r \in REQUIREMENTS : r.op = op) \in REQUIREMENTS /\ (CHOOSE r \in REQUIREMENTS : r.op = op).op = op
      BY <3>1
    <3>3. Declaration(op) = CHOOSE r \in REQUIREMENTS : r.op = op
      BY <2>1 DEF Declaration, Declared
    <3> QED BY <3>2, <3>3
  <2>2. CASE op \notin {r.op : r \in REQUIREMENTS}
    BY <2>2 DEF Declaration, Declared, None
  <2> QED BY <2>1, <2>2
<1>2. CASE Declaration(op).scoping = None
  BY <1>2 DEF Caps, Asks, Closed, None
<1>3. CASE Declaration(op) \in REQUIREMENTS /\ Declaration(op).op = op
  BY <1>3, TableSays DEF Says, Caps, Asks, Closed
<1> QED BY <1>1, <1>2, <1>3
-----------------------------------------------------------------------------
(* The writes of many handlers: to the rows of one table, each amended or     *)
(* deleted.                                                                   *)

(* The rows N are rows of R with another reference or payload. *)
Amends(N, R) == IsFiniteSet(N) /\ \A n \in N : \E r \in R : n = Row(r.t, r.id, r.cams, n.ref, n.v)

LEMMA AmendsV ==
  ASSUME NEW R, IsFiniteSet(R), \A r \in R : RowOk(r), NEW x
  PROVE  Amends({[r EXCEPT !.v = x] : r \in R}, R)
<1> DEFINE f == [r \in R |-> [r EXCEPT !.v = x]]
           N == {[r EXCEPT !.v = x] : r \in R}
<1>1. N = {f[r] : r \in R}
  OBVIOUS
<1>2. IsFiniteSet(N)
  <2> HIDE DEF f, N
  <2>1. IsFiniteSet({f[r] : r \in R})
    BY ImageFinite
  <2> QED BY <1>1, <2>1
<1>3. \A r \in R : [r EXCEPT !.v = x] = Row(r.t, r.id, r.cams, r.ref, x)
  BY RowIs, AmendedV
<1>4. ASSUME NEW n \in N PROVE \E r \in R : n = Row(r.t, r.id, r.cams, n.ref, n.v)
  <2>1. PICK r \in R : n = Row(r.t, r.id, r.cams, r.ref, x)
    BY <1>3
  <2>2. n.ref = r.ref /\ n.v = x
    BY <2>1 DEF Row
  <2> QED BY <2>1, <2>2
<1> HIDE DEF N
<1>5. Amends(N, R)
  BY <1>2, <1>4 DEF Amends
<1> QED BY <1>5 DEF N

LEMMA AmendsRef ==
  ASSUME NEW R, IsFiniteSet(R), \A r \in R : RowOk(r), NEW y
  PROVE  Amends({[r EXCEPT !.ref = y] : r \in R}, R)
<1> DEFINE f == [r \in R |-> [r EXCEPT !.ref = y]]
           N == {[r EXCEPT !.ref = y] : r \in R}
<1>1. N = {f[r] : r \in R}
  OBVIOUS
<1>2. IsFiniteSet(N)
  <2> HIDE DEF f, N
  <2>1. IsFiniteSet({f[r] : r \in R})
    BY ImageFinite
  <2> QED BY <1>1, <2>1
<1>3. \A r \in R : [r EXCEPT !.ref = y] = Row(r.t, r.id, r.cams, y, r.v)
  BY RowIs, AmendedRef
<1>4. ASSUME NEW n \in N PROVE \E r \in R : n = Row(r.t, r.id, r.cams, n.ref, n.v)
  <2>1. PICK r \in R : n = Row(r.t, r.id, r.cams, y, r.v)
    BY <1>3
  <2>2. n.ref = y /\ n.v = r.v
    BY <2>1 DEF Row
  <2> QED BY <2>1, <2>2
<1> HIDE DEF N
<1>5. Amends(N, R)
  BY <1>2, <1>4 DEF Amends
<1> QED BY <1>5 DEF N

LEMMA AmendsBy ==
  ASSUME NEW R, IsFiniteSet(R), NEW f, \A r \in R : f[r] = Row(r.t, r.id, r.cams, f[r].ref, f[r].v)
  PROVE  Amends({f[r] : r \in R}, R)
<1>1. IsFiniteSet({f[r] : r \in R})
  BY ImageFinite
<1> QED BY <1>1 DEF Amends

Upds(N, cols) == {Upd(n, cols) : n \in N}
Dels(R) == {Del(r) : r \in R}

LEMMA UpdWrites ==
  ASSUME NEW op, op # "delete_site", NEW p, DbOk(db), NEW R \in SUBSET db, NEW t, t \notin Plain,
         \A r \in R : r.t = t /\ (Scoped(p) => Holds(p, r)), NEW N, Amends(N, R), NEW cols
  PROVE  WritesIn(op, p, SetToSeq(Upds(N, cols)), Upds(N, cols)) /\ WritesOk(op, p, SetToSeq(Upds(N, cols)))
<1> DEFINE S == {Upd(n, cols) : n \in N}
           f == [n \in N |-> Upd(n, cols)]
<1>1. S = {f[n] : n \in N}
  OBVIOUS
<1>2. IsFiniteSet(S)
  <2> HIDE DEF f, S
  <2>1. IsFiniteSet({f[n] : n \in N})
    BY ImageFinite DEF Amends
  <2> QED BY <1>1, <2>1
<1>3. ASSUME NEW n \in N PROVE WriteNow(op, p, Upd(n, cols)) /\ n.t = t
  <2>1. PICK r \in R : n = Row(r.t, r.id, r.cams, n.ref, n.v)
    BY DEF Amends
  <2>2. WriteNow(op, p, Upd(Row(r.t, r.id, r.cams, n.ref, n.v), cols))
    BY UpdNow
  <2>3. n.t = r.t
    BY <2>1, RowFields
  <2> QED BY <2>1, <2>2, <2>3
<1>4. \A w \in S : WriteNow(op, p, w) /\ w.row.t = t
  BY <1>3, WriteFields
<1> HIDE DEF S
<1>5. WritesIn(op, p, SetToSeq(S), S) /\ WritesOk(op, p, SetToSeq(S))
  BY <1>2, <1>4, SetWrites
<1> QED BY <1>5 DEF S, Upds

LEMMA DelWrites ==
  ASSUME NEW op, op # "delete_site", NEW p, DbOk(db), NEW R \in SUBSET db, NEW t, t # "sites",
         \A r \in R : r.t = t /\ (Scoped(p) => Holds(p, r)),
         Scoped(p) => t # "cameras", t = "visitor_passes" => Has(p, "RegistryManage"),
         t = "backup_policies" => op \in Reselected
  PROVE  WritesIn(op, p, SetToSeq(Dels(R)), Dels(R)) /\ WritesOk(op, p, SetToSeq(Dels(R)))
<1> DEFINE S == {Del(r) : r \in R}
           f == [r \in R |-> Del(r)]
<1>1. S = {f[r] : r \in R}
  OBVIOUS
<1>2. IsFiniteSet(S)
  <2> HIDE DEF f, S
  <2>1. IsFiniteSet(db)
    BY DEF DbOk
  <2>2. IsFiniteSet(R)
    BY <2>1, FS_Subset
  <2>3. IsFiniteSet({f[r] : r \in R})
    BY <2>2, ImageFinite
  <2> QED BY <1>1, <2>3
<1>3. \A w \in S : WriteNow(op, p, w) /\ w.row.t = t
  <2>1. ASSUME NEW r \in R PROVE WriteNow(op, p, Del(r))
    <3>1. r \in db /\ r.t = t /\ (Scoped(p) => Holds(p, r))
      OBVIOUS
    <3>2. /\ r.t # "sites" /\ (Scoped(p) => r.t # "cameras")
          /\ r.t = "visitor_passes" => Has(p, "RegistryManage")
          /\ r.t = "backup_policies" => op \in Reselected
      BY <3>1
    <3> HIDE DEF S, f
    <3> QED BY <3>1, <3>2, DelNow
  <2>2. \A r : Del(r).row = r
    BY DEF Del
  <2> QED BY <2>1, <2>2
<1> HIDE DEF S
<1>4. WritesIn(op, p, SetToSeq(S), S) /\ WritesOk(op, p, SetToSeq(S))
  BY <1>2, <1>3, SetWrites
<1> QED BY <1>4 DEF S, Dels

LEMMA GetRows ==
  ASSUME DbOk(db), NEW p, NEW t, NEW i
  PROVE  /\ Get(db, t, i) \subseteq db /\ IsFiniteSet(Get(db, t, i))
         /\ \A r \in Get(db, t, i) : RowOk(r) /\ r.t = t /\ r.id = i
         /\ (\E r \in Get(db, t, i) : Holds(p, r)) => \A r \in Get(db, t, i) : Scoped(p) => Holds(p, r)
<1>0. IsFiniteSet(db)
  BY DEF DbOk
<1>1. Get(db, t, i) \subseteq db /\ IsFiniteSet(Get(db, t, i))
  <2>1. IsFiniteSet(Get(db, t, i))
    BY <1>0, GetFinite
  <2> QED BY <2>1 DEF Get
<1>2. \A r \in Get(db, t, i) : RowOk(r) /\ r.t = t /\ r.id = i
  BY DEF DbOk, Get
<1>3. ASSUME NEW r \in Get(db, t, i), Holds(p, r), NEW x \in Get(db, t, i), Scoped(p) PROVE Holds(p, x)
  BY <1>1, <1>2, <1>3, HeldAll
<1> QED BY <1>1, <1>2, <1>3

(* The answer of an amendment, by its effect on the rows under one id. *)
LEMMA PatchWrites ==
  ASSUME NEW op, op # "delete_site", NEW p, DbOk(db), NEW t, t \notin Plain, NEW i,
         Scoped(p) => \E r \in Get(db, t, i) : Holds(p, r)
  PROVE  WritesOk(op, p, Patch(db, t, i).eff)
<1> DEFINE R == Get(db, t, i)
           N == {Patched(r) : r \in R}
           S == {Upd(n, Whole) : n \in N}
<1>1. R \in SUBSET db /\ IsFiniteSet(R) /\ \A r \in R : RowOk(r) /\ r.t = t /\ (Scoped(p) => Holds(p, r))
  BY GetRows
<1>2. N = {[r EXCEPT !.v = 1] : r \in R}
  BY DEF Patched
<1> HIDE DEF R
<1>3. Amends(N, R)
  BY <1>1, <1>2, AmendsV
<1> HIDE DEF N
<1>4. WritesOk(op, p, SetToSeq(S))
  BY <1>1, <1>3, UpdWrites DEF Upds
<1>5. Patch(db, t, i).eff = SetToSeq(S)
  BY DEF Patch, Do, Each, S, N, R
<1> QED BY <1>4, <1>5

LEMMA PatchGood ==
  ASSUME NEW op, op # "delete_site", ~ Closed(op), NEW p \in Credential, DbOk(db), NEW t, t \notin Plain \cup Issued, NEW i,
         \E r \in Get(db, t, i) : Holds(p, r)
  PROVE  Good(op, p, Patch(db, t, i), Patch(Shown(p), t, i))
<1>1. Get(Shown(p), t, i) = Get(db, t, i)
  BY ShownOne
<1>2. Patch(Shown(p), t, i) = Patch(db, t, i)
  BY <1>1 DEF Patch
<1> QED BY <1>2, PatchWrites DEF Good

LEMMA EraseWrites ==
  ASSUME NEW op, op # "delete_site", NEW p, DbOk(db), NEW t, t # "sites", NEW i,
         Scoped(p) => \E r \in Get(db, t, i) : Holds(p, r),
         Scoped(p) => t # "cameras", t = "visitor_passes" => Has(p, "RegistryManage"),
         t = "backup_policies" => op \in Reselected
  PROVE  WritesOk(op, p, Erase(db, t, i).eff)
<1> DEFINE R == Get(db, t, i)
           S == {Del(r) : r \in R}
<1>1. R \in SUBSET db /\ \A r \in R : r.t = t /\ (Scoped(p) => Holds(p, r))
  BY GetRows
<1> HIDE DEF R
<1>2. WritesOk(op, p, SetToSeq(S))
  BY <1>1, DelWrites DEF Dels
<1>3. WritesOk(op, p, Do(204, {}, SetToSeq(S)).eff)
  BY <1>2, DoWrites
<1>4. Erase(db, t, i) = Found(R, Do(204, {}, SetToSeq(S)))
  BY DEF Erase, Each, R
<1> QED BY <1>3, <1>4, FoundWrites, ZenonT(60)

LEMMA EraseGood ==
  ASSUME NEW op, op # "delete_site", ~ Closed(op), NEW p \in Credential, DbOk(db), NEW t, t \notin Issued \cup {"sites", "cameras"},
         NEW i, \E r \in Get(db, t, i) : Holds(p, r), t = "visitor_passes" => Has(p, "RegistryManage"),
         t = "backup_policies" => op \in Reselected
  PROVE  Good(op, p, Erase(db, t, i), Erase(Shown(p), t, i))
<1>1. Get(Shown(p), t, i) = Get(db, t, i)
  BY ShownOne
<1>2. Erase(Shown(p), t, i) = Erase(db, t, i)
  BY <1>1 DEF Erase
<1> QED BY <1>2, EraseWrites DEF Good

LEMMA CreateWrites ==
  ASSUME NEW op, op # "delete_site", NEW p, NEW r, RowOk(r), Scoped(p) => Holds(p, r),
         r.id \in Unused \/ (Sourced(r) /\ r.t # "visitor_passes")
  PROVE  WritesOk(op, p, Create(r).eff)
<1>1. WritesOk(op, p, <<Ins(r)>>)
  BY InsNow, OneWrite
<1> QED BY <1>1, DoWrites DEF Create

LEMMA CreateGood ==
  ASSUME NEW op, op # "delete_site", ~ Closed(op), NEW p, NEW r, RowOk(r), Scoped(p) => Holds(p, r),
         r.id \in Unused \/ (Sourced(r) /\ r.t # "visitor_passes")
  PROVE  Good(op, p, Create(r), Create(r))
BY CreateWrites DEF Good

-----------------------------------------------------------------------------
(* Rows that handlers make.                                                *)

LEMMA MadeOne ==
  ASSUME NEW p, NEW c, CameraAllowed(p, c), NEW t, NEW i, NEW ref, NEW v
  PROVE  LET r == Row(t, i, {c}, ref, v) IN
         /\ t \in OneCamera \ {"ai_leases"} => RowOk(r)
         /\ t \in OwnTable /\ i = c => RowOk(r)
         /\ Holds(p, r) /\ r.t = t /\ r.id = i /\ r.cams = {c}
<1> DEFINE r == Row(t, i, {c}, ref, v)
<1>1. r.t = t /\ r.id = i /\ r.cams = {c}
  BY RowFields
<1>2. (t \in OneCamera \ {"ai_leases"} => RowOk(r)) /\ (t \in OwnTable /\ i = c => RowOk(r))
  BY RowMade
<1> HIDE DEF r
<1>3. Holds(p, r)
  BY <1>1 DEF Holds, CameraAllowed
<1> QED BY <1>1, <1>2, <1>3 DEF r

LEMMA CreateOne ==
  ASSUME NEW op, op # "delete_site", ~ Closed(op), NEW p, NEW c, CameraAllowed(p, c),
         NEW t \in OneCamera \ {"ai_leases"}, NEW i \in Unused, NEW ref, NEW v
  PROVE  Good(op, p, Create(Row(t, i, {c}, ref, v)), Create(Row(t, i, {c}, ref, v)))
<1> DEFINE r == Row(t, i, {c}, ref, v)
<1>1. RowOk(r) /\ Holds(p, r) /\ r.id \in Unused
  <2>1. RowOk(r)
    BY RowMade
  <2>2. r.cams = {c} /\ r.id = i
    BY RowFields
  <2> HIDE DEF r
  <2> QED BY <2>1, <2>2 DEF Holds, CameraAllowed
<1> HIDE DEF r
<1>2. Good(op, p, Create(r), Create(r))
  BY <1>1, CreateGood
<1> QED BY <1>2 DEF r

LEMMA CreateFleet ==
  ASSUME NEW op, op # "delete_site", NEW p, ~ Scoped(p), NEW t \in FleetTable, NEW i,
         i \in Unused \/ t # "visitor_passes", NEW ref, NEW v
  PROVE  WritesOk(op, p, Create(Row(t, i, {}, ref, v)).eff)
<1> DEFINE r == Row(t, i, {}, ref, v)
<1>1. RowOk(r) /\ r.t = t /\ r.id = i
  <2>1. r.t = t /\ r.id = i
    BY RowFields
  <2>2. RowOk(r)
    BY RowMade
  <2> QED BY <2>1, <2>2
<1> HIDE DEF r
<1>2. r.id \in Unused \/ (Sourced(r) /\ r.t # "visitor_passes")
  BY <1>1 DEF Sourced
<1>3. WritesOk(op, p, Create(r).eff)
  BY <1>1, <1>2, CreateWrites
<1> QED BY <1>3 DEF r

LEMMA AmendGood ==
  ASSUME NEW op, op # "delete_site", ~ Closed(op), NEW p \in Credential, DbOk(db), NEW t, t \notin Plain \cup Issued, NEW i,
         \E r \in Get(db, t, i) : Holds(p, r), NEW N, Amends(N, Get(db, t, i)), NEW cols
  PROVE  /\ Get(Shown(p), t, i) = Get(db, t, i)
         /\ Good(op, p, Do(200, N, SetToSeq(Upds(N, cols))), Do(200, N, SetToSeq(Upds(N, cols))))
<1>1. Get(Shown(p), t, i) = Get(db, t, i)
  BY ShownOne
<1> DEFINE R == Get(db, t, i)
           eff == SetToSeq(Upds(N, cols))
<1>2. R \in SUBSET db /\ \A r \in R : r.t = t /\ (Scoped(p) => Holds(p, r))
  BY GetRows
<1> HIDE DEF R
<1>3. WritesOk(op, p, eff)
  BY <1>2, UpdWrites DEF R
<1> HIDE DEF eff
<1>4. Good(op, p, Do(200, N, eff), Do(200, N, eff))
  BY <1>3, DoGood, ZenonT(60)
<1> QED BY <1>1, <1>4 DEF eff

LEMMA InsFleet ==
  ASSUME NEW op, op # "delete_site", NEW p, ~ Scoped(p), NEW t \in FleetTable, NEW i \in Unused, NEW ref, NEW v
  PROVE  WritesOk(op, p, <<Ins(Row(t, i, {}, ref, v))>>)
<1> DEFINE r == Row(t, i, {}, ref, v)
<1>1. RowOk(r)
  BY RowMade
<1>2. r.id = i
  BY RowFields
<1> HIDE DEF r
<1>3. WritesOk(op, p, <<Ins(r)>>)
  BY <1>1, <1>2, InsNow, OneWrite
<1> QED BY <1>3 DEF r

LEMMA PutFleet ==
  ASSUME DbOk(db), NEW op, op # "delete_site", NEW p, ~ Scoped(p), NEW t \in FleetTable, t # "visitor_passes",
         NEW i, NEW ref, NEW v
  PROVE  WritesOk(op, p, <<Put(Row(t, i, {}, ref, v))>>)
<1> DEFINE r == Row(t, i, {}, ref, v)
<1>1. RowOk(r)
  BY RowMade
<1>2. r.t = t
  BY RowFields
<1> HIDE DEF r
<1>3. WritesOk(op, p, <<Put(r)>>)
  BY <1>1, <1>2, PutNow, OneWrite
<1> QED BY <1>3 DEF r

(* A pass that is revoked stays so under a write of a guard that has looked. *)
LEMMA PassNow ==
  ASSUME DbOk(db), NEW op, op # "delete_site", NEW p, ~ Scoped(p), NEW i, NEW r \in Get(db, "visitor_passes", i),
         NEW ref, NEW v, NEW cols, Has(p, "RegistryManage") \/ r.ref # "revoked" \/ ref = "revoked"
  PROVE  WriteNow(op, p, Upd(Row(r.t, r.id, r.cams, ref, v), cols))
<1> DEFINE x == Row(r.t, r.id, r.cams, ref, v)
<1>1. r \in db /\ r.t = "visitor_passes" /\ RowOk(r)
  BY DEF DbOk, Get
<1>2. x.t = r.t /\ x.id = r.id /\ x.cams = r.cams /\ x.ref = ref
  BY DEF Row
<1>3. RowOk(x)
  BY <1>1, AmendedOk
<1> HIDE DEF x
<1>4. Sourced(x)
  BY <1>1, <1>2 DEF Sourced, Twin
<1>5. WriteOk(op, p, Upd(x, cols))
  BY <1>1, <1>2, <1>3, WriteFields DEF WriteOk
<1>6. ~ Has(p, "RegistryManage") => Reinstates(db, Upd(x, cols))
  <2> SUFFICES ASSUME ~ Has(p, "RegistryManage"), NEW y \in Get(db, "visitor_passes", x.id), y.ref = "revoked"
               PROVE  x.ref = "revoked"
    BY WriteFields DEF Reinstates
  <2>1. y \in db /\ y.t = r.t /\ y.id = r.id /\ r.t \notin Issued
    BY <1>1, <1>2 DEF Get, Issued
  <2>2. y = r
    BY <1>1, <2>1 DEF DbOk, Keyed
  <2> QED BY <1>2, <2>2
<1>7. WriteNow(op, p, Upd(x, cols))
  BY <1>4, <1>5, <1>6, WriteFields DEF WriteNow
<1> QED BY <1>7 DEF x

LEMMA SettingWrites ==
  ASSUME DbOk(db), NEW op, op # "delete_site", NEW p, ~ Scoped(p), NEW s
  PROVE  WritesOk(op, p, Do(200, {Setting(s)}, <<Put(Setting(s))>>).eff)
<1>1. WritesOk(op, p, <<Put(Setting(s))>>)
  BY PutFleet DEF Setting, FleetTable
<1> QED BY <1>1, DoWrites

LEMMA CapGood ==
  ASSUME NEW p \in Credential, NEW op, NEW cap, NEW x, NEW y, Has(p, cap) => Good(op, p, x, y)
  PROVE  Good(op, p, NeedCap(p, cap, x), NeedCap(Asking(op, p), cap, y))
<1>1. Good(op, p, Refuse(403), Refuse(403))
  BY RefuseGood
<1>2. CASE Scoped(p)
  BY <1>1, <1>2, ScopedAsks DEF NeedCap
<1>3. CASE ~ Scoped(p)
  BY <1>1, <1>3 DEF NeedCap, Good
<1> QED BY <1>2, <1>3

(* A write to the row a table keeps of a camera. *)
LEMMA OwnWrites ==
  ASSUME DbOk(db), NEW op, op # "delete_site", NEW p, NEW c, CameraAllowed(p, c), NEW t \in OwnTable, t # "cameras",
         NEW ref, NEW v, NEW r, r = Row(t, c, {c}, ref, v)
  PROVE  /\ WriteNow(op, p, Ins(r)) /\ WriteNow(op, p, Put(r)) /\ WriteNow(op, p, Del(r))
         /\ WritesOk(op, p, <<Ins(r)>>) /\ WritesOk(op, p, <<Put(r)>>) /\ WritesOk(op, p, <<Del(r)>>)
<1>1. r.t = t /\ r.id = c /\ r.cams = {c}
  BY RowFields
<1>2. RowOk(r)
  BY RowMade
<1>3. Holds(p, r) /\ Sourced(r) /\ t \notin {"visitor_passes", "sites", "workers", "backup_policies", "modules"}
  BY <1>1 DEF Holds, CameraAllowed, Sourced, OwnTable
<1>4. WriteNow(op, p, Ins(r))
  BY <1>1, <1>2, <1>3, InsNow
<1>5. WriteNow(op, p, Put(r))
  BY <1>1, <1>2, <1>3, PutNow
<1>6. WriteOk(op, p, Del(r))
  BY <1>1, <1>2, <1>3, WriteFields DEF WriteOk, OwnedRow
<1>7. Meets(db, p, Del(r))
  <2> SUFFICES ASSUME NEW x \in Get(db, r.t, r.id) PROVE Holds(p, x)
    BY WriteFields DEF Meets
  <2>1. x.cams = {c}
    BY <1>1 DEF Get, DbOk, RowOk
  <2> QED BY <1>1, <1>3, <2>1 DEF Holds
<1>8. Reinstates(db, Del(r))
  BY <1>1, <1>3, WriteFields DEF Reinstates
<1>9. WriteNow(op, p, Del(r))
  BY <1>3, <1>6, <1>7, <1>8, WriteFields DEF WriteNow
<1> QED BY <1>1, <1>4, <1>5, <1>9, OneWrite

-----------------------------------------------------------------------------
(* A list of cameras that the credential's own confine.                    *)

Chosen(p, cs, a, o, s) ==
  IF ~ Scoped(p) THEN a ELSE IF cs = {} THEN o ELSE IF cs \subseteq p.scope THEN s ELSE Refuse(403)

LEMMA ChosenGood ==
  ASSUME NEW p \in Credential, NEW op, NEW cs, NEW a, NEW b, NEW o, NEW u, NEW s, NEW v,
         ~ Scoped(p) => WritesOk(op, p, a.eff), Scoped(p) /\ cs = {} => Good(op, p, o, u),
         Scoped(p) /\ cs # {} /\ cs \subseteq p.scope => Good(op, p, s, v)
  PROVE  Good(op, p, Chosen(p, cs, a, o, s), Chosen(Asking(op, p), cs, b, u, v))
<1>1. Good(op, p, Refuse(403), Refuse(403))
  BY RefuseGood
<1>2. CASE Scoped(p)
  BY <1>1, <1>2, ScopedAsks DEF Chosen
<1>3. CASE ~ Scoped(p)
  BY <1>3 DEF Chosen, Good
<1> QED BY <1>2, <1>3

(* A row of several cameras. *)
LEMMA RowFree ==
  ASSUME NEW t, t \notin OwnTable \cup FleetTable \cup OneCamera \cup {"events", "ai_leases"}, NEW i, NEW cs, NEW ref, NEW v
  PROVE  RowOk(Row(t, i, cs, ref, v))
<1> DEFINE x == Row(t, i, cs, ref, v)
<1>1. x = [t |-> x.t, id |-> x.id, cams |-> x.cams, ref |-> x.ref, v |-> x.v] /\ x.t = t
  BY DEF Row
<1> HIDE DEF x
<1>2. RowOk(x)
  BY <1>1 DEF RowOk
<1> QED BY <1>2 DEF x

(* A row that is the credential's or is not there. *)
LEMMA MineGood ==
  ASSUME DbOk(db), NEW p \in Credential, NEW op, NEW t, NEW i, NEW x, NEW y,
         (\E r \in Get(db, t, i) : Holds(p, r)) => Good(op, p, x, y)
  PROVE  Good(op, p, Found({r \in Get(db, t, i) : Holds(p, r)}, x),
                     Found({r \in Get(Shown(p), t, i) : Holds(Asking(op, p), r)}, y))
<1> DEFINE X == {r \in Get(db, t, i) : Holds(p, r)}
           Y == {r \in Get(Shown(p), t, i) : Holds(Asking(op, p), r)}
<1>1. (X = {} <=> Y = {}) /\ (X # {} => Good(op, p, x, y))
  BY ShownOne
<1> HIDE DEF X, Y
<1>2. Good(op, p, Found(X, x), Found(Y, y))
  BY <1>1, FoundGood
<1> QED BY <1>2 DEF X, Y

-----------------------------------------------------------------------------
(* Cameras and sites.                                                         *)

LEMMA CreateCameraAnswers ==
  ASSUME DbOk(db), NEW p \in Credential, NEW c, NEW s, NEW named, NEW ok
  PROVE  Answers("create_camera", p, create_camera(db, p, c, s, named, ok),
                 create_camera(Shown(p), Asking("create_camera", p), c, s, named, ok))
<1> DEFINE op == "create_camera"
           cam == Row("cameras", c, {c}, s, 0)
           status == Row("camera_status", c, {c}, None, 0)
           eff == <<Ins(cam), Put(status)>>
           y(d) == IF Exists(d, "cameras", c) THEN Refuse(409) ELSE Valid(ok /\ Sound(d, cam), Do(201, {cam}, eff))
           q == Asking(op, p)
           x(d, r) == IF s # None THEN require_fleet_scope(r, camera_scope_check(r, c, y(d))) ELSE camera_scope_check(r, c, y(d))
<1>1. Asks(op, "RegistryManage") /\ ~ Closed(op)
  BY DeclaredSays DEF Caps, Undocumented
<1>2. ASSUME CameraAllowed(p, c) PROVE WritesOk(op, p, eff)
  <2>1. /\ cam.t = "cameras" /\ cam.id = c /\ cam.cams = {c}
        /\ status.t = "camera_status" /\ status.id = c /\ status.cams = {c}
        /\ Ins(cam).row = cam /\ Put(status).row = status
    BY DEF Row, Ins, Put
  <2>2. RowOk(cam) /\ RowOk(status)
    BY RowMade DEF OwnTable
  <2>3. Scoped(p) => Holds(p, cam) /\ Holds(p, status)
    BY <1>2, <2>1 DEF CameraAllowed, Holds
  <2> HIDE DEF cam, status
  <2>4. WriteNow(op, p, Ins(cam))
    BY <2>1, <2>2, <2>3, InsNow DEF Sourced, OwnTable
  <2>5. WriteNow(op, p, Put(status))
    BY <2>1, <2>2, <2>3, PutNow DEF OwnTable
  <2>6. Fit(cam, status) /\ Fit(status, cam)
    BY <2>1 DEF Fit
  <2> QED BY <2>1, <2>4, <2>5, <2>6, TwoWrites
<1>3. s = None => (Sound(Shown(p), cam) <=> Sound(db, cam))
  BY DEF Sound, Row
<1>4. \A d, r : create_camera(d, r, c, s, named, ok) = NeedCap(r, "RegistryManage", Valid(named, x(d, r)))
  BY DEF create_camera
<1> HIDE DEF cam, eff
<1>5. ASSUME CameraAllowed(p, c) PROVE WritesOk(op, p, y(db).eff)
  <2>1. WritesOk(op, p, Valid(ok /\ Sound(db, cam), Do(201, {cam}, eff)).eff)
    BY <1>2, <1>5, DoWrites, ValidWrites
  <2> QED BY <2>1, RefuseWrites
<1>6. ASSUME CameraAllowed(p, c), s = None PROVE Good(op, p, y(db), y(Shown(p)))
  <2>1. Exists(Shown(p), "cameras", c) <=> Exists(db, "cameras", c)
    BY <1>6, ShownGet DEF Exists, OwnTable
  <2>2. Good(op, p, Do(201, {cam}, eff), Do(201, {cam}, eff))
    BY <1>1, <1>2, <1>6, DoGood, ZenonT(60)
  <2>3. Good(op, p, Valid(ok /\ Sound(db, cam), Do(201, {cam}, eff)), Valid(ok /\ Sound(Shown(p), cam), Do(201, {cam}, eff)))
    BY <1>3, <1>6, <2>2, ValidGood
  <2> QED BY <2>1, <2>3, RefuseGood
<1> HIDE DEF y
<1>7. WritesOk(op, p, camera_scope_check(p, c, y(db)).eff)
  BY <1>5, ScopeWrites
<1>8. Good(op, p, require_fleet_scope(p, camera_scope_check(p, c, y(db))),
              require_fleet_scope(q, camera_scope_check(q, c, y(Shown(p)))))
  BY <1>7, FleetGood
<1>9. s = None => Good(op, p, camera_scope_check(p, c, y(db)), camera_scope_check(q, c, y(Shown(p))))
  BY <1>6, ScopeGood
<1>10. Good(op, p, x(db, p), x(Shown(p), q))
  BY <1>8, <1>9
<1> HIDE DEF x
<1>11. Good(op, p, Valid(named, x(db, p)), Valid(named, x(Shown(p), q)))
  BY <1>10, ValidGood
<1> QED BY <1>1, <1>4, <1>11, CapAnswers

LEMMA DeleteCameraAnswers ==
  ASSUME DbOk(db), NEW p \in Credential, NEW c
  PROVE  Answers("delete_camera", p, delete_camera(db, p, c),
                 delete_camera(Shown(p), Asking("delete_camera", p), c))
<1> DEFINE op == "delete_camera"
           G == Get(db, "cameras", c)
           D(S) == Do(204, {}, SetToSeq(Dels(S)))
           x(d) == IF \E r \in OfCamera(d, "segments", c) : r.v = 1 THEN Refuse(409) ELSE D(Get(d, "cameras", c))
<1>1. Asks(op, "Admin")
  BY DeclaredSays DEF Caps, AdminOps
<1>2. Has(p, "Admin") => ~ Scoped(p)
  BY ScopedLacks
<1>3. \A d, q : delete_camera(d, q, c) = NeedCap(q, "Admin", camera_for(d, q, c, x(d)))
  BY DEF delete_camera, Each, Dels
<1>4. ASSUME ~ Scoped(p) PROVE Good(op, p, camera_for(db, p, c, x(db)), camera_for(Shown(p), Asking(op, p), c, x(Shown(p))))
  <2>1. G \in SUBSET db /\ \A r \in G : r.t = "cameras"
    BY GetRows
  <2> HIDE DEF G
  <2>2. WritesOk(op, p, SetToSeq(Dels(G)))
    BY <1>4, <2>1, DelWrites
  <2>3. WritesOk(op, p, D(G).eff)
    BY <2>2, DoWrites
  <2> HIDE DEF D
  <2>4. WritesOk(op, p, x(db).eff)
    BY <2>3, RefuseWrites DEF G
  <2> HIDE DEF x
  <2>5. WritesOk(op, p, camera_for(db, p, c, x(db)).eff)
    BY <2>4, CameraWrites
  <2> QED BY <1>4, <2>5 DEF Good
<1> HIDE DEF x
<1> QED BY <1>1, <1>2, <1>3, <1>4, CapAnswers

(* The two requests every area makes. *)
LEMMA CameraServed ==
  ASSUME ApiInv, NEW p \in Credential, NEW sites, CameraRequests(p, sites)
  PROVE  Served(p)
<1>1. DbOk(db)
  BY DEF ApiInv, StateOk
<1>2. \A op \in {"create_camera"} : Asks(op, "RegistryManage") /\ ~ Closed(op)
  BY DeclaredSays DEF Caps, Undocumented, FleetOps
<1>3. \A op \in {"delete_camera"} : Asks(op, "Admin") /\ ~ Closed(op)
  BY DeclaredSays DEF Caps, AdminOps, FleetOps
<1>4. \A c, s, named, ok : Answers("create_camera", p, create_camera(db, p, c, s, named, ok),
              create_camera(Shown(p), Asking("create_camera", p), c, s, named, ok))
  BY <1>1, CreateCameraAnswers
<1>5. \A c : Answers("delete_camera", p, delete_camera(db, p, c),
              delete_camera(Shown(p), Asking("delete_camera", p), c))
  BY <1>1, DeleteCameraAnswers
<1> QED BY <1>4, <1>5 DEF CameraRequests, Request, Served

(* routes/zones.rs. *)
LEMMA ZonesServed ==
  ASSUME ApiInv, NEW p \in Credential, ZoneRequests(p)
  PROVE  Served(p)
<1>1. DbOk(db)
  BY DEF ApiInv, StateOk
<1>2. \A op \in
        {"list_zones", "list_zone_events", "zone_event_aggregates", "zone_occupancy"} :
        Asks(op, "EventsRead") /\ ~ Closed(op)
  BY DeclaredSays DEF Caps, EventsOps, FleetOps
<1>3. \A op \in {"create_zone", "update_zone", "delete_zone"} : Asks(op, "RegistryManage") /\ ~ Closed(op)
  BY DeclaredSays DEF Caps, RegistryOps, FleetOps
<1>4. \A c : Answers("list_zones", p, list_zones(db, p, c), list_zones(Shown(p), Asking("list_zones", p), c))
  BY <1>1, <1>2, EventsAnswers, CameraWrites, GiveWrites, ValidWrites DEF list_zones
<1>5. \A c, ok : Answers("list_zone_events", p, list_zone_events(db, p, c, ok),
              list_zone_events(Shown(p), Asking("list_zone_events", p), c, ok))
  BY <1>1, <1>2, EventsAnswers, CameraWrites, GiveWrites, ValidWrites DEF list_zone_events
<1>6. \A c, ok : Answers("zone_event_aggregates", p, zone_event_aggregates(db, p, c, ok),
              zone_event_aggregates(Shown(p), Asking("zone_event_aggregates", p), c, ok))
  BY <1>1, <1>2, EventsAnswers, CameraWrites, GiveWrites, ValidWrites DEF zone_event_aggregates
<1>7. \A c : Answers("zone_occupancy", p, zone_occupancy(db, p, c),
              zone_occupancy(Shown(p), Asking("zone_occupancy", p), c))
  BY <1>1, <1>2, EventsAnswers, CameraWrites, GiveWrites, ValidWrites DEF zone_occupancy
<1>8. \A c, n, ok : \A i \in Unused : Answers("create_zone", p, create_zone(db, p, c, n, i, ok),
              create_zone(Shown(p), Asking("create_zone", p), c, n, i, ok))
  <2> SUFFICES ASSUME NEW c, NEW n, NEW i \in Unused, NEW ok
               PROVE  Answers("create_zone", p, create_zone(db, p, c, n, i, ok),
                              create_zone(Shown(p), Asking("create_zone", p), c, n, i, ok))
    OBVIOUS
  <2> QED BY <1>1, <1>3, CapAnswers, CameraGood, ValidGood, GiveGood, CreateOne, ShownOfCamera DEF create_zone, OneCamera
<1>9. \A i, n, ok : Answers("update_zone", p, update_zone(db, p, i, n, ok),
              update_zone(Shown(p), Asking("update_zone", p), i, n, ok))
  <2> SUFFICES ASSUME NEW i, NEW n, NEW ok
               PROVE  Answers("update_zone", p, update_zone(db, p, i, n, ok),
                              update_zone(Shown(p), Asking("update_zone", p), i, n, ok))
    OBVIOUS
  <2> DEFINE N(S) == {[r EXCEPT !.v = 1, !.ref = n] : r \in S}
             x(S) == Do(200, N(S), SetToSeq(Upds(N(S), Whole)))
             R == Get(db, "zones", i)
             Q == Get(Shown(p), "zones", i)
  <2>1. ASSUME \E r \in R : Holds(p, r) PROVE Good("update_zone", p, Valid(ok, x(R)), Valid(ok, x(Q)))
    <3>1. Amends(N(R), R)
      <4>1. IsFiniteSet(R) /\ \A r \in R : RowOk(r)
        BY <1>1, GetRows
      <4> DEFINE f == [r \in R |-> [r EXCEPT !.v = 1, !.ref = n]]
      <4>2. N(R) = {f[r] : r \in R}
        OBVIOUS
      <4>3. \A r \in R : f[r] = Row(r.t, r.id, r.cams, n, 1)
        <5> HIDE DEF R
        <5>1. \A r \in R : f[r] = [r EXCEPT !.v = 1, !.ref = n]
          OBVIOUS
        <5>2. \A r \in R : [r EXCEPT !.v = 1, !.ref = n] = Row(r.t, r.id, r.cams, n, 1)
          BY <4>1, RowIs, AmendedBoth
        <5> QED BY <5>1, <5>2
      <4> HIDE DEF N, R, Q, x, f
      <4>4. \A r \in R : f[r].ref = n /\ f[r].v = 1
        <5> TAKE r \in R
        <5>1. f[r] = Row(r.t, r.id, r.cams, n, 1)
          BY <4>3
        <5> QED BY <5>1 DEF Row
      <4>5. Amends({f[r] : r \in R}, R)
        BY <4>1, <4>3, <4>4, AmendsBy
      <4> QED BY <4>2, <4>5
    <3>2. Q = R /\ Good("update_zone", p, x(R), x(R))
      <4> HIDE DEF N
      <4> QED BY <1>1, <1>3, <2>1, <3>1, AmendGood DEF Plain, Issued
    <3> HIDE DEF x, R, Q
    <3> QED BY <3>2, ValidGood
  <2>2. /\ update_zone(db, p, i, n, ok)
             = NeedCap(p, "RegistryManage", resource_camera(db, p, "zones", i, Valid(ok, x(R))))
        /\ update_zone(Shown(p), Asking("update_zone", p), i, n, ok)
             = NeedCap(Asking("update_zone", p), "RegistryManage",
                       resource_camera(Shown(p), Asking("update_zone", p), "zones", i, Valid(ok, x(Q))))
    BY DEF update_zone, Each, Upds
  <2> HIDE DEF x, Q
  <2> QED BY <1>1, <1>3, <2>1, <2>2, CapAnswers, ResourceGood
<1>10. \A i : Answers("delete_zone", p, delete_zone(db, p, i), delete_zone(Shown(p), Asking("delete_zone", p), i))
  BY <1>1, <1>3, CapAnswers, ResourceGood, EraseGood DEF delete_zone, Issued
<1> QED BY <1>4, <1>5, <1>6, <1>7, <1>8, <1>9, <1>10, CameraServed DEF ZoneRequests, Request, Served

(* routes/schedules.rs. *)
LEMMA SchedulesServed ==
  ASSUME ApiInv, NEW p \in Credential, ScheduleRequests(p)
  PROVE  Served(p)
<1>1. DbOk(db)
  BY DEF ApiInv, StateOk
<1>2. \A op \in {"list_schedules"} : Asks(op, "CameraRead") /\ ~ Closed(op)
  BY DeclaredSays DEF Caps, CameraReadOps, FleetOps
<1>3. \A op \in
        {"create_schedule", "update_schedule", "delete_schedule"} :
        Asks(op, "RegistryManage") /\ ~ Closed(op)
  BY DeclaredSays DEF Caps, RegistryOps, FleetOps
<1>4. \A c : Answers("list_schedules", p, list_schedules(db, p, c),
              list_schedules(Shown(p), Asking("list_schedules", p), c))
  BY <1>1, <1>2, CapAnswers, CameraGood, GiveGood, ShownOfCamera DEF list_schedules, OneCamera
<1>5. \A c, ok : \A i \in Unused : Answers("create_schedule", p, create_schedule(db, p, c, i, ok),
              create_schedule(Shown(p), Asking("create_schedule", p), c, i, ok))
  BY <1>1, <1>3, CapAnswers, CameraGood, ValidGood, CreateOne DEF create_schedule, OneCamera
<1>6. \A i, ok : Answers("update_schedule", p, update_schedule(db, p, i, ok),
              update_schedule(Shown(p), Asking("update_schedule", p), i, ok))
  BY <1>1, <1>3, CapAnswers, ResourceGood, ValidGood, PatchGood DEF update_schedule, Plain, Issued
<1>7. \A i : Answers("delete_schedule", p, delete_schedule(db, p, i),
              delete_schedule(Shown(p), Asking("delete_schedule", p), i))
  BY <1>1, <1>3, CapAnswers, ResourceGood, EraseGood DEF delete_schedule, Issued
<1> QED BY <1>4, <1>5, <1>6, <1>7, CameraServed DEF ScheduleRequests, Request, Served

(* routes/snapshot_schedules.rs. *)
LEMMA SnapshotsServed ==
  ASSUME ApiInv, NEW p \in Credential, SnapshotRequests(p)
  PROVE  Served(p)
<1>1. DbOk(db)
  BY DEF ApiInv, StateOk
<1>2. \A op \in {"list_snapshot_schedules"} : Asks(op, "CameraRead") /\ ~ Closed(op)
  BY DeclaredSays DEF Caps, CameraReadOps, FleetOps
<1>3. \A op \in {"list_snapshots"} : Asks(op, "VideoPlayback") /\ ~ Closed(op)
  BY DeclaredSays DEF Caps, PlaybackOps, FleetOps
<1>4. \A op \in
        {"create_snapshot_schedule", "update_snapshot_schedule", "delete_snapshot_schedule"} :
        Asks(op, "RegistryManage") /\ ~ Closed(op)
  BY DeclaredSays DEF Caps, RegistryOps, FleetOps
<1>5. \A c : Answers("list_snapshot_schedules", p, list_snapshot_schedules(db, p, c),
              list_snapshot_schedules(Shown(p), Asking("list_snapshot_schedules", p), c))
  BY <1>1, <1>2, CapAnswers, CameraGood, GiveGood, ShownOfCamera DEF list_snapshot_schedules, OneCamera
<1>6. \A c, ok : Answers("list_snapshots", p, list_snapshots(db, p, c, ok),
              list_snapshots(Shown(p), Asking("list_snapshots", p), c, ok))
  BY <1>1, <1>3, CapAnswers, CameraGood, GiveGood, ShownOfCamera, ValidGood DEF list_snapshots, OneCamera
<1>7. \A c : \A i \in Unused : Answers("create_snapshot_schedule", p, create_snapshot_schedule(db, p, c, i),
              create_snapshot_schedule(Shown(p), Asking("create_snapshot_schedule", p), c, i))
  BY <1>1, <1>4, CapAnswers, CameraGood, CreateOne DEF create_snapshot_schedule, OneCamera
<1>8. \A i : Answers("update_snapshot_schedule", p, update_snapshot_schedule(db, p, i),
              update_snapshot_schedule(Shown(p), Asking("update_snapshot_schedule", p), i))
  BY <1>1, <1>4, CapAnswers, ResourceGood, PatchGood DEF update_snapshot_schedule, Plain, Issued
<1>9. \A i : Answers("delete_snapshot_schedule", p, delete_snapshot_schedule(db, p, i),
              delete_snapshot_schedule(Shown(p), Asking("delete_snapshot_schedule", p), i))
  BY <1>1, <1>4, CapAnswers, ResourceGood, EraseGood DEF delete_snapshot_schedule, Issued
<1> QED BY <1>5, <1>6, <1>7, <1>8, <1>9, CameraServed DEF SnapshotRequests, Request, Served

LEMMA MovesPass ==
  ASSUME DbOk(db), NEW p \in Credential, NEW op, op # "delete_site", Asks(op, "GateOperate"),
         NEW i, NEW n \in Unused, NEW from, "revoked" \notin from, NEW to
  PROVE  Answers(op, p, MovePass(db, p, i, n, from, to), MovePass(Shown(p), Asking(op, p), i, n, from, to))
<1> DEFINE R == Get(db, "visitor_passes", i)
           cur == CHOOSE r \in R : TRUE
           new == [cur EXCEPT !.ref = to]
           x == Valid(cur.ref \in from, Do(200, {new}, <<Upd(new, {"ref"}), record_manual_entry(n)>>))
<1>1. ASSUME ~ Scoped(p), R # {}, cur.ref \in from PROVE WritesOk(op, p, <<Upd(new, {"ref"}), record_manual_entry(n)>>)
  <2>1. cur \in R /\ cur = Row(cur.t, cur.id, cur.cams, cur.ref, cur.v)
    BY <1>1, GetRows, RowIs
  <2> HIDE DEF cur, R
  <2>2. new = Row(cur.t, cur.id, cur.cams, to, cur.v)
    BY <2>1, AmendedRef
  <2> HIDE DEF new
  <2>3. WriteNow(op, p, Upd(new, {"ref"})) /\ new.t = "visitor_passes"
    <3>1. cur.ref # "revoked"
      BY <1>1
    <3>2. WriteNow(op, p, Upd(Row(cur.t, cur.id, cur.cams, to, cur.v), {"ref"}))
      BY <1>1, <2>1, <3>1, PassNow DEF R
    <3>3. cur.t = "visitor_passes"
      BY <2>1 DEF R, Get
    <3> QED BY <2>2, <3>2, <3>3, RowFields
  <2> DEFINE e == Row("entry_events", n, {}, "confirmed", 0)
  <2>4. e = [t |-> e.t, id |-> e.id, cams |-> e.cams, ref |-> e.ref, v |-> e.v] /\ e.t = "entry_events" /\ e.id = n
    BY DEF Row
  <2> HIDE DEF e
  <2>5. RowOk(e)
    BY <2>4 DEF RowOk, OwnTable, FleetTable, OneCamera
  <2>6. WriteNow(op, p, Ins(e))
    BY <1>1, <2>4, <2>5, InsNow
  <2>7. Fit(Upd(new, {"ref"}).row, Ins(e).row) /\ Fit(Ins(e).row, Upd(new, {"ref"}).row)
    BY <2>3, <2>4, WriteFields DEF Fit
  <2>8. WritesOk(op, p, <<Upd(new, {"ref"}), Ins(e)>>)
    BY <2>3, <2>6, <2>7, TwoWrites
  <2> QED BY <2>8 DEF record_manual_entry, e
<1>2. ~ Scoped(p) => WritesOk(op, p, Found(R, x).eff)
  <2> DEFINE e == <<Upd(new, {"ref"}), record_manual_entry(n)>>
             y == Do(200, {new}, e)
             ok == cur.ref \in from
  <2> SUFFICES ASSUME ~ Scoped(p), R # {} PROVE WritesOk(op, p, Valid(ok, y).eff)
    BY FoundWrites
  <2>1. ok => WritesOk(op, p, e)
    BY <1>1
  <2> HIDE DEF e
  <2>2. ok => WritesOk(op, p, y.eff)
    BY <2>1, DoWrites
  <2> HIDE DEF y, ok
  <2> QED BY <2>2, ValidWrites
<1>3. MovePass(db, p, i, n, from, to) = NeedCap(p, "GateOperate", require_fleet_scope(p, Found(R, x)))
  BY DEF MovePass, load_pass
<1>4. PICK y : MovePass(Shown(p), Asking(op, p), i, n, from, to)
                 = NeedCap(Asking(op, p), "GateOperate", require_fleet_scope(Asking(op, p), y))
  BY DEF MovePass, load_pass
<1> HIDE DEF R, x
<1>5. Good(op, p, require_fleet_scope(p, Found(R, x)), require_fleet_scope(Asking(op, p), y))
  BY <1>2, FleetGood
<1> QED BY <1>3, <1>4, <1>5, CapAnswers

(* The registers of heldar-entry. *)
LEMMA IdentityServed ==
  ASSUME ApiInv, NEW p \in Credential, IdentityRequests(p)
  PROVE  Served(p)
<1>1. DbOk(db)
  BY DEF ApiInv, StateOk
<1>2. \A op \in {"list_vehicles", "list_watchlist", "get_vehicle"} : Asks(op, "IdentityRead") /\ ~ Closed(op)
  BY DeclaredSays DEF Caps, IdentityOps, FleetOps
<1>3. \A op \in
        {"create_vehicle", "update_vehicle", "delete_vehicle", "create_watch", "update_watch", "delete_watch"} :
        Asks(op, "RegistryManage")
  BY DeclaredSays DEF Caps, RegistryOps
<1>4. Answers("list_vehicles", p, list_vehicles(db, p), list_vehicles(Shown(p), Asking("list_vehicles", p)))
  BY <1>1, <1>2, EventsAnswers, GiveWrites DEF list_vehicles, ListRegistry
<1>5. Answers("list_watchlist", p, list_watchlist(db, p), list_watchlist(Shown(p), Asking("list_watchlist", p)))
  BY <1>1, <1>2, EventsAnswers, GiveWrites DEF list_watchlist, ListRegistry
<1>6. \A i : Answers("get_vehicle", p, get_vehicle(db, p, i), get_vehicle(Shown(p), Asking("get_vehicle", p), i))
  BY <1>1, <1>2, EventsAnswers, FoundWrites, GiveWrites DEF get_vehicle, GetRegistered
<1>7. \A ok : \A i \in Unused : Answers("create_vehicle", p, create_vehicle(db, p, i, ok),
              create_vehicle(Shown(p), Asking("create_vehicle", p), i, ok))
  BY <1>1, <1>3, CapAnswers, FleetGood, ValidWrites, CreateFleet DEF create_vehicle, AddRegistered, FleetTable
<1>8. \A i, ok : Answers("update_vehicle", p, update_vehicle(db, p, i, ok),
              update_vehicle(Shown(p), Asking("update_vehicle", p), i, ok))
  BY <1>1, <1>3, CapAnswers, FleetGood, FoundWrites, ValidWrites, PatchWrites
  DEF update_vehicle, AmendRegistered, Plain
<1>9. \A i : Answers("delete_vehicle", p, delete_vehicle(db, p, i),
              delete_vehicle(Shown(p), Asking("delete_vehicle", p), i))
  BY <1>1, <1>3, CapAnswers, FleetGood, EraseWrites DEF delete_vehicle, DropRegistered
<1>10. \A ok : \A i \in Unused : Answers("create_watch", p, create_watch(db, p, i, ok),
              create_watch(Shown(p), Asking("create_watch", p), i, ok))
  BY <1>1, <1>3, CapAnswers, FleetGood, ValidWrites, CreateFleet DEF create_watch, AddRegistered, FleetTable
<1>11. \A i, ok : Answers("update_watch", p, update_watch(db, p, i, ok),
              update_watch(Shown(p), Asking("update_watch", p), i, ok))
  BY <1>1, <1>3, CapAnswers, FleetGood, FoundWrites, ValidWrites, PatchWrites DEF update_watch, AmendRegistered, Plain
<1>12. \A i : Answers("delete_watch", p, delete_watch(db, p, i), delete_watch(Shown(p), Asking("delete_watch", p), i))
  BY <1>1, <1>3, CapAnswers, FleetGood, EraseWrites DEF delete_watch, DropRegistered
<1> QED BY <1>4, <1>5, <1>6, <1>7, <1>8, <1>9, <1>10, <1>11, <1>12
       DEF IdentityRequests, Request, Served

(* Visitor passes. *)
LEMMA PassesServed ==
  ASSUME ApiInv, NEW p \in Credential, PassRequests(p)
  PROVE  Served(p)
<1>1. DbOk(db)
  BY DEF ApiInv, StateOk
<1>2. \A op \in {"list_passes", "get_pass"} : Asks(op, "IdentityRead") /\ ~ Closed(op)
  BY DeclaredSays DEF Caps, IdentityOps, FleetOps
<1>3. \A op \in {"create_pass", "update_pass", "checkin_pass", "checkout_pass"} : Asks(op, "GateOperate")
  BY DeclaredSays DEF Caps, GateOps
<1>4. \A op \in {"delete_pass"} : Asks(op, "RegistryManage")
  BY DeclaredSays DEF Caps, RegistryOps
<1>5. Answers("list_passes", p, list_passes(db, p), list_passes(Shown(p), Asking("list_passes", p)))
  BY <1>1, <1>2, EventsAnswers, GiveWrites DEF list_passes, ListRegistry
<1>6. \A i : Answers("get_pass", p, get_pass(db, p, i), get_pass(Shown(p), Asking("get_pass", p), i))
  BY <1>1, <1>2, EventsAnswers, FoundWrites, GiveWrites DEF get_pass, GetRegistered
<1>7. \A ok : \A i \in Unused : Answers("create_pass", p, create_pass(db, p, i, ok),
              create_pass(Shown(p), Asking("create_pass", p), i, ok))
  BY <1>1, <1>3, CapAnswers, FleetGood, ValidWrites, CreateFleet DEF create_pass, AddRegistered, FleetTable
<1>8. \A i : Answers("delete_pass", p, delete_pass(db, p, i), delete_pass(Shown(p), Asking("delete_pass", p), i))
  BY <1>1, <1>4, CapAnswers, FleetGood, EraseWrites DEF delete_pass, DropRegistered
<1>9. \A i, status, ok : Answers("update_pass", p, update_pass(db, p, i, status, ok),
              update_pass(Shown(p), Asking("update_pass", p), i, status, ok))
  <2> SUFFICES ASSUME NEW i, NEW status, NEW ok
               PROVE  Answers("update_pass", p, update_pass(db, p, i, status, ok),
                              update_pass(Shown(p), Asking("update_pass", p), i, status, ok))
    OBVIOUS
  <2> DEFINE R == Get(db, "visitor_passes", i)
             cur == CHOOSE r \in R : TRUE
             new == [cur EXCEPT !.v = 1, !.ref = IF status = "keep" THEN @ ELSE status]
             save == Valid(ok, Do(200, {new}, <<Upd(new, Whole)>>))
             x == IF cur.ref = "revoked" /\ new.ref # "revoked" THEN NeedCap(p, "RegistryManage", save) ELSE save
  <2>1. ASSUME ~ Scoped(p), R # {} PROVE WritesOk("update_pass", p, x.eff)
    <3>1. cur \in R /\ cur = Row(cur.t, cur.id, cur.cams, cur.ref, cur.v)
      BY <1>1, <2>1, GetRows, RowIs
    <3> DEFINE st == IF status = "keep" THEN cur.ref ELSE status
    <3>2. new = [cur EXCEPT !.v = 1, !.ref = st]
      BY <3>1 DEF Row
    <3> HIDE DEF cur, R, st
    <3>3. new = Row(cur.t, cur.id, cur.cams, st, 1)
      BY <3>1, <3>2, AmendedBoth
    <3> HIDE DEF new
    <3>4. new.ref = st
      BY <3>3, RowFields
    <3>5. ASSUME Has(p, "RegistryManage") \/ cur.ref # "revoked" \/ new.ref = "revoked"
          PROVE  WritesOk("update_pass", p, save.eff)
      <4>1. WriteNow("update_pass", p, Upd(new, Whole))
        BY <1>1, <2>1, <3>1, <3>3, <3>4, <3>5, PassNow DEF R
      <4> QED BY <4>1, OneWrite, DoWrites, ValidWrites, ZenonT(60)
    <3> HIDE DEF save
    <3> QED BY <3>5, CapWrites
  <2>2. WritesOk("update_pass", p, require_fleet_scope(p, Found(R, x)).eff)
    <3> HIDE DEF x, R
    <3> QED BY <2>1, FoundWrites, FleetWrites
  <2>3. update_pass(db, p, i, status, ok) = NeedCap(p, "GateOperate", require_fleet_scope(p, Found(R, x)))
    BY DEF update_pass, load_pass
  <2>4. \E y : update_pass(Shown(p), Asking("update_pass", p), i, status, ok)
                 = NeedCap(Asking("update_pass", p), "GateOperate", require_fleet_scope(Asking("update_pass", p), y))
    BY DEF update_pass, load_pass
  <2>5. PICK y : update_pass(Shown(p), Asking("update_pass", p), i, status, ok)
                   = NeedCap(Asking("update_pass", p), "GateOperate", require_fleet_scope(Asking("update_pass", p), y))
    BY <2>4
  <2>6. Good("update_pass", p, require_fleet_scope(p, Found(R, x)), require_fleet_scope(Asking("update_pass", p), y))
    <3> HIDE DEF x, R
    <3>1. ~ Scoped(p) => WritesOk("update_pass", p, Found(R, x).eff)
      BY <2>1, FoundWrites
    <3> QED BY <3>1, FleetGood
  <2> HIDE DEF x, R
  <2> QED BY <1>3, <2>3, <2>5, <2>6, CapAnswers
<1>10. \A i : \A n \in Unused : Answers("checkin_pass", p, checkin_pass(db, p, i, n),
              checkin_pass(Shown(p), Asking("checkin_pass", p), i, n))
  BY <1>1, <1>3, MovesPass DEF checkin_pass
<1>11. \A i : \A n \in Unused : Answers("checkout_pass", p, checkout_pass(db, p, i, n),
              checkout_pass(Shown(p), Asking("checkout_pass", p), i, n))
  BY <1>1, <1>3, MovesPass DEF checkout_pass
<1> QED BY <1>5, <1>6, <1>7, <1>8, <1>9, <1>10, <1>11 DEF PassRequests, Request, Served

(* Webhook subscriptions. *)
LEMMA WebhooksServed ==
  ASSUME ApiInv, NEW p \in Credential, WebhookRequests(p)
  PROVE  Served(p)
<1>1. DbOk(db)
  BY DEF ApiInv, StateOk
<1>2. \A op \in {"list_webhooks", "event_types", "list_deliveries"} : Asks(op, "EventsRead") /\ ~ Closed(op)
  BY DeclaredSays DEF Caps, EventsOps, FleetOps
<1>3. \A op \in
        {"create_webhook", "update_webhook", "delete_webhook", "test_webhook"} :
        Asks(op, "RegistryManage")
  BY DeclaredSays DEF Caps, RegistryOps
<1>4. Answers("list_webhooks", p, ListWebhooks(db, p), ListWebhooks(Shown(p), Asking("list_webhooks", p)))
  BY <1>1, <1>2, EventsAnswers, GiveWrites DEF ListWebhooks
<1>5. Answers("event_types", p, event_types(db, p), event_types(Shown(p), Asking("event_types", p)))
  BY <1>1, <1>2, EventsAnswers, GiveWrites DEF event_types
<1>6. \A ok : \A i \in Unused : Answers("create_webhook", p, CreateWebhook(db, p, i, ok),
              CreateWebhook(Shown(p), Asking("create_webhook", p), i, ok))
  BY <1>1, <1>3, CapAnswers, FleetGood, ValidWrites, CreateFleet DEF CreateWebhook, FleetTable
<1>7. \A i, ok : Answers("update_webhook", p, UpdateWebhook(db, p, i, ok),
              UpdateWebhook(Shown(p), Asking("update_webhook", p), i, ok))
  BY <1>1, <1>3, CapAnswers, FleetGood, FoundWrites, ValidWrites, PatchWrites DEF UpdateWebhook, Plain
<1>8. \A i : Answers("delete_webhook", p, DeleteWebhook(db, p, i),
              DeleteWebhook(Shown(p), Asking("delete_webhook", p), i))
  BY <1>1, <1>3, CapAnswers, FleetGood, EraseWrites DEF DeleteWebhook
<1>9. \A i : Answers("list_deliveries", p, list_deliveries(db, p, i),
              list_deliveries(Shown(p), Asking("list_deliveries", p), i))
  BY <1>1, <1>2, EventsAnswers, FoundWrites, GiveWrites DEF list_deliveries
<1>10. \A i : \A n \in Unused : Answers("test_webhook", p, TestWebhook(db, p, i, n),
              TestWebhook(Shown(p), Asking("test_webhook", p), i, n))
  BY <1>1, <1>3, CapAnswers, FleetGood, FoundWrites, DoWrites, InsFleet, ZenonT(60) DEF TestWebhook, FleetTable
<1> QED BY <1>4, <1>5, <1>6, <1>7, <1>8, <1>9, <1>10 DEF WebhookRequests, Request, Served

LEMMA SettingRead ==
  ASSUME NEW p \in Credential, NEW op, Asks(op, "SystemRead"), ~ Closed(op), NEW s
  PROVE  Answers(op, p, ReadSetting(db, p, s), ReadSetting(Shown(p), Asking(op, p), s))
<1>1. Get(Shown(p), "settings", s) = Get(db, "settings", s)
  BY ShownOpen DEF Open
<1>2. Good(op, p, Give(Get(db, "settings", s)), Give(Get(Shown(p), "settings", s)))
  BY <1>1, GiveGood
<1> QED BY <1>2, CapAnswers DEF ReadSetting

LEMMA SettingPut ==
  ASSUME DbOk(db), NEW p \in Credential, NEW op, op # "delete_site", Asks(op, "Admin"), NEW s, NEW ok
  PROVE  Answers(op, p, PutSetting(db, p, s, ok), PutSetting(Shown(p), Asking(op, p), s, ok))
<1> DEFINE x == Valid(ok, Do(200, {Setting(s)}, <<Put(Setting(s))>>))
<1>1. ~ Scoped(p) => WritesOk(op, p, x.eff)
  BY SettingWrites, ValidWrites, ZenonT(60)
<1> HIDE DEF x
<1>2. ~ Scoped(p) => WritesOk(op, p, require_fleet_scope(p, x).eff)
  BY <1>1, FleetWrites
<1>3. /\ PutSetting(db, p, s, ok) = NeedAdmin(p, require_fleet_scope(p, x))
      /\ PutSetting(Shown(p), Asking(op, p), s, ok) = NeedAdmin(Asking(op, p), require_fleet_scope(Asking(op, p), x))
  BY DEF PutSetting, x
<1> QED BY <1>2, <1>3, AdminAnswers

(* Settings and the box. *)
LEMMA SettingsServed ==
  ASSUME ApiInv, NEW p \in Credential, SettingRequests(p)
  PROVE  Served(p)
<1>1. DbOk(db)
  BY DEF ApiInv, StateOk
<1>2. \A op \in
        {"get_timezone", "get_retention", "get_transcode", "system_info", "site_info"} :
        Asks(op, "SystemRead") /\ ~ Closed(op)
  BY DeclaredSays DEF Caps, SystemOps, FleetOps
<1>3. \A op \in {"get_db_status"} : Asks(op, "SystemRead")
  BY DeclaredSays DEF Caps, SystemOps
<1>4. \A op \in
        {"post_db_convert", "get_posture", "get_provenance_readiness", "list_outbox", "put_timezone", "put_transcode",
         "put_retention", "put_db_limit"} :
        Asks(op, "Admin")
  BY DeclaredSays DEF Caps, AdminOps
<1>5. \A op \in {"metrics"} : Asks(op, "SystemRead") /\ ~ Closed(op)
  BY DeclaredSays DEF Caps, Undocumented, FleetOps
<1>6. Answers("get_timezone", p, get_timezone(db, p), get_timezone(Shown(p), Asking("get_timezone", p)))
  BY <1>1, <1>2, SettingRead DEF get_timezone
<1>7. Answers("get_retention", p, get_retention(db, p), get_retention(Shown(p), Asking("get_retention", p)))
  BY <1>1, <1>2, SettingRead DEF get_retention
<1>8. Answers("get_transcode", p, get_transcode(db, p), get_transcode(Shown(p), Asking("get_transcode", p)))
  BY <1>1, <1>2, SettingRead DEF get_transcode
<1>9. Answers("get_db_status", p, get_db_status(db, p), get_db_status(Shown(p), Asking("get_db_status", p)))
  BY <1>1, <1>3, CapAnswers, FleetGood, GiveWrites DEF get_db_status
<1>10. Answers("post_db_convert", p, post_db_convert(db, p), post_db_convert(Shown(p), Asking("post_db_convert", p)))
  BY <1>1, <1>4, SettingPut DEF post_db_convert
<1>11. Answers("system_info", p, system_info(db, p), system_info(Shown(p), Asking("system_info", p)))
  BY <1>1, <1>2, CapAnswers, GiveGood, ShownHeld, ShownOpen DEF system_info, Open
<1>12. Answers("get_posture", p, get_posture(db, p), get_posture(Shown(p), Asking("get_posture", p)))
  BY <1>1, <1>4, AdminAnswers, FleetWrites, GiveWrites DEF get_posture
<1>13. Answers("get_provenance_readiness", p, get_provenance_readiness(db, p),
              get_provenance_readiness(Shown(p), Asking("get_provenance_readiness", p)))
  BY <1>1, <1>4, AdminAnswers, FleetWrites, GiveWrites DEF get_provenance_readiness
<1>14. Answers("metrics", p, metrics_handler(db, p), metrics_handler(Shown(p), Asking("metrics", p)))
  BY <1>1, <1>5, CapAnswers, FleetGood, GiveWrites DEF metrics_handler
<1>15. Answers("list_outbox", p, list_outbox(db, p), list_outbox(Shown(p), Asking("list_outbox", p)))
  BY <1>1, <1>4, AdminAnswers, FleetWrites, GiveWrites DEF list_outbox
<1>16. Answers("site_info", p, site_info(db, p), site_info(Shown(p), Asking("site_info", p)))
  BY <1>1, <1>2, CapAnswers, GiveGood DEF site_info
<1>17. \A ok : Answers("put_timezone", p, put_timezone(db, p, ok),
              put_timezone(Shown(p), Asking("put_timezone", p), ok))
  BY <1>1, <1>4, SettingPut DEF put_timezone
<1>18. \A ok : Answers("put_transcode", p, put_transcode(db, p, ok),
              put_transcode(Shown(p), Asking("put_transcode", p), ok))
  BY <1>1, <1>4, SettingPut DEF put_transcode
<1>19. \A plan, dry, ok : Answers("put_retention", p, put_retention(db, p, plan, dry, ok),
              put_retention(Shown(p), Asking("put_retention", p), plan, dry, ok))
  <2> SUFFICES ASSUME NEW plan, NEW dry, NEW ok
               PROVE  Answers("put_retention", p, put_retention(db, p, plan, dry, ok),
                              put_retention(Shown(p), Asking("put_retention", p), plan, dry, ok))
    OBVIOUS
  <2> DEFINE x == Do(200, {Setting("retention")}, <<Put(Setting("retention"))>>)
             y == IF dry THEN Give(Rows(db, "segments")) ELSE IF ~ plan_check(db, plan) THEN Refuse(409) ELSE Valid(ok, x)
  <2>1. ~ Scoped(p) => WritesOk("put_retention", p, Valid(ok, x).eff)
    BY <1>1, SettingWrites, ValidWrites, ZenonT(60)
  <2> HIDE DEF x
  <2>2. ~ Scoped(p) => WritesOk("put_retention", p, y.eff)
    BY <2>1, GiveWrites, RefuseWrites
  <2>3. put_retention(db, p, plan, dry, ok) = NeedAdmin(p, require_fleet_scope(p, y))
    BY DEF put_retention, x
  <2> HIDE DEF y
  <2>4. PICK z : put_retention(Shown(p), Asking("put_retention", p), plan, dry, ok) = NeedAdmin(Asking("put_retention", p), z)
    BY DEF put_retention
  <2> QED BY <1>4, <2>2, <2>3, <2>4, AdminAnswers, FleetWrites
<1>20. \A grown, dry, ok : Answers("put_db_limit", p, put_db_limit(db, p, grown, dry, ok),
              put_db_limit(Shown(p), Asking("put_db_limit", p), grown, dry, ok))
  <2> SUFFICES ASSUME NEW grown, NEW dry, NEW ok
               PROVE  Answers("put_db_limit", p, put_db_limit(db, p, grown, dry, ok),
                              put_db_limit(Shown(p), Asking("put_db_limit", p), grown, dry, ok))
    OBVIOUS
  <2> DEFINE x == Do(200, {Setting("db_limit")}, <<Put(Setting("db_limit"))>>)
             y == IF dry THEN Give(db) ELSE IF grown THEN Refuse(409) ELSE x
  <2>1. ~ Scoped(p) => WritesOk("put_db_limit", p, x.eff)
    BY <1>1, SettingWrites
  <2> HIDE DEF x
  <2>2. ~ Scoped(p) => WritesOk("put_db_limit", p, y.eff)
    BY <2>1, GiveWrites, RefuseWrites
  <2>3. put_db_limit(db, p, grown, dry, ok) = NeedAdmin(p, require_fleet_scope(p, Valid(ok, y)))
    BY DEF put_db_limit, x
  <2> HIDE DEF y
  <2>4. PICK z : put_db_limit(Shown(p), Asking("put_db_limit", p), grown, dry, ok) = NeedAdmin(Asking("put_db_limit", p), z)
    BY DEF put_db_limit
  <2> QED BY <1>4, <2>2, <2>3, <2>4, AdminAnswers, FleetWrites, ValidWrites
<1> QED BY <1>6, <1>7, <1>8, <1>9, <1>10, <1>11, <1>12, <1>13, <1>14, <1>15, <1>16, <1>17, <1>18, <1>19, <1>20
       DEF SettingRequests, Request, Served

(* Sidecar modules. *)
LEMMA ModulesServed ==
  ASSUME ApiInv, NEW p \in Credential, ModuleRequests(p)
  PROVE  Served(p)
<1>1. DbOk(db)
  BY DEF ApiInv, StateOk
<1>2. \A op \in {"list_modules", "list_registry"} : Asks(op, "SystemRead") /\ ~ Closed(op)
  BY DeclaredSays DEF Caps, SystemOps, FleetOps
<1>3. \A op \in {"refresh_registry", "register_module"} : Asks(op, "Admin")
  BY DeclaredSays DEF Caps, AdminOps
<1>4. \A op \in {"module_detail", "unregister_module"} : Asks(op, "Admin") /\ ~ Closed(op)
  BY DeclaredSays DEF Caps, AdminOps, FleetOps
<1>5. \A op \in {"forward"} : Asks(op, "ModuleProxy") /\ ~ Closed(op)
  BY DeclaredSays DEF Caps, Undocumented, FleetOps
<1>6. Answers("list_modules", p, list_modules(db, p), list_modules(Shown(p), Asking("list_modules", p)))
  BY <1>1, <1>2, CapAnswers, GiveGood, ShownOpen DEF list_modules, Open
<1>7. Answers("list_registry", p, list_registry(db, p), list_registry(Shown(p), Asking("list_registry", p)))
  BY <1>1, <1>2, CapAnswers, GiveGood, ShownOpen DEF list_registry, Open
<1>8. Answers("refresh_registry", p, refresh_registry(db, p),
              refresh_registry(Shown(p), Asking("refresh_registry", p)))
  BY <1>1, <1>3, AdminAnswers, FleetWrites, GiveWrites DEF refresh_registry
<1>9. \A m, i, ok : Answers("register_module", p, register_module(db, p, m, i, ok),
              register_module(Shown(p), Asking("register_module", p), m, i, ok))
  <2> SUFFICES ASSUME NEW m, NEW i, NEW ok
               PROVE  Answers("register_module", p, register_module(db, p, m, i, ok),
                              register_module(Shown(p), Asking("register_module", p), m, i, ok))
    OBVIOUS
  <2>1. ~ Scoped(p) => WritesOk("register_module", p, Valid(ok, Create(Row("modules", m, {}, i, 0))).eff)
    BY CreateFleet, ValidWrites DEF FleetTable
  <2> QED BY <1>3, <2>1, AdminAnswers, FleetWrites, RefuseWrites DEF register_module
<1>10. \A m : Answers("module_detail", p, module_detail(db, p, m),
              module_detail(Shown(p), Asking("module_detail", p), m))
  BY <1>1, <1>4, AdminAnswers, FleetWrites, FoundWrites, GiveWrites DEF module_detail
<1>11. \A m : Answers("unregister_module", p, unregister_module(db, p, m),
              unregister_module(Shown(p), Asking("unregister_module", p), m))
  BY <1>1, <1>4, AdminAnswers, FleetWrites, EraseWrites DEF unregister_module
<1>12. \A m : Answers("forward", p, forward(db, p, m), forward(Shown(p), Asking("forward", p), m))
  BY <1>1, <1>5, CapAnswers, FoundGood, GiveGood, ShownOpen DEF forward, Open
<1> QED BY <1>6, <1>7, <1>8, <1>9, <1>10, <1>11, <1>12 DEF ModuleRequests, Request, Served

-----------------------------------------------------------------------------
(* The routes that reach a camera.                                         *)

LEMMA ReadsDevice ==
  ASSUME DbOk(db), NEW p \in Credential, NEW op, Asks(op, "CameraRead"), ~ Closed(op), NEW c, NEW link
  PROVE  Answers(op, p, ReadDevice(db, p, c, link), ReadDevice(Shown(p), Asking(op, p), c, link))
BY CapAnswers, CameraGood, GiveGood, RefuseGood, ShownGet DEF ReadDevice, Device, OwnTable

(* What follows the write to the device: nothing, or a new probe. *)
After(op, p, after) == after = <<>> \/ \E w : after = <<w>> /\ WriteNow(op, p, w) /\ w.row.t = "capabilities"

LEMMA ProbedAfter ==
  ASSUME DbOk(db), NEW op, op # "delete_site", NEW p, NEW c, CameraAllowed(p, c)
  PROVE  After(op, p, <<Probed(c)>>) /\ WritesOk(op, p, <<Probed(c)>>)
<1> DEFINE r == Row("capabilities", c, {c}, None, 1)
<1>1. WriteNow(op, p, Put(r)) /\ r.t = "capabilities" /\ WritesOk(op, p, <<Put(r)>>)
  <2>0. r = Row("capabilities", c, {c}, None, 1)
    OBVIOUS
  <2> HIDE DEF r
  <2>1. r.t = "capabilities"
    BY <2>0, RowFields
  <2> QED BY <2>0, <2>1, OwnWrites DEF OwnTable
<1> HIDE DEF r
<1>2. Put(r).row.t = "capabilities"
  BY <1>1, WriteFields
<1>3. Probed(c) = Put(r)
  BY DEF Probed, r
<1> QED BY <1>1, <1>2, <1>3 DEF After

LEMMA SetsDevice ==
  ASSUME DbOk(db), NEW p \in Credential, NEW op, op # "delete_site", ~ Closed(op), Asks(op, "RegistryManage"),
         NEW c, NEW link \in Link, NEW after, CameraAllowed(p, c) => After(op, p, after)
  PROVE  /\ Answers(op, p, SetDevice(db, p, c, link, after), SetDevice(Shown(p), Asking(op, p), c, link, after))
         /\ Good(op, p, SetDevice(db, p, c, link, after), SetDevice(Shown(p), Asking(op, p), c, link, after))
<1> DEFINE N(R) == {Patched(r) : r \in R}
           S(R) == Upds(N(R), {"v"})
           eff(R) == SetToSeq(S(R))
           x(R) == CASE link = "up" -> Do(200, N(R), eff(R) \o after)
                     [] link = "down" -> Refuse(502)
                     [] link = "drops" -> Do(502, {}, eff(R))
           R == Get(db, "device", c)
           Q == Get(Shown(p), "device", c)
<1>1. ASSUME CameraAllowed(p, c) PROVE Good(op, p, x(R), x(Q))
  <2>1. Q = R
    BY <1>1, ShownGet DEF OwnTable
  <2>2. R \in SUBSET db /\ IsFiniteSet(R) /\ \A r \in R : RowOk(r) /\ r.t = "device" /\ Holds(p, r)
    <3>1. R \in SUBSET db /\ IsFiniteSet(R) /\ \A r \in R : RowOk(r) /\ r.t = "device" /\ r.id = c
      BY GetRows
    <3> HIDE DEF R
    <3>2. \A r \in R : r.cams = {c}
      BY <3>1 DEF RowOk, OwnTable
    <3> QED BY <1>1, <3>1, <3>2 DEF Holds, CameraAllowed
  <2>3. N(R) = {[r EXCEPT !.v = 1] : r \in R}
    BY DEF Patched
  <2> HIDE DEF R
  <2>4. Amends(N(R), R)
    BY <2>2, <2>3, AmendsV
  <2> HIDE DEF N
  <2>5. WritesIn(op, p, eff(R), S(R)) /\ WritesOk(op, p, eff(R))
    <3> HIDE DEF x, N
    <3>1. "device" \notin Plain
      BY DEF Plain
    <3>2. WritesIn(op, p, eff(R), S(R))
      BY <2>2, <2>4, <3>1, UpdWrites
    <3> QED BY <3>2 DEF WritesOk
  <2>6. \A w \in S(R) : w.row.t = "device"
    <3>1. \A n \in N(R) : n.t = "device"
      BY <2>2, <2>4, RowFields DEF Amends
    <3> QED BY <3>1, WriteFields DEF Upds
  <2> HIDE DEF S
  <2>7. WritesOk(op, p, eff(R) \o after)
    <3>1. CASE after = <<>>
      <4>1. WritesIn(op, p, <<>>, {})
        BY DEF WritesIn
      <4> QED BY <2>5, <3>1, <4>1, MoreWrites
    <3>2. ASSUME NEW w, after = <<w>>, WriteNow(op, p, w), w.row.t = "capabilities" PROVE WritesOk(op, p, eff(R) \o after)
      <4>1. WritesIn(op, p, <<w>>, {w})
        BY <3>2 DEF WritesIn, Fit
      <4>2. \A u \in S(R) : Fit(u.row, w.row) /\ Fit(w.row, u.row)
        BY <2>6, <3>2 DEF Fit
      <4> QED BY <2>5, <3>2, <4>1, <4>2, MoreWrites
    <3> QED BY <1>1, <3>1, <3>2 DEF After
  <2> HIDE DEF eff
  <2>8. /\ Good(op, p, Do(200, N(R), eff(R) \o after), Do(200, N(R), eff(R) \o after))
        /\ Good(op, p, Refuse(502), Refuse(502))
        /\ Good(op, p, Do(502, {}, eff(R)), Do(502, {}, eff(R)))
    BY <2>5, <2>7, DoGood, RefuseGood
  <2>9. Good(op, p, x(R), x(R))
    BY <2>8 DEF Link
  <2> QED BY <2>1, <2>9
<1>2. /\ SetDevice(db, p, c, link, after) = NeedCap(p, "RegistryManage", camera_for(db, p, c, x(R)))
      /\ SetDevice(Shown(p), Asking(op, p), c, link, after)
           = NeedCap(Asking(op, p), "RegistryManage", camera_for(Shown(p), Asking(op, p), c, x(Q)))
  BY DEF SetDevice, Device, Each, Upds
<1> HIDE DEF x, R, Q
<1>3. Good(op, p, camera_for(db, p, c, x(R)), camera_for(Shown(p), Asking(op, p), c, x(Q)))
  BY <1>1, CameraGood
<1> QED BY <1>2, <1>3, CapAnswers, CapGood

(* Camera control. *)
LEMMA ControlServed ==
  ASSUME ApiInv, NEW p \in Credential, ControlRequests(p)
  PROVE  Served(p)
<1>1. DbOk(db)
  BY DEF ApiInv, StateOk
<1>2. \A op \in
        {"get_day_night", "get_image", "get_line_crossing", "get_intrusion", "get_motion", "list_outputs",
         "get_capabilities"} :
        Asks(op, "CameraRead") /\ ~ Closed(op)
  BY DeclaredSays DEF Caps, CameraReadOps, FleetOps
<1>3. \A op \in
        {"put_image", "put_detection", "put_line_crossing", "put_intrusion", "put_motion", "pulse_output",
         "put_day_night", "probe_control"} :
        Asks(op, "RegistryManage") /\ ~ Closed(op)
  BY DeclaredSays DEF Caps, RegistryOps, FleetOps
<1>4. \A c, link : Answers("get_day_night", p, get_day_night(db, p, c, link),
              get_day_night(Shown(p), Asking("get_day_night", p), c, link))
  BY <1>1, <1>2, ReadsDevice DEF get_day_night
<1>5. \A c, link : Answers("get_image", p, get_image(db, p, c, link),
              get_image(Shown(p), Asking("get_image", p), c, link))
  BY <1>1, <1>2, ReadsDevice DEF get_image
<1>6. \A c, link : Answers("get_line_crossing", p, get_line_crossing(db, p, c, link),
              get_line_crossing(Shown(p), Asking("get_line_crossing", p), c, link))
  BY <1>1, <1>2, ReadsDevice DEF get_line_crossing
<1>7. \A c, link : Answers("get_intrusion", p, get_intrusion(db, p, c, link),
              get_intrusion(Shown(p), Asking("get_intrusion", p), c, link))
  BY <1>1, <1>2, ReadsDevice DEF get_intrusion
<1>8. \A c, link : Answers("get_motion", p, get_motion(db, p, c, link),
              get_motion(Shown(p), Asking("get_motion", p), c, link))
  BY <1>1, <1>2, ReadsDevice DEF get_motion
<1>9. \A c, link : Answers("list_outputs", p, list_outputs(db, p, c, link),
              list_outputs(Shown(p), Asking("list_outputs", p), c, link))
  BY <1>1, <1>2, ReadsDevice DEF list_outputs
<1>10. \A c : \A link \in Link : Answers("put_image", p, put_image(db, p, c, link),
              put_image(Shown(p), Asking("put_image", p), c, link))
  BY <1>1, <1>3, SetsDevice DEF put_image, After
<1>11. \A c : \A link \in Link : Answers("put_detection", p, put_detection(db, p, c, link),
              put_detection(Shown(p), Asking("put_detection", p), c, link))
  BY <1>1, <1>3, SetsDevice, ProbedAfter DEF put_detection
<1>12. \A c : \A link \in Link : Answers("put_line_crossing", p, put_line_crossing(db, p, c, link),
              put_line_crossing(Shown(p), Asking("put_line_crossing", p), c, link))
  BY <1>1, <1>3, SetsDevice, ProbedAfter DEF put_line_crossing
<1>13. \A c : \A link \in Link : Answers("put_intrusion", p, put_intrusion(db, p, c, link),
              put_intrusion(Shown(p), Asking("put_intrusion", p), c, link))
  BY <1>1, <1>3, SetsDevice, ProbedAfter DEF put_intrusion
<1>14. \A c : \A link \in Link : Answers("put_motion", p, put_motion(db, p, c, link),
              put_motion(Shown(p), Asking("put_motion", p), c, link))
  BY <1>1, <1>3, SetsDevice, ProbedAfter DEF put_motion
<1>15. \A c, link : Answers("pulse_output", p, pulse_output(db, p, c, link),
              pulse_output(Shown(p), Asking("pulse_output", p), c, link))
  BY <1>1, <1>3, CapAnswers, ScopeGood, FoundGood, GiveGood, RefuseGood, ShownGet DEF pulse_output, OwnTable
<1>16. \A c, ok : \A link \in Link : Answers("put_day_night", p, put_day_night(db, p, c, link, ok),
              put_day_night(Shown(p), Asking("put_day_night", p), c, link, ok))
  BY <1>1, <1>3, CapAnswers, ValidGood, SetsDevice DEF put_day_night, After
<1>17. \A c : Answers("get_capabilities", p, get_capabilities(db, p, c),
              get_capabilities(Shown(p), Asking("get_capabilities", p), c))
  BY <1>1, <1>2, CapAnswers, ScopeGood, FoundGood, GiveGood, ShownGet DEF get_capabilities, OwnTable
<1>18. \A c : Answers("probe_control", p, probe_control(db, p, c),
              probe_control(Shown(p), Asking("probe_control", p), c))
  BY <1>1, <1>3, CapAnswers, ScopeGood, FoundGood, DoGood, ProbedAfter, ShownGet DEF probe_control, OwnTable
<1> QED BY <1>4, <1>5, <1>6, <1>7, <1>8, <1>9, <1>10, <1>11, <1>12, <1>13, <1>14, <1>15, <1>16, <1>17, <1>18
       DEF ControlRequests, Request, Served

(* Camera configuration. *)
LEMMA ConfigServed ==
  ASSUME ApiInv, NEW p \in Credential, ConfigRequests(p)
  PROVE  Served(p)
<1>1. DbOk(db)
  BY DEF ApiInv, StateOk
<1>2. \A op \in
        {"get_video_list", "get_video", "get_time", "get_ntp", "get_onvif_settings", "get_osd", "get_device_info"} :
        Asks(op, "CameraRead") /\ ~ Closed(op)
  BY DeclaredSays DEF Caps, CameraReadOps, FleetOps
<1>3. \A op \in
        {"put_video", "put_time", "put_ntp", "sync_now", "put_onvif_settings", "put_osd", "ensure_onvif_user",
         "reboot", "bulk_config"} :
        Asks(op, "RegistryManage") /\ ~ Closed(op)
  BY DeclaredSays DEF Caps, RegistryOps, FleetOps
<1>4. \A c, link : Answers("get_video_list", p, get_video_list(db, p, c, link),
              get_video_list(Shown(p), Asking("get_video_list", p), c, link))
  BY <1>1, <1>2, ReadsDevice DEF get_video_list
<1>5. \A c, link : Answers("get_video", p, get_video(db, p, c, link),
              get_video(Shown(p), Asking("get_video", p), c, link))
  BY <1>1, <1>2, ReadsDevice DEF get_video
<1>6. \A c, link : Answers("get_time", p, get_time(db, p, c, link),
              get_time(Shown(p), Asking("get_time", p), c, link))
  BY <1>1, <1>2, ReadsDevice DEF get_time
<1>7. \A c, link : Answers("get_ntp", p, get_ntp(db, p, c, link), get_ntp(Shown(p), Asking("get_ntp", p), c, link))
  BY <1>1, <1>2, ReadsDevice DEF get_ntp
<1>8. \A c, link : Answers("get_onvif_settings", p, get_onvif_settings(db, p, c, link),
              get_onvif_settings(Shown(p), Asking("get_onvif_settings", p), c, link))
  BY <1>1, <1>2, ReadsDevice DEF get_onvif_settings
<1>9. \A c, link : Answers("get_osd", p, get_osd(db, p, c, link), get_osd(Shown(p), Asking("get_osd", p), c, link))
  BY <1>1, <1>2, ReadsDevice DEF get_osd
<1>10. \A c : \A link \in Link : Answers("put_video", p, put_video(db, p, c, link),
              put_video(Shown(p), Asking("put_video", p), c, link))
  BY <1>1, <1>3, SetsDevice DEF put_video, After
<1>11. \A c : \A link \in Link : Answers("put_time", p, put_time(db, p, c, link),
              put_time(Shown(p), Asking("put_time", p), c, link))
  BY <1>1, <1>3, SetsDevice DEF put_time, After
<1>12. \A c : \A link \in Link : Answers("put_ntp", p, put_ntp(db, p, c, link),
              put_ntp(Shown(p), Asking("put_ntp", p), c, link))
  BY <1>1, <1>3, SetsDevice DEF put_ntp, After
<1>13. \A c : \A link \in Link : Answers("sync_now", p, sync_now(db, p, c, link),
              sync_now(Shown(p), Asking("sync_now", p), c, link))
  BY <1>1, <1>3, SetsDevice DEF sync_now, After
<1>14. \A c : \A link \in Link : Answers("put_onvif_settings", p, put_onvif_settings(db, p, c, link),
              put_onvif_settings(Shown(p), Asking("put_onvif_settings", p), c, link))
  BY <1>1, <1>3, SetsDevice DEF put_onvif_settings, After
<1>15. \A c : \A link \in Link : Answers("put_osd", p, put_osd(db, p, c, link),
              put_osd(Shown(p), Asking("put_osd", p), c, link))
  BY <1>1, <1>3, SetsDevice DEF put_osd, After
<1>16. \A c, link : Answers("get_device_info", p, get_device_info(db, p, c, link),
              get_device_info(Shown(p), Asking("get_device_info", p), c, link))
  <2>1. \A c : CameraAllowed(p, c) => WritesOk("get_device_info", p, <<Ins(Row("camera_isapi", c, {c}, None, 0))>>)
    BY <1>1, OwnWrites DEF OwnTable
  <2> QED BY <1>1, <1>2, <2>1, CapAnswers, CameraGood, DoGood, RefuseGood, ShownGet DEF get_device_info, Device, OwnTable
<1>17. \A c, link : Answers("ensure_onvif_user", p, ensure_onvif_user(db, p, c, link),
              ensure_onvif_user(Shown(p), Asking("ensure_onvif_user", p), c, link))
  <2>1. \A c : CameraAllowed(p, c) => WritesOk("ensure_onvif_user", p, <<Put(Row("camera_isapi", c, {c}, None, 1))>>)
    BY <1>1, OwnWrites DEF OwnTable
  <2> QED BY <1>1, <1>3, <2>1, CapAnswers, CameraGood, DoGood, RefuseGood, ShownGet DEF ensure_onvif_user, OwnTable
<1>18. \A c, link, ok : Answers("reboot", p, reboot(db, p, c, link, ok),
              reboot(Shown(p), Asking("reboot", p), c, link, ok))
  <2> SUFFICES ASSUME NEW c, NEW link, NEW ok
               PROVE  Answers("reboot", p, reboot(db, p, c, link, ok),
                              reboot(Shown(p), Asking("reboot", p), c, link, ok))
    OBVIOUS
  <2> DEFINE x(d) == IF link = "up" THEN Give(Get(d, "cameras", c)) ELSE Refuse(502)
  <2>1. CameraAllowed(p, c) => Good("reboot", p, x(db), x(Shown(p)))
    <3>1. ASSUME CameraAllowed(p, c) PROVE Get(Shown(p), "cameras", c) = Get(db, "cameras", c)
      BY <1>1, <3>1, ShownGet DEF OwnTable
    <3>2. ~ Closed("reboot")
      BY <1>3
    <3>3. \A b : Good("reboot", p, Give(b), Give(b))
      BY <3>2, GiveGood
    <3>4. Good("reboot", p, Refuse(502), Refuse(502))
      BY RefuseGood
    <3> QED BY <3>1, <3>3, <3>4
  <2> HIDE DEF x
  <2>2. CameraAllowed(p, c) => Good("reboot", p, Valid(ok, x(db)), Valid(ok, x(Shown(p))))
    BY <2>1, ValidGood
  <2> QED BY <1>1, <1>3, <2>2, CapAnswers, CameraGood DEF reboot, x
<1>19. \A link : \A cs \in SUBSET Camera \cup {All} : Answers("bulk_config", p, bulk_config(db, p, cs, link),
              bulk_config(Shown(p), Asking("bulk_config", p), cs, link))
  <2> SUFFICES ASSUME NEW link, NEW cs \in SUBSET Camera \cup {All}
               PROVE  Answers("bulk_config", p, bulk_config(db, p, cs, link),
                              bulk_config(Shown(p), Asking("bulk_config", p), cs, link))
    OBVIOUS
  <2> DEFINE D(d, ids) == UNION {Device(d, c) : c \in {c \in ids : Exists(d, "cameras", c)}}
             N(R) == {Patched(r) : r \in R}
             x(R) == Do(200, N(R), IF link = "down" THEN <<>> ELSE SetToSeq(Upds(N(R), {"v"})))
             own(d, q) == {r.id : r \in {r \in Held(d, "cameras", q) : r.v = 0}}
  <2>1. ASSUME NEW ids, \A c \in ids : CameraAllowed(p, c)
        PROVE  Good("bulk_config", p, x(D(db, ids)), x(D(Shown(p), ids)))
    <3>1. D(Shown(p), ids) = D(db, ids)
      <4>1. \A c \in ids : /\ Exists(Shown(p), "cameras", c) = Exists(db, "cameras", c)
                           /\ Device(Shown(p), c) = Device(db, c)
        BY <1>1, <2>1, ShownGet DEF Exists, Device, OwnTable
      <4> QED BY <4>1
    <3> DEFINE R == D(db, ids)
    <3>2. R \in SUBSET db /\ \A r \in R : r.t = "device" /\ Holds(p, r)
      <4> SUFFICES ASSUME NEW r \in R PROVE r \in db /\ r.t = "device" /\ Holds(p, r)
        OBVIOUS
      <4>1. PICK c \in ids : r \in Get(db, "device", c)
        BY DEF Device
      <4>2. r \in db /\ r.t = "device" /\ r.id = c /\ RowOk(r)
        BY <1>1, <4>1 DEF Get, DbOk
      <4>3. r.cams = {c}
        BY <4>2 DEF RowOk, OwnTable
      <4> QED BY <2>1, <4>2, <4>3 DEF Holds, CameraAllowed
    <3> HIDE DEF D
    <3>3. IsFiniteSet(R) /\ \A r \in R : RowOk(r)
      <4>1. IsFiniteSet(db) /\ \A r \in db : RowOk(r)
        BY <1>1 DEF DbOk
      <4> HIDE DEF R
      <4>2. IsFiniteSet(R)
        BY <3>2, <4>1, FS_Subset
      <4> QED BY <3>2, <4>1, <4>2
    <3>4. N(R) = {[r EXCEPT !.v = 1] : r \in R}
      BY DEF Patched
    <3> HIDE DEF R
    <3>5. Amends(N(R), R)
      BY <3>3, <3>4, AmendsV
    <3> HIDE DEF N
    <3> DEFINE eff == SetToSeq(Upds(N(R), {"v"}))
    <3>6. "device" \notin Plain
      BY DEF Plain
    <3>7. WritesOk("bulk_config", p, eff)
      <4> HIDE DEF x, eff
      <4>1. \A r \in R : r.t = "device" /\ (Scoped(p) => Holds(p, r))
        BY <3>2
      <4>2. WritesOk("bulk_config", p, SetToSeq(Upds(N(R), {"v"})))
        BY <1>1, <3>2, <4>1, <3>5, <3>6, UpdWrites
      <4> QED BY <4>2 DEF eff
    <3> HIDE DEF eff
    <3> DEFINE z == IF link = "down" THEN <<>> ELSE eff
    <3>8. WritesOk("bulk_config", p, z)
      BY <3>7, NoWrites
    <3> HIDE DEF z
    <3>9. Good("bulk_config", p, Do(200, N(R), z), Do(200, N(R), z))
      BY <1>3, <3>8, DoGood, ZenonT(60)
    <3>10. x(R) = Do(200, N(R), z)
      BY DEF z, eff
    <3> HIDE DEF x, R
    <3>11. R = D(db, ids)
      BY DEF R
    <3> QED BY <3>1, <3>9, <3>10, <3>11
  <2>2. CASE cs = All
    <3>1. own(Shown(p), Asking("bulk_config", p)) = own(db, p)
      BY ShownHeld
    <3>2. \A c \in own(db, p) : CameraAllowed(p, c)
      <4> SUFFICES ASSUME NEW r \in Held(db, "cameras", p) PROVE CameraAllowed(p, r.id)
        OBVIOUS
      <4>1. r.cams = {r.id}
        BY <1>1 DEF Held, Rows, DbOk, RowOk, OwnTable
      <4> QED BY <4>1 DEF Held, Holds, CameraAllowed
    <3>3. Good("bulk_config", p, x(D(db, own(db, p))), x(D(Shown(p), own(Shown(p), Asking("bulk_config", p)))))
      <4> HIDE DEF x, D, own
      <4> QED BY <2>1, <3>1, <3>2
    <3>4. /\ bulk_config(db, p, cs, link) = NeedCap(p, "RegistryManage", x(D(db, own(db, p))))
          /\ bulk_config(Shown(p), Asking("bulk_config", p), cs, link)
               = NeedCap(Asking("bulk_config", p), "RegistryManage",
                         x(D(Shown(p), own(Shown(p), Asking("bulk_config", p)))))
      BY <2>2 DEF bulk_config, Each, Upds
    <3> HIDE DEF x, D, own
    <3> QED BY <1>3, <3>3, <3>4, CapAnswers
  <2>3. CASE cs # All
    <3> DEFINE y(d, q) == confine_camera_ids(q, cs, LAMBDA ids : x(D(d, ids)))
               z(d, q) == IF ~ Scoped(q) THEN x(D(d, cs))
                          ELSE IF cs = {} THEN x(D(d, q.scope))
                          ELSE IF cs \subseteq q.scope THEN x(D(d, cs)) ELSE Refuse(403)
    <3>1. /\ bulk_config(db, p, cs, link) = NeedCap(p, "RegistryManage", z(db, p))
          /\ bulk_config(Shown(p), Asking("bulk_config", p), cs, link)
               = NeedCap(Asking("bulk_config", p), "RegistryManage", z(Shown(p), Asking("bulk_config", p)))
      BY <2>3 DEF bulk_config, Each, Upds, confine_camera_ids
    <3>2. Good("bulk_config", p, z(db, p), z(Shown(p), Asking("bulk_config", p)))
      <4> HIDE DEF x, D
      <4>1. CASE Scoped(p)
        <5>1. \A c \in p.scope : CameraAllowed(p, c)
          BY DEF CameraAllowed
        <5>2. Good("bulk_config", p, x(D(db, p.scope)), x(D(Shown(p), p.scope)))
          BY <2>1, <5>1
        <5>3. cs \subseteq p.scope => Good("bulk_config", p, x(D(db, cs)), x(D(Shown(p), cs)))
          BY <2>1, <5>1
        <5>4. Good("bulk_config", p, Refuse(403), Refuse(403))
          BY RefuseGood
        <5> QED BY <4>1, <5>2, <5>3, <5>4, ScopedAsks
      <4>2. CASE ~ Scoped(p)
        <5>1. \A c \in cs : CameraAllowed(p, c)
          BY <4>2 DEF CameraAllowed
        <5>2. Good("bulk_config", p, x(D(db, cs)), x(D(Shown(p), cs)))
          BY <2>1, <5>1
        <5>3. Good("bulk_config", p, z(db, p), z(Shown(p), Asking("bulk_config", p)))
          BY <4>2, <5>2, UnscopedAsks
        <5> QED BY <5>3
      <4> QED BY <4>1, <4>2
    <3> HIDE DEF z
    <3> QED BY <1>3, <3>1, <3>2, CapAnswers
  <2> QED BY <2>2, <2>3
<1> QED BY <1>4, <1>5, <1>6, <1>7, <1>8, <1>9, <1>10, <1>11, <1>12, <1>13, <1>14, <1>15, <1>16, <1>17, <1>18, <1>19
       DEF ConfigRequests, Request, Served

(* A call to the camera's PTZ service. *)
LEMMA PtzAnswers ==
  ASSUME DbOk(db), NEW p \in Credential, NEW op, ~ Closed(op), Asks(op, "RegistryManage"), NEW c, NEW link, NEW then,
         CameraAllowed(p, c) => Good(op, p, then, then)
  PROVE  Answers(op, p, Ptz(db, p, c, link, then), Ptz(Shown(p), Asking(op, p), c, link, then))
<1> DEFINE y == IF link = "up" THEN then ELSE Refuse(502)
           D == Get(db, "camera_onvif", c)
           E == Get(Shown(p), "camera_onvif", c)
           x(d) == Found(d, Valid(\E r \in d : r.v = 1, y))
<1>1. CameraAllowed(p, c) => Good(op, p, y, y)
  BY RefuseGood
<1> HIDE DEF y
<1>2. CameraAllowed(p, c) => Good(op, p, x(D), x(E))
  <2>1. CameraAllowed(p, c) => E = D
    BY ShownGet DEF OwnTable
  <2> HIDE DEF D, E
  <2>2. CameraAllowed(p, c) => Good(op, p, Valid(\E r \in D : r.v = 1, y), Valid(\E r \in D : r.v = 1, y))
    BY <1>1, ValidGood
  <2>3. CameraAllowed(p, c) => Good(op, p, x(D), x(D))
    BY <2>2, FoundGood
  <2> QED BY <2>1, <2>3
<1> HIDE DEF x, D, E
<1>3. Good(op, p, camera_for(db, p, c, x(D)), camera_for(Shown(p), Asking(op, p), c, x(E)))
  BY <1>2, CameraGood
<1>4. /\ Ptz(db, p, c, link, then) = NeedCap(p, "RegistryManage", camera_for(db, p, c, x(D)))
      /\ Ptz(Shown(p), Asking(op, p), c, link, then)
           = NeedCap(Asking(op, p), "RegistryManage", camera_for(Shown(p), Asking(op, p), c, x(E)))
  BY DEF Ptz, x, D, E, y
<1> QED BY <1>3, <1>4, CapAnswers

(* ONVIF and discovery. *)
LEMMA OnvifServed ==
  ASSUME ApiInv, NEW p \in Credential, OnvifRequests(p)
  PROVE  Served(p)
<1>1. DbOk(db)
  BY DEF ApiInv, StateOk
<1>2. \A op \in
        {"probe_onvif", "refresh_presets", "continuous_move", "ptz_stop", "goto_preset"} :
        Asks(op, "RegistryManage") /\ ~ Closed(op)
  BY DeclaredSays DEF Caps, RegistryOps, FleetOps
<1>3. \A op \in {"get_onvif", "list_presets"} : Asks(op, "CameraRead") /\ ~ Closed(op)
  BY DeclaredSays DEF Caps, CameraReadOps, FleetOps
<1>4. \A op \in {"discover"} : Asks(op, "RegistryManage")
  BY DeclaredSays DEF Caps, RegistryOps
<1>5. \A op \in {"discover_handler"} : Asks(op, "NetScan")
  BY DeclaredSays DEF Caps
<1>6. \A c, link, ptz : Answers("probe_onvif", p, probe_onvif(db, p, c, link, ptz),
              probe_onvif(Shown(p), Asking("probe_onvif", p), c, link, ptz))
  <2> SUFFICES ASSUME NEW c, NEW link, NEW ptz
               PROVE  Answers("probe_onvif", p, probe_onvif(db, p, c, link, ptz),
                              probe_onvif(Shown(p), Asking("probe_onvif", p), c, link, ptz))
    OBVIOUS
  <2> DEFINE r == Row("camera_onvif", c, {c}, None, ptz)
             x == IF link = "up" THEN Do(200, {r}, <<Put(r)>>) ELSE Refuse(502)
  <2>0. r = Row("camera_onvif", c, {c}, None, ptz)
    OBVIOUS
  <2> HIDE DEF r
  <2>1. CameraAllowed(p, c) => WritesOk("probe_onvif", p, <<Put(r)>>)
    BY <1>1, <2>0, OwnWrites DEF OwnTable
  <2>2. CameraAllowed(p, c) => Good("probe_onvif", p, x, x)
    <3>1. ~ Closed("probe_onvif")
      BY <1>2
    <3>2. CameraAllowed(p, c) => Good("probe_onvif", p, Do(200, {r}, <<Put(r)>>), Do(200, {r}, <<Put(r)>>))
      BY <2>1, <3>1, DoGood, ZenonT(60)
    <3>3. Good("probe_onvif", p, Refuse(502), Refuse(502))
      BY RefuseGood
    <3> QED BY <3>2, <3>3
  <2> HIDE DEF x
  <2> QED BY <1>1, <1>2, <2>2, CapAnswers, CameraGood DEF probe_onvif, x, r
<1>7. \A c, link, some : Answers("refresh_presets", p, refresh_presets(db, p, c, link, some),
              refresh_presets(Shown(p), Asking("refresh_presets", p), c, link, some))
  <2> SUFFICES ASSUME NEW c, NEW link, NEW some
               PROVE  Answers("refresh_presets", p, refresh_presets(db, p, c, link, some),
                              refresh_presets(Shown(p), Asking("refresh_presets", p), c, link, some))
    OBVIOUS
  <2> DEFINE r == Row("presets", c, {c}, None, 0)
             x == IF some THEN Do(200, {r}, <<Put(r)>>) ELSE Do(200, {}, <<Del(r)>>)
  <2>0. r = Row("presets", c, {c}, None, 0)
    OBVIOUS
  <2> HIDE DEF r
  <2>1. CameraAllowed(p, c) => WritesOk("refresh_presets", p, <<Put(r)>>) /\ WritesOk("refresh_presets", p, <<Del(r)>>)
    BY <1>1, <2>0, OwnWrites DEF OwnTable
  <2>2. CameraAllowed(p, c) => Good("refresh_presets", p, x, x)
    BY <2>1, <1>2, DoGood
  <2>3. \A d, q : refresh_presets(d, q, c, link, some) = Ptz(d, q, c, link, x)
    BY DEF refresh_presets, x, r
  <2> HIDE DEF x
  <2> QED BY <1>1, <1>2, <2>2, <2>3, PtzAnswers
<1>8. \A c, link : Answers("continuous_move", p, continuous_move(db, p, c, link),
              continuous_move(Shown(p), Asking("continuous_move", p), c, link))
  BY <1>1, <1>2, PtzAnswers, GiveGood DEF continuous_move
<1>9. \A c, link : Answers("ptz_stop", p, ptz_stop(db, p, c, link),
              ptz_stop(Shown(p), Asking("ptz_stop", p), c, link))
  BY <1>1, <1>2, PtzAnswers, GiveGood DEF ptz_stop
<1>10. \A c, link : Answers("goto_preset", p, goto_preset(db, p, c, link),
              goto_preset(Shown(p), Asking("goto_preset", p), c, link))
  BY <1>1, <1>2, PtzAnswers, GiveGood DEF goto_preset
<1>11. \A c : Answers("get_onvif", p, get_onvif(db, p, c), get_onvif(Shown(p), Asking("get_onvif", p), c))
  BY <1>1, <1>3, CapAnswers, CameraGood, FoundGood, GiveGood, ShownGet DEF get_onvif, OwnTable
<1>12. \A c : Answers("list_presets", p, list_presets(db, p, c), list_presets(Shown(p), Asking("list_presets", p), c))
  BY <1>1, <1>3, CapAnswers, CameraGood, GiveGood, ShownOfCamera DEF list_presets, OneCamera, OwnTable
<1>13. Answers("discover", p, discover(db, p), discover(Shown(p), Asking("discover", p)))
  BY <1>1, <1>4, CapAnswers, FleetGood, GiveWrites DEF discover
<1>14. \A add : \A found \in SUBSET Camera : Answers("discover_handler", p, discover_handler(db, p, found, add),
              discover_handler(Shown(p), Asking("discover_handler", p), found, add))
  <2> SUFFICES ASSUME NEW found \in SUBSET Camera, NEW add
               PROVE  Answers("discover_handler", p, discover_handler(db, p, found, add),
                              discover_handler(Shown(p), Asking("discover_handler", p), found, add))
    OBVIOUS
  <2> DEFINE C == {c \in found : ~ Exists(db, "cameras", c)}
             f == [c \in C |-> Row("cameras", c, {c}, None, 0)]
             N == {Row("cameras", c, {c}, None, 0) : c \in C}
             S == {Ins(n) : n \in N}
             g == [n \in N |-> Ins(n)]
             x == Do(200, N, SetToSeq(S))
             y == IF add THEN NeedCap(p, "RegistryManage", x) ELSE Give(N)
  <2>1. IsFiniteSet(S)
    <3>1. IsFiniteSet(C)
      BY ApiAssumption, FS_Subset
    <3>2. N = {f[c] : c \in C} /\ S = {g[n] : n \in N}
      OBVIOUS
    <3> HIDE DEF C, f, S, g
    <3>3. IsFiniteSet({f[c] : c \in C})
      BY <3>1, ImageFinite
    <3> HIDE DEF N
    <3>4. IsFiniteSet({g[n] : n \in N})
      BY <3>2, <3>3, ImageFinite
    <3> QED BY <3>2, <3>4
  <2>2. ASSUME ~ Scoped(p), NEW n \in N PROVE WriteNow("discover_handler", p, Ins(n)) /\ n.t = "cameras"
    <3>1. PICK c \in C : n = Row("cameras", c, {c}, None, 0)
      OBVIOUS
    <3>2. n.t = "cameras" /\ RowOk(n)
      <4> DEFINE m == Row("cameras", c, {c}, None, 0)
      <4>1. m.t = "cameras"
        BY RowFields
      <4>2. RowOk(m)
        BY RowMade DEF OwnTable
      <4> QED BY <3>1, <4>1, <4>2
    <3>3. Sourced(n)
      BY <3>2 DEF Sourced, OwnTable
    <3> HIDE DEF N
    <3> QED BY <2>2, <3>2, <3>3, InsNow
  <2> HIDE DEF N
  <2>3. ASSUME ~ Scoped(p) PROVE \A w \in S : WriteNow("discover_handler", p, w) /\ w.row.t = "cameras"
    <3> SUFFICES ASSUME NEW w \in S PROVE WriteNow("discover_handler", p, w) /\ w.row.t = "cameras"
      OBVIOUS
    <3>1. PICK n \in N : w = Ins(n)
      OBVIOUS
    <3> QED BY <2>2, <2>3, <3>1, WriteFields
  <2> USE DEF N
  <2> HIDE DEF S
  <2>4. ~ Scoped(p) => WritesOk("discover_handler", p, SetToSeq(S))
    BY <2>1, <2>3, SetWrites
  <2>5. ~ Scoped(p) => WritesOk("discover_handler", p, y.eff)
    <3>1. ~ Scoped(p) => WritesOk("discover_handler", p, x.eff)
      BY <2>4, DoWrites
    <3> HIDE DEF x
    <3> QED BY <3>1, CapWrites, GiveWrites
  <2>6. discover_handler(db, p, found, add) = NeedCap(p, "NetScan", require_fleet_scope(p, y))
    BY DEF discover_handler, Each, x, S
  <2> HIDE DEF y
  <2>7. PICK z : discover_handler(Shown(p), Asking("discover_handler", p), found, add)
                   = NeedCap(Asking("discover_handler", p), "NetScan", require_fleet_scope(Asking("discover_handler", p), z))
    BY DEF discover_handler
  <2>8. Good("discover_handler", p, require_fleet_scope(p, y), require_fleet_scope(Asking("discover_handler", p), z))
    BY <2>5, FleetGood
  <2> QED BY <1>5, <2>6, <2>7, <2>8, CapAnswers
<1> QED BY <1>6, <1>7, <1>8, <1>9, <1>10, <1>11, <1>12, <1>13, <1>14
       DEF OnvifRequests, Request, Served

-----------------------------------------------------------------------------
(* Backup policies.                                                        *)

LEMMA PolicyMade ==
  ASSUME NEW op, op # "delete_site", ~ Closed(op), NEW p, NEW i \in Unused, NEW cs, NEW dest,
         Scoped(p) => cs # {} /\ cs \subseteq p.scope
  PROVE  Good(op, p, Create(Row("backup_policies", i, cs, dest, 0)), Create(Row("backup_policies", i, cs, dest, 0)))
<1> DEFINE r == Row("backup_policies", i, cs, dest, 0)
<1>1. r.id = i /\ r.cams = cs
  BY RowFields
<1>2. RowOk(r)
  BY RowFree DEF OwnTable, FleetTable, OneCamera
<1> HIDE DEF r
<1>3. Scoped(p) => Holds(p, r)
  BY <1>1 DEF Holds
<1>4. Good(op, p, Create(r), Create(r))
  BY <1>1, <1>2, <1>3, CreateGood
<1> QED BY <1>4 DEF r

LEMMA CreatePolicyAnswers ==
  ASSUME DbOk(db), NEW p \in Credential, NEW i \in Unused, NEW dest, NEW cs, NEW ok
  PROVE  Answers("create_policy", p, create_policy(db, p, i, dest, cs, ok),
                 create_policy(Shown(p), Asking("create_policy", p), i, dest, cs, ok))
<1> DEFINE op == "create_policy"
           x(ids) == Create(Row("backup_policies", i, ids, dest, 0))
           y(q) == Chosen(q, cs, x(cs), IF q.scope = {} THEN Refuse(403) ELSE x(q.scope), x(cs))
           D(d) == Get(d, "backup_destinations", dest)
           z(d, q) == Valid(ok, Found(D(d), y(q)))
<1>1. Asks(op, "RegistryManage") /\ ~ Closed(op)
  BY DeclaredSays DEF Caps, RegistryOps, FleetOps
<1>2. \A ids : (Scoped(p) => ids # {} /\ ids \subseteq p.scope) => Good(op, p, x(ids), x(ids))
  BY <1>1, PolicyMade
<1> HIDE DEF x
<1>3. Good(op, p, y(p), y(Asking(op, p)))
  <2>1. ~ Scoped(p) => WritesOk(op, p, x(cs).eff)
    BY <1>2 DEF Good
  <2> DEFINE o == IF p.scope = {} THEN Refuse(403) ELSE x(p.scope)
             u == IF Asking(op, p).scope = {} THEN Refuse(403) ELSE x(Asking(op, p).scope)
  <2>2. Scoped(p) => Good(op, p, o, u)
    BY <1>2, RefuseGood, ScopedAsks
  <2>3. Scoped(p) /\ cs # {} /\ cs \subseteq p.scope => Good(op, p, x(cs), x(cs))
    BY <1>2
  <2> HIDE DEF o, u
  <2>4. Good(op, p, Chosen(p, cs, x(cs), o, x(cs)), Chosen(Asking(op, p), cs, x(cs), u, x(cs)))
    BY <2>1, <2>2, <2>3, ChosenGood
  <2> QED BY <2>4 DEF o, u
<1> HIDE DEF y
<1>4. Good(op, p, z(db, p), z(Shown(p), Asking(op, p)))
  <2>1. D(Shown(p)) = D(db)
    BY ShownOpen DEF Open
  <2> HIDE DEF D
  <2>2. Good(op, p, Found(D(db), y(p)), Found(D(Shown(p)), y(Asking(op, p))))
    BY <1>3, <2>1, FoundGood
  <2> QED BY <2>2, ValidGood
<1>5. /\ create_policy(db, p, i, dest, cs, ok) = NeedCap(p, "RegistryManage", z(db, p))
      /\ create_policy(Shown(p), Asking(op, p), i, dest, cs, ok)
           = NeedCap(Asking(op, p), "RegistryManage", z(Shown(p), Asking(op, p)))
  BY DEF create_policy, stored_camera_ids, confine_camera_ids, y, x, Chosen
<1> HIDE DEF z
<1> QED BY <1>1, <1>4, <1>5, CapAnswers

LEMMA ReselectIs ==
  ASSUME NEW r, r = Row(r.t, r.id, r.cams, r.ref, r.v), NEW ids, NEW dest
  PROVE  Reselect(r, ids, dest) = Row(r.t, r.id, ids, dest, 1)
<1>1. Reselect(r, ids, dest) = [[[r EXCEPT !.cams = ids] EXCEPT !.ref = dest] EXCEPT !.v = 1]
  BY DEF Row, Reselect
<1> DEFINE s == [r EXCEPT !.cams = ids]
<1>2. s = Row(r.t, r.id, ids, r.ref, r.v)
  BY AmendedCams
<1> HIDE DEF s
<1>3. s.t = r.t /\ s.id = r.id /\ s.cams = ids /\ s.ref = r.ref /\ s.v = r.v
  BY <1>2 DEF Row
<1> DEFINE u == [s EXCEPT !.ref = dest]
<1>4. u = Row(r.t, r.id, ids, dest, r.v)
  BY <1>2, <1>3, AmendedRef
<1> HIDE DEF u
<1>5. u.t = r.t /\ u.id = r.id /\ u.cams = ids /\ u.ref = dest /\ u.v = r.v
  BY <1>4 DEF Row
<1>6. [u EXCEPT !.v = 1] = Row(r.t, r.id, ids, dest, 1)
  BY <1>4, <1>5, AmendedV
<1> QED BY <1>1, <1>6 DEF s, u

LEMMA PolicySaved ==
  ASSUME DbOk(db), NEW p \in Credential, NEW i, NEW r \in Get(db, "backup_policies", i), Holds(p, r), NEW ids, NEW dest,
         Scoped(p) => ids # {} /\ ids \subseteq p.scope, NEW n, n = Row(r.t, r.id, ids, dest, 1)
  PROVE  WritesOk("update_policy", p, <<Upd(n, Whole)>>)
<1>1. r \in db /\ r.t = "backup_policies" /\ r.id = i
  BY DEF Get
<1>2. n.t = "backup_policies" /\ n.id = i /\ n.cams = ids
  BY <1>1, RowFields
<1>3. RowOk(n)
  BY <1>1, RowFree DEF OwnTable, FleetTable, OneCamera
<1>4. Sourced(n)
  BY <1>2 DEF Sourced
<1>5. WriteOk("update_policy", p, Upd(n, Whole))
  <2>1. Scoped(p) => Holds(p, n)
    BY <1>2 DEF Holds
  <2> QED BY <1>2, <1>3, <2>1, WriteFields DEF WriteOk, OwnedRow, Reselected
<1>6. Scoped(p) => Meets(db, p, Upd(n, Whole))
  BY <1>1, <1>2, HeldAll, WriteFields DEF Meets
<1>7. Reinstates(db, Upd(n, Whole))
  BY <1>2, WriteFields DEF Reinstates
<1> QED BY <1>4, <1>5, <1>6, <1>7, WriteFields, OneWrite DEF WriteNow

(* Backup destinations. *)
LEMMA DestinationServed ==
  ASSUME ApiInv, NEW p \in Credential, DestinationRequests(p)
  PROVE  Served(p)
<1>1. DbOk(db)
  BY DEF ApiInv, StateOk
<1>2. \A op \in {"list_destinations"} : Asks(op, "SystemRead")
  BY DeclaredSays DEF Caps, SystemOps
<1>3. \A op \in
        {"create_destination", "update_destination", "delete_destination", "test_destination"} :
        Asks(op, "RegistryManage")
  BY DeclaredSays DEF Caps, RegistryOps
<1>4. \A op \in {"create_policy"} : Asks(op, "RegistryManage") /\ ~ Closed(op)
  BY DeclaredSays DEF Caps, RegistryOps, FleetOps
<1>5. Answers("list_destinations", p, list_destinations(db, p),
              list_destinations(Shown(p), Asking("list_destinations", p)))
  BY <1>1, <1>2, CapAnswers, FleetGood, GiveWrites DEF list_destinations
<1>6. \A ok : \A i \in Unused : Answers("create_destination", p, create_destination(db, p, i, ok),
              create_destination(Shown(p), Asking("create_destination", p), i, ok))
  BY <1>1, <1>3, CapAnswers, FleetGood, ValidWrites, CreateFleet DEF create_destination, FleetTable
<1>7. \A i, ok : Answers("update_destination", p, update_destination(db, p, i, ok),
              update_destination(Shown(p), Asking("update_destination", p), i, ok))
  BY <1>1, <1>3, CapAnswers, FleetGood, FoundWrites, ValidWrites, PatchWrites DEF update_destination, Plain
<1>8. \A i : Answers("delete_destination", p, delete_destination(db, p, i),
              delete_destination(Shown(p), Asking("delete_destination", p), i))
  BY <1>1, <1>3, CapAnswers, FleetGood, EraseWrites DEF delete_destination
<1>9. \A i : Answers("test_destination", p, test_destination(db, p, i),
              test_destination(Shown(p), Asking("test_destination", p), i))
  BY <1>1, <1>3, CapAnswers, FleetGood, FoundWrites, GiveWrites DEF test_destination
<1>10. \A dest : \A i \in Unused : Answers("create_policy", p, create_policy(db, p, i, dest, {}, TRUE),
              create_policy(Shown(p), Asking("create_policy", p), i, dest, {}, TRUE))
  BY <1>1, CreatePolicyAnswers
<1> QED BY <1>5, <1>6, <1>7, <1>8, <1>9, <1>10, ZenonT(60) DEF DestinationRequests, Request, Served

(* Backup policies. *)
LEMMA PolicyServed ==
  ASSUME ApiInv, NEW p \in Credential, PolicyRequests(p)
  PROVE  Served(p)
<1>1. DbOk(db)
  BY DEF ApiInv, StateOk
<1>2. \A op \in {"list_policies"} : Asks(op, "SystemRead") /\ ~ Closed(op)
  BY DeclaredSays DEF Caps, SystemOps, FleetOps
<1>3. \A op \in {"delete_destination"} : Asks(op, "RegistryManage")
  BY DeclaredSays DEF Caps, RegistryOps
<1>4. \A op \in
        {"delete_policy", "create_policy", "trigger_policy", "update_policy"} :
        Asks(op, "RegistryManage") /\ ~ Closed(op)
  BY DeclaredSays DEF Caps, RegistryOps, FleetOps
<1>5. Answers("list_policies", p, list_policies(db, p), list_policies(Shown(p), Asking("list_policies", p)))
  BY <1>1, <1>2, CapAnswers, GiveGood, ShownHeld DEF list_policies
<1>6. \A i : Answers("delete_destination", p, delete_destination(db, p, i),
              delete_destination(Shown(p), Asking("delete_destination", p), i))
  BY <1>1, <1>3, CapAnswers, FleetGood, EraseWrites DEF delete_destination
<1>7. \A i : Answers("delete_policy", p, delete_policy(db, p, i),
              delete_policy(Shown(p), Asking("delete_policy", p), i))
  BY <1>1, <1>4, CapAnswers, MineGood, EraseGood DEF delete_policy, policy_for, Issued, Reselected
<1>8. \A cs, dest, ok : \A i \in Unused : Answers("create_policy", p, create_policy(db, p, i, dest, cs, ok),
              create_policy(Shown(p), Asking("create_policy", p), i, dest, cs, ok))
  BY <1>1, CreatePolicyAnswers
<1>9. \A i : \A j \in Unused : Answers("trigger_policy", p, trigger_policy(db, p, i, j),
              trigger_policy(Shown(p), Asking("trigger_policy", p), i, j))
  <2> SUFFICES ASSUME NEW i, NEW j \in Unused
               PROVE  Answers("trigger_policy", p, trigger_policy(db, p, i, j),
                              trigger_policy(Shown(p), Asking("trigger_policy", p), i, j))
    OBVIOUS
  <2> DEFINE op == "trigger_policy"
             G(d) == Get(d, "backup_policies", i)
             cur(d) == CHOOSE r \in G(d) : TRUE
             job(q, ids) == Row("backup_jobs", j, ids, q.id, 0)
             x(q, ids) == Do(202, {job(q, ids)}, <<Ins(job(q, ids))>>)
             y(d, q) == Chosen(q, cur(d).cams, x(q, cur(d).cams), x(q, q.scope), x(q, cur(d).cams))
             mine(d, q) == Found({r \in G(d) : Holds(q, r)}, y(d, q))
  <2>1. ASSUME NEW ids, Scoped(p) => ids # {} /\ ids \subseteq p.scope PROVE Good(op, p, x(p, ids), x(p, ids))
    <3> DEFINE r == job(p, ids)
    <3>1. r.id = j /\ r.cams = ids
      BY RowFields
    <3>2. RowOk(r)
      BY RowFree DEF OwnTable, FleetTable, OneCamera
    <3> HIDE DEF job
    <3>3. Scoped(p) => Holds(p, r)
      BY <2>1, <3>1 DEF Holds
    <3>4. WritesOk(op, p, <<Ins(r)>>)
      BY <3>1, <3>2, <3>3, InsNow, OneWrite
    <3>5. ~ Closed(op)
      BY <1>4
    <3> QED BY <3>4, <3>5, DoGood, ZenonT(60)
  <2> HIDE DEF x
  <2>2. ASSUME \E r \in G(db) : Holds(p, r) PROVE Good(op, p, y(db, p), y(Shown(p), Asking(op, p)))
    <3>1. G(Shown(p)) = G(db)
      BY <1>1, <2>2, ShownOne DEF Issued
    <3>2. cur(db) \in G(db)
      BY <2>2
    <3>3. Scoped(p) => Holds(p, cur(db))
      <4>1. \A r \in G(db) : Scoped(p) => Holds(p, r)
        BY <1>1, <2>2, GetRows
      <4> QED BY <3>2, <4>1
    <3> DEFINE c == cur(db)
    <3>4. Scoped(p) => c.cams # {} /\ c.cams \subseteq p.scope
      BY <3>3 DEF Holds
    <3>5. c = cur(Shown(p))
      BY <3>1
    <3> HIDE DEF c, cur, G
    <3>6. Good(op, p, Chosen(p, c.cams, x(p, c.cams), x(p, p.scope), x(p, c.cams)),
               Chosen(Asking(op, p), c.cams, x(Asking(op, p), c.cams), x(Asking(op, p), Asking(op, p).scope),
                      x(Asking(op, p), c.cams)))
      <4>1. Good(op, p, x(p, c.cams), x(p, c.cams))
        BY <2>1, <3>4
      <4>2. Scoped(p) /\ c.cams = {} => Good(op, p, x(p, p.scope), x(Asking(op, p), Asking(op, p).scope))
        BY <3>4
      <4>3. Scoped(p) => Good(op, p, x(p, c.cams), x(Asking(op, p), c.cams))
        BY <4>1, ScopedAsks
      <4>4. WritesOk(op, p, x(p, c.cams).eff)
        BY <4>1 DEF Good
      <4> QED BY <4>2, <4>3, <4>4, ChosenGood
    <3> QED BY <3>5, <3>6 DEF c
  <2> HIDE DEF y
  <2>3. Good(op, p, mine(db, p), mine(Shown(p), Asking(op, p)))
    BY <1>1, <2>2, MineGood
  <2>4. /\ trigger_policy(db, p, i, j) = NeedCap(p, "RegistryManage", mine(db, p))
        /\ trigger_policy(Shown(p), Asking(op, p), i, j)
             = NeedCap(Asking(op, p), "RegistryManage", mine(Shown(p), Asking(op, p)))
    BY DEF trigger_policy, confine_camera_ids, policy_for, y, x, Chosen
  <2> HIDE DEF mine
  <2> QED BY <1>4, <2>3, <2>4, CapAnswers
<1>10. \A i, dest, cs : Answers("update_policy", p, update_policy(db, p, i, dest, cs),
              update_policy(Shown(p), Asking("update_policy", p), i, dest, cs))
  <2> SUFFICES ASSUME NEW i, NEW dest, NEW cs
               PROVE  Answers("update_policy", p, update_policy(db, p, i, dest, cs),
                              update_policy(Shown(p), Asking("update_policy", p), i, dest, cs))
    OBVIOUS
  <2> DEFINE op == "update_policy"
             G(d) == Get(d, "backup_policies", i)
             E(d) == Get(d, "backup_destinations", dest)
             cur(d) == CHOOSE r \in G(d) : TRUE
             x(c, ids) == Do(200, {Reselect(c, ids, dest)}, <<Upd(Reselect(c, ids, dest), Whole)>>)
             y(c, q) == Chosen(q, cs, x(c, cs), IF q.scope = {} THEN Refuse(403) ELSE x(c, q.scope), x(c, cs))
             z(d, q) == Found(E(d), IF cs = All THEN x(cur(d), cur(d).cams) ELSE y(cur(d), q))
             mine(d, q) == Found({r \in G(d) : Holds(q, r)}, z(d, q))
  <2>1. ~ Closed(op)
    BY <1>4
  <2>2. ASSUME \E r \in G(db) : Holds(p, r) PROVE Good(op, p, z(db, p), z(Shown(p), Asking(op, p)))
    <3>1. G(Shown(p)) = G(db)
      BY <1>1, <2>2, ShownOne DEF Issued
    <3> DEFINE c == cur(db)
    <3>2. c \in G(db)
      BY <2>2
    <3>3. c = cur(Shown(p))
      BY <3>1
    <3>4. RowOk(c) /\ Holds(p, c)
      <4>1. \A r \in G(db) : RowOk(r) /\ (Scoped(p) => Holds(p, r))
        BY <1>1, <2>2, GetRows
      <4> QED BY <3>2, <4>1 DEF Holds
    <3>5. E(Shown(p)) = E(db)
      BY ShownOpen DEF Open
    <3> HIDE DEF cur, c
    <3>6. ASSUME NEW ids, Scoped(p) => ids # {} /\ ids \subseteq p.scope PROVE Good(op, p, x(c, ids), x(c, ids))
      <4>1. Reselect(c, ids, dest) = Row(c.t, c.id, ids, dest, 1)
        <5>1. c = Row(c.t, c.id, c.cams, c.ref, c.v)
          BY <3>4, RowIs
        <5> QED BY <5>1, ReselectIs
      <4>2. WritesOk(op, p, <<Upd(Reselect(c, ids, dest), Whole)>>)
        BY <1>1, <3>2, <3>4, <3>6, <4>1, PolicySaved
      <4> QED BY <2>1, <4>2, DoGood, ZenonT(60)
    <3>7. Scoped(p) => c.cams # {} /\ c.cams \subseteq p.scope
      BY <3>4 DEF Holds
    <3> HIDE DEF x, E, G
    <3>8. Good(op, p, y(c, p), y(c, Asking(op, p)))
      <4> DEFINE o == IF p.scope = {} THEN Refuse(403) ELSE x(c, p.scope)
                 u == IF Asking(op, p).scope = {} THEN Refuse(403) ELSE x(c, Asking(op, p).scope)
      <4>1. ~ Scoped(p) => WritesOk(op, p, x(c, cs).eff)
        BY <3>6 DEF Good
      <4>2. Scoped(p) => Good(op, p, o, u)
        BY <3>6, RefuseGood, ScopedAsks
      <4>3. Scoped(p) /\ cs # {} /\ cs \subseteq p.scope => Good(op, p, x(c, cs), x(c, cs))
        BY <3>6
      <4> HIDE DEF o, u
      <4>4. Good(op, p, Chosen(p, cs, x(c, cs), o, x(c, cs)), Chosen(Asking(op, p), cs, x(c, cs), u, x(c, cs)))
        BY <4>1, <4>2, <4>3, ChosenGood
      <4> QED BY <4>4 DEF o, u
    <3> HIDE DEF y
    <3>9. Good(op, p, IF cs = All THEN x(c, c.cams) ELSE y(c, p), IF cs = All THEN x(c, c.cams) ELSE y(c, Asking(op, p)))
      BY <3>6, <3>7, <3>8
    <3> DEFINE a(q) == IF cs = All THEN x(c, c.cams) ELSE y(c, q)
    <3>10. Good(op, p, a(p), a(Asking(op, p)))
      BY <3>9
    <3> HIDE DEF a
    <3>11. Good(op, p, Found(E(db), a(p)), Found(E(Shown(p)), a(Asking(op, p))))
      BY <3>5, <3>10, FoundGood
    <3> QED BY <3>3, <3>11 DEF a, c
  <2> HIDE DEF z
  <2>3. Good(op, p, mine(db, p), mine(Shown(p), Asking(op, p)))
    BY <1>1, <2>2, MineGood
  <2>4. /\ update_policy(db, p, i, dest, cs) = NeedCap(p, "RegistryManage", mine(db, p))
        /\ update_policy(Shown(p), Asking(op, p), i, dest, cs)
             = NeedCap(Asking(op, p), "RegistryManage", mine(Shown(p), Asking(op, p)))
    <3>1. CASE cs = All
      BY <3>1 DEF update_policy, policy_for, z, x
    <3>2. CASE cs # All
      BY <3>2 DEF update_policy, stored_camera_ids, confine_camera_ids, policy_for, z, y, x, Chosen
    <3> QED BY <3>1, <3>2
  <2> HIDE DEF mine
  <2> QED BY <1>4, <2>3, <2>4, CapAnswers
<1> QED BY <1>5, <1>6, <1>7, <1>8, <1>9, <1>10 DEF PolicyRequests, Request, Served

(* Backup jobs and archives. *)
LEMMA ArchiveServed ==
  ASSUME ApiInv, NEW p \in Credential, ArchiveRequests(p)
  PROVE  Served(p)
<1>1. DbOk(db)
  BY DEF ApiInv, StateOk
<1>2. \A op \in {"list_jobs", "list_archive_exports", "get_job"} : Asks(op, "SystemRead") /\ ~ Closed(op)
  BY DeclaredSays DEF Caps, SystemOps, FleetOps
<1>3. \A op \in {"delete_job", "archive_export"} : Asks(op, "RegistryManage") /\ ~ Closed(op)
  BY DeclaredSays DEF Caps, RegistryOps, FleetOps
<1>4. Answers("list_jobs", p, list_jobs(db, p), list_jobs(Shown(p), Asking("list_jobs", p)))
  BY <1>1, <1>2, CapAnswers, GiveGood, ShownHeld, ScopedAsks DEF list_jobs
<1>5. Answers("list_archive_exports", p, list_archive_exports(db, p),
              list_archive_exports(Shown(p), Asking("list_archive_exports", p)))
  <2> DEFINE A(d, q) == {r \in Held(d, "backup_jobs", q) : r.v = 1}
             B(d, q) == redact_creator(q, A(d, q))
  <2>1. Scoped(p) => B(Shown(p), Asking("list_archive_exports", p)) = B(db, p)
    BY ShownHeld, ScopedAsks
  <2> HIDE DEF B
  <2>2. Good("list_archive_exports", p, Give(B(db, p)), Give(B(Shown(p), Asking("list_archive_exports", p))))
    BY <1>2, <2>1, GiveGood
  <2> QED BY <1>2, <2>2, CapAnswers DEF list_archive_exports, B
<1>6. \A i : Answers("get_job", p, get_job(db, p, i), get_job(Shown(p), Asking("get_job", p), i))
  <2> SUFFICES ASSUME NEW i
               PROVE  Answers("get_job", p, get_job(db, p, i), get_job(Shown(p), Asking("get_job", p), i))
    OBVIOUS
  <2> DEFINE B(d, q) == redact_creator(q, Get(d, "backup_jobs", i))
             C(d, q) == {r \in Get(d, "backup_jobs", i) : Holds(q, r)}
  <2>1. (\E r \in Get(db, "backup_jobs", i) : Holds(p, r)) =>
          (Scoped(p) => B(Shown(p), Asking("get_job", p)) = B(db, p))
    BY <1>1, ShownOne, ScopedAsks DEF Issued
  <2> HIDE DEF B
  <2>2. Good("get_job", p, Found(C(db, p), Give(B(db, p))),
             Found(C(Shown(p), Asking("get_job", p)), Give(B(Shown(p), Asking("get_job", p)))))
    BY <1>1, <1>2, <2>1, MineGood, GiveGood
  <2> HIDE DEF C
  <2> QED BY <1>2, <2>2, CapAnswers DEF get_job, job_for, B, C
<1>7. \A i : Answers("delete_job", p, delete_job(db, p, i), delete_job(Shown(p), Asking("delete_job", p), i))
  <2> SUFFICES ASSUME NEW i
               PROVE  Answers("delete_job", p, delete_job(db, p, i),
                              delete_job(Shown(p), Asking("delete_job", p), i))
    OBVIOUS
  <2> DEFINE op == "delete_job"
             A(d) == {r \in Get(d, "media_artifacts", i) : r.ref = "archives"}
             J(d) == Get(d, "backup_jobs", i)
             x(d) == Do(204, {}, SetToSeq(Dels(A(d))) \o SetToSeq(Dels(J(d))))
             mine(d, q) == Found({r \in J(d) : Holds(q, r)}, x(d))
  <2>1. ~ Closed(op)
    BY <1>3
  <2>2. ASSUME \E r \in J(db) : Holds(p, r) PROVE Good(op, p, x(db), x(Shown(p)))
    <3>1. J(db) \in SUBSET db /\ \A r \in J(db) : r.t = "backup_jobs" /\ r.id = i /\ (Scoped(p) => Holds(p, r))
      BY <1>1, <2>2, GetRows
    <3>2. A(db) \in SUBSET db /\ \A r \in A(db) : r.t = "media_artifacts" /\ r.id = i /\ r.ref = "archives"
      BY DEF Get
    <3> HIDE DEF J, A
    <3>3. \A u \in A(db), w \in J(db) : Fit(u, w) /\ Fit(w, u)
      BY <3>1, <3>2 DEF ApiInv, StateOk
    <3>4. \A r \in A(db) : Scoped(p) => Holds(p, r)
      BY <2>2, <3>1, <3>2, <3>3 DEF Fit, Holds
    <3>5. WritesIn(op, p, SetToSeq(Dels(A(db))), Dels(A(db)))
      BY <1>1, <3>2, <3>4, DelWrites
    <3>6. WritesIn(op, p, SetToSeq(Dels(J(db))), Dels(J(db)))
      BY <1>1, <3>1, DelWrites
    <3>7. \A u \in Dels(A(db)), w \in Dels(J(db)) : Fit(u.row, w.row) /\ Fit(w.row, u.row)
      BY <3>3, WriteFields DEF Dels
    <3>8. WritesOk(op, p, SetToSeq(Dels(A(db))) \o SetToSeq(Dels(J(db))))
      BY <3>5, <3>6, <3>7, MoreWrites
    <3> QED BY <2>1, <3>8, DoGood, ZenonT(60)
  <2> HIDE DEF x
  <2>3. Good(op, p, mine(db, p), mine(Shown(p), Asking(op, p)))
    BY <1>1, <2>2, MineGood
  <2>4. /\ delete_job(db, p, i) = NeedCap(p, "RegistryManage", mine(db, p))
        /\ delete_job(Shown(p), Asking(op, p), i) = NeedCap(Asking(op, p), "RegistryManage", mine(Shown(p), Asking(op, p)))
    BY DEF delete_job, job_for, x, Each, Dels
  <2> HIDE DEF mine
  <2> QED BY <1>3, <2>3, <2>4, CapAnswers
<1>8. \A cs, ok : \A i \in Unused : Answers("archive_export", p, archive_export(db, p, cs, i, ok),
              archive_export(Shown(p), Asking("archive_export", p), cs, i, ok))
  <2> SUFFICES ASSUME NEW i \in Unused, NEW cs, NEW ok
               PROVE  Answers("archive_export", p, archive_export(db, p, cs, i, ok),
                              archive_export(Shown(p), Asking("archive_export", p), cs, i, ok))
    OBVIOUS
  <2> DEFINE op == "archive_export"
             S(d, ids) == {r \in Rows(d, "segments") : ids = {} \/ r.cams \subseteq ids}
             own(d, ids) == UNION {r.cams : r \in S(d, ids)}
             job(q, ids) == Row("backup_jobs", i, ids, q.id, 1)
             art(d, ids) == Row("media_artifacts", i, own(d, ids), "archives", 0)
             x(d, q, ids) == Found(S(d, ids), Do(201, {job(q, ids)}, <<Ins(job(q, ids)), Ins(art(d, ids))>>))
             y(d, q) == Chosen(q, cs, x(d, q, cs), IF q.scope = {} THEN Refuse(403) ELSE x(d, q, q.scope), x(d, q, cs))
  <2>1. ~ Closed(op)
    BY <1>3
  <2>2. ASSUME NEW ids, Scoped(p) => ids # {} /\ ids \subseteq p.scope
        PROVE  Good(op, p, x(db, p, ids), x(Shown(p), p, ids))
    <3>1. Scoped(p) => S(Shown(p), ids) = S(db, ids)
      <4>1. \A r \in S(db, ids) : r.cams # {}
        BY <1>1 DEF Rows, DbOk, RowOk, OneCamera
      <4>2. ASSUME Scoped(p), NEW r \in S(db, ids) PROVE r \in S(Shown(p), ids)
        BY <2>2, <4>1, <4>2, ShownIs DEF Rows, Holds
      <4>3. S(Shown(p), ids) \subseteq S(db, ids)
        BY ShownIs DEF Rows
      <4> QED BY <4>2, <4>3
    <3>2. ASSUME S(db, ids) # {} PROVE own(db, ids) # {} /\ (ids = {} \/ own(db, ids) \subseteq ids)
      <4>1. \A r \in S(db, ids) : r.cams # {} /\ (ids = {} \/ r.cams \subseteq ids)
        BY <1>1 DEF Rows, DbOk, RowOk, OneCamera
      <4> HIDE DEF S
      <4> QED BY <3>2, <4>1
    <3> DEFINE j == job(p, ids)  a == art(db, ids)
    <3>3. j.t = "backup_jobs" /\ j.id = i /\ j.cams = ids /\ a.t = "media_artifacts" /\ a.id = i /\ a.cams = own(db, ids)
      BY RowFields
    <3>4. RowOk(j) /\ RowOk(a)
      <4> HIDE DEF own
      <4> QED BY RowFree DEF OwnTable, FleetTable, OneCamera
    <3> HIDE DEF job, art, own, S
    <3>5. S(db, ids) # {} => WritesOk(op, p, <<Ins(j), Ins(a)>>)
      <4>1. S(db, ids) # {} /\ Scoped(p) => Holds(p, j) /\ Holds(p, a)
        BY <2>2, <3>2, <3>3 DEF Holds
      <4>2. S(db, ids) # {} => WriteNow(op, p, Ins(j)) /\ WriteNow(op, p, Ins(a))
        BY <3>3, <3>4, <4>1, InsNow
      <4>3. S(db, ids) # {} => Fit(j, a) /\ Fit(a, j)
        BY <3>2, <3>3 DEF Fit
      <4>4. Ins(j).row = j /\ Ins(a).row = a
        BY WriteFields
      <4> QED BY <4>2, <4>3, <4>4, TwoWrites
    <3> DEFINE e == <<Ins(j), Ins(a)>>
    <3>6. S(db, ids) # {} => \A f : Good(op, p, Do(201, {j}, e), Do(201, {j}, f))
      BY <2>1, <3>5, DoGood, ZenonT(60)
    <3> HIDE DEF e
    <3>7. \A f : Good(op, p, Found(S(db, ids), Do(201, {j}, e)), Found(S(Shown(p), ids), Do(201, {j}, f)))
      BY <3>1, <3>6, FoundGood
    <3> QED BY <3>7 DEF e, x
  <2> HIDE DEF x
  <2>3. Good(op, p, y(db, p), y(Shown(p), Asking(op, p)))
    <3> DEFINE o == IF p.scope = {} THEN Refuse(403) ELSE x(db, p, p.scope)
               u == IF Asking(op, p).scope = {} THEN Refuse(403) ELSE x(Shown(p), Asking(op, p), Asking(op, p).scope)
               s == x(db, p, cs)
               v == x(Shown(p), Asking(op, p), cs)
    <3>1. ~ Scoped(p) => WritesOk(op, p, s.eff)
      BY <2>2 DEF Good
    <3>2. Scoped(p) => Good(op, p, o, u)
      BY <2>2, RefuseGood, ScopedAsks
    <3>3. Scoped(p) /\ cs # {} /\ cs \subseteq p.scope => Good(op, p, s, v)
      BY <2>2, ScopedAsks
    <3> HIDE DEF o, u, s, v
    <3>4. Good(op, p, Chosen(p, cs, s, o, s), Chosen(Asking(op, p), cs, v, u, v))
      BY <3>1, <3>2, <3>3, ChosenGood
    <3> QED BY <3>4 DEF o, u, s, v
  <2> HIDE DEF y
  <2>4. Good(op, p, Valid(ok, y(db, p)), Valid(ok, y(Shown(p), Asking(op, p))))
    BY <2>3, ValidGood
  <2>5. /\ archive_export(db, p, cs, i, ok) = NeedCap(p, "RegistryManage", Valid(ok, y(db, p)))
        /\ archive_export(Shown(p), Asking(op, p), cs, i, ok)
             = NeedCap(Asking(op, p), "RegistryManage", Valid(ok, y(Shown(p), Asking(op, p))))
    BY DEF archive_export, stored_camera_ids, confine_camera_ids, y, x, Chosen
  <2> QED BY <1>3, <2>4, <2>5, CapAnswers
<1> QED BY <1>4, <1>5, <1>6, <1>7, <1>8 DEF ArchiveRequests, Request, Served

-----------------------------------------------------------------------------
(* The routes that resolve an entry event, a candidate or a breach.        *)

LEMMA StatusGood ==
  ASSUME DbOk(db), NEW p \in Credential, NEW op, op # "delete_site", ~ Closed(op), Asks(op, "GateOperate"),
         NEW t, t \notin Plain \cup Issued, NEW i, NEW status
  PROVE  Answers(op, p, SetStatus(db, p, t, i, status), SetStatus(Shown(p), Asking(op, p), t, i, status))
<1> DEFINE N(R) == {[r EXCEPT !.ref = status] : r \in R}
           x(R) == Do(200, N(R), SetToSeq(Upds(N(R), {"ref"})))
           G == Get(db, t, i)
           H == Get(Shown(p), t, i)
<1>1. ASSUME \E r \in G : Holds(p, r) PROVE Good(op, p, x(G), x(H))
  <2>1. IsFiniteSet(G) /\ \A r \in G : RowOk(r)
    BY GetRows
  <2>2. Amends(N(G), G)
    <3> HIDE DEF G
    <3> QED BY <2>1, AmendsRef
  <2> HIDE DEF N
  <2>3. H = G /\ Good(op, p, x(G), x(G))
    BY <1>1, <2>2, AmendGood
  <2> QED BY <2>3
<1> HIDE DEF x, G, H
<1>2. Good(op, p, resource_camera(db, p, t, i, x(G)), resource_camera(Shown(p), Asking(op, p), t, i, x(H)))
  BY <1>1, ResourceGood DEF G
<1>3. /\ SetStatus(db, p, t, i, status) = NeedCap(p, "GateOperate", resource_camera(db, p, t, i, x(G)))
      /\ SetStatus(Shown(p), Asking(op, p), t, i, status)
           = NeedCap(Asking(op, p), "GateOperate", resource_camera(Shown(p), Asking(op, p), t, i, x(H)))
  BY DEF SetStatus, require_resource_scope, Each, Upds, x, G, H
<1> QED BY <1>2, <1>3, CapAnswers

LEMMA EventStatus ==
  ASSUME NEW d, NEW p, NEW i, NEW status
  PROVE  resolve_event(d, p, i, status) = SetStatus(d, p, "entry_events", i, status)
BY DEF resolve_event, SetStatus, require_event_scope, require_resource_scope

(* Entry events and reports. *)
LEMMA EntryServed ==
  ASSUME ApiInv, NEW p \in Credential, EntryRequests(p)
  PROVE  Served(p)
<1>1. DbOk(db)
  BY DEF ApiInv, StateOk
<1>2. \A op \in
        {"list_entry_events", "report_entry_log", "report_exceptions", "get_entry_event"} :
        Asks(op, "EventsRead") /\ ~ Closed(op)
  BY DeclaredSays DEF Caps, EventsOps, FleetOps
<1>3. \A op \in {"list_audit"} : Asks(op, "RegistryManage") /\ ~ Closed(op)
  BY DeclaredSays DEF Caps, RegistryOps, FleetOps
<1>4. \A op \in {"confirm_event", "reject_event"} : Asks(op, "GateOperate") /\ ~ Closed(op)
  BY DeclaredSays DEF Caps, GateOps, FleetOps
<1>5. \A ok : Answers("list_entry_events", p, list_entry_events(db, p, ok),
              list_entry_events(Shown(p), Asking("list_entry_events", p), ok))
  BY <1>1, <1>2, EventsAnswers, ValidWrites, GiveWrites DEF list_entry_events
<1>6. \A zoned : Answers("report_entry_log", p, report_entry_log(db, p, zoned),
              report_entry_log(Shown(p), Asking("report_entry_log", p), zoned))
  BY <1>1, <1>2, EventsAnswers, ValidWrites, GiveWrites DEF report_entry_log, report_window
<1>7. \A zoned : Answers("report_exceptions", p, report_exceptions(db, p, zoned),
              report_exceptions(Shown(p), Asking("report_exceptions", p), zoned))
  BY <1>1, <1>2, EventsAnswers, ValidWrites, GiveWrites DEF report_exceptions, report_window
<1>8. \A ok : Answers("list_audit", p, list_audit(db, p, ok), list_audit(Shown(p), Asking("list_audit", p), ok))
  BY <1>1, <1>3, CapAnswers, ValidGood, GiveGood, ShownHeld DEF list_audit
<1>9. \A i : Answers("get_entry_event", p, get_entry_event(db, p, i),
              get_entry_event(Shown(p), Asking("get_entry_event", p), i))
  BY <1>1, <1>2, EventsAnswers, ResourceWrites, GiveWrites DEF get_entry_event, require_event_scope
<1>10. \A i : Answers("confirm_event", p, confirm_event(db, p, i),
              confirm_event(Shown(p), Asking("confirm_event", p), i))
  BY <1>1, <1>4, StatusGood, EventStatus DEF confirm_event, Plain, Issued
<1>11. \A i : Answers("reject_event", p, reject_event(db, p, i), reject_event(Shown(p), Asking("reject_event", p), i))
  BY <1>1, <1>4, StatusGood, EventStatus DEF reject_event, Plain, Issued
<1> QED BY <1>5, <1>6, <1>7, <1>8, <1>9, <1>10, <1>11 DEF EntryRequests, Request, Served

(* The gate. *)
LEMMA GateServed ==
  ASSUME ApiInv, NEW p \in Credential, GateRequests(p)
  PROVE  Served(p)
<1>1. DbOk(db)
  BY DEF ApiInv, StateOk
<1>2. \A op \in {"get_gate_state"} : Asks(op, "IdentityRead") /\ ~ Closed(op)
  BY DeclaredSays DEF Caps, IdentityOps, FleetOps
<1>3. \A op \in {"put_gate_settings"} : Asks(op, "RegistryManage")
  BY DeclaredSays DEF Caps, RegistryOps
<1>4. \A op \in {"put_gate_policy", "delete_gate_policy"} : Asks(op, "RegistryManage") /\ ~ Closed(op)
  BY DeclaredSays DEF Caps, RegistryOps, FleetOps
<1>5. \A op \in {"gate_open"} : Asks(op, "GateOperate") /\ ~ Closed(op)
  BY DeclaredSays DEF Caps, GateOps, FleetOps
<1>6. Answers("get_gate_state", p, get_gate_state(db, p), get_gate_state(Shown(p), Asking("get_gate_state", p)))
  BY <1>1, <1>2, EventsAnswers, GiveWrites DEF get_gate_state
<1>7. \A on : Answers("put_gate_settings", p, put_gate_settings(db, p, on),
              put_gate_settings(Shown(p), Asking("put_gate_settings", p), on))
  <2> SUFFICES ASSUME NEW on
               PROVE  Answers("put_gate_settings", p, put_gate_settings(db, p, on),
                              put_gate_settings(Shown(p), Asking("put_gate_settings", p), on))
    OBVIOUS
  <2> DEFINE R == Rows(db, "gate_settings")
             N == {[r EXCEPT !.v = on] : r \in R}
             x == Do(200, N, SetToSeq(Upds(N, {"v"})))
  <2>1. R \in SUBSET db /\ (\A r \in R : RowOk(r) /\ r.t = "gate_settings") /\ "gate_settings" \notin Plain
    BY <1>1 DEF Rows, DbOk, Plain
  <2> HIDE DEF R
  <2>2. IsFiniteSet(R)
    BY <1>1, <2>1, FS_Subset DEF DbOk
  <2>3. Amends(N, R)
    BY <2>1, <2>2, AmendsV
  <2> HIDE DEF N
  <2>4. ~ Scoped(p) => WritesOk("put_gate_settings", p, SetToSeq(Upds(N, {"v"})))
    BY <1>1, <2>1, <2>3, UpdWrites
  <2>5. ~ Scoped(p) => WritesOk("put_gate_settings", p, x.eff)
    BY <2>4, DoWrites
  <2>6. put_gate_settings(db, p, on) = NeedCap(p, "RegistryManage", require_fleet_scope(p, x))
    BY DEF put_gate_settings, Each, Upds, R, N
  <2> HIDE DEF x
  <2>7. PICK z : put_gate_settings(Shown(p), Asking("put_gate_settings", p), on)
                   = NeedCap(Asking("put_gate_settings", p), "RegistryManage",
                             require_fleet_scope(Asking("put_gate_settings", p), z))
    BY DEF put_gate_settings
  <2> QED BY <1>3, <2>5, <2>6, <2>7, CapAnswers, FleetGood
<1>8. \A c, enabled : Answers("put_gate_policy", p, put_gate_policy(db, p, c, enabled),
              put_gate_policy(Shown(p), Asking("put_gate_policy", p), c, enabled))
  <2> SUFFICES ASSUME NEW c, NEW enabled
               PROVE  Answers("put_gate_policy", p, put_gate_policy(db, p, c, enabled),
                              put_gate_policy(Shown(p), Asking("put_gate_policy", p), c, enabled))
    OBVIOUS
  <2> DEFINE op == "put_gate_policy"
             cur(d) == {r.v : r \in Get(d, "gate_policies", c)}
             val(d) == IF enabled # "keep" THEN (IF enabled = "yes" THEN 1 ELSE 0)
                       ELSE IF cur(d) = {} THEN 0 ELSE CHOOSE v \in cur(d) : TRUE
             r(d) == Row("gate_policies", c, {c}, None, val(d))
             x(d) == Do(200, {r(d)}, <<Put(r(d))>>)
             y(d) == Found(Get(d, "cameras", c), x(d))
  <2>1. ASSUME CameraAllowed(p, c) PROVE Good(op, p, y(db), y(Shown(p)))
    <3>1. Get(Shown(p), "gate_policies", c) = Get(db, "gate_policies", c) /\ Get(Shown(p), "cameras", c) = Get(db, "cameras", c)
      BY <1>1, <2>1, ShownGet DEF OwnTable
    <3>2. r(Shown(p)) = r(db)
      BY <3>1
    <3> DEFINE n == r(db)
    <3>3. n = Row("gate_policies", c, {c}, None, val(db))
      OBVIOUS
    <3> HIDE DEF val, r, n
    <3>4. WritesOk(op, p, <<Put(n)>>)
      BY <1>1, <2>1, <3>3, OwnWrites DEF OwnTable
    <3>5. Good(op, p, Do(200, {n}, <<Put(n)>>), Do(200, {n}, <<Put(n)>>))
      BY <1>4, <3>4, DoGood
    <3>6. Good(op, p, x(db), x(Shown(p)))
      BY <3>2, <3>5 DEF n
    <3> HIDE DEF x
    <3> QED BY <3>1, <3>6, FoundGood
  <2> HIDE DEF y
  <2>2. Good(op, p, camera_scope_check(p, c, y(db)), camera_scope_check(Asking(op, p), c, y(Shown(p))))
    BY <2>1, ScopeGood
  <2>3. \A d, q : put_gate_policy(d, q, c, enabled) = NeedCap(q, "RegistryManage", camera_scope_check(q, c, y(d)))
    BY DEF put_gate_policy, y
  <2> QED BY <1>4, <2>2, <2>3, CapAnswers
<1>9. \A c : Answers("delete_gate_policy", p, delete_gate_policy(db, p, c),
              delete_gate_policy(Shown(p), Asking("delete_gate_policy", p), c))
  <2> SUFFICES ASSUME NEW c
               PROVE  Answers("delete_gate_policy", p, delete_gate_policy(db, p, c),
                              delete_gate_policy(Shown(p), Asking("delete_gate_policy", p), c))
    OBVIOUS
  <2> DEFINE op == "delete_gate_policy"
             x(d) == Erase(d, "gate_policies", c)
  <2>1. ASSUME CameraAllowed(p, c) PROVE Good(op, p, x(db), x(Shown(p)))
    <3>1. Get(Shown(p), "gate_policies", c) = Get(db, "gate_policies", c)
      BY <1>1, <2>1, ShownGet DEF OwnTable
    <3>2. CASE Get(db, "gate_policies", c) = {}
      <4>1. x(db) = Refuse(404) /\ x(Shown(p)) = Refuse(404)
        BY <3>1, <3>2 DEF Erase, Found
      <4> QED BY <4>1, RefuseGood
    <3>3. ASSUME NEW r \in Get(db, "gate_policies", c) PROVE Good(op, p, x(db), x(Shown(p)))
      <4>1. Holds(p, r)
        BY <1>1, <2>1 DEF Get, DbOk, RowOk, OwnTable, Holds, CameraAllowed
      <4> QED BY <1>1, <1>4, <4>1, EraseGood DEF Issued
    <3> QED BY <3>2, <3>3
  <2> HIDE DEF x
  <2>2. Good(op, p, camera_scope_check(p, c, x(db)), camera_scope_check(Asking(op, p), c, x(Shown(p))))
    BY <2>1, ScopeGood
  <2> QED BY <1>4, <2>2, CapAnswers DEF delete_gate_policy, x
<1>10. \A c, works : \A n \in Unused : Answers("gate_open", p, gate_open(db, p, c, n, works),
              gate_open(Shown(p), Asking("gate_open", p), c, n, works))
  <2> SUFFICES ASSUME NEW c, NEW works, NEW n \in Unused
               PROVE  Answers("gate_open", p, gate_open(db, p, c, n, works),
                              gate_open(Shown(p), Asking("gate_open", p), c, n, works))
    OBVIOUS
  <2> DEFINE op == "gate_open"
             r == Row("events", n, {c}, "gate", 0)
             e == <<Ins(r)>>
             x == IF works THEN Do(200, {}, e) ELSE Do(400, {}, e)
             ok(d) == Exists(d, "gate_policies", c) /\ kill_switch(d) = {}
  <2>1. CameraAllowed(p, c) => Good(op, p, x, x)
    <3>1. r.id = n /\ r.cams = {c} /\ RowOk(r)
      <4>1. n \notin Camera
        BY ApiAssumption DEF Unused
      <4>2. r = [t |-> r.t, id |-> r.id, cams |-> r.cams, ref |-> r.ref, v |-> r.v] /\ r.t = "events" /\ r.id = n /\ r.cams = {c}
        BY DEF Row
      <4> HIDE DEF r
      <4> QED BY <4>1, <4>2 DEF RowOk, OwnTable, FleetTable, OneCamera
    <3> HIDE DEF r
    <3>2. CameraAllowed(p, c) => Holds(p, r)
      BY <3>1 DEF Holds, CameraAllowed
    <3>3. CameraAllowed(p, c) => WritesOk(op, p, e)
      BY <3>1, <3>2, InsNow, OneWrite
    <3>4. ~ Closed(op)
      BY <1>5
    <3> HIDE DEF e
    <3>5. CameraAllowed(p, c) => \A code : Good(op, p, Do(code, {}, e), Do(code, {}, e))
      BY <3>3, <3>4, DoGood
    <3> QED BY <3>5
  <2>2. CameraAllowed(p, c) => (ok(db) <=> ok(Shown(p)))
    BY <1>1, ShownGet, ShownOpen DEF Exists, kill_switch, OwnTable, Open
  <2> HIDE DEF x, ok
  <2>3. CameraAllowed(p, c) => Good(op, p, Valid(ok(db), x), Valid(ok(Shown(p)), x))
    BY <2>1, <2>2, ValidGood
  <2>4. Good(op, p, camera_scope_check(p, c, Valid(ok(db), x)), camera_scope_check(Asking(op, p), c, Valid(ok(Shown(p)), x)))
    BY <2>3, ScopeGood
  <2>5. /\ gate_open(db, p, c, n, works) = NeedCap(p, "GateOperate", camera_scope_check(p, c, Valid(ok(db), x)))
        /\ gate_open(Shown(p), Asking(op, p), c, n, works)
             = NeedCap(Asking(op, p), "GateOperate", camera_scope_check(Asking(op, p), c, Valid(ok(Shown(p)), x)))
    BY DEF gate_open, x, ok
  <2> QED BY <1>5, <2>4, <2>5, CapAnswers
<1> QED BY <1>6, <1>7, <1>8, <1>9, <1>10 DEF GateRequests, Request, Served

-----------------------------------------------------------------------------
(* Searches.  Only a fleet-wide credential reads across cameras.            *)

LEMMA LogWrites ==
  ASSUME NEW op, op # "delete_site", NEW p, ~ Scoped(p), NEW n \in Unused
  PROVE  WritesOk(op, p, <<log_search(p, n)>>)
<1> DEFINE r == Row("search_log", n, p.scope \cap Camera, p.id, 0)
<1>1. r.id = n
  BY RowFields
<1>2. RowOk(r)
  BY RowFree DEF OwnTable, FleetTable, OneCamera
<1>3. log_search(p, n) = Ins(r)
  BY DEF log_search
<1> HIDE DEF r
<1> QED BY <1>1, <1>2, <1>3, InsNow, OneWrite

LEMMA PlannedAnswers ==
  ASSUME NEW p \in Credential, NEW op, Asks(op, "EventsRead"), NEW d, NEW named, NEW cs, NEW hours, NEW x, NEW y,
         ~ Scoped(p) => WritesOk(op, p, x.eff),
         NEW a, ~ Scoped(p) => a = NeedCap(p, "EventsRead", Valid(named, resolve_tz(d, cs, FALSE, hours, x))),
         Scoped(p) => \E z : a = NeedCap(p, "EventsRead", z),
         NEW b, \E z : b = NeedCap(Asking(op, p), "EventsRead", z)
  PROVE  Answers(op, p, a, b)
<1>1. PICK z : b = NeedCap(Asking(op, p), "EventsRead", z)
  OBVIOUS
<1>2. CASE Scoped(p)
  BY <1>1, <1>2, EventsAnswers
<1>3. CASE ~ Scoped(p)
  <2> DEFINE v == Valid(named, resolve_tz(d, cs, FALSE, hours, x))
  <2>1. WritesOk(op, p, v.eff)
    BY <1>3, ValidWrites DEF resolve_tz
  <2>2. a = NeedCap(p, "EventsRead", v)
    BY <1>3
  <2> HIDE DEF v
  <2> QED BY <1>1, <2>1, <2>2, EventsAnswers
<1> QED BY <1>2, <1>3

(* Movement. *)
LEMMA MovementServed ==
  ASSUME ApiInv, NEW p \in Credential, MovementRequests(p)
  PROVE  Served(p)
<1>1. DbOk(db)
  BY DEF ApiInv, StateOk
<1>2. \A op \in {"trigger_run"} : Asks(op, "RegistryManage")
  BY DeclaredSays DEF Caps, RegistryOps
<1>3. \A op \in
        {"list_links", "list_candidates", "list_breaches", "search_plate", "search_person"} :
        Asks(op, "EventsRead") /\ ~ Closed(op)
  BY DeclaredSays DEF Caps, EventsOps, FleetOps
<1>4. \A op \in {"create_link", "delete_link"} : Asks(op, "RegistryManage") /\ ~ Closed(op)
  BY DeclaredSays DEF Caps, RegistryOps, FleetOps
<1>5. \A op \in
        {"confirm_candidate", "reject_candidate", "ack_breach", "resolve_breach"} :
        Asks(op, "GateOperate") /\ ~ Closed(op)
  BY DeclaredSays DEF Caps, GateOps, FleetOps
<1>6. \A n \in Unused : Answers("trigger_run", p, trigger_run(db, p, n),
              trigger_run(Shown(p), Asking("trigger_run", p), n))
  <2> SUFFICES ASSUME NEW n \in Unused
               PROVE  Answers("trigger_run", p, trigger_run(db, p, n),
                              trigger_run(Shown(p), Asking("trigger_run", p), n))
    OBVIOUS
  <2> DEFINE op == "trigger_run"
             L == {l \in Rows(db, "camera_links") : \A c \in l.cams : OfCamera(db, "entry_events", c) # {}}
             C == {l.cams : l \in L} \ {r.cams : r \in Rows(db, "movement_candidates")}
             f == [l \in L |-> l.cams]
             m(cs) == Row("movement_candidates", n, cs, "pending", 0)
             g == [cs \in C |-> Ins(m(cs))]
             S == {Ins(m(cs)) : cs \in C}
             Z == Rows(db, "zone_events")
             b(z) == Row("breach_alerts", z.id, z.cams, "open", 0)
             h == [z \in Z |-> Ins(b(z))]
             T == {Ins(b(z)) : z \in Z}
             x == Do(200, {}, SetToSeq(S) \o SetToSeq(T))
  <2>1. IsFiniteSet(S)
    <3>1. IsFiniteSet(L)
      <4>1. IsFiniteSet(db) /\ L \subseteq db
        BY <1>1 DEF DbOk, Rows
      <4> HIDE DEF L
      <4> QED BY <4>1, FS_Subset
    <3> HIDE DEF L
    <3>2. IsFiniteSet({f[l] : l \in L})
      <4> HIDE DEF f
      <4> QED BY <3>1, ImageFinite
    <3>3. C \subseteq {f[l] : l \in L}
      OBVIOUS
    <3>4. S = {g[cs] : cs \in C}
      OBVIOUS
    <3> HIDE DEF C, S, g, f
    <3>5. IsFiniteSet(C)
      BY <3>2, <3>3, FS_Subset
    <3>6. IsFiniteSet({g[cs] : cs \in C})
      BY <3>5, ImageFinite
    <3> QED BY <3>4, <3>6
  <2>2. IsFiniteSet(T)
    <3>1. IsFiniteSet(db) /\ Z \subseteq db
      BY <1>1 DEF DbOk, Rows
    <3>2. T = {h[z] : z \in Z}
      OBVIOUS
    <3> HIDE DEF Z, T, h
    <3>3. IsFiniteSet(Z)
      BY <3>1, FS_Subset
    <3>4. IsFiniteSet({h[z] : z \in Z})
      BY <3>3, ImageFinite
    <3> QED BY <3>2, <3>4
  <2>3. ASSUME ~ Scoped(p), NEW w \in S PROVE WriteNow(op, p, w) /\ w.row.t = "movement_candidates"
    <3>1. PICK cs \in C : w = Ins(m(cs))
      OBVIOUS
    <3> DEFINE r == m(cs)
    <3>2. r.t = "movement_candidates" /\ r.id = n
      BY RowFields
    <3>3. RowOk(r)
      BY RowFree DEF OwnTable, FleetTable, OneCamera
    <3>4. w = Ins(r)
      BY <3>1
    <3> HIDE DEF r
    <3> QED BY <2>3, <3>2, <3>3, <3>4, InsNow, WriteFields, ZenonT(60)
  <2>4. ASSUME ~ Scoped(p), NEW w \in T PROVE WriteNow(op, p, w) /\ w.row.t = "breach_alerts"
    <3>1. PICK z \in Z : w = Ins(b(z))
      OBVIOUS
    <3> DEFINE r == b(z)
    <3>2. r.t = "breach_alerts" /\ r.id = z.id /\ r.cams = z.cams
      BY RowFields
    <3>3. RowOk(r)
      BY RowFree DEF OwnTable, FleetTable, OneCamera
    <3>4. w = Ins(r)
      BY <3>1
    <3> HIDE DEF r
    <3>5. Sourced(r)
      BY <3>2 DEF Sourced, Rows, Get
    <3> QED BY <2>4, <3>2, <3>3, <3>4, <3>5, InsNow, WriteFields, ZenonT(60)
  <2>5. x = Do(200, {}, propose_vehicle_candidates(db, n) \o sweep(db))
    BY DEF propose_vehicle_candidates, sweep, Each
  <2> HIDE DEF S, T
  <2>6. ~ Scoped(p) => WritesOk(op, p, SetToSeq(S) \o SetToSeq(T))
    <3>1. ~ Scoped(p) => WritesIn(op, p, SetToSeq(S), S)
      BY <2>1, <2>3, SetWrites
    <3>2. ~ Scoped(p) => WritesIn(op, p, SetToSeq(T), T)
      BY <2>2, <2>4, SetWrites
    <3>3. ~ Scoped(p) => \A u \in S, w \in T : Fit(u.row, w.row) /\ Fit(w.row, u.row)
      BY <2>3, <2>4 DEF Fit
    <3> QED BY <3>1, <3>2, <3>3, MoreWrites
  <2>7. ~ Scoped(p) => WritesOk(op, p, x.eff)
    BY <2>6, DoWrites
  <2> HIDE DEF x
  <2>8. trigger_run(db, p, n) = NeedCap(p, "RegistryManage", require_fleet_scope(p, x))
    BY <2>5 DEF trigger_run
  <2>9. PICK z : trigger_run(Shown(p), Asking(op, p), n)
                   = NeedCap(Asking(op, p), "RegistryManage", require_fleet_scope(Asking(op, p), z))
    BY DEF trigger_run
  <2> QED BY <1>2, <2>7, <2>8, <2>9, CapAnswers, FleetGood
<1>7. Answers("list_links", p, list_links(db, p), list_links(Shown(p), Asking("list_links", p)))
  BY <1>1, <1>3, EventsAnswers, GiveWrites DEF list_links
<1>8. Answers("list_candidates", p, list_candidates(db, p), list_candidates(Shown(p), Asking("list_candidates", p)))
  BY <1>1, <1>3, EventsAnswers, GiveWrites DEF list_candidates
<1>9. Answers("list_breaches", p, list_breaches(db, p), list_breaches(Shown(p), Asking("list_breaches", p)))
  BY <1>1, <1>3, EventsAnswers, GiveWrites DEF list_breaches
<1>10. \A from, to, named : \A i \in Unused : Answers("create_link", p, create_link(db, p, i, from, to, named),
              create_link(Shown(p), Asking("create_link", p), i, from, to, named))
  <2> SUFFICES ASSUME NEW i \in Unused, NEW from, NEW to, NEW named
               PROVE  Answers("create_link", p, create_link(db, p, i, from, to, named),
                              create_link(Shown(p), Asking("create_link", p), i, from, to, named))
    OBVIOUS
  <2> DEFINE op == "create_link"
             r == Row("camera_links", i, {from, to}, from, 0)
             known(d) == \E l \in Rows(d, "camera_links") : l.cams = {from, to} /\ l.ref = from
             x(d) == IF known(d) THEN Refuse(409) ELSE Create(r)
             y(d, q) == camera_scope_check(q, from, camera_scope_check(q, to, x(d)))
  <2>1. ASSUME CameraAllowed(p, from), CameraAllowed(p, to) PROVE Good(op, p, x(db), x(Shown(p)))
    <3>1. r.id = i /\ r.cams = {from, to}
      BY RowFields
    <3>2. RowOk(r)
      BY RowFree DEF OwnTable, FleetTable, OneCamera
    <3> HIDE DEF r
    <3>3. Scoped(p) => Holds(p, r)
      BY <2>1, <3>1 DEF Holds, CameraAllowed
    <3>4. Good(op, p, Create(r), Create(r))
      BY <1>4, <3>1, <3>2, <3>3, CreateGood
    <3>5. known(db) <=> known(Shown(p))
      <4>1. ASSUME NEW l \in db, l.cams = {from, to} PROVE l \in Shown(p)
        BY <2>1, <4>1, ShownIs DEF Holds, CameraAllowed
      <4> QED BY <4>1, ShownIs DEF Rows
    <3> HIDE DEF known
    <3>6. Good(op, p, Refuse(409), Refuse(409))
      BY RefuseGood
    <3> QED BY <3>4, <3>5, <3>6
  <2> HIDE DEF x
  <2>2. Good(op, p, y(db, p), y(Shown(p), Asking(op, p)))
    <3>1. CameraAllowed(p, from) =>
            Good(op, p, camera_scope_check(p, to, x(db)), camera_scope_check(Asking(op, p), to, x(Shown(p))))
      BY <2>1, ScopeGood
    <3> QED BY <3>1, ScopeGood
  <2> HIDE DEF y
  <2>3. Good(op, p, Valid(named /\ from # to, y(db, p)), Valid(named /\ from # to, y(Shown(p), Asking(op, p))))
    BY <2>2, ValidGood
  <2>4. /\ create_link(db, p, i, from, to, named) = NeedCap(p, "RegistryManage", Valid(named /\ from # to, y(db, p)))
        /\ create_link(Shown(p), Asking(op, p), i, from, to, named)
             = NeedCap(Asking(op, p), "RegistryManage", Valid(named /\ from # to, y(Shown(p), Asking(op, p))))
    BY DEF create_link, x, y
  <2> QED BY <1>4, <2>3, <2>4, CapAnswers
<1>11. \A i : Answers("delete_link", p, delete_link(db, p, i), delete_link(Shown(p), Asking("delete_link", p), i))
  BY <1>1, <1>4, CapAnswers, ResourceGood, EraseGood DEF delete_link, require_resource_scope, Issued
<1>12. \A i : Answers("confirm_candidate", p, confirm_candidate(db, p, i),
              confirm_candidate(Shown(p), Asking("confirm_candidate", p), i))
  BY <1>1, <1>5, StatusGood DEF confirm_candidate, resolve_candidate, Plain, Issued
<1>13. \A i : Answers("reject_candidate", p, reject_candidate(db, p, i),
              reject_candidate(Shown(p), Asking("reject_candidate", p), i))
  BY <1>1, <1>5, StatusGood DEF reject_candidate, resolve_candidate, Plain, Issued
<1>14. \A i : Answers("ack_breach", p, ack_breach(db, p, i), ack_breach(Shown(p), Asking("ack_breach", p), i))
  BY <1>1, <1>5, StatusGood DEF ack_breach, set_breach_status, Plain, Issued
<1>15. \A i : Answers("resolve_breach", p, resolve_breach(db, p, i),
              resolve_breach(Shown(p), Asking("resolve_breach", p), i))
  BY <1>1, <1>5, StatusGood DEF resolve_breach, set_breach_status, Plain, Issued
<1>16. \A ok : Answers("search_plate", p, search_plate(db, p, ok),
              search_plate(Shown(p), Asking("search_plate", p), ok))
  BY <1>1, <1>3, EventsAnswers, ValidWrites, GiveWrites DEF search_plate
<1>17. \A c, ok : Answers("search_person", p, search_person(db, p, c, ok),
              search_person(Shown(p), Asking("search_person", p), c, ok))
  BY <1>1, <1>3, EventsAnswers, ScopeWrites, ValidWrites, GiveWrites DEF search_person
<1> QED BY <1>6, <1>7, <1>8, <1>9, <1>10, <1>11, <1>12, <1>13, <1>14, <1>15, <1>16, <1>17
       DEF MovementRequests, Request, Served

(* Search. *)
LEMMA SearchServed ==
  ASSUME ApiInv, NEW p \in Credential, SearchRequests(p)
  PROVE  Served(p)
<1>1. DbOk(db)
  BY DEF ApiInv, StateOk
<1>2. \A op \in
        {"search_events", "search_nl", "plan_only", "search_semantic_scoped"} :
        Asks(op, "EventsRead") /\ ~ Closed(op)
  BY DeclaredSays DEF Caps, EventsOps, FleetOps
<1>3. \A cs, zoned, hours : \A n \in Unused : Answers("search_events", p, search_events(db, p, n, cs, zoned, hours),
              search_events(Shown(p), Asking("search_events", p), n, cs, zoned, hours))
  <2> SUFFICES ASSUME NEW n \in Unused, NEW cs, NEW zoned, NEW hours
               PROVE  Answers("search_events", p, search_events(db, p, n, cs, zoned, hours),
                              search_events(Shown(p), Asking("search_events", p), n, cs, zoned, hours))
    OBVIOUS
  <2> DEFINE op == "search_events"
             x == Do(200, execute_in(db, cs), <<log_search(p, n)>>)
  <2>1. ~ Scoped(p) => WritesOk(op, p, resolve_tz(db, cs, zoned, hours, x).eff)
    <3> SUFFICES ASSUME ~ Scoped(p) PROVE WritesOk(op, p, resolve_tz(db, cs, zoned, hours, x).eff)
      OBVIOUS
    <3>1. op # "delete_site"
      OBVIOUS
    <3>2. WritesOk(op, p, <<log_search(p, n)>>)
      <4> HIDE DEF op
      <4> QED BY <3>1, LogWrites
    <3>3. WritesOk(op, p, x.eff)
      <4> HIDE DEF op
      <4> QED BY <3>2, DoWrites
    <3> HIDE DEF op, x
    <3> QED BY <3>3, ValidWrites, Zenon DEF resolve_tz
  <2>2. PICK u : search_events(db, p, n, cs, zoned, hours) = NeedCap(p, "EventsRead", u)
                 /\ (~ Scoped(p) => u = resolve_tz(db, cs, zoned, hours, x))
    BY DEF search_events, confine_requested_cameras, confine_camera_ids
  <2>3. PICK z : search_events(Shown(p), Asking(op, p), n, cs, zoned, hours) = NeedCap(Asking(op, p), "EventsRead", z)
    BY DEF search_events
  <2> HIDE DEF x
  <2> QED BY <1>2, <2>1, <2>2, <2>3, EventsAnswers
<1>4. \A named, cs, hours : \A n \in Unused : Answers("search_nl", p, search_nl(db, p, n, named, cs, hours),
              search_nl(Shown(p), Asking("search_nl", p), n, named, cs, hours))
  <2> SUFFICES ASSUME NEW n \in Unused, NEW named, NEW cs, NEW hours
               PROVE  Answers("search_nl", p, search_nl(db, p, n, named, cs, hours),
                              search_nl(Shown(p), Asking("search_nl", p), n, named, cs, hours))
    OBVIOUS
  <2> DEFINE op == "search_nl"
             C == cs \cap {r.id : r \in cameras(db, p)}
             x == Do(200, execute_in(db, C), <<log_search(p, n)>>)
             a == search_nl(db, p, n, named, cs, hours)
             b == search_nl(Shown(p), Asking("search_nl", p), n, named, cs, hours)
  <2>1. ~ Scoped(p) => WritesOk(op, p, x.eff)
    BY LogWrites, DoWrites, ZenonT(60)
  <2>2. ~ Scoped(p) => a = NeedCap(p, "EventsRead", Valid(named, resolve_tz(db, C, FALSE, hours, x)))
    BY DEF search_nl, Planned, confine_planned_cameras
  <2>3. (\E z : a = NeedCap(p, "EventsRead", z)) /\ \E z : b = NeedCap(Asking(op, p), "EventsRead", z)
    BY DEF search_nl, Planned
  <2> HIDE DEF x, a, b, C
  <2>4. Answers(op, p, a, b)
    BY <1>2, <2>1, <2>2, <2>3, PlannedAnswers
  <2> QED BY <2>4 DEF a, b
<1>5. \A named, cs, hours : Answers("plan_only", p, plan_only(db, p, named, cs, hours),
              plan_only(Shown(p), Asking("plan_only", p), named, cs, hours))
  <2> SUFFICES ASSUME NEW named, NEW cs, NEW hours
               PROVE  Answers("plan_only", p, plan_only(db, p, named, cs, hours),
                              plan_only(Shown(p), Asking("plan_only", p), named, cs, hours))
    OBVIOUS
  <2> DEFINE op == "plan_only"
             C == cs \cap {r.id : r \in cameras(db, p)}
             x == Give({r \in Rows(db, "cameras") : r.id \in C})
             a == plan_only(db, p, named, cs, hours)
             b == plan_only(Shown(p), Asking("plan_only", p), named, cs, hours)
  <2>1. ~ Scoped(p) => WritesOk(op, p, x.eff)
    BY GiveWrites
  <2>2. ~ Scoped(p) => a = NeedCap(p, "EventsRead", Valid(named, resolve_tz(db, C, FALSE, hours, x)))
    BY DEF plan_only, Planned, confine_planned_cameras
  <2>3. (\E z : a = NeedCap(p, "EventsRead", z)) /\ \E z : b = NeedCap(Asking(op, p), "EventsRead", z)
    BY DEF plan_only, Planned
  <2> HIDE DEF x, a, b, C
  <2>4. Answers(op, p, a, b)
    BY <1>2, <2>1, <2>2, <2>3, PlannedAnswers
  <2> QED BY <2>4 DEF a, b
<1>6. \A cs, zone, ok, works : \A n \in Unused : Answers("search_semantic_scoped", p, search_semantic_scoped(db, p, n, cs, zone, ok, works),
              search_semantic_scoped(Shown(p), Asking("search_semantic_scoped", p), n, cs, zone, ok, works))
  <2> SUFFICES ASSUME NEW n \in Unused, NEW cs, NEW zone, NEW ok, NEW works
               PROVE  Answers("search_semantic_scoped", p, search_semantic_scoped(db, p, n, cs, zone, ok, works),
                              search_semantic_scoped(Shown(p), Asking("search_semantic_scoped", p), n, cs, zone, ok, works))
    OBVIOUS
  <2> DEFINE op == "search_semantic_scoped"
             s(d, q, own) == search_semantic(d, q, n, own, zone, ok, works)
             a == search_semantic_scoped(db, p, n, cs, zone, ok, works)
             b == search_semantic_scoped(Shown(p), Asking(op, p), n, cs, zone, ok, works)
  <2>1. \A d, own : Scoped(p) => s(d, p, own) = Refuse(403)
    BY ScopedLacks DEF search_semantic, NeedCap
  <2>2. CASE Scoped(p)
    <3>2. a = Refuse(403) /\ b = Refuse(403)
      <4>1. \A d : search_semantic_scoped(d, p, n, cs, zone, ok, works) = Refuse(403)
        BY <2>1, <2>2 DEF search_semantic_scoped, confine_requested_cameras, confine_camera_ids, resource_camera
      <4> QED BY <2>2, <4>1, ScopedAsks
    <3>3. Good(op, p, Refuse(403), Refuse(403)) /\ ~ (Refuse(403).st < 300)
      BY RefuseGood DEF Refuse
    <3> HIDE DEF a, b
    <3>4. Answers(op, p, a, b)
      BY <2>2, <3>2, <3>3 DEF Good, Answers
    <3> QED BY <3>4 DEF a, b
  <2>3. CASE ~ Scoped(p)
    <3> DEFINE x(cams) == Do(200, {r \in Rows(db, "detections") : camera_pred(r, cams)}, <<log_search(p, n)>>)
    <3>1. \A cams : WritesOk(op, p, x(cams).eff)
      BY <2>3, LogWrites, DoWrites
    <3>2. PICK u : s(db, p, cs) = NeedCap(p, "EventsRead", u) /\ WritesOk(op, p, u.eff)
      <4> DEFINE z == Get(db, "zones", zone)
                 zcams == UNION {r.cams : r \in z}
                 cams == IF zone = None THEN cs ELSE zcams
                 f == zone = None \/ cs = {} \/ zcams \subseteq cs
                 y == IF works THEN x(cams) ELSE Refuse(503)
                 w == IF zone # None /\ z = {} THEN Refuse(404) ELSE Valid(f, y)
      <4>1. s(db, p, cs) = NeedCap(p, "EventsRead", Valid(ok, w))
        BY DEF search_semantic
      <4> HIDE DEF x, z, cams, f
      <4>2. WritesOk(op, p, y.eff)
        BY <3>1, RefuseWrites
      <4> HIDE DEF y
      <4>3. WritesOk(op, p, Valid(f, y).eff)
        BY <4>2, ValidWrites
      <4>4. WritesOk(op, p, w.eff)
        BY <4>3, RefuseWrites
      <4> HIDE DEF w
      <4> QED BY <4>1, <4>4, ValidWrites
    <3>3. a = s(db, p, cs)
      BY <2>3 DEF search_semantic_scoped, confine_requested_cameras, confine_camera_ids
    <3>4. b = s(Shown(p), Asking(op, p), cs)
      BY <2>3, UnscopedAsks DEF search_semantic_scoped, confine_requested_cameras, confine_camera_ids
    <3>5. PICK v : s(Shown(p), Asking(op, p), cs) = NeedCap(Asking(op, p), "EventsRead", v)
      BY ZenonT(60) DEF search_semantic
    <3> HIDE DEF a, b
    <3>6. Answers(op, p, a, b)
      BY <1>2, <3>2, <3>3, <3>4, <3>5, EventsAnswers
    <3> QED BY <3>6 DEF a, b
  <2> QED BY <2>2, <2>3
<1> QED BY <1>3, <1>4, <1>5, <1>6 DEF SearchRequests, Request, Served

-----------------------------------------------------------------------------
(* The routes that hold footage and that write artifacts.                     *)

Locked(r, y, x) == [r EXCEPT !.v = x, !.ref = y]

LEMMA AmendsBoth ==
  ASSUME NEW R, IsFiniteSet(R), \A r \in R : RowOk(r), NEW x, NEW y
  PROVE  Amends({Locked(r, y, x) : r \in R}, R)
<1> DEFINE f == [r \in R |-> Locked(r, y, x)]
<1>1. {Locked(r, y, x) : r \in R} = {f[r] : r \in R}
  OBVIOUS
<1>2. \A r \in R : f[r] = Row(r.t, r.id, r.cams, y, x)
  <2>1. \A r \in R : f[r] = Locked(r, y, x)
    OBVIOUS
  <2>2. \A r \in R : Locked(r, y, x) = Row(r.t, r.id, r.cams, y, x)
    BY RowIs, AmendedBoth DEF Locked
  <2> QED BY <2>1, <2>2
<1> HIDE DEF f
<1>3. \A r \in R : f[r].ref = y /\ f[r].v = x
  <2> TAKE r \in R
  <2>1. f[r] = Row(r.t, r.id, r.cams, y, x)
    BY <1>2
  <2> QED BY <2>1 DEF Row
<1>4. Amends({f[r] : r \in R}, R)
  BY <1>2, <1>3, AmendsBy
<1> QED BY <1>1, <1>4

LEMMA HoldAnswers ==
  ASSUME DbOk(db), NEW p \in Credential, NEW op, op # "delete_site", ~ Closed(op), Asks(op, "RegistryManage"),
         NEW i, NEW N, NEW M, NEW cols,
         (\E r \in Get(db, "segments", i) : Holds(p, r)) => Amends(N, Get(db, "segments", i)) /\ M = N
  PROVE  Answers(op, p,
           NeedCap(p, "RegistryManage", resource_camera(db, p, "segments", i, Do(200, N, SetToSeq(Upds(N, cols))))),
           NeedCap(Asking(op, p), "RegistryManage",
                   resource_camera(Shown(p), Asking(op, p), "segments", i, Do(200, M, SetToSeq(Upds(M, cols))))))
<1> DEFINE x == Do(200, N, SetToSeq(Upds(N, cols)))
           y == Do(200, M, SetToSeq(Upds(M, cols)))
<1>1. ASSUME \E r \in Get(db, "segments", i) : Holds(p, r) PROVE Good(op, p, x, y)
  BY <1>1, AmendGood DEF Plain, Issued
<1> HIDE DEF x, y
<1>2. Good(op, p, resource_camera(db, p, "segments", i, x), resource_camera(Shown(p), Asking(op, p), "segments", i, y))
  BY <1>1, ResourceGood
<1>3. Answers(op, p, NeedCap(p, "RegistryManage", resource_camera(db, p, "segments", i, x)),
              NeedCap(Asking(op, p), "RegistryManage", resource_camera(Shown(p), Asking(op, p), "segments", i, y)))
  BY <1>2, CapAnswers
<1> QED BY <1>3 DEF x, y

LEMMA TagAnswers ==
  ASSUME DbOk(db), NEW p \in Credential, NEW i, NEW n
  PROVE  Answers("tag_incident", p, tag_incident(db, p, i, n),
                 tag_incident(Shown(p), Asking("tag_incident", p), i, n))
<1> DEFINE N(R) == {[r EXCEPT !.ref = n] : r \in R}
           G == Get(db, "segments", i)
           H == Get(Shown(p), "segments", i)
           x(R) == Do(200, N(R), SetToSeq(Upds(N(R), {"ref"})))
<1>1. ~ Closed("tag_incident") /\ Asks("tag_incident", "RegistryManage")
  BY DeclaredSays DEF Caps, RegistryOps, FleetOps
<1>2. IsFiniteSet(G) /\ \A r \in G : RowOk(r)
  BY GetRows
<1>3. Amends(N(G), G)
  <2> HIDE DEF G
  <2> QED BY <1>2, AmendsRef
<1>4. (\E r \in G : Holds(p, r)) => H = G
  BY ShownOne DEF Issued
<1>5. /\ tag_incident(db, p, i, n) = NeedCap(p, "RegistryManage", resource_camera(db, p, "segments", i, x(G)))
      /\ tag_incident(Shown(p), Asking("tag_incident", p), i, n)
           = NeedCap(Asking("tag_incident", p), "RegistryManage",
                     resource_camera(Shown(p), Asking("tag_incident", p), "segments", i, x(H)))
  BY DEF tag_incident, Hold, Each, Upds
<1> HIDE DEF N
<1>6. (\E r \in G : Holds(p, r)) => Amends(N(G), G) /\ N(H) = N(G)
  BY <1>3, <1>4
<1> QED BY <1>1, <1>5, <1>6, HoldAnswers

LEMMA LockAnswers ==
  ASSUME DbOk(db), NEW p \in Credential, NEW i, NEW n
  PROVE  Answers("lock_evidence", p, lock_evidence(db, p, i, n),
                 lock_evidence(Shown(p), Asking("lock_evidence", p), i, n))
<1> DEFINE N(R) == {Locked(r, n, 1) : r \in R}
           G == Get(db, "segments", i)
           H == Get(Shown(p), "segments", i)
           cols == IF n = None THEN {"v"} ELSE {"v", "ref"}
           x(R) == Do(200, N(R), SetToSeq(Upds(N(R), cols)))
<1>1. ~ Closed("lock_evidence") /\ Asks("lock_evidence", "RegistryManage")
  BY DeclaredSays DEF Caps, RegistryOps, FleetOps
<1>2. IsFiniteSet(G) /\ \A r \in G : RowOk(r)
  BY GetRows
<1>3. Amends(N(G), G)
  <2> HIDE DEF G
  <2> QED BY <1>2, AmendsBoth
<1>4. (\E r \in G : Holds(p, r)) => H = G
  BY ShownOne DEF Issued
<1>5. /\ lock_evidence(db, p, i, n) = NeedCap(p, "RegistryManage", resource_camera(db, p, "segments", i, x(G)))
      /\ lock_evidence(Shown(p), Asking("lock_evidence", p), i, n)
           = NeedCap(Asking("lock_evidence", p), "RegistryManage",
                     resource_camera(Shown(p), Asking("lock_evidence", p), "segments", i, x(H)))
  BY DEF lock_evidence, Hold, Each, Upds, Locked
<1> HIDE DEF N, cols
<1>6. (\E r \in G : Holds(p, r)) => Amends(N(G), G) /\ N(H) = N(G)
  BY <1>3, <1>4
<1> QED BY <1>1, <1>5, <1>6, HoldAnswers

LEMMA UnlockAnswers ==
  ASSUME DbOk(db), NEW p \in Credential, NEW i
  PROVE  Answers("unlock_evidence", p, unlock_evidence(db, p, i),
                 unlock_evidence(Shown(p), Asking("unlock_evidence", p), i))
<1> DEFINE N(R) == {[r EXCEPT !.v = 0] : r \in R}
           G == Get(db, "segments", i)
           H == Get(Shown(p), "segments", i)
           x(R) == Do(200, N(R), SetToSeq(Upds(N(R), {"v"})))
<1>1. ~ Closed("unlock_evidence") /\ Asks("unlock_evidence", "RegistryManage")
  BY DeclaredSays DEF Caps, RegistryOps, FleetOps
<1>2. IsFiniteSet(G) /\ \A r \in G : RowOk(r)
  BY GetRows
<1>3. Amends(N(G), G)
  <2> HIDE DEF G
  <2> QED BY <1>2, AmendsV
<1>4. (\E r \in G : Holds(p, r)) => H = G
  BY ShownOne DEF Issued
<1>5. /\ unlock_evidence(db, p, i) = NeedCap(p, "RegistryManage", resource_camera(db, p, "segments", i, x(G)))
      /\ unlock_evidence(Shown(p), Asking("unlock_evidence", p), i)
           = NeedCap(Asking("unlock_evidence", p), "RegistryManage",
                     resource_camera(Shown(p), Asking("unlock_evidence", p), "segments", i, x(H)))
  BY DEF unlock_evidence, Hold, Each, Upds
<1> HIDE DEF N
<1>6. (\E r \in G : Holds(p, r)) => Amends(N(G), G) /\ N(H) = N(G)
  BY <1>3, <1>4
<1> QED BY <1>1, <1>5, <1>6, HoldAnswers

LEMMA ArtifactWrites ==
  ASSUME NEW op, op # "delete_site", NEW p, NEW c, CameraAllowed(p, c), NEW i \in Unused, NEW sub
  PROVE  WriteNow(op, p, attribute(i, {c}, sub)) /\ WritesOk(op, p, <<attribute(i, {c}, sub)>>)
<1> DEFINE r == Row("media_artifacts", i, {c}, sub, 0)
<1>1. RowOk(r)
  BY RowFree DEF OwnTable, FleetTable, OneCamera
<1>2. r.id = i /\ r.cams = {c}
  BY DEF Row
<1>3. Scoped(p) => Holds(p, r)
  BY <1>2 DEF Holds, CameraAllowed
<1>4. WriteNow(op, p, Ins(r))
  <2> HIDE DEF r
  <2> QED BY <1>1, <1>2, <1>3, InsNow
<1> QED BY <1>4, OneWrite DEF attribute

(* Footage. *)
LEMMA FootageServed ==
  ASSUME ApiInv, NEW p \in Credential, FootageRequests(p)
  PROVE  Served(p)
<1>1. DbOk(db)
  BY DEF ApiInv, StateOk
<1>2. \A op \in
        {"list_segments", "timeline", "gaps", "list_gaps", "snapshot_handler", "incident_segments"} :
        Asks(op, "VideoPlayback") /\ ~ Closed(op)
  BY DeclaredSays DEF Caps, PlaybackOps, FleetOps
<1>3. \A op \in
        {"record_trigger", "retry_gap", "lock_evidence", "tag_incident", "unlock_evidence"} :
        Asks(op, "RegistryManage") /\ ~ Closed(op)
  BY DeclaredSays DEF Caps, RegistryOps, FleetOps
<1>4. \A op \in {"liveview"} : Asks(op, "VideoLive") /\ ~ Closed(op)
  BY DeclaredSays DEF Caps, FleetOps
<1>5. \A op \in {"list_incidents"} : Asks(op, "EventsRead") /\ ~ Closed(op)
  BY DeclaredSays DEF Caps, EventsOps, FleetOps
<1>6. \A op \in {"list_events"} : Asks(op, "EventsRead")
  BY DeclaredSays DEF Caps, EventsOps
<1>7. \A c, ok : Answers("list_segments", p, list_segments(db, p, c, ok),
              list_segments(Shown(p), Asking("list_segments", p), c, ok))
  BY <1>1, <1>2, CapAnswers, CameraGood, GiveGood, ShownOfCamera, ValidGood DEF list_segments, Footage, OneCamera
<1>8. \A c, ok : Answers("timeline", p, timeline(db, p, c, ok), timeline(Shown(p), Asking("timeline", p), c, ok))
  BY <1>1, <1>2, CapAnswers, CameraGood, GiveGood, ShownOfCamera, ValidGood DEF timeline, Footage, OneCamera
<1>9. \A c, ok : Answers("gaps", p, gaps(db, p, c, ok), gaps(Shown(p), Asking("gaps", p), c, ok))
  BY <1>1, <1>2, CapAnswers, CameraGood, GiveGood, ShownOfCamera, ValidGood DEF gaps, Footage, OneCamera
<1>10. \A c : Answers("list_gaps", p, list_gaps(db, p, c), list_gaps(Shown(p), Asking("list_gaps", p), c))
  BY <1>1, <1>2, CapAnswers, CameraGood, GiveGood, ShownOfCamera DEF list_gaps, OneCamera
<1>11. \A c, at, ok : Answers("snapshot_handler", p, snapshot_handler(db, p, c, at, ok),
              snapshot_handler(Shown(p), Asking("snapshot_handler", p), c, at, ok))
  <2> SUFFICES ASSUME NEW c, NEW at, NEW ok
               PROVE  Answers("snapshot_handler", p, snapshot_handler(db, p, c, at, ok),
                              snapshot_handler(Shown(p), Asking("snapshot_handler", p), c, at, ok))
    OBVIOUS
  <2> DEFINE op == "snapshot_handler"
             x(d) == IF at THEN Valid(ok, Found(Footage(d, c), Give(Footage(d, c))))
                     ELSE Found(Get(d, "cameras", c), Give(Get(d, "cameras", c)))
  <2>1. ASSUME CameraAllowed(p, c) PROVE Good(op, p, x(db), x(Shown(p)))
    <3>1. Footage(Shown(p), c) = Footage(db, c) /\ Get(Shown(p), "cameras", c) = Get(db, "cameras", c)
      BY <1>1, <2>1, ShownOfCamera, ShownGet DEF Footage, OneCamera, OwnTable
    <3>2. \A X : Good(op, p, Found(X, Give(X)), Found(X, Give(X)))
      BY <1>2, GiveGood, FoundGood
    <3>3. \A X : Good(op, p, Valid(ok, Found(X, Give(X))), Valid(ok, Found(X, Give(X))))
      BY <3>2, ValidGood
    <3> QED BY <3>1, <3>2, <3>3
  <2>2. \A d, q : snapshot_handler(d, q, c, at, ok) = NeedCap(q, "VideoPlayback", camera_scope_check(q, c, x(d)))
    BY DEF snapshot_handler
  <2> HIDE DEF x
  <2> QED BY <1>2, <2>1, <2>2, ScopeGood, CapAnswers
<1>12. \A n : Answers("incident_segments", p, incident_segments(db, p, n),
              incident_segments(Shown(p), Asking("incident_segments", p), n))
  BY <1>1, <1>2, CapAnswers, GiveGood, ShownHeld DEF incident_segments
<1>13. \A c, ok : Answers("record_trigger", p, record_trigger(db, p, c, ok),
              record_trigger(Shown(p), Asking("record_trigger", p), c, ok))
  BY <1>1, <1>3, CapAnswers, CameraGood, ValidGood, GiveGood, ShownGet DEF record_trigger, OwnTable
<1>14. \A c, i : Answers("retry_gap", p, retry_gap(db, p, c, i), retry_gap(Shown(p), Asking("retry_gap", p), c, i))
  <2> SUFFICES ASSUME NEW c, NEW i
               PROVE  Answers("retry_gap", p, retry_gap(db, p, c, i),
                              retry_gap(Shown(p), Asking("retry_gap", p), c, i))
    OBVIOUS
  <2> DEFINE op == "retry_gap"
             R(d) == {r \in Get(d, "recording_gaps", i) : c \in r.cams}
             N(S) == {[r EXCEPT !.v = 0] : r \in S}
             x(S) == Found(N(S), Do(200, N(S), SetToSeq(Upds(N(S), {"v"}))))
             G == R(db)
             H == R(Shown(p))
  <2>1. ASSUME CameraAllowed(p, c) PROVE Good(op, p, x(G), x(H))
    <3>1. G = {r \in OfCamera(db, "recording_gaps", c) : r.id = i} /\ H = {r \in OfCamera(Shown(p), "recording_gaps", c) : r.id = i}
      BY DEF Get, OfCamera
    <3>2. H = G
      BY <1>1, <2>1, <3>1, ShownOfCamera DEF OneCamera
    <3>3. G \subseteq Get(db, "recording_gaps", i) /\ \A r \in G : c \in r.cams
      OBVIOUS
    <3> HIDE DEF G, H
    <3>4. IsFiniteSet(G) /\ G \in SUBSET db /\ \A r \in G : RowOk(r) /\ r.t = "recording_gaps"
      BY <1>1, <3>3, GetRows, FS_Subset
    <3>5. \A r \in G : Scoped(p) => Holds(p, r)
      <4> TAKE r \in G
      <4>1. r.cams = {c}
        BY <3>3, <3>4 DEF RowOk, OneCamera
      <4> QED BY <2>1, <4>1 DEF CameraAllowed, Holds
    <3>6. Amends(N(G), G)
      BY <3>4, AmendsV
    <3> HIDE DEF N
    <3>7. WritesOk(op, p, SetToSeq(Upds(N(G), {"v"})))
      BY <1>1, <3>4, <3>5, <3>6, UpdWrites DEF Plain
    <3>8. Good(op, p, Do(200, N(G), SetToSeq(Upds(N(G), {"v"}))), Do(200, N(G), SetToSeq(Upds(N(G), {"v"}))))
      BY <1>3, <3>7, DoGood, ZenonT(60)
    <3>9. Good(op, p, x(G), x(G))
      BY <3>8, FoundGood
    <3> QED BY <3>2, <3>9
  <2>2. /\ retry_gap(db, p, c, i) = NeedCap(p, "RegistryManage", camera_for(db, p, c, x(G)))
        /\ retry_gap(Shown(p), Asking(op, p), c, i)
             = NeedCap(Asking(op, p), "RegistryManage", camera_for(Shown(p), Asking(op, p), c, x(H)))
    BY DEF retry_gap, Each, Upds
  <2> HIDE DEF x, G, H
  <2>3. Good(op, p, camera_for(db, p, c, x(G)), camera_for(Shown(p), Asking(op, p), c, x(H)))
    BY <1>1, <2>1, CameraGood
  <2>4. Answers(op, p, NeedCap(p, "RegistryManage", camera_for(db, p, c, x(G))),
                NeedCap(Asking(op, p), "RegistryManage", camera_for(Shown(p), Asking(op, p), c, x(H))))
    BY <1>3, <2>3, CapAnswers
  <2> QED BY <2>2, <2>4
<1>15. \A i, n : Answers("lock_evidence", p, lock_evidence(db, p, i, n),
              lock_evidence(Shown(p), Asking("lock_evidence", p), i, n))
  BY <1>1, LockAnswers
<1>16. \A i, n : Answers("tag_incident", p, tag_incident(db, p, i, n),
              tag_incident(Shown(p), Asking("tag_incident", p), i, n))
  BY <1>1, TagAnswers
<1>17. \A i : Answers("unlock_evidence", p, unlock_evidence(db, p, i),
              unlock_evidence(Shown(p), Asking("unlock_evidence", p), i))
  BY <1>1, UnlockAnswers
<1>18. \A c : Answers("liveview", p, liveview(db, p, c), liveview(Shown(p), Asking("liveview", p), c))
  <2> TAKE c
  <2> DEFINE op == "liveview"
             x(d) == Found(Get(d, "cameras", c), Give(Get(d, "cameras", c)))
  <2>1. ASSUME CameraAllowed(p, c) PROVE Good(op, p, x(db), x(Shown(p)))
    <3>1. Get(Shown(p), "cameras", c) = Get(db, "cameras", c)
      BY <1>1, <2>1, ShownGet DEF OwnTable
    <3>2. \A X : Good(op, p, Found(X, Give(X)), Found(X, Give(X)))
      BY <1>4, GiveGood, FoundGood
    <3> QED BY <3>1, <3>2
  <2>2. \A d, q : liveview(d, q, c) = NeedCap(q, "VideoLive", camera_scope_check(q, c, x(d)))
    BY DEF liveview
  <2> HIDE DEF x
  <2> QED BY <1>4, <2>1, <2>2, ScopeGood, CapAnswers
<1>19. Answers("list_incidents", p, list_incidents(db, p), list_incidents(Shown(p), Asking("list_incidents", p)))
  BY <1>1, <1>5, EventsAnswers, GiveWrites DEF list_incidents
<1>20. \A cs : Answers("list_events", p, list_events(db, p, cs), list_events(Shown(p), Asking("list_events", p), cs))
  BY <1>1, <1>6, EventsAnswers, GiveWrites DEF list_events
<1> QED BY <1>7, <1>8, <1>9, <1>10, <1>11, <1>12, <1>13, <1>14, <1>15, <1>16, <1>17, <1>18, <1>19, <1>20
       DEF FootageRequests, Request, Served

(* Artifacts. *)
LEMMA ArtifactServed ==
  ASSUME ApiInv, NEW p \in Credential, ArtifactRequests(p)
  PROVE  Served(p)
<1>1. DbOk(db)
  BY DEF ApiInv, StateOk
<1>2. \A op \in
        {"export_clip", "create_evidence", "list_evidence", "get_evidence"} :
        Asks(op, "VideoExport") /\ ~ Closed(op)
  BY DeclaredSays DEF Caps, ExportOps, FleetOps
<1>3. \A op \in {"create_session", "delete_session"} : Asks(op, "VideoPlayback") /\ ~ Closed(op)
  BY DeclaredSays DEF Caps, PlaybackOps, FleetOps
<1>4. \A op \in {"guard"} : \A x : Asks(op, x) /\ ~ Closed(op)
  BY DeclaredSays DEF Caps, Undocumented, FleetOps
<1>5. \A op \in {"tag_incident"} : Asks(op, "RegistryManage") /\ ~ Closed(op)
  BY DeclaredSays DEF Caps, RegistryOps, FleetOps
<1>6. \A c, ok : \A i \in Unused : Answers("export_clip", p, export_clip(db, p, c, i, ok),
              export_clip(Shown(p), Asking("export_clip", p), c, i, ok))
  <2> SUFFICES ASSUME NEW c, NEW i \in Unused, NEW ok
               PROVE  Answers("export_clip", p, export_clip(db, p, c, i, ok),
                              export_clip(Shown(p), Asking("export_clip", p), c, i, ok))
    OBVIOUS
  <2> DEFINE op == "export_clip"
             w == <<attribute(i, {c}, "clips")>>
             x(X, Y) == Valid(ok, Found(X, Found(Y, Do(200, Y, w))))
  <2>1. ASSUME CameraAllowed(p, c)
        PROVE  Good(op, p, x(Get(db, "cameras", c), Footage(db, c)), x(Get(Shown(p), "cameras", c), Footage(Shown(p), c)))
    <3>1. Footage(Shown(p), c) = Footage(db, c) /\ Get(Shown(p), "cameras", c) = Get(db, "cameras", c)
      BY <1>1, <2>1, ShownOfCamera, ShownGet DEF Footage, OneCamera, OwnTable
    <3>2. WritesOk(op, p, w)
      BY <2>1, ArtifactWrites
    <3> HIDE DEF w
    <3>3. \A Y : Good(op, p, Do(200, Y, w), Do(200, Y, w))
      BY <1>2, <3>2, DoGood, ZenonT(60)
    <3>4. \A Y : Good(op, p, Found(Y, Do(200, Y, w)), Found(Y, Do(200, Y, w)))
      BY <3>3, FoundGood
    <3>5. \A X, Y : Good(op, p, Found(X, Found(Y, Do(200, Y, w))), Found(X, Found(Y, Do(200, Y, w))))
      BY <3>4, FoundGood
    <3>6. \A X, Y : Good(op, p, x(X, Y), x(X, Y))
      BY <3>5, ValidGood
    <3> QED BY <3>1, <3>6
  <2>2. \A d, q : export_clip(d, q, c, i, ok)
                   = NeedCap(q, "VideoExport", camera_scope_check(q, c, x(Get(d, "cameras", c), Footage(d, c))))
    BY DEF export_clip
  <2> HIDE DEF x
  <2> QED BY <1>2, <2>1, <2>2, ScopeGood, CapAnswers
<1>7. \A c, ok : \A i \in Unused : Answers("create_session", p, create_session(db, p, c, i, ok),
              create_session(Shown(p), Asking("create_session", p), c, i, ok))
  <2> SUFFICES ASSUME NEW c, NEW i \in Unused, NEW ok
               PROVE  Answers("create_session", p, create_session(db, p, c, i, ok),
                              create_session(Shown(p), Asking("create_session", p), c, i, ok))
    OBVIOUS
  <2> DEFINE op == "create_session"
             w == <<attribute(i, {c}, "playback")>>
             x(X, Y) == Valid(ok, Found(X, Found(Y, Do(200, Y, w))))
  <2>1. ASSUME CameraAllowed(p, c)
        PROVE  Good(op, p, x(Get(db, "cameras", c), Footage(db, c)), x(Get(Shown(p), "cameras", c), Footage(Shown(p), c)))
    <3>1. Footage(Shown(p), c) = Footage(db, c) /\ Get(Shown(p), "cameras", c) = Get(db, "cameras", c)
      BY <1>1, <2>1, ShownOfCamera, ShownGet DEF Footage, OneCamera, OwnTable
    <3>2. WritesOk(op, p, w)
      BY <2>1, ArtifactWrites
    <3> HIDE DEF w
    <3>3. \A Y : Good(op, p, Do(200, Y, w), Do(200, Y, w))
      BY <1>3, <3>2, DoGood, ZenonT(60)
    <3>4. \A Y : Good(op, p, Found(Y, Do(200, Y, w)), Found(Y, Do(200, Y, w)))
      BY <3>3, FoundGood
    <3>5. \A X, Y : Good(op, p, Found(X, Found(Y, Do(200, Y, w))), Found(X, Found(Y, Do(200, Y, w))))
      BY <3>4, FoundGood
    <3>6. \A X, Y : Good(op, p, x(X, Y), x(X, Y))
      BY <3>5, ValidGood
    <3> QED BY <3>1, <3>6
  <2>2. \A d, q : create_session(d, q, c, i, ok)
                   = NeedCap(q, "VideoPlayback", camera_scope_check(q, c, x(Get(d, "cameras", c), Footage(d, c))))
    BY DEF create_session
  <2> HIDE DEF x
  <2> QED BY <1>3, <2>1, <2>2, ScopeGood, CapAnswers
<1>8. \A i : Answers("delete_session", p, delete_session(db, p, i),
              delete_session(Shown(p), Asking("delete_session", p), i))
  <2> TAKE i
  <2> DEFINE op == "delete_session"
             z(S) == Found(S, Do(204, {}, SetToSeq(Dels(S))))
             x(q, S) == IF Scoped(q) /\ ~ (\E r \in S : Holds(q, r)) THEN Refuse(403) ELSE z(S)
             G == Sessions(db, i)
             H == Sessions(Shown(p), i)
             q == Asking(op, p)
  <2>1. G \subseteq Get(db, "media_artifacts", i)
    BY DEF Sessions
  <2>2. (\E r \in G : Holds(p, r)) => H = G
    BY <1>1, <2>1, ShownOne DEF Sessions, Issued
  <2>3. Scoped(p) /\ (\E r \in H : Holds(p, r)) => \E r \in G : Holds(p, r)
    BY ShownIs DEF Sessions, Get
  <2>4. \A r : Holds(q, r) <=> Holds(p, r)
    BY ScopeSame
  <2>5. Scoped(q) <=> Scoped(p)
    BY ScopeSame
  <2>6. (\E r \in G : Holds(p, r)) \/ ~ Scoped(p) => WritesOk(op, p, SetToSeq(Dels(G)))
    <3> HIDE DEF G
    <3> SUFFICES ASSUME (\E r \in G : Holds(p, r)) \/ ~ Scoped(p) PROVE WritesOk(op, p, SetToSeq(Dels(G)))
      OBVIOUS
    <3>1. G \in SUBSET db /\ \A r \in G : r.t = "media_artifacts"
      BY <1>1, <2>1, GetRows
    <3>2. \A r \in G : Scoped(p) => Holds(p, r)
      BY <1>1, <2>1, GetRows
    <3> QED BY <1>1, <3>1, <3>2, DelWrites
  <2>7. Good(op, p, x(p, G), x(q, H))
    <3> HIDE DEF G, H, q
    <3>1. CASE Scoped(p) /\ ~ \E r \in G : Holds(p, r)
      <4>1. x(p, G) = Refuse(403) /\ x(q, H) = Refuse(403)
        BY <2>3, <2>4, <2>5, <3>1
      <4> HIDE DEF x
      <4> QED BY <4>1, RefuseGood
    <3>2. CASE ~ (Scoped(p) /\ ~ \E r \in G : Holds(p, r))
      <4>1. x(p, G) = z(G)
        BY <3>2
      <4>2. Scoped(p) => x(q, H) = z(G)
        BY <2>2, <2>4, <3>2
      <4>3. Good(op, p, z(G), z(G))
        BY <1>3, <2>6, <3>2, DoGood, FoundGood
      <4> HIDE DEF x, z
      <4> QED BY <4>1, <4>2, <4>3 DEF Good
    <3> QED BY <3>1, <3>2
  <2>8. /\ delete_session(db, p, i) = NeedCap(p, "VideoPlayback", x(p, G))
        /\ delete_session(Shown(p), Asking(op, p), i) = NeedCap(Asking(op, p), "VideoPlayback", x(q, H))
    BY DEF delete_session, Each, Dels
  <2> HIDE DEF x, G, H
  <2> QED BY <1>3, <2>7, <2>8, CapAnswers
<1>9. \A cs, ns, dry, ok : \A i \in Unused : Answers("create_evidence", p, create_evidence(db, p, cs, ns, i, dry, ok),
              create_evidence(Shown(p), Asking("create_evidence", p), cs, ns, i, dry, ok))
  <2> SUFFICES ASSUME NEW cs, NEW ns, NEW i \in Unused, NEW dry, NEW ok
               PROVE  Answers("create_evidence", p, create_evidence(db, p, cs, ns, i, dry, ok),
                              create_evidence(Shown(p), Asking("create_evidence", p), cs, ns, i, dry, ok))
    OBVIOUS
  <2> DEFINE op == "create_evidence"
             w(c) == <<attribute(i, {c}, "evidence"), Ins(Row("evidence_bundles", i, {c}, None, 0))>>
             e(c) == Found(Get(db, "cameras", c),
                           IF dry THEN Give(Footage(db, c)) ELSE Found(Footage(db, c), Do(200, Footage(db, c), w(c))))
             x(c) == camera_scope_check(p, c, Valid(ok, e(c)))
             a == create_evidence(db, p, cs, ns, i, dry, ok)
             b == create_evidence(Shown(p), Asking("create_evidence", p), cs, ns, i, dry, ok)
  <2>1. \A c : WritesOk(op, p, x(c).eff)
    <3> TAKE c
    <3>1. ASSUME CameraAllowed(p, c) PROVE WritesOk(op, p, w(c))
      <4> DEFINE r == Row("evidence_bundles", i, {c}, None, 0)
                 u == attribute(i, {c}, "evidence")
      <4>1. RowOk(r) /\ Holds(p, r)
        BY <3>1, MadeOne DEF OneCamera
      <4>2. r.id = i /\ r.t = "evidence_bundles" /\ Ins(r).row = r /\ u.row.t = "media_artifacts" /\ u.row.ref = "evidence"
        BY DEF Row, Ins, attribute
      <4>3. Fit(u.row, Ins(r).row) /\ Fit(Ins(r).row, u.row)
        BY <4>2 DEF Fit
      <4>4. WriteNow(op, p, u)
        BY <3>1, ArtifactWrites
      <4> HIDE DEF r, u
      <4>5. WriteNow(op, p, Ins(r))
        BY <4>1, <4>2, InsNow
      <4>6. WritesOk(op, p, <<u, Ins(r)>>)
        BY <4>3, <4>4, <4>5, TwoWrites
      <4> QED BY <4>6 DEF u, r
    <3> HIDE DEF w
    <3>2. CameraAllowed(p, c) => WritesOk(op, p, e(c).eff)
      <4> DEFINE F == Found(Footage(db, c), Do(200, Footage(db, c), w(c)))
                 y == IF dry THEN Give(Footage(db, c)) ELSE F
      <4>1. CameraAllowed(p, c) => WritesOk(op, p, Do(200, Footage(db, c), w(c)).eff)
        BY <3>1, DoWrites
      <4>2. CameraAllowed(p, c) => WritesOk(op, p, F.eff)
        BY <4>1, FoundWrites
      <4> HIDE DEF F
      <4>3. CameraAllowed(p, c) => WritesOk(op, p, y.eff)
        BY <4>2, GiveWrites
      <4> HIDE DEF y
      <4>4. CameraAllowed(p, c) => WritesOk(op, p, Found(Get(db, "cameras", c), y).eff)
        BY <4>3, FoundWrites
      <4> QED BY <4>4 DEF y, F
    <3> HIDE DEF e
    <3> QED BY <3>2, ValidWrites, ScopeWrites
  <2>2. PICK u : a = NeedCap(p, "VideoExport", u) /\ WritesOk(op, p, u.eff)
    <3> HIDE DEF e
    <3> DEFINE tagged == {r \in Rows(db, "segments") : r.ref \in ns}
               cams == UNION {r.cams : r \in tagged}
               c1 == CHOOSE c \in cs : TRUE
               c2 == CHOOSE c \in cams : TRUE
               k == Valid(Cardinality(cams) = 1, x(c2))
               y == CASE Cardinality(cs) + Cardinality(ns) # 1 -> Refuse(400)
                      [] cs # {} -> x(c1)
                      [] OTHER -> IF Scoped(p) /\ ~ (cams # {} /\ cams \subseteq p.scope) THEN Refuse(403) ELSE Found(cams, k)
    <3>1. a = NeedCap(p, "VideoExport", y)
      BY DEF create_evidence, resolve_camera, e
    <3> HIDE DEF x, a, cams, c1, c2
    <3>2. WritesOk(op, p, k.eff)
      BY <2>1, ValidWrites
    <3> HIDE DEF k
    <3>3. WritesOk(op, p, Found(cams, k).eff)
      BY <3>2, FoundWrites
    <3>4. WritesOk(op, p, y.eff)
      BY <2>1, <3>3, RefuseWrites
    <3> QED BY <3>1, <3>4
  <2>3. PICK v : b = NeedCap(Asking("create_evidence", p), "VideoExport", v)
    BY DEF create_evidence
  <2>4. Good(op, p, u, v)
    BY <1>2, <2>2 DEF Good, Spanning
  <2> HIDE DEF a, b
  <2>5. Answers(op, p, a, b)
    BY <1>2, <2>2, <2>3, <2>4, CapAnswers
  <2> QED BY <2>5 DEF a, b
<1>10. \A cs : Answers("list_evidence", p, list_evidence(db, p, cs),
              list_evidence(Shown(p), Asking("list_evidence", p), cs))
  <2> TAKE cs
  <2> DEFINE op == "list_evidence"
             x(q, S) == IF \A c \in cs : CameraAllowed(q, c) THEN Give({r \in S : cs \subseteq r.cams}) ELSE Refuse(403)
             G == Held(db, "evidence_bundles", p)
  <2>1. Held(Shown(p), "evidence_bundles", Asking(op, p)) = G
    BY ShownHeld
  <2>2. \A c : CameraAllowed(Asking(op, p), c) <=> CameraAllowed(p, c)
    BY ScopeSame
  <2>3. Good(op, p, x(p, G), x(Asking(op, p), G))
    <3>1. (\A c \in cs : CameraAllowed(Asking(op, p), c)) <=> \A c \in cs : CameraAllowed(p, c)
      BY <2>2
    <3>2. Good(op, p, Refuse(403), Refuse(403))
      BY RefuseGood
    <3> HIDE DEF G
    <3>3. \A S : Good(op, p, Give(S), Give(S))
      BY <1>2, GiveGood
    <3> QED BY <3>1, <3>2, <3>3
  <2>4. /\ list_evidence(db, p, cs) = NeedCap(p, "VideoExport", x(p, G))
        /\ list_evidence(Shown(p), Asking(op, p), cs) = NeedCap(Asking(op, p), "VideoExport", x(Asking(op, p), G))
    BY <2>1 DEF list_evidence
  <2> HIDE DEF x, G
  <2> QED BY <1>2, <2>3, <2>4, CapAnswers
<1>11. \A i : Answers("get_evidence", p, get_evidence(db, p, i), get_evidence(Shown(p), Asking("get_evidence", p), i))
  <2> TAKE i
  <2> DEFINE op == "get_evidence"
             S(d, q) == {r \in Get(d, "evidence_bundles", i) : Holds(q, r)}
             x(X) == Found(X, Give(X))
  <2>1. S(Shown(p), Asking(op, p)) = S(db, p)
    BY ScopeSame, ShownIs DEF Get
  <2>2. Good(op, p, x(S(db, p)), x(S(db, p)))
    BY <1>2, GiveGood, FoundGood
  <2>3. /\ get_evidence(db, p, i) = NeedCap(p, "VideoExport", x(S(db, p)))
        /\ get_evidence(Shown(p), Asking(op, p), i) = NeedCap(Asking(op, p), "VideoExport", x(S(Shown(p), Asking(op, p))))
    BY DEF get_evidence
  <2> HIDE DEF S, x
  <2> QED BY <1>2, <2>1, <2>2, <2>3, CapAnswers
<1>12. \A sub, c, i : Answers("guard", p, guard(db, p, sub, c, i), guard(Shown(p), Asking("guard", p), sub, c, i))
  <2> SUFFICES ASSUME NEW sub, NEW c, NEW i
               PROVE  Answers("guard", p, guard(db, p, sub, c, i),
                              guard(Shown(p), Asking("guard", p), sub, c, i))
    OBVIOUS
  <2> DEFINE op == "guard"
             A(d) == {r \in Get(d, "media_artifacts", i) : r.ref = sub}
             z(q, S) == IF Scoped(q) /\ ~ (\E r \in S : Holds(q, r)) THEN Refuse(403) ELSE Give(S)
             y(d, q) == CASE sub = "denied" -> Refuse(403)
                          [] sub \in {"recordings", "snapshots"} -> camera_scope_check(q, c, Give(Footage(d, c)))
                          [] OTHER -> z(q, A(d))
             q == Asking(op, p)
  <2>1. Good(op, p, z(p, A(db)), z(q, A(Shown(p))))
    <3>1. (\E r \in A(db) : Holds(p, r)) => A(Shown(p)) = A(db)
      BY <1>1, ShownOne DEF Issued
    <3>2. Scoped(p) /\ (\E r \in A(Shown(p)) : Holds(p, r)) => \E r \in A(db) : Holds(p, r)
      BY ShownIs DEF Get
    <3>3. (\A r : Holds(q, r) <=> Holds(p, r)) /\ (Scoped(q) <=> Scoped(p))
      BY ScopeSame
    <3> HIDE DEF A, q
    <3>4. CASE Scoped(p) /\ ~ \E r \in A(db) : Holds(p, r)
      <4>1. z(p, A(db)) = Refuse(403) /\ z(q, A(Shown(p))) = Refuse(403)
        BY <3>2, <3>3, <3>4
      <4> HIDE DEF z
      <4> QED BY <4>1, RefuseGood
    <3>5. CASE ~ (Scoped(p) /\ ~ \E r \in A(db) : Holds(p, r))
      <4>1. z(p, A(db)) = Give(A(db))
        BY <3>5
      <4>2. Scoped(p) => z(q, A(Shown(p))) = Give(A(db))
        BY <3>1, <3>3, <3>5
      <4>3. Good(op, p, Give(A(db)), Give(A(db)))
        BY <1>4, GiveGood
      <4> HIDE DEF z
      <4> QED BY <4>1, <4>2, <4>3 DEF Good
    <3> QED BY <3>4, <3>5
  <2> HIDE DEF z, A
  <2>2. Good(op, p, y(db, p), y(Shown(p), q))
    <3>1. CameraAllowed(p, c) => Footage(Shown(p), c) = Footage(db, c)
      BY <1>1, ShownOfCamera DEF Footage, OneCamera
    <3>2. CameraAllowed(p, c) => Good(op, p, Give(Footage(db, c)), Give(Footage(Shown(p), c)))
      BY <1>4, <3>1, GiveGood
    <3>3. Good(op, p, camera_scope_check(p, c, Give(Footage(db, c))), camera_scope_check(q, c, Give(Footage(Shown(p), c))))
      BY <3>2, ScopeGood
    <3>4. Good(op, p, Refuse(403), Refuse(403))
      BY RefuseGood
    <3> QED BY <2>1, <3>3, <3>4
  <2>3. CASE sub = "unknown"
    <3>1. \A d, r : guard(d, r, sub, c, i) = Refuse(403)
      BY <2>3 DEF guard
    <3>2. Good(op, p, Refuse(403), Refuse(403)) /\ ~ (Refuse(403).st < 300)
      BY RefuseGood DEF Refuse
    <3>3. Answers(op, p, Refuse(403), Refuse(403))
      BY <3>2 DEF Good, Answers
    <3> QED BY <3>1, <3>3
  <2>4. CASE sub # "unknown"
    <3>1. \A d, r : guard(d, r, sub, c, i) = NeedCap(r, requirement(sub), y(d, r))
      BY <2>4 DEF guard, z, A
    <3> HIDE DEF y
    <3>2. Answers(op, p, NeedCap(p, requirement(sub), y(db, p)), NeedCap(q, requirement(sub), y(Shown(p), q)))
      BY <1>4, <2>2, CapAnswers
    <3> QED BY <3>1, <3>2
  <2> QED BY <2>3, <2>4
<1>13. \A i, n : Answers("tag_incident", p, tag_incident(db, p, i, n),
              tag_incident(Shown(p), Asking("tag_incident", p), i, n))
  BY <1>1, TagAnswers
<1> QED BY <1>6, <1>7, <1>8, <1>9, <1>10, <1>11, <1>12, <1>13 DEF ArtifactRequests, Request, Served

-----------------------------------------------------------------------------
(* The routes of perception workers.                                          *)

LEMMA OneOfId ==
  ASSUME NEW p \in Credential, NEW q \in Credential, p.id = q.id
  PROVE  p = q
<1>1. PICK k \in Key : p = principal(k)
  BY DEF Credential
<1>2. PICK l \in Key : q = principal(l)
  BY DEF Credential
<1>3. k.id = l.id
  BY <1>1, <1>2 DEF principal
<1> QED BY <1>1, <1>2, <1>3, ApiAssumption

LEMMA RunnableShown ==
  ASSUME DbOk(db), NEW p \in Credential, NEW r, Holds(p, r)
  PROVE  Runnable(Shown(p), r) <=> Runnable(db, r)
<1>1. CASE Scoped(p)
  <2>1. \A c \in r.cams : Get(Shown(p), "cameras", c) = Get(db, "cameras", c)
    BY <1>1, ShownGet DEF Holds, CameraAllowed, OwnTable
  <2> QED BY <2>1 DEF Runnable, Enabled
<1>2. CASE ~ Scoped(p)
  BY <1>2, UnscopedAsks
<1> QED BY <1>1, <1>2

LEMMA TasksShown ==
  ASSUME DbOk(db), NEW p \in Credential, NEW op
  PROVE  {r \in Held(Shown(p), "ai_tasks", Asking(op, p)) : Runnable(Shown(p), r)}
           = {r \in Held(db, "ai_tasks", p) : Runnable(db, r)}
<1>1. Held(Shown(p), "ai_tasks", Asking(op, p)) = Held(db, "ai_tasks", p)
  BY ShownHeld
<1>2. \A r \in Held(db, "ai_tasks", p) : Runnable(Shown(p), r) <=> Runnable(db, r)
  BY RunnableShown DEF Held
<1> QED BY <1>1, <1>2

(* A credential's lease is of a camera it holds, and so is the task. *)
LEMMA LeaseShown ==
  ASSUME ApiInv, NEW p \in Credential, NEW i
  PROVE  /\ is_live(Shown(p), p, i) = is_live(db, p, i)
         /\ \A l \in is_live(db, p, i) : l \in db /\ l.t = "ai_leases" /\ RowOk(l) /\ Holds(p, l)
         /\ is_live(db, p, i) # {} =>
              /\ Get(Shown(p), "ai_tasks", i) = Get(db, "ai_tasks", i)
              /\ \A r \in Get(db, "ai_tasks", i) : Runnable(Shown(p), r) <=> Runnable(db, r)
<1>1. DbOk(db) /\ \A x, y \in db : Fit(x, y)
  BY DEF ApiInv, StateOk
<1>2. \A l \in is_live(db, p, i) : l \in db /\ l.t = "ai_leases" /\ l.id = i /\ RowOk(l) /\ Holds(p, l)
  BY <1>1 DEF is_live, Get, DbOk, RowOk
<1>3. is_live(Shown(p), p, i) = is_live(db, p, i)
  BY <1>2, ShownIs DEF is_live, Get
<1>4. ASSUME NEW l \in is_live(db, p, i), NEW r \in Get(db, "ai_tasks", i) PROVE Holds(p, r)
  <2>1. l.cams = r.cams
    BY <1>1, <1>2 DEF Fit, Get
  <2> QED BY <1>2, <2>1 DEF Holds
<1>5. is_live(db, p, i) # {} => \A r \in Get(db, "ai_tasks", i) : Holds(p, r)
  BY <1>4
<1>6. is_live(db, p, i) # {} => Get(Shown(p), "ai_tasks", i) = Get(db, "ai_tasks", i)
  BY <1>5, ShownIs DEF Get
<1>7. is_live(db, p, i) # {} => \A r \in Get(db, "ai_tasks", i) : Runnable(Shown(p), r) <=> Runnable(db, r)
  BY <1>1, <1>5, RunnableShown
<1> QED BY <1>2, <1>3, <1>6, <1>7

Leased(p, F) == {Put(Row("ai_leases", r.id, r.cams, p.id, 0)) : r \in F}
Untaken(d, p, q) == {r \in Held(d, "ai_tasks", q) : Runnable(d, r) /\ \A l \in Get(d, "ai_leases", r.id) : l.ref = p.id}

LEMMA LeaseNow ==
  ASSUME ApiInv, NEW p \in Credential, NEW op, op # "delete_site", NEW r \in Rows(db, "ai_tasks"), Holds(p, r)
  PROVE  WriteNow(op, p, Put(Row("ai_leases", r.id, r.cams, p.id, 0)))
<1> DEFINE x == Row("ai_leases", r.id, r.cams, p.id, 0)
           w == Put(x)
<1>1. DbOk(db) /\ \A y, z \in db : Fit(y, z)
  BY DEF ApiInv, StateOk
<1>2. r \in db /\ r.t = "ai_tasks" /\ RowOk(r)
  BY <1>1 DEF Rows, DbOk
<1>3. x.t = "ai_leases" /\ x.id = r.id /\ x.cams = r.cams /\ x.ref = p.id /\ w.act = "put" /\ w.row = x
  BY DEF Row, Put
<1>4. Holds(p, x)
  BY <1>3 DEF Holds
<1>5. RowOk(x)
  <2>1. \E c \in r.cams : r.cams = {c}
    BY <1>2 DEF RowOk, OneCamera
  <2>2. \A q \in Credential : q.id = p.id => Holds(q, x)
    BY <1>4, OneOfId
  <2>3. x = [t |-> x.t, id |-> x.id, cams |-> x.cams, ref |-> x.ref, v |-> x.v]
    BY DEF Row
  <2> HIDE DEF x
  <2> QED BY <1>3, <2>1, <2>2, <2>3 DEF RowOk, OwnTable, FleetTable, OneCamera
<1> HIDE DEF w, x
<1>6. WriteOk(op, p, w)
  BY <1>3, <1>4, <1>5 DEF WriteOk, OwnedRow
<1>7. Sourced(x)
  BY <1>2, <1>3 DEF Sourced, Get
<1>8. Scoped(p) => Meets(db, p, w)
  <2>1. ASSUME NEW y \in Get(db, "ai_leases", r.id) PROVE y.cams = r.cams
    BY <1>1, <1>2 DEF Fit, Get
  <2>2. \A y \in Get(db, "ai_leases", r.id) : Holds(p, y)
    BY <1>3, <1>4, <2>1 DEF Holds
  <2> QED BY <1>3, <2>2 DEF Meets
<1>9. Reinstates(db, w)
  BY <1>3 DEF Reinstates
<1>10. WriteNow(op, p, w)
  BY <1>3, <1>6, <1>7, <1>8, <1>9 DEF WriteNow
<1> QED BY <1>10 DEF w, x

LEMMA AcquireAnswers ==
  ASSUME ApiInv, NEW p \in Credential, NEW ok
  PROVE  Answers("acquire_lease", p, acquire_lease(db, p, ok),
                 acquire_lease(Shown(p), Asking("acquire_lease", p), ok))
<1> DEFINE op == "acquire_lease"
           x(q, F) == Do(200, F, SetToSeq(Leased(q, F)))
           F == Untaken(db, p, p)
           q == Asking(op, p)
           H == Untaken(Shown(p), q, q)
<1>1. DbOk(db) /\ \A y, z \in db : Fit(y, z)
  BY DEF ApiInv, StateOk
<1>2. ~ Closed(op) /\ Asks(op, "AiTasks")
  BY DeclaredSays DEF Caps, TaskOps, FleetOps
<1>3. F \subseteq Rows(db, "ai_tasks") /\ \A r \in F : Holds(p, r)
  BY DEF Untaken, Held
<1>4. Scoped(p) => H = F
  <2> SUFFICES ASSUME Scoped(p) PROVE H = F
    OBVIOUS
  <2>1. Asking(op, p) = p
    BY ScopedAsks
  <2>2. Held(Shown(p), "ai_tasks", p) = Held(db, "ai_tasks", p)
    BY <2>1, ShownHeld
  <2>3. \A r \in Held(db, "ai_tasks", p) : Runnable(Shown(p), r) <=> Runnable(db, r)
    BY <1>1, RunnableShown DEF Held
  <2>4. ASSUME NEW r \in Held(db, "ai_tasks", p) PROVE Get(Shown(p), "ai_leases", r.id) = Get(db, "ai_leases", r.id)
    <3>1. \A l \in Get(db, "ai_leases", r.id) : l.cams = r.cams
      BY <1>1 DEF Fit, Get, Held, Rows
    <3>2. \A l \in Get(db, "ai_leases", r.id) : Holds(p, l)
      BY <3>1 DEF Held, Holds
    <3> QED BY <3>2, ShownIs DEF Get
  <2> QED BY <2>1, <2>2, <2>3, <2>4 DEF Untaken
<1> HIDE DEF F, H
<1>5. WritesOk(op, p, SetToSeq(Leased(p, F)))
  <2>1. IsFiniteSet(db)
    BY <1>1 DEF DbOk
  <2>2. Rows(db, "ai_tasks") \subseteq db
    BY DEF Rows
  <2>3. IsFiniteSet(Rows(db, "ai_tasks"))
    BY <2>1, <2>2, FS_Subset
  <2>4. IsFiniteSet(F)
    BY <1>3, <2>3, FS_Subset
  <2> DEFINE f == [r \in F |-> Put(Row("ai_leases", r.id, r.cams, p.id, 0))]
  <2>5. Leased(p, F) = {f[r] : r \in F}
    BY DEF Leased
  <2>6. IsFiniteSet({f[r] : r \in F})
    <3> HIDE DEF f
    <3> QED BY <2>4, ImageFinite
  <2>7. \A r \in F : WriteNow(op, p, Put(Row("ai_leases", r.id, r.cams, p.id, 0)))
    BY <1>3, LeaseNow
  <2>8. \A w \in Leased(p, F) : WriteNow(op, p, w) /\ w.row.t = "ai_leases"
    BY <2>7 DEF Leased, Put, Row
  <2>9. IsFiniteSet(Leased(p, F))
    BY <2>5, <2>6
  <2> HIDE DEF f
  <2> QED BY <2>8, <2>9, SetWrites
<1>6. \A y : Good(op, p, Do(200, F, SetToSeq(Leased(p, F))), Do(200, F, y))
  BY <1>2, <1>5, DoGood, ZenonT(60)
<1>7. Good(op, p, x(p, F), x(q, H))
  BY <1>2, <1>4, <1>5, DoGood
<1>8. /\ acquire_lease(db, p, ok) = NeedCap(p, "AiTasks", Valid(ok, x(p, F)))
      /\ acquire_lease(Shown(p), q, ok) = NeedCap(q, "AiTasks", Valid(ok, x(q, H)))
  BY DEF acquire_lease, Each, Leased, Untaken, F, H
<1> HIDE DEF x
<1> QED BY <1>2, <1>7, <1>8, ValidGood, CapAnswers

(* What one batch writes, whether it is warned of, stored or refused. *)
Batch(t, c, n) ==
  {Put(Row("events", c, {c}, "unleased", 0)), Ins(Row(t, n, {c}, None, 0)),
   Ins(Row("media_artifacts", n, {c}, "thumbs", 0))}

LEMMA BatchWrites ==
  ASSUME DbOk(db), NEW op, op # "delete_site", NEW p, NEW c \in Camera, CameraAllowed(p, c), NEW n \in Unused,
         NEW t \in {"detections", "embeddings"}, NEW eff, eff \in Seq(Batch(t, c, n))
  PROVE  WritesOk(op, p, eff)
<1> DEFINE e == Row("events", c, {c}, "unleased", 0)
           r == Row(t, n, {c}, None, 0)
           a == Row("media_artifacts", n, {c}, "thumbs", 0)
<1>1. /\ e.t = "events" /\ e.id = c /\ e.cams = {c}
      /\ r.t = t /\ r.id = n /\ r.cams = {c}
      /\ a.t = "media_artifacts" /\ a.id = n /\ a.cams = {c} /\ a.ref = "thumbs"
  BY DEF Row
<1>2. RowOk(e) /\ RowOk(r) /\ RowOk(a)
  <2>1. RowOk(e)
    <3>1. e = [t |-> e.t, id |-> e.id, cams |-> e.cams, ref |-> e.ref, v |-> e.v]
      BY DEF Row
    <3> HIDE DEF e
    <3> QED BY <1>1, <3>1 DEF RowOk, OwnTable, FleetTable, OneCamera
  <2>2. RowOk(r)
    BY MadeOne DEF OneCamera
  <2>3. RowOk(a)
    BY RowFree DEF OwnTable, FleetTable, OneCamera
  <2> QED BY <2>1, <2>2, <2>3
<1>3. Scoped(p) => Holds(p, e) /\ Holds(p, r) /\ Holds(p, a)
  BY <1>1 DEF Holds, CameraAllowed
<1>4. Put(e).row = e /\ Ins(r).row = r /\ Ins(a).row = a
  BY WriteFields
<1>5. Batch(t, c, n) = {Put(e), Ins(r), Ins(a)}
  BY DEF Batch
<1> HIDE DEF e, r, a
<1>6. WriteNow(op, p, Put(e)) /\ WriteNow(op, p, Ins(r)) /\ WriteNow(op, p, Ins(a))
  BY <1>1, <1>2, <1>3, InsNow, PutNow
<1>7. \A x, y \in {e, r, a} : Fit(x, y)
  BY <1>1 DEF Fit
<1>8. \A w \in Batch(t, c, n) : WriteNow(op, p, w) /\ w.row \in {e, r, a}
  BY <1>4, <1>5, <1>6
<1>9. WritesIn(op, p, eff, Batch(t, c, n))
  BY <1>7, <1>8 DEF WritesIn
<1> QED BY <1>9 DEF WritesOk

Stored(d, c, ok, new, warned, eff) ==
  IF ~ Exists(d, "cameras", c) THEN Do(404, {}, warned) ELSE IF ~ ok THEN Do(400, {}, warned) ELSE Do(200, new, eff)

LEMMA StoredGood ==
  ASSUME DbOk(db), NEW p \in Credential, NEW op, ~ Closed(op), NEW c, CameraAllowed(p, c), NEW ok, NEW new,
         NEW warned, WritesOk(op, p, warned), NEW eff, WritesOk(op, p, eff)
  PROVE  Good(op, p, Stored(db, c, ok, new, warned, eff), Stored(Shown(p), c, ok, new, warned, eff))
<1>1. Exists(Shown(p), "cameras", c) <=> Exists(db, "cameras", c)
  BY ShownGet DEF Exists, OwnTable
<1>2. \A code, X : Good(op, p, Do(code, X, warned), Do(code, X, warned)) /\ Good(op, p, Do(code, X, eff), Do(code, X, eff))
  BY DoGood
<1> QED BY <1>1, <1>2 DEF Stored

LeaseCam(d, q, i) ==
  LET lease == CHOOSE l \in is_live(d, q, i) : TRUE IN CHOOSE x \in lease.cams : TRUE

Bound(d, q, i, genuine, c, ty, x, y) ==
  CASE i = None /\ Provenance = "enforce" -> Refuse(401)
    [] i = None /\ Provenance # "enforce" -> camera_scope_check(q, c, x)
    [] i # None ->
         IF is_live(d, q, i) = {} \/ ~ genuine THEN Refuse(401)
         ELSE IF {r \in Get(d, "ai_tasks", i) : Runnable(d, r)} = {} THEN Refuse(403)
         ELSE camera_scope_check(q, LeaseCam(d, q, i),
              IF c # LeaseCam(d, q, i) \/ ty \notin {r.ref : r \in Get(d, "ai_tasks", i)} \cup {None} THEN Refuse(409)
              ELSE y)

LEMMA BoundGood ==
  ASSUME ApiInv, NEW p \in Credential, NEW op, NEW i, NEW genuine, NEW c, NEW ty, NEW x, NEW u, NEW y, NEW v,
         CameraAllowed(p, c) => Good(op, p, x, u) /\ Good(op, p, y, v)
  PROVE  Good(op, p, Bound(db, p, i, genuine, c, ty, x, y), Bound(Shown(p), Asking(op, p), i, genuine, c, ty, u, v))
<1> DEFINE d == Shown(p)
           q == Asking(op, p)
           l == LeaseCam(db, p, i)
           none == is_live(db, p, i) = {} \/ ~ genuine
           idle == {r \in Get(db, "ai_tasks", i) : Runnable(db, r)} = {}
           other == c # l \/ ty \notin {r.ref : r \in Get(db, "ai_tasks", i)} \cup {None}
           Z(w) == camera_scope_check(p, l, IF other THEN Refuse(409) ELSE w)
           W(w) == IF none THEN Refuse(401) ELSE IF idle THEN Refuse(403) ELSE Z(w)
           B(z, w) == CASE i = None /\ Provenance = "enforce" -> Refuse(401)
                        [] i = None /\ Provenance # "enforce" -> camera_scope_check(p, c, z)
                        [] i # None -> W(w)
<1>1. \A z, w : Bound(db, p, i, genuine, c, ty, z, w) = B(z, w)
  BY DEF Bound
<1>2. Scoped(p) => q = p
  BY ScopedAsks
<1>3. Scoped(p) => Bound(d, q, i, genuine, c, ty, u, v) = B(u, v)
  <2> SUFFICES ASSUME Scoped(p) PROVE Bound(d, q, i, genuine, c, ty, u, v) = B(u, v)
    OBVIOUS
  <2>1. is_live(d, q, i) = is_live(db, p, i)
    BY <1>2, LeaseShown
  <2>2. LeaseCam(d, q, i) = l
    BY <2>1 DEF LeaseCam
  <2>3. is_live(db, p, i) # {} =>
          /\ Get(d, "ai_tasks", i) = Get(db, "ai_tasks", i)
          /\ {r \in Get(d, "ai_tasks", i) : Runnable(d, r)} = {r \in Get(db, "ai_tasks", i) : Runnable(db, r)}
    BY LeaseShown
  <2> HIDE DEF d, q, l
  <2> QED BY <1>2, <2>1, <2>2, <2>3 DEF Bound
<1> HIDE DEF l, none, idle, other
<1>4. ~ other => c = l
  BY DEF other
<1>5. \A code : code \in {401, 403, 409} => Good(op, p, Refuse(code), Refuse(code))
  BY RefuseGood
<1>6. Good(op, p, Z(y), Z(v))
  <2>1. CameraAllowed(p, l) /\ ~ other => Good(op, p, y, v)
    BY <1>4
  <2> QED BY <1>5, <2>1 DEF camera_scope_check
<1> HIDE DEF Z
<1>7. Good(op, p, W(y), W(v))
  BY <1>5, <1>6
<1> HIDE DEF W
<1>8. Good(op, p, camera_scope_check(p, c, x), camera_scope_check(p, c, u))
  BY <1>5 DEF camera_scope_check
<1>9. Good(op, p, B(x, y), B(u, v))
  BY <1>5, <1>7, <1>8
<1> HIDE DEF B, d, q
<1>10. CASE Scoped(p)
  BY <1>1, <1>3, <1>9, <1>10 DEF d, q
<1>11. CASE ~ Scoped(p)
  BY <1>1, <1>9, <1>11 DEF Good
<1> QED BY <1>10, <1>11

(* Tasks and leases. *)
LEMMA TasksServed ==
  ASSUME ApiInv, NEW p \in Credential, TaskRequests(p)
  PROVE  Served(p)
<1>1. DbOk(db)
  BY DEF ApiInv, StateOk
<1>2. \A op \in
        {"list_camera_tasks", "release_lease", "list_all_tasks", "sampler_status", "acquire_lease"} :
        Asks(op, "AiTasks") /\ ~ Closed(op)
  BY DeclaredSays DEF Caps, TaskOps, FleetOps
<1>3. \A op \in {"create_task", "delete_task", "update_task"} : Asks(op, "RegistryManage") /\ ~ Closed(op)
  BY DeclaredSays DEF Caps, RegistryOps, FleetOps
<1>4. \A c : Answers("list_camera_tasks", p, list_camera_tasks(db, p, c),
              list_camera_tasks(Shown(p), Asking("list_camera_tasks", p), c))
  BY <1>1, <1>2, CapAnswers, CameraGood, GiveGood, ShownOfCamera DEF list_camera_tasks, OneCamera
<1>5. \A c, ty, ok : \A i \in Unused : Answers("create_task", p, create_task(db, p, c, ty, i, ok),
              create_task(Shown(p), Asking("create_task", p), c, ty, i, ok))
  <2> SUFFICES ASSUME NEW c, NEW ty, NEW i \in Unused, NEW ok
               PROVE  Answers("create_task", p, create_task(db, p, c, ty, i, ok),
                              create_task(Shown(p), Asking("create_task", p), c, ty, i, ok))
    OBVIOUS
  <2> QED BY <1>1, <1>3, CapAnswers, CameraGood, ValidGood, GiveGood, CreateOne, ShownOfCamera DEF create_task, OneCamera
<1>6. \A i : Answers("delete_task", p, delete_task(db, p, i), delete_task(Shown(p), Asking("delete_task", p), i))
  BY <1>1, <1>3, CapAnswers, ResourceGood, EraseGood DEF delete_task, Issued
<1>7. \A i : Answers("release_lease", p, release_lease(db, p, i),
              release_lease(Shown(p), Asking("release_lease", p), i))
  <2> TAKE i
  <2> DEFINE op == "release_lease"
             x(M) == Do(200, M, SetToSeq(Dels(M)))
             G == is_live(db, p, i)
             q == Asking(op, p)
             H == is_live(Shown(p), q, i)
  <2>1. Scoped(p) => H = G
    BY LeaseShown, ScopedAsks
  <2>2. \A l \in G : l \in db /\ l.t = "ai_leases" /\ RowOk(l) /\ Holds(p, l)
    BY LeaseShown
  <2>3. /\ release_lease(db, p, i) = NeedCap(p, "AiTasks", x(G))
        /\ release_lease(Shown(p), q, i) = NeedCap(q, "AiTasks", x(H))
    BY DEF release_lease, is_live, Each, Dels
  <2> HIDE DEF G, H, q
  <2>4. WritesOk(op, p, SetToSeq(Dels(G)))
    BY <1>1, <2>2, DelWrites
  <2>5. Good(op, p, x(G), x(H))
    BY <1>2, <2>1, <2>4, DoGood
  <2> HIDE DEF x
  <2> QED BY <1>2, <2>3, <2>5, CapAnswers DEF q
<1>8. \A w : Answers("list_all_tasks", p, list_all_tasks(db, p, w),
              list_all_tasks(Shown(p), Asking("list_all_tasks", p), w))
  <2> TAKE w
  <2> DEFINE op == "list_all_tasks"
             q == Asking(op, p)
             S(d, r) == {x \in Held(d, "ai_tasks", r) : Runnable(d, x)}
             mine(d, r) == \A x \in Get(d, "workers", w) : x.ref = r.id
             k(r) == Row("workers", w, {}, r.id, 0)
             F(X, r, m) == CASE w = None -> Give(X)
                             [] w # None /\ m -> Do(200, X, <<Put(k(r))>>)
                             [] w # None /\ ~m -> IF Tier = "enforce" THEN Refuse(409) ELSE Give(X)
             X == S(db, p)
             Y == S(Shown(p), q)
             m == mine(db, p)
             n == mine(Shown(p), q)
  <2>1. Y = X
    BY <1>1, TasksShown
  <2>2. Scoped(p) => q = p /\ (n <=> m)
    BY ScopedAsks, ShownOpen DEF Open
  <2>3. WritesOk(op, p, <<Put(k(p))>>)
    <3> DEFINE r == k(p)
               y == Put(r)
    <3>1. r.t = "workers" /\ r.id = w /\ r.cams = {} /\ r.ref = p.id /\ y.act = "put" /\ y.row = r
      BY DEF Row, Put
    <3>2. RowOk(r)
      BY RowMade DEF FleetTable
    <3> HIDE DEF y, r
    <3>3. WriteOk(op, p, y) /\ Sourced(r) /\ Reinstates(db, y) /\ Meets(db, p, y)
      BY <3>1, <3>2 DEF WriteOk, OwnedRow, Sourced, Reinstates, Meets, FleetTable
    <3>4. WriteNow(op, p, y)
      BY <3>1, <3>3 DEF WriteNow
    <3>5. WritesOk(op, p, <<y>>)
      BY <3>4, OneWrite
    <3> QED BY <3>5 DEF y, r
  <2>4. /\ list_all_tasks(db, p, w) = NeedCap(p, "AiTasks", F(X, p, m))
        /\ list_all_tasks(Shown(p), q, w) = NeedCap(q, "AiTasks", F(Y, q, n))
    BY DEF list_all_tasks
  <2> HIDE DEF X, Y, k, m, n, q
  <2>5. \A e : Good(op, p, Do(200, X, <<Put(k(p))>>), Do(200, X, e))
    BY <1>2, <2>3, DoGood, ZenonT(60)
  <2>6. Good(op, p, Give(X), Give(X)) /\ Good(op, p, Refuse(409), Refuse(409))
    BY <1>2, GiveGood, RefuseGood, SMTT(60)
  <2>7. Good(op, p, F(X, p, m), F(X, p, m))
    BY <2>5, <2>6
  <2>8. Scoped(p) => F(Y, q, n) = F(X, p, m)
    BY <2>1, <2>2
  <2> HIDE DEF F
  <2>9. Good(op, p, F(X, p, m), F(Y, q, n))
    BY <2>7, <2>8 DEF Good
  <2> QED BY <1>2, <2>4, <2>9, CapAnswers DEF q
<1>9. Answers("sampler_status", p, sampler_status(db, p), sampler_status(Shown(p), Asking("sampler_status", p)))
  <2> DEFINE op == "sampler_status"
             S(d, r) == {x \in Held(d, "ai_tasks", r) : Runnable(d, x)}
  <2>1. S(Shown(p), Asking(op, p)) = S(db, p)
    BY <1>1, TasksShown
  <2>2. \A d, q : sampler_status(d, q) = NeedCap(q, "AiTasks", Give(S(d, q)))
    BY DEF sampler_status
  <2> HIDE DEF S
  <2> QED BY <1>2, <2>1, <2>2, GiveGood, CapAnswers
<1>10. \A ok : Answers("acquire_lease", p, acquire_lease(db, p, ok),
              acquire_lease(Shown(p), Asking("acquire_lease", p), ok))
  BY AcquireAnswers
<1>11. \A i, ok : Answers("update_task", p, update_task(db, p, i, ok),
              update_task(Shown(p), Asking("update_task", p), i, ok))
  BY <1>1, <1>3, CapAnswers, ResourceGood, ValidGood, PatchGood DEF update_task, Plain, Issued
<1> QED BY <1>4, <1>5, <1>6, <1>7, <1>8, <1>9, <1>10, <1>11 DEF TaskRequests, Request, Served

(* A worker's lease. *)
LEMMA LeasesServed ==
  ASSUME ApiInv, NEW p \in Credential, LeaseRequests(p)
  PROVE  Served(p)
<1>1. DbOk(db)
  BY DEF ApiInv, StateOk
<1>2. \A op \in {"acquire_lease"} : Asks(op, "AiTasks") /\ ~ Closed(op)
  BY DeclaredSays DEF Caps, TaskOps, FleetOps
<1>3. \A op \in {"update_task"} : Asks(op, "RegistryManage") /\ ~ Closed(op)
  BY DeclaredSays DEF Caps, RegistryOps, FleetOps
<1>4. \A ok : Answers("acquire_lease", p, acquire_lease(db, p, ok),
              acquire_lease(Shown(p), Asking("acquire_lease", p), ok))
  BY AcquireAnswers
<1>5. \A i, ok : Answers("update_task", p, update_task(db, p, i, ok),
              update_task(Shown(p), Asking("update_task", p), i, ok))
  BY <1>1, <1>3, CapAnswers, ResourceGood, ValidGood, PatchGood DEF update_task, Plain, Issued
<1> QED BY <1>4, <1>5 DEF LeaseRequests, Request, Served

(* Detections. *)
LEMMA IngestServed ==
  ASSUME ApiInv, NEW p \in Credential, IngestRequests(p)
  PROVE  Served(p)
<1>1. DbOk(db)
  BY DEF ApiInv, StateOk
<1>2. \A op \in {"list_detections"} : Asks(op, "EventsRead") /\ ~ Closed(op)
  BY DeclaredSays DEF Caps, EventsOps, FleetOps
<1>3. \A op \in {"ingest"} : Asks(op, "AiIngest") /\ ~ Closed(op)
  BY DeclaredSays DEF Caps, IngestOps, FleetOps
<1>4. \A c, ok : Answers("list_detections", p, list_detections(db, p, c, ok),
              list_detections(Shown(p), Asking("list_detections", p), c, ok))
  BY <1>1, <1>2, EventsAnswers, CameraWrites, GiveWrites, ValidWrites DEF list_detections
<1>5. \A i, genuine, ty, ok : \A c \in Camera : \A n \in Unused : Answers("ingest", p, ingest(db, p, i, genuine, c, ty, n, ok),
              ingest(Shown(p), Asking("ingest", p), i, genuine, c, ty, n, ok))
  <2> SUFFICES ASSUME NEW i, NEW genuine, NEW c \in Camera, NEW ty, NEW n \in Unused, NEW ok
               PROVE  Answers("ingest", p, ingest(db, p, i, genuine, c, ty, n, ok),
                              ingest(Shown(p), Asking("ingest", p), i, genuine, c, ty, n, ok))
    OBVIOUS
  <2> DEFINE op == "ingest"
             q == Asking(op, p)
             new == Row("detections", n, {c}, None, 0)
             warned == IF Provenance = "warn" THEN <<Put(Row("events", c, {c}, "unleased", 0))>> ELSE <<>>
             e(W) == W \o <<Ins(new)>>
             T(d, W) == Stored(d, c, ok, {new}, W, e(W))
             B(d, r) == Bound(d, r, i, genuine, c, ty, T(d, warned), T(d, <<>>))
  <2>1. ASSUME CameraAllowed(p, c) PROVE \A W \in {warned, <<>>} : WritesOk(op, p, W) /\ WritesOk(op, p, e(W))
    <3> DEFINE K == Batch("detections", c, n)
               u == Put(Row("events", c, {c}, "unleased", 0))
               w == Ins(new)
               a == Ins(Row("media_artifacts", n, {c}, "thumbs", 0))
    <3>1. u \in K /\ w \in K /\ a \in K
      BY DEF Batch
    <3> HIDE DEF K, u, w, a
    <3>2. <<>> \in Seq(K) /\ <<u>> \in Seq(K) /\ <<w>> \in Seq(K) /\ <<a>> \in Seq(K)
      BY <3>1
    <3>3. warned \in Seq(K)
      BY <3>2 DEF u
    <3> HIDE DEF warned
    <3>4. \A W \in Seq(K) : W \o <<w>> \in Seq(K)
      BY <3>2
    <3>5. \A W \in Seq(K) : e(W) \in Seq(K)
      BY <3>2, <3>4 DEF w, a
    <3> HIDE DEF e
    <3> QED BY <1>1, <2>1, <3>2, <3>3, <3>5, BatchWrites DEF K
  <2>2. /\ ingest(db, p, i, genuine, c, ty, n, ok) = NeedCap(p, "AiIngest", B(db, p))
        /\ ingest(Shown(p), q, i, genuine, c, ty, n, ok)
             = NeedCap(q, "AiIngest", B(Shown(p), q))
    BY DEF ingest, resolve_binding, Bound, Stored, LeaseCam
  <2> HIDE DEF e, warned, new
  <2>3. ASSUME CameraAllowed(p, c) PROVE \A W \in {warned, <<>>} : Good(op, p, T(db, W), T(Shown(p), W))
    BY <1>1, <1>3, <2>1, <2>3, StoredGood
  <2> HIDE DEF T, q
  <2>4. Good(op, p, B(db, p), B(Shown(p), q))
    BY <2>3, BoundGood DEF q
  <2> HIDE DEF B
  <2> QED BY <1>3, <2>2, <2>4, CapAnswers DEF q
<1> QED BY <1>4, <1>5, LeasesServed DEF IngestRequests, Request, Served

(* Frames and embeddings. *)
LEMMA EmbedServed ==
  ASSUME ApiInv, NEW p \in Credential, EmbedRequests(p)
  PROVE  Served(p)
<1>1. DbOk(db)
  BY DEF ApiInv, StateOk
<1>2. \A op \in {"latest_frame"} : Asks(op, "AiFrames") /\ ~ Closed(op)
  BY DeclaredSays DEF Caps, FleetOps
<1>3. \A op \in {"ingest_embeddings"} : Asks(op, "AiIngest") /\ ~ Closed(op)
  BY DeclaredSays DEF Caps, IngestOps, FleetOps
<1>4. \A c, i, sampled, ok : Answers("latest_frame", p, latest_frame(db, p, c, i, sampled, ok),
              latest_frame(Shown(p), Asking("latest_frame", p), c, i, sampled, ok))
  <2> SUFFICES ASSUME NEW c, NEW i, NEW sampled, NEW ok
               PROVE  Answers("latest_frame", p, latest_frame(db, p, c, i, sampled, ok),
                              latest_frame(Shown(p), Asking("latest_frame", p), c, i, sampled, ok))
    OBVIOUS
  <2> DEFINE op == "latest_frame"
             q == Asking(op, p)
             L(d, r) == {l \in is_live(d, r, i) : l.cams = {c}}
             x(S) == Valid(ok, IF sampled THEN Give(S) ELSE Refuse(404))
             G == L(db, p)
             H == L(Shown(p), q)
  <2>1. Scoped(p) => H = G
    BY LeaseShown, ScopedAsks
  <2>2. /\ latest_frame(db, p, c, i, sampled, ok) = NeedCap(p, "AiFrames", camera_scope_check(p, c, x(G)))
        /\ latest_frame(Shown(p), q, c, i, sampled, ok) = NeedCap(q, "AiFrames", camera_scope_check(q, c, x(H)))
    BY DEF latest_frame
  <2> HIDE DEF G, H, q
  <2>3. Good(op, p, Give(G), Give(H)) /\ Good(op, p, Refuse(404), Refuse(404))
    BY <1>2, <2>1, GiveGood, RefuseGood
  <2>4. Good(op, p, x(G), x(H))
    BY <2>3, ValidGood
  <2> HIDE DEF x
  <2> QED BY <1>2, <2>2, <2>4, ScopeGood, CapAnswers DEF q
<1>5. \A i, genuine, thumb, ok : \A c \in Camera : \A n \in Unused :
        Answers("ingest_embeddings", p, ingest_embeddings(db, p, i, genuine, c, n, thumb, ok),
              ingest_embeddings(Shown(p), Asking("ingest_embeddings", p), i, genuine, c, n, thumb, ok))
  <2> SUFFICES ASSUME NEW i, NEW genuine, NEW c \in Camera, NEW n \in Unused, NEW thumb, NEW ok
               PROVE  Answers("ingest_embeddings", p, ingest_embeddings(db, p, i, genuine, c, n, thumb, ok),
                              ingest_embeddings(Shown(p), Asking("ingest_embeddings", p), i, genuine, c, n, thumb, ok))
    OBVIOUS
  <2> DEFINE op == "ingest_embeddings"
             q == Asking(op, p)
             new == Row("embeddings", n, {c}, None, 0)
             warned == IF Provenance = "warn" THEN <<Put(Row("events", c, {c}, "unleased", 0))>> ELSE <<>>
             file == IF thumb THEN <<Ins(Row("media_artifacts", n, {c}, "thumbs", 0))>> ELSE <<>>
             e(W) == W \o <<Ins(new)>> \o file
             T(d, W) == Stored(d, c, ok, {new}, W, e(W))
             B(d, r) == Bound(d, r, i, genuine, c, None, T(d, warned), T(d, <<>>))
  <2>1. ASSUME CameraAllowed(p, c) PROVE \A W \in {warned, <<>>} : WritesOk(op, p, W) /\ WritesOk(op, p, e(W))
    <3> DEFINE K == Batch("embeddings", c, n)
               u == Put(Row("events", c, {c}, "unleased", 0))
               w == Ins(new)
               a == Ins(Row("media_artifacts", n, {c}, "thumbs", 0))
    <3>1. u \in K /\ w \in K /\ a \in K
      BY DEF Batch
    <3> HIDE DEF K, u, w, a
    <3>2. <<>> \in Seq(K) /\ <<u>> \in Seq(K) /\ <<w>> \in Seq(K) /\ <<a>> \in Seq(K)
      BY <3>1
    <3>3. warned \in Seq(K)
      BY <3>2 DEF u
    <3> HIDE DEF warned
    <3>4. \A W \in Seq(K) : W \o <<w>> \in Seq(K)
      BY <3>2
    <3>5. \A W \in Seq(K) : e(W) \in Seq(K)
      BY <3>2, <3>4 DEF w, a
    <3> HIDE DEF e
    <3> QED BY <1>1, <2>1, <3>2, <3>3, <3>5, BatchWrites DEF K
  <2>2. /\ ingest_embeddings(db, p, i, genuine, c, n, thumb, ok) = NeedCap(p, "AiIngest", B(db, p))
        /\ ingest_embeddings(Shown(p), q, i, genuine, c, n, thumb, ok)
             = NeedCap(q, "AiIngest", B(Shown(p), q))
    BY DEF ingest_embeddings, resolve_binding, Bound, Stored, LeaseCam
  <2> HIDE DEF e, warned, new
  <2>3. ASSUME CameraAllowed(p, c) PROVE \A W \in {warned, <<>>} : Good(op, p, T(db, W), T(Shown(p), W))
    BY <1>1, <1>3, <2>1, <2>3, StoredGood
  <2> HIDE DEF T, q
  <2>4. Good(op, p, B(db, p), B(Shown(p), q))
    BY <2>3, BoundGood DEF q
  <2> HIDE DEF B
  <2> QED BY <1>3, <2>2, <2>4, CapAnswers DEF q
<1> QED BY <1>4, <1>5, LeasesServed DEF EmbedRequests, Request, Served

(* A camera that keeps its site shows the site. *)
LEMMA SiteShown ==
  ASSUME NEW p, NEW r, r \in db, r.t = "cameras", Holds(p, r)
  PROVE  Get(Shown(p), "sites", r.ref) = Get(db, "sites", r.ref)
BY DEF Shown, Visible, Get, Rows

AmendedRow(r, s) == [r EXCEPT !.v = 1, !.ref = IF s = "keep" THEN @ ELSE s]

LEMMA AmendedIs ==
  ASSUME NEW r, RowOk(r), NEW s
  PROVE  AmendedRow(r, s) = Row(r.t, r.id, r.cams, IF s = "keep" THEN r.ref ELSE s, 1)
<1> DEFINE ref == IF s = "keep" THEN r.ref ELSE s
<1>1. AmendedRow(r, s) = Locked(r, ref, 1)
  BY Zenon DEF AmendedRow, Locked
<1> HIDE DEF ref
<1>2. Locked(r, ref, 1) = Row(r.t, r.id, r.cams, ref, 1)
  BY RowIs, AmendedBoth DEF Locked
<1> QED BY <1>1, <1>2 DEF ref

LEMMA UpdateCameraAnswers ==
  ASSUME DbOk(db), NEW p \in Credential, NEW c, NEW s, NEW ok
  PROVE  Answers("update_camera", p, update_camera(db, p, c, s, ok),
                 update_camera(Shown(p), Asking("update_camera", p), c, s, ok))
<1> DEFINE op == "update_camera"
           q == Asking(op, p)
           cur(S) == CHOOSE r \in S : TRUE
           save(d, n) == Valid(ok /\ Sound(d, n), Do(200, {n}, <<Upd(n, Whole)>>))
           x(d, t, S) == IF AmendedRow(cur(S), s).ref # cur(S).ref THEN require_fleet_scope(t, save(d, AmendedRow(cur(S), s)))
                         ELSE save(d, AmendedRow(cur(S), s))
           G == Get(db, "cameras", c)
           H == Get(Shown(p), "cameras", c)
           y(d, t, S) == camera_scope_check(t, c, Found(S, x(d, t, S)))
<1>1. Asks(op, "RegistryManage") /\ ~ Closed(op)
  BY DeclaredSays DEF Caps, Undocumented
<1>2. /\ update_camera(db, p, c, s, ok) = NeedCap(p, "RegistryManage", y(db, p, G))
      /\ update_camera(Shown(p), q, c, s, ok) = NeedCap(q, "RegistryManage", y(Shown(p), q, H))
  BY Zenon DEF update_camera, AmendedRow, camera_for
<1>3. ASSUME CameraAllowed(p, c), G # {} PROVE Good(op, p, x(db, p, G), x(Shown(p), q, H))
  <2>1. H = G
    BY <1>3, ShownGet DEF OwnTable
  <2>2. cur(G) \in G
    BY <1>3
  <2> HIDE DEF cur
  <2> DEFINE r == cur(G)
             n == AmendedRow(r, s)
             ref == IF s = "keep" THEN r.ref ELSE s
  <2>3. r \in db /\ RowOk(r) /\ r.t = "cameras" /\ r.id = c
    BY <2>2, GetRows
  <2>4. Holds(p, r)
    BY <1>3, <2>3 DEF RowOk, OwnTable, Holds, CameraAllowed
  <2> HIDE DEF r, G, H
  <2>5. n = Row(r.t, r.id, r.cams, ref, 1)
    BY <2>3, AmendedIs
  <2> HIDE DEF n, ref
  <2>6. n.t = "cameras" /\ n.ref = ref
    BY <2>3, <2>5 DEF Row
  <2>7. WriteNow(op, p, Upd(n, Whole))
    BY <2>3, <2>4, <2>5, UpdNow DEF Plain
  <2>8. WritesOk(op, p, <<Upd(n, Whole)>>)
    BY <2>7, OneWrite
  <2>9. Good(op, p, Do(200, {n}, <<Upd(n, Whole)>>), Do(200, {n}, <<Upd(n, Whole)>>))
    BY <1>1, <2>8, DoGood, ZenonT(60)
  <2>10. n.ref = r.ref => (Sound(Shown(p), n) <=> Sound(db, n))
    BY <2>3, <2>4, <2>6, SiteShown DEF Sound, Exists, Loose
  <2>11. n.ref = r.ref => Good(op, p, save(db, n), save(Shown(p), n))
    BY <2>9, <2>10, ValidGood
  <2>12. WritesOk(op, p, save(db, n).eff)
    BY <2>8, DoWrites, ValidWrites
  <2> HIDE DEF save
  <2>13. Good(op, p, require_fleet_scope(p, save(db, n)), require_fleet_scope(q, save(Shown(p), n)))
    BY <2>12, FleetGood
  <2> HIDE DEF q
  <2> QED BY <2>1, <2>11, <2>13 DEF r, n
<1>4. CameraAllowed(p, c) => H = G
  BY ShownGet DEF OwnTable
<1> HIDE DEF x, G, H
<1>5. CameraAllowed(p, c) => Good(op, p, Found(G, x(db, p, G)), Found(H, x(Shown(p), q, H)))
  BY <1>3, <1>4, FoundGood
<1>6. Good(op, p, y(db, p, G), y(Shown(p), q, H))
  BY <1>5, ScopeGood
<1> HIDE DEF y
<1> QED BY <1>1, <1>2, <1>6, CapAnswers

LEMMA SitesShown ==
  ASSUME NEW p \in Credential, NEW op, Scoped(p)
  PROVE  /\ \A s : visible_site(Shown(p), Asking(op, p), s) <=> visible_site(db, p, s)
         /\ {r \in Rows(Shown(p), "sites") : visible_site(Shown(p), Asking(op, p), r.id)}
              = {r \in Rows(db, "sites") : visible_site(db, p, r.id)}
         /\ \A s : visible_site(db, p, s) => Get(Shown(p), "sites", s) = Get(db, "sites", s)
<1>1. Held(Shown(p), "cameras", Asking(op, p)) = Held(db, "cameras", p)
  BY ShownHeld
<1>2. \A s : visible_site(Shown(p), Asking(op, p), s) <=> visible_site(db, p, s)
  BY <1>1, ScopeSame DEF visible_site
<1>3. ASSUME NEW r \in db, r.t = "sites", visible_site(db, p, r.id) PROVE r \in Shown(p)
  BY <1>3 DEF visible_site, Held, Shown, Visible
<1>4. Shown(p) \subseteq db
  BY ShownIs
<1>5. {r \in Rows(Shown(p), "sites") : visible_site(Shown(p), Asking(op, p), r.id)}
        = {r \in Rows(db, "sites") : visible_site(db, p, r.id)}
  BY <1>2, <1>3, <1>4 DEF Rows
<1>6. \A s : visible_site(db, p, s) => Get(Shown(p), "sites", s) = Get(db, "sites", s)
  BY <1>3, <1>4 DEF Get
<1> QED BY <1>2, <1>5, <1>6

LEMMA DeleteSiteAnswers ==
  ASSUME DbOk(db), NEW p \in Credential, NEW s
  PROVE  Answers("delete_site", p, delete_site(db, p, s), delete_site(Shown(p), Asking("delete_site", p), s))
<1> DEFINE op == "delete_site"
           G == Get(db, "sites", s)
           E == Found(G, Do(204, {}, SetToSeq(Dels(G))))
           x == IF DeleteSite(db, s) = db THEN Refuse(409) ELSE E
<1>1. Asks(op, "Admin")
  BY DeclaredSays DEF Caps, AdminOps
<1>2. /\ delete_site(db, p, s) = NeedAdmin(p, require_fleet_scope(p, Found(G, x)))
      /\ \E z : delete_site(Shown(p), Asking(op, p), s) = NeedAdmin(Asking(op, p), z)
  BY SMTT(60) DEF delete_site, Erase, Each, Dels
<1>3. ASSUME ~ Scoped(p) PROVE WritesOk(op, p, require_fleet_scope(p, Found(G, x)).eff)
  <2>1. G \subseteq db /\ IsFiniteSet(G) /\ \A r \in G : RowOk(r) /\ r.t = "sites"
    BY GetRows
  <2> HIDE DEF G
  <2>2. ASSUME NEW r \in G PROVE WriteNow(op, p, Del(r)) /\ Del(r).row.t = "sites"
    <3>1. Del(r).row = r /\ Del(r).act = "del"
      BY WriteFields
    <3>2. WriteOk(op, p, Del(r))
      BY <1>3, <2>1, <3>1 DEF WriteOk
    <3>3. Sourced(r) /\ Reinstates(db, Del(r))
      BY <2>1, <3>1 DEF Sourced, FleetTable, Reinstates
    <3> QED BY <1>3, <2>1, <3>1, <3>2, <3>3 DEF WriteNow
  <2>3. IsFiniteSet(Dels(G))
    <3> DEFINE f == [r \in G |-> Del(r)]
    <3>1. Dels(G) = {f[r] : r \in G}
      BY DEF Dels
    <3> HIDE DEF f
    <3> QED BY <2>1, <3>1, ImageFinite
  <2>4. \A w \in Dels(G) : WriteNow(op, p, w) /\ w.row.t = "sites"
    BY <2>2 DEF Dels
  <2>5. WritesOk(op, p, SetToSeq(Dels(G)))
    BY <2>3, <2>4, SetWrites
  <2>6. WritesOk(op, p, E.eff)
    BY <2>5, DoWrites, FoundWrites, ZenonT(60)
  <2> HIDE DEF E
  <2>7. WritesOk(op, p, x.eff)
    BY <2>6, RefuseWrites
  <2> HIDE DEF x
  <2> QED BY <2>7, FoundWrites, FleetWrites
<1> HIDE DEF x, G
<1> QED BY <1>1, <1>2, <1>3, AdminAnswers

(* Cameras and sites. *)
LEMMA FleetServed ==
  ASSUME ApiInv, NEW p \in Credential, FleetRequests(p)
  PROVE  Served(p)
<1>1. DbOk(db)
  BY DEF ApiInv, StateOk
<1>2. \A op \in
        {"list_cameras", "list_status", "list_sites", "get_camera", "camera_status", "test_camera", "get_site"} :
        Asks(op, "CameraRead") /\ ~ Closed(op)
  BY DeclaredSays DEF Caps, CameraReadOps, FleetOps
<1>3. \A op \in {"create_site", "update_site", "delete_site"} : Asks(op, "Admin")
  BY DeclaredSays DEF Caps, AdminOps
<1>4. \A op \in {"update_camera"} : Asks(op, "RegistryManage") /\ ~ Closed(op)
  BY DeclaredSays DEF Caps, Undocumented, FleetOps
<1>5. Answers("list_cameras", p, list_cameras(db, p), list_cameras(Shown(p), Asking("list_cameras", p)))
  BY <1>1, <1>2, CapAnswers, GiveGood, ShownHeld DEF list_cameras
<1>6. Answers("list_status", p, list_status(db, p), list_status(Shown(p), Asking("list_status", p)))
  <2> DEFINE op == "list_status"
             S(d, q) == Held(d, "camera_status", q) \cup Held(d, "cameras", q)
  <2>1. S(Shown(p), Asking(op, p)) = S(db, p)
    BY ShownHeld
  <2>2. \A d, q : list_status(d, q) = NeedCap(q, "CameraRead", Give(S(d, q)))
    BY DEF list_status
  <2> HIDE DEF S
  <2> QED BY <1>2, <2>1, <2>2, GiveGood, CapAnswers
<1>7. Answers("list_sites", p, list_sites(db, p), list_sites(Shown(p), Asking("list_sites", p)))
  <2> DEFINE op == "list_sites"
             S(d, q) == {r \in Rows(d, "sites") : visible_site(d, q, r.id)}
  <2>1. Scoped(p) => S(Shown(p), Asking(op, p)) = S(db, p)
    BY SitesShown
  <2>2. \A d, q : list_sites(d, q) = NeedCap(q, "CameraRead", Give(S(d, q)))
    BY DEF list_sites
  <2> HIDE DEF S
  <2>3. Good(op, p, Give(S(db, p)), Give(S(Shown(p), Asking(op, p))))
    BY <1>2, <2>1, GiveGood
  <2> QED BY <1>2, <2>2, <2>3, CapAnswers
<1>8. \A c : Answers("get_camera", p, get_camera(db, p, c), get_camera(Shown(p), Asking("get_camera", p), c))
  BY <1>1, <1>2, CapAnswers, CameraGood, GiveGood, ShownGet DEF get_camera, OwnTable
<1>9. \A c : Answers("camera_status", p, camera_status(db, p, c),
              camera_status(Shown(p), Asking("camera_status", p), c))
  <2> SUFFICES ASSUME NEW c
               PROVE  Answers("camera_status", p, camera_status(db, p, c),
                              camera_status(Shown(p), Asking("camera_status", p), c))
    OBVIOUS
  <2> DEFINE op == "camera_status"
             x(S, T) == Found(S, Give(S \cup T))
  <2>1. CameraAllowed(p, c) => /\ Get(Shown(p), "cameras", c) = Get(db, "cameras", c)
                               /\ Get(Shown(p), "camera_status", c) = Get(db, "camera_status", c)
    BY <1>1, ShownGet DEF OwnTable
  <2>2. \A S, T : Good(op, p, x(S, T), x(S, T))
    BY <1>2, GiveGood, FoundGood
  <2>3. \A d, q : camera_status(d, q, c)
                   = NeedCap(q, "CameraRead", camera_scope_check(q, c, x(Get(d, "camera_status", c), Get(d, "cameras", c))))
    BY DEF camera_status
  <2> HIDE DEF x
  <2> QED BY <1>2, <2>1, <2>2, <2>3, ScopeGood, CapAnswers
<1>10. \A c, ok : Answers("test_camera", p, test_camera(db, p, c, ok),
              test_camera(Shown(p), Asking("test_camera", p), c, ok))
  BY <1>1, <1>2, CapAnswers, CameraGood, ValidGood, GiveGood, ShownGet DEF test_camera, OwnTable
<1>11. \A s : Answers("get_site", p, get_site(db, p, s), get_site(Shown(p), Asking("get_site", p), s))
  <2> TAKE s
  <2> DEFINE op == "get_site"
             q == Asking(op, p)
             S(d, t) == {r \in Get(d, "sites", s) : visible_site(d, t, s)}
             x(d, t) == Found(S(d, t), Give(Get(d, "sites", s)))
  <2>1. Scoped(p) => (visible_site(Shown(p), q, s) <=> visible_site(db, p, s))
    BY SitesShown
  <2>2. Scoped(p) /\ visible_site(db, p, s) => Get(Shown(p), "sites", s) = Get(db, "sites", s)
    BY SitesShown
  <2>3. Scoped(p) => (S(db, p) = {} <=> S(Shown(p), q) = {})
    BY <2>1, <2>2
  <2>4. ASSUME S(db, p) # {}, Scoped(p) PROVE Get(Shown(p), "sites", s) = Get(db, "sites", s)
    BY <2>2, <2>4
  <2>5. \A d, t : get_site(d, t, s) = NeedCap(t, "CameraRead", x(d, t))
    BY DEF get_site
  <2> HIDE DEF S
  <2>6. S(db, p) # {} => Good(op, p, Give(Get(db, "sites", s)), Give(Get(Shown(p), "sites", s)))
    BY <1>2, <2>4, GiveGood
  <2>7. Good(op, p, x(db, p), x(Shown(p), q))
    BY <2>3, <2>6, FoundGood
  <2> HIDE DEF x
  <2> QED BY <1>2, <2>5, <2>7, CapAnswers
<1>12. \A s, ok : Answers("create_site", p, create_site(db, p, s, ok),
              create_site(Shown(p), Asking("create_site", p), s, ok))
  <2> TAKE s, ok
  <2> DEFINE op == "create_site"
             C == Create(Row("sites", s, {}, None, 0))
             x(d) == IF Exists(d, "sites", s) THEN Refuse(409) ELSE C
  <2>1. ~ Scoped(p) => WritesOk(op, p, C.eff)
    BY CreateFleet DEF FleetTable
  <2>2. \A d, q : create_site(d, q, s, ok) = NeedAdmin(q, require_fleet_scope(q, Valid(ok, x(d))))
    BY DEF create_site
  <2> HIDE DEF C
  <2>3. ~ Scoped(p) => WritesOk(op, p, x(db).eff)
    BY <2>1, RefuseWrites
  <2> HIDE DEF x
  <2> QED BY <1>3, <2>2, <2>3, ValidWrites, FleetWrites, AdminAnswers
<1>13. \A s, ok : Answers("update_site", p, update_site(db, p, s, ok),
              update_site(Shown(p), Asking("update_site", p), s, ok))
  <2> TAKE s, ok
  <2> DEFINE op == "update_site"
             x(d) == Found(Get(d, "sites", s), Valid(ok, Patch(d, "sites", s)))
  <2>1. ~ Scoped(p) => WritesOk(op, p, x(db).eff)
    BY <1>1, PatchWrites, ValidWrites, FoundWrites DEF Plain
  <2>2. \A d, q : update_site(d, q, s, ok) = NeedAdmin(q, require_fleet_scope(q, x(d)))
    BY DEF update_site
  <2> HIDE DEF x
  <2> QED BY <1>3, <2>1, <2>2, FleetWrites, AdminAnswers
<1>14. \A s : Answers("delete_site", p, delete_site(db, p, s), delete_site(Shown(p), Asking("delete_site", p), s))
  BY <1>1, DeleteSiteAnswers
<1>15. \A c, s, ok : Answers("update_camera", p, update_camera(db, p, c, s, ok),
              update_camera(Shown(p), Asking("update_camera", p), c, s, ok))
  BY <1>1, UpdateCameraAnswers
<1> QED BY <1>5, <1>6, <1>7, <1>8, <1>9, <1>10, <1>11, <1>12, <1>13, <1>14, <1>15, CameraServed
       DEF FleetRequests, Request, Served

-----------------------------------------------------------------------------
(* Every request of every area, and what runs behind them.                    *)

LEMMA CallersStand == Callers \subseteq Credential
BY DEF Callers

LEMMA RequestsServed ==
  ASSUME ApiInv, NEW p \in Credential, Requests(p)
  PROVE  Served(p)
BY FleetServed, ZonesServed, SchedulesServed, SnapshotsServed, FootageServed, ArtifactServed, TasksServed, CameraServed,
   IngestServed, EmbedServed, ControlServed, ConfigServed, OnvifServed, DestinationServed, PolicyServed, ArchiveServed,
   WebhooksServed, SettingsServed, ModulesServed, IdentityServed, PassesServed, EntryServed, GateServed, MovementServed,
   SearchServed
DEF Requests

LEMMA DroppedKeeps ==
  ASSUME ApiInv, db' \subseteq db, UNCHANGED <<pend, blame>>, \A r \in db : r.t = "sites" => r \in db'
  PROVE  ApiInv' /\ NoneDetached(db, db')
<1>1. DbOk(db')
  BY SubsetKeeps DEF ApiInv, StateOk
<1>2. StateOk(db', pend)
  BY <1>1 DEF ApiInv, StateOk
<1>3. BlameOk'
  BY BlameIs, BlamedNext DEF ApiInv
<1>4. NoneDetached(db, db')
  BY DEF NoneDetached, Rows, Exists, Get
<1> QED BY <1>2, <1>3, <1>4, SMTT(60) DEF ApiInv

LEMMA ProbeKeeps ==
  ASSUME ApiInv, ProbeModules
  PROVE  ApiInv' /\ NoneDetached(db, db')
<1> DEFINE R == Rows(db, "modules")
           N == {[r EXCEPT !.v = 1] : r \in R}
           ws == SetToSeq(Upds(N, {"v"}))
           p == [id |-> "", caps |-> {"Admin"}, scope |-> All]
           op == "probe"
<1>1. DbOk(db) /\ PendOk(pend) /\ BlameOk
  BY DEF ApiInv, StateOk
<1>2. ~ Scoped(p) /\ op # "delete_site"
  BY DEF Scoped
<1>3. R \in SUBSET db /\ \A r \in R : r.t = "modules"
  BY DEF Rows
<1>4. IsFiniteSet(R) /\ \A r \in R : RowOk(r)
  BY <1>1, <1>3, FS_Subset DEF DbOk
<1>5. db' = Apply(db, ws) /\ pend' = pend /\ blame' = blame
  BY DEF ProbeModules, Each, Upds, Patched
<1> HIDE DEF R, p
<1>6. Amends(N, R)
  BY <1>4, AmendsV
<1> HIDE DEF N
<1>7. WritesOk(op, p, ws)
  BY <1>1, <1>2, <1>3, <1>6, UpdWrites DEF Plain
<1> HIDE DEF ws
<1>8. Listed(op, p, ws)
  BY <1>7, WritesAre
<1>9. \A k \in DOMAIN ws : WriteNow(op, p, ws[k])
  BY <1>7, WritesAre
<1>10. \A x, y \in Written(ws) : Fit(x, y)
  <2>1. \A j, k \in DOMAIN ws : Fit(ws[j].row, ws[k].row)
    BY <1>7, WritesAre
  <2> QED BY <2>1 DEF Written
<1>11. \A y \in Written(ws) : RowOk(y) /\ Sourced(y)
  BY <1>9 DEF Written, WriteNow, WriteOk
<1>12. \A x \in db \cup PendRows(pend), y \in Written(ws) : Near(x, y) /\ Fit(x, y) /\ Fit(y, x)
  BY <1>11, SourcedNear, SourcedFit
<1>13. \A x, y : Near(x, y) => Near(y, x)
  BY DEF Near
<1>14. \A x \in db \cup Written(ws), y \in PendRows(pend) : Near(x, y)
  BY <1>12, <1>13 DEF ApiInv, StateOk
<1>15. \A x, y \in db \cup Written(ws) \cup PendRows(pend) : Fit(x, y)
  BY <1>10, <1>12 DEF ApiInv, StateOk
<1>16. \A y \in PendRows(pend) : RowOk(y)
  BY PendRowsOk
<1>17. StateOk(db', pend') /\ SitesKept(op, db, db')
  BY <1>1, <1>5, <1>8, <1>14, <1>15, <1>16, AppliedOk
<1>18. BlameOk'
  BY <1>1, <1>5, BlamedNext
<1> QED BY <1>17, <1>18, KeptDetaches DEF ApiInv

LEMMA BackgroundKeeps ==
  ASSUME ApiInv, Background
  PROVE  ApiInv' /\ NoneDetached(db, db')
<1>1. CASE sweep_orphans
  <2>1. PICK gone \in SUBSET Rows(db, "media_artifacts") : db' = db \ gone
    BY <1>1 DEF sweep_orphans
  <2>2. UNCHANGED <<pend, blame>>
    BY <1>1 DEF sweep_orphans
  <2> QED BY <2>1, <2>2, DroppedKeeps DEF Rows
<1>2. CASE LeaseLapses
  <2>1. PICK l \in Rows(db, "ai_leases") \cup Rows(db, "workers") : db' = db \ {l}
    BY <1>2 DEF LeaseLapses
  <2>2. UNCHANGED <<pend, blame>>
    BY <1>2 DEF LeaseLapses
  <2> QED BY <2>1, <2>2, DroppedKeeps DEF Rows
<1> QED BY <1>1, <1>2, ProbeKeeps DEF Background

-----------------------------------------------------------------------------
(* The rows there at the start: what each says follows from its table and id. *)

PlantCams(t, i) ==
  IF t \in OwnTable THEN {i}
  ELSE IF t \in FleetTable THEN {}
  ELSE IF t \in {"camera_links", "movement_candidates"} \/ <<t, i>> = <<"audit_log", "x3">> THEN Camera
  ELSE IF i = "x1" THEN {"c1"} ELSE {"c2"}

PlantRef(a, t) ==
  IF t \in {"zones", "zone_events"} THEN "a"
  ELSE IF t = "segments" /\ a \in {"footage", "artifacts"} THEN "inc"
  ELSE IF t = "media_artifacts" THEN "playback"
  ELSE IF t = "ai_tasks" THEN "t"
  ELSE IF t \in {"backup_policies", "modules"} THEN "x1"
  ELSE IF t = "backup_jobs" THEN "adm"
  ELSE IF t = "visitor_passes" THEN "active"
  ELSE IF t = "camera_links" THEN "c1"
  ELSE IF t = "movement_candidates" THEN "pending"
  ELSE IF t = "breach_alerts" THEN "open"
  ELSE None

PlantV(t) == IF t = "camera_links" THEN 1 ELSE 0

Planted(a, x) ==
  /\ x = Row(x.t, x.id, PlantCams(x.t, x.id), PlantRef(a, x.t), PlantV(x.t))
  /\ x.t # "ai_leases" /\ (x.t = "events" => x.id \notin Camera)

Sown(a, S) == IsFiniteSet(S) /\ \A x \in S : Planted(a, x)

LEMMA SownOk ==
  ASSUME NEW a, NEW S, Sown(a, S)
  PROVE  DbOk(S) /\ \A x, y \in S : Fit(x, y)
<1>1. ASSUME NEW x, Planted(a, x) PROVE RowOk(x) /\ x.cams = PlantCams(x.t, x.id) /\ x.ref = PlantRef(a, x.t)
  <2>1. x.cams = PlantCams(x.t, x.id) /\ x.ref = PlantRef(a, x.t)
    BY <1>1 DEF Planted, Row
  <2>2. x = [t |-> x.t, id |-> x.id, cams |-> x.cams, ref |-> x.ref, v |-> x.v]
    BY <1>1 DEF Planted, Row
  <2>3. x.t # "ai_leases" /\ (x.t = "events" => x.id \notin Camera)
    BY <1>1 DEF Planted
  <2>4. x.t \in OwnTable => x.cams = {x.id}
    BY <2>1 DEF PlantCams
  <2>5. x.t \in FleetTable => x.cams = {}
    BY <2>1 DEF PlantCams, OwnTable, FleetTable
  <2>6. x.t \in OneCamera => \E c \in x.cams : x.cams = {c}
    BY <2>1 DEF PlantCams, OwnTable, FleetTable, OneCamera
  <2> QED BY <2>1, <2>2, <2>3, <2>4, <2>5, <2>6 DEF RowOk
<1>2. ASSUME NEW x \in S, NEW y \in S, x.t = y.t, x.id = y.id PROVE x = y
  BY <1>2 DEF Sown, Planted
<1>3. DbOk(S)
  BY <1>1, <1>2 DEF Sown, DbOk, Keyed
<1>4. ASSUME NEW x \in S, NEW y \in S PROVE Fit(x, y)
  <2>1. Planted(a, x) /\ Planted(a, y)
    BY DEF Sown
  <2>2. x.cams = PlantCams(x.t, x.id) /\ x.ref = PlantRef(a, x.t) /\ y.cams = PlantCams(y.t, y.id)
    BY <1>1, <2>1
  <2>3. x.t # "ai_leases"
    BY <2>1 DEF Planted
  <2>4. x.t = "media_artifacts" => x.ref # "archives"
    BY <2>2 DEF PlantRef
  <2>5. x.id = y.id /\ x.t = "breach_alerts" /\ y.t = "zone_events" => x.cams = y.cams
    BY <2>2 DEF PlantCams, OwnTable, FleetTable
  <2> QED BY <2>3, <2>4, <2>5 DEF Fit
<1> QED BY <1>3, <1>4

LEMMA PlantedRow ==
  ASSUME NEW a, NEW t, t # "ai_leases", NEW i, t = "events" => i \notin Camera, NEW cams, cams = PlantCams(t, i),
         NEW ref, ref = PlantRef(a, t), NEW v, v = PlantV(t)
  PROVE  Planted(a, Row(t, i, cams, ref, v))
BY DEF Planted, Row

LEMMA SownOne ==
  ASSUME NEW a, NEW x, Planted(a, x)
  PROVE  Sown(a, {x})
BY FS_Singleton DEF Sown

LEMMA SownMore ==
  ASSUME NEW a, NEW S, Sown(a, S), NEW T, Sown(a, T)
  PROVE  Sown(a, S \cup T)
BY FS_Union DEF Sown

LEMMA SownDevice ==
  ASSUME NEW a, NEW t \in OwnTable
  PROVE  Sown(a, Device1(t))
<1> DEFINE f == [c \in Camera |-> Row(t, c, {c}, None, 0)]
<1>1. Device1(t) = {f[c] : c \in Camera}
  BY DEF Device1
<1>2. IsFiniteSet(Device1(t))
  <2> HIDE DEF f
  <2> QED BY <1>1, ApiAssumption, ImageFinite
<1>3. ASSUME NEW c \in Camera PROVE Planted(a, Row(t, c, {c}, None, 0))
  <2>1. PlantCams(t, c) = {c} /\ PlantRef(a, t) = None /\ PlantV(t) = 0 /\ t # "ai_leases" /\ t # "events"
    BY DEF PlantCams, PlantRef, PlantV, OwnTable
  <2> QED BY <2>1, PlantedRow
<1> QED BY <1>2, <1>3 DEF Sown, Device1

LEMMA SownSites ==
  ASSUME NEW a
  PROVE  Sown(a, {Row("sites", s, {}, None, 0) : s \in Site})
<1> DEFINE f == [s \in Site |-> Row("sites", s, {}, None, 0)]
           S == {Row("sites", s, {}, None, 0) : s \in Site}
<1>1. S = {f[s] : s \in Site}
  OBVIOUS
<1>2. IsFiniteSet(S)
  <2> HIDE DEF f, S
  <2> QED BY <1>1, ApiAssumption, ImageFinite
<1>3. ASSUME NEW s \in Site PROVE Planted(a, Row("sites", s, {}, None, 0))
  <2>1. PlantCams("sites", s) = {} /\ PlantRef(a, "sites") = None /\ PlantV("sites") = 0
    BY DEF PlantCams, PlantRef, PlantV, OwnTable, FleetTable
  <2> QED BY <2>1, PlantedRow
<1> QED BY <1>2, <1>3 DEF Sown

LEMMA SownBase ==
  ASSUME NEW a
  PROVE  Sown(a, Base)
<1>1. Base = Device1("cameras") \cup {Row("sites", s, {}, None, 0) : s \in Site}
  BY DEF Base, Device1
<1>2. "cameras" \in OwnTable
  BY DEF OwnTable
<1> QED BY <1>1, <1>2, SownDevice, SownSites, SownMore

LEMMA SownEach ==
  ASSUME NEW a, NEW t, t \notin OwnTable \cup FleetTable \cup {"ai_leases", "camera_links", "movement_candidates"},
         NEW ref, ref = PlantRef(a, t)
  PROVE  Sown(a, Each1(t, ref))
<1>1. PlantCams(t, "x1") = {"c1"} /\ PlantCams(t, "x2") = {"c2"} /\ PlantV(t) = 0
  BY DEF PlantCams, PlantV
<1>2. Planted(a, Row(t, "x1", {"c1"}, ref, 0)) /\ Planted(a, Row(t, "x2", {"c2"}, ref, 0))
  BY <1>1, PlantedRow, SeedsAssumption
<1>3. Each1(t, ref) = {Row(t, "x1", {"c1"}, ref, 0)} \cup {Row(t, "x2", {"c2"}, ref, 0)}
  BY DEF Each1
<1>4. Sown(a, {Row(t, "x1", {"c1"}, ref, 0)}) /\ Sown(a, {Row(t, "x2", {"c2"}, ref, 0)})
  BY <1>2, SownOne
<1>5. Sown(a, {Row(t, "x1", {"c1"}, ref, 0)} \cup {Row(t, "x2", {"c2"}, ref, 0)})
  BY <1>4, SownMore
<1> QED BY <1>3, <1>5

LEMMA SownFleet ==
  ASSUME NEW a, NEW t \in FleetTable, NEW i, NEW ref, ref = PlantRef(a, t)
  PROVE  Sown(a, {Row(t, i, {}, ref, 0)})
<1>1. PlantCams(t, i) = {} /\ PlantV(t) = 0 /\ t # "ai_leases" /\ t # "events"
  BY DEF PlantCams, PlantV, OwnTable, FleetTable
<1> QED BY <1>1, PlantedRow, SownOne

LEMMA SownRow ==
  ASSUME NEW a, NEW t, t \notin {"ai_leases", "events"}, NEW i, NEW cams, cams = PlantCams(t, i),
         NEW ref, ref = PlantRef(a, t), NEW v, v = PlantV(t)
  PROVE  Sown(a, {Row(t, i, cams, ref, v)})
BY PlantedRow, SownOne

LEMMA PresentSown ==
  ASSUME NEW a \in DOMAIN Seeds
  PROVE  Sown(a, Present[a])
<1> DEFINE X == CASE a \in {"control", "config"} -> Device1("device")
                  [] a = "modules" -> {Row("modules", "m1", {}, "x1", 0)} \cup Companions(Row("modules", "m1", {}, "x1", 0))
                  [] a = "gate" -> {Row("gate_settings", "1", {}, None, 0)}
                  [] a = "movement" -> Each1("entry_events", None) \cup Each1("detections", None)
                  [] a = "passes" -> {Row("visitor_passes", "x1", {}, "active", 0)}
                  [] OTHER -> {}
<1>1. Present[a] = Base \cup X
  BY DEF Present
<1>2. Sown(a, {})
  BY FS_EmptySet DEF Sown
<1>3. Sown(a, Device1("device"))
  BY SownDevice DEF OwnTable
<1>4. Sown(a, {Row("modules", "m1", {}, "x1", 0)} \cup Companions(Row("modules", "m1", {}, "x1", 0)))
  <2>1. Companions(Row("modules", "m1", {}, "x1", 0)) = {Row("api_keys", "x1", {}, None, 0)} \cup {Row("webhooks", "x1", {}, None, 0)}
    BY DEF Companions, Row
  <2>2. PlantRef(a, "modules") = "x1" /\ PlantRef(a, "api_keys") = None /\ PlantRef(a, "webhooks") = None
    BY DEF PlantRef
  <2>3. "modules" \in FleetTable /\ "api_keys" \in FleetTable /\ "webhooks" \in FleetTable
    BY DEF FleetTable
  <2>4. /\ Sown(a, {Row("modules", "m1", {}, "x1", 0)})
        /\ Sown(a, {Row("api_keys", "x1", {}, None, 0)}) /\ Sown(a, {Row("webhooks", "x1", {}, None, 0)})
    BY <2>2, <2>3, SownFleet
  <2> QED BY <2>1, <2>4, SownMore
<1>5. Sown(a, {Row("gate_settings", "1", {}, None, 0)})
  BY SownFleet DEF FleetTable, PlantRef
<1>6. Sown(a, Each1("entry_events", None)) /\ Sown(a, Each1("detections", None))
  <2>1. PlantRef(a, "entry_events") = None /\ PlantRef(a, "detections") = None
    BY DEF PlantRef
  <2> QED BY <2>1, SownEach DEF OwnTable, FleetTable
<1>7. Sown(a, {Row("visitor_passes", "x1", {}, "active", 0)})
  <2>1. PlantRef(a, "visitor_passes") = "active" /\ "visitor_passes" \in FleetTable
    BY DEF PlantRef, FleetTable
  <2> QED BY <2>1, SownFleet
<1>8. Sown(a, Each1("entry_events", None) \cup Each1("detections", None))
  BY <1>6, SownMore
<1>9. Sown(a, X)
  BY <1>2, <1>3, <1>4, <1>5, <1>7, <1>8
<1> HIDE DEF X
<1> QED BY <1>1, <1>9, SownBase, SownMore

LEMMA SeedsSown ==
  ASSUME NEW a \in DOMAIN Seeds
  PROVE  Sown(a, Seeds[a])
<1>1. \A t \in OwnTable : Sown(a, Device1(t))
  BY SownDevice, SMTT(60)
<1>2. \A t : \A ref : t \notin OwnTable \cup FleetTable \cup {"ai_leases", "camera_links", "movement_candidates"} /\ ref = PlantRef(a, t)
        => Sown(a, Each1(t, ref))
  BY SownEach
<1>3. \A t \in FleetTable : PlantRef(a, t) = None => Sown(a, Fleet1(t))
  BY SownFleet DEF Fleet1
<1>4. CASE a = "fleet"
  <2>1. Seeds[a] = Device1("camera_status")
    BY <1>4 DEF Seeds
  <2>2. Sown(a, Device1("camera_status"))
    BY <1>1 DEF OwnTable
  <2> QED BY <2>1, <2>2
<1>5. CASE a = "zones"
  <2>1. Seeds[a] = Each1("zones", "a") \cup Each1("zone_events", "a")
    BY <1>5 DEF Seeds
  <2>2. Sown(a, Each1("zones", "a"))
    <3>1. PlantRef(a, "zones") = "a"
      BY <1>5 DEF PlantRef
    <3> QED BY <1>2, <3>1 DEF OwnTable, FleetTable
  <2>3. Sown(a, Each1("zone_events", "a"))
    <3>1. PlantRef(a, "zone_events") = "a"
      BY <1>5 DEF PlantRef
    <3> QED BY <1>2, <3>1 DEF OwnTable, FleetTable
  <2> QED BY <2>1, <2>2, <2>3, SownMore
<1>6. CASE a = "schedules"
  <2>1. Seeds[a] = Each1("camera_schedules", None)
    BY <1>6 DEF Seeds
  <2>2. Sown(a, Each1("camera_schedules", None))
    <3>1. PlantRef(a, "camera_schedules") = None
      BY <1>6 DEF PlantRef
    <3> QED BY <1>2, <3>1 DEF OwnTable, FleetTable
  <2> QED BY <2>1, <2>2
<1>7. CASE a = "snapshots"
  <2>1. Seeds[a] = Each1("snapshot_schedules", None) \cup Each1("snapshots", None)
    BY <1>7 DEF Seeds
  <2>2. Sown(a, Each1("snapshot_schedules", None))
    <3>1. PlantRef(a, "snapshot_schedules") = None
      BY <1>7 DEF PlantRef
    <3> QED BY <1>2, <3>1 DEF OwnTable, FleetTable
  <2>3. Sown(a, Each1("snapshots", None))
    <3>1. PlantRef(a, "snapshots") = None
      BY <1>7 DEF PlantRef
    <3> QED BY <1>2, <3>1 DEF OwnTable, FleetTable
  <2> QED BY <2>1, <2>2, <2>3, SownMore
<1>8. CASE a = "footage"
  <2>1. Seeds[a] = Each1("segments", "inc") \cup Each1("recording_gaps", None) \cup Each1("events", None)
    BY <1>8 DEF Seeds
  <2>2. Sown(a, Each1("segments", "inc"))
    <3>1. PlantRef(a, "segments") = "inc"
      BY <1>8 DEF PlantRef
    <3> QED BY <1>2, <3>1 DEF OwnTable, FleetTable
  <2>3. Sown(a, Each1("recording_gaps", None))
    <3>1. PlantRef(a, "recording_gaps") = None
      BY <1>8 DEF PlantRef
    <3> QED BY <1>2, <3>1 DEF OwnTable, FleetTable
  <2>4. Sown(a, Each1("events", None))
    <3>1. PlantRef(a, "events") = None
      BY <1>8 DEF PlantRef
    <3> QED BY <1>2, <3>1 DEF OwnTable, FleetTable
  <2>5. Sown(a, Each1("segments", "inc") \cup Each1("recording_gaps", None))
    BY <2>2, <2>3, SownMore
  <2>6. Sown(a, Each1("segments", "inc") \cup Each1("recording_gaps", None) \cup Each1("events", None))
    BY <2>5, <2>4, SownMore
  <2> QED BY <2>1, <2>6
<1>9. CASE a = "artifacts"
  <2>1. Seeds[a] = Each1("segments", "inc") \cup Each1("media_artifacts", "playback") \cup Each1("evidence_bundles", None)
    BY <1>9 DEF Seeds
  <2>2. Sown(a, Each1("segments", "inc"))
    <3>1. PlantRef(a, "segments") = "inc"
      BY <1>9 DEF PlantRef
    <3> QED BY <1>2, <3>1 DEF OwnTable, FleetTable
  <2>3. Sown(a, Each1("media_artifacts", "playback"))
    <3>1. PlantRef(a, "media_artifacts") = "playback"
      BY <1>9 DEF PlantRef
    <3> QED BY <1>2, <3>1 DEF OwnTable, FleetTable
  <2>4. Sown(a, Each1("evidence_bundles", None))
    <3>1. PlantRef(a, "evidence_bundles") = None
      BY <1>9 DEF PlantRef
    <3> QED BY <1>2, <3>1 DEF OwnTable, FleetTable
  <2>5. Sown(a, Each1("segments", "inc") \cup Each1("media_artifacts", "playback"))
    BY <2>2, <2>3, SownMore
  <2>6. Sown(a, Each1("segments", "inc") \cup Each1("media_artifacts", "playback") \cup Each1("evidence_bundles", None))
    BY <2>5, <2>4, SownMore
  <2> QED BY <2>1, <2>6
<1>10. CASE a = "tasks"
  <2>1. Seeds[a] = {Row("ai_tasks", "x2", {"c2"}, "t", 0)}
    BY <1>10 DEF Seeds
  <2>2. Sown(a, {Row("ai_tasks", "x2", {"c2"}, "t", 0)})
    <3>1. PlantCams("ai_tasks", "x2") = {"c2"} /\ PlantRef(a, "ai_tasks") = "t" /\ PlantV("ai_tasks") = 0
      BY DEF PlantCams, PlantRef, PlantV, OwnTable, FleetTable
    <3> QED BY <3>1, SownRow
  <2> QED BY <2>1, <2>2
<1>11. CASE a = "ingest"
  <2>1. Seeds[a] = Each1("ai_tasks", "t")
    BY <1>11 DEF Seeds
  <2>2. Sown(a, Each1("ai_tasks", "t"))
    <3>1. PlantRef(a, "ai_tasks") = "t"
      BY <1>11 DEF PlantRef
    <3> QED BY <1>2, <3>1 DEF OwnTable, FleetTable
  <2> QED BY <2>1, <2>2
<1>12. CASE a = "embeds"
  <2>1. Seeds[a] = Each1("ai_tasks", "t")
    BY <1>12 DEF Seeds
  <2>2. Sown(a, Each1("ai_tasks", "t"))
    <3>1. PlantRef(a, "ai_tasks") = "t"
      BY <1>12 DEF PlantRef
    <3> QED BY <1>2, <3>1 DEF OwnTable, FleetTable
  <2> QED BY <2>1, <2>2
<1>13. CASE a = "control"
  <2>1. Seeds[a] = Device1("capabilities")
    BY <1>13 DEF Seeds
  <2>2. Sown(a, Device1("capabilities"))
    BY <1>1 DEF OwnTable
  <2> QED BY <2>1, <2>2
<1>14. CASE a = "config"
  <2>1. Seeds[a] = Device1("camera_isapi")
    BY <1>14 DEF Seeds
  <2>2. Sown(a, Device1("camera_isapi"))
    BY <1>1 DEF OwnTable
  <2> QED BY <2>1, <2>2
<1>15. CASE a = "onvif"
  <2>1. Seeds[a] = Device1("camera_onvif") \cup Device1("presets")
    BY <1>15 DEF Seeds
  <2>2. Sown(a, Device1("camera_onvif"))
    BY <1>1 DEF OwnTable
  <2>3. Sown(a, Device1("presets"))
    BY <1>1 DEF OwnTable
  <2> QED BY <2>1, <2>2, <2>3, SownMore
<1>16. CASE a = "destinations"
  <2>1. Seeds[a] = {Row("backup_policies", "x1", {"c1"}, "x1", 0)} \cup Fleet1("backup_destinations")
    BY <1>16 DEF Seeds
  <2>2. Sown(a, {Row("backup_policies", "x1", {"c1"}, "x1", 0)})
    <3>1. PlantCams("backup_policies", "x1") = {"c1"} /\ PlantRef(a, "backup_policies") = "x1" /\ PlantV("backup_policies") = 0
      BY DEF PlantCams, PlantRef, PlantV, OwnTable, FleetTable
    <3> QED BY <3>1, SownRow
  <2>3. Sown(a, Fleet1("backup_destinations"))
    <3>1. PlantRef(a, "backup_destinations") = None
      BY DEF PlantRef
    <3> QED BY <1>3, <3>1 DEF FleetTable
  <2> QED BY <2>1, <2>2, <2>3, SownMore
<1>17. CASE a = "policies"
  <2>1. Seeds[a] = {Row("backup_policies", "x1", {"c1"}, "x1", 0)} \cup Fleet1("backup_destinations")
    BY <1>17 DEF Seeds
  <2>2. Sown(a, {Row("backup_policies", "x1", {"c1"}, "x1", 0)})
    <3>1. PlantCams("backup_policies", "x1") = {"c1"} /\ PlantRef(a, "backup_policies") = "x1" /\ PlantV("backup_policies") = 0
      BY DEF PlantCams, PlantRef, PlantV, OwnTable, FleetTable
    <3> QED BY <3>1, SownRow
  <2>3. Sown(a, Fleet1("backup_destinations"))
    <3>1. PlantRef(a, "backup_destinations") = None
      BY DEF PlantRef
    <3> QED BY <1>3, <3>1 DEF FleetTable
  <2> QED BY <2>1, <2>2, <2>3, SownMore
<1>18. CASE a = "archives"
  <2>1. Seeds[a] = Each1("segments", None) \cup Each1("backup_jobs", "adm")
    BY <1>18 DEF Seeds
  <2>2. Sown(a, Each1("segments", None))
    <3>1. PlantRef(a, "segments") = None
      BY <1>18 DEF PlantRef
    <3> QED BY <1>2, <3>1 DEF OwnTable, FleetTable
  <2>3. Sown(a, Each1("backup_jobs", "adm"))
    <3>1. PlantRef(a, "backup_jobs") = "adm"
      BY <1>18 DEF PlantRef
    <3> QED BY <1>2, <3>1 DEF OwnTable, FleetTable
  <2> QED BY <2>1, <2>2, <2>3, SownMore
<1>19. CASE a = "webhooks"
  <2>1. Seeds[a] = Fleet1("webhooks") \cup Each1("events", None)
    BY <1>19 DEF Seeds
  <2>2. Sown(a, Fleet1("webhooks"))
    <3>1. PlantRef(a, "webhooks") = None
      BY DEF PlantRef
    <3> QED BY <1>3, <3>1 DEF FleetTable
  <2>3. Sown(a, Each1("events", None))
    <3>1. PlantRef(a, "events") = None
      BY <1>19 DEF PlantRef
    <3> QED BY <1>2, <3>1 DEF OwnTable, FleetTable
  <2> QED BY <2>1, <2>2, <2>3, SownMore
<1>20. CASE a = "settings"
  <2>1. Seeds[a] = Each1("segments", None) \cup Fleet1("box_alerts") \cup Fleet1("outbox")
    BY <1>20 DEF Seeds
  <2>2. Sown(a, Each1("segments", None))
    <3>1. PlantRef(a, "segments") = None
      BY <1>20 DEF PlantRef
    <3> QED BY <1>2, <3>1 DEF OwnTable, FleetTable
  <2>3. Sown(a, Fleet1("box_alerts"))
    <3>1. PlantRef(a, "box_alerts") = None
      BY DEF PlantRef
    <3> QED BY <1>3, <3>1 DEF FleetTable
  <2>4. Sown(a, Fleet1("outbox"))
    <3>1. PlantRef(a, "outbox") = None
      BY DEF PlantRef
    <3> QED BY <1>3, <3>1 DEF FleetTable
  <2>5. Sown(a, Each1("segments", None) \cup Fleet1("box_alerts"))
    BY <2>2, <2>3, SownMore
  <2>6. Sown(a, Each1("segments", None) \cup Fleet1("box_alerts") \cup Fleet1("outbox"))
    BY <2>5, <2>4, SownMore
  <2> QED BY <2>1, <2>6
<1>21. CASE a = "modules"
  <2>1. Seeds[a] = {}
    BY <1>21 DEF Seeds
  <2>2. Sown(a, {})
    BY FS_EmptySet DEF Sown
  <2> QED BY <2>1, <2>2
<1>22. CASE a = "identity"
  <2>1. Seeds[a] = Fleet1("vehicles") \cup Fleet1("watchlist")
    BY <1>22 DEF Seeds
  <2>2. Sown(a, Fleet1("vehicles"))
    <3>1. PlantRef(a, "vehicles") = None
      BY DEF PlantRef
    <3> QED BY <1>3, <3>1 DEF FleetTable
  <2>3. Sown(a, Fleet1("watchlist"))
    <3>1. PlantRef(a, "watchlist") = None
      BY DEF PlantRef
    <3> QED BY <1>3, <3>1 DEF FleetTable
  <2> QED BY <2>1, <2>2, <2>3, SownMore
<1>23. CASE a = "passes"
  <2>1. Seeds[a] = {}
    BY <1>23 DEF Seeds
  <2>2. Sown(a, {})
    BY FS_EmptySet DEF Sown
  <2> QED BY <2>1, <2>2
<1>24. CASE a = "entry"
  <2>1. Seeds[a] = Each1("entry_events", None) \cup Each1("audit_log", None) \cup {Row("audit_log", "x3", Camera, None, 0)}
    BY <1>24 DEF Seeds
  <2>2. Sown(a, Each1("entry_events", None))
    <3>1. PlantRef(a, "entry_events") = None
      BY <1>24 DEF PlantRef
    <3> QED BY <1>2, <3>1 DEF OwnTable, FleetTable
  <2>3. Sown(a, Each1("audit_log", None))
    <3>1. PlantRef(a, "audit_log") = None
      BY <1>24 DEF PlantRef
    <3> QED BY <1>2, <3>1 DEF OwnTable, FleetTable
  <2>4. Sown(a, {Row("audit_log", "x3", Camera, None, 0)})
    <3>1. PlantCams("audit_log", "x3") = Camera /\ PlantRef(a, "audit_log") = None /\ PlantV("audit_log") = 0
      BY DEF PlantCams, PlantRef, PlantV, OwnTable, FleetTable
    <3> QED BY <3>1, SownRow
  <2>5. Sown(a, Each1("entry_events", None) \cup Each1("audit_log", None))
    BY <2>2, <2>3, SownMore
  <2>6. Sown(a, Each1("entry_events", None) \cup Each1("audit_log", None) \cup {Row("audit_log", "x3", Camera, None, 0)})
    BY <2>5, <2>4, SownMore
  <2> QED BY <2>1, <2>6
<1>25. CASE a = "gate"
  <2>1. Seeds[a] = Device1("gate_policies")
    BY <1>25 DEF Seeds
  <2>2. Sown(a, Device1("gate_policies"))
    BY <1>1 DEF OwnTable
  <2> QED BY <2>1, <2>2
<1>26. CASE a = "movement"
  <2>1. Seeds[a] = {Row("camera_links", "x1", Camera, "c1", 1)} \cup Each1("zone_events", "a")
          \cup {Row("movement_candidates", "x1", Camera, "pending", 0)} \cup {Row("breach_alerts", "x1", {"c1"}, "open", 0)}
    BY <1>26 DEF Seeds
  <2>2. Sown(a, {Row("camera_links", "x1", Camera, "c1", 1)})
    <3>1. PlantCams("camera_links", "x1") = Camera /\ PlantRef(a, "camera_links") = "c1" /\ PlantV("camera_links") = 1
      BY DEF PlantCams, PlantRef, PlantV, OwnTable, FleetTable
    <3> QED BY <3>1, SownRow
  <2>3. Sown(a, Each1("zone_events", "a"))
    <3>1. PlantRef(a, "zone_events") = "a"
      BY <1>26 DEF PlantRef
    <3> QED BY <1>2, <3>1 DEF OwnTable, FleetTable
  <2>4. Sown(a, {Row("movement_candidates", "x1", Camera, "pending", 0)})
    <3>1. PlantCams("movement_candidates", "x1") = Camera /\ PlantRef(a, "movement_candidates") = "pending"
            /\ PlantV("movement_candidates") = 0
      BY DEF PlantCams, PlantRef, PlantV, OwnTable, FleetTable
    <3> QED BY <3>1, SownRow
  <2>5. Sown(a, {Row("breach_alerts", "x1", {"c1"}, "open", 0)})
    <3>1. PlantCams("breach_alerts", "x1") = {"c1"} /\ PlantRef(a, "breach_alerts") = "open" /\ PlantV("breach_alerts") = 0
      BY DEF PlantCams, PlantRef, PlantV, OwnTable, FleetTable
    <3> QED BY <3>1, SownRow
  <2>6. Sown(a, {Row("camera_links", "x1", Camera, "c1", 1)} \cup Each1("zone_events", "a"))
    BY <2>2, <2>3, SownMore
  <2>7. Sown(a, {Row("camera_links", "x1", Camera, "c1", 1)} \cup Each1("zone_events", "a")
          \cup {Row("movement_candidates", "x1", Camera, "pending", 0)})
    BY <2>6, <2>4, SownMore
  <2>8. Sown(a, {Row("camera_links", "x1", Camera, "c1", 1)} \cup Each1("zone_events", "a")
          \cup {Row("movement_candidates", "x1", Camera, "pending", 0)} \cup {Row("breach_alerts", "x1", {"c1"}, "open", 0)})
    BY <2>7, <2>5, SownMore
  <2> QED BY <2>1, <2>8
<1>27. CASE a = "search"
  <2>1. Seeds[a] = {Row("zones", "x1", {"c1"}, "a", 0)} \cup {Row("zones", "x2", {"c2"}, "a", 0)}
          \cup {Row("zone_events", "x1", {"c1"}, "a", 0)} \cup Each1("detections", None)
    BY <1>27 DEF Seeds
  <2>2. Sown(a, {Row("zones", "x1", {"c1"}, "a", 0)})
    <3>1. PlantCams("zones", "x1") = {"c1"} /\ PlantRef(a, "zones") = "a" /\ PlantV("zones") = 0
      BY DEF PlantCams, PlantRef, PlantV, OwnTable, FleetTable
    <3> QED BY <3>1, SownRow
  <2>3. Sown(a, {Row("zones", "x2", {"c2"}, "a", 0)})
    <3>1. PlantCams("zones", "x2") = {"c2"} /\ PlantRef(a, "zones") = "a" /\ PlantV("zones") = 0
      BY DEF PlantCams, PlantRef, PlantV, OwnTable, FleetTable
    <3> QED BY <3>1, SownRow
  <2>4. Sown(a, {Row("zone_events", "x1", {"c1"}, "a", 0)})
    <3>1. PlantCams("zone_events", "x1") = {"c1"} /\ PlantRef(a, "zone_events") = "a" /\ PlantV("zone_events") = 0
      BY DEF PlantCams, PlantRef, PlantV, OwnTable, FleetTable
    <3> QED BY <3>1, SownRow
  <2>5. Sown(a, Each1("detections", None))
    <3>1. PlantRef(a, "detections") = None
      BY <1>27 DEF PlantRef
    <3> QED BY <1>2, <3>1 DEF OwnTable, FleetTable
  <2>6. Sown(a, {Row("zones", "x1", {"c1"}, "a", 0)} \cup {Row("zones", "x2", {"c2"}, "a", 0)})
    BY <2>2, <2>3, SownMore
  <2>7. Sown(a, {Row("zones", "x1", {"c1"}, "a", 0)} \cup {Row("zones", "x2", {"c2"}, "a", 0)}
          \cup {Row("zone_events", "x1", {"c1"}, "a", 0)})
    BY <2>6, <2>4, SownMore
  <2>8. Sown(a, {Row("zones", "x1", {"c1"}, "a", 0)} \cup {Row("zones", "x2", {"c2"}, "a", 0)}
          \cup {Row("zone_events", "x1", {"c1"}, "a", 0)} \cup Each1("detections", None))
    BY <2>7, <2>5, SownMore
  <2> QED BY <2>1, <2>8
<1>28. DOMAIN Seeds =
        {"fleet", "zones", "schedules", "snapshots", "footage", "artifacts", "tasks", "ingest", "embeds", "control",
                "config", "onvif", "destinations", "policies", "archives", "webhooks", "settings", "modules", "identity",
                "passes", "entry", "gate", "movement", "search"}
  BY DEF Seeds
<1> QED BY <1>4, <1>5, <1>6, <1>7, <1>8, <1>9, <1>10, <1>11, <1>12, <1>13, <1>14, <1>15, <1>16, <1>17, <1>18, <1>19,
        <1>20, <1>21, <1>22, <1>23, <1>24, <1>25, <1>26, <1>27, <1>28

LEMMA ApiInvInit ==
  ASSUME MCInit
  PROVE  ApiInv
<1>1. pend = {} /\ blame = {}
  BY DEF MCInit
<1>2. DbOk(db) /\ \A x, y \in db : Fit(x, y)
  <2>1. CASE area \in DOMAIN Seeds /\ \E seeds \in SUBSET Seeds[area] : db = Present[area] \cup seeds
    <3> DEFINE S == Present[area] \cup Seeds[area]
    <3>1. Sown(area, S)
      BY <2>1, PresentSown, SeedsSown, SownMore
    <3>2. db \subseteq S
      BY <2>1
    <3> HIDE DEF S
    <3> QED BY <3>1, <3>2, SownOk, SubsetKeeps
  <2>2. CASE db = {}
    BY <2>2, FS_EmptySet DEF DbOk, Keyed
  <2> QED BY <2>1, <2>2 DEF MCInit
<1>3. PendRows(pend) = {} /\ PendOk(pend)
  BY <1>1 DEF PendRows, PendOk
<1>4. BlameOk
  BY <1>1, BlameIs
<1> QED BY <1>2, <1>3, <1>4 DEF ApiInv, StateOk

LEMMA ApiNextKeeps ==
  ASSUME ApiInv, [MCNext]_<<apiVars, acctVars, area>>
  PROVE  ApiInv' /\ NoneDetached(db, db')
<1>1. CASE \E p \in Callers : Requests(p)
  BY <1>1, CallersStand, RequestsServed, ServedKeeps
<1>2. CASE UNCHANGED apiVars
  <2>1. db' = db /\ pend' = pend /\ blame' = blame
    BY <1>2 DEF apiVars
  <2>2. BlameOk'
    BY <2>1, BlamedNext DEF ApiInv
  <2> QED BY <2>1, <2>2, SameDetaches DEF ApiInv
<1> QED BY <1>1, <1>2, BackgroundKeeps, FinishKeeps DEF MCNext

(* The rules about rows, pending writes and their owners, for any cameras, sites, ids and credentials,
   any interleaving of requests, and any database the server can be in. *)
THEOREM ApiAlwaysInv == MCSpec => []ApiInv
<1>1. MCInit => ApiInv
  BY ApiInvInit
<1>2. ApiInv /\ [MCNext]_<<apiVars, acctVars, area>> => ApiInv'
  BY ApiNextKeeps
<1> QED BY <1>1, <1>2, PTL DEF MCSpec

(* What a scoped credential is told never depends on the cameras it was not granted: every handler but
   the export by incident answers as on a database without their rows (state.rs: camera_for,
   resource_camera, camera_scope_filter). *)
THEOREM NeverInterferes == MCSpec => []NonInterference
<1>1. ApiInv => NonInterference
  BY DEF ApiInv, BlameOk
<1> QED BY <1>1, ApiAlwaysInv, PTL

(* A scoped credential never changes a row of a camera it was not granted nor a fleet-wide row, however
   late its writes come, unless they are a policy's whose selection changed in between (state.rs:
   resource_camera, confine_camera_ids; backup.rs: update_policy, delete_policy). *)
THEOREM AlwaysConfined == MCSpec => []Confined
<1>1. ApiInv => Confined
  BY DEF ApiInv, BlameOk
<1> QED BY <1>1, ApiAlwaysInv, PTL

(* A caller without RegistryManage never lifts the revocation of a visitor pass, unless the pass is
   revoked between its read and its write (entry routes.rs: update_pass, checkin_pass, checkout_pass). *)
THEOREM RevokedAlwaysStays == MCSpec => []RevokedStays
<1>1. ApiInv => RevokedStays
  BY DEF ApiInv, BlameOk
<1> QED BY <1>1, ApiAlwaysInv, PTL

(* No handler serves a fleet-wide credential without the capability the published table gives it, and
   no scoped credential is served by a route declared fleet-only, but for the four misdeclared ones
   (openapi_security.rs: REQUIREMENTS). *)
THEOREM AlwaysAsPublished == MCSpec => []AsPublished
<1>1. ApiInv => AsPublished
  BY DEF ApiInv, BlameOk
<1> QED BY <1>1, ApiAlwaysInv, PTL

(* A site never disappears from under a camera that is on it, whatever was counted before the DELETE
   (sites.rs: delete_site). *)
THEOREM NeverDetaches == MCSpec => NoSilentDetach
<1>1. ApiInv /\ [MCNext]_<<apiVars, acctVars, area>> =>
        [\A s \in Rows(db, "sites") :
             ~ Exists(db', "sites", s.id) => \A c \in Rows(db, "cameras") : c.ref # s.id]_<<apiVars, area>>
  BY ApiNextKeeps DEF NoneDetached
<1> QED BY <1>1, ApiAlwaysInv, PTL DEF MCSpec, NoSilentDetach
=============================================================================
