--------------------------- MODULE AccountsProofs ---------------------------
(* What holds of the accounts for any users, addresses, identities and      *)
(* requests at work at once.                                                *)
EXTENDS Accounts, TLAPS

----------------------------------------------------------------------------
(* The inductive invariant. *)

(* What a request carries: the row as it was read, and what it is about.    *)
RequestType ==
    [kind : Kinds \cup {"idle"}, user : Users \cup {None}, seen : RowType \cup {None},
     to : Addresses \cup Providers \cup Changes \cup {None}, by : Providers \cup {None},
     vouched : BOOLEAN]

(* Each kind of request names what it works on, and a row once read stays.  *)
OnUser == Kinds \ {"register", "create", "oauth"}
Read == {"guess", "login", "mark", "resend", "forgot", "initiate", "update"}

Shaped(r) ==
    /\ r.kind \in {"register", "create", "oauth", "mark", "initiate", "confirm"} =>
          r.to \in Addresses
    /\ r.kind = "oauth" => r.by \in Providers
    /\ r.kind \in OnUser => r.user \in Users /\ row[r.user] # None
    /\ r.kind \in Read => r.seen \in RowType
    /\ r.kind = "update" => r.to \in Changes
    /\ r.kind \in {"link", "unlink"} => r.to \in Providers

(* The mail of a token went to the address the request read, or that        *)
(* address has been proved since.                                           *)
MarksOwn(r) ==
    r.kind = "mark" /\ r.user \notin raced =>
        r.to = r.seen.email \/ <<r.user, r.seen.email>> \in proved

ReadsLive(r) == r.kind = "initiate" => ~r.seen.deleted

(* While an identity is being unlinked its account keeps another login, and *)
(* no other request unlinks from the same account.                          *)
Unlinking(s) == Doing(s, "unlink")
UnlinkAlone ==
    \A s \in Slots : Unlinking(s) =>
        /\ OtherLogin(request[s].user, request[s].to)
        /\ \A t \in Slots : Unlinking(t) /\ request[t].user = request[s].user => t = s

(* A row whose writes did not race: its token went to its own address, and  *)
(* what the three invariants say of it.                                     *)
HasLogin(u) == row[u].password \/ \E p \in Providers : link[p] = u
Proved(u) == <<u, row[u].email>> \in proved

RowSound(u) ==
    /\ HasLogin(u)
    /\ row[u].fails >= wrong[u]
    /\ row[u].verified => Proved(u)
    /\ row[u].vtoken \in {None, row[u].email} \/ Proved(u)
    /\ row[u].deleted => row[u].pending = None

AccountsInv ==
    /\ AccountsTypeOK
    /\ request \in [Slots -> RequestType]
    /\ \A u \in Users : ~Exists(u) => wrong[u] = 0
    /\ \A s \in Slots : Shaped(request[s]) /\ MarksOwn(request[s]) /\ ReadsLive(request[s])
    /\ UnlinkAlone
    /\ \A u \in Users \ raced : Exists(u) => RowSound(u)

----------------------------------------------------------------------------
(* What the proofs of the steps share. *)

\* A user a request works on has a row.
LEMMA RowOfRequest ==
    ASSUME AccountsAssumption, AccountsInv, NEW s \in Slots, request[s].kind \in OnUser
    PROVE  /\ request[s].user \in Users /\ row[request[s].user] \in RowType
           /\ Exists(request[s].user)
BY DEF AccountsInv, AccountsTypeOK, Shaped, Exists

LEMMA LiveRow ==
    ASSUME AccountsInv, NEW u \in Users, Live(u)
    PROVE  row[u] \in RowType /\ Exists(u) /\ ~row[u].deleted
BY DEF AccountsInv, AccountsTypeOK, Live, Exists

\* A request that ends is of its type and shape.
LEMMA IdleType ==
    ASSUME AccountsAssumption
    PROVE  Idle \in RequestType /\ Idle.kind = "idle"
BY DEF Idle, RequestType

Dropped(t) ==
    /\ request'[t].kind \in {"idle", "drop"}
    /\ request'[t].kind = "drop" => request'[t].user \in Users /\ row[request'[t].user] # None

\* A step that moves no request on but lets some end keeps what is said of
\* requests, so long as no account that is being unlinked from loses its password.
LEMMA ChangeKeeps ==
    ASSUME AccountsAssumption, AccountsInv,
           row' \in [Users -> RowType \cup {None}],
           link' \in [Providers -> Users \cup {None}],
           request' \in [Slots -> RequestType],
           left' \in 0..MaxRequests,
           wrong' \in [Users -> 0..MaxFailed],
           raced' \subseteq Users, raced \subseteq raced',
           proved' \subseteq Users \X Addresses, proved \subseteq proved',
           \A t \in Slots : request'[t] = request[t] \/ Dropped(t),
           \A p \in Providers : link[p] # None => link'[p] = link[p],
           \A u \in Users : Exists(u) => Exists(u)',
           \A u \in Users : ~Exists(u)' => wrong'[u] = 0,
           \A t \in Slots : Unlinking(t) /\ row[request[t].user].password
                               => row'[request[t].user].password,
           \A u \in Users \ raced' : Exists(u)' => RowSound(u)'
    PROVE  AccountsInv'
<1>1. AccountsTypeOK'
  BY DEF AccountsTypeOK, RequestType
<1>2. \A t \in Slots : Shaped(request[t])'
  <2> SUFFICES ASSUME NEW t \in Slots PROVE Shaped(request[t])'
    OBVIOUS
  <2>1. CASE request'[t] = request[t]
    <3>1. Shaped(request[t])
      BY DEF AccountsInv
    <3> QED BY <2>1, <3>1 DEF Shaped, Exists, OnUser, Kinds
  <2>2. CASE Dropped(t)
    BY <2>2 DEF Dropped, Shaped, OnUser, Read, Kinds, Exists
  <2> QED BY <2>1, <2>2
<1>3. \A t \in Slots : MarksOwn(request[t])' /\ ReadsLive(request[t])'
  <2> SUFFICES ASSUME NEW t \in Slots PROVE MarksOwn(request[t])' /\ ReadsLive(request[t])'
    OBVIOUS
  <2>1. CASE request'[t] = request[t]
    <3>1. MarksOwn(request[t]) /\ ReadsLive(request[t])
      BY DEF AccountsInv
    <3> QED BY <2>1, <3>1 DEF MarksOwn, ReadsLive
  <2>2. CASE Dropped(t)
    BY <2>2 DEF Dropped, MarksOwn, ReadsLive
  <2> QED BY <2>1, <2>2
<1>4. UnlinkAlone'
  <2>1. \A t \in Slots : Unlinking(t)' => Unlinking(t) /\ request'[t] = request[t]
    BY DEF Unlinking, Doing, Dropped
  <2>2. ASSUME NEW t \in Slots, Unlinking(t)
        PROVE  OtherLogin(request[t].user, request[t].to)'
               \/ request'[t] # request[t]
    <3>1. PICK u, p : u = request[t].user /\ p = request[t].to
      OBVIOUS
    <3>2. u \in Users /\ OtherLogin(u, p)
      BY <2>2, <3>1, RowOfRequest
      DEF AccountsInv, UnlinkAlone, Unlinking, Doing, OnUser, Kinds
    <3>3. CASE row[u].password
      <4>1. row'[u].password
        BY <2>2, <3>1, <3>3
      <4> QED BY <3>1, <4>1 DEF OtherLogin
    <3>4. CASE \E q \in Providers \ {p} : link[q] = u
      <4>1. PICK q \in Providers \ {p} : link[q] = u
        BY <3>4
      <4>2. link'[q] = u
        BY <3>2, <4>1 DEF AccountsAssumption
      <4> QED BY <3>1, <4>1, <4>2 DEF OtherLogin
    <3> QED BY <3>2, <3>3, <3>4 DEF OtherLogin
  <2>3. ASSUME NEW t \in Slots, Unlinking(t)', NEW b \in Slots, Unlinking(b)',
               request'[b].user = request'[t].user
        PROVE  b = t
    BY <2>1, <2>3 DEF AccountsInv, UnlinkAlone
  <2> QED BY <2>1, <2>2, <2>3 DEF UnlinkAlone
<1> QED BY <1>1, <1>2, <1>3, <1>4 DEF AccountsInv

\* A step that arrives reads, and writes nothing.
LEMMA ArrivalKeeps ==
    ASSUME AccountsAssumption, AccountsInv, NEW s \in Slots, NEW r \in RequestType,
           Start(s, r), UNCHANGED <<row, link, proved, wrong, raced>>,
           Shaped(r), MarksOwn(r), ReadsLive(r),
           r.kind = "unlink" => OtherLogin(r.user, r.to) /\ WriteFree(s, r.user)
    PROVE  AccountsInv'
<1>0. request \in [Slots -> RequestType] /\ request' = [request EXCEPT ![s] = r]
      /\ UnlinkAlone
  BY DEF AccountsInv, Start
<1>1. /\ request' \in [Slots -> RequestType] /\ request'[s] = r
      /\ \A t \in Slots : t # s => request'[t] = request[t]
  BY <1>0
<1>2. left' \in 0..MaxRequests
  BY DEF AccountsInv, AccountsTypeOK, Start, AccountsAssumption
<1>3. AccountsTypeOK'
  BY <1>1, <1>2 DEF AccountsInv, AccountsTypeOK, RequestType
<1>4. \A t \in Slots : Shaped(request[t])' /\ MarksOwn(request[t])' /\ ReadsLive(request[t])'
  <2> SUFFICES ASSUME NEW t \in Slots
               PROVE  Shaped(request[t])' /\ MarksOwn(request[t])' /\ ReadsLive(request[t])'
    OBVIOUS
  <2>1. PICK q : q = request'[t]
    OBVIOUS
  <2>2. Shaped(q) /\ MarksOwn(q) /\ ReadsLive(q)
    BY <1>1, <2>1 DEF AccountsInv
  <2> QED BY <2>1, <2>2 DEF Shaped, MarksOwn, ReadsLive
<1>5. UnlinkAlone'
  <2>1. ASSUME NEW t \in Slots, Unlinking(t)' PROVE OtherLogin(request[t].user, request[t].to)'
    BY <1>0, <1>1, <2>1 DEF UnlinkAlone, Unlinking, Doing, OtherLogin
  <2>2. ASSUME NEW t \in Slots, Unlinking(t)', NEW b \in Slots, Unlinking(b)',
               request'[b].user = request'[t].user
        PROVE  b = t
    BY <1>0, <1>1, <2>2 DEF UnlinkAlone, Unlinking, Doing, WriteFree, RowLocked
  <2> QED BY <2>1, <2>2 DEF UnlinkAlone
<1>6. \A u \in Users : ~Exists(u)' => wrong'[u] = 0
  BY DEF AccountsInv, Exists
<1>7. \A u \in Users \ raced' : Exists(u)' => RowSound(u)'
  BY DEF AccountsInv, Exists, RowSound, HasLogin, Proved
<1> QED BY <1>1, <1>3, <1>4, <1>5, <1>6, <1>7 DEF AccountsInv

\* A step that writes the row of one user.
NoUnlinking(u) == \A t \in Slots : Unlinking(t) => request[t].user # u

LEMMA WriteKeeps ==
    ASSUME AccountsAssumption, AccountsInv, NEW u \in Users, NEW new \in RowType,
           row' = [row EXCEPT ![u] = new],
           link' \in [Providers -> Users \cup {None}],
           \A p \in Providers : link[p] # None => link'[p] = link[p],
           request' \in [Slots -> RequestType],
           \A t \in Slots : request'[t] = request[t] \/ Dropped(t),
           left' \in 0..MaxRequests,
           wrong' \in [Users -> 0..MaxFailed],
           \A v \in Users : v # u => wrong'[v] = wrong[v],
           raced' \in {raced, raced \cup {u}},
           proved' \subseteq Users \X Addresses, proved \subseteq proved',
           (row[u].password => new.password) \/ NoUnlinking(u),
           u \notin raced' => RowSound(u)'
    PROVE  AccountsInv'
<1>0. raced \subseteq Users /\ row \in [Users -> RowType \cup {None}]
  BY DEF AccountsInv, AccountsTypeOK
<1>1. /\ row' \in [Users -> RowType \cup {None}] /\ row'[u] = new /\ Exists(u)'
      /\ \A v \in Users : v # u => row'[v] = row[v]
  BY <1>0 DEF AccountsAssumption, Exists
<1>3. /\ \A v \in Users : Exists(v) => Exists(v)'
      /\ \A v \in Users : ~Exists(v)' => wrong'[v] = 0
  BY <1>1 DEF Exists, AccountsInv
<1>4. \A t \in Slots : Unlinking(t) /\ row[request[t].user].password
                          => row'[request[t].user].password
  <2>1. ASSUME NEW t \in Slots, Unlinking(t) PROVE request[t].user \in Users
    BY <2>1, RowOfRequest DEF Unlinking, Doing, OnUser, Kinds
  <2> QED BY <1>1, <2>1 DEF NoUnlinking
<1>5. \A v \in Users \ raced' : Exists(v)' => RowSound(v)'
  <2> SUFFICES ASSUME NEW v \in Users, v \notin raced', Exists(v)', v # u PROVE RowSound(v)'
    OBVIOUS
  <2>1. row'[v] = row[v] /\ wrong'[v] = wrong[v] /\ v \notin raced /\ Exists(v)
    BY <1>1 DEF Exists
  <2>2. RowSound(v)
    BY <2>1 DEF AccountsInv
  <2>3. HasLogin(v)'
    BY <2>1, <2>2 DEF RowSound, HasLogin, AccountsAssumption
  <2>4. Proved(v) => Proved(v)'
    BY <2>1 DEF Proved
  <2> QED BY <2>1, <2>2, <2>3, <2>4 DEF RowSound
<1>6. raced' \subseteq Users /\ raced \subseteq raced'
  BY <1>0
<1> QED BY <1>1, <1>3, <1>4, <1>5, <1>6, ChangeKeeps

\* A step that writes no row.
LEMMA EndKeeps ==
    ASSUME AccountsAssumption, AccountsInv,
           request' \in [Slots -> RequestType],
           \A t \in Slots : request'[t] = request[t] \/ Dropped(t),
           link' \in [Providers -> Users \cup {None}],
           \A p \in Providers : link[p] # None => link'[p] = link[p],
           UNCHANGED <<row, left, proved, wrong, raced>>
    PROVE  AccountsInv'
<1>1. AccountsTypeOK /\ \A u \in Users : ~Exists(u) => wrong[u] = 0
  BY DEF AccountsInv
<1>2. \A u \in Users \ raced' : Exists(u)' => RowSound(u)'
  <2> SUFFICES ASSUME NEW u \in Users, u \notin raced, Exists(u) PROVE RowSound(u)'
    BY DEF Exists
  <2>1. RowSound(u)
    BY DEF AccountsInv
  <2>2. HasLogin(u)'
    BY <2>1 DEF RowSound, HasLogin, AccountsAssumption
  <2> QED BY <2>1, <2>2 DEF RowSound, Proved
<1>3. /\ row' \in [Users -> RowType \cup {None}] /\ left' \in 0..MaxRequests
      /\ wrong' \in [Users -> 0..MaxFailed] /\ raced' \subseteq Users /\ raced \subseteq raced'
      /\ proved' \subseteq Users \X Addresses /\ proved \subseteq proved'
  BY <1>1 DEF AccountsTypeOK
<1>4. /\ \A u \in Users : Exists(u) => Exists(u)'
      /\ \A u \in Users : ~Exists(u)' => wrong'[u] = 0
      /\ \A t \in Slots : Unlinking(t) /\ row[request[t].user].password
                             => row'[request[t].user].password
  BY <1>1 DEF Exists
<1> QED BY <1>2, <1>3, <1>4, ChangeKeeps

\* A request that ends, and what it leaves.
LEMMA DoneEnds ==
    ASSUME AccountsAssumption, AccountsInv, NEW s \in Slots, Done(s)
    PROVE  /\ request' = [request EXCEPT ![s] = Idle]
           /\ request' \in [Slots -> RequestType]
           /\ \A t \in Slots : request'[t] = request[t] \/ Dropped(t)
<1>1. request \in [Slots -> RequestType] /\ request' = [request EXCEPT ![s] = Idle]
  BY DEF AccountsInv, Done
<1> QED BY <1>1, IdleType DEF Dropped

----------------------------------------------------------------------------
(* Arrivals. *)

\* A request that names a live user carries what its kind needs.
LEMMA UserRequest ==
    ASSUME AccountsAssumption, AccountsInv, NEW u \in Users, Live(u),
           NEW kind \in OnUser, NEW seen \in RowType \cup {None},
           NEW to \in Addresses \cup Providers \cup Changes \cup {None},
           kind \in Read => seen \in RowType,
           kind \in {"mark", "initiate", "confirm"} => to \in Addresses,
           kind = "update" => to \in Changes,
           kind \in {"link", "unlink"} => to \in Providers,
           NEW r, r = [kind |-> kind, user |-> u, seen |-> seen, to |-> to, by |-> None,
                       vouched |-> FALSE]
    PROVE  r \in RequestType /\ Shaped(r)
<1>1. r \in RequestType
  BY DEF RequestType, OnUser
<1>2. row[u] # None
  BY DEF Live, Exists
<1> QED BY <1>1, <1>2 DEF Shaped, OnUser, Kinds

\* No arrival but a restore writes a row, and all keep the invariant.
LEMMA VisitorArrives ==
    ASSUME AccountsAssumption, AccountsInv, NEW s \in Slots, NEW a \in Addresses,
           \/ \E kind \in {"register", "create"} : RegisterCheck(s, a, kind)
           \/ \E p \in Providers, vouched \in BOOLEAN : OAuthNew(s, p, a, vouched)
    PROVE  AccountsInv'
<1>1. ASSUME NEW kind \in {"register", "create"}, RegisterCheck(s, a, kind)
      PROVE  AccountsInv'
  <2>1. PICK r : r = [Idle EXCEPT !.kind = kind, !.to = a]
    OBVIOUS
  <2>2. r = [kind |-> kind, user |-> None, seen |-> None, to |-> a, by |-> None,
             vouched |-> FALSE]
    BY <2>1 DEF Idle
  <2>3. r \in RequestType /\ Shaped(r) /\ MarksOwn(r) /\ ReadsLive(r) /\ r.kind # "unlink"
    BY <2>2 DEF RequestType, Kinds, Shaped, OnUser, Read, MarksOwn, ReadsLive
  <2> QED BY <1>1, <2>1, <2>3, ArrivalKeeps DEF RegisterCheck
<1>2. ASSUME NEW p \in Providers, NEW vouched \in BOOLEAN, OAuthNew(s, p, a, vouched)
      PROVE  AccountsInv'
  <2>1. PICK r : r = [Idle EXCEPT !.kind = "oauth", !.to = a, !.by = p, !.vouched = vouched]
    OBVIOUS
  <2>2. r = [kind |-> "oauth", user |-> None, seen |-> None, to |-> a, by |-> p,
             vouched |-> vouched]
    BY <2>1 DEF Idle
  <2>3. r \in RequestType /\ Shaped(r) /\ MarksOwn(r) /\ ReadsLive(r) /\ r.kind # "unlink"
    BY <2>2 DEF RequestType, Kinds, Shaped, OnUser, Read, MarksOwn, ReadsLive
  <2> QED BY <1>2, <2>1, <2>3, ArrivalKeeps DEF OAuthNew
<1> QED BY <1>1, <1>2

\* What a token's mail proves is the address of the row it was found in, or that
\* address has been proved.
LEMMA MarkArrives ==
    ASSUME AccountsAssumption, AccountsInv, NEW s \in Slots, NEW u \in Users,
           \/ Verify(s, u)
           \/ \E p \in Providers, a \in Addresses : link[p] = u /\ OAuthVouches(s, p, a)
    PROVE  AccountsInv'
<1>1. ASSUME NEW to \in Addresses, NEW r, Live(u), Start(s, r),
             UNCHANGED <<row, link, proved, wrong, raced>>,
             r = [Idle EXCEPT !.kind = "mark", !.user = u, !.seen = row[u], !.to = to],
             u \notin raced => to = row[u].email \/ Proved(u)
      PROVE  AccountsInv'
  <2>1. r = [kind |-> "mark", user |-> u, seen |-> row[u], to |-> to, by |-> None,
             vouched |-> FALSE]
    BY <1>1 DEF Idle
  <2>2. row[u] \in RowType
    BY <1>1, LiveRow
  <2>3. r \in RequestType /\ Shaped(r)
    BY <1>1, <2>1, <2>2, UserRequest DEF OnUser, Kinds
  <2>4. MarksOwn(r) /\ ReadsLive(r) /\ r.kind # "unlink"
    BY <1>1, <2>1 DEF MarksOwn, ReadsLive, Proved
  <2> QED BY <1>1, <2>3, <2>4, ArrivalKeeps
<1>2. CASE Verify(s, u)
  <2>1. PICK to : to = row[u].vtoken
    OBVIOUS
  <2>2. Live(u) /\ row[u] \in RowType /\ Exists(u)
    BY <1>2, LiveRow DEF Verify
  <2>3. to \in Addresses
    BY <1>2, <2>1, <2>2 DEF Verify, RowType
  <2>4. u \notin raced => RowSound(u)
    BY <2>2 DEF AccountsInv
  <2>5. u \notin raced => to = row[u].email \/ Proved(u)
    BY <2>1, <2>3, <2>4 DEF RowSound, AccountsAssumption
  <2> QED BY <1>1, <1>2, <2>1, <2>2, <2>3, <2>5 DEF Verify
<1>3. ASSUME NEW p \in Providers, NEW a \in Addresses, link[p] = u, OAuthVouches(s, p, a)
      PROVE  AccountsInv'
  BY <1>1, <1>3 DEF OAuthVouches
<1> QED BY <1>2, <1>3

LEMMA ReadArrives ==
    ASSUME AccountsAssumption, AccountsInv, NEW s \in Slots, NEW u \in Users,
           \/ \E kind \in {"guess", "login"} : Guess(s, u, kind)
           \/ \E kind \in {"resend", "forgot"} : ReadForMail(s, u, kind)
           \/ \E change \in Changes : Update(s, u, change)
           \/ \E a \in Addresses : Initiate(s, u, a)
    PROVE  AccountsInv'
<1>1. ASSUME NEW kind \in {"guess", "login", "resend", "forgot", "update", "initiate"},
             NEW seen \in RowType, NEW to \in Addresses \cup Providers \cup Changes \cup {None},
             NEW r, Live(u), Start(s, r), UNCHANGED <<row, link, proved, wrong, raced>>,
             r = [kind |-> kind, user |-> u, seen |-> seen, to |-> to, by |-> None,
                  vouched |-> FALSE],
             kind = "update" => to \in Changes,
             kind = "initiate" => to \in Addresses /\ ~seen.deleted
      PROVE  AccountsInv'
  <2>1. r \in RequestType /\ Shaped(r)
    BY <1>1, UserRequest DEF OnUser, Kinds
  <2>2. MarksOwn(r) /\ ReadsLive(r) /\ r.kind # "unlink"
    BY <1>1 DEF MarksOwn, ReadsLive
  <2> QED BY <1>1, <2>1, <2>2, ArrivalKeeps
<1>2. ASSUME NEW kind \in {"guess", "login"}, Guess(s, u, kind) PROVE AccountsInv'
  <2>1. PICK seen : seen = [row[u] EXCEPT !.vtoken = None, !.rtoken = None]
    OBVIOUS
  <2>2. row[u] \in RowType /\ Live(u)
    BY <1>2, LiveRow DEF Guess
  <2>3. seen \in RowType
    BY <2>1, <2>2 DEF RowType
  <2>4. PICK r : r = [Idle EXCEPT !.kind = kind, !.user = u, !.seen = seen]
    OBVIOUS
  <2>5. r = [kind |-> kind, user |-> u, seen |-> seen, to |-> None, by |-> None,
             vouched |-> FALSE]
    BY <2>4 DEF Idle
  <2>6. Start(s, r) /\ UNCHANGED <<row, link, proved, wrong, raced>>
    BY <1>2, <2>1, <2>4 DEF Guess
  <2> QED BY <1>1, <2>2, <2>3, <2>5, <2>6
<1>3. ASSUME NEW kind \in {"resend", "forgot"}, ReadForMail(s, u, kind) PROVE AccountsInv'
  <2>1. row[u] \in RowType /\ Live(u)
    BY <1>3, LiveRow DEF ReadForMail
  <2>2. PICK r : r = [Idle EXCEPT !.kind = kind, !.user = u, !.seen = row[u]]
    OBVIOUS
  <2>3. r = [kind |-> kind, user |-> u, seen |-> row[u], to |-> None, by |-> None,
             vouched |-> FALSE]
    BY <2>2 DEF Idle
  <2>4. Start(s, r) /\ UNCHANGED <<row, link, proved, wrong, raced>>
    BY <1>3, <2>2 DEF ReadForMail
  <2> QED BY <1>1, <2>1, <2>3, <2>4
<1>4. ASSUME NEW change \in Changes, Update(s, u, change) PROVE AccountsInv'
  <2>1. row[u] \in RowType /\ Live(u)
    BY <1>4, LiveRow DEF Update
  <2>2. PICK r : r = [Idle EXCEPT !.kind = "update", !.user = u, !.seen = row[u], !.to = change]
    OBVIOUS
  <2>3. Start(s, r) /\ UNCHANGED <<row, link, proved, wrong, raced>>
    BY <1>4, <2>2 DEF Update
  <2>4. r = [kind |-> "update", user |-> u, seen |-> row[u], to |-> change, by |-> None,
             vouched |-> FALSE]
    BY <2>2 DEF Idle
  <2> QED BY <1>1, <2>1, <2>3, <2>4
<1>5. ASSUME NEW a \in Addresses, Initiate(s, u, a) PROVE AccountsInv'
  <2>1. row[u] \in RowType /\ Live(u) /\ ~row[u].deleted
    BY <1>5, LiveRow DEF Initiate
  <2>2. PICK r : r = [Idle EXCEPT !.kind = "initiate", !.user = u, !.to = a, !.seen = row[u]]
    OBVIOUS
  <2>3. r = [kind |-> "initiate", user |-> u, seen |-> row[u], to |-> a, by |-> None,
             vouched |-> FALSE]
    BY <2>2 DEF Idle
  <2>4. Start(s, r) /\ UNCHANGED <<row, link, proved, wrong, raced>>
    BY <1>5, <2>2 DEF Initiate
  <2> QED BY <1>1, <2>1, <2>3, <2>4
<1> QED BY <1>2, <1>3, <1>4, <1>5

LEMMA PlainArrives ==
    ASSUME AccountsAssumption, AccountsInv, NEW s \in Slots, NEW u \in Users,
           \/ Reset(s, u) \/ Delete(s, u)
           \/ \E expired \in BOOLEAN : Confirm(s, u, expired)
           \/ \E p \in Providers : Link(s, u, p) \/ Unlink(s, u, p)
    PROVE  AccountsInv'
<1>1. ASSUME NEW kind \in {"reset", "delete", "confirm", "drop", "link", "unlink"},
             NEW to \in Addresses \cup Providers \cup Changes \cup {None},
             NEW r, Live(u), Start(s, r), UNCHANGED <<row, link, proved, wrong, raced>>,
             r = [kind |-> kind, user |-> u, seen |-> None, to |-> to, by |-> None,
                  vouched |-> FALSE],
             kind = "confirm" => to \in Addresses,
             kind \in {"link", "unlink"} => to \in Providers,
             kind = "unlink" => OtherLogin(u, to) /\ WriteFree(s, u)
      PROVE  AccountsInv'
  <2>1. r \in RequestType /\ Shaped(r)
    BY <1>1, UserRequest DEF OnUser, Kinds, Read
  <2>2. MarksOwn(r) /\ ReadsLive(r)
    BY <1>1 DEF MarksOwn, ReadsLive
  <2>3. r.kind = "unlink" => OtherLogin(r.user, r.to) /\ WriteFree(s, r.user)
    BY <1>1
  <2> QED BY <1>1, <2>1, <2>2, <2>3, ArrivalKeeps
<1>2. ASSUME NEW kind \in {"reset", "delete"}, Live(u),
             Start(s, [Idle EXCEPT !.kind = kind, !.user = u]),
             UNCHANGED <<row, link, proved, wrong, raced>>
      PROVE  AccountsInv'
  <2>1. PICK r : r = [Idle EXCEPT !.kind = kind, !.user = u]
    OBVIOUS
  <2>2. r = [kind |-> kind, user |-> u, seen |-> None, to |-> None, by |-> None,
             vouched |-> FALSE]
    BY <2>1 DEF Idle
  <2> QED BY <1>1, <1>2, <2>1, <2>2
<1>3. CASE Reset(s, u) \/ Delete(s, u)
  BY <1>2, <1>3 DEF Reset, Delete
<1>4. ASSUME NEW expired \in BOOLEAN, Confirm(s, u, expired) PROVE AccountsInv'
  <2>1. PICK a, kind : /\ a = row[u].pending /\ kind \in {"confirm", "drop"}
                       /\ Start(s, [Idle EXCEPT !.user = u, !.to = a, !.kind = kind])
    BY <1>4 DEF Confirm
  <2>2. Live(u) /\ row[u] \in RowType
    BY <1>4, LiveRow DEF Confirm
  <2>3. a \in Addresses
    BY <1>4, <2>1, <2>2 DEF Confirm, RowType
  <2>4. PICK r : r = [Idle EXCEPT !.user = u, !.to = a, !.kind = kind]
    OBVIOUS
  <2>5. r = [kind |-> kind, user |-> u, seen |-> None, to |-> a, by |-> None,
             vouched |-> FALSE]
    BY <2>4 DEF Idle
  <2>6. UNCHANGED <<row, link, proved, wrong, raced>>
    BY <1>4 DEF Confirm
  <2> QED BY <1>1, <2>1, <2>2, <2>3, <2>4, <2>5, <2>6
<1>5. ASSUME NEW p \in Providers, Link(s, u, p) PROVE AccountsInv'
  <2>1. PICK r : r = [Idle EXCEPT !.kind = "link", !.user = u, !.to = p]
    OBVIOUS
  <2>2. r = [kind |-> "link", user |-> u, seen |-> None, to |-> p, by |-> None,
             vouched |-> FALSE]
    BY <2>1 DEF Idle
  <2> QED BY <1>1, <1>5, <2>1, <2>2 DEF Link
<1>6. ASSUME NEW p \in Providers, Unlink(s, u, p) PROVE AccountsInv'
  <2>1. PICK r : r = [Idle EXCEPT !.kind = "unlink", !.user = u, !.to = p]
    OBVIOUS
  <2>2. r = [kind |-> "unlink", user |-> u, seen |-> None, to |-> p, by |-> None,
             vouched |-> FALSE]
    BY <2>1 DEF Idle
  <2> QED BY <1>1, <1>6, <2>1, <2>2 DEF Unlink, LockRow
<1> QED BY <1>3, <1>4, <1>5, <1>6
----------------------------------------------------------------------------
(* Writes. *)

\* What the invariant says of a row r, when n wrong passwords were answered for it
\* and the mailboxes of proofs are proved.
HasIdentity(u) == \E p \in Providers : link[p] = u
SoundAs(u, r, n, proofs) ==
    /\ r.password \/ HasIdentity(u)
    /\ r.fails >= n
    /\ r.verified => <<u, r.email>> \in proofs
    /\ r.vtoken \in {None, r.email} \/ <<u, r.email>> \in proofs
    /\ r.deleted => r.pending = None

LEMMA RowIsSound ==
    ASSUME AccountsInv, NEW u \in Users, Exists(u), u \notin raced
    PROVE  SoundAs(u, row[u], wrong[u], proved)
<1>1. RowSound(u)
  BY DEF AccountsInv
<1> QED BY <1>1 DEF RowSound, HasLogin, HasIdentity, Proved, SoundAs

\* A request that ends by a write of the row of its user.
LEMMA SlotWrites ==
    ASSUME AccountsAssumption, AccountsInv, NEW s \in Slots,
           request[s].kind \in OnUser \ {"unlink"},
           NEW u, u = request[s].user, NEW new \in RowType,
           Write(s, u, new), Done(s), UNCHANGED <<link, left>>,
           NEW n \in 0..MaxFailed, wrong' = [wrong EXCEPT ![u] = n],
           raced' \in {raced, raced \cup {u}},
           proved' \subseteq Users \X Addresses, proved \subseteq proved',
           u \notin raced' => SoundAs(u, new, n, proved')
    PROVE  AccountsInv'
<1>1. AccountsTypeOK /\ u \in Users
  BY RowOfRequest DEF AccountsInv
<1>2. row' = [row EXCEPT ![u] = new] /\ row'[u] = new /\ wrong'[u] = n
  BY <1>1 DEF Write, AccountsTypeOK
<1>3. NoUnlinking(u)
  BY DEF NoUnlinking, Write, WriteFree, RowLocked, Unlinking, Doing
<1>4. u \notin raced' => RowSound(u)'
  BY <1>2 DEF SoundAs, RowSound, HasLogin, HasIdentity, Proved
<1>5. /\ link' \in [Providers -> Users \cup {None}] /\ left' \in 0..MaxRequests
      /\ \A p \in Providers : link'[p] = link[p]
      /\ wrong' \in [Users -> 0..MaxFailed]
      /\ \A v \in Users : v # u => wrong'[v] = wrong[v]
  BY <1>1 DEF AccountsTypeOK
<1>6. /\ request' \in [Slots -> RequestType]
      /\ \A t \in Slots : request'[t] = request[t] \/ Dropped(t)
  BY DoneEnds
<1> QED BY <1>1, <1>2, <1>3, <1>4, <1>5, <1>6, WriteKeeps

LEMMA LoginWrites ==
    ASSUME AccountsAssumption, AccountsInv, NEW s \in Slots,
           GuessCounted(s) \/ LoginSucceeds(s)
    PROVE  AccountsInv'
<1>1. request[s].kind \in OnUser \ {"unlink"}
  BY DEF GuessCounted, LoginSucceeds, Doing, OnUser, Kinds
<1>2. PICK u : u = request[s].user
  OBVIOUS
<1>3. u \in Users /\ row[u] \in RowType /\ Exists(u)
  BY <1>1, <1>2, RowOfRequest
<1>4. wrong \in [Users -> 0..MaxFailed] /\ MaxFailed \in Nat /\ wrong[u] \in 0..MaxFailed
      /\ proved \subseteq Users \X Addresses
  BY <1>3 DEF AccountsInv, AccountsTypeOK, AccountsAssumption
<1>5. row[u].fails \in 0..MaxFailed /\ row[u].locked \in BOOLEAN
  BY <1>3 DEF RowType
<1>6. CASE GuessCounted(s)
  <2>1. PICK n, m : n = AtMost(row[u].fails + 1) /\ m = AtMost(wrong[u] + 1)
    OBVIOUS
  <2>2. n \in 0..MaxFailed /\ m \in 0..MaxFailed /\ (row[u].fails >= wrong[u] => n >= m)
    BY <1>4, <1>5, <2>1 DEF AtMost
  <2>3. PICK new : new = [row[u] EXCEPT !.fails = n, !.locked = @ \/ n = MaxFailed]
    OBVIOUS
  <2>4. /\ new.fails = n /\ new.email = row[u].email /\ new.verified = row[u].verified
        /\ new.password = row[u].password /\ new.vtoken = row[u].vtoken
        /\ new.pending = row[u].pending /\ new.deleted = row[u].deleted
    BY <1>3, <2>3 DEF RowType
  <2>5. new \in RowType
    BY <1>3, <1>5, <2>2, <2>3 DEF RowType
  <2>6. /\ Write(s, u, new) /\ Done(s) /\ wrong' = [wrong EXCEPT ![u] = m]
        /\ UNCHANGED <<link, left, proved, raced>>
    BY <1>2, <1>4, <1>6, <2>1, <2>3 DEF GuessCounted, FailsAfter
  <2>7. u \notin raced' => SoundAs(u, new, m, proved')
    BY <1>3, <2>2, <2>4, <2>6, RowIsSound DEF SoundAs
  <2> QED BY <1>1, <1>2, <1>4, <2>2, <2>5, <2>6, <2>7, SlotWrites
<1>7. CASE LoginSucceeds(s) /\ request[s].seen.fails > 0
  <2>1. PICK new : new = [row[u] EXCEPT !.fails = 0, !.locked = FALSE]
    OBVIOUS
  <2>2. /\ new.fails = 0 /\ new.email = row[u].email /\ new.verified = row[u].verified
        /\ new.password = row[u].password /\ new.vtoken = row[u].vtoken
        /\ new.pending = row[u].pending /\ new.deleted = row[u].deleted
    BY <1>3, <2>1 DEF RowType
  <2>0. 0 \in 0..MaxFailed /\ 0 >= 0
    BY <1>4
  <2>3. new \in RowType
    BY <1>3, <2>0, <2>1 DEF RowType
  <2>4. /\ Write(s, u, new) /\ Done(s) /\ wrong' = [wrong EXCEPT ![u] = 0]
        /\ UNCHANGED <<link, left, proved, raced>>
    BY <1>2, <1>7, <2>1 DEF LoginSucceeds
  <2>5. u \notin raced' => SoundAs(u, new, 0, proved')
    BY <1>3, <2>0, <2>2, <2>4, RowIsSound DEF SoundAs
  <2> QED BY <1>1, <1>2, <1>4, <2>0, <2>3, <2>4, <2>5, SlotWrites
<1>8. CASE LoginSucceeds(s) /\ ~(request[s].seen.fails > 0)
  BY <1>8, DoneEnds, EndKeeps DEF LoginSucceeds, AccountsInv, AccountsTypeOK
<1> QED BY <1>6, <1>7, <1>8

\* The same, for the requests that answer no password.
LEMMA MailWrites ==
    ASSUME AccountsAssumption, AccountsInv, NEW s \in Slots,
           request[s].kind \in OnUser \ {"unlink"},
           NEW u, u = request[s].user, NEW new \in RowType,
           Write(s, u, new), Done(s), UNCHANGED <<link, left, wrong>>,
           raced' \in {raced, raced \cup {u}},
           proved' \subseteq Users \X Addresses, proved \subseteq proved',
           u \notin raced' => SoundAs(u, new, wrong[u], proved')
    PROVE  AccountsInv'
<1>1. AccountsTypeOK /\ u \in Users
  BY RowOfRequest DEF AccountsInv
<1>2. wrong[u] \in 0..MaxFailed /\ wrong' = [wrong EXCEPT ![u] = wrong[u]]
  BY <1>1 DEF AccountsTypeOK
<1> QED BY <1>2, SlotWrites

LEMMA TokenWrites ==
    ASSUME AccountsAssumption, AccountsInv, NEW s \in Slots,
           Mark(s) \/ ResendWrite(s) \/ ForgotWrite(s)
    PROVE  AccountsInv'
<1>1. request[s].kind \in (OnUser \cap Read) \ {"unlink"}
  BY DEF Mark, ResendWrite, ForgotWrite, Doing, OnUser, Read, Kinds
<1>2. PICK u, seen : u = request[s].user /\ seen = request[s].seen
  OBVIOUS
<1>3. /\ u \in Users /\ row[u] \in RowType /\ Exists(u)
      /\ seen \in RowType /\ proved \subseteq Users \X Addresses
      /\ Shaped(request[s]) /\ MarksOwn(request[s])
  BY <1>1, <1>2, RowOfRequest DEF AccountsInv, AccountsTypeOK, Shaped
<1>4. seen.email \in Addresses
  BY <1>3 DEF RowType
<1>5. CASE Mark(s)
  <2>1. PICK new : new = [row[u] EXCEPT !.verified = TRUE, !.vtoken = None]
    OBVIOUS
  <2>2. /\ new.fails = row[u].fails /\ new.email = row[u].email /\ new.vtoken = None
        /\ new.password = row[u].password
        /\ new.pending = row[u].pending /\ new.deleted = row[u].deleted
    BY <1>3, <2>1 DEF RowType
  <2>3. new \in RowType
    BY <1>3, <2>1 DEF RowType
  <2>4. request[s].to \in Addresses
    BY <1>3, <1>5 DEF Mark, Doing, Shaped
  <2>5. /\ Write(s, u, new) /\ Done(s) /\ UNCHANGED <<link, left, wrong>>
        /\ proved' = proved \cup {<<u, request[s].to>>}
        /\ raced' = IF row[u].email = seen.email THEN raced ELSE raced \cup {u}
    BY <1>2, <1>5, <2>1 DEF Mark, Races
  <2>6. u \notin raced' => <<u, row[u].email>> \in proved'
    BY <1>2, <1>3, <1>5, <2>5 DEF Mark, Doing, MarksOwn
  <2>7. u \notin raced' => SoundAs(u, new, wrong[u], proved')
    BY <1>3, <2>2, <2>5, <2>6, RowIsSound DEF SoundAs
  <2>8. /\ proved' \subseteq Users \X Addresses /\ proved \subseteq proved'
        /\ raced' \in {raced, raced \cup {u}}
    BY <1>3, <2>4, <2>5
  <2> QED BY <1>1, <1>2, <1>3, <2>3, <2>5, <2>7, <2>8, MailWrites
<1>6. CASE ResendWrite(s)
  <2>1. PICK new : new = [row[u] EXCEPT !.vtoken = seen.email]
    OBVIOUS
  <2>2. /\ new.fails = row[u].fails /\ new.email = row[u].email /\ new.vtoken = seen.email
        /\ new.password = row[u].password /\ new.verified = row[u].verified
        /\ new.pending = row[u].pending /\ new.deleted = row[u].deleted
    BY <1>3, <2>1 DEF RowType
  <2>3. new \in RowType
    BY <1>3, <1>4, <2>1 DEF RowType
  <2>4. /\ Write(s, u, new) /\ Done(s) /\ UNCHANGED <<link, left, proved, wrong>>
        /\ raced' = IF row[u].email = seen.email THEN raced ELSE raced \cup {u}
    BY <1>2, <1>6, <2>1 DEF ResendWrite, Races
  <2>5. u \notin raced' => SoundAs(u, new, wrong[u], proved')
    BY <1>3, <2>2, <2>4, RowIsSound DEF SoundAs
  <2> QED BY <1>1, <1>2, <1>3, <2>3, <2>4, <2>5, MailWrites
<1>7. CASE ForgotWrite(s)
  <2>1. PICK new : new = [row[u] EXCEPT !.rtoken = seen.email]
    OBVIOUS
  <2>2. /\ new.fails = row[u].fails /\ new.email = row[u].email
        /\ new.vtoken = row[u].vtoken /\ new.password = row[u].password
        /\ new.verified = row[u].verified
        /\ new.pending = row[u].pending /\ new.deleted = row[u].deleted
    BY <1>3, <2>1 DEF RowType
  <2>3. new \in RowType
    BY <1>3, <1>4, <2>1 DEF RowType
  <2>4. Write(s, u, new) /\ Done(s) /\ UNCHANGED <<link, left, proved, wrong, raced>>
    BY <1>2, <1>7, <2>1 DEF ForgotWrite
  <2>5. u \notin raced' => SoundAs(u, new, wrong[u], proved')
    BY <1>3, <2>2, <2>4, RowIsSound DEF SoundAs
  <2> QED BY <1>1, <1>2, <1>3, <2>3, <2>4, <2>5, MailWrites
<1> QED BY <1>5, <1>6, <1>7

LEMMA ClearingWrites ==
    ASSUME AccountsAssumption, AccountsInv, NEW s \in Slots,
           ResetWrite(s) \/ Drop(s) \/ DeleteWrite(s)
    PROVE  AccountsInv'
<1>1. request[s].kind \in OnUser \ {"unlink"}
  BY DEF ResetWrite, Drop, DeleteWrite, Doing, OnUser, Kinds
<1>2. PICK u : u = request[s].user
  OBVIOUS
<1>3. /\ u \in Users /\ row[u] \in RowType /\ Exists(u)
      /\ proved \subseteq Users \X Addresses
  BY <1>1, <1>2, RowOfRequest DEF AccountsInv, AccountsTypeOK
<1>4. ASSUME NEW new \in RowType,
             new.fails = row[u].fails, new.email = row[u].email, new.vtoken = row[u].vtoken,
             new.verified = row[u].verified, new.pending = None,
             row[u].password => new.password,
             Write(s, u, new), Done(s), UNCHANGED <<link, left, proved, wrong, raced>>
      PROVE  AccountsInv'
  <2>1. u \notin raced' => SoundAs(u, new, wrong[u], proved')
    BY <1>3, <1>4, RowIsSound DEF SoundAs
  <2> QED BY <1>1, <1>2, <1>3, <1>4, <2>1, MailWrites
<1>5. CASE ResetWrite(s)
  <2>1. PICK new : new = [row[u] EXCEPT !.password = TRUE, !.rtoken = None, !.pending = None]
    OBVIOUS
  <2>2. /\ new \in RowType /\ new.fails = row[u].fails /\ new.email = row[u].email
        /\ new.vtoken = row[u].vtoken /\ new.verified = row[u].verified
        /\ new.pending = None /\ new.password
    BY <1>3, <2>1 DEF RowType
  <2>3. Write(s, u, new) /\ Done(s) /\ UNCHANGED <<link, left, proved, wrong, raced>>
    BY <1>2, <1>5, <2>1 DEF ResetWrite
  <2> QED BY <1>4, <2>2, <2>3
<1>6. CASE Drop(s)
  <2>1. PICK new : new = [row[u] EXCEPT !.pending = None]
    OBVIOUS
  <2>2. /\ new \in RowType /\ new.fails = row[u].fails /\ new.email = row[u].email
        /\ new.vtoken = row[u].vtoken /\ new.verified = row[u].verified
        /\ new.pending = None /\ new.password = row[u].password
    BY <1>3, <2>1 DEF RowType
  <2>3. Write(s, u, new) /\ Done(s) /\ UNCHANGED <<link, left, proved, wrong, raced>>
    BY <1>2, <1>6, <2>1 DEF Drop
  <2> QED BY <1>4, <2>2, <2>3
<1>7. CASE DeleteWrite(s)
  <2>1. PICK new : new = [row[u] EXCEPT !.pending = None, !.deleted = TRUE]
    OBVIOUS
  <2>2. /\ new \in RowType /\ new.fails = row[u].fails /\ new.email = row[u].email
        /\ new.vtoken = row[u].vtoken /\ new.verified = row[u].verified
        /\ new.pending = None /\ new.password = row[u].password
    BY <1>3, <2>1 DEF RowType
  <2>3. Write(s, u, new) /\ Done(s) /\ UNCHANGED <<link, left, proved, wrong, raced>>
    BY <1>2, <1>7, <2>1 DEF DeleteWrite, Removed
  <2> QED BY <1>4, <2>2, <2>3
<1> QED BY <1>5, <1>6, <1>7

LEMMA AddressWrites ==
    ASSUME AccountsAssumption, AccountsInv, NEW s \in Slots,
           InitiateWrite(s) \/ ConfirmWrite(s)
    PROVE  AccountsInv'
<1>1. request[s].kind \in OnUser \ {"unlink"}
  BY DEF InitiateWrite, ConfirmWrite, Doing, OnUser, Kinds
<1>2. PICK u, a : u = request[s].user /\ a = request[s].to
  OBVIOUS
<1>3. /\ u \in Users /\ row[u] \in RowType /\ Exists(u)
      /\ proved \subseteq Users \X Addresses
      /\ Shaped(request[s]) /\ ReadsLive(request[s]) /\ request[s] \in RequestType
      /\ request \in [Slots -> RequestType] /\ link \in [Providers -> Users \cup {None}]
  BY <1>1, <1>2, RowOfRequest DEF AccountsInv, AccountsTypeOK
<1>4. a \in Addresses
  BY <1>2, <1>3 DEF InitiateWrite, ConfirmWrite, Doing, Shaped
<1>5. CASE InitiateWrite(s) /\ ~PendingTaken(u, a)
  <2>1. PICK new : new = [row[u] EXCEPT !.pending = a]
    OBVIOUS
  <2>2. /\ new \in RowType /\ new.fails = row[u].fails /\ new.email = row[u].email
        /\ new.vtoken = row[u].vtoken /\ new.verified = row[u].verified
        /\ new.password = row[u].password /\ new.deleted = row[u].deleted
    BY <1>3, <1>4, <2>1 DEF RowType
  <2>3. /\ Write(s, u, new) /\ Done(s) /\ UNCHANGED <<link, left, proved, wrong>>
        /\ raced' = IF row[u].deleted = request[s].seen.deleted THEN raced ELSE raced \cup {u}
    BY <1>2, <1>5, <2>1 DEF InitiateWrite, Races
  <2>4. ~request[s].seen.deleted
    BY <1>3, <1>5 DEF InitiateWrite, Doing, ReadsLive
  <2>5. row[u].deleted \in BOOLEAN /\ request[s].seen.deleted \in BOOLEAN
    <3>1. request[s].seen \in RowType
      BY <1>3, <1>5 DEF InitiateWrite, Doing, Shaped, Read
    <3> QED BY <1>3, <3>1 DEF RowType
  <2>6. u \notin raced' => SoundAs(u, new, wrong[u], proved')
    BY <1>3, <2>2, <2>3, <2>4, <2>5, RowIsSound DEF SoundAs
  <2> QED BY <1>1, <1>2, <1>3, <2>2, <2>3, <2>6, MailWrites
<1>6. CASE InitiateWrite(s) /\ PendingTaken(u, a)
  BY <1>2, <1>3, <1>6, DoneEnds, EndKeeps DEF InitiateWrite
<1>7. CASE ConfirmWrite(s) /\ ~EmailTaken(u, a)
  <2>1. PICK new : new = [row[u] EXCEPT !.email = a, !.verified = TRUE, !.pending = None]
    OBVIOUS
  <2>2. /\ new \in RowType /\ new.fails = row[u].fails /\ new.email = a
        /\ new.pending = None /\ new.password = row[u].password
    BY <1>3, <1>4, <2>1 DEF RowType
  <2>3. /\ Write(s, u, new) /\ Done(s) /\ UNCHANGED <<link, left, wrong, raced>>
        /\ proved' = proved \cup {<<u, a>>}
    BY <1>2, <1>7, <2>1 DEF ConfirmWrite
  <2>4. /\ proved' \subseteq Users \X Addresses /\ proved \subseteq proved'
        /\ <<u, new.email>> \in proved'
    BY <1>3, <1>4, <2>2, <2>3
  <2>5. u \notin raced' => SoundAs(u, new, wrong[u], proved')
    <3>1. u \notin raced' => SoundAs(u, row[u], wrong[u], proved)
      BY <1>3, <2>3, RowIsSound
    <3> QED BY <2>2, <2>4, <3>1 DEF SoundAs
  <2> QED BY <1>1, <1>2, <1>3, <2>2, <2>3, <2>4, <2>5, MailWrites
<1>8. CASE ConfirmWrite(s) /\ EmailTaken(u, a)
  <2>1. PICK r : r = [request[s] EXCEPT !.kind = "drop"]
    OBVIOUS
  <2>2. r \in RequestType /\ r.kind = "drop" /\ r.user = u
    BY <1>2, <1>3, <2>1 DEF RequestType, Kinds
  <2>3. request' = [request EXCEPT ![s] = r]
    BY <1>2, <1>8, <2>1 DEF ConfirmWrite
  <2>4. /\ request' \in [Slots -> RequestType]
        /\ \A t \in Slots : request'[t] = request[t] \/ Dropped(t)
    BY <1>3, <2>2, <2>3 DEF Dropped, Exists
  <2> QED BY <1>2, <1>3, <1>8, <2>4, EndKeeps DEF ConfirmWrite
<1> QED BY <1>2, <1>5, <1>6, <1>7, <1>8

\* A save of what an administrator or the holder edited.
LEMMA MergedRow ==
    ASSUME AccountsAssumption, NEW seen \in RowType, NEW change \in Changes,
           NEW new, new = Merged(seen, change)
    PROVE  /\ new \in RowType
           /\ seen.password => new.password
           /\ new.deleted = seen.deleted
           /\ new.pending \in {None, seen.pending}
           /\ new.fails = seen.fails \/ change = "unlock"
           /\ \/ new.email = seen.email /\ new.verified = seen.verified /\ new.vtoken = seen.vtoken
              \/ new.email = change /\ ~new.verified /\ new.vtoken = change
<1>0. change \in Edits => change \notin Addresses
  BY DEF AccountsAssumption
<1>1. MaxFailed \in Nat /\ 0 \in 0..MaxFailed /\ TRUE \in BOOLEAN /\ FALSE \in BOOLEAN
  BY DEF AccountsAssumption
<1>2. CASE change = "name"
  BY <1>0, <1>2 DEF Merged, Edits
<1>3. CASE change = "password"
  <2>1. new = [seen EXCEPT !.password = TRUE]
    BY <1>0, <1>3 DEF Merged, Edits
  <2> QED BY <2>1 DEF RowType
<1>4. CASE change = "unlock"
  <2>1. new = [seen EXCEPT !.fails = 0, !.locked = FALSE]
    BY <1>0, <1>4 DEF Merged, Edits
  <2>2. new \in RowType
    BY <1>1, <2>1 DEF RowType
  <2> QED BY <1>4, <2>1, <2>2 DEF RowType
<1>5. CASE change \in {"activate", "deactivate"}
  <2>1. PICK active : active = (change = "activate")
    OBVIOUS
  <2>2. active \in BOOLEAN
    BY <2>1
  <2>3. new = [seen EXCEPT !.active = active]
    BY <1>0, <1>5, <2>1 DEF Merged, Edits
  <2> QED BY <2>2, <2>3 DEF RowType
<1>6. CASE change \in Addresses
  <2>1. change \notin Edits
    BY <1>6 DEF AccountsAssumption
  <2>2. new = IF change = seen.email THEN seen
              ELSE [seen EXCEPT !.email = change, !.verified = FALSE,
                                !.vtoken = change, !.pending = None]
    BY <1>6, <2>1 DEF Merged, Edits
  <2>3. CASE change # seen.email
    <3>1. new = [seen EXCEPT !.email = change, !.verified = FALSE,
                             !.vtoken = change, !.pending = None]
      BY <2>2, <2>3
    <3>2. new \in RowType
      BY <1>1, <1>6, <3>1 DEF RowType
    <3> QED BY <3>1, <3>2 DEF RowType
  <2> QED BY <2>2, <2>3
<1> QED BY <1>2, <1>3, <1>4, <1>5, <1>6 DEF Changes, Edits

LEMMA SaveWrites ==
    ASSUME AccountsAssumption, AccountsInv, NEW s \in Slots, UpdateSave(s)
    PROVE  AccountsInv'
<1>1. request[s].kind \in (OnUser \cap Read) \ {"unlink"}
  BY DEF UpdateSave, Doing, OnUser, Read, Kinds
<1>2. PICK u, seen, change, new :
         /\ u = request[s].user /\ seen = request[s].seen /\ change = request[s].to
         /\ new = Merged(seen, change)
  OBVIOUS
<1>3. /\ u \in Users /\ row[u] \in RowType /\ Exists(u) /\ seen \in RowType
      /\ proved \subseteq Users \X Addresses /\ link \in [Providers -> Users \cup {None}]
      /\ Shaped(request[s]) /\ wrong[u] \in 0..MaxFailed
      /\ wrong \in [Users -> 0..MaxFailed] /\ MaxFailed \in Nat
  BY <1>1, <1>2, RowOfRequest DEF AccountsInv, AccountsTypeOK, Shaped, AccountsAssumption
<1>4. change \in Changes
  BY <1>2, <1>3 DEF UpdateSave, Doing, Shaped
<1>5. PICK taken : taken = (EmailTaken(u, new.email)
                            \/ (new.pending # None /\ PendingTaken(u, new.pending)))
  OBVIOUS
<1>6. CASE taken
  BY <1>2, <1>3, <1>5, <1>6, DoneEnds, EndKeeps DEF UpdateSave
<1>7. CASE ~taken
  <2>1. /\ Write(s, u, new) /\ Done(s) /\ UNCHANGED <<link, left, proved>>
        /\ raced' = IF row[u] = seen THEN raced ELSE raced \cup {u}
        /\ wrong' = IF change = "unlock" THEN [wrong EXCEPT ![u] = 0] ELSE wrong
    BY <1>2, <1>5, <1>7 DEF UpdateSave, Races
  <2>2. PICK n : n = IF change = "unlock" THEN 0 ELSE wrong[u]
    OBVIOUS
  <2>3. wrong' = [wrong EXCEPT ![u] = n] /\ n \in 0..MaxFailed
    <3>1. CASE change = "unlock"
      BY <1>3, <2>1, <2>2, <3>1
    <3>2. CASE change # "unlock"
      BY <1>3, <2>1, <2>2, <3>2
    <3> QED BY <3>1, <3>2
  <2>4. new \in RowType
    BY <1>2, <1>3, <1>4, MergedRow
  <2>5. new.fails \in 0..MaxFailed /\ new.fails \in Nat
    BY <1>3, <2>4 DEF RowType
  <2>6. u \notin raced' => SoundAs(u, new, n, proved')
    <3> SUFFICES ASSUME u \notin raced' PROVE SoundAs(u, new, n, proved')
      OBVIOUS
    <3>1. row[u] = seen /\ u \notin raced
      BY <2>1
    <3>2. SoundAs(u, seen, wrong[u], proved)
      BY <1>3, <3>1, RowIsSound
    <3>3. new.fails >= n
      BY <1>2, <1>3, <1>4, <2>2, <2>5, <3>2, MergedRow DEF SoundAs
    <3>4. new.password \/ HasIdentity(u)
      BY <1>2, <1>3, <1>4, <3>2, MergedRow DEF SoundAs
    <3>5. new.deleted => new.pending = None
      BY <1>2, <1>3, <1>4, <3>2, MergedRow DEF SoundAs
    <3>6. /\ new.verified => <<u, new.email>> \in proved
          /\ new.vtoken \in {None, new.email} \/ <<u, new.email>> \in proved
      BY <1>2, <1>3, <1>4, <3>2, MergedRow DEF SoundAs
    <3> QED BY <2>1, <3>3, <3>4, <3>5, <3>6 DEF SoundAs
  <2> QED BY <1>1, <1>2, <1>3, <2>1, <2>3, <2>4, <2>6, SlotWrites
<1> QED BY <1>6, <1>7

\* A row that is new has nobody's claims on it.
LEMMA RowInserted ==
    ASSUME AccountsAssumption, AccountsInv, NEW s \in Slots, NEW u \in Users, ~Exists(u),
           NEW a \in Addresses, NEW verified \in BOOLEAN, NEW vtoken \in {None, a},
           NEW password \in BOOLEAN, NEW new, new = NewRow(a, password, verified, vtoken),
           row' = [row EXCEPT ![u] = new], Done(s), UNCHANGED <<left, wrong, raced>>,
           link' \in [Providers -> Users \cup {None}],
           \A p \in Providers : link[p] # None => link'[p] = link[p],
           proved' \subseteq Users \X Addresses, proved \subseteq proved',
           verified => <<u, a>> \in proved',
           password \/ \E p \in Providers : link'[p] = u
    PROVE  AccountsInv'
<1>1. AccountsTypeOK /\ wrong[u] = 0 /\ MaxFailed \in Nat
  BY DEF AccountsInv, AccountsAssumption
<1>2. new = [email |-> a, verified |-> verified, password |-> password, vtoken |-> vtoken,
             rtoken |-> None, pending |-> None, fails |-> 0, locked |-> FALSE,
             active |-> TRUE, deleted |-> FALSE]
  BY DEF NewRow
<1>3. 0 \in 0..MaxFailed /\ 0 >= 0
  BY <1>1
<1>4. new \in RowType
  BY <1>2, <1>3 DEF RowType
<1>5. row'[u] = new /\ wrong'[u] = 0
  BY <1>1 DEF AccountsTypeOK
<1>6. RowSound(u)'
  BY <1>2, <1>3, <1>5 DEF RowSound, HasLogin, Proved
<1>7. NoUnlinking(u)
  BY RowOfRequest DEF NoUnlinking, Unlinking, Doing, OnUser, Kinds
<1>8. /\ request' \in [Slots -> RequestType]
      /\ \A t \in Slots : request'[t] = request[t] \/ Dropped(t)
  BY DoneEnds
<1>9. /\ left' \in 0..MaxRequests /\ wrong' \in [Users -> 0..MaxFailed]
      /\ \A v \in Users : v # u => wrong'[v] = wrong[v]
  BY <1>1 DEF AccountsTypeOK
<1> QED BY <1>4, <1>6, <1>7, <1>8, <1>9, WriteKeeps

LEMMA InsertWrites ==
    ASSUME AccountsAssumption, AccountsInv, NEW s \in Slots,
           RegisterInsert(s) \/ OAuthInsert(s)
    PROVE  AccountsInv'
<1>1. PICK a, p, vouched : /\ a = request[s].to /\ p = request[s].by
                           /\ vouched = request[s].vouched
  OBVIOUS
<1>2. /\ a \in Addresses /\ vouched \in BOOLEAN /\ link \in [Providers -> Users \cup {None}]
      /\ proved \subseteq Users \X Addresses /\ row \in [Users -> RowType \cup {None}]
      /\ Shaped(request[s])
  <2>1. Shaped(request[s]) /\ request[s] \in RequestType /\ AccountsTypeOK
    BY DEF AccountsInv
  <2>2. a \in Addresses
    BY <1>1, <2>1 DEF RegisterInsert, OAuthInsert, Doing, Shaped
  <2> QED BY <1>1, <2>1, <2>2 DEF RequestType, AccountsTypeOK
<1>3. CASE RegisterInsert(s)
  <2>1. PICK u \in Users :
           Insert(s, u, a, NewRow(a, TRUE, FALSE, IF Doing(s, "register") THEN a ELSE None))
    BY <1>1, <1>3 DEF RegisterInsert
  <2>2. PICK vtoken : vtoken = IF Doing(s, "register") THEN a ELSE None
    OBVIOUS
  <2>3. PICK new : new = NewRow(a, TRUE, FALSE, vtoken)
    OBVIOUS
  <2>4. ~Exists(u) /\ row' = [row EXCEPT ![u] = IF EmailTaken(u, a) THEN None ELSE new]
    BY <2>1, <2>2, <2>3 DEF Insert
  <2>5. Done(s) /\ UNCHANGED <<link, left, proved, wrong, raced>>
    BY <1>3 DEF RegisterInsert
  <2>6. CASE EmailTaken(u, a)
    <3>1. row' = row
      BY <1>2, <2>4, <2>6 DEF Exists
    <3> QED BY <1>2, <2>5, <3>1, DoneEnds, EndKeeps
  <2>7. CASE ~EmailTaken(u, a)
    BY <1>2, <2>2, <2>3, <2>4, <2>5, <2>7, RowInserted
  <2> QED BY <2>6, <2>7
<1>4. CASE OAuthInsert(s)
  <2>1. p \in Providers
    BY <1>1, <1>2, <1>4 DEF OAuthInsert, Doing, Shaped
  <2>2. PICK vtoken : vtoken = IF vouched THEN None ELSE a
    OBVIOUS
  <2>3. PICK new : new = NewRow(a, FALSE, vouched, vtoken)
    OBVIOUS
  <2>4. PICK u \in Users :
           /\ ~Exists(u)
           /\ IF EmailTaken(u, a) \/ link[p] # None
              THEN UNCHANGED <<row, link, proved>>
              ELSE /\ row' = [row EXCEPT ![u] = IF EmailTaken(u, a) THEN None ELSE new]
                   /\ link' = [link EXCEPT ![p] = u]
                   /\ proved' = IF vouched THEN proved \cup {<<u, a>>} ELSE proved
    BY <1>1, <1>4, <2>2, <2>3 DEF OAuthInsert, Insert
  <2>5. Done(s) /\ UNCHANGED <<left, wrong, raced>>
    BY <1>4 DEF OAuthInsert
  <2>6. CASE EmailTaken(u, a) \/ link[p] # None
    BY <1>2, <2>4, <2>5, <2>6, DoneEnds, EndKeeps
  <2>7. CASE ~(EmailTaken(u, a) \/ link[p] # None)
    <3>1. row' = [row EXCEPT ![u] = new] /\ link' = [link EXCEPT ![p] = u] /\ link[p] = None
      BY <2>4, <2>7
    <3>2. /\ proved' \subseteq Users \X Addresses /\ proved \subseteq proved'
          /\ vouched => <<u, a>> \in proved'
      BY <1>2, <2>4, <2>7
    <3>3. /\ link' \in [Providers -> Users \cup {None}] /\ link'[p] = u
          /\ \A q \in Providers : link[q] # None => link'[q] = link[q]
      BY <1>2, <2>1, <3>1
    <3> QED BY <1>2, <2>1, <2>2, <2>3, <2>4, <2>5, <3>1, <3>2, <3>3, RowInserted
  <2> QED BY <2>6, <2>7
<1> QED BY <1>3, <1>4

LEMMA LinkWrites ==
    ASSUME AccountsAssumption, AccountsInv, NEW s \in Slots, LinkInsert(s)
    PROVE  AccountsInv'
<1>1. PICK u, p : u = request[s].user /\ p = request[s].to
  OBVIOUS
<1>2. Shaped(request[s]) /\ link \in [Providers -> Users \cup {None}]
  BY DEF AccountsInv, AccountsTypeOK
<1>3. u \in Users /\ p \in Providers
  BY <1>1, <1>2 DEF LinkInsert, Doing, Shaped, OnUser, Kinds
<1>4. link' = [link EXCEPT ![p] = IF link[p] = None THEN u ELSE link[p]]
  BY <1>1 DEF LinkInsert
<1>5. /\ link' \in [Providers -> Users \cup {None}]
      /\ \A q \in Providers : link[q] # None => link'[q] = link[q]
  BY <1>2, <1>3, <1>4
<1> QED BY <1>5, DoneEnds, EndKeeps DEF LinkInsert

\* The identity goes, and the account keeps the login it had besides.
LEMMA UnlinkWrites ==
    ASSUME AccountsAssumption, AccountsInv, NEW s \in Slots, UnlinkDelete(s)
    PROVE  AccountsInv'
<1>1. PICK u, p : u = request[s].user /\ p = request[s].to
  OBVIOUS
<1>2. /\ Shaped(request[s]) /\ AccountsTypeOK /\ UnlinkAlone
      /\ request \in [Slots -> RequestType]
  BY DEF AccountsInv
<1>3. u \in Users /\ p \in Providers /\ Unlinking(s)
  BY <1>1, <1>2 DEF UnlinkDelete, Doing, Shaped, OnUser, Kinds, Unlinking
<1>4. /\ link' = [link EXCEPT ![p] = IF link[p] = u THEN None ELSE link[p]]
      /\ UNCHANGED <<row, left, proved, wrong, raced>> /\ Done(s)
  BY <1>1 DEF UnlinkDelete
<1>5. /\ link' \in [Providers -> Users \cup {None}]
      /\ \A q \in Providers : link'[q] = link[q] \/ (q = p /\ link[q] = u)
  <2>1. link \in [Providers -> Users \cup {None}]
    BY <1>2 DEF AccountsTypeOK
  <2>2. /\ \A q \in Providers : q # p => link'[q] = link[q]
        /\ link'[p] = IF link[p] = u THEN None ELSE link[p]
    BY <1>3, <1>4, <2>1
  <2> QED BY <1>3, <1>4, <2>1, <2>2
<1>6. /\ request' \in [Slots -> RequestType]
      /\ request'[s] = Idle /\ Idle.kind = "idle"
      /\ \A t \in Slots : t # s => request'[t] = request[t]
  BY <1>2, <1>4, IdleType DEF Done
<1>7. AccountsTypeOK'
  BY <1>2, <1>4, <1>5, <1>6 DEF AccountsTypeOK, RequestType
<1>8. \A t \in Slots : Shaped(request[t])' /\ MarksOwn(request[t])' /\ ReadsLive(request[t])'
  <2> SUFFICES ASSUME NEW t \in Slots
               PROVE  Shaped(request[t])' /\ MarksOwn(request[t])' /\ ReadsLive(request[t])'
    OBVIOUS
  <2>1. PICK q : q = request'[t]
    OBVIOUS
  <2>2. Shaped(q) /\ MarksOwn(q) /\ ReadsLive(q)
    <3>1. CASE t = s
      BY <1>6, <2>1, <3>1 DEF Shaped, MarksOwn, ReadsLive, OnUser, Read, Kinds
    <3>2. CASE t # s
      BY <1>6, <2>1, <3>2 DEF AccountsInv
    <3> QED BY <3>1, <3>2
  <2> QED BY <1>4, <2>1, <2>2 DEF Shaped, MarksOwn, ReadsLive
<1>9. UnlinkAlone'
  <2>1. ASSUME NEW t \in Slots, Unlinking(t)'
        PROVE  t # s /\ Unlinking(t) /\ request'[t] = request[t] /\ request[t].user # u
    BY <1>1, <1>2, <1>3, <1>6, <2>1 DEF UnlinkAlone, Unlinking, Doing
  <2>2. ASSUME NEW t \in Slots, Unlinking(t)' PROVE OtherLogin(request[t].user, request[t].to)'
    BY <1>2, <1>4, <1>5, <2>1, <2>2 DEF UnlinkAlone, OtherLogin
  <2>3. ASSUME NEW t \in Slots, Unlinking(t)', NEW b \in Slots, Unlinking(b)',
               request'[b].user = request'[t].user
        PROVE  b = t
    BY <1>2, <2>1, <2>3 DEF UnlinkAlone
  <2> QED BY <2>2, <2>3 DEF UnlinkAlone
<1>10. \A v \in Users \ raced' : Exists(v)' => RowSound(v)'
  <2> SUFFICES ASSUME NEW v \in Users, v \notin raced, Exists(v) PROVE RowSound(v)'
    BY <1>4 DEF Exists
  <2>1. RowSound(v)
    BY DEF AccountsInv
  <2>2. HasLogin(v)'
    <3>1. CASE v = u
      <4>1. OtherLogin(u, p)
        BY <1>1, <1>2, <1>3 DEF UnlinkAlone
      <4> QED BY <1>4, <1>5, <3>1, <4>1 DEF OtherLogin, HasLogin
    <3>2. CASE v # u
      BY <1>4, <1>5, <2>1, <3>2 DEF RowSound, HasLogin
    <3> QED BY <3>1, <3>2
  <2> QED BY <1>4, <2>1, <2>2 DEF RowSound, Proved
<1>11. \A v \in Users : ~Exists(v)' => wrong'[v] = 0
  BY <1>4 DEF AccountsInv, Exists
<1> QED BY <1>6, <1>7, <1>8, <1>9, <1>10, <1>11 DEF AccountsInv

\* A restore, and a lock that expires: no request of theirs is in progress.
LEMMA OwnWrites ==
    ASSUME AccountsAssumption, AccountsInv, NEW u \in Users,
           LockExpires(u) \/ \E s \in Slots : Restore(s, u)
    PROVE  AccountsInv'
<1>1. /\ AccountsTypeOK /\ row[u] \in RowType /\ Exists(u)
      /\ request \in [Slots -> RequestType]
  BY DEF AccountsInv, AccountsTypeOK, LockExpires, Restore, Exists
<1>2. ASSUME NEW new \in RowType, row' = [row EXCEPT ![u] = new], left' \in 0..MaxRequests,
             UNCHANGED <<link, request, proved, wrong, raced>>,
             new.fails = row[u].fails, new.email = row[u].email, new.vtoken = row[u].vtoken,
             new.verified = row[u].verified, new.pending = row[u].pending,
             new.password = row[u].password, new.deleted => row[u].deleted
      PROVE  AccountsInv'
  <2>1. row'[u] = new
    BY <1>1, <1>2 DEF AccountsTypeOK
  <2>2. u \notin raced' => RowSound(u)'
    <3>1. u \notin raced => SoundAs(u, row[u], wrong[u], proved)
      BY <1>1, RowIsSound
    <3> QED BY <1>2, <2>1, <3>1 DEF SoundAs, RowSound, HasLogin, HasIdentity, Proved
  <2>3. /\ link' \in [Providers -> Users \cup {None}] /\ wrong' \in [Users -> 0..MaxFailed]
        /\ proved' \subseteq Users \X Addresses
        /\ \A t \in Slots : request'[t] = request[t]
    BY <1>1, <1>2 DEF AccountsTypeOK
  <2> QED BY <1>1, <1>2, <2>2, <2>3, WriteKeeps
<1>3. CASE LockExpires(u)
  <2>1. PICK new : new = [row[u] EXCEPT !.locked = FALSE]
    OBVIOUS
  <2>2. /\ new \in RowType
        /\ new.fails = row[u].fails /\ new.email = row[u].email /\ new.vtoken = row[u].vtoken
        /\ new.verified = row[u].verified /\ new.pending = row[u].pending
        /\ new.password = row[u].password /\ new.deleted = row[u].deleted
    BY <1>1, <2>1 DEF RowType
  <2>3. /\ row' = [row EXCEPT ![u] = new] /\ left' \in 0..MaxRequests
        /\ UNCHANGED <<link, request, proved, wrong, raced>>
    BY <1>1, <1>3, <2>1 DEF LockExpires, AccountsTypeOK
  <2> QED BY <1>2, <2>2, <2>3
<1>4. ASSUME NEW s \in Slots, Restore(s, u) PROVE AccountsInv'
  <2>1. PICK new : new = [row[u] EXCEPT !.deleted = FALSE]
    OBVIOUS
  <2>2. /\ new \in RowType
        /\ new.fails = row[u].fails /\ new.email = row[u].email /\ new.vtoken = row[u].vtoken
        /\ new.verified = row[u].verified /\ new.pending = row[u].pending
        /\ new.password = row[u].password /\ ~new.deleted
    BY <1>1, <2>1 DEF RowType
  <2>3. /\ row' = [row EXCEPT ![u] = new]
        /\ UNCHANGED <<link, request, proved, wrong, raced>>
    BY <1>4, <2>1 DEF Restore, Write
  <2>4. left' \in 0..MaxRequests
    BY <1>1, <1>4 DEF Restore, AccountsTypeOK, AccountsAssumption
  <2> QED BY <1>2, <2>2, <2>3, <2>4
<1> QED BY <1>3, <1>4

----------------------------------------------------------------------------
(* The invariant, and what follows from it. *)

LEMMA AccountsStart ==
    ASSUME AccountsAssumption, Init
    PROVE  AccountsInv
<1>1. /\ row \in [Users -> RowType \cup {None}] /\ link \in [Providers -> Users \cup {None}]
      /\ request \in [Slots -> RequestType] /\ \A s \in Slots : request[s] = Idle
      /\ proved \subseteq Users \X Addresses /\ raced \subseteq Users
      /\ \A u \in Users : ~Exists(u) /\ wrong[u] = 0
  BY IdleType DEF Init, Exists
<1>2. left \in 0..MaxRequests /\ wrong \in [Users -> 0..MaxFailed]
  BY DEF Init, AccountsAssumption
<1>3. AccountsTypeOK
  BY <1>1, <1>2 DEF AccountsTypeOK, RequestType
<1>4. /\ \A s \in Slots : Shaped(request[s]) /\ MarksOwn(request[s]) /\ ReadsLive(request[s])
      /\ UnlinkAlone
  BY <1>1, IdleType
  DEF Shaped, MarksOwn, ReadsLive, UnlinkAlone, Unlinking, Doing, OnUser, Read, Kinds
<1> QED BY <1>1, <1>3, <1>4 DEF AccountsInv

LEMMA AccountsStep ==
    ASSUME AccountsAssumption, AccountsInv, [Next]_vars
    PROVE  AccountsInv'
<1>1. ASSUME NEW s \in Slots, Arrives(s) PROVE AccountsInv'
  <2>1. ASSUME NEW p \in Providers, NEW a \in Addresses, OAuthVouches(s, p, a)
        PROVE  AccountsInv'
    <3>1. PICK u : u = link[p]
      OBVIOUS
    <3>2. u \in Users
      BY <2>1, <3>1 DEF OAuthVouches, AccountsInv, AccountsTypeOK
    <3> QED BY <2>1, <3>1, <3>2, MarkArrives
  <2>2. ASSUME NEW a \in Addresses,
               \/ \E kind \in {"register", "create"} : RegisterCheck(s, a, kind)
               \/ \E p \in Providers, vouched \in BOOLEAN : OAuthNew(s, p, a, vouched)
        PROVE  AccountsInv'
    BY <2>2, VisitorArrives
  <2>3. ASSUME NEW u \in Users,
               \/ \E kind \in {"guess", "login"} : Guess(s, u, kind)
               \/ Verify(s, u)
               \/ \E kind \in {"resend", "forgot"} : ReadForMail(s, u, kind)
               \/ Reset(s, u)
               \/ \E a \in Addresses : Initiate(s, u, a)
               \/ \E expired \in BOOLEAN : Confirm(s, u, expired)
               \/ \E change \in Changes : Update(s, u, change)
               \/ Delete(s, u)
               \/ Restore(s, u)
               \/ \E p \in Providers : Link(s, u, p) \/ Unlink(s, u, p)
        PROVE  AccountsInv'
    BY <2>3, MarkArrives, ReadArrives, PlainArrives, OwnWrites
  <2> QED BY <1>1, <2>1, <2>2, <2>3 DEF Arrives
<1>2. ASSUME NEW s \in Slots, Writes(s) PROVE AccountsInv'
  BY <1>2, InsertWrites, LoginWrites, TokenWrites, ClearingWrites, AddressWrites, SaveWrites,
     LinkWrites, UnlinkWrites
  DEF Writes
<1>3. ASSUME NEW u \in Users, LockExpires(u) PROVE AccountsInv'
  BY <1>3, OwnWrites
<1>4. CASE UNCHANGED vars
  <2>1. /\ UNCHANGED <<row, left, proved, wrong, raced>> /\ link' = link /\ request' = request
        /\ AccountsTypeOK /\ request \in [Slots -> RequestType]
    BY <1>4 DEF vars, AccountsInv
  <2> QED BY <2>1, EndKeeps DEF AccountsTypeOK
<1> QED BY <1>1, <1>2, <1>3, <1>4 DEF Next

LEMMA AccountsAreInv == AccountsAssumption => (Spec => []AccountsInv)
<1> SUFFICES ASSUME AccountsAssumption PROVE Spec => []AccountsInv
  OBVIOUS
<1>1. Init => AccountsInv
  BY AccountsStart
<1>2. AccountsInv /\ [Next]_vars => AccountsInv'
  BY AccountsStep
<1> QED BY <1>1, <1>2, PTL DEF Spec

\* Every value the accounts hold is of its type.
THEOREM AccountsTypeCorrect == AccountsAssumption => (Spec => []AccountsTypeOK)
<1>1. AccountsInv => AccountsTypeOK
  BY DEF AccountsInv
<1> QED BY <1>1, AccountsAreInv, PTL

\* An account whose writes did not race keeps a password or a linked identity, however
\* many requests unlink, reset and save at once: the lock on the account's row makes
\* the check and the delete of unlinkProvider one (oauth-account.service.ts:44-91).
THEOREM SomeLoginRemains == AccountsAssumption => (Spec => []LoginRemains)
<1>1. AccountsInv => LoginRemains
  BY DEF AccountsInv, LoginRemains, RowSound, HasLogin
<1> QED BY <1>1, AccountsAreInv, PTL

\* No wrong password goes uncounted, however many are answered at once: the count is
\* raised in the statement that stores it (users.service.ts:314-354).
THEOREM EveryGuessCounts == AccountsAssumption => (Spec => []GuessesCounted)
<1>1. AccountsInv => GuessesCounted
  BY DEF AccountsInv, GuessesCounted, RowSound
<1> QED BY <1>1, AccountsAreInv, PTL

\* A verified address is one its holder has proved, and a deleted account holds no
\* pending change of address, however verifications, resends, confirmations and
\* deletions overlap (auth.service.ts, users.service.ts), unless a write raced.
THEOREM AddressesStaySound == AccountsAssumption => (Spec => []AddressesAreSound)
<1>1. AccountsInv => AddressesAreSound
  <2> SUFFICES ASSUME AccountsInv PROVE AddressesAreSound
    OBVIOUS
  <2>1. VerifiedIsProved
    BY DEF AccountsInv, VerifiedIsProved, RowSound, Proved
  <2>2. DeletedHoldsNoClaim
    BY DEF AccountsInv, DeletedHoldsNoClaim, RowSound
  <2> QED BY <2>1, <2>2 DEF AddressesAreSound
<1> QED BY <1>1, AccountsAreInv, PTL

=============================================================================
