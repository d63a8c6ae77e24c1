----------------------------- MODULE ConsoleProofs -----------------------------
(***************************************************************************)
(* Proofs about the people of a workspace (Membership), about the          *)
(* operators of the platform and their audit trail (OperatorTrail), and    *)
(* about the lists that the console pages through (Listings).              *)
(*                                                                         *)
(* MembershipInv is proved part by part, each part an invariant relative   *)
(* to the ones before it: Core (types, what a request knows, what becomes  *)
(* of an invite), the owners, the cache, and the seats, whose argument is  *)
(* that Taken grows only where an invite is written, on a count that       *)
(* CountsStand says is still true unless somebody overtook it.             *)
(*                                                                         *)
(* ListIndInv, about the lists (Listings), counts the rows that were shown *)
(* and now stand behind the pages that were read, and those that were not  *)
(* and stand before: reading a page adds to neither, as each row has its   *)
(* own place in the order, and a row that changes moves every other one by *)
(* a place at most, so that at most the one at the edge crosses it.        *)
(***************************************************************************)
EXTENDS Membership, OperatorTrail, Listings, FunctionTheorems, FiniteSetTheorems,
        WellFoundedInduction, TLAPS

-----------------------------------------------------------------------------
\* What a request that is half way through knows.
KnowsEnough(c) ==
  /\ ~At(c, "idle") /\ ~At(c, "revoke") => request[c].about \in Users
  /\ request[c].step \in {"target", "demote", "promote", "name", "evict both"} =>
       request[c].by \in Users
  /\ request[c].step \in {"change", "check", "members", "pending", "insert"} =>
       request[c].as \in Invitable
  /\ At(c, "store") => request[c].as \in {"yes", "no"}
  /\ At(c, "pending") => request[c].seen <= Cardinality(Users)
  /\ request[c].step \in {"revoke", "read", "mark", "add"} =>
       request[c].with \in Invites /\ invite[request[c].with].state # "unsent"
  /\ request[c].step \in {"read", "mark", "add"} =>
       invite[request[c].with].to = request[c].about

RequestsKnow == \A c \in Requests : KnowsEnough(c)

InvitesSent ==
  \A i \in Invites :
    invite[i].state # "unsent" => invite[i].to \in Users /\ invite[i].as \in Invitable

\* An accepted invite is being turned into a membership by one request.
OneJoinsWith ==
  \A c \in Requests :
    At(c, "add") =>
      /\ invite[request[c].with].state = "accepted" /\ joins[request[c].with] = 0
      /\ \A d \in Requests \ {c} : At(d, "add") => request[d].with # request[c].with

\* The people who were invited and not yet admitted, who have an invite each.
Waiting == {i \in Joining : invite[i].to \notin Members}

OneInviteEach ==
  ~oversold => \A i, j \in Pending \cup Joining : i # j => invite[i].to # invite[j].to

\* What an invitation has counted is still so, unless it was overtaken.
CountsStand ==
  \A c \in Requests \ overtaken :
    /\ At(c, "pending") => Joining = {} /\ request[c].seen = Cardinality(Members)
    /\ At(c, "insert") /\ ~oversold =>
         Joining = {} /\ Cardinality(Members) + Cardinality(Pending) < Seats

MembershipIndInv ==
  /\ MembershipInv
  /\ RequestsKnow /\ InvitesSent /\ OneJoinsWith /\ OneInviteEach /\ CountsStand

-----------------------------------------------------------------------------
\* What a request can know.
RequestRecord ==
  [step : Steps, by : Users \cup {None}, about : Users \cup {None},
   with : Invites \cup {None}, as : Invitable \cup {"none", "yes", "no"},
   seen : 0 .. Cardinality(Users) + Cardinality(Invites)]

LEMMA Finiteness ==
  ASSUME TypeOK
  PROVE  /\ IsFiniteSet(Members) /\ Cardinality(Members) \in 0 .. Cardinality(Users)
         /\ IsFiniteSet(Pending) /\ Cardinality(Pending) \in 0 .. Cardinality(Invites)
         /\ Cardinality(Users) \in Nat /\ Cardinality(Invites) \in Nat
  <1>1. Members \subseteq Users /\ Pending \subseteq Invites
    BY DEF Members, Pending
  <1> QED
    BY <1>1, MembershipAssumption, FS_Subset, FS_CardinalityType

LEMMA IdleIsRecord == Idle \in RequestRecord
  <1>1. Cardinality(Users) \in Nat /\ Cardinality(Invites) \in Nat
    BY MembershipAssumption, FS_CardinalityType
  <1> QED
    BY <1>1 DEF Idle, RequestRecord, Steps

\* What a step of request c leaves of the requests.
Others(c) == \A d \in Requests \ {c} : request'[d] = request[d]

LEMMA GoesOn ==
  ASSUME TypeOK, NEW c \in Requests, NEW s \in Steps, Goes(c, s)
  PROVE  /\ request' \in [Requests -> RequestRecord] /\ Others(c)
         /\ request'[c].step = s
         /\ request'[c].by = request[c].by /\ request'[c].about = request[c].about
         /\ request'[c].with = request[c].with /\ request'[c].as = request[c].as
         /\ request'[c].seen = request[c].seen
  <1>1. request \in [Requests -> RequestRecord]
    BY DEF TypeOK, RequestRecord
  <1>2. request' = [request EXCEPT ![c] = [request[c] EXCEPT !.step = s]]
    BY DEF Goes
  <1>3. request[c] \in RequestRecord /\ [request[c] EXCEPT !.step = s] \in RequestRecord
    BY <1>1 DEF RequestRecord
  <1> QED
    BY <1>1, <1>2, <1>3 DEF Others, RequestRecord

CountsTo(c, s, n) == request' = [request EXCEPT ![c].step = s, ![c].seen = n]

LEMMA Counts ==
  ASSUME TypeOK, NEW c \in Requests, NEW s \in Steps,
         NEW n \in 0 .. Cardinality(Users) + Cardinality(Invites),
         CountsTo(c, s, n)
  PROVE  /\ request' \in [Requests -> RequestRecord] /\ Others(c)
         /\ request'[c].step = s /\ request'[c].seen = n
         /\ request'[c].by = request[c].by /\ request'[c].about = request[c].about
         /\ request'[c].with = request[c].with /\ request'[c].as = request[c].as
  <1>1. request[c] \in RequestRecord /\ request \in [Requests -> RequestRecord]
    BY DEF TypeOK, RequestRecord
  <1>2. request' = [request EXCEPT ![c] = [request[c] EXCEPT !.step = s, !.seen = n]]
    BY <1>1 DEF CountsTo
  <1>3. [request[c] EXCEPT !.step = s, !.seen = n] \in RequestRecord
    BY <1>1 DEF RequestRecord
  <1> QED
    BY <1>1, <1>2, <1>3 DEF Others, RequestRecord

LEMMA CountsMove ==
  ASSUME TypeOK, NEW c \in Requests, CountMembers(c) \/ CountPending(c) \/ Lookup(c)
  PROVE  Others(c)
  <1>1. request \in [Requests -> RequestRecord]
    BY DEF TypeOK, RequestRecord
  <1> QED
    BY <1>1 DEF CountMembers, CountPending, Lookup, Goes, Done, Others

LEMMA IsDone ==
  ASSUME TypeOK, NEW c \in Requests, Done(c)
  PROVE  /\ request' \in [Requests -> RequestRecord] /\ Others(c)
         /\ request'[c].step = "idle"
  <1>1. request \in [Requests -> RequestRecord]
    BY DEF TypeOK, RequestRecord
  <1> QED
    BY <1>1, IdleIsRecord DEF Done, Others, Idle

LEMMA Begins ==
  ASSUME TypeOK, NEW c \in Requests, NEW e \in RequestRecord, Begin(c, e)
  PROVE  /\ request' \in [Requests -> RequestRecord] /\ Others(c)
         /\ request'[c] = e /\ ~At(c, "add") /\ At(c, "idle")
         /\ asked' \in 0 .. RequestMax
         /\ UNCHANGED <<role, owner, invite, cached, history>>
  <1>1. request \in [Requests -> RequestRecord]
    BY DEF TypeOK, RequestRecord
  <1> QED
    BY <1>1, MembershipAssumption DEF Begin, Others, At, TypeOK

Starts(c) ==
  \/ \E a, u \in Users :
       \/ BeginRemove(c, a, u) \/ BeginTransfer(c, a, u)
       \/ \E r \in Invitable : BeginChange(c, a, u, r) \/ BeginInvite(c, a, u, r)
  \/ \E i \in Invites : BeginAccept(c, i) \/ (\E a \in Users : BeginRevoke(c, a, i))
  \/ \E u \in Users : BeginLookup(c, u)

RequestSteps(c) ==
  \/ Starts(c) \/ Change(c) \/ RemoveMember(c) \/ Evict(c)
  \/ Target(c) \/ Demote(c) \/ Promote(c) \/ Name(c) \/ EvictBoth(c)
  \/ Check(c) \/ CountMembers(c) \/ CountPending(c) \/ (\E i \in Invites : Insert(c, i))
  \/ Revoke(c) \/ ReadInvite(c) \/ Mark(c) \/ Add(c)
  \/ Lookup(c) \/ Store(c) \/ Crash(c)

LEMMA NextCases ==
  ASSUME [Next]_vars
  PROVE  \/ UNCHANGED vars
         \/ \E i \in Invites : Lapse(i)
         \/ \E u \in Users : Forget(u)
         \/ \E c \in Requests : RequestSteps(c)
  BY DEF Next, RequestSteps, Starts

\* The requests that begin, with what they know.
LEMMA Beginnings ==
  ASSUME TypeOK, InvitesSent, NEW c \in Requests, Starts(c)
  PROVE  \E e \in RequestRecord :
           /\ Begin(c, e)
           /\ e.step \in {"change", "remove", "target", "check", "revoke", "read", "lookup"}
           /\ e.step # "revoke" => e.about \in Users
           /\ e.step = "target" => e.by \in Users
           /\ e.step \in {"change", "check"} => e.as \in Invitable
           /\ e.step \in {"revoke", "read"} => e.with \in Invites /\ invite[e.with].state # "unsent"
           /\ e.step = "read" => invite[e.with].to = e.about
  <1> DEFINE Fits(e) ==
           /\ Begin(c, e)
           /\ e.step \in {"change", "remove", "target", "check", "revoke", "read", "lookup"}
           /\ e.step # "revoke" => e.about \in Users
           /\ e.step = "target" => e.by \in Users
           /\ e.step \in {"change", "check"} => e.as \in Invitable
           /\ e.step \in {"revoke", "read"} => e.with \in Invites /\ invite[e.with].state # "unsent"
           /\ e.step = "read" => invite[e.with].to = e.about
  <1>1. ASSUME NEW a \in Users, NEW u \in Users, NEW r \in Invitable,
               BeginChange(c, a, u, r)
        PROVE  \E e \in RequestRecord : Fits(e)
    <2> DEFINE e == [Idle EXCEPT !.step = "change", !.by = a, !.about = u, !.as = r]
    <2>1. /\ e \in RequestRecord /\ e.step = "change"
          /\ e.by = a /\ e.about = u /\ e.as = r
      BY IdleIsRecord DEF RequestRecord, Steps
    <2>2. Begin(c, e)
      BY <1>1 DEF BeginChange
    <2> HIDE DEF e
    <2> QED
      BY <2>1, <2>2
  <1>2. ASSUME NEW a \in Users, NEW u \in Users, NEW r \in Invitable,
               BeginInvite(c, a, u, r)
        PROVE  \E e \in RequestRecord : Fits(e)
    <2> DEFINE e == [Idle EXCEPT !.step = "check", !.by = a, !.about = u, !.as = r]
    <2>1. /\ e \in RequestRecord /\ e.step = "check"
          /\ e.by = a /\ e.about = u /\ e.as = r
      BY IdleIsRecord DEF RequestRecord, Steps
    <2>2. Begin(c, e)
      BY <1>2 DEF BeginInvite
    <2> HIDE DEF e
    <2> QED
      BY <2>1, <2>2
  <1>3. ASSUME NEW a \in Users, NEW u \in Users, BeginRemove(c, a, u)
        PROVE  \E e \in RequestRecord : Fits(e)
    <2> DEFINE e == [Idle EXCEPT !.step = "remove", !.by = a, !.about = u]
    <2>1. /\ e \in RequestRecord /\ e.step = "remove"
          /\ e.by = a /\ e.about = u
      BY IdleIsRecord DEF RequestRecord, Steps
    <2>2. Begin(c, e)
      BY <1>3 DEF BeginRemove
    <2> HIDE DEF e
    <2> QED
      BY <2>1, <2>2
  <1>4. ASSUME NEW a \in Users, NEW u \in Users, BeginTransfer(c, a, u)
        PROVE  \E e \in RequestRecord : Fits(e)
    <2> DEFINE e == [Idle EXCEPT !.step = "target", !.by = a, !.about = u]
    <2>1. /\ e \in RequestRecord /\ e.step = "target"
          /\ e.by = a /\ e.about = u
      BY IdleIsRecord DEF RequestRecord, Steps
    <2>2. Begin(c, e)
      BY <1>4 DEF BeginTransfer
    <2> HIDE DEF e
    <2> QED
      BY <2>1, <2>2
  <1>5. ASSUME NEW a \in Users, NEW i \in Invites, BeginRevoke(c, a, i)
        PROVE  \E e \in RequestRecord : Fits(e)
    <2> DEFINE e == [Idle EXCEPT !.step = "revoke", !.by = a, !.with = i]
    <2>1. /\ e \in RequestRecord /\ e.step = "revoke"
          /\ e.with = i
      BY IdleIsRecord DEF RequestRecord, Steps
    <2>2. Begin(c, e) /\ invite[i].state # "unsent"
      BY <1>5 DEF BeginRevoke
    <2> HIDE DEF e
    <2> QED
      BY <2>1, <2>2
  <1>6. ASSUME NEW i \in Invites, BeginAccept(c, i)
        PROVE  \E e \in RequestRecord : Fits(e)
    <2> DEFINE e == [Idle EXCEPT !.step = "read", !.about = invite[i].to, !.with = i]
    <2>1. invite[i].to \in Users
      BY <1>6 DEF BeginAccept, InvitesSent
    <2>2. /\ e \in RequestRecord /\ e.step = "read"
          /\ e.about = invite[i].to /\ e.with = i
      BY <2>1, IdleIsRecord DEF RequestRecord, Steps
    <2>3. Begin(c, e) /\ invite[i].state # "unsent"
      BY <1>6 DEF BeginAccept
    <2> HIDE DEF e
    <2> QED
      BY <2>2, <2>3, <2>1
  <1>7. ASSUME NEW u \in Users, BeginLookup(c, u)
        PROVE  \E e \in RequestRecord : Fits(e)
    <2> DEFINE e == [Idle EXCEPT !.step = "lookup", !.about = u]
    <2>1. /\ e \in RequestRecord /\ e.step = "lookup"
          /\ e.about = u
      BY IdleIsRecord DEF RequestRecord, Steps
    <2>2. Begin(c, e)
      BY <1>7 DEF BeginLookup
    <2> HIDE DEF e
    <2> QED
      BY <2>1, <2>2
  <1> QED
    BY <1>1, <1>2, <1>3, <1>4, <1>5, <1>6, <1>7 DEF Starts

\* A request that begins, as the other lemmas need it.
LEMMA Started ==
  ASSUME TypeOK, InvitesSent, NEW c \in Requests, Starts(c)
  PROVE  /\ Others(c) /\ At(c, "idle")
         /\ request'[c].step \in {"change", "remove", "target", "check", "revoke", "read", "lookup"}
         /\ UNCHANGED <<role, owner, invite, cached, history>>
  <1>1. PICK e \in RequestRecord :
          /\ Begin(c, e)
          /\ e.step \in {"change", "remove", "target", "check", "revoke", "read", "lookup"}
    BY Beginnings
  <1> QED
    BY <1>1, Begins

\* A step that ends a request or moves it on moves no other.
LEMMA Moves ==
  ASSUME TypeOK, NEW c \in Requests, Done(c) \/ \E s \in Steps : Goes(c, s)
  PROVE  Others(c) /\ (request'[c].step = "idle" \/ \E s \in Steps : Goes(c, s) /\ request'[c].step = s)
  BY GoesOn, IsDone

-----------------------------------------------------------------------------
\* Types, with what requests and invites know, and what becomes of an invite.
Core == TypeOK /\ RequestsKnow /\ InvitesSent /\ InviteAdmitsOnce /\ OneJoinsWith

LEMMA CoreInit == Init => Core
  <1>1. Cardinality(Users) \in Nat /\ Cardinality(Invites) \in Nat
    BY MembershipAssumption, FS_CardinalityType
  <1>2. Init => request \in [Requests -> RequestRecord]
    BY IdleIsRecord DEF Init
  <1>3. Init => TypeOK
    <2> SUFFICES ASSUME Init PROVE TypeOK
      OBVIOUS
    <2>1. invite \in [Invites -> [state : {"unsent", "live", "expired", "accepted", "revoked"},
                                 to : Users \cup {None}, as : Invitable \cup {"none"}]]
      BY DEF Init
    <2>2. request \in [Requests -> RequestRecord]
      BY <1>2
    <2>3. /\ role \in [Users -> Roles \cup {"none"}] /\ owner \in Users
          /\ cached \in [Users -> {"unknown", "yes", "no"}]
          /\ asked \in 0 .. RequestMax /\ joins \in [Invites -> Nat]
      BY MembershipAssumption DEF Init, Roles
    <2>4. /\ orphaned \in BOOLEAN /\ oversold \in BOOLEAN
          /\ misled \subseteq Users /\ overtaken \subseteq Requests /\ stranded \subseteq Invites
      BY DEF Init
    <2> QED
      BY <2>1, <2>2, <2>3, <2>4 DEF TypeOK, RequestRecord
  <1>4. Idle.step = "idle"
    BY DEF Idle
  <1>5. Init => /\ \A c \in Requests : request[c].step = "idle"
                /\ \A i \in Invites : invite[i].state = "unsent" /\ joins[i] = 0
    BY <1>4 DEF Init
  <1>6. Init => RequestsKnow /\ OneJoinsWith
    BY <1>5 DEF RequestsKnow, KnowsEnough, OneJoinsWith, At
  <1>7. Init => InvitesSent /\ InviteAdmitsOnce
    BY <1>5 DEF InvitesSent, InviteAdmitsOnce
  <1> QED
    BY <1>3, <1>6, <1>7 DEF Core

\* The others know what they knew, when only request c moves and no invite changes.
LEMMA KnowsOn ==
  ASSUME RequestsKnow, NEW c \in Requests, Others(c), UNCHANGED invite, KnowsEnough(c)'
  PROVE  RequestsKnow'
  <1>1. ASSUME NEW d \in Requests, d # c
        PROVE  KnowsEnough(d)'
    <2>1. request'[d] = request[d] /\ KnowsEnough(d)
      BY <1>1 DEF Others, RequestsKnow
    <2> QED
      BY <2>1 DEF KnowsEnough, At
  <1> QED
    BY <1>1 DEF RequestsKnow

\* The requests of Core, when only request c moves and no invite changes, and
\* it does not come to a step of accepting an invite.
LEMMA MovesBy ==
  ASSUME Core, NEW c \in Requests, Others(c), request' \in [Requests -> RequestRecord],
         UNCHANGED <<invite, joins>>, stranded \subseteq stranded',
         ~At(c, "idle")' /\ ~At(c, "revoke")' => request'[c].about \in Users,
         request'[c].step \in {"target", "demote", "promote", "name", "evict both"} =>
           request'[c].by \in Users,
         request'[c].step \in {"change", "check", "members", "pending", "insert"} =>
           request'[c].as \in Invitable,
         At(c, "store")' => request'[c].as \in {"yes", "no"},
         At(c, "pending")' => request'[c].seen <= Cardinality(Users),
         request'[c].step \in {"revoke", "read", "mark", "add"} =>
           request'[c].with \in Invites /\ invite[request'[c].with].state # "unsent",
         request'[c].step \in {"read", "mark", "add"} =>
           invite[request'[c].with].to = request'[c].about,
         ~At(c, "add"), ~At(c, "add")'
  PROVE  RequestsKnow' /\ InvitesSent' /\ InviteAdmitsOnce' /\ OneJoinsWith'
  <1>1. RequestsKnow'
    <2>1. KnowsEnough(c)'
      BY DEF KnowsEnough, At
    <2> QED
      BY <2>1, KnowsOn DEF Core
  <1>2. InvitesSent' /\ OneJoinsWith'
    <2>1. InvitesSent'
      BY DEF Core, InvitesSent
    <2>2. ASSUME NEW d \in Requests, At(d, "add")'
          PROVE  d # c /\ At(d, "add") /\ request'[d] = request[d]
      BY <2>2 DEF Others, At
    <2>3. ASSUME NEW d \in Requests, At(d, "add")'
          PROVE  /\ invite'[request'[d].with].state = "accepted" /\ joins'[request'[d].with] = 0
                 /\ \A e \in Requests \ {d} : At(e, "add")' => request'[e].with # request'[d].with
      <3>1. /\ At(d, "add") /\ request'[d] = request[d]
            /\ \A e \in Requests : At(e, "add")' => At(e, "add") /\ request'[e] = request[e]
        BY <2>2, <2>3
      <3>2. /\ invite[request[d].with].state = "accepted" /\ joins[request[d].with] = 0
            /\ \A e \in Requests \ {d} : At(e, "add") => request[e].with # request[d].with
        BY <3>1 DEF Core, OneJoinsWith
      <3> QED
        BY <3>1, <3>2
    <2>4. OneJoinsWith'
      BY <2>3 DEF OneJoinsWith
    <2> QED
      BY <2>1, <2>4
  <1>3. InviteAdmitsOnce'
    <2>1. Joining \subseteq Joining'
      BY DEF Joining, At, Others
    <2> QED
      BY <2>1 DEF Core, InviteAdmitsOnce
  <1> QED
    BY <1>1, <1>2, <1>3

LEMMA NoneMoves ==
  ASSUME Core, UNCHANGED <<request, invite, joins, stranded>>
  PROVE  RequestsKnow' /\ InvitesSent' /\ InviteAdmitsOnce' /\ OneJoinsWith'
  <1>1. RequestsKnow'
    <2>1. ASSUME NEW c \in Requests PROVE KnowsEnough(c)'
      BY DEF Core, RequestsKnow, KnowsEnough, At
    <2> QED
      BY <2>1 DEF RequestsKnow
  <1>2. InvitesSent' /\ OneJoinsWith'
    BY DEF Core, InvitesSent, OneJoinsWith, At
  <1>3. InviteAdmitsOnce'
    BY DEF Core, InviteAdmitsOnce, Joining, At
  <1> QED
    BY <1>1, <1>2, <1>3

LEMMA DoneMoves ==
  ASSUME Core, NEW c \in Requests, Done(c), ~At(c, "add"),
         UNCHANGED <<invite, joins>>, stranded \subseteq stranded'
  PROVE  RequestsKnow' /\ InvitesSent' /\ InviteAdmitsOnce' /\ OneJoinsWith'
  <1>1. /\ request' \in [Requests -> RequestRecord] /\ Others(c)
        /\ request'[c].step = "idle"
    BY IsDone DEF Core
  <1> QED
    BY <1>1, MovesBy DEF At

LEMMA GoesMoves ==
  ASSUME Core, NEW c \in Requests, NEW s \in Steps, Goes(c, s),
         UNCHANGED <<invite, joins, stranded>>,
         ~At(c, "idle"), ~At(c, "revoke"), ~At(c, "add"),
         s \in {"evict", "lookup", "evict both", "demote", "promote", "name", "members", "insert", "mark"},
         s \in {"demote", "promote", "name", "evict both"} =>
           request[c].step \in {"target", "demote", "promote", "name"},
         s \in {"members", "insert"} => request[c].step \in {"check", "pending"},
         s = "mark" => request[c].step = "read"
  PROVE  RequestsKnow' /\ InvitesSent' /\ InviteAdmitsOnce' /\ OneJoinsWith'
  <1>1. /\ request' \in [Requests -> RequestRecord] /\ Others(c)
        /\ request'[c].step = s
        /\ request'[c].by = request[c].by /\ request'[c].about = request[c].about
        /\ request'[c].with = request[c].with /\ request'[c].as = request[c].as
        /\ request'[c].seen = request[c].seen
    BY GoesOn DEF Core
  <1>2. /\ request[c].about \in Users
        /\ request[c].step \in {"target", "demote", "promote", "name"} => request[c].by \in Users
        /\ request[c].step \in {"check", "pending"} => request[c].as \in Invitable
        /\ request[c].step = "read" =>
             /\ request[c].with \in Invites /\ invite[request[c].with].state # "unsent"
             /\ invite[request[c].with].to = request[c].about
    BY DEF Core, RequestsKnow, KnowsEnough, At
  <1>3. ~At(c, "add")' /\ ~At(c, "pending")' /\ ~At(c, "store")' /\ ~At(c, "revoke")'
    BY <1>1 DEF At
  <1> QED
    BY <1>1, <1>2, <1>3, MovesBy DEF At

\* An invite as it was.
SameInvite(i) == invite'[i] = invite[i]

\* What is known of the invites stays known while the sent ones stay addressed
\* and no request moves but to be done.
LEMMA KnownInvites ==
  ASSUME Core, NEW i \in Invites, \A j \in Invites : SameInvite(j) \/ j = i,
         invite'[i].state # "unsent",
         \/ invite'[i].to \in Users /\ invite'[i].as \in Invitable
         \/ invite'[i].to = invite[i].to /\ invite'[i].as = invite[i].as /\ invite[i].state # "unsent",
         invite[i].state # "unsent" => invite'[i].to = invite[i].to,
         \A d \in Requests :
           \/ request'[d] = request[d] \/ request'[d].step = "idle"
           \/ At(d, "mark") /\ At(d, "add")' /\ request'[d].with = request[d].with
                /\ request'[d].about = request[d].about
  PROVE  RequestsKnow' /\ InvitesSent'
  <1>1. \A j \in Invites : invite[j].state # "unsent" =>
          invite'[j].state # "unsent" /\ invite'[j].to = invite[j].to
    BY DEF SameInvite
  <1>2. InvitesSent'
    BY DEF Core, InvitesSent, SameInvite
  <1>3. ASSUME NEW c \in Requests,
               \/ request'[c] = request[c]
               \/ At(c, "mark") /\ At(c, "add")' /\ request'[c].with = request[c].with
                    /\ request'[c].about = request[c].about
        PROVE  /\ request'[c].about = request[c].about
               /\ request'[c].step \in {"revoke", "read", "mark", "add"} =>
                    request'[c].with \in Invites /\ invite'[request'[c].with].state # "unsent"
               /\ request'[c].step \in {"read", "mark", "add"} =>
                    invite'[request'[c].with].to = request'[c].about
    <2>1. /\ request[c].step \in {"revoke", "read", "mark", "add"} =>
               request[c].with \in Invites /\ invite[request[c].with].state # "unsent"
          /\ request[c].step \in {"read", "mark", "add"} =>
               invite[request[c].with].to = request[c].about
      BY DEF Core, RequestsKnow, KnowsEnough
    <2> QED
      BY <1>1, <1>3, <2>1 DEF At
  <1>4. RequestsKnow'
    <2> SUFFICES ASSUME NEW c \in Requests
                 PROVE  KnowsEnough(c)'
      BY DEF RequestsKnow
    <2>1. KnowsEnough(c)
      BY DEF Core, RequestsKnow
    <2> QED
      BY <1>3, <2>1 DEF KnowsEnough, At
  <1> QED
    BY <1>2, <1>4

LEMMA CoreNext == Core /\ [Next]_vars => Core'
  <1> SUFFICES ASSUME Core, [Next]_vars PROVE Core'
    OBVIOUS
  <1> DEFINE Rest == RequestsKnow' /\ InvitesSent' /\ InviteAdmitsOnce' /\ OneJoinsWith'
             Knows(c) == ~At(c, "idle") /\ ~At(c, "revoke") => request[c].about \in Users
  <1>0. /\ role \in [Users -> Roles \cup {"none"}] /\ owner \in Users
        /\ cached \in [Users -> {"unknown", "yes", "no"}]
        /\ asked \in 0 .. RequestMax /\ joins \in [Invites -> Nat]
        /\ orphaned \in BOOLEAN /\ oversold \in BOOLEAN
        /\ misled \subseteq Users /\ overtaken \subseteq Requests /\ stranded \subseteq Invites
        /\ invite \in [Invites -> [state : {"unsent", "live", "expired", "accepted", "revoked"},
                                   to : Users \cup {None}, as : Invitable \cup {"none"}]]
        /\ \A c \in Requests : Knows(c)
    BY DEF Core, TypeOK, RequestsKnow, KnowsEnough
  <1>t. ASSUME request' \in [Requests -> RequestRecord],
               role' \in [Users -> Roles \cup {"none"}], owner' \in Users,
               cached' \in [Users -> {"unknown", "yes", "no"}],
               asked' \in 0 .. RequestMax, joins' \in [Invites -> Nat],
               orphaned' \in BOOLEAN, oversold' \in BOOLEAN,
               misled' \subseteq Users, overtaken' \subseteq Requests, stranded' \subseteq Invites,
               invite' \in [Invites -> [state : {"unsent", "live", "expired", "accepted", "revoked"},
                                   to : Users \cup {None}, as : Invitable \cup {"none"}]]
        PROVE  TypeOK'
    BY <1>t DEF TypeOK, RequestRecord
  <1>1. ASSUME NEW c \in Requests, NEW e \in RequestRecord, Begin(c, e),
               e.step \in {"change", "remove", "target", "check", "revoke", "read", "lookup"},
               e.step # "revoke" => e.about \in Users,
               e.step = "target" => e.by \in Users,
               e.step \in {"change", "check"} => e.as \in Invitable,
               e.step \in {"revoke", "read"} => e.with \in Invites /\ invite[e.with].state # "unsent",
               e.step = "read" => invite[e.with].to = e.about
        PROVE  Core'
    <2>1. /\ request' \in [Requests -> RequestRecord] /\ Others(c)
          /\ request'[c] = e /\ ~At(c, "add")
          /\ asked' \in 0 .. RequestMax
          /\ UNCHANGED <<role, owner, invite, cached, history>>
      BY <1>1, Begins DEF Core
    <2>2. TypeOK'
      BY <1>0, <1>t, <2>1 DEF history
    <2>3. Rest
      BY <1>1, <2>1, MovesBy DEF At, history
    <2> QED
      BY <2>2, <2>3 DEF Core
  <1>2. ASSUME NEW c \in Requests, Change(c) PROVE Core'
    <2>1. request[c].about \in Users /\ request[c].as \in Invitable
      BY <1>0, <1>2 DEF Change, At, Core, RequestsKnow, KnowsEnough
    <2>2. /\ role' \in [Users -> Roles \cup {"none"}]
          /\ UNCHANGED <<owner, invite, cached, asked, history>>
      BY <1>0, <1>2, <2>1 DEF Change, Roles
    <2>3. CASE Done(c)
      <3>1. Rest
        BY <1>2, <2>2, <2>3, DoneMoves DEF Change, At, history
      <3> QED
        BY <1>0, <1>t, <2>2, <2>3, <3>1, IsDone DEF Core, history
    <2>4. CASE Goes(c, "evict")
      <3>1. Rest
        BY <1>2, <2>2, <2>4, GoesMoves DEF Change, At, history, Steps
      <3> QED
        BY <1>0, <1>t, <2>2, <2>4, <3>1, GoesOn DEF Core, history, Steps
    <2> QED
      BY <1>2, <2>3, <2>4 DEF Change
  <1>3. ASSUME NEW c \in Requests, RemoveMember(c) PROVE Core'
    <2>1. request[c].about \in Users
      BY <1>0, <1>3 DEF RemoveMember, At
    <2>2. /\ role' \in [Users -> Roles \cup {"none"}] /\ overtaken' \subseteq Requests
          /\ UNCHANGED <<owner, invite, cached, asked, joins, orphaned, oversold, misled, stranded>>
      BY <1>0, <1>3, <2>1 DEF RemoveMember, Overtakes
    <2>3. CASE Done(c)
      <3>1. Rest
        BY <1>3, <2>2, <2>3, DoneMoves DEF RemoveMember, At
      <3> QED
        BY <1>0, <1>t, <2>2, <2>3, <3>1, IsDone DEF Core
    <2>4. CASE Goes(c, "evict")
      <3>1. Rest
        BY <1>3, <2>2, <2>4, GoesMoves DEF RemoveMember, At, Steps
      <3> QED
        BY <1>0, <1>t, <2>2, <2>4, <3>1, GoesOn DEF Core, Steps
    <2> QED
      BY <1>3, <2>3, <2>4 DEF RemoveMember
  <1>4. ASSUME NEW c \in Requests, Evict(c) PROVE Core'
    <2>1. /\ Done(c) /\ request[c].about \in Users /\ ~At(c, "add")
          /\ UNCHANGED <<role, owner, invite, asked, joins, orphaned, oversold, overtaken, stranded>>
      BY <1>0, <1>4 DEF Evict, At
    <2>2. cached' \in [Users -> {"unknown", "yes", "no"}] /\ misled' \subseteq Users
      BY <1>0, <1>4, <2>1 DEF Evict, Delete, Missed
    <2>3. Rest
      BY <2>1, DoneMoves
    <2> QED
      BY <1>0, <1>t, <2>1, <2>2, <2>3, IsDone DEF Core
  <1>5. ASSUME NEW c \in Requests, Target(c) \/ Check(c) \/ ReadInvite(c) PROVE Core'
    <2>1. /\ UNCHANGED <<role, owner, invite, cached, asked, history>>
          /\ ~At(c, "idle") /\ ~At(c, "revoke") /\ ~At(c, "add")
      BY <1>5 DEF Target, Check, ReadInvite, At
    <2>2. CASE Done(c)
      <3>1. Rest
        BY <2>1, <2>2, DoneMoves DEF history
      <3> QED
        BY <1>0, <1>t, <2>1, <2>2, <3>1, IsDone DEF Core, history
    <2>3. CASE \/ At(c, "target") /\ Goes(c, "demote")
               \/ At(c, "check") /\ Goes(c, "members")
               \/ At(c, "read") /\ Goes(c, "mark")
      <3>1. Rest
        BY <2>1, <2>3, GoesMoves DEF At, history, Steps
      <3>2. request' \in [Requests -> RequestRecord]
        BY <2>3, GoesOn DEF Core, Steps
      <3> QED
        BY <1>0, <1>t, <2>1, <3>1, <3>2 DEF Core, history
    <2> QED
      BY <1>5, <2>2, <2>3 DEF Target, Check, ReadInvite
  <1>6. ASSUME NEW c \in Requests, Demote(c) PROVE Core'
    <2>1. request[c].by \in Users
      BY <1>6 DEF Demote, At, Core, RequestsKnow, KnowsEnough
    <2>2. /\ role' \in [Users -> Roles \cup {"none"}] /\ Goes(c, "promote")
          /\ UNCHANGED <<owner, invite, cached, asked, history>>
      BY <1>0, <1>6, <2>1 DEF Demote, Roles, Invitable
    <2>3. Rest
      BY <1>6, <2>2, GoesMoves DEF Demote, At, history, Steps
    <2> QED
      BY <1>0, <1>t, <2>2, <2>3, GoesOn DEF Core, history, Steps
  <1>7. ASSUME NEW c \in Requests, Promote(c) PROVE Core'
    <2>1. request[c].about \in Users
      BY <1>0, <1>7 DEF Promote, At
    <2>2. /\ role' \in [Users -> Roles \cup {"none"}] /\ orphaned' \in BOOLEAN
          /\ UNCHANGED <<owner, invite, cached, asked, joins, oversold, misled, overtaken, stranded>>
      BY <1>0, <1>7, <2>1 DEF Promote, Roles
    <2>3. CASE Done(c)
      <3>1. Rest
        BY <1>7, <2>2, <2>3, DoneMoves DEF Promote, At
      <3> QED
        BY <1>0, <1>t, <2>2, <2>3, <3>1, IsDone DEF Core
    <2>4. CASE Goes(c, "name")
      <3>1. Rest
        BY <1>7, <2>2, <2>4, GoesMoves DEF Promote, At, Steps
      <3> QED
        BY <1>0, <1>t, <2>2, <2>4, <3>1, GoesOn DEF Core, Steps
    <2> QED
      BY <1>7, <2>3, <2>4 DEF Promote
  <1>8. ASSUME NEW c \in Requests, Name(c) PROVE Core'
    <2>1. /\ owner' \in Users /\ Goes(c, "evict both")
          /\ UNCHANGED <<role, invite, cached, asked, history>>
      BY <1>0, <1>8 DEF Name, At
    <2>2. Rest
      BY <1>8, <2>1, GoesMoves DEF Name, At, history, Steps
    <2> QED
      BY <1>0, <1>t, <2>1, <2>2, GoesOn DEF Core, history, Steps
  <1>9. ASSUME NEW c \in Requests, EvictBoth(c) PROVE Core'
    <2>1. /\ Goes(c, "evict")
          /\ cached' \in [Users -> {"unknown", "yes", "no"}] /\ misled' \subseteq Users
          /\ UNCHANGED <<role, owner, invite, asked, joins, orphaned, oversold, overtaken, stranded>>
      BY <1>0, <1>9 DEF EvictBoth, Delete
    <2>2. Rest
      BY <1>9, <2>1, GoesMoves DEF EvictBoth, At, Steps
    <2> QED
      BY <1>0, <1>t, <2>1, <2>2, GoesOn DEF Core, Steps
  <1>10. ASSUME NEW c \in Requests, CountMembers(c) PROVE Core'
    <2> DEFINE n == Cardinality(Members)
    <2>1. /\ n \in 0 .. Cardinality(Users) /\ Cardinality(Users) \in Nat
          /\ n \in 0 .. Cardinality(Users) + Cardinality(Invites)
      BY Finiteness DEF Core
    <2>2. request' = [request EXCEPT ![c].step = "pending", ![c].seen = n]
      BY <1>10 DEF CountMembers
    <2> HIDE DEF n
    <2>3. /\ request' \in [Requests -> RequestRecord] /\ Others(c)
          /\ request'[c].step = "pending" /\ request'[c].seen = n
          /\ request'[c].about = request[c].about /\ request'[c].as = request[c].as
      <3>1. request \in [Requests -> RequestRecord] /\ "pending" \in Steps
        BY DEF Core, TypeOK, Steps, RequestRecord
      <3> QED
        <4>1. TypeOK /\ CountsTo(c, "pending", n)
          BY <2>2 DEF Core, CountsTo
        <4> QED
          BY <2>1, <3>1, <4>1, Counts
    <2>4. /\ overtaken' \subseteq Requests /\ ~At(c, "add")
          /\ UNCHANGED <<role, owner, invite, cached, asked, joins, orphaned, oversold, misled, stranded>>
      BY <1>0, <1>10 DEF CountMembers, At
    <2>5. request[c].about \in Users /\ request[c].as \in Invitable
      BY <1>0, <1>10 DEF CountMembers, At, Core, RequestsKnow, KnowsEnough
    <2>6. request'[c].seen <= Cardinality(Users)
      BY <2>1, <2>3
    <2>7. Rest
      BY <2>3, <2>4, <2>5, <2>6, MovesBy DEF At
    <2> QED
      BY <1>0, <1>t, <2>3, <2>4, <2>7 DEF Core
  <1>11. ASSUME NEW c \in Requests, CountPending(c) PROVE Core'
    <2> DEFINE n == request[c].seen + Cardinality(Pending)
    <2>0. /\ oversold' \in BOOLEAN /\ At(c, "pending")
          /\ UNCHANGED <<role, owner, invite, cached, asked, joins, orphaned, misled, overtaken, stranded>>
      BY <1>0, <1>11 DEF CountPending
    <2>1. CASE Done(c)
      <3>1. Rest
        BY <2>0, <2>1, DoneMoves DEF At
      <3> QED
        BY <1>0, <1>t, <2>0, <2>1, <3>1, IsDone DEF Core
    <2>2. CASE Goes(c, "insert")
      <3>1. Rest
        BY <2>0, <2>2, GoesMoves DEF At, Steps
      <3> QED
        BY <1>0, <1>t, <2>0, <2>2, <3>1, GoesOn DEF Core, Steps
    <2>3. CASE request' = [request EXCEPT ![c].step = "insert", ![c].seen = n]
      <3>1. request[c].about \in Users /\ request[c].as \in Invitable
        BY <1>0, <2>0 DEF At, Core, RequestsKnow, KnowsEnough
      <3>2. request[c].seen <= Cardinality(Users)
        BY <2>0 DEF Core, RequestsKnow, KnowsEnough
      <3>3. request[c].seen \in 0 .. Cardinality(Users) + Cardinality(Invites)
        BY DEF Core, TypeOK
      <3>4. n \in 0 .. Cardinality(Users) + Cardinality(Invites)
        BY <3>2, <3>3, Finiteness DEF Core
      <3> HIDE DEF n
      <3>5. /\ request' \in [Requests -> RequestRecord] /\ Others(c)
            /\ request'[c].step = "insert"
            /\ request'[c].about = request[c].about /\ request'[c].as = request[c].as
        <4>1. TypeOK /\ CountsTo(c, "insert", n) /\ "insert" \in Steps
          BY <2>3 DEF Core, CountsTo, Steps
        <4> QED
          BY <3>4, <4>1, Counts
      <3>6. Rest
        BY <2>0, <3>1, <3>5, MovesBy DEF At
      <3> QED
        BY <1>0, <1>t, <2>0, <3>5, <3>6 DEF Core
    <2> QED
      BY <1>11, <2>1, <2>2, <2>3 DEF CountPending
  <1>12. ASSUME NEW c \in Requests, Lookup(c) PROVE Core'
    <2> DEFINE answer == IF role[request[c].about] # "none" THEN "yes" ELSE "no"
    <2>1. /\ request[c] \in RequestRecord /\ request \in [Requests -> RequestRecord]
          /\ request' = [request EXCEPT ![c] = [request[c] EXCEPT !.step = "store", !.as = answer]]
      BY <1>12 DEF Lookup, Core, TypeOK, RequestRecord
    <2>2. answer \in {"yes", "no"}
      OBVIOUS
    <2> HIDE DEF answer
    <2>3. /\ [request[c] EXCEPT !.step = "store", !.as = answer] \in RequestRecord
          /\ request'[c].step = "store" /\ request'[c].as = answer
          /\ request'[c].about = request[c].about
      BY <2>1, <2>2 DEF RequestRecord, Steps
    <2>4. /\ request' \in [Requests -> RequestRecord] /\ Others(c)
          /\ UNCHANGED <<role, owner, invite, cached, asked, history>>
      <3>1. request' \in [Requests -> RequestRecord] /\ Others(c)
        BY <2>1, <2>3 DEF Others
      <3> QED
        BY <1>12, <3>1 DEF Lookup
    <2>5. Rest
      BY <1>0, <1>12, <2>2, <2>3, <2>4, MovesBy DEF Lookup, At, history
    <2> QED
      BY <1>0, <1>t, <2>4, <2>5 DEF Core, history
  <1>13. ASSUME NEW c \in Requests, Store(c) PROVE Core'
    <2>1. request[c].about \in Users /\ request[c].as \in {"yes", "no"} /\ Done(c)
      BY <1>0, <1>13 DEF Store, At, Core, RequestsKnow, KnowsEnough
    <2>2. /\ cached' \in [Users -> {"unknown", "yes", "no"}] /\ misled' \subseteq Users
          /\ UNCHANGED <<role, owner, invite, asked, joins, orphaned, oversold, overtaken, stranded>>
      BY <1>0, <1>13, <2>1 DEF Store
    <2>3. Rest
      BY <1>13, <2>1, <2>2, DoneMoves DEF Store, At
    <2> QED
      BY <1>0, <1>t, <2>1, <2>2, <2>3, IsDone DEF Core
  <1>14. ASSUME NEW u \in Users, Forget(u) PROVE Core'
    <2>1. /\ cached' \in [Users -> {"unknown", "yes", "no"}] /\ misled' \subseteq Users
          /\ UNCHANGED <<role, owner, invite, asked, request, joins, orphaned, oversold, overtaken, stranded>>
      BY <1>0, <1>14 DEF Forget, Delete
    <2>2. request \in [Requests -> RequestRecord]
      BY DEF Core, TypeOK, RequestRecord
    <2>3. Rest
      BY <2>1, NoneMoves
    <2> QED
      BY <1>0, <1>t, <2>1, <2>2, <2>3 DEF Core
  <1>15. CASE UNCHANGED vars
    <2>1. request \in [Requests -> RequestRecord]
      BY DEF Core, TypeOK, RequestRecord
    <2>2. Rest
      BY <1>15, NoneMoves DEF vars, history
    <2> QED
      BY <1>0, <1>15, <1>t, <2>1, <2>2 DEF Core, vars, history
  <1>16. ASSUME NEW i \in Invites, Lapse(i) PROVE Core'
    <2>1. /\ invite' = [invite EXCEPT ![i].state = "expired"] /\ invite[i].state = "live"
          /\ UNCHANGED <<role, owner, cached, asked, request, history>>
      BY <1>16 DEF Lapse
    <2>2. /\ invite' \in [Invites -> [state : {"unsent", "live", "expired", "accepted", "revoked"},
                                     to : Users \cup {None}, as : Invitable \cup {"none"}]]
          /\ \A j \in Invites : SameInvite(j) \/ j = i
          /\ invite'[i].to = invite[i].to /\ invite'[i].as = invite[i].as
          /\ invite'[i].state = "expired"
      BY <1>0, <2>1 DEF SameInvite
    <2>3. request \in [Requests -> RequestRecord]
      BY DEF Core, TypeOK, RequestRecord
    <2>4. RequestsKnow' /\ InvitesSent'
      BY <2>1, <2>2, KnownInvites
    <2>5. InviteAdmitsOnce'
      BY <2>1, <2>2 DEF Core, InviteAdmitsOnce, Joining, history, SameInvite
    <2>6. OneJoinsWith'
      <3>1. \A c \in Requests : At(c, "add") => request[c].with \in Invites /\ request[c].with # i
        BY <2>1 DEF Core, OneJoinsWith, RequestsKnow, KnowsEnough, At
      <3>2. \A c \in Requests : At(c, "add") => SameInvite(request[c].with)
        BY <2>2, <3>1
      <3> QED
        BY <2>1, <3>2 DEF Core, OneJoinsWith, At, history, SameInvite
    <2> QED
      BY <1>0, <1>t, <2>1, <2>2, <2>3, <2>4, <2>5, <2>6 DEF Core, history
  <1>17. ASSUME NEW c \in Requests, NEW i \in Invites, Insert(c, i) PROVE Core'
    <2>1. /\ request[c].about \in Users /\ request[c].as \in Invitable /\ Done(c)
          /\ At(c, "insert") /\ ~At(c, "add")
          /\ UNCHANGED <<role, owner, cached, asked, joins, orphaned, misled, stranded>>
          /\ oversold' \in BOOLEAN /\ overtaken' \subseteq Requests
      BY <1>0, <1>17 DEF Insert, At, Core, RequestsKnow, KnowsEnough, Overtakes
    <2>2. /\ request' \in [Requests -> RequestRecord] /\ Others(c)
          /\ request'[c].step = "idle"
      BY <2>1, IsDone DEF Core
    <2>3. CASE UNCHANGED invite
      <3>1. Rest
        BY <2>1, <2>3, DoneMoves
      <3> QED
        BY <1>0, <1>t, <2>1, <2>2, <2>3, <3>1 DEF Core
    <2>4. CASE /\ invite[i].state = "unsent"
               /\ invite' = [invite EXCEPT ![i] =
                                [state |-> "live", to |-> request[c].about, as |-> request[c].as]]
      <3>1. /\ invite' \in [Invites -> [state : {"unsent", "live", "expired", "accepted", "revoked"},
                                       to : Users \cup {None}, as : Invitable \cup {"none"}]]
            /\ \A j \in Invites : SameInvite(j) \/ j = i
            /\ invite'[i].to \in Users /\ invite'[i].as \in Invitable
            /\ invite'[i].state = "live" /\ invite[i].state = "unsent"
        BY <1>0, <2>1, <2>4 DEF SameInvite
      <3>2. RequestsKnow' /\ InvitesSent'
        BY <2>2, <3>1, KnownInvites DEF Others
      <3>3. InviteAdmitsOnce'
        <4>1. Joining' = Joining
          BY <2>1, <2>2 DEF Joining, Others, At
        <4> QED
          BY <2>1, <3>1, <4>1 DEF Core, InviteAdmitsOnce, SameInvite
      <3>4. OneJoinsWith'
        <4>1. \A d \in Requests : At(d, "add") => SameInvite(request[d].with)
          BY <3>1 DEF Core, OneJoinsWith, RequestsKnow, KnowsEnough, At
        <4>2. \A d \in Requests : At(d, "add")' => At(d, "add") /\ request'[d] = request[d]
          BY <2>2 DEF Others, At
        <4> QED
          BY <2>1, <4>1, <4>2 DEF Core, OneJoinsWith, SameInvite
      <3> QED
        BY <1>0, <1>t, <2>1, <2>2, <3>1, <3>2, <3>3, <3>4 DEF Core
    <2> QED
      BY <1>17, <2>3, <2>4 DEF Insert
  <1>18. ASSUME NEW c \in Requests, Revoke(c) PROVE Core'
    <2> DEFINE i == request[c].with
    <2>1. /\ Done(c) /\ ~At(c, "add") /\ i \in Invites
          /\ UNCHANGED <<role, owner, cached, asked, joins, orphaned, oversold, misled, stranded>>
          /\ overtaken' \subseteq Requests
      BY <1>0, <1>18 DEF Revoke, At, Core, RequestsKnow, KnowsEnough, Overtakes
    <2>2. /\ request' \in [Requests -> RequestRecord] /\ Others(c)
          /\ request'[c].step = "idle"
      BY <2>1, IsDone DEF Core
    <2>3. CASE UNCHANGED invite
      <3>1. Rest
        BY <2>1, <2>3, DoneMoves
      <3> QED
        BY <1>0, <1>t, <2>1, <2>2, <2>3, <3>1 DEF Core
    <2>4. CASE /\ invite[i].state \in {"live", "expired"}
               /\ invite' = [invite EXCEPT ![i].state = "revoked"]
      <3> HIDE DEF i
      <3>1. /\ invite' \in [Invites -> [state : {"unsent", "live", "expired", "accepted", "revoked"},
                                       to : Users \cup {None}, as : Invitable \cup {"none"}]]
            /\ \A j \in Invites : SameInvite(j) \/ j = i
            /\ invite'[i].to = invite[i].to /\ invite'[i].as = invite[i].as
            /\ invite'[i].state = "revoked"
        BY <1>0, <2>1, <2>4 DEF SameInvite
      <3>2. RequestsKnow' /\ InvitesSent'
        BY <2>1, <2>2, <2>4, <3>1, KnownInvites DEF Others
      <3>3. InviteAdmitsOnce'
        <4>1. Joining' = Joining
          BY <2>1, <2>2 DEF Joining, Others, At
        <4> QED
          BY <2>1, <2>4, <3>1, <4>1 DEF Core, InviteAdmitsOnce, SameInvite
      <3>4. OneJoinsWith'
        <4>1. \A d \in Requests : At(d, "add") => SameInvite(request[d].with)
          BY <2>4, <3>1 DEF Core, OneJoinsWith, RequestsKnow, KnowsEnough, At
        <4>2. \A d \in Requests : At(d, "add")' => At(d, "add") /\ request'[d] = request[d]
          BY <2>2 DEF Others, At
        <4> QED
          BY <2>1, <4>1, <4>2 DEF Core, OneJoinsWith, SameInvite
      <3> QED
        BY <1>0, <1>t, <2>1, <2>2, <3>1, <3>2, <3>3, <3>4 DEF Core
    <2> QED
      BY <1>18, <2>3, <2>4 DEF Revoke, Pending
  <1>19. ASSUME NEW c \in Requests, Mark(c) PROVE Core'
    <2> DEFINE i == request[c].with
    <2>1. /\ At(c, "mark") /\ ~At(c, "add") /\ i \in Invites /\ request[c].about \in Users
          /\ invite[i].to = request[c].about
          /\ UNCHANGED <<role, owner, cached, asked, joins, orphaned, oversold, misled, stranded>>
          /\ overtaken' \subseteq Requests
      BY <1>0, <1>19 DEF Mark, At, Core, RequestsKnow, KnowsEnough, Overtakes
    <2>2. CASE UNCHANGED invite /\ Done(c)
      <3>1. Rest
        BY <2>1, <2>2, DoneMoves
      <3> QED
        BY <1>0, <1>t, <2>1, <2>2, <3>1, IsDone DEF Core
    <2>3. CASE /\ invite[i].state = "live" /\ Goes(c, "add")
               /\ invite' = [invite EXCEPT ![i].state = "accepted"]
      <3>0. /\ request' \in [Requests -> RequestRecord] /\ Others(c)
            /\ request'[c].step = "add" /\ request'[c].with = i
            /\ request'[c].about = request[c].about
        BY <2>3, GoesOn DEF Core, Steps
      <3> HIDE DEF i
      <3>1. /\ invite' \in [Invites -> [state : {"unsent", "live", "expired", "accepted", "revoked"},
                                       to : Users \cup {None}, as : Invitable \cup {"none"}]]
            /\ \A j \in Invites : SameInvite(j) \/ j = i
            /\ invite'[i].to = invite[i].to /\ invite'[i].as = invite[i].as
            /\ invite'[i].state = "accepted"
        BY <1>0, <2>1, <2>3 DEF SameInvite
      <3>2. RequestsKnow' /\ InvitesSent'
        <4>1. \A d \in Requests :
                \/ request'[d] = request[d]
                \/ At(d, "mark") /\ At(d, "add")' /\ request'[d].with = request[d].with
                     /\ request'[d].about = request[d].about
          BY <2>1, <3>0 DEF Others, At, i
        <4> QED
          BY <2>1, <2>3, <3>1, <4>1, KnownInvites
      <3>3. InviteAdmitsOnce'
        <4>1. Joining \subseteq Joining' /\ i \in Joining'
          BY <2>1, <3>0 DEF Joining, Others, At
        <4> QED
          BY <2>1, <2>3, <3>1, <4>1 DEF Core, InviteAdmitsOnce, SameInvite
      <3>4. \A d \in Requests : At(d, "add") => request[d].with \in Invites \ {i} /\ SameInvite(request[d].with)
        BY <2>3, <3>1 DEF Core, OneJoinsWith, RequestsKnow, KnowsEnough, At
      <3>5. \A d \in Requests \ {c} : request'[d] = request[d]
        BY <3>0 DEF Others
      <3>6. joins[i] = 0
        <4>1. joins[i] \in Nat /\ invite[i].state = "live"
          BY <1>0, <2>1, <2>3
        <4>2. joins[i] <= 1 /\ (joins[i] = 1 => invite[i].state = "accepted")
          BY <2>1 DEF Core, InviteAdmitsOnce
        <4> QED
          BY <4>1, <4>2
      <3>7. OneJoinsWith'
        BY <2>1, <3>0, <3>1, <3>4, <3>5, <3>6 DEF Core, OneJoinsWith, SameInvite, At
      <3> QED
        BY <1>0, <1>t, <2>1, <3>0, <3>1, <3>2, <3>3, <3>7 DEF Core
    <2> QED
      BY <1>19, <2>2, <2>3 DEF Mark
  <1>20. ASSUME NEW c \in Requests, Add(c) PROVE Core'
    <2> DEFINE i == request[c].with
    <2>1. /\ At(c, "add") /\ i \in Invites /\ request[c].about \in Users
          /\ invite[i].state = "accepted" /\ joins[i] = 0 /\ invite[i].as \in Invitable
          /\ \A d \in Requests \ {c} : At(d, "add") => request[d].with # i
          /\ UNCHANGED <<owner, invite, cached, asked, oversold, misled, stranded>>
          /\ overtaken' \subseteq Requests
      BY <1>0, <1>20 DEF Add, At, Core, RequestsKnow, KnowsEnough, InvitesSent, OneJoinsWith, Overtakes
    <2>2. /\ request' \in [Requests -> RequestRecord] /\ Others(c)
          /\ request'[c].step = "evict" /\ request'[c].about = request[c].about
      BY <1>20, GoesOn DEF Add, Core, Steps
    <2>3. /\ role' \in [Users -> Roles \cup {"none"}] /\ orphaned' \in BOOLEAN
          /\ joins' = [joins EXCEPT ![i] = joins[i] + 1]
      BY <1>0, <1>20, <2>1 DEF Add, Roles
    <2> HIDE DEF i
    <2>4. /\ joins' \in [Invites -> Nat] /\ joins'[i] = 1
          /\ \A j \in Invites \ {i} : joins'[j] = joins[j]
      BY <1>0, <2>1, <2>3
    <2>5. RequestsKnow' /\ InvitesSent'
      <3>1. InvitesSent'
        BY <2>1 DEF Core, InvitesSent
      <3>2. KnowsEnough(c)'
        BY <2>1, <2>2 DEF KnowsEnough, At
      <3>3. RequestsKnow'
        BY <2>1, <2>2, <3>2, KnowsOn DEF Core
      <3> QED
        BY <3>1, <3>3
    <2>6. InviteAdmitsOnce'
      <3>1. \A j \in Joining : j \in Joining' \/ j = i
        BY <2>1, <2>2 DEF Joining, Others, At, i
      <3> QED
        BY <2>1, <2>4, <3>1 DEF Core, InviteAdmitsOnce
    <2>7. OneJoinsWith'
      <3>1. \A d \in Requests : At(d, "add")' =>
              d # c /\ At(d, "add") /\ request'[d] = request[d] /\ request[d].with \in Invites \ {i}
        BY <2>1, <2>2 DEF Others, At, Core, RequestsKnow, KnowsEnough
      <3> QED
        BY <2>1, <2>4, <3>1 DEF Core, OneJoinsWith
    <2> QED
      BY <1>0, <1>t, <2>1, <2>2, <2>3, <2>4, <2>5, <2>6, <2>7 DEF Core
  <1>21. ASSUME NEW c \in Requests, Crash(c) PROVE Core'
    <2>1. /\ Done(c) /\ ~At(c, "idle")
          /\ UNCHANGED <<role, owner, invite, cached, asked, joins, oversold, overtaken>>
          /\ orphaned' \in BOOLEAN
      BY <1>0, <1>21 DEF Crash
    <2>2. /\ request' \in [Requests -> RequestRecord] /\ Others(c)
          /\ request'[c].step = "idle"
      BY <2>1, IsDone DEF Core
    <2>3. /\ misled' \subseteq Users /\ stranded \subseteq stranded' /\ stranded' \subseteq Invites
          /\ At(c, "add") => request[c].with \in stranded'
      <3>1. /\ At(c, "evict") => request[c].about \in Users
            /\ At(c, "add") => request[c].with \in Invites
        BY <1>0 DEF At, Core, RequestsKnow, KnowsEnough
      <3> QED
        BY <1>0, <1>21, <3>1 DEF Crash, Missed
    <2>4. RequestsKnow' /\ InvitesSent'
      <3>1. InvitesSent'
        BY <2>1 DEF Core, InvitesSent
      <3>2. KnowsEnough(c)'
        BY <2>2 DEF KnowsEnough, At
      <3>3. RequestsKnow'
        BY <2>1, <2>2, <3>2, KnowsOn DEF Core
      <3> QED
        BY <3>1, <3>3
    <2>5. InviteAdmitsOnce'
      <3>1. \A j \in Joining : j \in Joining' \cup stranded'
        BY <2>2, <2>3 DEF Joining, Others, At
      <3> QED
        BY <2>1, <2>3, <3>1 DEF Core, InviteAdmitsOnce
    <2>6. OneJoinsWith'
      <3>1. \A d \in Requests : At(d, "add")' => d # c /\ At(d, "add") /\ request'[d] = request[d]
        BY <2>2 DEF Others, At
      <3> QED
        BY <2>1, <3>1 DEF Core, OneJoinsWith
    <2> QED
      BY <1>0, <1>t, <2>1, <2>2, <2>3, <2>4, <2>5, <2>6 DEF Core
  <1>22. ASSUME NEW c \in Requests, Starts(c) PROVE Core'
    BY <1>1, <1>22, Beginnings DEF Core
  <1> QED
    BY <1>2, <1>3, <1>4, <1>5, <1>6, <1>7, <1>8, <1>9, <1>10, <1>11, <1>12, <1>13, <1>14,
       <1>15, <1>16, <1>17, <1>18, <1>19, <1>20, <1>21, <1>22 DEF Next, Starts
-----------------------------------------------------------------------------
\* How a set is counted that gains or loses one.
LEMMA OneMore ==
  ASSUME NEW A, NEW B, NEW x, IsFiniteSet(A), B \subseteq A \cup {x}
  PROVE  IsFiniteSet(B) /\ Cardinality(B) <= Cardinality(A) + 1
  <1>1. /\ IsFiniteSet(A \cup {x})
        /\ Cardinality(A \cup {x}) = IF x \in A THEN Cardinality(A) ELSE Cardinality(A) + 1
    BY FS_AddElement
  <1>2. IsFiniteSet(B) /\ Cardinality(B) <= Cardinality(A \cup {x})
    BY <1>1, FS_Subset
  <1> QED
    BY <1>1, <1>2, FS_CardinalityType

LEMMA OneLess ==
  ASSUME NEW A, NEW B, NEW x \in A, IsFiniteSet(A), B \subseteq A \ {x}
  PROVE  IsFiniteSet(B) /\ Cardinality(B) <= Cardinality(A) - 1
  <1>1. IsFiniteSet(A \ {x}) /\ Cardinality(A \ {x}) = Cardinality(A) - 1
    BY FS_RemoveElement
  <1> QED
    BY <1>1, FS_Subset, FS_CardinalityType

\* OneOwnerOrATransfer without cardinalities.
OwnersHold ==
  /\ \A u, v \in Owners : u = v
  /\ Owners = {} => orphaned \/ \E c \in Requests : At(c, "promote")

LEMMA OwnersNext == Core /\ OwnersHold /\ [Next]_vars => OwnersHold'
  <1> SUFFICES ASSUME Core, OwnersHold, [Next]_vars PROVE OwnersHold'
    OBVIOUS
  <1>0. /\ TypeOK /\ InvitesSent /\ role \in [Users -> Roles \cup {"none"}]
        /\ "owner" \notin Invitable
    BY DEF Core, TypeOK, Invitable
  \* The owners stay, and so does a transfer between its statements.
  <1>s. ASSUME NEW c \in Requests, Others(c), ~At(c, "promote"),
               Owners' = Owners, orphaned => orphaned'
        PROVE  OwnersHold'
    BY <1>s DEF OwnersHold, Others, At
  <1>1. ASSUME NEW c \in Requests, Starts(c) PROVE OwnersHold'
    BY <1>0, <1>1, <1>s, Started DEF Owners, history, At
  <1>2. ASSUME NEW c \in Requests, Change(c) \/ RemoveMember(c) PROVE OwnersHold'
    <2>1. Others(c) /\ ~At(c, "promote") /\ orphaned' = orphaned
      BY <1>0, <1>2, GoesOn, IsDone DEF Change, RemoveMember, history, At, Steps
    <2>2. request[c].about \in Users
      BY <1>2 DEF Change, RemoveMember, At, Core, RequestsKnow, KnowsEnough
    <2>3. At(c, "change") => request[c].as \in Invitable
      BY DEF At, Core, RequestsKnow, KnowsEnough
    <2>4. Owners' = Owners
      BY <1>0, <1>2, <2>2, <2>3 DEF Change, RemoveMember, Owners
    <2> QED
      BY <1>s, <2>1, <2>4
  <1>3. ASSUME NEW c \in Requests,
               \/ Evict(c) \/ Target(c) \/ Name(c) \/ EvictBoth(c) \/ Check(c)
               \/ Mark(c) \/ Revoke(c) \/ ReadInvite(c) \/ Store(c) \/ \E i \in Invites : Insert(c, i)
        PROVE  OwnersHold'
    <2>1. ~At(c, "promote") /\ UNCHANGED <<role, orphaned>>
      BY <1>3 DEF Evict, Target, Name, EvictBoth, Check, Mark, Revoke, ReadInvite, Store, Insert,
                  At, history
    <2>2. Done(c) \/ \E s \in Steps : Goes(c, s)
      BY <1>3 DEF Evict, Target, Name, EvictBoth, Check, Mark, Revoke, ReadInvite, Store, Insert, Steps
    <2> QED
      BY <1>0, <1>s, <2>1, <2>2, Moves DEF Owners
  <1>4. ASSUME NEW c \in Requests, CountMembers(c) \/ CountPending(c) \/ Lookup(c)
        PROVE  OwnersHold'
    <2>1. ~At(c, "promote") /\ UNCHANGED <<role, orphaned>>
      BY <1>4 DEF CountMembers, CountPending, Lookup, At, history
    <2>2. Others(c)
      BY <1>0, <1>4, CountsMove
    <2> QED
      BY <1>s, <2>1, <2>2 DEF Owners
  <1>5. ASSUME NEW c \in Requests, Demote(c) PROVE OwnersHold'
    <2>1. request'[c].step = "promote" /\ request[c].by \in Users
      BY <1>0, <1>5, GoesOn DEF Demote, At, Core, RequestsKnow, KnowsEnough, Steps
    <2>2. Owners' \subseteq Owners
      BY <1>0, <1>5, <2>1 DEF Demote, Owners
    <2> QED
      BY <2>1, <2>2 DEF OwnersHold, At
  <1>6. ASSUME NEW c \in Requests, Promote(c) PROVE OwnersHold'
    <2>1. request[c].about \in Users
      BY <1>6 DEF Promote, At, Core, RequestsKnow, KnowsEnough
    <2>2. CASE role' = [role EXCEPT ![request[c].about] = "owner"] /\ Owners \subseteq {request[c].about}
      <3>1. Owners' = {request[c].about}
        BY <1>0, <2>1, <2>2 DEF Owners
      <3> QED
        BY <3>1 DEF OwnersHold
    <2>3. CASE UNCHANGED role /\ orphaned' = (orphaned \/ Owners = {})
      BY <2>3 DEF OwnersHold, Owners
    <2> QED
      BY <1>6, <2>2, <2>3 DEF Promote
  <1>7. ASSUME NEW c \in Requests, Add(c) PROVE OwnersHold'
    <2>1. Others(c) /\ request[c].about \in Users /\ ~At(c, "promote")
      BY <1>0, <1>7, GoesOn DEF Add, At, Core, RequestsKnow, KnowsEnough, Steps
    <2>2. invite[request[c].with].as \in Invitable
      BY <1>7 DEF Add, At, Core, RequestsKnow, KnowsEnough, InvitesSent
    <2>3. Owners' = Owners \ {request[c].about}
      BY <1>0, <1>7, <2>1, <2>2 DEF Add, Owners
    <2>4. orphaned' = (orphaned \/ request[c].about \in Owners)
      BY <1>7, <2>1 DEF Add, Owners
    <2> QED
      BY <2>1, <2>3, <2>4 DEF OwnersHold, Others, At
  <1>8. ASSUME NEW c \in Requests, Crash(c) PROVE OwnersHold'
    <2>1. Others(c) /\ role' = role /\ orphaned' = (orphaned \/ (At(c, "promote") /\ Owners = {}))
      BY <1>0, <1>8, IsDone DEF Crash
    <2> QED
      BY <2>1 DEF OwnersHold, Owners, Others, At
  <1>9. ASSUME \/ UNCHANGED vars
               \/ \E i \in Invites : Lapse(i)
               \/ \E u \in Users : Forget(u)
        PROVE  OwnersHold'
    <2>1. UNCHANGED <<role, request, orphaned>>
      BY <1>9 DEF vars, history, Lapse, Forget
    <2> QED
      BY <2>1 DEF OwnersHold, Owners, At
  <1>10. ASSUME NEW c \in Requests, RequestSteps(c) PROVE OwnersHold'
    BY <1>1, <1>2, <1>3, <1>4, <1>5, <1>6, <1>7, <1>8, <1>10 DEF RequestSteps
  <1> QED
    BY <1>9, <1>10, NextCases

LEMMA OwnersHoldMeans == TypeOK => (OneOwnerOrATransfer <=> OwnersHold)
  <1> SUFFICES ASSUME TypeOK PROVE OneOwnerOrATransfer <=> OwnersHold
    OBVIOUS
  <1>1. IsFiniteSet(Owners)
    BY MembershipAssumption, FS_Subset DEF Owners
  <1>2. ASSUME \A u, v \in Owners : u = v PROVE Cardinality(Owners) <= 1
    <2>1. CASE Owners = {}
      BY <2>1, FS_EmptySet
    <2>2. ASSUME NEW u \in Owners PROVE Cardinality(Owners) <= 1
      <3>1. Owners = {u}
        BY <1>2, <2>2
      <3>2. Cardinality({u}) = 1
        BY FS_Singleton
      <3> QED
        BY <3>1, <3>2
    <2> QED
      BY <2>1, <2>2
  <1>3. ASSUME Cardinality(Owners) <= 1, NEW u \in Owners, NEW v \in Owners PROVE u = v
    <2> SUFFICES ASSUME u # v PROVE FALSE
      OBVIOUS
    <2>1. Cardinality({v}) <= Cardinality(Owners) - 1
      BY <1>1, OneLess
    <2>2. Cardinality({v}) = 1 /\ Cardinality(Owners) \in Nat
      BY <1>1, FS_Singleton, FS_CardinalityType
    <2> QED
      BY <1>3, <2>1, <2>2
  <1> QED
    BY <1>2, <1>3 DEF OneOwnerOrATransfer, OwnersHold

-----------------------------------------------------------------------------
LEMMA EvictedNext == Core /\ EvictedOrMisled /\ [Next]_vars => EvictedOrMisled'
  <1> SUFFICES ASSUME Core, EvictedOrMisled, [Next]_vars PROVE EvictedOrMisled'
    OBVIOUS
  <1>0. /\ TypeOK /\ InvitesSent /\ role \in [Users -> Roles \cup {"none"}]
        /\ "none" \notin Invitable /\ cached \in [Users -> {"unknown", "yes", "no"}]
    BY DEF Core, TypeOK, Invitable
  \* Nobody joins or leaves, and the cache stays.
  <1>s. ASSUME NEW c \in Requests, Others(c), ~At(c, "evict"), UNCHANGED <<cached, misled>>,
               \A u \in Users : role'[u] = "none" <=> role[u] = "none"
        PROVE  EvictedOrMisled'
    <2>1. \A u \in Users : Wrong(u)' => Wrong(u)
      BY <1>s DEF Wrong
    <2> QED
      BY <1>s, <2>1 DEF EvictedOrMisled, Others, At
  \* c is about to evict the one whose membership changed.
  <1>a. ASSUME NEW c \in Requests, NEW u \in Users, Others(c), UNCHANGED <<cached, misled>>,
               request'[c].step = "evict" /\ request'[c].about = u,
               \A v \in Users \ {u} : role'[v] = role[v], ~At(c, "evict")
        PROVE  EvictedOrMisled'
    <2>1. ASSUME NEW v \in Users, v # u, Wrong(v)'
          PROVE  v \in misled' \/ \E d \in Requests : At(d, "evict")' /\ request'[d].about = v
      <3>1. Wrong(v)
        BY <1>a, <2>1 DEF Wrong
      <3> QED
        BY <1>a, <2>1, <3>1 DEF EvictedOrMisled, Others, At
    <2>2. At(c, "evict")'
      BY <1>a DEF At
    <2> QED
      BY <1>a, <2>1, <2>2 DEF EvictedOrMisled
  \* The eviction of u, of which others' evictions know nothing.
  <1>e. ASSUME NEW u \in Users, UNCHANGED role,
               \A d \in Requests : At(d, "evict") /\ request[d].about # u =>
                 At(d, "evict")' /\ request'[d].about = request[d].about,
               \/ Delete({u})
               \/ Missed(u) /\ UNCHANGED cached
        PROVE  EvictedOrMisled'
    <2>1. ASSUME NEW v \in Users, v # u, Wrong(v)'
          PROVE  v \in misled' \/ \E d \in Requests : At(d, "evict")' /\ request'[d].about = v
      <3>1. cached'[v] = cached[v] /\ (v \in misled => v \in misled')
        BY <1>e, <2>1 DEF Delete, Missed
      <3>2. Wrong(v)
        BY <1>e, <2>1, <3>1 DEF Wrong
      <3> QED
        BY <1>e, <2>1, <3>1, <3>2 DEF EvictedOrMisled
    <2>2. Wrong(u)' => u \in misled'
      <3>1. CASE Delete({u})
        BY <1>e, <3>1 DEF Wrong, Delete
      <3>2. CASE Missed(u) /\ UNCHANGED cached
        BY <1>e, <3>2 DEF Wrong, Missed
      <3> QED
        BY <1>e, <3>1, <3>2
    <2> QED
      BY <2>1, <2>2 DEF EvictedOrMisled
  <1>1. ASSUME NEW c \in Requests, Starts(c) PROVE EvictedOrMisled'
    BY <1>0, <1>1, <1>s, Started DEF history, At
  <1>2. ASSUME NEW c \in Requests, Change(c) \/ Demote(c) \/ Promote(c) PROVE EvictedOrMisled'
    <2>1. Others(c) /\ ~At(c, "evict") /\ UNCHANGED <<cached, misled>>
      BY <1>0, <1>2, GoesOn, IsDone DEF Change, Demote, Promote, history, At, Steps
    <2>2. At(c, "change") => request[c].as \in Invitable
      BY DEF At, Core, RequestsKnow, KnowsEnough
    <2>3. \A u \in Users : role'[u] = "none" <=> role[u] = "none"
      BY <1>0, <1>2, <2>2 DEF Change, Demote, Promote
    <2> QED
      BY <1>s, <2>1, <2>3
  <1>3. ASSUME NEW c \in Requests, RemoveMember(c) \/ Add(c) PROVE EvictedOrMisled'
    <2>1. /\ request[c].about \in Users /\ UNCHANGED <<cached, misled>> /\ ~At(c, "evict")
          /\ \A v \in Users \ {request[c].about} : role'[v] = role[v]
      BY <1>0, <1>3 DEF RemoveMember, Add, At, Core, RequestsKnow, KnowsEnough
    <2>2. CASE Goes(c, "evict")
      <3>1. Others(c) /\ request'[c].step = "evict" /\ request'[c].about = request[c].about
        BY <1>0, <2>2, GoesOn DEF Steps
      <3> QED
        BY <1>a, <2>1, <3>1
    <2>3. CASE Done(c) /\ UNCHANGED role
      BY <1>0, <1>s, <2>1, <2>3, IsDone
    <2> QED
      BY <1>3, <2>2, <2>3 DEF RemoveMember, Add
  <1>4. ASSUME NEW c \in Requests,
               \/ Target(c) \/ Name(c) \/ Check(c)
               \/ Mark(c) \/ Revoke(c) \/ ReadInvite(c) \/ \E i \in Invites : Insert(c, i)
        PROVE  EvictedOrMisled'
    <2>1. ~At(c, "evict") /\ UNCHANGED <<role, cached, misled>>
      BY <1>4 DEF Target, Name, Check, Mark, Revoke, ReadInvite, Insert, At, history
    <2>2. Done(c) \/ \E s \in Steps : Goes(c, s)
      BY <1>4 DEF Target, Name, Check, Mark, Revoke, ReadInvite, Insert, Steps
    <2> QED
      BY <1>0, <1>s, <2>1, <2>2, Moves
  <1>5. ASSUME NEW c \in Requests, CountMembers(c) \/ CountPending(c) \/ Lookup(c)
        PROVE  EvictedOrMisled'
    <2>1. ~At(c, "evict") /\ UNCHANGED <<role, cached, misled>>
      BY <1>5 DEF CountMembers, CountPending, Lookup, At, history
    <2>2. Others(c)
      BY <1>0, <1>5, CountsMove
    <2> QED
      BY <1>s, <2>1, <2>2
  <1>6. ASSUME NEW c \in Requests, Evict(c) PROVE EvictedOrMisled'
    <2>1. request[c].about \in Users /\ Others(c) /\ role' = role
      BY <1>0, <1>6, IsDone DEF Evict, At, Core, RequestsKnow, KnowsEnough
    <2>2. \A d \in Requests : At(d, "evict") /\ request[d].about # request[c].about =>
            At(d, "evict")' /\ request'[d].about = request[d].about
      BY <2>1 DEF Others, At
    <2> QED
      BY <1>6, <1>e, <2>1, <2>2 DEF Evict
  <1>7. ASSUME NEW c \in Requests, EvictBoth(c) PROVE EvictedOrMisled'
    <2>1. request[c].by \in Users /\ Others(c) /\ role' = role /\ ~At(c, "evict")
      BY <1>0, <1>7, GoesOn DEF EvictBoth, At, Core, RequestsKnow, KnowsEnough, Steps
    <2>2. \A d \in Requests : At(d, "evict") /\ request[d].about # request[c].by =>
            At(d, "evict")' /\ request'[d].about = request[d].about
      BY <2>1 DEF Others, At
    <2> QED
      BY <1>7, <1>e, <2>1, <2>2 DEF EvictBoth
  <1>8. ASSUME NEW c \in Requests, Store(c) PROVE EvictedOrMisled'
    <2>1. PICK u \in Users : u = request[c].about
      BY <1>8 DEF Store, At, Core, RequestsKnow, KnowsEnough
    <2>2. /\ Others(c) /\ role' = role /\ ~At(c, "evict")
          /\ request[c].as \in {"yes", "no"}
      BY <1>0, <1>8, IsDone DEF Store, At, Core, RequestsKnow, KnowsEnough
    <2>3. /\ cached' = [cached EXCEPT ![u] = request[c].as]
          /\ misled' = IF (request[c].as = "yes") = (role[u] # "none")
                       THEN misled \ {u} ELSE misled \cup {u}
      BY <1>8, <2>1 DEF Store
    <2>4. Wrong(u)' => u \in misled'
      <3>1. cached'[u] = request[c].as
        BY <1>0, <2>2, <2>3
      <3>2. CASE role[u] = "none" /\ request[c].as = "yes"
        BY <2>3, <3>2
      <3>3. CASE role[u] # "none" /\ request[c].as = "no"
        BY <2>3, <3>3
      <3> QED
        BY <2>2, <3>1, <3>2, <3>3 DEF Wrong
    <2>5. ASSUME NEW v \in Users, v # u, Wrong(v)'
          PROVE  v \in misled' \/ \E d \in Requests : At(d, "evict")' /\ request'[d].about = v
      <3>1. Wrong(v) /\ (v \in misled => v \in misled')
        BY <1>0, <2>2, <2>3, <2>5 DEF Wrong
      <3> QED
        BY <2>2, <3>1 DEF EvictedOrMisled, Others, At
    <2> QED
      BY <2>4, <2>5 DEF EvictedOrMisled
  <1>9. ASSUME NEW u \in Users, Forget(u) PROVE EvictedOrMisled'
    BY <1>9, <1>e DEF Forget, At
  <1>10. ASSUME NEW c \in Requests, Crash(c) PROVE EvictedOrMisled'
    <2>1. Others(c) /\ UNCHANGED <<role, cached>>
      BY <1>0, <1>10, IsDone DEF Crash
    <2>2. CASE At(c, "evict")
      <3>1. \A d \in Requests : At(d, "evict") /\ request[d].about # request[c].about =>
              At(d, "evict")' /\ request'[d].about = request[d].about
        BY <2>1 DEF Others, At
      <3> QED
        BY <1>10, <1>e, <2>1, <2>2, <3>1 DEF Crash, At, Core, RequestsKnow, KnowsEnough
    <2>3. CASE ~At(c, "evict")
      BY <1>10, <1>s, <2>1, <2>3 DEF Crash
    <2> QED
      BY <2>2, <2>3
  <1>11. ASSUME UNCHANGED vars \/ \E i \in Invites : Lapse(i)
         PROVE  EvictedOrMisled'
    <2>1. UNCHANGED <<role, request, cached, misled>>
      BY <1>11 DEF vars, history, Lapse
    <2> QED
      BY <2>1 DEF EvictedOrMisled, Wrong, At
  <1>12. ASSUME NEW c \in Requests, RequestSteps(c) PROVE EvictedOrMisled'
    BY <1>1, <1>2, <1>3, <1>4, <1>5, <1>6, <1>7, <1>8, <1>10, <1>12 DEF RequestSteps
  <1> QED
    BY <1>9, <1>11, <1>12, NextCases

-----------------------------------------------------------------------------
\* What Taken adds up.
SeatsAddUp ==
  /\ Joining \subseteq Invites /\ Joining \cap Pending = {}
  /\ IsFiniteSet(Members) /\ IsFiniteSet(Pending) /\ IsFiniteSet(Waiting)
  /\ Cardinality(Members) \in Nat /\ Cardinality(Pending) \in Nat
  /\ Cardinality(Waiting) \in Nat
  /\ Taken = Cardinality(Members) + Cardinality(Pending) + Cardinality(Waiting)

LEMMA SeatsCounted == Core => SeatsAddUp
  <1> SUFFICES ASSUME Core PROVE SeatsAddUp
    OBVIOUS
  <1>1. Joining \subseteq Invites /\ Joining \cap Pending = {}
    BY DEF Core, RequestsKnow, KnowsEnough, OneJoinsWith, Joining, Pending, At
  <1>2. IsFiniteSet(Waiting)
    BY <1>1, MembershipAssumption, FS_Subset DEF Waiting
  <1> QED
    BY <1>1, <1>2, Finiteness, FS_CardinalityType DEF Core, Taken, Waiting, SeatsAddUp

\* The seats, the invites that promise them and what the invitations counted.
SeatsHold == SeatsHonoured /\ OneInviteEach /\ CountsStand

\* No seat is taken, and no invite is added.
LEMMA TakenStays ==
  ASSUME SeatsHold, oversold => oversold', Core, Core', ~oversold => Taken' <= Taken,
         Pending' \cup Joining' \subseteq Pending \cup Joining,
         \A i \in Pending \cup Joining : invite'[i].to = invite[i].to
  PROVE  SeatsHonoured' /\ OneInviteEach'
  <1>1. Taken \in Nat /\ Taken' \in Nat /\ Seats \in Nat
    <2>1. SeatsAddUp /\ SeatsAddUp'
      BY SeatsCounted, PTL
    <2> QED
      BY <2>1, MembershipAssumption DEF SeatsAddUp
  <1> QED
    BY <1>1 DEF SeatsHold, SeatsHonoured, OneInviteEach

\* Whatever is being counted has been overtaken.
LEMMA AllOvertaken ==
  ASSUME \A d \in Requests : request'[d].step \in {"pending", "insert"} => d \in overtaken'
  PROVE  CountsStand'
  BY DEF CountsStand, At

\* The step of another overtakes all who count.
LEMMA OthersOvertaken ==
  ASSUME NEW c \in Requests, Others(c), Overtakes(c), request'[c].step \notin {"pending", "insert"}
  PROVE  CountsStand'
  BY AllOvertaken DEF Others, Overtakes

\* Neither members nor invites come or go, and nobody counts.
LEMMA SeatsCalm ==
  ASSUME SeatsHold, Core, Core', Members' = Members, Pending' = Pending,
         UNCHANGED <<oversold, overtaken>>,
         \A i \in Pending \cup Joining : invite'[i].to = invite[i].to,
         \A d \in Requests :
           request'[d] = request[d] \/ request'[d].step \notin {"pending", "insert", "add"}
  PROVE  SeatsHold'
  <1>1. Joining' \subseteq Joining
    BY DEF Joining
  <1>2. Waiting' \subseteq Waiting
    BY <1>1 DEF Waiting
  <1>3. Taken' <= Taken
    <2>1. SeatsAddUp /\ SeatsAddUp'
      BY SeatsCounted, PTL
    <2>2. Cardinality(Waiting') <= Cardinality(Waiting)
      BY <1>2, <2>1, FS_Subset DEF SeatsAddUp
    <2> QED
      BY <2>1, <2>2 DEF SeatsAddUp
  <1>4. SeatsHonoured' /\ OneInviteEach'
    BY <1>1, <1>3, TakenStays
  <1>5. CountsStand'
    BY <1>1 DEF SeatsHold, CountsStand, At
  <1> QED
    BY <1>4, <1>5 DEF SeatsHold

LEMMA SeatsNext == Core /\ Core' /\ SeatsHold /\ [Next]_vars => SeatsHold'
  <1> SUFFICES ASSUME Core, Core', SeatsHold, [Next]_vars PROVE SeatsHold'
    OBVIOUS
  <1>0. /\ TypeOK /\ InvitesSent /\ role \in [Users -> Roles \cup {"none"}]
        /\ "none" \notin Invitable
        /\ invite \in [Invites -> [state : {"unsent", "live", "expired", "accepted", "revoked"},
                                   to : Users \cup {None}, as : Invitable \cup {"none"}]]
    BY DEF Core, TypeOK, Invitable
  <1>k. SeatsAddUp /\ SeatsAddUp'
    BY SeatsCounted, PTL
  \* The steps that neither count nor change what is counted.
  <1>s. ASSUME NEW c \in Requests, Others(c), Members' = Members,
               UNCHANGED <<invite, oversold, overtaken>>,
               request'[c].step \notin {"pending", "insert", "add"}
        PROVE  SeatsHold'
    <2>1. Pending' = Pending
      BY <1>s DEF Pending
    <2> QED
      BY <1>s, <2>1, SeatsCalm DEF Others
  <1>1. ASSUME NEW c \in Requests, Starts(c) PROVE SeatsHold'
    <2>1. /\ Others(c)
          /\ request'[c].step \in {"change", "remove", "target", "check", "revoke", "read", "lookup"}
          /\ UNCHANGED <<role, owner, invite, cached, history>>
      BY <1>0, <1>1, Started
    <2> QED
      BY <1>s, <2>1 DEF history, Members
  <1>2. ASSUME NEW c \in Requests, Change(c) \/ Demote(c) \/ Promote(c) PROVE SeatsHold'
    <2>1. /\ Others(c) /\ request'[c].step \in {"idle", "evict", "promote", "name"}
          /\ UNCHANGED <<invite, oversold, overtaken>>
      BY <1>0, <1>2, GoesOn, IsDone DEF Change, Demote, Promote, history, Steps
    <2>2. At(c, "change") => request[c].as \in Invitable
      BY DEF At, Core, RequestsKnow, KnowsEnough
    <2>3. Members' = Members
      BY <1>0, <1>2, <2>2 DEF Change, Demote, Promote, Members
    <2> QED
      BY <1>s, <2>1, <2>3
  <1>3. ASSUME NEW c \in Requests,
               \/ Evict(c) \/ Target(c) \/ Name(c) \/ EvictBoth(c)
               \/ Check(c) \/ ReadInvite(c) \/ Store(c)
        PROVE  SeatsHold'
    <2>1. UNCHANGED <<role, invite, oversold, overtaken>>
      BY <1>3 DEF Evict, Target, Name, EvictBoth, Check, ReadInvite, Store, history
    <2>2. Done(c) \/ \E s \in {"demote", "evict", "evict both", "members", "mark"} : Goes(c, s)
      BY <1>3 DEF Evict, Target, Name, EvictBoth, Check, ReadInvite, Store
    <2>3. Others(c) /\ request'[c].step \notin {"pending", "insert", "add"}
      <3>1. CASE Done(c)
        BY <1>0, <3>1, IsDone
      <3>2. ASSUME NEW s \in {"demote", "evict", "evict both", "members", "mark"}, Goes(c, s)
            PROVE  Others(c) /\ request'[c].step = s
        <4>1. s \in Steps
          BY DEF Steps
        <4> QED
          BY <1>0, <3>2, <4>1, GoesOn
      <3> QED
        BY <2>2, <3>1, <3>2
    <2> QED
      BY <1>s, <2>1, <2>3 DEF Members
  <1>4. ASSUME NEW c \in Requests, Lookup(c) PROVE SeatsHold'
    <2>1. UNCHANGED <<role, invite, oversold, overtaken>>
      BY <1>4 DEF Lookup, history
    <2>2. request \in [Requests -> RequestRecord]
      BY <1>0 DEF TypeOK, RequestRecord
    <2>3. Others(c) /\ request'[c].step = "store"
      BY <1>4, <2>2 DEF Lookup, Others, RequestRecord
    <2> QED
      BY <1>s, <2>1, <2>3 DEF Members
  <1>5. ASSUME NEW c \in Requests, Crash(c) PROVE SeatsHold'
    <2>1. Others(c) /\ request'[c].step = "idle" /\ UNCHANGED <<role, invite, oversold, overtaken>>
      BY <1>0, <1>5, IsDone DEF Crash
    <2> QED
      BY <1>s, <2>1 DEF Members
  <1>6. ASSUME NEW c \in Requests, RemoveMember(c) PROVE SeatsHold'
    <2> DEFINE u == request[c].about
    <2>1. CASE Done(c) /\ UNCHANGED <<role, overtaken>>
      BY <1>0, <1>6, <1>s, <2>1, IsDone DEF RemoveMember, Members
    <2>2. CASE Goes(c, "evict") /\ Overtakes(c) /\ role[u] \in Invitable
               /\ role' = [role EXCEPT ![u] = "none"]
      <3>1. u \in Users /\ UNCHANGED <<invite, oversold>>
        BY <1>6 DEF RemoveMember, At, Core, RequestsKnow, KnowsEnough
      <3>2. Others(c) /\ request'[c].step = "evict" /\ ~At(c, "add")
        BY <1>0, <1>6, <2>2, GoesOn DEF RemoveMember, At, Steps
      <3>3. Joining' = Joining /\ Pending' = Pending
        BY <3>1, <3>2 DEF Joining, Pending, Others, At
      <3>4. u \in Members /\ Members' = Members \ {u}
        BY <1>0, <2>2, <3>1 DEF Members
      <3> HIDE DEF u
      <3>5. Cardinality(Members') <= Cardinality(Members) - 1
        BY <1>k, <3>4, OneLess DEF SeatsAddUp
      <3>6. ASSUME ~oversold PROVE Cardinality(Waiting') <= Cardinality(Waiting) + 1
        <4>1. CASE \E x \in Joining : invite[x].to = u
          <5>1. PICK x \in Joining : invite[x].to = u
            BY <4>1
          <5>2. \A i \in Joining : invite[i].to = u => i = x
            BY <3>6, <5>1 DEF SeatsHold, OneInviteEach
          <5>3. Waiting' \subseteq Waiting \cup {x}
            BY <3>1, <3>3, <3>4, <5>2 DEF Waiting
          <5> QED
            BY <1>k, <5>3, OneMore DEF SeatsAddUp
        <4>2. CASE ~\E x \in Joining : invite[x].to = u
          <5>1. Waiting' \subseteq Waiting
            BY <3>1, <3>3, <3>4, <4>2 DEF Waiting
          <5>2. Cardinality(Waiting') <= Cardinality(Waiting)
            BY <1>k, <5>1, FS_Subset DEF SeatsAddUp
          <5> QED
            BY <1>k, <5>2 DEF SeatsAddUp
        <4> QED
          BY <4>1, <4>2
      <3>7. ~oversold => Taken' <= Taken
        BY <1>k, <3>3, <3>5, <3>6 DEF SeatsAddUp
      <3>8. SeatsHonoured' /\ OneInviteEach'
        BY <3>1, <3>3, <3>7, TakenStays
      <3> QED
        BY <2>2, <3>2, <3>8, OthersOvertaken DEF SeatsHold
    <2> QED
      BY <1>6, <2>1, <2>2 DEF RemoveMember
  <1>7. ASSUME NEW c \in Requests, CountMembers(c) PROVE SeatsHold'
    <2> DEFINE n == Cardinality(Members)
    <2>1. /\ UNCHANGED <<role, invite, oversold>>
          /\ overtaken' = IF Joining = {} THEN overtaken ELSE overtaken \cup {c}
          /\ request' = [request EXCEPT ![c].step = "pending", ![c].seen = n]
      BY <1>7 DEF CountMembers
    <2>2. n \in 0 .. Cardinality(Users) + Cardinality(Invites)
      BY <1>0, Finiteness
    <2>3. ~At(c, "add")
      BY <1>7 DEF CountMembers, At
    <2> HIDE DEF n
    <2>4. Others(c) /\ request'[c].step = "pending" /\ request'[c].seen = n
      <3>1. "pending" \in Steps
        BY DEF Steps
      <3> QED
        <4>1. TypeOK /\ CountsTo(c, "pending", n)
          BY <1>0, <2>1 DEF CountsTo
        <4> QED
          BY <2>2, <3>1, <4>1, Counts
    <2>5. Members' = Members /\ Pending' = Pending /\ Joining' = Joining
      <3>1. Members' = Members /\ Pending' = Pending
        BY <2>1 DEF Members, Pending
      <3>2. Joining' = Joining
        BY <2>3, <2>4 DEF Joining, Others, At
      <3> QED
        BY <3>1, <3>2
    <2>6. Taken' = Taken
      BY <1>k, <2>1, <2>5 DEF SeatsAddUp, Waiting
    <2>7. SeatsHonoured' /\ OneInviteEach'
      BY <1>k, <2>1, <2>5, <2>6, TakenStays DEF SeatsAddUp
    <2>8. CountsStand'
      <3>1. ASSUME NEW d \in Requests \ {c}, d \notin overtaken'
            PROVE  /\ At(d, "pending")' => Joining' = {} /\ request'[d].seen = Cardinality(Members)'
                   /\ At(d, "insert")' /\ ~oversold' =>
                        Joining' = {} /\ Cardinality(Members)' + Cardinality(Pending)' < Seats
        BY <2>1, <2>4, <2>5, <3>1 DEF SeatsHold, CountsStand, Others, At
      <3>2. c \notin overtaken' => Joining' = {} /\ request'[c].seen = Cardinality(Members)'
        BY <2>1, <2>4, <2>5 DEF n
      <3> QED
        BY <2>4, <3>1, <3>2 DEF CountsStand, At
    <2> QED
      BY <2>7, <2>8 DEF SeatsHold
  <1>8. ASSUME NEW c \in Requests, CountPending(c) PROVE SeatsHold'
    <2> DEFINE n == request[c].seen + Cardinality(Pending)
    <2>1. /\ UNCHANGED <<role, invite, overtaken>> /\ At(c, "pending") /\ ~At(c, "add")
          /\ oversold => oversold'
      BY <1>8 DEF CountPending, At
    <2>2. CASE Done(c) /\ UNCHANGED oversold
      BY <1>0, <1>s, <2>1, <2>2, IsDone DEF Members
    <2>3. CASE Goes(c, "insert") \/ request' = [request EXCEPT ![c].step = "insert", ![c].seen = n]
      <3>1. Others(c) /\ request'[c].step = "insert"
        <4>1. request \in [Requests -> RequestRecord]
          BY <1>0 DEF TypeOK, RequestRecord
        <4> HIDE DEF n
        <4> QED
          BY <2>3, <4>1 DEF Goes, Others, RequestRecord
      <3>2. Members' = Members /\ Pending' = Pending /\ Joining' = Joining
        BY <2>1, <3>1 DEF Members, Pending, Joining, Others, At
      <3>3. Taken' = Taken
        BY <1>k, <2>1, <3>2 DEF SeatsAddUp, Waiting
      <3>4. SeatsHonoured' /\ OneInviteEach'
        BY <1>k, <2>1, <3>2, <3>3, TakenStays DEF SeatsAddUp
      <3>5. ASSUME ~oversold' PROVE ~oversold /\ n < Seats
        <4>1. ~Done(c)
          BY <1>0, <3>1, IsDone
        <4> QED
          BY <1>8, <3>5, <4>1 DEF CountPending
      <3>6. CountsStand'
        <4>1. ASSUME NEW d \in Requests \ {c}, d \notin overtaken'
              PROVE  /\ At(d, "pending")' => Joining' = {} /\ request'[d].seen = Cardinality(Members)'
                     /\ At(d, "insert")' /\ ~oversold' =>
                          Joining' = {} /\ Cardinality(Members)' + Cardinality(Pending)' < Seats
          BY <2>1, <3>1, <3>2, <4>1 DEF SeatsHold, CountsStand, Others, At
        <4>2. c \notin overtaken' => Joining = {} /\ request[c].seen = Cardinality(Members)
          BY <2>1 DEF SeatsHold, CountsStand
        <4>3. c \notin overtaken' /\ ~oversold' =>
                Joining' = {} /\ Cardinality(Members)' + Cardinality(Pending)' < Seats
          BY <3>2, <3>5, <4>2
        <4> QED
          BY <3>1, <4>1, <4>3 DEF CountsStand, At
      <3> QED
        BY <3>4, <3>6 DEF SeatsHold
    <2> QED
      BY <1>8, <2>2, <2>3 DEF CountPending
  <1>9. ASSUME NEW c \in Requests, NEW i \in Invites, Insert(c, i) PROVE SeatsHold'
    <2> DEFINE u == request[c].about
    <2>1. /\ Others(c) /\ request'[c].step = "idle" /\ ~At(c, "add") /\ At(c, "insert")
          /\ UNCHANGED role
      BY <1>0, <1>9, IsDone DEF Insert, At
    <2>2. CASE UNCHANGED <<invite, oversold, overtaken>>
      BY <1>s, <2>1, <2>2 DEF Members
    <2>3. CASE /\ ~\E j \in Pending : invite[j].to = u
               /\ invite[i].state = "unsent"
               /\ invite' = [invite EXCEPT ![i] = [state |-> "live", to |-> u, as |-> request[c].as]]
               /\ oversold' = (oversold \/ c \in overtaken)
               /\ Overtakes(c)
      <3>1. Members' = Members /\ Joining' = Joining
        BY <2>1 DEF Members, Joining, Others, At
      <3>2. /\ \A j \in Invites : SameInvite(j) \/ j = i
            /\ invite'[i].state = "live" /\ invite'[i].to = u
        BY <1>0, <2>3 DEF SameInvite
      <3>3. Pending' = Pending \cup {i}
        BY <2>3, <3>2 DEF Pending, SameInvite
      <3>4. ASSUME ~oversold'
            PROVE  ~oversold /\ Joining = {} /\ Cardinality(Members) + Cardinality(Pending) < Seats
        BY <2>1, <2>3, <3>4 DEF SeatsHold, CountsStand
      <3>5. SeatsHonoured'
        <4>1. Cardinality(Pending') <= Cardinality(Pending) + 1
          BY <1>k, <3>3, OneMore DEF SeatsAddUp
        <4>2. Joining = {} => Waiting' = {} /\ Cardinality(Waiting') = 0
          BY <3>1, FS_EmptySet DEF Waiting
        <4>3. ~oversold' => Taken' <= Seats
          BY <1>k, <3>1, <3>4, <4>1, <4>2, MembershipAssumption DEF SeatsAddUp
        <4> QED
          BY <4>3 DEF SeatsHonoured
      <3>6. OneInviteEach'
        <4>1. ASSUME ~oversold', NEW j \in Pending' \cup Joining', NEW k \in Pending' \cup Joining', j # k
              PROVE  invite'[j].to # invite'[k].to
          <5>1. /\ j \in Pending \cup {i} /\ k \in Pending \cup {i}
                /\ \A l \in Pending : invite[l].to # u
            BY <2>3, <3>1, <3>3, <3>4, <4>1
          <5>2. \A l \in Pending : l # i => invite'[l].to = invite[l].to
            BY <3>2 DEF Pending, SameInvite
          <5> HIDE DEF u
          <5>3. CASE j = i \/ k = i
            BY <3>2, <4>1, <5>1, <5>2, <5>3
          <5>4. CASE j # i /\ k # i
            BY <3>4, <4>1, <5>1, <5>2, <5>4 DEF SeatsHold, OneInviteEach
          <5> QED
            BY <5>3, <5>4
        <4> QED
          BY <4>1 DEF OneInviteEach
      <3> QED
        BY <2>1, <2>3, <3>5, <3>6, OthersOvertaken DEF SeatsHold
    <2> QED
      BY <1>9, <2>2, <2>3 DEF Insert
  <1>10. ASSUME NEW c \in Requests, Revoke(c) PROVE SeatsHold'
    <2> DEFINE i == request[c].with
    <2>1. /\ Others(c) /\ request'[c].step = "idle" /\ ~At(c, "add") /\ UNCHANGED <<role, oversold>>
          /\ i \in Invites
      BY <1>0, <1>10, IsDone DEF Revoke, At, Core, RequestsKnow, KnowsEnough
    <2>2. CASE UNCHANGED <<invite, overtaken>>
      BY <1>s, <2>1, <2>2 DEF Members
    <2>3. CASE invite' = [invite EXCEPT ![i].state = "revoked"] /\ Overtakes(c)
      <3>1. Members' = Members /\ Joining' = Joining
        BY <2>1 DEF Members, Joining, Others, At
      <3> HIDE DEF i
      <3>2. /\ \A j \in Invites : SameInvite(j) \/ j = i
            /\ \A j \in Invites : invite'[j].to = invite[j].to
            /\ invite'[i].state = "revoked"
        BY <1>0, <2>1, <2>3 DEF SameInvite
      <3>3. Pending' \subseteq Pending
        BY <3>2 DEF Pending, SameInvite
      <3>4. Taken' <= Taken
        <4>1. Waiting' = Waiting
          BY <1>k, <3>1, <3>2 DEF Waiting, SeatsAddUp
        <4>2. Cardinality(Pending') <= Cardinality(Pending)
          BY <1>k, <3>3, FS_Subset DEF SeatsAddUp
        <4> QED
          BY <1>k, <3>1, <4>1, <4>2 DEF SeatsAddUp
      <3>5. SeatsHonoured' /\ OneInviteEach'
        <4>1. \A j \in Pending \cup Joining : invite'[j].to = invite[j].to
          BY <1>k, <3>2 DEF SeatsAddUp, Pending
        <4> QED
          BY <2>1, <3>1, <3>3, <3>4, <4>1, TakenStays
      <3> QED
        BY <2>1, <2>3, <3>5, OthersOvertaken DEF SeatsHold
    <2> QED
      BY <1>10, <2>2, <2>3 DEF Revoke
  <1>11. ASSUME NEW c \in Requests, Mark(c) PROVE SeatsHold'
    <2> DEFINE i == request[c].with
    <2>1. i \in Invites /\ ~At(c, "add") /\ UNCHANGED <<role, oversold>>
      BY <1>11 DEF Mark, At, Core, RequestsKnow, KnowsEnough
    <2>2. CASE UNCHANGED <<invite, overtaken>> /\ Done(c)
      BY <1>0, <1>s, <2>1, <2>2, IsDone DEF Members
    <2>3. CASE /\ invite[i].state = "live" /\ Goes(c, "add") /\ Overtakes(c)
               /\ invite' = [invite EXCEPT ![i].state = "accepted"]
      <3>1. Others(c) /\ request'[c].step = "add" /\ request'[c].with = i
        BY <1>0, <2>3, GoesOn DEF Steps
      <3> HIDE DEF i
      <3>2. Members' = Members /\ Joining' = Joining \cup {i}
        <4>1. Members' = Members
          BY <2>1 DEF Members
        <4>2. Joining' = Joining \cup {i}
          BY <2>1, <3>1 DEF Joining, Others, At
        <4> QED
          BY <4>1, <4>2
      <3>3. /\ \A j \in Invites : SameInvite(j) \/ j = i
            /\ \A j \in Invites : invite'[j].to = invite[j].to
            /\ invite'[i].state = "accepted"
        BY <1>0, <2>1, <2>3 DEF SameInvite
      <3>4. i \in Pending /\ Pending' = Pending \ {i}
        BY <2>1, <2>3, <3>3 DEF Pending, SameInvite
      <3>5. Taken' <= Taken
        <4>1. Waiting' \subseteq Waiting \cup {i}
          BY <1>k, <3>2, <3>3 DEF Waiting, SeatsAddUp
        <4>2. Cardinality(Waiting') <= Cardinality(Waiting) + 1
          BY <1>k, <4>1, OneMore DEF SeatsAddUp
        <4>3. Cardinality(Pending') <= Cardinality(Pending) - 1
          BY <1>k, <3>4, OneLess DEF SeatsAddUp
        <4> QED
          BY <1>k, <3>2, <4>2, <4>3 DEF SeatsAddUp
      <3>6. SeatsHonoured' /\ OneInviteEach'
        <4>1. \A j \in Pending \cup Joining : invite'[j].to = invite[j].to
          BY <1>k, <3>3 DEF SeatsAddUp, Pending
        <4> QED
          BY <2>1, <3>2, <3>4, <3>5, <4>1, TakenStays
      <3> QED
        BY <2>3, <3>1, <3>6, OthersOvertaken DEF SeatsHold
    <2> QED
      BY <1>11, <2>2, <2>3 DEF Mark
  <1>12. ASSUME NEW c \in Requests, Add(c) PROVE SeatsHold'
    <2> DEFINE i == request[c].with
               u == request[c].about
    <2>1. /\ At(c, "add") /\ i \in Invites /\ u \in Users /\ invite[i].to = u
          /\ invite[i].as \in Invitable /\ UNCHANGED <<invite, oversold>> /\ Overtakes(c)
          /\ role' = [role EXCEPT ![u] = invite[i].as]
          /\ \A d \in Requests \ {c} : At(d, "add") => request[d].with # i
      BY <1>12 DEF Add, At, Core, RequestsKnow, KnowsEnough, InvitesSent, OneJoinsWith
    <2>2. Others(c) /\ request'[c].step = "evict"
      BY <1>0, <1>12, GoesOn DEF Add, Steps
    <2>3. i \in Joining /\ Joining' = Joining \ {i}
      BY <2>1, <2>2 DEF Joining, Others, At
    <2> HIDE DEF i, u
    <2>4. Pending' = Pending /\ Members' = Members \cup {u}
      <3>1. Pending' = Pending
        BY <2>1 DEF Pending
      <3>2. Members' = Members \cup {u}
        BY <1>0, <2>1 DEF Members
      <3> QED
        BY <3>1, <3>2
    <2>5. Taken' <= Taken
      <3>1. CASE u \in Members
        <4>1. Members' = Members /\ Waiting' \subseteq Waiting
          BY <2>1, <2>3, <2>4, <3>1 DEF Waiting
        <4>2. Cardinality(Waiting') <= Cardinality(Waiting)
          BY <1>k, <4>1, FS_Subset DEF SeatsAddUp
        <4> QED
          BY <1>k, <2>4, <4>1, <4>2 DEF SeatsAddUp
      <3>2. CASE u \notin Members
        <4>1. i \in Waiting /\ Waiting' \subseteq Waiting \ {i}
          BY <2>1, <2>3, <2>4, <3>2 DEF Waiting
        <4>2. Cardinality(Waiting') <= Cardinality(Waiting) - 1
          BY <1>k, <4>1, OneLess DEF SeatsAddUp
        <4>3. Cardinality(Members') <= Cardinality(Members) + 1
          BY <1>k, <2>4, OneMore DEF SeatsAddUp
        <4> QED
          BY <1>k, <2>4, <4>2, <4>3 DEF SeatsAddUp
      <3> QED
        BY <3>1, <3>2
    <2>6. SeatsHonoured' /\ OneInviteEach'
      BY <2>1, <2>3, <2>4, <2>5, TakenStays
    <2> QED
      BY <2>1, <2>2, <2>6, OthersOvertaken DEF SeatsHold
  <1>13. ASSUME \/ UNCHANGED vars
                \/ \E i \in Invites : Lapse(i)
                \/ \E u \in Users : Forget(u)
         PROVE  SeatsHold'
    <2>1. UNCHANGED <<role, request, oversold, overtaken>>
      BY <1>13 DEF vars, history, Lapse, Forget
    <2>2. /\ \A i \in Invites : invite'[i].to = invite[i].to
          /\ Pending' = Pending
      <3>1. CASE UNCHANGED invite
        BY <3>1 DEF Pending
      <3>2. ASSUME NEW i \in Invites, Lapse(i)
            PROVE  Pending' = Pending /\ \A j \in Invites : invite'[j].to = invite[j].to
        <4>1. /\ \A j \in Invites : SameInvite(j) \/ j = i
              /\ invite'[i].state = "expired" /\ invite'[i].to = invite[i].to
              /\ invite[i].state = "live"
          BY <1>0, <3>2 DEF Lapse, SameInvite
        <4> QED
          BY <4>1 DEF Pending, SameInvite
      <3> QED
        BY <1>13, <3>1, <3>2 DEF vars, Forget
    <2>3. Members' = Members /\ \A i \in Pending \cup Joining : invite'[i].to = invite[i].to
      BY <1>k, <2>1, <2>2 DEF Members, SeatsAddUp, Pending
    <2> QED
      BY <2>1, <2>2, <2>3, SeatsCalm
  <1>14. ASSUME NEW c \in Requests, RequestSteps(c) PROVE SeatsHold'
    BY <1>1, <1>2, <1>3, <1>4, <1>5, <1>6, <1>7, <1>8, <1>9, <1>10, <1>11, <1>12, <1>14
       DEF RequestSteps
  <1> QED
    BY <1>13, <1>14, NextCases

-----------------------------------------------------------------------------
\* Every seeded plan has a seat at least, the founder's (0002_seed_plans.sql:52-71).
FounderSeated == Seats >= 1

LEMMA MembershipInit == FounderSeated /\ Init => MembershipIndInv
  <1> SUFFICES ASSUME FounderSeated, Init PROVE MembershipIndInv
    OBVIOUS
  <1>1. Core
    BY CoreInit
  <1>2. /\ Members = {Founder} /\ Owners = {Founder} /\ Pending = {} /\ Joining = {}
    <2>1. Idle.step = "idle"
      BY DEF Idle
    <2> QED
      BY <2>1, MembershipAssumption DEF Init, Members, Owners, Pending, Joining
  <1>3. OneOwnerOrATransfer
    <2>1. Cardinality({Founder}) = 1 /\ {Founder} # {}
      BY FS_Singleton
    <2> QED
      BY <1>2, <2>1 DEF OneOwnerOrATransfer
  <1>4. SeatsHold
    <2>1. Waiting = {} /\ Cardinality({}) = 0 /\ Cardinality(Members) = 1
      BY <1>2, FS_EmptySet, FS_Singleton DEF Waiting
    <2>2. SeatsHonoured
      <3>1. Taken = 1
        BY <1>1, <1>2, <2>1, SeatsCounted DEF SeatsAddUp
      <3> QED
        BY <3>1, MembershipAssumption DEF SeatsHonoured, FounderSeated
    <2>3. OneInviteEach
      BY <1>2 DEF OneInviteEach
    <2>4. CountsStand
      <3>1. \A c \in Requests : request[c].step = "idle"
        BY DEF Init, Idle
      <3> QED
        BY <3>1 DEF CountsStand, At
    <2> QED
      BY <2>2, <2>3, <2>4 DEF SeatsHold
  <1>5. EvictedOrMisled
    BY DEF Init, EvictedOrMisled, Wrong
  <1> QED
    BY <1>1, <1>3, <1>4, <1>5 DEF MembershipIndInv, MembershipInv, Core, SeatsHold

LEMMA MembershipNext == MembershipIndInv /\ [Next]_vars => MembershipIndInv'
  <1> SUFFICES ASSUME MembershipIndInv, [Next]_vars PROVE MembershipIndInv'
    OBVIOUS
  <1>1. Core /\ SeatsHold /\ EvictedOrMisled /\ OneOwnerOrATransfer
    BY DEF MembershipIndInv, MembershipInv, Core, SeatsHold
  <1>2. Core'
    BY <1>1, CoreNext
  <1>3. SeatsHold' /\ EvictedOrMisled'
    BY <1>1, <1>2, SeatsNext, EvictedNext
  <1>4. OwnersHold
    BY <1>1, OwnersHoldMeans DEF Core
  <1>5. OwnersHold'
    BY <1>1, <1>4, OwnersNext
  <1>6. TypeOK'
    BY <1>2 DEF Core
  <1>7. OneOwnerOrATransfer'
    BY <1>5, <1>6, OwnersHoldMeans, PTL
  <1> QED
    BY <1>2, <1>3, <1>7 DEF MembershipIndInv, MembershipInv, Core, SeatsHold

\* Whatever requests run between each other's statements, and die there: a
\* workspace has one owner unless a transfer or an old invite took the role,
\* an invite admits its holder once, a count nobody overtook never oversells
\* the seats, and a wrong cached membership is about to be evicted unless its
\* lookup was overtaken (tenancy_service.py:10-20, 133-340).
THEOREM WorkspaceIsSound ==
  ASSUME FounderSeated
  PROVE  Spec => []MembershipInv
  <1>1. Init => MembershipIndInv
    BY MembershipInit
  <1>2. MembershipIndInv /\ [Next]_vars => MembershipIndInv'
    BY MembershipNext
  <1>3. MembershipIndInv => MembershipInv
    BY DEF MembershipIndInv
  <1> QED
    BY <1>1, <1>2, <1>3, PTL DEF Spec

-----------------------------------------------------------------------------
\* A change that was committed, and an entry of the trail.
ChangeRecord == [thing : Things, before : AllValues, after : AllValues, by : Staff \cup {Nobody}]
EntryRecord == [thing : Things, before : AllValues, after : AllValues, by : Staff \cup {Nobody},
                n : Nat]
ActRecord ==
  [at : {"idle", "flag", "issue", "before", "upsert", "audit"}, by : Staff \cup {Nobody},
   thing : Things, was : AllValues, to : AllValues, n : 0 .. ChangesMax]

TrailShapes ==
  /\ value \in [Things -> AllValues]
  /\ changes \in Seq(ChangeRecord) /\ trail \in Seq(EntryRecord)
  /\ lost \subseteq 1 .. Len(changes)

\* What is told of a change is what was done.
Tells(r, was) ==
  /\ r.n \in DOMAIN changes
  /\ r.thing = changes[r.n].thing /\ r.by = changes[r.n].by
  /\ was = changes[r.n].before \/ (r.n \in hurried /\ r.thing = "exception")

\* What a request that is half way through knows.
ActsKnow ==
  \A a \in Acts :
    /\ act[a].at \in {"flag", "issue", "before", "upsert"} => act[a].by \in Staff
    /\ act[a].at \in {"before", "upsert"} => act[a].thing = "exception" /\ act[a].to \in Caps
    /\ Stands(a, "upsert") /\ a \notin hurried => act[a].was = value["exception"]
    /\ Stands(a, "audit") => Tells(act[a], act[a].was) /\ act[a].to = changes[act[a].n].after

EntriesTell ==
  \A i \in DOMAIN trail :
    Tells(trail[i], trail[i].before) /\ trail[i].after = changes[trail[i].n].after

\* A change is told once, by the one request that made it.
ToldOnce ==
  /\ \A i, j \in DOMAIN trail : trail[i].n = trail[j].n => i = j
  /\ \A a, b \in Acts : Stands(a, "audit") /\ Stands(b, "audit") /\ act[a].n = act[b].n => a = b
  /\ \A n \in DOMAIN changes :
       /\ (\E i \in DOMAIN trail : trail[i].n = n) <=> ~Recording(n) /\ n \notin lost
       /\ Recording(n) => n \notin lost

-----------------------------------------------------------------------------
LEMMA ValuesAre ==
  /\ Values("status") = {"active", "suspended"} /\ Values("exception") = Caps \cup {Nobody}
  /\ \A u \in Staff : Values(u) = {"held", "lacked"}
  /\ \A t \in Things : Values(t) \subseteq AllValues
  /\ "status" \in Things /\ "exception" \in Things /\ Staff \subseteq Things
  /\ Nobody \in AllValues /\ Resting \in ActRecord
  <1>1. /\ Values("status") = {"active", "suspended"} /\ Values("exception") = Caps \cup {Nobody}
        /\ \A u \in Staff : Values(u) = {"held", "lacked"}
    BY TrailAssumption DEF Values
  <1>2. /\ \A t \in Things : Values(t) \subseteq AllValues
        /\ "status" \in Things /\ "exception" \in Things /\ Staff \subseteq Things
    BY DEF AllValues, Things
  <1>3. Nobody \in AllValues
    BY <1>1, <1>2
  <1>4. Resting \in ActRecord
    BY <1>2, <1>3, TrailAssumption DEF Resting, ActRecord
  <1> QED
    BY <1>1, <1>2, <1>3, <1>4

\* The types, without the bound on the trail, which takes an argument.
TrailTypes ==
  /\ \A t \in Things : value[t] \in Values(t)
  /\ act \in [Acts -> ActRecord]
  /\ Len(changes) <= ChangesMax /\ hurried \subseteq Acts \cup (1 .. ChangesMax)

TrailKept == TrailTypes /\ TrailShapes /\ ActsKnow /\ EntriesTell /\ ToldOnce

\* One entry for each change at most: the trail is no longer than the changes.
LEMMA TrailIsShorter ==
  TrailShapes /\ EntriesTell /\ ToldOnce => Len(trail) <= Len(changes)
  <1> SUFFICES ASSUME TrailShapes, EntriesTell, ToldOnce PROVE Len(trail) <= Len(changes)
    OBVIOUS
  <1> DEFINE m == Len(trail)
             n == Len(changes)
             f == [i \in 1 .. m |-> trail[i].n]
  <1>1. m \in Nat /\ n \in Nat /\ DOMAIN trail = 1 .. m /\ DOMAIN changes = 1 .. n
    BY DEF TrailShapes
  <1>2. \A i \in 1 .. m : trail[i].n \in 1 .. n
    BY <1>1 DEF EntriesTell, Tells
  <1>3. \A i, j \in 1 .. m : trail[i].n = trail[j].n => i = j
    BY <1>1 DEF ToldOnce
  <1> HIDE DEF m, n
  <1>4. f \in Injection(1 .. m, 1 .. n)
    BY <1>2, <1>3 DEF Injection, IsInjective
  <1>5. /\ IsFiniteSet(1 .. n) /\ Cardinality(1 .. n) = n /\ Cardinality(1 .. m) = m
    <2>1. /\ IsFiniteSet(1 .. n) /\ Cardinality(1 .. n) = IF 1 > n THEN 0 ELSE n - 1 + 1
          /\ Cardinality(1 .. m) = IF 1 > m THEN 0 ELSE m - 1 + 1
      BY <1>1, FS_Interval
    <2> QED
      BY <1>1, <2>1
  <1>6. Cardinality(1 .. m) <= Cardinality(1 .. n)
    BY <1>4, <1>5, FS_Injection
  <1>7. m <= n
    BY <1>5, <1>6
  <1> QED
    BY <1>7 DEF m, n

\* What a request knows, after another one's step that changed nothing it knows.
LEMMA QuietStep ==
  ASSUME TrailKept, NEW a \in Acts, NEW r \in ActRecord, ~Stands(a, "audit"),
         act' = [act EXCEPT ![a] = r], r.at # "audit",
         UNCHANGED <<value, trail, changes, lost, hurried>>,
         r.at \in {"flag", "issue", "before", "upsert"} => r.by \in Staff,
         r.at \in {"before", "upsert"} => r.thing = "exception" /\ r.to \in Caps,
         r.at = "upsert" => r.was = value["exception"]
  PROVE  TrailKept'
  <1>1. act' \in [Acts -> ActRecord] /\ act'[a] = r /\ \A b \in Acts \ {a} : act'[b] = act[b]
    BY DEF TrailKept, TrailTypes
  <1>2. TrailTypes' /\ TrailShapes'
    BY <1>1 DEF TrailKept, TrailTypes, TrailShapes
  <1>3. ActsKnow'
    BY <1>1 DEF TrailKept, ActsKnow, Tells, Stands
  <1>4. EntriesTell'
    BY DEF TrailKept, EntriesTell, Tells
  <1>5. \A b \in Acts : Stands(b, "audit")' <=> Stands(b, "audit")
    BY <1>1 DEF Stands
  <1>6. \A b \in Acts : Stands(b, "audit") => act'[b] = act[b]
    BY <1>1
  <1>7. \A n : Recording(n)' <=> Recording(n)
    BY <1>5, <1>6 DEF Recording
  <1>8. ToldOnce'
    BY <1>5, <1>6, <1>7 DEF TrailKept, ToldOnce
  <1> QED
    BY <1>2, <1>3, <1>4, <1>8 DEF TrailKept

LEMMA CommitStep ==
  ASSUME TrailKept, NEW a \in Acts, NEW by \in Staff \cup {Nobody}, NEW t \in Things,
         NEW before \in AllValues, NEW after \in Values(t),
         Commits(a, by, t, before, after), ~Stands(a, "audit"), UNCHANGED <<trail, lost>>,
         before = value[t] \/ (a \in hurried /\ t = "exception")
  PROVE  TrailKept'
  <1>0. Len(changes) \in Nat /\ DOMAIN changes = 1 .. Len(changes)
    BY DEF TrailKept, TrailShapes
  <1>n. PICK n \in Nat : n = Len(changes) + 1
    BY <1>0
  <1>c. PICK c : c = [thing |-> t, before |-> value[t], after |-> after, by |-> by]
    OBVIOUS
  <1>r. PICK r : r = [at |-> "audit", by |-> by, thing |-> t, was |-> before, to |-> after, n |-> n]
    OBVIOUS
  <1>1. /\ Len(changes) < ChangesMax /\ value' = [value EXCEPT ![t] = after]
        /\ changes' = Append(changes, c) /\ act' = [act EXCEPT ![a] = r]
        /\ hurried' = (hurried \ {a})
                        \cup {b \in Acts \ {a} : Stands(b, "upsert") /\ act[b].thing = t}
                        \cup {k \in {n} : a \in hurried}
    BY <1>n, <1>c, <1>r DEF Commits
  <1>2. n \in 1 .. ChangesMax
    BY <1>0, <1>1, <1>n, TrailAssumption
  <1>3. after \in AllValues /\ c \in ChangeRecord /\ r \in ActRecord
    BY <1>2, <1>c, <1>r, ValuesAre DEF TrailKept, TrailShapes, ChangeRecord, ActRecord
  <1>4. /\ changes' \in Seq(ChangeRecord) /\ Len(changes') = n /\ changes'[n] = c
        /\ \A k \in DOMAIN changes : changes'[k] = changes[k]
        /\ DOMAIN changes' = 1 .. n
    BY <1>0, <1>1, <1>3, <1>n DEF TrailKept, TrailShapes
  <1>5. /\ r.at = "audit" /\ r.by = by /\ r.thing = t /\ r.was = before /\ r.to = after /\ r.n = n
        /\ c.thing = t /\ c.before = value[t] /\ c.after = after /\ c.by = by
    BY <1>c, <1>r
  <1>6. act' \in [Acts -> ActRecord] /\ act'[a] = r /\ \A b \in Acts \ {a} : act'[b] = act[b]
    BY <1>1, <1>3 DEF TrailKept, TrailTypes
  <1>7. TrailTypes' /\ TrailShapes'
    <2>1. /\ value' \in [Things -> AllValues]
          /\ \A s \in Things : value'[s] \in Values(s)
      BY <1>1, <1>3 DEF TrailKept, TrailTypes, TrailShapes
    <2>2. hurried' \subseteq Acts \cup (1 .. ChangesMax)
      BY <1>1, <1>2 DEF TrailKept, TrailTypes
    <2>3. lost' \subseteq 1 .. Len(changes')
      BY <1>0, <1>4, <1>n DEF TrailKept, TrailShapes
    <2> QED
      BY <1>0, <1>2, <1>4, <1>6, <2>1, <2>2, <2>3 DEF TrailKept, TrailTypes, TrailShapes
  <1>8. /\ DOMAIN changes \subseteq DOMAIN changes' /\ n \notin DOMAIN changes
        /\ DOMAIN changes' = DOMAIN changes \cup {n}
    BY <1>0, <1>4, <1>n
  <1>9. \A k \in DOMAIN changes : k \in hurried => k \in hurried'
    BY <1>0, <1>1, TrailAssumption
  <1>10. \A q, was : Tells(q, was) => Tells(q, was)' /\ changes'[q.n].after = changes[q.n].after
    BY <1>4, <1>8, <1>9 DEF Tells
  <1>11. EntriesTell'
    BY <1>10 DEF TrailKept, EntriesTell
  <1>12. ActsKnow'
    <2>1. Tells(r, before)' /\ r.to = changes'[r.n].after
      BY <1>1, <1>4, <1>5, <1>8 DEF Tells
    <2>2. ASSUME NEW b \in Acts \ {a}, Stands(b, "upsert"), b \notin hurried'
          PROVE  act[b].was = value'["exception"]
      <3>1. b \notin hurried /\ t # "exception"
        BY <1>1, <2>2 DEF TrailKept, ActsKnow, Stands
      <3> QED
        BY <1>1, <2>2, <3>1, ValuesAre DEF TrailKept, ActsKnow, TrailShapes
    <2> QED
      BY <1>5, <1>6, <1>10, <2>1, <2>2 DEF TrailKept, ActsKnow, Stands
  <1>13. \A i \in DOMAIN trail : trail[i].n \in DOMAIN changes
    BY DEF TrailKept, EntriesTell, Tells
  <1>14. \A b \in Acts : Stands(b, "audit") => act[b].n \in DOMAIN changes
    BY DEF TrailKept, ActsKnow, Tells
  <1>15. n \notin lost
    BY <1>0, <1>n DEF TrailKept, TrailShapes
  <1>16. ToldOnce'
    <2>1. \A b \in Acts : Stands(b, "audit")' <=> Stands(b, "audit") \/ b = a
      BY <1>5, <1>6 DEF Stands
    <2>2. \A b, d \in Acts : Stands(b, "audit")' /\ Stands(d, "audit")' /\ act'[b].n = act'[d].n => b = d
      BY <1>5, <1>6, <1>8, <1>14, <2>1 DEF TrailKept, ToldOnce
    <2>3. Recording(n)' /\ \A k \in DOMAIN changes : Recording(k)' <=> Recording(k)
      BY <1>5, <1>6, <1>8, <2>1 DEF Recording
    <2> QED
      BY <1>8, <1>13, <1>15, <2>2, <2>3 DEF TrailKept, ToldOnce
  <1> QED
    BY <1>7, <1>11, <1>12, <1>16 DEF TrailKept

LEMMA RecordStep ==
  ASSUME TrailKept, NEW a \in Acts, RecordAction(a)
  PROVE  TrailKept'
  <1>1. /\ Stands(a, "audit") /\ trail' = Append(trail, Entry(act[a]))
        /\ act' = [act EXCEPT ![a] = Resting]
        /\ UNCHANGED <<value, changes, lost, hurried>>
    BY DEF RecordAction
  <1>2. act[a] \in ActRecord /\ act[a].n \in DOMAIN changes
    BY <1>1 DEF TrailKept, TrailTypes, ActsKnow, Tells
  <1>e. PICK e : e = Entry(act[a])
    OBVIOUS
  <1>3. /\ e \in EntryRecord /\ e.thing = act[a].thing /\ e.before = act[a].was
        /\ e.after = act[a].to /\ e.by = act[a].by /\ e.n = act[a].n
    BY <1>2, <1>e DEF Entry, EntryRecord, ActRecord
  <1>m. PICK m \in Nat : m = Len(trail) + 1
    BY DEF TrailKept, TrailShapes
  <1>4. /\ trail' \in Seq(EntryRecord) /\ DOMAIN trail' = DOMAIN trail \cup {m}
        /\ m \notin DOMAIN trail /\ trail'[m] = e
        /\ \A i \in DOMAIN trail : trail'[i] = trail[i]
    BY <1>1, <1>3, <1>e, <1>m DEF TrailKept, TrailShapes
  <1>5. /\ act' \in [Acts -> ActRecord] /\ act'[a].at = "idle"
        /\ \A b \in Acts \ {a} : act'[b] = act[b]
    <2>1. Resting.at = "idle"
      BY DEF Resting
    <2> QED
      BY <1>1, <2>1, ValuesAre DEF TrailKept, TrailTypes
  <1>6. TrailTypes' /\ TrailShapes'
    BY <1>1, <1>4, <1>5 DEF TrailKept, TrailTypes, TrailShapes
  <1>7. \A q, was : Tells(q, was)' <=> Tells(q, was)
    BY <1>1 DEF Tells
  <1>8. Tells(e, e.before) /\ e.after = changes[e.n].after
    <2>1. Tells(act[a], act[a].was) /\ act[a].to = changes[act[a].n].after
      BY <1>1 DEF TrailKept, ActsKnow
    <2> QED
      BY <1>3, <2>1 DEF Tells
  <1>9. EntriesTell'
    BY <1>1, <1>4, <1>7, <1>8 DEF TrailKept, EntriesTell
  <1>10. ActsKnow'
    BY <1>1, <1>5, <1>7 DEF TrailKept, ActsKnow, Stands
  <1>11. \A b \in Acts : Stands(b, "audit")' <=> Stands(b, "audit") /\ b # a
    BY <1>5 DEF Stands
  <1>12. ~Recording(e.n)' /\ Recording(e.n)
         /\ \A k \in DOMAIN changes \ {e.n} : Recording(k)' <=> Recording(k)
    BY <1>1, <1>3, <1>5, <1>11 DEF Recording, TrailKept, ToldOnce
  <1>13. ToldOnce'
    <2>1. e.n \notin lost /\ \A i \in DOMAIN trail : trail[i].n # e.n
      <3>1. e.n \in DOMAIN changes
        BY <1>2, <1>3
      <3> QED
        BY <1>12, <3>1 DEF TrailKept, ToldOnce
    <2>2. \A i, j \in DOMAIN trail' : trail'[i].n = trail'[j].n => i = j
      BY <1>4, <2>1 DEF TrailKept, ToldOnce
    <2>3. \A b, d \in Acts : Stands(b, "audit")' /\ Stands(d, "audit")' /\ act'[b].n = act'[d].n => b = d
      BY <1>5, <1>11 DEF TrailKept, ToldOnce
    <2>4. \A k \in DOMAIN changes : (\E i \in DOMAIN trail' : trail'[i].n = k)
                                     <=> (\E i \in DOMAIN trail : trail[i].n = k) \/ k = e.n
      BY <1>4
    <2> QED
      BY <1>1, <1>12, <2>1, <2>2, <2>3, <2>4 DEF TrailKept, ToldOnce
  <1> QED
    BY <1>6, <1>9, <1>10, <1>13 DEF TrailKept

LEMMA DeadStep ==
  ASSUME TrailKept, NEW a \in Acts, ActDies(a)
  PROVE  TrailKept'
  <1>1. /\ lost' = (IF Stands(a, "audit") THEN lost \cup {act[a].n} ELSE lost)
        /\ hurried' = hurried \ {a} /\ act' = [act EXCEPT ![a] = Resting]
        /\ UNCHANGED <<value, trail, changes>>
    BY DEF ActDies
  <1>2. Stands(a, "audit") => act[a].n \in DOMAIN changes
    BY DEF TrailKept, ActsKnow, Tells
  <1>3. /\ act' \in [Acts -> ActRecord] /\ act'[a].at = "idle"
        /\ \A b \in Acts \ {a} : act'[b] = act[b]
    <2>1. Resting.at = "idle"
      BY DEF Resting
    <2> QED
      BY <1>1, <2>1, ValuesAre DEF TrailKept, TrailTypes
  <1>4. TrailTypes' /\ TrailShapes'
    <2>1. DOMAIN changes = 1 .. Len(changes)
      BY DEF TrailKept, TrailShapes
    <2>2. lost' \subseteq 1 .. Len(changes')
      BY <1>1, <1>2, <2>1 DEF TrailKept, TrailShapes
    <2> QED
      BY <1>1, <1>3, <2>2 DEF TrailKept, TrailTypes, TrailShapes
  <1>5. DOMAIN changes \subseteq Nat
    BY DEF TrailKept, TrailShapes
  <1>6. \A q, was : Tells(q, was) => Tells(q, was)'
    BY <1>1, <1>5, TrailAssumption DEF Tells
  <1>7. EntriesTell'
    BY <1>1, <1>6 DEF TrailKept, EntriesTell
  <1>8. ActsKnow'
    BY <1>1, <1>3, <1>6 DEF TrailKept, ActsKnow, Stands
  <1>9. \A b \in Acts : Stands(b, "audit")' <=> Stands(b, "audit") /\ b # a
    BY <1>3 DEF Stands
  <1>10. \A k : Recording(k)' <=> Recording(k) /\ ~(Stands(a, "audit") /\ act[a].n = k)
    BY <1>3, <1>9 DEF Recording, TrailKept, ToldOnce
  <1>11. \A k : k \in lost' <=> k \in lost \/ (Stands(a, "audit") /\ act[a].n = k)
    BY <1>1
  <1>12. ToldOnce'
    <2>1. \A b, d \in Acts : Stands(b, "audit")' /\ Stands(d, "audit")' /\ act'[b].n = act'[d].n => b = d
      BY <1>3, <1>9 DEF TrailKept, ToldOnce
    <2>2. Stands(a, "audit") => Recording(act[a].n)
      BY DEF Recording
    <2>3. \A k \in DOMAIN changes : ~Recording(k)' /\ k \notin lost' <=> ~Recording(k) /\ k \notin lost
      BY <1>10, <1>11, <2>2
    <2>4. \A k \in DOMAIN changes : Recording(k)' => k \notin lost'
      BY <1>10, <1>11 DEF TrailKept, ToldOnce
    <2> QED
      BY <1>1, <2>1, <2>3, <2>4 DEF TrailKept, ToldOnce
  <1> QED
    BY <1>4, <1>7, <1>8, <1>12 DEF TrailKept

LEMMA TrailNextKeeps == TrailKept /\ [TrailNext]_trailVars => TrailKept'
  <1> SUFFICES ASSUME TrailKept, [TrailNext]_trailVars PROVE TrailKept'
    OBVIOUS
  <1>0. /\ act \in [Acts -> ActRecord] /\ value \in [Things -> AllValues]
        /\ \A t \in Things : value[t] \in Values(t)
    BY DEF TrailKept, TrailTypes, TrailShapes
  <1>1. ASSUME NEW a \in Acts, NEW u \in Staff, BeginMint(a, u) PROVE TrailKept'
    <2> DEFINE r == [Resting EXCEPT !.at = "flag", !.by = u]
    <2>1. r \in ActRecord /\ r.at = "flag" /\ r.by \in Staff
      BY ValuesAre DEF ActRecord
    <2>2. /\ act' = [act EXCEPT ![a] = r] /\ ~Stands(a, "audit")
          /\ UNCHANGED <<value, trail, changes, lost, hurried>>
      BY <1>1 DEF BeginMint, Stands
    <2> HIDE DEF r
    <2> QED
      BY <2>1, <2>2, QuietStep
  <1>2. ASSUME NEW a \in Acts, NEW u \in Staff, NEW v \in Caps, BeginException(a, u, v)
        PROVE  TrailKept'
    <2> DEFINE r == [Resting EXCEPT !.at = "before", !.by = u, !.thing = "exception", !.to = v]
    <2>1. v \in AllValues
      BY ValuesAre
    <2>2. /\ r \in ActRecord /\ r.at = "before" /\ r.by \in Staff /\ r.thing = "exception"
          /\ r.to \in Caps
      BY <2>1, ValuesAre DEF ActRecord
    <2>3. /\ act' = [act EXCEPT ![a] = r] /\ ~Stands(a, "audit")
          /\ UNCHANGED <<value, trail, changes, lost, hurried>>
      BY <1>2 DEF BeginException, Stands
    <2> HIDE DEF r
    <2> QED
      BY <2>2, <2>3, QuietStep
  <1>3. ASSUME NEW a \in Acts, ReadFlag(a) PROVE TrailKept'
    <2> DEFINE r == [act[a] EXCEPT !.at = "issue", !.was = value[act[a].by]]
    <2>1. act[a] \in ActRecord /\ act[a].by \in Staff
      BY <1>0, <1>3 DEF ReadFlag, Stands, TrailKept, ActsKnow
    <2>2. value[act[a].by] \in AllValues
      BY <1>0, <2>1, ValuesAre
    <2>3. r \in ActRecord /\ r.at = "issue" /\ r.by \in Staff
      BY <2>1, <2>2 DEF ActRecord
    <2>4. /\ act' = [act EXCEPT ![a] = r] /\ ~Stands(a, "audit")
          /\ UNCHANGED <<value, trail, changes, lost, hurried>>
      BY <1>0, <1>3 DEF ReadFlag, Stands
    <2> HIDE DEF r
    <2> QED
      BY <2>3, <2>4, QuietStep
  <1>4. ASSUME NEW a \in Acts, ReadBefore(a) PROVE TrailKept'
    <2> DEFINE r == [act[a] EXCEPT !.at = "upsert", !.was = value[act[a].thing]]
    <2>1. /\ act[a] \in ActRecord /\ act[a].by \in Staff /\ act[a].thing = "exception"
          /\ act[a].to \in Caps
      BY <1>0, <1>4 DEF ReadBefore, Stands, TrailKept, ActsKnow
    <2>2. value[act[a].thing] \in AllValues
      BY <1>0, <2>1, ValuesAre
    <2>3. /\ r \in ActRecord /\ r.at = "upsert" /\ r.by \in Staff /\ r.thing = "exception"
          /\ r.to \in Caps /\ r.was = value["exception"]
      BY <2>1, <2>2 DEF ActRecord
    <2>4. /\ act' = [act EXCEPT ![a] = r] /\ ~Stands(a, "audit")
          /\ UNCHANGED <<value, trail, changes, lost, hurried>>
      BY <1>0, <1>4 DEF ReadBefore, Stands
    <2> HIDE DEF r
    <2> QED
      BY <2>3, <2>4, QuietStep
  <1>5. ASSUME NEW a \in Acts, Issue(a) PROVE TrailKept'
    <2>1. Resting.at = "idle"
      BY DEF Resting
    <2> QED
      BY <1>5, <2>1, QuietStep, ValuesAre DEF Issue, Stands
  <1>6. ASSUME NEW a \in Acts, NEW u \in Staff, NEW p \in Values(u), SetPlatformAdmin(a, u, p)
        PROVE  TrailKept'
    <2> DEFINE before == IF p = "held" THEN "lacked" ELSE "held"
    <2>1. u \in Things /\ p \in {"held", "lacked"} /\ value[u] \in {"held", "lacked"}
          /\ value[u] \in AllValues
      BY <1>0, ValuesAre
    <2>2. before = value[u] /\ ~Stands(a, "audit") /\ UNCHANGED <<trail, lost>>
      BY <1>6, <2>1 DEF SetPlatformAdmin, Flips, Stands
    <2>3. Commits(a, Nobody, u, before, p)
      BY <1>6 DEF SetPlatformAdmin
    <2> HIDE DEF before
    <2> QED
      BY <2>1, <2>2, <2>3, CommitStep
  <1>7. ASSUME NEW a \in Acts, NEW u \in Staff, NEW s \in Values("status"), SetStatus(a, u, s)
        PROVE  TrailKept'
    BY <1>0, <1>7, CommitStep, ValuesAre DEF SetStatus, Stands
  <1>8. ASSUME NEW a \in Acts, UpsertException(a) PROVE TrailKept'
    <2>1. /\ act[a] \in ActRecord /\ act[a].by \in Staff /\ act[a].thing = "exception"
          /\ act[a].to \in Values("exception")
          /\ a \notin hurried => act[a].was = value["exception"]
      BY <1>0, <1>8, ValuesAre DEF UpsertException, Stands, TrailKept, ActsKnow
    <2>2. act[a].was \in AllValues
      BY <2>1 DEF ActRecord
    <2> QED
      BY <1>8, <2>1, <2>2, CommitStep, ValuesAre DEF UpsertException, Stands
  <1>9. ASSUME NEW a \in Acts, NEW u \in Staff, ClearException(a, u) PROVE TrailKept'
    BY <1>0, <1>9, CommitStep, ValuesAre DEF ClearException, Stands
  <1>10. CASE TokensAge \/ UNCHANGED trailVars
    <2>1. UNCHANGED <<value, act, trail, changes, lost, hurried>>
      BY <1>10 DEF TokensAge, trailVars
    <2> QED
      BY <2>1 DEF TrailKept, TrailTypes, TrailShapes, ActsKnow, EntriesTell, ToldOnce, Tells,
                  Recording, Stands
  <1> QED
    BY <1>1, <1>2, <1>3, <1>4, <1>5, <1>6, <1>7, <1>8, <1>9, <1>10, RecordStep, DeadStep
       DEF TrailNext

-----------------------------------------------------------------------------
\* How long ago the tokens were minted, and the privilege was taken away.
Privilege ==
  /\ power \in [Staff -> 0 .. TokenLife - 1 \cup {Nobody}]
  /\ since \in [Staff -> 0 .. TokenLife] /\ late \subseteq Staff
  /\ RevocationBites

LEMMA PrivilegeNext == TrailKept /\ Privilege /\ [TrailNext]_trailVars => Privilege'
  <1> SUFFICES ASSUME TrailKept, Privilege, [TrailNext]_trailVars PROVE Privilege'
    OBVIOUS
  <1>0. /\ TokenLife \in Nat \ {0} /\ Nobody \notin Nat
        /\ value \in [Things -> AllValues] /\ Staff \subseteq Things
        /\ \A u \in Staff : value[u] \in {"held", "lacked"}
    BY TrailAssumption, ValuesAre DEF TrailKept, TrailTypes, TrailShapes
  \* The privilege stays as it is.
  <1>s. ASSUME UNCHANGED privilege, \A u \in Staff : value'[u] = value[u]
        PROVE  Privilege'
    BY <1>s DEF Privilege, RevocationBites, Holds, privilege
  <1>1. ASSUME NEW a \in Acts,
               \/ \E u \in Staff : BeginMint(a, u)
               \/ \E u \in Staff, v \in Caps : BeginException(a, u, v)
               \/ ReadFlag(a) \/ ReadBefore(a) \/ RecordAction(a) \/ ActDies(a)
        PROVE  Privilege'
    BY <1>1, <1>s DEF BeginMint, BeginException, ReadFlag, ReadBefore, RecordAction, ActDies
  <1>2. ASSUME NEW a \in Acts,
               \/ \E u \in Staff, s \in Values("status") : SetStatus(a, u, s)
               \/ UpsertException(a)
               \/ \E u \in Staff : ClearException(a, u)
        PROVE  Privilege'
    <2>1. UNCHANGED privilege
      BY <1>2 DEF SetStatus, UpsertException, ClearException
    <2>2. PICK t \in {"status", "exception"} : \E v : value' = [value EXCEPT ![t] = v]
      <3>1. UpsertException(a) => act[a].thing = "exception"
        BY DEF UpsertException, Stands, TrailKept, ActsKnow
      <3> QED
        BY <1>2, <3>1 DEF SetStatus, UpsertException, ClearException, Commits
    <2> QED
      BY <1>0, <1>s, <2>1, <2>2, TrailAssumption
  <1>3. ASSUME NEW a \in Acts, Issue(a) PROVE Privilege'
    <2>1. CASE UNCHANGED <<power, late>>
      BY <1>3, <1>s, <2>1 DEF Issue, privilege
    <2>2. CASE /\ power' = [power EXCEPT ![act[a].by] = 0]
               /\ late' = IF value[act[a].by] = "held" THEN late ELSE late \cup {act[a].by}
      <3>1. PICK u \in Staff : u = act[a].by
        BY <1>3 DEF Issue, Stands, TrailKept, ActsKnow
      <3>2. /\ power' \in [Staff -> 0 .. TokenLife - 1 \cup {Nobody}] /\ late' \subseteq Staff
            /\ UNCHANGED <<value, since>> /\ late \subseteq late'
            /\ \A v \in Staff \ {u} : power'[v] = power[v]
            /\ value[u] = "held" \/ u \in late'
        BY <1>0, <1>3, <2>2, <3>1 DEF Issue, Privilege
      <3> QED
        BY <1>0, <3>2 DEF Privilege, RevocationBites, Holds
    <2> QED
      BY <1>3, <2>1, <2>2 DEF Issue
  <1>4. ASSUME NEW a \in Acts, NEW u \in Staff, NEW p \in Values(u), SetPlatformAdmin(a, u, p)
        PROVE  Privilege'
    <2>1. /\ value' = [value EXCEPT ![u] = p] /\ power' = power /\ late' = late \ {u}
          /\ since' = [since EXCEPT ![u] = IF p = "held" THEN TokenLife ELSE 0]
      BY <1>4 DEF SetPlatformAdmin, Commits
    <2>2. /\ value'[u] = p /\ \A v \in Staff \ {u} : value'[v] = value[v] /\ since'[v] = since[v]
          /\ p # "held" => since'[u] = 0
          /\ since' \in [Staff -> 0 .. TokenLife] /\ late' \subseteq Staff
      BY <1>0, <2>1 DEF Privilege
    <2>3. Holds(u) => power[u] \in Nat
      BY <1>0 DEF Holds, Privilege
    <2> QED
      BY <2>1, <2>2, <2>3 DEF Privilege, RevocationBites, Holds
  <1>5. CASE TokensAge
    <2>1. /\ power' = [u \in Staff |-> IF Holds(u) /\ power[u] + 1 < TokenLife
                                      THEN power[u] + 1 ELSE Nobody]
          /\ since' = [u \in Staff |-> IF since[u] < TokenLife THEN since[u] + 1 ELSE TokenLife]
          /\ late' = {u \in late : power'[u] # Nobody}
          /\ value' = value
      BY <1>5 DEF TokensAge
    <2>2. /\ power' \in [Staff -> 0 .. TokenLife - 1 \cup {Nobody}]
          /\ since' \in [Staff -> 0 .. TokenLife] /\ late' \subseteq Staff
      BY <1>0, <2>1 DEF Privilege, Holds
    <2>3. ASSUME NEW u \in Staff \ late', Holds(u)', value'[u] = "lacked"
          PROVE  power'[u] >= since'[u]
      <3>1. Holds(u) /\ power'[u] = power[u] + 1 /\ power[u] + 1 < TokenLife /\ u \notin late
        BY <1>0, <2>1, <2>3 DEF Holds
      <3>2. power[u] >= since[u] /\ power[u] \in Nat /\ since[u] \in Nat
        BY <1>0, <2>1, <2>3, <3>1 DEF Privilege, RevocationBites, Holds
      <3>3. since'[u] = since[u] + 1
        BY <1>0, <2>1, <3>1, <3>2
      <3> QED
        BY <3>1, <3>2, <3>3
    <2> QED
      BY <2>2, <2>3 DEF Privilege, RevocationBites
  <1>6. CASE UNCHANGED trailVars
    BY <1>6, <1>s DEF trailVars, privilege
  <1> QED
    BY <1>1, <1>2, <1>3, <1>4, <1>5, <1>6 DEF TrailNext

TrailIndInv == TrailKept /\ Privilege

LEMMA TrailStarts == TrailInit => TrailKept /\ Privilege
  <1> SUFFICES ASSUME TrailInit PROVE TrailKept /\ Privilege
    OBVIOUS
  <1>1. Resting.at = "idle"
    BY DEF Resting
  <1>2. /\ \A t \in Things : value[t] \in Values(t)
        /\ value \in [Things -> AllValues]
    <2>1. \A t \in Things : value[t] = CASE t = "status" -> "active"
                                          [] t = "exception" -> Nobody
                                          [] OTHER -> "lacked"
      BY DEF TrailInit
    <2>2. /\ value["status"] = "active" /\ value["exception"] = Nobody
          /\ \A u \in Staff : value[u] = "lacked"
      BY <2>1, ValuesAre, TrailAssumption
    <2>3. \A t \in Things : value[t] \in Values(t)
      BY <2>2, ValuesAre DEF Things
    <2> QED
      BY <2>3, ValuesAre DEF TrailInit
  <1>3. /\ act \in [Acts -> ActRecord] /\ \A a \in Acts : act[a].at = "idle"
    BY <1>1, ValuesAre DEF TrailInit
  <1>4. TrailTypes /\ TrailShapes
    BY <1>2, <1>3, TrailAssumption DEF TrailInit, TrailTypes, TrailShapes
  <1>5. ActsKnow /\ EntriesTell /\ ToldOnce
    BY <1>3 DEF TrailInit, ActsKnow, EntriesTell, ToldOnce, Stands
  <1>6. Privilege
    BY TrailAssumption DEF TrailInit, Privilege, RevocationBites, Holds
  <1> QED
    BY <1>4, <1>5, <1>6 DEF TrailKept

LEMMA TrailKeptMeans == TrailKept /\ Privilege => TrailInv
  <1> SUFFICES ASSUME TrailKept, Privilege PROVE TrailInv
    OBVIOUS
  <1>1. TrailTypeOK
    <2>1. Len(trail) <= Len(changes)
      BY TrailIsShorter DEF TrailKept
    <2>2. lost \subseteq 1 .. ChangesMax
      BY TrailAssumption DEF TrailKept, TrailTypes, TrailShapes
    <2> QED
      BY <2>1, <2>2 DEF TrailTypeOK, TrailKept, TrailTypes, ActRecord, Privilege
  <1>2. EntriesAreTrue
    BY DEF EntriesAreTrue, TrailKept, EntriesTell, Tells
  <1>3. ChangesAreRecorded
    <2> SUFFICES ASSUME NEW n \in DOMAIN changes
                 PROVE  /\ Cardinality(Indices(n)) <= 1
                        /\ Indices(n) # {} <=> ~Recording(n) /\ n \notin lost
      BY DEF ChangesAreRecorded
    <2>1. \A i, j \in Indices(n) : i = j
      BY DEF Indices, TrailKept, ToldOnce
    <2>2. Cardinality(Indices(n)) <= 1
      <3>1. CASE Indices(n) = {}
        BY <3>1, FS_EmptySet
      <3>2. ASSUME NEW i \in Indices(n) PROVE Cardinality(Indices(n)) <= 1
        <4>1. Indices(n) = {i}
          BY <2>1, <3>2
        <4>2. Cardinality({i}) = 1
          BY FS_Singleton
        <4> QED
          BY <4>1, <4>2
      <3> QED
        BY <3>1, <3>2
    <2>3. Indices(n) # {} <=> \E i \in DOMAIN trail : trail[i].n = n
      BY DEF Indices
    <2> QED
      BY <2>2, <2>3 DEF TrailKept, ToldOnce
  <1> QED
    BY <1>1, <1>2, <1>3 DEF TrailInv, Privilege

\* An entry of platform.admin_audit tells its change as it was made, by whom
\* and from what (only an exception's old value may be one replaced meanwhile);
\* a change has one entry, or its request is about to write it or died; and a
\* revocation is over with the tokens minted before it
\* (repositories/tenants.py:422, routers/admin.py:7, grant_platform_admin.py:27-31).
THEOREM TrailTells == TrailSpec => []TrailInv
  <1>1. TrailInit => TrailIndInv
    BY TrailStarts DEF TrailIndInv
  <1>2. TrailIndInv /\ [TrailNext]_trailVars => TrailIndInv'
    BY TrailNextKeeps, PrivilegeNext DEF TrailIndInv
  <1>3. TrailIndInv => TrailInv
    BY TrailKeptMeans DEF TrailIndInv
  <1> QED
    BY <1>1, <1>2, <1>3, PTL DEF TrailSpec

-----------------------------------------------------------------------------
\* Sets of numbers have a least member.
LEMMA LeastNumber ==
  ASSUME NEW S, S \subseteq Nat, S # {}
  PROVE  \E m \in S : \A y \in S : m <= y
<1> DEFINE R == OpToRel(<, Nat)
<1>1. IsWellFoundedOn(R, Nat)
  BY NatLessThanWellFounded
<1> HIDE DEF R
<1>2. \E x \in S : \A y \in S : ~ (<<y, x>> \in R)
  BY <1>1, WFMin
<1>3. \E x \in S : \A y \in S : ~ (y < x)
  BY <1>2 DEF OpToRel, R
<1> QED BY <1>3

-----------------------------------------------------------------------------
\* The pages of a list, one after the other.  FlattenSeq takes them from a
\* function that is defined by recursion; there is one, and it goes on as far
\* as there are pages.
Flat(f, s, n) == f = [i \in 1 .. n |-> IF i = 1 THEN s[i] ELSE f[i - 1] \o s[i]]

LEMMA FlatExists ==
  ASSUME NEW s, NEW n \in Nat PROVE \E f : Flat(f, s, n)
<1> SUFFICES ASSUME ~\E f : Flat(f, s, n) PROVE FALSE
  OBVIOUS
<1> DEFINE N == {k \in Nat : ~\E f : Flat(f, s, k)}
<1>1. PICK k \in N : \A l \in N : k <= l
  <2>1. N \subseteq Nat /\ N # {}
    OBVIOUS
  <2> HIDE DEF N
  <2> QED BY <2>1, LeastNumber
<1>2. CASE k = 0
  <2> DEFINE f == [i \in {} |-> <<>>]
  <2>1. f = [i \in 1 .. 0 |-> IF i = 1 THEN s[i] ELSE f[i - 1] \o s[i]]
    OBVIOUS
  <2> HIDE DEF f
  <2>2. Flat(f, s, 0)
    BY <2>1 DEF Flat
  <2> QED BY <1>1, <1>2, <2>2
<1>3. CASE k # 0
  <2>1. k - 1 \in Nat /\ ~(k - 1 \in N)
    BY <1>1, <1>3
  <2>2. PICK g : Flat(g, s, k - 1)
    BY <2>1
  <2> DEFINE f == [i \in 1 .. k |-> IF i = k THEN (IF k = 1 THEN s[k] ELSE g[k - 1] \o s[k]) ELSE g[i]]
  <2>3. \A i \in 1 .. k - 1 : f[i] = g[i] /\ g[i] = IF i = 1 THEN s[i] ELSE g[i - 1] \o s[i]
    <3> SUFFICES ASSUME NEW i \in 1 .. k - 1
                 PROVE  f[i] = g[i] /\ g[i] = IF i = 1 THEN s[i] ELSE g[i - 1] \o s[i]
      OBVIOUS
    <3>1. k \in Nat /\ i \in 1 .. k /\ i # k
      BY <1>1
    <3>2. f[i] = g[i]
      BY <3>1
    <3> HIDE DEF f, N
    <3>3. g[i] = IF i = 1 THEN s[i] ELSE g[i - 1] \o s[i]
      BY <2>2 DEF Flat
    <3> QED BY <3>2, <3>3
  <2>4. \A i \in 1 .. k : f[i] = IF i = 1 THEN s[i] ELSE f[i - 1] \o s[i]
    <3> SUFFICES ASSUME NEW i \in 1 .. k PROVE f[i] = IF i = 1 THEN s[i] ELSE f[i - 1] \o s[i]
      OBVIOUS
    <3>1. CASE i = k
      <4>1. CASE k = 1
        BY <3>1, <4>1
      <4>2. CASE k # 1
        <5>1. k - 1 \in 1 .. k - 1 /\ k \in 1 .. k
          BY <1>1, <1>3, <4>2
        <5>2. f[k - 1] = g[k - 1]
          BY <2>3, <5>1
        <5>3. f[k] = g[k - 1] \o s[k]
          BY <4>2, <5>1
        <5> QED BY <3>1, <4>2, <5>2, <5>3
      <4> QED BY <4>1, <4>2
    <3>2. CASE i # k
      <4>1. i \in 1 .. k - 1
        BY <1>1, <3>2
      <4>2. i # 1 => i - 1 \in 1 .. k - 1
        BY <1>1, <4>1
      <4>3. i # 1 => f[i - 1] = g[i - 1]
        BY <2>3, <4>2
      <4> HIDE DEF f
      <4> QED BY <2>3, <4>1, <4>3
    <3> QED BY <3>1, <3>2
  <2>5. f = [i \in 1 .. k |-> f[i]]
    OBVIOUS
  <2> HIDE DEF f
  <2>6. Flat(f, s, k)
    BY <2>4, <2>5 DEF Flat
  <2> QED BY <1>1, <2>6
<1> QED BY <1>2, <1>3

\* What it is of the first pages does not depend on what follows.
LEMMA FlatIsOne ==
  ASSUME NEW s, NEW t, NEW n \in Nat, NEW m \in Nat, n <= m, NEW f, NEW g,
         Flat(f, s, n), Flat(g, t, m), \A i \in 1 .. n : s[i] = t[i]
  PROVE  \A i \in 1 .. n : f[i] = g[i]
<1> SUFFICES ASSUME NEW j \in 1 .. n, f[j] # g[j] PROVE FALSE
  OBVIOUS
<1> DEFINE N == {k \in Nat : k \in 1 .. n /\ f[k] # g[k]}
<1>1. PICK k \in N : \A l \in N : k <= l
  <2>1. N \subseteq Nat /\ j \in N
    OBVIOUS
  <2> HIDE DEF N
  <2> QED BY <2>1, LeastNumber
<1>2. k \in 1 .. n /\ k \in 1 .. m /\ f[k] # g[k]
  BY <1>1
<1>3. /\ f[k] = IF k = 1 THEN s[k] ELSE f[k - 1] \o s[k]
      /\ g[k] = IF k = 1 THEN t[k] ELSE g[k - 1] \o t[k]
  BY <1>2 DEF Flat
<1>4. k # 1
  BY <1>2, <1>3
<1>5. k - 1 \in 1 .. n /\ ~(k - 1 \in N)
  BY <1>1, <1>2, <1>4
<1>6. f[k - 1] = g[k - 1]
  BY <1>5
<1> QED BY <1>2, <1>3, <1>4, <1>6

LEMMA FlatIsSeq ==
  ASSUME NEW S, NEW s, NEW n \in Nat, \A i \in 1 .. n : s[i] \in Seq(S), NEW f, Flat(f, s, n)
  PROVE  \A i \in 1 .. n : f[i] \in Seq(S)
<1> SUFFICES ASSUME NEW j \in 1 .. n, f[j] \notin Seq(S) PROVE FALSE
  OBVIOUS
<1> DEFINE N == {k \in Nat : k \in 1 .. n /\ f[k] \notin Seq(S)}
<1>1. PICK k \in N : \A l \in N : k <= l
  <2>1. N \subseteq Nat /\ j \in N
    OBVIOUS
  <2> HIDE DEF N
  <2> QED BY <2>1, LeastNumber
<1>2. k \in 1 .. n /\ f[k] \notin Seq(S)
  BY <1>1
<1>3. f[k] = IF k = 1 THEN s[k] ELSE f[k - 1] \o s[k]
  BY <1>2 DEF Flat
<1>4. k # 1
  BY <1>2, <1>3
<1>5. k - 1 \in 1 .. n /\ ~(k - 1 \in N)
  BY <1>1, <1>2, <1>4
<1>6. f[k - 1] \in Seq(S) /\ s[k] \in Seq(S)
  BY <1>2, <1>5
<1>7. f[k - 1] \o s[k] \in Seq(S)
  BY <1>6
<1> QED BY <1>2, <1>3, <1>4, <1>7

LEMMA FlattenIs ==
  ASSUME NEW s, Len(s) \in Nat \ {0}
  PROVE  \E f : Flat(f, s, Len(s)) /\ FlattenSeq(s) = f[Len(s)]
<1> DEFINE f == CHOOSE f : f = [i \in 1 .. Len(s) |-> IF i = 1 THEN s[i] ELSE f[i - 1] \o s[i]]
<1>1. \E g : g = [i \in 1 .. Len(s) |-> IF i = 1 THEN s[i] ELSE g[i - 1] \o s[i]]
  BY FlatExists DEF Flat
<1>2. f = [i \in 1 .. Len(s) |-> IF i = 1 THEN s[i] ELSE f[i - 1] \o s[i]]
  BY <1>1
<1>3. FlattenSeq(s) = f[Len(s)]
  BY DEF FlattenSeq
<1> HIDE DEF f
<1> QED BY <1>2, <1>3 DEF Flat

LEMMA FlattenNone == FlattenSeq(<<>>) = <<>>
BY DEF FlattenSeq

Follows(g, m, f, n, t) == g[m] = f[n] \o t[m]

LEMMA FlatOneMore ==
  ASSUME NEW s, NEW t, NEW m \in Nat, NEW n \in 1 .. m, \A i \in 1 .. n : s[i] = t[i],
         NEW f, NEW g, Flat(f, s, n), Flat(g, t, m), m = n + 1
  PROVE  Follows(g, m, f, n, t)
<1>1. n \in Nat /\ n <= m
  OBVIOUS
<1>2. f[n] = g[n]
  BY <1>1, FlatIsOne
<1>3. \A i \in 1 .. m : g[i] = IF i = 1 THEN t[i] ELSE g[i - 1] \o t[i]
  BY DEF Flat
<1>4. m \in 1 .. m /\ m # 1 /\ m - 1 = n
  OBVIOUS
<1> HIDE DEF Flat
<1> QED BY <1>2, <1>3, <1>4 DEF Follows

LEMMA FlattenOneMore ==
  ASSUME NEW S, NEW s \in Seq(Seq(S)), NEW e \in Seq(S)
  PROVE  FlattenSeq(Append(s, e)) = FlattenSeq(s) \o e /\ FlattenSeq(s) \in Seq(S)
<1> DEFINE n == Len(s)
           t == Append(s, e)
<1>1. n \in Nat /\ Len(t) = n + 1 /\ t[n + 1] = e /\ \A i \in 1 .. n : t[i] = s[i] /\ s[i] \in Seq(S)
  OBVIOUS
<1>a. PICK g : Flat(g, t, n + 1) /\ FlattenSeq(t) = g[n + 1]
  <2> HIDE DEF t, n
  <2>1. Len(t) \in Nat \ {0}
    BY <1>1
  <2>2. \E g : Flat(g, t, Len(t)) /\ FlattenSeq(t) = g[Len(t)]
    BY <2>1, FlattenIs
  <2> QED BY <1>1, <2>2
<1>2. CASE n = 0
  <2>1. s = <<>>
    BY <1>2
  <2>2. FlattenSeq(s) = <<>>
    BY <2>1, FlattenNone
  <2> HIDE DEF t, n
  <2>3. 1 \in 1 .. n + 1 /\ n + 1 = 1
    BY <1>2
  <2>4. FlattenSeq(t) = e
    BY <1>1, <1>a, <2>3 DEF Flat
  <2>5. <<>> \o e = e
    OBVIOUS
  <2> QED BY <2>2, <2>4, <2>5 DEF t
<1>3. CASE n # 0
  <2>1. PICK f : Flat(f, s, n) /\ FlattenSeq(s) = f[n]
    BY <1>1, <1>3, FlattenIs
  <2> HIDE DEF t, n
  <2>4. n \in 1 .. n /\ n \in 1 .. n + 1 /\ \A i \in 1 .. n : s[i] = t[i]
    BY <1>1, <1>3
  <2>5. g[n + 1] = f[n] \o t[n + 1]
    <3> DEFINE m == n + 1
    <3>1. m \in Nat /\ n \in 1 .. m /\ m = n + 1
      BY <2>4, <1>1
    <3>2. Flat(g, t, m) /\ Flat(f, s, n) /\ \A i \in 1 .. n : s[i] = t[i]
      BY <1>a, <2>1, <2>4
    <3> HIDE DEF m
    <3>3. Follows(g, m, f, n, t)
      BY <3>1, <3>2, FlatOneMore
    <3> QED BY <3>1, <3>3 DEF Follows
  <2>6. f[n] \in Seq(S)
    BY <1>1, <2>1, <2>4, FlatIsSeq
  <2> QED BY <1>1, <1>a, <2>1, <2>5, <2>6 DEF t
<1> QED BY <1>2, <1>3

-----------------------------------------------------------------------------
\* Where a row stands in the list: behind as many rows as are above it.
Ahead(i) == {j \in Selected : Above(j, i)}
Standing(i) == Cardinality(Ahead(i))

Kept == {i \in Selected : i \notin changed}
Has(s, i) == \E n \in DOMAIN s : s[n] = i
Distinct(s) == \A m, n \in DOMAIN s : m # n => s[m] # s[n]
HasTwice(s, i) == \E m, n \in DOMAIN s : m < n /\ s[m] = i /\ s[n] = i

\* The rows that were shown twice, or were shown and stand where the next pages
\* are to begin or behind; and those that were not shown and now stand before.
Pushed == {i \in Kept : HasTwice(Shown, i) \/ (Has(Shown, i) /\ Standing(i) >= Offset)}
Pulled == {i \in Kept : ~Has(Shown, i) /\ Standing(i) < Offset}

ListShape ==
  /\ ListingTypeOK
  /\ table \in {"jobs", "tenants", "matches", "catalogue"}
  /\ pages \in Seq(Seq(Rows)) /\ window \in Nat /\ left \in Nat /\ came \in Nat
  /\ table = "catalogue" => window = RowCount
  /\ reading = "ask" => pages = <<>> /\ changed = {} /\ left = 0 /\ came = 0
  /\ reading \in {"count", "done"} => pages # <<>>

PagesFit == Len(Shown) <= Offset /\ Len(Shown) <= window
RepeatsAreFew == reading # "ask" => Cardinality(Pushed) <= came
MissesAreFew == reading # "ask" /\ window >= RowCount => Cardinality(Pulled) <= left

\* How far the pages go in a list that has n rows.
Reached(n) == IF Offset < window THEN (IF Offset < n THEN Offset ELSE n)
              ELSE IF window < n THEN window ELSE n

ShownInOrder ==
  changed = {} /\ pages # <<>> =>
    \E q \in Sorted(Selected) : Shown = SubSeq(q, 1, Reached(Len(q)))

ReadToTheEnd == reading = "done" /\ Selected \subseteq Counted => Cardinality(Selected) <= Offset

ListIndInv ==
  ListShape /\ PagesFit /\ RepeatsAreFew /\ MissesAreFew /\ ShownInOrder /\ ReadToTheEnd

-----------------------------------------------------------------------------
LEMMA SelectedIsFinite ==
  /\ Selected \subseteq Rows /\ IsFiniteSet(Selected) /\ Cardinality(Selected) \in Nat
  /\ Cardinality(Selected) <= RowCount
  /\ \A i : Ahead(i) \subseteq Selected /\ IsFiniteSet(Ahead(i)) /\ Standing(i) \in Nat
<1>1. RowCount \in Nat \ {0}
  BY ListingAssumption
<1>2. IsFiniteSet(Rows) /\ Cardinality(Rows) = RowCount
  <2>1. 1 \in Int /\ RowCount \in Int /\ ~(1 > RowCount) /\ RowCount - 1 + 1 = RowCount
    BY <1>1
  <2> QED BY <2>1, FS_Interval DEF Rows
<1>3. Selected \in SUBSET Rows
  BY DEF Selected
<1>4. IsFiniteSet(Selected) /\ Cardinality(Selected) <= RowCount
  BY <1>2, <1>3, FS_Subset
<1>5. Cardinality(Selected) \in Nat
  BY <1>4, FS_CardinalityType
<1>6. ASSUME NEW i PROVE Ahead(i) \subseteq Selected /\ IsFiniteSet(Ahead(i)) /\ Standing(i) \in Nat
  <2>1. Ahead(i) \in SUBSET Selected
    BY DEF Ahead
  <2>2. IsFiniteSet(Ahead(i))
    BY <1>4, <2>1, FS_Subset
  <2> QED BY <2>1, <2>2, FS_CardinalityType DEF Standing
<1> QED BY <1>3, <1>4, <1>5, <1>6

\* What the order compares has its type.
LEMMA ScoresAreNumbers ==
  ASSUME ListShape, ~Aged, NEW i \in Selected
  PROVE  row[i].score \in Nat
<1>1. table \in {"matches", "catalogue"}
  BY DEF ListShape, Aged
<1>2. i \in Rows /\ row[i] # NoRow
  BY DEF Selected, Matching
<1>3. row[i] \in States(table)
  BY <1>2 DEF ListShape, ListingTypeOK
<1>4. Scores \subseteq Nat
  BY ListingAssumption
<1>5. CASE table = "matches"
  <2>1. States(table) = MatchStates
    BY <1>5 DEF States
  <2>2. row[i] \in MatchStates
    BY <1>3, <2>1
  <2>3. row[i].score \in Scores
    BY <2>2 DEF MatchStates
  <2> QED BY <1>4, <2>3
<1>6. CASE table = "catalogue"
  <2>1. States(table) = OfferStates
    BY <1>6 DEF States
  <2>2. row[i] \in OfferStates
    BY <1>3, <2>1
  <2>3. row[i].score \in Scores
    BY <2>2 DEF OfferStates
  <2> QED BY <1>4, <2>3
<1> QED BY <1>1, <1>5, <1>6

\* A list has one order: no two of its rows are tied.
LEMMA OrderIsTotal ==
  ASSUME ListShape, NEW i \in Selected, NEW j \in Selected, NEW k \in Selected
  PROVE  /\ ~Above(i, i)
         /\ i # j => Above(i, j) \/ Above(j, i)
         /\ Above(i, j) /\ Above(j, k) => Above(i, k)
<1>1. i \in Nat /\ j \in Nat /\ k \in Nat
  BY ListingAssumption DEF Selected, Rows
<1>2. CASE Aged
  BY <1>1, <1>2 DEF Above
<1>3. CASE ~Aged
  <2>1. row[i].score \in Nat /\ row[j].score \in Nat /\ row[k].score \in Nat
    BY <1>3, ScoresAreNumbers
  <2> QED BY <1>1, <1>3, <2>1 DEF Above
<1> QED BY <1>2, <1>3

\* A row that is above another one stands before it.
LEMMA AboveStandsBefore ==
  ASSUME ListShape, NEW i \in Selected, NEW j \in Selected, Above(i, j)
  PROVE  Standing(i) < Standing(j)
<1>1. Ahead(i) \subseteq Ahead(j) \ {i}
  <2> SUFFICES ASSUME NEW k \in Ahead(i) PROVE k \in Ahead(j) /\ k # i
    OBVIOUS
  <2>1. k \in Selected /\ Above(k, i)
    BY DEF Ahead
  <2> QED BY <2>1, OrderIsTotal DEF Ahead
<1>2. i \in Ahead(j) /\ IsFiniteSet(Ahead(j))
  BY SelectedIsFinite DEF Ahead
<1>3. IsFiniteSet(Ahead(j) \ {i}) /\ Cardinality(Ahead(j) \ {i}) = Cardinality(Ahead(j)) - 1
  BY <1>2, FS_RemoveElement
<1>4. Ahead(i) \in SUBSET (Ahead(j) \ {i})
  BY <1>1
<1>5. Cardinality(Ahead(i)) <= Cardinality(Ahead(j) \ {i})
  BY <1>3, <1>4, FS_Subset
<1> QED BY <1>3, <1>5, SelectedIsFinite DEF Standing

LEMMA StandingsDiffer ==
  ASSUME ListShape, NEW i \in Selected, NEW j \in Selected, Standing(i) = Standing(j)
  PROVE  i = j
<1> SUFFICES ASSUME i # j PROVE FALSE
  OBVIOUS
<1>1. Above(i, j) \/ Above(j, i)
  BY OrderIsTotal
<1>2. Standing(i) < Standing(j) \/ Standing(j) < Standing(i)
  BY <1>1, AboveStandsBefore
<1>3. Standing(i) \in Nat /\ Standing(j) \in Nat
  BY SelectedIsFinite
<1> QED BY <1>2, <1>3

\* The rows as they are sorted: each where it stands.
LEMMA SortedByStanding ==
  ASSUME ListShape, NEW q \in Sorted(Selected)
  PROVE  /\ q \in Seq(Rows) /\ Len(q) = Cardinality(Selected)
         /\ \A a \in 1 .. Len(q) : q[a] \in Selected /\ Standing(q[a]) = a - 1
         /\ \A i \in Selected : Standing(i) + 1 \in 1 .. Len(q) /\ q[Standing(i) + 1] = i
<1> DEFINE N == Cardinality(Selected)
<1>1. N \in Nat /\ IsFiniteSet(Selected) /\ Selected \subseteq Rows
  BY SelectedIsFinite
<1>2. /\ q \in [1 .. N -> Selected]
      /\ \A a, b \in 1 .. N : a # b => q[a] # q[b]
      /\ \A a, b \in 1 .. N : a < b => ~Above(q[b], q[a])
  <2>1. q \in SetToSeqs(Selected) /\ \A a, b \in DOMAIN q : a < b => ~Above(q[b], q[a])
    BY DEF Sorted
  <2>2. q \in [1 .. N -> Selected] /\ \A a, b \in 1 .. N : a # b => q[a] # q[b]
    BY <2>1 DEF SetToSeqs
  <2> QED BY <2>1, <2>2
<1> HIDE DEF N
<1>3. q \in Seq(Rows) /\ Len(q) = N
  <2>1. q \in [1 .. N -> Rows]
    BY <1>1, <1>2
  <2> QED BY <1>1, <2>1
<1>4. \A i \in Selected : \E a \in 1 .. N : q[a] = i
  <2>1. q \in Injection(1 .. N, Selected)
    BY <1>2, Fun_IsInj
  <2>2. IsFiniteSet(1 .. N) /\ Cardinality(1 .. N) = N
    <3>1. 1 \in Int /\ N \in Int /\ (IF 1 > N THEN 0 ELSE N - 1 + 1) = N
      BY <1>1
    <3> QED BY <3>1, FS_Interval
  <2>3. q \in Surjection(1 .. N, Selected)
    BY <1>1, <2>1, <2>2, FS_Injection DEF N
  <2> QED BY <2>3 DEF Surjection
<1>5. ASSUME NEW a \in 1 .. N PROVE q[a] \in Selected /\ Standing(q[a]) = a - 1
  <2>1. q[a] \in Selected /\ a - 1 \in Nat
    BY <1>1, <1>2
  <2> DEFINE f == [b \in 1 .. a - 1 |-> q[b]]
  <2>2. \A b \in 1 .. a - 1 : b \in 1 .. N /\ b < a /\ b # a
    BY <1>1
  <2>3. \A b \in 1 .. a - 1 : f[b] \in Ahead(q[a])
    <3> SUFFICES ASSUME NEW b \in 1 .. a - 1 PROVE q[b] \in Ahead(q[a])
      OBVIOUS
    <3>1. q[b] \in Selected /\ q[b] # q[a] /\ ~Above(q[a], q[b])
      BY <1>2, <2>2
    <3> QED BY <2>1, <3>1, OrderIsTotal DEF Ahead
  <2>4. \A j \in Ahead(q[a]) : \E b \in 1 .. a - 1 : f[b] = j
    <3> SUFFICES ASSUME NEW j \in Ahead(q[a]) PROVE \E b \in 1 .. a - 1 : q[b] = j
      OBVIOUS
    <3>1. j \in Selected /\ Above(j, q[a])
      BY DEF Ahead
    <3>2. PICK b \in 1 .. N : q[b] = j
      BY <1>4, <3>1
    <3>3. b # a
      BY <2>1, <3>1, <3>2, OrderIsTotal
    <3>4. ~(a < b)
      BY <1>2, <3>1, <3>2
    <3>5. b \in 1 .. a - 1
      BY <1>1, <3>3, <3>4
    <3> QED BY <3>2, <3>5
  <2>5. \A b, c \in 1 .. a - 1 : b # c => f[b] # f[c]
    BY <1>2, <2>2
  <2>6. f \in [1 .. a - 1 -> Ahead(q[a])]
    BY <2>3
  <2> HIDE DEF f
  <2>7. f \in Bijection(1 .. a - 1, Ahead(q[a]))
    BY <2>4, <2>5, <2>6, Fun_IsBij
  <2>8. ExistsBijection(1 .. a - 1, Ahead(q[a]))
    BY <2>7 DEF ExistsBijection
  <2>9. Cardinality(Ahead(q[a])) = a - 1
    BY <2>1, <2>8, FS_CountingElements
  <2> QED BY <2>1, <2>9 DEF Standing
<1>6. ASSUME NEW i \in Selected PROVE Standing(i) + 1 \in 1 .. N /\ q[Standing(i) + 1] = i
  <2>1. PICK a \in 1 .. N : q[a] = i
    BY <1>4
  <2>2. Standing(i) = a - 1
    BY <1>5, <2>1
  <2>3. Standing(i) + 1 = a
    BY <1>1, <2>2
  <2> QED BY <2>1, <2>3
<1> QED BY <1>3, <1>5, <1>6 DEF N

LEMMA SortedIsOne ==
  ASSUME ListShape, NEW q \in Sorted(Selected), NEW r \in Sorted(Selected)
  PROVE  q = r
<1>1. /\ q \in Seq(Rows) /\ r \in Seq(Rows) /\ Len(q) = Len(r)
      /\ \A a \in 1 .. Len(q) : q[a] \in Selected /\ Standing(q[a]) = a - 1
      /\ \A i \in Selected : r[Standing(i) + 1] = i
  BY SortedByStanding
<1>2. \A a \in 1 .. Len(q) : q[a] = r[a]
  <2> SUFFICES ASSUME NEW a \in 1 .. Len(q) PROVE q[a] = r[a]
    OBVIOUS
  <2>1. q[a] \in Selected /\ Standing(q[a]) = a - 1
    BY <1>1
  <2>2. Standing(q[a]) + 1 = a
    BY <1>1, <2>1
  <2>3. r[Standing(q[a]) + 1] = q[a]
    BY <1>1, <2>1
  <2> QED BY <2>2, <2>3
<1> QED BY <1>1, <1>2

-----------------------------------------------------------------------------
\* What two sequences have, one behind the other.
LEMMA HasEither ==
  ASSUME NEW S, NEW s \in Seq(S), NEW p \in Seq(S), NEW i
  PROVE  Has(s \o p, i) <=> Has(s, i) \/ Has(p, i)
<1>1. /\ Len(s) \in Nat /\ Len(p) \in Nat /\ DOMAIN s = 1 .. Len(s) /\ DOMAIN p = 1 .. Len(p)
      /\ DOMAIN (s \o p) = 1 .. Len(s) + Len(p)
      /\ \A n \in 1 .. Len(s) + Len(p) : (s \o p)[n] = IF n <= Len(s) THEN s[n] ELSE p[n - Len(s)]
  OBVIOUS
<1> DEFINE r == s \o p
<1> HIDE DEF r
<1>2. ASSUME Has(r, i) PROVE Has(s, i) \/ Has(p, i)
  <2>1. PICK n \in 1 .. Len(s) + Len(p) : r[n] = i
    BY <1>1, <1>2 DEF Has, r
  <2>2. CASE n <= Len(s)
    BY <1>1, <2>1, <2>2 DEF Has, r
  <2>3. CASE ~(n <= Len(s))
    <3>1. n - Len(s) \in 1 .. Len(p) /\ p[n - Len(s)] = i
      BY <1>1, <2>1, <2>3 DEF r
    <3> QED BY <1>1, <3>1 DEF Has
  <2> QED BY <2>2, <2>3
<1>3. ASSUME Has(s, i) PROVE Has(r, i)
  <2>1. PICK n \in 1 .. Len(s) : s[n] = i
    BY <1>1, <1>3 DEF Has
  <2>2. n \in 1 .. Len(s) + Len(p) /\ r[n] = i
    BY <1>1, <2>1 DEF r
  <2> QED BY <1>1, <2>2 DEF Has, r
<1>4. ASSUME Has(p, i) PROVE Has(r, i)
  <2>1. PICK n \in 1 .. Len(p) : p[n] = i
    BY <1>1, <1>4 DEF Has
  <2>2. n + Len(s) \in 1 .. Len(s) + Len(p) /\ ~(n + Len(s) <= Len(s)) /\ n + Len(s) - Len(s) = n
    BY <1>1, <2>1
  <2>3. r[n + Len(s)] = i
    BY <1>1, <2>1, <2>2 DEF r
  <2> QED BY <1>1, <2>2, <2>3 DEF Has, r
<1> QED BY <1>2, <1>3, <1>4 DEF r

LEMMA HasTwiceThen ==
  ASSUME NEW S, NEW s \in Seq(S), NEW p \in Seq(S), NEW i,
         Distinct(p), HasTwice(s \o p, i)
  PROVE  HasTwice(s, i) \/ (Has(s, i) /\ Has(p, i))
<1>1. /\ Len(s) \in Nat /\ Len(p) \in Nat /\ DOMAIN s = 1 .. Len(s) /\ DOMAIN p = 1 .. Len(p)
      /\ DOMAIN (s \o p) = 1 .. Len(s) + Len(p)
      /\ \A n \in 1 .. Len(s) + Len(p) : (s \o p)[n] = IF n <= Len(s) THEN s[n] ELSE p[n - Len(s)]
  OBVIOUS
<1>2. PICK m, n \in DOMAIN (s \o p) : m < n /\ (s \o p)[m] = i /\ (s \o p)[n] = i
  BY DEF HasTwice
<1>3. m \in 1 .. Len(s) + Len(p) /\ n \in 1 .. Len(s) + Len(p)
  BY <1>1, <1>2
<1>4. CASE n <= Len(s)
  <2>1. m \in 1 .. Len(s) /\ n \in 1 .. Len(s) /\ s[m] = i /\ s[n] = i
    BY <1>1, <1>2, <1>3, <1>4
  <2> QED BY <1>1, <1>2, <2>1 DEF HasTwice
<1>5. CASE ~(n <= Len(s))
  <2>1. n - Len(s) \in 1 .. Len(p) /\ p[n - Len(s)] = i
    BY <1>1, <1>2, <1>3, <1>5
  <2>2. Has(p, i)
    BY <1>1, <2>1 DEF Has
  <2>3. CASE m <= Len(s)
    <3>1. m \in 1 .. Len(s) /\ s[m] = i
      BY <1>1, <1>2, <1>3, <2>3
    <3> QED BY <1>1, <2>2, <3>1 DEF Has
  <2>4. CASE ~(m <= Len(s))
    <3>1. /\ m - Len(s) \in 1 .. Len(p) /\ p[m - Len(s)] = i
          /\ m - Len(s) # n - Len(s)
      BY <1>1, <1>2, <1>3, <2>4
    <3> QED BY <1>1, <2>1, <3>1 DEF Distinct
  <2> QED BY <2>3, <2>4
<1> QED BY <1>4, <1>5

\* A part of a sequence and the next part.
LEMMA PartsJoin ==
  ASSUME NEW S, NEW q \in Seq(S), NEW r \in Nat, NEW o \in Nat, NEW b \in Nat,
         b <= Len(q), r <= b, r = o \/ (b <= o /\ r = b)
  PROVE  SubSeq(q, 1, r) \o SubSeq(q, o + 1, b) = SubSeq(q, 1, b)
<1> DEFINE s == SubSeq(q, 1, r)
           p == SubSeq(q, o + 1, b)
           t == SubSeq(q, 1, b)
<1>1. /\ Len(q) \in Nat /\ \A n \in 1 .. Len(q) : q[n] \in S
      /\ s \in Seq(S) /\ Len(s) = r /\ \A n \in 1 .. r : s[n] = q[n]
  OBVIOUS
<1>2. t \in Seq(S) /\ Len(t) = b /\ \A n \in 1 .. b : t[n] = q[n]
  OBVIOUS
<1>3. CASE b <= o
  <2>1. p = << >>
    BY <1>3
  <2>2. r = b
    BY <1>3
  <2> QED BY <1>1, <2>1, <2>2
<1>4. CASE ~(b <= o)
  <2>1. r = o /\ o < b /\ o + 1 \in 1 .. Len(q) + 1
    BY <1>1, <1>4
  <2>2. p \in Seq(S) /\ Len(p) = b - o /\ \A n \in 1 .. b - o : p[n] = q[o + n]
    <3>1. Len(p) = b - o /\ p \in Seq(S)
      BY <1>1, <2>1
    <3>2. \A n \in 1 .. b - o : p[n] = q[o + n]
      BY <1>1, <2>1
    <3> QED BY <3>1, <3>2
  <2> HIDE DEF s, p, t
  <2>3. s \o p \in Seq(S) /\ Len(s \o p) = b
    BY <1>1, <2>1, <2>2
  <2>4. \A n \in 1 .. b : (s \o p)[n] = t[n]
    <3> SUFFICES ASSUME NEW n \in 1 .. b PROVE (s \o p)[n] = t[n]
      OBVIOUS
    <3>1. CASE n <= o
      <4>1. n \in 1 .. r /\ n \in 1 .. Len(s) + Len(p) /\ n <= Len(s)
        BY <1>1, <2>1, <2>2, <3>1
      <4>2. (s \o p)[n] = s[n]
        BY <1>1, <2>2, <4>1
      <4> QED BY <1>1, <1>2, <4>1, <4>2
    <3>2. CASE ~(n <= o)
      <4>1. n - o \in 1 .. b - o /\ o + (n - o) = n
        BY <2>1, <3>2
      <4>2. (s \o p)[n] = p[n - o]
        BY <1>1, <2>1, <2>2, <3>2
      <4> QED BY <1>2, <2>2, <4>1, <4>2
    <3> QED BY <3>1, <3>2
  <2>5. s \o p = t
    BY <1>2, <2>3, <2>4
  <2> QED BY <2>5 DEF s, p, t
<1> QED BY <1>3, <1>4

-----------------------------------------------------------------------------
\* What a list is asked for and the table determine the list.
LEMMA SameRows ==
  ASSUME UNCHANGED <<table, row, filter>>
  PROVE  /\ Selected' = Selected /\ Counted' = Counted /\ Sorted(Selected)' = Sorted(Selected)
         /\ \A i : Ahead(i)' = Ahead(i) /\ Standing(i)' = Standing(i)
<1>1. \A i : Matching(i)' <=> Matching(i)
  BY DEF Matching, JobMatches, TenantMatches, MatchMatches, OfferMatches
<1>2. Selected' = Selected
  BY <1>1 DEF Selected
<1>3. Counted' = Counted
  BY <1>2 DEF Counted
<1>4. \A i, j : Above(i, j)' <=> Above(i, j)
  BY DEF Above, Aged
<1>5. \A i : Ahead(i)' = Ahead(i)
  BY <1>2, <1>4 DEF Ahead
<1>6. Sorted(Selected)' = Sorted(Selected)
  BY <1>2, <1>4 DEF Sorted
<1> QED BY <1>2, <1>3, <1>5, <1>6 DEF Standing

LEMMA Offsets ==
  ASSUME ListShape
  PROVE  /\ Offset \in Nat /\ PageLimit \in Nat \ {0} /\ RowCount \in Nat \ {0}
         /\ Len(pages) \in Nat /\ window \in Nat /\ PageEnd \in Nat
<1>1. PageLimit \in Nat \ {0} /\ RowCount \in Nat \ {0}
  BY ListingAssumption
<1>2. Len(pages) \in Nat /\ window \in Nat
  BY DEF ListShape
<1>3. Offset \in Nat
  BY <1>1, <1>2 DEF Offset
<1> QED BY <1>1, <1>2, <1>3 DEF PageEnd

LEMMA ShownIsSeq ==
  ASSUME ListShape
  PROVE  Shown \in Seq(Rows) /\ \A e \in Seq(Rows) : FlattenSeq(Append(pages, e)) = Shown \o e
<1>1. pages \in Seq(Seq(Rows))
  BY DEF ListShape
<1>2. <<>> \in Seq(Rows)
  OBVIOUS
<1>3. FlattenSeq(pages) \in Seq(Rows)
  BY <1>1, <1>2, FlattenOneMore
<1>4. ASSUME NEW e \in Seq(Rows) PROVE FlattenSeq(Append(pages, e)) = FlattenSeq(pages) \o e
  BY <1>1, FlattenOneMore
<1> QED BY <1>3, <1>4 DEF Shown

LEMMA PartIs ==
  ASSUME NEW S, NEW q \in Seq(S), NEW o \in Nat, NEW b \in Nat, b <= Len(q)
  PROVE  /\ o < b =>
              /\ SubSeq(q, o + 1, b) \in Seq(S) /\ Len(SubSeq(q, o + 1, b)) = b - o
              /\ \A n \in 1 .. b - o : SubSeq(q, o + 1, b)[n] = q[o + n]
         /\ ~(o < b) => SubSeq(q, o + 1, b) = << >>
<1>1. CASE o < b
  <2>1. /\ SubSeq(q, o + 1, b) \in Seq(S) /\ Len(SubSeq(q, o + 1, b)) = b - o
    BY <1>1
  <2>2. \A n \in 1 .. b - o : SubSeq(q, o + 1, b)[n] = q[o + n]
    BY <1>1
  <2> QED BY <1>1, <2>1, <2>2
<1>2. CASE ~(o < b)
  BY <1>2
<1> QED BY <1>1, <1>2

LEMMA DistinctIf ==
  ASSUME NEW s, NEW n, DOMAIN s = 1 .. n, \A i, j \in 1 .. n : i # j => s[i] # s[j]
  PROVE  Distinct(s)
BY DEF Distinct

\* Where a page ends in a list of n rows.
EndIn(n) == IF PageEnd < n THEN PageEnd ELSE n

LEMMA PageIs ==
  ASSUME ListShape, NEW q \in Sorted(Selected), NEW b, b = EndIn(Len(q)),
         NEW page, page = SubSeq(q, Offset + 1, b)
  PROVE  /\ b \in Nat /\ b <= Len(q) /\ b <= PageEnd
         /\ page \in Seq(Rows) /\ Len(page) = IF Offset < b THEN b - Offset ELSE 0
         /\ Len(page) <= PageLimit
         /\ Distinct(page)
         /\ \A i \in Selected : Has(page, i) <=> Offset <= Standing(i) /\ Standing(i) < b
<1>1. /\ q \in Seq(Rows) /\ Len(q) \in Nat
      /\ \A a \in 1 .. Len(q) : q[a] \in Selected /\ Standing(q[a]) = a - 1
      /\ \A i \in Selected : Standing(i) + 1 \in 1 .. Len(q) /\ q[Standing(i) + 1] = i
  BY SortedByStanding
<1>2. Offset \in Nat /\ PageLimit \in Nat /\ PageEnd \in Nat /\ PageEnd <= Offset + PageLimit
  BY Offsets DEF PageEnd
<1>3. b \in Nat /\ b <= Len(q) /\ b <= PageEnd
  BY <1>1, <1>2 DEF EndIn
<1> DEFINE o == Offset
<1>0. o \in Nat /\ page = SubSeq(q, o + 1, b)
  BY <1>2
<1> HIDE DEF o
<1>4. CASE o < b
  <2>1. /\ page \in Seq(Rows) /\ Len(page) = b - o
        /\ \A n \in 1 .. b - o : page[n] = q[o + n]
    <3>1. /\ SubSeq(q, o + 1, b) \in Seq(Rows) /\ Len(SubSeq(q, o + 1, b)) = b - o
          /\ \A n \in 1 .. b - o : SubSeq(q, o + 1, b)[n] = q[o + n]
      <4>1. q \in Seq(Rows) /\ o \in Nat /\ b \in Nat /\ b <= Len(q)
        BY <1>0, <1>1, <1>3
      <4> QED BY <1>4, <4>1, PartIs
    <3> QED BY <1>0, <3>1
  <2>2. \A n \in 1 .. b - o : o + n \in 1 .. Len(q) /\ o + n - 1 >= o /\ o + n - 1 < b
    BY <1>0, <1>1, <1>3
  <2>3. \A n \in 1 .. b - o : page[n] \in Selected /\ Standing(page[n]) = o + n - 1
    <3> SUFFICES ASSUME NEW n \in 1 .. b - o
                 PROVE  page[n] \in Selected /\ Standing(page[n]) = o + n - 1
      OBVIOUS
    <3>1. o + n \in 1 .. Len(q) /\ page[n] = q[o + n]
      BY <2>1, <2>2
    <3>2. q[o + n] \in Selected /\ Standing(q[o + n]) = o + n - 1
      BY <1>0, <1>1, <1>3, <3>1
    <3> QED BY <3>1, <3>2
  <2>4. DOMAIN page = 1 .. b - o
    BY <2>1
  <2>5. Distinct(page)
    <3>1. ASSUME NEW m \in 1 .. b - o, NEW n \in 1 .. b - o, m # n
          PROVE  page[m] # page[n]
      <4>1. Standing(page[m]) = o + m - 1 /\ Standing(page[n]) = o + n - 1
        BY <2>3
      <4>2. o + m - 1 # o + n - 1
        BY <1>0, <1>3, <3>1
      <4> QED BY <4>1, <4>2
    <3> DEFINE k == b - o
    <3>2. DOMAIN page = 1 .. k /\ \A m, n \in 1 .. k : m # n => page[m] # page[n]
      BY <2>4, <3>1
    <3> HIDE DEF k
    <3> QED BY <3>2, DistinctIf
  <2>6. ASSUME NEW i \in Selected, Has(page, i) PROVE o <= Standing(i) /\ Standing(i) < b
    BY <2>2, <2>3, <2>4, <2>6 DEF Has
  <2>7. ASSUME NEW i \in Selected, o <= Standing(i), Standing(i) < b PROVE Has(page, i)
    <3>1. Standing(i) \in Nat
      BY SelectedIsFinite
    <3> DEFINE n == Standing(i) + 1 - o
    <3>2. n \in 1 .. b - o /\ o + n = Standing(i) + 1
      BY <1>0, <1>3, <2>7, <3>1
    <3>3. page[n] = q[Standing(i) + 1]
      BY <2>1, <3>2
    <3>4. page[n] = i
      BY <1>1, <3>3
    <3> QED BY <2>4, <3>2, <3>4 DEF Has
  <2>8. b - o <= PageLimit
    BY <1>0, <1>2, <1>3 DEF o
  <2> QED BY <1>3, <1>4, <2>1, <2>5, <2>6, <2>7, <2>8 DEF o
<1>5. CASE ~(o < b)
  <2>1. page = <<>>
    BY <1>0, <1>1, <1>3, <1>5, PartIs
  <2>2. page \in Seq(Rows) /\ Len(page) = 0 /\ DOMAIN page = {}
    <3>1. << >> \in Seq(Rows) /\ Len(<< >>) = 0
      OBVIOUS
    <3>2. page \in Seq(Rows) /\ Len(page) = 0
      BY <2>1, <3>1
    <3>3. DOMAIN page = 1 .. 0
      BY <3>2
    <3> QED BY <3>2, <3>3
  <2>3. \A i \in Selected : ~Has(page, i) /\ ~(o <= Standing(i) /\ Standing(i) < b)
    BY <1>0, <1>3, <1>5, <2>2, SelectedIsFinite DEF Has
  <2> QED BY <1>2, <1>3, <1>5, <2>2, <2>3 DEF o, Distinct
<1> QED BY <1>4, <1>5

\* A page is read: what it is, and what it makes of the rest.
LEMMA PageRead ==
  ASSUME ListShape, ReadPage
  PROVE  \E q \in Sorted(Selected), b \in Nat, page \in Seq(Rows) :
           /\ b = EndIn(Len(q)) /\ page = SubSeq(q, Offset + 1, b)
           /\ pages' = Append(pages, page) /\ Shown' = Shown \o page
           /\ reading' = CASE table # "catalogue" -> "count"
                           [] table = "catalogue" /\ Len(page) = PageLimit -> "list"
                           [] OTHER -> "done"
<1>1. PICK q \in Sorted(Selected) :
        LET page == SubSeq(q, Offset + 1, IF PageEnd < Len(q) THEN PageEnd ELSE Len(q))
        IN /\ pages' = Append(pages, page)
           /\ reading' = CASE table # "catalogue" -> "count"
                           [] table = "catalogue" /\ Len(page) = PageLimit -> "list"
                           [] OTHER -> "done"
  BY DEF ReadPage
<1> DEFINE b == EndIn(Len(q))
           page == SubSeq(q, Offset + 1, b)
<1>2. b \in Nat /\ page \in Seq(Rows)
  BY PageIs
<1>3. /\ pages' = Append(pages, page)
      /\ reading' = CASE table # "catalogue" -> "count"
                      [] table = "catalogue" /\ Len(page) = PageLimit -> "list"
                      [] OTHER -> "done"
  BY <1>1 DEF EndIn
<1> HIDE DEF page
<1>4. Shown' = Shown \o page
  <2>1. Shown' = FlattenSeq(pages')
    BY DEF Shown
  <2> QED BY <1>2, <1>3, <2>1, ShownIsSeq
<1> QED BY <1>2, <1>3, <1>4 DEF page

LEMMA OffsetMoves ==
  ASSUME ListShape, ReadPage
  PROVE  /\ Offset' = Offset + PageLimit /\ Len(pages') = Len(pages) + 1
         /\ UNCHANGED <<table, row, filter, window, total, changed, left, came>>
<1>1. PICK q \in Sorted(Selected), b \in Nat, page \in Seq(Rows) : pages' = Append(pages, page)
  BY PageRead
<1>2. Len(pages') = Len(pages) + 1
  BY <1>1 DEF ListShape
<1>3. Offset' = PageLimit * (Len(pages) + 1)
  BY <1>2 DEF Offset
<1>4. PageLimit * (Len(pages) + 1) = PageLimit * Len(pages) + PageLimit
  BY Offsets
<1> QED BY <1>2, <1>3, <1>4 DEF Offset, ReadPage

-----------------------------------------------------------------------------
\* Reading a page.
LEMMA ReadPageShape ==
  ASSUME ListShape, ReadPage
  PROVE  ListShape'
<1>1. PICK q \in Sorted(Selected), b \in Nat, page \in Seq(Rows) :
        /\ b = EndIn(Len(q)) /\ page = SubSeq(q, Offset + 1, b)
        /\ pages' = Append(pages, page)
        /\ reading' = CASE table # "catalogue" -> "count"
                        [] table = "catalogue" /\ Len(page) = PageLimit -> "list"
                        [] OTHER -> "done"
  BY PageRead
<1>2. reading' \in {"list", "count", "done"}
  BY <1>1
<1>3. Len(page) <= PageLimit
  BY <1>1, PageIs
<1>4. pages' \in Seq(Seq(Rows)) /\ pages' # << >>
  <2>1. pages \in Seq(Seq(Rows))
    BY DEF ListShape
  <2>2. Append(pages, page) \in Seq(Seq(Rows)) /\ Append(pages, page) # << >>
    <3>1. Append(pages, page) \in Seq(Seq(Rows)) /\ Len(Append(pages, page)) = Len(pages) + 1
      BY <2>1
    <3>2. Len(pages) + 1 # 0 /\ Len(<< >>) = 0
      BY <2>1
    <3> QED BY <3>1, <3>2
  <2> QED BY <1>1, <2>2
<1>5. \A n \in DOMAIN pages' : pages'[n] \in Seq(Rows) /\ Len(pages'[n]) <= PageLimit
  <2> SUFFICES ASSUME NEW n \in DOMAIN pages'
               PROVE  pages'[n] \in Seq(Rows) /\ Len(pages'[n]) <= PageLimit
    OBVIOUS
  <2>1. /\ Len(pages) \in Nat /\ n \in 1 .. Len(pages) + 1
        /\ pages'[n] = IF n <= Len(pages) THEN pages[n] ELSE page
    BY <1>1 DEF ListShape
  <2>2. CASE n <= Len(pages)
    <3>1. n \in DOMAIN pages
      BY <2>1, <2>2 DEF ListShape
    <3> QED BY <2>1, <2>2, <3>1 DEF ListShape, ListingTypeOK
  <2>3. CASE ~(n <= Len(pages))
    BY <1>3, <2>1, <2>3
  <2> QED BY <2>2, <2>3
<1>6. UNCHANGED <<table, row, filter, window, total, changed, left, came>> /\ reading = "list"
  BY DEF ReadPage
<1>7. ListingTypeOK'
  <2>1. States(table)' = States(table)
    BY <1>6 DEF States, JobStates, TenantStates, MatchStates, OfferStates
  <2> QED BY <1>2, <1>5, <1>6, <2>1 DEF ListShape, ListingTypeOK
<1> QED BY <1>2, <1>4, <1>6, <1>7 DEF ListShape

LEMMA ReadPageFits ==
  ASSUME ListShape, PagesFit, ReadPage
  PROVE  PagesFit'
<1>1. PICK q \in Sorted(Selected), b \in Nat, page \in Seq(Rows) :
        b = EndIn(Len(q)) /\ page = SubSeq(q, Offset + 1, b) /\ Shown' = Shown \o page
  BY PageRead
<1>2. /\ b <= PageEnd /\ Len(page) = IF Offset < b THEN b - Offset ELSE 0
      /\ Len(page) <= PageLimit
  BY <1>1, PageIs
<1>3. Len(Shown') = Len(Shown) + Len(page) /\ Len(Shown) \in Nat
  BY <1>1, ShownIsSeq
<1>4. Offset' = Offset + PageLimit /\ window' = window
  BY OffsetMoves
<1>5. PageEnd <= window /\ Offset \in Nat /\ PageLimit \in Nat /\ window \in Nat /\ PageEnd \in Nat
  BY Offsets DEF PageEnd
<1> QED BY <1>2, <1>3, <1>4, <1>5 DEF PagesFit

\* No row is repeated that the rows have not pushed back already, and none is
\* left out that they have not pulled forward.
LEMMA ReadPageRepeats ==
  ASSUME ListShape, reading = "list", RepeatsAreFew, MissesAreFew, ReadPage
  PROVE  RepeatsAreFew' /\ MissesAreFew'
<1>1. PICK q \in Sorted(Selected), b \in Nat, page \in Seq(Rows) :
        b = EndIn(Len(q)) /\ page = SubSeq(q, Offset + 1, b) /\ Shown' = Shown \o page
  BY PageRead
<1>2. /\ b <= PageEnd
      /\ Distinct(page)
      /\ \A i \in Selected : Has(page, i) <=> Offset <= Standing(i) /\ Standing(i) < b
  <2>1. b <= PageEnd
    BY <1>1, PageIs
  <2>2. Distinct(page)
    BY <1>1, PageIs
  <2>3. \A i \in Selected : Has(page, i) <=> Offset <= Standing(i) /\ Standing(i) < b
    BY <1>1, PageIs
  <2> QED BY <2>1, <2>2, <2>3
<1>3. Offset' = Offset + PageLimit /\ UNCHANGED <<table, row, filter, window, changed, left, came>>
  BY OffsetMoves
<1>4. /\ Selected' = Selected /\ Kept' = Kept /\ Kept \subseteq Selected
      /\ \A i : Standing(i)' = Standing(i)
  BY <1>3, SameRows DEF Kept
<1>5. /\ \A i : Has(Shown, i)' <=> Has(Shown, i) \/ Has(page, i)
      /\ \A i : HasTwice(Shown, i)' => HasTwice(Shown, i) \/ (Has(Shown, i) /\ Has(page, i))
  <2>1. Shown \in Seq(Rows)
    BY ShownIsSeq
  <2>2. ASSUME NEW i
        PROVE  /\ Has(Shown \o page, i) <=> Has(Shown, i) \/ Has(page, i)
               /\ HasTwice(Shown \o page, i) => HasTwice(Shown, i) \/ (Has(Shown, i) /\ Has(page, i))
    BY <1>2, <2>1, HasEither, HasTwiceThen
  <2>3. \A i : (Has(Shown, i)' <=> Has(Shown \o page, i))
               /\ (HasTwice(Shown, i)' <=> HasTwice(Shown \o page, i))
    BY <1>1 DEF Has, HasTwice
  <2> QED BY <2>2, <2>3
<1>6. Offset \in Nat /\ PageLimit \in Nat /\ window \in Nat /\ PageEnd \in Nat /\ RowCount \in Nat
  BY Offsets
<1>7. \A i \in Selected : Standing(i) \in Nat
  BY SelectedIsFinite
<1>8. IsFiniteSet(Pushed) /\ IsFiniteSet(Pulled)
  <2>1. Pushed \in SUBSET Selected /\ Pulled \in SUBSET Selected
    BY DEF Pushed, Pulled, Kept
  <2> QED BY <2>1, SelectedIsFinite, FS_Subset
<1>9. Pushed' \subseteq Pushed
  <2> SUFFICES ASSUME NEW i \in Pushed' PROVE i \in Pushed
    OBVIOUS
  <2>1. /\ i \in Kept
        /\ HasTwice(Shown, i)' \/ (Has(Shown, i)' /\ Standing(i) >= Offset')
    BY <1>4 DEF Pushed
  <2>2. i \in Selected /\ Standing(i) \in Nat
    BY <1>4, <1>7, <2>1
  <2>3. CASE HasTwice(Shown, i)'
    <3>1. HasTwice(Shown, i) \/ (Has(Shown, i) /\ Standing(i) >= Offset)
      BY <1>2, <1>5, <1>6, <2>2, <2>3
    <3> QED BY <2>1, <3>1 DEF Pushed
  <2>4. CASE Has(Shown, i)' /\ Standing(i) >= Offset'
    <3>1. Standing(i) >= Offset /\ ~(Standing(i) < b)
      <4>1. b <= Offset + PageLimit
        BY <1>2, <1>6 DEF PageEnd
      <4> QED BY <1>3, <1>6, <2>2, <2>4, <4>1
    <3>2. Has(Shown, i)
      BY <1>2, <1>5, <2>2, <2>4, <3>1
    <3> QED BY <2>1, <3>1, <3>2 DEF Pushed
  <2> QED BY <2>1, <2>3, <2>4
<1>10. ASSUME window >= RowCount PROVE Pulled' \subseteq Pulled
  <2> SUFFICES ASSUME NEW i \in Pulled' PROVE i \in Pulled
    OBVIOUS
  <2>1. i \in Kept /\ ~(Has(Shown, i)') /\ Standing(i) < Offset'
    BY <1>4 DEF Pulled
  <2>2. i \in Selected /\ Standing(i) \in Nat /\ ~Has(Shown, i) /\ ~Has(page, i)
    BY <1>4, <1>5, <1>7, <2>1
  <2>3. Standing(i) + 1 <= Len(q) /\ Len(q) <= RowCount /\ Len(q) \in Nat
    <3>1. Len(q) = Cardinality(Selected) /\ Standing(i) + 1 \in 1 .. Len(q)
      BY <2>2, SortedByStanding
    <3> QED BY <3>1, SelectedIsFinite
  <2>4. Standing(i) < b
    BY <1>1, <1>3, <1>6, <1>10, <2>1, <2>2, <2>3 DEF EndIn, PageEnd
  <2>5. Standing(i) < Offset
    BY <1>2, <1>6, <2>2, <2>4
  <2> QED BY <2>1, <2>2, <2>5 DEF Pulled
<1>11. RepeatsAreFew'
  <2>1. Cardinality(Pushed) <= came /\ Cardinality(Pushed) \in Nat
    BY <1>8, FS_CardinalityType DEF RepeatsAreFew
  <2>2. Pushed' \in SUBSET Pushed
    BY <1>9
  <2>3. Cardinality(Pushed') <= Cardinality(Pushed) /\ Cardinality(Pushed') \in Nat
    BY <1>8, <2>2, FS_Subset, FS_CardinalityType
  <2> QED BY <1>3, <2>1, <2>3 DEF RepeatsAreFew, ListShape
<1>12. MissesAreFew'
  <2> SUFFICES ASSUME window >= RowCount PROVE Cardinality(Pulled') <= left
    BY <1>3 DEF MissesAreFew
  <2>1. Cardinality(Pulled) <= left /\ Cardinality(Pulled) \in Nat
    BY <1>8, FS_CardinalityType DEF MissesAreFew
  <2>2. Pulled' \in SUBSET Pulled
    BY <1>10
  <2>3. Cardinality(Pulled') <= Cardinality(Pulled) /\ Cardinality(Pulled') \in Nat
    BY <1>8, <2>2, FS_Subset, FS_CardinalityType
  <2> QED BY <2>1, <2>3 DEF ListShape
<1> QED BY <1>11, <1>12

LEMMA ReadPageInOrder ==
  ASSUME ListShape, ShownInOrder, ReadPage
  PROVE  ShownInOrder'
<1> SUFFICES ASSUME changed = {}
             PROVE  \E q \in Sorted(Selected)' : Shown' = SubSeq(q, 1, Reached(Len(q))')
  BY OffsetMoves DEF ShownInOrder
<1>1. PICK q \in Sorted(Selected), b \in Nat, page \in Seq(Rows) :
        b = EndIn(Len(q)) /\ page = SubSeq(q, Offset + 1, b) /\ Shown' = Shown \o page
  BY PageRead
<1>2. b <= Len(q)
  BY <1>1, PageIs
<1>3. q \in Seq(Rows) /\ Len(q) \in Nat
  BY SortedByStanding
<1>4. Offset \in Nat /\ PageLimit \in Nat \ {0} /\ window \in Nat /\ Len(pages) \in Nat
  BY Offsets
<1>5. Sorted(Selected)' = Sorted(Selected) /\ Offset' = Offset + PageLimit /\ window' = window
  BY OffsetMoves, SameRows
<1> DEFINE r == Reached(Len(q))
<1>6. r \in Nat /\ r <= b /\ (r = Offset \/ (b <= Offset /\ r = b))
  BY <1>1, <1>3, <1>4 DEF Reached, EndIn, PageEnd
<1>7. b = Reached(Len(q))'
  BY <1>1, <1>3, <1>4, <1>5 DEF Reached, EndIn, PageEnd
<1>8. Shown = SubSeq(q, 1, r)
  <2>1. CASE pages = << >>
    <3>1. Shown = << >>
      BY <2>1, FlattenNone DEF Shown
    <3>2. Offset = 0
      BY <1>4, <2>1 DEF Offset
    <3>3. r = 0
      BY <1>3, <1>4, <3>2 DEF Reached
    <3>4. SubSeq(q, 1, 0) = << >>
      BY <1>3
    <3> QED BY <3>1, <3>3, <3>4
  <2>2. CASE pages # << >>
    <3>1. PICK p \in Sorted(Selected) : Shown = SubSeq(p, 1, Reached(Len(p)))
      BY <2>2 DEF ShownInOrder
    <3>2. p = q
      BY SortedIsOne
    <3> QED BY <3>1, <3>2
  <2> QED BY <2>1, <2>2
<1> HIDE DEF r
<1>9. SubSeq(q, 1, r) \o SubSeq(q, Offset + 1, b) = SubSeq(q, 1, b)
  BY <1>2, <1>3, <1>4, <1>6, PartsJoin
<1>10. Shown' = SubSeq(q, 1, b)
  BY <1>1, <1>8, <1>9
<1> QED BY <1>5, <1>7, <1>10

LEMMA ReadPageEnds ==
  ASSUME ListShape, ReadPage
  PROVE  ReadToTheEnd'
<1> SUFFICES ASSUME reading' = "done"
             PROVE  Cardinality(Selected') <= Offset'
  BY DEF ReadToTheEnd
<1>1. PICK q \in Sorted(Selected), b \in Nat, page \in Seq(Rows) :
        /\ b = EndIn(Len(q)) /\ page = SubSeq(q, Offset + 1, b)
        /\ reading' = CASE table # "catalogue" -> "count"
                        [] table = "catalogue" /\ Len(page) = PageLimit -> "list"
                        [] OTHER -> "done"
  BY PageRead
<1>2. table = "catalogue" /\ Len(page) # PageLimit
  BY <1>1
<1>3. window = RowCount
  BY <1>2 DEF ListShape
<1>4. Len(page) = IF Offset < b THEN b - Offset ELSE 0
  BY <1>1, PageIs
<1>5. Len(q) = Cardinality(Selected) /\ Len(q) \in Nat /\ Len(q) <= RowCount
  BY SortedByStanding, SelectedIsFinite
<1>6. Selected' = Selected /\ Offset' = Offset + PageLimit
  BY OffsetMoves, SameRows
<1>7. Offset \in Nat /\ PageLimit \in Nat \ {0} /\ RowCount \in Nat
  BY Offsets
<1>8. Len(q) <= Offset + PageLimit
  <2> SUFFICES ASSUME ~(Len(q) <= Offset + PageLimit) PROVE FALSE
    OBVIOUS
  <2>1. b = Offset + PageLimit
    BY <1>1, <1>3, <1>5, <1>7 DEF EndIn, PageEnd
  <2> QED BY <1>2, <1>4, <1>7, <2>1
<1> QED BY <1>5, <1>6, <1>8

-----------------------------------------------------------------------------
\* A row changes: the others stay in the list and in their order.
LEMMA OthersStay ==
  ASSUME ListShape, NEW k \in Rows, NEW state, RowChanges(k, state)
  PROVE  /\ row' = [row EXCEPT ![k] = state] /\ changed' = changed \cup {k}
         /\ UNCHANGED <<table, filter, window, reading, pages, total>>
         /\ reading \in {"list", "count"}
         /\ \A i \in Rows \ {k} : row'[i] = row[i] /\ (i \in Selected' <=> i \in Selected)
         /\ \A i, j \in Rows \ {k} : Above(i, j)' <=> Above(i, j)
         /\ Kept' \subseteq Kept \ {k}
<1>1. /\ row' = [row EXCEPT ![k] = state] /\ changed' = changed \cup {k}
      /\ UNCHANGED <<table, filter, window, reading, pages, total>>
      /\ reading \in {"list", "count"}
  BY DEF RowChanges
<1>2. \A i \in Rows \ {k} : row'[i] = row[i]
  BY <1>1 DEF ListShape, ListingTypeOK
<1>3. ASSUME NEW i \in Rows \ {k} PROVE Matching(i)' <=> Matching(i)
  BY <1>1, <1>2 DEF Matching, JobMatches, TenantMatches, MatchMatches, OfferMatches
<1>4. \A i \in Rows \ {k} : i \in Selected' <=> i \in Selected
  BY <1>3 DEF Selected
<1>5. ASSUME NEW i \in Rows \ {k}, NEW j \in Rows \ {k} PROVE Above(i, j)' <=> Above(i, j)
  BY <1>1, <1>2 DEF Above, Aged
<1>6. Kept' \subseteq Kept \ {k}
  <2> SUFFICES ASSUME NEW i \in Kept' PROVE i \in Kept /\ i # k
    OBVIOUS
  <2>1. i \in Selected' /\ i \notin changed /\ i # k
    BY <1>1 DEF Kept
  <2>2. i \in Rows \ {k}
    BY <2>1 DEF Selected
  <2> QED BY <1>4, <2>1, <2>2 DEF Kept
<1> QED BY <1>1, <1>2, <1>4, <1>5, <1>6

\* What a row changes for the others is whether it is ahead of them.  It gets
\* ahead of one only if it is counted as come, and falls behind one only if it
\* is counted as left.
LEMMA AheadMoves ==
  ASSUME ListShape, NEW k \in Rows, NEW state, RowChanges(k, state), NEW i \in Kept'
  PROVE  /\ Ahead(i)' \subseteq Ahead(i) \cup {k} /\ Ahead(i) \subseteq Ahead(i)' \cup {k}
         /\ came' = came + 1 \/ (came' = came /\ Ahead(i)' \subseteq Ahead(i))
         /\ left' = left + 1 \/ (left' = left /\ Ahead(i) \subseteq Ahead(i)')
<1>1. i \in Kept /\ i # k /\ i \in Rows /\ i \in Selected
  BY OthersStay DEF Kept, Selected
<1>2. /\ \A j : j \in Ahead(i)' <=> j \in Selected' /\ Above(j, i)'
      /\ \A j : j \in Ahead(i) <=> j \in Selected /\ Above(j, i)
      /\ Selected \subseteq Rows /\ Selected' \subseteq Rows
  BY DEF Ahead, Selected
<1>3. ASSUME NEW j \in Rows \ {k} PROVE j \in Ahead(i)' <=> j \in Ahead(i)
  <2>1. i \in Rows \ {k}
    BY <1>1
  <2>2. (Above(j, i)' <=> Above(j, i)) /\ (j \in Selected' <=> j \in Selected)
    BY <2>1, OthersStay
  <2> QED BY <1>2, <2>2
<1>4. Ahead(i) \subseteq Rows /\ Ahead(i)' \subseteq Rows
  BY <1>2
<1>5. /\ (k \in Selected' <=> Matching(k)') /\ (k \in Selected <=> Matching(k))
  BY DEF Selected
<1>6. /\ Aged' <=> Aged
      /\ row'[k] = state /\ row'[i] = row[i]
  BY <1>1, OthersStay DEF Aged, ListShape, ListingTypeOK
<1>7. came' = came + 1 \/ (came' = came /\ ~(Matching(k)' /\ (Matching(k) => ~Aged /\ row[k].score # state.score)))
  BY DEF RowChanges
<1>8. left' = left + 1 \/ (left' = left /\ ~(Matching(k) /\ (Matching(k)' => ~Aged /\ row[k].score # state.score)))
  BY DEF RowChanges
<1>9. ASSUME ~(Matching(k)' /\ (Matching(k) => ~Aged /\ row[k].score # state.score)), k \in Ahead(i)'
      PROVE  k \in Ahead(i)
  <2>1. Matching(k)' /\ Above(k, i)'
    BY <1>2, <1>5, <1>9
  <2>2. Matching(k) /\ (Aged \/ row[k].score = state.score)
    BY <1>9, <2>1
  <2>3. Above(k, i)
    BY <1>6, <2>1, <2>2 DEF Above
  <2> QED BY <1>2, <1>5, <2>2, <2>3
<1>10. ASSUME ~(Matching(k) /\ (Matching(k)' => ~Aged /\ row[k].score # state.score)), k \in Ahead(i)
       PROVE  k \in Ahead(i)'
  <2>1. Matching(k) /\ Above(k, i)
    BY <1>2, <1>5, <1>10
  <2>2. Matching(k)' /\ (Aged \/ row[k].score = state.score)
    BY <1>10, <2>1
  <2>3. Above(k, i)'
    BY <1>6, <2>1, <2>2 DEF Above
  <2> QED BY <1>2, <1>5, <2>2, <2>3
<1>11. Ahead(i)' \subseteq Ahead(i) \cup {k} /\ Ahead(i) \subseteq Ahead(i)' \cup {k}
  BY <1>3, <1>4
<1>12. came' = came + 1 \/ (came' = came /\ Ahead(i)' \subseteq Ahead(i))
  BY <1>7, <1>9, <1>11
<1>13. left' = left + 1 \/ (left' = left /\ Ahead(i) \subseteq Ahead(i)')
  BY <1>8, <1>10, <1>11
<1> QED BY <1>11, <1>12, <1>13

LEMMA StandingMoves ==
  ASSUME ListShape, NEW k \in Rows, NEW state, RowChanges(k, state), NEW i \in Kept'
  PROVE  /\ Standing(i) \in Nat /\ Standing(i)' \in Nat
         /\ Standing(i)' <= Standing(i) + 1 /\ Standing(i) <= Standing(i)' + 1
         /\ came' = came + 1 \/ (came' = came /\ Standing(i)' <= Standing(i))
         /\ left' = left + 1 \/ (left' = left /\ Standing(i) <= Standing(i)')
<1>1. IsFiniteSet(Ahead(i)) /\ Standing(i) \in Nat
  BY SelectedIsFinite
<1>2. /\ Ahead(i)' \subseteq Ahead(i) \cup {k} /\ Ahead(i) \subseteq Ahead(i)' \cup {k}
      /\ came' = came + 1 \/ (came' = came /\ Ahead(i)' \subseteq Ahead(i))
      /\ left' = left + 1 \/ (left' = left /\ Ahead(i) \subseteq Ahead(i)')
  BY AheadMoves
<1>3. IsFiniteSet(Ahead(i)') /\ Cardinality(Ahead(i)') <= Cardinality(Ahead(i)) + 1
  BY <1>1, <1>2, OneMore
<1>4. Cardinality(Ahead(i)) <= Cardinality(Ahead(i)') + 1
  BY <1>2, <1>3, OneMore
<1>5. Standing(i)' = Cardinality(Ahead(i)') /\ Standing(i) = Cardinality(Ahead(i))
  BY DEF Standing
<1>6. Cardinality(Ahead(i)') \in Nat
  BY <1>3, FS_CardinalityType
<1>7. ASSUME Ahead(i)' \subseteq Ahead(i) PROVE Cardinality(Ahead(i)') <= Cardinality(Ahead(i))
  BY <1>1, <1>7, FS_Subset
<1>8. ASSUME Ahead(i) \subseteq Ahead(i)' PROVE Cardinality(Ahead(i)) <= Cardinality(Ahead(i)')
  BY <1>3, <1>8, FS_Subset
<1> QED BY <1>1, <1>2, <1>3, <1>4, <1>5, <1>6, <1>7, <1>8

LEMMA ChangeShape ==
  ASSUME ListShape, NEW k \in Rows, NEW state \in States(table) \cup {NoRow}, RowChanges(k, state)
  PROVE  ListShape'
<1>1. /\ row' = [row EXCEPT ![k] = state] /\ changed' = changed \cup {k}
      /\ UNCHANGED <<table, filter, window, reading, pages, total>>
      /\ reading \in {"list", "count"}
  BY OthersStay
<1>2. left' \in Nat /\ came' \in Nat
  BY DEF RowChanges, ListShape
<1>3. States(table)' = States(table)
  BY <1>1 DEF States, JobStates, TenantStates, MatchStates, OfferStates
<1>4. row' \in [Rows -> States(table)' \cup {NoRow}]
  BY <1>1, <1>3 DEF ListShape, ListingTypeOK
<1>5. ListingTypeOK'
  BY <1>1, <1>4 DEF ListShape, ListingTypeOK
<1> QED BY <1>1, <1>2, <1>5 DEF ListShape

\* At most one row is pushed over the edge of the pages that were read, or
\* pulled over it: the one that stands at the edge.
LEMMA ChangeRepeats ==
  ASSUME ListShape, RepeatsAreFew, NEW k \in Rows, NEW state, RowChanges(k, state)
  PROVE  RepeatsAreFew'
<1>1. UNCHANGED <<pages, reading>> /\ reading # "ask" /\ Kept' \subseteq Kept
  BY OthersStay
<1>2. Offset \in Nat /\ Offset' = Offset
  BY <1>1, Offsets DEF Offset
<1>3. \A i : (Has(Shown, i)' <=> Has(Shown, i)) /\ (HasTwice(Shown, i)' <=> HasTwice(Shown, i))
  BY <1>1 DEF Has, HasTwice, Shown
<1>4. IsFiniteSet(Pushed) /\ Cardinality(Pushed) \in Nat /\ Cardinality(Pushed) <= came /\ came \in Nat
  <2>1. Pushed \in SUBSET Selected
    BY DEF Pushed, Kept
  <2> QED BY <1>1, <2>1, SelectedIsFinite, FS_Subset, FS_CardinalityType DEF RepeatsAreFew, ListShape
<1>5. ASSUME NEW i \in Pushed', i \notin Pushed
      PROVE  i \in Selected /\ Standing(i) = Offset - 1 /\ came' = came + 1
  <2>1. /\ i \in Kept' /\ i \in Kept /\ i \in Selected
        /\ HasTwice(Shown, i) \/ (Has(Shown, i) /\ Standing(i)' >= Offset)
    BY <1>1, <1>2, <1>3 DEF Pushed, Kept
  <2>2. /\ Standing(i) \in Nat /\ Standing(i)' \in Nat /\ Standing(i)' <= Standing(i) + 1
        /\ came' = came + 1 \/ (came' = came /\ Standing(i)' <= Standing(i))
    BY <2>1, StandingMoves
  <2>3. ~HasTwice(Shown, i) /\ ~(Standing(i) >= Offset) /\ Standing(i)' >= Offset
    BY <1>5, <2>1 DEF Pushed
  <2> QED BY <1>2, <2>1, <2>2, <2>3
<1>6. CASE Pushed' \subseteq Pushed
  <2>1. Cardinality(Pushed') <= Cardinality(Pushed) /\ Cardinality(Pushed') \in Nat
    BY <1>4, <1>6, FS_Subset, FS_CardinalityType
  <2>2. came' >= came
    BY <1>4 DEF RowChanges
  <2>3. came' \in Nat
    BY <1>4 DEF RowChanges
  <2> QED BY <1>4, <2>1, <2>2, <2>3 DEF RepeatsAreFew
<1>7. CASE ~(Pushed' \subseteq Pushed)
  <2>1. PICK x \in Pushed' : x \notin Pushed
    BY <1>7
  <2>2. Pushed' \subseteq Pushed \cup {x}
    <3> SUFFICES ASSUME NEW i \in Pushed', i \notin Pushed PROVE i = x
      OBVIOUS
    <3>1. i \in Selected /\ x \in Selected /\ Standing(i) = Standing(x)
      BY <1>5, <2>1
    <3> QED BY <3>1, StandingsDiffer
  <2>3. IsFiniteSet(Pushed') /\ Cardinality(Pushed') <= Cardinality(Pushed) + 1
    BY <1>4, <2>2, OneMore
  <2>4. came' = came + 1 /\ Cardinality(Pushed') \in Nat
    BY <1>5, <2>1, <2>3, FS_CardinalityType
  <2> QED BY <1>4, <2>3, <2>4 DEF RepeatsAreFew
<1> QED BY <1>6, <1>7

LEMMA ChangeMisses ==
  ASSUME ListShape, MissesAreFew, NEW k \in Rows, NEW state, RowChanges(k, state)
  PROVE  MissesAreFew'
<1>1. UNCHANGED <<pages, reading, window>> /\ reading # "ask" /\ Kept' \subseteq Kept
  BY OthersStay
<1> SUFFICES ASSUME window >= RowCount PROVE Cardinality(Pulled') <= left'
  BY <1>1 DEF MissesAreFew
<1>2. Offset \in Nat /\ Offset' = Offset
  BY <1>1, Offsets DEF Offset
<1>3. \A i : Has(Shown, i)' <=> Has(Shown, i)
  BY <1>1 DEF Has, Shown
<1>4. IsFiniteSet(Pulled) /\ Cardinality(Pulled) \in Nat /\ Cardinality(Pulled) <= left /\ left \in Nat
  <2>1. Pulled \in SUBSET Selected
    BY DEF Pulled, Kept
  <2> QED BY <1>1, <2>1, SelectedIsFinite, FS_Subset, FS_CardinalityType DEF MissesAreFew, ListShape
<1>5. ASSUME NEW i \in Pulled', i \notin Pulled
      PROVE  i \in Selected /\ Standing(i) = Offset /\ left' = left + 1
  <2>1. /\ i \in Kept' /\ i \in Kept /\ i \in Selected /\ ~Has(Shown, i) /\ Standing(i)' < Offset
    BY <1>1, <1>2, <1>3 DEF Pulled, Kept
  <2>2. /\ Standing(i) \in Nat /\ Standing(i)' \in Nat /\ Standing(i) <= Standing(i)' + 1
        /\ left' = left + 1 \/ (left' = left /\ Standing(i) <= Standing(i)')
    BY <2>1, StandingMoves
  <2>3. ~(Standing(i) < Offset)
    BY <1>5, <2>1 DEF Pulled
  <2> QED BY <1>2, <2>1, <2>2, <2>3
<1>6. CASE Pulled' \subseteq Pulled
  <2>1. Cardinality(Pulled') <= Cardinality(Pulled) /\ Cardinality(Pulled') \in Nat
    BY <1>4, <1>6, FS_Subset, FS_CardinalityType
  <2>2. left' >= left
    BY <1>4 DEF RowChanges
  <2>3. left' \in Nat
    BY <1>4 DEF RowChanges
  <2> QED BY <1>4, <2>1, <2>2, <2>3
<1>7. CASE ~(Pulled' \subseteq Pulled)
  <2>1. PICK x \in Pulled' : x \notin Pulled
    BY <1>7
  <2>2. Pulled' \subseteq Pulled \cup {x}
    <3> SUFFICES ASSUME NEW i \in Pulled', i \notin Pulled PROVE i = x
      OBVIOUS
    <3>1. i \in Selected /\ x \in Selected /\ Standing(i) = Standing(x)
      BY <1>5, <2>1
    <3> QED BY <3>1, StandingsDiffer
  <2>3. IsFiniteSet(Pulled') /\ Cardinality(Pulled') <= Cardinality(Pulled) + 1
    BY <1>4, <2>2, OneMore
  <2>4. left' = left + 1 /\ Cardinality(Pulled') \in Nat
    BY <1>5, <2>1, <2>3, FS_CardinalityType
  <2> QED BY <1>4, <2>3, <2>4
<1> QED BY <1>6, <1>7

LEMMA ChangeKeeps ==
  ASSUME ListIndInv, NEW k \in Rows, NEW state \in States(table) \cup {NoRow}, RowChanges(k, state)
  PROVE  ListIndInv'
<1>0. ListShape /\ PagesFit /\ RepeatsAreFew /\ MissesAreFew
  BY DEF ListIndInv
<1>1. ListShape' /\ RepeatsAreFew' /\ MissesAreFew'
  BY <1>0, ChangeShape, ChangeRepeats, ChangeMisses
<1>2. /\ changed' = changed \cup {k} /\ UNCHANGED <<window, pages, reading>>
      /\ reading \in {"list", "count"}
  BY <1>0, OthersStay
<1>3. PagesFit'
  BY <1>0, <1>2 DEF PagesFit, Offset, Shown
<1>4. ShownInOrder' /\ ReadToTheEnd'
  BY <1>2 DEF ShownInOrder, ReadToTheEnd
<1> QED BY <1>1, <1>3, <1>4 DEF ListIndInv

-----------------------------------------------------------------------------
\* Before the first page there is nothing to explain.
LEMMA NothingShown ==
  ASSUME ListShape, pages = << >>, changed = {}, left = 0, came = 0, reading # "done"
  PROVE  ListIndInv
<1>1. Shown = << >> /\ Offset = 0
  BY FlattenNone, Offsets DEF Shown, Offset
<1>2. Len(Shown) = 0 /\ DOMAIN Shown = {}
  <2>1. Len(<< >>) = 0 /\ DOMAIN << >> = {}
    OBVIOUS
  <2> QED BY <1>1, <2>1
<1>3. \A i : ~Has(Shown, i) /\ ~HasTwice(Shown, i)
  BY <1>2 DEF Has, HasTwice
<1>4. \A i : ~(Standing(i) < Offset)
  BY <1>1, SelectedIsFinite
<1>5. Pushed = {} /\ Pulled = {}
  BY <1>3, <1>4 DEF Pushed, Pulled
<1>6. Cardinality({}) = 0
  BY FS_EmptySet
<1>7. PagesFit
  BY <1>1, <1>2 DEF PagesFit, ListShape
<1>8. RepeatsAreFew /\ MissesAreFew
  BY <1>5, <1>6 DEF RepeatsAreFew, MissesAreFew
<1>9. ShownInOrder /\ ReadToTheEnd
  BY DEF ShownInOrder, ReadToTheEnd
<1> QED BY <1>7, <1>8, <1>9 DEF ListIndInv

LEMMA ListInit == ListingInit => ListIndInv
<1> SUFFICES ASSUME ListingInit PROVE ListIndInv
  OBVIOUS
<1>1. RowCount \in Nat \ {0}
  BY ListingAssumption
<1>2. /\ pages \in Seq(Seq(Rows)) /\ DOMAIN pages = {}
      /\ pages = << >> /\ changed = {} /\ left = 0 /\ came = 0 /\ reading = "ask"
  <2>1. << >> \in Seq(Seq(Rows)) /\ DOMAIN << >> = {}
    OBVIOUS
  <2> QED BY <2>1 DEF ListingInit
<1>3. ListingTypeOK
  BY <1>1, <1>2 DEF ListingInit, ListingTypeOK
<1>4. ListShape
  BY <1>1, <1>2, <1>3 DEF ListingInit, ListShape
<1> QED BY <1>2, <1>4, NothingShown

LEMMA AskKeeps ==
  ASSUME ListIndInv, NEW t, NEW f, NEW most \in Nat, Asks(t, f, most), t = "catalogue" => most = RowCount
  PROVE  ListIndInv'
<1>1. /\ reading = "ask" /\ table = t /\ window' = most /\ reading' = "list"
      /\ UNCHANGED <<table, row, pages, total, changed, left, came>>
  BY DEF Asks
<1>2. ListShape /\ pages = << >> /\ changed = {} /\ left = 0 /\ came = 0
  BY <1>1 DEF ListIndInv, ListShape
<1>3. States(table)' = States(table)
  BY <1>1 DEF States, JobStates, TenantStates, MatchStates, OfferStates
<1>4. ListingTypeOK'
  BY <1>1, <1>2, <1>3 DEF ListShape, ListingTypeOK
<1>5. ListShape'
  BY <1>1, <1>2, <1>4 DEF ListShape
<1>6. pages' = << >> /\ changed' = {} /\ left' = 0 /\ came' = 0 /\ reading' # "done"
  BY <1>1, <1>2
<1>7. (ListShape /\ pages = << >> /\ changed = {} /\ left = 0 /\ came = 0 /\ reading # "done"
        => ListIndInv)'
  BY NothingShown, PTL
<1> QED BY <1>5, <1>6, <1>7

\* The total is counted, and the list goes on to it.
LEMMA CountKeeps ==
  ASSUME ListIndInv, CountRows
  PROVE  ListIndInv'
<1>1. /\ reading = "count" /\ total' = Cardinality(Counted)
      /\ reading' = IF Offset < total' THEN "list" ELSE "done"
      /\ UNCHANGED <<table, row, filter, window, pages, changed, left, came>>
  BY DEF CountRows
<1>2. /\ Selected' = Selected /\ Counted' = Counted /\ Sorted(Selected)' = Sorted(Selected)
      /\ \A i : Standing(i)' = Standing(i)
  BY <1>1, SameRows
<1>3. Shown' = Shown /\ Offset' = Offset /\ Kept' = Kept
  BY <1>1, <1>2 DEF Shown, Offset, Kept
<1>4. Pushed' = Pushed /\ Pulled' = Pulled
  <2>1. \A i : (Has(Shown, i)' <=> Has(Shown, i)) /\ (HasTwice(Shown, i)' <=> HasTwice(Shown, i))
    BY <1>3 DEF Has, HasTwice
  <2> QED BY <1>2, <1>3, <2>1 DEF Pushed, Pulled
<1>5. Cardinality(Counted) \in 0 .. RowCount
  <2>1. Counted \in SUBSET Rows
    BY SelectedIsFinite DEF Counted
  <2>2. RowCount \in Nat \ {0}
    BY ListingAssumption
  <2>3. IsFiniteSet(Rows) /\ Cardinality(Rows) = RowCount
    <3>1. 1 \in Int /\ RowCount \in Int /\ ~(1 > RowCount) /\ RowCount - 1 + 1 = RowCount
      BY <2>2
    <3> QED BY <3>1, FS_Interval DEF Rows
  <2>4. IsFiniteSet(Counted) /\ Cardinality(Counted) <= RowCount
    BY <2>1, <2>3, FS_Subset
  <2>5. Cardinality(Counted) \in Nat
    BY <2>4, FS_CardinalityType
  <2> QED BY <2>2, <2>4, <2>5
<1>6. ListShape'
  <2>1. States(table)' = States(table)
    BY <1>1 DEF States, JobStates, TenantStates, MatchStates, OfferStates
  <2>2. reading' \in {"list", "done"}
    BY <1>1
  <2>3. ListingTypeOK'
    BY <1>1, <1>5, <2>1, <2>2 DEF ListIndInv, ListShape, ListingTypeOK
  <2> QED BY <1>1, <2>2, <2>3 DEF ListIndInv, ListShape
<1>7. PagesFit' /\ RepeatsAreFew' /\ MissesAreFew'
  BY <1>1, <1>3, <1>4 DEF ListIndInv, PagesFit, RepeatsAreFew, MissesAreFew
<1>8. ShownInOrder'
  <2>1. \A n : Reached(n)' = Reached(n)
    BY <1>1, <1>3 DEF Reached
  <2> QED BY <1>1, <1>2, <1>3, <2>1 DEF ListIndInv, ShownInOrder
<1>9. ReadToTheEnd'
  <2> SUFFICES ASSUME reading' = "done", Selected \subseteq Counted
               PROVE  Cardinality(Selected) <= Offset
    BY <1>2, <1>3 DEF ReadToTheEnd
  <2>1. ~(Offset < Cardinality(Counted))
    BY <1>1
  <2>2. Counted \in SUBSET Rows /\ IsFiniteSet(Counted)
    <3>1. Counted \in SUBSET Rows
      BY SelectedIsFinite DEF Counted
    <3>2. RowCount \in Nat
      BY ListingAssumption
    <3>3. IsFiniteSet(Rows)
      BY <3>2, FS_Interval DEF Rows
    <3> QED BY <3>1, <3>3, FS_Subset
  <2>3. Cardinality(Selected) <= Cardinality(Counted)
    BY <2>2, FS_Subset
  <2>4. Offset \in Nat
    BY Offsets DEF ListIndInv
  <2> QED BY <1>5, <2>1, <2>3, <2>4, SelectedIsFinite
<1> QED BY <1>6, <1>7, <1>8, <1>9 DEF ListIndInv

LEMMA ReadPageKeeps ==
  ASSUME ListIndInv, ReadPage
  PROVE  ListIndInv'
<1>1. /\ ListShape /\ PagesFit /\ RepeatsAreFew /\ MissesAreFew /\ ShownInOrder
      /\ reading = "list"
  BY DEF ListIndInv, ReadPage
<1>2. ListShape' /\ PagesFit'
  BY <1>1, ReadPageShape, ReadPageFits
<1>3. RepeatsAreFew' /\ MissesAreFew'
  BY <1>1, ReadPageRepeats
<1>4. ShownInOrder' /\ ReadToTheEnd'
  BY <1>1, ReadPageInOrder, ReadPageEnds
<1> QED BY <1>2, <1>3, <1>4 DEF ListIndInv

LEMMA ListNext == ListIndInv /\ [ListingNext]_listVars => ListIndInv'
<1> SUFFICES ASSUME ListIndInv, [ListingNext]_listVars PROVE ListIndInv'
  OBVIOUS
<1>0. RowCount \in Nat /\ Windows \subseteq Nat
  BY ListingAssumption
<1>1. CASE AskJobs
  <2>1. PICK f \in {"all", "stuck", "queued", "running", "failed"} : Asks("jobs", f, RowCount)
    BY <1>1 DEF AskJobs
  <2> QED BY <1>0, <2>1, AskKeeps
<1>2. CASE AskTenants
  <2>1. PICK f \in [status : {"any", "active", "suspended"}, search : BOOLEAN] :
          Asks("tenants", f, RowCount)
    BY <1>2 DEF AskTenants
  <2> QED BY <1>0, <2>1, AskKeeps
<1>3. CASE AskMatches
  <2>1. PICK f \in [min : Scores, saved : BOOLEAN, dismissed : BOOLEAN], most \in Windows :
          Asks("matches", f, most)
    BY <1>3 DEF AskMatches
  <2>2. most \in Nat
    BY <1>0
  <2> QED BY <2>1, <2>2, AskKeeps
<1>4. CASE AskCatalogue
  <2>1. PICK f \in [forecasts : BOOLEAN] : Asks("catalogue", f, RowCount)
    BY <1>4 DEF AskCatalogue
  <2> QED BY <1>0, <2>1, AskKeeps
<1>5. CASE ReadPage
  BY <1>5, ReadPageKeeps
<1>6. CASE CountRows
  BY <1>6, CountKeeps
<1>7. CASE \E i \in Rows : \E state \in States(table) \cup {NoRow} : RowChanges(i, state)
  <2>1. PICK i \in Rows : \E state \in States(table) \cup {NoRow} : RowChanges(i, state)
    BY <1>7
  <2>2. PICK state \in States(table) \cup {NoRow} : RowChanges(i, state)
    BY <2>1
  <2> QED BY <2>2, ChangeKeeps
<1>8. CASE UNCHANGED listVars
  <2>1. UNCHANGED <<table, row, filter, window, reading, pages, total, changed, left, came>>
    BY <1>8 DEF listVars
  <2>2. /\ Selected' = Selected /\ Counted' = Counted /\ Sorted(Selected)' = Sorted(Selected)
        /\ \A i : Standing(i)' = Standing(i)
    BY <2>1, SameRows
  <2>3. Shown' = Shown /\ Offset' = Offset /\ Kept' = Kept
    BY <2>1, <2>2 DEF Shown, Offset, Kept
  <2>4. Pushed' = Pushed /\ Pulled' = Pulled
    <3>1. \A i : (Has(Shown, i)' <=> Has(Shown, i)) /\ (HasTwice(Shown, i)' <=> HasTwice(Shown, i))
      BY <2>3 DEF Has, HasTwice
    <3> QED BY <2>2, <2>3, <3>1 DEF Pushed, Pulled
  <2>5. States(table)' = States(table)
    BY <2>1 DEF States, JobStates, TenantStates, MatchStates, OfferStates
  <2>6. ListShape'
    BY <2>1, <2>5 DEF ListIndInv, ListShape, ListingTypeOK
  <2>7. PagesFit' /\ RepeatsAreFew' /\ MissesAreFew' /\ ReadToTheEnd'
    BY <2>1, <2>2, <2>3, <2>4 DEF ListIndInv, PagesFit, RepeatsAreFew, MissesAreFew, ReadToTheEnd
  <2>8. ShownInOrder'
    <3>1. \A n : Reached(n)' = Reached(n)
      BY <2>1, <2>3 DEF Reached
    <3> QED BY <2>1, <2>2, <2>3, <3>1 DEF ListIndInv, ShownInOrder
  <2> QED BY <2>6, <2>7, <2>8 DEF ListIndInv
<1> QED BY <1>1, <1>2, <1>3, <1>4, <1>5, <1>6, <1>7, <1>8 DEF ListingNext

-----------------------------------------------------------------------------
\* How often a row was shown.
LEMMA TimesSay ==
  ASSUME ListShape, NEW i
  PROVE  /\ Times(i) = 0 => ~Has(Shown, i)
         /\ Times(i) > 1 => HasTwice(Shown, i)
<1> DEFINE I == {n \in DOMAIN Shown : Shown[n] = i}
<1>1. Shown \in Seq(Rows) /\ Len(Shown) \in Nat /\ DOMAIN Shown = 1 .. Len(Shown)
  BY ShownIsSeq
<1>2. IsFiniteSet(I)
  <2>1. IsFiniteSet(1 .. Len(Shown))
    BY <1>1, FS_Interval
  <2>2. I \in SUBSET (1 .. Len(Shown))
    BY <1>1
  <2> HIDE DEF I
  <2> QED BY <2>1, <2>2, FS_Subset
<1>3. Times(i) = Cardinality(I)
  BY DEF Times
<1>4. ASSUME Cardinality(I) = 0 PROVE ~Has(Shown, i)
  <2>1. I = {}
    <3> HIDE DEF I
    <3> QED BY <1>2, <1>4, FS_EmptySet
  <2> QED BY <2>1 DEF Has
<1>5. ASSUME Cardinality(I) > 1 PROVE HasTwice(Shown, i)
  <2>1. PICK m \in I : TRUE
    <3>1. I # {}
      <4> HIDE DEF I
      <4> QED BY <1>5, FS_EmptySet
    <3> QED BY <3>1
  <2>2. \E n \in I : n # m
    <3> SUFFICES ASSUME \A n \in I : n = m PROVE FALSE
      OBVIOUS
    <3>1. I = {m}
      BY <2>1
    <3>2. Cardinality({m}) = 1
      BY FS_Singleton
    <3> HIDE DEF I
    <3> QED BY <1>5, <3>1, <3>2
  <2>3. PICK n \in I : n # m
    BY <2>2
  <2>4. m \in DOMAIN Shown /\ n \in DOMAIN Shown /\ Shown[m] = i /\ Shown[n] = i /\ (m < n \/ n < m)
    BY <1>1, <2>1, <2>3
  <2> QED BY <2>4 DEF HasTwice
<1> QED BY <1>3, <1>4, <1>5

\* What is stuck is what the health screen counts, and what failed long ago.
LEMMA StuckAreCounted ==
  ASSUME ListShape, table = "jobs", filter = "stuck"
  PROVE  Cardinality({i \in Selected : row[i] # "failed long ago"})
           = Health.expired + Health.overdue + Health.failed
<1> DEFINE E == {i \in Rows : row[i] \in {"expired"}}
           O == {i \in Rows : row[i] \in {"overdue"}}
           F == {i \in Rows : row[i] \in {"failed"}}
<1>1. Health.expired = Cardinality(E) /\ Health.overdue = Cardinality(O) /\ Health.failed = Cardinality(F)
  BY DEF Health
<1>2. NoRow \notin JobStates
  BY ListingAssumption
<1>3. \A i \in Rows : Matching(i) <=> row[i] \in {"overdue", "expired", "failed", "failed long ago"}
  <2> SUFFICES ASSUME NEW i \in Rows
               PROVE  Matching(i) <=> row[i] \in {"overdue", "expired", "failed", "failed long ago"}
    OBVIOUS
  <2>1. Matching(i) <=> row[i] # NoRow /\ JobMatches(row[i])
    BY DEF Matching
  <2>2. JobMatches(row[i]) <=> Stuck(row[i])
    BY DEF JobMatches
  <2> QED BY <1>2, <2>1, <2>2 DEF Stuck, JobStates
<1>4. {i \in Selected : row[i] # "failed long ago"} = (E \cup O) \cup F
  BY <1>3 DEF Selected
<1>5. E \in SUBSET Rows /\ O \in SUBSET Rows /\ F \in SUBSET Rows
      /\ E \cap O = {} /\ (E \cup O) \cap F = {}
  OBVIOUS
<1>6. IsFiniteSet(Rows)
  <2>1. RowCount \in Int
    BY ListingAssumption
  <2> QED BY <2>1, FS_Interval DEF Rows
<1> HIDE DEF E, O, F
<1>7. IsFiniteSet(E) /\ IsFiniteSet(O) /\ IsFiniteSet(F)
  BY <1>5, <1>6, FS_Subset
<1>8. IsFiniteSet(E \cup O) /\ Cardinality(E \cup O) = Cardinality(E) + Cardinality(O) - Cardinality(E \cap O)
  BY <1>7, FS_Union
<1>9. Cardinality((E \cup O) \cup F) = Cardinality(E \cup O) + Cardinality(F) - Cardinality((E \cup O) \cap F)
  BY <1>7, <1>8, FS_Union
<1>10. Cardinality({}) = 0
  BY FS_EmptySet
<1>11. Cardinality(E) \in Nat /\ Cardinality(O) \in Nat /\ Cardinality(F) \in Nat
  BY <1>7, FS_CardinalityType
<1>12. Cardinality(E \cap O) = 0 /\ Cardinality((E \cup O) \cap F) = 0
  <2>1. E \cap O = {} /\ (E \cup O) \cap F = {}
    BY <1>5
  <2> QED BY <1>10, <2>1
<1>13. Cardinality((E \cup O) \cup F) = Cardinality(E) + Cardinality(O) + Cardinality(F)
  BY <1>8, <1>9, <1>11, <1>12
<1> QED BY <1>1, <1>4, <1>13

\* What the invariant says of a list that was read to its end.
LEMMA ListIndInvMeans == ListIndInv => PagesAreExplained
<1> SUFFICES ASSUME ListIndInv PROVE PagesAreExplained
  OBVIOUS
<1>0. ListShape /\ ListingTypeOK /\ Len(Shown) <= window
  BY DEF ListIndInv, ListShape, PagesFit
<1> DEFINE kept == {i \in Selected : i \notin changed}
<1>1. kept = Kept
  BY DEF Kept
<1> HIDE DEF kept
<1>2. ASSUME reading = "done" PROVE Cardinality({i \in kept : Times(i) > 1}) <= came
  <2>1. {i \in kept : Times(i) > 1} \in SUBSET Pushed
    BY <1>0, <1>1, TimesSay DEF Pushed
  <2>2. IsFiniteSet(Pushed)
    <3>1. Pushed \in SUBSET Selected
      BY DEF Pushed, Kept
    <3> QED BY <3>1, SelectedIsFinite, FS_Subset
  <2>3. Cardinality(Pushed) <= came /\ came \in Nat
    BY <1>0, <1>2 DEF ListIndInv, RepeatsAreFew, ListShape
  <2>4. /\ Cardinality({i \in kept : Times(i) > 1}) <= Cardinality(Pushed)
        /\ IsFiniteSet({i \in kept : Times(i) > 1})
    BY <2>1, <2>2, FS_Subset
  <2>5. Cardinality({i \in kept : Times(i) > 1}) \in Nat /\ Cardinality(Pushed) \in Nat
    BY <2>2, <2>4, FS_CardinalityType
  <2> QED BY <2>3, <2>4, <2>5
<1>3. ASSUME reading = "done", Selected \subseteq Counted
      PROVE  Cardinality(Selected) <= Offset
  BY <1>3 DEF ListIndInv, ReadToTheEnd
<1>4. ASSUME reading = "done", window >= RowCount, Selected \subseteq Counted
      PROVE  Cardinality({i \in kept : Times(i) = 0}) <= left
  <2>1. ASSUME NEW i \in kept, Times(i) = 0 PROVE i \in Pulled
    <3>1. i \in Selected /\ i \in Kept /\ ~Has(Shown, i)
      BY <1>0, <1>1, <2>1, TimesSay DEF Kept
    <3>2. Standing(i) < Cardinality(Selected)
      <4>1. Ahead(i) \in SUBSET (Selected \ {i})
        BY <1>0, <3>1, OrderIsTotal DEF Ahead
      <4>2. /\ IsFiniteSet(Selected \ {i})
            /\ Cardinality(Selected \ {i}) = Cardinality(Selected) - 1
        BY <3>1, SelectedIsFinite, FS_RemoveElement
      <4>3. Cardinality(Ahead(i)) <= Cardinality(Selected \ {i})
        BY <4>1, <4>2, FS_Subset
      <4> QED BY <4>2, <4>3, SelectedIsFinite DEF Standing
    <3>3. Standing(i) < Offset
      BY <1>0, <1>3, <1>4, <3>2, SelectedIsFinite, Offsets
    <3> QED BY <3>1, <3>3 DEF Pulled
  <2>2. {i \in kept : Times(i) = 0} \in SUBSET Pulled
    BY <2>1
  <2>3. IsFiniteSet(Pulled)
    <3>1. Pulled \in SUBSET Selected
      BY DEF Pulled, Kept
    <3> QED BY <3>1, SelectedIsFinite, FS_Subset
  <2>4. Cardinality(Pulled) <= left /\ left \in Nat
    BY <1>0, <1>4 DEF ListIndInv, MissesAreFew, ListShape
  <2>5. /\ Cardinality({i \in kept : Times(i) = 0}) <= Cardinality(Pulled)
        /\ IsFiniteSet({i \in kept : Times(i) = 0})
    BY <2>2, <2>3, FS_Subset
  <2>6. Cardinality({i \in kept : Times(i) = 0}) \in Nat /\ Cardinality(Pulled) \in Nat
    BY <2>3, <2>5, FS_CardinalityType
  <2> QED BY <2>4, <2>5, <2>6
<1>5. ASSUME reading = "done", changed = {}, Selected \subseteq Counted
      PROVE  \E q \in Sorted(Selected) :
               Shown = SubSeq(q, 1, IF window < Len(q) THEN window ELSE Len(q))
  <2>1. pages # << >>
    BY <1>0, <1>5 DEF ListShape
  <2>2. PICK q \in Sorted(Selected) : Shown = SubSeq(q, 1, Reached(Len(q)))
    BY <1>5, <2>1 DEF ListIndInv, ShownInOrder
  <2>3. Len(q) = Cardinality(Selected) /\ Len(q) \in Nat
    BY <1>0, SortedByStanding, SelectedIsFinite
  <2>4. Len(q) <= Offset
    BY <1>3, <1>5, <2>3
  <2>5. Reached(Len(q)) = IF window < Len(q) THEN window ELSE Len(q)
    BY <1>0, <2>3, <2>4, Offsets DEF Reached
  <2> QED BY <2>2, <2>5
<1>6. table = "jobs" /\ filter = "stuck" =>
        Cardinality({i \in Selected : row[i] # "failed long ago"})
          = Health.expired + Health.overdue + Health.failed
  BY <1>0, StuckAreCounted
<1> QED BY <1>0, <1>2, <1>4, <1>5, <1>6 DEF PagesAreExplained, kept

\* However rows change while a list is read (the repositories list by LIMIT and
\* OFFSET, and count apart): it repeats no more of the rows that stay than came in
\* or rose, and leaves out no more than left or sank; by itself it is what it was
\* asked for, in order; it keeps to the plan's allowance (grant_service.py:135);
\* and what is stuck is what the health screen counts (jobs_admin.py:240).
THEOREM PagesExplained == ListingSpec => []PagesAreExplained
<1>1. ListingSpec => []ListIndInv
  BY ListInit, ListNext, PTL DEF ListingSpec
<1>2. ListIndInv => PagesAreExplained
  BY ListIndInvMeans
<1> QED BY <1>1, <1>2, PTL
=============================================================================
