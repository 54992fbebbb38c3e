--------------------------- MODULE Endpoints_proofs ---------------------------
(***************************************************************************)
(* Proofs about Endpoints, for any peers and any lists of endpoints        *)
(* without repetition: no endpoint is lost, bans hold for the peers that   *)
(* have an endpoint of their own, and packets are given to the handler of  *)
(* their sender.                                                           *)
(***************************************************************************)
EXTENDS Endpoints, WellFoundedInduction, FiniteSetTheorems, FunctionTheorems, SequenceTheorems,
        TLAPS

-----------------------------------------------------------------------------
(* Induction, and the bans of a whole set of endpoints.                     *)

\* Every non-empty set of natural numbers has a least element.
LEMMA LeastNumber ==
  ASSUME NEW T \in SUBSET Nat, T # {}
  PROVE  \E m \in T : \A k \in T : m <= k
<1> DEFINE R == OpToRel(<, Nat)
<1>1. IsWellFoundedOn(R, Nat) BY NatLessThanWellFounded
<1>2. \A x, y \in Nat : <<x, y>> \in R <=> x < y BY DEF OpToRel
<1> HIDE DEF R
<1>3. PICK x \in T : \A y \in T : ~(<<y, x>> \in R) BY <1>1, WFMin
<1>4. x \in Nat /\ \A y \in T : y \in Nat /\ ~(y < x) BY <1>2, <1>3
<1> QED BY <1>4

\* A set with 0, and with i + 1 whenever it has an i < n, has n.
LEMMA Induction ==
  ASSUME NEW n \in Nat, NEW T, 0 \in T,
         \A i \in Nat : i < n /\ i \in T => i + 1 \in T
  PROVE  n \in T
<1> DEFINE Out == {i \in Nat : i <= n /\ i \notin T}
<1> SUFFICES ASSUME n \notin T PROVE FALSE OBVIOUS
<1>1. Out \in SUBSET Nat /\ Out # {} OBVIOUS
<1> HIDE DEF Out
<1>2. PICK m \in Out : \A k \in Out : m <= k BY <1>1, LeastNumber
<1>3. m \in Nat /\ m <= n /\ m \notin T BY <1>2 DEF Out
<1>4. m # 0 BY <1>3
<1>5. m - 1 \in Nat /\ m - 1 < n /\ m - 1 \notin Out BY <1>2, <1>3, <1>4
<1>6. m - 1 \in T BY <1>3, <1>5 DEF Out
<1>7. (m - 1) + 1 \in T BY <1>5, <1>6
<1>8. (m - 1) + 1 = m BY <1>3
<1> QED BY <1>3, <1>7, <1>8

\* The subsets with at most n elements.
UpTo(eps, n) == {b \in SUBSET eps : Cardinality(b) <= n}

\* Taking one element away from a subset.
LEMMA UpToSmaller ==
  ASSUME NEW eps, IsFiniteSet(eps), NEW n \in Nat, NEW b \in UpTo(eps, n + 1), NEW e \in b
  PROVE  b \ {e} \in UpTo(eps, n)
<1>1. b \in SUBSET eps /\ IsFiniteSet(b) /\ Cardinality(b) \in Nat /\ Cardinality(b) <= n + 1
  BY FS_Subset, FS_CardinalityType DEF UpTo
<1>2. Cardinality(b \ {e}) = Cardinality(b) - 1 BY <1>1, FS_RemoveElement
<1> QED BY <1>1, <1>2 DEF UpTo

\* Subsets with at most n elements have at most n + 1; the empty one has none.
LEMMA UpToGrows ==
  ASSUME NEW eps, IsFiniteSet(eps), NEW n \in Nat
  PROVE  /\ UpTo(eps, n) \subseteq UpTo(eps, n + 1)
         /\ UpTo(eps, 0) = {{}}
         /\ UpTo(eps, Cardinality(eps)) = SUBSET eps
<1>1. \A b \in SUBSET eps : IsFiniteSet(b) /\ Cardinality(b) \in Nat /\ Cardinality(b) <= Cardinality(eps)
  BY FS_Subset, FS_CardinalityType
<1>2. \A b \in SUBSET eps : Cardinality(b) = 0 <=> b = {} BY <1>1, FS_EmptySet
<1>3. UpTo(eps, n) \subseteq UpTo(eps, n + 1) BY <1>1 DEF UpTo
<1>4. UpTo(eps, 0) = {{}}
  <2>1. \A b \in UpTo(eps, 0) : b = {} BY <1>1, <1>2 DEF UpTo
  <2>2. {} \in UpTo(eps, 0) BY <1>2 DEF UpTo
  <2> QED BY <2>1, <2>2
<1>5. UpTo(eps, Cardinality(eps)) = SUBSET eps BY <1>1 DEF UpTo
<1> QED BY <1>3, <1>4, <1>5

\* What banning a set of endpoints computes: the outcomes of banning one more each time.
LEMMA OutcomesAre ==
  ASSUME NEW h, NEW eps, IsFiniteSet(eps)
  PROVE  \E f : /\ f[{}] = {h}
                /\ \A b \in SUBSET eps : b # {} =>
                     f[b] = UNION {UNION {BanEndpoint(k, e) : k \in f[b \ {e}]} : e \in b}
                /\ BanEndpoints(h, eps) = f[eps]
<1> DEFINE Grown(f, b) == IF b = {} THEN {h}
                          ELSE UNION {UNION {BanEndpoint(k, e) : k \in f[b \ {e}]} : e \in b}
           Solves(f, n) == f = [b \in UpTo(eps, n) |-> Grown(f, b)]
           T == {n \in Nat : \E f : Solves(f, n)}
           N == Cardinality(eps)
<1>0. N \in Nat BY FS_CardinalityType
<1>1. 0 \in T
  <2> DEFINE f == [b \in UpTo(eps, 0) |-> {h}]
  <2>1. \A b \in UpTo(eps, 0) : Grown(f, b) = {h} BY UpToGrows
  <2>2. Solves(f, 0) BY <2>1
  <2> QED BY <2>2
<1>2. ASSUME NEW n \in Nat, n \in T PROVE n + 1 \in T
  <2>1. PICK f : Solves(f, n) BY <1>2
  <2> DEFINE g == [b \in UpTo(eps, n + 1) |-> Grown(f, b)]
  <2>2. \A b \in UpTo(eps, n) : f[b] = Grown(f, b) BY <2>1
  <2>3. \A b \in UpTo(eps, n + 1) : g[b] = Grown(f, b) OBVIOUS
  <2>4. \A b \in UpTo(eps, n) : g[b] = f[b] BY <2>2, <2>3, UpToGrows
  <2>5. g = [b \in UpTo(eps, n + 1) |-> g[b]] OBVIOUS
  <2> HIDE DEF g
  <2>6. ASSUME NEW b \in UpTo(eps, n + 1) PROVE Grown(g, b) = Grown(f, b)
    <3>1. \A e \in b : g[b \ {e}] = f[b \ {e}] BY <2>4, UpToSmaller
    <3> DEFINE One(x, e) == UNION {BanEndpoint(k, e) : k \in x}
    <3>2. \A e \in b : One(g[b \ {e}], e) = One(f[b \ {e}], e) BY <3>1
    <3> HIDE DEF One
    <3>3. {One(g[b \ {e}], e) : e \in b} = {One(f[b \ {e}], e) : e \in b} BY <3>2
    <3> QED BY <3>3 DEF One
  <2>7. \A b \in UpTo(eps, n + 1) : g[b] = Grown(g, b) BY <2>3, <2>6
  <2> HIDE DEF Grown
  <2>8. Solves(g, n + 1) BY <2>5, <2>7
  <2> QED BY <2>8
<1>3. N \in T
  <2> HIDE DEF T, N
  <2> QED BY <1>0, <1>1, <1>2, Induction
<1> DEFINE d == CHOOSE f : f = [b \in SUBSET eps |-> Grown(f, b)]
<1>4. d = [b \in SUBSET eps |-> Grown(d, b)]
  <2>1. UpTo(eps, N) = SUBSET eps BY <1>0, UpToGrows
  <2>2. \E f : Solves(f, N) BY <1>3
  <2>3. \E f : f = [b \in SUBSET eps |-> Grown(f, b)] BY <2>1, <2>2
  <2> HIDE DEF Grown
  <2> QED BY <2>3
<1>5. BanEndpoints(h, eps) = d[eps] BY DEF BanEndpoints
<1> HIDE DEF d
<1>6. \A b \in SUBSET eps : d[b] = Grown(d, b)
  <2> HIDE DEF Grown
  <2> QED BY <1>4
<1> QED BY <1>5, <1>6

-----------------------------------------------------------------------------
(* Killing and banning.                                                     *)

\* killEndpoint() gives up an endpoint, but forgets none.
LEMMA KillKeeps ==
  ASSUME NEW h, IsHandler(h), NEW k \in KillEndpoint(h)
  PROVE  /\ IsHandler(k) /\ Known(k) = Known(h) /\ k.banned = h.banned
         /\ Apart(h) => Apart(k)
<1> DEFINE killed == [h EXCEPT !.dead = @ \cup {h.active}]
<1>1. killed = [active |-> h.active, alternative |-> h.alternative,
                dead |-> h.dead \cup {h.active}, banned |-> h.banned]
  BY DEF IsHandler
<1> HIDE DEF killed
<1>2. CASE h.alternative # {}
  <2>1. PICK e \in h.alternative : k = [killed EXCEPT !.active = e, !.alternative = @ \ {e}]
    BY <1>2 DEF KillEndpoint, killed
  <2>2. k = [active |-> e, alternative |-> h.alternative \ {e}, dead |-> h.dead \cup {h.active},
             banned |-> h.banned]
    BY <1>1, <2>1
  <2>3. k.active = e /\ k.alternative = h.alternative \ {e} /\ k.dead = h.dead \cup {h.active}
    BY <2>2
  <2>4. Known(k) = Known(h) BY <2>1, <2>3 DEF Known, AliveEndpoints
  <2>5. k.banned = h.banned /\ IsHandler(k) BY <2>2 DEF IsHandler
  <2>6. Apart(h) => Apart(k) BY <2>1, <2>3 DEF Apart
  <2> QED BY <2>4, <2>5, <2>6
<1>3. CASE h.alternative = {}
  <2>1. PICK e \in killed.dead : k = [killed EXCEPT !.active = e, !.dead = @ \ {e}]
    BY <1>3 DEF KillEndpoint, killed
  <2>2. k = [active |-> e, alternative |-> h.alternative, dead |-> (h.dead \cup {h.active}) \ {e},
             banned |-> h.banned]
    BY <1>1, <2>1
  <2>3. e \in h.dead \cup {h.active} BY <1>1, <2>1
  <2>4. Apart(h) => Apart(k) BY <1>3, <2>2 DEF Apart
  <2> QED BY <2>2, <2>3, <2>4 DEF IsHandler, Known, AliveEndpoints
<1> QED BY <1>2, <1>3

\* A handler that has an endpoint besides the banned ones.
Spared(h, eps) ==
  /\ Fresh(h) /\ Known(h) \cap h.banned = {}
  /\ Known(h) \ eps # {}

\* What banning the endpoints eps may make of h.
Bans(h, eps, k) ==
  /\ IsHandler(k)
  /\ k.banned = h.banned \cup eps
  /\ Known(h) \subseteq Known(k) \cup k.banned
  /\ Known(k) \subseteq Known(h)
  /\ Fresh(h) => Fresh(k)
  /\ Spared(h, eps) => Known(k) \cap k.banned = {}

\* banEndpoint(): the endpoint goes, unless it is the only one.
LEMMA BanKeeps ==
  ASSUME NEW h, IsHandler(h), NEW ep, NEW k \in BanEndpoint(h, ep)
  PROVE  Bans(h, {ep}, k)
<1>1. PICK m \in IF h.active = ep THEN KillEndpoint(h) ELSE {h} :
        k = [m EXCEPT !.alternative = @ \ {ep}, !.dead = @ \ {ep}, !.banned = @ \cup {ep}]
  BY DEF BanEndpoint
<1>2. IsHandler(m) /\ Known(m) = Known(h) /\ m.banned = h.banned
  BY <1>1, KillKeeps
<1>3. k = [active |-> m.active, alternative |-> m.alternative \ {ep}, dead |-> m.dead \ {ep},
           banned |-> m.banned \cup {ep}]
  <2>1. m = [active |-> m.active, alternative |-> m.alternative, dead |-> m.dead,
             banned |-> m.banned]
    BY <1>2 DEF IsHandler
  <2> QED BY <1>1, <2>1
<1>4. /\ IsHandler(k) /\ k.banned = h.banned \cup {ep}
      /\ Known(h) \subseteq Known(k) \cup k.banned /\ Known(k) \subseteq Known(h)
  BY <1>2, <1>3 DEF IsHandler, Known, AliveEndpoints
<1>5. ASSUME Fresh(h), h.active = ep
      PROVE  /\ Fresh(k)
             /\ h.alternative # {} => k.active # ep
  <2> DEFINE killed == [h EXCEPT !.dead = @ \cup {h.active}]
  <2>1. killed = [active |-> ep, alternative |-> h.alternative, dead |-> {ep}, banned |-> h.banned]
    <3>1. h = [active |-> h.active, alternative |-> h.alternative, dead |-> h.dead,
               banned |-> h.banned]
      BY DEF IsHandler
    <3>2. killed = [active |-> h.active, alternative |-> h.alternative,
                    dead |-> h.dead \cup {h.active}, banned |-> h.banned]
      BY <3>1
    <3> QED BY <1>5, <3>2 DEF Fresh
  <2> HIDE DEF killed
  <2>2. CASE h.alternative # {}
    <3>1. PICK e \in h.alternative : m = [killed EXCEPT !.active = e, !.alternative = @ \ {e}]
      BY <1>1, <1>5, <2>2 DEF KillEndpoint, killed
    <3>2. m = [active |-> e, alternative |-> h.alternative \ {e}, dead |-> {ep},
               banned |-> h.banned]
      BY <2>1, <3>1
    <3>3. e # ep BY <1>5, <3>1 DEF Fresh
    <3> QED BY <1>3, <3>2, <3>3 DEF Fresh
  <2>3. CASE h.alternative = {}
    <3>1. PICK e \in killed.dead : m = [killed EXCEPT !.active = e, !.dead = @ \ {e}]
      BY <1>1, <1>5, <2>3 DEF KillEndpoint, killed
    <3>2. m = [active |-> ep, alternative |-> h.alternative, dead |-> {}, banned |-> h.banned]
      BY <2>1, <3>1
    <3> QED BY <1>3, <2>3, <3>2 DEF Fresh
  <2> QED BY <2>2, <2>3
<1>6. ASSUME Fresh(h), h.active # ep PROVE Fresh(k) /\ k.active # ep
  BY <1>1, <1>3, <1>6 DEF Fresh
<1>7. ASSUME Spared(h, {ep}) PROVE Known(k) \cap k.banned = {}
  <2>1. k.active # ep
    <3>1. CASE h.active # ep BY <1>6, <1>7, <3>1 DEF Spared
    <3>2. CASE h.active = ep
      <4>1. h.alternative # {} BY <1>7, <3>2 DEF Spared, Fresh, Known, AliveEndpoints
      <4> QED BY <1>5, <1>7, <3>2, <4>1 DEF Spared
    <3> QED BY <3>1, <3>2
  <2>2. ep \notin Known(k) BY <1>3, <2>1 DEF Known, AliveEndpoints
  <2> QED BY <1>4, <1>7, <2>2 DEF Spared
<1> QED BY <1>4, <1>5, <1>6, <1>7 DEF Bans

\* Banning one more.
LEMMA BansCompose ==
  ASSUME NEW h, NEW b, NEW m, Bans(h, b, m), NEW e, NEW k, Bans(m, {e}, k)
  PROVE  Bans(h, b \cup {e}, k)
<1>1. /\ IsHandler(k) /\ k.banned = h.banned \cup (b \cup {e})
      /\ Known(h) \subseteq Known(k) \cup k.banned /\ Known(k) \subseteq Known(h)
      /\ Fresh(h) => Fresh(k)
  BY DEF Bans
<1>2. ASSUME Spared(h, b \cup {e}) PROVE Known(k) \cap k.banned = {}
  <2>1. Spared(h, b) BY <1>2 DEF Spared
  <2>2. Fresh(m) /\ Known(m) \cap m.banned = {} BY <2>1 DEF Bans, Spared
  <2>3. PICK x \in Known(h) : x \notin b \cup {e} BY <1>2 DEF Spared
  <2>4. x \notin h.banned BY <1>2 DEF Spared
  <2>5. x \in Known(m) \ {e} BY <2>3, <2>4 DEF Bans
  <2>6. Spared(m, {e}) BY <2>2, <2>5 DEF Spared
  <2> QED BY <2>6 DEF Bans
<1> QED BY <1>1, <1>2 DEF Bans

\* banEndpoint() for each of a set of endpoints, whatever the order and the draws.
LEMMA AllBansKeep ==
  ASSUME NEW h, IsHandler(h), NEW eps, IsFiniteSet(eps), NEW k \in BanEndpoints(h, eps)
  PROVE  Bans(h, eps, k)
<1>1. PICK f : /\ f[{}] = {h}
               /\ \A b \in SUBSET eps : b # {} =>
                    f[b] = UNION {UNION {BanEndpoint(m, e) : m \in f[b \ {e}]} : e \in b}
               /\ BanEndpoints(h, eps) = f[eps]
  BY OutcomesAre
<1> DEFINE N == Cardinality(eps)
           T == {n \in Nat : \A b \in UpTo(eps, n) : \A m \in f[b] : Bans(h, b, m)}
<1>2. N \in Nat BY FS_CardinalityType
<1>3. 0 \in T
  <2>1. UpTo(eps, 0) = {{}} BY UpToGrows
  <2>2. Bans(h, {}, h)
    <3>1. h.banned = h.banned \cup {} OBVIOUS
    <3>2. Spared(h, {}) => Known(h) \cap h.banned = {} BY DEF Spared
    <3>3. Known(h) \subseteq Known(h) \cup h.banned /\ Known(h) \subseteq Known(h) OBVIOUS
    <3> QED BY <3>1, <3>2, <3>3, Zenon DEF Bans
  <2>3. f[{}] = {h} BY <1>1
  <2>4. ASSUME NEW b \in UpTo(eps, 0), NEW m \in f[b] PROVE Bans(h, b, m)
    <3>1. b = {} BY <2>1
    <3>2. m = h BY <2>3, <3>1
    <3> QED BY <2>2, <3>1, <3>2
  <2> QED BY <2>4
<1>4. ASSUME NEW n \in Nat, n \in T PROVE n + 1 \in T
  <2> SUFFICES ASSUME NEW b \in UpTo(eps, n + 1), NEW m \in f[b] PROVE Bans(h, b, m) OBVIOUS
  <2>1. b \in SUBSET eps BY DEF UpTo
  <2>2. CASE b = {} BY <1>1, <1>3, <2>2, UpToGrows
  <2>3. CASE b # {}
    <3>0. f[b] = UNION {UNION {BanEndpoint(x, e) : x \in f[b \ {e}]} : e \in b}
      BY <1>1, <2>1, <2>3
    <3>a. PICK e \in b : m \in UNION {BanEndpoint(x, e) : x \in f[b \ {e}]} BY <3>0
    <3>1. PICK x \in f[b \ {e}] : m \in BanEndpoint(x, e) BY <3>a
    <3>2. Bans(h, b \ {e}, x) BY <1>4, <3>1, UpToSmaller
    <3>b. IsHandler(x) BY <3>2 DEF Bans
    <3>3. Bans(x, {e}, m) BY <3>1, <3>b, BanKeeps
    <3>4. Bans(h, (b \ {e}) \cup {e}, m) BY <3>2, <3>3, BansCompose
    <3>5. (b \ {e}) \cup {e} = b BY <3>1
    <3> QED BY <3>4, <3>5
  <2> QED BY <2>2, <2>3
<1>5. N \in T
  <2> HIDE DEF T, N
  <2> QED BY <1>2, <1>3, <1>4, Induction
<1>6. eps \in UpTo(eps, N) BY <1>2, UpToGrows
<1> QED BY <1>1, <1>5, <1>6

-----------------------------------------------------------------------------
(* The constructor.                                                         *)

\* A peer lists finitely many endpoints.
LEMMA ListedFinite ==
  ASSUME NEW r \in Remote
  PROVE  IsFiniteSet(SeqRange(Listed[r]))
<1> DEFINE s == Listed[r]
           D == 1..Len(s)
           E == SeqRange(s)
<1>1. s \in Seq(Endpoint) /\ Len(s) \in Nat BY ListedAssumption
<1> HIDE DEF s
<1>2. IsFiniteSet(D) BY <1>1, FS_Interval
<1> DEFINE f == [i \in D |-> s[i]]
<1>3. f \in Surjection(D, E)
  <2>1. f \in [D -> E] BY DEF SeqRange
  <2>2. \A e \in E : \E i \in D : f[i] = e BY DEF SeqRange
  <2> QED BY <2>1, <2>2 DEF Surjection
<1> HIDE DEF f, D, E
<1>4. IsFiniteSet(E) BY <1>2, <1>3, FS_Surjection
<1> QED BY <1>4 DEF E, s

\* The constructor knows what the peer lists, and nothing else.
LEMMA CreatedKnows ==
  ASSUME NEW r \in Remote, NEW new, new = Created(Listed[r])
  PROVE  /\ IsHandler(new) /\ Fresh(new) /\ new.banned = {}
         /\ Known(new) = SeqRange(Listed[r]) /\ AliveEndpoints(new) = SeqRange(Listed[r])
<1> DEFINE s == Listed[r]
<1>1. s \in Seq(Endpoint) /\ s # <<>> /\ Len(s) \in Nat BY ListedAssumption
<1>2. Len(s) # 0 BY <1>1
<1>3. new = [active |-> s[1], alternative |-> {s[i] : i \in 2..Len(s)},
             dead |-> {}, banned |-> {}]
  BY DEF Created
<1>a. \A i \in 2..Len(s) : s[i] # s[1]
  <2>1. \A i, j \in 1..Len(s) : s[i] = s[j] => i = j BY ListedOnceAssumption
  <2>2. \A i \in 2..Len(s) : i \in 1..Len(s) /\ i # 1 BY <1>1
  <2>3. 1 \in 1..Len(s) BY <1>1, <1>2
  <2> QED BY <2>1, <2>2, <2>3
<1> HIDE DEF s
<1>4. IsHandler(new) /\ Fresh(new) /\ new.banned = {} BY <1>3, <1>a DEF IsHandler, Fresh
<1>5. AliveEndpoints(new) = SeqRange(s)
  <2>1. AliveEndpoints(new) = {s[i] : i \in 2..Len(s)} \cup {s[1]} BY <1>3 DEF AliveEndpoints
  <2>2. 1..Len(s) = (2..Len(s)) \cup {1} BY <1>1, <1>2
  <2>3. SeqRange(s) = {s[i] : i \in (2..Len(s)) \cup {1}} BY <2>2 DEF SeqRange
  <2> QED BY <2>1, <2>3
<1>6. Known(new) = AliveEndpoints(new) BY <1>3 DEF Known
<1> QED BY <1>4, <1>5, <1>6 DEF s

\* The handler that checkForEndpoints() registers.
LEMMA RegisteredHandler ==
  ASSUME NEW r \in Remote, NEW new, new = Created(Listed[r]),
         NEW h \in BanEndpoints(new, AliveEndpoints(new) \cap MyIps)
  PROVE  /\ HasListed(r, h) /\ Fresh(h)
         /\ Known(h) \subseteq SeqRange(Listed[r]) /\ Known(h) = AliveEndpoints(h)
<1> DEFINE mine == SeqRange(Listed[r]) \cap MyIps
<1>1. /\ IsHandler(new) /\ Fresh(new) /\ new.banned = {}
      /\ Known(new) = SeqRange(Listed[r]) /\ AliveEndpoints(new) = SeqRange(Listed[r])
  BY CreatedKnows
<1>2. IsFiniteSet(mine) BY ListedFinite, FS_Subset
<1>3. h \in BanEndpoints(new, mine) BY <1>1
<1> HIDE DEF mine
<1>4. Bans(new, mine, h) BY <1>1, <1>2, <1>3, AllBansKeep
<1>5. IsHandler(h) /\ h.banned = mine /\ Fresh(h)
  BY <1>1, <1>4 DEF Bans
<1>6. Known(h) \subseteq SeqRange(Listed[r]) /\ SeqRange(Listed[r]) \subseteq Known(h) \cup h.banned
  BY <1>1, <1>4 DEF Bans
<1>7. ASSUME OwnEndpoint(r) PROVE Known(h) \cap h.banned = {}
  <2>1. SeqRange(Listed[r]) \ mine # {} BY <1>7 DEF OwnEndpoint, mine
  <2>2. Spared(new, mine) BY <1>1, <2>1 DEF Spared
  <2> QED BY <1>4, <2>2 DEF Bans
<1>8. Known(h) = AliveEndpoints(h) BY <1>5 DEF Fresh, Known
<1>9. HasListed(r, h) BY <1>5, <1>6, <1>7 DEF HasListed, mine
<1> QED BY <1>5, <1>6, <1>8, <1>9

-----------------------------------------------------------------------------
(* The inductive invariant.                                                 *)

\* The recipients, seen as a set: none is there twice, and a new one comes after all of them.
LEMMA RecipientsAre ==
  ASSUME InOrder
  PROVE  /\ SeqRange(recipients) \subseteq Remote /\ Len(recipients) \in Nat
         /\ \A s \in SeqRange(recipients), r \in Remote :
              r \notin SeqRange(recipients) => s < r
<1>1. Len(recipients) \in Nat BY DEF InOrder
<1>2. \A i \in 1..Len(recipients) : recipients[i] \in Remote BY DEF InOrder
<1>3. SeqRange(recipients) \subseteq Remote BY <1>2 DEF SeqRange
<1>4. ASSUME NEW s \in SeqRange(recipients), NEW r \in Remote, r \notin SeqRange(recipients)
      PROVE  s < r
  <2>1. PICK i \in 1..Len(recipients) : s = recipients[i] BY DEF SeqRange
  <2>2. ~(r < s) BY <1>4, <2>1 DEF InOrder
  <2>3. r # s BY <1>4
  <2>4. r \in Nat /\ s \in Nat BY <1>3, ListedAssumption
  <2> QED BY <2>2, <2>3, <2>4
<1> QED BY <1>1, <1>3, <1>4

\* addRecipient() appends to the recipients.
LEMMA RecipientsGrow ==
  ASSUME InOrder, NEW r \in Remote, r \notin SeqRange(recipients),
         \A s \in Remote : s < r => s \in SeqRange(recipients),
         recipients' = Append(recipients, r)
  PROVE  InOrder' /\ SeqRange(recipients)' = SeqRange(recipients) \cup {r}
<1> DEFINE n == Len(recipients)
<1>1. /\ recipients \in Seq(Remote) /\ n \in Nat
      /\ recipients' \in Seq(Remote) /\ Len(recipients') = n + 1
      /\ \A i \in 1..n : recipients'[i] = recipients[i]
      /\ recipients'[n + 1] = r
  BY DEF InOrder
<1>2. 1..(n + 1) = (1..n) \cup {n + 1} BY <1>1
<1>3. SeqRange(recipients)' = SeqRange(recipients) \cup {r}
  <2>1. SeqRange(recipients)' = {recipients'[i] : i \in (1..n) \cup {n + 1}}
    BY <1>1, <1>2 DEF SeqRange
  <2>2. {recipients'[i] : i \in (1..n) \cup {n + 1}} = {recipients[i] : i \in 1..n} \cup {r}
    BY <1>1
  <2> QED BY <2>1, <2>2 DEF SeqRange
<1>4. \A i \in 1..n : recipients[i] \in SeqRange(recipients) BY DEF SeqRange
<1>5. \A i \in 1..n : recipients[i] < r BY <1>4, RecipientsAre
<1>6. \A i, j \in 1..(n + 1) : i < j => recipients'[i] < recipients'[j]
  <2> SUFFICES ASSUME NEW i \in 1..(n + 1), NEW j \in 1..(n + 1), i < j
               PROVE  recipients'[i] < recipients'[j]
    OBVIOUS
  <2>1. i \in 1..n BY <1>1
  <2>2. CASE j = n + 1 BY <1>1, <1>5, <2>1, <2>2
  <2>3. CASE j # n + 1
    <3>1. j \in 1..n BY <1>1, <2>3
    <3>2. recipients[i] < recipients[j] BY <2>1, <3>1 DEF InOrder
    <3> QED BY <1>1, <2>1, <3>1, <3>2
  <2> QED BY <2>2, <2>3
<1>7. ASSUME NEW i \in 1..(n + 1), NEW s \in Remote, s < recipients'[i]
      PROVE  s \in SeqRange(recipients) \cup {r}
  <2>1. CASE i = n + 1 BY <1>1, <1>7, <2>1
  <2>2. CASE i # n + 1
    <3>1. i \in 1..n BY <1>1, <2>2
    <3> QED BY <1>1, <1>7, <3>1 DEF InOrder
  <2> QED BY <2>1, <2>2
<1>8. InOrder' BY <1>1, <1>3, <1>6, <1>7 DEF InOrder
<1> QED BY <1>3, <1>8

\* An endpoint of its own keeps a handler that banned only what it may from being stuck.
LEMMA OwnIsSpared ==
  ASSUME NEW s \in Remote, NEW r \in Remote, r # s, NEW h, HasListed(s, h),
         Fresh(h), NEW eps \in SUBSET SeqRange(Listed[r]), OwnEndpoint(s)
  PROVE  Spared(h, eps)
<1>1. PICK x \in SeqRange(Listed[s]) :
        x \notin MyIps /\ \A q \in Remote \ {s} : x \notin SeqRange(Listed[q])
  BY DEF OwnEndpoint
<1>2. x \notin Later(s)
  <2>1. \A q \in Remote : q > s => q # s BY ListedAssumption
  <2> QED BY <1>1, <2>1 DEF Later
<1>3. x \notin h.banned BY <1>1, <1>2 DEF HasListed
<1>4. x \in Known(h) \ eps BY <1>1, <1>3 DEF HasListed
<1> QED BY <1>4 DEF Spared, HasListed

\* What registering r's handler h leaves of the handler of an earlier peer s.
LEMMA EarlierHandler ==
  ASSUME NEW s \in Remote, NEW r \in Remote, s < r,
         NEW m, HasListed(s, m), Starting(s, m),
         NEW again \in SUBSET SeqRange(Listed[r]), NEW k \in BanEndpoints(m, again)
  PROVE  /\ Bans(m, again, k) /\ HasListed(s, k) /\ Starting(s, k)
<1>1. IsFiniteSet(again) BY ListedFinite, FS_Subset
<1>2. Bans(m, again, k) BY <1>1, AllBansKeep DEF HasListed
<1>a. s \in Nat /\ r \in Nat BY ListedAssumption
<1>3. s # r BY <1>a
<1>4. SeqRange(Listed[r]) \subseteq Later(s) BY ListedAssumption DEF Later
<1>5. OwnEndpoint(s) => Known(k) \cap k.banned = {}
  BY <1>2, <1>3, OwnIsSpared DEF Bans, Starting
<1>6. /\ IsHandler(k) /\ k.banned = m.banned \cup again
      /\ Known(m) \subseteq Known(k) \cup k.banned /\ Known(k) \subseteq Known(m)
      /\ Fresh(k)
  BY <1>2 DEF Bans, Starting
<1>7. HasListed(s, k) BY <1>4, <1>5, <1>6 DEF HasListed
<1>8. Starting(s, k) BY <1>6 DEF Starting
<1> QED BY <1>2, <1>7, <1>8

\* checkForEndpoints() creates and registers a handler.
LEMMA CreateStep ==
  ASSUME EndpointsIInv, NEW r \in Remote, CreateHandler(r)
  PROVE  /\ EndpointsIInv'
         /\ handler[r] = NotCreated
         /\ \A s \in Remote \ {r} :
              Known(handler[s]) \subseteq Known(handler'[s]) \cup handler'[s].banned
         /\ \A s \in SeqRange(recipients') :
              Fresh(handler'[s]) /\ Known(handler'[s]) \subseteq SeqRange(Listed[s])
<1> DEFINE new == Created(Listed[r])
           S == SeqRange(recipients)
<1>1. PICK h \in BanEndpoints(new, AliveEndpoints(new) \cap MyIps) :
        LET again == {e \in AliveEndpoints(h) : e \in endpointsSeen \/ e = receiveEndpoint}
            After(s) == IF s = r THEN {h} ELSE IF s \in SeqRange(recipients)
                        THEN BanEndpoints(handler[s], again) ELSE {handler[s]}
        IN /\ \E k \in [Remote -> UNION {After(s) : s \in Remote}] :
                (\A s \in Remote : k[s] \in After(s)) /\ handler' = k
           /\ endpointsSeen' = endpointsSeen \cup (AliveEndpoints(h) \ again)
  BY DEF CreateHandler
<1> DEFINE again == {e \in AliveEndpoints(h) : e \in endpointsSeen \/ e = receiveEndpoint}
<1>2. /\ DOMAIN handler' = Remote
      /\ handler'[r] = h
      /\ \A s \in Remote \ {r} :
           handler'[s] \in IF s \in S THEN BanEndpoints(handler[s], again) ELSE {handler[s]}
      /\ endpointsSeen' = endpointsSeen \cup (AliveEndpoints(h) \ again)
  <2> DEFINE After(s) == IF s = r THEN {h} ELSE IF s \in SeqRange(recipients)
                         THEN BanEndpoints(handler[s], again) ELSE {handler[s]}
  <2>1. /\ handler' \in [Remote -> UNION {After(s) : s \in Remote}]
        /\ \A s \in Remote : handler'[s] \in After(s)
        /\ endpointsSeen' = endpointsSeen \cup (AliveEndpoints(h) \ again)
    BY <1>1
  <2> HIDE DEF again
  <2> QED BY <2>1
<1>3. /\ HasListed(r, h) /\ Fresh(h)
      /\ Known(h) \subseteq SeqRange(Listed[r]) /\ Known(h) = AliveEndpoints(h)
  <2> HIDE DEF new
  <2>1. new = Created(Listed[r]) BY DEF new
  <2> QED BY <2>1, RegisteredHandler
<1>4. again \subseteq SeqRange(Listed[r]) BY <1>3
<1>5. r \notin S /\ receiveEndpoint' = receiveEndpoint /\ InOrder' /\ SeqRange(recipients)' = S \cup {r}
  BY RecipientsGrow DEF CreateHandler, EndpointsIInv
<1>6. S \subseteq Remote /\ \A s \in S : s < r
  BY <1>5, RecipientsAre DEF EndpointsIInv
<1>7. ~Ready BY <1>5 DEF Ready
<1>8. \A s \in S : HasListed(s, handler[s]) /\ Starting(s, handler[s])
  BY <1>6, <1>7 DEF EndpointsIInv, HandlersHold
<1>9. \A e \in Known(h) : e \in again \/ e \in endpointsSeen' BY <1>2, <1>3
<1>10. \A e \in again : e \in endpointsSeen \/ e = receiveEndpoint OBVIOUS
<1>11. \A e \in Known(h) : e \in endpointsSeen \/ e = receiveEndpoint => e \in again BY <1>3
<1> HIDE DEF new, again, S
<1>12. endpointsSeen \subseteq endpointsSeen' BY <1>2
<1>13. ASSUME NEW s \in S
       PROVE  /\ Bans(handler[s], again, handler'[s]) /\ HasListed(s, handler'[s])
              /\ Starting(s, handler'[s])
  <2>1. s \in Remote /\ s # r BY <1>5, <1>6
  <2>2. handler'[s] \in BanEndpoints(handler[s], again) BY <1>2, <2>1
  <2> QED BY <1>4, <1>6, <1>8, <2>1, <2>2, EarlierHandler
<1>14. \A s \in S : Starting(s, handler[s])'
  <2>1. \A s \in S : Fresh(handler'[s]) /\ Known(handler'[s]) \subseteq
                       SeqRange(Listed[s]) \cap (endpointsSeen \cup {receiveEndpoint})
    BY <1>13 DEF Starting
  <2>2. \A s \in S : Fresh(handler'[s]) /\ Known(handler'[s]) \subseteq
                       SeqRange(Listed[s]) \cap (endpointsSeen' \cup {receiveEndpoint'})
    BY <1>5, <1>12, <2>1
  <2> QED BY <2>2 DEF Starting
<1>15. Starting(r, handler[r])'
  <2>1. Fresh(h) /\ Known(h) \subseteq SeqRange(Listed[r]) \cap (endpointsSeen' \cup {receiveEndpoint'})
    BY <1>3, <1>5, <1>9, <1>10, <1>12
  <2> QED BY <1>2, <2>1 DEF Starting
<1>16. HandlersHold'
  <2>1. ASSUME NEW s \in Remote, s \in S \cup {r}
        PROVE  HasListed(s, handler'[s]) /\ Starting(s, handler[s])'
    BY <1>2, <1>3, <1>13, <1>14, <1>15, <2>1
  <2>2. ASSUME NEW s \in Remote, s \notin S \cup {r} PROVE handler'[s] = NotCreated
    <3>1. handler'[s] = handler[s] BY <1>2, <2>2
    <3> QED BY <2>2, <3>1 DEF EndpointsIInv, HandlersHold, S
  <2> QED BY <1>2, <1>5, <2>1, <2>2 DEF HandlersHold
<1>17. KnownOnce'
  <2>1. \A s \in S \cup {r} : Known(handler'[s]) \subseteq SeqRange(Listed[s])
    BY <1>14, <1>15 DEF Starting
  <2>2. ASSUME NEW s \in S, OwnEndpoint(s) PROVE Known(handler'[s]) \cap Known(handler'[r]) = {}
    <3> SUFFICES ASSUME NEW x \in Known(handler'[s]), x \in Known(h) PROVE FALSE BY <1>2
    <3>1. x \in Known(handler[s]) BY <1>13 DEF Bans
    <3>2. x \in endpointsSeen \/ x = receiveEndpoint BY <1>8, <3>1 DEF Starting
    <3>3. x \in again BY <1>11, <3>2
    <3>4. x \in handler'[s].banned BY <1>13, <3>3 DEF Bans
    <3>5. Known(handler'[s]) \cap handler'[s].banned = {} BY <1>13, <2>2 DEF HasListed
    <3> QED BY <3>4, <3>5
  <2>3. ASSUME NEW s \in S, NEW t \in S, s # t, OwnEndpoint(s), OwnEndpoint(t)
        PROVE  Known(handler'[s]) \cap Known(handler'[t]) = {}
    <3>1. Known(handler[s]) \cap Known(handler[t]) = {} BY <2>3 DEF EndpointsIInv, KnownOnce, S
    <3>2. Known(handler'[s]) \subseteq Known(handler[s]) /\ Known(handler'[t]) \subseteq Known(handler[t])
      BY <1>13 DEF Bans
    <3> QED BY <3>1, <3>2
  <2>4. \A s, t \in S \cup {r} : s # t /\ OwnEndpoint(s) /\ OwnEndpoint(t)
          => Known(handler'[s]) \cap Known(handler'[t]) = {}
    BY <2>2, <2>3
  <2>5. SeqRange(recipients') = S \cup {r} /\ S \cup {r} \subseteq Remote BY <1>5, <1>6
  <2> QED BY <1>16, <2>1, <2>4, <2>5 DEF KnownOnce
<1>18. handler[r] = NotCreated BY <1>5 DEF EndpointsIInv, HandlersHold, S
<1>19. ASSUME NEW s \in Remote \ {r}
       PROVE  Known(handler[s]) \subseteq Known(handler'[s]) \cup handler'[s].banned
  <2>1. CASE s \in S BY <1>13, <2>1 DEF Bans
  <2>2. CASE s \notin S BY <1>2, <2>2
  <2> QED BY <2>1, <2>2
<1>20. ASSUME NEW s \in SeqRange(recipients')
       PROVE  Fresh(handler'[s]) /\ Known(handler'[s]) \subseteq SeqRange(Listed[s])
  <2>1. s \in S \cup {r} BY <1>5
  <2> QED BY <1>14, <1>15, <2>1 DEF Starting
<1> QED BY <1>5, <1>16, <1>17, <1>18, <1>19, <1>20 DEF EndpointsIInv

\* Once all handlers exist, a step that changes nothing that a handler knows or has banned.
LEMMA SameKnown ==
  ASSUME EndpointsIInv, Ready, recipients' = recipients, DOMAIN handler' = Remote,
         \A r \in Remote : /\ IsHandler(handler'[r]) /\ Known(handler'[r]) = Known(handler[r])
                           /\ handler'[r].banned = handler[r].banned
  PROVE  EndpointsIInv'
<1>1. InOrder' BY DEF EndpointsIInv, InOrder
<1>2. Ready' /\ SeqRange(recipients) = Remote BY DEF Ready
<1>3. \A r \in Remote : HasListed(r, handler[r])
  BY <1>2 DEF EndpointsIInv, HandlersHold
<1>4. \A r \in Remote : HasListed(r, handler'[r]) BY <1>3 DEF HasListed
<1>5. HandlersHold' BY <1>2, <1>4 DEF HandlersHold
<1>6. KnownOnce'
  <2>1. KnownOnce BY DEF EndpointsIInv
  <2> QED BY <1>2, <2>1 DEF KnownOnce
<1> QED BY <1>1, <1>5, <1>6 DEF EndpointsIInv

\* Every handler is one, once all exist.
LEMMA AllHandlers ==
  ASSUME EndpointsIInv, Ready
  PROVE  /\ DOMAIN handler = Remote
         /\ \A r \in Remote : IsHandler(handler[r]) /\ HasListed(r, handler[r])
BY DEF EndpointsIInv, HandlersHold, HasListed, Ready

\* An endpoint is given up.
LEMMA KillStep ==
  ASSUME EndpointsIInv, NEW r \in Remote, NEW ep, Kill(r, ep)
  PROVE  EndpointsIInv'
<1>1. PICK h \in KillEndpoint(handler[r]) : handler' = [handler EXCEPT ![r] = h] BY DEF Kill
<1>2. Ready /\ recipients' = recipients BY DEF Kill
<1>3. DOMAIN handler = Remote /\ \A s \in Remote : IsHandler(handler[s]) BY <1>2, AllHandlers
<1>4. IsHandler(h) /\ Known(h) = Known(handler[r]) /\ h.banned = handler[r].banned
  BY <1>1, <1>3, KillKeeps
<1>5. DOMAIN handler' = Remote /\ \A s \in Remote : handler'[s] = IF s = r THEN h ELSE handler[s]
  BY <1>1, <1>3
<1> QED BY <1>2, <1>3, <1>4, <1>5, SameKnown

\* Sending to a known endpoint from now on.
LEMMA ResurrectKeeps ==
  ASSUME NEW h, IsHandler(h), NEW ep, NEW k, k = Resurrect(h, ep)
  PROVE  /\ IsHandler(k) /\ Known(k) = Known(h) /\ k.banned = h.banned
         /\ Apart(h) => Apart(k)
<1>1. CASE ~HasEndpoint(h, ep) \/ ep = h.active BY <1>1 DEF Resurrect
<1>2. CASE HasEndpoint(h, ep) /\ ep # h.active
  <2>1. h = [active |-> h.active, alternative |-> h.alternative, dead |-> h.dead,
             banned |-> h.banned]
    BY DEF IsHandler
  <2> DEFINE alive == (h.alternative \cup {h.active}) \ {ep}
             dead == h.dead \ {ep}
  <2>2. k = [h EXCEPT !.active = ep, !.alternative = alive, !.dead = dead]
    BY <1>2 DEF Resurrect
  <2> HIDE DEF alive, dead
  <2>3. k = [active |-> ep, alternative |-> alive, dead |-> dead, banned |-> h.banned]
    BY <2>1, <2>2
  <2>4. IsHandler(k) /\ k.banned = h.banned BY <2>3 DEF IsHandler
  <2>5. Known(k) = alive \cup {ep} \cup dead BY <2>3 DEF Known, AliveEndpoints
  <2>6. ep \in Known(h) BY <1>2 DEF HasEndpoint
  <2>7. Known(h) = h.alternative \cup {h.active} \cup h.dead BY DEF Known, AliveEndpoints
  <2>8. Known(k) = Known(h) BY <2>5, <2>6, <2>7 DEF alive, dead
  <2>9. Apart(h) => Apart(k) BY <2>3 DEF Apart, alive, dead
  <2> QED BY <2>4, <2>8, <2>9
<1> QED BY <1>1, <1>2

\* Learning an endpoint.
LEMMA AddKeeps ==
  ASSUME NEW h, IsHandler(h), NEW ep, ep \notin h.banned, NEW k, k = AddEndpoint(h, ep)
  PROVE  /\ IsHandler(k) /\ Known(k) = Known(h) \cup {ep} /\ k.banned = h.banned
         /\ Apart(h) => Apart(k)
<1>1. CASE ep \in Known(h) BY <1>1 DEF AddEndpoint
<1>2. CASE ep \notin Known(h)
  <2>1. h = [active |-> h.active, alternative |-> h.alternative, dead |-> h.dead,
             banned |-> h.banned]
    BY DEF IsHandler
  <2> DEFINE more == h.alternative \cup {ep}
  <2>2. k = [h EXCEPT !.alternative = more] BY <1>2 DEF AddEndpoint
  <2> HIDE DEF more
  <2>3. k = [active |-> h.active, alternative |-> more, dead |-> h.dead, banned |-> h.banned]
    BY <2>1, <2>2
  <2>4. IsHandler(k) /\ k.banned = h.banned BY <2>3 DEF IsHandler
  <2>5. Known(k) = more \cup {h.active} \cup h.dead BY <2>3 DEF Known, AliveEndpoints
  <2>6. Known(k) = Known(h) \cup {ep} BY <2>5 DEF Known, AliveEndpoints, more
  <2>7. Apart(h) => Apart(k) BY <1>2, <2>3 DEF Apart, Known, AliveEndpoints, more
  <2> QED BY <2>4, <2>6, <2>7
<1> QED BY <1>1, <1>2

\* The first and the last of some indices.
LEMMA FirstAndLast ==
  ASSUME NEW S \in SUBSET Nat, NEW i \in S
  PROVE  /\ FirstOf(S) \in S /\ FirstOf(S) <= i
         /\ (\A j \in S : j <= i) => LastOf(S) = i
<1>1. \E m \in S : \A j \in S : m <= j BY LeastNumber
<1>2. FirstOf(S) \in S /\ \A j \in S : FirstOf(S) <= j
  <2> DEFINE P(m) == m \in S /\ \A j \in S : m <= j
  <2>1. \E m : P(m) BY <1>1
  <2>2. P(CHOOSE m : P(m)) BY <2>1, Zenon
  <2>3. FirstOf(S) = CHOOSE m : P(m) BY DEF FirstOf
  <2> QED BY <2>2, <2>3
<1>3. ASSUME \A j \in S : j <= i PROVE LastOf(S) = i
  <2>1. LastOf(S) \in S /\ \A j \in S : j <= LastOf(S) BY <1>3 DEF LastOf
  <2>2. LastOf(S) \in Nat /\ i \in Nat BY <2>1
  <2>3. LastOf(S) <= i /\ i <= LastOf(S) BY <1>3, <2>1
  <2> QED BY <2>2, <2>3
<1> QED BY <1>2, <1>3

\* An endpoint that nobody lists is banned nowhere, so the first peer's handler allows it.
LEMMA UnlistedGoesFirst ==
  ASSUME EndpointsIInv, Ready, NEW ep, \A q \in Remote : ep \notin SeqRange(Listed[q]),
         Allowing(ep) # {}
  PROVE  /\ recipients[FirstOf(Allowing(ep))] \in Remote
         /\ \A q \in Remote : recipients[FirstOf(Allowing(ep))] <= q
<1>1. SeqRange(recipients) = Remote /\ Len(recipients) \in Nat
  BY RecipientsAre DEF Ready, EndpointsIInv
<1>2. \A q \in Remote : ep \notin handler[q].banned
  <2>1. \A q \in Remote : ep \notin Later(q) BY DEF Later
  <2> QED BY <2>1, AllHandlers DEF HasListed
<1>3. \A i \in 1..Len(recipients) : recipients[i] \in Remote BY <1>1 DEF SeqRange
<1>4. Allowing(ep) = 1..Len(recipients) BY <1>2, <1>3 DEF Allowing
<1>5. Len(recipients) # 0 BY <1>1, <1>4
<1>6. 1 \in 1..Len(recipients) /\ 1..Len(recipients) \in SUBSET Nat BY <1>1, <1>5
<1>7. FirstOf(1..Len(recipients)) \in 1..Len(recipients) /\ FirstOf(1..Len(recipients)) <= 1
  BY <1>6, FirstAndLast
<1>8. FirstOf(Allowing(ep)) = 1 BY <1>1, <1>4, <1>7
<1>9. ASSUME NEW q \in Remote PROVE recipients[1] <= q
  <2>1. PICK j \in 1..Len(recipients) : q = recipients[j] BY <1>1 DEF SeqRange
  <2>2. recipients[1] \in Nat /\ q \in Nat BY <1>3, <1>6, ListedAssumption
  <2>3. 1 < j => recipients[1] < recipients[j] BY <1>6 DEF EndpointsIInv, InOrder
  <2> QED BY <1>1, <2>1, <2>2, <2>3
<1> QED BY <1>3, <1>6, <1>8, <1>9

\* A handler learns the source of a packet that no handler knows.
LEMMA LearnStep ==
  ASSUME EndpointsIInv, Ready, recipients' = recipients, NEW ep, Knowing(ep) = {},
         Allowing(ep) # {}, NEW s, s = recipients[FirstOf(Allowing(ep))],
         handler' = [handler EXCEPT ![s] = AddEndpoint(@, ep)]
  PROVE  EndpointsIInv'
<1> DEFINE k == AddEndpoint(handler[s], ep)
<1>1. SeqRange(recipients) = Remote /\ Len(recipients) \in Nat /\ Ready'
  BY RecipientsAre DEF Ready, EndpointsIInv
<1>2. DOMAIN handler = Remote /\ \A r \in Remote : IsHandler(handler[r]) /\ HasListed(r, handler[r])
  BY AllHandlers
<1>3. s \in Remote /\ ep \notin handler[s].banned
  <2>1. Allowing(ep) \in SUBSET Nat BY <1>1 DEF Allowing
  <2>2. FirstOf(Allowing(ep)) \in Allowing(ep) BY <2>1, FirstAndLast
  <2> QED BY <1>1, <2>2 DEF Allowing, SeqRange
<1>4. IsHandler(k) /\ Known(k) = Known(handler[s]) \cup {ep} /\ k.banned = handler[s].banned
  BY <1>2, <1>3, AddKeeps
<1>5. \A t \in Remote : ep \in Known(handler[t]) => ep \in handler[t].banned
  <2> SUFFICES ASSUME NEW t \in Remote, ep \in Known(handler[t]), ep \notin handler[t].banned
               PROVE  FALSE
    OBVIOUS
  <2>1. PICK i \in 1..Len(recipients) : recipients[i] = t BY <1>1 DEF SeqRange
  <2>2. i \in Knowing(ep) BY <2>1 DEF Knowing, HasEndpoint
  <2> QED BY <2>2
<1>6. DOMAIN handler' = Remote /\ \A t \in Remote : handler'[t] = IF t = s THEN k ELSE handler[t]
  BY <1>2, <1>3
<1> HIDE DEF k
<1>7. /\ \A t \in Remote : Known(handler'[t]) = IF t = s THEN Known(handler[t]) \cup {ep}
                                                ELSE Known(handler[t])
      /\ \A t \in Remote : handler'[t].banned = handler[t].banned /\ IsHandler(handler'[t])
  BY <1>2, <1>4, <1>6
<1>8. ASSUME NEW t \in Remote PROVE HasListed(t, handler'[t])
  <2>1. CASE t # s BY <1>2, <1>6, <2>1
  <2>2. CASE t = s
    <3>1. handler'[t] = k BY <1>6, <2>2
    <3>2. HasListed(t, handler[t]) /\ ep \notin handler[t].banned BY <1>2, <1>3, <2>2
    <3>3. Known(k) = Known(handler[t]) \cup {ep} /\ k.banned = handler[t].banned BY <1>4, <2>2
    <3>4. SeqRange(Listed[t]) \subseteq Known(k) \cup k.banned BY <3>2, <3>3 DEF HasListed
    <3>5. OwnEndpoint(t) => Known(k) \cap k.banned = {} BY <3>2, <3>3 DEF HasListed
    <3>6. HasListed(t, k) BY <1>4, <3>2, <3>3, <3>4, <3>5 DEF HasListed
    <3> QED BY <3>1, <3>6
  <2> QED BY <2>1, <2>2
<1>a. \A t \in Remote : Known(handler'[t]) \subseteq Known(handler[t]) \cup {ep}
  BY <1>7
<1>b. \A t \in Remote : t # s => Known(handler'[t]) = Known(handler[t]) BY <1>7
<1>c. \A t \in Remote : handler'[t].banned = handler[t].banned BY <1>7
<1>9. HandlersHold' BY <1>1, <1>6, <1>8 DEF HandlersHold, Ready
<1>10. InOrder' BY DEF EndpointsIInv, InOrder
<1>11. KnownOnce BY DEF EndpointsIInv
<1>12. ASSUME NEW r \in Remote, NEW t \in Remote, r # t, OwnEndpoint(r), OwnEndpoint(t)
       PROVE  Known(handler'[r]) \cap Known(handler'[t]) = {}
  <2>1. Known(handler[r]) \cap Known(handler[t]) = {} BY <1>1, <1>11, <1>12 DEF KnownOnce
  <2>2. ep \notin Known(handler[r]) /\ ep \notin Known(handler[t])
    BY <1>2, <1>5, <1>12 DEF HasListed
  <2>3. Known(handler'[r]) = Known(handler[r]) \/ Known(handler'[t]) = Known(handler[t])
    BY <1>b, <1>12
  <2>4. /\ Known(handler'[r]) \subseteq Known(handler[r]) \cup {ep}
        /\ Known(handler'[t]) \subseteq Known(handler[t]) \cup {ep}
    BY <1>a
  <2> QED BY <2>1, <2>2, <2>3, <2>4
<1>13. ASSUME NEW r \in Remote, NEW t \in Remote
       PROVE  (Known(handler'[r]) \ SeqRange(Listed[r])) \cap SeqRange(Listed[t])
                \subseteq handler'[t].banned
  <2>1. (Known(handler[r]) \ SeqRange(Listed[r])) \cap SeqRange(Listed[t]) \subseteq handler[t].banned
    BY <1>1, <1>11 DEF KnownOnce
  <2>2. ep \in SeqRange(Listed[t]) => ep \in handler[t].banned BY <1>2, <1>5 DEF HasListed
  <2>3. Known(handler'[r]) \subseteq Known(handler[r]) \cup {ep} BY <1>a
  <2>4. handler'[t].banned = handler[t].banned BY <1>c
  <2> QED BY <2>1, <2>2, <2>3, <2>4
<1>14. ASSUME NEW r \in Remote
       PROVE  \/ Known(handler'[r]) \subseteq UNION {SeqRange(Listed[q]) : q \in Remote}
              \/ \A q \in Remote : r <= q
  <2>1. \/ Known(handler[r]) \subseteq UNION {SeqRange(Listed[q]) : q \in Remote}
        \/ \A q \in Remote : r <= q
    BY <1>1, <1>11 DEF KnownOnce
  <2>2. CASE r # s BY <1>b, <2>1, <2>2
  <2>3. CASE ep \in UNION {SeqRange(Listed[q]) : q \in Remote}
    <3>1. Known(handler'[r]) \subseteq Known(handler[r]) \cup {ep} BY <1>a
    <3> DEFINE all == UNION {SeqRange(Listed[q]) : q \in Remote}
    <3> HIDE DEF all
    <3>2. ep \in all BY <2>3 DEF all
    <3>3. Known(handler[r]) \subseteq all \/ \A q \in Remote : r <= q BY <2>1 DEF all
    <3>4. Known(handler'[r]) \subseteq all \/ \A q \in Remote : r <= q BY <3>1, <3>2, <3>3
    <3> QED BY <3>4 DEF all
  <2>4. CASE r = s /\ ep \notin UNION {SeqRange(Listed[q]) : q \in Remote}
    <3>1. \A q \in Remote : ep \notin SeqRange(Listed[q]) BY <2>4
    <3> QED BY <2>4, <3>1, UnlistedGoesFirst
  <2> QED BY <2>2, <2>3, <2>4
<1>15. KnownOnce' BY <1>1, <1>12, <1>13, <1>14 DEF KnownOnce
<1> QED BY <1>9, <1>10, <1>15 DEF EndpointsIInv

\* A packet is received.
LEMMA ReceiveStep ==
  ASSUME EndpointsIInv, NEW r \in Remote, NEW ep, HandleReceive(r, ep)
  PROVE  EndpointsIInv'
<1>1. Ready /\ recipients' = recipients BY DEF HandleReceive
<1>2. DOMAIN handler = Remote /\ \A s \in Remote : IsHandler(handler[s]) BY <1>1, AllHandlers
<1>3. CASE handler' = [s \in Remote |-> Resurrect(handler[s], ep)]
  <2>1. DOMAIN handler' = Remote /\ \A s \in Remote : handler'[s] = Resurrect(handler[s], ep)
    BY <1>3
  <2>2. \A s \in Remote : /\ IsHandler(handler'[s]) /\ Known(handler'[s]) = Known(handler[s])
                          /\ handler'[s].banned = handler[s].banned
    BY <1>2, <2>1, ResurrectKeeps
  <2> QED BY <1>1, <2>1, <2>2, SameKnown
<1>4. CASE /\ Knowing(ep) = {} /\ Allowing(ep) # {}
           /\ handler' = [handler EXCEPT ![recipients[FirstOf(Allowing(ep))]] = AddEndpoint(@, ep)]
  BY <1>1, <1>4, LearnStep
<1>5. CASE handler' = handler BY <1>1, <1>2, <1>5, SameKnown
<1> QED BY <1>3, <1>4, <1>5 DEF HandleReceive

\* What the handlers know and have banned holds in every reachable state.
THEOREM EndpointsInvariance == Spec => []EndpointsIInv
<1>1. Init => EndpointsIInv
  <2> SUFFICES ASSUME Init PROVE EndpointsIInv OBVIOUS
  <2>1. recipients = <<>> /\ handler = [r \in Remote |-> NotCreated] BY DEF Init
  <2>2. SeqRange(recipients) = {} BY <2>1 DEF SeqRange
  <2>3. InOrder BY <2>1 DEF InOrder
  <2>4. HandlersHold BY <2>1, <2>2 DEF HandlersHold
  <2>5. KnownOnce BY <2>2 DEF KnownOnce
  <2> QED BY <2>3, <2>4, <2>5 DEF EndpointsIInv
<1>2. EndpointsIInv /\ [Next]_vars => EndpointsIInv'
  <2> SUFFICES ASSUME EndpointsIInv, [Next]_vars PROVE EndpointsIInv' OBVIOUS
  <2>1. ASSUME NEW r \in Remote, CreateHandler(r) PROVE EndpointsIInv' BY <2>1, CreateStep
  <2>2. ASSUME NEW r \in Remote, NEW ep \in Endpoint, Kill(r, ep) PROVE EndpointsIInv'
    BY <2>2, KillStep
  <2>3. ASSUME NEW r \in Remote, NEW ep \in Endpoint, HandleReceive(r, ep) PROVE EndpointsIInv'
    BY <2>3, ReceiveStep
  <2>4. CASE UNCHANGED vars
    BY <2>4 DEF vars, EndpointsIInv, InOrder, HandlersHold, KnownOnce, Starting, Ready
  <2> QED BY <2>1, <2>2, <2>3, <2>4 DEF Next
<1> QED BY <1>1, <1>2, PTL DEF Spec

-----------------------------------------------------------------------------
(* What the runs check.                                                     *)

\* A banned endpoint is never sent to again, and no two handlers send to the same one, for the
\* peers that have an endpoint of their own.
THEOREM BansAreKept == Spec => []BansHold
<1>1. EndpointsIInv => BansHold
  <2> SUFFICES ASSUME EndpointsIInv, NEW r \in Remote, NEW s \in Remote, OwnEndpoint(r), OwnEndpoint(s)
               PROVE  /\ Known(handler[r]) \cap handler[r].banned = {}
                      /\ Ready /\ r # s => Known(handler[r]) \cap Known(handler[s]) = {}
    BY DEF BansHold
  <2>1. Known(handler[r]) \cap handler[r].banned = {}
    <3>1. CASE r \in SeqRange(recipients) BY <3>1 DEF EndpointsIInv, HandlersHold, HasListed
    <3>2. CASE r \notin SeqRange(recipients)
      <4>1. handler[r] = NotCreated BY <3>2 DEF EndpointsIInv, HandlersHold
      <4> QED BY <4>1 DEF NotCreated
    <3> QED BY <3>1, <3>2
  <2>2. Ready /\ r # s => Known(handler[r]) \cap Known(handler[s]) = {}
    BY DEF EndpointsIInv, KnownOnce, Ready
  <2> QED BY <2>1, <2>2
<1> QED BY <1>1, EndpointsInvariance, PTL

\* Giving up, promoting, learning and banning never lose an endpoint that is not banned.
THEOREM NoEndpointIsLost == Spec => NoEndpointLost
<1> DEFINE Kept == \A r \in Remote :
             Known(handler[r]) \ {NoEndpoint} \subseteq Known(handler'[r]) \cup handler'[r].banned
<1>1. EndpointsIInv /\ [Next]_vars => Kept
  <2> SUFFICES ASSUME EndpointsIInv, [Next]_vars PROVE Kept OBVIOUS
  <2>1. ASSUME NEW r \in Remote, CreateHandler(r) PROVE Kept
    <3>1. handler[r] = NotCreated /\ \A s \in Remote \ {r} :
            Known(handler[s]) \subseteq Known(handler'[s]) \cup handler'[s].banned
      BY <2>1, CreateStep
    <3>2. Known(handler[r]) \ {NoEndpoint} = {} BY <3>1 DEF NotCreated, Known, AliveEndpoints
    <3>3. ASSUME NEW s \in Remote
          PROVE  Known(handler[s]) \ {NoEndpoint} \subseteq Known(handler'[s]) \cup handler'[s].banned
      <4>1. CASE s = r BY <3>2, <4>1
      <4>2. CASE s # r
        <5>1. Known(handler[s]) \subseteq Known(handler'[s]) \cup handler'[s].banned BY <3>1, <4>2
        <5> QED BY <5>1
      <4> QED BY <4>1, <4>2
    <3> QED BY <3>3
  <2>2. ASSUME Ready PROVE /\ DOMAIN handler = Remote
                           /\ \A s \in Remote : IsHandler(handler[s])
    BY <2>2, AllHandlers
  <2>3. ASSUME NEW r \in Remote, NEW ep \in Endpoint, Kill(r, ep) PROVE Kept
    <3>1. PICK h \in KillEndpoint(handler[r]) : handler' = [handler EXCEPT ![r] = h]
      BY <2>3 DEF Kill
    <3>2. Ready BY <2>3 DEF Kill
    <3>3. Known(h) = Known(handler[r]) BY <2>2, <3>2, KillKeeps
    <3>4. \A s \in Remote : handler'[s] = IF s = r THEN h ELSE handler[s] BY <2>2, <3>1, <3>2
    <3>5. \A s \in Remote : Known(handler[s]) = Known(handler'[s]) BY <3>3, <3>4
    <3> QED BY <3>5
  <2>4. ASSUME NEW r \in Remote, NEW ep \in Endpoint, HandleReceive(r, ep) PROVE Kept
    <3>1. Ready BY <2>4 DEF HandleReceive
    <3>2. CASE handler' = [s \in Remote |-> Resurrect(handler[s], ep)]
      <4>1. \A s \in Remote : handler'[s] = Resurrect(handler[s], ep) BY <3>2
      <4>2. \A s \in Remote : Known(handler[s]) = Known(handler'[s])
        BY <2>2, <3>1, <4>1, ResurrectKeeps
      <4> QED BY <4>2
    <3>3. CASE \E s : handler' = [handler EXCEPT ![s] = AddEndpoint(@, ep)]
      <4>1. PICK s : handler' = [handler EXCEPT ![s] = AddEndpoint(@, ep)] BY <3>3
      <4>2. \A t \in Remote : handler'[t] = IF t = s THEN AddEndpoint(handler[t], ep) ELSE handler[t]
        BY <2>2, <3>1, <4>1
      <4>3. ASSUME NEW t \in Remote PROVE Known(handler[t]) \subseteq Known(handler'[t])
        <5>1. CASE ep \in handler[t].banned BY <4>2, <5>1 DEF AddEndpoint
        <5>2. CASE ep \notin handler[t].banned
          <6> DEFINE k == AddEndpoint(handler[t], ep)
          <6>1. Known(k) = Known(handler[t]) \cup {ep} BY <2>2, <3>1, <5>2, AddKeeps
          <6> HIDE DEF k
          <6>2. handler'[t] = k \/ handler'[t] = handler[t] BY <4>2 DEF k
          <6> QED BY <6>1, <6>2
        <5> QED BY <5>1, <5>2
      <4> QED BY <4>3
    <3>4. CASE handler' = handler BY <3>4
    <3> QED BY <2>4, <3>2, <3>3, <3>4 DEF HandleReceive
  <2>5. CASE UNCHANGED vars BY <2>5 DEF vars
  <2> QED BY <2>1, <2>3, <2>4, <2>5 DEF Next
<1> QED BY <1>1, EndpointsInvariance, PTL DEF Spec, NoEndpointLost

\* Where handleReceive() gives a packet.
LEMMA GivenRight ==
  ASSUME SourcesListed, EndpointsIInv, NEW r \in Remote, NEW ep, HandleReceive(r, ep)
  PROVE  given'.from = given'.to \/ given' = given
<1>1. Ready /\ ep \in Source[r] BY DEF HandleReceive
<1>2. SeqRange(recipients) = Remote /\ Len(recipients) \in Nat
  BY <1>1, RecipientsAre DEF Ready, EndpointsIInv
<1>3. \A s \in Remote : HasListed(s, handler[s]) BY <1>1, AllHandlers
<1>4. \A i \in 1..Len(recipients) : recipients[i] \in Remote /\ recipients[i] \in Nat
  BY <1>2, ListedAssumption DEF SeqRange
<1>5. PICK i \in 1..Len(recipients) : recipients[i] = r BY <1>2 DEF SeqRange
<1>6. Knowing(ep) \in SUBSET Nat BY <1>2 DEF Knowing
<1>7. KnownOnce BY DEF EndpointsIInv
<1>8. \A j \in 1..Len(recipients) : recipients[j] <= r => j <= i
  <2> SUFFICES ASSUME NEW j \in 1..Len(recipients), recipients[j] <= r, ~(j <= i) PROVE FALSE
    OBVIOUS
  <2>1. i < j BY <1>2
  <2>2. recipients[i] < recipients[j] BY <2>1 DEF EndpointsIInv, InOrder
  <2> QED BY <1>4, <1>5, <2>2
<1>9. ASSUME i \in Knowing(ep), \A j \in Knowing(ep) : recipients[j] <= r
      PROVE  given' = [from |-> r, to |-> r]
  <2>1. \A j \in Knowing(ep) : j <= i BY <1>8, <1>9 DEF Knowing
  <2>2. LastOf(Knowing(ep)) = i BY <1>6, <1>9, <2>1, FirstAndLast
  <2> QED BY <1>5, <1>9, <2>2 DEF HandleReceive
<1>10. CASE ep \in SeqRange(Listed[r]) \ MyIps /\ \A s \in Remote : s > r => ep \notin SeqRange(Listed[s])
  <2>1. ep \notin Later(r) BY <1>10 DEF Later
  <2>2. ep \notin handler[r].banned BY <1>3, <1>10, <2>1 DEF HasListed
  <2>3. ep \in Known(handler[r]) BY <1>3, <1>10, <2>2 DEF HasListed
  <2>4. i \in Knowing(ep) BY <1>5, <2>2, <2>3 DEF Knowing, HasEndpoint
  <2>5. ASSUME NEW j \in Knowing(ep) PROVE recipients[j] <= r
    <3>1. j \in 1..Len(recipients) /\ ep \in Known(handler[recipients[j]])
      BY DEF Knowing, HasEndpoint
    <3>2. recipients[j] \in Remote /\ recipients[j] \in Nat /\ r \in Nat BY <1>4, <1>5, <3>1
    <3> SUFFICES ASSUME recipients[j] > r PROVE FALSE BY <3>2
    <3>3. ep \notin SeqRange(Listed[recipients[j]]) BY <1>10, <3>2
    <3>4. ep \in handler[r].banned BY <1>2, <1>7, <1>10, <3>1, <3>2, <3>3 DEF KnownOnce
    <3> QED BY <2>2, <3>4
  <2> QED BY <1>9, <2>4, <2>5
<1>11. CASE \A s \in Remote : ep \notin SeqRange(Listed[s]) /\ r <= s
  <2>1. CASE Knowing(ep) # {}
    <3>1. ASSUME NEW j \in Knowing(ep) PROVE recipients[j] = r
      <4>1. j \in 1..Len(recipients) /\ ep \in Known(handler[recipients[j]])
        BY DEF Knowing, HasEndpoint
      <4>2. recipients[j] \in Remote /\ recipients[j] \in Nat /\ r \in Nat BY <1>4, <1>5, <4>1
      <4>3. ~(Known(handler[recipients[j]]) \subseteq UNION {SeqRange(Listed[q]) : q \in Remote})
        BY <1>11, <4>1
      <4>4. \A q \in Remote : recipients[j] <= q BY <1>2, <1>7, <4>2, <4>3 DEF KnownOnce
      <4> QED BY <1>11, <4>2, <4>4
    <3>2. PICK j \in Knowing(ep) : recipients[j] = r BY <2>1, <3>1
    <3>3. i \in Knowing(ep) BY <1>5, <3>2 DEF Knowing
    <3>4. \A k \in Knowing(ep) : recipients[k] <= r BY <1>4, <1>5, <3>1
    <3> QED BY <1>9, <3>3, <3>4
  <2>2. CASE Knowing(ep) = {} /\ Allowing(ep) # {}
    <3> DEFINE s == recipients[FirstOf(Allowing(ep))]
    <3>1. s \in Remote /\ \A q \in Remote : s <= q BY <1>1, <1>11, <2>2, UnlistedGoesFirst
    <3>2. given' = [from |-> r, to |-> s] BY <2>2 DEF HandleReceive
    <3> HIDE DEF s
    <3>3. s = r BY <1>11, <3>1, ListedAssumption
    <3> QED BY <3>2, <3>3
  <2>3. CASE Knowing(ep) = {} /\ Allowing(ep) = {} BY <2>3 DEF HandleReceive
  <2> QED BY <2>1, <2>2, <2>3
<1>12. CASE ep \in MyIps /\ \A s \in Remote : ep \in SeqRange(Listed[s])
  <2>1. \A s \in Remote : ep \in handler[s].banned BY <1>3, <1>12 DEF HasListed
  <2>2. Knowing(ep) = {} /\ Allowing(ep) = {} BY <1>4, <2>1 DEF Knowing, Allowing, HasEndpoint
  <2> QED BY <2>2 DEF HandleReceive
<1> QED BY <1>1, <1>10, <1>11, <1>12 DEF SourcesListed

\* A packet goes to the handler of the peer that sent it, whatever was banned, given up or
\* learnt before, when the sources are the ones that the property is meant for.
THEOREM PacketsReachTheirHandler ==
  ASSUME SourcesListed
  PROVE  Spec => []GivenToSender
<1>1. Init => GivenToSender BY DEF Init, GivenToSender
<1>2. EndpointsIInv /\ GivenToSender /\ [Next]_vars => GivenToSender'
  <2> SUFFICES ASSUME EndpointsIInv, GivenToSender, [Next]_vars PROVE GivenToSender' OBVIOUS
  <2>1. ASSUME NEW r \in Remote, CreateHandler(r) PROVE GivenToSender'
    BY <2>1 DEF CreateHandler, GivenToSender
  <2>2. ASSUME NEW r \in Remote, NEW ep \in Endpoint, Kill(r, ep) PROVE GivenToSender'
    BY <2>2 DEF Kill, GivenToSender
  <2>3. ASSUME NEW r \in Remote, NEW ep \in Endpoint, HandleReceive(r, ep) PROVE GivenToSender'
    BY <2>3, GivenRight DEF GivenToSender
  <2>4. CASE UNCHANGED vars BY <2>4 DEF vars, GivenToSender
  <2> QED BY <2>1, <2>2, <2>3, <2>4 DEF Next
<1> QED BY <1>1, <1>2, EndpointsInvariance, PTL DEF Spec

-----------------------------------------------------------------------------
(* The types.                                                               *)

\* No handler has an endpoint in two places, and it has nothing but endpoints.
HandlersTidy ==
  \A r \in SeqRange(recipients) : Apart(handler[r]) /\ Known(handler[r]) \subseteq Endpoint

\* A recipient is registered once.
LEMMA RegisteredOnce ==
  ASSUME InOrder
  PROVE  Len(recipients) = Cardinality(SeqRange(recipients))
<1> DEFINE D == 1..Len(recipients)
           E == SeqRange(recipients)
           f == [i \in D |-> recipients[i]]
<1>1. Len(recipients) \in Nat /\ \A i \in D : recipients[i] \in Nat
  <2>1. recipients \in Seq(Remote) /\ Remote \subseteq Nat BY ListedAssumption DEF InOrder
  <2>2. Len(recipients) \in Nat BY <2>1
  <2>3. \A i \in D : recipients[i] \in Remote BY <2>1, <2>2
  <2> QED BY <2>1, <2>2, <2>3
<1>2. \A i, j \in D : recipients[i] = recipients[j] => i = j
  <2> SUFFICES ASSUME NEW i \in D, NEW j \in D, i # j PROVE recipients[i] # recipients[j] OBVIOUS
  <2>1. i < j \/ j < i BY <1>1
  <2>2. recipients[i] < recipients[j] \/ recipients[j] < recipients[i] BY <2>1 DEF InOrder
  <2> QED BY <1>1, <2>2
<1>3. f \in Bijection(D, E)
  <2>1. f \in [D -> E] BY DEF SeqRange
  <2>2. \A e \in E : \E i \in D : f[i] = e BY DEF SeqRange
  <2>3. \A i, j \in D : f[i] = f[j] => i = j BY <1>2
  <2> HIDE DEF f, D, E
  <2> QED BY <2>1, <2>2, <2>3 DEF Bijection, Injection, Surjection, IsInjective
<1>4. IsFiniteSet(D) /\ Cardinality(D) = Len(recipients)
  <2>1. IsFiniteSet(D) /\ Cardinality(D) = IF 1 > Len(recipients) THEN 0 ELSE Len(recipients) - 1 + 1
    BY <1>1, FS_Interval
  <2> HIDE DEF D
  <2> QED BY <1>1, <2>1
<1> HIDE DEF f, D, E
<1>5. Cardinality(E) = Cardinality(D) BY <1>3, <1>4, FS_Bijection DEF ExistsBijection
<1> QED BY <1>4, <1>5 DEF E

\* A handler whose endpoints are endpoints has the fields' types.
LEMMA HandlerTyped ==
  ASSUME NEW r \in Remote, NEW h, HasListed(r, h), Known(h) \subseteq Endpoint
  PROVE  h \in Handler
<1>1. \A q \in Remote : SeqRange(Listed[q]) \subseteq Endpoint
  BY ListedAssumption DEF SeqRange
<1>2. Later(r) \subseteq Endpoint BY <1>1 DEF Later
<1>3. h.banned \subseteq Endpoint BY <1>1, <1>2 DEF HasListed
<1>4. h = [active |-> h.active, alternative |-> h.alternative, dead |-> h.dead, banned |-> h.banned]
  BY DEF HasListed, IsHandler
<1>5. h.active \in Endpoint /\ h.alternative \subseteq Endpoint /\ h.dead \subseteq Endpoint
  BY DEF Known, AliveEndpoints
<1> QED BY <1>3, <1>4, <1>5 DEF Handler

\* A step keeps the three places of a handler's endpoints apart.
LEMMA TidyStep ==
  ASSUME EndpointsIInv, HandlersTidy, [Next]_vars
  PROVE  HandlersTidy'
<1>1. ASSUME NEW r \in Remote, CreateHandler(r) PROVE HandlersTidy'
  <2>1. \A s \in SeqRange(recipients') :
          Fresh(handler'[s]) /\ Known(handler'[s]) \subseteq SeqRange(Listed[s])
    BY <1>1, CreateStep
  <2>2. SeqRange(recipients') \subseteq Remote BY <1>1, RecipientsGrow, RecipientsAre DEF CreateHandler, EndpointsIInv
  <2>3. \A s \in Remote : SeqRange(Listed[s]) \subseteq Endpoint BY ListedAssumption DEF SeqRange
  <2>4. \A h : Fresh(h) => Apart(h) BY DEF Fresh, Apart
  <2> QED BY <2>1, <2>2, <2>3, <2>4 DEF HandlersTidy
<1>2. ASSUME Ready PROVE /\ DOMAIN handler = Remote
                         /\ \A s \in Remote : IsHandler(handler[s]) /\ Apart(handler[s])
                                              /\ Known(handler[s]) \subseteq Endpoint
  BY <1>2, AllHandlers DEF Ready, HandlersTidy
<1>3. ASSUME Ready, recipients' = recipients,
             \A s \in Remote : Apart(handler'[s]) /\ Known(handler'[s]) \subseteq Endpoint
      PROVE  HandlersTidy'
  BY <1>3 DEF Ready, HandlersTidy
<1>4. ASSUME NEW r \in Remote, NEW ep \in Endpoint, Kill(r, ep) PROVE HandlersTidy'
  <2>1. PICK h \in KillEndpoint(handler[r]) : handler' = [handler EXCEPT ![r] = h]
    BY <1>4 DEF Kill
  <2>2. Ready /\ recipients' = recipients BY <1>4 DEF Kill
  <2>3. Known(h) = Known(handler[r]) /\ Apart(h) BY <1>2, <2>1, <2>2, KillKeeps
  <2>4. \A s \in Remote : handler'[s] = IF s = r THEN h ELSE handler[s] BY <1>2, <2>1, <2>2
  <2>5. \A s \in Remote : Apart(handler'[s]) /\ Known(handler'[s]) \subseteq Endpoint
    BY <1>2, <2>2, <2>3, <2>4
  <2> QED BY <1>3, <2>2, <2>5
<1>5. ASSUME NEW r \in Remote, NEW ep \in Endpoint, HandleReceive(r, ep) PROVE HandlersTidy'
  <2>1. Ready /\ recipients' = recipients BY <1>5 DEF HandleReceive
  <2>2. CASE handler' = [s \in Remote |-> Resurrect(handler[s], ep)]
    <3>1. \A s \in Remote : handler'[s] = Resurrect(handler[s], ep) BY <2>2
    <3>2. \A s \in Remote : Apart(handler'[s]) /\ Known(handler'[s]) = Known(handler[s])
      BY <1>2, <2>1, <3>1, ResurrectKeeps
    <3> QED BY <1>2, <1>3, <2>1, <3>2
  <2>3. CASE \E s : handler' = [handler EXCEPT ![s] = AddEndpoint(@, ep)]
    <3>1. PICK s : handler' = [handler EXCEPT ![s] = AddEndpoint(@, ep)] BY <2>3
    <3>2. \A t \in Remote : handler'[t] = IF t = s THEN AddEndpoint(handler[t], ep) ELSE handler[t]
      BY <1>2, <2>1, <3>1
    <3>3. ASSUME NEW t \in Remote PROVE Apart(handler'[t]) /\ Known(handler'[t]) \subseteq Endpoint
      <4>1. CASE ep \in handler[t].banned BY <1>2, <2>1, <3>2, <4>1 DEF AddEndpoint
      <4>2. CASE ep \notin handler[t].banned
        <5> DEFINE k == AddEndpoint(handler[t], ep)
        <5>1. Known(k) = Known(handler[t]) \cup {ep} /\ Apart(k) BY <1>2, <2>1, <4>2, AddKeeps
        <5> HIDE DEF k
        <5>2. handler'[t] = k \/ handler'[t] = handler[t] BY <3>2 DEF k
        <5> QED BY <1>2, <2>1, <5>1, <5>2
      <4> QED BY <4>1, <4>2
    <3> QED BY <1>3, <2>1, <3>3
  <2>4. CASE handler' = handler BY <1>2, <1>3, <2>1, <2>4
  <2> QED BY <1>5, <2>2, <2>3, <2>4 DEF HandleReceive
<1>6. CASE UNCHANGED vars BY <1>6 DEF vars, HandlersTidy
<1> QED BY <1>1, <1>4, <1>5, <1>6 DEF Next

\* The endpoint that a handler sends to, those it may try and those it gave up never overlap,
\* however endpoints are killed, resurrected, learnt and banned; and no handler is registered
\* twice.
THEOREM EndpointsAreApart == Spec => []TypeOK
<1> DEFINE From == /\ receiveEndpoint \in Endpoint \cup {NoEndpoint}
                   /\ handler = [r \in Remote |-> handler[r]]
<1>1. Init => HandlersTidy /\ From
  <2> SUFFICES ASSUME Init PROVE HandlersTidy /\ From OBVIOUS
  <2>1. SeqRange(recipients) = {} BY DEF Init, SeqRange
  <2>2. HandlersTidy BY <2>1 DEF HandlersTidy
  <2>3. receiveEndpoint \in Endpoint \cup {NoEndpoint}
    <3> DEFINE Sources == UNION {Source[r] : r \in Remote}
    <3>1. Sources \subseteq Endpoint BY ListedAssumption
    <3>2. receiveEndpoint \in Sources \cup {NoEndpoint} BY DEF Init
    <3> HIDE DEF Sources
    <3> QED BY <3>1, <3>2
  <2>4. handler = [r \in Remote |-> handler[r]] BY DEF Init
  <2> QED BY <2>2, <2>3, <2>4
<1>2. EndpointsIInv /\ HandlersTidy /\ From /\ [Next]_vars => HandlersTidy' /\ From'
  <2> SUFFICES ASSUME EndpointsIInv, HandlersTidy, From, [Next]_vars PROVE HandlersTidy' /\ From'
    OBVIOUS
  <2>1. HandlersTidy' BY TidyStep
  <2>2. receiveEndpoint' \in Endpoint \cup {NoEndpoint}
    BY DEF Next, CreateHandler, Kill, HandleReceive, vars
  <2>3. handler' = [r \in Remote |-> handler'[r]]
    <3>1. ASSUME NEW r \in Remote, CreateHandler(r) PROVE handler' = [s \in Remote |-> handler'[s]]
      <4>1. \E F : handler' \in [Remote -> F] BY <3>1 DEF CreateHandler
      <4> QED BY <4>1
    <3>2. ASSUME NEW f, NEW s, NEW x, handler' = [f EXCEPT ![s] = x],
                 f = [r \in Remote |-> f[r]]
          PROVE  handler' = [r \in Remote |-> handler'[r]]
      BY <3>2
    <3>3. ASSUME NEW r \in Remote, NEW ep \in Endpoint, Kill(r, ep)
          PROVE  handler' = [s \in Remote |-> handler'[s]]
      <4>1. \E x : handler' = [handler EXCEPT ![r] = x] BY <3>3 DEF Kill
      <4> QED BY <3>2, <4>1
    <3>4. ASSUME NEW r \in Remote, NEW ep \in Endpoint, HandleReceive(r, ep)
          PROVE  handler' = [s \in Remote |-> handler'[s]]
      <4>1. CASE handler' = [s \in Remote |-> Resurrect(handler[s], ep)] BY <4>1
      <4>2. CASE \E s, x : handler' = [handler EXCEPT ![s] = x] BY <3>2, <4>2
      <4>3. CASE handler' = handler BY <4>3
      <4> QED BY <3>4, <4>1, <4>2, <4>3 DEF HandleReceive
    <3>5. CASE UNCHANGED vars BY <3>5 DEF vars
    <3> QED BY <3>1, <3>3, <3>4, <3>5 DEF Next
  <2> QED BY <2>1, <2>2, <2>3
<1>3. EndpointsIInv /\ HandlersTidy /\ From => TypeOK
  <2> SUFFICES ASSUME EndpointsIInv, HandlersTidy, From PROVE TypeOK OBVIOUS
  <2>1. ASSUME NEW r \in Remote PROVE handler[r] \in Handler /\ Apart(handler[r])
    <3>1. CASE r \in SeqRange(recipients)
      BY <3>1, HandlerTyped DEF HandlersTidy, EndpointsIInv, HandlersHold
    <3>2. CASE r \notin SeqRange(recipients)
      <4>1. handler[r] = NotCreated BY <3>2 DEF EndpointsIInv, HandlersHold
      <4> QED BY <4>1 DEF NotCreated, Handler, Apart
    <3> QED BY <3>1, <3>2
  <2>2. handler \in [Remote -> Handler]
    <3>1. handler = [r \in Remote |-> handler[r]] OBVIOUS
    <3> QED BY <2>1, <3>1
  <2>3. SeqRange(recipients) \subseteq Remote /\ Len(recipients) = Cardinality(SeqRange(recipients))
    BY RecipientsAre, RegisteredOnce DEF EndpointsIInv
  <2> QED BY <2>1, <2>2, <2>3 DEF TypeOK
<1> QED BY <1>1, <1>2, <1>3, EndpointsInvariance, PTL DEF Spec
=============================================================================
