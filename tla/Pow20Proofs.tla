---------------------------- MODULE Pow20Proofs ----------------------------
(***************************************************************************)
(* The POW20 indexer, for any transfers, any number of blocks, forks and   *)
(* crashes and any depth of the search: the balances and the supplies are  *)
(* what the events on record add up to, in the middle of a block and       *)
(* across rollbacks and crashes, no work is rewarded twice, and the extra  *)
(* tables and the cumulative hashes follow the events.                     *)
(***************************************************************************)
EXTENDS Pow20, TableTheorems

(* None, or one of S.                                                      *)
Maybe(S) == {v \in Seq(S) : Len(v) <= 1}

Offers(op) == {x \in Offered : x.op = op}

(* An event; what was inscribed is what the inscription says.              *)
Logged ==
  {e \in [type : {"deploy", "mint", "inscribe", "send"}, by : {x.by : x \in Offered}, tick : Ticks,
          from : Pks \cup {Nobody}, to : Pks \cup {Nobody}, amount : Nat,
          solution : Maybe({x.solution : x \in Offers("mint")}), h : 1 .. MaxHeight] :
     e.type = "inscribe" =>
       /\ e.from \in Pks
       /\ \E x \in Offers("transfer") : x.by = e.by /\ x.tick = e.tick /\ x.amount.n = e.amount}

Ticker == [tick : Ticks, max : Nat, limit : Nat, remaining : Int, dec : {x.dec : x \in Offers("deploy")},
           difficulty : {x.difficulty : x \in Offers("deploy")}, start : Nat, h : 1 .. MaxHeight]

BalanceRow == [pk : Pks, tick : Ticks, overall : Int, available : Int, h : 1 .. MaxHeight]

More == [difficulty : {x.difficulty : x \in Offers("deploy")}, start : Nat, hash : Nat]

CachedTicker == [remaining : Int, limit : Nat, dec : {x.dec : x \in Offers("deploy")}, more : Maybe(More)]

(* The events that raise and that lower the overall balance of an account, *)
(* those that lock a part of it, and the mints of a ticker.                *)
In(a)  == {e \in Logged : e.tick = a[2] /\ e.to = a[1] /\ e.type \in {"mint", "send"}}
Out(a) == {e \in Logged : e.tick = a[2] /\ e.from = a[1] /\ e.type = "send"}
Locked(es, a) ==
  {e \in Logged : /\ e.tick = a[2] /\ e.from = a[1] /\ e.type = "inscribe"
                  /\ ~ \E j \in DOMAIN es : es[j].type = "send" /\ es[j].by = e.by}
MintsOf(t) == {e \in Logged : e.type = "mint" /\ e.tick = t}

Once(es) ==
  \A i, j \in DOMAIN es : es[i].type = "inscribe" /\ es[j].type = "inscribe" /\ es[i].by = es[j].by => i = j

(* The last balance of an account in the rows hs.                          *)
OfAccount(hs, a) == {i \in DOMAIN hs : hs[i].pk = a[1] /\ hs[i].tick = a[2]}
Latest(hs, a) == CHOOSE i \in OfAccount(hs, a) : \A j \in OfAccount(hs, a) : j <= i
LastBalance(hs, a) ==
  IF OfAccount(hs, a) = {} THEN [overall |-> 0, available |-> 0]
  ELSE [overall |-> hs[Latest(hs, a)].overall, available |-> hs[Latest(hs, a)].available]

(* The balances hs follow from the events es.                              *)
BalanceFollows(es, hs, a) ==
  /\ LastBalance(hs, a).overall = SumOf(es, In(a)) - SumOf(es, Out(a))
  /\ LastBalance(hs, a).available >= 0
  /\ LastBalance(hs, a).available = LastBalance(hs, a).overall - SumOf(es, Locked(es, a))

Follows(es, hs) ==
  /\ Once(es)
  /\ \A i, j \in DOMAIN es :
       es[i].type = "mint" /\ es[j].type = "mint" /\ es[i].solution = es[j].solution => i = j
  /\ \A i \in DOMAIN es : es[i].type = "send" =>
       \E j \in DOMAIN es : es[j].type = "inscribe" /\ es[j].by = es[i].by
  /\ \A a \in Accounts : BalanceFollows(es, hs, a)

-----------------------------------------------------------------------------
(* The invariant                                                           *)

Between == {"xresidue", "extras", "xbalances", "xspent", "height", "hash", "tip", "walk", "read"}

Typed ==
  /\ fork \in 1 .. Forks /\ best \in Seq(1 .. Forks) /\ opi \in Seq(1 .. Forks)
  /\ Len(best) <= MaxHeight /\ Len(opi) <= MaxHeight
  /\ tickers \subseteq Ticker /\ evs \in Seq(Logged) /\ historic \in Seq(BalanceRow)
  /\ hashes \in Seq(Nat) /\ Height <= MaxHeight
  /\ hash \in Nat /\ left \in Seq(Offered)
  /\ ticks \in [Ticks -> Maybe(CachedTicker)]
  /\ cache \in [Accounts -> Maybe([overall : Int, available : Int])]
  /\ pc \in Between \cup {"down", "residue", "index", "store", "exit"}

(* A block is looked at only if the main indexer had one above the last    *)
(* hash; the walk starts at the last hash.                                 *)
Control ==
  /\ pc \in {"tip", "walk", "read", "index", "store"} => Height < MaxHeight
  /\ pc = "walk" => at \in 0 .. Height

(* What is on record is ahead of the hashes by a block at most, and not at *)
(* all between the look for residue and the first event.                   *)
RowHeights ==
  LET top == IF pc \in Between THEN Height ELSE Height + 1
  IN  /\ \A i \in DOMAIN evs : evs[i].h <= top
      /\ \A i \in DOMAIN historic : historic[i].h <= top
      /\ \A t \in tickers : t.h <= top

(* At every height to which the tables may be rolled back.                 *)
BookedIn(es, hs) == \A k \in 0 .. MaxHeight : Follows(Only(es, 0 .. k), Only(hs, 0 .. k))
Booked == BookedIn(evs, historic)

Supplies ==
  /\ \A t, u \in tickers : t.tick = u.tick => t = u
  /\ \A t \in tickers : t.remaining = t.max - SumOf(evs, MintsOf(t.tick)) /\ t.remaining >= 0

(* A mint is later than the deploy of its ticker and than the block that   *)
(* it has to name.                                                         *)
Worked ==
  \A i \in DOMAIN evs : evs[i].type = "mint" =>
    \E t \in tickers :
      /\ t.tick = evs[i].tick /\ t.h <= evs[i].h
      /\ t.start \in 1 .. evs[i].h - 1 /\ t.start <= Height
      /\ evs[i].solution # None /\ evs[i].solution[1].block = hashes[t.start]

Cached == \A a \in Accounts : cache[a] # None => cache[a][1] = LastBalance(historic, a)

(* The cache of tickers holds the tickers, and of those of earlier blocks  *)
(* the block that their mints must name.                                   *)
KnownTickers ==
  /\ \A tk \in Ticks : ticks[tk] # None => \E t \in tickers : t.tick = tk
  /\ \A t \in tickers :
       /\ ticks[t.tick] # None
       /\ ticks[t.tick][1].remaining = t.remaining
       /\ ticks[t.tick][1].more # None =>
            /\ t.h <= Height
            /\ ticks[t.tick][1].more[1].start = t.start
            /\ ticks[t.tick][1].more[1].hash = IF t.start \in DOMAIN hashes THEN hashes[t.start] ELSE NoBlock

TickersCached == pc = "index" /\ left # << >> => KnownTickers

IInv == Typed /\ Control /\ RowHeights /\ Booked /\ Supplies /\ Worked /\ Cached /\ TickersCached

-----------------------------------------------------------------------------
(* The last balance                                                        *)

LEMMA MaybeIs ==
  ASSUME NEW S
  PROVE  /\ None \in Maybe(S)
         /\ \A v \in S : Some(v) \in Maybe(S) /\ Some(v) # None /\ Some(v)[1] = v
         /\ \A m \in Maybe(S) : m # None => m[1] \in S /\ m = Some(m[1])
<1>1. None \in Maybe(S)
  BY EmptySeq DEF None, Maybe
<1>2. ASSUME NEW v \in S PROVE Some(v) \in Maybe(S) /\ Some(v) # None /\ Some(v)[1] = v
  BY DEF Some, None, Maybe
<1>3. ASSUME NEW m \in Maybe(S), m # None PROVE m[1] \in S /\ m = Some(m[1])
  <2>1. m \in Seq(S) /\ Len(m) \in Nat /\ Len(m) <= 1 /\ Len(m) # 0
    <3>1. m \in Seq(S) /\ Len(m) <= 1
      BY DEF Maybe
    <3>2. m # << >>
      BY <1>3 DEF None
    <3> QED
      BY <3>1, <3>2, EmptySeq
  <2>2. Len(m) = 1
    <3>1. \A n \in Nat : n <= 1 /\ n # 0 => n = 1
      OBVIOUS
    <3> QED
      BY <2>1, <3>1
  <2>3. m[1] \in S /\ << m[1] >> \in Seq(S) /\ Len(<< m[1] >>) = 1 /\ << m[1] >>[1] = m[1]
    BY <2>1, <2>2
  <2>4. m = << m[1] >>
    BY <2>1, <2>2, <2>3, SeqEqual
  <2> QED
    BY <2>3, <2>4 DEF Some
<1> QED
  BY <1>1, <1>2, <1>3

LEMMA LatestIs ==
  ASSUME NEW hs \in Seq(BalanceRow), NEW a, OfAccount(hs, a) # {}
  PROVE  Latest(hs, a) \in OfAccount(hs, a) /\ \A j \in OfAccount(hs, a) : j <= Latest(hs, a)
<1> DEFINE D == {Len(hs) - i : i \in OfAccount(hs, a)}
<1>1. /\ Len(hs) \in Nat /\ DOMAIN hs = 1 .. Len(hs)
      /\ \A i \in OfAccount(hs, a) : i \in 1 .. Len(hs)
  BY DEF OfAccount
<1>2. D \in SUBSET Nat /\ D # {}
  BY <1>1
<1> HIDE DEF D
<1>3. PICK m \in D : \A k \in D : m <= k
  BY <1>2, MinNat
<1>4. PICK i \in OfAccount(hs, a) : m = Len(hs) - i
  BY DEF D
<1>5. ASSUME NEW j \in OfAccount(hs, a) PROVE j <= i
  <2>1. Len(hs) - j \in D
    BY DEF D
  <2>2. m <= Len(hs) - j
    BY <1>3, <2>1
  <2> QED
    BY <1>1, <1>4, <2>2
<1> QED
  BY <1>5 DEF Latest

LEMMA BalanceType ==
  ASSUME NEW hs \in Seq(BalanceRow), NEW a
  PROVE  LastBalance(hs, a) \in [overall : Int, available : Int]
<1>1. CASE OfAccount(hs, a) = {}
  BY <1>1 DEF LastBalance
<1>2. CASE OfAccount(hs, a) # {}
  <2>1. Latest(hs, a) \in DOMAIN hs
    BY <1>2, LatestIs DEF OfAccount
  <2>2. hs[Latest(hs, a)] \in BalanceRow
    BY <2>1
  <2> QED
    BY <1>2, <2>2 DEF LastBalance, BalanceRow
<1> QED
  BY <1>1, <1>2

LEMMA BalanceEmpty ==
  ASSUME NEW a
  PROVE  LastBalance(<< >>, a) = [overall |-> 0, available |-> 0]
BY DEF LastBalance, OfAccount

LEMMA BalanceAppend ==
  ASSUME NEW hs \in Seq(BalanceRow), NEW r \in BalanceRow, NEW a
  PROVE  LastBalance(Append(hs, r), a) =
           IF r.pk = a[1] /\ r.tick = a[2] THEN [overall |-> r.overall, available |-> r.available]
           ELSE LastBalance(hs, a)
<1> DEFINE n == Len(hs)
<1> DEFINE more == Append(hs, r)
<1>1. /\ n \in Nat /\ DOMAIN hs = 1 .. n /\ DOMAIN more = 1 .. n + 1 /\ more[n + 1] = r
      /\ more \in Seq(BalanceRow)
      /\ \A i \in 1 .. n : more[i] = hs[i]
  OBVIOUS
<1> HIDE DEF n, more
<1>2. CASE r.pk = a[1] /\ r.tick = a[2]
  <2>1. n + 1 \in OfAccount(more, a)
    BY <1>1, <1>2 DEF OfAccount
  <2>2. Latest(more, a) \in OfAccount(more, a) /\ n + 1 <= Latest(more, a)
    BY <1>1, <2>1, LatestIs
  <2>3. Latest(more, a) = n + 1
    BY <1>1, <2>2 DEF OfAccount
  <2> QED
    BY <1>1, <1>2, <2>1, <2>3 DEF LastBalance, more
<1>3. CASE ~ (r.pk = a[1] /\ r.tick = a[2])
  <2>1. OfAccount(more, a) = OfAccount(hs, a)
    BY <1>1, <1>3 DEF OfAccount
  <2>2. Latest(more, a) = Latest(hs, a)
    BY <2>1 DEF Latest
  <2>3. OfAccount(hs, a) # {} => Latest(hs, a) \in 1 .. n
    BY <1>1, LatestIs DEF OfAccount
  <2>4. OfAccount(hs, a) # {} => more[Latest(more, a)] = hs[Latest(hs, a)]
    BY <1>1, <2>2, <2>3
  <2>5. LastBalance(more, a) = LastBalance(hs, a)
    BY <2>1, <2>4 DEF LastBalance
  <2> QED
    BY <1>3, <2>5 DEF more
<1> QED
  BY <1>2, <1>3

(* What the tables say is the last balance.                                *)
LEMMA StoredIs ==
  ASSUME historic \in Seq(BalanceRow), NEW a
  PROVE  Stored(a, MaxHeight) = LastBalance(historic, a)
<1>1. ASSUME NEW i \in DOMAIN historic PROVE historic[i].h <= MaxHeight
  <2>1. historic[i] \in BalanceRow
    OBVIOUS
  <2> QED
    BY <2>1, Pow20Assumption DEF BalanceRow
<1>2. RowsOf(a, MaxHeight) = OfAccount(historic, a)
  BY <1>1 DEF RowsOf, OfAccount
<1>3. LastRow(a, MaxHeight) = historic[Latest(historic, a)]
  BY <1>2 DEF LastRow, Latest
<1> QED
  BY <1>2, <1>3 DEF Stored, LastBalance

LEMMA BalanceIs ==
  ASSUME Typed, Cached, NEW a \in Accounts
  PROVE  Balance(a) = LastBalance(historic, a) /\ Balance(a) \in [overall : Int, available : Int]
<1>1. historic \in Seq(BalanceRow)
  BY DEF Typed
<1>2. Stored(a, MaxHeight) = LastBalance(historic, a)
  BY <1>1, StoredIs
<1> QED
  BY <1>1, <1>2, BalanceType DEF Balance, Cached

-----------------------------------------------------------------------------
(* One event more                                                          *)

LEMMA Amounts == \A e \in Logged : e.amount \in Nat
BY DEF Logged

LEMMA FollowsNothing == Follows(<< >>, << >>)
<1>1. ASSUME NEW a \in Accounts PROVE BalanceFollows(<< >>, << >>, a)
  <2>1. \A T : SumOf(<< >>, T) = 0
    BY SumOfNone
  <2>2. LastBalance(<< >>, a).overall = 0 /\ LastBalance(<< >>, a).available = 0
    BY BalanceEmpty
  <2> QED
    BY <2>1, <2>2 DEF BalanceFollows
<1> QED
  BY <1>1 DEF Follows, Once

(* The sums of an account after an event that is not a send.               *)
LEMMA SumsAfter ==
  ASSUME NEW es \in Seq(Logged), NEW e \in Logged, NEW a \in Accounts, e.type # "send"
  PROVE  LET more == Append(es, e)
             here == e.tick = a[2]
         IN  /\ SumOf(more, In(a)) = SumOf(es, In(a)) + (IF here /\ e.to = a[1] /\ e.type = "mint" THEN e.amount ELSE 0)
             /\ SumOf(more, Out(a)) = SumOf(es, Out(a))
             /\ SumOf(more, Locked(more, a)) = SumOf(es, Locked(es, a))
                  + (IF here /\ e.from = a[1] /\ e.type = "inscribe"
                        /\ ~ \E j \in DOMAIN es : es[j].type = "send" /\ es[j].by = e.by
                     THEN e.amount ELSE 0)
             /\ SumOf(es, In(a)) \in Nat /\ SumOf(es, Out(a)) \in Nat /\ SumOf(es, Locked(es, a)) \in Nat
<1> DEFINE more == Append(es, e)
<1>1. Locked(more, a) = Locked(es, a)
  <2>1. /\ Len(es) \in Nat /\ DOMAIN es = 1 .. Len(es) /\ DOMAIN more = 1 .. Len(es) + 1
        /\ more[Len(es) + 1] = e /\ \A i \in 1 .. Len(es) : more[i] = es[i]
    OBVIOUS
  <2> HIDE DEF more
  <2>2. \A by : (\E j \in DOMAIN more : more[j].type = "send" /\ more[j].by = by)
                <=> (\E j \in DOMAIN es : es[j].type = "send" /\ es[j].by = by)
    BY <2>1
  <2> QED
    BY <2>2 DEF Locked
<1>2. /\ SumOf(more, In(a)) = SumOf(es, In(a)) + (IF e \in In(a) THEN e.amount ELSE 0)
      /\ SumOf(more, Out(a)) = SumOf(es, Out(a)) + (IF e \in Out(a) THEN e.amount ELSE 0)
      /\ SumOf(more, Locked(es, a)) = SumOf(es, Locked(es, a)) + (IF e \in Locked(es, a) THEN e.amount ELSE 0)
  BY Amounts, SumOfAppend
<1>3. SumOf(es, In(a)) \in Nat /\ SumOf(es, Out(a)) \in Nat /\ SumOf(es, Locked(es, a)) \in Nat
  BY Amounts, SumOfNat
<1>4. /\ e \in In(a) <=> e.tick = a[2] /\ e.to = a[1] /\ e.type = "mint"
      /\ e \notin Out(a)
      /\ e \in Locked(es, a) <=>
           /\ e.tick = a[2] /\ e.from = a[1] /\ e.type = "inscribe"
           /\ ~ \E j \in DOMAIN es : es[j].type = "send" /\ es[j].by = e.by
  BY DEF In, Out, Locked
<1> HIDE DEF more
<1>5. SumOf(more, Out(a)) = SumOf(es, Out(a))
  BY <1>2, <1>3, <1>4
<1> QED
  BY <1>1, <1>2, <1>3, <1>4, <1>5 DEF more

(* What holds of the events alone, after one that is not a send.           *)
LEMMA EventsAfter ==
  ASSUME NEW es \in Seq(Logged), NEW hs, NEW e \in Logged, Follows(es, hs), e.type # "send",
         e.type = "mint" => \A i \in DOMAIN es : es[i].type = "mint" => es[i].solution # e.solution,
         e.type = "inscribe" => \A i \in DOMAIN es : es[i].type = "inscribe" => es[i].by # e.by
  PROVE  LET more == Append(es, e)
         IN  /\ \A i, j \in DOMAIN more :
                  more[i].type = "mint" /\ more[j].type = "mint" /\ more[i].solution = more[j].solution => i = j
             /\ \A i \in DOMAIN more : more[i].type = "send" =>
                  \E j \in DOMAIN more : more[j].type = "inscribe" /\ more[j].by = more[i].by
             /\ Once(more)
             /\ e.type = "inscribe" => ~ \E j \in DOMAIN es : es[j].type = "send" /\ es[j].by = e.by
<1> DEFINE n == Len(es)
<1> DEFINE more == Append(es, e)
<1>1. /\ n \in Nat /\ DOMAIN es = 1 .. n /\ DOMAIN more = 1 .. n + 1 /\ more[n + 1] = e
      /\ \A i \in 1 .. n : more[i] = es[i] /\ i \in 1 .. n + 1 /\ i # n + 1
      /\ \A i \in 1 .. n + 1 : i \in 1 .. n \/ i = n + 1
      /\ n + 1 \in 1 .. n + 1
  OBVIOUS
<1>2. /\ \A i, j \in DOMAIN es :
           es[i].type = "mint" /\ es[j].type = "mint" /\ es[i].solution = es[j].solution => i = j
      /\ \A i \in DOMAIN es : es[i].type = "send" =>
           \E j \in DOMAIN es : es[j].type = "inscribe" /\ es[j].by = es[i].by
      /\ Once(es)
  BY DEF Follows
<1> HIDE DEF n, more
<1>3. ASSUME NEW i \in DOMAIN more, NEW j \in DOMAIN more,
             more[i].type = "mint" /\ more[j].type = "mint" /\ more[i].solution = more[j].solution
      PROVE  i = j
  <2>1. CASE i = n + 1 /\ j \in 1 .. n
    BY <1>1, <1>3, <2>1
  <2>2. CASE j = n + 1 /\ i \in 1 .. n
    BY <1>1, <1>3, <2>2
  <2>3. CASE i \in 1 .. n /\ j \in 1 .. n
    BY <1>1, <1>2, <1>3, <2>3
  <2> QED
    BY <1>1, <2>1, <2>2, <2>3
<1>4. ASSUME NEW i \in DOMAIN more, more[i].type = "send"
      PROVE  \E j \in DOMAIN more : more[j].type = "inscribe" /\ more[j].by = more[i].by
  BY <1>1, <1>2, <1>4
<1>5. ASSUME NEW i \in DOMAIN more, NEW j \in DOMAIN more,
             more[i].type = "inscribe" /\ more[j].type = "inscribe" /\ more[i].by = more[j].by
      PROVE  i = j
  <2>1. CASE i = n + 1 /\ j \in 1 .. n
    BY <1>1, <1>5, <2>1
  <2>2. CASE j = n + 1 /\ i \in 1 .. n
    BY <1>1, <1>5, <2>2
  <2>3. CASE i \in 1 .. n /\ j \in 1 .. n
    BY <1>1, <1>2, <1>5, <2>3 DEF Once
  <2> QED
    BY <1>1, <2>1, <2>2, <2>3
<1>6. ASSUME e.type = "inscribe", NEW j \in DOMAIN es, es[j].type = "send", es[j].by = e.by
      PROVE  FALSE
  BY <1>2, <1>6
<1> QED
  BY <1>3, <1>4, <1>5, <1>6 DEF more, Once

(* What EventsAfter says of the events is the first half of Follows.       *)
LEMMA FollowsFrom ==
  ASSUME NEW es \in Seq(Logged), NEW hs, NEW e \in Logged, Follows(es, hs), e.type # "send",
         e.type = "mint" => \A i \in DOMAIN es : es[i].type = "mint" => es[i].solution # e.solution,
         e.type = "inscribe" => \A i \in DOMAIN es : es[i].type = "inscribe" => es[i].by # e.by,
         NEW hs2, \A a \in Accounts : BalanceFollows(Append(es, e), hs2, a)
  PROVE  Follows(Append(es, e), hs2)
<1> DEFINE more == Append(es, e)
<1>1. /\ \A i, j \in DOMAIN more :
           more[i].type = "mint" /\ more[j].type = "mint" /\ more[i].solution = more[j].solution => i = j
      /\ \A i \in DOMAIN more : more[i].type = "send" =>
           \E j \in DOMAIN more : more[j].type = "inscribe" /\ more[j].by = more[i].by
      /\ Once(more)
  BY EventsAfter
<1>2. \A a \in Accounts : BalanceFollows(more, hs2, a)
  OBVIOUS
<1> HIDE DEF more
<1>3. Follows(more, hs2)
  BY <1>1, <1>2, Zenon DEF Follows
<1> QED
  BY <1>3 DEF more

LEMMA FollowsDeploy ==
  ASSUME NEW es \in Seq(Logged), NEW hs \in Seq(BalanceRow), NEW e \in Logged, Follows(es, hs),
         e.type = "deploy"
  PROVE  Follows(Append(es, e), hs)
<1>1. ASSUME NEW a \in Accounts PROVE BalanceFollows(Append(es, e), hs, a)
  <2>1. BalanceFollows(es, hs, a)
    BY DEF Follows
  <2>2. LastBalance(hs, a).overall \in Int /\ LastBalance(hs, a).available \in Int
    BY BalanceType
  <2> QED
    BY <2>1, <2>2, SumsAfter DEF BalanceFollows
<1> QED
  BY <1>1, FollowsFrom

LEMMA FollowsMint ==
  ASSUME NEW es \in Seq(Logged), NEW hs \in Seq(BalanceRow), NEW e \in Logged, Follows(es, hs),
         e.type = "mint", \A i \in DOMAIN es : es[i].type = "mint" => es[i].solution # e.solution,
         NEW r \in BalanceRow, r.pk = e.to, r.tick = e.tick,
         r.overall = LastBalance(hs, <<e.to, e.tick>>).overall + e.amount,
         r.available = LastBalance(hs, <<e.to, e.tick>>).available + e.amount
  PROVE  Follows(Append(es, e), Append(hs, r))
<1>1. ASSUME NEW a \in Accounts PROVE BalanceFollows(Append(es, e), Append(hs, r), a)
  <2>1. BalanceFollows(es, hs, a)
    BY DEF Follows
  <2>2. LastBalance(hs, a).overall \in Int /\ LastBalance(hs, a).available \in Int /\ e.amount \in Nat
    BY BalanceType, Amounts
  <2>3. a = <<a[1], a[2]>>
    BY DEF Accounts
  <2>4. CASE e.to = a[1] /\ e.tick = a[2]
    <3>1. a = <<e.to, e.tick>>
      BY <2>3, <2>4
    <3>2. /\ LastBalance(Append(hs, r), a).overall = LastBalance(hs, a).overall + e.amount
          /\ LastBalance(Append(hs, r), a).available = LastBalance(hs, a).available + e.amount
      BY <2>4, <3>1, BalanceAppend
    <3>3. /\ SumOf(Append(es, e), In(a)) = SumOf(es, In(a)) + e.amount
          /\ SumOf(Append(es, e), Out(a)) = SumOf(es, Out(a))
          /\ SumOf(Append(es, e), Locked(Append(es, e), a)) = SumOf(es, Locked(es, a))
          /\ SumOf(es, In(a)) \in Nat /\ SumOf(es, Out(a)) \in Nat /\ SumOf(es, Locked(es, a)) \in Nat
      BY <2>4, SumsAfter
    <3>4. /\ LastBalance(hs, a).overall = SumOf(es, In(a)) - SumOf(es, Out(a))
          /\ LastBalance(hs, a).available >= 0
          /\ LastBalance(hs, a).available = LastBalance(hs, a).overall - SumOf(es, Locked(es, a))
      BY <2>1 DEF BalanceFollows
    <3> DEFINE es2 == Append(es, e)
               hs2 == Append(hs, r)
    <3>5. /\ LastBalance(hs2, a).overall = LastBalance(hs, a).overall + e.amount
          /\ LastBalance(hs2, a).available = LastBalance(hs, a).available + e.amount
          /\ SumOf(es2, In(a)) = SumOf(es, In(a)) + e.amount
          /\ SumOf(es2, Out(a)) = SumOf(es, Out(a))
          /\ SumOf(es2, Locked(es2, a)) = SumOf(es, Locked(es, a))
      BY <3>2, <3>3
    <3> SUFFICES BalanceFollows(es2, hs2, a)
      OBVIOUS
    <3>6. SumOf(es, In(a)) \in Nat /\ SumOf(es, Out(a)) \in Nat /\ SumOf(es, Locked(es, a)) \in Nat
      BY <3>3
    <3> HIDE DEF es2, hs2
    <3>7. LastBalance(hs2, a).overall = SumOf(es2, In(a)) - SumOf(es2, Out(a))
      BY <2>2, <3>4, <3>5, <3>6
    <3>8. LastBalance(hs2, a).available >= 0
      BY <2>2, <3>4, <3>5
    <3>9. LastBalance(hs2, a).available = LastBalance(hs2, a).overall - SumOf(es2, Locked(es2, a))
      BY <2>2, <3>4, <3>5, <3>6
    <3> QED
      BY <3>7, <3>8, <3>9 DEF BalanceFollows
  <2>5. CASE ~ (e.to = a[1] /\ e.tick = a[2])
    <3>1. LastBalance(Append(hs, r), a) = LastBalance(hs, a)
      BY <2>5, BalanceAppend
    <3>2. /\ SumOf(Append(es, e), In(a)) = SumOf(es, In(a))
          /\ SumOf(Append(es, e), Out(a)) = SumOf(es, Out(a))
          /\ SumOf(Append(es, e), Locked(Append(es, e), a)) = SumOf(es, Locked(es, a))
      BY <2>5, SumsAfter
    <3> QED
      BY <2>1, <2>2, <3>1, <3>2 DEF BalanceFollows
  <2> QED
    BY <2>4, <2>5
<1> QED
  BY <1>1, FollowsFrom

LEMMA FollowsInscribe ==
  ASSUME NEW es \in Seq(Logged), NEW hs \in Seq(BalanceRow), NEW e \in Logged, Follows(es, hs),
         e.type = "inscribe", \A i \in DOMAIN es : es[i].type = "inscribe" => es[i].by # e.by,
         NEW r \in BalanceRow, r.pk = e.from, r.tick = e.tick,
         r.overall = LastBalance(hs, <<e.from, e.tick>>).overall,
         r.available = LastBalance(hs, <<e.from, e.tick>>).available - e.amount,
         r.available >= 0
  PROVE  Follows(Append(es, e), Append(hs, r))
<1>1. ASSUME NEW a \in Accounts PROVE BalanceFollows(Append(es, e), Append(hs, r), a)
  <2>1. BalanceFollows(es, hs, a)
    BY DEF Follows
  <2>2. LastBalance(hs, a).overall \in Int /\ LastBalance(hs, a).available \in Int /\ e.amount \in Nat
    BY BalanceType, Amounts
  <2>3. ~ \E j \in DOMAIN es : es[j].type = "send" /\ es[j].by = e.by
    BY EventsAfter
  <2>4. a = <<a[1], a[2]>>
    BY DEF Accounts
  <2>5. CASE e.from = a[1] /\ e.tick = a[2]
    <3>1. a = <<e.from, e.tick>>
      BY <2>4, <2>5
    <3>2. /\ LastBalance(Append(hs, r), a).overall = LastBalance(hs, a).overall
          /\ LastBalance(Append(hs, r), a).available = LastBalance(hs, a).available - e.amount
          /\ LastBalance(Append(hs, r), a).available >= 0
      BY <2>5, <3>1, BalanceAppend
    <3>3. /\ SumOf(Append(es, e), In(a)) = SumOf(es, In(a))
          /\ SumOf(Append(es, e), Out(a)) = SumOf(es, Out(a))
          /\ SumOf(Append(es, e), Locked(Append(es, e), a)) = SumOf(es, Locked(es, a)) + e.amount
          /\ SumOf(es, In(a)) \in Nat /\ SumOf(es, Out(a)) \in Nat /\ SumOf(es, Locked(es, a)) \in Nat
      BY <2>3, <2>5, SumsAfter
    <3> QED
      BY <2>1, <2>2, <3>2, <3>3 DEF BalanceFollows
  <2>6. CASE ~ (e.from = a[1] /\ e.tick = a[2])
    <3>1. LastBalance(Append(hs, r), a) = LastBalance(hs, a)
      BY <2>6, BalanceAppend
    <3>2. /\ SumOf(Append(es, e), In(a)) = SumOf(es, In(a))
          /\ SumOf(Append(es, e), Out(a)) = SumOf(es, Out(a))
          /\ SumOf(Append(es, e), Locked(Append(es, e), a)) = SumOf(es, Locked(es, a))
      BY <2>6, SumsAfter
    <3> QED
      BY <2>1, <2>2, <3>1, <3>2 DEF BalanceFollows
  <2> QED
    BY <2>5, <2>6
<1> QED
  BY <1>1, FollowsFrom

(* A send takes out of what is locked what its inscription had locked.     *)
LEMMA LockedAfterSend ==
  ASSUME NEW es \in Seq(Logged), NEW e \in Logged, e.type = "send", NEW i \in DOMAIN es,
         \A j \in DOMAIN es : es[j].type = "inscribe" /\ es[j].by = e.by <=> j = i,
         es[i].tick = e.tick, es[i].from = e.from, es[i].amount = e.amount,
         ~ \E j \in DOMAIN es : es[j].type = "send" /\ es[j].by = e.by,
         NEW a \in Accounts
  PROVE  SumOf(es, Locked(es, a)) =
           SumOf(Append(es, e), Locked(Append(es, e), a)) + (IF a = <<e.from, e.tick>> THEN e.amount ELSE 0)
<1> DEFINE n == Len(es)
<1> DEFINE more == Append(es, e)
<1> DEFINE rest == {x \in Locked(es, a) : x.by # e.by}
<1> DEFINE this == {x \in Locked(es, a) : x.by = e.by}
<1>1. /\ n \in Nat /\ DOMAIN es = 1 .. n /\ DOMAIN more = 1 .. n + 1 /\ more[n + 1] = e
      /\ \A j \in 1 .. n : more[j] = es[j]
  OBVIOUS
<1>2. Locked(more, a) = rest
  <2> HIDE DEF more
  <2>1. \A by : (\E j \in DOMAIN more : more[j].type = "send" /\ more[j].by = by)
                <=> by = e.by \/ \E j \in DOMAIN es : es[j].type = "send" /\ es[j].by = by
    <3> HIDE DEF n
    <3>1. n + 1 \in 1 .. n + 1 /\ \A j \in 1 .. n : j \in 1 .. n + 1
      BY <1>1
    <3>2. \A j \in 1 .. n + 1 : j \in 1 .. n \/ j = n + 1
      BY <1>1
    <3> QED
      BY <1>1, <3>1, <3>2
  <2>2. ASSUME NEW x PROVE x \in Locked(more, a) <=> x \in rest
    BY <2>1 DEF Locked
  <2> HIDE DEF rest
  <2> QED
    BY <2>2
<1>3. SumOf(more, rest) = SumOf(es, rest) /\ SumOf(es, rest) \in Nat
  <2>1. e \notin rest
    BY DEF Locked
  <2>2. SumOf(more, rest) = SumOf(es, rest) + (IF e \in rest THEN e.amount ELSE 0) /\ SumOf(es, rest) \in Nat
    BY Amounts, SumOfAppend, SumOfNat
  <2> QED
    BY <2>1, <2>2
<1>4. SumOf(es, Locked(es, a)) = SumOf(es, rest) + SumOf(es, this)
  <2>1. rest \cap this = {} /\ rest \cup this = Locked(es, a)
    OBVIOUS
  <2> HIDE DEF rest, this
  <2> QED
    BY <2>1, Amounts, SumOfUnion
<1>5. \A j \in DOMAIN es : es[j] \in this <=> j = i /\ a = <<e.from, e.tick>>
  <2>1. es[i] \in Logged /\ a = <<a[1], a[2]>>
    BY DEF Accounts
  <2>2. a = <<e.from, e.tick>> <=> e.tick = a[2] /\ e.from = a[1]
    BY <2>1
  <2>3. ASSUME NEW j \in DOMAIN es, es[j] \in this PROVE j = i /\ a = <<e.from, e.tick>>
    <3>1. es[j].type = "inscribe" /\ es[j].by = e.by /\ es[j].tick = a[2] /\ es[j].from = a[1]
      BY <2>3 DEF Locked
    <3> QED
      BY <2>2, <3>1
  <2>4. ASSUME a = <<e.from, e.tick>> PROVE es[i] \in this
    <3>1. es[i].type = "inscribe" /\ es[i].by = e.by
      OBVIOUS
    <3> QED
      BY <2>1, <2>2, <2>4, <3>1 DEF Locked
  <2> QED
    BY <2>3, <2>4
<1>6. SumOf(es, this) = IF a = <<e.from, e.tick>> THEN e.amount ELSE 0
  <2> HIDE DEF this
  <2>1. CASE a = <<e.from, e.tick>>
    BY <1>5, <2>1, Amounts, SumOfOne
  <2>2. CASE a # <<e.from, e.tick>>
    BY <1>5, <2>2, SumOfNone
  <2> QED
    BY <2>1, <2>2
<1> HIDE DEF more, rest, this
<1> QED
  BY <1>2, <1>3, <1>4, <1>6 DEF more

LEMMA FollowsSend ==
  ASSUME NEW es \in Seq(Logged), NEW hs \in Seq(BalanceRow), NEW e \in Logged, Follows(es, hs),
         e.type = "send", NEW i \in DOMAIN es,
         \A j \in DOMAIN es : es[j].type = "inscribe" /\ es[j].by = e.by <=> j = i,
         es[i].tick = e.tick, es[i].from = e.from, es[i].amount = e.amount,
         ~ \E j \in DOMAIN es : es[j].type = "send" /\ es[j].by = e.by,
         NEW hs2 \in Seq(BalanceRow),
         \A a \in Accounts :
           /\ LastBalance(hs2, a).overall = LastBalance(hs, a).overall
                + (IF a = <<e.to, e.tick>> THEN e.amount ELSE 0) - (IF a = <<e.from, e.tick>> THEN e.amount ELSE 0)
           /\ LastBalance(hs2, a).available = LastBalance(hs, a).available
                + (IF a = <<e.to, e.tick>> THEN e.amount ELSE 0)
  PROVE  Follows(Append(es, e), hs2)
<1> DEFINE n == Len(es)
<1> DEFINE more == Append(es, e)
<1>1. /\ n \in Nat /\ DOMAIN es = 1 .. n /\ DOMAIN more = 1 .. n + 1 /\ more[n + 1] = e
      /\ \A j \in 1 .. n : more[j] = es[j] /\ j \in 1 .. n + 1
      /\ \A j \in 1 .. n + 1 : j \in 1 .. n \/ j = n + 1
  OBVIOUS
<1>2. ASSUME NEW a \in Accounts PROVE BalanceFollows(more, hs2, a)
  <2> DEFINE plus == IF a = <<e.to, e.tick>> THEN e.amount ELSE 0
  <2> DEFINE minus == IF a = <<e.from, e.tick>> THEN e.amount ELSE 0
  <2>1. plus \in Nat /\ minus \in Nat
    BY Amounts
  <2>2. a = <<a[1], a[2]>>
    BY DEF Accounts
  <2>3. SumOf(more, In(a)) = SumOf(es, In(a)) + plus
    <3>1. e \in In(a) <=> a = <<e.to, e.tick>>
      BY <2>2 DEF In
    <3> QED
      BY <3>1, Amounts, SumOfAppend
  <2>4. SumOf(more, Out(a)) = SumOf(es, Out(a)) + minus
    <3>1. e \in Out(a) <=> a = <<e.from, e.tick>>
      BY <2>2 DEF Out
    <3> QED
      BY <3>1, Amounts, SumOfAppend
  <2>5. SumOf(es, Locked(es, a)) = SumOf(more, Locked(more, a)) + minus
    BY LockedAfterSend
  <2>6. /\ SumOf(es, In(a)) \in Nat /\ SumOf(es, Out(a)) \in Nat
        /\ SumOf(more, Locked(more, a)) \in Nat
    <3>1. more \in Seq(Logged)
      OBVIOUS
    <3> HIDE DEF more
    <3> QED
      BY <3>1, Amounts, SumOfNat
  <2>7. /\ LastBalance(hs2, a).overall = LastBalance(hs, a).overall + plus - minus
        /\ LastBalance(hs2, a).available = LastBalance(hs, a).available + plus
        /\ LastBalance(hs, a).overall \in Int /\ LastBalance(hs, a).available \in Int
    BY BalanceType
  <2>8. BalanceFollows(es, hs, a)
    BY DEF Follows
  <2> HIDE DEF plus, minus, more
  <2>9. LastBalance(hs2, a).overall = SumOf(more, In(a)) - SumOf(more, Out(a))
    BY <2>1, <2>3, <2>4, <2>6, <2>7, <2>8 DEF BalanceFollows
  <2>10. LastBalance(hs2, a).available >= 0
    BY <2>1, <2>7, <2>8 DEF BalanceFollows
  <2>11. LastBalance(hs2, a).available = LastBalance(hs2, a).overall - SumOf(more, Locked(more, a))
    <3>1. LastBalance(hs, a).available = LastBalance(hs, a).overall - SumOf(es, Locked(es, a))
      BY <2>8 DEF BalanceFollows
    <3> QED
      BY <2>1, <2>5, <2>6, <2>7, <3>1
  <2> QED
    BY <2>9, <2>10, <2>11 DEF BalanceFollows
<1> HIDE DEF n, more
<1>3. ASSUME NEW k \in DOMAIN more, NEW j \in DOMAIN more,
             more[k].type = "mint" /\ more[j].type = "mint" /\ more[k].solution = more[j].solution
      PROVE  k = j
  <2>1. k \in 1 .. n /\ j \in 1 .. n
    BY <1>1, <1>3
  <2> QED
    BY <1>1, <1>3, <2>1 DEF Follows
<1>4. ASSUME NEW k \in DOMAIN more, more[k].type = "send"
      PROVE  \E j \in DOMAIN more : more[j].type = "inscribe" /\ more[j].by = more[k].by
  <2>1. CASE k = n + 1
    BY <1>1, <2>1
  <2>2. CASE k \in 1 .. n
    <3>1. PICK j \in DOMAIN es : es[j].type = "inscribe" /\ es[j].by = es[k].by
      BY <1>1, <1>4, <2>2 DEF Follows
    <3> QED
      BY <1>1, <2>2, <3>1
  <2> QED
    BY <1>1, <2>1, <2>2
<1>5. ASSUME NEW k \in DOMAIN more, NEW j \in DOMAIN more,
             more[k].type = "inscribe" /\ more[j].type = "inscribe" /\ more[k].by = more[j].by
      PROVE  k = j
  <2>1. k \in 1 .. n /\ j \in 1 .. n
    BY <1>1, <1>5
  <2> QED
    BY <1>1, <1>5, <2>1 DEF Follows, Once
<1> QED
  BY <1>2, <1>3, <1>4, <1>5 DEF Follows, Once, more

-----------------------------------------------------------------------------
(* Heights                                                                 *)

UpTo(rows, top) == \A i \in DOMAIN rows : rows[i].h <= top
SameBelow(rows, others, top) == \A k \in Nat : k < top => Only(rows, 0 .. k) = Only(others, 0 .. k)

(* Rows of the newest block change what there is at and above it only.     *)
LEMMA OnlyLater ==
  ASSUME NEW S, \A r \in S : r.h \in Nat, NEW rows \in Seq(S), NEW r \in S, NEW k \in Nat, k < r.h
  PROVE  Only(Append(rows, r), 0 .. k) = Only(rows, 0 .. k)
<1>1. r.h \notin 0 .. k
  OBVIOUS
<1> QED
  BY <1>1, OnlyAppend

LEMMA BookedGrows ==
  ASSUME NEW es, NEW hs, NEW es2 \in Seq(Logged), NEW hs2 \in Seq(BalanceRow), NEW top \in 1 .. MaxHeight,
         BookedIn(es, hs), SameBelow(es2, es, top), SameBelow(hs2, hs, top),
         UpTo(es2, top), UpTo(hs2, top), Follows(es2, hs2)
  PROVE  BookedIn(es2, hs2)
<1> SUFFICES ASSUME NEW k \in 0 .. MaxHeight
             PROVE  Follows(Only(es2, 0 .. k), Only(hs2, 0 .. k))
  BY DEF BookedIn
<1> USE DEF BookedIn, SameBelow, UpTo
<1>0. MaxHeight \in Nat
  BY Pow20Assumption
<1>1. CASE k < top
  BY <1>0, <1>1
<1>2. CASE ~ k < top
  <2>1. ASSUME NEW i \in 1 .. Len(es2) PROVE es2[i].h \in 0 .. k
    <3>1. es2[i] \in Logged /\ es2[i].h <= top
      BY ElementOfSeq
    <3>2. es2[i].h \in 1 .. MaxHeight
      BY <3>1 DEF Logged
    <3> QED
      BY <1>0, <1>2, <3>1, <3>2
  <2>2. ASSUME NEW i \in 1 .. Len(hs2) PROVE hs2[i].h \in 0 .. k
    <3>1. hs2[i] \in BalanceRow /\ hs2[i].h <= top
      BY ElementOfSeq
    <3>2. hs2[i].h \in 1 .. MaxHeight
      BY <3>1 DEF BalanceRow
    <3> QED
      BY <1>0, <1>2, <3>1, <3>2
  <2>3. Only(es2, 0 .. k) = es2 /\ Only(hs2, 0 .. k) = hs2
    BY <2>1, <2>2, OnlyAll
  <2> QED
    BY <2>3
<1> QED
  BY <1>1, <1>2

(* No row is above the highest block.                                      *)
LEMMA AllRows ==
  ASSUME Typed
  PROVE  Only(evs, 0 .. MaxHeight) = evs /\ Only(historic, 0 .. MaxHeight) = historic
<1>0. MaxHeight \in Nat /\ evs \in Seq(Logged) /\ historic \in Seq(BalanceRow)
  BY Pow20Assumption DEF Typed
<1>1. ASSUME NEW i \in 1 .. Len(evs) PROVE evs[i].h \in 0 .. MaxHeight
  <2>1. evs[i] \in Logged
    BY <1>0, ElementOfSeq
  <2>2. evs[i].h \in 1 .. MaxHeight
    BY <2>1 DEF Logged
  <2> QED
    BY <1>0, <2>2
<1>2. ASSUME NEW i \in 1 .. Len(historic) PROVE historic[i].h \in 0 .. MaxHeight
  <2>1. historic[i] \in BalanceRow
    BY <1>0, ElementOfSeq
  <2>2. historic[i].h \in 1 .. MaxHeight
    BY <2>1 DEF BalanceRow
  <2> QED
    BY <1>0, <2>2
<1> QED
  BY <1>0, <1>1, <1>2, OnlyAll

LEMMA NowFollows ==
  ASSUME Typed, Booked
  PROVE  Follows(evs, historic)
<1>1. MaxHeight \in 0 .. MaxHeight
  BY Pow20Assumption
<1> QED
  BY <1>1, AllRows DEF Booked, BookedIn

-----------------------------------------------------------------------------
(* Rollbacks                                                               *)

LEMMA PrefixIs ==
  ASSUME NEW S, NEW s \in Seq(S), NEW k \in 0 .. Len(s)
  PROVE  Prefix(s, k) \in Seq(S) /\ Len(Prefix(s, k)) = k /\ \A i \in 1 .. k : Prefix(s, k)[i] = s[i]
<1>1. Prefix(s, k) = SubSeq(s, 1, k)
  <2>1. Len(s) \in Nat
    OBVIOUS
  <2>2. (IF k < Len(s) THEN k ELSE Len(s)) = k
    BY <2>1
  <2> QED
    BY <2>2 DEF Prefix
<1>2. \A i \in 1 .. k : s[i] \in S
  OBVIOUS
<1> QED
  BY <1>1, <1>2

LEMMA MintedIs ==
  ASSUME evs \in Seq(Logged), NEW t, NEW k \in Nat
  PROVE  Minted(t, k) = SumOf(evs, {r \in MintsOf(t) : r.h \notin 0 .. k})
<1> DEFINE above == {r \in MintsOf(t) : r.h \notin 0 .. k}
<1>1. ASSUME NEW i \in DOMAIN evs
      PROVE  evs[i] \in above <=> evs[i].type = "mint" /\ evs[i].tick = t /\ evs[i].h > k
  <2>1. evs[i] \in Logged
    OBVIOUS
  <2>2. evs[i].h \in Nat
    BY <2>1, Pow20Assumption DEF Logged
  <2>3. evs[i].h \notin 0 .. k <=> evs[i].h > k
    BY <2>2
  <2> QED
    BY <2>1, <2>3 DEF MintsOf
<1> HIDE DEF above
<1>2. {i \in DOMAIN evs : evs[i].type = "mint" /\ evs[i].tick = t /\ evs[i].h > k} = {i \in DOMAIN evs : evs[i] \in above}
  BY <1>1
<1>3. Minted(t, k) = SumOf(evs, above)
  BY <1>2 DEF Minted, Total, SumOf
<1> QED
  BY <1>3 DEF above

(* What a rollback leaves, in whatever state the loop goes on.             *)
LEMMA RolledBack ==
  ASSUME IInv, NEW k \in 0 .. Height, ReorgFix(k)
  PROVE  /\ tickers' \subseteq Ticker /\ evs' \in Seq(Logged) /\ historic' \in Seq(BalanceRow)
         /\ hashes' \in Seq(Nat) /\ Height' = k
         /\ cache' \in [Accounts -> Maybe([overall : Int, available : Int])]
         /\ \A i \in DOMAIN evs' : evs'[i].h <= k
         /\ \A i \in DOMAIN historic' : historic'[i].h <= k
         /\ \A t \in tickers' : t.h <= k
         /\ Booked' /\ Supplies' /\ Worked' /\ Cached'
<1> DEFINE back(t) == [t EXCEPT !.remaining = @ + Minted(t.tick, k)]
<1>0. Typed /\ Booked /\ Supplies /\ Worked
  BY DEF IInv
<1>1. /\ evs \in Seq(Logged) /\ historic \in Seq(BalanceRow) /\ tickers \subseteq Ticker /\ hashes \in Seq(Nat)
      /\ Height \in Nat /\ Height <= MaxHeight /\ k \in Nat /\ k <= Height /\ MaxHeight \in Nat
  BY <1>0, Pow20Assumption DEF Typed, Height
<1>2. /\ evs' = Only(evs, 0 .. k) /\ historic' = Only(historic, 0 .. k)
      /\ hashes' = Prefix(hashes, k) /\ cache' = NoCache
      /\ tickers' = {back(t) : t \in {u \in tickers : u.h <= k}}
  BY DEF ReorgFix
<1>3. evs' \in Seq(Logged) /\ historic' \in Seq(BalanceRow)
  BY <1>1, <1>2, OnlyType
<1>4. hashes' \in Seq(Nat) /\ Height' = k /\ \A i \in 1 .. k : hashes'[i] = hashes[i]
  BY <1>1, <1>2, PrefixIs DEF Height
<1>5. cache' \in [Accounts -> Maybe([overall : Int, available : Int])]
  BY <1>2, MaybeIs DEF NoCache
<1>6. \A t \in tickers : Minted(t.tick, k) = SumOf(evs, {r \in MintsOf(t.tick) : r.h \notin 0 .. k})
                        /\ Minted(t.tick, k) \in Nat
  BY <1>1, MintedIs, Amounts, SumOfNat
<1>7. \A t \in tickers : /\ back(t) \in Ticker /\ back(t).tick = t.tick /\ back(t).h = t.h
                         /\ back(t).max = t.max /\ back(t).start = t.start
                         /\ back(t).remaining = t.remaining + Minted(t.tick, k)
  <2> TAKE t \in tickers
  <2>1. t \in Ticker /\ Minted(t.tick, k) \in Nat
    BY <1>1, <1>6
  <2> QED
    BY <2>1 DEF Ticker
<1> HIDE DEF back
<1>8. ASSUME NEW i \in DOMAIN evs' PROVE evs'[i].h \in 0 .. k /\ \E j \in DOMAIN evs : evs'[i] = evs[j]
  <2>1. i \in 1 .. Len(Only(evs, 0 .. k)) /\ DOMAIN evs = 1 .. Len(evs)
    BY <1>1, <1>2, <1>3
  <2>2. /\ Only(evs, 0 .. k)[i].h \in 0 .. k
        /\ \E j \in 1 .. Len(evs) : Only(evs, 0 .. k)[i] = evs[j]
    BY <1>1, <2>1, OnlyRows
  <2> QED
    BY <1>2, <2>1, <2>2
<1>9. ASSUME NEW i \in DOMAIN historic' PROVE historic'[i].h \in 0 .. k
  <2>1. i \in 1 .. Len(Only(historic, 0 .. k))
    BY <1>2, <1>3
  <2> QED
    BY <1>1, <1>2, <2>1, OnlyRows
<1>10. \A u \in tickers' : \E t \in tickers : u = back(t) /\ t.h <= k
  BY <1>2
<1>11. Booked'
  <2>1. ASSUME NEW j \in 0 .. MaxHeight PROVE Follows(Only(evs', 0 .. j), Only(historic', 0 .. j))
    <3> DEFINE m == IF j <= k THEN j ELSE k
    <3>1. m \in 0 .. MaxHeight /\ (0 .. k) \cap (0 .. j) = 0 .. m
      BY <1>1
    <3>2. Only(evs', 0 .. j) = Only(evs, (0 .. k) \cap (0 .. j))
          /\ Only(historic', 0 .. j) = Only(historic, (0 .. k) \cap (0 .. j))
      BY <1>1, <1>2, OnlyTwice
    <3> QED
      BY <1>0, <3>1, <3>2 DEF Booked, BookedIn
  <2> QED
    BY <2>1 DEF Booked, BookedIn
<1>12. Supplies'
  <2>1. ASSUME NEW t \in tickers', NEW u \in tickers', t.tick = u.tick PROVE t = u
    <3>1. PICK t0 \in tickers : t = back(t0)
      BY <1>10
    <3>2. PICK u0 \in tickers : u = back(u0)
      BY <1>10
    <3>3. t0.tick = u0.tick
      BY <1>7, <2>1, <3>1, <3>2
    <3> QED
      BY <1>0, <3>1, <3>2, <3>3 DEF Supplies
  <2>2. ASSUME NEW u \in tickers'
        PROVE  u.remaining = u.max - SumOf(evs', MintsOf(u.tick)) /\ u.remaining >= 0
    <3>1. PICK t \in tickers : u = back(t)
      BY <1>10
    <3>2. /\ u.tick = t.tick /\ u.max = t.max /\ u.remaining = t.remaining + Minted(t.tick, k)
          /\ t.max \in Nat /\ t.remaining \in Int
      BY <1>1, <1>7, <3>1 DEF Ticker
    <3>3. SumOf(evs, MintsOf(t.tick)) = SumOf(evs', MintsOf(t.tick)) + Minted(t.tick, k)
      <4>1. SumOf(evs, MintsOf(t.tick)) =
              SumOf(Only(evs, 0 .. k), MintsOf(t.tick)) + SumOf(evs, {r \in MintsOf(t.tick) : r.h \notin 0 .. k})
        <5> DEFINE T == MintsOf(t.tick)
        <5> DEFINE H == 0 .. k
        <5> HIDE DEF T, H
        <5>1. SumOf(evs, T) = SumOf(Only(evs, H), T) + SumOf(evs, {r \in T : r.h \notin H})
          BY <1>1, Amounts, SumOfOnly
        <5> QED
          BY <5>1 DEF T, H
      <4> QED
        BY <1>2, <1>6, <4>1
    <3>4. SumOf(evs', MintsOf(t.tick)) \in Nat /\ Minted(t.tick, k) \in Nat
      BY <1>3, <1>6, Amounts, SumOfNat
    <3>5. t.remaining = t.max - SumOf(evs, MintsOf(t.tick)) /\ t.remaining >= 0
      BY <1>0 DEF Supplies
    <3> QED
      BY <3>2, <3>3, <3>4, <3>5
  <2> QED
    BY <2>1, <2>2 DEF Supplies
<1>13. Worked'
  <2>1. ASSUME NEW i \in DOMAIN evs', evs'[i].type = "mint"
        PROVE  \E u \in tickers' :
                 /\ u.tick = evs'[i].tick /\ u.h <= evs'[i].h
                 /\ u.start \in 1 .. evs'[i].h - 1 /\ u.start <= Height'
                 /\ evs'[i].solution # None /\ evs'[i].solution[1].block = hashes'[u.start]
    <3>1. PICK j \in DOMAIN evs : evs'[i] = evs[j] /\ evs[j].h \in 0 .. k
      BY <1>8
    <3>2. PICK t \in tickers :
            /\ t.tick = evs[j].tick /\ t.h <= evs[j].h
            /\ t.start \in 1 .. evs[j].h - 1 /\ t.start <= Height
            /\ evs[j].solution # None /\ evs[j].solution[1].block = hashes[t.start]
      BY <1>0, <2>1, <3>1 DEF Worked
    <3>3. t.h <= k /\ t.start \in 1 .. k
      <4>1. t.h \in Int
        BY <1>1, Pow20Assumption DEF Ticker
      <4> QED
        BY <1>1, <3>1, <3>2, <4>1
    <3>4. back(t) \in tickers'
      BY <1>2, <3>3
    <3>5. hashes'[t.start] = hashes[t.start] /\ t.start <= Height'
      BY <1>1, <1>4, <3>3
    <3> QED
      BY <1>7, <3>1, <3>2, <3>4, <3>5
  <2> QED
    BY <2>1 DEF Worked
<1>14. Cached'
  <2>1. \A a \in Accounts : cache'[a] = None
    BY <1>2 DEF NoCache
  <2> QED
    BY <2>1 DEF Cached
<1>15. \A t \in tickers' : t \in Ticker /\ t.h <= k
  BY <1>7, <1>10
<1> QED
  BY <1>1, <1>3, <1>4, <1>5, <1>8, <1>9, <1>11, <1>12, <1>13, <1>14, <1>15

-----------------------------------------------------------------------------
(* The steps that neither log an event nor roll back                       *)

LEMMA Begins ==
  ASSUME Init
  PROVE  IInv
<1> USE DEF Init
<1>0. Height = 0 /\ MaxHeight \in Nat /\ Forks \in Nat \ {0}
  BY Pow20Assumption DEF Height
<1>1. Typed
  <2>1. \A S : << >> \in Seq(S)
    BY EmptySeq
  <2>2. ticks \in [Ticks -> Maybe(CachedTicker)]
    BY MaybeIs
  <2>3. cache \in [Accounts -> Maybe([overall : Int, available : Int])]
    BY MaybeIs DEF NoCache
  <2> QED
    BY <1>0, <2>1, <2>2, <2>3 DEF Typed, NoBlock
<1>2. Booked
  <2>1. \A H : Only(evs, H) = << >> /\ Only(historic, H) = << >>
    BY OnlyEmpty
  <2> QED
    BY <2>1, FollowsNothing DEF Booked, BookedIn
<1>3. Control /\ RowHeights /\ Supplies /\ Worked /\ TickersCached
  BY DEF Control, RowHeights, Supplies, Worked, TickersCached
<1>4. Cached
  BY DEF Cached, NoCache
<1> QED
  BY <1>1, <1>2, <1>3, <1>4 DEF IInv

LEMMA HeightsAre ==
  ASSUME Typed
  PROVE  /\ Height \in Nat /\ MaxHeight \in Nat
         /\ \A i \in DOMAIN evs : evs[i].h \in 1 .. MaxHeight
         /\ \A i \in DOMAIN historic : historic[i].h \in 1 .. MaxHeight
         /\ \A t \in tickers : t.h \in 1 .. MaxHeight
<1>1. Height \in Nat /\ MaxHeight \in Nat
  BY Pow20Assumption DEF Typed, Height
<1>2. \A i \in DOMAIN evs : evs[i] \in Logged
  BY DEF Typed
<1>3. \A i \in DOMAIN historic : historic[i] \in BalanceRow
  BY DEF Typed
<1>4. \A t \in tickers : t \in Ticker
  BY DEF Typed
<1> QED
  BY <1>1, <1>2, <1>3, <1>4 DEF Logged, BalanceRow, Ticker

(* The tables stay; what is ahead of the hashes has been looked for.       *)
LEMMA Quiet ==
  ASSUME IInv, UNCHANGED <<tickers, evs, historic, hashes, cache>>,
         Typed', Control', TickersCached', pc' \in Between => pc \in Between
  PROVE  IInv'
<1>1. /\ tickers' = tickers /\ evs' = evs /\ historic' = historic /\ hashes' = hashes /\ cache' = cache
      /\ Height' = Height
  BY DEF Height
<1>2. RowHeights'
  BY <1>1, HeightsAre DEF IInv, RowHeights
<1>3. Booked'
  BY <1>1 DEF IInv, Booked
<1>4. Supplies' /\ Worked' /\ Cached'
  BY <1>1 DEF IInv, Supplies, Worked, Cached
<1> QED
  BY <1>2, <1>3, <1>4 DEF IInv

(* The end of the process forgets what it had cached.                      *)
LEMMA Dies ==
  ASSUME IInv, Die
  PROVE  IInv'
<1>1. /\ tickers' = tickers /\ evs' = evs /\ historic' = historic /\ hashes' = hashes /\ Height' = Height
      /\ best' = best /\ fork' = fork /\ opi' = opi /\ pc' = "down"
      /\ hash' = NoBlock /\ left' = << >> /\ ticks' = [t \in Ticks |-> None] /\ cache' = NoCache
  BY DEF Die, Idle, Goto, ord, main, Height
<1>2. Typed'
  <2>1. << >> \in Seq(Offered)
    BY EmptySeq
  <2>2. ticks' \in [Ticks -> Maybe(CachedTicker)]
    BY <1>1, MaybeIs
  <2>3. cache' \in [Accounts -> Maybe([overall : Int, available : Int])]
    BY <1>1, MaybeIs DEF NoCache
  <2> QED
    BY <1>1, <2>1, <2>2, <2>3 DEF IInv, Typed, NoBlock
<1>3. Control' /\ TickersCached'
  BY <1>1 DEF Control, TickersCached
<1>4. RowHeights'
  BY <1>1, HeightsAre DEF IInv, RowHeights, Between
<1>5. Booked'
  BY <1>1 DEF IInv, Booked
<1>6. Supplies' /\ Worked'
  BY <1>1 DEF IInv, Supplies, Worked
<1>7. Cached'
  BY <1>1 DEF Cached, NoCache
<1> QED
  BY <1>2, <1>3, <1>4, <1>5, <1>6, <1>7 DEF IInv

(* Bitcoin's chain and that of the main indexer are not longer than        *)
(* MaxHeight.                                                              *)
LEMMA ChainGoesOn ==
  ASSUME IInv, Environment
  PROVE  IInv'
<1>1. UNCHANGED state
  BY DEF Environment, Mine, Reorg, MainAdvance, MainRestore
<1>2. /\ tickers' = tickers /\ evs' = evs /\ historic' = historic /\ hashes' = hashes /\ cache' = cache
      /\ hash' = hash /\ left' = left /\ ticks' = ticks /\ pc' = pc /\ at' = at /\ Height' = Height
  BY <1>1 DEF state, main, memory, Height
<1>3. Typed /\ Control /\ TickersCached /\ MaxHeight \in Nat /\ Forks \in Nat \ {0}
  BY Pow20Assumption DEF IInv
<1>4. /\ fork \in 1 .. Forks /\ best \in Seq(1 .. Forks) /\ opi \in Seq(1 .. Forks)
      /\ Len(best) \in Nat /\ Len(opi) \in Nat /\ Len(best) <= MaxHeight /\ Len(opi) <= MaxHeight
  BY <1>3 DEF Typed
<1>5. /\ fork' \in 1 .. Forks /\ best' \in Seq(1 .. Forks) /\ opi' \in Seq(1 .. Forks)
      /\ Len(best') <= MaxHeight /\ Len(opi') <= MaxHeight
  <2>1. CASE Mine
    <3>1. Len(best) < MaxHeight /\ best' = Append(best, fork) /\ fork' = fork /\ opi' = opi
      BY <2>1 DEF Mine
    <3>2. best' \in Seq(1 .. Forks) /\ Len(best') = Len(best) + 1
      BY <1>4, <3>1
    <3> QED
      BY <1>3, <1>4, <3>1, <3>2
  <2>2. ASSUME NEW k \in 0 .. Len(best) - 1, Reorg(k)
        PROVE  /\ fork' \in 1 .. Forks /\ best' \in Seq(1 .. Forks) /\ opi' \in Seq(1 .. Forks)
               /\ Len(best') <= MaxHeight /\ Len(opi') <= MaxHeight
    <3>1. fork' \in 1 .. Forks /\ opi' = opi /\ Len(best) < MaxHeight
      BY <1>3, <1>4, <2>2 DEF Reorg
    <3>2. best' = [h \in 1 .. Len(best) + 1 |-> IF h <= k THEN best[h] ELSE fork']
      BY <2>2 DEF Reorg
    <3>3. \A h \in 1 .. Len(best) + 1 : (IF h <= k THEN best[h] ELSE fork') \in 1 .. Forks
      <4> TAKE h \in 1 .. Len(best) + 1
      <4>1. CASE h <= k
        <5>1. h \in 1 .. Len(best)
          BY <1>4, <4>1
        <5>2. best[h] \in 1 .. Forks
          BY <1>4, <5>1, ElementOfSeq
        <5> QED
          BY <4>1, <5>2
      <4>2. CASE ~ h <= k
        BY <3>1, <4>2
      <4> QED
        BY <4>1, <4>2
    <3>4. best' \in Seq(1 .. Forks) /\ Len(best') = Len(best) + 1
      <4>1. best' \in [1 .. Len(best) + 1 -> 1 .. Forks] /\ Len(best) + 1 \in Nat
        BY <1>4, <3>2, <3>3
      <4>2. DOMAIN best' = 1 .. Len(best) + 1
        BY <3>2
      <4>3. best' \in Seq(1 .. Forks)
        BY <4>1, SeqDef
      <4> QED
        BY <4>1, <4>2, <4>3, LenProperties
    <3> QED
      BY <1>3, <1>4, <3>1, <3>4
  <2>3. CASE MainAdvance
    <3>1. Len(opi) < Len(best) /\ opi' = Append(opi, best[Len(opi) + 1]) /\ best' = best /\ fork' = fork
      BY <2>3 DEF MainAdvance
    <3>2. best[Len(opi) + 1] \in 1 .. Forks
      <4>1. Len(opi) + 1 \in 1 .. Len(best)
        BY <1>4, <3>1
      <4> QED
        BY <1>4, <4>1, ElementOfSeq
    <3>3. opi' \in Seq(1 .. Forks) /\ Len(opi') = Len(opi) + 1
      BY <1>4, <3>1, <3>2
    <3> QED
      BY <1>3, <1>4, <3>1, <3>3
  <2>4. ASSUME NEW k \in 0 .. Len(opi) - 1, MainRestore(k)
        PROVE  /\ fork' \in 1 .. Forks /\ best' \in Seq(1 .. Forks) /\ opi' \in Seq(1 .. Forks)
               /\ Len(best') <= MaxHeight /\ Len(opi') <= MaxHeight
    <3>1. opi' = Prefix(opi, k) /\ best' = best /\ fork' = fork
      BY <2>4 DEF MainRestore
    <3>2. k \in 0 .. Len(opi)
      BY <1>4
    <3>3. opi' \in Seq(1 .. Forks) /\ Len(opi') = k
      BY <1>4, <3>1, <3>2, PrefixIs
    <3> QED
      BY <1>3, <1>4, <3>1, <3>3
  <2> QED
    BY <2>1, <2>2, <2>3, <2>4 DEF Environment
<1>6. Typed'
  BY <1>2, <1>3, <1>5 DEF Typed
<1>7. Control' /\ TickersCached'
  BY <1>2, <1>3 DEF Control, TickersCached, KnownTickers
<1> QED
  BY <1>2, <1>6, <1>7, Quiet

(* A block that the main indexer serves.                                   *)
LEMMA ServedIs ==
  ASSUME Typed, Served(Here) # NoBlock
  PROVE  Height < MaxHeight /\ Served(Here) \in 1 .. Forks /\ Served(Here) \in Nat
<1>1. /\ Height \in Nat /\ MaxHeight \in Nat /\ Forks \in Nat
      /\ opi \in Seq(1 .. Forks) /\ Len(opi) \in Nat /\ Len(opi) <= MaxHeight
  BY HeightsAre, Pow20Assumption DEF Typed
<1>2. Here <= Len(opi) /\ Served(Here) = opi[Here] /\ Here = Height + 1
  BY DEF Served, Here
<1> QED
  BY <1>1, <1>2

LEMMA Starts ==
  ASSUME IInv, Start
  PROVE  IInv'
<1>1. /\ UNCHANGED <<best, fork, opi, tickers, evs, historic, hashes, cache, hash, left, ticks, at>>
      /\ pc' = "residue" /\ Height' = Height
  BY DEF Start, Goto, ord, main, memory, Height
<1>2. Typed' /\ Control' /\ TickersCached'
  BY <1>1 DEF IInv, Typed, Control, TickersCached, KnownTickers
<1> QED
  BY <1>1, <1>2, Quiet DEF Between

(* The steps of the loop that only look, and those on the extra tables.    *)
LEMMA LooksUp ==
  ASSUME IInv, CheckExtraResidue \/ ReadHeight \/ WalkEnds \/ UpdateEventHashes
  PROVE  IInv'
<1>1. /\ UNCHANGED <<best, fork, opi, tickers, evs, historic, hashes, cache, hash, left, ticks, at>>
      /\ Height' = Height
      /\ \/ pc \in {"xresidue", "height", "walk"} /\ pc' \in {"extras", "height", "residue", "hash", "exit"}
         \/ pc = "index" /\ pc' = "store"
  <2> USE DEF Goto, ord, main, memory, Height
  <2>1. CASE CheckExtraResidue
    BY <2>1 DEF CheckExtraResidue
  <2>2. CASE ReadHeight
    BY <2>2 DEF ReadHeight
  <2>3. CASE WalkEnds
    BY <2>3 DEF WalkEnds
  <2>4. CASE UpdateEventHashes
    BY <2>4 DEF UpdateEventHashes
  <2> QED
    BY <2>1, <2>2, <2>3, <2>4
<1>2. Typed'
  BY <1>1 DEF IInv, Typed, Between
<1>3. Control'
  BY <1>1 DEF IInv, Control
<1>4. TickersCached'
  BY <1>1 DEF TickersCached
<1> QED
  BY <1>1, <1>2, <1>3, <1>4, Quiet DEF Between

LEMMA Extras ==
  ASSUME IInv,
         \/ InitialExtra \/ BeginExtra \/ NoExtra
         \/ \E b \in Changed : ExtraBalance(b)
         \/ \E u \in New : ExtraUnused(u)
         \/ \E u \in unused : ExtraSpent(u)
         \/ ExtraHash
  PROVE  IInv'
<1>1. /\ UNCHANGED <<best, fork, opi, tickers, evs, historic, hashes, cache, hash, left, ticks>>
      /\ pc \in {"extras", "xbalances", "xspent"}
      /\ pc' \in {"residue", "extras", "xbalances", "xspent"}
      /\ Height' = Height
  <2> USE DEF Goto, ord, main, memory, Height
  <2>1. CASE InitialExtra \/ BeginExtra \/ NoExtra
    BY <2>1 DEF InitialExtra, BeginExtra, NoExtra
  <2>2. CASE \E b \in Changed : ExtraBalance(b)
    BY <2>2 DEF ExtraBalance
  <2>3. CASE \E u \in New : ExtraUnused(u)
    BY <2>3 DEF ExtraUnused
  <2>4. CASE (\E u \in unused : ExtraSpent(u)) \/ ExtraHash
    BY <2>4 DEF ExtraSpent, ExtraHash, Inserted
  <2> QED
    BY <2>1, <2>2, <2>3, <2>4
<1>2. Typed'
  BY <1>1 DEF IInv, Typed, Between
<1>3. Control' /\ TickersCached'
  BY <1>1 DEF Control, TickersCached
<1> QED
  BY <1>1, <1>2, <1>3, Quiet DEF Between

LEMMA ReadsHash ==
  ASSUME IInv, ReadHash
  PROVE  IInv'
<1>1. CASE Die
  BY <1>1, Dies
<1>2. CASE /\ Served(Here) # NoBlock /\ hash' = Served(Here) /\ pc = "hash" /\ pc' = "tip"
           /\ UNCHANGED <<ord, main, left, at, ticks, cache>>
  <2>1. UNCHANGED <<best, fork, opi, tickers, evs, historic, hashes, cache, left, ticks, at>> /\ Height' = Height
    BY <1>2 DEF ord, main, Height
  <2>2. Height < MaxHeight /\ hash' \in Nat
    BY <1>2, ServedIs DEF IInv
  <2>3. Typed'
    BY <1>2, <2>1, <2>2 DEF IInv, Typed, Between
  <2>4. Control' /\ TickersCached'
    BY <1>2, <2>1, <2>2 DEF Control, TickersCached
  <2> QED
    BY <1>2, <2>1, <2>3, <2>4, Quiet DEF Between
<1> QED
  BY <1>1, <1>2 DEF ReadHash, Goto

LEMMA ChecksTip ==
  ASSUME IInv, CheckTip
  PROVE  IInv'
<1>1. CASE Die
  BY <1>1, Dies
<1>2. CASE /\ pc = "tip" /\ pc' \in {"read", "walk"} /\ (pc' = "walk" => at' = Height)
           /\ UNCHANGED <<ord, main, hash, left, ticks, cache>>
  <2>1. UNCHANGED <<best, fork, opi, tickers, evs, historic, hashes, cache, hash, left, ticks>> /\ Height' = Height
    BY <1>2 DEF ord, main, Height
  <2>2. Typed'
    BY <1>2, <2>1 DEF IInv, Typed, Between
  <2>3. Control' /\ TickersCached'
    BY <1>2, <2>1, HeightsAre DEF IInv, Control, TickersCached
  <2> QED
    BY <1>2, <2>1, <2>2, <2>3, Quiet DEF Between
<1> QED
  BY <1>1, <1>2 DEF CheckTip, Goto, memory

LEMMA WalksBack ==
  ASSUME IInv, WalkBack
  PROVE  IInv'
<1>1. CASE Die
  BY <1>1, Dies
<1>2. CASE /\ pc = "walk" /\ at > 0 /\ at' = at - 1
           /\ UNCHANGED <<ord, main, pc, hash, left, ticks, cache>>
  <2>1. /\ UNCHANGED <<best, fork, opi, tickers, evs, historic, hashes, cache, hash, left, ticks, pc>>
        /\ Height' = Height
    BY <1>2 DEF ord, main, Height
  <2>2. Typed'
    BY <1>2, <2>1 DEF IInv, Typed, Between
  <2>3. at' \in 0 .. Height
    BY <1>2, HeightsAre DEF IInv, Control
  <2>4. Control' /\ TickersCached'
    BY <1>2, <2>1, <2>3 DEF IInv, Control, TickersCached
  <2> QED
    BY <1>2, <2>1, <2>2, <2>4, Quiet DEF Between
<1> QED
  BY <1>1, <1>2 DEF WalkBack, Goto

-----------------------------------------------------------------------------
(* The steps that roll back, store a hash, and read a block                *)

LEMMA AfterRollback ==
  ASSUME IInv, NEW k \in 0 .. Height, ReorgFix(k), UNCHANGED <<ord, hash, left, ticks>>,
         pc' \in {"residue", "xresidue"}
  PROVE  IInv'
<1>1. best' = best /\ fork' = fork /\ opi' = opi /\ hash' = hash /\ left' = left /\ ticks' = ticks
  BY DEF ord
<1>2. Height' = k /\ k <= MaxHeight /\ k \in Nat
  BY RolledBack, HeightsAre DEF IInv, Typed
<1>3. Typed'
  BY <1>1, <1>2, RolledBack DEF IInv, Typed, Between
<1>4. Control' /\ TickersCached'
  BY DEF Control, TickersCached
<1>5. RowHeights'
  <2>1. \A h \in Int : h <= k => h <= k + 1
    BY <1>2
  <2>2. (\A i \in DOMAIN evs' : evs'[i].h <= k /\ evs'[i].h \in Int)
        /\ (\A i \in DOMAIN historic' : historic'[i].h <= k /\ historic'[i].h \in Int)
        /\ (\A t \in tickers' : t.h <= k /\ t.h \in Int)
    <3>1. tickers' \subseteq Ticker /\ evs' \in Seq(Logged) /\ historic' \in Seq(BalanceRow)
      BY RolledBack
    <3>2. MaxHeight \in Nat
      BY Pow20Assumption
    <3>3. \A i \in DOMAIN evs' : evs'[i] \in Logged
      BY <3>1
    <3>4. \A i \in DOMAIN historic' : historic'[i] \in BalanceRow
      BY <3>1
    <3>5. \A t \in tickers' : t \in Ticker
      BY <3>1
    <3>6. (\A r \in Logged : r.h \in Int) /\ (\A r \in BalanceRow : r.h \in Int) /\ (\A t \in Ticker : t.h \in Int)
      BY <3>2 DEF Logged, BalanceRow, Ticker
    <3>7. /\ \A i \in DOMAIN evs' : evs'[i].h <= k
          /\ \A i \in DOMAIN historic' : historic'[i].h <= k
          /\ \A t \in tickers' : t.h <= k
      BY RolledBack
    <3> QED
      BY <3>3, <3>4, <3>5, <3>6, <3>7
  <2> QED
    BY <1>2, <2>1, <2>2 DEF RowHeights
<1>6. Booked' /\ Supplies' /\ Worked' /\ Cached'
  BY RolledBack
<1> QED
  BY <1>3, <1>4, <1>5, <1>6 DEF IInv

LEMMA ChecksResidue ==
  ASSUME IInv, CheckResidue
  PROVE  IInv'
<1>1. pc = "residue" /\ pc' = "xresidue" /\ UNCHANGED <<ord, hash, left, ticks, at>>
  BY DEF CheckResidue, Goto
<1>2. CASE Residue
  <2>1. ReorgFix(Height) /\ Height \in 0 .. Height
    BY <1>2, HeightsAre DEF CheckResidue, IInv
  <2> QED
    BY <1>1, <2>1, AfterRollback
<1>3. CASE ~ Residue
  <2>1. UNCHANGED <<best, fork, opi, tickers, evs, historic, hashes, cache, hash, left, ticks>> /\ Height' = Height
    BY <1>1, <1>3 DEF CheckResidue, ord, main, Height
  <2>2. Typed'
    BY <1>1, <2>1 DEF IInv, Typed, Between
  <2>3. Control' /\ TickersCached'
    BY <1>1 DEF Control, TickersCached
  <2>4. RowHeights'
    <3>1. /\ \A i \in DOMAIN evs : evs[i].h <= Height
          /\ \A i \in DOMAIN historic : historic[i].h <= Height
          /\ \A t \in tickers : t.h <= Height
      BY <1>3, HeightsAre DEF IInv, Residue
    <3> QED
      BY <1>1, <2>1, <3>1 DEF RowHeights, Between
  <2>5. Booked' /\ Supplies' /\ Worked' /\ Cached'
    BY <2>1 DEF IInv, Booked, Supplies, Worked, Cached
  <2> QED
    BY <2>2, <2>3, <2>4, <2>5 DEF IInv
<1> QED
  BY <1>2, <1>3

LEMMA WalkEndsWell ==
  ASSUME IInv, WalkFound
  PROVE  IInv'
<1>1. at \in 0 .. Height /\ ReorgFix(at) /\ pc' = "residue" /\ UNCHANGED <<ord, hash, left, ticks>>
  BY DEF WalkFound, IInv, Control, Goto
<1> QED
  BY <1>1, AfterRollback

LEMMA StoresHash ==
  ASSUME IInv, StoreHash
  PROVE  IInv'
<1>1. /\ pc = "store" /\ pc' = "extras" /\ hashes' = Append(hashes, hash)
      /\ UNCHANGED <<best, fork, opi, tickers, evs, historic, hash, left, ticks, cache>>
  BY DEF StoreHash, Goto, ord, memory
<1>2. /\ hashes \in Seq(Nat) /\ hash \in Nat /\ Height \in Nat /\ MaxHeight \in Nat /\ Height < MaxHeight
  BY <1>1, HeightsAre DEF IInv, Typed, Control
<1>3. /\ hashes' \in Seq(Nat) /\ Height' = Height + 1 /\ Height' <= MaxHeight
      /\ \A i \in 1 .. Height : hashes'[i] = hashes[i]
  BY <1>1, <1>2 DEF Height
<1>4. Typed'
  BY <1>1, <1>3 DEF IInv, Typed, Between
<1>5. Control' /\ TickersCached'
  BY <1>1 DEF Control, TickersCached
<1>6. RowHeights'
  BY <1>1, <1>3 DEF IInv, RowHeights, Between
<1>7. Booked' /\ Supplies' /\ Cached'
  BY <1>1 DEF IInv, Booked, Supplies, Cached
<1>8. Worked'
  <2>1. ASSUME NEW i \in DOMAIN evs', evs'[i].type = "mint"
        PROVE  \E u \in tickers' :
                 /\ u.tick = evs'[i].tick /\ u.h <= evs'[i].h
                 /\ u.start \in 1 .. evs'[i].h - 1 /\ u.start <= Height'
                 /\ evs'[i].solution # None /\ evs'[i].solution[1].block = hashes'[u.start]
    <3>1. PICK t \in tickers :
            /\ t.tick = evs[i].tick /\ t.h <= evs[i].h
            /\ t.start \in 1 .. evs[i].h - 1 /\ t.start <= Height
            /\ evs[i].solution # None /\ evs[i].solution[1].block = hashes[t.start]
      BY <1>1, <2>1 DEF IInv, Worked
    <3>2. t.start \in 1 .. Height
      <4>1. evs[i].h \in 1 .. MaxHeight
        BY <1>1, HeightsAre DEF IInv
      <4> QED
        BY <1>2, <3>1, <4>1
    <3>3. hashes'[t.start] = hashes[t.start] /\ t.start <= Height'
      BY <1>2, <1>3, <3>2
    <3> QED
      BY <1>1, <3>1, <3>3
  <2> QED
    BY <2>1 DEF Worked
<1> QED
  BY <1>4, <1>5, <1>6, <1>7, <1>8 DEF IInv

LEMMA ReadsTransfers ==
  ASSUME IInv, ReadTransfers
  PROVE  IInv'
<1> DEFINE start(r) == IF r.start \in DOMAIN hashes THEN hashes[r.start] ELSE NoBlock
<1> DEFINE line(r) == [remaining |-> r.remaining, limit |-> r.limit, dec |-> r.dec,
                       more |-> Some([difficulty |-> r.difficulty, start |-> r.start, hash |-> start(r)])]
<1>1. /\ pc = "read" /\ pc' = "index"
      /\ left' = (IF Served(Here) = NoBlock THEN << >> ELSE Transfers[Here][Served(Here)])
      /\ UNCHANGED <<best, fork, opi, tickers, evs, historic, hashes, cache, hash>> /\ Height' = Height
  BY DEF ReadTransfers, Goto, ord, main, Height
<1>2. /\ tickers \subseteq Ticker /\ hashes \in Seq(Nat) /\ Height \in Nat /\ MaxHeight \in Nat /\ Height < MaxHeight
      /\ \A t, u \in tickers : t.tick = u.tick => t = u
  BY <1>1, HeightsAre DEF IInv, Typed, Control, Supplies
<1>3. left' \in Seq(Offered)
  <2>1. CASE Served(Here) = NoBlock
    BY <1>1, <2>1, EmptySeq
  <2>2. CASE Served(Here) # NoBlock
    <3>1. Served(Here) \in 1 .. Forks /\ Here \in 1 .. MaxHeight
      BY <1>2, <2>2, ServedIs DEF IInv, Here
    <3> QED
      BY <1>1, <2>2, <3>1, Pow20Assumption
  <2> QED
    BY <2>1, <2>2
<1>4. \A r \in tickers : /\ line(r) \in CachedTicker /\ line(r).remaining = r.remaining
                         /\ line(r).more # None /\ line(r).more[1].start = r.start
                         /\ line(r).more[1].hash = start(r)
  <2> TAKE r \in tickers
  <2>1. r \in Ticker
    BY <1>2
  <2>2. start(r) \in Nat
    BY <1>2 DEF NoBlock
  <2> DEFINE m == [difficulty |-> r.difficulty, start |-> r.start, hash |-> start(r)]
  <2>3. m \in More /\ m.start = r.start /\ m.hash = start(r)
    BY <2>1, <2>2 DEF Ticker, More
  <2> HIDE DEF start, m
  <2>4. Some(m) \in Maybe(More) /\ Some(m) # None /\ Some(m)[1] = m
    BY <2>3, MaybeIs
  <2>5. line(r) = [remaining |-> r.remaining, limit |-> r.limit, dec |-> r.dec, more |-> Some(m)]
    BY DEF m
  <2> HIDE DEF line
  <2> QED
    BY <2>1, <2>3, <2>4, <2>5 DEF Ticker, CachedTicker
<1> HIDE DEF start, line
<1>5. CASE left' = << >>
  <2>1. ticks' = ticks
    BY <1>5 DEF ReadTransfers
  <2>2. Typed'
    BY <1>1, <1>3, <2>1 DEF IInv, Typed, Between
  <2>3. Control' /\ TickersCached'
    BY <1>1, <1>2, <1>5 DEF Control, TickersCached
  <2> QED
    BY <1>1, <2>2, <2>3, Quiet DEF Between
<1>6. CASE left' # << >>
  <2> DEFINE mine(t) == {r \in tickers : r.tick = t}
  <2>1. ticks' = [t \in Ticks |-> IF mine(t) = {} THEN None ELSE Some(line(CHOOSE r \in mine(t) : TRUE))]
    BY <1>6 DEF ReadTransfers, line, start
  <2>2. ASSUME NEW r \in tickers PROVE ticks'[r.tick] = Some(line(r)) /\ r.tick \in Ticks
    <3>1. r.tick \in Ticks /\ mine(r.tick) = {r}
      BY <1>2 DEF Ticker
    <3>2. (CHOOSE x \in mine(r.tick) : TRUE) = r
      BY <3>1
    <3> QED
      BY <2>1, <3>1, <3>2
  <2>3. ASSUME NEW t \in Ticks, ticks'[t] # None PROVE \E r \in tickers : r.tick = t
    BY <2>1, <2>3
  <2> HIDE DEF mine
  <2>4. DOMAIN ticks' = Ticks /\ ticks' = [t \in Ticks |-> ticks'[t]]
    BY <2>1
  <2>5. ASSUME NEW t \in Ticks PROVE ticks'[t] \in Maybe(CachedTicker)
    <3>1. CASE ticks'[t] = None
      BY <3>1, MaybeIs
    <3>2. CASE ticks'[t] # None
      <4>1. PICK r \in tickers : r.tick = t
        BY <2>3, <3>2
      <4>2. ticks'[t] = Some(line(r)) /\ line(r) \in CachedTicker
        BY <1>4, <2>2, <4>1
      <4> QED
        BY <4>2, MaybeIs
    <3> QED
      BY <3>1, <3>2
  <2>6. ticks' \in [Ticks -> Maybe(CachedTicker)]
    BY <2>4, <2>5
  <2>7. Typed'
    BY <1>1, <1>3, <2>6 DEF IInv, Typed, Between
  <2>8. Control'
    BY <1>1, <1>2 DEF Control
  <2>9. TickersCached'
    <3>1. ASSUME NEW t \in tickers'
          PROVE  /\ ticks'[t.tick] # None
                 /\ ticks'[t.tick][1].remaining = t.remaining
                 /\ ticks'[t.tick][1].more # None =>
                      /\ t.h <= Height'
                      /\ ticks'[t.tick][1].more[1].start = t.start
                      /\ ticks'[t.tick][1].more[1].hash =
                           IF t.start \in DOMAIN hashes' THEN hashes'[t.start] ELSE NoBlock
      <4>1. t \in tickers /\ t.h <= Height
        BY <1>1 DEF IInv, RowHeights, Between
      <4>2. ticks'[t.tick] = Some(line(t)) /\ line(t) \in CachedTicker
        BY <1>4, <2>2, <4>1
      <4>3. ticks'[t.tick] # None /\ ticks'[t.tick][1] = line(t)
        BY <4>2, MaybeIs
      <4> QED
        BY <1>1, <1>4, <4>1, <4>3 DEF start
    <3> QED
      BY <1>1, <2>3, <3>1 DEF TickersCached, KnownTickers
  <2> QED
    BY <1>1, <2>7, <2>8, <2>9, Quiet DEF Between
<1> QED
  BY <1>5, <1>6

-----------------------------------------------------------------------------
(* The steps that log an event                                             *)

LEMMA RowsGrow ==
  ASSUME NEW S, \A r \in S : r.h \in Nat, NEW rows \in Seq(S), NEW r \in S,
         UpTo(rows, r.h)
  PROVE  Append(rows, r) \in Seq(S) /\ UpTo(Append(rows, r), r.h) /\ SameBelow(Append(rows, r), rows, r.h)
<1> USE DEF UpTo, SameBelow
<1> DEFINE n == Len(rows)
<1> DEFINE more == Append(rows, r)
<1>1. /\ n \in Nat /\ DOMAIN rows = 1 .. n /\ DOMAIN more = 1 .. n + 1 /\ more[n + 1] = r
      /\ \A i \in 1 .. n : more[i] = rows[i]
      /\ \A i \in 1 .. n + 1 : i \in 1 .. n \/ i = n + 1
      /\ more \in Seq(S)
  OBVIOUS
<1>2. \A k \in Nat : k < r.h => Only(more, 0 .. k) = Only(rows, 0 .. k)
  BY OnlyLater
<1> HIDE DEF n, more
<1>3. ASSUME NEW i \in DOMAIN more PROVE more[i].h <= r.h
  <2>1. CASE i = n + 1
    <3>1. r.h \in Nat /\ more[i] = r
      BY <1>1, <2>1
    <3> QED
      BY <3>1
  <2>2. CASE i \in 1 .. n
    BY <1>1, <2>2
  <2> QED
    BY <1>1, <2>1, <2>2
<1> QED
  BY <1>1, <1>2, <1>3 DEF more

LEMMA HasHeight == (\A e \in Logged : e.h \in Nat) /\ (\A r \in BalanceRow : r.h \in Nat)
BY Pow20Assumption DEF Logged, BalanceRow

(* While a block is indexed.                                               *)
Indexing == pc = "index" /\ left # << >>

LEMMA IndexingIs ==
  ASSUME IInv, Indexing
  PROVE  /\ Here \in 1 .. MaxHeight /\ Here = Height + 1 /\ Height \in Nat /\ MaxHeight \in Nat
         /\ evs \in Seq(Logged) /\ historic \in Seq(BalanceRow) /\ tickers \subseteq Ticker /\ hashes \in Seq(Nat)
         /\ ticks \in [Ticks -> Maybe(CachedTicker)]
         /\ cache \in [Accounts -> Maybe([overall : Int, available : Int])]
         /\ Head(left) \in Offered /\ Tail(left) \in Seq(Offered)
         /\ Follows(evs, historic) /\ KnownTickers
         /\ UpTo(evs, Here) /\ UpTo(historic, Here) /\ \A t \in tickers : t.h <= Here
<1>1. Height \in Nat /\ MaxHeight \in Nat /\ Height < MaxHeight /\ Here = Height + 1
  BY HeightsAre DEF IInv, Control, Indexing, Here
<1>2. UpTo(evs, Here) /\ UpTo(historic, Here) /\ \A t \in tickers : t.h <= Here
  BY DEF UpTo, IInv, RowHeights, Indexing, Between, Here
<1>3. left \in Seq(Offered) /\ left # << >>
  BY DEF IInv, Typed, Indexing
<1>4. Head(left) \in Offered /\ Tail(left) \in Seq(Offered)
  BY <1>3
<1>5. Follows(evs, historic)
  BY NowFollows DEF IInv
<1> QED
  BY <1>1, <1>2, <1>4, <1>5 DEF IInv, Typed, TickersCached, Indexing

LEMMA Indexed ==
  ASSUME IInv, Indexing, left' = Tail(left), UNCHANGED <<ord, hashes, pc, hash, at>>,
         evs' \in Seq(Logged), historic' \in Seq(BalanceRow), tickers' \subseteq Ticker,
         ticks' \in [Ticks -> Maybe(CachedTicker)],
         cache' \in [Accounts -> Maybe([overall : Int, available : Int])],
         UpTo(evs', Here), UpTo(historic', Here), \A t \in tickers' : t.h <= Here,
         SameBelow(evs', evs, Here), SameBelow(historic', historic, Here),
         Follows(evs', historic'), Supplies', Worked', Cached', KnownTickers'
  PROVE  IInv'
<1>1. /\ best' = best /\ fork' = fork /\ opi' = opi /\ hashes' = hashes /\ pc' = pc /\ hash' = hash
      /\ at' = at /\ Height' = Height /\ pc' = "index"
  BY DEF ord, Height, Indexing
<1>2. left' \in Seq(Offered) /\ Here \in 1 .. MaxHeight
  BY IndexingIs
<1>3. Typed'
  BY <1>1, <1>2 DEF IInv, Typed
<1>4. Control' /\ TickersCached'
  BY <1>1 DEF IInv, Control, TickersCached
<1>5. RowHeights'
  BY <1>1 DEF RowHeights, Between, Here, UpTo
<1>6. Booked'
  BY <1>2, BookedGrows DEF IInv, Booked
<1> QED
  BY <1>3, <1>4, <1>5, <1>6 DEF IInv

LEMMA EventIs ==
  ASSUME Here \in 1 .. MaxHeight, NEW x \in Offered, NEW type \in {"deploy", "mint", "inscribe", "send"},
         NEW from \in Pks \cup {Nobody}, NEW to \in Pks \cup {Nobody}, NEW e,
         e = Event(type, x, from, to, e.amount), e.amount \in Nat,
         type = "mint" => x.op = "mint",
         type = "inscribe" => from \in Pks /\ x.op = "transfer" /\ e.amount = x.amount.n
  PROVE  /\ e \in Logged
         /\ e.type = type /\ e.by = x.by /\ e.tick = x.tick /\ e.from = from /\ e.to = to
         /\ e.h = Here
         /\ type = "mint" => e.solution = Some(x.solution) /\ e.solution # None /\ e.solution[1] = x.solution
<1>1. /\ e.type = type /\ e.by = x.by /\ e.tick = x.tick /\ e.from = from /\ e.to = to
      /\ e.h = Here /\ e.solution = IF type = "mint" THEN Some(x.solution) ELSE None
  BY DEF Event
<1>2. x.tick \in Ticks /\ x.by \in {y.by : y \in Offered}
  BY Pow20Assumption
<1>3. e.solution \in Maybe({y.solution : y \in Offers("mint")})
  <2>1. CASE type = "mint"
    <3>1. x.solution \in {y.solution : y \in Offers("mint")}
      BY <2>1 DEF Offers
    <3> QED
      BY <1>1, <2>1, <3>1, MaybeIs
  <2>2. CASE type # "mint"
    <3> QED
      BY <1>1, <2>2, MaybeIs
  <2> QED
    BY <2>1, <2>2
<1>4. type = "mint" => e.solution # None /\ e.solution[1] = x.solution
  <2>1. Some(x.solution) # None /\ Some(x.solution)[1] = x.solution
    BY DEF Some, None
  <2> QED
    BY <1>1, <2>1
<1>5. e.type = "inscribe" =>
        /\ e.from \in Pks
        /\ \E y \in Offers("transfer") : y.by = e.by /\ y.tick = e.tick /\ y.amount.n = e.amount
  BY <1>1 DEF Offers
<1>6. e \in [type : {"deploy", "mint", "inscribe", "send"}, by : {y.by : y \in Offered}, tick : Ticks,
             from : Pks \cup {Nobody}, to : Pks \cup {Nobody}, amount : Nat,
             solution : Maybe({y.solution : y \in Offers("mint")}), h : 1 .. MaxHeight]
  BY <1>1, <1>2, <1>3 DEF Event
<1>7. e \in Logged
  BY <1>5, <1>6 DEF Logged
<1> QED
  BY <1>1, <1>4, <1>7

LEMMA DeployEvent ==
  ASSUME Here \in 1 .. MaxHeight, NEW x \in Offered, x.op = "deploy",
         NEW e, e = Event("deploy", x, Nobody, x.pk, x.max.n)
  PROVE  e \in Logged /\ e.type = "deploy" /\ e.h = Here
<1>1. x.pk \in Pks \cup {Nobody} /\ Nobody \in Pks \cup {Nobody} /\ x.max.n \in Nat
  BY Pow20Assumption
<1>2. e = Event("deploy", x, Nobody, x.pk, e.amount) /\ e.amount \in Nat
  BY <1>1 DEF Event
<1> QED
  BY <1>1, <1>2, EventIs

LEMMA MintEvent ==
  ASSUME Here \in 1 .. MaxHeight, NEW x \in Offered, x.op = "mint",
         NEW n, n \in Nat, NEW e, e = Event("mint", x, Nobody, x.pk, n)
  PROVE  /\ e \in Logged /\ e.type = "mint" /\ e.h = Here
         /\ e.tick = x.tick /\ e.to = x.pk /\ e.amount = n
         /\ e.solution = Some(x.solution) /\ e.solution # None /\ e.solution[1] = x.solution
<1>1. x.pk \in Pks \cup {Nobody} /\ Nobody \in Pks \cup {Nobody}
  BY Pow20Assumption
<1>2. e = Event("mint", x, Nobody, x.pk, e.amount) /\ e.amount \in Nat /\ e.amount = n
  BY DEF Event
<1> QED
  BY <1>1, <1>2, EventIs

LEMMA InscribeEvent ==
  ASSUME Here \in 1 .. MaxHeight, NEW x \in Offered, x.op = "transfer",
         NEW e, e = Event("inscribe", x, x.pk, Nobody, x.amount.n)
  PROVE  /\ e \in Logged /\ e.type = "inscribe" /\ e.h = Here /\ e.by = x.by
         /\ e.tick = x.tick /\ e.from = x.pk /\ e.amount = x.amount.n
<1>1. x.pk \in Pks /\ x.pk \in Pks \cup {Nobody} /\ Nobody \in Pks \cup {Nobody} /\ x.amount.n \in Nat
  BY Pow20Assumption
<1>2. /\ e = Event("inscribe", x, x.pk, Nobody, e.amount) /\ e.amount \in Nat /\ e.amount = x.amount.n
      /\ e.by = x.by
  BY <1>1 DEF Event
<1> QED
  BY <1>1, <1>2, EventIs

LEMMA SendEvent ==
  ASSUME Here \in 1 .. MaxHeight, NEW x \in Offered, x.op = "transfer",
         NEW from \in Pks, NEW to \in Pks, NEW e, e = Event("send", x, from, to, x.amount.n)
  PROVE  /\ e \in Logged /\ e.type = "send" /\ e.h = Here /\ e.by = x.by
         /\ e.tick = x.tick /\ e.from = from /\ e.to = to /\ e.amount = x.amount.n
<1>1. from \in Pks \cup {Nobody} /\ to \in Pks \cup {Nobody} /\ x.amount.n \in Nat
  BY Pow20Assumption
<1>2. e = Event("send", x, from, to, e.amount) /\ e.amount \in Nat /\ e.amount = x.amount.n
  BY <1>1 DEF Event
<1> QED
  BY <1>1, <1>2, EventIs

LEMMA RowIs ==
  ASSUME Here \in 1 .. MaxHeight, NEW a \in Accounts, NEW b \in [overall : Int, available : Int]
  PROVE  LET r == Row(a, b)
         IN  /\ r \in BalanceRow
             /\ r.pk = a[1] /\ r.tick = a[2] /\ r.overall = b.overall /\ r.available = b.available /\ r.h = Here
             /\ b = [overall |-> r.overall, available |-> r.available]
BY DEF Row, BalanceRow, Accounts

(* A mint of a ticker has a ticker.                                        *)
LEMMA NoMints ==
  ASSUME Worked, evs \in Seq(Logged), NEW t, \A u \in tickers : u.tick # t
  PROVE  SumOf(evs, MintsOf(t)) = 0
<1>1. ASSUME NEW i \in DOMAIN evs, evs[i] \in MintsOf(t) PROVE FALSE
  <2>1. evs[i].type = "mint" /\ evs[i].tick = t
    BY <1>1 DEF MintsOf
  <2> QED
    BY <2>1 DEF Worked
<1> QED
  BY <1>1, SumOfNone

LEMMA DeployIndexed ==
  ASSUME IInv, Indexing, left' = Tail(left), UNCHANGED <<ord, hashes, pc, hash, at>>, Deploy(Head(left))
  PROVE  IInv'
<1> DEFINE x == Head(left)
<1> DEFINE e == Event("deploy", x, Nobody, x.pk, x.max.n)
<1> DEFINE t0 == [tick |-> x.tick, max |-> x.max.n, limit |-> x.limit.n, remaining |-> x.max.n,
                  dec |-> x.dec, difficulty |-> x.difficulty, start |-> x.start, h |-> Here]
<1> DEFINE c0 == [remaining |-> x.max.n, limit |-> x.limit.n, dec |-> x.dec, more |-> None]
<1>1. /\ x.op = "deploy" /\ ticks[x.tick] = None
      /\ evs' = Append(evs, e) /\ historic' = historic /\ cache' = cache
      /\ tickers' = tickers \cup {t0}
      /\ ticks' = [ticks EXCEPT ![x.tick] = Some(c0)]
      /\ hashes' = hashes /\ Height' = Height
  BY DEF Deploy, CanDeploy, Log, Known, Height
<1>2. /\ Here \in 1 .. MaxHeight /\ Here = Height + 1 /\ Height \in Nat
      /\ evs \in Seq(Logged) /\ historic \in Seq(BalanceRow) /\ tickers \subseteq Ticker
      /\ ticks \in [Ticks -> Maybe(CachedTicker)]
      /\ cache \in [Accounts -> Maybe([overall : Int, available : Int])]
      /\ x \in Offered /\ Follows(evs, historic) /\ KnownTickers
      /\ UpTo(evs, Here) /\ UpTo(historic, Here) /\ \A t \in tickers : t.h <= Here
  BY IndexingIs
<1>3. /\ x.tick \in Ticks /\ x.pk \in Pks /\ x.max.n \in Nat /\ x.limit.n \in Nat /\ x.start \in Nat
      /\ x.dec \in {y.dec : y \in Offers("deploy")} /\ x.difficulty \in {y.difficulty : y \in Offers("deploy")}
  BY <1>1, <1>2, Pow20Assumption DEF Offers
<1>4. e \in Logged /\ e.type = "deploy" /\ e.h = Here
  BY <1>1, <1>2, DeployEvent
<1>5. /\ t0 \in Ticker /\ t0.tick = x.tick /\ t0.max = x.max.n /\ t0.remaining = x.max.n
      /\ t0.start = x.start /\ t0.h = Here
  BY <1>2, <1>3 DEF Ticker
<1>6. c0 \in CachedTicker /\ c0.remaining = x.max.n /\ c0.more = None
  BY <1>3, MaybeIs DEF CachedTicker
<1> HIDE DEF x, e, t0, c0
<1>7. Some(c0) \in Maybe(CachedTicker) /\ Some(c0) # None /\ Some(c0)[1] = c0
  BY <1>6, MaybeIs
<1>8. /\ evs' \in Seq(Logged) /\ UpTo(evs', Here) /\ SameBelow(evs', evs, Here)
  BY <1>1, <1>2, <1>4, RowsGrow, HasHeight
<1>9. Follows(evs', historic')
  BY <1>1, <1>2, <1>4, FollowsDeploy
<1>10. \A t \in tickers : t.tick # x.tick
  BY <1>1, <1>2 DEF KnownTickers
<1>11. Supplies'
  <2>1. \A T : e \notin T => SumOf(evs', T) = SumOf(evs, T)
    <3> TAKE T
    <3>1. SumOf(evs', T) = SumOf(evs, T) + (IF e \in T THEN e.amount ELSE 0) /\ SumOf(evs, T) \in Nat
      BY <1>1, <1>2, <1>4, Amounts, SumOfAppend, SumOfNat
    <3> QED
      BY <3>1
  <2>2. \A t : e \notin MintsOf(t)
    BY <1>4 DEF MintsOf
  <2>3. SumOf(evs', MintsOf(x.tick)) = 0
    BY <1>2, <1>10, <2>1, <2>2, NoMints DEF IInv
  <2>4. \A t \in tickers : t.remaining = t.max - SumOf(evs', MintsOf(t.tick)) /\ t.remaining >= 0
    BY <2>1, <2>2 DEF IInv, Supplies
  <2>5. t0.remaining = t0.max - SumOf(evs', MintsOf(t0.tick)) /\ t0.remaining >= 0
    BY <1>3, <1>5, <2>3
  <2>6. \A t, u \in tickers' : t.tick = u.tick => t = u
    BY <1>1, <1>5, <1>10 DEF IInv, Supplies
  <2> QED
    BY <1>1, <2>4, <2>5, <2>6 DEF Supplies
<1>12. Worked'
  <2>1. ASSUME NEW i \in DOMAIN evs', evs'[i].type = "mint" PROVE i \in DOMAIN evs /\ evs'[i] = evs[i]
    <3>1. /\ Len(evs) \in Nat /\ DOMAIN evs = 1 .. Len(evs) /\ DOMAIN evs' = 1 .. Len(evs) + 1
          /\ evs'[Len(evs) + 1] = e /\ \A j \in 1 .. Len(evs) : evs'[j] = evs[j]
      BY <1>1, <1>2, <1>4
    <3> QED
      BY <1>4, <2>1, <3>1
  <2> QED
    BY <1>1, <2>1 DEF IInv, Worked
<1>13. Cached'
  BY <1>1 DEF IInv, Cached
<1>14. KnownTickers'
  <2>1. ticks'[x.tick] = Some(c0) /\ \A t \in Ticks : t # x.tick => ticks'[t] = ticks[t]
    BY <1>1, <1>2, <1>3
  <2>2. ASSUME NEW t \in Ticks, ticks'[t] # None PROVE \E u \in tickers' : u.tick = t
    BY <1>1, <1>2, <1>5, <2>1, <2>2 DEF KnownTickers
  <2>3. ASSUME NEW t \in tickers
        PROVE  /\ ticks'[t.tick] # None /\ ticks'[t.tick][1].remaining = t.remaining
               /\ ticks'[t.tick][1].more # None =>
                    /\ t.h <= Height
                    /\ ticks'[t.tick][1].more[1].start = t.start
                    /\ ticks'[t.tick][1].more[1].hash =
                         IF t.start \in DOMAIN hashes THEN hashes[t.start] ELSE NoBlock
    <3>1. t.tick \in Ticks /\ t.tick # x.tick
      BY <1>2, <1>10 DEF Ticker
    <3>2. ticks'[t.tick] = ticks[t.tick]
      BY <2>1, <3>1
    <3> QED
      BY <1>2, <3>2 DEF KnownTickers
  <2>4. ticks'[t0.tick] # None /\ ticks'[t0.tick][1].remaining = t0.remaining /\ ticks'[t0.tick][1].more = None
    BY <1>5, <1>6, <1>7, <2>1
  <2> QED
    BY <1>1, <2>2, <2>3, <2>4 DEF KnownTickers
<1>15. ticks' \in [Ticks -> Maybe(CachedTicker)]
  BY <1>1, <1>2, <1>7
<1>16. tickers' \subseteq Ticker /\ \A t \in tickers' : t.h <= Here
  BY <1>1, <1>2, <1>5
<1>17. historic' \in Seq(BalanceRow) /\ UpTo(historic', Here) /\ SameBelow(historic', historic, Here)
       /\ cache' \in [Accounts -> Maybe([overall : Int, available : Int])]
  BY <1>1, <1>2 DEF SameBelow
<1> QED
  BY <1>8, <1>9, <1>11, <1>12, <1>13, <1>14, <1>15, <1>16, <1>17, Indexed

LEMMA RowAfter ==
  ASSUME Here \in 1 .. MaxHeight, NEW hs \in Seq(BalanceRow), UpTo(hs, Here),
         NEW a \in Accounts, NEW r \in BalanceRow, r.pk = a[1], r.tick = a[2], r.h = Here
  PROVE  /\ Append(hs, r) \in Seq(BalanceRow)
         /\ UpTo(Append(hs, r), Here) /\ SameBelow(Append(hs, r), hs, Here)
         /\ LastBalance(Append(hs, r), a) = [overall |-> r.overall, available |-> r.available]
         /\ \A c \in Accounts : c # a => LastBalance(Append(hs, r), c) = LastBalance(hs, c)
<1>1. Append(hs, r) \in Seq(BalanceRow) /\ UpTo(Append(hs, r), Here) /\ SameBelow(Append(hs, r), hs, Here)
  BY RowsGrow, HasHeight
<1>2. LastBalance(Append(hs, r), a) = [overall |-> r.overall, available |-> r.available]
  BY BalanceAppend
<1>3. ASSUME NEW c \in Accounts, c # a PROVE LastBalance(Append(hs, r), c) = LastBalance(hs, c)
  <2>1. a = <<a[1], a[2]>> /\ c = <<c[1], c[2]>>
    BY DEF Accounts
  <2>2. ~ (r.pk = c[1] /\ r.tick = c[2])
    BY <1>3, <2>1
  <2> QED
    BY <2>2, BalanceAppend
<1> QED
  BY <1>1, <1>2, <1>3

(* A balance that is stored and cached.                                    *)
LEMMA CachedAfter ==
  ASSUME IInv, Indexing, NEW a \in Accounts, NEW b \in [overall : Int, available : Int],
         historic' = Append(historic, Row(a, b)), cache' = [cache EXCEPT ![a] = Some(b)]
  PROVE  /\ Cached' /\ cache' \in [Accounts -> Maybe([overall : Int, available : Int])]
         /\ historic' \in Seq(BalanceRow) /\ UpTo(historic', Here) /\ SameBelow(historic', historic, Here)
         /\ \A c \in Accounts : LastBalance(historic', c) = IF c = a THEN b ELSE LastBalance(historic, c)
<1>1. /\ historic \in Seq(BalanceRow) /\ cache \in [Accounts -> Maybe([overall : Int, available : Int])]
      /\ UpTo(historic, Here) /\ Here \in 1 .. MaxHeight
  BY IndexingIs
<1>2. /\ historic' \in Seq(BalanceRow) /\ UpTo(historic', Here) /\ SameBelow(historic', historic, Here)
      /\ \A c \in Accounts : LastBalance(historic', c) = IF c = a THEN b ELSE LastBalance(historic, c)
  <2> DEFINE r == Row(a, b)
  <2>1. r \in BalanceRow /\ r.pk = a[1] /\ r.tick = a[2] /\ r.h = Here
        /\ b = [overall |-> r.overall, available |-> r.available]
    BY <1>1, RowIs
  <2>2. historic' = Append(historic, r)
    OBVIOUS
  <2> HIDE DEF r
  <2>3. historic' \in Seq(BalanceRow) /\ UpTo(historic', Here) /\ SameBelow(historic', historic, Here)
    BY <1>1, <2>1, <2>2, RowAfter
  <2>4. LastBalance(historic', a) = b
    BY <1>1, <2>1, <2>2, RowAfter
  <2>5. \A c \in Accounts : c # a => LastBalance(historic', c) = LastBalance(historic, c)
    BY <1>1, <2>1, <2>2, RowAfter
  <2> QED
    BY <2>3, <2>4, <2>5
<1>3. cache' \in [Accounts -> Maybe([overall : Int, available : Int])] /\ Some(b) # None /\ Some(b)[1] = b
  BY <1>1, MaybeIs
<1>4. ASSUME NEW c \in Accounts, cache'[c] # None PROVE cache'[c][1] = LastBalance(historic', c)
  <2>1. cache'[c] = IF c = a THEN Some(b) ELSE cache[c]
    BY <1>1
  <2>2. cache[c] # None => cache[c][1] = LastBalance(historic, c)
    BY DEF IInv, Cached
  <2> QED
    BY <1>2, <1>3, <1>4, <2>1, <2>2
<1> QED
  BY <1>2, <1>3, <1>4 DEF Cached

LEMMA MintIndexed ==
  ASSUME IInv, Indexing, left' = Tail(left), UNCHANGED <<ord, hashes, pc, hash, at>>, Mint(Head(left))
  PROVE  IInv'
<1> DEFINE x == Head(left)
<1> DEFINE n == IF x.amount.n > Tick(x).remaining THEN Tick(x).remaining ELSE x.amount.n
<1> DEFINE a == <<x.pk, x.tick>>
<1> DEFINE b == [overall |-> Balance(a).overall + n, available |-> Balance(a).available + n]
<1> DEFINE e == Event("mint", x, Nobody, x.pk, n)
<1> DEFINE less(t) == IF t.tick = x.tick THEN [t EXCEPT !.remaining = @ - n] ELSE t
<1> DEFINE c1 == [Tick(x) EXCEPT !.remaining = @ - n]
<1>1. /\ x.op = "mint" /\ ticks[x.tick] # None /\ ticks[x.tick][1].more # None /\ Solves(x)
      /\ Tick(x).remaining > 0
      /\ Tick(x) = ticks[x.tick][1]
      /\ evs' = Append(evs, e)
      /\ tickers' = {less(t) : t \in tickers}
      /\ historic' = Append(historic, Row(a, b))
      /\ cache' = [cache EXCEPT ![a] = Some(b)]
      /\ ticks' = [ticks EXCEPT ![x.tick] = Some(c1)]
      /\ hashes' = hashes /\ Height' = Height
  <2>1. CanMint(x) /\ Tick(x) = ticks[x.tick][1] /\ hashes' = hashes /\ Height' = Height
    BY DEF Mint, Tick, Height
  <2>2. /\ x.op = "mint" /\ ticks[x.tick] # None /\ ticks[x.tick][1].more # None /\ Solves(x)
        /\ Tick(x).remaining > 0
    BY <2>1 DEF CanMint, MintOpen, MintFits, Known
  <2>3. evs' = Append(evs, e)
    BY DEF Mint, Log
  <2>4. tickers' = {less(t) : t \in tickers}
    BY DEF Mint
  <2>5. historic' = Append(historic, Row(a, b)) /\ cache' = [cache EXCEPT ![a] = Some(b)]
    BY DEF Mint
  <2>6. ticks' = [ticks EXCEPT ![x.tick] = Some(c1)]
    BY DEF Mint
  <2> QED
    BY <2>1, <2>2, <2>3, <2>4, <2>5, <2>6
<1>2. /\ Here \in 1 .. MaxHeight /\ Here = Height + 1 /\ Height \in Nat
      /\ evs \in Seq(Logged) /\ historic \in Seq(BalanceRow) /\ tickers \subseteq Ticker /\ hashes \in Seq(Nat)
      /\ ticks \in [Ticks -> Maybe(CachedTicker)]
      /\ cache \in [Accounts -> Maybe([overall : Int, available : Int])]
      /\ x \in Offered /\ Follows(evs, historic) /\ KnownTickers
      /\ UpTo(evs, Here) /\ \A t \in tickers : t.h <= Here
  BY IndexingIs
<1>3. x.tick \in Ticks /\ x.pk \in Pks /\ x.amount.n \in Nat /\ x.solution.block # NoBlock /\ a \in Accounts
  BY <1>1, <1>2, Pow20Assumption DEF Accounts
<1>4. PICK t0 \in tickers : t0.tick = x.tick
  BY <1>1, <1>2, <1>3 DEF KnownTickers
<1>5. /\ t0 \in Ticker /\ Tick(x).remaining = t0.remaining /\ t0.h <= Height
      /\ Tick(x).more[1].start = t0.start
      /\ Tick(x).more[1].hash = IF t0.start \in DOMAIN hashes THEN hashes[t0.start] ELSE NoBlock
      /\ t0.remaining \in Int /\ t0.start \in Nat /\ t0.h \in 1 .. MaxHeight
      /\ \A t \in tickers : t.tick = x.tick => t = t0
  <2>1. t0 \in Ticker /\ \A t \in tickers : t.tick = x.tick => t = t0
    BY <1>2, <1>4 DEF IInv, Supplies
  <2>2. t0.remaining \in Int /\ t0.start \in Nat /\ t0.h \in 1 .. MaxHeight
    BY <2>1 DEF Ticker
  <2>3. /\ ticks[t0.tick][1].remaining = t0.remaining
        /\ ticks[t0.tick][1].more # None =>
             /\ t0.h <= Height
             /\ ticks[t0.tick][1].more[1].start = t0.start
             /\ ticks[t0.tick][1].more[1].hash = IF t0.start \in DOMAIN hashes THEN hashes[t0.start] ELSE NoBlock
    BY <1>2, <1>4 DEF KnownTickers
  <2> HIDE DEF x
  <2> QED
    BY <1>1, <1>4, <2>1, <2>2, <2>3
<1>6. n \in Nat /\ n <= t0.remaining
  BY <1>1, <1>3, <1>5
<1>7. /\ x.solution.block = hashes[t0.start] /\ t0.start \in 1 .. Height
      /\ \A i \in DOMAIN evs : evs[i].type = "mint" => evs[i].solution # Some(x.solution)
  <2>1. /\ x.solution.block = Tick(x).more[1].hash
        /\ ~ \E i \in DOMAIN evs : evs[i].type = "mint" /\ evs[i].solution = Some(x.solution)
    BY <1>1 DEF Solves
  <2>2. t0.start \in DOMAIN hashes
    BY <1>3, <1>5, <2>1
  <2> QED
    BY <1>2, <1>5, <2>1, <2>2 DEF Height
<1>8. Balance(a) = LastBalance(historic, a) /\ Balance(a) \in [overall : Int, available : Int]
  BY <1>3, BalanceIs DEF IInv
<1>9. /\ b \in [overall : Int, available : Int]
      /\ b.overall = Balance(a).overall + n /\ b.available = Balance(a).available + n
  BY <1>6, <1>8
<1> HIDE DEF n
<1>10. /\ e \in Logged /\ e.type = "mint" /\ e.h = Here /\ e.tick = x.tick /\ e.to = x.pk /\ e.amount = n
       /\ e.solution = Some(x.solution) /\ e.solution # None /\ e.solution[1] = x.solution
  BY <1>1, <1>2, <1>6, MintEvent
<1>11. /\ Row(a, b) \in BalanceRow
       /\ Row(a, b).pk = x.pk /\ Row(a, b).tick = x.tick
       /\ Row(a, b).overall = b.overall /\ Row(a, b).available = b.available
  BY <1>2, <1>3, <1>9, RowIs
<1>12. a = <<e.to, e.tick>>
  BY <1>10
<1> HIDE DEF a, b, e
<1>13. /\ Cached' /\ cache' \in [Accounts -> Maybe([overall : Int, available : Int])]
       /\ historic' \in Seq(BalanceRow) /\ UpTo(historic', Here) /\ SameBelow(historic', historic, Here)
  BY <1>1, <1>2, <1>3, <1>9, CachedAfter
<1>14. /\ evs' \in Seq(Logged) /\ UpTo(evs', Here) /\ SameBelow(evs', evs, Here)
  BY <1>1, <1>2, <1>10, RowsGrow, HasHeight
<1>15. Follows(evs', historic')
  <2> DEFINE r == Row(a, b)
  <2>1. /\ r \in BalanceRow /\ r.pk = e.to /\ r.tick = e.tick
        /\ r.overall = LastBalance(historic, <<e.to, e.tick>>).overall + e.amount
        /\ r.available = LastBalance(historic, <<e.to, e.tick>>).available + e.amount
    BY <1>8, <1>9, <1>10, <1>11, <1>12
  <2>2. evs' = Append(evs, e) /\ historic' = Append(historic, r)
    BY <1>1
  <2>3. \A i \in DOMAIN evs : evs[i].type = "mint" => evs[i].solution # e.solution
    BY <1>7, <1>10
  <2> HIDE DEF r
  <2> QED
    BY <1>2, <1>10, <2>1, <2>2, <2>3, FollowsMint
<1>16. \A t \in tickers : /\ less(t) \in Ticker /\ less(t).tick = t.tick /\ less(t).h = t.h
                          /\ less(t).max = t.max /\ less(t).start = t.start
                          /\ less(t).remaining = IF t.tick = x.tick THEN t.remaining - n ELSE t.remaining
  <2> TAKE t \in tickers
  <2>1. t \in Ticker
    BY <1>2
  <2> QED
    BY <1>6, <2>1 DEF Ticker
<1> HIDE DEF less
<1>17. tickers' \subseteq Ticker /\ \A t \in tickers' : t.h <= Here
  BY <1>1, <1>2, <1>16
<1>18. Supplies'
  <2>1. \A t, u \in tickers' : t.tick = u.tick => t = u
    <3>1. \A t \in tickers' : \E u \in tickers : t = less(u) /\ t.tick = u.tick
      BY <1>1, <1>16
    <3> QED
      BY <3>1 DEF IInv, Supplies
  <2>2. ASSUME NEW t \in tickers
        PROVE  less(t).remaining = less(t).max - SumOf(evs', MintsOf(less(t).tick)) /\ less(t).remaining >= 0
    <3>1. t.remaining = t.max - SumOf(evs, MintsOf(t.tick)) /\ t.remaining >= 0 /\ t.remaining \in Int /\ t.max \in Nat
      BY <1>2 DEF IInv, Supplies, Ticker
    <3>2. SumOf(evs', MintsOf(t.tick)) = SumOf(evs, MintsOf(t.tick)) + (IF e \in MintsOf(t.tick) THEN e.amount ELSE 0)
          /\ SumOf(evs, MintsOf(t.tick)) \in Nat
      <4> DEFINE T == MintsOf(t.tick)
      <4> HIDE DEF T
      <4>1. evs' = Append(evs, e) /\ evs \in Seq(Logged) /\ e \in Logged
        BY <1>1, <1>2, <1>10
      <4>2. SumOf(evs', T) = SumOf(evs, T) + (IF e \in T THEN e.amount ELSE 0)
        BY <4>1, Amounts, SumOfAppend
      <4>3. SumOf(evs, T) \in Nat
        BY <4>1, Amounts, SumOfNat
      <4> QED
        BY <4>2, <4>3 DEF T
    <3>3. e \in MintsOf(t.tick) <=> t.tick = x.tick
      BY <1>10 DEF MintsOf
    <3>4. less(t).tick = t.tick /\ less(t).max = t.max
          /\ less(t).remaining = IF t.tick = x.tick THEN t.remaining - n ELSE t.remaining
      BY <1>16
    <3>5. CASE t.tick = x.tick
      <4>1. n <= t.remaining
        BY <1>5, <1>6, <3>5
      <4> QED
        BY <1>6, <1>10, <3>1, <3>2, <3>3, <3>4, <3>5, <4>1
    <3>6. CASE t.tick # x.tick
      BY <3>1, <3>2, <3>3, <3>4, <3>6
    <3> QED
      BY <3>5, <3>6
  <2> QED
    BY <1>1, <2>1, <2>2 DEF Supplies
<1>19. Worked'
  <2>1. /\ Len(evs) \in Nat /\ DOMAIN evs = 1 .. Len(evs) /\ DOMAIN evs' = 1 .. Len(evs) + 1
        /\ evs'[Len(evs) + 1] = e /\ \A j \in 1 .. Len(evs) : evs'[j] = evs[j]
    BY <1>1, <1>2, <1>10
  <2>2. ASSUME NEW i \in DOMAIN evs', evs'[i].type = "mint"
        PROVE  \E u \in tickers' :
                 /\ u.tick = evs'[i].tick /\ u.h <= evs'[i].h
                 /\ u.start \in 1 .. evs'[i].h - 1 /\ u.start <= Height'
                 /\ evs'[i].solution # None /\ evs'[i].solution[1].block = hashes'[u.start]
    <3>1. CASE i \in 1 .. Len(evs)
      <4>1. PICK t \in tickers :
            /\ t.tick = evs[i].tick /\ t.h <= evs[i].h
            /\ t.start \in 1 .. evs[i].h - 1 /\ t.start <= Height
            /\ evs[i].solution # None /\ evs[i].solution[1].block = hashes[t.start]
        BY <2>1, <2>2, <3>1 DEF IInv, Worked
      <4>2. less(t) \in tickers' /\ less(t).tick = t.tick /\ less(t).h = t.h /\ less(t).start = t.start
        BY <1>1, <1>16
      <4> QED
        BY <1>1, <2>1, <3>1, <4>1, <4>2
    <3>2. CASE i = Len(evs) + 1
      <4>1. less(t0) \in tickers' /\ less(t0).tick = t0.tick /\ less(t0).h = t0.h /\ less(t0).start = t0.start
        BY <1>1, <1>4, <1>16
      <4>2. t0.h <= Here /\ t0.start \in 1 .. Here - 1 /\ t0.start <= Height
        BY <1>2, <1>4, <1>7
      <4> QED
        BY <1>1, <1>4, <1>7, <1>10, <2>1, <3>2, <4>1, <4>2
    <3> QED
      BY <2>1, <3>1, <3>2
  <2> QED
    BY <2>2 DEF Worked
<1>20. c1 \in CachedTicker /\ c1.remaining = t0.remaining - n /\ c1.more = ticks[x.tick][1].more
  <2>1. ticks[x.tick][1] \in CachedTicker
    BY <1>1, <1>2, <1>3, MaybeIs
  <2> DEFINE c == Tick(x)
  <2>2. c \in CachedTicker /\ c.remaining = t0.remaining
    BY <1>1, <1>5, <2>1
  <2>3. c1 = [c EXCEPT !.remaining = @ - n]
    OBVIOUS
  <2>4. ticks[x.tick][1].more = c.more
    BY <1>1
  <2> HIDE DEF c, c1
  <2> QED
    BY <1>5, <1>6, <2>2, <2>3, <2>4 DEF CachedTicker
<1> HIDE DEF c1
<1>21. Some(c1) \in Maybe(CachedTicker) /\ Some(c1) # None /\ Some(c1)[1] = c1
  BY <1>20, MaybeIs
<1>22. ticks' \in [Ticks -> Maybe(CachedTicker)]
  BY <1>1, <1>2, <1>21
<1>23. KnownTickers'
  <2>1. ticks'[x.tick] = Some(c1) /\ \A t \in Ticks : t # x.tick => ticks'[t] = ticks[t]
    BY <1>1, <1>2, <1>3
  <2>2. ASSUME NEW t \in Ticks, ticks'[t] # None PROVE \E u \in tickers' : u.tick = t
    <3>1. ticks[t] # None
      BY <1>1, <2>1, <2>2
    <3>2. PICK u \in tickers : u.tick = t
      BY <1>2, <3>1 DEF KnownTickers
    <3> QED
      BY <1>1, <1>16, <3>2
  <2>3. ASSUME NEW t \in tickers
        PROVE  /\ ticks'[t.tick] # None /\ ticks'[t.tick][1].remaining = less(t).remaining
               /\ ticks'[t.tick][1].more # None =>
                    /\ t.h <= Height
                    /\ ticks'[t.tick][1].more[1].start = t.start
                    /\ ticks'[t.tick][1].more[1].hash =
                         IF t.start \in DOMAIN hashes THEN hashes[t.start] ELSE NoBlock
    <3>1. CASE t.tick = x.tick
      <4>1. t = t0 /\ less(t).remaining = t.remaining - n
        BY <1>5, <1>16, <3>1
      <4>2. ticks'[t.tick] # None /\ ticks'[t.tick][1] = c1
        BY <1>21, <2>1, <3>1
      <4> QED
        BY <1>1, <1>5, <1>20, <4>1, <4>2
    <3>2. CASE t.tick # x.tick
      <4>1. t.tick \in Ticks /\ less(t).remaining = t.remaining
        BY <1>2, <1>16, <3>2 DEF Ticker
      <4>2. ticks'[t.tick] = ticks[t.tick]
        BY <2>1, <3>2, <4>1
      <4> QED
        BY <1>2, <4>1, <4>2 DEF KnownTickers
    <3> QED
      BY <3>1, <3>2
  <2>4. \A u \in tickers' : \E t \in tickers :
          u = less(t) /\ u.tick = t.tick /\ u.h = t.h /\ u.start = t.start
    BY <1>1, <1>16
  <2>5. ASSUME NEW u \in tickers'
        PROVE  /\ ticks'[u.tick] # None /\ ticks'[u.tick][1].remaining = u.remaining
               /\ ticks'[u.tick][1].more # None =>
                    /\ u.h <= Height'
                    /\ ticks'[u.tick][1].more[1].start = u.start
                    /\ ticks'[u.tick][1].more[1].hash =
                         IF u.start \in DOMAIN hashes' THEN hashes'[u.start] ELSE NoBlock
    <3>1. PICK t \in tickers : u = less(t) /\ u.tick = t.tick /\ u.h = t.h /\ u.start = t.start
      BY <2>4
    <3>2. hashes' = hashes /\ Height' = Height
      BY <1>1
    <3> QED
      BY <2>3, <3>1, <3>2
  <2> QED
    BY <2>2, <2>5 DEF KnownTickers
<1> QED
  BY <1>13, <1>14, <1>15, <1>17, <1>18, <1>19, <1>22, <1>23, Indexed

(* An event that mints nothing leaves the tickers as they are.             *)
LEMMA MintsNothing ==
  ASSUME IInv, Indexing, NEW e \in Logged, e.type # "mint", e.h = Here,
         evs' = Append(evs, e), UNCHANGED <<tickers, ticks, hashes>>
  PROVE  /\ evs' \in Seq(Logged) /\ UpTo(evs', Here) /\ SameBelow(evs', evs, Here)
         /\ Supplies' /\ Worked' /\ KnownTickers'
<1>1. /\ evs \in Seq(Logged) /\ UpTo(evs, Here) /\ KnownTickers /\ Supplies /\ Worked
  BY IndexingIs DEF IInv
<1>2. tickers' = tickers /\ ticks' = ticks /\ hashes' = hashes /\ Height' = Height
  BY DEF Height
<1>3. evs' \in Seq(Logged) /\ UpTo(evs', Here) /\ SameBelow(evs', evs, Here)
  BY <1>1, RowsGrow, HasHeight
<1>4. ASSUME NEW t PROVE SumOf(evs', MintsOf(t)) = SumOf(evs, MintsOf(t))
  <2> DEFINE T == MintsOf(t)
  <2>1. e \notin T
    BY DEF MintsOf
  <2> HIDE DEF T
  <2>2. SumOf(evs', T) = SumOf(evs, T) + (IF e \in T THEN e.amount ELSE 0)
    BY <1>1, Amounts, SumOfAppend
  <2>3. SumOf(evs, T) \in Nat
    BY <1>1, Amounts, SumOfNat
  <2> QED
    BY <2>1, <2>2, <2>3 DEF T
<1>5. Supplies'
  BY <1>1, <1>2, <1>4 DEF Supplies
<1>6. Worked'
  <2>1. ASSUME NEW i \in DOMAIN evs', evs'[i].type = "mint" PROVE i \in DOMAIN evs /\ evs'[i] = evs[i]
    <3>1. /\ Len(evs) \in Nat /\ DOMAIN evs = 1 .. Len(evs) /\ DOMAIN evs' = 1 .. Len(evs) + 1
          /\ evs'[Len(evs) + 1] = e /\ \A j \in 1 .. Len(evs) : evs'[j] = evs[j]
      BY <1>1
    <3> QED
      BY <2>1, <3>1
  <2> QED
    BY <1>1, <1>2, <2>1 DEF Worked
<1>7. KnownTickers'
  BY <1>1, <1>2 DEF KnownTickers
<1> QED
  BY <1>3, <1>5, <1>6, <1>7

LEMMA InscribeIndexed ==
  ASSUME IInv, Indexing, left' = Tail(left), UNCHANGED <<ord, hashes, pc, hash, at>>,
         TransferInscribe(Head(left)), ~ Repeats(Head(left))
  PROVE  IInv'
<1> DEFINE x == Head(left)
<1> DEFINE a == <<x.pk, x.tick>>
<1> DEFINE b == [Balance(a) EXCEPT !.available = @ - x.amount.n]
<1> DEFINE e == Event("inscribe", x, x.pk, Nobody, x.amount.n)
<1>1. /\ x.op = "transfer" /\ Balance(a).available >= x.amount.n
      /\ evs' = Append(evs, e) /\ historic' = Append(historic, Row(a, b)) /\ cache' = [cache EXCEPT ![a] = Some(b)]
      /\ tickers' = tickers /\ ticks' = ticks /\ hashes' = hashes
  BY DEF TransferInscribe, CanInscribe, IsTransfer, Log
<1>2. /\ Here \in 1 .. MaxHeight /\ evs \in Seq(Logged) /\ historic \in Seq(BalanceRow)
      /\ tickers \subseteq Ticker /\ ticks \in [Ticks -> Maybe(CachedTicker)] /\ \A t \in tickers : t.h <= Here
      /\ x \in Offered /\ Follows(evs, historic)
  BY IndexingIs
<1>3. x.tick \in Ticks /\ x.pk \in Pks /\ x.amount.n \in Nat /\ a \in Accounts
  BY <1>1, <1>2, Pow20Assumption DEF Accounts
<1>4. Balance(a) = LastBalance(historic, a) /\ Balance(a) \in [overall : Int, available : Int]
  BY <1>3, BalanceIs DEF IInv
<1>5. /\ b \in [overall : Int, available : Int]
      /\ b.overall = Balance(a).overall /\ b.available = Balance(a).available - x.amount.n /\ b.available >= 0
  <2> DEFINE o == Balance(a)
  <2>1. o \in [overall : Int, available : Int] /\ o.available >= x.amount.n /\ x.amount.n \in Nat
    BY <1>1, <1>3, <1>4
  <2>2. b = [o EXCEPT !.available = @ - x.amount.n]
    OBVIOUS
  <2> HIDE DEF o, b, x
  <2>3. b.overall = o.overall /\ b.available = o.available - x.amount.n /\ b \in [overall : Int, available : Int]
    BY <2>1, <2>2
  <2> QED
    BY <2>1, <2>3 DEF o
<1>6. /\ e \in Logged /\ e.type = "inscribe" /\ e.h = Here /\ e.by = x.by
      /\ e.tick = x.tick /\ e.from = x.pk /\ e.amount = x.amount.n
  BY <1>1, <1>2, InscribeEvent
<1>7. /\ Row(a, b) \in BalanceRow
      /\ Row(a, b).pk = x.pk /\ Row(a, b).tick = x.tick
      /\ Row(a, b).overall = b.overall /\ Row(a, b).available = b.available
  BY <1>2, <1>3, <1>5, RowIs
<1>8. a = <<e.from, e.tick>> /\ \A i \in DOMAIN evs : evs[i].type = "inscribe" => evs[i].by # e.by
  <2>1. CanInscribe(x) /\ ~ Repeats(x)
    BY DEF TransferInscribe
  <2>2. ~ Recorded("inscribe", x)
    BY <2>1 DEF Repeats
  <2> QED
    BY <1>6, <2>2 DEF Recorded
<1> HIDE DEF x, a, b, e
<1>9. /\ Cached' /\ cache' \in [Accounts -> Maybe([overall : Int, available : Int])]
      /\ historic' \in Seq(BalanceRow) /\ UpTo(historic', Here) /\ SameBelow(historic', historic, Here)
  BY <1>1, <1>3, <1>5, CachedAfter
<1>10. /\ evs' \in Seq(Logged) /\ UpTo(evs', Here) /\ SameBelow(evs', evs, Here)
       /\ Supplies' /\ Worked' /\ KnownTickers'
  BY <1>1, <1>6, MintsNothing
<1>11. Follows(evs', historic')
  <2> DEFINE r == Row(a, b)
  <2>1. /\ r \in BalanceRow /\ r.pk = e.from /\ r.tick = e.tick
        /\ r.overall = LastBalance(historic, <<e.from, e.tick>>).overall
        /\ r.available = LastBalance(historic, <<e.from, e.tick>>).available - e.amount
        /\ r.available >= 0
    BY <1>4, <1>5, <1>6, <1>7, <1>8
  <2>2. evs' = Append(evs, e) /\ historic' = Append(historic, r)
    BY <1>1
  <2> HIDE DEF r
  <2> QED
    BY <1>2, <1>6, <1>8, <2>1, <2>2, FollowsInscribe
<1> QED
  BY <1>1, <1>2, <1>9, <1>10, <1>11, Indexed

-----------------------------------------------------------------------------
(* A transfer inscription is spent                                         *)

LEMMA SourceIs ==
  ASSUME IInv, Indexing, NEW x \in Offered, x.op = "transfer", Usable(x)
  PROVE  \E i \in DOMAIN evs :
           /\ \A j \in DOMAIN evs : evs[j].type = "inscribe" /\ evs[j].by = x.by <=> j = i
           /\ SourceOf(x) = evs[i].from /\ SourceOf(x) \in Pks
           /\ evs[i].tick = x.tick /\ evs[i].amount = x.amount.n
           /\ ~ \E j \in DOMAIN evs : evs[j].type = "send" /\ evs[j].by = x.by
<1>1. PICK i \in DOMAIN evs : {j \in DOMAIN evs : evs[j].type = "inscribe" /\ evs[j].by = x.by} = {i}
  BY DEF Usable
<1>2. \A j \in DOMAIN evs : evs[j].type = "inscribe" /\ evs[j].by = x.by <=> j = i
  BY <1>1
<1>3. evs[i] \in Logged /\ evs[i].type = "inscribe" /\ evs[i].by = x.by
  BY <1>2, IndexingIs
<1>4. PICK y \in Offers("transfer") : y.by = evs[i].by /\ y.tick = evs[i].tick /\ y.amount.n = evs[i].amount
  BY <1>3 DEF Logged
<1>5. y \in Offered /\ y.op = "transfer" /\ x.by = y.by
  BY <1>3, <1>4 DEF Offers
<1>6. y.tick = x.tick /\ y.amount = x.amount
  BY <1>5, Pow20Assumption
<1>7. evs[i].from \in Pks
  BY <1>3 DEF Logged
<1>8. SourceOf(x) = evs[i].from
  <2>1. (CHOOSE j \in DOMAIN evs : evs[j].type = "inscribe" /\ evs[j].by = x.by) = i
    BY <1>2
  <2> QED
    BY <2>1 DEF SourceOf
<1> QED
  BY <1>2, <1>4, <1>6, <1>7, <1>8 DEF Usable

(* The events and the balances after a send.                               *)
LEMMA SendIndexed ==
  ASSUME IInv, Indexing, left' = Tail(left), UNCHANGED <<ord, hashes, pc, hash, at, tickers, ticks>>,
         NEW x \in Offered, x.op = "transfer", Usable(x),
         NEW to \in Pks, evs' = Append(evs, Event("send", x, SourceOf(x), to, x.amount.n)),
         Cached', cache' \in [Accounts -> Maybe([overall : Int, available : Int])],
         historic' \in Seq(BalanceRow), UpTo(historic', Here), SameBelow(historic', historic, Here),
         \A a \in Accounts :
           /\ LastBalance(historic', a).overall = LastBalance(historic, a).overall
                + (IF a = <<to, x.tick>> THEN x.amount.n ELSE 0)
                - (IF a = <<SourceOf(x), x.tick>> THEN x.amount.n ELSE 0)
           /\ LastBalance(historic', a).available = LastBalance(historic, a).available
                + (IF a = <<to, x.tick>> THEN x.amount.n ELSE 0)
  PROVE  IInv'
<1> DEFINE e == Event("send", x, SourceOf(x), to, x.amount.n)
<1>1. PICK i \in DOMAIN evs :
         /\ \A j \in DOMAIN evs : evs[j].type = "inscribe" /\ evs[j].by = x.by <=> j = i
         /\ SourceOf(x) = evs[i].from /\ SourceOf(x) \in Pks
         /\ evs[i].tick = x.tick /\ evs[i].amount = x.amount.n
         /\ ~ \E j \in DOMAIN evs : evs[j].type = "send" /\ evs[j].by = x.by
  BY SourceIs
<1>2. /\ Here \in 1 .. MaxHeight /\ evs \in Seq(Logged) /\ historic \in Seq(BalanceRow)
      /\ tickers \subseteq Ticker /\ ticks \in [Ticks -> Maybe(CachedTicker)] /\ \A t \in tickers : t.h <= Here
      /\ Follows(evs, historic)
  BY IndexingIs
<1>3. /\ e \in Logged /\ e.type = "send" /\ e.h = Here /\ e.by = x.by
      /\ e.tick = x.tick /\ e.from = SourceOf(x) /\ e.to = to /\ e.amount = x.amount.n
  BY <1>1, <1>2, SendEvent
<1>4. evs' = Append(evs, e) /\ tickers' = tickers /\ ticks' = ticks /\ hashes' = hashes
  OBVIOUS
<1> HIDE DEF e
<1>5. /\ evs' \in Seq(Logged) /\ UpTo(evs', Here) /\ SameBelow(evs', evs, Here)
      /\ Supplies' /\ Worked' /\ KnownTickers'
  BY <1>3, <1>4, MintsNothing
<1>6. Follows(evs', historic')
  <2> DEFINE hs2 == historic'
  <2>1. hs2 \in Seq(BalanceRow)
    OBVIOUS
  <2>2. \A a \in Accounts :
           /\ LastBalance(hs2, a).overall = LastBalance(historic, a).overall
                + (IF a = <<e.to, e.tick>> THEN e.amount ELSE 0) - (IF a = <<e.from, e.tick>> THEN e.amount ELSE 0)
           /\ LastBalance(hs2, a).available = LastBalance(historic, a).available
                + (IF a = <<e.to, e.tick>> THEN e.amount ELSE 0)
    BY <1>3
  <2>3. /\ \A j \in DOMAIN evs : evs[j].type = "inscribe" /\ evs[j].by = e.by <=> j = i
        /\ evs[i].tick = e.tick /\ evs[i].from = e.from /\ evs[i].amount = e.amount
        /\ ~ \E j \in DOMAIN evs : evs[j].type = "send" /\ evs[j].by = e.by
    BY <1>1, <1>3
  <2> HIDE DEF hs2
  <2>4. Follows(Append(evs, e), hs2)
    BY <1>2, <1>3, <2>1, <2>2, <2>3, FollowsSend
  <2> QED
    BY <1>4, <2>4 DEF hs2
<1> QED
  BY <1>2, <1>4, <1>5, <1>6, Indexed

LEMMA FeeIndexed ==
  ASSUME IInv, Indexing, left' = Tail(left), UNCHANGED <<ord, hashes, pc, hash, at>>, TransferToFee(Head(left))
  PROVE  IInv'
<1> DEFINE x == Head(left)
<1> DEFINE f == SourceOf(x)
<1> DEFINE s == <<f, x.tick>>
<1> DEFINE b == [Balance(s) EXCEPT !.available = @ + x.amount.n]
<1>1. /\ x.op = "transfer" /\ Usable(x)
      /\ evs' = Append(evs, Event("send", x, f, f, x.amount.n))
      /\ historic' = Append(historic, Row(s, b)) /\ cache' = [cache EXCEPT ![s] = Some(b)]
      /\ tickers' = tickers /\ ticks' = ticks
  BY DEF TransferToFee, CanSend, IsTransfer, Log
<1>2. x \in Offered
  BY IndexingIs
<1>3. f \in Pks
  BY <1>1, <1>2, SourceIs
<1>4. x.tick \in Ticks /\ x.amount.n \in Nat /\ s \in Accounts
  BY <1>1, <1>2, <1>3, Pow20Assumption DEF Accounts
<1>5. Balance(s) = LastBalance(historic, s) /\ Balance(s) \in [overall : Int, available : Int]
  BY <1>4, BalanceIs DEF IInv
<1>6. /\ b \in [overall : Int, available : Int]
      /\ b.overall = Balance(s).overall /\ b.available = Balance(s).available + x.amount.n
  <2> DEFINE o == Balance(s)
  <2>1. o \in [overall : Int, available : Int] /\ x.amount.n \in Nat
    BY <1>4, <1>5
  <2>2. b = [o EXCEPT !.available = @ + x.amount.n]
    OBVIOUS
  <2> HIDE DEF o, b, x
  <2>3. b.overall = o.overall /\ b.available = o.available + x.amount.n /\ b \in [overall : Int, available : Int]
    BY <2>1, <2>2
  <2> QED
    BY <2>1, <2>3 DEF o
<1> HIDE DEF b
<1>7. /\ Cached' /\ cache' \in [Accounts -> Maybe([overall : Int, available : Int])]
      /\ historic' \in Seq(BalanceRow) /\ UpTo(historic', Here) /\ SameBelow(historic', historic, Here)
      /\ \A c \in Accounts : LastBalance(historic', c) = IF c = s THEN b ELSE LastBalance(historic, c)
  <2> HIDE DEF s, x
  <2> QED
    BY <1>1, <1>4, <1>6, CachedAfter
<1>8. ASSUME NEW c \in Accounts
      PROVE  /\ LastBalance(historic', c).overall = LastBalance(historic, c).overall
                  + (IF c = s THEN x.amount.n ELSE 0) - (IF c = s THEN x.amount.n ELSE 0)
             /\ LastBalance(historic', c).available = LastBalance(historic, c).available
                  + (IF c = s THEN x.amount.n ELSE 0)
  <2> HIDE DEF s, x
  <2>1. LastBalance(historic, c) \in [overall : Int, available : Int]
    BY IndexingIs, BalanceType
  <2>2. CASE c = s
    BY <1>4, <1>5, <1>6, <1>7, <2>1, <2>2
  <2>3. CASE c # s
    BY <1>7, <2>1, <2>3
  <2> QED
    BY <2>2, <2>3
<1> HIDE DEF x
<1>9. UNCHANGED <<ord, hashes, pc, hash, at, tickers, ticks>>
  BY <1>1
<1> QED
  BY <1>1, <1>2, <1>3, <1>7, <1>8, <1>9, SendIndexed

LEMMA TwoRows ==
  ASSUME NEW S, NEW hs \in Seq(S), NEW r \in S, NEW q \in S
  PROVE  hs \o <<r, q>> = Append(Append(hs, r), q)
<1> DEFINE u == hs \o <<r, q>>
<1> DEFINE v == Append(Append(hs, r), q)
<1>1. <<r, q>> \in Seq(S) /\ Len(<<r, q>>) = 2 /\ <<r, q>>[1] = r /\ <<r, q>>[2] = q
  OBVIOUS
<1>2. /\ Len(hs) \in Nat /\ u \in Seq(S) /\ Len(u) = Len(hs) + 2
      /\ \A i \in 1 .. Len(hs) : u[i] = hs[i]
      /\ u[Len(hs) + 1] = r /\ u[Len(hs) + 2] = q
  BY <1>1
<1>3. /\ v \in Seq(S) /\ Len(v) = Len(hs) + 2
      /\ \A i \in 1 .. Len(hs) : v[i] = hs[i]
      /\ v[Len(hs) + 1] = r /\ v[Len(hs) + 2] = q
  OBVIOUS
<1> HIDE DEF u, v
<1>4. \A i \in 1 .. Len(u) : i \in 1 .. Len(hs) \/ i = Len(hs) + 1 \/ i = Len(hs) + 2
  BY <1>2
<1>5. u = v
  BY <1>2, <1>3, <1>4, SeqEqual
<1> QED
  BY <1>5 DEF u, v

LEMMA NormalIndexed ==
  ASSUME IInv, Indexing, left' = Tail(left), UNCHANGED <<ord, hashes, pc, hash, at>>, TransferNormal(Head(left))
  PROVE  IInv'
<1> DEFINE x == Head(left)
<1> DEFINE n == x.amount.n
<1> DEFINE f == SourceOf(x)
<1> DEFINE s == <<f, x.tick>>
<1> DEFINE d == <<x.pk, x.tick>>
<1> DEFINE b == [Balance(s) EXCEPT !.overall = @ - n]
<1> DEFINE o == IF d = s THEN b ELSE Balance(d)
<1> DEFINE c == [overall |-> o.overall + n, available |-> o.available + n]
<1> DEFINE r == Row(s, b)
<1> DEFINE q == Row(d, c)
<1> DEFINE once == Append(historic, r)
<1>1. /\ x.op = "transfer" /\ Usable(x)
      /\ evs' = Append(evs, Event("send", x, f, x.pk, n))
      /\ historic' = historic \o <<r, q>>
      /\ cache' = [cache EXCEPT ![s] = Some(b), ![d] = Some(c)]
      /\ tickers' = tickers /\ ticks' = ticks
  BY DEF TransferNormal, CanSend, IsTransfer, Log
<1>2. /\ x \in Offered /\ Here \in 1 .. MaxHeight /\ historic \in Seq(BalanceRow) /\ UpTo(historic, Here)
      /\ cache \in [Accounts -> Maybe([overall : Int, available : Int])]
  BY IndexingIs
<1>3. f \in Pks
  BY <1>1, <1>2, SourceIs
<1>4. x.tick \in Ticks /\ x.pk \in Pks /\ n \in Nat /\ s \in Accounts /\ d \in Accounts
  BY <1>1, <1>2, <1>3, Pow20Assumption DEF Accounts
<1>5. /\ Balance(s) = LastBalance(historic, s) /\ Balance(s) \in [overall : Int, available : Int]
      /\ Balance(d) = LastBalance(historic, d) /\ Balance(d) \in [overall : Int, available : Int]
  <2> HIDE DEF s, d
  <2> QED
    BY <1>4, BalanceIs DEF IInv
<1>6. /\ b \in [overall : Int, available : Int]
      /\ b.overall = Balance(s).overall - n /\ b.available = Balance(s).available
  <2> DEFINE old == Balance(s)
  <2>1. old \in [overall : Int, available : Int] /\ n \in Nat
    BY <1>4, <1>5
  <2>2. b = [old EXCEPT !.overall = @ - n]
    OBVIOUS
  <2> HIDE DEF old, b, n
  <2>3. b.overall = old.overall - n /\ b.available = old.available /\ b \in [overall : Int, available : Int]
    BY <2>1, <2>2
  <2> QED
    BY <2>1, <2>3 DEF old
<1> HIDE DEF b
<1>7. /\ o \in [overall : Int, available : Int]
      /\ o = IF d = s THEN b ELSE Balance(d)
  <2> HIDE DEF s, d
  <2> QED
    BY <1>5, <1>6
<1> HIDE DEF o
<1>8. /\ c \in [overall : Int, available : Int]
      /\ c.overall = o.overall + n /\ c.available = o.available + n
  <2> HIDE DEF n
  <2> QED
    BY <1>4, <1>7
<1> HIDE DEF c
<1>9. /\ r \in BalanceRow /\ r.pk = s[1] /\ r.tick = s[2] /\ r.h = Here
      /\ b = [overall |-> r.overall, available |-> r.available]
  <2> HIDE DEF s
  <2> QED
    BY <1>2, <1>4, <1>6, RowIs
<1>10. /\ q \in BalanceRow /\ q.pk = d[1] /\ q.tick = d[2] /\ q.h = Here
       /\ c = [overall |-> q.overall, available |-> q.available]
  <2> HIDE DEF d
  <2> QED
    BY <1>2, <1>4, <1>8, RowIs
<1> HIDE DEF r, q
<1> HIDE DEF s, d
<1>11. historic' = Append(once, q)
  <2>1. historic \in Seq(BalanceRow) /\ r \in BalanceRow /\ q \in BalanceRow
    BY <1>2, <1>9, <1>10
  <2>2. historic \o <<r, q>> = Append(Append(historic, r), q)
    BY ONLY <2>1, TwoRows
  <2> QED
    BY ONLY <1>1, <2>2
<1>12. once \in Seq(BalanceRow) /\ UpTo(once, Here) /\ SameBelow(once, historic, Here)
  BY <1>2, <1>4, <1>9, RowAfter
<1>13. LastBalance(once, s) = b
  BY <1>2, <1>4, <1>9, RowAfter
<1>14. \A a \in Accounts : a # s => LastBalance(once, a) = LastBalance(historic, a)
  BY <1>2, <1>4, <1>9, RowAfter
<1> HIDE DEF once
<1>15. historic' \in Seq(BalanceRow) /\ UpTo(historic', Here) /\ SameBelow(historic', once, Here)
  BY <1>2, <1>4, <1>10, <1>11, <1>12, RowAfter
<1>16. LastBalance(historic', d) = c
  BY <1>2, <1>4, <1>10, <1>11, <1>12, RowAfter
<1>17. \A a \in Accounts : a # d => LastBalance(historic', a) = LastBalance(once, a)
  BY <1>2, <1>4, <1>10, <1>11, <1>12, RowAfter
<1>18. SameBelow(historic', historic, Here)
  BY <1>12, <1>15 DEF SameBelow
<1>19. /\ LastBalance(historic', d) = c
       /\ s # d => LastBalance(historic', s) = b
       /\ \A a \in Accounts : a # s /\ a # d => LastBalance(historic', a) = LastBalance(historic, a)
  BY <1>4, <1>13, <1>14, <1>16, <1>17
<1>20. cache' \in [Accounts -> Maybe([overall : Int, available : Int])]
  <2>1. Some(b) \in Maybe([overall : Int, available : Int]) /\ Some(c) \in Maybe([overall : Int, available : Int])
    BY <1>6, <1>8, MaybeIs
  <2> QED
    BY <1>1, <1>2, <2>1
<1>21. Cached'
  <2>1. ASSUME NEW a \in Accounts, cache'[a] # None PROVE cache'[a][1] = LastBalance(historic', a)
    <3>1. Some(b)[1] = b /\ Some(c)[1] = c
      BY DEF Some
    <3>2. CASE a = d
      <4>1. cache'[a] = Some(c)
        BY <1>1, <1>2, <1>4, <3>2
      <4> QED
        BY <1>19, <3>1, <3>2, <4>1
    <3>3. CASE a # d /\ a = s
      <4>1. cache'[a] = Some(b)
        BY <1>1, <1>2, <1>4, <3>3
      <4> QED
        BY <1>19, <3>1, <3>3, <4>1
    <3>4. CASE a # d /\ a # s
      <4>1. cache'[a] = cache[a]
        BY <1>1, <1>2, <1>4, <3>4
      <4>2. cache[a] # None => cache[a][1] = LastBalance(historic, a)
        BY DEF IInv, Cached
      <4> QED
        BY <1>19, <2>1, <3>4, <4>1, <4>2
    <3> QED
      BY <3>2, <3>3, <3>4
  <2> QED
    BY <2>1 DEF Cached
<1>22. ASSUME NEW a \in Accounts
       PROVE  /\ LastBalance(historic', a).overall = LastBalance(historic, a).overall
                   + (IF a = d THEN n ELSE 0) - (IF a = s THEN n ELSE 0)
              /\ LastBalance(historic', a).available = LastBalance(historic, a).available
                   + (IF a = d THEN n ELSE 0)
  <2> HIDE DEF n
  <2>1. LastBalance(historic, a) \in [overall : Int, available : Int]
    BY <1>2, BalanceType
  <2>2. n \in Nat
    BY <1>4
  <2>3. CASE a = d /\ a = s
    <3>1. o = b
      BY <1>7, <2>3
    <3>2. LastBalance(historic', a) = c /\ Balance(s) = LastBalance(historic, a)
      BY <1>5, <1>19, <2>3
    <3> QED
      BY <1>6, <1>8, <2>1, <2>2, <2>3, <3>1, <3>2
  <2>4. CASE a = d /\ a # s
    <3>1. o = Balance(d)
      BY <1>7, <2>4
    <3>2. LastBalance(historic', a) = c /\ Balance(d) = LastBalance(historic, a)
      BY <1>5, <1>19, <2>4
    <3> QED
      BY <1>8, <2>1, <2>2, <2>4, <3>1, <3>2
  <2>5. CASE a # d /\ a = s
    <3>1. LastBalance(historic', a) = b /\ Balance(s) = LastBalance(historic, a)
      BY <1>5, <1>19, <2>5
    <3> QED
      BY <1>6, <2>1, <2>2, <2>5, <3>1
  <2>6. CASE a # d /\ a # s
    <3>1. LastBalance(historic', a) = LastBalance(historic, a)
      BY <1>19, <2>6
    <3> QED
      BY <2>1, <2>6, <3>1
  <2> QED
    BY <2>3, <2>4, <2>5, <2>6
<1>23. UNCHANGED <<ord, hashes, pc, hash, at, tickers, ticks>>
  BY <1>1
<1>24. \A a \in Accounts :
         /\ LastBalance(historic', a).overall = LastBalance(historic, a).overall
              + (IF a = <<x.pk, x.tick>> THEN n ELSE 0) - (IF a = <<f, x.tick>> THEN n ELSE 0)
         /\ LastBalance(historic', a).available = LastBalance(historic, a).available
              + (IF a = <<x.pk, x.tick>> THEN n ELSE 0)
  BY <1>22 DEF s, d
<1> HIDE DEF x
<1> QED
  BY <1>1, <1>2, <1>4, <1>15, <1>18, <1>20, <1>21, <1>23, <1>24, SendIndexed

(* A transfer that the rules refuse.                                       *)
LEMMA RefusedIndexed ==
  ASSUME IInv, Indexing, left' = Tail(left), UNCHANGED <<ord, hashes, pc, hash, at>>,
         UNCHANGED <<evs, tickers, historic, ticks, cache>>
  PROVE  IInv'
<1>1. /\ evs \in Seq(Logged) /\ historic \in Seq(BalanceRow) /\ tickers \subseteq Ticker
      /\ ticks \in [Ticks -> Maybe(CachedTicker)]
      /\ cache \in [Accounts -> Maybe([overall : Int, available : Int])]
      /\ UpTo(evs, Here) /\ UpTo(historic, Here) /\ \A t \in tickers : t.h <= Here
      /\ Follows(evs, historic) /\ KnownTickers
  BY IndexingIs
<1>2. /\ evs' = evs /\ historic' = historic /\ tickers' = tickers /\ ticks' = ticks /\ cache' = cache
      /\ hashes' = hashes /\ Height' = Height
  BY DEF Height
<1>3. SameBelow(evs', evs, Here) /\ SameBelow(historic', historic, Here)
  BY <1>2 DEF SameBelow
<1>4. Supplies' /\ Worked' /\ Cached' /\ KnownTickers'
  BY <1>1, <1>2 DEF IInv, Supplies, Worked, Cached, KnownTickers
<1> QED
  BY <1>1, <1>2, <1>3, <1>4, Indexed

LEMMA OneIndexed ==
  ASSUME IInv, IndexOne
  PROVE  IInv'
<1> DEFINE x == Head(left)
<1>1. Indexing
  BY DEF IndexOne, Indexing
<1>2. CASE /\ ~ (Raises(x) \/ Repeats(x))
           /\ \/ Deploy(x) \/ Mint(x) \/ TransferInscribe(x) \/ TransferNormal(x) \/ TransferToFee(x)
              \/ UNCHANGED <<evs, events, tickers, historic, ticks, cache>>
           /\ left' = Tail(left)
           /\ UNCHANGED <<ord, cumul, hashes, extra, pc, booting, hash, at>>
  <2>1. left' = Tail(left) /\ UNCHANGED <<ord, hashes, pc, hash, at>>
    BY <1>2
  <2>2. CASE Deploy(x)
    BY <1>1, <2>1, <2>2, DeployIndexed
  <2>3. CASE Mint(x)
    BY <1>1, <2>1, <2>3, MintIndexed
  <2>4. CASE TransferInscribe(x)
    BY <1>1, <1>2, <2>1, <2>4, InscribeIndexed
  <2>5. CASE TransferNormal(x)
    BY <1>1, <2>1, <2>5, NormalIndexed
  <2>6. CASE TransferToFee(x)
    BY <1>1, <2>1, <2>6, FeeIndexed
  <2>7. CASE UNCHANGED <<evs, events, tickers, historic, ticks, cache>>
    <3>1. UNCHANGED <<evs, tickers, historic, ticks, cache>>
      BY <2>7
    <3> QED
      BY <1>1, <2>1, <3>1, RefusedIndexed
  <2> QED
    BY <1>2, <2>2, <2>3, <2>4, <2>5, <2>6, <2>7
<1>3. CASE Die
  BY <1>3, Dies
<1> QED
  BY <1>2, <1>3 DEF IndexOne

-----------------------------------------------------------------------------
(* Every step                                                              *)

LEMMA StepIInv == IInv /\ [Next]_vars => IInv'
<1> SUFFICES ASSUME IInv, [Next]_vars PROVE IInv'
  OBVIOUS
<1>1. CASE Environment
  BY <1>1, ChainGoesOn
<1>2. CASE Crash
  <2>1. Die
    BY <1>2 DEF Crash
  <2> QED
    BY <2>1, Dies
<1>3. CASE UNCHANGED vars
  <2>1. /\ UNCHANGED <<tickers, evs, historic, hashes, cache>>
        /\ UNCHANGED <<best, fork, opi, hash, left, ticks, at, pc>> /\ Height' = Height
    BY <1>3 DEF vars, ord, main, extra, memory, Height
  <2>2. Typed'
    BY <2>1 DEF IInv, Typed
  <2>3. Control'
    BY <2>1 DEF IInv, Control
  <2>4. TickersCached'
    BY <2>1 DEF IInv, TickersCached, KnownTickers
  <2> QED
    BY <2>1, <2>2, <2>3, <2>4, Quiet
<1>4. CASE Indexer
  <2>1. CASE Start
    BY <2>1, Starts
  <2>2. CASE CheckResidue
    BY <2>2, ChecksResidue
  <2>3. CASE CheckExtraResidue \/ ReadHeight \/ WalkEnds \/ UpdateEventHashes
    BY <2>3, LooksUp
  <2>4. CASE ReadHash
    BY <2>4, ReadsHash
  <2>5. CASE CheckTip
    BY <2>5, ChecksTip
  <2>6. CASE WalkFound
    BY <2>6, WalkEndsWell
  <2>7. CASE WalkBack
    BY <2>7, WalksBack
  <2>8. CASE ReadTransfers
    BY <2>8, ReadsTransfers
  <2>9. CASE IndexOne
    BY <2>9, OneIndexed
  <2>10. CASE StoreHash
    BY <2>10, StoresHash
  <2>11. CASE \/ InitialExtra \/ BeginExtra \/ NoExtra
              \/ \E b \in Changed : ExtraBalance(b)
              \/ \E u \in New : ExtraUnused(u)
              \/ \E u \in unused : ExtraSpent(u)
              \/ ExtraHash
    BY <2>11, Extras
  <2> QED
    BY <1>4, <2>1, <2>2, <2>3, <2>4, <2>5, <2>6, <2>7, <2>8, <2>9, <2>10, <2>11 DEF Indexer
<1> QED
  BY <1>1, <1>2, <1>3, <1>4 DEF Next

(* The invariant says of sets of events what the property says of their    *)
(* places.                                                                 *)
LEMMA BooksBalance ==
  ASSUME IInv
  PROVE  BalancesFollowEvents
<1>1. evs \in Seq(Logged) /\ historic \in Seq(BalanceRow)
  BY DEF IInv, Typed
<1>2. Follows(evs, historic)
  BY NowFollows DEF IInv
<1>3. ASSUME NEW a \in Accounts
      PROVE  LET mine == {i \in DOMAIN evs : evs[i].tick = a[2]}
                 in   == {i \in mine : evs[i].to = a[1] /\ evs[i].type \in {"mint", "send"}}
                 out  == {i \in mine : evs[i].from = a[1] /\ evs[i].type = "send"}
                 on   == {i \in mine : /\ evs[i].from = a[1] /\ evs[i].type = "inscribe"
                                       /\ ~ \E j \in DOMAIN evs : evs[j].type = "send" /\ evs[j].by = evs[i].by}
                 b    == Stored(a, MaxHeight)
             IN  /\ b.overall = Total(in) - Total(out)
                 /\ b.available = b.overall - Total(on)
                 /\ b.available >= 0
                 /\ cache[a] # None => cache[a][1] = b
  <2> DEFINE mine == {i \in DOMAIN evs : evs[i].tick = a[2]}
  <2> DEFINE in == {i \in mine : evs[i].to = a[1] /\ evs[i].type \in {"mint", "send"}}
  <2> DEFINE out == {i \in mine : evs[i].from = a[1] /\ evs[i].type = "send"}
  <2> DEFINE on == {i \in mine : /\ evs[i].from = a[1] /\ evs[i].type = "inscribe"
                                 /\ ~ \E j \in DOMAIN evs : evs[j].type = "send" /\ evs[j].by = evs[i].by}
  <2> DEFINE b == Stored(a, MaxHeight)
  <2>1. BalanceFollows(evs, historic, a)
    BY <1>2 DEF Follows
  <2>2. b = LastBalance(historic, a)
    BY <1>1, StoredIs
  <2>3. \A i \in DOMAIN evs : evs[i] \in Logged
    BY <1>1
  <2>4. in = {i \in DOMAIN evs : evs[i] \in In(a)}
    BY <2>3 DEF In
  <2>5. out = {i \in DOMAIN evs : evs[i] \in Out(a)}
    BY <2>3 DEF Out
  <2>6. on = {i \in DOMAIN evs : evs[i] \in Locked(evs, a)}
    BY <2>3 DEF Locked
  <2> HIDE DEF in, out, on, b
  <2>7. Total(in) = SumOf(evs, In(a))
    BY <2>4 DEF Total, SumOf
  <2>8. Total(out) = SumOf(evs, Out(a))
    BY <2>5 DEF Total, SumOf
  <2>9. Total(on) = SumOf(evs, Locked(evs, a))
    BY <2>6 DEF Total, SumOf
  <2>10. cache[a] # None => cache[a][1] = LastBalance(historic, a)
    BY DEF IInv, Cached
  <2>11. /\ b.overall = Total(in) - Total(out)
         /\ b.available = b.overall - Total(on)
         /\ b.available >= 0
         /\ cache[a] # None => cache[a][1] = b
    BY <2>1, <2>2, <2>7, <2>8, <2>9, <2>10 DEF BalanceFollows
  <2> QED
    BY <2>11 DEF in, out, on, b
<1>4. ASSUME NEW t \in tickers
      PROVE  /\ t.remaining = t.max - Total({i \in DOMAIN evs : evs[i].type = "mint" /\ evs[i].tick = t.tick})
             /\ t.remaining >= 0
  <2> DEFINE mints == {i \in DOMAIN evs : evs[i].type = "mint" /\ evs[i].tick = t.tick}
  <2>1. t.remaining = t.max - SumOf(evs, MintsOf(t.tick)) /\ t.remaining >= 0
    BY DEF IInv, Supplies
  <2>2. \A i \in DOMAIN evs : evs[i] \in Logged
    BY <1>1
  <2>3. mints = {i \in DOMAIN evs : evs[i] \in MintsOf(t.tick)}
    BY <2>2 DEF MintsOf
  <2> HIDE DEF mints
  <2>4. Total(mints) = SumOf(evs, MintsOf(t.tick))
    BY <2>3 DEF Total, SumOf
  <2>5. t.remaining = t.max - Total(mints) /\ t.remaining >= 0
    BY <2>1, <2>4
  <2> QED
    BY <2>5 DEF mints
<1> QED
  BY <1>3, <1>4 DEF BalancesFollowEvents

LEMMA WorkIsPaidOnce ==
  ASSUME IInv
  PROVE  WorkCountsOnce
<1>1. Follows(evs, historic)
  BY NowFollows DEF IInv
<1>2. ASSUME NEW i \in DOMAIN evs, evs[i].type = "mint"
      PROVE  /\ \E t \in tickers :
                  /\ t.tick = evs[i].tick /\ t.start <= Height
                  /\ evs[i].solution[1].block = hashes[t.start]
             /\ \A j \in DOMAIN evs : evs[j].type = "mint" /\ evs[j].solution = evs[i].solution => i = j
  BY <1>1, <1>2 DEF IInv, Worked, Follows
<1> QED
  BY <1>2 DEF WorkCountsOnce

(* The balances that are stored and cached, and the supplies that are left *)
(* of the tickers, are what the events on record add up to, in the middle  *)
(* of a block (index_block, which writes an event and its balances in one  *)
(* transaction), after reorg_fix and in every restart; no balance is       *)
(* negative, and what is locked are the inscriptions that were not sent.   *)
THEOREM Balances == Spec => []BalancesFollowEvents
<1>1. Init => IInv
  BY Begins
<1>2. IInv /\ [Next]_vars => IInv'
  BY StepIInv
<1>3. IInv => BalancesFollowEvents
  BY BooksBalance
<1> QED
  BY <1>1, <1>2, <1>3, PTL DEF Spec

(* Every mint that mint_inscribe has put on record names the block at which*)
(* the mints of its ticker start on the indexed chain, whatever reorg_fix  *)
(* has removed since, and no solution is on record twice.                  *)
THEOREM WorkOnce == Spec => []WorkCountsOnce
<1>1. Init => IInv
  BY Begins
<1>2. IInv /\ [Next]_vars => IInv'
  BY StepIInv
<1>3. IInv => WorkCountsOnce
  BY WorkIsPaidOnce
<1> QED
  BY <1>1, <1>2, <1>3, PTL DEF Spec
-----------------------------------------------------------------------------
(* The second invariant: what is derived from the events                   *)

(* f is or was at height h on the chain; it was, and never comes back.     *)
Was(h, f)  == h <= Len(best) /\ f <= best[h] /\ (h <= Len(opi) => f <= opi[h])
Gone(h, f) == h <= Len(best) /\ f < best[h] /\ (h <= Len(opi) => f < opi[h])

(* The extra tables and the main tables are of the same blocks up to k.    *)
Agree(k) == k <= Len(xhashes) /\ k <= Height /\ \A h \in 1 .. k : xhashes[h] = hashes[h]

(* Bitcoin's chain, and that of the main indexer, which lags behind it.    *)
Sources ==
  /\ Len(opi) <= Len(best)
  /\ \A h \in 1 .. Len(best) : best[h] <= fork
  /\ \A h \in 1 .. Len(opi) : opi[h] <= best[h]

(* A block is being read.                                                  *)
Reading == {"tip", "walk", "read", "index", "store"}

(* Every hash that is stored or about to be was once on the chain, and the *)
(* one that the walk has left behind never comes back.                     *)
Chains ==
  /\ Sources
  /\ \A h \in DOMAIN hashes : Was(h, hashes[h])
  /\ pc \in Reading => Was(Here, hash)
  /\ pc = "walk" /\ at < Height => Gone(at + 1, hashes[at + 1])

(* Where the extra tables part from the main tables, their block never     *)
(* comes back, and what is read meanwhile is another one.                  *)
Parted ==
  /\ \A d \in 1 .. Len(xhashes) : Agree(d - 1) /\ ~ Agree(d) => Gone(d, xhashes[d])
  /\ pc \in Reading /\ Len(xhashes) > Height /\ Agree(Height)
       => xhashes[Here] # hash

ExtraTyped ==
  /\ xhashes \in Seq(Nat) /\ at \in Nat
  /\ current \subseteq BalanceRow
  /\ \A u \in unused : u.h \in Nat

(* The history is in the order of the blocks, and a send is in it.         *)
Sorted(hs) == \A i, j \in DOMAIN hs : i <= j => hs[i].h <= hs[j].h
Told(es, hs) == \A i \in DOMAIN es : es[i].type = "send" => \E j \in DOMAIN hs : hs[j].h = es[i].h
InOrder == Sorted(historic) /\ Told(evs, historic)

Of(c, a) == c.pk = a[1] /\ c.tick = a[2]

(* The rows of an account among hs up to height k, and the last of them.   *)
RowsIn(hs, a, k) == {i \in DOMAIN hs : hs[i].pk = a[1] /\ hs[i].tick = a[2] /\ hs[i].h <= k}
LastIn(hs, a, k) == hs[CHOOSE i \in RowsIn(hs, a, k) : \A j \in RowsIn(hs, a, k) : j <= i]

(* The current balances up to k are the last ones in the history up to k.  *)
HeldAt(k) ==
  \A a \in Accounts :
    /\ RowsOf(a, k) # {} => \E c \in current : Of(c, a)
    /\ \A c \in current : Of(c, a) /\ c.h <= k => RowsOf(a, k) # {} /\ c = LastRow(a, k)

(* The extra tables are at a block.                                        *)
AtWork == {"xbalances", "xspent"}

Held ==
  /\ \A b, c \in current : b.pk = c.pk /\ b.tick = c.tick => b = c
  /\ \A k \in 0 .. Len(xhashes) : Agree(k) => HeldAt(k)

(* The residue has not been looked for.                                    *)
Unsettled == AtWork \cup {"down", "residue", "xresidue"}

(* They are a block ahead of their hashes at most, and not at all once the *)
(* residue has been looked for.                                            *)
Tops ==
  /\ \A r \in current \cup unused : r.h <= Len(xhashes) + 1
  /\ pc \notin Unsettled =>
       \A r \in current \cup unused : r.h <= Len(xhashes)

(* Unless a block was left unfinished, what is unused is what was inscribed*)
(* and not sent.                                                           *)
Unspent ==
  Agree(Len(xhashes)) /\ (\A r \in current \cup unused : r.h <= Len(xhashes))
    => unused = UnusedUpTo(Len(xhashes))

AtBlock ==
  /\ pc \in AtWork =>
       /\ at = Len(xhashes) + 1 /\ at <= Height /\ Agree(at - 1)
       /\ \A c \in current : c.h = at => c \in Changed
       /\ unused \subseteq UnusedUpTo(at - 1) \cup New
  /\ pc = "xbalances" => UnusedUpTo(at - 1) \subseteq unused
  /\ pc = "xspent" => Changed \subseteq current /\ UnusedUpTo(at) \subseteq unused

Chain(h) == [j \in 1 .. h |-> Only(evs, {j})]

(* The cumulative hashes are those of the events up to their blocks.       *)
Cumulative ==
  LET top == IF pc \in Between \cup {"index"} THEN Height ELSE Here
  IN  /\ \A c \in cumul : c.h \in 1 .. top
      /\ \A c, d \in cumul : c.h = d.h => c = d
      /\ \A h \in 1 .. IF pc = "store" THEN Here ELSE Height : [h |-> h, chain |-> Chain(h)] \in cumul
      /\ pc = "index" => events = Only(evs, {Here})

JInv ==
  /\ ExtraTyped /\ Chains /\ Parted /\ InOrder /\ Held /\ Tops /\ Unspent /\ AtBlock
  /\ Cumulative

-----------------------------------------------------------------------------
(* The history up to a height                                              *)

LEMMA LastInIs ==
  ASSUME NEW hs, NEW a, NEW k, NEW i \in RowsIn(hs, a, k), DOMAIN hs \subseteq Nat,
         \A j \in RowsIn(hs, a, k) : j <= i
  PROVE  LastIn(hs, a, k) = hs[i]
<1> DEFINE R == RowsIn(hs, a, k)
<1>1. R \subseteq Nat
  BY DEF RowsIn
<1> HIDE DEF R
<1>2. \A j \in R : (\A l \in R : l <= j) => j = i
  BY <1>1 DEF R
<1>3. (CHOOSE j \in R : \A l \in R : l <= j) = i
  BY <1>2 DEF R
<1> QED
  BY <1>3 DEF LastIn, R

LEMMA LastInMax ==
  ASSUME NEW hs \in Seq(BalanceRow), NEW a, NEW k, RowsIn(hs, a, k) # {}
  PROVE  \E i \in RowsIn(hs, a, k) :
           /\ \A j \in RowsIn(hs, a, k) : j <= i
           /\ LastIn(hs, a, k) = hs[i]
<1> DEFINE D == {Len(hs) - i : i \in RowsIn(hs, a, k)}
<1>1. /\ Len(hs) \in Nat /\ DOMAIN hs = 1 .. Len(hs)
      /\ \A i \in RowsIn(hs, a, k) : i \in 1 .. Len(hs)
  BY DEF RowsIn
<1>2. D \in SUBSET Nat /\ D # {}
  BY <1>1
<1> HIDE DEF D
<1>3. PICK m \in D : \A j \in D : m <= j
  BY <1>2, MinNat
<1>4. PICK i \in RowsIn(hs, a, k) : m = Len(hs) - i
  BY DEF D
<1>5. ASSUME NEW j \in RowsIn(hs, a, k) PROVE j <= i
  <2>1. m <= Len(hs) - j
    BY <1>3 DEF D
  <2> QED
    BY <1>1, <1>4, <2>1
<1>6. LastIn(hs, a, k) = hs[i]
  BY <1>1, <1>5, LastInIs
<1> QED
  BY <1>5, <1>6

LEMMA RowsInAppend ==
  ASSUME NEW hs \in Seq(BalanceRow), NEW r \in BalanceRow, NEW a, NEW k
  PROVE  /\ r.pk = a[1] /\ r.tick = a[2] /\ r.h <= k =>
              /\ RowsIn(Append(hs, r), a, k) # {}
              /\ LastIn(Append(hs, r), a, k) = r
         /\ ~ (r.pk = a[1] /\ r.tick = a[2] /\ r.h <= k) =>
              /\ RowsIn(Append(hs, r), a, k) = RowsIn(hs, a, k)
              /\ RowsIn(hs, a, k) # {} => LastIn(Append(hs, r), a, k) = LastIn(hs, a, k)
<1> DEFINE n == Len(hs)
<1> DEFINE more == Append(hs, r)
<1>1. /\ n \in Nat /\ DOMAIN hs = 1 .. n /\ DOMAIN more = 1 .. n + 1 /\ more[n + 1] = r
      /\ \A i \in 1 .. n : more[i] = hs[i]
  OBVIOUS
<1> HIDE DEF n, more
<1>2. CASE r.pk = a[1] /\ r.tick = a[2] /\ r.h <= k
  <2>1. n + 1 \in RowsIn(more, a, k) /\ \A j \in RowsIn(more, a, k) : j <= n + 1
    BY <1>1, <1>2 DEF RowsIn
  <2>2. LastIn(more, a, k) = r
    BY <1>1, <2>1, LastInIs
  <2> QED
    BY <1>2, <2>1, <2>2 DEF more
<1>3. CASE ~ (r.pk = a[1] /\ r.tick = a[2] /\ r.h <= k)
  <2>1. RowsIn(more, a, k) = RowsIn(hs, a, k)
    BY <1>1, <1>3 DEF RowsIn
  <2>2. ASSUME RowsIn(hs, a, k) # {} PROVE LastIn(more, a, k) = LastIn(hs, a, k)
    <3>1. PICK i \in RowsIn(hs, a, k) : (\A j \in RowsIn(hs, a, k) : j <= i) /\ LastIn(hs, a, k) = hs[i]
      BY <2>2, LastInMax
    <3>2. LastIn(more, a, k) = more[i]
      BY <1>1, <2>1, <3>1, LastInIs
    <3>3. i \in 1 .. n
      BY <1>1 DEF RowsIn
    <3> QED
      BY <1>1, <3>1, <3>2, <3>3
  <2> QED
    BY <1>3, <2>1, <2>2 DEF more
<1> QED
  BY <1>2, <1>3
LEMMA LastInOnly ==
  ASSUME NEW hs \in Seq(BalanceRow), NEW a, NEW k \in Nat
  PROVE  /\ RowsIn(hs, a, k) = {} <=> RowsIn(Only(hs, 0 .. k), a, k) = {}
         /\ RowsIn(hs, a, k) # {} => LastIn(hs, a, k) = LastIn(Only(hs, 0 .. k), a, k)
<1> DEFINE Same(s, t) == /\ RowsIn(s, a, k) = {} <=> RowsIn(t, a, k) = {}
                         /\ RowsIn(s, a, k) # {} => LastIn(s, a, k) = LastIn(t, a, k)
<1> DEFINE Bad == {s \in Seq(BalanceRow) : ~ Same(s, Only(s, 0 .. k))}
<1>1. << >> \notin Bad
  <2>1. RowsIn(<< >>, a, k) = {}
    BY DEF RowsIn
  <2> QED
    BY <2>1, OnlyEmpty
<1>2. ASSUME NEW s \in Seq(BalanceRow), NEW r \in BalanceRow, s \notin Bad PROVE Append(s, r) \notin Bad
  <2>1. Same(s, Only(s, 0 .. k))
    BY <1>2
  <2>2. Only(s, 0 .. k) \in Seq(BalanceRow)
    BY OnlyType
  <2>3. r.h \in Nat
    BY HasHeight
  <2> DEFINE t == Only(s, 0 .. k)
  <2> HIDE DEF t
  <2>4. CASE r.h <= k
    <3>1. Only(Append(s, r), 0 .. k) = Append(t, r)
      BY <2>3, <2>4, OnlyAppend DEF t
    <3>2. Same(Append(s, r), Append(t, r))
      <4>1. CASE r.pk = a[1] /\ r.tick = a[2]
        BY <2>2, <2>4, <4>1, RowsInAppend DEF t
      <4>2. CASE ~ (r.pk = a[1] /\ r.tick = a[2])
        <5>1. Same(s, t)
          BY <2>1 DEF t
        <5>2. /\ RowsIn(Append(s, r), a, k) = RowsIn(s, a, k)
              /\ RowsIn(s, a, k) # {} => LastIn(Append(s, r), a, k) = LastIn(s, a, k)
          BY <4>2, RowsInAppend
        <5>3. /\ RowsIn(Append(t, r), a, k) = RowsIn(t, a, k)
              /\ RowsIn(t, a, k) # {} => LastIn(Append(t, r), a, k) = LastIn(t, a, k)
          BY <2>2, <4>2, RowsInAppend DEF t
        <5> QED
          BY <5>1, <5>2, <5>3
      <4> QED
        BY <4>1, <4>2
    <3> QED
      BY <3>1, <3>2
  <2>5. CASE ~ r.h <= k
    <3>1. Only(Append(s, r), 0 .. k) = t
      BY <2>3, <2>5, OnlyAppend DEF t
    <3>2. /\ RowsIn(Append(s, r), a, k) = RowsIn(s, a, k)
          /\ RowsIn(s, a, k) # {} => LastIn(Append(s, r), a, k) = LastIn(s, a, k)
      BY <2>5, RowsInAppend
    <3> QED
      BY <2>1, <3>1, <3>2 DEF t
  <2> QED
    BY <2>4, <2>5
<1> HIDE DEF Bad
<1>3. Bad \in SUBSET Seq(BalanceRow)
  BY DEF Bad
<1>4. Bad = {}
  BY <1>1, <1>2, <1>3, RowByRow
<1> QED
  BY <1>4 DEF Bad

LEMMA RowsOfIs ==
  ASSUME NEW a, NEW k
  PROVE  RowsOf(a, k) = RowsIn(historic, a, k) /\ LastRow(a, k) = LastIn(historic, a, k)
BY DEF RowsOf, RowsIn, LastRow, LastIn

(* The history up to k stays: so does what is derived from it.             *)
LEMMA LastKept ==
  ASSUME historic \in Seq(BalanceRow), historic' \in Seq(BalanceRow), NEW k \in Nat, NEW a,
         Only(historic', 0 .. k) = Only(historic, 0 .. k)
  PROVE  /\ RowsOf(a, k) = {} <=> RowsOf(a, k)' = {}
         /\ RowsOf(a, k) # {} => LastRow(a, k)' = LastRow(a, k)
<1>1. RowsOf(a, k)' = RowsIn(historic', a, k) /\ LastRow(a, k)' = LastIn(historic', a, k)
  BY DEF RowsOf, RowsIn, LastRow, LastIn
<1> QED
  BY <1>1, RowsOfIs, LastInOnly

InscribedIn(es, k) ==
  {[by |-> es[i].by, h |-> es[i].h] : i \in {j \in DOMAIN es : es[j].type = "inscribe" /\ es[j].h <= k}}
SpentIn(es, k) == {es[i].by : i \in {j \in DOMAIN es : es[j].type = "send" /\ es[j].h <= k}}

LEMMA UnusedOnly ==
  ASSUME NEW es \in Seq(Logged), NEW k \in Nat
  PROVE  /\ InscribedIn(es, k) = InscribedIn(Only(es, 0 .. k), k)
         /\ SpentIn(es, k) = SpentIn(Only(es, 0 .. k), k)
<1> DEFINE K == 0 .. k
<1> DEFINE os == Only(es, K)
<1>1. /\ Len(es) \in Nat /\ DOMAIN es = 1 .. Len(es)
      /\ \A i \in DOMAIN es : es[i] \in Logged
  OBVIOUS
<1> HIDE DEF K
<1>2. os \in Seq(Logged)
  BY OnlyType
<1>3. /\ \A i \in 1 .. Len(os) : os[i].h \in K /\ \E j \in 1 .. Len(es) : os[i] = es[j]
      /\ \A j \in 1 .. Len(es) : es[j].h \in K => \E i \in 1 .. Len(os) : os[i] = es[j]
  BY OnlyRows
<1> HIDE DEF os
<1>4. \A j \in DOMAIN es : es[j].h \in Nat
  BY <1>1, HasHeight
<1>5. DOMAIN os = 1 .. Len(os)
  BY <1>2
<1>6. \A i \in DOMAIN os : os[i].h <= k /\ \E j \in DOMAIN es : os[i] = es[j]
  <2> SUFFICES ASSUME NEW i \in DOMAIN os PROVE os[i].h <= k /\ \E j \in DOMAIN es : os[i] = es[j]
    OBVIOUS
  <2>1. os[i].h \in K /\ \E j \in DOMAIN es : os[i] = es[j]
    BY <1>1, <1>3, <1>5
  <2>2. os[i].h <= k
    BY <2>1 DEF K
  <2> QED
    BY <2>1, <2>2
<1>7. \A j \in DOMAIN es : es[j].h <= k => \E i \in DOMAIN os : os[i] = es[j]
  <2> SUFFICES ASSUME NEW j \in DOMAIN es, es[j].h <= k PROVE \E i \in DOMAIN os : os[i] = es[j]
    OBVIOUS
  <2>1. es[j].h \in K
    BY <1>4 DEF K
  <2> QED
    BY <1>1, <1>3, <1>5, <2>1
<1>8. /\ \A j \in DOMAIN es : es[j].h <= k => \E i \in DOMAIN os : os[i] = es[j] /\ os[i].h <= k
      /\ \A i \in DOMAIN os : \E j \in DOMAIN es : es[j] = os[i] /\ es[j].h <= k
  BY <1>6, <1>7
<1>9. InscribedIn(es, k) = InscribedIn(os, k)
  BY <1>8, Zenon DEF InscribedIn
<1>10. SpentIn(es, k) = SpentIn(os, k)
  BY <1>8 DEF SpentIn
<1> QED
  BY <1>9, <1>10 DEF os, K

LEMMA UnusedKept ==
  ASSUME evs \in Seq(Logged), evs' \in Seq(Logged), NEW k \in Nat,
         Only(evs', 0 .. k) = Only(evs, 0 .. k)
  PROVE  UnusedUpTo(k)' = UnusedUpTo(k)
<1>1. Inscribed(k) = InscribedIn(evs, k) /\ Spent(k) = SpentIn(evs, k)
  BY DEF Inscribed, InscribedIn, Spent, SpentIn
<1>2. Inscribed(k)' = InscribedIn(evs', k) /\ Spent(k)' = SpentIn(evs', k)
  BY DEF Inscribed, InscribedIn, Spent, SpentIn
<1>3. Inscribed(k)' = Inscribed(k) /\ Spent(k)' = Spent(k)
  BY <1>1, <1>2, UnusedOnly
<1> QED
  BY <1>3 DEF UnusedUpTo

(* A part of the history is in order as well.                              *)
LEMMA SortedOnly ==
  ASSUME NEW hs \in Seq(BalanceRow), Sorted(hs), NEW H
  PROVE  Sorted(Only(hs, H))
<1> DEFINE Bad == {s \in Seq(BalanceRow) : Sorted(s) /\ ~ Sorted(Only(s, H))}
<1>1. << >> \notin Bad
  BY OnlyEmpty
<1>2. ASSUME NEW s \in Seq(BalanceRow), NEW r \in BalanceRow, s \notin Bad PROVE Append(s, r) \notin Bad
  <2> SUFFICES ASSUME Sorted(Append(s, r)) PROVE Sorted(Only(Append(s, r), H))
    OBVIOUS
  <2> DEFINE m == Append(s, r)
  <2> DEFINE n == Len(s)
  <2> DEFINE t == Only(s, H)
  <2>1. /\ n \in Nat /\ DOMAIN s = 1 .. n /\ DOMAIN m = 1 .. n + 1 /\ m[n + 1] = r
        /\ \A i \in 1 .. n : m[i] = s[i]
    OBVIOUS
  <2>2. Sorted(m)
    OBVIOUS
  <2>3. t \in Seq(BalanceRow)
    BY OnlyType
  <2>4. \A i \in 1 .. Len(t) : \E j \in 1 .. n : t[i] = s[j]
    BY OnlyRows
  <2>5. Only(m, H) = IF r.h \in H THEN Append(t, r) ELSE t
    BY OnlyAppend
  <2>6. Sorted(s) => Sorted(t)
    BY <1>2
  <2> HIDE DEF m, n, t
  <2>7. Sorted(s)
    BY <2>1, <2>2 DEF Sorted
  <2>8. Sorted(t)
    BY <2>6, <2>7
  <2>9. \A j \in 1 .. n : s[j].h <= r.h
    BY <2>1, <2>2 DEF Sorted
  <2>10. \A i \in 1 .. Len(t) : t[i].h <= r.h
    BY <2>4, <2>9
  <2> DEFINE u == Append(t, r)
  <2>11. /\ Len(t) \in Nat /\ DOMAIN t = 1 .. Len(t) /\ DOMAIN u = 1 .. Len(t) + 1 /\ u[Len(t) + 1] = r
         /\ \A i \in 1 .. Len(t) : u[i] = t[i]
    BY <2>3
  <2>12. r.h <= r.h
    BY HasHeight
  <2> HIDE DEF u
  <2>13. Sorted(u)
    BY <2>8, <2>10, <2>11, <2>12 DEF Sorted
  <2> QED
    BY <2>5, <2>8, <2>13 DEF m, u
<1> HIDE DEF Bad
<1>3. Bad \in SUBSET Seq(BalanceRow)
  BY DEF Bad
<1>4. Bad = {}
  BY <1>1, <1>2, <1>3, RowByRow
<1> QED
  BY <1>4 DEF Bad

LEMMA SortedAppend ==
  ASSUME NEW hs \in Seq(BalanceRow), Sorted(hs), NEW r \in BalanceRow, UpTo(hs, r.h)
  PROVE  Sorted(Append(hs, r))
<1> DEFINE m == Append(hs, r)
<1> DEFINE n == Len(hs)
<1>1. /\ n \in Nat /\ DOMAIN hs = 1 .. n /\ DOMAIN m = 1 .. n + 1 /\ m[n + 1] = r
      /\ \A i \in 1 .. n : m[i] = hs[i]
  OBVIOUS
<1>2. r.h <= r.h
  BY HasHeight
<1> HIDE DEF m, n
<1>3. Sorted(m)
  BY <1>1, <1>2 DEF Sorted, UpTo
<1> QED
  BY <1>3 DEF m
-----------------------------------------------------------------------------
(* The hashes of the past                                                  *)

(* A sequence of elements of S is a function into S.                       *)
LEMMA SequenceElements ==
  ASSUME NEW S, NEW s \in Seq(S)
  PROVE  Len(s) \in Nat /\ DOMAIN s = 1 .. Len(s) /\ \A h \in 1 .. Len(s) : s[h] \in S
OBVIOUS

(* The block at a height is replaced by newer ones only.                   *)
LEMMA ChainsGrow ==
  ASSUME Typed, Sources, Environment
  PROVE  /\ Sources'
         /\ Len(best) <= Len(best') /\ \A h \in 1 .. Len(best) : best[h] <= best'[h]
         /\ \A h \in 1 .. Len(opi') : IF h <= Len(opi) THEN opi'[h] = opi[h] ELSE h <= Len(best) /\ opi'[h] = best[h]
<1>1. /\ Len(best) \in Nat /\ Len(opi) \in Nat /\ fork \in Nat
      /\ \A h \in 1 .. Len(best) : best[h] \in Nat
      /\ \A h \in 1 .. Len(opi) : opi[h] \in Nat
      /\ best \in Seq(1 .. Forks) /\ opi \in Seq(1 .. Forks)
      /\ best \in Seq(Nat)
  <2>1. fork \in 1 .. Forks /\ best \in Seq(1 .. Forks) /\ opi \in Seq(1 .. Forks) /\ Forks \in Nat
    BY Pow20Assumption DEF Typed
  <2>2. \A n \in 1 .. Forks : n \in Nat
    BY <2>1
  <2>3. ASSUME NEW s \in Seq(1 .. Forks)
        PROVE  Len(s) \in Nat /\ s \in Seq(Nat) /\ \A h \in 1 .. Len(s) : s[h] \in Nat
    <3>1. Len(s) \in Nat /\ DOMAIN s = 1 .. Len(s) /\ \A h \in 1 .. Len(s) : s[h] \in 1 .. Forks
      BY SequenceElements
    <3>2. \A h \in 1 .. Len(s) : s[h] \in Nat
      BY <2>2, <3>1
    <3>3. s \in [1 .. Len(s) -> Nat]
      BY <3>1, <3>2
    <3> QED
      BY <3>1, <3>2, <3>3
  <2> QED
    BY <2>1, <2>2, <2>3
<1>2. CASE Mine
  <2>1. best' = Append(best, fork) /\ fork' = fork /\ opi' = opi
    BY <1>2 DEF Mine
  <2>2. Len(best') = Len(best) + 1 /\ best'[Len(best) + 1] = fork /\ \A h \in 1 .. Len(best) : best'[h] = best[h]
    BY <1>1, <2>1
  <2> QED
    BY <1>1, <2>1, <2>2 DEF Sources
<1>3. CASE \E k \in 0 .. Len(best) - 1 : Reorg(k)
  <2>1. PICK k \in 0 .. Len(best) - 1 : Reorg(k)
    BY <1>3
  <2>2. fork' = fork + 1 /\ opi' = opi /\ k \in 0 .. Len(best)
    BY <1>1, <2>1 DEF Reorg
  <2>3. /\ DOMAIN best' = 1 .. Len(best) + 1
        /\ \A h \in 1 .. Len(best) + 1 : best'[h] = IF h <= k THEN best[h] ELSE fork'
    BY <2>1, Zenon DEF Reorg
  <2>4. Len(best') = Len(best) + 1
    BY <1>1, <2>1 DEF Reorg
  <2>5. Sources'
    <3>1. ASSUME NEW h \in 1 .. Len(best') PROVE best'[h] <= fork'
      <4>1. best'[h] = IF h <= k THEN best[h] ELSE fork'
        BY <2>3, <2>4, <3>1
      <4>2. h <= k => best[h] <= fork
        BY <1>1, <2>2, <3>1, <2>4 DEF Sources
      <4> QED
        BY <1>1, <2>2, <4>1, <4>2, <3>1, <2>4
    <3>2. ASSUME NEW h \in 1 .. Len(opi') PROVE opi'[h] <= best'[h]
      <4>1. h \in 1 .. Len(best) /\ h \in 1 .. Len(best) + 1 /\ opi'[h] = opi[h] /\ opi[h] <= best[h]
        BY <1>1, <2>2, <3>2 DEF Sources
      <4>2. best'[h] = IF h <= k THEN best[h] ELSE fork'
        BY <2>3, <4>1
      <4>3. best[h] <= fork /\ best[h] \in Nat /\ opi[h] \in Nat
        BY <1>1, <4>1, <2>2, <3>2 DEF Sources
      <4> QED
        BY <1>1, <2>2, <4>1, <4>2, <4>3
    <3> QED
      BY <1>1, <2>2, <2>4, <3>1, <3>2 DEF Sources
  <2>6. \A h \in 1 .. Len(best) : best[h] <= best'[h]
    BY <1>1, <2>2, <2>3, <2>4 DEF Sources
  <2> QED
    BY <1>1, <2>2, <2>4, <2>5, <2>6
<1>4. CASE MainAdvance
  <2>1. opi' = Append(opi, best[Len(opi) + 1]) /\ best' = best /\ fork' = fork /\ Len(opi) < Len(best)
    BY <1>4 DEF MainAdvance
  <2>2. /\ Len(opi') = Len(opi) + 1 /\ opi'[Len(opi) + 1] = best[Len(opi) + 1]
        /\ \A h \in 1 .. Len(opi) : opi'[h] = opi[h]
    BY <1>1, <2>1
  <2> QED
    BY <1>1, <2>1, <2>2 DEF Sources
<1>5. CASE \E k \in 0 .. Len(opi) - 1 : MainRestore(k)
  <2>1. PICK k \in 0 .. Len(opi) - 1 : MainRestore(k)
    BY <1>5
  <2>2. opi' = Prefix(opi, k) /\ best' = best /\ fork' = fork /\ k \in 0 .. Len(opi)
    BY <1>1, <2>1 DEF MainRestore
  <2>3. Len(opi') = k /\ \A h \in 1 .. k : opi'[h] = opi[h]
    BY <1>1, <2>2, PrefixIs
  <2>4. /\ Len(opi') \in Nat /\ Len(opi') <= Len(opi)
        /\ \A h \in 1 .. Len(opi') : h \in 1 .. Len(opi) /\ opi'[h] = opi[h]
    BY <1>1, <2>2, <2>3
  <2>5. Sources'
    BY <1>1, <2>2, <2>4 DEF Sources
  <2> QED
    BY <1>1, <2>2, <2>4, <2>5
<1> QED
  BY <1>2, <1>3, <1>4, <1>5 DEF Environment

LEMMA HashesAre ==
  ASSUME IInv
  PROVE  /\ hashes \in Seq(Nat) /\ Height \in Nat /\ Here = Height + 1 /\ hash \in Nat
         /\ DOMAIN hashes = 1 .. Height /\ \A h \in 1 .. Height : hashes[h] \in Nat
<1>1. hashes \in Seq(Nat) /\ hash \in Nat
  BY DEF IInv, Typed
<1>2. Height \in Nat /\ DOMAIN hashes = 1 .. Height /\ \A h \in DOMAIN hashes : hashes[h] \in Nat
  BY <1>1 DEF Height
<1> QED
  BY <1>1, <1>2 DEF Here

LEMMA PastStays ==
  ASSUME Typed, Typed', Sources, Environment, NEW h \in Nat \ {0}, NEW f \in Nat
  PROVE  (Was(h, f) => Was(h, f)') /\ (Gone(h, f) => Gone(h, f)')
<1>1. /\ Len(best) \in Nat /\ Len(opi) \in Nat /\ Len(best') \in Nat /\ Len(opi') \in Nat
      /\ \A i \in 1 .. Len(best) : best[i] \in Nat
      /\ \A i \in 1 .. Len(best') : best'[i] \in Nat
      /\ \A i \in 1 .. Len(opi) : opi[i] \in Nat
      /\ \A i \in 1 .. Len(opi') : opi'[i] \in Nat
  <2>1. /\ best \in Seq(1 .. Forks) /\ best' \in Seq(1 .. Forks)
        /\ opi \in Seq(1 .. Forks) /\ opi' \in Seq(1 .. Forks)
    BY DEF Typed
  <2>2. Forks \in Nat
    BY Pow20Assumption
  <2> QED
    BY <2>1, <2>2
<1>2. /\ Len(best) <= Len(best') /\ \A i \in 1 .. Len(best) : best[i] <= best'[i]
      /\ \A i \in 1 .. Len(opi') : IF i <= Len(opi) THEN opi'[i] = opi[i] ELSE i <= Len(best) /\ opi'[i] = best[i]
  BY ChainsGrow
<1> QED
  BY <1>1, <1>2 DEF Was, Gone

(* A block that is served is or was on the chain; the one that it replaced *)
(* never comes back.                                                       *)
LEMMA ServedWas ==
  ASSUME Typed, Sources, NEW h \in Nat \ {0}, Served(h) # NoBlock
  PROVE  /\ Was(h, Served(h)) /\ Served(h) \in Nat
         /\ \A f \in Nat : Was(h, f) /\ f # Served(h) => Gone(h, f)
<1>1. /\ Len(best) \in Nat /\ Len(opi) \in Nat
      /\ \A i \in 1 .. Len(best) : best[i] \in Nat
      /\ \A i \in 1 .. Len(opi) : opi[i] \in Nat
  BY Pow20Assumption DEF Typed
<1>2. h <= Len(opi) /\ Served(h) = opi[h]
  BY DEF Served
<1> QED
  BY <1>1, <1>2 DEF Sources, Was, Gone
-----------------------------------------------------------------------------
(* The steps that leave the tables as they are                             *)

Looks ==
  /\ UNCHANGED <<best, fork, opi, evs, historic, cumul, hashes, current, unused, xhashes>>
  /\ at' \in Nat
  /\ pc' \in Reading => \/ pc \in Reading /\ hash' = hash
                        \/ Served(Here) # NoBlock /\ hash' = Served(Here)
  /\ pc' = "walk" => \/ at' = Height
                     \/ pc = "walk" /\ at' = at
                     \/ pc = "walk" /\ at \in 1 .. Height /\ at' = at - 1 /\ Served(at) \notin {NoBlock, hashes[at]}
  /\ pc' \notin Unsettled => pc \notin Unsettled
  /\ pc' \in AtWork => UNCHANGED <<pc, at>>
  /\ pc' \in Between \cup {"index"} => pc \in Between \cup {"index"}
  /\ pc' = "store" => pc = "store"
  /\ pc' = "index" => \/ pc = "read" /\ events' = << >>
                      \/ pc = "index" /\ events' = events

LEMMA NowLooks ==
  ASSUME IInv, JInv,
         \/ Start \/ ReadHeight \/ ReadHash \/ CheckTip \/ WalkBack \/ WalkEnds \/ ReadTransfers \/ NoExtra
         \/ Crash
         \/ IndexOne /\ Die
         \/ UNCHANGED vars
  PROVE  Looks
<1> USE DEF Goto, Looks, Reading, Unsettled, AtWork, Between, ord, main, extra
<1>0. at \in Nat /\ Height \in Nat
  BY HeightsAre DEF IInv, JInv, ExtraTyped
<1>1. CASE Start
  BY <1>0, <1>1 DEF Start, memory
<1>2. CASE ReadHeight
  BY <1>0, <1>2 DEF ReadHeight, memory
<1>3. CASE Die
  BY <1>3 DEF Die, Idle
<1>4. CASE ReadHash
  BY <1>0, <1>3, <1>4 DEF ReadHash
<1>5. CASE CheckTip
  BY <1>0, <1>3, <1>5 DEF CheckTip, memory
<1>6. CASE WalkBack
  <2>1. at \in 0 .. Height /\ pc = "walk"
    BY <1>6 DEF WalkBack, IInv, Control
  <2> QED
    BY <1>0, <1>3, <1>6, <2>1 DEF WalkBack
<1>7. CASE WalkEnds
  BY <1>0, <1>7 DEF WalkEnds, memory
<1>8. CASE ReadTransfers
  BY <1>0, <1>8 DEF ReadTransfers
<1>9. CASE NoExtra
  BY <1>0, <1>9 DEF NoExtra, memory
<1>10. CASE Crash
  BY <1>3, <1>10 DEF Crash
<1>11. CASE UNCHANGED vars
  BY <1>0, <1>11 DEF vars, memory
<1> QED
  BY <1>1, <1>2, <1>3, <1>4, <1>5, <1>6, <1>7, <1>8, <1>9, <1>10, <1>11

(* The blocks up to k are served, stored and so on as before.              *)
LEMMA LooksChains ==
  ASSUME IInv, IInv', JInv, Looks
  PROVE  Chains'
<1>1. /\ best' = best /\ fork' = fork /\ opi' = opi /\ hashes' = hashes /\ Here' = Here /\ Height' = Height
  BY DEF Looks, Here, Height
<1>2. Height \in Nat /\ Here = Height + 1 /\ DOMAIN hashes = 1 .. Height /\ \A h \in DOMAIN hashes : hashes[h] \in Nat
  BY HashesAre
<1>3. Typed /\ Chains /\ Sources
  BY DEF IInv, JInv, Chains
<1>4. Sources'
  BY <1>1, <1>3 DEF Sources
<1>5. \A h, f : (Was(h, f)' <=> Was(h, f)) /\ (Gone(h, f)' <=> Gone(h, f))
  BY <1>1 DEF Was, Gone
<1>6. \A h \in DOMAIN hashes' : Was(h, hashes[h])
  BY <1>1, <1>3 DEF Chains
<1>7. pc' \in Reading => Was(Here, hash')
  <2>1. Served(Here) # NoBlock => Was(Here, Served(Here))
    BY <1>2, <1>3, ServedWas
  <2> QED
    BY <1>3, <2>1 DEF Looks, Chains
<1>8. pc' = "walk" /\ at' < Height => Gone(at' + 1, hashes[at' + 1])
  <2>1. CASE pc' = "walk" /\ at' = Height
    BY <1>2, <2>1
  <2>2. CASE pc = "walk" /\ at' = at
    BY <1>3, <2>2 DEF Chains
  <2>3. CASE pc = "walk" /\ at \in 1 .. Height /\ at' = at - 1 /\ Served(at) \notin {NoBlock, hashes[at]}
    <3>1. Was(at, hashes[at]) /\ hashes[at] \in Nat /\ at \in Nat \ {0}
      BY <1>2, <1>3, <2>3 DEF Chains
    <3>2. Gone(at, hashes[at])
      BY <1>3, <2>3, <3>1, ServedWas
    <3> QED
      BY <2>3, <3>1, <3>2
  <2> QED
    BY <2>1, <2>2, <2>3 DEF Looks
<1> QED
  BY <1>1, <1>4, <1>5, <1>6, <1>7, <1>8 DEF Chains, Was, Gone
LastsIn(hs, k) == {LastIn(hs, a, k) : a \in {b \in Accounts : RowsIn(hs, b, k) # {}}}

LEMMA HistorySame ==
  ASSUME historic' = historic
  PROVE  \A k : /\ \A a : RowsOf(a, k)' = RowsOf(a, k) /\ LastRow(a, k)' = LastRow(a, k)
                /\ LastRows(k)' = LastRows(k)
<1> SUFFICES ASSUME NEW k
             PROVE  /\ \A a : RowsOf(a, k)' = RowsOf(a, k) /\ LastRow(a, k)' = LastRow(a, k)
                    /\ LastRows(k)' = LastRows(k)
  OBVIOUS
<1>1. \A a : RowsOf(a, k)' = RowsIn(historic', a, k) /\ LastRow(a, k)' = LastIn(historic', a, k)
  BY DEF RowsOf, RowsIn, LastRow, LastIn
<1>2. \A a : RowsOf(a, k) = RowsIn(historic, a, k) /\ LastRow(a, k) = LastIn(historic, a, k)
  BY RowsOfIs
<1>3. LastRows(k)' = LastsIn(historic', k)
  BY DEF LastRows, LastsIn, RowsOf, RowsIn, LastRow, LastIn
<1>4. LastRows(k) = LastsIn(historic, k)
  BY DEF LastRows, LastsIn, RowsOf, RowsIn, LastRow, LastIn
<1> QED
  BY <1>1, <1>2, <1>3, <1>4

LEMMA EventsSame ==
  ASSUME evs' = evs
  PROVE  /\ \A k : Inscribed(k)' = Inscribed(k) /\ Spent(k)' = Spent(k) /\ UnusedUpTo(k)' = UnusedUpTo(k)
         /\ \A h : Chain(h)' = Chain(h)
<1>1. ASSUME NEW k PROVE Inscribed(k)' = Inscribed(k) /\ Spent(k)' = Spent(k)
  <2>1. Inscribed(k) = InscribedIn(evs, k) /\ Spent(k) = SpentIn(evs, k)
    BY DEF Inscribed, InscribedIn, Spent, SpentIn
  <2>2. Inscribed(k)' = InscribedIn(evs', k) /\ Spent(k)' = SpentIn(evs', k)
    BY DEF Inscribed, InscribedIn, Spent, SpentIn
  <2> QED
    BY <2>1, <2>2
<1>2. \A k : UnusedUpTo(k)' = UnusedUpTo(k)
  BY <1>1 DEF UnusedUpTo
<1>3. \A h : Chain(h)' = Chain(h)
  BY DEF Chain
<1> QED
  BY <1>1, <1>2, <1>3

LEMMA NewSame ==
  ASSUME evs' = evs, at' = at
  PROVE  New' = New /\ UnusedUpTo(at)' = UnusedUpTo(at) /\ UnusedUpTo(at - 1)' = UnusedUpTo(at - 1)
<1>1. \A k : Inscribed(k)' = Inscribed(k) /\ UnusedUpTo(k)' = UnusedUpTo(k)
  BY EventsSame
<1> QED
  BY <1>1 DEF New

(* Where neither table changes, what is said of the extra tables stays.    *)
LEMMA ExtraSame ==
  ASSUME UNCHANGED <<evs, historic, hashes, current, unused, xhashes>>
  PROVE  /\ \A k : (Agree(k)' <=> Agree(k)) /\ (HeldAt(k)' <=> HeldAt(k))
         /\ Held => Held'
         /\ Unspent => Unspent'
         /\ InOrder => InOrder'
<1>1. ASSUME NEW k PROVE Agree(k)' <=> Agree(k)
  BY DEF Agree, Height
<1>2. ASSUME NEW k PROVE HeldAt(k)' <=> HeldAt(k)
  BY HistorySame DEF HeldAt, Of
<1>3. Held => Held'
  BY <1>1, <1>2 DEF Held
<1>4. UnusedUpTo(Len(xhashes))' = UnusedUpTo(Len(xhashes))
  <2>1. \A k : UnusedUpTo(k)' = UnusedUpTo(k)
    BY EventsSame
  <2> QED
    BY <2>1
<1>5. Unspent => Unspent'
  BY <1>1, <1>4 DEF Unspent
<1>6. InOrder => InOrder'
  BY DEF InOrder, Sorted, Told
<1> QED
  BY <1>1, <1>2, <1>3, <1>5, <1>6

LEMMA LooksKeeps ==
  ASSUME IInv, IInv', JInv, Looks
  PROVE  JInv'
<1>1. /\ UNCHANGED <<evs, historic, hashes, current, unused, xhashes>>
      /\ best' = best /\ opi' = opi /\ cumul' = cumul /\ Here' = Here /\ Height' = Height
  BY DEF Looks, Here, Height
<1>2. Height \in Nat /\ Here = Height + 1
  BY HashesAre
<1>3. Chains'
  BY LooksChains
<1>4. \A k : (Agree(k)' <=> Agree(k)) /\ (HeldAt(k)' <=> HeldAt(k))
  BY <1>1, ExtraSame
<1>5. Held' /\ Unspent' /\ InOrder'
  BY <1>1, ExtraSame DEF JInv
<1>6. ExtraTyped'
  BY <1>1 DEF Looks, JInv, ExtraTyped
<1>7. Parted'
  <2>1. \A h, f : Gone(h, f)' <=> Gone(h, f)
    BY <1>1 DEF Gone
  <2>2. \A d \in 1 .. Len(xhashes) : Agree(d - 1) /\ ~ Agree(d) => Gone(d, xhashes[d])
    BY DEF JInv, Parted
  <2>3. ASSUME pc' \in Reading, Len(xhashes) > Height, Agree(Height) PROVE xhashes[Here] # hash'
    <3>1. CASE pc \in Reading /\ hash' = hash
      BY <2>3, <3>1 DEF JInv, Parted
    <3>2. CASE Served(Here) # NoBlock /\ hash' = Served(Here)
      <4>1. Here \in 1 .. Len(xhashes) /\ Here - 1 = Height
        BY <1>2, <2>3 DEF JInv, ExtraTyped
      <4>2. ~ Agree(Here)
        BY <1>2 DEF Agree
      <4>3. Gone(Here, xhashes[Here])
        BY <2>2, <2>3, <4>1, <4>2
      <4>4. Here <= Len(opi) /\ hash' = opi[Here] /\ opi[Here] \in Nat
        <5>1. opi \in Seq(1 .. Forks) /\ Len(opi) \in Nat
          BY DEF IInv, Typed
        <5> QED
          BY <1>2, <3>2, <5>1, Pow20Assumption DEF Served
      <4>5. xhashes[Here] \in Nat
        BY <4>1 DEF JInv, ExtraTyped
      <4> QED
        BY <4>3, <4>4, <4>5 DEF Gone
    <3> QED
      BY <2>3, <3>1, <3>2 DEF Looks
  <2> QED
    BY <1>1, <1>4, <2>1, <2>2, <2>3 DEF Parted, Gone
<1>8. Tops'
  BY <1>1 DEF Looks, JInv, Tops
<1>9. AtBlock'
  <2>1. ASSUME pc' \in AtWork PROVE AtBlock'
    <3>1. pc' = pc /\ at' = at
      BY <2>1 DEF Looks
    <3>2. Changed' = Changed
      <4>1. \A k : LastRows(k)' = LastRows(k)
        BY <1>1, HistorySame
      <4> QED
        BY <3>1, <4>1 DEF Changed
    <3>3. UnusedUpTo(at)' = UnusedUpTo(at) /\ UnusedUpTo(at - 1)' = UnusedUpTo(at - 1) /\ New' = New
      BY <1>1, <3>1, NewSame
    <3>4. Agree(at - 1)' <=> Agree(at - 1)
      BY <1>4, <3>1
    <3> QED
      BY <1>1, <3>1, <3>2, <3>3, <3>4 DEF JInv, AtBlock
  <2>2. CASE pc' \notin AtWork
    BY <2>2 DEF AtBlock, AtWork
  <2> QED
    BY <2>1, <2>2
<1>10. Cumulative'
  <2>1. \A h : Chain(h)' = Chain(h)
    BY <1>1, EventsSame
  <2>2. /\ \A c \in cumul' : c.h \in 1 .. IF pc' \in Between \cup {"index"} THEN Height' ELSE Here'
    BY <1>1, <1>2 DEF Looks, JInv, Cumulative
  <2>3. \A c, d \in cumul' : c.h = d.h => c = d
    BY <1>1 DEF JInv, Cumulative
  <2>4. \A h \in 1 .. IF pc' = "store" THEN Here' ELSE Height' : [h |-> h, chain |-> Chain(h)] \in cumul'
    BY <1>1, <1>2 DEF Looks, JInv, Cumulative
  <2>5. pc' = "index" => events' = Only(evs', {Here'})
    <3>1. CASE pc = "index" /\ events' = events
      BY <1>1, <3>1 DEF JInv, Cumulative
    <3>2. CASE pc = "read" /\ events' = << >>
      <4>1. evs \in Seq(Logged) /\ \A i \in 1 .. Len(evs) : evs[i].h <= Height /\ evs[i].h \in Nat
        BY <3>2, HasHeight DEF IInv, Typed, RowHeights, Between
      <4>2. Only(evs, {Here}) = << >>
        BY <1>2, <4>1, OnlyNone
      <4> QED
        BY <1>1, <3>2, <4>2
    <3> QED
      BY <3>1, <3>2 DEF Looks
  <2> QED
    BY <2>1, <2>2, <2>3, <2>4, <2>5 DEF Cumulative, Chain
<1> QED
  BY <1>3, <1>5, <1>6, <1>7, <1>8, <1>9, <1>10 DEF JInv
-----------------------------------------------------------------------------
(* The steps of Bitcoin and of the main indexer                            *)

LEMMA ChainKeeps ==
  ASSUME IInv, IInv', JInv, Environment
  PROVE  JInv'
<1>1. /\ UNCHANGED <<evs, historic, hashes, current, unused, xhashes, cumul, hash, events, at, pc>>
      /\ Here' = Here /\ Height' = Height
  BY DEF Environment, Mine, Reorg, MainAdvance, MainRestore, state, main, extra, memory, Here, Height
<1>2. /\ Height \in Nat /\ Here = Height + 1 /\ DOMAIN hashes = 1 .. Height /\ \A h \in DOMAIN hashes : hashes[h] \in Nat
      /\ hash \in Nat
  BY HashesAre
<1>3. Typed /\ Typed' /\ Sources
  BY DEF IInv, JInv, Chains
<1>4. \A h \in Nat \ {0}, f \in Nat : (Was(h, f) => Was(h, f)') /\ (Gone(h, f) => Gone(h, f)')
  BY <1>3, PastStays
<1>5. Chains'
  <2>1. Sources'
    BY <1>3, ChainsGrow
  <2>2. \A h \in DOMAIN hashes : Was(h, hashes[h])'
    BY <1>1, <1>2, <1>4 DEF JInv, Chains
  <2>3. pc \in Reading => Was(Here, hash)'
    BY <1>1, <1>2, <1>4 DEF JInv, Chains
  <2>4. ASSUME pc = "walk", at < Height PROVE Gone(at + 1, hashes[at + 1])'
    <3>1. at + 1 \in DOMAIN hashes /\ at + 1 \in Nat \ {0} /\ hashes[at + 1] \in Nat
      BY <1>2, <2>4 DEF JInv, ExtraTyped
    <3>2. Gone(at + 1, hashes[at + 1])
      BY <2>4 DEF JInv, Chains
    <3> QED
      BY <1>1, <1>4, <3>1, <3>2
  <2> QED
    BY <1>1, <2>1, <2>2, <2>3, <2>4 DEF Chains
<1>6. \A k : (Agree(k)' <=> Agree(k)) /\ (HeldAt(k)' <=> HeldAt(k))
  BY <1>1, ExtraSame
<1>7. Held' /\ Unspent' /\ InOrder'
  BY <1>1, ExtraSame DEF JInv
<1>8. ExtraTyped' /\ Tops'
  BY <1>1 DEF JInv, ExtraTyped, Tops
<1>9. Parted'
  <2>1. ASSUME NEW d \in 1 .. Len(xhashes), Agree(d - 1), ~ Agree(d) PROVE Gone(d, xhashes[d])'
    <3>1. Gone(d, xhashes[d])
      BY <2>1 DEF JInv, Parted
    <3>2. d \in Nat \ {0} /\ xhashes[d] \in Nat
      BY <2>1 DEF JInv, ExtraTyped
    <3> QED
      BY <1>1, <1>4, <3>1, <3>2
  <2>2. pc \in Reading /\ Len(xhashes) > Height /\ Agree(Height) => xhashes[Here] # hash
    BY DEF JInv, Parted
  <2> QED
    BY <1>1, <1>6, <2>1, <2>2 DEF Parted
<1>10. AtBlock'
  <2>1. Changed' = Changed
    <3>1. \A k : LastRows(k)' = LastRows(k)
      BY <1>1, HistorySame
    <3> QED
      BY <1>1, <3>1 DEF Changed
  <2>2. UnusedUpTo(at)' = UnusedUpTo(at) /\ UnusedUpTo(at - 1)' = UnusedUpTo(at - 1) /\ New' = New
    BY <1>1, NewSame
  <2>3. Agree(at - 1)' <=> Agree(at - 1)
    BY <1>1, <1>6
  <2> QED
    BY <1>1, <2>1, <2>2, <2>3 DEF JInv, AtBlock
<1>11. Cumulative'
  <2>1. \A h : Chain(h)' = Chain(h)
    BY <1>1, EventsSame
  <2> QED
    BY <1>1, <2>1 DEF JInv, Cumulative
<1> QED
  BY <1>5, <1>7, <1>8, <1>9, <1>10, <1>11 DEF JInv

-----------------------------------------------------------------------------
(* The steps on the main tables                                            *)

(* As long as both agree on the blocks, the extra tables follow.           *)
LEMMA ExtraKept ==
  ASSUME IInv, IInv', JInv, UNCHANGED <<current, unused, xhashes>>,
         \A k \in 0 .. Len(xhashes) : Agree(k)' =>
           /\ Agree(k)
           /\ Only(evs', 0 .. k) = Only(evs, 0 .. k) /\ Only(historic', 0 .. k) = Only(historic, 0 .. k)
  PROVE  Held' /\ Unspent'
<1>1. /\ evs \in Seq(Logged) /\ evs' \in Seq(Logged) /\ historic \in Seq(BalanceRow) /\ historic' \in Seq(BalanceRow)
      /\ Len(xhashes) \in Nat
  BY DEF IInv, Typed, JInv, ExtraTyped
<1>2. ASSUME NEW k \in 0 .. Len(xhashes), Agree(k)' PROVE HeldAt(k)'
  <2>1. HeldAt(k)
    BY <1>2 DEF JInv, Held
  <2>2. \A a : /\ RowsOf(a, k) = {} <=> RowsOf(a, k)' = {}
               /\ RowsOf(a, k) # {} => LastRow(a, k)' = LastRow(a, k)
    <3>1. Only(historic', 0 .. k) = Only(historic, 0 .. k) /\ k \in Nat
      BY <1>1, <1>2
    <3> QED
      BY <1>1, <3>1, LastKept
  <2> QED
    BY <2>1, <2>2 DEF HeldAt, Of
<1>3. Held'
  BY <1>2 DEF JInv, Held
<1>4. ASSUME Agree(Len(xhashes))' PROVE Agree(Len(xhashes)) /\ UnusedUpTo(Len(xhashes))' = UnusedUpTo(Len(xhashes))
  <2>1. PICK k \in Nat : k = Len(xhashes) /\ k = Len(xhashes)'
    BY <1>1
  <2>2. Agree(k)'
    BY <1>4, <2>1 DEF Agree
  <2>3. Agree(k) /\ Only(evs', 0 .. k) = Only(evs, 0 .. k)
    BY <1>1, <2>1, <2>2
  <2>4. UnusedUpTo(k)' = UnusedUpTo(k)
    BY <1>1, <2>3, UnusedKept
  <2>5. UnusedUpTo(Len(xhashes))' = UnusedUpTo(k)'
    BY <2>1 DEF UnusedUpTo, Inscribed, Spent
  <2> QED
    BY <2>1, <2>3, <2>4, <2>5
<1>5. Unspent'
  <2> SUFFICES ASSUME Agree(Len(xhashes))', \A r \in current \cup unused : r.h <= Len(xhashes)
               PROVE  unused = UnusedUpTo(Len(xhashes))'
    BY DEF Unspent
  <2>1. Agree(Len(xhashes)) /\ UnusedUpTo(Len(xhashes))' = UnusedUpTo(Len(xhashes))
    BY <1>4
  <2> QED
    BY <2>1 DEF JInv, Unspent
<1> QED
  BY <1>3, <1>5

LEMMA ChainKept ==
  ASSUME evs \in Seq(Logged), evs' \in Seq(Logged), NEW n \in Nat,
         Only(evs', 0 .. n) = Only(evs, 0 .. n), NEW h \in 0 .. n
  PROVE  Chain(h)' = Chain(h)
<1>1. ASSUME NEW j \in 1 .. h PROVE Only(evs', {j}) = Only(evs, {j})
  <2>1. (0 .. n) \cap {j} = {j}
    OBVIOUS
  <2>2. Only(Only(evs', 0 .. n), {j}) = Only(evs', (0 .. n) \cap {j})
    BY OnlyTwice
  <2>3. Only(Only(evs, 0 .. n), {j}) = Only(evs, (0 .. n) \cap {j})
    BY OnlyTwice
  <2> QED
    BY <2>1, <2>2, <2>3
<1> QED
  BY <1>1 DEF Chain
LEMMA ToldOnly ==
  ASSUME NEW es \in Seq(Logged), NEW hs \in Seq(BalanceRow), Told(es, hs), NEW H
  PROVE  Told(Only(es, H), Only(hs, H))
<1>1. DOMAIN es = 1 .. Len(es) /\ DOMAIN hs = 1 .. Len(hs)
  OBVIOUS
<1>2. Only(es, H) \in Seq(Logged) /\ Only(hs, H) \in Seq(BalanceRow)
  BY OnlyType
<1>3. \A i \in 1 .. Len(Only(es, H)) : Only(es, H)[i].h \in H /\ \E j \in 1 .. Len(es) : Only(es, H)[i] = es[j]
  BY OnlyRows
<1>4. \A j \in 1 .. Len(hs) : hs[j].h \in H => \E i \in 1 .. Len(Only(hs, H)) : Only(hs, H)[i] = hs[j]
  BY OnlyRows
<1> DEFINE os == Only(es, H)
<1> DEFINE ps == Only(hs, H)
<1>5. DOMAIN os = 1 .. Len(os) /\ DOMAIN ps = 1 .. Len(ps)
  BY <1>2
<1>6. /\ \A i \in DOMAIN os : os[i].h \in H /\ \E j \in DOMAIN es : os[i] = es[j]
      /\ \A j \in DOMAIN hs : hs[j].h \in H => \E i \in DOMAIN ps : ps[i] = hs[j]
  BY <1>1, <1>3, <1>4, <1>5
<1> HIDE DEF os, ps
<1>7. Told(os, ps)
  <2> SUFFICES ASSUME NEW i \in DOMAIN os, os[i].type = "send" PROVE \E j \in DOMAIN ps : ps[j].h = os[i].h
    BY DEF Told
  <2>1. PICK l \in DOMAIN es : os[i] = es[l]
    BY <1>6
  <2>2. PICK j \in DOMAIN hs : hs[j].h = es[l].h
    BY <2>1 DEF Told
  <2> QED
    BY <1>6, <2>1, <2>2
<1> QED
  BY <1>7 DEF os, ps

(* A rollback to the last hash, or to the block that the walk has found.   *)
LEMMA RollbackKeeps ==
  ASSUME IInv, IInv', JInv, NEW k \in 0 .. Height, ReorgFix(k),
         UNCHANGED <<best, fork, opi, current, unused, xhashes, at>>,
         pc' \in {"residue", "xresidue"}, k < Height => pc = "walk" /\ k = at
  PROVE  JInv'
<1>1. /\ evs' = Only(evs, 0 .. k) /\ historic' = Only(historic, 0 .. k) /\ hashes' = Prefix(hashes, k)
      /\ cumul' = {c \in cumul : c.h <= k}
  BY DEF ReorgFix
<1>2. /\ Height \in Nat /\ k \in Nat /\ DOMAIN hashes = 1 .. Height /\ \A h \in 1 .. Height : hashes[h] \in Nat
      /\ hashes \in Seq(Nat) /\ evs \in Seq(Logged) /\ historic \in Seq(BalanceRow)
      /\ evs' \in Seq(Logged)
  <2>1. evs' \in Seq(Logged)
    BY DEF IInv, Typed
  <2>2. hashes \in Seq(Nat) /\ evs \in Seq(Logged) /\ historic \in Seq(BalanceRow)
    BY DEF IInv, Typed
  <2>3. Height \in Nat /\ DOMAIN hashes = 1 .. Height
    BY <2>2 DEF Height
  <2> QED
    BY <2>1, <2>2, <2>3
<1>3. Height' = k /\ Here' = k + 1 /\ DOMAIN hashes' = 1 .. k /\ \A h \in 1 .. k : hashes'[h] = hashes[h]
  <2>1. k \in 0 .. Len(hashes)
    BY DEF Height
  <2>2. /\ Prefix(hashes, k) \in Seq(Nat) /\ Len(Prefix(hashes, k)) = k
        /\ \A h \in 1 .. k : Prefix(hashes, k)[h] = hashes[h]
    BY <1>2, <2>1, PrefixIs
  <2> QED
    BY <1>1, <2>2 DEF Height, Here
<1>4. \A j \in 0 .. k : Only(evs', 0 .. j) = Only(evs, 0 .. j) /\ Only(historic', 0 .. j) = Only(historic, 0 .. j)
  <2> SUFFICES ASSUME NEW j \in 0 .. k
               PROVE  Only(evs', 0 .. j) = Only(evs, 0 .. j) /\ Only(historic', 0 .. j) = Only(historic, 0 .. j)
    OBVIOUS
  <2> DEFINE K == 0 .. k
  <2> DEFINE J == 0 .. j
  <2>1. K \cap J = J
    OBVIOUS
  <2> HIDE DEF K, J
  <2>2. Only(Only(evs, K), J) = Only(evs, K \cap J)
    BY <1>2, OnlyTwice
  <2>3. Only(Only(historic, K), J) = Only(historic, K \cap J)
    BY <1>2, OnlyTwice
  <2> QED
    BY <1>1, <2>1, <2>2, <2>3 DEF K, J
<1>5. \A h, f : (Was(h, f)' <=> Was(h, f)) /\ (Gone(h, f)' <=> Gone(h, f))
  BY DEF Was, Gone
<1>6. Len(xhashes) \in Nat /\ pc' \notin Reading \cup AtWork
  BY DEF JInv, ExtraTyped, Reading, AtWork
<1>7. \A j \in Nat : Agree(j)' <=> j <= k /\ Agree(j)
  BY <1>2, <1>3 DEF Agree
<1>8. Chains'
  <2>1. Sources'
    BY DEF JInv, Chains, Sources
  <2>2. \A h \in DOMAIN hashes' : Was(h, hashes'[h])
    BY <1>2, <1>3 DEF JInv, Chains
  <2>3. \A h \in DOMAIN hashes' : Was(h, hashes[h])'
    BY <1>5, <2>2 DEF Was
  <2> QED
    BY <1>6, <2>1, <2>3 DEF Chains, Reading
<1>9. Parted'
  <2>1. ASSUME NEW d \in 1 .. Len(xhashes), Agree(d - 1)', ~ Agree(d)' PROVE Gone(d, xhashes[d])
    <3>1. d - 1 <= k /\ Agree(d - 1) /\ ~ (d <= k /\ Agree(d))
      BY <1>7, <2>1
    <3>2. CASE Agree(d)
      <4>1. d = k + 1 /\ k < Height /\ xhashes[d] = hashes[k + 1]
        BY <1>2, <3>1, <3>2 DEF Agree
      <4> QED
        BY <4>1 DEF JInv, Chains
    <3>3. CASE ~ Agree(d)
      BY <3>1, <3>3 DEF JInv, Parted
    <3> QED
      BY <3>2, <3>3
  <2> QED
    BY <1>5, <1>6, <2>1 DEF Parted, Gone
<1>10. Held' /\ Unspent'
  <2>1. ASSUME NEW j \in 0 .. Len(xhashes), Agree(j)'
        PROVE  /\ Agree(j)
               /\ Only(evs', 0 .. j) = Only(evs, 0 .. j) /\ Only(historic', 0 .. j) = Only(historic, 0 .. j)
    <3>1. j \in 0 .. k /\ Agree(j)
      BY <1>2, <1>6, <1>7, <2>1
    <3> QED
      BY <1>4, <3>1
  <2> QED
    BY <2>1, ExtraKept
<1>11. ExtraTyped' /\ AtBlock' /\ Tops'
  BY <1>6 DEF JInv, ExtraTyped, AtBlock, AtWork, Tops, Unsettled
<1>12. InOrder'
  <2>1. Sorted(historic) /\ Told(evs, historic)
    BY DEF JInv, InOrder
  <2>2. Sorted(historic') /\ Told(evs', historic')
    BY <1>1, <1>2, <2>1, SortedOnly, ToldOnly
  <2> QED
    BY <2>2 DEF InOrder
<1>13. Cumulative'
  <2>1. \A c \in cumul : c.h \in Nat /\ c.h >= 1
    BY <1>2 DEF JInv, Cumulative, Here
  <2>2. \A c \in cumul' : c \in cumul /\ c.h \in 1 .. k
    BY <1>1, <1>2, <2>1
  <2>3. \A c, d \in cumul' : c.h = d.h => c = d
    BY <2>2 DEF JInv, Cumulative
  <2>4. ASSUME NEW h \in 1 .. k PROVE [h |-> h, chain |-> Chain(h)'] \in cumul'
    <3>1. Chain(h)' = Chain(h)
      <4>1. Only(evs', 0 .. k) = Only(evs, 0 .. k) /\ h \in 0 .. k
        BY <1>2, <1>4
      <4> QED
        BY <1>2, <4>1, ChainKept
    <3>2. [h |-> h, chain |-> Chain(h)] \in cumul
      <4>1. h \in 1 .. Height /\ h \in 1 .. Here
        BY <1>2 DEF Here
      <4> QED
        BY <4>1 DEF JInv, Cumulative
    <3> QED
      BY <1>1, <3>1, <3>2
  <2>5. pc' # "store" /\ pc' # "index"
    OBVIOUS
  <2>6. \A c \in cumul' : c.h \in 1 .. IF pc' \in Between \cup {"index"} THEN Height' ELSE Here'
    BY <1>2, <1>3, <2>2
  <2> QED
    BY <1>3, <2>3, <2>4, <2>5, <2>6 DEF Cumulative
<1> QED
  BY <1>8, <1>9, <1>10, <1>11, <1>12, <1>13 DEF JInv
LEMMA StoreKeeps ==
  ASSUME IInv, IInv', JInv, StoreHash
  PROVE  JInv'
<1>1. /\ pc = "store" /\ pc' = "extras" /\ hashes' = Append(hashes, hash)
      /\ UNCHANGED <<best, fork, opi, evs, historic, cumul, current, unused, xhashes, at>>
  BY DEF StoreHash, Goto, ord, memory, extra
<1>2. /\ hashes \in Seq(Nat) /\ hash \in Nat /\ Height \in Nat /\ DOMAIN hashes = 1 .. Height
      /\ \A h \in 1 .. Height : hashes[h] \in Nat
  BY HashesAre
<1>3. /\ Height' = Height + 1 /\ Here = Height + 1 /\ DOMAIN hashes' = 1 .. Height + 1
      /\ \A h \in 1 .. Height : hashes'[h] = hashes[h]
      /\ hashes'[Here] = hash
  BY <1>1, <1>2 DEF Height, Here
<1>4. \A h, f : (Was(h, f)' <=> Was(h, f)) /\ (Gone(h, f)' <=> Gone(h, f))
  BY <1>1 DEF Was, Gone
<1>5. Len(xhashes) \in Nat /\ pc' \notin Reading \cup AtWork
  BY <1>1 DEF JInv, ExtraTyped, Reading, AtWork
<1>6. \A j \in Nat : Agree(j)' <=> Agree(j)
  <2> SUFFICES ASSUME NEW j \in Nat PROVE Agree(j)' <=> Agree(j)
    OBVIOUS
  <2>1. CASE j <= Height
    BY <1>1, <1>2, <1>3, <2>1 DEF Agree
  <2>2. CASE j > Height
    <3>1. ~ Agree(j)
      BY <1>2, <2>2 DEF Agree
    <3>2. ASSUME Agree(j)' PROVE FALSE
      <4>1. j = Here /\ j <= Len(xhashes) /\ \A h \in 1 .. j : xhashes[h] = hashes'[h]
        BY <1>1, <1>2, <1>3, <2>2, <3>2 DEF Agree
      <4>2. Agree(Height) /\ xhashes[Here] = hash /\ Len(xhashes) > Height
        BY <1>2, <1>3, <1>5, <4>1 DEF Agree
      <4> QED
        BY <1>1, <4>2 DEF JInv, Parted, Reading
    <3> QED
      BY <3>1, <3>2
  <2> QED
    BY <1>2, <2>1, <2>2
<1>7. Chains'
  <2>1. Sources'
    BY <1>1 DEF JInv, Chains, Sources
  <2>2. ASSUME NEW h \in DOMAIN hashes' PROVE Was(h, hashes'[h])
    <3>1. CASE h \in 1 .. Height
      BY <1>2, <1>3, <3>1 DEF JInv, Chains
    <3>2. CASE h = Here
      BY <1>1, <1>3, <3>2 DEF JInv, Chains, Reading
    <3> QED
      BY <1>2, <1>3, <3>1, <3>2
  <2>3. \A h \in DOMAIN hashes' : Was(h, hashes[h])'
    BY <1>4, <2>2 DEF Was
  <2> QED
    BY <1>1, <1>5, <2>1, <2>3 DEF Chains, Reading
<1>8. Parted'
  <2>1. ASSUME NEW d \in 1 .. Len(xhashes), Agree(d - 1)', ~ Agree(d)' PROVE Gone(d, xhashes[d])
    <3>1. Agree(d - 1) /\ ~ Agree(d)
      BY <1>5, <1>6, <2>1
    <3> QED
      BY <3>1 DEF JInv, Parted
  <2> QED
    BY <1>1, <1>4, <1>5, <2>1 DEF Parted, Gone
<1>9. Held' /\ Unspent'
  BY <1>1, <1>5, <1>6, ExtraKept
<1>10. ExtraTyped' /\ AtBlock' /\ Tops'
  BY <1>1 DEF JInv, ExtraTyped, AtBlock, AtWork, Tops, Unsettled
<1>11. InOrder'
  BY <1>1 DEF JInv, InOrder, Sorted, Told
<1>12. Cumulative'
  <2>1. \A h : Chain(h)' = Chain(h)
    BY <1>1, EventsSame
  <2>2. \A h \in 1 .. Here : [h |-> h, chain |-> Chain(h)] \in cumul
    BY <1>1 DEF JInv, Cumulative
  <2>3. (\A c \in cumul : c.h \in 1 .. Here) /\ \A c, d \in cumul : c.h = d.h => c = d
    BY <1>1, <1>2, <1>3 DEF JInv, Cumulative, Between
  <2> QED
    BY <1>1, <1>3, <2>1, <2>2, <2>3 DEF Cumulative, Between
<1> QED
  BY <1>7, <1>8, <1>9, <1>10, <1>11, <1>12 DEF JInv

(* What stays when the step is one on the main tables and no hash is       *)
(* stored or removed.                                                      *)
LEMMA IndexKeeps ==
  ASSUME IInv, IInv', JInv, pc = "index", pc' \in {"index", "store"},
         UNCHANGED <<best, fork, opi, hashes, current, unused, xhashes, at, hash>>,
         SameBelow(evs', evs, Here), SameBelow(historic', historic, Here),
         InOrder', Cumulative'
  PROVE  JInv'
<1>1. Height' = Height /\ Here' = Here /\ Height \in Nat /\ Here = Height + 1 /\ Len(xhashes) \in Nat
  BY DEF Height, Here, IInv, Typed, JInv, ExtraTyped
<1>2. \A h, f : (Was(h, f)' <=> Was(h, f)) /\ (Gone(h, f)' <=> Gone(h, f))
  BY DEF Was, Gone
<1>3. \A j : Agree(j)' <=> Agree(j)
  BY DEF Agree, Height
<1>4. Chains'
  <2>1. Sources'
    BY DEF JInv, Chains, Sources
  <2>2. (\A h \in DOMAIN hashes' : Was(h, hashes[h])) /\ Was(Here, hash)
    BY DEF JInv, Chains, Reading
  <2> QED
    BY <1>1, <1>2, <2>1, <2>2 DEF Chains, Was
<1>5. Parted'
  BY <1>1, <1>2, <1>3 DEF JInv, Parted, Gone, Reading
<1>6. Held' /\ Unspent'
  <2>1. ASSUME NEW j \in 0 .. Len(xhashes), Agree(j)'
        PROVE  /\ Agree(j)
               /\ Only(evs', 0 .. j) = Only(evs, 0 .. j) /\ Only(historic', 0 .. j) = Only(historic, 0 .. j)
    <3>1. Agree(j) /\ j \in Nat /\ j < Here
      BY <1>1, <1>3, <2>1 DEF Agree
    <3> QED
      BY <3>1 DEF SameBelow
  <2> QED
    BY <2>1, ExtraKept
<1>7. ExtraTyped' /\ AtBlock' /\ Tops'
  BY DEF JInv, ExtraTyped, AtBlock, AtWork, Tops, Unsettled
<1> QED
  BY <1>4, <1>5, <1>6, <1>7 DEF JInv
LEMMA ChainNext ==
  ASSUME NEW h \in Nat
  PROVE  Append(Chain(h), Only(evs, {h + 1})) = Chain(h + 1)
<1> DEFINE f(j) == Only(evs, {j})
<1>1. Chain(h) = [j \in 1 .. h |-> f(j)] /\ Chain(h + 1) = [j \in 1 .. h + 1 |-> f(j)]
  BY DEF Chain
<1> HIDE DEF f
<1>2. Append([j \in 1 .. h |-> f(j)], f(h + 1)) = [j \in 1 .. h + 1 |-> f(j)]
  <2> DEFINE S == {f(j) : j \in 1 .. h + 1}
  <2>1. [j \in 1 .. h |-> f(j)] \in Seq(S) /\ f(h + 1) \in S
    OBVIOUS
  <2> DEFINE c == [j \in 1 .. h |-> f(j)]
  <2>2. Len(c) = h /\ \A j \in 1 .. h : c[j] = f(j)
    OBVIOUS
  <2> DEFINE m == Append(c, f(h + 1))
  <2> HIDE DEF c, S
  <2>3. m \in Seq(S) /\ Len(m) = h + 1 /\ m[h + 1] = f(h + 1) /\ \A j \in 1 .. h : m[j] = c[j]
    BY <2>1, <2>2 DEF c
  <2>4. DOMAIN m = 1 .. h + 1 /\ m = [j \in DOMAIN m |-> m[j]]
    BY <2>3
  <2>5. \A j \in 1 .. h + 1 : m[j] = f(j)
    BY <2>2, <2>3
  <2> HIDE DEF m
  <2>6. m = [j \in 1 .. h + 1 |-> f(j)]
    BY <2>4, <2>5
  <2> QED
    BY <2>6 DEF m, c
<1> QED
  BY <1>1, <1>2 DEF f

(* What is on record for a stored block.                                   *)
LEMMA ChainAtIs ==
  ASSUME IInv, JInv, NEW h \in 0 .. Height
  PROVE  ChainAt(h) = Chain(h)
<1>1. Height \in Nat /\ Here = Height + 1
  BY HashesAre
<1>2. \A c \in cumul : c.h \in Nat /\ c.h >= 1
  BY <1>1 DEF JInv, Cumulative
<1>3. CASE h = 0
  <2>1. ~ \E c \in cumul : c.h = h
    BY <1>2, <1>3
  <2>2. ChainAt(h) = << >>
    BY <2>1 DEF ChainAt
  <2>3. Chain(h) = << >>
    BY <1>3 DEF Chain
  <2> QED
    BY <2>2, <2>3
<1>4. CASE h \in 1 .. Height
  <2> DEFINE d == [h |-> h, chain |-> Chain(h)]
  <2>1. h \in 1 .. Here
    BY <1>1, <1>4
  <2>2. d \in cumul
    BY <1>4, <2>1 DEF JInv, Cumulative
  <2>3. d.h = h /\ d.chain = Chain(h)
    OBVIOUS
  <2> HIDE DEF d
  <2>4. \A c \in cumul : c.h = h => c = d
    BY <2>2, <2>3 DEF JInv, Cumulative
  <2>5. (CHOOSE c \in cumul : c.h = h) = d
    BY <2>2, <2>3, <2>4
  <2>6. ChainAt(h) = (CHOOSE c \in cumul : c.h = h).chain
    BY <2>2, <2>3 DEF ChainAt
  <2> QED
    BY <2>3, <2>5, <2>6
<1> QED
  BY <1>1, <1>3, <1>4

LEMMA UpdateKeeps ==
  ASSUME IInv, IInv', JInv, UpdateEventHashes
  PROVE  JInv'
<1>1. /\ pc = "index" /\ pc' = "store"
      /\ UNCHANGED <<best, fork, opi, evs, historic, hashes, current, unused, xhashes, at, hash>>
  BY DEF UpdateEventHashes, Goto, ord, memory, extra
<1>2. cumul' = cumul \cup {[h |-> Here, chain |-> Append(ChainAt(Height), events)]}
  BY DEF UpdateEventHashes
<1>3. Height' = Height /\ Here' = Here /\ Height \in Nat /\ Here = Height + 1
  BY <1>1 DEF Height, Here, IInv, Typed
<1>4. SameBelow(evs', evs, Here) /\ SameBelow(historic', historic, Here) /\ InOrder'
  BY <1>1 DEF SameBelow, JInv, InOrder, Sorted, Told
<1>5. Append(ChainAt(Height), events) = Chain(Here)
  <2>1. ChainAt(Height) = Chain(Height)
    BY <1>3, ChainAtIs
  <2>2. events = Only(evs, {Height + 1})
    BY <1>1, <1>3 DEF JInv, Cumulative
  <2> QED
    BY <1>3, <2>1, <2>2, ChainNext
<1>6. Cumulative'
  <2>1. \A h : Chain(h)' = Chain(h)
    BY <1>1, EventsSame
  <2>2. /\ \A c \in cumul : c.h \in 1 .. Height
        /\ \A c, d \in cumul : c.h = d.h => c = d
        /\ \A h \in 1 .. Height : [h |-> h, chain |-> Chain(h)] \in cumul
    BY <1>1 DEF JInv, Cumulative
  <2> DEFINE new == [h |-> Here, chain |-> Chain(Here)]
  <2>3. cumul' = cumul \cup {new} /\ new.h = Here
    BY <1>2, <1>5
  <2>4. \A h \in 1 .. Here : [h |-> h, chain |-> Chain(h)] \in cumul'
    <3> SUFFICES ASSUME NEW h \in 1 .. Here PROVE [h |-> h, chain |-> Chain(h)] \in cumul'
      OBVIOUS
    <3>1. CASE h = Here
      BY <2>3, <3>1
    <3>2. CASE h # Here
      BY <1>3, <2>2, <2>3, <3>2
    <3> QED
      BY <3>1, <3>2
  <2> HIDE DEF new
  <2>5. \A c \in cumul' : c.h \in 1 .. Here
    BY <1>3, <2>2, <2>3
  <2>6. \A c, d \in cumul' : c.h = d.h => c = d
    BY <1>3, <2>2, <2>3
  <2> QED
    BY <1>1, <1>3, <2>1, <2>4, <2>5, <2>6 DEF Cumulative, Between
<1> QED
  BY <1>1, <1>4, <1>6, IndexKeeps
-----------------------------------------------------------------------------
(* A transfer of a block                                                   *)

LEMMA ToldRow ==
  ASSUME NEW es, NEW hs \in Seq(BalanceRow), Told(es, hs), NEW r
  PROVE  /\ Told(es, Append(hs, r))
         /\ \E j \in DOMAIN Append(hs, r) : Append(hs, r)[j].h = r.h
<1> DEFINE m == Append(hs, r)
<1>1. /\ Len(hs) \in Nat /\ DOMAIN hs = 1 .. Len(hs) /\ DOMAIN m = 1 .. Len(hs) + 1 /\ m[Len(hs) + 1] = r
      /\ \A i \in 1 .. Len(hs) : m[i] = hs[i]
  OBVIOUS
<1> HIDE DEF m
<1>2. Told(es, m)
  BY <1>1 DEF Told
<1>3. \E j \in DOMAIN m : m[j].h = r.h
  BY <1>1
<1> QED
  BY <1>2, <1>3 DEF m

LEMMA ToldEvent ==
  ASSUME NEW es \in Seq(Logged), NEW e \in Logged, NEW hs, Told(es, hs),
         e.type = "send" => \E j \in DOMAIN hs : hs[j].h = e.h
  PROVE  Told(Append(es, e), hs)
<1> DEFINE m == Append(es, e)
<1>1. /\ Len(es) \in Nat /\ DOMAIN es = 1 .. Len(es) /\ DOMAIN m = 1 .. Len(es) + 1 /\ m[Len(es) + 1] = e
      /\ \A i \in 1 .. Len(es) : m[i] = es[i]
  OBVIOUS
<1> HIDE DEF m
<1>2. Told(m, hs)
  BY <1>1 DEF Told
<1> QED
  BY <1>2 DEF m

(* An event and what it does to the history, in one transaction.           *)
LEMMA EventKeeps ==
  ASSUME IInv, IInv', JInv, Indexing,
         UNCHANGED <<best, fork, opi, hashes, cumul, current, unused, xhashes, at, hash, pc>>,
         NEW e \in Logged, e.h = Here, evs' = Append(evs, e), events' = Append(events, e),
         Sorted(historic'), Told(evs, historic'), SameBelow(historic', historic, Here),
         e.type = "send" => \E j \in DOMAIN historic' : historic'[j].h = Here
  PROVE  JInv'
<1>1. /\ evs \in Seq(Logged) /\ UpTo(evs, Here) /\ pc = "index"
      /\ Height \in Nat /\ Here = Height + 1
  BY IndexingIs DEF Indexing
<1>2. Height' = Height /\ Here' = Here
  BY DEF Height, Here
<1>3. SameBelow(evs', evs, Here) /\ evs' \in Seq(Logged)
  BY <1>1, RowsGrow, HasHeight
<1>4. InOrder'
  BY <1>1, ToldEvent DEF InOrder
<1>5. Cumulative'
  <2>1. ASSUME NEW h \in 1 .. Height PROVE Chain(h)' = Chain(h)
    <3>1. Only(evs', 0 .. Height) = Only(evs, 0 .. Height) /\ h \in 0 .. Height
      BY <1>1, <1>3 DEF SameBelow
    <3> QED
      BY <1>1, <1>3, <3>1, ChainKept
  <2>2. /\ \A c \in cumul : c.h \in 1 .. Height
        /\ \A c, d \in cumul : c.h = d.h => c = d
        /\ \A h \in 1 .. Height : [h |-> h, chain |-> Chain(h)] \in cumul
        /\ events = Only(evs, {Here})
    BY <1>1 DEF JInv, Cumulative
  <2>3. events' = Only(evs', {Here})
    <3>1. Only(Append(evs, e), {Here}) = Append(Only(evs, {Here}), e)
      BY <1>1, OnlyAppend
    <3> QED
      BY <2>2, <3>1
  <2>4. \A h \in 1 .. Height : [h |-> h, chain |-> Chain(h)'] \in cumul'
    BY <2>1, <2>2
  <2> QED
    BY <1>1, <1>2, <2>2, <2>3, <2>4 DEF Cumulative
<1> QED
  BY <1>1, <1>3, <1>4, <1>5, IndexKeeps

(* One row more of the newest block.                                       *)
LEMMA HistoryGrows ==
  ASSUME NEW hs \in Seq(BalanceRow), NEW r, Append(hs, r) \in Seq(BalanceRow), r.h = Here,
         UpTo(hs, Here), Sorted(hs), Told(evs, hs)
  PROVE  /\ Sorted(Append(hs, r)) /\ Told(evs, Append(hs, r)) /\ UpTo(Append(hs, r), Here)
         /\ SameBelow(Append(hs, r), hs, Here)
         /\ \E j \in DOMAIN Append(hs, r) : Append(hs, r)[j].h = Here
<1>1. r \in BalanceRow
  <2>1. Append(hs, r)[Len(hs) + 1] = r /\ Len(hs) + 1 \in DOMAIN Append(hs, r)
    OBVIOUS
  <2> QED
    BY <2>1
<1>2. Sorted(Append(hs, r))
  BY <1>1, SortedAppend
<1>3. Told(evs, Append(hs, r)) /\ \E j \in DOMAIN Append(hs, r) : Append(hs, r)[j].h = Here
  BY ToldRow
<1>4. UpTo(Append(hs, r), r.h) /\ SameBelow(Append(hs, r), hs, r.h)
  BY <1>1, RowsGrow, HasHeight
<1> QED
  BY <1>2, <1>3, <1>4

LEMMA EventRowKeeps ==
  ASSUME IInv, IInv', JInv, Indexing,
         UNCHANGED <<best, fork, opi, hashes, cumul, current, unused, xhashes, at, hash, pc>>,
         NEW e, e.h = Here, evs' = Append(evs, e), events' = Append(events, e),
         \/ historic' = historic /\ e.type # "send"
         \/ \E r : r.h = Here /\ historic' = Append(historic, r)
         \/ \E r, q : r.h = Here /\ q.h = Here /\ historic' = historic \o <<r, q>>
  PROVE  JInv'
<1>1. /\ evs \in Seq(Logged) /\ historic \in Seq(BalanceRow) /\ UpTo(historic, Here)
      /\ Sorted(historic) /\ Told(evs, historic)
  BY IndexingIs DEF JInv, InOrder
<1>2. evs' \in Seq(Logged) /\ historic' \in Seq(BalanceRow)
  BY DEF IInv, Typed
<1>3. e \in Logged
  <2>1. evs'[Len(evs) + 1] = e /\ Len(evs) + 1 \in DOMAIN evs'
    BY <1>1
  <2> QED
    BY <1>2, <2>1
<1>4. CASE historic' = historic /\ e.type # "send"
  <2>1. SameBelow(historic', historic, Here) /\ Sorted(historic') /\ Told(evs, historic')
    BY <1>1, <1>4 DEF SameBelow
  <2> QED
    BY <1>3, <1>4, <2>1, EventKeeps
<1>5. CASE \E r : r.h = Here /\ historic' = Append(historic, r)
  <2>1. PICK r : r.h = Here /\ historic' = Append(historic, r)
    BY <1>5
  <2>2. /\ Sorted(historic') /\ Told(evs, historic') /\ SameBelow(historic', historic, Here)
        /\ \E j \in DOMAIN historic' : historic'[j].h = Here
    BY <1>1, <1>2, <2>1, HistoryGrows
  <2> QED
    BY <1>3, <2>2, EventKeeps
<1>6. CASE \E r, q : r.h = Here /\ q.h = Here /\ historic' = historic \o <<r, q>>
  <2>1. PICK r, q : r.h = Here /\ q.h = Here /\ historic' = historic \o <<r, q>>
    BY <1>6
  <2>2. r \in BalanceRow /\ q \in BalanceRow
    <3>1. /\ historic'[Len(historic) + 1] = r /\ Len(historic) + 1 \in DOMAIN historic'
          /\ historic'[Len(historic) + 2] = q /\ Len(historic) + 2 \in DOMAIN historic'
      BY <1>1, <2>1
    <3> QED
      BY <1>2, <3>1
  <2> DEFINE once == Append(historic, r)
  <2>3. historic' = Append(once, q)
    BY <1>1, <2>1, <2>2, TwoRows
  <2>4. once \in Seq(BalanceRow)
    BY <1>1, <2>2
  <2>5. Sorted(once) /\ Told(evs, once) /\ UpTo(once, Here) /\ SameBelow(once, historic, Here)
    BY <1>1, <2>1, <2>4, HistoryGrows
  <2> HIDE DEF once
  <2>6. /\ Sorted(historic') /\ Told(evs, historic') /\ SameBelow(historic', once, Here)
        /\ \E j \in DOMAIN historic' : historic'[j].h = Here
    BY <1>2, <2>1, <2>3, <2>4, <2>5, HistoryGrows
  <2>7. SameBelow(historic', historic, Here)
    BY <2>5, <2>6 DEF SameBelow
  <2> QED
    BY <1>3, <2>6, <2>7, EventKeeps
<1> QED
  BY <1>4, <1>5, <1>6

LEMMA IndexOneKeeps ==
  ASSUME IInv, IInv', JInv, IndexOne
  PROVE  JInv'
<1> DEFINE x == Head(left)
<1>1. CASE IndexOne /\ Die
  <2>1. Looks
    BY <1>1, NowLooks
  <2> QED
    BY <2>1, LooksKeeps
<1>2. CASE /\ \/ Deploy(x) \/ Mint(x) \/ TransferInscribe(x) \/ TransferNormal(x) \/ TransferToFee(x)
              \/ UNCHANGED <<evs, events, tickers, historic, ticks, cache>>
           /\ UNCHANGED <<ord, cumul, hashes, extra, pc, booting, hash, at>>
  <2>1. /\ Indexing /\ pc = "index" /\ pc' = "index"
        /\ UNCHANGED <<best, fork, opi, hashes, cumul, current, unused, xhashes, at, hash, pc>>
    BY <1>2 DEF IndexOne, Indexing, ord, extra
  <2>2. ASSUME Deploy(x) \/ Mint(x) \/ TransferInscribe(x) \/ TransferNormal(x) \/ TransferToFee(x)
        PROVE  \E e : /\ e.h = Here /\ evs' = Append(evs, e) /\ events' = Append(events, e)
                      /\ \/ historic' = historic /\ e.type # "send"
                         \/ \E r : r.h = Here /\ historic' = Append(historic, r)
                         \/ \E r, q : r.h = Here /\ q.h = Here /\ historic' = historic \o <<r, q>>
    <3> HIDE DEF x
    <3>1. \A type, from, to, n : /\ Event(type, x, from, to, n).h = Here
                                 /\ Event(type, x, from, to, n).type = type
      BY DEF Event
    <3>2. \A a, b : Row(a, b).h = Here
      BY DEF Row
    <3>3. CASE Deploy(x)
      <4>1. /\ evs' = Append(evs, Event("deploy", x, Nobody, x.pk, x.max.n))
            /\ events' = Append(events, Event("deploy", x, Nobody, x.pk, x.max.n))
            /\ historic' = historic
        BY <3>3 DEF Deploy, Log
      <4> DEFINE e == Event("deploy", x, Nobody, x.pk, x.max.n)
      <4>2. e.h = Here /\ e.type = "deploy"
        BY <3>1
      <4> HIDE DEF e
      <4>3. evs' = Append(evs, e) /\ events' = Append(events, e) /\ historic' = historic
        BY <4>1 DEF e
      <4> QED
        BY <4>2, <4>3
    <3>4. CASE Mint(x)
      <4>1. PICK n, a, b : /\ evs' = Append(evs, Event("mint", x, Nobody, x.pk, n))
                           /\ events' = Append(events, Event("mint", x, Nobody, x.pk, n))
                           /\ historic' = Append(historic, Row(a, b))
        BY <3>4, Zenon DEF Mint, Log
      <4> DEFINE e == Event("mint", x, Nobody, x.pk, n)
      <4> DEFINE r == Row(a, b)
      <4>2. e.h = Here /\ r.h = Here
        BY <3>1, <3>2
      <4>3. evs' = Append(evs, e) /\ events' = Append(events, e) /\ historic' = Append(historic, r)
        BY <4>1
      <4> HIDE DEF e, r
      <4> QED
        BY <4>2, <4>3
    <3>5. CASE TransferInscribe(x)
      <4>1. PICK a, b : /\ evs' = Append(evs, Event("inscribe", x, x.pk, Nobody, x.amount.n))
                        /\ events' = Append(events, Event("inscribe", x, x.pk, Nobody, x.amount.n))
                        /\ historic' = Append(historic, Row(a, b))
        BY <3>5, Zenon DEF TransferInscribe, Log
      <4> DEFINE e == Event("inscribe", x, x.pk, Nobody, x.amount.n)
      <4> DEFINE r == Row(a, b)
      <4>2. e.h = Here /\ r.h = Here
        BY <3>1, <3>2
      <4>3. evs' = Append(evs, e) /\ events' = Append(events, e) /\ historic' = Append(historic, r)
        BY <4>1
      <4> HIDE DEF e, r
      <4> QED
        BY <4>2, <4>3
    <3>6. CASE TransferNormal(x)
      <4>1. PICK n, s, b, d, c : /\ evs' = Append(evs, Event("send", x, s[1], x.pk, n))
                                 /\ events' = Append(events, Event("send", x, s[1], x.pk, n))
                                 /\ historic' = historic \o <<Row(s, b), Row(d, c)>>
        BY <3>6, Zenon DEF TransferNormal, Log
      <4> DEFINE e == Event("send", x, s[1], x.pk, n)
      <4> DEFINE r == Row(s, b)
      <4> DEFINE q == Row(d, c)
      <4>2. e.h = Here /\ r.h = Here /\ q.h = Here
        BY <3>1, <3>2
      <4>3. evs' = Append(evs, e) /\ events' = Append(events, e) /\ historic' = historic \o <<r, q>>
        BY <4>1
      <4> HIDE DEF e, r, q
      <4> QED
        BY <4>2, <4>3
    <3>7. CASE TransferToFee(x)
      <4>1. PICK n, s, b : /\ evs' = Append(evs, Event("send", x, s[1], s[1], n))
                           /\ events' = Append(events, Event("send", x, s[1], s[1], n))
                           /\ historic' = Append(historic, Row(s, b))
        BY <3>7, Zenon DEF TransferToFee, Log
      <4> DEFINE e == Event("send", x, s[1], s[1], n)
      <4> DEFINE r == Row(s, b)
      <4>2. e.h = Here /\ r.h = Here
        BY <3>1, <3>2
      <4>3. evs' = Append(evs, e) /\ events' = Append(events, e) /\ historic' = Append(historic, r)
        BY <4>1
      <4> HIDE DEF e, r
      <4> QED
        BY <4>2, <4>3
    <3> QED
      BY <2>2, <3>3, <3>4, <3>5, <3>6, <3>7
  <2>3. CASE Deploy(x) \/ Mint(x) \/ TransferInscribe(x) \/ TransferNormal(x) \/ TransferToFee(x)
    <3>1. PICK e : /\ e.h = Here /\ evs' = Append(evs, e) /\ events' = Append(events, e)
                   /\ \/ historic' = historic /\ e.type # "send"
                      \/ \E r : r.h = Here /\ historic' = Append(historic, r)
                      \/ \E r, q : r.h = Here /\ q.h = Here /\ historic' = historic \o <<r, q>>
      BY <2>2, <2>3
    <3> QED
      BY <2>1, <3>1, EventRowKeeps
  <2>4. CASE UNCHANGED <<evs, events, tickers, historic, ticks, cache>>
    <3>1. Looks
      <4>1. at' \in Nat
        BY <2>1 DEF JInv, ExtraTyped
      <4> QED
        BY <2>1, <2>4, <4>1 DEF Looks, Reading, AtWork, Unsettled, Between
    <3> QED
      BY <3>1, LooksKeeps
  <2> QED
    BY <1>2, <2>3, <2>4
<1> QED
  BY <1>1, <1>2 DEF IndexOne
-----------------------------------------------------------------------------
(* The steps on the extra tables                                           *)

LEMMA LastRowIs ==
  ASSUME historic \in Seq(BalanceRow), NEW a, NEW k, RowsOf(a, k) # {}
  PROVE  /\ LastRow(a, k) \in BalanceRow /\ Of(LastRow(a, k), a) /\ LastRow(a, k).h <= k
         /\ \A i \in RowsOf(a, k) : Sorted(historic) => historic[i].h <= LastRow(a, k).h
<1>1. RowsIn(historic, a, k) # {} /\ LastRow(a, k) = LastIn(historic, a, k) /\ RowsOf(a, k) = RowsIn(historic, a, k)
  BY RowsOfIs
<1>2. PICK i \in RowsIn(historic, a, k) :
        (\A j \in RowsIn(historic, a, k) : j <= i) /\ LastIn(historic, a, k) = historic[i]
  BY <1>1, LastInMax
<1>3. i \in DOMAIN historic /\ historic[i].pk = a[1] /\ historic[i].tick = a[2] /\ historic[i].h <= k
  BY DEF RowsIn
<1>4. \A j \in RowsIn(historic, a, k) : j \in DOMAIN historic
  BY DEF RowsIn
<1> QED
  BY <1>1, <1>2, <1>3, <1>4 DEF Of, Sorted

(* The last row up to k is the last one up to any height above it.         *)
LEMMA LastRowBelow ==
  ASSUME historic \in Seq(BalanceRow), NEW a, NEW k \in Int, NEW j \in Int, j <= k, RowsOf(a, k) # {},
         LastRow(a, k).h <= j
  PROVE  RowsOf(a, j) # {} /\ LastRow(a, j) = LastRow(a, k)
<1>1. RowsIn(historic, a, k) # {} /\ LastIn(historic, a, k).h <= j
  BY RowsOfIs
<1>2. PICK i \in RowsIn(historic, a, k) :
        (\A l \in RowsIn(historic, a, k) : l <= i) /\ LastIn(historic, a, k) = historic[i]
  BY <1>1, LastInMax
<1>3. i \in RowsIn(historic, a, j)
  BY <1>1, <1>2 DEF RowsIn
<1>4. RowsIn(historic, a, j) \subseteq RowsIn(historic, a, k)
  <2> SUFFICES ASSUME NEW l \in RowsIn(historic, a, j) PROVE l \in RowsIn(historic, a, k)
    OBVIOUS
  <2>1. l \in DOMAIN historic /\ historic[l].h <= j /\ historic[l] \in BalanceRow
    BY DEF RowsIn
  <2>2. historic[l].h \in Nat
    BY <2>1, HasHeight
  <2> QED
    BY <2>1, <2>2 DEF RowsIn
<1>5. \A l \in RowsIn(historic, a, j) : l <= i
  BY <1>2, <1>4
<1>6. LastIn(historic, a, j) = historic[i]
  <2>1. DOMAIN historic \subseteq Nat
    OBVIOUS
  <2> QED
    BY <1>3, <1>5, <2>1, LastInIs
<1> QED
  BY <1>2, <1>3, <1>6, RowsOfIs

LEMMA RowsOfGrow ==
  ASSUME historic \in Seq(BalanceRow), NEW a, NEW k \in Int, NEW j \in Int, j <= k
  PROVE  RowsOf(a, j) \subseteq RowsOf(a, k)
<1> SUFFICES ASSUME NEW l \in RowsOf(a, j) PROVE l \in RowsOf(a, k)
  OBVIOUS
<1>1. l \in DOMAIN historic /\ historic[l].h <= j /\ historic[l] \in BalanceRow
  BY DEF RowsOf
<1>2. historic[l].h \in Nat
  BY <1>1, HasHeight
<1> QED
  BY <1>1, <1>2 DEF RowsOf

LEMMA LastRowsAre ==
  ASSUME historic \in Seq(BalanceRow), NEW k, NEW b \in LastRows(k)
  PROVE  /\ b \in BalanceRow /\ b.h <= k
         /\ \A a \in Accounts : Of(b, a) => RowsOf(a, k) # {} /\ b = LastRow(a, k)
<1>1. PICK a0 \in Accounts : RowsOf(a0, k) # {} /\ b = LastRow(a0, k)
  BY DEF LastRows
<1>2. b \in BalanceRow /\ Of(b, a0) /\ b.h <= k
  BY <1>1, LastRowIs
<1>3. \A a \in Accounts : a = <<a[1], a[2]>>
  BY DEF Accounts
<1>4. \A a \in Accounts : Of(b, a) => a = a0
  BY <1>2, <1>3 DEF Of
<1> QED
  BY <1>1, <1>2, <1>4

LEMMA InscribedAre ==
  ASSUME evs \in Seq(Logged), NEW k, NEW u \in Inscribed(k)
  PROVE  u.h \in Nat /\ u.h <= k
<1>1. PICK i \in DOMAIN evs : evs[i].h <= k /\ u.h = evs[i].h
  BY DEF Inscribed
<1>2. evs[i] \in Logged
  OBVIOUS
<1> QED
  BY <1>1, <1>2, HasHeight

(* reorg_on_extra_tables, at any height that it may go back to.            *)
LEMMA ExtraRolledBack ==
  ASSUME IInv, JInv, NEW k \in 0 .. Len(xhashes), ReorgExtra(k),
         UNCHANGED <<best, opi, evs, historic, hashes>>
  PROVE  /\ xhashes' \in Seq(Nat) /\ Len(xhashes') = k
         /\ \A j \in 0 .. k : Agree(j)' <=> Agree(j)
         /\ \A d \in 1 .. k : Agree(d - 1)' /\ ~ Agree(d)' => Gone(d, xhashes'[d])
         /\ current' \subseteq BalanceRow /\ \A c \in current' : c.h <= k
         /\ unused' = UnusedUpTo(k) /\ \A u \in unused' : u.h \in Nat /\ u.h <= k
         /\ Held'
<1>1. /\ evs \in Seq(Logged) /\ historic \in Seq(BalanceRow) /\ xhashes \in Seq(Nat) /\ k \in Nat
      /\ Len(xhashes) \in Nat /\ current \subseteq BalanceRow /\ Height \in Nat
  BY HashesAre DEF IInv, Typed, JInv, ExtraTyped
<1>2. /\ xhashes' = Prefix(xhashes, k) /\ unused' = UnusedUpTo(k)
      /\ current' = {b \in current : b.h <= k}
                    \cup {b \in LastRows(k) : \E c \in current : c.pk = b.pk /\ c.tick = b.tick /\ c.h > k}
  BY DEF ReorgExtra
<1>3. xhashes' \in Seq(Nat) /\ Len(xhashes') = k /\ \A h \in 1 .. k : xhashes'[h] = xhashes[h]
  <2>1. /\ Prefix(xhashes, k) \in Seq(Nat) /\ Len(Prefix(xhashes, k)) = k
        /\ \A h \in 1 .. k : Prefix(xhashes, k)[h] = xhashes[h]
    BY <1>1, PrefixIs
  <2> QED
    BY <1>2, <2>1
<1>4. \A j \in 0 .. k : Agree(j)' <=> Agree(j)
  <2> SUFFICES ASSUME NEW j \in 0 .. k PROVE Agree(j)' <=> Agree(j)
    OBVIOUS
  <2>1. Height' = Height /\ hashes' = hashes
    BY DEF Height
  <2>2. j <= Len(xhashes') /\ j <= Len(xhashes) /\ \A h \in 1 .. j : xhashes'[h] = xhashes[h]
    BY <1>1, <1>3
  <2> QED
    BY <2>1, <2>2 DEF Agree
<1>5. ASSUME NEW d \in 1 .. k, Agree(d - 1)', ~ Agree(d)' PROVE Gone(d, xhashes'[d])
  <2>1. Agree(d - 1) /\ ~ Agree(d) /\ d \in 1 .. Len(xhashes) /\ xhashes'[d] = xhashes[d]
    BY <1>1, <1>3, <1>4, <1>5
  <2> QED
    BY <2>1 DEF JInv, Parted
<1>6. current' \subseteq BalanceRow /\ \A c \in current' : c.h <= k
  BY <1>1, <1>2, LastRowsAre
<1>7. \A u \in unused' : u.h \in Nat /\ u.h <= k
  BY <1>1, <1>2, InscribedAre DEF UnusedUpTo
<1>8. \A b, c \in current' : b.pk = c.pk /\ b.tick = c.tick => b = c
  <2> SUFFICES ASSUME NEW b \in current', NEW c \in current', b.pk = c.pk, b.tick = c.tick
               PROVE  b = c
    OBVIOUS
  <2> DEFINE a == <<b.pk, b.tick>>
  <2>1. a \in Accounts /\ Of(b, a) /\ Of(c, a)
    BY <1>6 DEF Accounts, Of, BalanceRow
  <2>2. \A d, e \in current : d.pk = e.pk /\ d.tick = e.tick => d = e
    BY DEF JInv, Held
  <2>3. CASE b \in LastRows(k) /\ c \in LastRows(k)
    BY <1>1, <2>1, <2>3, LastRowsAre
  <2>4. CASE b \in current /\ b.h <= k
    <3>1. ~ \E d \in current : d.pk = c.pk /\ d.tick = c.tick /\ d.h > k
      <4> SUFFICES ASSUME NEW d \in current, d.pk = c.pk, d.tick = c.tick, d.h > k PROVE FALSE
        OBVIOUS
      <4>1. d = b /\ b.h \in Nat
        BY <1>6, <2>2, <2>4, HasHeight
      <4> QED
        BY <1>1, <2>4, <4>1
    <3> QED
      BY <1>2, <2>2, <2>4, <3>1
  <2>5. CASE c \in current /\ c.h <= k
    <3>1. ~ \E d \in current : d.pk = b.pk /\ d.tick = b.tick /\ d.h > k
      <4> SUFFICES ASSUME NEW d \in current, d.pk = b.pk, d.tick = b.tick, d.h > k PROVE FALSE
        OBVIOUS
      <4>1. d = c /\ c.h \in Nat
        BY <1>6, <2>2, <2>5, HasHeight
      <4> QED
        BY <1>1, <2>5, <4>1
    <3> QED
      BY <1>2, <2>2, <2>5, <3>1
  <2> QED
    BY <1>2, <2>3, <2>4, <2>5
<1>9. ASSUME NEW j \in 0 .. k, Agree(j) PROVE HeldAt(j)'
  <2>1. HeldAt(j)
    BY <1>1, <1>9 DEF JInv, Held
  <2>2. \A a : RowsOf(a, j)' = RowsOf(a, j) /\ LastRow(a, j)' = LastRow(a, j)
    BY HistorySame
  <2>3. ASSUME NEW a \in Accounts, RowsOf(a, j) # {} PROVE \E c \in current' : Of(c, a)
    <3>1. PICK c \in current : Of(c, a)
      BY <2>1, <2>3 DEF HeldAt
    <3>2. CASE c.h <= k
      <4>1. c \in current'
        BY <1>2, <3>2
      <4> QED
        BY <3>1, <4>1
    <3>3. CASE ~ c.h <= k
      <4>1. RowsOf(a, k) # {}
        <5>1. j \in Int /\ k \in Int /\ j <= k
          BY <1>1
        <5>2. RowsOf(a, j) \subseteq RowsOf(a, k)
          BY <1>1, <5>1, RowsOfGrow
        <5> QED
          BY <2>3, <5>2
      <4>2. Of(LastRow(a, k), a) /\ LastRow(a, k) \in LastRows(k)
        BY <1>1, <4>1, LastRowIs DEF LastRows
      <4>3. c.h > k
        BY <1>1, <3>3, HasHeight
      <4> QED
        BY <1>2, <3>1, <4>2, <4>3 DEF Of
    <3> QED
      BY <3>2, <3>3
  <2>4. ASSUME NEW a \in Accounts, NEW c \in current', Of(c, a), c.h <= j
        PROVE  RowsOf(a, j) # {} /\ c = LastRow(a, j)
    <3>1. CASE c \in current
      BY <2>1, <2>4, <3>1 DEF HeldAt
    <3>2. CASE c \in LastRows(k)
      <4>1. RowsOf(a, k) # {} /\ c = LastRow(a, k)
        BY <1>1, <2>4, <3>2, LastRowsAre
      <4> QED
        BY <1>1, <2>4, <4>1, LastRowBelow
    <3> QED
      BY <1>2, <3>1, <3>2
  <2> QED
    BY <2>2, <2>3, <2>4 DEF HeldAt, Of
<1>10. Held'
  <2>1. \A j \in 0 .. Len(xhashes') : Agree(j)' => HeldAt(j)'
    BY <1>3, <1>4, <1>9
  <2> QED
    BY <1>8, <2>1 DEF Held
<1> QED
  BY <1>2, <1>3, <1>4, <1>5, <1>6, <1>7, <1>10
(* What the steps on the extra tables have in common.                      *)
LEMMA ExtraStepKeeps ==
  ASSUME IInv, IInv', JInv, UNCHANGED <<best, fork, opi, evs, historic, cumul, hashes>>,
         pc \in Between, pc' \in {"residue", "extras", "height"} \cup AtWork,
         \A d \in 1 .. Len(xhashes') : Agree(d - 1)' /\ ~ Agree(d)' => Gone(d, xhashes'[d]),
         ExtraTyped', Held', Tops', Unspent', AtBlock'
  PROVE  JInv'
<1>1. /\ Height' = Height /\ Here' = Here /\ Height \in Nat /\ Here = Height + 1
      /\ pc' \notin Reading /\ pc' # "store" /\ pc' # "index"
  BY DEF Height, Here, IInv, Typed, Reading, AtWork
<1>2. \A h, f : (Was(h, f)' <=> Was(h, f)) /\ (Gone(h, f)' <=> Gone(h, f))
  BY DEF Was, Gone
<1>3. Chains'
  <2>1. Sources'
    BY DEF JInv, Chains, Sources
  <2>2. \A h \in DOMAIN hashes' : Was(h, hashes[h])
    BY DEF JInv, Chains
  <2> QED
    BY <1>1, <1>2, <2>1, <2>2 DEF Chains, Was, Reading
<1>4. Parted'
  BY <1>1, <1>2 DEF Parted, Gone
<1>5. InOrder'
  BY DEF JInv, InOrder, Sorted, Told
<1>6. Cumulative'
  <2>1. \A h : Chain(h)' = Chain(h)
    BY EventsSame
  <2>2. /\ \A c \in cumul : c.h \in 1 .. Height
        /\ \A c, d \in cumul : c.h = d.h => c = d
        /\ \A h \in 1 .. Height : [h |-> h, chain |-> Chain(h)] \in cumul
    BY <1>1 DEF JInv, Cumulative, Between
  <2>3. \A c \in cumul' : c.h \in 1 .. IF pc' \in Between \cup {"index"} THEN Height' ELSE Here'
    BY <1>1, <2>2
  <2> QED
    BY <1>1, <2>1, <2>2, <2>3 DEF Cumulative
<1> QED
  BY <1>3, <1>4, <1>5, <1>6 DEF JInv

LEMMA UnspentAfter ==
  ASSUME evs' = evs, NEW k, Len(xhashes') = k, unused' = UnusedUpTo(k)
  PROVE  Unspent'
<1>1. UnusedUpTo(Len(xhashes))' = UnusedUpTo(k)'
  BY DEF UnusedUpTo, Inscribed, Spent
<1>2. UnusedUpTo(k)' = UnusedUpTo(k)
  BY EventsSame
<1> QED
  BY <1>1, <1>2 DEF Unspent

LEMMA ExtraResidueKeeps ==
  ASSUME IInv, IInv', JInv, CheckExtraResidue
  PROVE  JInv'
<1>1. /\ UNCHANGED <<best, fork, opi, evs, historic, cumul, hashes, at>>
      /\ pc = "xresidue" /\ pc' \in {"extras", "height"}
  BY DEF CheckExtraResidue, Goto, ord, main, memory
<1>2. AtBlock'
  BY <1>1 DEF AtBlock, AtWork
<1>3. Len(xhashes) \in Nat /\ \A r \in current \cup unused : r.h \in Nat
  BY HasHeight DEF JInv, ExtraTyped
<1>4. CASE \E r \in unused \cup current : r.h > Len(xhashes)
  <2>1. ReorgExtra(Len(xhashes))
    BY <1>4 DEF CheckExtraResidue
  <2>2. PICK k \in 0 .. Len(xhashes) : k = Len(xhashes) /\ ReorgExtra(k)
    BY <1>3, <2>1
  <2>3. /\ xhashes' \in Seq(Nat) /\ Len(xhashes') = k
        /\ \A d \in 1 .. k : Agree(d - 1)' /\ ~ Agree(d)' => Gone(d, xhashes'[d])
        /\ current' \subseteq BalanceRow /\ \A c \in current' : c.h <= k
        /\ unused' = UnusedUpTo(k) /\ \A u \in unused' : u.h \in Nat /\ u.h <= k
        /\ Held'
    BY <1>1, <2>2, ExtraRolledBack
  <2>4. ExtraTyped'
    BY <1>1, <2>3 DEF ExtraTyped, JInv
  <2>5. Tops'
    <3>1. \A r \in current' \cup unused' : r.h \in Nat /\ r.h <= k
      BY <2>3, HasHeight
    <3> QED
      BY <1>3, <2>2, <2>3, <3>1 DEF Tops
  <2>6. Unspent'
    BY <1>1, <2>3, UnspentAfter
  <2> QED
    BY <1>1, <1>2, <2>3, <2>4, <2>5, <2>6, ExtraStepKeeps DEF Between
<1>5. CASE ~ \E r \in unused \cup current : r.h > Len(xhashes)
  <2>1. UNCHANGED <<current, unused, xhashes>>
    BY <1>5 DEF CheckExtraResidue, extra
  <2>2. \A r \in current \cup unused : r.h <= Len(xhashes)
    BY <1>3, <1>5
  <2>3. Held' /\ Unspent' /\ \A k : Agree(k)' <=> Agree(k)
    BY <1>1, <2>1, ExtraSame DEF JInv
  <2>4. ExtraTyped' /\ Tops'
    BY <1>1, <1>3, <2>1, <2>2 DEF JInv, ExtraTyped, Tops
  <2>5. \A d \in 1 .. Len(xhashes') : Agree(d - 1)' /\ ~ Agree(d)' => Gone(d, xhashes'[d])
    BY <2>1, <2>3 DEF JInv, Parted
  <2> QED
    BY <1>1, <1>2, <2>3, <2>4, <2>5, ExtraStepKeeps DEF Between
<1> QED
  BY <1>4, <1>5

(* check_extra_tables: below the height that it finds, the blocks agree.   *)
LEMMA ToCheckIs ==
  ASSUME IInv, JInv
  PROVE  /\ ToCheck \in 1 .. Len(xhashes) + 1
         /\ ToCheck <= Height => Agree(ToCheck - 1)
<1>1. Len(xhashes) \in Nat /\ Height \in Nat
  BY HashesAre DEF JInv, ExtraTyped
<1>2. CASE Differ = {}
  <2>1. ToCheck = Len(xhashes) + 1
    BY <1>2 DEF ToCheck
  <2>2. \A h \in 1 .. Len(xhashes) : h <= Height => xhashes[h] = hashes[h]
    BY <1>2 DEF Differ
  <2> QED
    BY <1>1, <2>1, <2>2 DEF Agree
<1>3. CASE Differ # {}
  <2>1. Differ \in SUBSET Nat
    BY <1>1 DEF Differ
  <2>2. \E h \in Differ : \A k \in Differ : h <= k
    BY <1>3, <2>1, MinNat
  <2>3. ToCheck = CHOOSE h \in Differ : \A k \in Differ : h <= k
    BY <1>3 DEF ToCheck
  <2>4. ToCheck \in Differ /\ \A k \in Differ : ToCheck <= k
    BY <2>2, <2>3
  <2>5. ToCheck \in 1 .. Len(xhashes) /\ ToCheck <= Height
    BY <2>4 DEF Differ
  <2>6. ASSUME NEW h \in 1 .. ToCheck - 1 PROVE xhashes[h] = hashes[h]
    <3>1. h \in 1 .. Len(xhashes) /\ h <= Height /\ ~ ToCheck <= h
      BY <1>1, <2>5, <2>6
    <3> QED
      BY <2>4, <3>1 DEF Differ
  <2> QED
    BY <1>1, <2>5, <2>6 DEF Agree
<1> QED
  BY <1>2, <1>3

LEMMA BeginExtraKeeps ==
  ASSUME IInv, IInv', JInv, BeginExtra
  PROVE  JInv'
<1>1. /\ UNCHANGED <<best, fork, opi, evs, historic, cumul, hashes>>
      /\ pc = "extras" /\ pc' = "xbalances" /\ at' = ToCheck /\ ToCheck > 1 /\ ToCheck <= Height
  BY DEF BeginExtra, Goto, ord, main
<1>2. Len(xhashes) \in Nat /\ Height \in Nat /\ Height' = Height /\ \A r \in current \cup unused : r.h \in Nat
  BY <1>1, HasHeight, HashesAre DEF JInv, ExtraTyped, Height
<1>3. PICK k \in Nat : k = ToCheck - 1 /\ k <= Len(xhashes) /\ Agree(k)
  BY <1>1, <1>2, ToCheckIs
<1>4. /\ xhashes' \in Seq(Nat) /\ Len(xhashes') = k /\ Agree(k)'
      /\ \A d \in 1 .. k : Agree(d - 1)' /\ ~ Agree(d)' => Gone(d, xhashes'[d])
      /\ current' \subseteq BalanceRow /\ \A c \in current' : c.h <= k
      /\ unused' = UnusedUpTo(k) /\ \A u \in unused' : u.h \in Nat /\ u.h <= k
      /\ Held'
  <2>1. CASE Len(xhashes) >= ToCheck
    <3>1. ReorgExtra(k) /\ k \in 0 .. Len(xhashes) /\ k \in 0 .. k
      BY <1>2, <1>3, <2>1 DEF BeginExtra
    <3> QED
      BY <1>1, <1>3, <3>1, ExtraRolledBack
  <2>2. CASE ~ Len(xhashes) >= ToCheck
    <3>1. UNCHANGED <<current, unused, xhashes>>
      BY <2>2 DEF BeginExtra, extra
    <3>2. k = Len(xhashes)
      BY <1>1, <1>2, <1>3, <2>2, ToCheckIs
    <3>3. \A r \in current \cup unused : r.h <= k
      BY <1>1, <3>2 DEF JInv, Tops, Unsettled, AtWork
    <3>4. unused = UnusedUpTo(k)
      BY <1>3, <3>2, <3>3 DEF JInv, Unspent
    <3>5. Held' /\ \A j : Agree(j)' <=> Agree(j)
      BY <1>1, <3>1, ExtraSame DEF JInv
    <3>6. \A d \in 1 .. k : Agree(d - 1)' /\ ~ Agree(d)' => Gone(d, xhashes'[d])
      BY <3>1, <3>2, <3>5 DEF JInv, Parted
    <3>7. xhashes \in Seq(Nat) /\ current \subseteq BalanceRow /\ \A u \in unused : u.h \in Nat
      BY DEF JInv, ExtraTyped
    <3> QED
      BY <1>3, <3>1, <3>2, <3>3, <3>4, <3>5, <3>6, <3>7
  <2> QED
    BY <2>1, <2>2
<1>5. at' \in Nat /\ at' = k + 1
  BY <1>1, <1>2, <1>3, ToCheckIs
<1>6. \A r \in current' \cup unused' : r.h \in Nat /\ r.h <= k
  BY <1>4, HasHeight
<1>7. ExtraTyped'
  BY <1>4, <1>5 DEF ExtraTyped
<1>8. Tops'
  BY <1>1, <1>4, <1>6 DEF Tops, Unsettled, AtWork
<1>9. Unspent'
  BY <1>1, <1>4, UnspentAfter
<1>10. AtBlock'
  <2>1. UnusedUpTo(at - 1)' = UnusedUpTo(k)
    <3>1. UnusedUpTo(at - 1)' = UnusedUpTo(k)'
      BY <1>5 DEF UnusedUpTo, Inscribed, Spent
    <3>2. UnusedUpTo(k)' = UnusedUpTo(k)
      BY <1>1, EventsSame
    <3> QED
      BY <3>1, <3>2
  <2>2. Agree(at - 1)'
    BY <1>4, <1>5 DEF Agree
  <2>3. \A c \in current' : c.h # at'
    BY <1>5, <1>6
  <2> QED
    BY <1>1, <1>2, <1>4, <1>5, <2>1, <2>2, <2>3 DEF AtBlock, AtWork
<1> QED
  BY <1>1, <1>4, <1>7, <1>8, <1>9, <1>10, ExtraStepKeeps DEF Between, AtWork

(* initial_index_of_extra_tables *)
LEMMA InitialExtraKeeps ==
  ASSUME IInv, IInv', JInv, InitialExtra
  PROVE  JInv'
<1>1. /\ UNCHANGED <<best, fork, opi, evs, historic, cumul, hashes, at>>
      /\ pc = "extras" /\ pc' = "residue" /\ xhashes' = hashes
      /\ current' = LastRows(MaxHeight) /\ unused' = UnusedUpTo(MaxHeight)
  BY DEF InitialExtra, Goto, ord, main, memory
<1>2. /\ hashes \in Seq(Nat) /\ Len(hashes) \in Nat /\ Height = Len(hashes) /\ Height' = Height
      /\ MaxHeight \in Nat /\ Height <= MaxHeight
      /\ evs \in Seq(Logged) /\ historic \in Seq(BalanceRow)
  BY <1>1, Pow20Assumption, HashesAre DEF IInv, Typed, Height
<1>3. /\ \A i \in DOMAIN evs : evs[i].h <= Height /\ evs[i].h <= MaxHeight
      /\ \A i \in DOMAIN historic : historic[i].h <= Height /\ historic[i].h <= MaxHeight
  <2>1. pc \in Between
    BY <1>1 DEF Between
  <2>2. /\ \A i \in DOMAIN evs : evs[i].h <= Height /\ evs[i].h \in 1 .. MaxHeight
        /\ \A i \in DOMAIN historic : historic[i].h <= Height /\ historic[i].h \in 1 .. MaxHeight
    BY <2>1, HeightsAre DEF IInv, RowHeights
  <2> QED
    BY <1>2, <2>2
<1>4. current' = LastRows(Height)
  <2>1. \A a : RowsOf(a, MaxHeight) = RowsOf(a, Height)
    BY <1>3 DEF RowsOf
  <2>2. ASSUME NEW a PROVE LastRow(a, MaxHeight) = LastRow(a, Height)
    <3>1. RowsOf(a, MaxHeight) = RowsOf(a, Height)
      BY <2>1
    <3> QED
      BY <3>1, Zenon DEF LastRow
  <2> QED
    BY <1>1, <2>1, <2>2 DEF LastRows
<1>5. unused' = UnusedUpTo(Height)
  <2>1. Inscribed(MaxHeight) = Inscribed(Height)
    BY <1>3, Zenon DEF Inscribed
  <2>2. Spent(MaxHeight) = Spent(Height)
    BY <1>3, Zenon DEF Spent
  <2> QED
    BY <1>1, <2>1, <2>2 DEF UnusedUpTo
<1>6. \A c \in current' : c \in BalanceRow /\ c.h \in Nat /\ c.h <= Height
  BY <1>2, <1>4, LastRowsAre, HasHeight
<1>7. \A u \in unused' : u.h \in Nat /\ u.h <= Height
  BY <1>2, <1>5, InscribedAre DEF UnusedUpTo
<1>8. \A j \in 1 .. Height : Agree(j)'
  BY <1>1, <1>2 DEF Agree
<1>9. Held'
  <2>1. ASSUME NEW b \in current', NEW c \in current', b.pk = c.pk, b.tick = c.tick PROVE b = c
    <3> DEFINE a == <<b.pk, b.tick>>
    <3>1. a \in Accounts /\ Of(b, a) /\ Of(c, a)
      BY <1>6, <2>1 DEF Accounts, Of, BalanceRow
    <3> QED
      BY <1>2, <1>4, <3>1, LastRowsAre
  <2>2. ASSUME NEW k \in 0 .. Height PROVE HeldAt(k)'
    <3>1. k \in Int /\ Height \in Int /\ k <= Height
      BY <1>2
    <3>2. \A a : RowsOf(a, k)' = RowsOf(a, k) /\ LastRow(a, k)' = LastRow(a, k)
      BY <1>1, HistorySame
    <3>3. ASSUME NEW a \in Accounts, RowsOf(a, k) # {} PROVE \E c \in current' : Of(c, a)
      <4>1. RowsOf(a, Height) # {}
        BY <1>2, <3>1, <3>3, RowsOfGrow
      <4>2. Of(LastRow(a, Height), a) /\ LastRow(a, Height) \in LastRows(Height)
        BY <1>2, <4>1, LastRowIs DEF LastRows
      <4> QED
        BY <1>4, <4>2
    <3>4. ASSUME NEW a \in Accounts, NEW c \in current', Of(c, a), c.h <= k
          PROVE  RowsOf(a, k) # {} /\ c = LastRow(a, k)
      <4>1. RowsOf(a, Height) # {} /\ c = LastRow(a, Height)
        BY <1>2, <1>4, <3>4, LastRowsAre
      <4> QED
        BY <1>2, <3>1, <3>4, <4>1, LastRowBelow
    <3> QED
      BY <3>2, <3>3, <3>4 DEF HeldAt, Of
  <2>3. Len(xhashes') = Height
    BY <1>1, <1>2
  <2> QED
    BY <2>1, <2>2, <2>3 DEF Held
<1>10. ExtraTyped'
  BY <1>1, <1>2, <1>6, <1>7 DEF ExtraTyped, JInv
<1>11. Tops'
  BY <1>1, <1>2, <1>6, <1>7 DEF Tops, Unsettled, AtWork
<1>12. Unspent'
  BY <1>1, <1>2, <1>5, UnspentAfter
<1>13. AtBlock'
  BY <1>1 DEF AtBlock, AtWork
<1>14. \A d \in 1 .. Len(xhashes') : Agree(d - 1)' /\ ~ Agree(d)' => Gone(d, xhashes'[d])
  BY <1>1, <1>2, <1>8
<1> QED
  BY <1>1, <1>9, <1>10, <1>11, <1>12, <1>13, <1>14, ExtraStepKeeps DEF Between

(* One of the balances of a block.                                         *)
LEMMA ExtraBalanceKeeps ==
  ASSUME IInv, IInv', JInv, NEW b \in Changed, ExtraBalance(b)
  PROVE  JInv'
<1>1. /\ UNCHANGED <<best, fork, opi, evs, historic, cumul, hashes, unused, xhashes, at, pc>>
      /\ pc = "xbalances"
      /\ current' = {c \in current : c.pk # b.pk \/ c.tick # b.tick} \cup {b}
  BY DEF ExtraBalance, ord, main, memory
<1>2. /\ Len(xhashes) \in Nat /\ historic \in Seq(BalanceRow) /\ \A r \in current \cup unused : r.h \in Nat
      /\ current \subseteq BalanceRow
  BY HasHeight DEF IInv, Typed, JInv, ExtraTyped
<1>3. at = Len(xhashes) + 1 /\ at \in Int
  BY <1>1, <1>2 DEF JInv, AtBlock, AtWork
<1>4. b \in LastRows(at) /\ b.h = at /\ b \in BalanceRow
  BY <1>2, LastRowsAre DEF Changed
<1>5. \A k : Agree(k)' <=> Agree(k)
  BY <1>1 DEF Agree, Height
<1>6. Held'
  <2>1. ASSUME NEW c \in current', NEW d \in current', c.pk = d.pk, c.tick = d.tick PROVE c = d
    BY <1>1, <2>1 DEF JInv, Held
  <2>2. ASSUME NEW k \in 0 .. Len(xhashes), Agree(k) PROVE HeldAt(k)'
    <3>1. HeldAt(k)
      BY <2>2 DEF JInv, Held
    <3>2. \A a : RowsOf(a, k)' = RowsOf(a, k) /\ LastRow(a, k)' = LastRow(a, k)
      BY <1>1, HistorySame
    <3>3. ASSUME NEW a \in Accounts, RowsOf(a, k) # {} PROVE \E c \in current' : Of(c, a)
      <4>1. PICK c \in current : Of(c, a)
        BY <3>1, <3>3 DEF HeldAt
      <4> QED
        BY <1>1, <4>1 DEF Of
    <3>4. ASSUME NEW a \in Accounts, NEW c \in current', Of(c, a), c.h <= k
          PROVE  RowsOf(a, k) # {} /\ c = LastRow(a, k)
      <4>1. c # b
        BY <1>2, <1>3, <1>4, <3>4
      <4> QED
        BY <1>1, <3>1, <3>4, <4>1 DEF HeldAt
    <3> QED
      BY <3>2, <3>3, <3>4 DEF HeldAt, Of
  <2> QED
    BY <1>1, <1>5, <2>1, <2>2 DEF Held
<1>7. ExtraTyped'
  BY <1>1, <1>4 DEF JInv, ExtraTyped
<1>8. Tops'
  BY <1>1, <1>2, <1>3, <1>4 DEF JInv, Tops, Unsettled, AtWork
<1>9. Unspent'
  <2>1. b \in current' /\ ~ b.h <= Len(xhashes')
    BY <1>1, <1>2, <1>3, <1>4
  <2> QED
    BY <2>1 DEF Unspent
<1>10. AtBlock'
  <2>1. Changed' = Changed
    <3>1. \A k : LastRows(k)' = LastRows(k)
      BY <1>1, HistorySame
    <3> QED
      BY <1>1, <3>1 DEF Changed
  <2>2. UnusedUpTo(at - 1)' = UnusedUpTo(at - 1) /\ New' = New
    <3>1. \A k : UnusedUpTo(k)' = UnusedUpTo(k) /\ Inscribed(k)' = Inscribed(k)
      BY <1>1, EventsSame
    <3> QED
      BY <1>1, <3>1 DEF New
  <2>3. \A c \in current' : c.h = at => c \in Changed
    BY <1>1 DEF JInv, AtBlock, AtWork
  <2>4. /\ at <= Height /\ Agree(at - 1) /\ Height' = Height
        /\ UnusedUpTo(at - 1) \subseteq unused /\ unused \subseteq UnusedUpTo(at - 1) \cup New
    BY <1>1 DEF JInv, AtBlock, AtWork, Height
  <2>5. Agree(at - 1)'
    BY <1>1, <1>5, <2>4
  <2> QED
    BY <1>1, <1>3, <2>1, <2>2, <2>3, <2>4, <2>5 DEF AtBlock, AtWork
<1>11. \A d \in 1 .. Len(xhashes') : Agree(d - 1)' /\ ~ Agree(d)' => Gone(d, xhashes'[d])
  BY <1>1, <1>5 DEF JInv, Parted
<1> QED
  BY <1>1, <1>6, <1>7, <1>8, <1>9, <1>10, <1>11, ExtraStepKeeps DEF Between, AtWork

LEMMA HeldSame ==
  ASSUME JInv, UNCHANGED <<historic, hashes, current, xhashes>>
  PROVE  Held' /\ \A k : Agree(k)' <=> Agree(k)
<1>1. ASSUME NEW k PROVE Agree(k)' <=> Agree(k)
  BY DEF Agree, Height
<1>2. ASSUME NEW k PROVE HeldAt(k)' <=> HeldAt(k)
  BY HistorySame DEF HeldAt, Of
<1> QED
  BY <1>1, <1>2 DEF JInv, Held

(* What a block adds to the inscribed and to the spent ones.               *)
LEMMA InscribedNext ==
  ASSUME evs \in Seq(Logged), NEW k \in Nat
  PROVE  /\ Inscribed(k) = Inscribed(k - 1) \cup {u \in Inscribed(k) : u.h = k}
         /\ Spent(k - 1) \subseteq Spent(k)
         /\ (\A i \in DOMAIN evs : evs[i].type = "send" => evs[i].h # k) => Spent(k) = Spent(k - 1)
<1>1. \A i \in DOMAIN evs : evs[i].h \in Nat
  <2>1. \A i \in DOMAIN evs : evs[i] \in Logged
    OBVIOUS
  <2> QED
    BY <2>1, HasHeight
<1>2. \A i \in DOMAIN evs : evs[i].h <= k - 1 <=> evs[i].h <= k /\ evs[i].h # k
  BY <1>1
<1>3. ASSUME NEW u
      PROVE  u \in Inscribed(k) <=> u \in Inscribed(k - 1) \/ u \in {v \in Inscribed(k) : v.h = k}
  <2>1. \A n : u \in Inscribed(n) <=>
          \E i \in DOMAIN evs : evs[i].type = "inscribe" /\ evs[i].h <= n /\ u = [by |-> evs[i].by, h |-> evs[i].h]
    BY Zenon DEF Inscribed
  <2>2. \A i \in DOMAIN evs : u = [by |-> evs[i].by, h |-> evs[i].h] => u.h = evs[i].h
    OBVIOUS
  <2> QED
    BY <1>2, <2>1, <2>2
<1>4. \A n, s : s \in Spent(n) <=> \E i \in DOMAIN evs : evs[i].type = "send" /\ evs[i].h <= n /\ s = evs[i].by
  BY Zenon DEF Spent
<1>5. Spent(k - 1) \subseteq Spent(k)
  BY <1>2, <1>4
<1>6. (\A i \in DOMAIN evs : evs[i].type = "send" => evs[i].h # k) => Spent(k) \subseteq Spent(k - 1)
  BY <1>2, <1>4
<1> QED
  BY <1>3, <1>5, <1>6

(* One of the transfer inscriptions of a block.                            *)
LEMMA ExtraUnusedKeeps ==
  ASSUME IInv, IInv', JInv, NEW v \in New, ExtraUnused(v)
  PROVE  JInv'
<1>1. /\ UNCHANGED <<best, fork, opi, evs, historic, cumul, hashes, current, xhashes, at, pc>>
      /\ pc = "xbalances" /\ unused' = unused \cup {v}
  BY DEF ExtraUnused, ord, main, memory
<1>2. /\ Len(xhashes) \in Nat /\ evs \in Seq(Logged) /\ \A r \in current \cup unused : r.h \in Nat
      /\ \A r \in current \cup unused : r.h <= Len(xhashes) + 1
  BY HasHeight DEF IInv, Typed, JInv, ExtraTyped, Tops
<1>3. /\ at = Len(xhashes) + 1 /\ at \in Int /\ at <= Height /\ Agree(at - 1)
      /\ UnusedUpTo(at - 1) \subseteq unused /\ unused \subseteq UnusedUpTo(at - 1) \cup New
      /\ \A c \in current : c.h = at => c \in Changed
  BY <1>1, <1>2 DEF JInv, AtBlock, AtWork
<1>4. Held' /\ \A k : Agree(k)' <=> Agree(k)
  BY <1>1, HeldSame
<1>5. (\A k : UnusedUpTo(k)' = UnusedUpTo(k) /\ Inscribed(k)' = Inscribed(k)) /\ New' = New
  <2>1. \A k : UnusedUpTo(k)' = UnusedUpTo(k) /\ Inscribed(k)' = Inscribed(k)
    BY <1>1, EventsSame
  <2> QED
    BY <1>1, <2>1 DEF New
<1>6. v \in Inscribed(at) /\ v.h = at
  BY DEF New
<1>7. ExtraTyped'
  BY <1>1, <1>2, <1>6, InscribedAre DEF JInv, ExtraTyped
<1>8. Tops'
  BY <1>1, <1>2, <1>3, <1>6 DEF Tops, Unsettled, AtWork
<1>9. Unspent'
  <2>1. v \in unused' /\ ~ v.h <= Len(xhashes')
    BY <1>1, <1>2, <1>3, <1>6
  <2> QED
    BY <2>1 DEF Unspent
<1>10. AtBlock'
  <2>1. Changed' = Changed
    <3>1. \A k : LastRows(k)' = LastRows(k)
      BY <1>1, HistorySame
    <3> QED
      BY <1>1, <3>1 DEF Changed
  <2>2. UnusedUpTo(at - 1)' = UnusedUpTo(at - 1)
    BY <1>1, <1>5
  <2>3. Agree(at - 1)' /\ Height' = Height
    BY <1>1, <1>3, <1>4 DEF Height
  <2> QED
    BY <1>1, <1>3, <1>5, <2>1, <2>2, <2>3 DEF AtBlock, AtWork
<1>11. \A d \in 1 .. Len(xhashes') : Agree(d - 1)' /\ ~ Agree(d)' => Gone(d, xhashes'[d])
  BY <1>1, <1>4 DEF JInv, Parted
<1> QED
  BY <1>1, <1>4, <1>7, <1>8, <1>9, <1>10, <1>11, ExtraStepKeeps DEF Between, AtWork

(* What is left of the unused ones when the block's are in and some of     *)
(* those that it spends are out.                                           *)
LEMMA SpendingIs ==
  ASSUME IInv, JInv, Inserted \/ pc = "xspent"
  PROVE  /\ pc \in AtWork /\ at = Len(xhashes) + 1 /\ at \in Nat
         /\ Changed \subseteq current
         /\ UnusedUpTo(at) \subseteq unused /\ unused \subseteq UnusedUpTo(at - 1) \cup New
         /\ Inscribed(at) = Inscribed(at - 1) \cup New
         /\ Spent(at - 1) \subseteq Spent(at)
         /\ (\A i \in DOMAIN evs : evs[i].type = "send" => evs[i].h # at) => Spent(at) = Spent(at - 1)
<1>1. Len(xhashes) \in Nat /\ evs \in Seq(Logged)
  BY DEF IInv, Typed, JInv, ExtraTyped
<1>2. pc \in AtWork /\ Changed \subseteq current
  BY DEF Inserted, AtWork, JInv, AtBlock
<1>3. at = Len(xhashes) + 1 /\ at \in Nat /\ unused \subseteq UnusedUpTo(at - 1) \cup New
  BY <1>1, <1>2 DEF JInv, AtBlock
<1>4. /\ Inscribed(at) = Inscribed(at - 1) \cup New
      /\ Spent(at - 1) \subseteq Spent(at)
      /\ (\A i \in DOMAIN evs : evs[i].type = "send" => evs[i].h # at) => Spent(at) = Spent(at - 1)
  BY <1>1, <1>3, InscribedNext DEF New
<1>5. UnusedUpTo(at) \subseteq unused
  <2>1. CASE Inserted
    <3>1. UnusedUpTo(at - 1) \subseteq unused /\ New \subseteq unused
      BY <2>1 DEF Inserted, JInv, AtBlock
    <3> QED
      BY <1>4, <3>1 DEF UnusedUpTo
  <2>2. CASE pc = "xspent"
    BY <2>2 DEF JInv, AtBlock
  <2> QED
    BY <2>1, <2>2
<1> QED
  BY <1>2, <1>3, <1>4, <1>5

(* One of the transfer inscriptions that a block spends. If nothing of the *)
(* block shows in the tables, it had no send: a send has a balance in the  *)
(* history.                                                                *)
LEMMA ExtraSpentKeeps ==
  ASSUME IInv, IInv', JInv, NEW v \in unused, ExtraSpent(v)
  PROVE  JInv'
<1>1. /\ UNCHANGED <<best, fork, opi, evs, historic, cumul, hashes, current, xhashes, at>>
      /\ Inserted \/ pc = "xspent"
      /\ pc' = "xspent" /\ v.by \in Spent(at)
      /\ unused' = unused \ {v}
  BY DEF ExtraSpent, Goto, ord, main, memory
<1>2. /\ Len(xhashes) \in Nat /\ evs \in Seq(Logged) /\ historic \in Seq(BalanceRow)
      /\ \A r \in current \cup unused : r.h \in Nat
      /\ \A r \in current \cup unused : r.h <= Len(xhashes) + 1
  BY HasHeight DEF IInv, Typed, JInv, ExtraTyped, Tops
<1>3. /\ pc \in AtWork /\ at = Len(xhashes) + 1 /\ at \in Nat /\ Changed \subseteq current
      /\ UnusedUpTo(at) \subseteq unused /\ unused \subseteq UnusedUpTo(at - 1) \cup New
      /\ Inscribed(at) = Inscribed(at - 1) \cup New
      /\ Spent(at - 1) \subseteq Spent(at)
      /\ (\A i \in DOMAIN evs : evs[i].type = "send" => evs[i].h # at) => Spent(at) = Spent(at - 1)
  BY <1>1, SpendingIs
<1>4. at <= Height /\ Agree(at - 1) /\ \A c \in current : c.h = at => c \in Changed
  BY <1>3 DEF JInv, AtBlock
<1>5. Held' /\ \A k : Agree(k)' <=> Agree(k)
  BY <1>1, HeldSame
<1>6. (\A k : UnusedUpTo(k)' = UnusedUpTo(k) /\ Inscribed(k)' = Inscribed(k)) /\ New' = New
  <2>1. \A k : UnusedUpTo(k)' = UnusedUpTo(k) /\ Inscribed(k)' = Inscribed(k)
    BY <1>1, EventsSame
  <2> QED
    BY <1>1, <2>1 DEF New
<1>7. UnusedUpTo(at) \subseteq unused' /\ unused' \subseteq unused
  BY <1>1, <1>3 DEF UnusedUpTo
<1>8. ExtraTyped'
  BY <1>1 DEF JInv, ExtraTyped
<1>9. Tops'
  BY <1>1, <1>2, <1>3 DEF Tops, Unsettled, AtWork
<1>10. Unspent'
  <2> SUFFICES ASSUME \A r \in current' \cup unused' : r.h <= Len(xhashes')
               PROVE  unused' = UnusedUpTo(Len(xhashes))'
    BY DEF Unspent
  <2>1. \A b : b \notin Changed
    <3>1. \A b \in Changed : b \in current' /\ b.h = at
      BY <1>1, <1>3 DEF Changed
    <3> QED
      BY <1>1, <1>2, <1>3, <3>1
  <2>2. ASSUME NEW j \in DOMAIN historic PROVE historic[j].h # at
    <3> DEFINE a == <<historic[j].pk, historic[j].tick>>
    <3>1. historic[j] \in BalanceRow
      BY <1>2
    <3>2. a \in Accounts
      BY <3>1 DEF Accounts, BalanceRow
    <3> SUFFICES ASSUME historic[j].h = at PROVE FALSE
      OBVIOUS
    <3>3. j \in RowsOf(a, at)
      BY <1>3 DEF RowsOf
    <3> HIDE DEF a
    <3>4. LastRow(a, at) \in BalanceRow /\ LastRow(a, at).h <= at /\ at <= LastRow(a, at).h
      BY <1>2, <3>3, LastRowIs DEF JInv, InOrder
    <3>5. LastRow(a, at).h = at
      BY <1>3, <3>4, HasHeight
    <3>6. LastRow(a, at) \in LastRows(at)
      BY <3>2, <3>3 DEF LastRows
    <3> QED
      BY <2>1, <3>5, <3>6 DEF Changed
  <2>3. \A i \in DOMAIN evs : evs[i].type = "send" => evs[i].h # at
    BY <2>2 DEF JInv, InOrder, Told
  <2>4. \A u \in unused' : u.h # at
    BY <1>1, <1>2, <1>3
  <2>5. unused' = UnusedUpTo(at - 1)
    <3>1. \A u \in New : u.h = at
      BY DEF New
    <3>2. Spent(at) = Spent(at - 1)
      BY <1>3, <2>3
    <3>3. unused' \subseteq UnusedUpTo(at - 1)
      BY <1>3, <1>7, <2>4, <3>1
    <3>4. UnusedUpTo(at - 1) \subseteq UnusedUpTo(at)
      BY <1>3, <3>2 DEF UnusedUpTo
    <3> QED
      BY <1>7, <3>3, <3>4
  <2>6. PICK k : k = Len(xhashes) /\ k = at - 1
    BY <1>2, <1>3
  <2>7. UnusedUpTo(Len(xhashes))' = UnusedUpTo(k)'
    BY <1>1, <2>6 DEF UnusedUpTo, Inscribed, Spent
  <2> QED
    BY <1>6, <2>5, <2>6, <2>7
<1>11. AtBlock'
  <2>1. Changed' = Changed
    <3>1. \A k : LastRows(k)' = LastRows(k)
      BY <1>1, HistorySame
    <3> QED
      BY <1>1, <3>1 DEF Changed
  <2>2. UnusedUpTo(at)' = UnusedUpTo(at) /\ UnusedUpTo(at - 1)' = UnusedUpTo(at - 1)
    BY <1>1, <1>6
  <2>3. Agree(at - 1)' /\ Height' = Height
    BY <1>1, <1>4, <1>5 DEF Height
  <2>4. unused' \subseteq UnusedUpTo(at - 1) \cup New
    BY <1>3, <1>7
  <2> QED
    BY <1>1, <1>3, <1>4, <1>6, <1>7, <2>1, <2>2, <2>3, <2>4 DEF AtBlock, AtWork
<1>12. \A d \in 1 .. Len(xhashes') : Agree(d - 1)' /\ ~ Agree(d)' => Gone(d, xhashes'[d])
  BY <1>1, <1>5 DEF JInv, Parted
<1> QED
  BY <1>1, <1>3, <1>5, <1>8, <1>9, <1>10, <1>11, <1>12, ExtraStepKeeps DEF Between, AtWork

(* The hash of a block, after which the extra tables hold its balances.    *)
LEMMA ExtraHashKeeps ==
  ASSUME IInv, IInv', JInv, ExtraHash
  PROVE  JInv'
<1>1. /\ UNCHANGED <<best, fork, opi, evs, historic, cumul, hashes, current, unused, at>>
      /\ Inserted \/ pc = "xspent"
      /\ \A u \in unused : u.by \notin Spent(at)
      /\ pc' = "extras" /\ xhashes' = Append(xhashes, hashes[at])
  BY DEF ExtraHash, Goto, ord, main, memory
<1>2. /\ xhashes \in Seq(Nat) /\ Len(xhashes) \in Nat /\ historic \in Seq(BalanceRow)
      /\ \A r \in current \cup unused : r.h \in Nat
      /\ \A r \in current \cup unused : r.h <= Len(xhashes) + 1
      /\ hashes \in Seq(Nat) /\ Height \in Nat /\ DOMAIN hashes = 1 .. Height
  BY HasHeight, HashesAre DEF IInv, Typed, JInv, ExtraTyped, Tops
<1>3. /\ at = Len(xhashes) + 1 /\ at \in Nat /\ at <= Height /\ Agree(at - 1) /\ Changed \subseteq current
      /\ \A c \in current : c.h = at => c \in Changed
      /\ unused = UnusedUpTo(at) /\ pc \in AtWork
  <2>1. /\ pc \in AtWork /\ at = Len(xhashes) + 1 /\ at \in Nat /\ Changed \subseteq current
        /\ UnusedUpTo(at) \subseteq unused /\ unused \subseteq UnusedUpTo(at - 1) \cup New
        /\ Inscribed(at) = Inscribed(at - 1) \cup New
    BY <1>1, SpendingIs
  <2>2. at <= Height /\ Agree(at - 1) /\ \A c \in current : c.h = at => c \in Changed
    BY <2>1 DEF JInv, AtBlock
  <2>3. unused \subseteq Inscribed(at)
    BY <2>1 DEF UnusedUpTo
  <2>4. unused = UnusedUpTo(at)
    BY <1>1, <2>1, <2>3 DEF UnusedUpTo
  <2> QED
    BY <2>1, <2>2, <2>4
<1>4. /\ xhashes' \in Seq(Nat) /\ Len(xhashes') = at /\ xhashes'[at] = hashes[at]
      /\ \A h \in 1 .. at - 1 : xhashes'[h] = xhashes[h]
  <2>1. hashes[at] \in Nat
    BY <1>2, <1>3
  <2> QED
    BY <1>1, <1>2, <1>3, <2>1
<1>5. /\ \A k \in 0 .. at : Agree(k)'
      /\ \A k \in 0 .. at - 1 : Agree(k)
  <2>1. \A h \in 1 .. at - 1 : xhashes[h] = hashes[h]
    BY <1>3 DEF Agree
  <2>2. Height' = Height /\ hashes' = hashes
    BY <1>1 DEF Height
  <2>3. \A h \in 1 .. at : xhashes'[h] = hashes[h]
    BY <1>3, <1>4, <2>1
  <2> QED
    BY <1>2, <1>3, <1>4, <2>1, <2>2, <2>3 DEF Agree
<1>6. Held'
  <2>1. \A b, c \in current : b.pk = c.pk /\ b.tick = c.tick => b = c
    BY DEF JInv, Held
  <2>2. \A k \in 0 .. at - 1 : HeldAt(k)
    BY <1>2, <1>3, <1>5 DEF JInv, Held
  <2>3. HeldAt(at)
    <3> DEFINE k == at - 1
    <3>1. HeldAt(k) /\ k \in Int /\ at \in Int /\ k <= at
      BY <1>2, <1>3, <2>2
    <3>2. \A r \in BalanceRow : r.h \in Int /\ (r.h <= k <=> r.h <= at /\ r.h # at)
      BY <1>3, HasHeight
    <3> HIDE DEF k
    <3>3. ASSUME NEW a \in Accounts, RowsOf(a, at) # {}
          PROVE  /\ LastRow(a, at).h = at => LastRow(a, at) \in current /\ Of(LastRow(a, at), a)
                 /\ LastRow(a, at).h # at => RowsOf(a, k) # {} /\ LastRow(a, k) = LastRow(a, at)
      <4>1. LastRow(a, at) \in BalanceRow /\ LastRow(a, at).h <= at /\ Of(LastRow(a, at), a)
        BY <1>2, <3>3, LastRowIs
      <4>2. LastRow(a, at) \in LastRows(at)
        BY <3>3 DEF LastRows
      <4>3. LastRow(a, at).h = at => LastRow(a, at) \in current
        BY <1>3, <4>2 DEF Changed
      <4>4. LastRow(a, at).h # at => RowsOf(a, k) # {} /\ LastRow(a, k) = LastRow(a, at)
        BY <1>2, <3>1, <3>2, <3>3, <4>1, LastRowBelow
      <4> QED
        BY <4>1, <4>3, <4>4
    <3>4. ASSUME NEW a \in Accounts, RowsOf(a, at) # {} PROVE \E c \in current : Of(c, a)
      BY <3>1, <3>3, <3>4 DEF HeldAt
    <3>5. ASSUME NEW a \in Accounts, NEW c \in current, Of(c, a), c.h <= at
          PROVE  RowsOf(a, at) # {} /\ c = LastRow(a, at)
      <4>1. CASE c.h = at
        <5>1. c \in LastRows(at)
          BY <1>3, <4>1 DEF Changed
        <5> QED
          BY <1>2, <3>5, <5>1, LastRowsAre
      <4>2. CASE c.h # at
        <5>1. c.h <= k
          BY <3>2, <3>5, <4>2 DEF JInv, ExtraTyped
        <5>2. RowsOf(a, k) # {} /\ c = LastRow(a, k)
          BY <3>1, <3>5, <5>1 DEF HeldAt
        <5>3. RowsOf(a, at) # {}
          BY <1>2, <3>1, <5>2, RowsOfGrow
        <5>4. LastRow(a, at).h # at
          BY <2>1, <3>3, <3>5, <4>2, <5>3 DEF Of
        <5> QED
          BY <3>3, <5>2, <5>3, <5>4
      <4> QED
        BY <4>1, <4>2
    <3> QED
      BY <3>4, <3>5 DEF HeldAt
  <2>4. ASSUME NEW k \in 0 .. at PROVE HeldAt(k)'
    <3>1. HeldAt(k)
      BY <1>3, <2>2, <2>3, <2>4
    <3>2. \A a : RowsOf(a, k)' = RowsOf(a, k) /\ LastRow(a, k)' = LastRow(a, k)
      BY <1>1, HistorySame
    <3> QED
      BY <1>1, <3>1, <3>2 DEF HeldAt, Of
  <2> QED
    BY <1>1, <1>4, <2>1, <2>4 DEF Held
<1>7. ExtraTyped'
  BY <1>1, <1>4 DEF JInv, ExtraTyped
<1>8. Tops'
  BY <1>1, <1>2, <1>3, <1>4 DEF Tops, Unsettled, AtWork
<1>9. Unspent'
  BY <1>1, <1>3, <1>4, UnspentAfter
<1>10. AtBlock'
  BY <1>1 DEF AtBlock, AtWork
<1>11. \A d \in 1 .. Len(xhashes') : Agree(d - 1)' /\ ~ Agree(d)' => Gone(d, xhashes'[d])
  BY <1>3, <1>4, <1>5
<1> QED
  BY <1>1, <1>3, <1>6, <1>7, <1>8, <1>9, <1>10, <1>11, ExtraStepKeeps DEF Between, AtWork

-----------------------------------------------------------------------------
(* The second invariant, in every step                                     *)

LEMMA CheckResidueKeeps ==
  ASSUME IInv, IInv', JInv, CheckResidue
  PROVE  JInv'
<1>1. /\ UNCHANGED <<best, fork, opi, current, unused, xhashes, at>>
      /\ pc = "residue" /\ pc' = "xresidue"
  BY DEF CheckResidue, Goto, ord, extra
<1>2. Height \in Nat
  BY HeightsAre DEF IInv
<1>3. CASE Residue
  <2>1. PICK k \in 0 .. Height : k = Height /\ ReorgFix(k)
    BY <1>2, <1>3 DEF CheckResidue
  <2> QED
    BY <1>1, <1>2, <2>1, RollbackKeeps
<1>4. CASE ~ Residue
  <2>1. UNCHANGED <<evs, historic, cumul, hashes>> /\ Height' = Height /\ Here' = Here /\ Here = Height + 1
    BY <1>4 DEF CheckResidue, main, Height, Here
  <2>2. Held' /\ Unspent' /\ InOrder' /\ \A k : Agree(k)' <=> Agree(k)
    BY <1>1, <2>1, ExtraSame DEF JInv
  <2>3. \A h, f : (Was(h, f)' <=> Was(h, f)) /\ (Gone(h, f)' <=> Gone(h, f))
    BY <1>1 DEF Was, Gone
  <2>4. Chains'
    <3>1. Sources'
      BY <1>1 DEF JInv, Chains, Sources
    <3>2. \A h \in DOMAIN hashes' : Was(h, hashes[h])
      BY <2>1 DEF JInv, Chains
    <3> QED
      BY <1>1, <2>1, <2>3, <3>1, <3>2 DEF Chains, Was, Reading
  <2>5. Parted'
    BY <1>1, <2>1, <2>2, <2>3 DEF JInv, Parted, Gone, Reading
  <2>6. ExtraTyped' /\ Tops' /\ AtBlock'
    BY <1>1 DEF JInv, ExtraTyped, Tops, AtBlock, Unsettled, AtWork
  <2>7. Cumulative'
    <3>1. \A h : Chain(h)' = Chain(h)
      BY <2>1, EventsSame
    <3>2. /\ \A c \in cumul : c.h \in 1 .. Here
          /\ \A c, d \in cumul : c.h = d.h => c = d
          /\ \A h \in 1 .. Height : [h |-> h, chain |-> Chain(h)] \in cumul
      BY <1>1 DEF JInv, Cumulative, Between
    <3>3. \A c \in cumul : c.h \in 1 .. Height
      BY <1>2, <1>4, <2>1, <3>2 DEF Residue
    <3>4. \A c \in cumul' : c.h \in 1 .. IF pc' \in Between \cup {"index"} THEN Height' ELSE Here'
      BY <1>1, <2>1, <3>3 DEF Between
    <3> QED
      BY <1>1, <2>1, <3>1, <3>2, <3>4 DEF Cumulative
  <2> QED
    BY <2>2, <2>4, <2>5, <2>6, <2>7 DEF JInv
<1> QED
  BY <1>3, <1>4

LEMMA WalkFoundKeeps ==
  ASSUME IInv, IInv', JInv, WalkFound
  PROVE  JInv'
<1>1. /\ UNCHANGED <<best, fork, opi, current, unused, xhashes, at>>
      /\ pc = "walk" /\ pc' = "residue" /\ ReorgFix(at)
  BY DEF WalkFound, Goto, ord, extra
<1>2. PICK k \in 0 .. Height : k = at /\ ReorgFix(k)
  BY <1>1 DEF IInv, Control
<1> QED
  BY <1>1, <1>2, RollbackKeeps

LEMMA JBegins ==
  ASSUME Init
  PROVE  JInv
<1> USE DEF Init
<1>1. Height = 0 /\ Here = 1 /\ Len(xhashes) = 0 /\ Len(best) = 0 /\ Len(opi) = 0
  BY DEF Height, Here
<1>2. ExtraTyped
  BY EmptySeq DEF ExtraTyped
<1>3. Chains /\ Parted /\ Tops /\ AtBlock /\ InOrder
  BY <1>1 DEF Chains, Sources, Parted, Reading, Tops, AtBlock, AtWork, InOrder, Sorted, Told
<1>4. \A a, k : RowsOf(a, k) = {}
  BY DEF RowsOf
<1>5. Held
  BY <1>1, <1>4 DEF Held, HeldAt
<1>6. \A k : UnusedUpTo(k) = {}
  BY DEF UnusedUpTo, Inscribed
<1>7. Unspent
  BY <1>6 DEF Unspent
<1>8. Cumulative
  BY <1>1 DEF Cumulative
<1> QED
  BY <1>2, <1>3, <1>5, <1>7, <1>8 DEF JInv

LEMMA StepJInv == IInv /\ JInv /\ IInv' /\ [Next]_vars => JInv'
<1> SUFFICES ASSUME IInv, JInv, IInv', [Next]_vars PROVE JInv'
  OBVIOUS
<1>1. CASE Environment
  BY <1>1, ChainKeeps
<1>2. CASE Crash \/ UNCHANGED vars
  <2>1. CASE Crash
    BY <2>1, NowLooks, LooksKeeps
  <2>2. CASE UNCHANGED vars
    BY <2>2, NowLooks, LooksKeeps
  <2> QED
    BY <1>2, <2>1, <2>2
<1>3. CASE Indexer
  <2>1. CASE Start \/ ReadHeight \/ ReadHash \/ CheckTip \/ WalkBack \/ WalkEnds \/ ReadTransfers \/ NoExtra
    BY <2>1, NowLooks, LooksKeeps
  <2>2. CASE CheckResidue \/ WalkFound
    BY <2>2, CheckResidueKeeps, WalkFoundKeeps
  <2>3. CASE CheckExtraResidue
    BY <2>3, ExtraResidueKeeps
  <2>4. CASE IndexOne
    BY <2>4, IndexOneKeeps
  <2>5. CASE UpdateEventHashes
    BY <2>5, UpdateKeeps
  <2>6. CASE StoreHash
    BY <2>6, StoreKeeps
  <2>7. CASE InitialExtra \/ BeginExtra
    BY <2>7, InitialExtraKeeps, BeginExtraKeeps
  <2>8. CASE \E b \in Changed : ExtraBalance(b)
    BY <2>8, ExtraBalanceKeeps
  <2>9. CASE (\E u \in New : ExtraUnused(u)) \/ (\E u \in unused : ExtraSpent(u)) \/ ExtraHash
    BY <2>9, ExtraUnusedKeeps, ExtraSpentKeeps, ExtraHashKeeps
  <2> QED
    BY <1>3, <2>1, <2>2, <2>3, <2>4, <2>5, <2>6, <2>7, <2>8, <2>9 DEF Indexer
<1> QED
  BY <1>1, <1>2, <1>3 DEF Next

(* Between two blocks there is nothing left of what the main tables have   *)
(* lost, and the extra tables are those of their last hash.                *)
LEMMA DerivedFollows ==
  ASSUME IInv, JInv
  PROVE  DerivedFollow
<1>1. /\ Height \in Nat /\ Here = Height + 1 /\ hashes \in Seq(Nat) /\ Len(hashes) = Height
      /\ xhashes \in Seq(Nat) /\ Len(xhashes) \in Nat /\ historic \in Seq(BalanceRow)
      /\ \A c \in current : c \in BalanceRow
  BY HashesAre DEF IInv, Typed, Height, JInv, ExtraTyped
<1>2. \A c, d \in cumul : c.h <= Height + 1 /\ (c.h = d.h => c = d)
  <2>1. /\ \A c \in cumul : c.h \in 1 .. IF pc \in Between \cup {"index"} THEN Height ELSE Here
        /\ \A c, d \in cumul : c.h = d.h => c = d
    BY DEF JInv, Cumulative
  <2>2. \A c \in cumul : c.h \in 1 .. Here
    BY <1>1, <2>1
  <2> QED
    BY <1>1, <2>1, <2>2
<1>3. \A r \in current \cup unused : r.h <= Len(xhashes) + 1
  BY DEF JInv, Tops
<1>4. \A h \in 1 .. Height : ChainAt(h) = [j \in 1 .. h |-> Only(evs, {j})]
  BY <1>1, ChainAtIs DEF Chain
<1>5. ASSUME pc \in {"height", "hash", "tip", "read", "index", "store"}, IsPrefix(xhashes, hashes)
      PROVE  current = LastRows(Len(xhashes)) /\ unused = UnusedUpTo(Len(xhashes))
  <2> DEFINE k == Len(xhashes)
  <2>1. Agree(k)
    <3>1. k <= Height /\ SubSeq(xhashes, 1, k) = SubSeq(hashes, 1, k)
      BY <1>1, <1>5 DEF IsPrefix
    <3>2. \A h \in 1 .. k : xhashes[h] = hashes[h]
      <4> SUFFICES ASSUME NEW h \in 1 .. k PROVE xhashes[h] = hashes[h]
        OBVIOUS
      <4>1. SubSeq(xhashes, 1, k)[h] = xhashes[h] /\ SubSeq(hashes, 1, k)[h] = hashes[h]
        BY <1>1, <3>1
      <4> QED
        BY <3>1, <4>1
    <3> QED
      BY <1>1, <3>1, <3>2 DEF Agree
  <2>2. \A r \in current \cup unused : r.h <= k
    BY <1>5 DEF JInv, Tops, Unsettled, AtWork
  <2>3. unused = UnusedUpTo(k)
    BY <2>1, <2>2 DEF JInv, Unspent
  <2>4. HeldAt(k)
    BY <1>1, <2>1 DEF JInv, Held
  <2> HIDE DEF k
  <2>5. ASSUME NEW c \in current PROVE c \in LastRows(k)
    <3> DEFINE a == <<c.pk, c.tick>>
    <3>1. a \in Accounts /\ Of(c, a)
      BY <1>1 DEF Accounts, Of, BalanceRow
    <3> HIDE DEF a
    <3>2. RowsOf(a, k) # {} /\ c = LastRow(a, k)
      BY <2>2, <2>4, <3>1 DEF HeldAt
    <3> QED
      BY <3>1, <3>2 DEF LastRows
  <2>6. ASSUME NEW b \in LastRows(k) PROVE b \in current
    <3>1. PICK a \in Accounts : RowsOf(a, k) # {} /\ b = LastRow(a, k)
      BY DEF LastRows
    <3>2. PICK c \in current : Of(c, a)
      BY <2>4, <3>1 DEF HeldAt
    <3>3. c = LastRow(a, k)
      BY <2>2, <2>4, <3>2 DEF HeldAt
    <3> QED
      BY <3>1, <3>3
  <2>7. current = LastRows(k)
    BY <2>5, <2>6
  <2> QED
    BY <2>3, <2>7 DEF k
<1> QED
  BY <1>2, <1>3, <1>4, <1>5 DEF DerivedFollow

(* What is derived from the events agrees with them through crashes between*)
(* any two statements and through reorgs: the cumulative hash that         *)
(* update_event_hashes has stored for a block is that of the events on     *)
(* record up to it, and after the look for residue the current balances    *)
(* and the unused inscriptions are those of the block whose hash           *)
(* index_extra_tables stored last, as long as it is on the indexed chain.  *)
THEOREM Derived == Spec => []DerivedFollow
<1>1. Init => IInv /\ JInv
  BY Begins, JBegins
<1>2. IInv /\ JInv /\ [Next]_vars => IInv' /\ JInv'
  BY StepIInv, StepJInv
<1>3. IInv /\ JInv => DerivedFollow
  BY DerivedFollows
<1> QED
  BY <1>1, <1>2, <1>3, PTL DEF Spec
=============================================================================
