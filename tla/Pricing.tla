------------------------------ MODULE Pricing ------------------------------
(***************************************************************************)
(* What a token is worth, and when its position is closed: the price read  *)
(* from the pool with its cache, its stale values and the fallback to      *)
(* DEXScreener (pool_price_solana.go, price_fetcher.go), the SOL/USD quote  *)
(* of Pyth (pyth.go), and the exits of the position poll (position.go,      *)
(* dynamic_trail.go, run_position_poll.go).                                *)
(*                                                                         *)
(* The callers of a feed share its cache under a mutex that none holds     *)
(* while it waits.  One feed is looked at, "pool" with one token and its   *)
(* position or "usd".  The poll serves the positions it has listed one     *)
(* after the other; of the others only the time they take is kept.  Times  *)
(* are ages: how long ago a value was read, a cache entry stamped, a call  *)
(* or a cycle of the poll begun, the position opened.                      *)
(***************************************************************************)
EXTENDS Integers, FiniteSetsExt

CONSTANTS
  Poll,         \* the position poll
  Others,       \* execution and the shadow observer, or ingestion for "usd"
  Kinds,        \* the pool accounts that occur
  Levels,       \* prices a pool may have
  Placeholder,  \* what a shadow fill pays when there is no price
  CacheTTL,     \* how long a cached price is fresh
  StaleMax,     \* how long it may stand in for one that cannot be read
  MaxCall,      \* the longest a call takes
  MaxListed,    \* bound: positions that a cycle lists, exited ones included
  Whole,        \* 10000 basis points
  Tp1, Tp2, Sl, \* take profit, in two steps, and stop loss
  Tp1FilledPct, \* the share sold at the first step; 0 sells all
  TrailingStop, \* the width of the trailing stop after a partial sale
  Tiers,        \* dynamic trailing: gains with their narrower widths
  MaxHold,      \* how long a position is held
  PricingFaults \* bound: lists that cannot be read, snapshots not written

ASSUME PricingAssumption ==
  /\ Levels \subseteq Nat \ {0} /\ Placeholder \in Nat \ {0}
  /\ {CacheTTL, StaleMax, MaxCall, MaxListed, Whole, MaxHold} \subseteq Nat \ {0}
  /\ CacheTTL <= StaleMax
  /\ {Tp1, Tp2, Sl, Tp1FilledPct, TrailingStop, PricingFaults} \subseteq Nat
  /\ Tiers \subseteq [trigger : Nat, trail : Nat \ {0}]
  /\ Poll \notin Others

VARIABLES
  feed,      \* "pool" or "usd"
  account,   \* what the pool account of the token is
  asked,     \* the call of each caller
  cycle,     \* the cycle of the poll
  polled,    \* the ticker of the poll has not fired again
  cache,     \* the last value of the feed
  position,  \* the open snapshot of the position
  exits,     \* reasons of the exited snapshots
  spoilt     \* PricingFaults that have happened

pricingVars == <<feed, account, asked, cycle, polled, cache, position, exits, spoilt>>

Askers == {Poll} \union Others

NoPrice == 0
Prices == Levels \union {NoPrice}
Rules == {"TP1", "TP2", "SL", "TRAILING", "TIME"}

\* The longest a cycle takes.
MaxCycle == MaxListed * MaxCall

PositionAges == 0..MaxHold + (PricingFaults + 2) * MaxCycle

\* Older than Ages no cached value is of use.
Ages == 0..StaleMax + MaxCall + 1
Older(age) == IF age + 1 \in Ages THEN age + 1 ELSE age

-------------------------------------------------------------------------------
(* The layouts. *)

\* The account of a token: a bonding curve, one that is sold out, an AMM pool of
\* Pump.fun, a pool of Raydium, or one with another program. The AMM pool has the
\* creator's key where a curve has its reserves, and Raydium's has counts and the
\* decimals of its coin: neither is zero.
Accounts == {"curve", "drained", "amm", "raydium", "foreign"}

ASSUME KindsAssumption == Kinds \subseteq Accounts

Length ==
  [curve |-> 49, drained |-> 49, amm |-> 203, raydium |-> 752, foreign |-> 40]

LooksLikeReserves(a) == a # "drained"

\* fetchPriceFromPool tries the layouts by length alone, the curve first.
ReadsAs(a) ==
  IF Length[a] >= 49 /\ LooksLikeReserves(a) THEN "curve"
  ELSE IF Length[a] >= 203 THEN "amm"
  ELSE IF Length[a] >= 400 THEN "raydium" ELSE "none"

-------------------------------------------------------------------------------
(* The state. *)

Empty == [price |-> NoPrice, read |-> 0, stamp |-> 0, as |-> "none"]

\* At: idle; about to look up the pool, to read the account, to store what it read or
\* to ask DEXScreener; or with a price, which was read so long ago. usd keeps the
\* value it saw when it began. The poll is also at the price of another position.
Quiet == [at |-> "idle", spent |-> 0, value |-> Empty]
Elsewhere == [Quiet EXCEPT !.at = "other"]

\* What is left of the list: whether the position, and how many others. spent is the
\* time since evaluatedAt.
NoCycle == [mine |-> FALSE, others |-> 0, spent |-> 0]

NoPosition == [status |-> "none", entry |-> NoPrice, peak |-> NoPrice,
               filled |-> 0, trail |-> 0, age |-> 0]

Values == [price : Prices, read : Ages, stamp : Ages, as : {"none", "curve", "amm", "raydium", "quote"}]

PricingTypeOK ==
  /\ feed \in {"pool", "usd"} /\ account \in Kinds
  /\ asked \in [Askers -> [at : {"idle", "resolve", "account", "store", "dex", "got", "other"},
                           spent : 0..MaxCall, value : Values]]
  /\ cycle \in [mine : BOOLEAN, others : 0..MaxListed, spent : 0..MaxCycle]
  /\ cache \in Values /\ polled \in BOOLEAN
  /\ position \in [status : {"none", "open"}, entry : Prices \union {Placeholder}, peak : Prices,
                   filled : {0, Tp1FilledPct}, trail : {0, TrailingStop}, age : PositionAges]
  /\ exits \subseteq Rules
  /\ spoilt \in 0..PricingFaults

PricingInit ==
  /\ feed \in {"pool", "usd"} /\ account \in Kinds
  /\ asked = [c \in Askers |-> Quiet]
  /\ cycle = NoCycle /\ polled = FALSE
  /\ cache = Empty
  /\ position = NoPosition
  /\ exits = {}
  /\ spoilt = 0

-------------------------------------------------------------------------------
(* A price. *)

Held(value) == value.price # NoPrice

\* cachedFresh, and the first branch of Get.
Fresh(value) == Held(value) /\ value.stamp <= CacheTTL

\* cachedStale, and the last branch of Get.
CachedStale(value) == Held(value) /\ value.stamp <= StaleMax

Become(c, at, value) == asked' = [asked EXCEPT ![c].at = at, ![c].value = value]

\* A caller wants a price; the poll wants that of the position once a cycle.
Ask(c) ==
  /\ asked[c].at = "idle"
  /\ c = Poll => cycle.mine
  /\ cycle' = IF c = Poll THEN [cycle EXCEPT !.mine = FALSE] ELSE cycle
  /\ asked' = [asked EXCEPT ![c] =
       [at |-> IF Fresh(cache) THEN "got" ELSE IF feed = "pool" THEN "resolve" ELSE "account",
        spent |-> 0, value |-> cache]]
  /\ UNCHANGED <<feed, account, polled, cache, position, exits, spoilt>>

\* Slip: a value that stands in for another is of any age.
GiveUpAnyAge(c) ==
  LET value == IF feed = "pool" THEN cache ELSE asked[c].value
  IN IF Held(value) THEN Become(c, "got", value)
     ELSE Become(c, IF feed = "pool" THEN "dex" ELSE "got", Empty)

\* No new value: the last one, if it is not too old. GetTokenPrice looks again now,
\* and RoutingPriceClient then turns to DEXScreener; Get goes by what it saw when it
\* began, of the age it had then.
GiveUp(c) ==
  LET value == IF feed = "pool" THEN cache ELSE asked[c].value
      stamp == value.stamp - (IF feed = "pool" THEN 0 ELSE asked[c].spent)
  IN IF CachedStale([value EXCEPT !.stamp = stamp]) THEN Become(c, "got", value)
     ELSE Become(c, IF feed = "pool" THEN "dex" ELSE "got", Empty)

\* GetLatestPoolAddressForToken.
Resolve(c) ==
  /\ asked[c].at = "resolve"
  /\ asked' = [asked EXCEPT ![c].at = "account"] \/ GiveUp(c)
  /\ UNCHANGED <<feed, account, cycle, polled, cache, position, exits, spoilt>>

\* The chain reads the account; a quote of Pyth that is not trading is none.
ReadAccount(c) ==
  LET as == IF feed = "usd" THEN "quote" ELSE ReadsAs(account)
  IN /\ asked[c].at = "account"
     /\ \/ GiveUp(c)
        \/ /\ as # "none"
           /\ \E price \in Levels :
                asked' = [asked EXCEPT
                  ![c].at = "store",
                  ![c].value = [price |-> price, read |-> 0, stamp |-> 0, as |-> as]]
     /\ UNCHANGED <<feed, account, cycle, polled, cache, position, exits, spoilt>>

\* storeCache stamps an entry when it is stored, Get when the call began: a slow call
\* replaces what a quick one has stored since, under a stamp that is newer or not.
StoreCache(c) ==
  LET value == [asked[c].value EXCEPT !.stamp = IF feed = "pool" THEN 0 ELSE asked[c].spent]
  IN /\ asked[c].at = "store"
     /\ cache' = value
     /\ Become(c, "got", value)
     /\ UNCHANGED <<feed, account, cycle, polled, position, exits, spoilt>>

\* DEXScreener: the first pair with a price, none, or an error.
AskDEXScreener(c) ==
  /\ asked[c].at = "dex"
  /\ \E price \in Prices : Become(c, "got", [Empty EXCEPT !.price = price])
  /\ UNCHANGED <<feed, account, cycle, polled, cache, position, exits, spoilt>>

-------------------------------------------------------------------------------
(* The position. *)

\* A shadow fill pays what the pool says, or the placeholder.
ShadowFillPrice(c) == IF asked[c].value.price = NoPrice THEN Placeholder ELSE asked[c].value.price

\* Another caller uses its price: it may be the fill that opens the position.
Use(c) ==
  /\ c \in Others /\ asked[c].at = "got"
  /\ asked' = [asked EXCEPT ![c] = Quiet]
  /\ \/ UNCHANGED position
     \/ /\ feed = "pool" /\ position.status = "none"
        /\ position' = [NoPosition EXCEPT !.status = "open", !.entry = ShadowFillPrice(c)]
  /\ UNCHANGED <<feed, account, cycle, polled, cache, exits, spoilt>>

\* GetOpenPositions selects neither the peak nor the trailing stop nor the share that
\* has been sold, although InsertPositionState writes them.
Loaded(row) == [row EXCEPT !.peak = NoPrice, !.filled = 0, !.trail = 0]

Usable(pos, price) == pos.entry # NoPrice /\ price # NoPrice

Gained(pos, price, bps) == (price - pos.entry) * Whole >= bps * pos.entry

\* The tier of the largest gain that has been reached; it only narrows the stop.
TrailBpsForGain(pos, price) ==
  LET reached == {t \in Tiers : Gained(pos, price, t.trigger)}
  IN IF reached = {} THEN pos.trail
     ELSE LET tier == CHOOSE t \in reached : \A u \in reached : u.trigger <= t.trigger
          IN Min({tier.trail, pos.trail})

Peak(pos, price) == IF price > pos.peak THEN price ELSE pos.peak

HasTrailed(pos, price) ==
  /\ pos.filled > 0 /\ pos.trail > 0
  /\ price * Whole <= Peak(pos, price) * (Whole - TrailBpsForGain(pos, price))

PricedRule(pos, price, age) ==
  IF Gained(pos, price, Tp2) THEN "TP2"
  ELSE IF Gained(pos, price, Tp1) /\ pos.filled = 0 THEN IF Tp1FilledPct > 0 THEN "PARTIAL" ELSE "TP1"
  ELSE IF (price - pos.entry) * Whole <= - Sl * pos.entry THEN "SL"
  ELSE IF HasTrailed(pos, price) THEN "TRAILING"
  ELSE IF age >= MaxHold THEN "TIME" ELSE "none"

\* Slip: without a price nothing is decided.
RuleWithPrice(pos, price, age) ==
  IF Usable(pos, price) THEN PricedRule(pos, price, age) ELSE "none"

\* PollExitWithVolume, which is given no volume: the first rule that applies.
Rule(pos, price, age) ==
  IF Usable(pos, price) THEN PricedRule(pos, price, age)
  ELSE IF age >= MaxHold THEN "TIME" ELSE "none"

Snapshot(pos, price, rule) ==
  [pos EXCEPT !.peak = IF Usable(pos, price) THEN Peak(pos, price) ELSE @,
              !.filled = IF rule = "PARTIAL" THEN Tp1FilledPct ELSE @,
              !.trail = IF rule = "PARTIAL" THEN TrailingStop ELSE @]

Cycling == cycle.mine \/ cycle.others > 0 \/ asked[Poll].at # "idle"

\* The ticker has fired, and GetOpenPositions lists the open snapshots, also after an
\* exited one; when it fails the cycle is over. evaluatedAt is now.
BeginCycle ==
  /\ feed = "pool" /\ ~ polled /\ ~ Cycling
  /\ polled' = TRUE
  /\ \/ /\ \E others \in 0..MaxListed :
             cycle' = [mine |-> position.status = "open", others |-> others, spent |-> 0]
        /\ cycle'.mine => cycle'.others < MaxListed
        /\ UNCHANGED spoilt
     \/ /\ spoilt < PricingFaults
        /\ spoilt' = spoilt + 1
        /\ UNCHANGED cycle
  /\ UNCHANGED <<feed, account, asked, cache, position, exits>>

\* Another position: GetTokenPrice, and then its exits; an error ends neither.
BeginOther ==
  /\ asked[Poll].at = "idle" /\ cycle.others > 0
  /\ asked' = [asked EXCEPT ![Poll] = Elsewhere]
  /\ cycle' = [cycle EXCEPT !.others = @ - 1]
  /\ UNCHANGED <<feed, account, polled, cache, position, exits, spoilt>>

EndOther ==
  /\ asked[Poll].at = "other"
  /\ asked' = [asked EXCEPT ![Poll] = Quiet]
  /\ UNCHANGED <<feed, account, cycle, polled, cache, position, exits, spoilt>>

\* pollOnce decides as of the time the cycle began. A position may be closed again,
\* for another reason.
PollExit ==
  LET pos == Loaded(position)
      price == asked[Poll].value.price
      rule == Rule(pos, price, position.age - cycle.spent)
  IN /\ asked[Poll].at = "got"
     /\ asked' = [asked EXCEPT ![Poll] = Quiet]
     /\ \/ /\ rule \in Rules
           /\ exits' = exits \union {rule}
           /\ UNCHANGED <<position, spoilt>>
        \/ /\ rule \notin Rules
           /\ position' = Snapshot(pos, price, rule)
           /\ UNCHANGED <<exits, spoilt>>
        \/ /\ spoilt < PricingFaults  \* the snapshot cannot be written
           /\ spoilt' = spoilt + 1
           /\ UNCHANGED <<position, exits>>
     /\ UNCHANGED <<feed, account, cycle, polled, cache>>

-------------------------------------------------------------------------------
(* Time. *)

Aged(value) == IF Held(value) THEN [value EXCEPT !.read = Older(@), !.stamp = Older(@)] ELSE value

\* One unit later. A price that has been got keeps the age it had when it was served.
CallLater(call) ==
  IF call.at \in {"idle", "got"} THEN call ELSE [call EXCEPT !.spent = @ + 1, !.value = Aged(@)]

CycleLater == [cycle EXCEPT !.spent = IF Cycling THEN @ + 1 ELSE 0]

PositionLater == [position EXCEPT
  !.age = IF position.status = "open" /\ @ + 1 \in PositionAges THEN @ + 1 ELSE @]

\* The ticker of the poll fires at every unit and keeps one tick for a poll that is
\* behind, a call is over before MaxCall is, and the poll goes on at once with what it
\* got and with the next position.
PassTime ==
  /\ asked[Poll].at # "got"
  /\ Cycling => asked[Poll].at # "idle"
  /\ position.status = "open" => polled \/ asked[Poll].at # "idle"
  /\ \A c \in Askers : asked[c].at \in {"idle", "got"} \/ asked[c].spent < MaxCall
  /\ polled' = FALSE
  /\ cycle' = CycleLater
  /\ cache' = Aged(cache)
  /\ asked' = [c \in Askers |-> CallLater(asked[c])]
  /\ position' = PositionLater
  /\ UNCHANGED <<feed, account, exits, spoilt>>

CallFor(c) == Ask(c) \/ Resolve(c) \/ ReadAccount(c) \/ StoreCache(c) \/ AskDEXScreener(c) \/ Use(c)

Cycle == BeginCycle \/ BeginOther \/ EndOther \/ PollExit

PricingNext == PassTime \/ Cycle \/ \E c \in Askers : CallFor(c)

PricingSpec == PricingInit /\ [][PricingNext]_pricingVars

-------------------------------------------------------------------------------
(* Properties. *)

\* A price from the chain that is served was read no longer ago than the stale window
\* and the longest call (cachedStale, storeCache, Get): calls that overlap, stamps
\* that are younger than their values and stale answers do not add up to more.
ServedPriceIsRecent ==
  \A c \in Askers :
    asked[c].at = "got" /\ asked[c].value.as # "none" => asked[c].value.read <= StaleMax + MaxCall

\* A position is closed within two cycles of its maximal time, the one under way and
\* the one after it, and one more for every list and every snapshot that was lost: also
\* when there is no price, or only one that is stale, and wherever it stands in the
\* list. A cycle takes a call for each position listed, and as the list keeps those
\* that were closed the bound grows with every position ever opened. It is about the
\* shipped exits, which sell everything at the first step (PollExitWithVolume, pollOnce).
ClosesInTime ==
  position.status = "open" /\ position.age >= MaxHold + (2 + spoilt) * MaxCycle => exits # {}
=============================================================================
