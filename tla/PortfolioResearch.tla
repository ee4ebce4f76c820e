-------------------------- MODULE PortfolioResearch -------------------------
(***************************************************************************)
(* trader/risk/PortfolioRiskManager.hpp and the loop of                    *)
(* PortfolioResearchRunner::run (research/PortfolioResearch.hpp) that      *)
(* sends the candidate trades of all assets, sorted by entry time, through *)
(* it.  Candidates are known with their exit and profit; times are small   *)
(* integers, amounts even integers, limits percentages and size            *)
(* multipliers counted in halves.  A trade keeps its place among the       *)
(* accepted ones when it is closed.                                        *)
(***************************************************************************)
EXTENDS Integers, Sequences, FiniteSetsExt

CONSTANTS Symbols,
          StartingEquity, Notionals, Profits,
          MaxGross, MaxAsset, MaxCorrelated, MaxDrawdown,   \* percent
          MaxLosses, MaxTradesPerHour, Hour, Day,
          Correlated,     \* symbols at or above the correlation threshold
          Target, Volatility,
          MinMultiplier, MaxMultiplier,                     \* halves
          MaxTime, MaxCandidates                            \* bounds

ASSUME PortfolioAssumption ==
  /\ StartingEquity \in Nat \ {0} /\ Notionals \subseteq Nat \ {0} /\ Profits \subseteq Int
  /\ MaxGross \in Nat /\ MaxAsset \in Nat /\ MaxCorrelated \in Nat
  /\ Correlated \in [Symbols -> SUBSET Symbols]
  /\ Target \in Nat /\ Volatility \in [Symbols -> Nat]
  /\ MaxMultiplier \in Nat /\ MaxMultiplier >= 2 /\ MinMultiplier \in 1 .. MaxMultiplier
  /\ MaxTime \in Nat /\ Hour \in Nat /\ Day \in Nat \ {0}

VARIABLES
  now,         \* entry time of the latest candidate
  equity, losses,
  open,        \* accepted trades in entry order, Closed once they are
  tradeTimes,  \* trade_times
  accepted, rejected,
  finished,
  entries,     \* history: entry times of all accepted trades
  dayStart     \* history: equity when the day of the latest candidate began

vars == <<now, equity, losses, open, tradeTimes, accepted, rejected, finished, entries, dayStart>>

Init ==
  /\ now = 0 /\ equity = StartingEquity /\ losses = 0
  /\ open = <<>> /\ tradeTimes = <<>>
  /\ accepted = 0 /\ rejected = 0 /\ finished = FALSE
  /\ entries = <<>> /\ dayStart = StartingEquity

Closed == [symbol |-> "closed"]
Places(q) == {i \in DOMAIN q : q[i] # Closed}

\* The sum of a sequence, as a recursive function of how much of it is added.
Sum(q) ==
  LET upTo[i \in 0 .. Len(q)] == IF i = 0 THEN 0 ELSE upTo[i - 1] + q[i] IN upTo[Len(q)]

Notional(q, symbols) ==
  [i \in DOMAIN q |-> IF i \in Places(q) /\ q[i].symbol \in symbols THEN q[i].notional ELSE 0]
Exposure(q, symbols) == Sum(Notional(q, symbols))

-----------------------------------------------------------------------------
(* close_until: in entry order, so the streak of losses is counted in it too *)

Due(at) == {i \in Places(open) : open[i].exit <= at}
Left(at) == [i \in DOMAIN open |-> IF i \in Due(at) THEN Closed ELSE open[i]]
EquityAt(at) == equity + Sum([i \in DOMAIN open |-> IF i \in Due(at) THEN open[i].profit ELSE 0])

\* Losses since the last one of the closed trades that was not a loss.
Winners(at) == {i \in Due(at) : open[i].profit >= 0}
Streak(at) == {i \in Due(at) : \A w \in Winners(at) : w < i}

LossesAt(at) == Cardinality(Streak(at)) + IF Winners(at) = {} THEN losses ELSE 0

-----------------------------------------------------------------------------
(* PortfolioRiskManager::approve *)

Drawdown(from, e) == Max({0, from - e}) * 100 >= MaxDrawdown * from

\* The drawdown is that of day_start, which run() never moves.
LimitReached(e, n) == Drawdown(StartingEquity, e) \/ n >= MaxLosses

RateReached(at) == Len(SelectSeq(tradeTimes, LAMBDA t : t >= at - Hour)) >= MaxTradesPerHour

Within(limit, exposure, e) == exposure * 100 <= limit * e

\* The limits are applied to the notional before it is sized.
Affordable(symbol, notional, positions, e) ==
  /\ Within(MaxGross, Exposure(positions, Symbols) + notional, e)
  /\ Within(MaxAsset, Exposure(positions, {symbol}) + notional, e)
  /\ Within(MaxCorrelated, Exposure(positions, Correlated[symbol]) + notional, e)

Approves(symbol, notional, at) ==
  /\ EquityAt(at) > 0 /\ notional > 0
  /\ ~LimitReached(EquityAt(at), LossesAt(at))
  /\ ~RateReached(at)
  /\ Affordable(symbol, notional, Left(at), EquityAt(at))

\* Volatility targeting, clamped.
Wanted(symbol) ==
  IF Volatility[symbol] = 0 \/ Target = 0 THEN 2 ELSE (2 * Target) \div Volatility[symbol]
Multiplier(symbol) == Max({MinMultiplier, Min({MaxMultiplier, Wanted(symbol)})})

Sized(amount, symbol) == (amount * Multiplier(symbol)) \div 2

-----------------------------------------------------------------------------
(* The loop of run() *)

\* Mutant: a trade exactly an hour old is forgotten.
Recent_Early(at) == SelectSeq(tradeTimes, LAMBDA t : t > at - Hour)

\* trade_times without what is older than an hour
Recent(at) == SelectSeq(tradeTimes, LAMBDA t : t >= at - Hour)

Accept(symbol, entry, exit, notional, profit) ==
  /\ Approves(symbol, notional, entry)
  /\ open' = Append(Left(entry), [symbol |-> symbol, exit |-> exit, notional |-> Sized(notional, symbol),
                                  profit |-> Sized(profit, symbol)])
  /\ tradeTimes' = Append(Recent(entry), entry) /\ entries' = Append(entries, entry)
  /\ accepted' = accepted + 1 /\ UNCHANGED rejected

Reject(symbol, entry, notional) ==
  /\ ~Approves(symbol, notional, entry)
  /\ open' = Left(entry)
  /\ rejected' = rejected + 1 /\ UNCHANGED <<tradeTimes, entries, accepted>>

Candidate(symbol, entry, exit, notional, profit) ==
  /\ ~finished /\ accepted + rejected < MaxCandidates
  /\ Accept(symbol, entry, exit, notional, profit) \/ Reject(symbol, entry, notional)
  /\ now' = entry
  /\ dayStart' = IF entry \div Day = now \div Day THEN dayStart ELSE EquityAt((entry \div Day) * Day - 1)
  /\ equity' = EquityAt(entry) /\ losses' = LossesAt(entry)
  /\ UNCHANGED finished

\* After the last candidate everything is closed.
Finish ==
  /\ ~finished /\ finished' = TRUE
  /\ equity' = EquityAt(MaxTime + 1) /\ losses' = LossesAt(MaxTime + 1) /\ open' = <<>>
  /\ UNCHANGED <<now, tradeTimes, accepted, rejected, entries, dayStart>>

Next ==
  \/ \E symbol \in Symbols, entry \in now .. MaxTime, notional \in Notionals, profit \in Profits :
       \E exit \in entry .. MaxTime + 1 : Candidate(symbol, entry, exit, notional, profit)
  \/ Finish

Spec == Init /\ [][Next]_vars

-----------------------------------------------------------------------------
(* However candidates are accepted and turned down and the times of past trades *)
(* dropped, no hour holds more accepted trades than the rate limit allows.      *)
RateIsLimited ==
  \A i \in DOMAIN entries :
    Cardinality({j \in DOMAIN entries : entries[j] \in entries[i] - Hour .. entries[i]}) <= MaxTradesPerHour

(* docs/STRATEGY_PORTFOLIO_RESEARCH.md:54: "The portfolio layer can enforce      *)
(* controls such as" gross, per-asset and correlated exposure and daily          *)
(* drawdown.  Both kinds hold for a trade that is accepted, so it is never past  *)
(* the limit on the loss of its day and past an exposure limit at once.          *)
ControlsAreEnforced ==
  [][accepted' # accepted =>
       LET s == open'[Len(open')].symbol
       IN  \/ ~Drawdown(dayStart', equity')
           \/ \A c \in {<<MaxGross, Symbols>>, <<MaxAsset, {s}>>, <<MaxCorrelated, Correlated[s]>>} :
                Within(c[1], Exposure(open', c[2]), equity')]_vars
=============================================================================
