------------------------------ MODULE Betting ------------------------------
(***************************************************************************)
(* Betting on one match of an event (lib/bet): its pools, the stakes, the  *)
(* settlements and the points ledger, beside the result they follow.       *)
(*                                                                         *)
(* An official write locks pools and marks the program dirty in its own    *)
(* transaction (trigger rivalhub_bet_official_outbox); a job or an         *)
(* administrator reconciles later, each time against the result as it is   *)
(* then.  Stakes, reconciliations and that trigger all hold the program    *)
(* row, so each is one action.  The markets are the winner of the match    *)
(* and the winner of each map of each plan.                                *)
(***************************************************************************)
EXTENDS MatchResults, Integers, Functions

CONSTANTS
    Accounts,   \* ids of accounts, which break ties of a remainder
    Initial,    \* the points an account starts with
    Wagers,     \* bound: who may back which side of the market of which map
    Operated,   \* bound: the maps whose markets an administrator touches
    MaxStakes   \* bound: stakes placed

ASSUME BettingAssumption ==
    /\ IsFiniteSet(Accounts) /\ Accounts \subseteq Nat
    /\ Initial \in Nat
    /\ Wagers \subseteq [account : Accounts, map : {0} \cup Orders, side : Sides]
    /\ Operated \subseteq {0} \cup Orders
    /\ MaxStakes \in Nat

VARIABLES
    published,  \* the rows of bet_markets
    locked,     \* those with lockedAt
    voided,     \* those with voidedAt
    stakes,     \* what each account has in each market, and on which side
    batch,      \* the latest bet_settlements row of each market
    ledger,     \* the settlement and reversal rows of bet_ledger
    dirty,      \* bet_programs.dirty
    placed      \* bound

betVars == <<published, locked, voided, stakes, batch, ledger, dirty, placed>>
vars == <<resultVars, betVars>>

MatchMarket == [map |-> 0, plan |-> 0]
MapMarket(k) == [map |-> k, plan |-> plan]
Markets == {MatchMarket} \cup [map : Orders, plan : 1..MaxPlans]
Nobody == "none"
NoStake == [side |-> Nobody, amount |-> 0]
Outcomes == [state : {"pending", "settled", "refunded"}, winner : Sides \cup {Nobody}, score : Scores]
NoOutcome == [state |-> "none", winner |-> Nobody, score |-> NoScore]
Rows == [account : Accounts, market : Markets, kind : {"settlement", "reversal"},
         revision : Nat, by : Nat, amount : Int]

BettingTypeOK ==
    /\ ResultsTypeOK
    /\ published \subseteq Markets
    /\ locked \subseteq published
    /\ voided \subseteq locked
    /\ \A m \in Markets, a \in Accounts :
          \/ stakes[m][a] = NoStake
          \/ stakes[m][a].side \in Sides /\ stakes[m][a].amount \in Nat \ {0}
    /\ \A m \in Markets :
          IF m \in published
          THEN batch[m].revision \in Nat \ {0} /\ batch[m].outcome \in Outcomes
          ELSE batch[m] = [revision |-> 0, outcome |-> NoOutcome]
    /\ ledger \subseteq Rows
    /\ dirty \in BOOLEAN
    /\ placed \in Nat

-----------------------------------------------------------------------------
(* What the official rows say of a market (domain.ts) *)

Played(k) == maps[k].started \/ Scored(k)

(* Variant: only the recorded start counts. *)
BegunOnRecord == gameplay

(* loadMatchFacts: a map that began or has a result proves that the match  *)
(* began, whether or not its own start was recorded.                       *)
Begun == gameplay \/ \E k \in Orders : Played(k)

(* The market is about a match and a map that still exist. *)
SubjectMatches(m) ==
    /\ status # "deleted"
    /\ m # MatchMarket => m = MapMarket(m.map) /\ maps[m.map].exists

MarketIsLocked(m, void) ==
    \/ m \in void \/ ~SubjectMatches(m)
    \/ Over \/ forfeit
    \/ m.map \in {0, 1} /\ Begun
    \/ m # MatchMarket /\ (SeriesFinished(maps) \/ Played(m.map))

Fact(state, winner, sc) == [state |-> state, winner |-> winner, score |-> sc]

ResolveBetFact(m, void) ==
    IF m \in void \/ ~SubjectMatches(m) \/ forfeit \/ status = "cancelled"
    THEN Fact("void", Nobody, NoScore)
    ELSE IF m = MatchMarket
    THEN IF status = "finished" THEN Fact("confirmed", SeriesWinner(score), score)
                                ELSE Fact("pending", Nobody, NoScore)
    ELSE IF Scored(m.map) THEN Fact("confirmed", maps[m.map].winner, NoScore)
    ELSE Fact(IF status = "finished" THEN "void" ELSE "pending", Nobody, NoScore)

-----------------------------------------------------------------------------
(* Pools (pool.ts) and the ledger *)

Amount(m, a) == stakes[m][a].amount
Stakers(m) == {a \in Accounts : stakes[m][a] # NoStake}

(* The positions of a market are pot == stakes[m]. *)
Backers(pot, s) == {a \in Accounts : pot[a].side = s}
Pool(pot, s) == SumFunction([a \in Backers(pot, s) |-> pot[a].amount])
Total(pot) == SumFunction([a \in Accounts |-> pot[a].amount])

SumRows(rows) == SumFunction([r \in rows |-> r.amount])

(* betBalance: the initial points, less the stakes, and what came back *)
Balance(a) ==
    Initial - SumFunction([m \in Markets |-> Amount(m, a)])
            + SumRows({r \in ledger : r.account = a})

(* The losing pool goes to the winners in proportion to their stakes; what *)
(* the division leaves goes to the largest remainders, a point each, the   *)
(* lower id first.                                                         *)
Due(pot, s, a) == pot[a].amount * (Total(pot) - Pool(pot, s))
Share(pot, s, a) == Due(pot, s, a) \div Pool(pot, s)
Remainder(pot, s, a) == Due(pot, s, a) % Pool(pot, s)
Leftover(pot, s) ==
    Total(pot) - Pool(pot, s) - SumFunction([a \in Backers(pot, s) |-> Share(pot, s, a)])
Rank(pot, s, a) ==
    Cardinality({b \in Backers(pot, s) :
        \/ Remainder(pot, s, b) > Remainder(pot, s, a)
        \/ Remainder(pot, s, b) = Remainder(pot, s, a) /\ b < a})

(* Variant: the remainder is not paid out. *)
NoBonus(pot, s, a) == 0

Bonus(pot, s, a) == IF Rank(pot, s, a) < Leftover(pot, s) THEN 1 ELSE 0

Payout(pot, outcome, a) ==
    IF outcome.state = "refunded" THEN pot[a].amount
    ELSE IF pot[a].side # outcome.winner THEN 0
    ELSE pot[a].amount + Share(pot, outcome.winner, a) + Bonus(pot, outcome.winner, a)

-----------------------------------------------------------------------------
(* Reconciliation (service.ts) *)

(* resolveMarketOptions, and the pool nobody won or everybody won *)
Outcome(m, void) ==
    LET fact == ResolveBetFact(m, void)
        state == CASE fact.state = "pending" -> "pending"
                   [] fact.state = "void" -> "refunded"
                   [] OTHER -> IF Pool(stakes[m], fact.winner) \in {0, Total(stakes[m])}
                               THEN "refunded" ELSE "settled"
    IN  [state |-> state, winner |-> fact.winner, score |-> fact.score]

(* publishMarkets; a pending veto appeal holds the markets of maps back. *)
Publishable(appeal) ==
    IF Over \/ forfeit THEN {}
    ELSE {m \in {MatchMarket} : ~Begun} \cup
         {MapMarket(k) : k \in {j \in Orders :
             /\ MaxMaps > 1
             /\ ~appeal
             /\ NextMap(j) /\ ~maps[j].started
             /\ ~(j = 1 /\ Begun)
             /\ ~SeriesFinished(maps)}}

(* Variant: what is settled is settled. *)
ChangedOnce(m, void) ==
    Outcome(m, void) # batch[m].outcome /\ batch[m].outcome.state # "settled"

Changed(m, void) == Outcome(m, void) # batch[m].outcome

(* The rows that revision by of a market writes. *)
Settlements(m, outcome, by) ==
    IF outcome.state = "pending" THEN {}
    ELSE {[account |-> a, market |-> m, kind |-> "settlement", revision |-> by, by |-> by,
           amount |-> Payout(stakes[m], outcome, a)] : a \in Stakers(m)}

(* Variant: every settlement so far is reversed, not only the latest. *)
SupersededEver(m) == {r \in ledger : r.market = m /\ r.kind = "settlement"}

Superseded(m) ==
    {r \in ledger : r.market = m /\ r.kind = "settlement" /\ r.revision = batch[m].revision}

Reversal(r, by) ==
    [account |-> r.account, market |-> r.market, kind |-> "reversal",
     revision |-> r.revision, by |-> by, amount |-> -r.amount]

NextRevision(m) == batch[m].revision + 1

(* What the next revision of each market that is due writes *)
Reversals(due) == UNION {{Reversal(r, NextRevision(m)) : r \in Superseded(m)} : m \in due}
Payments(due, void) ==
    UNION {Settlements(m, Outcome(m, void), NextRevision(m)) : m \in due}

(* reconcileBetInTx, after an administrator locked and voided what he did *)
Reconcile(appeal, lock, void) ==
    LET open == published \cup Publishable(appeal)
        due == {m \in open : Changed(m, void)}
    IN  /\ published' = open
        /\ locked' = lock \cup {m \in open : \/ MarketIsLocked(m, void)
                                             \/ ResolveBetFact(m, void).state # "pending"}
        /\ voided' = void \cup {m \in open : ResolveBetFact(m, void).state = "void"}
        /\ batch' = [m \in Markets |->
                        IF m \in due
                        THEN [revision |-> NextRevision(m), outcome |-> Outcome(m, void)]
                        ELSE batch[m]]
        /\ ledger' = ledger \cup Reversals(due) \cup Payments(due, void)
        /\ dirty' = FALSE
        /\ UNCHANGED <<stakes, placed>>

-----------------------------------------------------------------------------
(* The pools a write of the match's own rows locks (trigger, 0096) *)

Written(k) == maps'[k] # maps[k]

TriggerLocks(m) ==
    \/ Over' \/ forfeit'
    \/ gameplay' /\ m.map \in {0, 1}
    \/ \E k \in Orders : /\ Written(k) /\ Played(k)'
                         /\ m \in {MatchMarket, MapMarket(k)}
    \/ m # MatchMarket /\ SeriesFinished(maps') /\ \E k \in Orders : Written(k)

(* Variant: the tables of maps do not notify. *)
MarkedByMatch == dirty \/ status' # status \/ gameplay' # gameplay

(* Every official write marks the program. *)
Marked == TRUE

Official ==
    /\ ResultsNext
    /\ locked' = locked \cup {m \in published : TriggerLocks(m)}
    /\ dirty' = Marked
    /\ UNCHANGED <<published, voided, stakes, batch, ledger, placed>>

(* A row of the event that says nothing of this match: appeals, rosters *)
OfficialElsewhere ==
    /\ dirty' = TRUE
    /\ UNCHANGED <<resultVars, published, locked, voided, stakes, batch, ledger, placed>>

-----------------------------------------------------------------------------
(* Operations *)

(* The match was just created in an event whose betting is enabled; the    *)
(* job has yet to publish its markets.                                     *)
BettingInit ==
    /\ ResultsInit
    /\ published = {}
    /\ locked = {}
    /\ voided = {}
    /\ stakes = [m \in Markets |-> [a \in Accounts |-> NoStake]]
    /\ batch = [m \in Markets |-> [revision |-> 0, outcome |-> NoOutcome]]
    /\ ledger = {}
    /\ dirty = TRUE
    /\ placed = 0

(* Variant: all of nothing is a stake. *)
CanAffordNothing(a, n) == n <= Balance(a)

CanAfford(a, n) == n > 0 /\ n <= Balance(a)

Admits(m) ==
    /\ m \in published \ locked
    /\ ~MarketIsLocked(m, voided)
    /\ ResolveBetFact(m, voided).state = "pending"

(* stakeBetInTx: a point, or all; more only on the option already chosen *)
Stake(a, m, s) ==
    /\ placed < MaxStakes
    /\ Admits(m)
    /\ stakes[m][a].side \in {Nobody, s}
    /\ \E n \in {1, Balance(a)} :
          /\ CanAfford(a, n)
          /\ stakes' = [stakes EXCEPT ![m][a] = [side |-> s, amount |-> @.amount + n]]
    /\ placed' = placed + 1
    /\ UNCHANGED <<resultVars, published, locked, voided, batch, ledger, dirty>>

(* operateBetInTx *)
Close(m) ==
    /\ m \in published
    /\ \E appeal \in BOOLEAN : Reconcile(appeal, locked \cup {m}, voided)
    /\ UNCHANGED resultVars

Void(m) ==
    /\ m \in published \ voided
    /\ \E appeal \in BOOLEAN : Reconcile(appeal, locked \cup {m}, voided \cup {m})
    /\ UNCHANGED resultVars

(* runBetReconciliationJob, or an administrator's retry *)
Job ==
    /\ dirty
    /\ \E appeal \in BOOLEAN : Reconcile(appeal, locked, voided)
    /\ UNCHANGED resultVars

BettingNext ==
    \/ Official \/ OfficialElsewhere \/ Job
    \/ \E m \in {x \in Markets : x.map \in Operated} : Close(m) \/ Void(m)
    \/ \E w \in Wagers, m \in Markets : m.map = w.map /\ Stake(w.account, m, w.side)

BettingSpec == BettingInit /\ [][BettingNext]_vars

-----------------------------------------------------------------------------
(* Properties *)

(* Whatever is corrected and reconciled, and however often: a row of a     *)
(* settlement that was superseded is reversed once, by the settlement that *)
(* superseded it, the rows of the latest stand, and nothing else is        *)
(* reversed.                                                               *)
HistoryReversed ==
    \A r \in ledger :
        /\ r.by <= batch[r.market].revision
        /\ r.kind = "settlement" =>
              /\ r.by = r.revision
              /\ r.revision < batch[r.market].revision => Reversal(r, r.revision + 1) \in ledger
        /\ r.kind = "reversal" =>
              /\ r.by = r.revision + 1
              /\ \E q \in ledger : q.kind = "settlement" /\ r = Reversal(q, q.revision + 1)

(* After any number of corrections the rows of a market add up to its      *)
(* stakes to the point, remainders included, or to nothing while it waits; *)
(* who is refunded gets his stake and who wins does not lose.              *)
PotsReturned ==
    \A m \in published :
        LET rows == {r \in ledger : r.market = m}
            net(a) == SumRows({r \in rows : r.account = a})
            o == batch[m].outcome
        IN  /\ SumRows(rows) = IF o.state = "pending" THEN 0 ELSE Total(stakes[m])
            /\ o.state = "refunded" => \A a \in Accounts : net(a) = Amount(m, a)
            /\ o.state = "settled" =>
                  \A a \in Accounts : IF stakes[m][a].side = o.winner
                                      THEN net(a) >= Amount(m, a) ELSE net(a) = 0

(* A program that is not dirty owes nothing: once the match is over no     *)
(* stake waits, and every settlement follows the result as it now is.      *)
CleanMeansPaid ==
    ~dirty => \A m \in published :
        LET o == batch[m].outcome
        IN  /\ status \in {"finished", "cancelled", "deleted"} \/ forfeit => o.state # "pending"
            /\ o.state = "settled" =>
                  IF m = MatchMarket THEN status = "finished" /\ ~forfeit /\ score[o.winner]
                                          > score[OtherSide(o.winner)]
                  ELSE maps[m.map].winner = o.winner

(* No stake reaches a market once its map, its match or, for the maps, the *)
(* series is known to have begun or ended, however late the job is and     *)
(* however the start was (or was not) recorded.                            *)
StakesStopAtStart ==
    [][\A m \in Markets : stakes'[m] # stakes[m] =>
          /\ status \in {"scheduled", "in_progress"} /\ ~forfeit
          /\ m.map \in {0, 1} =>
                ~gameplay /\ \A k \in Orders : ~maps[k].started /\ maps[k].winner = Nobody
          /\ m.map # 0 =>
                /\ ~maps[m.map].started /\ maps[m.map].winner = Nobody
                /\ \A s \in Sides :
                      Cardinality({k \in Orders : maps[k].winner = s}) < MaxMaps \div 2 + 1]_vars
=============================================================================
