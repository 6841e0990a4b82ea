------------------------------ MODULE DataQuality ------------------------------
(***************************************************************************)
(* The quality rules of data/quality.py, as pure operators: those of the    *)
(* canonical datasets of one trade date (validate_canonical_datasets) and   *)
(* those of point-in-time daily bars (evaluate_daily_bar_quality).          *)
(*                                                                          *)
(* A dataset is a set of rows.  Rows that may be repeated carry the line    *)
(* they come from, so that two rows can agree in everything else.  Dates and *)
(* times are numbers.  A canonical bar says which of FieldKinds its prices  *)
(* are, and which its volume and amount; a point-in-time bar, whose missing *)
(* values are refused, has a flag "sound" for them all.                     *)
(***************************************************************************)
EXTENDS Integers, FiniteSets, FiniteSetsExt

CONSTANTS
  None,
  Unstamped   \* a time without a timezone, or none at all

-----------------------------------------------------------------------------
(* Canonical datasets: a record d of                                       *)
(*   bars       [line, date, symbol, close, prices, activity]              *)
(*   factors    [line, date, symbol, factor]                               *)
(*   calendar   [date, open]                                               *)
(*   membership [symbol, from, to]                                         *)
(*   status, limits [date, symbol]                                         *)

Key(row) == <<row.date, row.symbol>>

Repeats(rows) == \E r, q \in rows : r.line # q.line /\ Key(r) = Key(q)

(* Right, absent (NaN) where it is not right, contradictory, or no number at all. *)
FieldKinds == {"sound", "missing", "wrong", "text"}

(* _canonicalize_bundle: each dataset is a table, whose dates are dates; its lines *)
(* tell its rows apart.  Sound prices include the close.                           *)
Lined(rows) ==
  /\ IsFiniteSet(rows)
  /\ \A r, q \in rows : r.line = q.line /\ Key(r) = Key(q) => r = q

Canonical(d) ==
  /\ Lined(d.bars) /\ Lined(d.factors) /\ IsFiniteSet(d.membership)
  /\ {r.date : r \in d.bars} \cup {c.date : c \in d.calendar} \subseteq Nat
  /\ \A r \in d.bars :
       /\ {r.prices, r.activity} \subseteq FieldKinds
       /\ r.close \in Nat \/ (r.close = None /\ r.prices # "sound")

(* validate_daily_bar: no comparison of it holds of a missing value. *)
BarsValid(d) ==
  ~Repeats(d.bars) /\ \A r \in d.bars : {r.prices, r.activity} \subseteq {"sound", "missing"}

OpenDates(d) == {c.date : c \in {x \in d.calendar : x.open}}
EligibleDates(d, t) == {x \in OpenDates(d) : x <= t}
BarDates(d) == {r.date : r \in d.bars}

(* Mutant: bars that are newer than asked for will do. *)
Fresh_AtLeast(d, t) ==
  BarDates(d) # {} /\ EligibleDates(d, t) # {} /\ Max(BarDates(d)) >= Max(EligibleDates(d, t))

(* DATA_FRESHNESS: the last bar is of the last open date not after t, or there are *)
(* neither.                                                                        *)
Fresh(d, t) ==
  \/ BarDates(d) = {} /\ EligibleDates(d, t) = {}
  \/ /\ BarDates(d) # {} /\ EligibleDates(d, t) # {}
     /\ Max(BarDates(d)) = Max(EligibleDates(d, t))

(* MISSING_TRADING_DAYS and BAR_DATES_IN_CALENDAR. *)
NoDayMissing(d, t) == EligibleDates(d, t) \subseteq BarDates(d)
BarsOnOpenDates(d) == BarDates(d) \subseteq OpenDates(d)

(* ADJUST_FACTOR_AVAILABLE: the factors are those of the bars, once each, positive. *)
FactorsValid(d) ==
  /\ d.bars # {}
  /\ {Key(f) : f \in d.factors} = {Key(r) : r \in d.bars}
  /\ ~Repeats(d.factors)
  /\ \A f \in d.factors : f.factor > 0

Adjusted(d, r) == r.close * (CHOOSE f \in d.factors : Key(f) = Key(r)).factor

Closing(d) == {r \in d.bars : r.close # None}

(* Whether q is the next bar of r's symbol that has a close. *)
Follows(d, r, q) ==
  /\ q.symbol = r.symbol /\ q.date > r.date
  /\ ~\E x \in Closing(d) : x.symbol = r.symbol /\ r.date < x.date /\ x.date < q.date

(* ADJUSTED_PRICE_CONTINUITY: no adjusted close rises by 35 % or more (in doubles    *)
(* 135/100 - 1 > 0.35) or falls by more than 35 %.  pct_change gives a missing close *)
(* the one before it; without one before it there is nothing to compare.            *)
Continuous(d) ==
  /\ FactorsValid(d)
  /\ \A r, q \in Closing(d) :
       Follows(d, r, q) =>
         LET a == Adjusted(d, r)
             b == Adjusted(d, q)
         IN 100 * (b - a) < 35 * a /\ 100 * (a - b) <= 35 * a

(* What is no number is compared with one. *)
PricesRaise(d) == ~Repeats(d.bars) /\ \E r \in d.bars : r.prices = "text"
VolumesRaise(d) ==
  /\ ~Repeats(d.bars) /\ \A r \in d.bars : r.prices # "wrong"
  /\ \E r \in d.bars : r.activity = "text"

(* Bars that repeat a key are joined with the factors one to one. *)
JoinRaises(d) == FactorsValid(d) /\ Repeats(d.bars)

(* No rule of the payload is reported then. *)
RulesRaise(d) == PricesRaise(d) \/ VolumesRaise(d) \/ JoinRaises(d)

Active(d, t) == {m.symbol : m \in {x \in d.membership : x.from <= t /\ (x.to = None \/ t <= x.to)}}

(* At least 95 % of a universe that is not empty. *)
Covers(symbols, active) ==
  active # {} /\ 100 * Cardinality(symbols \cap active) >= 95 * Cardinality(active)

On(rows, t) == {r.symbol : r \in {x \in rows : x.date = t}}

(* No rule of severity ERROR fails: has_critical_failures is FALSE. *)
Valid(d, t) ==
  /\ BarsValid(d)
  /\ d.calendar # {}
  /\ Fresh(d, t)
  /\ NoDayMissing(d, t)
  /\ BarsOnOpenDates(d)
  /\ FactorsValid(d)
  /\ Continuous(d)
  /\ Covers(On(d.bars, t), Active(d, t))
  /\ Covers(On(d.status, t), Active(d, t))
  /\ Covers(On(d.limits, t), Active(d, t))

-----------------------------------------------------------------------------
(* Point-in-time bars: rows [line, date, symbol, open, close, available, sound]. *)

(* Mutant: what was traded by then, whenever it became known. *)
Visible_Traded(rows, asOf) == {r \in rows : r.date <= asOf}

(* The rows that were known at a time. *)
Visible(rows, asOf) == {r \in rows : r.available <= asOf}

(* What stops a snapshot: a row of the source that tells no proper time, and, among *)
(* the visible rows, none at all, an unsound one, or two of one key.               *)
Blocked(rows, asOf) ==
  \/ \E r \in rows : r.available = Unstamped
  \/ Visible(rows, asOf) = {}
  \/ \E r \in Visible(rows, asOf) : ~r.sound
  \/ Repeats(Visible(rows, asOf))
=============================================================================
