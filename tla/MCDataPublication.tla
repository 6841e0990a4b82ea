--------------------------- MODULE MCDataPublication ---------------------------
(***************************************************************************)
(* An instance of DataPublication for TLC.                                  *)
(***************************************************************************)
EXTENDS DataPublication, TLC

(* Canonical datasets for the trade date 3.  Days 1, 3 and 4 are trading days. *)
OpenDays == {1, 3, 4}
Calendar(open) == {[date |-> t, open |-> t \in open] : t \in 1..4}

Bar(line, t, s, close) ==
  [line |-> line, date |-> t, symbol |-> s, close |-> close,
   prices |-> "sound", activity |-> "sound"]
Factor(line, t, s, factor) == [line |-> line, date |-> t, symbol |-> s, factor |-> factor]
Member(s, from, to) == [symbol |-> s, from |-> from, to |-> to]

(* a's price halves on day 3 by a split, which its factor makes up for. *)
Close(s, t) == IF s = "a" /\ t >= 3 THEN 50 ELSE 100
SplitFactor(s, t) == IF s = "a" /\ t >= 3 THEN 2 ELSE 1

Factors(days) == {Factor(1, t, s, SplitFactor(s, t)) : t \in days, s \in {"a", "b"}}

Good ==
  [bars |-> {Bar(1, t, s, Close(s, t)) : t \in {1, 3}, s \in {"a", "b"}},
   factors |-> Factors({1, 3}), calendar |-> Calendar(OpenDays),
   membership |-> {Member("a", 1, None), Member("b", 1, 3)},
   status |-> {[date |-> 3, symbol |-> s] : s \in {"a", "b"}},
   limits |-> {[date |-> 3, symbol |-> s] : s \in {"a", "b"}}]

(* A payload's name says how it differs from the good one: in its days, the calendar, *)
(* the universe and the limits; *)
DayPayloads ==
  [days: {{}, {1}, {3}, {1, 3}, {1, 2, 3}, {1, 3, 4}}, open: {{}, {1, 3}, {1, 4}, OpenDays},
   members: 1..4, listed: {{"a"}, {"a", "b"}}]

Members ==
  <<{}, Good.membership,
    {Member("a", 1, 2), Member("b", 1, None), Member("b", 2, None)},
    {Member("a", 1, None), Member("c", 4, None), Member("d", 3, 3)}>>

DayDatasets(d) ==
  [Good EXCEPT !.bars = {Bar(1, t, s, Close(s, t)) : t \in d.days, s \in {"a", "b"}},
               !.factors = Factors(d.days), !.calendar = Calendar(d.open),
               !.membership = Members[d.members],
               !.limits = {[date |-> 3, symbol |-> s] : s \in d.listed}]

(* in its bars and factors; *)
RowPayloads == [bars: 1..11, factors: 1..6]

(* b's bar of one day has another close, or tells its prices or its volume so. *)
CloseOfB(t, close, worth) ==
  {[r EXCEPT !.close = IF Key(r) = <<t, "b">> THEN close ELSE @,
             !.prices = IF Key(r) = <<t, "b">> THEN worth ELSE @] : r \in Good.bars}

VolumeOfB(t, worth) ==
  {[r EXCEPT !.activity = IF Key(r) = <<t, "b">> THEN worth ELSE @] : r \in Good.bars}

RowDatasets(d) ==
  [Good EXCEPT
     !.bars = <<@, @ \cup {Bar(2, 3, "a", 50)}, CloseOfB(3, 100, "wrong"),
                CloseOfB(3, None, "missing"), CloseOfB(1, None, "missing"),
                CloseOfB(3, None, "text"), VolumeOfB(3, "text"), VolumeOfB(3, "missing"),
                CloseOfB(3, 134, "sound"), CloseOfB(3, 135, "sound"),
                CloseOfB(3, 64, "sound")>>[d.bars],
     !.factors = <<@, @ \ {Factor(1, 1, "b", 1)}, @ \cup {Factor(2, 1, "b", 1)},
                   @ \cup {Factor(1, 2, "b", 1)},
                   {[f EXCEPT !.factor = IF f.symbol = "a" /\ f.date = 1 THEN 0 ELSE @] : f \in @},
                   {[f EXCEPT !.factor = 1] : f \in @}>>[d.factors]]

(* or in that n of a universe of twenty have a bar of the day. *)
WidePayloads == [wide: {18, 19}]

WideDatasets(d) ==
  [bars |-> {Bar(1, 3, s, 100) : s \in 1..d.wide},
   factors |-> {Factor(1, 3, s, 1) : s \in 1..d.wide},
   calendar |-> Calendar({3}), membership |-> {Member(s, 1, None) : s \in 1..20},
   status |-> {[date |-> 3, symbol |-> s] : s \in 1..20},
   limits |-> {[date |-> 3, symbol |-> s] : s \in 1..20}]

MCContent ==
  [d \in DayPayloads |-> DayDatasets(d)] @@ [d \in RowPayloads |-> RowDatasets(d)]
    @@ [d \in WidePayloads |-> WideDatasets(d)]
MCPayloads == DOMAIN MCContent

GoodPayload == [bars |-> 1, factors |-> 1]
RaisingPayload == [bars |-> 2, factors |-> 1]
MCRestatements == {GoodPayload, RaisingPayload}

(* One payload of each outcome. *)
FewPayloads == MCRestatements \cup {[bars |-> 3, factors |-> 1]}
FewContent == [d \in FewPayloads |-> MCContent[d]]

-----------------------------------------------------------------------------
(* Daily bars of three symbols; one of them, or the correction of another, may become known late. *)
Opens == [s \in 1..3 |-> <<10, 20, 25>>[s]]
Closes == [s \in 1..3 |-> <<<<11, 12, 10, 13, 12, 11>>, <<21, 19, 22, 20, 23, 21>>,
                            <<25, 26, 26, 27, 25, 28>>>>[s]]
Volumes == [s \in 1..3 |-> <<<<5, 6, 5, 9, 4, 5>>, <<3, 3, 8, 2, 3, 4>>,
                             <<1, 2, 1, 4, 2, 2>>>>[s]]

DailyRow(line, s, t, available) ==
  [line |-> line, date |-> t, symbol |-> s, open |-> Opens[s], close |-> Closes[s][t],
   volume |-> Volumes[s][t], available |-> available, sound |-> TRUE]

PlainFeed == {DailyRow(1, s, t, t) : s \in 1..3, t \in 1..6}
Correction == DailyRow(2, 1, 2, 6)

MCFeeds ==
  {PlainFeed,
   PlainFeed \cup {Correction},
   {[r EXCEPT !.available = IF r.symbol = 2 /\ r.date = 4 THEN 7 ELSE @] : r \in PlainFeed},
   {r \in PlainFeed : r.symbol # 3},
   {[r EXCEPT !.sound = r.date # 5] : r \in PlainFeed},
   PlainFeed \cup {[Correction EXCEPT !.available = Unstamped]}}

MCCaptures ==
  {[account |-> "acc", provider |-> "mock", healthOf |-> of, healthy |-> healthy] :
     of \in {"mock", "other"}, healthy \in BOOLEAN}
=============================================================================
