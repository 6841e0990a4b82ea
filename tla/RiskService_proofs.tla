-------------------------- MODULE RiskService_proofs --------------------------
(***************************************************************************)
(* Machine-checked proofs about RiskService and the state files below it,   *)
(* for any switches, approvals, commands, processes, requests and faults.   *)
(***************************************************************************)
EXTENDS RiskService, SumTheorems

-----------------------------------------------------------------------------
(* The engine, for every portfolio, context, policy and quantum: what it approves *)
(* can be traded, keeps to the limits, is approved again as it is, and is refused *)
(* only when there is nothing to approve.                                        *)

LEMMA TotalIsSigma ==
  ASSUME NEW f, NEW S
  PROVE  Total(f, S) = Sigma(f, S)
BY DEF Total, Sigma

(* Weights and floors of a finite set of instruments, the floors below. *)
AboveFloors(weights, floors, all) ==
  /\ IsFiniteSet(all)
  /\ weights = [i \in all |-> weights[i]]
  /\ \A i \in all : floors[i] \in Nat /\ weights[i] \in Nat /\ floors[i] <= weights[i]

-----------------------------------------------------------------------------
LEMMA TotalNat ==
  ASSUME NEW f, NEW S, IsFiniteSet(S), \A i \in S : f[i] \in Int
  PROVE  Total(f, S) \in Int
BY SigmaInt, TotalIsSigma

(* A share rounded down: never more than its part, nor than the whole. *)
LEMMA Share ==
  ASSUME NEW a \in Nat, NEW r \in Nat, NEW e \in Nat \ {0}, r <= e
  PROVE  /\ (a * r) \div e \in Nat
         /\ (a * r) \div e <= a
         /\ e * ((a * r) \div e) <= r * a
<1> DEFINE p == a * r
           q == p \div e
<1>1. p \in Nat /\ p <= a * e
  BY SMTT(30)
<1>2. q \in Int /\ e * q <= p /\ p < e * (q + 1)
  <2>1. p \in Int
    BY <1>1
  <2> HIDE DEF p
  <2>2. QED  BY <2>1, SMTT(30)
<1> HIDE DEF q
<1>3. q >= 0
  <2>1. ASSUME q < 0 PROVE FALSE
    <3>1. q + 1 <= 0 /\ e * (q + 1) <= 0
      BY <1>2, <2>1, SMTT(30)
    <3>2. QED  BY <1>1, <1>2, <3>1
  <2>2. QED  BY <1>2, <2>1
<1>4. q <= a
  <2>1. ASSUME q > a PROVE FALSE
    <3>1. q >= a + 1 /\ e * q >= e * (a + 1)
      BY <1>2, <2>1, SMTT(30)
    <3>2. e * (a + 1) = a * e + e
      BY SMTT(30)
    <3>3. QED  BY <1>1, <1>2, <3>1, <3>2
  <2>2. QED  BY <1>2, <2>1
<1>5. p = r * a
  BY SMTT(30)
<1>6. QED  BY <1>2, <1>3, <1>4, <1>5 DEF q

(* Scaling a group stays between the floors and the weights it starts from, *)
(* leaves the others alone, and meets the limit.                            *)
LEMMA ScaledMeets ==
  ASSUME NEW weights, NEW floors, NEW all, AboveFloors(weights, floors, all),
         NEW group \in SUBSET all, NEW limit \in Int,
         ~Infeasible(weights, floors, group, limit)
  PROVE  LET s == Scaled(weights, floors, group, limit) IN
         /\ s = [i \in all |-> s[i]]
         /\ \A i \in all : s[i] \in Nat /\ floors[i] <= s[i] /\ s[i] <= weights[i]
         /\ \A i \in all \ group : s[i] = weights[i]
         /\ Total(s, group) <= limit
<1> DEFINE s == Scaled(weights, floors, group, limit)
           low == Total(floors, group)
           sum == Total(weights, group)
<1>0. IsFiniteSet(group) /\ low \in Int /\ sum \in Int
  BY FS_Subset, TotalNat DEF AboveFloors
<1>1. CASE sum <= limit
  BY <1>1 DEF Scaled, AboveFloors
<1>2. CASE sum > limit
  <2> DEFINE room == limit - low
             excess == sum - low
             part == [i \in all |-> ((weights[i] - floors[i]) * room) \div excess]
             gap == [i \in all |-> weights[i] - floors[i]]
  <2>1. room \in Nat /\ excess \in Nat \ {0} /\ room <= excess
    BY <1>0, <1>2 DEF Infeasible
  <2>2. s = [i \in all |-> IF i \in group THEN floors[i] + part[i] ELSE weights[i]]
    <3>1. DOMAIN weights = all
      BY DEF AboveFloors
    <3>2. ~(sum <= limit)
      BY <1>0, <1>2
    <3>3. s = [i \in DOMAIN weights |->
                 IF i \in group
                 THEN floors[i] + ((weights[i] - floors[i]) * room) \div excess
                 ELSE weights[i]]
      BY <3>2 DEF Scaled
    <3>4. QED  BY <3>1, <3>3
  <2>3. ASSUME NEW i \in all
        PROVE  /\ floors[i] \in Nat /\ weights[i] \in Nat
               /\ gap[i] \in Nat /\ weights[i] = floors[i] + gap[i]
    BY DEF AboveFloors
  <2>4. ASSUME NEW i \in all
        PROVE  /\ part[i] \in Nat /\ part[i] <= gap[i]
               /\ excess * part[i] <= room * gap[i]
    <3>1. part[i] = (gap[i] * room) \div excess
      OBVIOUS
    <3> HIDE DEF part, gap, room, excess
    <3>2. QED  BY <2>1, <2>3, <3>1, Share
  <2>5. \A i \in all : s[i] \in Nat /\ floors[i] <= s[i] /\ s[i] <= weights[i]
    <3> HIDE DEF part, gap, room, excess
    <3>1. QED  BY <2>2, <2>3, <2>4
  <2>6. Total(s, group) <= limit
    <3>1. Sigma(weights, group) = Sigma(floors, group) + Sigma(gap, group)
      <4>1. \A i \in group : /\ floors[i] \in Int /\ gap[i] \in Int
                             /\ weights[i] = floors[i] + gap[i]
        <5> HIDE DEF gap
        <5>1. QED  BY <2>3
      <4> HIDE DEF gap
      <4>2. QED  BY <4>1, <1>0, SigmaPlus
    <3>2. Sigma(s, group) = Sigma(floors, group) + Sigma(part, group)
      <4>1. \A i \in group : /\ floors[i] \in Int /\ part[i] \in Int
                             /\ s[i] = floors[i] + part[i]
        <5> HIDE DEF part, room, excess
        <5>1. QED  BY <2>2, <2>3, <2>4
      <4> HIDE DEF part, s
      <4>2. QED  BY <4>1, <1>0, SigmaPlus
    <3>3. Sigma(part, group) \in Int /\ Sigma(gap, group) \in Int
      <4>1. \A i \in group : part[i] \in Int /\ gap[i] \in Int
        <5> HIDE DEF part, gap, room, excess
        <5>1. QED  BY <2>3, <2>4
      <4> HIDE DEF part, gap
      <4>2. QED  BY <4>1, <1>0, SigmaInt
    <3>4. excess * Sigma(part, group) <= room * Sigma(gap, group)
      <4>1. \A i \in group : /\ part[i] \in Int /\ gap[i] \in Int
                             /\ excess * part[i] <= room * gap[i]
        <5> HIDE DEF part, gap, room, excess
        <5>1. QED  BY <2>3, <2>4
      <4>2. excess \in Int /\ room \in Int
        BY <2>1
      <4> HIDE DEF part, gap, room, excess
      <4>3. QED  BY <4>1, <4>2, <1>0, SigmaScale
    <3>5. Sigma(gap, group) = excess
      <4> HIDE DEF gap
      <4>1. QED  BY <1>0, <3>1, <3>3, TotalIsSigma
    <3>6. Sigma(part, group) <= room
      <4>1. ASSUME NEW P \in Int, NEW e \in Nat \ {0}, NEW r \in Nat, e * P <= r * e
            PROVE  P <= r
        <5>1. ASSUME P > r PROVE FALSE
          <6>1. e * P >= e * (r + 1) /\ e * (r + 1) = r * e + e
            BY <5>1, SMTT(30)
          <6>2. QED  BY <6>1, <4>1
        <5>2. QED  BY <5>1
      <4>2. excess * Sigma(part, group) <= room * excess
        <5> HIDE DEF part, gap, room, excess
        <5>1. QED  BY <3>4, <3>5
      <4> HIDE DEF part, room, excess
      <4>3. QED  BY <2>1, <3>3, <4>1, <4>2
    <3>7. QED
      <4> HIDE DEF part, s
      <4>1. QED  BY <1>0, <3>2, <3>3, <3>6, TotalIsSigma
  <2>7. QED
    <3> HIDE DEF part
    <3>1. s = [i \in all |-> s[i]] /\ \A i \in all \ group : s[i] = weights[i]
      BY <2>2
    <3>2. QED  BY <2>5, <2>6, <3>1
<1>3. QED  BY <1>0, <1>1, <1>2

-----------------------------------------------------------------------------
(* The steps of Allocate, named. *)
Floors(target, context) == [i \in Working(target, context) |-> Floor(context, i)]
Ceilings(target, context, reduceOnly) ==
  [i \in Working(target, context) |-> Ceiling(context, i, reduceOnly)]
Cut(target, context, reduceOnly) ==
  [i \in Working(target, context) |->
     Bounded(Requested(target, context)[i], Floors(target, context)[i],
             Ceilings(target, context, reduceOnly)[i])]
ByIndustry(target, context, reduceOnly) ==
  IndustryScaled(context, Cut(target, context, reduceOnly), Floors(target, context))
Final(target, context, reduceOnly) ==
  Scaled(ByIndustry(target, context, reduceOnly), Floors(target, context),
         Working(target, context), TotalLimit)

LEMMA AllocateIs ==
  ASSUME NEW target, NEW context, NEW reduceOnly
  PROVE  LET d == Allocate(target, context, reduceOnly)
             all == Working(target, context)
             floors == Floors(target, context)
             ceilings == Ceilings(target, context, reduceOnly)
             cut == Cut(target, context, reduceOnly)
             reduced == ByIndustry(target, context, reduceOnly)
             final == Final(target, context, reduceOnly)
         IN d = IF \E i \in all : floors[i] > ceilings[i]
                THEN Reject("INFEASIBLE_INSTRUMENT_BOUNDS")
                ELSE IF \E n \in Industries :
                          Infeasible(cut, floors, Peers(context, all, n), MaxIndustry)
                THEN Reject("INFEASIBLE_MAX_INDUSTRY_WEIGHT")
                ELSE IF Infeasible(reduced, floors, all, TotalLimit)
                THEN Reject("INFEASIBLE_MAX_TOTAL_WEIGHT")
                ELSE [decision |-> IF final = Requested(target, context)
                                   THEN "APPROVE" ELSE "ADJUST",
                      reason |-> "none", positions |-> final]
<1>1. DOMAIN Requested(target, context) = Working(target, context)
  BY DEF Requested
<1>2. QED
  BY <1>1 DEF Allocate, Floors, Ceilings, Cut, ByIndustry, Final

(* A request the models accept, whose instruments the market knows. *)
Usable(target, context) ==
  /\ TargetAccepted(target) /\ ContextAccepted(context)
  /\ Working(target, context) \subseteq DOMAIN context.market

LEMMA Amounts ==
  ASSUME NEW target, NEW context, Usable(target, context), NEW reduceOnly \in BOOLEAN,
         NEW i \in Working(target, context)
  PROVE  /\ IsFiniteSet(Working(target, context))
         /\ Held(context, i) \in Nat /\ Sellable(context, i) \in Nat
         /\ Sellable(context, i) <= Held(context, i)
         /\ Requested(target, context)[i] \in Nat
         /\ Floor(context, i) \in Nat
         /\ Ceiling(context, i, reduceOnly) \in Nat
         /\ context.market[i].industry \in Industries
         /\ context.market[i].liquidity \in Nat
<1>1. IsFiniteSet(Working(target, context))
  <2>1. Working(target, context) \subseteq Instruments
    BY DEF Usable, TargetAccepted, ContextAccepted, Working
  <2>2. QED  BY <2>1, PolicyAssumption, FS_Subset
<1>2. context.market[i] \in MarketState
  BY DEF Usable, ContextAccepted
<1>3. /\ Held(context, i) \in Nat /\ Sellable(context, i) \in Nat
      /\ Sellable(context, i) <= Held(context, i)
  BY PolicyAssumption DEF Held, Sellable, Usable, ContextAccepted, Position
<1>4. Requested(target, context)[i] \in Nat
  BY PolicyAssumption DEF Requested, Usable, TargetAccepted
<1>5. Floor(context, i) \in Nat
  BY <1>3 DEF Floor
<1>6. context.market[i].liquidity \in Nat /\ context.market[i].industry \in Industries
  BY <1>2, PolicyAssumption DEF MarketState
<1>7. Ceiling(context, i, reduceOnly) \in Nat
  BY <1>3, <1>6, PolicyAssumption DEF Ceiling
<1>8. QED  BY <1>1, <1>3, <1>4, <1>5, <1>6, <1>7

LEMMA LimitType == TotalLimit \in Nat /\ TotalLimit <= MaxTotal /\ TotalLimit + MinCash <= One
BY PolicyAssumption DEF TotalLimit

(* Bounding puts every weight between its floor and its ceiling. *)
LEMMA CutBetween ==
  ASSUME NEW target, NEW context, Usable(target, context), NEW reduceOnly \in BOOLEAN,
         \A i \in Working(target, context) :
           Floor(context, i) <= Ceiling(context, i, reduceOnly)
  PROVE  LET cut == Cut(target, context, reduceOnly)
             floors == Floors(target, context)
         IN /\ AboveFloors(cut, floors, Working(target, context))
            /\ \A i \in Working(target, context) : cut[i] <= Ceiling(context, i, reduceOnly)
<1> DEFINE all == Working(target, context)
           cut == Cut(target, context, reduceOnly)
           floors == Floors(target, context)
<1>1. IsFiniteSet(all)
  <2>1. all \subseteq Instruments
    BY DEF Usable, TargetAccepted, ContextAccepted, Working
  <2>2. QED  BY <2>1, PolicyAssumption, FS_Subset
<1>2. ASSUME NEW i \in all
      PROVE  /\ floors[i] = Floor(context, i)
             /\ cut[i] = Bounded(Requested(target, context)[i], Floor(context, i),
                                 Ceiling(context, i, reduceOnly))
  BY DEF Cut, Floors, Ceilings
<1>3. ASSUME NEW i \in all
      PROVE  /\ floors[i] \in Nat /\ cut[i] \in Nat /\ floors[i] <= cut[i]
             /\ cut[i] <= Ceiling(context, i, reduceOnly)
  <2>1. /\ Requested(target, context)[i] \in Nat /\ Floor(context, i) \in Nat
        /\ Ceiling(context, i, reduceOnly) \in Nat
    BY Amounts
  <2>2. QED  BY <1>2, <2>1 DEF Bounded
<1>4. cut = [i \in all |-> cut[i]]
  BY DEF Cut
<1>5. QED  BY <1>1, <1>3, <1>4 DEF AboveFloors

(* Scaling each industry on its own: every instrument is scaled with its peers, *)
(* so each industry meets its limit.                                            *)
LEMMA IndustryMeets ==
  ASSUME NEW context, NEW weights, NEW floors, NEW all, AboveFloors(weights, floors, all),
         \A i \in all : context.market[i].industry \in Industries,
         \A n \in Industries : ~Infeasible(weights, floors, Peers(context, all, n), MaxIndustry)
  PROVE  LET s == IndustryScaled(context, weights, floors) IN
         /\ AboveFloors(s, floors, all)
         /\ \A i \in all : s[i] <= weights[i]
         /\ \A n \in Industries : Total(s, Peers(context, all, n)) <= MaxIndustry
<1> DEFINE s == IndustryScaled(context, weights, floors)
           part(n) == Scaled(weights, floors, Peers(context, all, n), MaxIndustry)
<1>1. DOMAIN weights = all /\ IsFiniteSet(all)
  BY DEF AboveFloors
<1>2. s = [i \in all |-> part(context.market[i].industry)[i]]
  BY <1>1 DEF IndustryScaled
<1>3. ASSUME NEW n \in Industries
      PROVE  /\ \A i \in all : part(n)[i] \in Nat /\ floors[i] <= part(n)[i]
                                /\ part(n)[i] <= weights[i]
             /\ Total(part(n), Peers(context, all, n)) <= MaxIndustry
  <2>1. Peers(context, all, n) \in SUBSET all /\ MaxIndustry \in Int
    BY PolicyAssumption DEF Peers
  <2>2. ~Infeasible(weights, floors, Peers(context, all, n), MaxIndustry)
    OBVIOUS
  <2>3. QED  BY <2>1, <2>2, ScaledMeets
<1>4. ASSUME NEW i \in all
      PROVE  s[i] \in Nat /\ floors[i] <= s[i] /\ s[i] <= weights[i]
  <2> HIDE DEF part
  <2>1. QED  BY <1>2, <1>3
<1>5. ASSUME NEW n \in Industries
      PROVE  Total(s, Peers(context, all, n)) <= MaxIndustry
  <2> DEFINE peers == Peers(context, all, n)
  <2>1. IsFiniteSet(peers) /\ peers \subseteq all
    BY <1>1, FS_Subset DEF Peers
  <2>2. \A i \in peers : part(n)[i] \in Int /\ s[i] = part(n)[i]
    <3>1. ASSUME NEW i \in peers
          PROVE  part(n)[i] \in Int /\ s[i] = part(n)[i]
      <4>1. i \in all /\ context.market[i].industry = n
        BY DEF Peers
      <4> HIDE DEF part, s
      <4>2. QED  BY <4>1, <1>2, <1>3
    <3>2. QED  BY <3>1
  <2>3. Total(s, peers) = Total(part(n), peers)
    <3> HIDE DEF part, peers, s
    <3>1. QED  BY <2>1, <2>2, SigmaSame, TotalIsSigma
  <2>4. QED  BY <1>3, <2>3
<1>6. s = [i \in all |-> s[i]]
  <2> HIDE DEF part
  <2>1. QED  BY <1>2
<1>7. \A i \in all : floors[i] \in Nat
  BY DEF AboveFloors
<1>8. AboveFloors(s, floors, all)
  <2> HIDE DEF s
  <2>1. QED  BY <1>1, <1>4, <1>6, <1>7 DEF AboveFloors
<1>9. QED  BY <1>4, <1>5, <1>8

LEMMA RejectsNot == ASSUME NEW reason PROVE ~Lets(Reject(reason))
BY DEF Lets, Reject

(* What the engine lets through lies between the floors and the ceilings and *)
(* meets the limit of every industry and the one of the total.               *)
LEMMA AllocationMeets ==
  ASSUME NEW target, NEW context, Usable(target, context), NEW reduceOnly \in BOOLEAN,
         Lets(Allocate(target, context, reduceOnly))
  PROVE  LET p == Allocate(target, context, reduceOnly).positions
             all == Working(target, context)
         IN /\ p = [i \in all |-> p[i]]
            /\ \A i \in all : /\ p[i] \in Nat
                              /\ Floor(context, i) <= p[i]
                              /\ p[i] <= Ceiling(context, i, reduceOnly)
            /\ \A n \in Industries : Total(p, Peers(context, all, n)) <= MaxIndustry
            /\ Total(p, all) <= TotalLimit
<1> DEFINE all == Working(target, context)
           floors == Floors(target, context)
           cut == Cut(target, context, reduceOnly)
           reduced == ByIndustry(target, context, reduceOnly)
           final == Final(target, context, reduceOnly)
<1>1. /\ ~\E i \in all : floors[i] > Ceilings(target, context, reduceOnly)[i]
      /\ ~\E n \in Industries : Infeasible(cut, floors, Peers(context, all, n), MaxIndustry)
      /\ ~Infeasible(reduced, floors, all, TotalLimit)
      /\ Allocate(target, context, reduceOnly).positions = final
  BY AllocateIs, RejectsNot
<1>2. \A i \in all : Floor(context, i) <= Ceiling(context, i, reduceOnly)
  <2>1. ASSUME NEW i \in all
        PROVE  Floor(context, i) <= Ceiling(context, i, reduceOnly)
    <3>1. Floor(context, i) \in Nat /\ Ceiling(context, i, reduceOnly) \in Nat
      BY Amounts
    <3>2. ~(Floor(context, i) > Ceiling(context, i, reduceOnly))
      BY <1>1 DEF Floors, Ceilings
    <3>3. QED  BY <3>1, <3>2
  <2>2. QED  BY <2>1
<1>3. AboveFloors(cut, floors, all) /\ \A i \in all : cut[i] <= Ceiling(context, i, reduceOnly)
  BY <1>2, CutBetween
<1>4. \A i \in all : context.market[i].industry \in Industries
  BY Amounts
<1>5. /\ AboveFloors(reduced, floors, all)
      /\ \A i \in all : reduced[i] <= cut[i]
      /\ \A n \in Industries : Total(reduced, Peers(context, all, n)) <= MaxIndustry
  <2>1. reduced = IndustryScaled(context, cut, floors)
    BY DEF ByIndustry
  <2> HIDE DEF cut, floors, all, reduced
  <2>2. QED  BY <1>1, <1>3, <1>4, <2>1, IndustryMeets
<1>6. /\ final = [i \in all |-> final[i]]
      /\ \A i \in all : final[i] \in Nat /\ floors[i] <= final[i] /\ final[i] <= reduced[i]
      /\ Total(final, all) <= TotalLimit
  <2>1. final = Scaled(reduced, floors, all, TotalLimit) /\ TotalLimit \in Int
    BY LimitType DEF Final
  <2>2. all \in SUBSET all
    OBVIOUS
  <2> HIDE DEF floors, all, reduced, final
  <2>3. QED  BY <1>1, <1>5, <2>1, <2>2, ScaledMeets
<1>7. ASSUME NEW n \in Industries
      PROVE  Total(final, Peers(context, all, n)) <= MaxIndustry
  <2> DEFINE peers == Peers(context, all, n)
  <2>1. IsFiniteSet(peers) /\ peers \subseteq all
    BY <1>5, FS_Subset DEF Peers, AboveFloors
  <2>2. \A i \in peers : final[i] \in Int /\ reduced[i] \in Int /\ final[i] <= reduced[i]
    BY <1>5, <1>6, <2>1 DEF AboveFloors
  <2>3. Sigma(final, peers) <= Sigma(reduced, peers)
    <3> HIDE DEF peers, final, reduced
    <3>1. QED  BY <2>1, <2>2, SigmaLeq
  <2>4. Total(final, peers) \in Int /\ Total(reduced, peers) \in Int
    <3> HIDE DEF peers, final, reduced
    <3>1. QED  BY <2>1, <2>2, TotalNat
  <2>5. QED  BY <2>3, <2>4, <1>5, TotalIsSigma, PolicyAssumption
<1>8. ASSUME NEW i \in all
      PROVE  /\ final[i] \in Nat /\ Floor(context, i) <= final[i]
             /\ final[i] <= Ceiling(context, i, reduceOnly)
  <2>1. floors[i] = Floor(context, i)
    BY DEF Floors
  <2>2. cut[i] \in Nat /\ reduced[i] \in Nat /\ Ceiling(context, i, reduceOnly) \in Nat
    BY <1>3, <1>5, Amounts DEF AboveFloors
  <2> HIDE DEF final, reduced, cut, floors
  <2>3. QED  BY <1>3, <1>5, <1>6, <2>1, <2>2
<1>9. QED  BY <1>1, <1>6, <1>7, <1>8

(* Asked for what it let through, the engine has nothing left to change. *)
LEMMA AllocationIsStable ==
  ASSUME NEW target, NEW context, Usable(target, context), NEW reduceOnly \in BOOLEAN,
         Lets(Allocate(target, context, reduceOnly)),
         NEW again, again.weights = Allocate(target, context, reduceOnly).positions
  PROVE  /\ Working(again, context) = Working(target, context)
         /\ Allocate(again, context, reduceOnly) =
              [decision |-> "APPROVE", reason |-> "none",
               positions |-> Allocate(target, context, reduceOnly).positions]
<1> DEFINE all == Working(target, context)
           p == Allocate(target, context, reduceOnly).positions
           floors == Floors(target, context)
<1>1. /\ p = [i \in all |-> p[i]]
      /\ \A i \in all : /\ p[i] \in Nat
                        /\ Floor(context, i) <= p[i]
                        /\ p[i] <= Ceiling(context, i, reduceOnly)
      /\ \A n \in Industries : Total(p, Peers(context, all, n)) <= MaxIndustry
      /\ Total(p, all) <= TotalLimit
  BY AllocationMeets
<1>2. Working(again, context) = all
  <2>1. DOMAIN p = all
    BY <1>1
  <2>2. QED  BY <2>1 DEF Working
<1>3. Requested(again, context) = p
  <2>1. DOMAIN again.weights = all
    BY <1>1
  <2>2. Requested(again, context) = [i \in all |-> again.weights[i]]
    BY <1>2, <2>1 DEF Requested
  <2>3. QED  BY <1>1, <2>2
<1>4. Floors(again, context) = floors
  BY <1>2 DEF Floors
<1>5. \A i \in all : Floor(context, i) \in Nat /\ Ceiling(context, i, reduceOnly) \in Nat
  BY Amounts
<1>6. Cut(again, context, reduceOnly) = p
  <2>1. Cut(again, context, reduceOnly) =
          [i \in all |-> Bounded(p[i], Floor(context, i), Ceiling(context, i, reduceOnly))]
    BY <1>2, <1>3 DEF Cut, Floors, Ceilings
  <2>2. ASSUME NEW i \in all
        PROVE  Bounded(p[i], Floor(context, i), Ceiling(context, i, reduceOnly)) = p[i]
    BY <1>1, <1>5 DEF Bounded
  <2> HIDE DEF p, all
  <2>3. QED  BY <2>1, <2>2, <1>1
<1>7. IsFiniteSet(all)
  <2>1. all \subseteq Instruments
    BY DEF Usable, TargetAccepted, ContextAccepted, Working
  <2>2. QED  BY <2>1, PolicyAssumption, FS_Subset
<1>8. ASSUME NEW group \in SUBSET all, NEW limit \in Int, Total(p, group) <= limit
      PROVE  ~Infeasible(p, floors, group, limit) /\ Scaled(p, floors, group, limit) = p
  <2>1. Total(p, group) \in Int
    <3>1. IsFiniteSet(group) /\ \A i \in group : p[i] \in Int
      BY <1>1, <1>7, FS_Subset
    <3> HIDE DEF p
    <3>2. QED  BY <3>1, TotalNat
  <2>2. ~(Total(p, group) > limit)
    BY <2>1, <1>8
  <2>3. QED  BY <1>8, <2>2 DEF Infeasible, Scaled
<1>9. \A n \in Industries : /\ ~Infeasible(p, floors, Peers(context, all, n), MaxIndustry)
                            /\ Scaled(p, floors, Peers(context, all, n), MaxIndustry) = p
  <2>1. ASSUME NEW n \in Industries
        PROVE  Peers(context, all, n) \in SUBSET all /\ MaxIndustry \in Int
    BY PolicyAssumption DEF Peers
  <2>2. QED  BY <1>1, <1>8, <2>1
<1>10. ByIndustry(again, context, reduceOnly) = p
  <2>1. DOMAIN p = all
    BY <1>1
  <2>2. ByIndustry(again, context, reduceOnly) =
          [i \in all |-> Scaled(p, floors, Peers(context, all, context.market[i].industry),
                                MaxIndustry)[i]]
    BY <2>1, <1>4, <1>6 DEF ByIndustry, IndustryScaled
  <2>3. \A i \in all : context.market[i].industry \in Industries
    BY Amounts
  <2>4. \A i \in all :
          Scaled(p, floors, Peers(context, all, context.market[i].industry), MaxIndustry) = p
    BY <2>3, <1>9
  <2> HIDE DEF p, all
  <2>5. QED  BY <2>2, <2>4, <1>1
<1>11. ~Infeasible(p, floors, all, TotalLimit) /\ Scaled(p, floors, all, TotalLimit) = p
  <2>1. all \in SUBSET all /\ TotalLimit \in Int
    BY LimitType
  <2>2. QED  BY <1>1, <1>8, <2>1
<1>12. Final(again, context, reduceOnly) = p
  BY <1>2, <1>4, <1>10, <1>11 DEF Final
<1>13. ~\E i \in all : Floors(again, context)[i] > Ceilings(again, context, reduceOnly)[i]
  <2>1. ASSUME NEW i \in all
        PROVE  ~(Floors(again, context)[i] > Ceilings(again, context, reduceOnly)[i])
    <3>1. /\ Floors(again, context)[i] = Floor(context, i)
          /\ Ceilings(again, context, reduceOnly)[i] = Ceiling(context, i, reduceOnly)
      BY <1>2 DEF Floors, Ceilings
    <3>2. Floor(context, i) <= p[i] /\ p[i] <= Ceiling(context, i, reduceOnly) /\ p[i] \in Nat
      BY <1>1
    <3> HIDE DEF p
    <3>3. QED  BY <3>1, <3>2, <1>5
  <2>2. QED  BY <2>1
<1>14. QED
  <2> HIDE DEF p, all, floors
  <2>1. Allocate(again, context, reduceOnly) =
          [decision |-> "APPROVE", reason |-> "none", positions |-> p]
    BY <1>2, <1>3, <1>4, <1>6, <1>9, <1>10, <1>11, <1>12, <1>13, AllocateIs
  <2>2. QED  BY <2>1, <1>2 DEF p, all

(* As long as some portfolio lies between the floors and the ceilings and meets *)
(* the limits, the engine lets one through.                                     *)
LEMMA AllocationFinds ==
  ASSUME NEW target, NEW context, Usable(target, context), NEW reduceOnly \in BOOLEAN,
         NEW w,
         \A i \in Working(target, context) :
           /\ w[i] \in Nat
           /\ Floor(context, i) <= w[i] /\ w[i] <= Ceiling(context, i, reduceOnly),
         \A n \in Industries :
           Total(w, Peers(context, Working(target, context), n)) <= MaxIndustry,
         Total(w, Working(target, context)) <= TotalLimit
  PROVE  Lets(Allocate(target, context, reduceOnly))
<1> DEFINE all == Working(target, context)
           floors == Floors(target, context)
<1>1. IsFiniteSet(all)
  <2>1. all \subseteq Instruments
    BY DEF Usable, TargetAccepted, ContextAccepted, Working
  <2>2. QED  BY <2>1, PolicyAssumption, FS_Subset
<1>2. ASSUME NEW i \in all
      PROVE  /\ floors[i] = Floor(context, i) /\ floors[i] \in Nat
             /\ Ceilings(target, context, reduceOnly)[i] = Ceiling(context, i, reduceOnly)
             /\ Ceiling(context, i, reduceOnly) \in Nat
             /\ floors[i] <= w[i]
  BY Amounts DEF Floors, Ceilings
<1>3. ~\E i \in all : floors[i] > Ceilings(target, context, reduceOnly)[i]
  <2>1. ASSUME NEW i \in all
        PROVE  ~(floors[i] > Ceilings(target, context, reduceOnly)[i])
    <3>1. w[i] \in Nat /\ w[i] <= Ceiling(context, i, reduceOnly)
      OBVIOUS
    <3> HIDE DEF floors
    <3>2. QED  BY <3>1, <1>2
  <2>2. QED  BY <2>1
<1>4. ASSUME NEW weights, NEW group \in SUBSET all, NEW limit \in Int,
             Total(w, group) <= limit
      PROVE  ~Infeasible(weights, floors, group, limit)
  <2>1. IsFiniteSet(group) /\ \A i \in group : /\ floors[i] \in Int /\ w[i] \in Int
                                               /\ floors[i] <= w[i]
    <3> HIDE DEF floors
    <3>1. QED  BY <1>1, <1>2, FS_Subset
  <2>2. /\ Total(floors, group) <= Total(w, group)
        /\ Total(floors, group) \in Int /\ Total(w, group) \in Int
    <3> HIDE DEF floors
    <3>1. QED  BY <2>1, SigmaLeq, TotalNat, TotalIsSigma
  <2>3. ~(Total(floors, group) > limit)
    BY <2>2, <1>4
  <2>4. QED  BY <2>3 DEF Infeasible
<1>5. \A n \in Industries :
        ~Infeasible(Cut(target, context, reduceOnly), floors, Peers(context, all, n), MaxIndustry)
  <2>1. ASSUME NEW n \in Industries
        PROVE  Peers(context, all, n) \in SUBSET all /\ MaxIndustry \in Int
    BY PolicyAssumption DEF Peers
  <2>2. QED  BY <1>4, <2>1
<1>6. ~Infeasible(ByIndustry(target, context, reduceOnly), floors, all, TotalLimit)
  <2>1. all \in SUBSET all /\ TotalLimit \in Int
    BY LimitType
  <2>2. QED  BY <1>4, <2>1
<1>7. QED  BY <1>3, <1>5, <1>6, AllocateIs DEF Lets

-----------------------------------------------------------------------------
(* What the engine answers, whatever the controls are. *)

(* A decision that lets something through has passed every check. *)
LEMMA JudgePasses ==
  ASSUME NEW r \in Requests \cup {Asked}, NEW k, Lets(Judge(r, k))
  PROVE  /\ Usable(r.target, r.context)
         /\ InputRefusal(r.target, r.context) = "none"
         /\ ControlRefusal(r.target, r.context, k.switches, k.approvals, k.revoked) = "none"
         /\ Judge(r, k) = Allocate(r.target, r.context, ReduceOnly(r.context, k.switches))
         /\ ReduceOnly(r.context, k.switches) \in BOOLEAN
<1>1. Refusal(r.target, r.context, k.switches, k.approvals, k.revoked) = "none"
  BY RejectsNot DEF Judge, Evaluate
<1>2. /\ InputRefusal(r.target, r.context) = "none"
      /\ ControlRefusal(r.target, r.context, k.switches, k.approvals, k.revoked) = "none"
  BY <1>1 DEF Refusal
<1>3. Working(r.target, r.context) \subseteq DOMAIN r.context.market
  BY <1>2 DEF InputRefusal
<1>4. Usable(r.target, r.context)
  BY <1>3, ServiceAssumption DEF Usable
<1>5. Judge(r, k) = Allocate(r.target, r.context, ReduceOnly(r.context, k.switches))
  BY <1>1 DEF Judge, Evaluate
<1>6. ReduceOnly(r.context, k.switches) \in BOOLEAN
  BY DEF ReduceOnly
<1>7. QED  BY <1>2, <1>4, <1>5, <1>6

(* Between floor and ceiling is where an instrument can be traded to, under a *)
(* reduce-only switch as well.                                                 *)
LEMMA BetweenIsTradable ==
  ASSUME NEW target, NEW context, Usable(target, context), NEW reduceOnly \in BOOLEAN,
         NEW i \in Working(target, context), NEW w \in Nat
  PROVE  (Floor(context, i) <= w /\ w <= Ceiling(context, i, reduceOnly))
         <=> (Tradable(context, i, w) /\ (w > Held(context, i) => ~reduceOnly))
<1> DEFINE m == context.market[i]
           held == Held(context, i)
           sellable == Sellable(context, i)
<1>1. held \in Nat /\ sellable \in Nat /\ sellable <= held /\ m.liquidity \in Nat
  BY Amounts
<1>2. m \in MarketState
  BY DEF Usable, ContextAccepted
<1>3. MaxSingle \in Nat
  BY PolicyAssumption
<1>4. Floor(context, i) <= w
      <=> w >= held - sellable /\ (w < held => ~m.suspended /\ ~m.down)
  BY <1>1 DEF Floor
<1>5. w <= Ceiling(context, i, reduceOnly)
      <=> /\ w > held => ~m.suspended /\ ~m.up /\ (AllowST \/ ~m.st) /\ ~reduceOnly
          /\ w <= m.liquidity /\ w <= MaxSingle
  <2> DEFINE shut == (m.up \/ m.suspended \/ (m.st /\ ~AllowST) \/ reduceOnly)
             cap == IF m.liquidity <= MaxSingle THEN m.liquidity ELSE MaxSingle
  <2>1. Ceiling(context, i, reduceOnly) = IF shut /\ held <= cap THEN held ELSE cap
    BY DEF Ceiling
  <2>2. cap \in Nat /\ (w <= cap <=> w <= m.liquidity /\ w <= MaxSingle)
    BY <1>1, <1>3
  <2>3. shut <=> ~(~m.suspended /\ ~m.up /\ (AllowST \/ ~m.st) /\ ~reduceOnly)
    OBVIOUS
  <2> HIDE DEF shut, cap, held
  <2>4. w <= Ceiling(context, i, reduceOnly) <=> (w > held => ~shut) /\ w <= cap
    BY <2>1, <2>2, <1>1
  <2>5. QED  BY <2>2, <2>3, <2>4
<1> HIDE DEF m, held, sellable
<1>6. QED  BY <1>4, <1>5 DEF Tradable, m, held, sellable

LEMMA LimitsMeet ==
  ASSUME NEW target, NEW context, Usable(target, context),
         NEW w, w = [i \in Working(target, context) |-> w[i]],
         \A i \in Working(target, context) : w[i] \in Nat
  PROVE  WithinLimits(context, w)
         <=> /\ \A n \in Industries :
                  Total(w, Peers(context, Working(target, context), n)) <= MaxIndustry
             /\ Total(w, Working(target, context)) <= TotalLimit
<1> DEFINE all == Working(target, context)
<1>1. DOMAIN w = all /\ \A n : Peers(context, all, n) = {i \in all : context.market[i].industry = n}
  BY DEF Peers
<1>2. IsFiniteSet(all)
  <2>1. all \subseteq Instruments
    BY DEF Usable, TargetAccepted, ContextAccepted, Working
  <2>2. QED  BY <2>1, PolicyAssumption, FS_Subset
<1>3. Total(w, all) \in Int
  <2>1. \A i \in all : w[i] \in Int
    OBVIOUS
  <2> HIDE DEF all
  <2>2. QED  BY <1>2, <2>1, TotalNat
<1>4. Total(w, all) <= TotalLimit <=> Total(w, all) <= MaxTotal /\ Total(w, all) + MinCash <= One
  BY <1>3, PolicyAssumption DEF TotalLimit
<1> HIDE DEF all
<1>5. QED  BY <1>1, <1>4 DEF WithinLimits, all

LEMMA TradableAlways == TradableWithinLimits
<1> SUFFICES ASSUME NEW r \in Requests, Lets(Judge(r, Now))
             PROVE  LET d == Judge(r, Now) IN
                    /\ DOMAIN d.positions = Working(r.target, r.context)
                    /\ \A i \in DOMAIN d.positions : Tradable(r.context, i, d.positions[i])
                    /\ WithinLimits(r.context, d.positions)
  BY DEF TradableWithinLimits
<1> DEFINE p == Judge(r, Now).positions
           all == Working(r.target, r.context)
           reduceOnly == ReduceOnly(r.context, Now.switches)
<1>1. /\ Usable(r.target, r.context) /\ reduceOnly \in BOOLEAN
      /\ Judge(r, Now) = Allocate(r.target, r.context, reduceOnly)
  BY JudgePasses
<1>2. /\ p = [i \in all |-> p[i]]
      /\ \A i \in all : /\ p[i] \in Nat
                        /\ Floor(r.context, i) <= p[i]
                        /\ p[i] <= Ceiling(r.context, i, reduceOnly)
      /\ \A n \in Industries : Total(p, Peers(r.context, all, n)) <= MaxIndustry
      /\ Total(p, all) <= TotalLimit
  BY <1>1, AllocationMeets
<1>3. \A i \in all : Tradable(r.context, i, p[i])
  <2> HIDE DEF p, reduceOnly
  <2>1. QED  BY <1>1, <1>2, BetweenIsTradable
<1>4. WithinLimits(r.context, p)
  <2> HIDE DEF p, reduceOnly
  <2>1. QED  BY <1>1, <1>2, LimitsMeet
<1>5. DOMAIN p = all
  <2> HIDE DEF p
  <2>1. QED  BY <1>2
<1>6. QED  BY <1>3, <1>4, <1>5

(* What the engine approves can be traded and keeps to every limit: floors,      *)
(* ceilings, industries, total and cash, for every request, policy and quantum,  *)
(* however the shares were rounded.                                              *)
THEOREM TradableWithinLimitsHolds == Spec => []TradableWithinLimits
BY TradableAlways, PTL

LEMMA StableAlways == AdjustmentIsStable
<1> SUFFICES ASSUME NEW r \in Requests, Lets(Judge(r, Now))
             PROVE  LET d == Judge(r, Now)
                        again == Judge([r EXCEPT !.target.weights = d.positions], Now)
                    IN again.decision = "APPROVE" /\ again.positions = d.positions
  BY DEF AdjustmentIsStable
<1> DEFINE p == Judge(r, Now).positions
           reduceOnly == ReduceOnly(r.context, Now.switches)
           next == [r EXCEPT !.target.weights = p]
<1>1. /\ Usable(r.target, r.context) /\ reduceOnly \in BOOLEAN
      /\ InputRefusal(r.target, r.context) = "none"
      /\ ControlRefusal(r.target, r.context, Now.switches, Now.approvals, Now.revoked) = "none"
      /\ Judge(r, Now) = Allocate(r.target, r.context, reduceOnly)
  BY JudgePasses
<1>2. /\ next.context = r.context
      /\ next.target.weights = p
      /\ next.target.strategy = r.target.strategy /\ next.target.run = r.target.run
  <2>1. TargetAccepted(r.target) /\ r = [target |-> r.target, context |-> r.context]
    BY ServiceAssumption
  <2>2. r.target = [run |-> r.target.run, strategy |-> r.target.strategy,
                    weights |-> r.target.weights]
    BY <2>1 DEF TargetAccepted
  <2> HIDE DEF p
  <2>3. QED  BY <2>1, <2>2
<1>3. /\ Working(next.target, r.context) = Working(r.target, r.context)
      /\ Allocate(next.target, r.context, reduceOnly) =
           [decision |-> "APPROVE", reason |-> "none", positions |-> p]
  <2> HIDE DEF next, reduceOnly
  <2>1. QED  BY <1>1, <1>2, AllocationIsStable
<1>4. InputRefusal(next.target, r.context) = "none"
  <2> HIDE DEF next
  <2>1. QED  BY <1>1, <1>2, <1>3 DEF InputRefusal
<1>5. ControlRefusal(next.target, r.context, Now.switches, Now.approvals, Now.revoked) = "none"
  <2> HIDE DEF next
  <2>1. QED  BY <1>1, <1>2 DEF ControlRefusal, ApprovalRefusal
<1>6. Judge(next, Now) = Allocate(next.target, r.context, reduceOnly)
  <2> HIDE DEF next
  <2>1. QED  BY <1>2, <1>4, <1>5 DEF Judge, Evaluate, Refusal
<1>7. QED  BY <1>3, <1>6

(* Adjusting is done in one go: the engine approves what it approved.  Without   *)
(* this, a resubmitted portfolio could be cut again and again.                   *)
THEOREM AdjustmentIsStableHolds == Spec => []AdjustmentIsStable
BY StableAlways, PTL

(* A refusal for want of room is none of the checks before: every check passed. *)
LEMMA RefusedForRoom ==
  ASSUME NEW r \in Requests, NEW k,
         Judge(r, k).reason \in {"INFEASIBLE_INSTRUMENT_BOUNDS",
           "INFEASIBLE_MAX_INDUSTRY_WEIGHT", "INFEASIBLE_MAX_TOTAL_WEIGHT"}
  PROVE  /\ Usable(r.target, r.context)
         /\ ReduceOnly(r.context, k.switches) \in BOOLEAN
         /\ ~Lets(Allocate(r.target, r.context, ReduceOnly(r.context, k.switches)))
<1> DEFINE reduceOnly == ReduceOnly(r.context, k.switches)
           refusal == Refusal(r.target, r.context, k.switches, k.approvals, k.revoked)
<1>1. refusal = "none"
  <2>1. refusal \in {"none", "STRATEGY_CONTEXT_MISMATCH", "MISSING_INSTRUMENT_CONTEXT",
          "INDUSTRY_CONTEXT_MISMATCH", "ACCOUNT_STATE_INCONSISTENT", "SNAPSHOT_FROM_FUTURE",
          "STALE_DATA", "KILL_SWITCH_ACTIVE", "DAILY_LOSS_LIMIT", "DRAWDOWN_LIMIT",
          "APPROVAL_REQUIRED", "APPROVAL_SCOPE_MISMATCH", "APPROVAL_NOT_TRUSTED",
          "APPROVAL_FROM_FUTURE", "APPROVAL_EXPIRED"}
    BY DEF Refusal, InputRefusal, ControlRefusal, ApprovalRefusal
  <2>2. refusal # "none" => Judge(r, k).reason = refusal
    BY DEF Judge, Evaluate, Reject
  <2> HIDE DEF refusal
  <2>3. QED  BY <2>1, <2>2
<1>2. InputRefusal(r.target, r.context) = "none"
  BY <1>1 DEF Refusal
<1>3. Working(r.target, r.context) \subseteq DOMAIN r.context.market
  BY <1>2 DEF InputRefusal
<1>4. Usable(r.target, r.context)
  BY <1>3, ServiceAssumption DEF Usable
<1>5. Judge(r, k) = Allocate(r.target, r.context, reduceOnly)
  BY <1>1 DEF Judge, Evaluate
<1>6. ~Lets(Allocate(r.target, r.context, reduceOnly))
  <2>1. Allocate(r.target, r.context, reduceOnly).reason # "none"
    BY <1>5
  <2>2. QED  BY <2>1, AllocateIs, RejectsNot
<1>7. reduceOnly \in BOOLEAN
  BY DEF ReduceOnly
<1>8. QED  BY <1>4, <1>6, <1>7

LEMMA ImpossibleAlways == OnlyImpossibleRefused
<1> SUFFICES
      ASSUME NEW r \in Requests,
             Judge(r, Now).reason \in {"INFEASIBLE_INSTRUMENT_BOUNDS",
               "INFEASIBLE_MAX_INDUSTRY_WEIGHT", "INFEASIBLE_MAX_TOTAL_WEIGHT"},
             NEW W, NEW w \in [Working(r.target, r.context) -> W],
             \A i \in Working(r.target, r.context) :
               w[i] \in {v \in 0..One : /\ Tradable(r.context, i, v)
                                        /\ v > Held(r.context, i)
                                             => ~ReduceOnly(r.context, switches)},
             WithinLimits(r.context, w)
      PROVE  FALSE
  BY DEF OnlyImpossibleRefused
<1> DEFINE all == Working(r.target, r.context)
           reduceOnly == ReduceOnly(r.context, Now.switches)
<1>1. /\ Usable(r.target, r.context) /\ reduceOnly \in BOOLEAN
      /\ ~Lets(Allocate(r.target, r.context, reduceOnly))
  BY RefusedForRoom
<1>2. Now.switches = switches
  BY DEF Now
<1>3. ASSUME NEW i \in all
      PROVE  /\ w[i] \in Nat
             /\ Floor(r.context, i) <= w[i] /\ w[i] <= Ceiling(r.context, i, reduceOnly)
  <2>1. /\ w[i] \in Nat /\ Tradable(r.context, i, w[i])
        /\ w[i] > Held(r.context, i) => ~reduceOnly
    BY <1>2, PolicyAssumption
  <2> HIDE DEF reduceOnly
  <2>2. QED  BY <1>1, <2>1, BetweenIsTradable
<1>4. w = [i \in all |-> w[i]] /\ \A i \in all : w[i] \in Nat
  BY <1>3
<1>5. /\ \A n \in Industries : Total(w, Peers(r.context, all, n)) <= MaxIndustry
      /\ Total(w, all) <= TotalLimit
  BY <1>1, <1>4, LimitsMeet
<1>6. QED
  <2> HIDE DEF reduceOnly
  <2>1. QED  BY <1>1, <1>3, <1>5, AllocationFinds

(* The engine refuses a portfolio for want of room only when no portfolio at all *)
(* can be traded to within the limits: scaling above the floors loses none.      *)
THEOREM OnlyImpossibleRefusedHolds == Spec => []OnlyImpossibleRefused
BY ImpossibleAlways, PTL

-----------------------------------------------------------------------------
(* The state files and their writers. *)

Places == {"idle", "waiting", "locked", "loaded", "leaving"}

Inside(w) == pc[w] \in {"locked", "loaded", "leaving"}

FilesTyped ==
  /\ switches \in [SwitchIds -> SetRecords \cup {Absent}]
  /\ approvals \in [ApprovalIds -> Evidence \cup {Absent}]
  /\ revoked \subseteq {a \in ApprovalIds : approvals[a] # Absent}

WritersTyped ==
  /\ clock \in 0..MaxClock /\ faults \in 0..MaxFaults
  /\ lock \in [Files -> Writers \cup {Free, Orphan}]
  /\ pc \in [Writers -> Places]
  /\ call = [w \in Writers |-> call[w]]
  /\ seen = [w \in Writers |-> seen[w]]
  /\ \A w \in Writers : /\ call[w] \in Calls[w] \cup {None}
                        /\ pc[w] # "idle" => call[w] \in Calls[w]

(* A lock file belongs to the one writer that works on the file, *)
LocksHeld ==
  \A w \in Writers, f \in Files : lock[f] = w <=> Inside(w) /\ FileOf(call[w]) = f

(* so what the writer read and checked is still there. *)
ReadsCurrent ==
  \A w \in Writers : pc[w] = "loaded" =>
    seen[w] = Content(FileOf(call[w])) /\ Goes(call[w], seen[w])

StoreInv == FilesTyped /\ WritersTyped /\ LocksHeld /\ ReadsCurrent

LEMMA CallKinds ==
  ASSUME NEW w \in Writers, NEW c \in Calls[w]
  PROVE  /\ c \in SetCall \cup IssueCall \cup RevokeCall
         /\ FileOf(c) \in Files
         /\ c.op = "set" => c \in SetCall /\ c.record \in SetRecords
         /\ c.op = "issue" => c \in IssueCall /\ c.evidence.id \in ApprovalIds
         /\ c.op = "revoke" => c \in RevokeCall
         /\ c.op \in {"set", "issue", "revoke"}
<1>1. c \in SetCall \cup IssueCall \cup RevokeCall
  BY StoresAssumption
<1>2. c.op \in {"set", "issue", "revoke"} /\ FileOf(c) \in Files
  BY <1>1 DEF SetCall, IssueCall, RevokeCall, FileOf, Files
<1>3. /\ c.op = "set" => c \in SetCall
      /\ c.op = "issue" => c \in IssueCall
      /\ c.op = "revoke" => c \in RevokeCall
  BY <1>1 DEF SetCall, IssueCall, RevokeCall
<1>4. c.op = "set" => c.record \in SetRecords
  BY DEF SetRecords
<1>5. c.op = "issue" => c.evidence.id \in ApprovalIds
  BY <1>3, StoresAssumption DEF IssueCall
<1>6. QED  BY <1>1, <1>2, <1>3, <1>4, <1>5

LEMMA StoreInvInit == StoresInit => StoreInv
<1> SUFFICES ASSUME StoresInit PROVE StoreInv
  OBVIOUS
<1>1. FilesTyped
  BY DEF StoresInit, FilesTyped
<1>2. WritersTyped
  BY StoresAssumption DEF StoresInit, WritersTyped, Places
<1>3. LocksHeld
  BY StoresAssumption DEF StoresInit, LocksHeld, Inside
<1>4. ReadsCurrent
  BY DEF StoresInit, ReadsCurrent
<1>5. QED  BY <1>1, <1>2, <1>3, <1>4 DEF StoreInv

(* What a writer does besides storing: the files stay. *)
LEMMA FilesKept ==
  ASSUME StoreInv, UNCHANGED files
  PROVE  /\ FilesTyped'
         /\ \A f : Content(f)' = Content(f)
         /\ switches' = switches /\ approvals' = approvals /\ revoked' = revoked
BY DEF StoreInv, FilesTyped, files, Content

LEMMA RequestKeeps ==
  ASSUME StoreInv, NEW w \in Writers, Request(w)
  PROVE  StoreInv'
<1>1. PICK c \in Calls[w] : call' = [call EXCEPT ![w] = c]
  BY DEF Request
<1>2. /\ FilesTyped' /\ \A f : Content(f)' = Content(f)
  BY FilesKept DEF Request
<1>3. /\ pc[w] = "idle" /\ pc' = [pc EXCEPT ![w] = "waiting"]
      /\ clock' = clock /\ lock' = lock /\ seen' = seen /\ faults' = faults
  BY DEF Request
<1>4. WritersTyped'
  BY <1>1, <1>3 DEF StoreInv, WritersTyped, Places
<1>5. LocksHeld'
  BY <1>1, <1>3 DEF StoreInv, WritersTyped, LocksHeld, Inside
<1>6. ReadsCurrent'
  BY <1>1, <1>2, <1>3 DEF StoreInv, WritersTyped, ReadsCurrent
<1>7. QED  BY <1>2, <1>4, <1>5, <1>6 DEF StoreInv

LEMMA AcquireKeeps ==
  ASSUME StoreInv, NEW w \in Writers, Acquire(w)
  PROVE  StoreInv'
<1>2. /\ FilesTyped' /\ \A f : Content(f)' = Content(f)
  BY FilesKept DEF Acquire
<1>3. /\ pc[w] = "waiting" /\ pc' = [pc EXCEPT ![w] = "locked"]
      /\ lock[FileOf(call[w])] = Free /\ lock' = [lock EXCEPT ![FileOf(call[w])] = w]
      /\ clock' = clock /\ call' = call /\ seen' = seen /\ faults' = faults
  BY DEF Acquire
<1>4. FileOf(call[w]) \in Files
  BY <1>3, CallKinds DEF StoreInv, WritersTyped
<1>5. WritersTyped'
  BY <1>3, <1>4 DEF StoreInv, WritersTyped, Places
<1>6. LocksHeld'
  <2>1. ASSUME NEW v \in Writers, NEW f \in Files
        PROVE  lock'[f] = v <=> pc'[v] \in {"locked", "loaded", "leaving"} /\ FileOf(call[v]) = f
    <3>1. lock[f] = v <=> pc[v] \in {"locked", "loaded", "leaving"} /\ FileOf(call[v]) = f
      BY DEF StoreInv, LocksHeld, Inside
    <3>2. lock'[f] = IF f = FileOf(call[w]) THEN w ELSE lock[f]
      BY <1>3, <1>4 DEF StoreInv, WritersTyped
    <3>3. pc'[v] = IF v = w THEN "locked" ELSE pc[v]
      BY <1>3 DEF StoreInv, WritersTyped
    <3>4. QED  BY <1>3, <1>4, <3>1, <3>2, <3>3, StoresAssumption
  <2>2. QED  BY <2>1, <1>3 DEF LocksHeld, Inside
<1>7. ReadsCurrent'
  BY <1>2, <1>3 DEF StoreInv, WritersTyped, ReadsCurrent
<1>8. QED  BY <1>2, <1>5, <1>6, <1>7 DEF StoreInv

LEMMA GiveUpKeeps ==
  ASSUME StoreInv, NEW w \in Writers, GiveUp(w)
  PROVE  StoreInv'
<1>2. /\ FilesTyped' /\ \A f : Content(f)' = Content(f)
  BY FilesKept DEF GiveUp
<1>3. /\ pc[w] = "waiting" /\ pc' = [pc EXCEPT ![w] = "idle"]
      /\ call' = [call EXCEPT ![w] = None]
      /\ clock' = clock /\ lock' = lock /\ seen' = seen /\ faults' = faults
  BY DEF GiveUp
<1>4. WritersTyped'
  BY <1>3 DEF StoreInv, WritersTyped, Places
<1>5. LocksHeld'
  BY <1>3 DEF StoreInv, WritersTyped, LocksHeld, Inside
<1>6. ReadsCurrent'
  BY <1>2, <1>3 DEF StoreInv, WritersTyped, ReadsCurrent
<1>7. QED  BY <1>2, <1>4, <1>5, <1>6 DEF StoreInv

LEMMA LoadKeeps ==
  ASSUME StoreInv, NEW w \in Writers, Load(w)
  PROVE  StoreInv'
<1> DEFINE content == Content(FileOf(call[w]))
<1>2. /\ FilesTyped' /\ \A f : Content(f)' = Content(f)
  BY FilesKept DEF Load
<1>3. /\ pc[w] = "locked"
      /\ clock' = clock /\ lock' = lock /\ call' = call /\ faults' = faults
      /\ \/ /\ Goes(call[w], content)
            /\ seen' = [seen EXCEPT ![w] = content] /\ pc' = [pc EXCEPT ![w] = "loaded"]
         \/ seen' = seen /\ pc' = [pc EXCEPT ![w] = "leaving"]
  BY DEF Load
<1>4. WritersTyped'
  <2> HIDE DEF content
  <2>1. QED  BY <1>3 DEF StoreInv, WritersTyped, Places
<1>5. LocksHeld'
  <2> HIDE DEF content
  <2>1. QED  BY <1>3 DEF StoreInv, WritersTyped, LocksHeld, Inside
<1>6. ReadsCurrent'
  <2>1. ASSUME NEW v \in Writers, pc'[v] = "loaded"
        PROVE  seen'[v] = Content(FileOf(call[v])) /\ Goes(call[v], seen'[v])
    <3>1. CASE v = w
      <4>1. pc'[w] = "loaded" => seen'[w] = content /\ Goes(call[w], content)
        <5> HIDE DEF content
        <5>1. QED  BY <1>3 DEF StoreInv, WritersTyped
      <4>2. QED  BY <2>1, <3>1, <4>1
    <3>2. CASE v # w
      <4>1. pc[v] = "loaded" /\ seen'[v] = seen[v]
        <5> HIDE DEF content
        <5>1. QED  BY <1>3, <2>1, <3>2 DEF StoreInv, WritersTyped
      <4>2. QED  BY <4>1 DEF StoreInv, ReadsCurrent
    <3>3. QED  BY <3>1, <3>2
  <2>2. QED  BY <1>2, <1>3, <2>1 DEF ReadsCurrent
<1>7. QED  BY <1>2, <1>4, <1>5, <1>6 DEF StoreInv

(* Replacing a file is one of the updates the registries allow, made to the *)
(* state that is there.                                                     *)
LEMMA StoreUpdates ==
  ASSUME StoreInv, NEW w \in Writers, Store(w)
  PROVE  \/ /\ FileOf(call[w]) = "switches"
            /\ \E s \in SwitchIds, record \in SetRecords : Controls!MoveSwitch(s, record)
         \/ /\ FileOf(call[w]) = "approvals"
            /\ \/ \E evidence \in Evidence : Controls!Bind(evidence)
               \/ \E a \in ApprovalIds : Controls!Withdraw(a)
<1> DEFINE c == call[w]
           s == seen[w]
<1>1. /\ c \in Calls[w] /\ s = Content(FileOf(c)) /\ Goes(c, s)
  BY DEF Store, StoreInv, WritersTyped, ReadsCurrent
<1>2. CASE c.op = "set"
  <2>1. c \in SetCall /\ c.record \in SetRecords
    BY <1>1, <1>2, CallKinds
  <2>2. c.switch \in SwitchIds
    BY <2>1 DEF SetCall
  <2>3. FileOf(c) = "switches" /\ s.switches = switches
    BY <1>1, <1>2 DEF FileOf, Content
  <2>4. /\ switches' = [s.switches EXCEPT ![c.switch] = c.record]
        /\ UNCHANGED <<approvals, revoked>>
    BY <1>2 DEF Store
  <2>5. s.switches[c.switch] # Absent => c.record.changedAt > s.switches[c.switch].changedAt
    BY <1>1, <1>2 DEF Goes
  <2> HIDE DEF c, s
  <2>6. Controls!MoveSwitch(c.switch, c.record)
    BY <2>3, <2>4, <2>5 DEF Controls!MoveSwitch
  <2>7. QED  BY <2>1, <2>2, <2>3, <2>6 DEF c
<1>3. CASE c.op = "issue"
  <2>1. c \in IssueCall
    BY <1>1, <1>3, CallKinds
  <2>2. c.evidence \in Evidence
    BY <2>1 DEF IssueCall
  <2>3. FileOf(c) = "approvals" /\ s.approvals = approvals /\ s.revoked = revoked
    BY <1>1, <1>3 DEF FileOf, Content
  <2>4. /\ approvals' = [s.approvals EXCEPT ![c.evidence.id] = c.evidence]
        /\ revoked' = s.revoked /\ UNCHANGED switches
    BY <1>3 DEF Store
  <2>5. s.approvals[c.evidence.id] = Absent
    BY <1>1, <1>3 DEF Goes
  <2> HIDE DEF c, s
  <2>6. Controls!Bind(c.evidence)
    BY <2>3, <2>4, <2>5 DEF Controls!Bind
  <2>7. QED  BY <2>2, <2>3, <2>6 DEF c
<1>4. CASE c.op = "revoke"
  <2>1. c \in RevokeCall
    BY <1>1, <1>4, CallKinds
  <2>2. c.id \in ApprovalIds
    BY <2>1 DEF RevokeCall
  <2>3. FileOf(c) = "approvals" /\ s.approvals = approvals /\ s.revoked = revoked
    BY <1>1, <1>4 DEF FileOf, Content
  <2>4. /\ approvals' = s.approvals /\ revoked' = s.revoked \cup {c.id}
        /\ UNCHANGED switches
    BY <1>4 DEF Store
  <2>5. s.approvals[c.id] # Absent
    BY <1>1, <1>4 DEF Goes
  <2> HIDE DEF c, s
  <2>6. Controls!Withdraw(c.id)
    BY <2>3, <2>4, <2>5 DEF Controls!Withdraw
  <2>7. QED  BY <2>2, <2>3, <2>6 DEF c
<1>5. QED  BY <1>1, <1>2, <1>3, <1>4, CallKinds

LEMMA StoreKeeps ==
  ASSUME StoreInv, NEW w \in Writers, Store(w)
  PROVE  StoreInv'
<1>1. /\ pc[w] = "loaded" /\ pc' = [pc EXCEPT ![w] = "leaving"]
      /\ seen' = [seen EXCEPT ![w] = None]
      /\ clock' = clock /\ lock' = lock /\ call' = call /\ faults' = faults
  BY DEF Store
<1>2. FilesTyped'
  <2>1. FilesTyped
    BY DEF StoreInv
  <2>2. ASSUME NEW s \in SwitchIds, NEW record \in SetRecords, Controls!MoveSwitch(s, record)
        PROVE  FilesTyped'
    BY <2>1, <2>2 DEF FilesTyped, Controls!MoveSwitch
  <2>3. ASSUME NEW evidence \in Evidence, Controls!Bind(evidence)
        PROVE  FilesTyped'
    BY <2>1, <2>3, StoresAssumption DEF FilesTyped, Controls!Bind
  <2>4. ASSUME NEW a \in ApprovalIds, Controls!Withdraw(a)
        PROVE  FilesTyped'
    BY <2>1, <2>4 DEF FilesTyped, Controls!Withdraw
  <2>5. QED  BY <2>2, <2>3, <2>4, StoreUpdates
<1>3. WritersTyped'
  BY <1>1 DEF StoreInv, WritersTyped, Places
<1>4. LocksHeld'
  BY <1>1 DEF StoreInv, WritersTyped, LocksHeld, Inside
<1>5. ReadsCurrent'
  <2>1. ASSUME NEW v \in Writers, pc'[v] = "loaded"
        PROVE  seen'[v] = Content(FileOf(call[v]))' /\ Goes(call[v], seen'[v])
    <3>1. v # w /\ pc[v] = "loaded" /\ seen'[v] = seen[v]
      BY <1>1, <2>1 DEF StoreInv, WritersTyped
    <3>2. seen[v] = Content(FileOf(call[v])) /\ Goes(call[v], seen[v])
      BY <3>1 DEF StoreInv, ReadsCurrent
    <3>3. FileOf(call[v]) \in Files /\ FileOf(call[w]) \in Files
      BY <3>1, <1>1, CallKinds DEF StoreInv, WritersTyped
    <3>4. FileOf(call[v]) # FileOf(call[w])
      BY <1>1, <3>1, <3>3 DEF StoreInv, LocksHeld, Inside
    <3>5. Content(FileOf(call[v]))' = Content(FileOf(call[v]))
      <4>1. /\ FileOf(call[w]) = "switches" => UNCHANGED <<approvals, revoked>>
            /\ FileOf(call[w]) = "approvals" => UNCHANGED switches
        BY StoreUpdates DEF Controls!MoveSwitch, Controls!Bind, Controls!Withdraw
      <4>2. QED  BY <1>1, <3>3, <3>4, <4>1 DEF Files, Content
    <3>6. QED  BY <3>1, <3>2, <3>5
  <2>2. QED  BY <1>1, <2>1 DEF ReadsCurrent
<1>6. QED  BY <1>2, <1>3, <1>4, <1>5 DEF StoreInv

LEMMA ReleaseKeeps ==
  ASSUME StoreInv, NEW w \in Writers, Release(w)
  PROVE  StoreInv'
<1>1. /\ FilesTyped' /\ \A f : Content(f)' = Content(f)
  BY FilesKept DEF Release
<1>2. /\ pc[w] = "leaving" /\ pc' = [pc EXCEPT ![w] = "idle"]
      /\ lock' = [lock EXCEPT ![FileOf(call[w])] = Free]
      /\ call' = [call EXCEPT ![w] = None]
      /\ clock' = clock /\ seen' = seen /\ faults' = faults
  BY DEF Release
<1>3. FileOf(call[w]) \in Files
  BY <1>2, CallKinds DEF StoreInv, WritersTyped
<1>4. WritersTyped'
  BY <1>2, <1>3 DEF StoreInv, WritersTyped, Places
<1>5. LocksHeld'
  <2>1. ASSUME NEW v \in Writers, NEW f \in Files
        PROVE  lock'[f] = v
               <=> pc'[v] \in {"locked", "loaded", "leaving"} /\ FileOf(call'[v]) = f
    <3>1. /\ lock[f] = v <=> pc[v] \in {"locked", "loaded", "leaving"} /\ FileOf(call[v]) = f
          /\ lock[f] = w <=> pc[w] \in {"locked", "loaded", "leaving"} /\ FileOf(call[w]) = f
      BY DEF StoreInv, LocksHeld, Inside
    <3>2. lock'[f] = IF f = FileOf(call[w]) THEN Free ELSE lock[f]
      BY <1>2, <1>3 DEF StoreInv, WritersTyped
    <3>3. /\ pc'[v] = IF v = w THEN "idle" ELSE pc[v]
          /\ v # w => call'[v] = call[v]
      BY <1>2 DEF StoreInv, WritersTyped
    <3>4. QED  BY <1>2, <1>3, <3>1, <3>2, <3>3, StoresAssumption
  <2>2. QED  BY <2>1 DEF LocksHeld, Inside
<1>6. ReadsCurrent'
  BY <1>1, <1>2 DEF StoreInv, WritersTyped, ReadsCurrent
<1>7. QED  BY <1>1, <1>4, <1>5, <1>6 DEF StoreInv

LEMMA DieKeeps ==
  ASSUME StoreInv, NEW w \in Writers, Die(w)
  PROVE  StoreInv'
<1>1. /\ FilesTyped' /\ \A f : Content(f)' = Content(f)
  BY FilesKept DEF Die
<1>2. /\ faults < MaxFaults /\ faults' = faults + 1 /\ clock' = clock
      /\ pc' = [pc EXCEPT ![w] = "idle"]
      /\ lock' = [f \in Files |-> IF lock[f] = w THEN Orphan ELSE lock[f]]
      /\ call' = [call EXCEPT ![w] = None]
      /\ seen' = [seen EXCEPT ![w] = None]
  BY DEF Die
<1>3. WritersTyped'
  <2>1. faults' \in 0..MaxFaults
    BY <1>2, StoresAssumption DEF StoreInv, WritersTyped
  <2>2. QED  BY <1>2, <2>1 DEF StoreInv, WritersTyped, Places
<1>4. LocksHeld'
  <2>1. ASSUME NEW v \in Writers, NEW f \in Files
        PROVE  lock'[f] = v
               <=> pc'[v] \in {"locked", "loaded", "leaving"} /\ FileOf(call'[v]) = f
    <3>1. lock[f] = v <=> pc[v] \in {"locked", "loaded", "leaving"} /\ FileOf(call[v]) = f
      BY DEF StoreInv, LocksHeld, Inside
    <3>2. lock'[f] = IF lock[f] = w THEN Orphan ELSE lock[f]
      BY <1>2
    <3>3. /\ pc'[v] = IF v = w THEN "idle" ELSE pc[v]
          /\ v # w => call'[v] = call[v]
      BY <1>2 DEF StoreInv, WritersTyped
    <3>4. QED  BY <3>1, <3>2, <3>3, StoresAssumption
  <2>2. QED  BY <2>1 DEF LocksHeld, Inside
<1>5. ReadsCurrent'
  BY <1>1, <1>2 DEF StoreInv, WritersTyped, ReadsCurrent
<1>6. QED  BY <1>1, <1>3, <1>4, <1>5 DEF StoreInv

LEMMA TickKeeps ==
  ASSUME StoreInv, Tick
  PROVE  StoreInv'
<1>1. /\ FilesTyped' /\ \A f : Content(f)' = Content(f)
  BY FilesKept DEF Tick
<1>2. /\ clock < MaxClock /\ clock' = clock + 1
      /\ UNCHANGED <<lock, pc, call, seen, faults>>
  BY DEF Tick
<1>3. WritersTyped'
  BY <1>2, StoresAssumption DEF StoreInv, WritersTyped
<1>4. LocksHeld'
  BY <1>2 DEF StoreInv, LocksHeld, Inside
<1>5. ReadsCurrent'
  BY <1>1, <1>2 DEF StoreInv, ReadsCurrent
<1>6. QED  BY <1>1, <1>3, <1>4, <1>5 DEF StoreInv

LEMMA StoresKeep ==
  ASSUME StoreInv, StoresNext
  PROVE  StoreInv'
BY RequestKeeps, AcquireKeeps, GiveUpKeeps, LoadKeeps, StoreKeeps, ReleaseKeeps, DieKeeps,
   TickKeeps DEF StoresNext, Write

(* The evaluators only read the files; damage is counted with the faults. *)
LEMMA EvaluatorsLeave ==
  ASSUME Next, ~(StoresNext /\ UNCHANGED evalVars)
  PROVE  /\ UNCHANGED <<clock, files, lock, pc, call, seen>>
         /\ faults' = faults \/ (faults < MaxFaults /\ faults' = faults + 1)
<1>1. ASSUME NEW e \in Evaluators, Step(e)
      PROVE  UNCHANGED storeVars
  BY <1>1 DEF Step, Begin, ReadApprovals, Reuse, Build, Publish, DieEvaluating
<1>2. ASSUME NEW k \in DOMAIN artifacts, Damage(k)
      PROVE  /\ UNCHANGED <<clock, files, lock, pc, call, seen>>
             /\ faults' = faults + 1 /\ faults < MaxFaults
  BY <1>2 DEF Damage
<1>3. QED  BY <1>1, <1>2 DEF Next, storeVars, files

LEMMA StoreInvHolds == Spec => []StoreInv
<1>1. Init => StoreInv
  BY StoreInvInit DEF Init
<1>2. StoreInv /\ [Next]_vars => StoreInv'
  <2> SUFFICES ASSUME StoreInv, [Next]_vars PROVE StoreInv'
    OBVIOUS
  <2>1. CASE StoresNext
    BY <2>1, StoresKeep
  <2>2. CASE UNCHANGED vars
    BY <2>2 DEF vars, storeVars, StoreInv, FilesTyped, WritersTyped, LocksHeld, ReadsCurrent,
                Inside, Content
  <2>3. CASE Next /\ ~StoresNext
    <3>1. /\ UNCHANGED <<clock, files, lock, pc, call, seen>>
          /\ faults' = faults \/ (faults < MaxFaults /\ faults' = faults + 1)
      BY <2>3, EvaluatorsLeave
    <3>2. faults' \in 0..MaxFaults
      BY <3>1, StoresAssumption DEF StoreInv, WritersTyped
    <3>3. QED
      BY <3>1, <3>2 DEF files, StoreInv, FilesTyped, WritersTyped, LocksHeld, ReadsCurrent,
                        Inside, Content
  <2>4. QED  BY <2>1, <2>2, <2>3
<1>3. QED  BY <1>1, <1>2, PTL DEF Spec

(* The lock files make every update of the two state files atomic: no update is   *)
(* lost, none is made to a state that changed since it was checked, whatever the  *)
(* commands, and whoever dies where.                                              *)
THEOREM StoresAreAtomicHolds == Spec => StoresAreAtomic
<1>1. Init => Controls!ControlsInit
  BY DEF Init, StoresInit, Controls!ControlsInit
<1>2. StoreInv /\ [Next]_vars => [Controls!ControlsNext]_(Controls!controls)
  <2> SUFFICES ASSUME StoreInv, [Next]_vars
               PROVE  Controls!ControlsNext \/ UNCHANGED <<switches, approvals, revoked>>
    BY DEF Controls!controls
  <2>1. ASSUME NEW w \in Writers, Store(w)
        PROVE  Controls!ControlsNext
    BY <2>1, StoreUpdates DEF Controls!ControlsNext
  <2>2. ASSUME StoresNext, \A w \in Writers : ~Store(w)
        PROVE  UNCHANGED <<switches, approvals, revoked>>
    BY <2>2 DEF StoresNext, Write, Request, Acquire, GiveUp, Load, Release, Die, Tick, files
  <2>3. QED  BY <2>1, <2>2, EvaluatorsLeave DEF vars, storeVars, files
<1>3. QED  BY <1>1, <1>2, StoreInvHolds, PTL DEF Spec, StoresAreAtomic, Controls!ControlsSpec

-----------------------------------------------------------------------------
(* The evaluators. *)

AllRead == {"switches", "approvals", "revoked"}

(* Whoever knows the controls: an evaluation under way, or one that answered. *)
Judging(e) == epc[e] \in {"decided", "built"} \/ answer[e] # None

EvalInv ==
  /\ epc \in [Evaluators -> {"idle", "reading", "decided", "built"}]
  /\ began = [e \in Evaluators |-> began[e]]
  /\ saw = [e \in Evaluators |-> saw[e]]
  /\ answer = [e \in Evaluators |-> answer[e]]
  /\ \A k \in DOMAIN artifacts : DOMAIN k = AllRead
  /\ \A e \in Evaluators :
       /\ epc[e] # "idle" => answer[e] = None
       /\ epc[e] \in {"decided", "built"} => DOMAIN saw[e] = AllRead
       /\ answer[e] # None => answer[e] = Decision(saw[e])

(* What was read stays true as far as the registries only grow: the switches are *)
(* those of the beginning, what was revoked is, what was bound is.               *)
Follows(e) ==
  /\ (epc[e] # "idle" \/ answer[e] # None)
     => /\ DOMAIN began[e].switches = SwitchIds
        /\ saw[e].switches = began[e].switches
        /\ began[e].revoked \subseteq revoked
  /\ Judging(e)
     => /\ began[e].revoked \subseteq saw[e].revoked
        /\ \A a \in ApprovalIds :
             saw[e].approvals[a] # Absent => approvals[a] = saw[e].approvals[a]

FollowInv == \A e \in Evaluators : Follows(e)

(* What a step of one evaluator does not touch. *)
LEMMA OthersStay ==
  ASSUME EvalInv, NEW e \in Evaluators, Step(e), NEW v \in Evaluators, v # e
  PROVE  /\ epc'[v] = epc[v] /\ began'[v] = began[v]
         /\ saw'[v] = saw[v] /\ answer'[v] = answer[v]
BY DEF EvalInv, Step, Begin, ReadApprovals, Reuse, Build, Publish, DieEvaluating, Answers, Fails

LEMMA EvalInvStep ==
  ASSUME EvalInv, NEW e \in Evaluators, Step(e)
  PROVE  EvalInv'
<1>1. ASSUME /\ epc' \in [Evaluators -> {"idle", "reading", "decided", "built"}]
             /\ began' = [v \in Evaluators |-> began'[v]]
             /\ saw' = [v \in Evaluators |-> saw'[v]]
             /\ answer' = [v \in Evaluators |-> answer'[v]],
             \A k \in DOMAIN artifacts' : DOMAIN k = AllRead,
             epc'[e] # "idle" => answer'[e] = None,
             epc'[e] \in {"decided", "built"} => DOMAIN saw'[e] = AllRead,
             answer'[e] # None => answer'[e] = Decision(saw'[e])
      PROVE  EvalInv'
  <2>1. ASSUME NEW v \in Evaluators
        PROVE  /\ epc'[v] # "idle" => answer'[v] = None
               /\ epc'[v] \in {"decided", "built"} => DOMAIN saw'[v] = AllRead
               /\ answer'[v] # None => answer'[v] = Decision(saw'[v])
    <3>1. CASE v = e
      BY <1>1, <3>1
    <3>2. CASE v # e
      BY <3>2, OthersStay DEF EvalInv
    <3>3. QED  BY <3>1, <3>2
  <2>2. \A v \in Evaluators : Decision(saw[v])' = Decision(saw'[v])
    BY DEF Decision, Judge
  <2>3. QED  BY <1>1, <2>1, <2>2 DEF EvalInv
<1>2. CASE Begin(e)
  BY <1>1, <1>2 DEF Begin, EvalInv
<1>3. CASE ReadApprovals(e)
  BY <1>1, <1>3 DEF ReadApprovals, EvalInv, AllRead
<1>4. CASE Reuse(e)
  <2>1. CASE Sound(saw[e]) /\ Answers(e, artifacts[saw[e]])
    <3>1. artifacts[saw[e]] = Decision(saw[e])
      BY <2>1 DEF Sound
    <3> HIDE DEF Decision
    <3>2. QED  BY <1>1, <1>4, <2>1, <3>1 DEF Reuse, Answers, EvalInv
  <2>2. CASE Fails(e)
    BY <1>1, <1>4, <2>2 DEF Reuse, Fails, EvalInv
  <2>3. QED  BY <1>4, <2>1, <2>2 DEF Reuse
<1>5. CASE Build(e)
  BY <1>1, <1>5 DEF Build, EvalInv
<1>6. CASE Publish(e)
  <2>1. CASE Fails(e) /\ UNCHANGED artifacts
    <3>1. epc[e] = "built"
      BY <1>6 DEF Publish
    <3>2. QED  BY <1>1, <2>1, <3>1 DEF Fails, EvalInv
  <2>2. CASE ~(Fails(e) /\ UNCHANGED artifacts)
    <3>1. /\ epc[e] = "built"
          /\ DOMAIN artifacts' = DOMAIN artifacts \cup {saw[e]}
          /\ Answers(e, Decision(saw[e]))
      BY <1>6, <2>2 DEF Publish
    <3>2. DOMAIN saw[e] = AllRead
      BY <3>1 DEF EvalInv
    <3>3. QED  BY <1>1, <3>1, <3>2 DEF Answers, EvalInv
  <2>3. QED  BY <2>1, <2>2
<1>7. CASE DieEvaluating(e)
  BY <1>1, <1>7 DEF DieEvaluating, Fails, EvalInv
<1>8. QED  BY <1>2, <1>3, <1>4, <1>5, <1>6, <1>7 DEF Step

LEMMA EvalInvHolds == Spec => []EvalInv
<1>1. Init => EvalInv
  BY DEF Init, EvalInv
<1>2. EvalInv /\ [Next]_vars => EvalInv'
  <2> SUFFICES ASSUME EvalInv, [Next]_vars PROVE EvalInv'
    OBVIOUS
  <2>1. CASE UNCHANGED <<artifacts, epc, began, saw, answer>>
    BY <2>1 DEF EvalInv, Decision, Judge
  <2>2. ASSUME NEW e \in Evaluators, Step(e)
        PROVE  EvalInv'
    BY <2>2, EvalInvStep
  <2>3. ASSUME NEW k \in DOMAIN artifacts, Damage(k)
        PROVE  EvalInv'
    <3>1. UNCHANGED <<epc, began, saw, answer>> /\ DOMAIN artifacts' = DOMAIN artifacts
      BY <2>3 DEF Damage
    <3>2. QED  BY <3>1 DEF EvalInv, Decision, Judge
  <2>4. QED  BY <2>1, <2>2, <2>3 DEF Next, vars, evalVars
<1>3. QED  BY <1>1, <1>2, PTL DEF Spec

(* Every answer is the engine's answer to the inputs and the controls it names,  *)
(* whether it was computed or found published, whatever happened to directories. *)
THEOREM AnswersReplayHolds == Spec => []AnswersReplay
<1>1. EvalInv => AnswersReplay
  BY DEF EvalInv, AnswersReplay, Answered
<1>2. QED  BY <1>1, EvalInvHolds, PTL

(* Type correctness of the service and of the state files, with the lock files' *)
(* owners.                                                                      *)
THEOREM ServiceTypeCorrect == Spec => []TypeOK
<1>1. StoreInv /\ EvalInv => TypeOK
  BY DEF StoreInv, FilesTyped, WritersTyped, LocksHeld, Inside, Places, EvalInv, AllRead, TypeOK
<1>2. QED  BY <1>1, StoreInvHolds, EvalInvHolds, PTL

(* The registries only grow. *)
LEMMA ControlsGrow ==
  ASSUME StoreInv, [Next]_vars
  PROVE  /\ revoked \subseteq revoked'
         /\ \A a \in ApprovalIds : approvals[a] # Absent => approvals'[a] = approvals[a]
         /\ DOMAIN switches' = SwitchIds
<1>1. approvals \in [ApprovalIds -> Evidence \cup {Absent}] /\ DOMAIN switches = SwitchIds
  BY DEF StoreInv, FilesTyped
<1>2. ASSUME NEW w \in Writers, Store(w)
      PROVE  /\ revoked \subseteq revoked'
             /\ \A a \in ApprovalIds : approvals[a] # Absent => approvals'[a] = approvals[a]
             /\ DOMAIN switches' = SwitchIds
  BY <1>1, <1>2, StoreUpdates, StoresAssumption
     DEF Controls!MoveSwitch, Controls!Bind, Controls!Withdraw
<1>3. ASSUME StoresNext, \A w \in Writers : ~Store(w)
      PROVE  UNCHANGED <<switches, approvals, revoked>>
  BY <1>3 DEF StoresNext, Write, Request, Acquire, GiveUp, Load, Release, Die, Tick, files
<1>4. QED  BY <1>1, <1>2, <1>3, EvaluatorsLeave DEF vars, storeVars, files

LEMMA FollowInvHolds == Spec => []FollowInv
<1>1. Init => FollowInv
  BY DEF Init, FollowInv, Follows, Judging
<1>2. StoreInv /\ EvalInv /\ FollowInv /\ [Next]_vars => FollowInv'
  <2> SUFFICES ASSUME StoreInv, EvalInv, FollowInv, [Next]_vars, NEW v \in Evaluators
               PROVE  Follows(v)'
    BY DEF FollowInv
  <2>1. /\ revoked \subseteq revoked'
        /\ \A a \in ApprovalIds : approvals[a] # Absent => approvals'[a] = approvals[a]
    BY ControlsGrow
  <2>2. Follows(v)
    BY DEF FollowInv
  <2>3. ASSUME /\ epc'[v] = epc[v] /\ began'[v] = began[v]
               /\ saw'[v] = saw[v] /\ answer'[v] = answer[v]
        PROVE  Follows(v)'
    BY <2>1, <2>2, <2>3 DEF Follows, Judging
  <2>4. CASE Step(v)
    <3>1. UNCHANGED <<switches, approvals, revoked>>
      BY <2>4 DEF Step, Begin, ReadApprovals, Reuse, Build, Publish, DieEvaluating, storeVars
    <3>2. CASE Begin(v)
      <4>1. /\ epc'[v] = "reading" /\ answer'[v] = None
            /\ began'[v] = [switches |-> switches, revoked |-> revoked]
            /\ saw'[v] = [switches |-> switches]
        BY <3>2 DEF Begin, EvalInv
      <4>2. DOMAIN switches = SwitchIds
        BY DEF StoreInv, FilesTyped
      <4>3. QED  BY <3>1, <4>1, <4>2 DEF Follows, Judging
    <3>3. CASE ReadApprovals(v)
      <4>1. /\ epc[v] = "reading" /\ epc'[v] = "decided"
            /\ answer'[v] = answer[v] /\ began'[v] = began[v]
            /\ saw'[v] = [switches |-> saw[v].switches,
                          approvals |-> approvals, revoked |-> revoked]
        BY <3>3 DEF ReadApprovals, EvalInv
      <4>2. QED  BY <2>2, <3>1, <4>1 DEF Follows, Judging
    <3>4. CASE Build(v)
      <4>1. /\ epc[v] = "decided" /\ epc'[v] = "built"
            /\ answer'[v] = answer[v] /\ began'[v] = began[v] /\ saw'[v] = saw[v]
        BY <3>4 DEF Build, EvalInv
      <4>2. QED  BY <2>2, <3>1, <4>1 DEF Follows, Judging
    <3>5. CASE Reuse(v) \/ Publish(v) \/ DieEvaluating(v)
      <4>1. epc[v] # "idle" /\ answer[v] = None
        BY <3>5 DEF Reuse, Publish, DieEvaluating, EvalInv
      <4>2. CASE Fails(v)
        <5>1. epc'[v] = "idle" /\ answer'[v] = None
          BY <4>1, <4>2 DEF Fails, EvalInv
        <5>2. QED  BY <5>1 DEF Follows, Judging
      <4>3. CASE ~Fails(v)
        <5>1. \E decision : Answers(v, decision)
          BY <3>5, <4>3 DEF Reuse, Publish, DieEvaluating
        <5>2. epc[v] \in {"decided", "built"}
          BY <3>5, <4>3 DEF Reuse, Publish, DieEvaluating
        <5>3. began'[v] = began[v] /\ saw'[v] = saw[v] /\ epc'[v] = "idle"
          BY <5>1 DEF Answers, EvalInv
        <5>4. QED  BY <2>2, <3>1, <5>2, <5>3 DEF Follows, Judging
      <4>4. QED  BY <4>2, <4>3
    <3>6. QED  BY <2>4, <3>2, <3>3, <3>4, <3>5 DEF Step
  <2>5. ASSUME NEW e \in Evaluators, Step(e), e # v
        PROVE  Follows(v)'
    BY <2>3, <2>5, OthersStay
  <2>6. CASE ~\E e \in Evaluators : Step(e)
    BY <2>3, <2>6 DEF Next, Damage, vars, evalVars
  <2>7. QED  BY <2>4, <2>5, <2>6
<1>3. QED  BY <1>1, <1>2, StoreInvHolds, EvalInvHolds, PTL DEF Spec

(* A switch that stood when an evaluation began and still stands is obeyed: a    *)
(* hard one lets nothing through, a reduce-only one no position above the one     *)
(* held, whatever is written to the files meanwhile.                             *)
THEOREM StandingSwitchesHoldHolds == Spec => []StandingSwitchesHold
<1>1. EvalInv /\ FollowInv => StandingSwitchesHold
  <2> SUFFICES ASSUME EvalInv, FollowInv,
                      NEW e \in Evaluators, Answered(e), NEW s \in SwitchIds, Concerns(s),
                      switches[s] # Absent, switches[s] = began[e].switches[s],
                      switches[s].active, Lets(answer[e])
               PROVE  /\ switches[s].reduceOnly
                      /\ \A i \in DOMAIN answer[e].positions :
                           answer[e].positions[i] <= Held(Asked.context, i)
    BY DEF StandingSwitchesHold
  <2> DEFINE k == saw[e]
             p == answer[e].positions
             reduceOnly == ReduceOnly(Asked.context, k.switches)
  <2>1. answer[e] = Judge(Asked, k)
    BY DEF EvalInv, Answered, Decision
  <2>2. s \in Applicable(Asked.context, k.switches) /\ k.switches[s] = switches[s]
    BY DEF FollowInv, Follows, Answered, Applicable, Concerns
  <2>3. /\ Usable(Asked.target, Asked.context)
        /\ ControlRefusal(Asked.target, Asked.context, k.switches, k.approvals, k.revoked) = "none"
        /\ Judge(Asked, k) = Allocate(Asked.target, Asked.context, reduceOnly)
        /\ reduceOnly \in BOOLEAN
    <3> HIDE DEF k
    <3>1. QED  BY <2>1, JudgePasses
  <2>4. HardSwitches(Asked.context, k.switches) = {}
    BY <2>3 DEF ControlRefusal
  <2>5. switches[s].reduceOnly
    BY <2>2, <2>4 DEF HardSwitches
  <2>6. reduceOnly = TRUE
    BY <2>2 DEF ReduceOnly
  <2>7. ASSUME NEW i \in DOMAIN p
        PROVE  p[i] <= Held(Asked.context, i)
    <3>1. Lets(Allocate(Asked.target, Asked.context, reduceOnly))
          /\ p = Allocate(Asked.target, Asked.context, reduceOnly).positions
      BY <2>1, <2>3
    <3> HIDE DEF p, reduceOnly
    <3>2. /\ p = [j \in Working(Asked.target, Asked.context) |-> p[j]]
          /\ \A j \in Working(Asked.target, Asked.context) :
               /\ p[j] \in Nat /\ Floor(Asked.context, j) <= p[j]
               /\ p[j] <= Ceiling(Asked.context, j, reduceOnly)
      BY <2>3, <3>1, AllocationMeets
    <3>3. i \in Working(Asked.target, Asked.context)
      BY <3>2
    <3>4. ~(p[i] > Held(Asked.context, i))
      BY <2>3, <2>6, <3>2, <3>3, BetweenIsTradable
    <3>5. Held(Asked.context, i) \in Nat /\ p[i] \in Nat
      BY <2>3, <3>2, <3>3, Amounts
    <3>6. QED  BY <3>4, <3>5
  <2>8. QED  BY <2>5, <2>7
<1>2. QED  BY <1>1, EvalInvHolds, FollowInvHolds, PTL

(* Where approvals are required, no portfolio is let through on one that was      *)
(* revoked before the evaluation began, nor on a document other than the one its  *)
(* id is bound to.                                                                *)
THEOREM RevokedNeverApprovesHolds == Spec => []RevokedNeverApproves
<1>1. EvalInv /\ FollowInv => RevokedNeverApproves
  <2> SUFFICES ASSUME EvalInv, FollowInv,
                      NEW e \in Evaluators, Answered(e), Lets(answer[e]), RequireApproval
               PROVE  LET a == Asked.context.approval IN
                      a # Absent /\ a.id \notin began[e].revoked /\ approvals[a.id] = a
    BY DEF RevokedNeverApproves
  <2> DEFINE k == saw[e]
             a == Asked.context.approval
  <2>1. answer[e] = Judge(Asked, k)
    BY DEF EvalInv, Answered, Decision
  <2>2. ControlRefusal(Asked.target, Asked.context, k.switches, k.approvals, k.revoked) = "none"
    <3> HIDE DEF k
    <3>1. QED  BY <2>1, JudgePasses
  <2>3. ApprovalRefusal(Asked.target, Asked.context, k.approvals, k.revoked) = "none"
    BY <2>2 DEF ControlRefusal
  <2>4. a # Absent /\ a.id \notin k.revoked /\ k.approvals[a.id] = a
    BY <2>3 DEF ApprovalRefusal, Trusted
  <2>5. a.id \in ApprovalIds
    BY <2>4, ServiceAssumption
  <2>6. /\ began[e].revoked \subseteq k.revoked
        /\ \A x \in ApprovalIds : k.approvals[x] # Absent => approvals[x] = k.approvals[x]
    BY DEF FollowInv, Follows, Judging, Answered
  <2>7. QED  BY <2>4, <2>5, <2>6
<1>2. QED  BY <1>1, EvalInvHolds, FollowInvHolds, PTL
=============================================================================
