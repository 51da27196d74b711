----------------------------- MODULE GroundTruth ------------------------------
(***************************************************************************)
(* The reference answers of the data modelling track: parse_events and     *)
(* what it feeds (03-data-modeling/harness/ground_truth.py) replay the     *)
(* event stream of harness/events.py, whose lines stand in the order of    *)
(* their arrival, to the state that held when each price was observed.     *)
(* One product, listed by several shops; prices are left out.              *)
(***************************************************************************)
EXTENDS Naturals, FiniteSets, SequencesExt

CONSTANTS
  Shops, Tiers, Categories,
  FirstTier,      \* what shops register with
  FirstCategory,  \* what the product is discovered with
  MaxDelay,       \* an administrative event arrives that much later at most
  LastTime,       \* bound: the clock
  MaxLines        \* bound: lines after the registrations

(* What the generator spaces by hours or days is further apart than any    *)
(* delay of an administrative event.                                       *)
Gap == MaxDelay + 1

ASSUME ShopsAssumption  == IsFiniteSet(Shops)
ASSUME ValuesAssumption == FirstTier \in Tiers /\ FirstCategory \in Categories
ASSUME DelayAssumption  == {MaxDelay, LastTime, MaxLines} \subseteq Nat

VARIABLES
  today,  \* the time at which lines arrive
  file    \* events.jsonl

streamVars == <<today, file>>

-----------------------------------------------------------------------------
(* The generator.                                                          *)
Line(type, s, t, v) == [type |-> type, shop |-> s, t |-> t, ing |-> today, val |-> v]

Lines(types)      == {l \in ToSet(file) : l.type \in types}
LinesOf(types, s) == {l \in Lines(types) : l.shop = s}

Tier     == {"shop_registered", "shop_tier_changed"}
Discover == {"product_discovered"}
Change   == {"product_attrs_changed"}
Delist   == {"product_delisted"}
Relist   == {"product_relisted"}
Observe  == {"price_observed"}

Registrations == {[type |-> "shop_registered", shop |-> s, t |-> 0, ing |-> 1,
                   val |-> FirstTier] : s \in Shops}

StreamInit == today = 1 /\ file = SetToSeq(Registrations)

Emit(type, s, t, v) == /\ Len(file) < Cardinality(Shops) + MaxLines
                       /\ file' = Append(file, Line(type, s, t, v))
                       /\ UNCHANGED today

(* Times of administrative events that may arrive today.                     *)
Due == {t \in 1 .. today : t < today /\ today <= t + MaxDelay}

After(lines, t) == \A l \in lines : l.t + Gap <= t

ShopTierChanged(s) ==
    \E t \in Due, v \in Tiers :
      /\ After(LinesOf(Tier, s), t)
      /\ \A l \in LinesOf(Tier, s) :
           (\A m \in LinesOf(Tier, s) : m.t <= l.t) => v # l.val
      /\ Emit("shop_tier_changed", s, t, v)

(* Every shop's discovery carries what the product began with.             *)
ProductDiscovered(s) ==
    /\ LinesOf(Discover, s) = {}
    /\ \E t \in Due : Emit("product_discovered", s, t, FirstCategory)

(* Thirty days after its first discovery at least.                         *)
ProductAttrsChanged ==
    /\ Lines(Change) = {}
    /\ \E t \in Due, v \in Categories \ {FirstCategory}, l \in Lines(Discover) :
         /\ After({l}, t)
         /\ Emit("product_attrs_changed", l.shop, t, v)

ProductDelisted(s) ==
    /\ LinesOf(Discover, s) # {} /\ LinesOf(Delist, s) = {}
    /\ \E t \in Due :
         /\ After(LinesOf(Discover, s), t)
         /\ \A l \in LinesOf(Observe, s) : l.t < t
         /\ Emit("product_delisted", s, t, "none")

ProductRelisted(s) ==
    /\ LinesOf(Delist, s) # {} /\ LinesOf(Relist, s) = {}
    /\ \E t \in Due : /\ After(LinesOf(Delist, s), t)
                      /\ Emit("product_relisted", s, t, "none")

(* A price is observed while the listing is active; it may arrive late.    *)
PriceObserved(s) ==
    /\ LinesOf(Discover, s) # {}
    /\ \E t \in 1 .. today - 1 :
         /\ After(LinesOf(Discover, s), t)
         /\ \A l \in LinesOf(Observe, s) : l.t # t
         /\ \A l \in LinesOf(Delist, s) :
              \/ t < l.t
              \/ LinesOf(Relist, s) # {} /\ After(LinesOf(Relist, s), t)
         /\ Emit("price_observed", s, t, "none")

(* A line arrives a second time.                                           *)
Duplicate ==
    \E l \in Lines(Observe) :
      /\ l.ing < today
      /\ \A m \in LinesOf(Observe, l.shop) : m.t = l.t => m = l
      /\ Emit("price_observed", l.shop, l.t, "none")

Tick == today < LastTime /\ today' = today + 1 /\ UNCHANGED file

EndOfStream == today = LastTime /\ UNCHANGED streamVars

StreamNext == \/ ProductAttrsChanged \/ Duplicate \/ Tick \/ EndOfStream
              \/ \E s \in Shops : \/ ShopTierChanged(s) \/ ProductDiscovered(s)
                                  \/ ProductDelisted(s) \/ ProductRelisted(s)
                                  \/ PriceObserved(s)

StreamSpec == StreamInit /\ [][StreamNext]_streamVars

-----------------------------------------------------------------------------
(* The replay.  parse_events collects the lines of a type, in the order of *)
(* their places in the file.                                               *)
Places(types)      == {i \in DOMAIN file : file[i].type \in types}
PlacesOf(types, s) == {i \in Places(types) : file[i].shop = s}

(* Sorted by event time; sort is stable.                                   *)
Sooner(i, j) == \/ file[i].t < file[j].t
                \/ file[i].t = file[j].t /\ i <= j

Rank(places, i) == Cardinality({j \in places : Sooner(j, i)})

ByTime(places) == [k \in 1 .. Cardinality(places) |->
                     file[CHOOSE i \in places : Rank(places, i) = k]]

(* Entities.finalize: breakpoints, in the order of their times.            *)
TierBreakpoints(s) == ByTime(PlacesOf(Tier, s))

CategoryBreakpoints == <<ByTime(Places(Discover))[1]>> \o ByTime(Places(Change))

(* Mutant: bisect_left, a change at the very time does not count.          *)
BisectLeft(bp, t) == Cardinality({i \in DOMAIN bp : bp[i].t < t})

BisectRight(bp, t) == Cardinality({i \in DOMAIN bp : bp[i].t <= t})

(* vals[searchsorted(times, t, "right") - 1]; index -1 is the last one.    *)
AsOf(bp, t) == LET i == BisectRight(bp, t)
               IN  IF i = 0 THEN bp[Len(bp)].val ELSE bp[i].val

(* build_observation_arrays: after the stable sort, the first of equals.   *)
Dedup(s) ==
    LET obs == ByTime(PlacesOf(Observe, s))
    IN  {obs[i] : i \in {j \in DOMAIN obs : j = 1 \/ obs[j].t # obs[j - 1].t}}

(* enrich_and_group_by_listing                                             *)
Enriched(s) == {[t |-> o.t, ing |-> o.ing,
                 tier |-> AsOf(TierBreakpoints(s), o.t),
                 category |-> AsOf(CategoryBreakpoints, o.t)] : o \in Dedup(s)}

(* q01: the last event of a listing says whether it is active.             *)
Active(s) == LET events == ByTime(PlacesOf(Delist \cup Relist, s))
             IN  /\ PlacesOf(Discover, s) # {}
                 /\ events # <<>> => events[Len(events)].type \in Relist

-----------------------------------------------------------------------------
(* Types of the lines.                                                     *)
LineTypes == Tier \cup Discover \cup Change \cup Delist \cup Relist \cup Observe
LineValues == Tiers \cup Categories \cup {"none"}

StreamTypeOK ==
    /\ today \in Nat
    /\ file \in Seq([type : LineTypes, shop : Shops, t : Nat, ing : Nat,
                     val : LineValues])

(* The semantics in the docstring of ground_truth.py (8-24): fold all the  *)
(* events of an entity with event_time <= t, in event_time order.          *)
Fold(lines, t, first) ==
    LET past == {l \in lines : l.t <= t}
    IN  IF past = {} THEN first
        ELSE (CHOOSE l \in past : \A m \in past : m.t <= l.t).val

(* Every observed price comes out once, with its first arrival and with    *)
(* the state of shop and product at its event time, whatever came late or  *)
(* twice and in whatever order shops discovered the product; a listing is  *)
(* active unless it was delisted and not relisted.                         *)
RowsFollowSemantics ==
    \A s \in Shops :
      LET observed == {l.t : l \in LinesOf(Observe, s)}
      IN  /\ Enriched(s) =
               {[t |-> t,
                 ing |-> CHOOSE i \in 0 .. today :
                           /\ \E l \in LinesOf(Observe, s) : l.t = t /\ l.ing = i
                           /\ \A l \in LinesOf(Observe, s) : l.t = t => i <= l.ing,
                 tier |-> Fold(LinesOf(Tier, s), t, "none"),
                 category |-> Fold(Lines(Change), t, FirstCategory)] : t \in observed}
          /\ Active(s) <=> /\ LinesOf(Discover, s) # {}
                           /\ \A d \in LinesOf(Delist, s) :
                                \E r \in LinesOf(Relist, s) : r.t > d.t

-----------------------------------------------------------------------------
(* The inductive invariant behind it: what the generator keeps to, and the *)
(* replay relies on.                                                       *)

(* Lines stand in the order of their arrival.                              *)
ArrivalsAscend ==
    \A i, j \in DOMAIN file : i <= j => file[i].ing <= file[j].ing /\ file[j].ing <= today

(* A shop has a tier from the start, and one at a time.                    *)
TiersAreApart ==
    \A s \in Shops :
      /\ \E i \in PlacesOf(Tier, s) : file[i].t = 0
      /\ \A i, j \in PlacesOf(Tier, s) : file[i].t = file[j].t => i = j

(* Shops discover the product as it began, before they see a price of it   *)
(* and before it changes, which it does once.                              *)
DiscoveredFirst ==
    /\ \A i \in Places(Discover) : file[i].val = FirstCategory
    /\ \A i \in Places(Change) \cup Places(Observe) :
         \E j \in Places(Discover) : file[j].t < file[i].t
    /\ \A i, j \in Places(Change) : i = j

(* A listing ends once, and may then begin again once.                     *)
ListingIsSequential ==
    \A s \in Shops :
      /\ \A i, j \in PlacesOf(Delist, s) : i = j
      /\ \A i, j \in PlacesOf(Relist, s) : i = j
      /\ \A i \in PlacesOf(Relist, s) :
           \E j \in PlacesOf(Delist, s) : file[j].t < file[i].t

StreamInv == /\ StreamTypeOK /\ ArrivalsAscend /\ TiersAreApart
             /\ DiscoveredFirst /\ ListingIsSequential

=============================================================================
